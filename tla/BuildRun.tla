-------------------------------- MODULE BuildRun --------------------------------
(***************************************************************************)
(* What one build leaves behind and whom it tells: the solana-verify       *)
(* process, its log files, the `build_logs` row, the end of the `builds`   *)
(* row, and the requester's webhook (build/mod.rs: run_build, execute,     *)
(* post_webhook; build/logs.rs; api/handlers/logs.rs, job_status.rs).      *)
(*                                                                         *)
(* Requests ask for the current PDA of one program, whose args others      *)
(* publish anew.  The lookup of the duplicate and the insert are one step  *)
(* here (module VerifyRequest has the race), and what execute does to      *)
(* `program_state` is in module BuildJob.                                  *)
(***************************************************************************)
EXTENDS OtterParams, FiniteSets

CONSTANTS
    MaxBuilds,      \* bound: rows of `builds`
    MaxCrashes,     \* bound: restarts
    PdaArgs,        \* the args a PDA may hold at first
    RequestedArgs,  \* bound: those of them that requests meet
    Outputs         \* bound: stderr and stdout of a process that fails

ASSUME NoneAssumption == None \notin {"", "text", "hash"}
ASSUME BuildsAssumption == MaxBuilds \in Nat
ASSUME CrashesAssumption == MaxCrashes \in Nat
ASSUME ArgsAssumption == RequestedArgs \subseteq PdaArgs /\ PdaArgs \subseteq Seq(Arg)

BuildIds == 1..MaxBuilds
WEBHOOK_RETRIES == 3
Texts == {"", "text"}       \* an output of the process, or a file's content

ASSUME OutputsAssumption == Outputs \subseteq Texts \X Texts

VARIABLES
    args,       \* the args of the PDA
    builds,     \* the rows: status, executable_hash and the dedupe columns
    job,        \* the locals of execute
    logs,       \* the files of a build's log id, and its build_logs row
    inbox,      \* the payloads a build's requester has received
    crashes,
    ran,        \* history: the command of a build
    output,     \* history: the texts of a process that failed
    answered,   \* history: the args of the requests a build answered
    harmed      \* history: whether a build has lost logs, its last statement,
                \* or the client that posts

table_vars == <<builds, logs>>
history_vars == <<ran, answered, output>>
vars == <<args, table_vars, job, inbox, crashes, history_vars, harmed>>

NoRow == [status |-> "absent", executable_hash |-> None, key |-> None]
NoLogs == [err |-> None, out |-> None, row |-> FALSE]

\* url: a webhook_url was given.  hash, is_verified, err and out are what the
\* process put out; tries counts the POSTs.
Idle == [pc |-> "idle", url |-> FALSE, hash |-> None, is_verified |-> FALSE,
         err |-> "", out |-> "", tries |-> 0]

Init ==
    /\ args \in PdaArgs
    /\ builds = [b \in BuildIds |-> NoRow]
    /\ job = [b \in BuildIds |-> Idle]
    /\ logs = [b \in BuildIds |-> NoLogs]
    /\ inbox = [b \in BuildIds |-> {}]
    /\ crashes = 0
    /\ ran = [b \in BuildIds |-> <<>>]
    /\ output = [b \in BuildIds |-> None]
    /\ answered = [b \in BuildIds |-> {}]
    /\ harmed = [b \in BuildIds |-> {}]

Publish ==
    /\ args' \in RequestedArgs
    /\ UNCHANGED <<table_vars, job, inbox, crashes, history_vars, harmed>>

-----------------------------------------------------------------------------
\* The rows find_duplicate may answer; it takes the latest of them.
find_duplicate(key) ==
    {b \in BuildIds : /\ builds[b].status \notin {"absent", "failed"}
                      /\ builds[b].key = key}

\* A request that a build answers: its webhook_url is not kept.
AnsweredByDuplicate ==
    \E b \in find_duplicate(dedupe_key(NewBuild(args))) :
        /\ \A c \in find_duplicate(dedupe_key(NewBuild(args))) : c <= b
        /\ answered' = [answered EXCEPT ![b] = @ \cup {args}]
        /\ UNCHANGED <<args, table_vars, job, inbox, crashes, ran, output, harmed>>

\* A request that starts a build of the next id.
StartBuild(b) ==
    /\ find_duplicate(dedupe_key(NewBuild(args))) = {}
    /\ builds[b].status = "absent"
    /\ \A c \in 1..(b - 1) : builds[c].status # "absent"
    /\ builds' = [builds EXCEPT ![b] =
          [status |-> "in_progress", executable_hash |-> None,
           key |-> dedupe_key(NewBuild(args))]]
    /\ \E url \in BOOLEAN :
          job' = [job EXCEPT ![b] = [Idle EXCEPT !.pc = "run", !.url = url]]
    /\ ran' = [ran EXCEPT ![b] = build_command(NewBuild(args))]
    /\ answered' = [answered EXCEPT ![b] = {args}]
    /\ UNCHANGED <<args, logs, inbox, crashes, output, harmed>>

Request ==
    /\ args \in RequestedArgs
    /\ AnsweredByDuplicate \/ \E b \in BuildIds : StartBuild(b)

-----------------------------------------------------------------------------
(* The task of build b.                                                    *)

At(b, pc) == job[b].pc = pc
Goes(b, pc) == job' = [job EXCEPT ![b].pc = pc]
Forgets(b, pc) ==
    job' = [job EXCEPT ![b].pc = pc, ![b].err = "", ![b].out = ""]
Harm(b, what) == harmed' = [harmed EXCEPT ![b] = @ \cup {what}]

JobFrame == UNCHANGED <<args, crashes, history_vars>>

\* The process cannot be started, or its stdin or its wait fails: no logs.
SpawnFails(b) ==
    /\ At(b, "run") /\ Goes(b, "fail")
    /\ UNCHANGED <<table_vars, inbox, harmed>> /\ JobFrame

ExitsWithError(b) ==
    /\ At(b, "run")
    /\ \E o \in Outputs :
          /\ job' = [job EXCEPT ![b].pc = "write_err", ![b].err = o[1],
                                ![b].out = o[2]]
          /\ output' = [output EXCEPT ![b] = o]
    /\ UNCHANGED <<args, table_vars, inbox, crashes, ran, answered, harmed>>

\* An output without the line of the executable hash has the hash "".
Exits(b) ==
    /\ At(b, "run")
    /\ \E hash \in {"", "hash"} : \E equal \in BOOLEAN :
          job' = [job EXCEPT ![b].pc = "complete", ![b].hash = hash,
                             ![b].is_verified = hash # "" /\ equal]
    /\ UNCHANGED <<table_vars, inbox, harmed>> /\ JobFrame

\* write_logs: stdout only once stderr is written.  A failure is logged.
WriteErr(b) ==
    /\ At(b, "write_err")
    /\ \/ /\ logs' = [logs EXCEPT ![b].err = job[b].err]
          /\ Goes(b, "write_out") /\ UNCHANGED harmed
       \/ Forgets(b, "log_row") /\ Harm(b, "logs") /\ UNCHANGED logs
    /\ UNCHANGED <<builds, inbox>> /\ JobFrame

WriteOut(b) ==
    /\ At(b, "write_out")
    /\ \/ logs' = [logs EXCEPT ![b].out = job[b].out] /\ UNCHANGED harmed
       \/ Harm(b, "logs") /\ UNCHANGED logs
    /\ Forgets(b, "log_row")
    /\ UNCHANGED <<builds, inbox>> /\ JobFrame

\* insert_build_log, a failure of which is logged.
InsertLogRow(b) ==
    /\ At(b, "log_row")
    /\ \/ logs' = [logs EXCEPT ![b].row = TRUE] /\ UNCHANGED harmed
       \/ Harm(b, "logs") /\ UNCHANGED logs
    /\ Goes(b, "fail")
    /\ UNCHANGED <<builds, inbox>> /\ JobFrame

\* The end of the row is recorded, or the statement's failure is logged; then
\* the requester is told, if there is a URL.
Ends(b, row) ==
    /\ \/ builds' = [builds EXCEPT ![b] = row] /\ UNCHANGED harmed
       \/ Harm(b, "end") /\ UNCHANGED builds
    /\ Goes(b, IF job[b].url THEN "post" ELSE "done")
    /\ UNCHANGED <<logs, inbox>> /\ JobFrame

\* Mutant: an unrecorded failure is not reported either.
fail_returns_early(b) ==
    /\ At(b, "fail")
    /\ \/ /\ builds' = [builds EXCEPT ![b].status = "failed"]
          /\ Goes(b, IF job[b].url THEN "post" ELSE "done")
          /\ UNCHANGED harmed
       \/ Harm(b, "end") /\ Goes(b, "done") /\ UNCHANGED builds
    /\ UNCHANGED <<logs, inbox>> /\ JobFrame

MarkFailed(b) ==
    At(b, "fail") /\ Ends(b, [builds[b] EXCEPT !.status = "failed"])

MarkCompleted(b) ==
    /\ At(b, "complete")
    /\ Ends(b, [builds[b] EXCEPT !.status = "completed",
                                 !.executable_hash = job[b].hash])

\* Mutant: a payload without a hash is a failure.
payload_by_hash(b) ==
    [status |-> IF job[b].hash \in {None, ""} THEN "failed" ELSE "completed",
     is_verified |-> job[b].is_verified, executable_hash |-> job[b].hash]

\* VerificationWebhookPayload: of the outcome, not of the row.
Payload(b) ==
    [status |-> IF job[b].hash = None THEN "failed" ELSE "completed",
     is_verified |-> job[b].is_verified, executable_hash |-> job[b].hash]

\* Mutant: one POST too many.
post_four_times(b) ==
    /\ At(b, "post")
    /\ \E arrives, succeeds \in BOOLEAN :
          /\ succeeds => arrives
          /\ inbox' = IF arrives THEN [inbox EXCEPT ![b] = @ \cup {Payload(b)}]
                      ELSE inbox
          /\ job' = [job EXCEPT
                ![b].pc = IF succeeds \/ job[b].tries = WEBHOOK_RETRIES
                          THEN "done" ELSE "post",
                ![b].tries = @ + 1]
    /\ UNCHANGED <<table_vars, harmed>> /\ JobFrame

\* One POST: it may arrive although its answer does not, and is then repeated.
Post(b) ==
    /\ At(b, "post")
    /\ \E arrives, succeeds \in BOOLEAN :
          /\ succeeds => arrives
          /\ inbox' = IF arrives THEN [inbox EXCEPT ![b] = @ \cup {Payload(b)}]
                      ELSE inbox
          /\ job' = [job EXCEPT
                ![b].pc = IF succeeds \/ job[b].tries + 1 = WEBHOOK_RETRIES
                          THEN "done" ELSE "post",
                ![b].tries = @ + 1]
    /\ UNCHANGED <<table_vars, harmed>> /\ JobFrame

\* post_webhook returns before its first POST if reqwest builds no client.
NoClient(b) ==
    /\ At(b, "post") /\ job[b].tries = 0
    /\ Goes(b, "done") /\ Harm(b, "client")
    /\ UNCHANGED <<table_vars, inbox>> /\ JobFrame

JobStep(b) ==
    \/ SpawnFails(b) \/ ExitsWithError(b) \/ Exits(b)
    \/ WriteErr(b) \/ WriteOut(b) \/ InsertLogRow(b)
    \/ MarkFailed(b) \/ MarkCompleted(b)
    \/ NoClient(b) \/ Post(b)

\* Mutant: the startup cleanup has lost its WHERE.
restart_fails_all ==
    /\ crashes < MaxCrashes
    /\ crashes' = crashes + 1
    /\ job' = [b \in BuildIds |-> Idle]
    /\ builds' = [b \in BuildIds |->
          IF builds[b].status # "absent"
          THEN [builds[b] EXCEPT !.status = "failed"] ELSE builds[b]]
    /\ harmed' = [b \in BuildIds |->
          IF job[b].pc \in {"idle", "done"} THEN harmed[b]
          ELSE harmed[b] \cup {"logs"}]
    /\ UNCHANGED <<args, logs, inbox, history_vars>>

\* The process dies with its tasks; the startup fails what was in progress.
CrashRestart ==
    /\ crashes < MaxCrashes
    /\ crashes' = crashes + 1
    /\ job' = [b \in BuildIds |-> Idle]
    /\ builds' = [b \in BuildIds |->
          IF builds[b].status = "in_progress"
          THEN [builds[b] EXCEPT !.status = "failed"] ELSE builds[b]]
    /\ harmed' = [b \in BuildIds |->
          IF job[b].pc \in {"idle", "done"} THEN harmed[b]
          ELSE harmed[b] \cup {"logs"}]
    /\ UNCHANGED <<args, logs, inbox, history_vars>>

Next ==
    \/ Publish \/ Request \/ CrashRestart
    \/ \E b \in BuildIds : JobStep(b)

Spec == Init /\ [][Next]_vars

\* tokio runs the task of a build, and its process ends some time.
FairSpec == Spec /\ \A b \in BuildIds : WF_vars(JobStep(b))

-----------------------------------------------------------------------------
(* What clients read.                                                      *)

\* GET /job/{id}.
get_job_status(b) ==
    [status |-> builds[b].status,
     executable_hash |-> IF builds[b].status = "completed"
                         THEN builds[b].executable_hash ELSE None]

NoTexts == <<"could not find the logs">>
Content(file) == IF file = None THEN "" ELSE file

\* Mutant: an empty text is a missing file.
read_logs_strict(b) ==
    IF Content(logs[b].err) = "" \/ Content(logs[b].out) = "" THEN NoTexts
    ELSE <<Content(logs[b].err), Content(logs[b].out)>>

\* A file that cannot be read is an empty text; two empty texts are an error.
read_logs(b) ==
    IF Content(logs[b].err) = "" /\ Content(logs[b].out) = "" THEN NoTexts
    ELSE <<Content(logs[b].err), Content(logs[b].out)>>

\* GET /logs/{id}.
get_build_logs(b) == IF logs[b].row THEN read_logs(b) ELSE <<"not found">>

-----------------------------------------------------------------------------
(* Every variable has its type. *)
Keys == {dedupe_key(NewBuild(a)) : a \in RequestedArgs}
BuildRows == [status: {"absent", "in_progress", "completed", "failed"},
              executable_hash: {None, "", "hash"}, key: Keys \cup {None}]
JobRows == [pc: {"idle", "run", "write_err", "write_out", "log_row", "fail",
                 "complete", "post", "done"},
            url: BOOLEAN, hash: {None, "", "hash"}, is_verified: BOOLEAN,
            err: Texts, out: Texts, tries: 0..WEBHOOK_RETRIES]
LogRows == [err: Texts \cup {None}, out: Texts \cup {None}, row: BOOLEAN]
Payloads == [status: {"completed", "failed"}, is_verified: BOOLEAN,
             executable_hash: {None, "", "hash"}]
TypeOK ==
    /\ builds \in [BuildIds -> BuildRows]
    /\ job \in [BuildIds -> JobRows]
    /\ logs \in [BuildIds -> LogRows]
    /\ inbox \in [BuildIds -> SUBSET Payloads]
    /\ output \in [BuildIds -> Outputs \cup {None}]
    /\ answered \in [BuildIds -> SUBSET RequestedArgs]
    /\ harmed \in [BuildIds -> SUBSET {"logs", "end", "client"}]

\* The command asks solana-verify for what the PDA's args ask it for, whatever
\* order and which of two flags they have, unless an option other than the sbf
\* one is written --option=value: then it does not (otter.rs:46-105,
\* mod.rs:95-133).
RoundTrip ==
    WellFormed(args) =>
        (ClapParse(build_command(NewBuild(args))) = ClapParse(args)
            <=> ~LosesOption(args))

\* A request is answered by a build only if that build ran its command, but for
\* the cargo-build-sbf args, which the table does not have (db.rs:139-141,
\* 265-302): those are of some request that met the same key.
DuplicatesBuiltTheSame ==
    \A b \in BuildIds : \A a \in answered[b] : \E c \in RequestedArgs :
        ran[b] = build_command(
            [NewBuild(a) EXCEPT
                !.cargo_build_sbf_args = get_cargo_build_sbf_args(c)])

\* Once a build is seen as failed, GET /logs/{id} has all that its process put
\* out, unless a write, a statement or the server failed under it (the logs
\* come first: mod.rs:66-78, 158-161).
FailedHasLogs ==
    \A b \in BuildIds :
        /\ builds[b].status = "failed" /\ output[b] # None
        /\ "logs" \notin harmed[b]
        => get_build_logs(b) = IF output[b] = <<"", "">> THEN NoTexts
                               ELSE output[b]

\* What a requester was told is and stays what GET /job/{id} answers, over
\* repeated POSTs and restarts, unless the statement that ends the row failed;
\* and only a build with a hash is called verified (mod.rs:143-188).
NotifiedTruth ==
    \A b \in BuildIds : \A payload \in inbox[b] :
        /\ "end" \notin harmed[b] =>
              get_job_status(b) = [status |-> payload.status,
                                   executable_hash |-> payload.executable_hash]
        /\ payload.is_verified => payload.executable_hash = "hash"

\* A task that has ended told its requester, or posted three times in vain: no
\* failed write or statement on the way makes it leave without a word.  Only
\* without an HTTP client it posts nothing (mod.rs:64-94, 185-242).
ToldBeforeDone ==
    \A b \in BuildIds :
        /\ At(b, "done") /\ job[b].url
        /\ "client" \notin harmed[b]
        => inbox[b] # {} \/ job[b].tries = WEBHOOK_RETRIES

Lifecycle == INSTANCE BuildLifecycle WITH
    Params <- Keys,
    Results <- {"", "hash"},
    params <- [b \in BuildIds |-> builds[b].key],
    status <- [b \in BuildIds |-> builds[b].status],
    result <- [b \in BuildIds |-> builds[b].executable_hash]

\* The rows live as BuildLifecycle says in this module too, which has the logs,
\* the webhook and the unrecorded ends that module Verifier leaves out.
LifecycleSafe == Lifecycle!Spec

\* Whichever write or statement fails on the way, the requester of a build hears
\* of its end, unless the server dies, three POSTs fail, or there is no HTTP
\* client to make them (mod.rs:185-187, 220-242).
NotifiedEventually ==
    \A b \in BuildIds :
        job[b].url ~> \/ inbox[b] # {}
                      \/ job[b].tries = WEBHOOK_RETRIES
                      \/ "client" \in harmed[b]
                      \/ At(b, "idle")
=============================================================================
