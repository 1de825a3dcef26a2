------------------------------ MODULE Verifier ------------------------------
(***************************************************************************)
(* The whole service: requests, webhooks, builds, the sweep, crashes and   *)
(* the chain it watches, interleaved at every answer of the database and   *)
(* of the RPC node.                                                        *)
(***************************************************************************)
EXTENDS VerifyRequest, Webhooks, BuildJob, Sweep

Init == ChainInit /\ ServerInit

Arrives(t) ==
    \E p \in Programs :
        \/ \E w \in Signers \cup {None} :
              \/ VerifyArrives(t, "verify", p, w)
              \/ VerifyArrives(t, "verify_sync", p, w)
        \/ UnverifyArrives(t, p)
        \/ \E w \in Signers : PdaArrives(t, p, w)

TaskStep(t) == VerifyStep(t) \/ WebhookStep(t)

Next ==
    \/ ChainNext /\ UNCHANGED server_vars
    \/ \E t \in Tasks : Arrives(t) \/ TaskStep(t)
    \/ \E b \in BuildIds : JobStep(b)
    \/ SweepStep
    \/ CrashRestart
    \/ ClientDisconnects

Spec == Init /\ [][Next]_vars

\* tokio runs every task that can go on, a build ends some time, and the
\* ticker starts one cycle after another.
Fairness ==
    /\ \A t \in Tasks : WF_vars(TaskStep(t))
    /\ \A b \in BuildIds : WF_vars(JobStep(b))
    /\ WF_vars(SweepStep)

\* The RPC node does not fail for ever: now and then a whole cycle's
\* snapshots are answered.
RpcRecovers ==
    /\ SF_vars(FetchChunk)
    /\ SF_vars(FetchChunk /\ sweep'.pc # "fetch")

FairSpec == Spec /\ Fairness /\ RpcRecovers

-----------------------------------------------------------------------------
(* Safety.                                                                 *)

\* Every variable has its type.
TypeOK == ChainTypeOK /\ ServerTypeOK

\* The keys that once were p's authority, or were taken for it: those that a
\* transaction on its program data showed once it was frozen.
Authorities(p) == past[p].authorities \cup past[p].shown

\* What a snapshot of p holds was once true of p, or shown by a transaction.
Known(p, snap) ==
    /\ snap.executable_hash \in past[p].hashes \cup {None}
    /\ snap.authority \in Authorities(p) \cup {None}

\* A PDA of this signer once asked for this build.
Claimed(new) ==
    /\ new \in NewBuilds
    /\ <<new.signer, new.source>> \in past[new.program].claims

\* p may be marked closed: it once was, it never had program data, or the call
\* that told so failed.
MayBeClosed(p) == RpcFails \/ chain[p].loader = "legacy" \/ past[p].closed

ChainKnown(p) ==
    /\ chain[p].open => chain[p].hash \in past[p].hashes
    /\ chain[p].authority \in past[p].authorities \cup {None}
    /\ chain[p].newest \in past[p].shown \cup {None}
    /\ ~chain[p].open => past[p].closed
    /\ \A w \in Signers :
        pda[p][w] # None => <<w, pda[p][w]>> \in past[p].claims

\* A row of program_state holds what was once true of its program.
StateKnown(p, row) ==
    /\ row.on_chain_hash \in past[p].hashes \cup {None}
    /\ row.authority \in Authorities(p) \cup {None}
    /\ row.is_closed => MayBeClosed(p)

\* A snapshot says closed only of what was, whatever fails.
SnapKnown(p, snap) ==
    /\ Known(p, snap)
    /\ snap.is_closed => past[p].closed

\* A handler's locals are set when it uses them, and what they hold was once
\* true.
TaskKnown(l) ==
    l.pc # "idle" =>
        /\ l.program \in Programs
        /\ SnapKnown(l.program, l.snap)
        /\ l.hash \in past[l.program].hashes \cup {None}
        /\ l.kind = "pda" => l.signer \in Signers
        /\ l.pc = "unverify" => l.hash # None
        /\ l.pc = "read_pda" => l.kind = "pda"
        /\ l.pc \in {"upsert", "dedupe", "insert"} =>
            Claimed([program |-> l.program, signer |-> l.signer,
                     source |-> l.source])
        /\ l.pc = "mark_closed" => MayBeClosed(l.program)

\* A build was asked for by a PDA, and completed it has its artifact's hash or
\* none.  Its process works on a row that exists, and until the process has
\* ended the build the row is in progress: nobody else ends it.
JobKnown(row, l) ==
    /\ row.status # "absent" =>
        Claimed([program |-> row.program, signer |-> row.signer,
                 source |-> row.source])
    /\ row.status = "completed" =>
        row.executable_hash \in {Artifact[row.source], Empty}
    /\ l.pc = "none" => l = NoJob
    /\ l.pc # "none" => row.status # "absent"
    /\ l.pc \in {"run", "complete", "fail"} => row.status = "in_progress"
    /\ l.pc = "complete" => l.hash \in {Artifact[row.source], Empty}
    /\ l.pc = "upsert" => SnapKnown(row.program, l.snap)
    /\ l.pc = "mark_closed" => MayBeClosed(row.program)

SweepKnown ==
    /\ \A p \in Programs : SnapKnown(p, sweep.snaps[p])
    /\ sweep.pc \in {"has_build", "insert"} => Claimed(SweepNew)
    /\ sweep.pc = "clear" => sweep.program \in Programs

\* Nobody invents anything: every hash, authority and PDA kept in a table or in
\* anybody's locals was once true of its program, or is a key that a transaction
\* on it showed, although rows and locals go stale; a snapshot says closed only
\* of a program that was, and mark_closed follows only on such a one, on a
\* legacy program or on a failed call.  With TypeOK it is inductive.
Provenance ==
    /\ \A p \in Programs : ChainKnown(p) /\ StateKnown(p, program_state[p])
    /\ \A t \in Tasks : TaskKnown(task[t])
    /\ \A b \in BuildIds : JobKnown(builds[b], job[b])
    /\ SweepKnown

\* GET /status says verified only of a program that once ran exactly the
\* artifact of a source which one of these keys published for this very program:
\* a whitelisted one, one that once held the program's authority, or one that a
\* transaction on its program data showed after that was given up.  A row's hash,
\* its authority and its builds come from different handlers at different times.
VerifiedIsSound ==
    \A p \in Programs :
        check_is_verified(program_state[p], builds, p) =>
            \E c \in past[p].claims :
                /\ Artifact[c[2]] = program_state[p].on_chain_hash
                /\ Artifact[c[2]] \in past[p].hashes
                /\ \/ \E i \in DOMAIN SIGNER_KEYS : SIGNER_KEYS[i] = c[1]
                   \/ c[1] \in Authorities(p)

\* Unless RPC requests fail, a program of the upgradeable loader is recorded as
\* closed only if once there was no program at its address: no failed statement,
\* unparsed account, client that leaves or restart makes it so.  With failing
\* requests it does not hold: NoHealthyProgramClosed.
NeverFalselyClosed ==
    \A p \in Programs :
        chain[p].loader = "upgradeable" /\ program_state[p].is_closed
            => past[p].closed

\* Unless a statement fails or a client leaves, a row in progress has a live
\* process that will end it: none is left to block the dedupe query.
InProgressOwned ==
    \A b \in BuildIds :
        builds[b].status = "in_progress" =>
            job[b].pc \in {"run", "complete", "fail"}

-----------------------------------------------------------------------------
(* What cannot go wrong once it is right.                                  *)

\* The row says of p what the chain says.
RowMatches(p) ==
    /\ program_state[p].is_closed = Snapshot(p).is_closed
    /\ program_state[p].authority = Snapshot(p).authority
    /\ chain[p].open =>
        /\ program_state[p].on_chain_hash = Snapshot(p).executable_hash
        /\ program_state[p].is_frozen = Snapshot(p).is_frozen

\* So does the snapshot or the hash a handler of p is still to write, and it
\* marks p closed only when p is.
TaskMatches(p, l) ==
    l.program = p =>
        /\ l.pc \in {"lookup", "upsert"} => l.snap = Snapshot(p)
        /\ l.pc = "unverify" /\ chain[p].open => l.hash = chain[p].hash
        /\ l.pc = "mark_closed" => ~chain[p].open

JobMatches(p, l) ==
    /\ l.pc = "upsert" => l.snap = Snapshot(p)
    /\ l.pc = "mark_closed" => ~chain[p].open

\* So does whatever is in flight of p.
InFlightMatches(p) ==
    /\ \A t \in Tasks : TaskMatches(p, task[t])
    /\ \A b \in BuildIds : builds[b].program = p => JobMatches(p, job[b])
    /\ p \in sweep.got => sweep.snaps[p] = Snapshot(p)

\* Nothing wrong is on its way to the row of p.
Quiet(p) == chain[p].loader = "upgradeable" /\ InFlightMatches(p)

\* A request of p arrives whose snapshot failed, or has a recovered authority.
ArrivesUnsettled(p) ==
    \E t \in Tasks : /\ task[t].pc = "idle" /\ task'[t].pc = "lookup"
                     /\ task'[t].program = p /\ task'[t].snap # Snapshot(p)

\* A failed call is taken for the answer that p, which is open, is closed.
Misreads(p) ==
    /\ chain[p].open
    /\ \/ \E t \in Tasks : /\ task[t].pc = "check_closed"
                           /\ task[t].program = p
                           /\ task'[t].pc = "mark_closed"
       \/ \E b \in BuildIds : /\ job[b].pc = "check_closed"
                              /\ builds[b].program = p
                              /\ job'[b].pc = "mark_closed"

\* In this step the chain does not move under p, and nothing misleading is read.
Undisturbed(p) ==
    /\ Snapshot(p)' = Snapshot(p)
    /\ ~ArrivesUnsettled(p)
    /\ ~Misreads(p)

\* Once what is in flight of a program is right it stays so, and if its row is
\* right that stays so too and no verdict is taken back, until the chain moves,
\* such a request arrives or a failed call is misread: whatever else fails, in
\* whatever order handlers, builds, sweep and restarts write (db.rs:410-460).
StaysSettled ==
    [][\A p \in Programs :
         Quiet(p) /\ Undisturbed(p) =>
            /\ Quiet(p)'
            /\ RowMatches(p) =>
                /\ RowMatches(p)'
                /\ check_is_verified(program_state[p], builds, p)
                      => check_is_verified(program_state[p], builds, p)']_vars

\* The sweep clears a flag whatever became of the reverify (sweep.rs:116-125);
\* still, if it found a PDA, a build of that PDA is in the table by then, unless
\* a statement failed or the table takes no more rows.
ClearsWithBuild ==
    sweep.pc = "clear" /\ sweep.signer # None /\ ~DbFails =>
        \/ has_build_for_params(builds, SweepNew)
        \/ \A b \in BuildIds : builds[b].status # "absent"

-----------------------------------------------------------------------------
(* The table `builds` implements its promise.                              *)

Lifecycle == INSTANCE BuildLifecycle WITH
    Params <- NewBuilds,
    Results <- Hashes \cup {Empty},
    params <- [b \in BuildIds |-> JobNew(b)],
    status <- [b \in BuildIds |-> builds[b].status],
    result <- [b \in BuildIds |-> builds[b].executable_hash]

\* The builds table moves as BuildLifecycle allows, although neither UPDATE
\* looks at the status of the row it changes.
LifecycleSafe == Lifecycle!Spec

\* ... and every build ends.
LifecycleFair == Lifecycle!FairSpec

-----------------------------------------------------------------------------
(* Liveness, under FairSpec.                                               *)

\* Once the chain is quiet the sweep makes every row what the chain is, in
\* spite of lost webhooks, stale snapshots, failed RPC calls and crashes.
Convergence ==
    \A p \in Programs : <>[](program_state[p].present => RowMatches(p))

\* A program flagged as drifted whose new PDA is up before the sweep looks at
\* it gets a build of that PDA: the flag outlives capped drains and crashes.
Awaits(p, new) ==
    /\ chain_steps = MaxChainSteps
    /\ IsReverifyCandidate(program_state[p])
    /\ chain[p].open /\ chain[p].authority # None
    /\ program_state[p].authority = chain[p].authority
    /\ sweep.program # p
    /\ FindsPda(p, None, chain[p].authority, new.signer)
    /\ new.program = p /\ pda[p][new.signer] = new.source
DriftRebuilt ==
    \A p \in Programs : \A new \in NewBuilds :
        Awaits(p, new) ~> has_build_for_params(builds, new)

\* A candidate for a reverify does not stay one for ever: whether it has a PDA,
\* a build already, or neither, and although the server may die over it, the
\* sweep clears the flag (a capped drain: SweepHealth!BurstDrains).
FlagsDrain ==
    \A p \in Programs : IsReverifyCandidate(program_state[p])
                        ~> ~IsReverifyCandidate(program_state[p])

\* The event of a PDA, whoever signed it, for a program whose hash is no longer
\* the cached one leads to a build of that PDA, although the sweep, requests
\* and others' builds with the same params go on meanwhile (pda_worker.rs:
\* 79-122); unless the server dies under it.
PdaEventBuilds ==
    \A t \in Tasks : \A new \in NewBuilds :
        (/\ chain_steps = MaxChainSteps /\ crashes = MaxCrashes
         /\ task[t].kind = "pda" /\ task[t].pc = "fetch"
         /\ task[t].program = new.program /\ task[t].signer = new.signer
         /\ pda[new.program][new.signer] = new.source
         /\ chain[new.program].open
         /\ task[t].hash # chain[new.program].hash)
        ~> has_build_for_params(builds, new)

-----------------------------------------------------------------------------
(* What a doc or a comment says of the program and the code does not keep. *)

\* sweep.rs:120: "only a fresh drift re-queues it", db.rs:501-503: "the flag is
\* the backstop".  The flag of a row that has the program's current hash is
\* cleared only when that hash was the stored one as the sweep examined the
\* program, and not one that arrived since.
ClearsOnlyExaminedDrift ==
    [][\A p \in Programs :
         /\ program_state[p].pending_reverify
         /\ ~program_state'[p].pending_reverify
         /\ program_state[p].on_chain_hash = chain[p].hash
         => sweep.examined = chain[p].hash]_vars

\* onchain/otter.rs:207-210: no "healthy program" is flipped "to closed".
NoHealthyProgramClosed ==
    \A p \in Programs : program_state[p].is_closed => ~chain[p].open
=============================================================================
