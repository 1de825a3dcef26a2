# TLA+ model of solana-verified-programs-api

This directory models the service that records which Solana programs are
reproducible from published source: its requests, webhooks, builds, sweep,
tables, status cache, status and listing endpoints, health endpoints and the
migration of its first version's tables. Paths below are those of the
repository (`src/db.rs` is the crate's `db.rs`).

## 1. Inventory

| Component | State | Operations | Correct when |
|---|---|---|---|
| Tables and queries (`src/db.rs`, `migrations/`) | `program_state`, `builds` | upsert, unverify, mark_closed, flags; insert, complete, fail, cleanup; dedupe, candidates, status | rows hold only what was once true of the program; a build ends once |
| Chain snapshots, PDA lookup (`src/onchain/`) | none | `snapshot_programs`, `get_program_state`, `get_otter_verify_params`, `is_program_data_missing` | only a closed program is marked closed; only a key that held the authority counts as it (neither holds, see 3) |
| PDA arguments (`src/onchain/otter.rs`, `src/build/mod.rs`, `src/db.rs`) | none | parse the args, write the command line, compare with earlier builds | the command asks for what the PDA asks for; requests share a build only if it is the same |
| Verify requests (`src/api/handlers/*verify*.rs`) | locals of a handler | set-up, dedupe, insert, build | no request leaves a row nobody works on |
| Webhooks (`unverify.rs`, `pda_worker.rs`) | locals of a background task | compare hashes, unverify, read the PDA, build | an upgraded program is unverified; its PDA is built |
| Build jobs (`src/build/mod.rs`) | a task or a sync handler per build | run, complete, refresh, fail, look for closed | every build ends; the row and the program's state agree afterwards |
| Build logs, requester webhook (`src/build/`, `handlers/logs.rs`, `job_status.rs`) | two files and a row; POSTs | write, insert, read; POST up to three times | logs are there when the failure shows; requesters hear what the table says |
| Sweep (`src/sweep.rs`) | a task, the `pending_reverify` flag | snapshot all, apply all, drain | rows catch up with the chain; drifted programs are rebuilt; nobody starves |
| Health (`src/sweep.rs`, `handlers/health.rs`) | the stamp of the last cycle | stamp, `/health`, `/health/background-jobs` | no false alarm; no dead sweep called active |
| Status cache (`src/db.rs`, moka) | one body per program | fill, invalidate, expire | answers never go back; stale ones heal |
| Status and listing views (`src/db.rs`, `api/responses.rs`, handlers) | none | four queries, paging | they agree with each other; a client that walks the pages misses nothing |
| Startup (`src/main.rs`) | none | migrate, cleanup of orphans, spawn the sweep | no row in progress survives without its process |
| Migration (`migrations/0001_init.sql`) | the tables of version 1 | move builds, derive states | no verdict is taken or given |
| Rate limits, routes, configuration, types, errors | none | | not modelled, see 5 |

The parts share the two tables and nothing else that is written: there is no
lock and no transaction over two statements. So every handler, every build and
the sweep interleave at each answer of Postgres and of the RPC node, with locals
that may be stale. That, the faults in between (failed or unacknowledged
statements, failed RPC calls, clients that leave, crashes), and webhooks that
come late, twice, out of order or never, are what is hard here. `hazards` in
`PROJECT.json` lists each at its line.

## 2. Modules

```
Tables        rows and statements (pure operators)
  Onchain     + the chain, and what an RPC helper may answer
    Server    + handlers, build processes, the sweep's locals, crashes
      VerifyRequest   POST /verify, /verify-with-signer, /verify_sync
      Webhooks        POST /unverify, /pda
      BuildJob        build/mod.rs
      Sweep           sweep.rs
        Verifier      all of them and the properties
          MCVerifier        values for TLC
          VerifierProofs    type correctness and Provenance
            LifecycleProofs   refinement, ownership of rows
  StatusViews   the queries of the status and listing endpoints (pure)
    Cutover     migration, cleanup, statements in any order, a walk of the pages
      MCCutover, CutoverProofs, WalkProofs
BuildLifecycle  abstract: what a row of builds promises (Verifier and BuildRun implement it)
OtterParams     PDA args, command line, dedupe key (pure)
  OtterProofs   what the command says is what the args say
  BuildRun      one build: process, logs, end of the row, webhook
    MCBuildRun, BuildRunProofs
SweepHealth     ticker, stamp, drain, health endpoints
  MCSweepHealth, SweepHealthProofs
VerifyCache     the status cache of one program
  MCVerifyCache, VerifyCacheProofs
```

**Verifier: state and code.** `program_state` and `builds` are the tables.
`task[t]` is a request handler or the background task of one webhook
instruction, `job[b]` the process of build `b`, `sweep` the locals of
`run_once`, `drain_reverify_queue` and `reverify_one`. Their `pc` names the
await at hand. `chain`, `pda` are the accounts; `past` remembers what they ever
held and no step of the service reads it. An action is the code from one await
to the next: a read of the database or of the chain with the decision taken on
it, or one statement with what follows it. Errors follow the code: `?` ends the
handler, `if let Err(e)` goes on.

A hash, a key, a program are model values. A *source* stands for everything the
dedupe query compares except program and signer; `Artifact` says which hash it
builds to. The dedupe query does not compare the sbf args, so the model takes it
that they do not change the bytes; `BuildRun` has them. A build may also end without the hash line (`Empty`) or with an
error. Times are kept only as order: `created_at` by the build id,
`last_checked` not at all, so the sweep may take programs in any order (any
order of the real column is one of these).

Abstractions to know:
- A webhook call with several instructions is several tasks, at any pace; the
  code handles them one after the other, which is one of the interleavings.
- A handler's several PDA reads are one step, and so is a snapshot with the
  recovery of a burned authority. A closed or frozen program stays so; between
  the snapshot and the recovery only a later transaction on the program data could
  come, and between two PDA reads only a publication.
- The authority recovered for a frozen program is what the code takes: the key
  that the newest transaction on the program data shows (`newest`). `Freeze` names
  any key, as any may pay the fee or be the fifth account of a Squads
  instruction, and `Touch` is a later transaction, whoever sent it. `past.shown`
  keeps those keys apart from `past.authorities`, which really held it.
- Loader "none" is an address without a program: no account, one of an unknown
  owner, or one that does not parse (`state.rs:102-128` answers `closed()` to all
  three). `Deploy` puts a program there.
- `is_program_data_missing` reads the text of an error of `solana-client`, a
  library that is not in the repository. The model takes it that `get_account`
  reports a request it could not send as "AccountNotFound: pubkey=...: ...", and
  an answer it could not decode otherwise: so a failed call may be answered
  either way, and the first marks an open program closed.
- `has_completed_build` and `cached_on_chain_hash` in the upgrade webhook are
  one read: completed builds stay completed, so only the second can matter.
- A closed program's id is not deployed again, and legacy programs do not change;
  that is the loaders' rule, not the service's.

**OtterParams and BuildRun.** An arg is a word, perhaps quoted, or an option with
its value after a `=`. `NewBuild` and `build_command` are the code;
`ClapParse` is the reference, a left-to-right reading of a command as
solana-verify's own parser does it; it takes every option in either form.
`WellFormed` says which args it accepts (3 says which of them are left out), and
`LosesOption` which of these the code does not understand. `BuildRun` follows one build from the request
to the last POST: `job[b]` holds the locals of `execute`, `logs[b]` the files
and the row of `build_logs`. `ran`, `answered` and `output` remember what a
build was for; `harmed` remembers that a write, a statement or the server failed
under it, or that no HTTP client could be built for the POSTs
(`build/mod.rs:226-230`), which is what the properties except.

**SweepHealth.** `wait` is the distance to the ticker's deadline, `elapsed` and
`lag` the time since the last start and the last stamp. They saturate where the
code no longer distinguishes them: `lag` above two intervals, `elapsed` above
one. `flagged` is the set `pending_reverify_candidates` selects from. A tick that
is due fires before time passes on: the runtime's latency is far below a second.

**StatusViews and Cutover.** The queries are sets of rows that may come first:
`ORDER BY completed_at DESC` puts NULLs before every time. `Cutover` starts in a
fresh database or one of version 1, moves it, and then lets any statement of
the handlers follow any other: a coarser service than `Verifier`, and so one
whose reachable tables include the real ones. `walk` is a client that reads page
after page of `/verified-programs` while `has_next_page` says so.

## 3. Runs

Bounds are in the `.cfg` files and the MC modules.

`Verifier`: one program, two hashes, up to two sources, three keys (`key`
whitelisted, `auth` the authority, `other` neither), one handler at a time, one
to three requests and events, one to three rows of `builds`, up to two changes
of the chain. Two chain steps are the least for "read, change, write, change"; a
handler's build, the background task of a webhook and the sweep run beside the
next request without a bound, so two calls are the least for every pair of
writers to race. Bounds stop requests, so a run may end with nothing left to do:
`CHECK_DEADLOCK FALSE`; in `views` the clock ends at `MaxTime`.

| Run | Properties | Shows |
|---|---|---|
| `provenance` | `Provenance`, `VerifiedIsSound`, `NeverFalselyClosed` | two of: upgrade, transfer, close, freeze, later transactions on the frozen program; or a legacy program; unparseable accounts; a stranger's PDA: stale snapshots invent nothing, the authority the service recovers is one that was shown, and closed is said only of what was |
| `failures` | `TypeOK`, `VerifiedIsSound`, `LifecycleSafe`, `StaysSettled` | failing RPC, unparseable accounts, failed and unacknowledged statements, clients that leave, a crash, a deploy, an upgrade, a closing, a freeze; what agrees with the chain is not undone |
| `convergence` | `InProgressOwned`, `Convergence`, `LifecycleFair` | every build has its process and ends; `builds` implements `BuildLifecycle`; after the last chain change rows agree with the chain |
| `drift` | `ClearsWithBuild`, `DriftRebuilt`, `FlagsDrain`, `PdaEventBuilds` | an upgrade whose PDA is up is rebuilt, over a crash; flags do not stay, and none is cleared without a build of the PDA found; a PDA event with new bytes ends in its build |
| `health` | `TypeOK`, `InactiveOnlyAfterFailure`, `StartsSpaced`, `ActiveNeedsCycles`, `Recovers`, `BurstDrains` | intervals 0 and 2, caps 0 to 2, three programs: more than the cap |
| `build_run` | `TypeOK`, `RoundTrip`, `DuplicatesBuiltTheSame`, `FailedHasLogs`, `NotifiedTruth`, `ToldBeforeDone`, `LifecycleSafe`, `NotifiedEventually` | every choice of options in two orders and both forms; one build, one restart, failing writes and POSTs, no HTTP client |
| `views` | `TypeOK`, `ViewsAgree`, `VerdictsMoved`, `NoOrphan`, `WalkMissesNone` | a fresh database, two builds of one program in every odd shape, three programs on two pages; two statements, a restart |
| `cache` | `TypeOK`, `NeverGoesBack`, `Heals` | two requests, two writers, lost invalidations, crashes; stale bodies go away after the last write |

Why these bounds: in `health` an interval of 2 separates "within", "at" and
"beyond" one and two intervals, and three candidates need two cycles under either cap.
In `build_run` builds share nothing but the dedupe query, so one row meets every
case of a build, and four kinds of PDA meet it (equal, other sbf args, other
arch, an empty list of cargo args); the theorems cover any number of rows. In
`views` three programs on pages of two have a full and a part page; two
statements after the cutover complete a build or move a program under the walk.

Four runs end in a counterexample of a sentence in the docs or comments; the
`findings` of `PROJECT.json` quote it.

| Run | Property | What happens |
|---|---|---|
| `lost_drift` | `ClearsOnlyExaminedDrift` | the sweep clears a flag raised after it looked |
| `false_closed` | `NoHealthyProgramClosed` | a build fails, the request for the account fails, and an open program is recorded as closed |
| `cache_stale` | `SeesFinishedWrites` | a fill inserts what it read before the write, after the invalidation |
| `listed` | `ListedIsVerified` | a stranger's matching build puts a program in `/verified-programs` that `/status` calls not verified |

What properties except, and other behaviour to know:
- `DriftRebuilt` is checked without RPC faults because it does not hold with
  them: `reverify_one` takes a failed lookup for "no PDA", and the flag is cleared.
- `ClearsWithBuild` says the same step by step, and of the sweep alone: a PDA that
  it found is in `builds` when it clears the flag. It excepts failed statements,
  which lose the rebuild too (`sweep.rs:117-122`), and a table at `MaxBuilds`.
- `NeverFalselyClosed` and `ClosedSound` speak of runs without failing RPC
  requests. With them an open program is recorded as closed after a failed build
  or a duplicate request (`false_closed`), and a legacy program even without a
  failing request, as it never has the account (`otter.rs:211-217`), until the
  next sweep (`Convergence`).
- `VerifiedIsSound` counts the keys that transactions on a frozen program showed as
  trusted, as the code does (`state.rs:209-252`). They need not have held the
  authority: another key may have paid for the freeze, or a later transaction be
  the newest.
  The comments speak of the "burned authority" (`state.rs:190`).
- `StaysSettled` is the half of `Convergence` that needs no fairness. It speaks of
  upgradeable programs with nothing wrong in flight (`Quiet`), and excepts the
  step by which a request arrives with a snapshot that failed, or that holds the
  recovered authority of a frozen program (`ArrivesUnsettled`), and the one in
  which a failed call is taken for a closed program (`Misreads`).
- `PdaEventBuilds` speaks of events whose bytes are new. An event for unchanged
  bytes starts no build, so a corrected PDA waits for a request.
- `RoundTrip` is about args that are `WellFormed`: each option named once and with
  its value, in either form, and no option's name as a value or as a cargo
  argument after `--`, where the code would read it too. Of these it says exactly
  which the command keeps: those without `--base-image=x`, `--library-name=x`,
  `--mount-path=x` and `--arch=x` (and `-b=x`, which clap reads likewise), which
  `arg_value` does not find, whatever "Gets the library name from build arguments"
  (`otter.rs:58`) says. The form `-bx`, which the code does not find either,
  and options the code never asks for are not modelled.
- `ToldBeforeDone` and `NotifiedEventually` except a task that could build no HTTP
  client: `post_webhook` returns before its first POST, and nobody is told.
- `DuplicatesBuiltTheSame` is up to `--cargo-build-sbf-args`, which the table
  does not keep: PDAs that differ only there share a build. The comment at
  `src/db.rs:139` ("`None` on re-verification") is out of date: the sweep reads
  the PDA again and passes them.
- A request that finds a build under way loses its `webhook_url`.
- A program that is flagged and then frozen or closed keeps its flag: it is no
  candidate any more, and `FlagsDrain` and `BurstDrains` speak of candidates.
- A `/verify` request whose snapshot fails writes "not frozen, not closed" until
  the next sweep (`Convergence` is "until").
- `SeesFinishedWrites`, `NeverGoesBack` and `Heals` belong together: readers may
  miss a write that has returned, but never see time run backwards, and the TTL
  ends the staleness.
- After a cycle that outlasts the interval the next starts at once; the comment
  at `src/sweep.rs:27` speaks of a full interval. `StartsSpaced` is what holds.
- `/health` answers 503 from a restart until the first cycle completes, and the
  comment on `Unknown` (`src/api/responses.rs:361`, "also: empty DB") holds no
  longer: a cycle without programs is stamped.
- `WalkMissesNone` excepts walks that met a failed query, which is answered as an
  empty last page, and programs that left the list: then the rest moves up.
  A page past the end reports a total of 0.
- The verdict on a frozen program whose build is signed by its burned authority
  comes and goes: a request recovers that authority, and the sweep's snapshot
  sets it to NULL. `Convergence` compares with what the sweep writes.

**Fairness.** `Verifier`: `WF` of every handler and every build process: tokio
polls what is ready, and the model's builds end (the code has no timeout on
`solana-verify`, so this is an assumption). `WF` of the sweep: the ticker never
stops. `RpcRecovers` is strong fairness of a successful chunk and of a chunk that
completes the cycle: the node does not fail in every cycle. No fairness of
requests, webhooks, crashes or the chain. `BuildRun`: `WF` of each build's task.
`SweepHealth`: `WF` of the task's steps and of time; an await may hang for ever
and a cycle fail each time, until `BecomesCalm`, which nothing forces.
`VerifyCache`: `WF` of a request's steps, of a writer's invalidation and of time.

## 4. Proofs

Everything in the eight `...Proofs` modules is proved for all values of the
constants, from the named assumptions of the modules they extend. Those say that
NULL and the empty hash are not values, give the parameters their types, and, for
`Cutover`, that no two rows of version 1 have the same `verified_at`.

`VerifierProofs`
- `InductiveInvariant`: `TypeOK /\ Provenance` is inductive as it stands. It had
  to speak of everybody's locals (`TaskKnown`, `JobKnown`, `SweepKnown`), because
  a row gets what a handler carries, and of the chain's history, because
  locals go stale: "true now" is not preserved, "was once true" is. One lemma
  per action, each by one of a few frame lemmas (`TaskStepKeeps`,
  `JobStepKeeps`, ...); chain steps only extend the history.
  "True of a program" includes, of a frozen one's authority, "shown by a
  transaction" (`Authorities`), and of a closing, under failing RPC requests, "told
  by a failed call" (`MayBeClosed`): the theorem says no more than the code does.
- `VerifiedSound`, `ClosedSound`, `TypeCorrect`: corollaries. For the first, the
  row's hash, its authority and the build come from different handlers;
  `Provenance` ties each to the history. `ClosedSound` assumes that no RPC request
  fails; a snapshot never says closed of what was not, with or without.

`LifecycleProofs`
- `LifecycleImplemented`: `Spec => Lifecycle!Spec`. `StepMoves` reduces every
  step to five moves of the table; `JobKnown`'s "a process that has not ended
  its build works on a row in progress" makes the unguarded UPDATEs steps of the
  abstract machine.
- `RowsInProgressOwned`: under `Faults \cap {"db", "cancel"} = {}`.
- `SettledStays`: `StaysSettled` is an action property, and so two questions. What
  may be on its way: every local that is later written to the row was read from
  the chain or from what was in flight (`StepTasks`, `StepJobs`, `StepSnaps`). What
  may become of the row: `StepRow` reduces every step to five moves, each harmless
  to a right row (`RowKept`). A verdict stays because no trusted completed build
  of the matching hash is undone, by the five moves of the table.
- `SweepClearsWithBuild`: what the sweep holds after a step that found a build, or
  inserted one, is served (`ServedStep`), and rows never go (`BuildsStay`).

`VerifyCacheProofs`
- `AnswersNeverGoBack`, `TypeCorrect`: fills do not overlap (`Sequential`), so
  bodies cached are ordered as they were read (`Ordered`).

`SweepHealthProofs`
- `NoFalseAlarm`: `InactiveOnlyAfterFailure` needs to know where a healthy
  sweep's two intervals go. The invariant bounds `lag` by the time to the next
  tick while it waits and by `elapsed` while a cycle runs, as long as nothing was
  lost.
- `NoBurst`: the deadline is at least an interval after the last start.

`BuildRunProofs`
- `RequesterToldTheTruth`, `LogsKept`: per program counter of the task, what of
  the row, the files and the inbox is already written, and what is then final.
  Any number of builds and restarts.
- `DuplicatesHonest`: the row's key is that of the request that started it and of
  every request it answered (`Asked`), and `KeyFixesCommand`: the key leaves only
  the sbf args of a command open.
- `NobodyLeftUntold`: the same invariant says of every step up to the POSTs that
  they are still to come, whichever write or statement failed; without an HTTP
  client (`NoClientGood`) the theorem excepts the task.
- `LifecycleImplemented`: `BuildRun` is a second implementation of `BuildLifecycle`,
  with the parts of `execute` that `Verifier` leaves out. `RowStarts` and `RowEnds`
  are the two moves, and `StepImplements` maps each step to one, a restart or a
  stutter.
- `AskedForTheSame`: `OtterProofs` for the PDA at hand.

`OtterProofs`
- `CommandAsksTheSame`: for args of any length and words, an equivalence: the two
  say the same if and only if no option but the sbf one is written with `=`. `ClapParse` is a recursive
  function; `ReadingsDefined` shows it well defined, by the least position from which
  no such function exists, and `ReadingsShift` that what a suffix says does not
  depend on what precedes it. With that the command is read piece by piece from
  its end (`CommandReads`), and the args option by option from theirs (`ArgsSay`,
  by the greatest position that reads otherwise). Both agree with what `NewBuild`
  keeps (`BuildSays`), and there is only one such reading (`SaysOne`). Conversely, of
  an option written with `=` the command says nothing (`BuildLoses`).

`CutoverProofs`
- `EndpointsAgree`: `ViewsAgree` needs the types and that only rows have hashes (`Rows`):
  `VerdictIsBest` shows that the first row of the `/status` order matches if any
  trusted row does, and `NewestExists` (by well-foundedness of times) that an
  order always has a first row.
- `NoOrphanLeft`: rows in progress are owned, or a cleanup is still to come.
- `CutoverKeepsVerdicts`: `VerdictIsBest` on the moved tables, row by row
  (`MovedRow`); distinct times make the latest row of a program one (`OneLatest`),
  so the hash the migration picks is the one version 1 last saw.

`WalkProofs`
- `WalkComplete`: while nothing leaves the list, ranks in it only grow
  (`RankGrows`), so what lies before the next page has been read. At the end,
  `RankFilled` (ranks leave no gap) shows that a page that is empty has nothing
  after it, and `PagesCover` that the announced pages hold the whole list.

Left to TLC: the liveness properties and the fair half of the refinement, as
fairness and ENABLED are out of the prover's reach. Every invariant and every
action property that a passing run checks is also a theorem, `NeverFalselyClosed`
under the assumption that its run makes.

## 5. Not modelled, and the plan

Not modelled: `tower_governor`'s rate limits, which reject requests before any
handler runs; HTML and JSON layout; configuration parsing and error wording; the
search filter of the list, which only narrows it; the redaction of the RPC URL
in logs; i64 overflow of a huge page number (`src/db.rs:546`); databases of
version 1 with two `verified_programs` rows for one build, of which the migration
keeps an arbitrary one.

Next, in order:
1. The cache in front of `Verifier`: `VerifyCache` with the real writers.
2. The progress half of `Convergence` as a safety lemma: a sweep cycle that meets
   no fault leaves every row it read as the chain was. With `StaysSettled` that is
   `Convergence` up to fairness.
3. `NoBurst` and `NoFalseAlarm` as a refinement of an abstract ticker.
