--------------------------- MODULE VerifierProofs ---------------------------
(***************************************************************************)
(* Theorems about Verifier, for every value of its constants.              *)
(*                                                                         *)
(* The argument: TypeOK /\ Provenance is inductive (InductiveInvariant).   *)
(* Provenance speaks of one value at a time (a row, a handler's locals, a  *)
(* job, the sweep), so a step that leaves the chain alone has only to show *)
(* that the values it writes are known (ServiceStep), and a step of the    *)
(* chain only to forget nothing (ChainStepKeeps).  VerifiedIsSound,        *)
(* NeverFalselyClosed and the refinement of BuildLifecycle follow.         *)
(***************************************************************************)
EXTENDS Verifier, TLAPS

Inv == TypeOK /\ Provenance

-----------------------------------------------------------------------------
(* The pure operators keep types.                                          *)

\* The two snapshots that are not read from an account are snapshots.
LEMMA ConstantSnapshots ==
    EmptySnapshot \in Snapshots /\ ClosedSnapshot \in Snapshots
BY DEF EmptySnapshot, ClosedSnapshot, Snapshots

\* The resting locals are locals.
LEMMA RestingLocals ==
    IdleTask \in TaskRows /\ NoJob \in JobRows /\ IdleSweep \in SweepRows
BY ConstantSnapshots DEF IdleTask, NoJob, IdleSweep, TaskRows, JobRows, SweepRows

\* Each statement on program_state turns a row into a row.
LEMMA StatementTypes ==
    ASSUME NEW row \in StateRows
    PROVE  /\ \A snap \in Snapshots : upsert_program_state(row, snap) \in StateRows
           /\ \A h \in Hashes : unverify_program(row, h) \in StateRows
           /\ mark_closed(row) \in StateRows
           /\ clear_pending_reverify(row) \in StateRows
BY DEF StateRows, Snapshots, upsert_program_state, unverify_program,
       mark_closed, clear_pending_reverify

\* A snapshot of a typed chain is a snapshot, and so is every answer of
\* get_program_state.
LEMMA SnapshotTypes ==
    ASSUME ChainTypeOK, NEW p \in Programs
    PROVE  /\ Snapshot(p) \in Snapshots
           /\ get_program_state(p) \subseteq Snapshots
<1>1. Snapshot(p) \in Snapshots
  BY ConstantSnapshots DEF Snapshot, ChainTypeOK, ChainPrograms, Snapshots
<1>2. \A snap \in Snapshots, w \in Signers \cup {None} :
        [snap EXCEPT !.authority = w] \in Snapshots
  BY DEF Snapshots
<1>3. chain[p].newest \in Signers \cup {None}
  BY DEF ChainTypeOK, ChainPrograms
<1>4. WithRecoveredAuthority(p, Snapshot(p)) \subseteq Snapshots
  BY <1>1, <1>2, <1>3 DEF WithRecoveredAuthority
<1>5. QED
  BY <1>1, <1>4, ConstantSnapshots DEF get_program_state

-----------------------------------------------------------------------------
(* What the pure operators make of known values is known.                  *)

\* A snapshot says nothing of p but what was true or, of a frozen program's
\* authority, what a transaction showed.
LEMMA SnapshotKnown ==
    ASSUME TypeOK, NEW p \in Programs, ChainKnown(p)
    PROVE  /\ SnapKnown(p, Snapshot(p))
           /\ SnapKnown(p, EmptySnapshot)
           /\ \A snap \in get_program_state(p) : SnapKnown(p, snap)
<1>1. SnapKnown(p, Snapshot(p))
  BY DEF SnapKnown, Known, Snapshot, ClosedSnapshot, Authorities, ChainKnown
<1>2. SnapKnown(p, EmptySnapshot)
  BY DEF SnapKnown, Known, EmptySnapshot
<1>3. Snapshot(p) \in Snapshots
  BY SnapshotTypes DEF TypeOK
<1>4. \A snap \in WithRecoveredAuthority(p, Snapshot(p)) : SnapKnown(p, snap)
  BY <1>1, <1>3
  DEF WithRecoveredAuthority, SnapKnown, Known, Authorities, ChainKnown, Snapshots
<1>5. QED
  BY <1>1, <1>2, <1>4 DEF get_program_state

\* Each statement on program_state, given known values, leaves a known row.
LEMMA StatementsKnown ==
    ASSUME NEW p \in Programs, NEW row \in StateRows, StateKnown(p, row)
    PROVE  /\ \A snap \in Snapshots : SnapKnown(p, snap) =>
                StateKnown(p, upsert_program_state(row, snap))
           /\ \A h \in past[p].hashes : StateKnown(p, unverify_program(row, h))
           /\ MayBeClosed(p) => StateKnown(p, mark_closed(row))
           /\ StateKnown(p, clear_pending_reverify(row))
BY DEF StateRows, StateKnown, SnapKnown, Known, MayBeClosed,
       upsert_program_state, unverify_program, mark_closed, clear_pending_reverify

\* A PDA that the chain shows was once published.
LEMMA PdaClaimed ==
    ASSUME TypeOK, NEW p \in Programs, ChainKnown(p),
           NEW w \in Signers, pda[p][w] # None
    PROVE  Claimed([program |-> p, signer |-> w, source |-> pda[p][w]])
BY DEF TypeOK, ChainTypeOK, ChainKnown, Claimed, NewBuilds

-----------------------------------------------------------------------------
(* Steps of the service leave the chain and its history alone.             *)

\* While the chain does not move, what is known of a value stays the same.
LEMMA KnownUnchanged ==
    ASSUME UNCHANGED chain_vars
    PROVE  /\ \A p : ChainKnown(p)' <=> ChainKnown(p)
           /\ \A p, row : StateKnown(p, row)' <=> StateKnown(p, row)
           /\ \A p, snap : SnapKnown(p, snap)' <=> SnapKnown(p, snap)
           /\ \A l : TaskKnown(l)' <=> TaskKnown(l)
           /\ \A row, l : JobKnown(row, l)' <=> JobKnown(row, l)
           /\ \A new : Claimed(new)' <=> Claimed(new)
BY DEF chain_vars, ChainKnown, StateKnown, SnapKnown, Known, Authorities,
       MayBeClosed, TaskKnown, JobKnown, Claimed

\* A step of the service keeps the invariant if what it writes is typed and
\* known.
LEMMA ServiceStep ==
    ASSUME Inv, UNCHANGED chain_vars, ServerTypeOK', SweepKnown',
           \A p \in Programs : StateKnown(p, program_state'[p]),
           \A t \in Tasks : TaskKnown(task'[t]),
           \A b \in BuildIds : JobKnown(builds'[b], job'[b])
    PROVE  Inv'
<1>1. TypeOK'
  BY DEF Inv, TypeOK, ChainTypeOK, chain_vars
<1>2. Provenance'
  BY KnownUnchanged DEF Inv, Provenance
<1>3. QED
  BY <1>1, <1>2 DEF Inv

\* The sweep's locals stay known while neither they nor the chain move.
LEMMA SweepUnchanged ==
    ASSUME SweepKnown, UNCHANGED chain_vars, UNCHANGED sweep
    PROVE  SweepKnown'
BY KnownUnchanged DEF SweepKnown, SweepNew

\* A step of handler t that writes its own locals only.
LEMMA TaskStepKeeps ==
    ASSUME Inv, NEW t \in Tasks, NEW l \in TaskRows, Becomes(t, l),
           TaskKnown(l), calls' \in 0..MaxCalls,
           UNCHANGED <<chain_vars, program_state, builds, job, sweep, crashes>>
    PROVE  Inv'
<1>1. ServerTypeOK'
  BY DEF Inv, TypeOK, ServerTypeOK, Becomes
<1>2. \A u \in Tasks : TaskKnown(task'[u])
  BY DEF Inv, TypeOK, ServerTypeOK, Provenance, Becomes
<1>3. SweepKnown'
  BY SweepUnchanged DEF Inv, Provenance
<1>4. QED
  BY <1>1, <1>2, <1>3, ServiceStep DEF Inv, Provenance

\* A step of handler t that also writes the row of p.
LEMMA TaskWriteKeeps ==
    ASSUME Inv, NEW t \in Tasks, NEW l \in TaskRows, Becomes(t, l), TaskKnown(l),
           NEW p \in Programs, NEW row \in StateRows, StateKnown(p, row),
           WriteState(p, row),
           UNCHANGED <<chain_vars, builds, job, sweep, calls, crashes>>
    PROVE  Inv'
<1>1. ServerTypeOK'
  BY DEF Inv, TypeOK, ServerTypeOK, Becomes, WriteState
<1>2. \A u \in Tasks : TaskKnown(task'[u])
  BY DEF Inv, TypeOK, ServerTypeOK, Provenance, Becomes
<1>3. \A q \in Programs : StateKnown(q, program_state'[q])
  BY DEF Inv, TypeOK, ServerTypeOK, Provenance, WriteState
<1>4. SweepKnown'
  BY SweepUnchanged DEF Inv, Provenance
<1>5. QED
  BY <1>1, <1>2, <1>3, <1>4, ServiceStep DEF Inv, Provenance

\* A step of the process of build b that writes its own locals and row.
LEMMA JobStepKeeps ==
    ASSUME Inv, NEW b \in BuildIds, NEW l \in JobRows, JobBecomes(b, l),
           NEW row \in BuildRows, JobKnown(row, l),
           builds' = [builds EXCEPT ![b] = row],
           UNCHANGED <<chain_vars, program_state, task, sweep, calls, crashes>>
    PROVE  Inv'
<1>1. ServerTypeOK'
  BY DEF Inv, TypeOK, ServerTypeOK, JobBecomes
<1>2. \A c \in BuildIds : JobKnown(builds'[c], job'[c])
  BY DEF Inv, TypeOK, ServerTypeOK, Provenance, JobBecomes
<1>3. SweepKnown'
  BY SweepUnchanged DEF Inv, Provenance
<1>4. QED
  BY <1>1, <1>2, <1>3, ServiceStep DEF Inv, Provenance

\* A step of the process of build b that ends it and writes the row of p.
LEMMA JobWriteKeeps ==
    ASSUME Inv, NEW b \in BuildIds, EndJob(b), JobKnown(builds[b], NoJob),
           NEW p \in Programs, NEW row \in StateRows, StateKnown(p, row),
           WriteState(p, row),
           UNCHANGED <<chain_vars, builds, task, sweep, calls, crashes>>
    PROVE  Inv'
<1>1. ServerTypeOK'
  BY RestingLocals
  DEF Inv, TypeOK, ServerTypeOK, EndJob, JobBecomes, WriteState
<1>2. \A c \in BuildIds : JobKnown(builds'[c], job'[c])
  BY DEF Inv, TypeOK, ServerTypeOK, Provenance, EndJob, JobBecomes
<1>3. \A q \in Programs : StateKnown(q, program_state'[q])
  BY DEF Inv, TypeOK, ServerTypeOK, Provenance, WriteState
<1>4. SweepKnown'
  BY SweepUnchanged DEF Inv, Provenance
<1>5. QED
  BY <1>1, <1>2, <1>3, <1>4, ServiceStep DEF Inv, Provenance

-----------------------------------------------------------------------------
(* The handlers.                                                           *)

\* What the invariant says of a handler at work.
LEMMA TaskFacts ==
    ASSUME Inv, NEW t \in Tasks, task[t].pc # "idle"
    PROVE  /\ task[t] \in TaskRows
           /\ TaskKnown(task[t])
           /\ task[t].program \in Programs
           /\ ChainKnown(task[t].program)
           /\ StateKnown(task[t].program, program_state[task[t].program])
           /\ program_state[task[t].program] \in StateRows
           /\ calls \in 0..MaxCalls
BY DEF Inv, TypeOK, ServerTypeOK, Provenance, TaskKnown

\* A handler that only moves on keeps the invariant if its next place asks no
\* more of its locals than this one.
LEMMA GotoKeeps ==
    ASSUME Inv, NEW t \in Tasks, task[t].pc # "idle",
           NEW pc \in {"check_closed", "mark_closed", "insert"}, Goto(t, pc),
           pc = "mark_closed" => MayBeClosed(task[t].program),
           pc = "insert" => task[t].pc = "dedupe",
           UNCHANGED <<chain_vars, program_state, builds, job, sweep, calls, crashes>>
    PROVE  Inv'
<1> DEFINE l == [task[t] EXCEPT !.pc = pc]
<1>1. l \in TaskRows
  BY TaskFacts DEF TaskRows
<1>2. TaskKnown(l)
  BY TaskFacts DEF TaskKnown, TaskRows
<1>3. Becomes(t, l)
  BY DEF Goto
<1>4. QED
  BY <1>1, <1>2, <1>3, TaskFacts, TaskStepKeeps

\* A handler that ends keeps it too.
LEMMA FinishKeeps ==
    ASSUME Inv, NEW t \in Tasks, Finish(t),
           UNCHANGED <<chain_vars, program_state, builds, job, sweep, calls, crashes>>
    PROVE  Inv'
<1>1. TaskKnown(IdleTask)
  BY DEF TaskKnown, IdleTask
<1>2. calls' \in 0..MaxCalls
  BY DEF Inv, TypeOK, ServerTypeOK
<1>3. QED
  BY <1>1, <1>2, RestingLocals, TaskStepKeeps DEF Finish

\* A handler that ends with a write of its program's row.
LEMMA FinishWriteKeeps ==
    ASSUME Inv, NEW t \in Tasks, task[t].pc # "idle", Finish(t),
           NEW row \in StateRows, StateKnown(task[t].program, row),
           WriteState(task[t].program, row),
           UNCHANGED <<chain_vars, builds, job, sweep, calls, crashes>>
    PROVE  Inv'
<1>1. TaskKnown(IdleTask)
  BY DEF TaskKnown, IdleTask
<1>2. QED
  BY <1>1, RestingLocals, TaskFacts, TaskWriteKeeps DEF Finish

\* A request that arrives keeps the invariant: its snapshot, a guess included,
\* claims nothing false.
LEMMA VerifyArrivesKeeps ==
    ASSUME Inv, NEW t \in Tasks, NEW p \in Programs, NEW w \in Signers \cup {None},
           NEW kind \in {"verify", "verify_sync"}, VerifyArrives(t, kind, p, w)
    PROVE  Inv'
<1>1. PICK snap \in get_program_state(p) \cup {EmptySnapshot} :
        Becomes(t, [IdleTask EXCEPT !.kind = kind, !.pc = "lookup",
                                    !.program = p, !.signer = w, !.snap = snap])
  BY DEF VerifyArrives
<1> DEFINE l == [IdleTask EXCEPT !.kind = kind, !.pc = "lookup",
                                 !.program = p, !.signer = w, !.snap = snap]
<1>2. snap \in Snapshots
  BY <1>1, SnapshotTypes, ConstantSnapshots DEF Inv, TypeOK
<1>3. SnapKnown(p, snap)
  BY <1>1, SnapshotKnown DEF Inv, Provenance
<1>4. l \in TaskRows
  BY <1>2 DEF IdleTask, TaskRows
<1>5. TaskKnown(l)
  BY <1>3 DEF IdleTask, TaskKnown
<1>6. calls' \in 0..MaxCalls
  BY ServerAssumption DEF VerifyArrives, Receive, Inv, TypeOK, ServerTypeOK
<1>7. QED
  BY <1>1, <1>4, <1>5, <1>6, TaskStepKeeps DEF VerifyArrives

\* The PDA lookup of a request keeps it: the PDA found is on the chain.
LEMMA VerifyLookupKeeps ==
    ASSUME Inv, NEW t \in Tasks, VerifyLookup(t)
    PROVE  Inv'
<1>1. CASE Finish(t)
  BY <1>1, FinishKeeps DEF VerifyLookup
<1>2. ASSUME NEW w \in Signers, pda[task[t].program][w] # None,
             Becomes(t, [task[t] EXCEPT !.pc = "upsert", !.signer = w,
                                        !.source = pda[task[t].program][w]])
      PROVE  Inv'
  <2> DEFINE l == [task[t] EXCEPT !.pc = "upsert", !.signer = w,
                                  !.source = pda[task[t].program][w]]
  <2>1. task[t].pc # "idle"
    BY DEF VerifyLookup
  <2>2. Claimed([program |-> task[t].program, signer |-> w,
                 source |-> pda[task[t].program][w]])
    BY <1>2, <2>1, TaskFacts, PdaClaimed DEF Inv
  <2>3. l \in TaskRows
    BY <2>1, <2>2, TaskFacts DEF TaskRows, Claimed, NewBuilds
  <2>4. TaskKnown(l)
    BY <2>1, <2>2, TaskFacts DEF TaskKnown, TaskRows
  <2>5. QED
    BY <1>2, <2>1, <2>3, <2>4, TaskFacts, TaskStepKeeps DEF VerifyLookup
<1>3. QED
  BY <1>1, <1>2 DEF VerifyLookup, FindsPda

\* The upsert of a request's snapshot keeps it, however old the snapshot is.
LEMMA VerifyUpsertKeeps ==
    ASSUME Inv, NEW t \in Tasks, VerifyUpsert(t)
    PROVE  Inv'
<1> DEFINE l == [task[t] EXCEPT !.pc = "dedupe", !.snap = EmptySnapshot]
           p == task[t].program
           row == upsert_program_state(program_state[p], task[t].snap)
<1>1. task[t].pc = "upsert" /\ Becomes(t, l)
  BY DEF VerifyUpsert
<1>2. l \in TaskRows
  BY <1>1, TaskFacts, ConstantSnapshots DEF TaskRows
<1>3. SnapKnown(p, EmptySnapshot)
  BY <1>1, TaskFacts, SnapshotKnown DEF Inv
<1>4. TaskKnown(l)
  BY <1>1, <1>3, TaskFacts DEF TaskKnown, TaskRows
<1>5. CASE UNCHANGED program_state
  BY <1>1, <1>2, <1>4, <1>5, TaskFacts, TaskStepKeeps DEF VerifyUpsert
<1>6. CASE WriteState(p, row)
  <2>1. row \in StateRows
    BY <1>1, TaskFacts, StatementTypes DEF TaskRows
  <2>2. StateKnown(p, row)
    BY <1>1, TaskFacts, StatementsKnown DEF TaskRows, TaskKnown
  <2>3. QED
    BY <1>1, <1>2, <1>4, <1>6, <2>1, <2>2, TaskFacts, TaskWriteKeeps
    DEF VerifyUpsert
<1>7. QED
  BY <1>5, <1>6 DEF VerifyUpsert

\* The dedupe query keeps it.
LEMMA DedupeKeeps ==
    ASSUME Inv, NEW t \in Tasks, Dedupe(t)
    PROVE  Inv'
<1>1. task[t].pc = "dedupe"
  BY DEF Dedupe
<1>2. CASE Finish(t)
  BY <1>2, FinishKeeps DEF Dedupe
<1>3. CASE Goto(t, "check_closed")
  BY <1>1, <1>3, GotoKeeps DEF Dedupe
<1>4. CASE Goto(t, "insert")
  BY <1>1, <1>4, GotoKeeps DEF Dedupe
<1>5. QED
  BY <1>2, <1>3, <1>4 DEF Dedupe

\* What is_program_data_missing takes for missing may be marked closed.
LEMMA MissingMayBeClosed ==
    ASSUME NEW p \in Programs, ChainKnown(p), TypeOK,
           TRUE \in is_program_data_missing(p)
    PROVE  MayBeClosed(p)
<1>1. chain[p].open \in BOOLEAN
  BY DEF TypeOK, ChainTypeOK, ChainPrograms
<1>2. QED
  BY <1>1 DEF is_program_data_missing, MayBeClosed, ChainKnown

\* The look for a closed program keeps it: only what is taken for missing leads
\* on to mark_closed.
LEMMA CheckClosedKeeps ==
    ASSUME Inv, NEW t \in Tasks, CheckClosed(t)
    PROVE  Inv'
<1>1. task[t].pc # "idle"
  BY DEF CheckClosed
<1>2. CASE Finish(t)
  BY <1>2, FinishKeeps DEF CheckClosed
<1>3. CASE TRUE \in is_program_data_missing(task[t].program) /\ Goto(t, "mark_closed")
  <2>1. MayBeClosed(task[t].program)
    BY <1>1, <1>3, TaskFacts, MissingMayBeClosed DEF Inv
  <2>2. QED
    BY <1>1, <1>3, <2>1, GotoKeeps DEF CheckClosed
<1>4. QED
  BY <1>2, <1>3 DEF CheckClosed

\* mark_closed by a handler keeps it: what was closed stays closed.
LEMMA MarkClosedKeeps ==
    ASSUME Inv, NEW t \in Tasks, MarkClosed(t)
    PROVE  Inv'
<1>1. task[t].pc = "mark_closed" /\ Finish(t)
  BY DEF MarkClosed
<1>2. MayBeClosed(task[t].program)
  BY <1>1, TaskFacts DEF TaskKnown
<1>3. CASE UNCHANGED program_state
  BY <1>1, <1>3, FinishKeeps DEF MarkClosed
<1>4. CASE WriteState(task[t].program, mark_closed(program_state[task[t].program]))
  BY <1>1, <1>2, <1>4, TaskFacts, StatementTypes, StatementsKnown, FinishWriteKeeps
  DEF MarkClosed
<1>5. QED
  BY <1>3, <1>4 DEF MarkClosed

\* Whatever becomes of an insert, the rows and the processes stay known.
LEMMA InsertKnown ==
    ASSUME Inv, UNCHANGED chain_vars, NEW new, Claimed(new),
           NEW kind \in {"async", "sync"},
           \/ InsertAndStart(new, kind)
           \/ InsertUnacknowledged(new)
           \/ InsertRefused
    PROVE  /\ builds' \in [BuildIds -> BuildRows]
           /\ job' \in [BuildIds -> JobRows]
           /\ \A b \in BuildIds : JobKnown(builds'[b], job'[b])
<1> DEFINE l == [NoJob EXCEPT !.kind = kind, !.pc = "run"]
<1>1. InProgress(new) \in BuildRows
  BY DEF InProgress, BuildRows, Claimed, NewBuilds
<1>2. l \in JobRows
  BY RestingLocals DEF JobRows, NoJob
<1>3. JobKnown(InProgress(new), l) /\ JobKnown(InProgress(new), NoJob)
  BY DEF JobKnown, InProgress, NoJob, Claimed, NewBuilds
<1>4. \A b \in BuildIds : IsNextBuild(builds, b) => job[b] = NoJob
  BY DEF Inv, Provenance, JobKnown, IsNextBuild
<1>5. CASE InsertAndStart(new, kind)
  BY <1>1, <1>2, <1>3, <1>5
  DEF InsertAndStart, WriteBuild, JobBecomes, Inv, TypeOK, ServerTypeOK, Provenance
<1>6. CASE InsertUnacknowledged(new)
  BY <1>1, <1>3, <1>4, <1>6
  DEF InsertUnacknowledged, WriteBuild, Inv, TypeOK, ServerTypeOK, Provenance
<1>7. CASE InsertRefused
  BY <1>7 DEF InsertRefused, Inv, TypeOK, ServerTypeOK, Provenance
<1>8. QED
  BY <1>5, <1>6, <1>7

\* The insert of a handler's build keeps it.
LEMMA InsertBuildKeeps ==
    ASSUME Inv, NEW t \in Tasks, InsertBuild(t)
    PROVE  Inv'
<1>1. Claimed(TaskNew(t))
  BY TaskFacts DEF InsertBuild, TaskKnown, TaskNew
<1>2. /\ builds' \in [BuildIds -> BuildRows]
      /\ job' \in [BuildIds -> JobRows]
      /\ \A b \in BuildIds : JobKnown(builds'[b], job'[b])
  BY <1>1, InsertKnown DEF InsertBuild
<1>3. task' \in [Tasks -> TaskRows] /\ \A u \in Tasks : TaskKnown(task'[u])
  <2>1. TaskKnown(IdleTask)
    BY DEF TaskKnown, IdleTask
  <2>2. QED
    BY <2>1, RestingLocals
    DEF InsertBuild, Finish, Becomes, Inv, TypeOK, ServerTypeOK, Provenance
<1>4. SweepKnown'
  BY SweepUnchanged DEF InsertBuild, Inv, Provenance
<1>5. ServerTypeOK'
  BY <1>2, <1>3 DEF InsertBuild, Inv, TypeOK, ServerTypeOK
<1>6. QED
  BY <1>2, <1>3, <1>4, <1>5, ServiceStep DEF InsertBuild, Inv, Provenance

\* An upgrade event that arrives keeps it.
LEMMA UnverifyArrivesKeeps ==
    ASSUME Inv, NEW t \in Tasks, NEW p \in Programs, UnverifyArrives(t, p)
    PROVE  Inv'
<1> DEFINE l == [IdleTask EXCEPT !.kind = "unverify", !.pc = "fetch", !.program = p,
                                 !.hash = program_state[p].on_chain_hash]
<1>1. Becomes(t, l)
  BY DEF UnverifyArrives
<1>2. l \in TaskRows
  BY RestingLocals DEF IdleTask, TaskRows, Inv, TypeOK, ServerTypeOK, StateRows
<1>3. SnapKnown(p, EmptySnapshot)
  BY SnapshotKnown DEF Inv, Provenance
<1>4. TaskKnown(l)
  BY <1>3 DEF IdleTask, TaskKnown, Inv, Provenance, StateKnown
<1>5. calls' \in 0..MaxCalls
  BY ServerAssumption DEF UnverifyArrives, Receive, Inv, TypeOK, ServerTypeOK
<1>6. QED
  BY <1>1, <1>2, <1>4, <1>5, TaskStepKeeps DEF UnverifyArrives

\* A PDA event that arrives keeps it.
LEMMA PdaArrivesKeeps ==
    ASSUME Inv, NEW t \in Tasks, NEW p \in Programs, NEW w \in Signers,
           PdaArrives(t, p, w)
    PROVE  Inv'
<1>1. PICK cached \in {program_state[p].on_chain_hash, None} :
        Becomes(t, [IdleTask EXCEPT !.kind = "pda", !.pc = "fetch", !.program = p,
                                    !.signer = w, !.hash = cached])
  BY DEF PdaArrives
<1> DEFINE l == [IdleTask EXCEPT !.kind = "pda", !.pc = "fetch", !.program = p,
                                 !.signer = w, !.hash = cached]
<1>2. l \in TaskRows
  BY <1>1, RestingLocals DEF IdleTask, TaskRows, Inv, TypeOK, ServerTypeOK, StateRows
<1>3. SnapKnown(p, EmptySnapshot)
  BY SnapshotKnown DEF Inv, Provenance
<1>4. TaskKnown(l)
  BY <1>1, <1>3 DEF IdleTask, TaskKnown, Inv, Provenance, StateKnown
<1>5. calls' \in 0..MaxCalls
  BY ServerAssumption DEF PdaArrives, Receive, Inv, TypeOK, ServerTypeOK
<1>6. QED
  BY <1>1, <1>2, <1>4, <1>5, TaskStepKeeps DEF PdaArrives

\* The webhooks' look at the chain keeps it.
LEMMA FetchHashKeeps ==
    ASSUME Inv, NEW t \in Tasks, FetchHash(t)
    PROVE  Inv'
<1> DEFINE p == task[t].program
<1>1. task[t].pc = "fetch"
  BY DEF FetchHash
<1>2. CASE Finish(t)
  BY <1>2, FinishKeeps DEF FetchHash
<1>3. ASSUME NEW snap \in get_program_state(p), snap.is_closed,
             Goto(t, "mark_closed")
      PROVE  Inv'
  <2>1. MayBeClosed(p)
    BY <1>1, <1>3, TaskFacts, SnapshotKnown DEF Inv, SnapKnown, MayBeClosed
  <2>2. QED
    BY <1>1, <1>3, <2>1, GotoKeeps DEF FetchHash
<1>4. ASSUME NEW snap \in get_program_state(p), snap.executable_hash # None,
             Becomes(t, [task[t] EXCEPT !.pc = "unverify",
                                        !.hash = snap.executable_hash])
      PROVE  Inv'
  <2> DEFINE l == [task[t] EXCEPT !.pc = "unverify", !.hash = snap.executable_hash]
  <2>1. snap \in Snapshots /\ SnapKnown(p, snap)
    BY <1>1, TaskFacts, SnapshotTypes, SnapshotKnown DEF Inv, TypeOK
  <2>2. l \in TaskRows
    <3>1. snap.executable_hash \in Hashes \cup {None}
      BY <2>1 DEF Snapshots
    <3>2. QED
      BY <1>1, <3>1, TaskFacts DEF TaskRows
  <2>3. TaskKnown(l)
    BY <1>1, <1>4, <2>1, TaskFacts DEF TaskKnown, TaskRows, SnapKnown, Known
  <2>4. QED
    BY <1>1, <1>4, <2>2, <2>3, TaskFacts, TaskStepKeeps DEF FetchHash
<1>5. QED
  BY <1>2, <1>3, <1>4 DEF FetchHash

\* unverify_program keeps it: the hash it stores was the program's.
LEMMA UnverifyKeeps ==
    ASSUME Inv, NEW t \in Tasks, Unverify(t)
    PROVE  Inv'
<1> DEFINE p == task[t].program
           row == unverify_program(program_state[p], task[t].hash)
           l == [task[t] EXCEPT !.pc = "read_pda", !.hash = None]
<1>1. task[t].pc = "unverify"
  BY DEF Unverify
<1>2. task[t].hash \in Hashes /\ task[t].hash \in past[p].hashes
  BY <1>1, TaskFacts DEF TaskKnown, TaskRows
<1>3. row \in StateRows /\ StateKnown(p, row)
  BY <1>1, <1>2, TaskFacts, StatementTypes, StatementsKnown
<1>4. CASE UNCHANGED program_state /\ Finish(t)
  BY <1>4, FinishKeeps DEF Unverify
<1>5. CASE WriteState(p, row) /\ Finish(t)
  BY <1>1, <1>3, <1>5, FinishWriteKeeps DEF Unverify
<1>6. CASE WriteState(p, row) /\ task[t].kind = "pda" /\ Becomes(t, l)
  <2>1. l \in TaskRows
    BY <1>1, TaskFacts DEF TaskRows
  <2>2. TaskKnown(l)
    BY <1>1, <1>6, TaskFacts DEF TaskKnown, TaskRows
  <2>3. QED
    BY <1>1, <1>3, <1>6, <2>1, <2>2, TaskFacts, TaskWriteKeeps DEF Unverify
<1>7. QED
  BY <1>4, <1>5, <1>6 DEF Unverify

\* The read of an event's PDA keeps it.
LEMMA ReadPdaKeeps ==
    ASSUME Inv, NEW t \in Tasks, ReadPda(t)
    PROVE  Inv'
<1> DEFINE p == task[t].program
           w == task[t].signer
           l == [task[t] EXCEPT !.pc = "dedupe", !.source = pda[p][w]]
<1>1. task[t].pc = "read_pda"
  BY DEF ReadPda
<1>2. CASE Finish(t)
  BY <1>2, FinishKeeps DEF ReadPda
<1>3. CASE pda[p][w] # None /\ Becomes(t, l)
  <2>1. w \in Signers
    BY <1>1, TaskFacts DEF TaskKnown
  <2>2. Claimed([program |-> p, signer |-> w, source |-> pda[p][w]])
    BY <1>1, <1>3, <2>1, TaskFacts, PdaClaimed DEF Inv
  <2>3. l \in TaskRows
    BY <1>1, <2>2, TaskFacts DEF TaskRows, Claimed, NewBuilds
  <2>4. TaskKnown(l)
    BY <1>1, <2>2, TaskFacts DEF TaskKnown, TaskRows
  <2>5. QED
    BY <1>1, <1>3, <2>3, <2>4, TaskFacts, TaskStepKeeps DEF ReadPda
<1>4. QED
  BY <1>2, <1>3 DEF ReadPda

-----------------------------------------------------------------------------
(* The build processes.                                                    *)

\* What the invariant says of the process of a build.
LEMMA JobFacts ==
    ASSUME Inv, NEW b \in BuildIds, job[b].pc # "none"
    PROVE  /\ builds[b] \in BuildRows
           /\ job[b] \in JobRows
           /\ JobKnown(builds[b], job[b])
           /\ builds[b].program \in Programs
           /\ builds[b].source \in Sources
           /\ ChainKnown(builds[b].program)
           /\ StateKnown(builds[b].program, program_state[builds[b].program])
           /\ program_state[builds[b].program] \in StateRows
<1>1. builds[b] \in BuildRows /\ job[b] \in JobRows /\ JobKnown(builds[b], job[b])
  BY DEF Inv, TypeOK, ServerTypeOK, Provenance
<1>2. builds[b].program \in Programs /\ builds[b].source \in Sources
  BY <1>1 DEF JobKnown, Claimed, NewBuilds
<1>3. QED
  BY <1>1, <1>2 DEF Inv, TypeOK, ServerTypeOK, Provenance

\* A process at rest asks nothing of a row but what its working did.
LEMMA EndKnown ==
    ASSUME NEW row, NEW l, JobKnown(row, l)
    PROVE  JobKnown(row, NoJob)
BY DEF JobKnown, NoJob

\* A process that ends, or moves on without touching the tables.
LEMMA JobLocalKeeps ==
    ASSUME Inv, NEW b \in BuildIds, NEW l \in JobRows, JobBecomes(b, l),
           JobKnown(builds[b], l),
           UNCHANGED <<chain_vars, program_state, builds, task, sweep, calls, crashes>>
    PROVE  Inv'
<1>1. builds[b] \in BuildRows /\ builds' = [builds EXCEPT ![b] = builds[b]]
  BY DEF Inv, TypeOK, ServerTypeOK
<1>2. QED
  BY <1>1, JobStepKeeps

\* A process that just ends keeps it.
LEMMA EndJobKeeps ==
    ASSUME Inv, NEW b \in BuildIds, EndJob(b),
           UNCHANGED <<chain_vars, program_state, builds, task, sweep, calls, crashes>>
    PROVE  Inv'
<1>1. JobKnown(builds[b], NoJob)
  BY EndKnown DEF Inv, Provenance
<1>2. QED
  BY <1>1, RestingLocals, JobLocalKeeps DEF EndJob

\* The end of solana-verify keeps it: the hash is the artifact's or none.
LEMMA RunBuildKeeps ==
    ASSUME Inv, NEW b \in BuildIds, RunBuild(b)
    PROVE  Inv'
<1>1. job[b].pc = "run"
  BY DEF RunBuild
<1>2. CASE JobGoto(b, "fail")
  <2> DEFINE l == [job[b] EXCEPT !.pc = "fail"]
  <2>1. l \in JobRows
    BY <1>1, JobFacts DEF JobRows
  <2>2. JobKnown(builds[b], l)
    BY <1>1, JobFacts DEF JobRows, JobKnown
  <2>3. QED
    BY <1>2, <2>1, <2>2, JobLocalKeeps DEF RunBuild, JobGoto
<1>3. ASSUME NEW hash \in {Artifact[builds[b].source], Empty},
             JobBecomes(b, [job[b] EXCEPT !.pc = "complete", !.hash = hash])
      PROVE  Inv'
  <2> DEFINE l == [job[b] EXCEPT !.pc = "complete", !.hash = hash]
  <2>1. hash \in Hashes \cup {Empty, None}
    BY <1>1, <1>3, JobFacts, ArtifactAssumption
  <2>2. l \in JobRows
    BY <1>1, <2>1, JobFacts DEF JobRows
  <2>3. JobKnown(builds[b], l)
    BY <1>1, JobFacts DEF JobRows, JobKnown
  <2>4. QED
    BY <1>3, <2>2, <2>3, JobLocalKeeps DEF RunBuild
<1>4. QED
  BY <1>2, <1>3 DEF RunBuild

\* mark_build_completed keeps it: its row is still in progress.
LEMMA CompleteBuildKeeps ==
    ASSUME Inv, NEW b \in BuildIds, CompleteBuild(b)
    PROVE  Inv'
<1> DEFINE l == [job[b] EXCEPT !.pc = "snapshot", !.hash = None]
           row == mark_build_completed(builds[b], job[b].hash)
<1>1. job[b].pc = "complete" /\ JobBecomes(b, l)
  BY DEF CompleteBuild
<1>2. l \in JobRows
  BY <1>1, JobFacts DEF JobRows
<1>3. JobKnown(builds[b], l)
  BY <1>1, JobFacts DEF JobRows, JobKnown
<1>4. row \in BuildRows /\ JobKnown(row, l)
  BY <1>1, JobFacts DEF JobRows, BuildRows, JobKnown, mark_build_completed
<1>5. CASE UNCHANGED builds
  BY <1>1, <1>2, <1>3, <1>5, JobLocalKeeps DEF CompleteBuild
<1>6. CASE WriteBuild(b, row)
  BY <1>1, <1>2, <1>4, <1>6, JobStepKeeps DEF CompleteBuild, WriteBuild
<1>7. QED
  BY <1>5, <1>6 DEF CompleteBuild

\* The snapshot after a build keeps it.
LEMMA SnapshotProgramKeeps ==
    ASSUME Inv, NEW b \in BuildIds, SnapshotProgram(b)
    PROVE  Inv'
<1> DEFINE s == Snapshot(builds[b].program)
           l == [job[b] EXCEPT !.pc = "upsert", !.snap = s]
<1>1. job[b].pc = "snapshot"
  BY DEF SnapshotProgram
<1>2. CASE EndJob(b)
  BY <1>2, EndJobKeeps DEF SnapshotProgram
<1>3. CASE JobBecomes(b, l)
  <2>1. s \in Snapshots /\ SnapKnown(builds[b].program, s)
    BY <1>1, JobFacts, SnapshotTypes, SnapshotKnown DEF Inv, TypeOK
  <2>2. l \in JobRows
    BY <1>1, <2>1, JobFacts DEF JobRows
  <2>3. JobKnown(builds[b], l)
    BY <1>1, <2>1, JobFacts DEF JobRows, JobKnown
  <2>4. QED
    BY <1>3, <2>2, <2>3, JobLocalKeeps DEF SnapshotProgram
<1>4. QED
  BY <1>2, <1>3 DEF SnapshotProgram

\* The upsert after a build keeps it, however old the snapshot is.
LEMMA UpsertAfterBuildKeeps ==
    ASSUME Inv, NEW b \in BuildIds, UpsertAfterBuild(b)
    PROVE  Inv'
<1> DEFINE p == builds[b].program
           row == upsert_program_state(program_state[p], job[b].snap)
<1>1. job[b].pc = "upsert" /\ EndJob(b)
  BY DEF UpsertAfterBuild
<1>2. row \in StateRows /\ StateKnown(p, row)
  BY <1>1, JobFacts, StatementTypes, StatementsKnown DEF JobRows, JobKnown
<1>3. CASE UNCHANGED program_state
  BY <1>1, <1>3, EndJobKeeps DEF UpsertAfterBuild
<1>4. CASE WriteState(p, row)
  BY <1>1, <1>2, <1>4, JobFacts, EndKnown, JobWriteKeeps DEF UpsertAfterBuild
<1>5. QED
  BY <1>3, <1>4 DEF UpsertAfterBuild

\* mark_build_failed keeps it.
LEMMA FailBuildKeeps ==
    ASSUME Inv, NEW b \in BuildIds, FailBuild(b)
    PROVE  Inv'
<1> DEFINE row == mark_build_failed(builds[b])
<1>1. job[b].pc = "fail"
  BY DEF FailBuild
<1>2. PICK l \in {NoJob, [job[b] EXCEPT !.pc = "check_closed"]} : JobBecomes(b, l)
  BY DEF FailBuild, JobGoto, EndJob
<1>3. l \in JobRows
  BY <1>1, <1>2, JobFacts, RestingLocals DEF JobRows
<1>4. JobKnown(builds[b], l)
  BY <1>1, <1>2, JobFacts, EndKnown DEF JobRows, JobKnown
<1>5. row \in BuildRows /\ JobKnown(row, l)
  BY <1>1, <1>2, JobFacts DEF JobRows, NoJob, BuildRows, JobKnown, mark_build_failed
<1>6. CASE UNCHANGED builds
  BY <1>2, <1>3, <1>4, <1>6, JobLocalKeeps DEF FailBuild
<1>7. CASE WriteBuild(b, row)
  BY <1>2, <1>3, <1>5, <1>7, JobStepKeeps DEF FailBuild, WriteBuild
<1>8. QED
  BY <1>6, <1>7 DEF FailBuild

\* The look for a closed program after a failed build keeps it.
LEMMA CheckClosedAfterFailureKeeps ==
    ASSUME Inv, NEW b \in BuildIds, CheckClosedAfterFailure(b)
    PROVE  Inv'
<1> DEFINE l == [job[b] EXCEPT !.pc = "mark_closed"]
<1>1. job[b].pc = "check_closed"
  BY DEF CheckClosedAfterFailure
<1>2. CASE EndJob(b)
  BY <1>2, EndJobKeeps DEF CheckClosedAfterFailure
<1>3. CASE TRUE \in is_program_data_missing(builds[b].program) /\ JobBecomes(b, l)
  <2>1. MayBeClosed(builds[b].program)
    BY <1>1, <1>3, JobFacts, MissingMayBeClosed DEF Inv
  <2>2. l \in JobRows
    BY <1>1, JobFacts DEF JobRows
  <2>3. JobKnown(builds[b], l)
    BY <1>1, <2>1, JobFacts DEF JobRows, JobKnown
  <2>4. QED
    BY <1>3, <2>2, <2>3, JobLocalKeeps DEF CheckClosedAfterFailure
<1>4. QED
  BY <1>2, <1>3 DEF CheckClosedAfterFailure, JobGoto

\* mark_closed after a failed build keeps it.
LEMMA MarkClosedAfterFailureKeeps ==
    ASSUME Inv, NEW b \in BuildIds, MarkClosedAfterFailure(b)
    PROVE  Inv'
<1> DEFINE p == builds[b].program
           row == mark_closed(program_state[p])
<1>1. job[b].pc = "mark_closed" /\ EndJob(b)
  BY DEF MarkClosedAfterFailure
<1>2. row \in StateRows /\ StateKnown(p, row)
  BY <1>1, JobFacts, StatementTypes, StatementsKnown DEF JobKnown
<1>3. CASE UNCHANGED program_state
  BY <1>1, <1>3, EndJobKeeps DEF MarkClosedAfterFailure
<1>4. CASE WriteState(p, row)
  BY <1>1, <1>2, <1>4, JobFacts, EndKnown, JobWriteKeeps DEF MarkClosedAfterFailure
<1>5. QED
  BY <1>3, <1>4 DEF MarkClosedAfterFailure

-----------------------------------------------------------------------------
(* The sweep.                                                              *)

\* A step of the sweep that writes its own locals only.
LEMMA SweepLocalKeeps ==
    ASSUME Inv, SweepFrame, UNCHANGED <<program_state, builds, job>>,
           sweep' \in SweepRows, SweepKnown'
    PROVE  Inv'
<1>1. ServerTypeOK'
  BY DEF Inv, TypeOK, ServerTypeOK, SweepFrame
<1>2. QED
  BY <1>1, ServiceStep DEF Inv, Provenance, SweepFrame

\* ... and one that writes a row too.
LEMMA SweepWriteKeeps ==
    ASSUME Inv, SweepFrame, UNCHANGED <<builds, job>>,
           NEW p \in Programs, NEW row \in StateRows, StateKnown(p, row),
           WriteState(p, row) \/ UNCHANGED program_state,
           sweep' \in SweepRows, SweepKnown'
    PROVE  Inv'
<1>1. ServerTypeOK'
  BY DEF Inv, TypeOK, ServerTypeOK, SweepFrame, WriteState
<1>2. \A q \in Programs : StateKnown(q, program_state'[q])
  BY DEF Inv, TypeOK, ServerTypeOK, Provenance, WriteState
<1>3. QED
  BY <1>1, <1>2, ServiceStep DEF Inv, Provenance, SweepFrame

\* The sweep at rest knows nothing, and so does one that holds no snapshot.
LEMMA EmptyKnown ==
    ASSUME Inv
    PROVE  \A p \in Programs : SnapKnown(p, EmptySnapshot)
BY SnapshotKnown DEF Inv, Provenance

\* A sweep at rest is known.
LEMMA RestKnown ==
    ASSUME Inv, UNCHANGED chain_vars, sweep' = IdleSweep
    PROVE  sweep' \in SweepRows /\ SweepKnown'
BY EmptyKnown, KnownUnchanged, RestingLocals DEF SweepKnown, IdleSweep

\* A cycle that ends early keeps the invariant.
LEMMA RestKeeps ==
    ASSUME Inv, SweepFrame, UNCHANGED <<program_state, builds, job>>,
           sweep' = IdleSweep
    PROVE  Inv'
BY RestKnown, SweepLocalKeeps DEF SweepFrame

\* The start of a cycle keeps it.
LEMMA BeginCycleKeeps ==
    ASSUME Inv, BeginCycle
    PROVE  Inv'
<1>1. sweep' = [sweep EXCEPT !.pc = "fetch", !.todo = sweep_program_ids]
  BY DEF BeginCycle
<1>2. sweep' \in SweepRows
  BY <1>1 DEF sweep_program_ids, SweepRows, Inv, TypeOK, ServerTypeOK
<1>3. SweepKnown'
  BY <1>1, KnownUnchanged
  DEF BeginCycle, SweepFrame, SweepKnown, SweepRows, Inv, TypeOK, ServerTypeOK,
      Provenance
<1>4. QED
  BY <1>2, <1>3, SweepLocalKeeps DEF BeginCycle

\* A chunk of snapshots keeps it: each says what is true now.
LEMMA FetchChunkKeeps ==
    ASSUME Inv, FetchChunk
    PROVE  Inv'
<1>1. PICK chunk \in Limited(sweep.todo, ChunkSize) :
        \E skipped \in SUBSET {p \in chunk : MaySkip(p)} :
            ChunkAnswered(chunk, skipped)
  BY DEF FetchChunk
<1>a. PICK skipped \in SUBSET {p \in chunk : MaySkip(p)} :
        ChunkAnswered(chunk, skipped)
  BY <1>1
<1>b. chunk \subseteq sweep.todo
  BY DEF Limited
<1> DEFINE snaps == [p \in Programs |-> IF p \in chunk \ skipped THEN Snapshot(p)
                                        ELSE sweep.snaps[p]]
<1>2. sweep \in SweepRows
  BY DEF Inv, TypeOK, ServerTypeOK
<1>3. snaps \in [Programs -> Snapshots]
  BY <1>2, SnapshotTypes DEF SweepRows, Inv, TypeOK
<1>4. /\ sweep'.snaps = snaps
      /\ sweep'.pc \in {"fetch", "apply", "drain"}
      /\ sweep' \in SweepRows
  BY <1>a, <1>b, <1>2, <1>3 DEF ChunkAnswered, SweepRows
<1>5. \A p \in Programs : SnapKnown(p, snaps[p])
  BY SnapshotKnown DEF Inv, Provenance, SweepKnown
<1>6. SweepKnown'
  BY <1>4, <1>5, KnownUnchanged DEF FetchChunk, SweepFrame, SweepKnown
<1>7. QED
  BY <1>4, <1>6, SweepLocalKeeps DEF FetchChunk

\* The write of one snapshot keeps it, however old the snapshot is.
LEMMA ApplySnapshotKeeps ==
    ASSUME Inv, NEW p \in Programs, ApplySnapshot(p)
    PROVE  Inv'
<1> DEFINE row == upsert_program_state(program_state[p], sweep.snaps[p])
<1>1. sweep \in SweepRows
  BY DEF Inv, TypeOK, ServerTypeOK
<1>2. row \in StateRows /\ StateKnown(p, row)
  BY <1>1, StatementTypes, StatementsKnown
  DEF SweepRows, Inv, TypeOK, ServerTypeOK, Provenance, SweepKnown
<1>3. /\ sweep'.snaps = [sweep.snaps EXCEPT ![p] = EmptySnapshot]
      /\ sweep'.pc \in {"apply", "drain"}
      /\ sweep' \in SweepRows
  BY <1>1, ConstantSnapshots DEF ApplySnapshot, SweepRows
<1>4. \A q \in Programs : SnapKnown(q, sweep'.snaps[q])
  BY <1>1, <1>3, EmptyKnown DEF SweepRows, Inv, Provenance, SweepKnown
<1>5. SweepKnown'
  BY <1>3, <1>4, KnownUnchanged DEF ApplySnapshot, SweepFrame, SweepKnown
<1>6. QED
  BY <1>2, <1>3, <1>5, SweepWriteKeeps DEF ApplySnapshot

\* The drain query keeps it.
LEMMA LoadCandidatesKeeps ==
    ASSUME Inv, LoadCandidates
    PROVE  Inv'
<1>1. CASE sweep' = IdleSweep
  BY <1>1, RestKeeps DEF LoadCandidates
<1>2. ASSUME NEW queue \in SUBSET Programs,
             sweep' = [IdleSweep EXCEPT
                 !.pc = "next", !.queue = queue,
                 !.authority = [p \in Programs |->
                    IF p \in queue THEN program_state[p].authority ELSE None]]
      PROVE  Inv'
  <2>1. [p \in Programs |-> IF p \in queue THEN program_state[p].authority
                            ELSE None] \in [Programs -> Signers \cup {None}]
    BY DEF Inv, TypeOK, ServerTypeOK, StateRows
  <2>2. /\ sweep' \in SweepRows
        /\ sweep'.pc = "next"
        /\ sweep'.snaps = [p \in Programs |-> EmptySnapshot]
    BY <1>2, <2>1, ConstantSnapshots DEF IdleSweep, SweepRows
  <2>3. SweepKnown'
    BY <2>2, EmptyKnown, KnownUnchanged DEF LoadCandidates, SweepFrame, SweepKnown
  <2>4. QED
    BY <2>2, <2>3, SweepLocalKeeps DEF LoadCandidates
<1>3. QED
  BY <1>1, <1>2 DEF LoadCandidates, Limited, Candidates

\* The PDA lookup for a candidate keeps it.
LEMMA LookupCandidateKeeps ==
    ASSUME Inv, NEW p \in Programs, LookupCandidate(p)
    PROVE  Inv'
<1>1. sweep \in SweepRows /\ program_state[p].on_chain_hash \in Hashes \cup {None}
  BY DEF Inv, TypeOK, ServerTypeOK, StateRows
<1>2. ASSUME NEW w \in Signers, pda[p][w] # None,
             sweep' = [sweep EXCEPT
                  !.pc = "has_build", !.program = p, !.signer = w,
                  !.source = pda[p][w],
                  !.examined = program_state[p].on_chain_hash]
      PROVE  Inv'
  <2>1. Claimed([program |-> p, signer |-> w, source |-> pda[p][w]])
    BY <1>2, PdaClaimed DEF Inv, Provenance
  <2>2. /\ sweep' \in SweepRows
        /\ sweep'.pc = "has_build"
        /\ sweep'.snaps = sweep.snaps
        /\ SweepNew' = [program |-> p, signer |-> w, source |-> pda[p][w]]
    BY <1>1, <1>2, <2>1 DEF SweepRows, SweepNew, Claimed, NewBuilds
  <2>3. SweepKnown'
    BY <2>1, <2>2, KnownUnchanged
    DEF LookupCandidate, SweepFrame, SweepKnown, Inv, Provenance
  <2>4. QED
    BY <2>2, <2>3, SweepLocalKeeps DEF LookupCandidate
<1>3. ASSUME sweep' = [sweep EXCEPT !.pc = "clear", !.program = p,
                           !.examined = program_state[p].on_chain_hash]
      PROVE  Inv'
  <2>1. /\ sweep' \in SweepRows
        /\ sweep'.pc = "clear"
        /\ sweep'.program = p
        /\ sweep'.snaps = sweep.snaps
    BY <1>1, <1>3 DEF SweepRows
  <2>2. SweepKnown'
    BY <2>1, KnownUnchanged
    DEF LookupCandidate, SweepFrame, SweepKnown, Inv, Provenance
  <2>3. QED
    BY <2>1, <2>2, SweepLocalKeeps DEF LookupCandidate
<1>4. QED
  BY <1>2, <1>3 DEF LookupCandidate, FindsPda

\* The sweep moves on with the candidate at hand.
LEMMA MoveOnKnown ==
    ASSUME Inv, SweepFrame, sweep.pc \in {"has_build", "insert"},
           NEW pc \in {"insert", "clear"}, sweep' = [sweep EXCEPT !.pc = pc]
    PROVE  sweep' \in SweepRows /\ SweepKnown'
<1>1. Claimed(SweepNew) /\ sweep \in SweepRows
  BY DEF Inv, TypeOK, ServerTypeOK, Provenance, SweepKnown
<1>2. /\ sweep' \in SweepRows
      /\ sweep'.pc = pc
      /\ sweep'.program = sweep.program
      /\ sweep'.snaps = sweep.snaps
      /\ SweepNew' = SweepNew
  BY <1>1 DEF SweepRows, SweepNew
<1>3. sweep.program \in Programs
  BY <1>1 DEF Claimed, NewBuilds, SweepNew
<1>4. SweepKnown'
  BY <1>1, <1>2, <1>3, KnownUnchanged
  DEF SweepFrame, SweepKnown, Inv, Provenance
<1>5. QED
  BY <1>2, <1>4

\* The sweep's look for an identical build keeps it.
LEMMA CheckBuildsKeeps ==
    ASSUME Inv, CheckBuilds
    PROVE  Inv'
<1>1. sweep' \in SweepRows /\ SweepKnown'
  BY MoveOnKnown DEF CheckBuilds
<1>2. QED
  BY <1>1, SweepLocalKeeps DEF CheckBuilds

\* The insert of the sweep's build keeps it.
LEMMA InsertReverifyKeeps ==
    ASSUME Inv, InsertReverify
    PROVE  Inv'
<1>1. sweep' \in SweepRows /\ SweepKnown'
  BY MoveOnKnown DEF InsertReverify
<1>2. Claimed(SweepNew)
  BY DEF InsertReverify, Inv, Provenance, SweepKnown
<1>3. /\ builds' \in [BuildIds -> BuildRows]
      /\ job' \in [BuildIds -> JobRows]
      /\ \A b \in BuildIds : JobKnown(builds'[b], job'[b])
  BY <1>2, InsertKnown DEF InsertReverify, SweepFrame
<1>4. ServerTypeOK'
  BY <1>1, <1>3 DEF InsertReverify, SweepFrame, Inv, TypeOK, ServerTypeOK
<1>5. QED
  BY <1>1, <1>3, <1>4, ServiceStep DEF InsertReverify, SweepFrame, Inv, Provenance

\* clear_pending_reverify keeps it.
LEMMA ClearFlagKeeps ==
    ASSUME Inv, ClearFlag
    PROVE  Inv'
<1> DEFINE p == sweep.program
           row == clear_pending_reverify(program_state[p])
<1>1. p \in Programs /\ sweep \in SweepRows
  BY DEF ClearFlag, Inv, TypeOK, ServerTypeOK, Provenance, SweepKnown
<1>2. row \in StateRows /\ StateKnown(p, row)
  BY <1>1, StatementTypes, StatementsKnown
  DEF Inv, TypeOK, ServerTypeOK, Provenance
<1>3. sweep' \in SweepRows /\ SweepKnown'
  <2>1. CASE sweep' = IdleSweep
    BY <2>1, RestKnown DEF ClearFlag, SweepFrame
  <2>2. CASE sweep' = [sweep EXCEPT !.pc = "next", !.queue = @ \ {p},
                          !.program = None, !.signer = None, !.source = None,
                          !.examined = None]
    <3>1. /\ sweep' \in SweepRows
          /\ sweep'.pc = "next"
          /\ sweep'.snaps = sweep.snaps
      BY <1>1, <2>2 DEF SweepRows
    <3>2. QED
      BY <3>1, KnownUnchanged
      DEF ClearFlag, SweepFrame, SweepKnown, Inv, Provenance
  <2>3. QED
    BY <2>1, <2>2 DEF ClearFlag
<1>4. QED
  BY <1>1, <1>2, <1>3, SweepWriteKeeps DEF ClearFlag

-----------------------------------------------------------------------------
(* Crashes, clients that leave, and the chain.                             *)

\* The cleanup leaves rows that are known although nothing works on them.
LEMMA CleanupKnown ==
    ASSUME Inv
    PROVE  /\ fail_orphan_builds(builds) \in [BuildIds -> BuildRows]
           /\ \A b \in BuildIds : /\ JobKnown(fail_orphan_builds(builds)[b], NoJob)
                                  /\ JobKnown(builds[b], NoJob)
<1>1. \A b \in BuildIds : JobKnown(builds[b], job[b]) /\ builds[b] \in BuildRows
  BY DEF Inv, TypeOK, ServerTypeOK, Provenance
<1>2. \A b \in BuildIds :
        /\ mark_build_failed(builds[b]) \in BuildRows
        /\ JobKnown(builds[b], NoJob)
        /\ builds[b].status = "in_progress" =>
            JobKnown(mark_build_failed(builds[b]), NoJob)
  BY <1>1 DEF mark_build_failed, BuildRows, JobKnown, NoJob
<1>3. QED
  BY <1>1, <1>2 DEF fail_orphan_builds

\* A crash and the restart's cleanup keep it.
LEMMA CrashKeeps ==
    ASSUME Inv, CrashRestart
    PROVE  Inv'
<1>1. TaskKnown(IdleTask)
  BY DEF TaskKnown, IdleTask
<1>2. /\ builds' \in [BuildIds -> BuildRows]
      /\ \A b \in BuildIds : JobKnown(builds'[b], job'[b])
  BY CleanupKnown DEF CrashRestart, Inv, TypeOK, ServerTypeOK
<1>3. crashes' \in 0..MaxCrashes
  BY ServerAssumption DEF CrashRestart, Inv, TypeOK, ServerTypeOK
<1>4. ServerTypeOK'
  BY <1>2, <1>3, RestingLocals DEF CrashRestart, Inv, TypeOK, ServerTypeOK
<1>5. SweepKnown'
  BY RestKnown DEF CrashRestart
<1>6. QED
  BY <1>1, <1>2, <1>4, <1>5, ServiceStep DEF CrashRestart, Inv, Provenance

\* A client's disconnect keeps it.
LEMMA DisconnectKeeps ==
    ASSUME Inv, ClientDisconnects
    PROVE  Inv'
<1>1. CASE \E t \in Tasks : Finish(t) /\ UNCHANGED job
  BY <1>1, FinishKeeps DEF ClientDisconnects
<1>2. CASE \E b \in BuildIds : EndJob(b) /\ UNCHANGED task
  BY <1>2, EndJobKeeps DEF ClientDisconnects
<1>3. QED
  BY <1>1, <1>2 DEF ClientDisconnects

\* The chain forgets nothing, and a legacy program stays one.
Grows ==
    \A p \in Programs :
        /\ past[p].hashes \subseteq past'[p].hashes
        /\ past[p].authorities \subseteq past'[p].authorities
        /\ past[p].shown \subseteq past'[p].shown
        /\ past[p].claims \subseteq past'[p].claims
        /\ past[p].closed => past'[p].closed
        /\ chain[p].loader = "legacy" => chain'[p].loader = "legacy"

\* What was known of a program stays known as the chain moves on.
LEMMA GrowsKeepsKnown ==
    ASSUME Grows
    PROVE  /\ \A p \in Programs : \A row : StateKnown(p, row) => StateKnown(p, row)'
           /\ \A p \in Programs : \A snap : SnapKnown(p, snap) => SnapKnown(p, snap)'
           /\ \A new : Claimed(new) => Claimed(new)'
           /\ \A l : TaskKnown(l) => TaskKnown(l)'
           /\ \A row, l : JobKnown(row, l) => JobKnown(row, l)'
<1>0. \A p \in Programs : MayBeClosed(p) => MayBeClosed(p)'
  BY DEF Grows, MayBeClosed, RpcFails
<1>1. \A p \in Programs : \A row : StateKnown(p, row) => StateKnown(p, row)'
  BY <1>0 DEF Grows, StateKnown, Authorities
<1>2. \A p \in Programs : \A snap : SnapKnown(p, snap) => SnapKnown(p, snap)'
  BY DEF Grows, SnapKnown, Known, Authorities
<1>3. \A new : Claimed(new) => Claimed(new)'
  BY DEF Grows, Claimed, NewBuilds
<1>4. \A l : TaskKnown(l) => TaskKnown(l)'
  BY <1>0, <1>2, <1>3 DEF Grows, TaskKnown
<1>5. \A row, l : JobKnown(row, l) => JobKnown(row, l)'
  <2>1. \A row, l : JobKnown(row, l) /\ l.pc \in {"upsert", "mark_closed"} =>
            row.program \in Programs
    BY DEF JobKnown, Claimed, NewBuilds
  <2>2. QED
    BY <1>0, <1>2, <1>3, <2>1 DEF Grows, JobKnown
<1>6. QED
  BY <1>1, <1>2, <1>3, <1>4, <1>5

\* A step that changes the account and the history of p alone, and its bound.
ChainWrite(p, row, hist) ==
    /\ chain' = [chain EXCEPT ![p] = row]
    /\ past' = [past EXCEPT ![p] = hist]
    /\ UNCHANGED pda
    /\ chain_steps' \in 0..MaxChainSteps

\* It is typed, forgets nothing and is remembered if row and hist are so.
LEMMA ChainWriteKeeps ==
    ASSUME ChainTypeOK, \A q \in Programs : ChainKnown(q),
           NEW p \in Programs, NEW row \in ChainPrograms, NEW hist \in Pasts,
           ChainWrite(p, row, hist),
           past[p].hashes \subseteq hist.hashes,
           past[p].authorities \subseteq hist.authorities,
           past[p].shown \subseteq hist.shown,
           past[p].claims \subseteq hist.claims,
           past[p].closed => hist.closed,
           chain[p].loader # "legacy" \/ row.loader = "legacy",
           row.open => row.hash \in hist.hashes,
           row.authority \in hist.authorities \cup {None},
           row.newest \in hist.shown \cup {None},
           ~row.open => hist.closed
    PROVE  ChainTypeOK' /\ Grows /\ \A q \in Programs : ChainKnown(q)'
<1>1. /\ chain \in [Programs -> ChainPrograms]
      /\ past \in [Programs -> Pasts]
  BY DEF ChainTypeOK
<1>2. ChainTypeOK'
  BY DEF ChainTypeOK, ChainWrite
<1>3. /\ \A q \in Programs : q # p => chain'[q] = chain[q] /\ past'[q] = past[q]
      /\ chain'[p] = row /\ past'[p] = hist
  BY <1>1 DEF ChainWrite
<1>4. Grows
  BY <1>3 DEF Grows
<1>5. ASSUME NEW q \in Programs PROVE ChainKnown(q)'
  <2>1. CASE q = p
    BY <1>3, <2>1 DEF ChainKnown, ChainWrite
  <2>2. CASE q # p
    BY <1>3, <2>2 DEF ChainKnown, ChainWrite
  <2>3. QED
    BY <2>1, <2>2
<1>6. QED
  BY <1>2, <1>4, <1>5

\* A step of the chain is typed, forgets nothing and is itself remembered.
LEMMA ChainStepKeeps ==
    ASSUME ChainTypeOK, \A p \in Programs : ChainKnown(p), ChainNext
    PROVE  ChainTypeOK' /\ Grows /\ \A p \in Programs : ChainKnown(p)'
<1> DEFINE Goal == ChainTypeOK' /\ Grows /\ \A p \in Programs : ChainKnown(p)'
<1>1. ASSUME NEW act, ChainStep(act)
      PROVE  chain_steps' \in 0..MaxChainSteps
  BY <1>1, ChainAssumption DEF ChainStep, ChainTypeOK
<1>2. ASSUME NEW p \in Programs
      PROVE  /\ chain[p] \in ChainPrograms
             /\ past[p] \in Pasts
             /\ ChainKnown(p)
  BY DEF ChainTypeOK
<1>3. chain \in [Programs -> ChainPrograms] /\ past \in [Programs -> Pasts]
  BY DEF ChainTypeOK
<1>4. ASSUME NEW p \in Programs, NEW h \in Hashes, NEW w \in Signers, Deploy(p, h, w)
      PROVE  Goal
  <2> DEFINE row == [loader |-> "upgradeable", open |-> TRUE, hash |-> h,
                     authority |-> w, newest |-> None]
             hist == [past[p] EXCEPT !.hashes = @ \cup {h},
                                     !.authorities = @ \cup {w}]
  <2>1. row \in ChainPrograms /\ hist \in Pasts
    BY <1>2 DEF ChainPrograms, Pasts
  <2>2. ChainWrite(p, row, hist)
    BY <1>1, <1>3, <1>4 DEF Deploy, ChainWrite, Pasts
  <2>3. /\ hist.hashes = past[p].hashes \cup {h}
        /\ hist.authorities = past[p].authorities \cup {w}
        /\ hist.shown = past[p].shown /\ hist.claims = past[p].claims
        /\ hist.closed = past[p].closed
    BY <1>2 DEF Pasts
  <2>4. chain[p].loader = "none"
    BY <1>4 DEF Deploy
  <2> HIDE DEF hist
  <2>5. QED
    BY <2>1, <2>2, <2>3, <2>4, ChainWriteKeeps
<1>5. ASSUME NEW p \in Programs, NEW h \in Hashes, Upgrade(p, h)
      PROVE  Goal
  <2> DEFINE row == [chain[p] EXCEPT !.hash = h]
             hist == [past[p] EXCEPT !.hashes = @ \cup {h}]
  <2>1. row \in ChainPrograms /\ hist \in Pasts
    BY <1>2 DEF ChainPrograms, Pasts
  <2>2. ChainWrite(p, row, hist)
    BY <1>1, <1>3, <1>5 DEF Upgrade, ChainWrite
  <2>3. /\ hist.hashes = past[p].hashes \cup {h}
        /\ hist.authorities = past[p].authorities
        /\ hist.shown = past[p].shown /\ hist.claims = past[p].claims
        /\ hist.closed = past[p].closed
    BY <1>2 DEF Pasts
  <2>4. /\ row.loader = chain[p].loader /\ row.open = chain[p].open
        /\ row.hash = h /\ row.authority = chain[p].authority
        /\ row.newest = chain[p].newest
    BY <1>2 DEF ChainPrograms
  <2> HIDE DEF row, hist
  <2>5. QED
    BY <1>2, <2>1, <2>2, <2>3, <2>4, ChainWriteKeeps DEF ChainKnown
<1>6. ASSUME NEW p \in Programs, CloseProgram(p)
      PROVE  Goal
  <2> DEFINE row == [chain[p] EXCEPT !.open = FALSE, !.authority = None]
             hist == [past[p] EXCEPT !.closed = TRUE]
  <2>1. row \in ChainPrograms /\ hist \in Pasts
    BY <1>2 DEF ChainPrograms, Pasts
  <2>2. ChainWrite(p, row, hist)
    BY <1>1, <1>2, <1>3, <1>6 DEF CloseProgram, ChainWrite, ChainPrograms
  <2>3. /\ hist.hashes = past[p].hashes
        /\ hist.authorities = past[p].authorities
        /\ hist.shown = past[p].shown /\ hist.claims = past[p].claims
        /\ hist.closed = TRUE
    BY <1>2 DEF Pasts
  <2>4. /\ row.loader = chain[p].loader /\ row.open = FALSE
        /\ row.authority = None /\ row.newest = chain[p].newest
    BY <1>2 DEF ChainPrograms
  <2> HIDE DEF row, hist
  <2>5. QED
    BY <1>2, <2>1, <2>2, <2>3, <2>4, ChainWriteKeeps DEF ChainKnown
<1>7. ASSUME NEW p \in Programs, NEW w \in Signers, TransferAuthority(p, w)
      PROVE  Goal
  <2> DEFINE row == [chain[p] EXCEPT !.authority = w]
             hist == [past[p] EXCEPT !.authorities = @ \cup {w}]
  <2>1. row \in ChainPrograms /\ hist \in Pasts
    BY <1>2 DEF ChainPrograms, Pasts
  <2>2. ChainWrite(p, row, hist)
    BY <1>1, <1>3, <1>7 DEF TransferAuthority, ChainWrite
  <2>3. /\ hist.hashes = past[p].hashes
        /\ hist.authorities = past[p].authorities \cup {w}
        /\ hist.shown = past[p].shown /\ hist.claims = past[p].claims
        /\ hist.closed = past[p].closed
    BY <1>2 DEF Pasts
  <2>4. /\ row.loader = chain[p].loader /\ row.open = chain[p].open
        /\ row.hash = chain[p].hash /\ row.authority = w
        /\ row.newest = chain[p].newest
    BY <1>2 DEF ChainPrograms
  <2> HIDE DEF row, hist
  <2>5. QED
    BY <1>2, <2>1, <2>2, <2>3, <2>4, ChainWriteKeeps DEF ChainKnown
<1>8. ASSUME NEW p \in Programs, NEW w \in Signers, Freeze(p, w) \/ Touch(p, w)
      PROVE  Goal
  <2> DEFINE row == [chain[p] EXCEPT !.authority = None, !.newest = w]
             hist == [past[p] EXCEPT !.shown = @ \cup {w}]
  <2>1. row \in ChainPrograms /\ hist \in Pasts
    BY <1>2 DEF ChainPrograms, Pasts
  <2>2. ChainWrite(p, row, hist)
    <3>1. CASE Freeze(p, w)
      BY <1>1, <1>2, <1>3, <3>1 DEF Freeze, ChainWrite, ChainPrograms
    <3>2. CASE Touch(p, w)
      <4>1. row = [chain[p] EXCEPT !.newest = w]
        BY <1>2, <3>2 DEF Touch, ChainPrograms
      <4>2. QED
        BY <1>1, <1>3, <3>2, <4>1 DEF Touch, ChainWrite
    <3>3. QED
      BY <1>8, <3>1, <3>2
  <2>3. /\ hist.hashes = past[p].hashes
        /\ hist.authorities = past[p].authorities
        /\ hist.shown = past[p].shown \cup {w} /\ hist.claims = past[p].claims
        /\ hist.closed = past[p].closed
    BY <1>2 DEF Pasts
  <2>4. /\ row.loader = chain[p].loader /\ row.open = chain[p].open
        /\ row.hash = chain[p].hash /\ row.authority = None
        /\ row.newest = w
    BY <1>2 DEF ChainPrograms
  <2> HIDE DEF row, hist
  <2>5. QED
    BY <1>2, <2>1, <2>2, <2>3, <2>4, ChainWriteKeeps DEF ChainKnown
<1>9. ASSUME NEW p \in Programs, NEW w \in Signers, NEW s \in Sources, PublishPda(p, w, s)
      PROVE  Goal
  <2>1. ChainTypeOK'
    <3>1. [past[p] EXCEPT !.claims = @ \cup {<<w, s>>}] \in Pasts
      <4>1. past[p] \in Pasts
        BY DEF ChainTypeOK
      <4>2. past[p].claims \cup {<<w, s>>} \in SUBSET (Signers \X Sources)
        BY <4>1 DEF Pasts
      <4>3. QED
        BY <4>1, <4>2 DEF Pasts
    <3>2. [pda[p] EXCEPT ![w] = s] \in [Signers -> Sources \cup {None}]
      BY DEF ChainTypeOK
    <3>3. QED
      BY <1>1, <1>9, <3>1, <3>2 DEF PublishPda, ChainTypeOK
  <2>2. Grows
    BY <1>9 DEF PublishPda, ChainTypeOK, ChainPrograms, Pasts, Grows
  <2>3. \A q \in Programs : ChainKnown(q)'
    BY <1>9 DEF PublishPda, ChainTypeOK, ChainPrograms, Pasts, ChainKnown
  <2>4. QED
    BY <2>1, <2>2, <2>3
<1>10. QED
  BY <1>4, <1>5, <1>6, <1>7, <1>8, <1>9 DEF ChainNext

\* A step of the chain keeps it: the history only grows.
LEMMA ChainKeeps ==
    ASSUME Inv, ChainNext, UNCHANGED server_vars
    PROVE  Inv'
<1>1. ChainTypeOK' /\ Grows /\ \A p \in Programs : ChainKnown(p)'
  BY ChainStepKeeps DEF Inv, TypeOK, Provenance
<1>2. TypeOK'
  BY <1>1 DEF Inv, TypeOK, ServerTypeOK, server_vars
<1>3. SweepKnown'
  BY <1>1, GrowsKeepsKnown
  DEF server_vars, Inv, Provenance, SweepKnown, SweepNew
<1>4. Provenance'
  BY <1>1, <1>3, GrowsKeepsKnown DEF server_vars, Inv, Provenance
<1>5. QED
  BY <1>2, <1>4 DEF Inv

-----------------------------------------------------------------------------
(* The theorems.                                                           *)

\* It holds at the first start.
LEMMA InitInv == Init => Inv
<1> SUFFICES ASSUME Init PROVE Inv
  OBVIOUS
<1>1. ChainTypeOK
  <2>1. chain \in [Programs -> ChainPrograms]
    BY ChainAssumption DEF Init, ChainInit
  <2>2. past \in [Programs -> Pasts]
    BY <2>1 DEF Init, ChainInit, ChainPrograms, Pasts
  <2>3. QED
    BY <2>1, <2>2, ChainAssumption DEF Init, ChainInit, ChainTypeOK
<1>2. ServerTypeOK
  BY RestingLocals, ServerAssumption
  DEF Init, ServerInit, ServerTypeOK, NoRow, StateRows, NoBuild, BuildRows
<1>3. \A p \in Programs : ChainKnown(p)
  <2> SUFFICES ASSUME NEW p \in Programs PROVE ChainKnown(p)
    OBVIOUS
  <2>1. chain[p] \in ChainPrograms
    BY <1>1 DEF ChainTypeOK
  <2>2. \A w \in Signers : InitialPda[p][w] \in Sources \cup {None}
    BY ChainAssumption
  <2>3. /\ past[p].hashes = IF chain[p].open THEN {chain[p].hash} ELSE {}
        /\ past[p].authorities = {chain[p].authority} \ {None}
        /\ past[p].shown = {chain[p].newest} \ {None}
        /\ past[p].claims = {c \in Signers \X Sources : InitialPda[p][c[1]] = c[2]}
        /\ past[p].closed = ~chain[p].open
        /\ pda[p] = InitialPda[p]
    BY DEF Init, ChainInit
  <2>4. QED
    BY <2>1, <2>2, <2>3 DEF ChainKnown
<1>4. \A p \in Programs : StateKnown(p, program_state[p])
  BY DEF Init, ServerInit, NoRow, StateKnown
<1>5. \A t \in Tasks : TaskKnown(task[t])
  BY DEF Init, ServerInit, IdleTask, TaskKnown
<1>6. \A b \in BuildIds : JobKnown(builds[b], job[b])
  BY DEF Init, ServerInit, NoBuild, NoJob, JobKnown
<1>7. SweepKnown
  BY DEF Init, ServerInit, IdleSweep, SweepKnown, SnapKnown, Known, EmptySnapshot
<1>8. QED
  BY <1>1, <1>2, <1>3, <1>4, <1>5, <1>6, <1>7 DEF Inv, TypeOK, Provenance

\* Every step keeps it.
LEMMA StepInv == Inv /\ [Next]_vars => Inv'
<1> SUFFICES ASSUME Inv, [Next]_vars PROVE Inv'
  OBVIOUS
<1>1. CASE ChainNext /\ UNCHANGED server_vars
  BY <1>1, ChainKeeps
<1>2. ASSUME NEW t \in Tasks, Arrives(t) PROVE Inv'
  BY <1>2, VerifyArrivesKeeps, UnverifyArrivesKeeps, PdaArrivesKeeps DEF Arrives
<1>3. ASSUME NEW t \in Tasks, TaskStep(t) PROVE Inv'
  BY <1>3, VerifyLookupKeeps, VerifyUpsertKeeps, DedupeKeeps, CheckClosedKeeps,
     MarkClosedKeeps, InsertBuildKeeps, FetchHashKeeps, UnverifyKeeps, ReadPdaKeeps
  DEF TaskStep, VerifyStep, WebhookStep
<1>4. ASSUME NEW b \in BuildIds, JobStep(b) PROVE Inv'
  BY <1>4, RunBuildKeeps, CompleteBuildKeeps, SnapshotProgramKeeps,
     UpsertAfterBuildKeeps, FailBuildKeeps, CheckClosedAfterFailureKeeps,
     MarkClosedAfterFailureKeeps
  DEF JobStep
<1>5. CASE SweepStep
  <2>1. CASE FetchFails
    BY <2>1, RestKeeps DEF FetchFails
  <2>2. QED
    BY <1>5, <2>1, BeginCycleKeeps, FetchChunkKeeps, ApplySnapshotKeeps,
       LoadCandidatesKeeps, LookupCandidateKeeps, CheckBuildsKeeps,
       InsertReverifyKeeps, ClearFlagKeeps
    DEF SweepStep
<1>6. CASE CrashRestart
  BY <1>6, CrashKeeps
<1>7. CASE ClientDisconnects
  BY <1>7, DisconnectKeeps
<1>8. CASE UNCHANGED vars
  <2>1. UNCHANGED chain_vars /\ UNCHANGED server_vars
    BY <1>8 DEF vars
  <2>2. ServerTypeOK'
    BY <2>1 DEF server_vars, Inv, TypeOK, ServerTypeOK
  <2>3. SweepKnown'
    BY <2>1, SweepUnchanged DEF server_vars, Inv, Provenance
  <2>4. QED
    BY <2>1, <2>2, <2>3, ServiceStep DEF server_vars, Inv, Provenance
<1>9. QED
  BY <1>1, <1>2, <1>3, <1>4, <1>5, <1>6, <1>7, <1>8 DEF Next

\* TypeOK and Provenance hold in every reachable state: nothing the service
\* stores or carries was invented.  The authority of a frozen program is what a
\* transaction on it showed; a mark of closing may rest on a call that failed.
THEOREM InductiveInvariant == Spec => [](TypeOK /\ Provenance)
BY InitInv, StepInv, PTL DEF Spec, Inv

\* The rows of both tables and the locals of every handler, build and of the
\* sweep have their types, under every fault and any interleaving.
THEOREM TypeCorrect == Spec => []TypeOK
BY InductiveInvariant, PTL

\* Whatever is answered as verified once ran the artifact of a source that a
\* whitelisted key published for it, one that was its authority, or one that a
\* transaction showed after its authority was given up.
THEOREM VerifiedSound == Spec => []VerifiedIsSound
<1>1. Inv => VerifiedIsSound
  <2> SUFFICES ASSUME Inv, NEW p \in Programs,
                      check_is_verified(program_state[p], builds, p)
               PROVE  \E c \in past[p].claims :
                        /\ Artifact[c[2]] = program_state[p].on_chain_hash
                        /\ Artifact[c[2]] \in past[p].hashes
                        /\ \/ \E i \in DOMAIN SIGNER_KEYS : SIGNER_KEYS[i] = c[1]
                           \/ c[1] \in Authorities(p)
    BY DEF VerifiedIsSound
  <2>1. PICK b \in BuildIds :
          /\ builds[b].program = p
          /\ builds[b].status = "completed"
          /\ IsTrusted(builds[b].signer, program_state[p].authority)
          /\ builds[b].executable_hash = program_state[p].on_chain_hash
    BY DEF check_is_verified
  <2>2. StateKnown(p, program_state[p]) /\ JobKnown(builds[b], job[b])
    BY DEF Inv, Provenance
  <2>3. /\ <<builds[b].signer, builds[b].source>> \in past[p].claims
        /\ builds[b].signer \in Signers
        /\ builds[b].executable_hash \in {Artifact[builds[b].source], Empty}
    BY <2>1, <2>2 DEF JobKnown, Claimed, NewBuilds
  <2>4. program_state[p].on_chain_hash \in Hashes
    BY DEF check_is_verified, Inv, TypeOK, ServerTypeOK, StateRows
  <2>5. Artifact[builds[b].source] = program_state[p].on_chain_hash
    BY <2>1, <2>3, <2>4, EmptyAssumption
  <2>6. program_state[p].on_chain_hash \in past[p].hashes
    BY <2>2, <2>4, NoneAssumption DEF StateKnown
  <2>7. \/ \E i \in DOMAIN SIGNER_KEYS : SIGNER_KEYS[i] = builds[b].signer
        \/ builds[b].signer \in Authorities(p)
    BY <2>1, <2>2, <2>3, NoneAssumption DEF IsTrusted, StateKnown
  <2> DEFINE c == <<builds[b].signer, builds[b].source>>
  <2>8. c[1] = builds[b].signer /\ c[2] = builds[b].source
    OBVIOUS
  <2>9. c \in past[p].claims
    BY <2>3
  <2> HIDE DEF c
  <2>10. QED
    BY <2>5, <2>6, <2>7, <2>8, <2>9
<1>2. QED
  BY <1>1, InitInv, StepInv, PTL DEF Spec

\* While no RPC request fails, whatever else does and in whatever order handlers,
\* builds and the sweep write, an upgradeable program is recorded as closed only
\* if once there was no program at its address.
THEOREM ClosedSound ==
    ASSUME "rpc" \notin Faults
    PROVE  Spec => []NeverFalselyClosed
<1>1. Inv => NeverFalselyClosed
  BY DEF Inv, Provenance, StateKnown, MayBeClosed, RpcFails, NeverFalselyClosed
<1>2. QED
  BY <1>1, InitInv, StepInv, PTL DEF Spec
=============================================================================
