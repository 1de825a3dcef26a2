--------------------------- MODULE LifecycleProofs ---------------------------
(***************************************************************************)
(* Proofs about the rows of `builds`: that the table implements            *)
(* BuildLifecycle, and that without failed statements and lost requests a  *)
(* row in progress always has the process that will end it.  Both follow   *)
(* from the five ways a step may touch the table.  With those moves and    *)
(* the five a step can make of a row of `program_state` that is right:     *)
(* what is right stays right, and the sweep clears no flag without a build *)
(* of the PDA it found.                                                    *)
(***************************************************************************)
EXTENDS VerifierProofs

\* A row is in progress from its insert, and only the process of the build or
\* a restart ends it: what one step may do to the table.
BuildMoves ==
    \/ UNCHANGED builds
    \/ \E b \in BuildIds, new \in NewBuilds :
        IsNextBuild(builds, b) /\ WriteBuild(b, InProgress(new))
    \/ \E b \in BuildIds :
        /\ job[b].pc = "complete"
        /\ WriteBuild(b, mark_build_completed(builds[b], job[b].hash))
    \/ \E b \in BuildIds :
        /\ job[b].pc = "fail"
        /\ WriteBuild(b, mark_build_failed(builds[b]))
    \/ builds' = fail_orphan_builds(builds)

\* Whatever becomes of an insert, it moves the table as BuildMoves says.
LEMMA InsertMoves ==
    ASSUME NEW new \in NewBuilds, NEW kind,
           \/ InsertAndStart(new, kind)
           \/ InsertUnacknowledged(new)
           \/ InsertRefused
    PROVE  BuildMoves
BY DEF InsertAndStart, InsertUnacknowledged, InsertRefused, BuildMoves

\* Every step of the service moves the table as BuildMoves says.
LEMMA StepMoves == Inv /\ [Next]_vars => BuildMoves
<1> SUFFICES ASSUME Inv, [Next]_vars PROVE BuildMoves
  OBVIOUS
<1>1. CASE ChainNext /\ UNCHANGED server_vars
  BY <1>1 DEF server_vars, BuildMoves
<1>2. ASSUME NEW t \in Tasks, Arrives(t) PROVE BuildMoves
  BY <1>2 DEF Arrives, VerifyArrives, UnverifyArrives, PdaArrives, BuildMoves
<1>3. ASSUME NEW t \in Tasks, TaskStep(t) PROVE BuildMoves
  <2>1. CASE InsertBuild(t)
    <3>1. TaskNew(t) \in NewBuilds
      BY <2>1, TaskFacts DEF InsertBuild, TaskKnown, TaskNew, Claimed
    <3>2. QED
      BY <2>1, <3>1, InsertMoves DEF InsertBuild
  <2>2. CASE VerifyStep(t) /\ ~InsertBuild(t)
    BY <2>2 DEF VerifyStep, VerifyLookup, VerifyUpsert, Dedupe, CheckClosed,
                MarkClosed, BuildMoves
  <2>3. CASE WebhookStep(t)
    BY <2>3 DEF WebhookStep, FetchHash, Unverify, ReadPda, BuildMoves
  <2>4. QED
    BY <1>3, <2>1, <2>2, <2>3 DEF TaskStep
<1>4. ASSUME NEW b \in BuildIds, JobStep(b) PROVE BuildMoves
  <2>1. CASE CompleteBuild(b)
    BY <2>1 DEF CompleteBuild, BuildMoves
  <2>2. CASE FailBuild(b)
    BY <2>2 DEF FailBuild, BuildMoves
  <2>3. QED
    BY <1>4, <2>1, <2>2
    DEF JobStep, RunBuild, SnapshotProgram, UpsertAfterBuild,
        CheckClosedAfterFailure, MarkClosedAfterFailure, BuildMoves
<1>5. CASE SweepStep
  <2>1. CASE InsertReverify
    <3>1. SweepNew \in NewBuilds
      BY <2>1 DEF InsertReverify, Inv, Provenance, SweepKnown, Claimed
    <3>2. QED
      BY <2>1, <3>1, InsertMoves DEF InsertReverify
  <2>2. QED
    BY <1>5, <2>1
    DEF SweepStep, BeginCycle, FetchChunk, FetchFails, ApplySnapshot,
        LoadCandidates, LookupCandidate, CheckBuilds, ClearFlag, BuildMoves
<1>6. CASE CrashRestart
  BY <1>6 DEF CrashRestart, BuildMoves
<1>7. CASE ClientDisconnects
  BY <1>7 DEF ClientDisconnects, BuildMoves
<1>8. CASE UNCHANGED vars
  BY <1>8 DEF vars, server_vars, BuildMoves
<1>9. QED
  BY <1>1, <1>2, <1>3, <1>4, <1>5, <1>6, <1>7, <1>8 DEF Next

-----------------------------------------------------------------------------
(* The refinement.                                                         *)

\* An id that is not handed out has a blank row: the insert finds no hash.
Blank == \A b \in BuildIds :
            builds[b].status = "absent" => builds[b].executable_hash = None

\* Each of the five moves leaves the ids that are not handed out blank.
LEMMA BlankStep == Inv /\ Blank /\ [Next]_vars => Blank'
<1> SUFFICES ASSUME Inv, Blank, [Next]_vars PROVE Blank'
  OBVIOUS
<1>1. BuildMoves /\ builds \in [BuildIds -> BuildRows]
  BY StepMoves DEF Inv, TypeOK, ServerTypeOK
<1>2. ASSUME NEW b \in BuildIds, NEW new \in NewBuilds,
             WriteBuild(b, InProgress(new))
      PROVE  Blank'
  BY <1>1, <1>2 DEF WriteBuild, Blank, InProgress
<1>3. ASSUME NEW b \in BuildIds,
             WriteBuild(b, mark_build_completed(builds[b], job[b].hash))
      PROVE  Blank'
  BY <1>1, <1>3 DEF WriteBuild, Blank, mark_build_completed, BuildRows
<1>4. ASSUME NEW b \in BuildIds, WriteBuild(b, mark_build_failed(builds[b]))
      PROVE  Blank'
  BY <1>1, <1>4 DEF WriteBuild, Blank, mark_build_failed, BuildRows
<1>5. CASE builds' = fail_orphan_builds(builds)
  BY <1>1, <1>5 DEF Blank, fail_orphan_builds, mark_build_failed, BuildRows
<1>6. CASE UNCHANGED builds
  BY <1>6 DEF Blank
<1>7. QED
  BY <1>1, <1>2, <1>3, <1>4, <1>5, <1>6 DEF BuildMoves

\* Each of the five moves is a step of BuildLifecycle or stutters.
LEMMA StepImplements ==
    Inv /\ Blank /\ [Next]_vars => [Lifecycle!Next]_(Lifecycle!lifecycle_vars)
<1> SUFFICES ASSUME Inv, Blank, [Next]_vars
             PROVE  [Lifecycle!Next]_(Lifecycle!lifecycle_vars)
  OBVIOUS
<1>1. BuildMoves /\ builds \in [BuildIds -> BuildRows]
  BY StepMoves DEF Inv, TypeOK, ServerTypeOK
<1>2. CASE UNCHANGED builds
  BY <1>2 DEF Lifecycle!lifecycle_vars, JobNew
<1>3. ASSUME NEW b \in BuildIds, NEW new \in NewBuilds,
             IsNextBuild(builds, b), WriteBuild(b, InProgress(new))
      PROVE  Lifecycle!Start(b)
  BY <1>1, <1>3
  DEF Blank, IsNextBuild, WriteBuild, InProgress, JobNew, NewBuilds, Lifecycle!Start
<1>4. ASSUME NEW b \in BuildIds, job[b].pc = "complete",
             WriteBuild(b, mark_build_completed(builds[b], job[b].hash))
      PROVE  Lifecycle!Complete(b)
  <2>1. builds[b].status = "in_progress" /\ builds[b].source \in Sources
    BY <1>4 DEF Inv, Provenance, JobKnown, Claimed, NewBuilds
  <2>2. job[b].hash \in Hashes \cup {Empty}
    BY <1>4, <2>1, ArtifactAssumption DEF Inv, Provenance, JobKnown
  <2>3. QED
    BY <1>1, <1>4, <2>1, <2>2
    DEF WriteBuild, mark_build_completed, JobNew, BuildRows, Lifecycle!Complete
<1>5. ASSUME NEW b \in BuildIds, job[b].pc = "fail",
             WriteBuild(b, mark_build_failed(builds[b]))
      PROVE  Lifecycle!Fail(b)
  <2>1. builds[b].status = "in_progress"
    BY <1>5 DEF Inv, Provenance, JobKnown
  <2>2. QED
    BY <1>1, <1>5, <2>1
    DEF WriteBuild, mark_build_failed, JobNew, BuildRows, Lifecycle!Fail
<1>6. CASE builds' = fail_orphan_builds(builds)
  <2>1. Lifecycle!Restart
    BY <1>1, <1>6
    DEF fail_orphan_builds, mark_build_failed, JobNew, BuildRows, Lifecycle!Restart
  <2>2. QED
    BY <2>1 DEF Lifecycle!Next
<1>7. QED
  BY <1>1, <1>2, <1>3, <1>4, <1>5, <1>6 DEF BuildMoves, Lifecycle!Next

\* The table `builds` implements BuildLifecycle, whatever fails: rows end once
\* and are final after that, although no UPDATE looks at a row's status.
THEOREM LifecycleImplemented == Spec => LifecycleSafe
<1>1. Init => Blank /\ Lifecycle!Init
  BY NoneAssumption DEF Init, ServerInit, NoBuild, Blank, Lifecycle!Init
<1>2. QED
  BY <1>1, InitInv, StepInv, BlankStep, StepImplements, PTL
  DEF Spec, LifecycleSafe, Lifecycle!Spec

-----------------------------------------------------------------------------
(* Rows in progress have an owner.                                         *)

\* While no statement fails and no client leaves, an inserted build starts.
LEMMA InsertOwned ==
    ASSUME Inv, InProgressOwned, NEW new, NEW kind,
           InsertAndStart(new, kind) \/ InsertRefused
    PROVE  InProgressOwned'
<1> DEFINE l == [NoJob EXCEPT !.kind = kind, !.pc = "run"]
<1>1. l.pc = "run"
  BY DEF NoJob
<1>2. ASSUME NEW b \in BuildIds, WriteBuild(b, InProgress(new)), JobBecomes(b, l)
      PROVE  InProgressOwned'
  <2> HIDE DEF l
  <2>1. QED
    BY <1>1, <1>2
    DEF WriteBuild, JobBecomes, InProgressOwned, Inv, TypeOK, ServerTypeOK
<1>3. CASE InsertRefused
  BY <1>3 DEF InsertRefused, InProgressOwned
<1>4. QED
  BY <1>2, <1>3 DEF InsertAndStart

\* A process that moves on without a write, past the point where its row is
\* ended, owns nothing.
LEMMA PastOwned ==
    ASSUME Inv, InProgressOwned, UNCHANGED builds, NEW b \in BuildIds,
           NEW l, JobBecomes(b, l),
           \/ job[b].pc \notin {"run", "complete", "fail"}
           \/ l.pc \in {"run", "complete", "fail"}
    PROVE  InProgressOwned'
BY DEF Inv, TypeOK, ServerTypeOK, JobBecomes, InProgressOwned

\* A process that ends its row owns nothing.
LEMMA EndedOwned ==
    ASSUME Inv, InProgressOwned, NEW b \in BuildIds, NEW l, JobBecomes(b, l),
           NEW row, row.status # "in_progress", WriteBuild(b, row)
    PROVE  InProgressOwned'
BY DEF Inv, TypeOK, ServerTypeOK, JobBecomes, WriteBuild, InProgressOwned

\* Every step keeps it that a row in progress has its process.
LEMMA OwnedStep ==
    ASSUME Faults \cap {"db", "cancel"} = {}
    PROVE  Inv /\ InProgressOwned /\ [Next]_vars => InProgressOwned'
<1> SUFFICES ASSUME Inv, InProgressOwned, [Next]_vars PROVE InProgressOwned'
  OBVIOUS
<1> DEFINE Still == UNCHANGED <<builds, job>>
<1>1. ~DbFails /\ "cancel" \notin Faults
  BY DEF DbFails
<1>2. Still => InProgressOwned'
  BY DEF InProgressOwned
<1>3. CASE ChainNext /\ UNCHANGED server_vars
  BY <1>2, <1>3 DEF server_vars
<1>4. ASSUME NEW t \in Tasks, Arrives(t) PROVE InProgressOwned'
  <2>1. Still
    BY <1>4 DEF Arrives, VerifyArrives, UnverifyArrives, PdaArrives
  <2>2. QED
    BY <1>2, <2>1
<1>5. ASSUME NEW t \in Tasks, TaskStep(t) PROVE InProgressOwned'
  <2>1. CASE InsertBuild(t)
    BY <1>1, <2>1, InsertOwned DEF InsertBuild
  <2>2. CASE ~InsertBuild(t)
    <3>1. Still
      BY <1>5, <2>2
      DEF TaskStep, VerifyStep, WebhookStep, VerifyLookup, VerifyUpsert, Dedupe,
          CheckClosed, MarkClosed, FetchHash, Unverify, ReadPda
    <3>2. QED
      BY <1>2, <3>1
  <2>3. QED
    BY <2>1, <2>2
<1>6. ASSUME NEW b \in BuildIds, JobStep(b) PROVE InProgressOwned'
  <2>1. CASE RunBuild(b)
    <3>1. \E l : JobBecomes(b, l) /\ l.pc \in {"complete", "fail"}
      <4>1. job[b] \in JobRows
        BY DEF Inv, TypeOK, ServerTypeOK
      <4>2. PICK l : /\ JobBecomes(b, l)
                     /\ \/ \E hash \in {Artifact[builds[b].source], Empty} :
                             l = [job[b] EXCEPT !.pc = "complete", !.hash = hash]
                        \/ l = [job[b] EXCEPT !.pc = "fail"]
        BY <2>1 DEF RunBuild, JobGoto
      <4>3. QED
        BY <4>1, <4>2 DEF JobRows
    <3>2. QED
      BY <2>1, <3>1, PastOwned DEF RunBuild
  <2>2. CASE CompleteBuild(b)
    <3>1. mark_build_completed(builds[b], job[b].hash).status = "completed"
      BY DEF mark_build_completed, Inv, TypeOK, ServerTypeOK, BuildRows
    <3>2. QED
      BY <1>1, <2>2, <3>1, EndedOwned DEF CompleteBuild
  <2>3. CASE FailBuild(b)
    <3>1. mark_build_failed(builds[b]).status = "failed"
      BY DEF mark_build_failed, Inv, TypeOK, ServerTypeOK, BuildRows
    <3>2. QED
      BY <1>1, <2>3, <3>1, EndedOwned DEF FailBuild, JobGoto, EndJob
  <2>4. CASE /\ job[b].pc \notin {"run", "complete", "fail"}
             /\ UNCHANGED builds
             /\ \E l : JobBecomes(b, l)
    BY <2>4, PastOwned
  <2>5. QED
    BY <1>6, <2>1, <2>2, <2>3, <2>4
    DEF JobStep, SnapshotProgram, UpsertAfterBuild, CheckClosedAfterFailure,
        MarkClosedAfterFailure, JobGoto, EndJob
<1>7. CASE SweepStep
  <2>1. CASE InsertReverify
    BY <1>1, <2>1, InsertOwned DEF InsertReverify
  <2>2. CASE ~InsertReverify
    <3>1. Still
      BY <1>7, <2>2
      DEF SweepStep, BeginCycle, FetchChunk, FetchFails, ApplySnapshot,
          LoadCandidates, LookupCandidate, CheckBuilds, ClearFlag
    <3>2. QED
      BY <1>2, <3>1
  <2>3. QED
    BY <2>1, <2>2
<1>8. CASE CrashRestart
  BY <1>1, <1>8
  DEF CrashRestart, fail_orphan_builds, mark_build_failed, Inv, TypeOK,
      ServerTypeOK, BuildRows, InProgressOwned
<1>9. CASE UNCHANGED vars
  BY <1>2, <1>9 DEF vars, server_vars
<1>10. QED
  BY <1>1, <1>3, <1>4, <1>5, <1>6, <1>7, <1>8, <1>9 DEF Next, ClientDisconnects

\* When no statement fails and no client leaves, no row in progress is without
\* the process that will end it, however often the service crashes: the
\* startup cleanup and the handlers leave none to block the dedupe query.
THEOREM RowsInProgressOwned ==
    ASSUME Faults \cap {"db", "cancel"} = {}
    PROVE  Spec => []InProgressOwned
<1>1. Init => InProgressOwned
  BY DEF Init, ServerInit, NoBuild, InProgressOwned
<1>2. Inv /\ InProgressOwned /\ [Next]_vars => InProgressOwned'
  BY OwnedStep
<1>3. QED
  BY <1>1, <1>2, InitInv, StepInv, PTL DEF Spec

-----------------------------------------------------------------------------
(* What is right stays right.  Three kinds of state say something of p: its *)
(* row, the locals on their way to that row, and the builds.               *)

\* A program's snapshot tells whether it is open and, if so, its hash.
LEMMA SnapshotTells ==
    ASSUME NEW p \in Programs
    PROVE  /\ Snapshot(p).is_closed = ~chain[p].open
           /\ chain[p].open => Snapshot(p).executable_hash = chain[p].hash
BY DEF Snapshot, ClosedSnapshot

LEMMA SnapshotTellsNext ==
    ASSUME NEW p \in Programs, Inv'
    PROVE  /\ Snapshot(p)'.is_closed = ~chain'[p].open
           /\ chain'[p].open => Snapshot(p)'.executable_hash = chain'[p].hash
BY DEF Snapshot, ClosedSnapshot

\* An upgradeable program stays one.
LEMMA LoaderFixed ==
    ASSUME Inv, [Next]_vars, NEW p \in Programs, chain[p].loader = "upgradeable"
    PROVE  chain'[p].loader = "upgradeable"
<1>0. chain \in [Programs -> ChainPrograms]
  BY DEF Inv, TypeOK, ChainTypeOK
<1>1. CASE ChainNext
  <2>1. PICK q \in Programs :
          \/ \E h \in Hashes, w \in Signers : Deploy(q, h, w)
          \/ \E h \in Hashes : Upgrade(q, h)
          \/ CloseProgram(q)
          \/ \E w \in Signers : TransferAuthority(q, w) \/ Freeze(q, w) \/ Touch(q, w)
          \/ \E w \in Signers, s \in Sources : PublishPda(q, w, s)
    BY <1>1 DEF ChainNext
  <2>2. \/ chain' = chain
        \/ \E row : /\ chain[q].loader = "none" \/ row.loader = chain[q].loader
                    /\ chain' = [chain EXCEPT ![q] = row]
    <3>1. CASE \E h \in Hashes, w \in Signers : Deploy(q, h, w)
      BY <3>1 DEF Deploy
    <3>2. ASSUME NEW h \in Hashes, Upgrade(q, h)
          PROVE  \E row : /\ row.loader = chain[q].loader
                          /\ chain' = [chain EXCEPT ![q] = row]
      <4> DEFINE row == [chain[q] EXCEPT !.hash = h]
      <4>1. row.loader = chain[q].loader /\ chain' = [chain EXCEPT ![q] = row]
        BY <1>0, <3>2 DEF Upgrade, ChainPrograms
      <4> HIDE DEF row
      <4>2. QED
        BY <4>1
    <3>3. CASE CloseProgram(q)
      BY <1>0, <3>3 DEF CloseProgram, ChainPrograms
    <3>4. ASSUME NEW w \in Signers,
                 TransferAuthority(q, w) \/ Freeze(q, w) \/ Touch(q, w)
          PROVE  \E row : /\ row.loader = chain[q].loader
                          /\ chain' = [chain EXCEPT ![q] = row]
      <4>1. CASE TransferAuthority(q, w)
        BY <1>0, <4>1 DEF TransferAuthority, ChainPrograms
      <4>2. CASE Freeze(q, w)
        BY <1>0, <4>2 DEF Freeze, ChainPrograms
      <4>3. CASE Touch(q, w)
        BY <1>0, <4>3 DEF Touch, ChainPrograms
      <4>4. QED
        BY <3>4, <4>1, <4>2, <4>3
    <3>5. QED
      BY <2>1, <3>1, <3>2, <3>3, <3>4 DEF PublishPda
  <2>3. QED
    BY <1>0, <2>2
<1>2. CASE UNCHANGED chain
  BY <1>2
<1>3. QED
  BY <1>1, <1>2
  DEF Next, vars, chain_vars, Arrives, VerifyArrives, UnverifyArrives, PdaArrives,
      TaskStep, VerifyStep, VerifyLookup, VerifyUpsert, Dedupe, CheckClosed,
      MarkClosed, InsertBuild, WebhookStep, FetchHash, Unverify, ReadPda,
      JobStep, RunBuild, CompleteBuild, SnapshotProgram, UpsertAfterBuild,
      FailBuild, CheckClosedAfterFailure, MarkClosedAfterFailure, SweepStep,
      SweepFrame, BeginCycle, FetchChunk, FetchFails, ApplySnapshot,
      LoadCandidates, LookupCandidate, CheckBuilds, InsertReverify, ClearFlag,
      CrashRestart, ClientDisconnects

\* What one step may do to the row of a program that is quiet.
RowMoves(p) ==
    LET row == program_state[p]
    IN  \/ program_state'[p] = row
        \/ program_state'[p] = upsert_program_state(row, Snapshot(p))
        \/ ~chain[p].open /\ program_state'[p] = mark_closed(row)
        \/ \E hash : /\ chain[p].open => hash = chain[p].hash
                     /\ program_state'[p] = unverify_program(row, hash)
        \/ program_state'[p] = clear_pending_reverify(row)

\* A write of another program's row leaves this one.
LEMMA OtherRow ==
    ASSUME Inv, NEW p \in Programs, NEW q \in Programs, NEW row, WriteState(q, row)
    PROVE  program_state'[p] = IF q = p THEN row ELSE program_state[p]
BY DEF Inv, TypeOK, ServerTypeOK, WriteState

\* Every step writes to the row of a quiet program what the chain says.
LEMMA StepRow ==
    ASSUME Inv, [Next]_vars, NEW p \in Programs, Quiet(p)
    PROVE  RowMoves(p)
<1>1. UNCHANGED program_state => RowMoves(p)
  BY DEF RowMoves
<1>2. ASSUME NEW t \in Tasks, TaskStep(t) PROVE RowMoves(p)
  <2>1. task[t].pc # "idle" => task[t].program \in Programs
    BY TaskFacts DEF TaskKnown
  <2>2. CASE VerifyUpsert(t)
    <3>1. task[t].program = p => task[t].snap = Snapshot(p)
      BY <2>2 DEF VerifyUpsert, Quiet, InFlightMatches, TaskMatches
    <3>2. QED
      BY <1>1, <2>1, <2>2, <3>1, OtherRow DEF VerifyUpsert, RowMoves
  <2>3. CASE MarkClosed(t)
    <3>1. task[t].program = p => ~chain[p].open
      BY <2>3 DEF MarkClosed, Quiet, InFlightMatches, TaskMatches
    <3>2. QED
      BY <1>1, <2>1, <2>3, <3>1, OtherRow DEF MarkClosed, RowMoves
  <2>4. CASE Unverify(t)
    <3>1. task[t].program = p /\ chain[p].open => task[t].hash = chain[p].hash
      BY <2>4 DEF Unverify, Quiet, InFlightMatches, TaskMatches
    <3>2. QED
      BY <1>1, <2>1, <2>4, <3>1, OtherRow DEF Unverify, RowMoves
  <2>5. QED
    BY <1>1, <1>2, <2>2, <2>3, <2>4
    DEF TaskStep, VerifyStep, VerifyLookup, Dedupe, CheckClosed, InsertBuild,
        WebhookStep, FetchHash, ReadPda
<1>3. ASSUME NEW b \in BuildIds, JobStep(b) PROVE RowMoves(p)
  <2>1. job[b].pc # "none" => builds[b].program \in Programs
    BY DEF Inv, Provenance, JobKnown, Claimed, NewBuilds
  <2>2. CASE UpsertAfterBuild(b)
    <3>1. builds[b].program = p => job[b].snap = Snapshot(p)
      BY <2>2 DEF UpsertAfterBuild, Quiet, InFlightMatches, JobMatches
    <3>2. QED
      BY <1>1, <2>1, <2>2, <3>1, OtherRow DEF UpsertAfterBuild, RowMoves
  <2>3. CASE MarkClosedAfterFailure(b)
    <3>1. builds[b].program = p => ~chain[p].open
      BY <2>3 DEF MarkClosedAfterFailure, Quiet, InFlightMatches, JobMatches
    <3>2. QED
      BY <1>1, <2>1, <2>3, <3>1, OtherRow DEF MarkClosedAfterFailure, RowMoves
  <2>4. QED
    BY <1>1, <1>3, <2>2, <2>3
    DEF JobStep, RunBuild, CompleteBuild, SnapshotProgram, FailBuild,
        CheckClosedAfterFailure
<1>4. CASE SweepStep
  <2>1. ASSUME NEW q \in Programs, ApplySnapshot(q) PROVE RowMoves(p)
    <3>1. q = p => sweep.snaps[q] = Snapshot(p)
      BY <2>1 DEF ApplySnapshot, Quiet, InFlightMatches
    <3>2. QED
      BY <1>1, <2>1, <3>1, OtherRow DEF ApplySnapshot, RowMoves
  <2>2. CASE ClearFlag
    <3>1. sweep.program \in Programs
      BY <2>2 DEF ClearFlag, Inv, Provenance, SweepKnown
    <3>2. QED
      BY <1>1, <2>2, <3>1, OtherRow DEF ClearFlag, RowMoves
  <2>3. QED
    BY <1>1, <1>4, <2>1, <2>2
    DEF SweepStep, BeginCycle, FetchChunk, FetchFails, LoadCandidates,
        LookupCandidate, CheckBuilds, InsertReverify
<1>5. QED
  BY <1>1, <1>2, <1>3, <1>4
  DEF Next, vars, server_vars, Arrives, VerifyArrives, UnverifyArrives,
      PdaArrives, CrashRestart, ClientDisconnects

\* Such a move keeps the row right, and leaves what a verdict is read from.
LEMMA RowStays ==
    ASSUME Inv, NEW p \in Programs, RowMatches(p), RowMoves(p)
    PROVE  LET row == program_state'[p]
           IN  /\ row.is_closed = Snapshot(p).is_closed
               /\ row.authority = Snapshot(p).authority
               /\ chain[p].open =>
                    /\ row.on_chain_hash = Snapshot(p).executable_hash
                    /\ row.is_frozen = Snapshot(p).is_frozen
<1>1. program_state[p] \in StateRows
  BY DEF Inv, TypeOK, ServerTypeOK
<1>2. chain[p].open => Snapshot(p).executable_hash # None
  BY NoneAssumption DEF Inv, TypeOK, ChainTypeOK, ChainPrograms, Snapshot
<1>3. ~chain[p].open => Snapshot(p).is_closed /\ Snapshot(p).authority = None
  BY DEF Snapshot, ClosedSnapshot
<1>4. CASE program_state'[p] \in {program_state[p],
                                   clear_pending_reverify(program_state[p])}
  BY <1>1, <1>4 DEF RowMatches, clear_pending_reverify, StateRows
<1>5. CASE program_state'[p] = upsert_program_state(program_state[p], Snapshot(p))
  BY <1>2, <1>5 DEF upsert_program_state
<1>6. CASE ~chain[p].open /\ program_state'[p] = mark_closed(program_state[p])
  BY <1>1, <1>3, <1>6 DEF mark_closed, StateRows
<1>7. ASSUME NEW hash, chain[p].open => hash = chain[p].hash,
             program_state'[p] = unverify_program(program_state[p], hash)
      PROVE  /\ program_state'[p].is_closed = program_state[p].is_closed
             /\ program_state'[p].authority = program_state[p].authority
             /\ program_state'[p].is_frozen = program_state[p].is_frozen
             /\ program_state'[p].on_chain_hash = hash
  BY <1>1, <1>7 DEF unverify_program, StateRows
<1>8. QED
  BY <1>4, <1>5, <1>6, <1>7, SnapshotTells DEF RowMatches, RowMoves

\* A program whose snapshot stays is as open as before, with the same hash.
LEMMA SnapshotSame ==
    ASSUME Inv, [Next]_vars, NEW p \in Programs, Snapshot(p)' = Snapshot(p)
    PROVE  /\ chain'[p].open = chain[p].open
           /\ chain[p].open => chain'[p].hash = chain[p].hash
<1>1. Inv'
  BY StepInv
<1>2. chain[p].open \in BOOLEAN /\ chain'[p].open \in BOOLEAN
  BY <1>1 DEF Inv, TypeOK, ChainTypeOK, ChainPrograms
<1>3. QED
  BY <1>1, <1>2, SnapshotTells, SnapshotTellsNext

\* A handler that is not asked for this program, or at another place, has
\* nothing to write of it.
LEMMA IdleMatches ==
    ASSUME NEW p \in Programs, NEW l,
           l.pc \notin {"lookup", "upsert", "unverify", "mark_closed"}
    PROVE  TaskMatches(p, l)
BY DEF TaskMatches

\* The locals of the handlers stay right.
LEMMA StepTasks ==
    ASSUME Inv, [Next]_vars, NEW p \in Programs, Quiet(p), NEW t \in Tasks,
           ~ArrivesUnsettled(p), ~Misreads(p)
    PROVE  TaskMatches(p, task'[t])
<1>1. TaskMatches(p, task[t])
  BY DEF Quiet, InFlightMatches
<1>2. task \in [Tasks -> TaskRows]
  BY DEF Inv, TypeOK, ServerTypeOK
<1>3. CASE task'[t] = task[t]
  BY <1>1, <1>3
<1>4. ASSUME NEW l, Becomes(t, l) PROVE task'[t] = l
  BY <1>2, <1>4 DEF Becomes
<1>5. TaskMatches(p, IdleTask)
  BY IdleMatches DEF IdleTask
<1>6. CASE Arrives(t)
  <2>1. CASE UNCHANGED task
    BY <1>3, <2>1
  <2>2. CASE \E q \in Programs : UnverifyArrives(t, q)
    BY <1>4, <2>2, IdleMatches DEF UnverifyArrives, IdleTask
  <2>3. CASE \E q \in Programs, w \in Signers : PdaArrives(t, q, w)
    BY <1>4, <2>3, IdleMatches DEF PdaArrives, IdleTask
  <2>4. ASSUME NEW q \in Programs, NEW w \in Signers \cup {None}, NEW kind,
               VerifyArrives(t, kind, q, w)
        PROVE  TaskMatches(p, task'[t])
    <3>1. PICK snap : Becomes(t, [IdleTask EXCEPT
                         !.kind = kind, !.pc = "lookup", !.program = q,
                         !.signer = w, !.snap = snap])
      BY <2>4 DEF VerifyArrives
    <3>2. task[t].pc = "idle"
      BY <2>4 DEF VerifyArrives, Receive
    <3>3. /\ task'[t].pc = "lookup" /\ task'[t].program = q
      BY <1>4, <3>1 DEF IdleTask
    <3>4. QED
      BY <3>2, <3>3 DEF ArrivesUnsettled, TaskMatches
  <2>5. QED
    BY <1>6, <2>2, <2>3, <2>4 DEF Arrives
<1>7. CASE TaskStep(t)
  <2>1. CASE Finish(t)
    BY <1>4, <1>5, <2>1 DEF Finish
  <2>2. ASSUME NEW pc, Goto(t, pc),
               \/ pc \notin {"lookup", "upsert", "unverify", "mark_closed"}
               \/ pc = "mark_closed" /\ (task[t].program = p => ~chain[p].open)
        PROVE  TaskMatches(p, task'[t])
    <3>1. task'[t].pc = pc /\ task'[t].program = task[t].program
      BY <1>2, <1>4, <2>2 DEF Goto, TaskRows
    <3>2. QED
      BY <2>2, <3>1 DEF TaskMatches
  <2>3. CASE VerifyLookup(t)
    <3>1. ASSUME NEW w \in Signers, NEW source,
                 Becomes(t, [task[t] EXCEPT !.pc = "upsert", !.signer = w,
                                            !.source = source])
          PROVE  TaskMatches(p, task'[t])
      <4>1. /\ task'[t].pc = "upsert" /\ task'[t].program = task[t].program
            /\ task'[t].snap = task[t].snap
        BY <1>2, <1>4, <3>1 DEF TaskRows
      <4>2. QED
        BY <1>1, <2>3, <4>1 DEF TaskMatches, VerifyLookup
    <3>2. QED
      BY <2>1, <2>3, <3>1 DEF VerifyLookup
  <2>4. CASE VerifyUpsert(t)
    <3>1. task'[t].pc = "dedupe"
      BY <1>2, <1>4, <2>4 DEF VerifyUpsert, TaskRows
    <3>2. QED
      BY <3>1, IdleMatches
  <2>5. CASE FetchHash(t)
    <3>1. ASSUME NEW snap \in get_program_state(task[t].program),
                 snap.executable_hash # None,
                 Becomes(t, [task[t] EXCEPT !.pc = "unverify",
                                            !.hash = snap.executable_hash])
          PROVE  TaskMatches(p, task'[t])
      <4>1. /\ task'[t].pc = "unverify" /\ task'[t].program = task[t].program
            /\ task'[t].hash = snap.executable_hash
        BY <1>2, <1>4, <3>1 DEF TaskRows
      <4>2. task[t].program = p /\ chain[p].open =>
              snap.executable_hash = chain[p].hash
        BY <3>1
        DEF get_program_state, WithRecoveredAuthority, Snapshot, EmptySnapshot
      <4>3. QED
        BY <4>1, <4>2 DEF TaskMatches
    <3>2. ASSUME NEW snap \in get_program_state(task[t].program), snap.is_closed,
                 task[t].program = p
          PROVE  ~chain[p].open
      BY <3>2
      DEF get_program_state, WithRecoveredAuthority, Snapshot, EmptySnapshot
    <3>3. QED
      BY <2>1, <2>2, <2>5, <3>1, <3>2 DEF FetchHash
  <2>6. CASE Unverify(t)
    <3>1. ASSUME Becomes(t, [task[t] EXCEPT !.pc = "read_pda", !.hash = None])
          PROVE  TaskMatches(p, task'[t])
      BY <1>2, <1>4, <3>1, IdleMatches DEF TaskRows
    <3>2. QED
      BY <2>1, <2>6, <3>1 DEF Unverify
  <2>7. CASE ReadPda(t)
    <3>1. ASSUME NEW source,
                 Becomes(t, [task[t] EXCEPT !.pc = "dedupe", !.source = source])
          PROVE  TaskMatches(p, task'[t])
      BY <1>2, <1>4, <3>1, IdleMatches DEF TaskRows
    <3>2. QED
      BY <2>1, <2>7, <3>1 DEF ReadPda
  <2>8. CASE CheckClosed(t)
    <3>1. CASE Goto(t, "mark_closed")
      <4>1. task'[t].pc = "mark_closed"
        BY <1>2, <1>4, <3>1 DEF Goto, TaskRows
      <4>2. task[t].program = p => ~chain[p].open
        BY <2>8, <4>1 DEF CheckClosed, Misreads
      <4>3. QED
        BY <2>2, <3>1, <4>2
    <3>2. QED
      BY <2>1, <2>8, <3>1 DEF CheckClosed
  <2>9. CASE Dedupe(t) \/ MarkClosed(t) \/ InsertBuild(t)
    BY <2>1, <2>2, <2>9 DEF Dedupe, MarkClosed, InsertBuild
  <2>10. QED
    BY <1>7, <2>3, <2>4, <2>5, <2>6, <2>7, <2>8, <2>9
    DEF TaskStep, VerifyStep, WebhookStep
<1>8. ASSUME NEW u \in Tasks, u # t, Arrives(u) \/ TaskStep(u)
      PROVE  task'[t] = task[t]
  <2>1. \E l : Becomes(u, l)
    BY <1>8
    DEF Arrives, VerifyArrives, UnverifyArrives, PdaArrives, TaskStep, VerifyStep,
        VerifyLookup, VerifyUpsert, Dedupe, CheckClosed, MarkClosed, InsertBuild,
        WebhookStep, FetchHash, Unverify, ReadPda, Goto, Finish
  <2>2. QED
    BY <1>2, <1>8, <2>1 DEF Becomes
<1>9. CASE \/ ChainNext /\ UNCHANGED server_vars
           \/ \E b \in BuildIds : JobStep(b)
           \/ SweepStep
           \/ UNCHANGED vars
  <2>1. UNCHANGED task
    BY <1>9
    DEF vars, server_vars, JobStep, RunBuild, CompleteBuild, SnapshotProgram,
        UpsertAfterBuild, FailBuild, CheckClosedAfterFailure,
        MarkClosedAfterFailure, SweepStep, SweepFrame, BeginCycle, FetchChunk,
        FetchFails, ApplySnapshot, LoadCandidates, LookupCandidate, CheckBuilds,
        InsertReverify, ClearFlag
  <2>2. QED
    BY <1>3, <2>1
<1>10. CASE CrashRestart
  BY <1>5, <1>10 DEF CrashRestart
<1>11. CASE ClientDisconnects
  BY <1>2, <1>3, <1>5, <1>11 DEF ClientDisconnects, Finish, Becomes
<1>12. QED
  BY <1>3, <1>6, <1>7, <1>8, <1>9, <1>10, <1>11 DEF Next

\* What a step does to a row that is there: what was asked for stays, and a
\* completed build stays completed with its hash.
LEMMA RowKept ==
    ASSUME Inv, BuildMoves, NEW b \in BuildIds, builds[b].status # "absent"
    PROVE  /\ builds'[b].program = builds[b].program
           /\ builds'[b].signer = builds[b].signer
           /\ builds'[b].source = builds[b].source
           /\ builds'[b].status # "absent"
           /\ builds[b].status = "completed" => builds'[b] = builds[b]
<1>1. builds \in [BuildIds -> BuildRows]
  BY DEF Inv, TypeOK, ServerTypeOK
<1>2. CASE UNCHANGED builds
  BY <1>2
<1>3. ASSUME NEW c \in BuildIds, NEW new \in NewBuilds,
             IsNextBuild(builds, c), WriteBuild(c, InProgress(new))
      PROVE  builds'[b] = builds[b]
  BY <1>1, <1>3 DEF IsNextBuild, WriteBuild
<1>4. ASSUME NEW c \in BuildIds, job[c].pc = "complete",
             WriteBuild(c, mark_build_completed(builds[c], job[c].hash))
      PROVE  \/ builds'[b] = builds[b]
             \/ /\ builds[b].status = "in_progress"
                /\ builds'[b] = mark_build_completed(builds[b], job[b].hash)
  BY <1>1, <1>4 DEF WriteBuild, Inv, Provenance, JobKnown
<1>5. ASSUME NEW c \in BuildIds, job[c].pc = "fail",
             WriteBuild(c, mark_build_failed(builds[c]))
      PROVE  \/ builds'[b] = builds[b]
             \/ /\ builds[b].status = "in_progress"
                /\ builds'[b] = mark_build_failed(builds[b])
  BY <1>1, <1>5 DEF WriteBuild, Inv, Provenance, JobKnown
<1>6. CASE builds' = fail_orphan_builds(builds)
  BY <1>1, <1>6 DEF fail_orphan_builds, mark_build_failed, BuildRows
<1>7. CASE /\ builds[b].status = "in_progress"
           /\ \/ builds'[b] = mark_build_completed(builds[b], job[b].hash)
              \/ builds'[b] = mark_build_failed(builds[b])
  BY <1>1, <1>7 DEF mark_build_completed, mark_build_failed, BuildRows
<1>8. QED
  BY <1>2, <1>3, <1>4, <1>5, <1>6, <1>7 DEF BuildMoves

\* The processes of the builds stay right.
LEMMA StepJobs ==
    ASSUME Inv, [Next]_vars, NEW p \in Programs, Quiet(p), NEW b \in BuildIds,
           ~Misreads(p), builds'[b].program = p
    PROVE  JobMatches(p, job'[b])
<1>1. job \in [BuildIds -> JobRows]
  BY DEF Inv, TypeOK, ServerTypeOK
<1>0. job[b].pc # "none" => builds[b].program = p
  <2>1. job[b].pc # "none" => builds[b].status # "absent"
    BY DEF Inv, Provenance, JobKnown
  <2>2. QED
    BY <2>1, RowKept, StepMoves
<1>2. CASE job'[b] = job[b]
  BY <1>0, <1>2 DEF Quiet, InFlightMatches, JobMatches
<1>3. ASSUME NEW c \in BuildIds, NEW l, JobBecomes(c, l),
             l.pc \notin {"upsert", "mark_closed"}
      PROVE  JobMatches(p, job'[b])
  <2>1. CASE c = b
    BY <1>1, <1>3, <2>1 DEF JobBecomes, JobMatches
  <2>2. CASE c # b
    BY <1>1, <1>2, <1>3, <2>2 DEF JobBecomes
  <2>3. QED
    BY <2>1, <2>2
<1>4. NoJob.pc = "none"
  BY DEF NoJob
<1>5. ASSUME NEW c \in BuildIds, NEW pc, JobGoto(c, pc),
             pc \notin {"upsert", "mark_closed"}
      PROVE  JobMatches(p, job'[b])
  <2>1. [job[c] EXCEPT !.pc = pc].pc = pc
    BY <1>1 DEF JobRows
  <2>2. QED
    BY <1>3, <1>5, <2>1 DEF JobGoto
<1>6. ASSUME NEW new, NEW kind,
             \/ InsertAndStart(new, kind)
             \/ InsertUnacknowledged(new)
             \/ InsertRefused
      PROVE  JobMatches(p, job'[b])
  <2>1. [NoJob EXCEPT !.kind = kind, !.pc = "run"].pc = "run"
    BY DEF NoJob
  <2>2. QED
    BY <1>2, <1>3, <1>6, <2>1
    DEF InsertAndStart, InsertUnacknowledged, InsertRefused
<1>7. ASSUME NEW c \in BuildIds, JobStep(c)
      PROVE  JobMatches(p, job'[b])
  <2>1. CASE EndJob(c)
    BY <1>2, <1>3, <1>4, <2>1 DEF EndJob
  <2>2. CASE RunBuild(c)
    <3>1. ASSUME NEW hash, JobBecomes(c, [job[c] EXCEPT !.pc = "complete",
                                                        !.hash = hash])
          PROVE  JobMatches(p, job'[b])
      BY <1>1, <1>3, <3>1 DEF JobRows
    <3>2. QED
      BY <1>2, <1>5, <2>2, <3>1 DEF RunBuild
  <2>3. CASE CompleteBuild(c)
    <3>1. [job[c] EXCEPT !.pc = "snapshot", !.hash = None].pc = "snapshot"
      BY <1>1 DEF JobRows
    <3>2. QED
      BY <1>2, <1>3, <2>3, <3>1 DEF CompleteBuild
  <2>4. CASE SnapshotProgram(c) /\ ~EndJob(c)
    <3>1. CASE c # b
      BY <1>1, <1>2, <2>4, <3>1 DEF SnapshotProgram, JobBecomes
    <3>2. CASE c = b
      <4>1. /\ job'[b].pc = "upsert" /\ job'[b].snap = Snapshot(builds[b].program)
            /\ builds[b].program = p
        <5> DEFINE l == [job[c] EXCEPT !.pc = "upsert",
                                       !.snap = Snapshot(builds[c].program)]
        <5>1. l.pc = "upsert" /\ l.snap = Snapshot(builds[c].program)
          BY <1>1 DEF JobRows
        <5>2. job[c].pc = "snapshot" /\ job' = [job EXCEPT ![c] = l]
          BY <2>4 DEF SnapshotProgram, JobBecomes
        <5> HIDE DEF l
        <5>3. QED
          BY <1>0, <1>1, <3>2, <5>1, <5>2
      <4>2. QED
        BY <4>1 DEF JobMatches
    <3>3. QED
      BY <3>1, <3>2
  <2>5. CASE CheckClosedAfterFailure(c) /\ ~EndJob(c)
    <3>1. CASE c # b
      BY <1>1, <1>2, <2>5, <3>1 DEF CheckClosedAfterFailure, JobGoto, JobBecomes
    <3>2. CASE c = b
      <4>1. /\ job[b].pc = "check_closed" /\ job'[b].pc = "mark_closed"
            /\ builds[b].program = p
        BY <1>0, <1>1, <2>5, <3>2
        DEF CheckClosedAfterFailure, JobGoto, JobBecomes, JobRows
      <4>2. ~chain[p].open
        BY <4>1 DEF Misreads
      <4>3. QED
        BY <4>1, <4>2 DEF JobMatches
    <3>3. QED
      BY <3>1, <3>2
  <2>6. CASE JobGoto(c, "check_closed")
    BY <1>5, <2>6
  <2>7. CASE UpsertAfterBuild(c) \/ FailBuild(c) \/ MarkClosedAfterFailure(c)
    BY <2>1, <2>6, <2>7 DEF UpsertAfterBuild, FailBuild, MarkClosedAfterFailure
  <2>8. QED
    BY <1>7, <2>1, <2>2, <2>3, <2>4, <2>5, <2>7 DEF JobStep
<1>8. ASSUME NEW t \in Tasks, Arrives(t) \/ TaskStep(t)
      PROVE  JobMatches(p, job'[b])
  BY <1>2, <1>6, <1>8
  DEF Arrives, VerifyArrives, UnverifyArrives, PdaArrives, TaskStep, VerifyStep,
      VerifyLookup, VerifyUpsert, Dedupe, CheckClosed, MarkClosed, InsertBuild,
      WebhookStep, FetchHash, Unverify, ReadPda
<1>9. CASE SweepStep
  BY <1>2, <1>6, <1>9
  DEF SweepStep, BeginCycle, FetchChunk, FetchFails, ApplySnapshot,
      LoadCandidates, LookupCandidate, CheckBuilds, InsertReverify, ClearFlag
<1>10. CASE CrashRestart
  BY <1>4, <1>10 DEF CrashRestart, JobMatches
<1>11. CASE ClientDisconnects
  BY <1>2, <1>3, <1>4, <1>11 DEF ClientDisconnects, EndJob
<1>12. QED
  BY <1>2, <1>7, <1>8, <1>9, <1>10, <1>11 DEF Next, vars, server_vars

\* The snapshots the sweep is about to write stay right.
LEMMA StepSnaps ==
    ASSUME Inv, [Next]_vars, NEW p \in Programs, Quiet(p), p \in sweep'.got
    PROVE  sweep'.snaps[p] = Snapshot(p)
<1>1. sweep \in SweepRows
  BY DEF Inv, TypeOK, ServerTypeOK
<1>2. p \in sweep.got => sweep.snaps[p] = Snapshot(p)
  BY DEF Quiet, InFlightMatches
<1>3. CASE sweep'.got = sweep.got /\ sweep'.snaps = sweep.snaps
  BY <1>2, <1>3
<1>4. CASE sweep'.got = {}
  BY <1>4
<1>5. IdleSweep.got = {}
  BY DEF IdleSweep
<1>6. CASE FetchChunk
  <2>1. PICK chunk, skipped : ChunkAnswered(chunk, skipped)
    BY <1>6 DEF FetchChunk
  <2>2. /\ sweep'.got = sweep.got \cup (chunk \ skipped)
        /\ sweep'.snaps = [q \in Programs |-> IF q \in chunk \ skipped
                                              THEN Snapshot(q) ELSE sweep.snaps[q]]
    BY <1>1, <2>1 DEF ChunkAnswered, SweepRows
  <2>3. QED
    BY <1>2, <2>2
<1>7. ASSUME NEW q \in Programs, ApplySnapshot(q)
      PROVE  sweep'.snaps[p] = Snapshot(p)
  <2>1. /\ sweep'.got = sweep.got \ {q}
        /\ sweep'.snaps = [sweep.snaps EXCEPT ![q] = EmptySnapshot]
    BY <1>1, <1>7 DEF ApplySnapshot, SweepRows
  <2>2. QED
    BY <1>1, <1>2, <2>1 DEF SweepRows
<1>8. CASE BeginCycle \/ CheckBuilds \/ InsertReverify
           \/ \E q \in Programs : LookupCandidate(q)
  <2>1. CASE BeginCycle \/ CheckBuilds \/ InsertReverify
    BY <1>1, <1>3, <2>1 DEF BeginCycle, CheckBuilds, InsertReverify, SweepRows
  <2>2. ASSUME NEW q \in Programs, LookupCandidate(q)
        PROVE  sweep'.got = sweep.got /\ sweep'.snaps = sweep.snaps
    <3>1. \/ \E w, source, examined :
                sweep' = [sweep EXCEPT !.pc = "has_build", !.program = q, !.signer = w,
                                       !.source = source, !.examined = examined]
          \/ \E examined :
                sweep' = [sweep EXCEPT !.pc = "clear", !.program = q,
                                       !.examined = examined]
      BY <2>2 DEF LookupCandidate
    <3>2. QED
      BY <1>1, <3>1 DEF SweepRows
  <2>3. QED
    BY <1>3, <1>8, <2>1, <2>2
<1>9. CASE FetchFails \/ CrashRestart
  BY <1>4, <1>5, <1>9 DEF FetchFails, CrashRestart
<1>10. CASE LoadCandidates
  <2>1. \/ sweep' = IdleSweep
        \/ \E queue, authority :
              sweep' = [IdleSweep EXCEPT !.pc = "next", !.queue = queue,
                                         !.authority = authority]
    BY <1>10 DEF LoadCandidates
  <2>2. QED
    BY <1>4, <1>5, <2>1, RestingLocals DEF SweepRows
<1>11. CASE ClearFlag
  BY <1>1, <1>3, <1>4, <1>5, <1>11 DEF ClearFlag, SweepRows
<1>12. CASE UNCHANGED sweep
  BY <1>3, <1>12
<1>13. QED
  BY <1>6, <1>7, <1>8, <1>9, <1>10, <1>11, <1>12
  DEF Next, vars, server_vars, Arrives, VerifyArrives, UnverifyArrives, PdaArrives,
      TaskStep, VerifyStep, VerifyLookup, VerifyUpsert, Dedupe, CheckClosed,
      MarkClosed, InsertBuild, WebhookStep, FetchHash, Unverify, ReadPda,
      JobStep, RunBuild, CompleteBuild, SnapshotProgram, UpsertAfterBuild,
      FailBuild, CheckClosedAfterFailure, MarkClosedAfterFailure, SweepStep,
      ClientDisconnects

\* A step keeps a quiet program quiet, its row right, and its verdict.
LEMMA SettledStep ==
    ASSUME Inv, [Next]_vars, NEW p \in Programs, Quiet(p),
           Undisturbed(p)
    PROVE  /\ Quiet(p)'
           /\ RowMatches(p) =>
                /\ RowMatches(p)'
                /\ check_is_verified(program_state[p], builds, p)
                      => check_is_verified(program_state[p], builds, p)'
<1>1. /\ chain'[p].loader = "upgradeable"
      /\ chain'[p].open = chain[p].open
      /\ chain[p].open => chain'[p].hash = chain[p].hash
  BY LoaderFixed, SnapshotSame DEF Quiet, Undisturbed
<1>2. Quiet(p)'
  BY <1>1, StepTasks, StepJobs, StepSnaps
  DEF Quiet, InFlightMatches, TaskMatches, JobMatches, Undisturbed
<1>3. ASSUME RowMatches(p) PROVE RowMatches(p)'
  BY <1>1, <1>3, RowStays, StepRow DEF RowMatches, Undisturbed
<1>4. ASSUME RowMatches(p), check_is_verified(program_state[p], builds, p)
      PROVE  check_is_verified(program_state[p], builds, p)'
  <2>1. /\ program_state'[p].is_closed = program_state[p].is_closed
        /\ program_state'[p].authority = program_state[p].authority
    BY <1>4, RowStays, StepRow DEF RowMatches
  <2>2. chain[p].open
    BY <1>4, SnapshotTells
    DEF check_is_verified, RowMatches, Inv, TypeOK, ChainTypeOK, ChainPrograms
  <2>3. program_state'[p].on_chain_hash = program_state[p].on_chain_hash
    BY <1>4, <2>2, RowStays, StepRow DEF RowMatches
  <2>4. \A b \in BuildIds :
          builds[b].status = "completed" => builds'[b] = builds[b]
    BY RowKept, StepMoves
  <2>5. QED
    BY <1>4, <2>1, <2>3, <2>4 DEF check_is_verified, IsTrusted
<1>5. QED
  BY <1>2, <1>3, <1>4

\* In whatever order requests, webhooks, builds, the sweep and restarts write and
\* whatever else fails: a program with nothing wrong in flight stays such, and if
\* its row is right keeps it and its verdict, for as long as the chain stays, no
\* request arrives that was told something else, and no failed call of
\* is_program_data_missing is taken for a closing.
THEOREM SettledStays == Spec => StaysSettled
<1>1. Inv /\ [Next]_vars =>
        \A p \in Programs :
          Quiet(p) /\ Undisturbed(p) =>
            /\ Quiet(p)'
            /\ RowMatches(p) =>
                /\ RowMatches(p)'
                /\ check_is_verified(program_state[p], builds, p)
                      => check_is_verified(program_state[p], builds, p)'
  BY SettledStep
<1>2. QED
  BY <1>1, InitInv, StepInv, PTL DEF Spec, StaysSettled

-----------------------------------------------------------------------------
(* The sweep's last step.                                                  *)

\* While no statement fails: the sweep has a signer only between the lookup
\* that found its PDA and the end of that candidate, and at the end there is a
\* build of that PDA or no room for one.
SweepServed ==
    /\ sweep.pc \notin {"has_build", "insert", "clear"} => sweep.signer = None
    /\ ClearsWithBuild

\* A build that is in the table stays there, and a full table stays full.
LEMMA BuildsStay ==
    ASSUME Inv, [Next]_vars
    PROVE  /\ \A new : has_build_for_params(builds, new)
                        => has_build_for_params(builds, new)'
           /\ (\A b \in BuildIds : builds[b].status # "absent")
                => \A b \in BuildIds : builds'[b].status # "absent"
BY StepMoves, RowKept DEF has_build_for_params, SameParams

\* Steps of others leave the sweep as it is.
LEMMA SweepAlone ==
    ASSUME [Next]_vars, ~SweepStep, ~CrashRestart
    PROVE  UNCHANGED sweep
BY DEF Next, vars, server_vars, Arrives, VerifyArrives, UnverifyArrives, PdaArrives,
       TaskStep, VerifyStep, VerifyLookup, VerifyUpsert, Dedupe, CheckClosed,
       MarkClosed, InsertBuild, WebhookStep, FetchHash, Unverify, ReadPda,
       JobStep, RunBuild, CompleteBuild, SnapshotProgram, UpsertAfterBuild,
       FailBuild, CheckClosedAfterFailure, MarkClosedAfterFailure,
       ClientDisconnects

\* An insert that does not fail puts its build in the table or finds it full.
LEMMA InsertServes ==
    ASSUME Inv, ~DbFails, InsertReverify
    PROVE  \/ has_build_for_params(builds, SweepNew)'
           \/ \A b \in BuildIds : builds'[b].status # "absent"
<1>1. /\ builds \in [BuildIds -> BuildRows]
      /\ sweep \in SweepRows
  BY DEF Inv, TypeOK, ServerTypeOK
<1>2. SweepNew' = SweepNew
  BY <1>1 DEF InsertReverify, SweepNew, SweepRows
<1>3. ASSUME NEW b \in BuildIds, WriteBuild(b, InProgress(SweepNew))
      PROVE  has_build_for_params(builds', SweepNew)
  BY <1>1, <1>3 DEF WriteBuild, InProgress, has_build_for_params, SameParams
<1>4. QED
  BY <1>2, <1>3 DEF InsertReverify, InsertAndStart, InsertRefused

\* Every step keeps it.
LEMMA ServedStep ==
    ASSUME ~DbFails
    PROVE  Inv /\ SweepServed /\ [Next]_vars => SweepServed'
<1> SUFFICES ASSUME Inv, SweepServed, [Next]_vars PROVE SweepServed'
  OBVIOUS
<1> DEFINE Full == \A b \in BuildIds : builds[b].status # "absent"
           Rests == sweep'.pc \notin {"has_build", "insert", "clear"}
<1>1. /\ sweep \in SweepRows
      /\ IdleSweep.pc = "idle" /\ IdleSweep.signer = None
  BY DEF Inv, TypeOK, ServerTypeOK, IdleSweep
<1>2. CASE sweep'.signer = None
  BY <1>2 DEF SweepServed, ClearsWithBuild
<1>3. CASE sweep'.pc \in {"has_build", "insert"}
  BY <1>3 DEF SweepServed, ClearsWithBuild
<1>4. CASE UNCHANGED sweep
  BY <1>4, BuildsStay DEF SweepServed, ClearsWithBuild, SweepNew
<1>5. CASE BeginCycle \/ FetchChunk \/ \E p \in Programs : ApplySnapshot(p)
  <2>1. sweep'.signer = sweep.signer
    BY <1>1, <1>5
    DEF BeginCycle, FetchChunk, ChunkAnswered, ApplySnapshot, SweepRows
  <2>2. sweep.pc \in {"idle", "fetch", "apply"}
    BY <1>5 DEF BeginCycle, FetchChunk, ApplySnapshot
  <2>3. QED
    BY <1>2, <2>1, <2>2 DEF SweepServed
<1>6. CASE FetchFails \/ CrashRestart
  BY <1>1, <1>2, <1>6 DEF FetchFails, CrashRestart
<1>7. CASE LoadCandidates
  <2>1. \/ sweep' = IdleSweep
        \/ \E queue, authority :
              sweep' = [IdleSweep EXCEPT !.pc = "next", !.queue = queue,
                                         !.authority = authority]
    BY <1>7 DEF LoadCandidates
  <2>2. sweep'.signer = None
    BY <1>1, <2>1, RestingLocals DEF SweepRows
  <2>3. QED
    BY <1>2, <2>2
<1>8. ASSUME NEW p \in Programs, LookupCandidate(p) PROVE SweepServed'
  <2>1. sweep.signer = None
    BY <1>8 DEF LookupCandidate, SweepServed
  <2>2. \/ \E w, source, examined :
              sweep' = [sweep EXCEPT !.pc = "has_build", !.program = p, !.signer = w,
                                     !.source = source, !.examined = examined]
        \/ \E examined :
              sweep' = [sweep EXCEPT !.pc = "clear", !.program = p,
                                     !.examined = examined]
    BY <1>8 DEF LookupCandidate
  <2>3. sweep'.pc = "has_build" \/ sweep'.signer = None
    BY <1>1, <2>1, <2>2 DEF SweepRows
  <2>4. QED
    BY <1>2, <1>3, <2>3
<1>9. CASE CheckBuilds
  <2>1. \/ sweep' = [sweep EXCEPT !.pc = "insert"]
        \/ /\ has_build_for_params(builds, SweepNew)
           /\ sweep' = [sweep EXCEPT !.pc = "clear"]
    BY <1>9 DEF CheckBuilds
  <2>2. CASE sweep' = [sweep EXCEPT !.pc = "insert"]
    BY <1>1, <1>3, <2>2 DEF SweepRows
  <2>3. CASE /\ has_build_for_params(builds, SweepNew)
             /\ sweep' = [sweep EXCEPT !.pc = "clear"]
    <3>1. sweep'.pc = "clear" /\ SweepNew' = SweepNew
      BY <1>1, <2>3 DEF SweepNew, SweepRows
    <3>2. has_build_for_params(builds', SweepNew)
      BY <2>3, BuildsStay
    <3>3. QED
      BY <3>1, <3>2 DEF SweepServed, ClearsWithBuild
  <2>4. QED
    BY <2>1, <2>2, <2>3
<1>10. CASE InsertReverify
  <2>1. sweep'.pc = "clear"
    BY <1>1, <1>10 DEF InsertReverify, SweepRows
  <2>2. QED
    BY <1>10, <2>1, InsertServes DEF SweepServed, ClearsWithBuild
<1>11. CASE ClearFlag
  <2>1. sweep'.signer = None
    BY <1>1, <1>11 DEF ClearFlag, SweepRows
  <2>2. QED
    BY <1>2, <2>1
<1>12. QED
  BY <1>4, <1>5, <1>6, <1>7, <1>8, <1>9, <1>10, <1>11, SweepAlone DEF SweepStep

\* When the sweep clears the flag of a program whose PDA it found, a build of
\* that PDA is in the table, whoever put it there and however it ended, or the
\* table is full; so clearing the flag loses no rebuild.
THEOREM SweepClearsWithBuild == Spec => []ClearsWithBuild
<1>1. CASE DbFails
  BY <1>1, PTL DEF ClearsWithBuild
<1>2. CASE ~DbFails
  <2>1. Init => SweepServed
    BY DEF Init, ServerInit, IdleSweep, SweepServed, ClearsWithBuild
  <2>2. Inv /\ SweepServed /\ [Next]_vars => SweepServed'
    BY <1>2, ServedStep
  <2>3. SweepServed => ClearsWithBuild
    BY DEF SweepServed
  <2>4. QED
    BY <2>1, <2>2, <2>3, InitInv, StepInv, PTL DEF Spec
<1>3. QED
  BY <1>1, <1>2
=============================================================================
