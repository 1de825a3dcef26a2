-------------------------------- MODULE Cutover --------------------------------
(***************************************************************************)
(* From the tables of version 1 to those the service answers from: the     *)
(* migration (migrations/0001_init.sql), the cleanup of orphans that       *)
(* follows it in main.rs, then the statements of the handlers, while a     *)
(* client walks the pages of GET /verified-programs and others read the    *)
(* status endpoints.                                                       *)
(*                                                                         *)
(* Which statement follows which is modules VerifyRequest to Sweep: here   *)
(* any handler may send any of them at any time.  Version 1 is not in the  *)
(* repository: its rows are what the migration reads of them, at most one  *)
(* of verified_programs for each build, and of the build's program.        *)
(* completed_at of a failed build is read by nothing, and is not kept.     *)
(***************************************************************************)
EXTENDS StatusViews

CONSTANTS
    V1Databases,    \* what the migration may find
    CutoverTime,    \* when: later than any time of version 1
    SnapshotsRead,  \* bound: what the handlers read from chain
    MaxRestarts     \* bound

\* solana_program_builds with its row of verified_programs, and
\* program_authority.
V1Verified == [on_chain_hash: Hashes, executable_hash: Hashes, verified_at: 0..CutoverTime]
V1Builds == [program: Programs, signer: Signers \cup {System, None},
             status: {"completed", "in_progress", "failed", "un-used"},
             verified: V1Verified \cup {None}]
V1Authorities == [authority_id: Signers \cup {None}, is_frozen: BOOLEAN,
                  is_closed: BOOLEAN]

ASSUME V1Assumption ==
    V1Databases \subseteq [builds: [BuildIds -> V1Builds \cup {None}],
                           authority: [Programs -> V1Authorities \cup {None}]]
\* No two programs are verified at the same time.
ASSUME V1TimesAssumption ==
    \A db \in V1Databases : \A b, c \in BuildIds :
        /\ b # c /\ db.builds[b] # None /\ db.builds[c] # None
        /\ db.builds[b].verified # None /\ db.builds[c].verified # None
        => db.builds[b].verified.verified_at # db.builds[c].verified.verified_at
ASSUME CutoverAssumption == CutoverTime \in Times
ASSUME SnapshotsAssumption == SnapshotsRead \subseteq Snapshots
ASSUME NoRowAssumption == None \notin V1Builds \cup V1Verified \cup V1Authorities
ASSUME SystemAssumption == System \notin Signers \cup {None} /\ None \notin Nat
ASSUME RestartsAssumption == MaxRestarts \in Nat

VARIABLES
    v1,             \* the tables of version 1, which stay
    phase,          \* "v1", "migrated", "serving"
    program_state,
    builds,
    now,            \* the time of the last statement (bound: MaxTime)
    restarts,
    owned,          \* the builds that a task of this process runs
    uncleaned,      \* history: a cleanup has failed
    walk            \* the client that walks the pages

table_vars == <<program_state, builds>>
vars == <<v1, phase, table_vars, now, restarts, owned, uncleaned, walk>>

NoViewBuild == [program |-> None, signer |-> None, status |-> "absent",
                executable_hash |-> None, completed_at |-> None]

\* page is 0 when the walk is over; start, lost and failed are history: the
\* programs listed at its start, whether one has left the list since, and
\* whether the query has failed.
FirstPage == [page |-> 1, seen |-> {}, start |-> {}, lost |-> FALSE, failed |-> FALSE]

Init ==
    /\ v1 \in V1Databases
    /\ phase = "v1"
    /\ program_state = [p \in Programs |-> NoRow]
    /\ builds = [b \in BuildIds |-> NoViewBuild]
    /\ now = CutoverTime
    /\ restarts = 0
    /\ owned = {}
    /\ uncleaned = FALSE
    /\ walk = FirstPage

-----------------------------------------------------------------------------
(* The migration.                                                          *)

\* Mutant: every status is taken over as it is.
status_as_is(row) == row.status

moved_status(row) ==
    IF row.status \in {"completed", "in_progress"} THEN row.status ELSE "failed"

moved_build(row) ==
    [program |-> row.program, signer |-> row.signer, status |-> moved_status(row),
     executable_hash |-> IF row.verified = None THEN None
                         ELSE row.verified.executable_hash,
     completed_at |-> IF row.status # "completed" \/ row.verified = None THEN None
                      ELSE row.verified.verified_at]

\* The rows of verified_programs of p, by their builds.
VerifiedOf(p) == {b \in BuildIds : /\ v1.builds[b] # None
                                   /\ v1.builds[b].program = p
                                   /\ v1.builds[b].verified # None}

\* Mutant: in no order.
any_verified(p) == VerifiedOf(p)

latest_verified(p) ==
    {b \in VerifiedOf(p) : \A c \in VerifiedOf(p) :
        v1.builds[c].verified.verified_at <= v1.builds[b].verified.verified_at}

moved_hashes(p) ==
    IF VerifiedOf(p) = {} THEN {None}
    ELSE {v1.builds[b].verified.on_chain_hash : b \in latest_verified(p)}

\* FULL OUTER JOIN: a program of either table.
moved_state(p, hash) ==
    LET authority == v1.authority[p]
    IN  IF VerifiedOf(p) = {} /\ authority = None THEN NoRow
        ELSE [present |-> TRUE, on_chain_hash |-> hash,
              authority |-> IF authority = None THEN None ELSE authority.authority_id,
              is_frozen |-> authority # None /\ authority.is_frozen,
              is_closed |-> authority # None /\ authority.is_closed,
              pending_reverify |-> FALSE]

Migrate ==
    /\ phase = "v1"
    /\ phase' = "migrated"
    /\ builds' = [b \in BuildIds |-> IF v1.builds[b] = None THEN NoViewBuild
                                     ELSE moved_build(v1.builds[b])]
    /\ \E hash \in [Programs -> Hashes \cup {None}] :
          /\ \A p \in Programs : hash[p] \in moved_hashes(p)
          /\ program_state' = [p \in Programs |-> moved_state(p, hash[p])]
    /\ UNCHANGED <<v1, now, restarts, owned, uncleaned, walk>>

\* Startup goes on whether the cleanup succeeds or not.
Cleanup ==
    /\ phase = "migrated"
    /\ phase' = "serving"
    /\ \/ builds' = fail_orphan_builds(builds) /\ UNCHANGED uncleaned
       \/ uncleaned' = TRUE /\ UNCHANGED builds
    /\ UNCHANGED <<v1, program_state, now, restarts, owned, walk>>

\* The migration is recorded as applied and does nothing again.
Restart ==
    /\ phase = "serving"
    /\ restarts < MaxRestarts
    /\ restarts' = restarts + 1
    /\ phase' = "migrated"
    /\ owned' = {}
    /\ UNCHANGED <<v1, table_vars, now, uncleaned, walk>>

-----------------------------------------------------------------------------
(* The statements of the handlers.                                         *)

\* The list may change under the client that walks it.
Watch ==
    walk' = [walk EXCEPT
        !.lost = \/ @
                 \/ /\ walk.page > 1
                    /\ ~ (verified_program_ids(program_state, builds)
                          \subseteq verified_program_ids(program_state', builds'))]

Statement ==
    /\ phase = "serving"
    /\ now < MaxTime
    /\ now' = now + 1
    /\ UNCHANGED <<v1, phase, restarts, uncleaned>>

InsertBuild(b, p, w) ==
    /\ Statement
    /\ IsNextBuild(builds, b)
    /\ builds' = [builds EXCEPT ![b] =
          [NoViewBuild EXCEPT !.program = p, !.signer = w, !.status = "in_progress"]]
    /\ owned' = owned \cup {b}
    /\ UNCHANGED program_state
    /\ Watch

CompleteBuild(b, hash) ==
    /\ Statement
    /\ b \in owned
    /\ builds' = [builds EXCEPT
          ![b] = [mark_build_completed(@, hash) EXCEPT !.completed_at = now + 1]]
    /\ owned' = owned \ {b}
    /\ UNCHANGED program_state
    /\ Watch

FailBuild(b) ==
    /\ Statement
    /\ b \in owned
    /\ builds' = [builds EXCEPT ![b] = mark_build_failed(@)]
    /\ owned' = owned \ {b}
    /\ UNCHANGED program_state
    /\ Watch

SetState(p, row) ==
    /\ Statement
    /\ program_state' = [program_state EXCEPT ![p] = row]
    /\ UNCHANGED <<builds, owned>>
    /\ Watch

Upsert(p, snap) == SetState(p, upsert_program_state(program_state[p], snap))
Unverify(p, hash) == SetState(p, unverify_program(program_state[p], hash))
MarkClosed(p) == SetState(p, mark_closed(program_state[p]))

Statements ==
    \/ \E b \in BuildIds, p \in Programs, w \in Signers : InsertBuild(b, p, w)
    \/ \E b \in BuildIds, hash \in Hashes \cup {Empty} : CompleteBuild(b, hash)
    \/ \E b \in BuildIds : FailBuild(b)
    \/ \E p \in Programs :
          \/ \E snap \in SnapshotsRead : Upsert(p, snap)
          \/ \E hash \in Hashes : Unverify(p, hash)
          \/ MarkClosed(p)

-----------------------------------------------------------------------------
(* A client that reads page after page while there is a next one.          *)
GetPage ==
    /\ phase = "serving"
    /\ walk.page # 0
    /\ LET ids == verified_program_ids(program_state, builds)
       IN  \E failed \in BOOLEAN :
             LET list == IF failed THEN failed_list
                         ELSE get_verified_programs_list(ids, walk.page)
             IN  walk' = [walk EXCEPT
                    !.page = IF list.has_next_page THEN walk.page + 1 ELSE 0,
                    !.seen = @ \cup list.verified_programs,
                    !.start = IF walk.page = 1 THEN ids ELSE @,
                    !.failed = failed]
    /\ UNCHANGED <<v1, phase, table_vars, now, restarts, owned, uncleaned>>

Next == Migrate \/ Cleanup \/ Restart \/ Statements \/ GetPage

Spec == Init /\ [][Next]_vars

-----------------------------------------------------------------------------
(* Every variable has its type. *)
ViewRows == [program: Programs \cup {None}, signer: Signers \cup {System, None},
             status: {"absent", "in_progress", "completed", "failed"},
             executable_hash: Hashes \cup {Empty, None},
             completed_at: Times \cup {None}]
Walks == [page: Nat, seen: SUBSET Programs, start: SUBSET Programs,
          lost: BOOLEAN, failed: BOOLEAN]
TypeOK ==
    /\ v1 \in V1Databases
    /\ phase \in {"v1", "migrated", "serving"}
    /\ program_state \in [Programs -> StateRows]
    /\ builds \in [BuildIds -> ViewRows]
    /\ now \in Times
    /\ restarts \in 0..MaxRestarts
    /\ owned \subseteq BuildIds
    /\ uncleaned \in BOOLEAN
    /\ walk \in Walks

\* The endpoints, four queries with four orders and filters, agree on every
\* program and on migrated rows too: /verified-programs-status has it iff
\* /status says verified, and shows a build /status may show; what /status says
\* is verified is in the list; and a trusted signer's claim that /status-all
\* says is verified is one /status knows (db.rs:346-442, 536-610).
ViewsAgree ==
    \A p \in Programs :
        LET row == program_state[p]
            shown == get_verification_status_all(row, builds, p)
        IN  /\ SaysVerified(row, builds, p) <=> shown # {}
            /\ \A b \in shown : [build |-> b, is_verified |-> TRUE]
                                \in get_verification_status(row, builds, p)
            /\ SaysVerified(row, builds, p) =>
                  p \in verified_program_ids(program_state, builds)
            /\ \A claim \in get_all_verification_info(row, builds, p) :
                  /\ claim.is_verified
                  /\ claim.build \in TrustedCompleted(row, builds, p)
                  => SaysVerified(row, builds, p)

\* What version 1 had as verified: a completed build that a trusted signer
\* asked for, with the hash the program had when it was last looked at.
WasVerified(p) ==
    /\ v1.authority[p] # None => ~v1.authority[p].is_closed
    /\ \E b \in VerifiedOf(p), c \in latest_verified(p) :
          LET build == v1.builds[b]
          IN  /\ build.status = "completed"
              /\ build.verified.executable_hash = v1.builds[c].verified.on_chain_hash
              /\ \/ build.signer \in {None, System}
                 \/ IsTrusted(build.signer, IF v1.authority[p] = None THEN None
                                            ELSE v1.authority[p].authority_id)

\* The cutover takes no verdict away and gives none: until the first statement
\* of a handler, over cleanups and restarts, /status says verified of what
\* version 1 had as verified (0001_init.sql:78-132).
VerdictsMoved ==
    phase # "v1" /\ now = CutoverTime =>
        \A p \in Programs : SaysVerified(program_state[p], builds, p) <=> WasVerified(p)

\* No build that version 1 or an earlier process left in progress is still so
\* once the service answers, to block the dedupe query for ever, unless a
\* cleanup failed (main.rs:36-44).
NoOrphan ==
    phase = "serving" /\ ~uncleaned =>
        \A b \in BuildIds : builds[b].status = "in_progress" => b \in owned

\* A client that walks the pages to the end, while programs are added to the
\* list under it, has seen every program listed at the start; unless one left
\* the list, or the query failed, which is answered as an empty last page
\* (db.rs:541-581, verified_programs_list.rs:78-116).
WalkMissesNone ==
    walk.page = 0 /\ ~walk.lost /\ ~walk.failed => walk.start \subseteq walk.seen

\* index.rs:232: the list is that "of all verified programs"; db.rs:536: of
\* "currently-verified program IDs".  What it has, /status says is verified.
ListedIsVerified ==
    \A p \in verified_program_ids(program_state, builds) :
        SaysVerified(program_state[p], builds, p)
=============================================================================
