----------------------------- MODULE CutoverProofs -----------------------------
(***************************************************************************)
(* For every number of programs, builds, statements and restarts, and      *)
(* every database of version 1: the endpoints agree with one another, no   *)
(* orphan is left, and the migration keeps the verdicts.                   *)
(***************************************************************************)
EXTENDS Cutover, FiniteSetTheorems, WellFoundedInduction, TLAPS

\* Only a program with a row has a hash; and while the service answers, what is
\* in progress is somebody's.
Rows ==
    \A p \in Programs : ~program_state[p].present =>
                            program_state[p].on_chain_hash = None
Inv == TypeOK /\ Rows /\ NoOrphan

-----------------------------------------------------------------------------
LEMMA PutRow == ASSUME NEW D, NEW S, NEW f \in [D -> S], NEW d \in D, NEW row \in S
                PROVE [f EXCEPT ![d] = row] \in [D -> S]
OBVIOUS

LEMMA NoRows == NoRow \in StateRows /\ NoViewBuild \in ViewRows
BY DEF NoRow, StateRows, NoViewBuild, ViewRows

LEMMA InitInv == Init => Inv
<1> SUFFICES ASSUME Init PROVE Inv
  OBVIOUS
<1>1. 0 \in Nat /\ now \in Times /\ FirstPage \in Walks
  BY CutoverAssumption DEF Init, FirstPage, Walks
<1>a. builds \in [BuildIds -> ViewRows] /\ program_state \in [Programs -> StateRows]
  BY NoRows DEF Init
<1>b. restarts \in 0..MaxRestarts
  BY RestartsAssumption DEF Init
<1>2. TypeOK
  BY <1>1, <1>a, <1>b DEF Init, TypeOK
<1>3. Rows
  BY DEF Init, Rows, NoRow
<1>4. NoOrphan
  BY DEF Init, NoOrphan
<1> QED
  BY <1>2, <1>3, <1>4 DEF Inv

LEMMA MigrateInv == ASSUME Inv, Migrate PROVE Inv'
<1>1. v1 \in V1Databases /\ TypeOK
  BY DEF Inv, TypeOK
<1>2. ASSUME NEW b \in BuildIds, v1.builds[b] # None
      PROVE  moved_build(v1.builds[b]) \in ViewRows
  <2>1. v1.builds[b] \in V1Builds
    BY <1>1, <1>2, V1Assumption
  <2>2. v1.builds[b].verified \in V1Verified \cup {None}
    BY <2>1 DEF V1Builds
  <2>3. v1.builds[b].verified # None =>
            /\ v1.builds[b].verified.executable_hash \in Hashes
            /\ v1.builds[b].verified.verified_at \in Times
    BY <2>2, CutoverAssumption, TimeAssumption DEF V1Verified, Times
  <2> QED
    BY <2>1, <2>3 DEF moved_build, moved_status, V1Builds, ViewRows
<1>3. builds' \in [BuildIds -> ViewRows]
  BY <1>2, NoRows DEF Migrate
<1>4. PICK hash \in [Programs -> Hashes \cup {None}] :
          /\ \A p \in Programs : hash[p] \in moved_hashes(p)
          /\ program_state' = [p \in Programs |-> moved_state(p, hash[p])]
  BY DEF Migrate
<1>5. ASSUME NEW p \in Programs
      PROVE  /\ moved_state(p, hash[p]) \in StateRows
             /\ ~moved_state(p, hash[p]).present =>
                    moved_state(p, hash[p]).on_chain_hash = None
  <2>1. v1.authority[p] \in V1Authorities \cup {None}
    BY <1>1, V1Assumption
  <2>2. hash[p] \in Hashes \cup {None}
    BY <1>4
  <2>3. v1.authority[p] # None =>
            /\ v1.authority[p].authority_id \in Signers \cup {None}
            /\ v1.authority[p].is_frozen \in BOOLEAN
            /\ v1.authority[p].is_closed \in BOOLEAN
    BY <2>1 DEF V1Authorities
  <2>4. CASE VerifiedOf(p) = {} /\ v1.authority[p] = None
    BY <2>4, NoRows DEF moved_state, NoRow
  <2>5. CASE ~(VerifiedOf(p) = {} /\ v1.authority[p] = None)
    BY <2>5, <2>2, <2>3 DEF moved_state, StateRows
  <2> QED
    BY <2>4, <2>5
<1>6. program_state' \in [Programs -> StateRows] /\ Rows'
  BY <1>4, <1>5 DEF Rows
<1>7. TypeOK'
  BY <1>1, <1>3, <1>6 DEF TypeOK, Migrate
<1>8. NoOrphan'
  BY DEF Migrate, NoOrphan
<1> QED
  BY <1>6, <1>7, <1>8 DEF Inv

LEMMA CleanupInv == ASSUME Inv, Cleanup PROVE Inv'
<1>1. builds \in [BuildIds -> ViewRows] /\ TypeOK /\ Rows
  BY DEF Inv, TypeOK
<1>2. ASSUME NEW b \in BuildIds
      PROVE  /\ mark_build_failed(builds[b]) \in ViewRows
             /\ mark_build_failed(builds[b]).status = "failed"
  <2>1. builds[b] \in ViewRows
    BY <1>1
  <2> QED
    BY <2>1 DEF mark_build_failed, ViewRows
<1>3. builds' \in [BuildIds -> ViewRows]
  BY <1>1, <1>2 DEF Cleanup, fail_orphan_builds
<1>4. uncleaned' \in BOOLEAN
  BY <1>1 DEF Cleanup, TypeOK
<1>5. TypeOK' /\ Rows'
  BY <1>1, <1>3, <1>4 DEF TypeOK, Cleanup, Rows
<1>6. NoOrphan'
  BY <1>1, <1>2 DEF Cleanup, NoOrphan, fail_orphan_builds
<1> QED
  BY <1>5, <1>6 DEF Inv

LEMMA RestartInv == ASSUME Inv, Restart PROVE Inv'
<1>1. TypeOK'
  BY RestartsAssumption DEF Inv, TypeOK, Restart, table_vars
<1>2. Rows' /\ NoOrphan'
  BY DEF Inv, Rows, NoOrphan, Restart, table_vars
<1> QED
  BY <1>1, <1>2 DEF Inv

-----------------------------------------------------------------------------
(* The statements of the handlers. *)

LEMMA WalkType ==
    ASSUME TypeOK, Watch
    PROVE walk' \in Walks
<1>1. walk \in Walks
  BY DEF TypeOK
<1>2. \E lost \in BOOLEAN : walk' = [walk EXCEPT !.lost = lost]
  BY <1>1 DEF Watch, Walks
<1> QED
  BY <1>1, <1>2 DEF Walks

LEMMA LaterTime == ASSUME TypeOK, Statement PROVE now + 1 \in Times /\ now' \in Times
<1>1. now \in Nat /\ now < MaxTime
  BY TimeAssumption DEF TypeOK, Statement, Times
<1> QED
  BY <1>1, TimeAssumption DEF Statement, Times

LEMMA InsertBuildInv ==
    ASSUME Inv, NEW b \in BuildIds, NEW p \in Programs, NEW w \in Signers,
           InsertBuild(b, p, w)
    PROVE Inv'
<1>t. TypeOK
  BY DEF Inv
<1>1. [NoViewBuild EXCEPT !.program = p, !.signer = w, !.status = "in_progress"]
          \in ViewRows
  BY DEF NoViewBuild, ViewRows
<1>2. builds' \in [BuildIds -> ViewRows]
  BY <1>1, <1>t, PutRow DEF InsertBuild, TypeOK
<1>3. walk' \in Walks /\ now' \in Times /\ owned' \subseteq BuildIds
  BY <1>t, WalkType, LaterTime DEF InsertBuild, TypeOK
<1>4. TypeOK' /\ Rows'
  BY <1>t, <1>2, <1>3 DEF Inv, TypeOK, Rows, InsertBuild, Statement
<1>5. NoOrphan'
  <2> SUFFICES ASSUME ~uncleaned, NEW c \in BuildIds,
                      builds'[c].status = "in_progress"
               PROVE  c \in owned'
    BY DEF NoOrphan, InsertBuild, Statement
  <2>1. c # b => builds'[c] = builds[c]
    BY <1>t DEF InsertBuild, TypeOK
  <2> QED
    BY <2>1 DEF Inv, NoOrphan, InsertBuild, Statement
<1> QED
  BY <1>4, <1>5 DEF Inv

\* The end of a build: its row is no longer in progress.
LEMMA EndInv ==
    ASSUME Inv, Statement, Watch, NEW b \in owned, NEW row \in ViewRows,
           row.status # "in_progress",
           builds' = [builds EXCEPT ![b] = row],
           owned' = owned \ {b}, UNCHANGED program_state
    PROVE Inv'
<1>t. TypeOK /\ b \in BuildIds
  BY DEF Inv, TypeOK
<1>2. builds' \in [BuildIds -> ViewRows]
  BY <1>t, PutRow DEF TypeOK
<1>3. walk' \in Walks /\ now' \in Times /\ owned' \subseteq BuildIds
  BY <1>t, WalkType, LaterTime DEF TypeOK
<1>4. TypeOK' /\ Rows'
  BY <1>t, <1>2, <1>3 DEF Inv, TypeOK, Rows, Statement
<1>5. NoOrphan'
  <2> SUFFICES ASSUME ~uncleaned, NEW c \in BuildIds,
                      builds'[c].status = "in_progress"
               PROVE  c \in owned'
    BY DEF NoOrphan, Statement
  <2>1. c # b /\ builds'[c] = builds[c]
    BY <1>t DEF TypeOK
  <2> QED
    BY <2>1 DEF Inv, NoOrphan, Statement
<1> QED
  BY <1>4, <1>5 DEF Inv

LEMMA CompleteBuildInv ==
    ASSUME Inv, NEW b \in BuildIds, NEW hash \in Hashes \cup {Empty},
           CompleteBuild(b, hash)
    PROVE Inv'
<1>1. builds[b] \in ViewRows /\ builds \in [BuildIds -> ViewRows] /\ TypeOK
  BY DEF Inv, TypeOK
<1>2. now + 1 \in Times
  BY <1>1, LaterTime DEF CompleteBuild
<1> DEFINE row == [mark_build_completed(builds[b], hash) EXCEPT !.completed_at = now + 1]
<1>3. row \in ViewRows /\ row.status # "in_progress"
  BY <1>1, <1>2 DEF mark_build_completed, ViewRows
<1>4. builds' = [builds EXCEPT ![b] = row]
  BY DEF CompleteBuild
<1> HIDE DEF row
<1> QED
  BY <1>3, <1>4, EndInv DEF CompleteBuild

LEMMA FailBuildInv == ASSUME Inv, NEW b \in BuildIds, FailBuild(b) PROVE Inv'
<1>1. builds[b] \in ViewRows
  BY DEF Inv, TypeOK
<1>2. /\ mark_build_failed(builds[b]) \in ViewRows
      /\ mark_build_failed(builds[b]).status # "in_progress"
  BY <1>1 DEF mark_build_failed, ViewRows
<1>3. builds' = [builds EXCEPT ![b] = mark_build_failed(builds[b])]
  BY DEF FailBuild
<1> QED
  BY <1>2, <1>3, EndInv DEF FailBuild

LEMMA SetStateInv ==
    ASSUME Inv, NEW p \in Programs, NEW row \in StateRows, row.present, SetState(p, row)
    PROVE Inv'
<1>t. TypeOK
  BY DEF Inv
<1>2. program_state' \in [Programs -> StateRows]
  BY <1>t, PutRow DEF TypeOK, SetState
<1>3. walk' \in Walks /\ now' \in Times
  BY <1>t, WalkType, LaterTime DEF SetState
<1>4. TypeOK'
  BY <1>t, <1>2, <1>3 DEF TypeOK, SetState, Statement
<1>5. Rows'
  BY <1>t DEF Inv, TypeOK, Rows, SetState
<1>6. NoOrphan'
  BY DEF Inv, NoOrphan, SetState, Statement
<1> QED
  BY <1>4, <1>5, <1>6 DEF Inv

LEMMA StatementsInv == ASSUME Inv, Statements PROVE Inv'
<1>1. ASSUME NEW p \in Programs
      PROVE  /\ program_state[p] \in StateRows
             /\ \A snap \in SnapshotsRead : snap \in Snapshots
  BY SnapshotsAssumption DEF Inv, TypeOK
<1>2. ASSUME NEW p \in Programs, NEW snap \in SnapshotsRead, Upsert(p, snap) PROVE Inv'
  <2>1. snap \in Snapshots /\ program_state[p] \in StateRows
    BY <1>1
  <2>2. /\ upsert_program_state(program_state[p], snap) \in StateRows
        /\ upsert_program_state(program_state[p], snap).present
    BY <2>1 DEF upsert_program_state, StateRows, Snapshots
  <2> QED
    BY <1>2, <2>2, SetStateInv DEF Upsert
<1>3. ASSUME NEW p \in Programs, NEW hash \in Hashes, Unverify(p, hash) PROVE Inv'
  <2>1. program_state[p] \in StateRows
    BY <1>1
  <2>2. /\ unverify_program(program_state[p], hash) \in StateRows
        /\ unverify_program(program_state[p], hash).present
    BY <2>1 DEF unverify_program, StateRows
  <2> QED
    BY <1>3, <2>2, SetStateInv DEF Unverify
<1>4. ASSUME NEW p \in Programs, MarkClosed(p) PROVE Inv'
  <2>1. program_state[p] \in StateRows
    BY <1>1
  <2>2. /\ mark_closed(program_state[p]) \in StateRows
        /\ mark_closed(program_state[p]).present
    BY <2>1 DEF mark_closed, StateRows
  <2> QED
    BY <1>4, <2>2, SetStateInv DEF MarkClosed
<1> QED
  BY <1>2, <1>3, <1>4, InsertBuildInv, CompleteBuildInv, FailBuildInv DEF Statements

LEMMA GetPageInv == ASSUME Inv, GetPage PROVE Inv'
<1>1. walk \in Walks /\ TypeOK
  BY DEF Inv, TypeOK
<1> DEFINE ids == verified_program_ids(program_state, builds)
<1>2. ids \subseteq Programs /\ Page(ids, walk.page) \subseteq Programs
  BY DEF verified_program_ids, Page
<1>3. PICK failed \in BOOLEAN :
        LET list == IF failed THEN failed_list
                    ELSE get_verified_programs_list(ids, walk.page)
        IN  walk' = [walk EXCEPT
              !.page = IF list.has_next_page THEN walk.page + 1 ELSE 0,
              !.seen = @ \cup list.verified_programs,
              !.start = IF walk.page = 1 THEN ids ELSE @,
              !.failed = failed]
  BY DEF GetPage
<1>4. failed_list.verified_programs \subseteq Programs
  BY DEF failed_list
<1>5. get_verified_programs_list(ids, walk.page).verified_programs \subseteq Programs
  BY <1>2 DEF get_verified_programs_list
<1> HIDE DEF ids
<1>6. walk' \in Walks
  <2> DEFINE list == IF failed THEN failed_list
                     ELSE get_verified_programs_list(ids, walk.page)
  <2>1. list.verified_programs \subseteq Programs
    BY <1>4, <1>5
  <2>2. walk' = [walk EXCEPT
              !.page = IF list.has_next_page THEN walk.page + 1 ELSE 0,
              !.seen = @ \cup list.verified_programs,
              !.start = IF walk.page = 1 THEN ids ELSE @,
              !.failed = failed]
    BY <1>3
  <2>3. /\ (IF list.has_next_page THEN walk.page + 1 ELSE 0) \in Nat
        /\ (IF walk.page = 1 THEN ids ELSE walk.start) \in SUBSET Programs
        /\ walk.seen \cup list.verified_programs \in SUBSET Programs
    BY <1>1, <1>2, <2>1 DEF Walks
  <2> HIDE DEF list
  <2> QED
    BY <1>1, <2>2, <2>3 DEF Walks
<1>7. TypeOK' /\ Rows' /\ NoOrphan'
  BY <1>6 DEF Inv, TypeOK, Rows, NoOrphan, GetPage, table_vars
<1> QED
  BY <1>7 DEF Inv

THEOREM Invariance == Spec => []Inv
<1>1. Inv /\ [Next]_vars => Inv'
  <2> SUFFICES ASSUME Inv, [Next]_vars PROVE Inv'
    OBVIOUS
  <2>1. CASE UNCHANGED vars
    BY <2>1 DEF vars, table_vars, Inv, TypeOK, Rows, NoOrphan
  <2> QED
    BY <2>1, MigrateInv, CleanupInv, RestartInv, StatementsInv, GetPageInv DEF Next
<1> QED
  BY InitInv, <1>1, PTL DEF Spec

\* The variables keep their types.
THEOREM TypeCorrect == Spec => []TypeOK
<1>1. Inv => TypeOK
  BY DEF Inv
<1> QED
  BY <1>1, Invariance, PTL

\* No build is in progress that nobody runs, whatever version 1 left and
\* however often the server is restarted (main.rs:36-44).
THEOREM NoOrphanLeft == Spec => []NoOrphan
<1>1. Inv => NoOrphan
  BY DEF Inv
<1> QED
  BY <1>1, Invariance, PTL

-----------------------------------------------------------------------------
(* The endpoints.                                                          *)

LEMMA Least == ASSUME NEW s \in SUBSET Nat, s # {}
               PROVE  \E m \in s : \A n \in s : m <= n
<1> DEFINE R == OpToRel(<, Nat)
<1>1. IsWellFoundedOn(R, Nat)
  BY NatLessThanWellFounded
<1>2. \A m, n \in Nat : <<n, m>> \in R <=> n < m
  BY DEF OpToRel
<1> HIDE DEF R
<1>3. PICK m \in s : \A n \in s : ~ (<<n, m>> \in R)
  BY <1>1, WFMin
<1>4. ASSUME NEW n \in s
      PROVE  m <= n
  <2>1. m \in Nat /\ n \in Nat
    OBVIOUS
  <2>2. ~ (n < m)
    BY <1>2, <1>3, <2>1
  <2> QED
    BY <2>1, <2>2, SMT
<1> QED
  BY <1>4

\* A query that sorts by completed_at finds something if there is something.
LEMMA NewestExists ==
    ASSUME NEW rows \in [BuildIds -> ViewRows], NEW s \in SUBSET BuildIds, s # {}
    PROVE  Newest(rows, s) # {}
<1>1. CASE \E b \in s : rows[b].completed_at = None
  BY <1>1 DEF Newest
<1>2. CASE \A b \in s : rows[b].completed_at # None
  <2>1. ASSUME NEW b \in s
        PROVE  rows[b].completed_at \in Nat /\ rows[b].completed_at <= MaxTime
    <3>1. rows[b] \in ViewRows
      OBVIOUS
    <3> QED
      BY <3>1, <1>2, TimeAssumption DEF ViewRows, Times
  <2> DEFINE ages == {MaxTime - rows[b].completed_at : b \in s}
  <2>2. ages \in SUBSET Nat /\ ages # {}
    BY <2>1, TimeAssumption
  <2>3. PICK age \in ages : \A other \in ages : age <= other
    BY <2>2, Least
  <2>4. PICK b \in s : age = MaxTime - rows[b].completed_at
    BY <2>3
  <2>5. ASSUME NEW c \in s PROVE rows[c].completed_at <= rows[b].completed_at
    <3>1. age <= MaxTime - rows[c].completed_at
      BY <2>3
    <3> QED
      BY <3>1, <2>4, <2>1, TimeAssumption
  <2> QED
    BY <2>5, <1>2 DEF Newest
<1> QED
  BY <1>1, <1>2

LEMMA NewestOf == ASSUME NEW rows, NEW s PROVE Newest(rows, s) \subseteq s
BY DEF Newest

LEMMA Answers ==
    ASSUME NEW row, NEW rows, NEW p, TrustedCompleted(row, rows, p) # {}
    PROVE  SaysVerified(row, rows, p) <=>
             \A b \in best_build(row, rows, p) : is_verified(row, rows[b].executable_hash)
<1>1. get_verification_status(row, rows, p) =
        {[build |-> b, is_verified |-> is_verified(row, rows[b].executable_hash)] :
            b \in best_build(row, rows, p)}
  BY DEF get_verification_status
<1> DEFINE verdict(b) == is_verified(row, rows[b].executable_hash)
<1>2. get_verification_status(row, rows, p) =
        {[build |-> b, is_verified |-> verdict(b)] : b \in best_build(row, rows, p)}
  BY <1>1
<1>3. \A b : [build |-> b, is_verified |-> verdict(b)].is_verified = verdict(b)
  OBVIOUS
<1> HIDE DEF verdict
<1>4. SaysVerified(row, rows, p) <=> \A b \in best_build(row, rows, p) : verdict(b)
  BY <1>2, <1>3 DEF SaysVerified
<1> QED
  BY <1>4 DEF verdict

\* What the sort of check_is_verified is for: although it looks at one build
\* alone, the verdict is whether any completed build of a trusted signer has
\* the program's hash (db.rs:386-416; so Tables!check_is_verified states it).
LEMMA VerdictIsBest ==
    ASSUME NEW p \in Programs, NEW row \in StateRows,
           NEW rows \in [BuildIds -> ViewRows]
    PROVE  SaysVerified(row, rows, p) <=>
             /\ row.on_chain_hash # None /\ ~row.is_closed
             /\ \E b \in TrustedCompleted(row, rows, p) :
                   rows[b].executable_hash = row.on_chain_hash
<1> DEFINE trusted == TrustedCompleted(row, rows, p)
           matching == {b \in trusted : rows[b].executable_hash = row.on_chain_hash}
<1>1. trusted \subseteq BuildIds /\ matching \subseteq trusted
  BY DEF TrustedCompleted, Completed
<1>2. row.on_chain_hash # Empty
  BY EmptyAssumption, NoneAssumption DEF StateRows
<1>3. CASE matching # {}
  <2>1. best_build(row, rows, p) = Newest(rows, matching)
    BY <1>3 DEF best_build
  <2>2. Newest(rows, matching) # {}
    BY <1>1, <1>3, NewestExists
  <2>3. trusted # {}
    BY <1>1, <1>3
  <2>4. \A b \in Newest(rows, matching) : rows[b].executable_hash = row.on_chain_hash
    BY NewestOf
  <2>5. SaysVerified(row, rows, p) <=>
          \A b \in Newest(rows, matching) : is_verified(row, rows[b].executable_hash)
    BY <2>1, <2>3, Answers
  <2> QED
    BY <2>2, <2>4, <2>5, <1>2, <1>3 DEF is_verified
<1>4. CASE matching = {}
  <2>1. CASE trusted = {}
    BY <2>1 DEF SaysVerified, get_verification_status
  <2>2. CASE trusted # {}
    <3>1. best_build(row, rows, p) = Newest(rows, trusted)
      BY <1>4 DEF best_build
    <3>2. PICK b \in Newest(rows, trusted) : TRUE
      BY <1>1, <2>2, NewestExists
    <3>3. b \in trusted /\ rows[b].executable_hash # row.on_chain_hash
      BY <3>2, <1>4, NewestOf
    <3>4. ~is_verified(row, rows[b].executable_hash)
      BY <3>3 DEF is_verified
    <3>5. ~SaysVerified(row, rows, p)
      BY <3>1, <3>2, <3>4, <2>2, Answers
    <3> QED
      BY <3>5, <1>4
  <2> QED
    BY <2>1, <2>2
<1> QED
  BY <1>3, <1>4

LEMMA Agree == Inv => ViewsAgree
<1> SUFFICES ASSUME Inv, NEW p \in Programs
    PROVE  LET row == program_state[p]
               shown == get_verification_status_all(row, builds, p)
           IN  /\ SaysVerified(row, builds, p) <=> shown # {}
               /\ \A b \in shown : [build |-> b, is_verified |-> TRUE]
                                  \in get_verification_status(row, builds, p)
               /\ SaysVerified(row, builds, p) =>
                     p \in verified_program_ids(program_state, builds)
               /\ \A claim \in get_all_verification_info(row, builds, p) :
                     /\ claim.is_verified
                     /\ claim.build \in TrustedCompleted(row, builds, p)
                     => SaysVerified(row, builds, p)
  BY DEF ViewsAgree
<1> DEFINE row == program_state[p]
           shown == get_verification_status_all(row, builds, p)
           trusted == TrustedCompleted(row, builds, p)
           matching == Matching(row, builds, trusted)
<1>1. /\ builds \in [BuildIds -> ViewRows] /\ row \in StateRows
      /\ ~row.present => row.on_chain_hash = None
  BY DEF Inv, TypeOK, Rows
<1>2. /\ trusted \subseteq Completed(builds, p) /\ Completed(builds, p) \subseteq BuildIds
      /\ matching \subseteq trusted
  BY DEF TrustedCompleted, Completed, Matching
<1>v. SaysVerified(row, builds, p) <=> ~row.is_closed /\ matching # {}
  <2>1. SaysVerified(row, builds, p) <=>
             /\ row.on_chain_hash # None /\ ~row.is_closed
             /\ \E b \in trusted : builds[b].executable_hash = row.on_chain_hash
    BY <1>1, VerdictIsBest
  <2> QED
    BY <2>1 DEF Matching
<1>3. shown # {} <=> ~row.is_closed /\ matching # {}
  <2>1. matching # {} => row.present /\ Newest(builds, matching) # {}
    BY <1>1, <1>2, NewestExists DEF Matching
  <2>2. Newest(builds, matching) \subseteq matching
    BY NewestOf
  <2>3. shown = IF ~row.present \/ row.is_closed THEN {} ELSE Newest(builds, matching)
    BY DEF get_verification_status_all
  <2> HIDE DEF shown, matching, row
  <2> QED
    BY <2>1, <2>2, <2>3
<1>4. ASSUME NEW b \in shown
      PROVE  [build |-> b, is_verified |-> TRUE]
                 \in get_verification_status(row, builds, p)
  <2>1. ~row.is_closed /\ b \in Newest(builds, matching)
    BY DEF get_verification_status_all
  <2>2. b \in matching
    BY <2>1, NewestOf
  <2>3. row.on_chain_hash # None /\ builds[b].executable_hash = row.on_chain_hash
        /\ trusted # {}
    BY <2>2 DEF Matching
  <2>4. matching = {c \in trusted : builds[c].executable_hash = row.on_chain_hash}
    BY <2>3 DEF Matching
  <2>5. b \in best_build(row, builds, p)
    BY <2>1, <2>2, <2>4 DEF best_build
  <2>6. is_verified(row, builds[b].executable_hash) = TRUE
    BY <2>1, <2>3, <1>1, EmptyAssumption DEF is_verified, StateRows
  <2> QED
    BY <2>3, <2>5, <2>6 DEF get_verification_status
<1>5. SaysVerified(row, builds, p) => p \in verified_program_ids(program_state, builds)
  BY <1>v, <1>2 DEF verified_program_ids, Matching
<1>6. ASSUME NEW claim \in get_all_verification_info(row, builds, p),
             claim.is_verified, claim.build \in trusted
      PROVE  SaysVerified(row, builds, p)
  <2>1. is_verified(row, builds[claim.build].executable_hash)
    BY <1>6 DEF get_all_verification_info
  <2>2. claim.build \in matching /\ ~row.is_closed
    BY <2>1, <1>6 DEF is_verified, Matching
  <2> QED
    BY <2>2, <1>v
<1> QED
  BY <1>v, <1>3, <1>4, <1>5, <1>6

\* The endpoints agree on every program at all times (db.rs:346-442, 536-610).
THEOREM EndpointsAgree == Spec => []ViewsAgree
BY Agree, Invariance, PTL

-----------------------------------------------------------------------------
(* The cutover.                                                            *)

\* Time only goes on, and at its start the verdicts are those of version 1.
MovedInv == now >= CutoverTime /\ VerdictsMoved

\* What version 1 last saw of a program is one row.
LEMMA OneLatest ==
    ASSUME Inv, NEW p \in Programs, NEW b \in latest_verified(p),
           NEW c \in latest_verified(p)
    PROVE  b = c
<1>1. v1 \in V1Databases
  BY DEF Inv, TypeOK
<1>2. ASSUME NEW a \in VerifiedOf(p)
      PROVE  /\ a \in BuildIds /\ v1.builds[a] # None /\ v1.builds[a].verified # None
             /\ v1.builds[a].verified.verified_at \in Int
  <2>1. a \in BuildIds /\ v1.builds[a] # None /\ v1.builds[a].verified # None
    BY DEF VerifiedOf
  <2>2. v1.builds[a] \in V1Builds
    BY <1>1, <2>1, V1Assumption
  <2>3. v1.builds[a].verified \in V1Verified
    BY <2>1, <2>2 DEF V1Builds
  <2> QED
    BY <2>1, <2>3 DEF V1Verified
<1>3. b \in VerifiedOf(p) /\ c \in VerifiedOf(p)
  BY DEF latest_verified
<1>4. /\ v1.builds[b].verified.verified_at <= v1.builds[c].verified.verified_at
      /\ v1.builds[c].verified.verified_at <= v1.builds[b].verified.verified_at
  BY <1>3 DEF latest_verified
<1>5. v1.builds[b].verified.verified_at = v1.builds[c].verified.verified_at
  BY <1>2, <1>3, <1>4
<1> QED
  BY <1>1, <1>2, <1>3, <1>5, V1TimesAssumption

\* A completed row of the new table, and the row of version 1 it was moved from.
LEMMA MovedRow ==
    ASSUME Inv, Migrate, NEW b \in BuildIds, NEW p \in Programs
    PROVE  /\ /\ builds'[b].program = p /\ builds'[b].status = "completed"
              /\ builds'[b].executable_hash # None
              <=> b \in VerifiedOf(p) /\ v1.builds[b].status = "completed"
           /\ b \in VerifiedOf(p) =>
                 /\ builds'[b].signer = v1.builds[b].signer
                 /\ builds'[b].executable_hash = v1.builds[b].verified.executable_hash
                 /\ builds'[b].executable_hash \in Hashes
<1>1. v1 \in V1Databases
  BY DEF Inv, TypeOK
<1>2. CASE v1.builds[b] = None
  <2>1. builds'[b] = NoViewBuild
    BY <1>2 DEF Migrate
  <2> QED
    BY <1>2, <2>1 DEF NoViewBuild, VerifiedOf
<1>3. CASE v1.builds[b] # None
  <2>1. builds'[b] = moved_build(v1.builds[b])
    BY <1>3 DEF Migrate
  <2>2. v1.builds[b] \in V1Builds
    BY <1>1, <1>3, V1Assumption
  <2>3. v1.builds[b].verified # None =>
            v1.builds[b].verified.executable_hash \in Hashes
    BY <2>2 DEF V1Builds, V1Verified
  <2>4. builds'[b].status = "completed" <=> v1.builds[b].status = "completed"
    BY <2>1, <2>2 DEF moved_build, moved_status, V1Builds
  <2>5. /\ builds'[b].program = v1.builds[b].program
        /\ builds'[b].signer = v1.builds[b].signer
        /\ builds'[b].executable_hash =
              IF v1.builds[b].verified = None THEN None
              ELSE v1.builds[b].verified.executable_hash
    BY <2>1 DEF moved_build
  <2> QED
    BY <1>3, <2>3, <2>4, <2>5, NoneAssumption DEF VerifiedOf
<1> QED
  BY <1>2, <1>3

LEMMA MigrateMoves ==
    ASSUME Inv, Migrate, NEW p \in Programs
    PROVE  SaysVerified(program_state'[p], builds', p) <=> WasVerified(p)
<1> DEFINE row == program_state'[p]
<1>1. row \in StateRows /\ builds' \in [BuildIds -> ViewRows]
  BY MigrateInv DEF Inv, TypeOK
<1>2. PICK hash : /\ hash \in moved_hashes(p)
                  /\ row = moved_state(p, hash)
  BY DEF Migrate
<1>3. SaysVerified(row, builds', p) <=>
         /\ row.on_chain_hash # None /\ ~row.is_closed
         /\ \E b \in TrustedCompleted(row, builds', p) :
               builds'[b].executable_hash = row.on_chain_hash
  BY <1>1, VerdictIsBest
<1>4. CASE VerifiedOf(p) = {}
  <2>1. row.on_chain_hash = None
    BY <1>2, <1>4 DEF moved_hashes, moved_state, NoRow
  <2> QED
    BY <1>3, <1>4, <2>1 DEF WasVerified
<1>5. CASE VerifiedOf(p) # {}
  <2>1. PICK c \in latest_verified(p) : hash = v1.builds[c].verified.on_chain_hash
    BY <1>2, <1>5 DEF moved_hashes
  <2>2. \A d \in latest_verified(p) : d = c
    BY <2>1, OneLatest
  <2> DEFINE authority == v1.authority[p]
  <2>3. /\ row.on_chain_hash = hash
        /\ row.is_closed = (authority # None /\ authority.is_closed)
        /\ row.authority = IF authority = None THEN None ELSE authority.authority_id
    BY <1>2, <1>5 DEF moved_state
  <2>4. hash # None
    <3>1. c \in VerifiedOf(p) /\ v1 \in V1Databases
      BY <2>1 DEF latest_verified, Inv, TypeOK
    <3>2. v1.builds[c] \in V1Builds /\ v1.builds[c].verified # None
      BY <3>1, V1Assumption DEF VerifiedOf
    <3>3. hash \in Hashes
      BY <2>1, <3>2 DEF V1Builds, V1Verified
    <3> QED
      BY <3>3, NoneAssumption
  <2> HIDE DEF row, authority
  <2>5. ASSUME NEW b \in BuildIds
        PROVE  /\ b \in TrustedCompleted(row, builds', p)
               /\ builds'[b].executable_hash = row.on_chain_hash
               <=>
               /\ b \in VerifiedOf(p) /\ v1.builds[b].status = "completed"
               /\ v1.builds[b].verified.executable_hash = hash
               /\ \/ v1.builds[b].signer \in {None, System}
                  \/ IsTrusted(v1.builds[b].signer, row.authority)
    BY <2>3, <2>4, MovedRow DEF TrustedCompleted, Completed
  <2>6. WasVerified(p) <=>
           /\ ~row.is_closed
           /\ \E b \in VerifiedOf(p) :
                 /\ v1.builds[b].status = "completed"
                 /\ v1.builds[b].verified.executable_hash = hash
                 /\ \/ v1.builds[b].signer \in {None, System}
                    \/ IsTrusted(v1.builds[b].signer, row.authority)
    BY <2>1, <2>2, <2>3 DEF WasVerified, authority
  <2>7. VerifiedOf(p) \subseteq BuildIds /\ TrustedCompleted(row, builds', p) \subseteq BuildIds
    BY DEF VerifiedOf, TrustedCompleted, Completed
  <2> QED
    BY <1>3, <2>3, <2>4, <2>5, <2>6, <2>7 DEF row
<1> QED
  BY <1>4, <1>5

LEMMA CleanupMoves ==
    ASSUME Inv, Cleanup, NEW p \in Programs
    PROVE  SaysVerified(program_state'[p], builds', p)
             <=> SaysVerified(program_state[p], builds, p)
<1>1. /\ builds \in [BuildIds -> ViewRows] /\ builds' \in [BuildIds -> ViewRows]
      /\ program_state[p] \in StateRows /\ program_state' = program_state
  BY CleanupInv DEF Inv, TypeOK, Cleanup
<1>2. ASSUME NEW b \in BuildIds
      PROVE  /\ builds'[b].program = builds[b].program
             /\ builds'[b].signer = builds[b].signer
             /\ builds'[b].executable_hash = builds[b].executable_hash
             /\ builds'[b].status = "completed" <=> builds[b].status = "completed"
  <2>1. builds[b] \in ViewRows
    BY <1>1
  <2> QED
    BY <2>1 DEF Cleanup, fail_orphan_builds, mark_build_failed, ViewRows
<1>3. TrustedCompleted(program_state[p], builds', p)
          = TrustedCompleted(program_state[p], builds, p)
  BY <1>2 DEF TrustedCompleted, Completed
<1>4. TrustedCompleted(program_state[p], builds, p) \subseteq BuildIds
  BY DEF TrustedCompleted, Completed
<1> QED
  BY <1>1, <1>2, <1>3, <1>4, VerdictIsBest

LEMMA MovedStep == ASSUME Inv, MovedInv, [Next]_vars PROVE MovedInv'
<1>1. CutoverTime \in Nat /\ now \in Nat
  BY CutoverAssumption, TimeAssumption DEF Inv, TypeOK, Times
<1>2. CASE Migrate
  <2>1. now' = now /\ v1' = v1
    BY <1>2 DEF Migrate
  <2>2. \A p \in Programs : WasVerified(p)' <=> WasVerified(p)
    BY <2>1 DEF WasVerified, VerifiedOf, latest_verified
  <2> QED
    BY <1>2, <2>1, <2>2, MigrateMoves DEF MovedInv, VerdictsMoved
<1>3. CASE Cleanup
  <2>1. now' = now /\ v1' = v1 /\ phase # "v1"
    BY <1>3 DEF Cleanup
  <2>2. \A p \in Programs : WasVerified(p)' <=> WasVerified(p)
    BY <2>1 DEF WasVerified, VerifiedOf, latest_verified
  <2> QED
    BY <1>3, <2>1, <2>2, CleanupMoves DEF MovedInv, VerdictsMoved
<1>4. CASE UNCHANGED vars \/ Restart \/ GetPage
  <2>1. /\ now' = now /\ v1' = v1 /\ program_state' = program_state /\ builds' = builds
        /\ phase' # "v1" => phase # "v1"
    BY <1>4 DEF vars, table_vars, Restart, GetPage
  <2>2. \A p \in Programs : WasVerified(p)' <=> WasVerified(p)
    BY <2>1 DEF WasVerified, VerifiedOf, latest_verified
  <2> QED
    BY <2>1, <2>2 DEF MovedInv, VerdictsMoved
<1>5. CASE Statements
  <2>1. now' = now + 1
    BY <1>5 DEF Statements, InsertBuild, CompleteBuild, FailBuild, Upsert, Unverify,
                MarkClosed, SetState, Statement
  <2> QED
    BY <1>1, <2>1 DEF MovedInv, VerdictsMoved
<1> QED
  BY <1>2, <1>3, <1>4, <1>5 DEF Next

\* The migration takes no verdict away and gives none, for every database of
\* version 1 whose times differ (0001_init.sql:78-132).
THEOREM CutoverKeepsVerdicts == Spec => []VerdictsMoved
<1>1. Init => MovedInv
  BY CutoverAssumption, TimeAssumption DEF Init, MovedInv, VerdictsMoved, Times
<1>2. MovedInv => VerdictsMoved
  BY DEF MovedInv
<1> QED
  BY <1>1, <1>2, MovedStep, Invariance, PTL DEF Spec
=============================================================================
