------------------------------ MODULE WalkProofs ------------------------------
(***************************************************************************)
(* For every number of programs and every size of a page: a client that    *)
(* walks the list to its end misses none of the programs it began with.    *)
(* Ranks in the ordered list only grow while nothing leaves it, so what is *)
(* before the page to read next has been read.                             *)
(***************************************************************************)
EXTENDS CutoverProofs

Listed == verified_program_ids(program_state, builds)
Before(ids, p) == {q \in ids : q < p}
Rank(ids, p) == Cardinality(Before(ids, p))

\* The programs of the start are still listed, and those that come before the
\* page to read next have been read.
WalkInv ==
    /\ phase = "v1" => walk.page = 1
    /\ walk.page = 1 => walk.start = {}
    /\ walk.page > 1 /\ ~walk.lost => walk.start \subseteq Listed
    /\ walk.page > 1 /\ ~walk.lost =>
          \A p \in walk.start :
              Rank(Listed, p) < (walk.page - 1) * PER_PAGE => p \in walk.seen
    /\ WalkMissesNone

-----------------------------------------------------------------------------
(* Ranks.                                                                  *)

LEMMA Finite == ASSUME NEW ids \in SUBSET Programs
                PROVE  IsFiniteSet(ids) /\ ids \subseteq Nat
BY ProgramsAssumption, FS_Subset

LEMMA RankType ==
    ASSUME NEW ids \in SUBSET Programs, NEW p \in ids
    PROVE  /\ IsFiniteSet(Before(ids, p)) /\ Rank(ids, p) \in Nat
           /\ Rank(ids, p) < Cardinality(ids) /\ Cardinality(ids) \in Nat
<1>1. IsFiniteSet(ids) /\ p \in Nat
  BY Finite
<1>2. Before(ids, p) \in SUBSET ids /\ p \notin Before(ids, p)
  BY <1>1 DEF Before
<1>3. IsFiniteSet(Before(ids, p)) /\ Rank(ids, p) \in Nat /\ Cardinality(ids) \in Nat
      /\ Rank(ids, p) <= Cardinality(ids)
  BY <1>1, <1>2, FS_Subset, FS_CardinalityType DEF Rank
<1>4. Rank(ids, p) # Cardinality(ids)
  BY <1>1, <1>2, FS_Subset DEF Rank
<1> QED
  BY <1>3, <1>4

LEMMA RankGrows ==
    ASSUME NEW ids \in SUBSET Programs, NEW more \in SUBSET Programs,
           ids \subseteq more, NEW p \in ids
    PROVE  Rank(ids, p) <= Rank(more, p)
<1>1. IsFiniteSet(Before(more, p)) /\ Before(ids, p) \in SUBSET Before(more, p)
  BY RankType DEF Before
<1> QED
  BY <1>1, FS_Subset DEF Rank

\* The greatest of some numbers below a bound.
LEMMA Greatest == ASSUME NEW s \in SUBSET Nat, s # {}, NEW n \in Nat, \A x \in s : x < n
                  PROVE  \E m \in s : \A x \in s : x <= m
<1> DEFINE gaps == {n - x : x \in s}
<1>1. gaps \in SUBSET Nat /\ gaps # {}
  OBVIOUS
<1>2. PICK gap \in gaps : \A other \in gaps : gap <= other
  BY <1>1, Least
<1>3. PICK m \in s : gap = n - m
  BY <1>2
<1>4. ASSUME NEW x \in s PROVE x <= m
  <2>1. n - x \in gaps /\ x \in Nat /\ m \in Nat
    OBVIOUS
  <2> QED
    BY <2>1, <1>2, <1>3
<1> QED
  BY <1>4

\* Ranks leave no gap: what is at or after an offset follows something that is
\* exactly there.
LEMMA RankFilled ==
    ASSUME NEW ids \in SUBSET Programs, NEW p \in ids, NEW o \in Nat, Rank(ids, p) >= o
    PROVE  \E q \in ids : Rank(ids, q) = o
<1> DEFINE after == {q \in ids : Rank(ids, q) >= o}
<1>1. after \in SUBSET Nat /\ after # {}
  BY Finite
<1>2. PICK q \in after : \A x \in after : q <= x
  BY <1>1, Least
<1>3. q \in ids /\ q \in Nat /\ Rank(ids, q) \in Nat /\ IsFiniteSet(Before(ids, q))
  BY <1>1, RankType
<1>4. CASE Rank(ids, q) > o
  <2>1. Before(ids, q) # {}
    BY <1>3, <1>4, FS_EmptySet DEF Rank
  <2>2. Before(ids, q) \in SUBSET Nat /\ \A x \in Before(ids, q) : x < q
    BY Finite DEF Before
  <2>3. PICK r \in Before(ids, q) : \A x \in Before(ids, q) : x <= r
    BY <1>3, <2>1, <2>2, Greatest
  <2>4. r \in ids /\ r \in Nat /\ r < q
    BY <2>2 DEF Before
  <2>5. Before(ids, q) \ {r} = Before(ids, r)
    <3>1. \A x \in Before(ids, q) : x # r => x < r
      BY <2>2, <2>3, <2>4
    <3>2. \A x \in ids : x < r => x < q /\ x # r
      BY <1>3, <2>4, Finite
    <3> QED
      BY <3>1, <3>2 DEF Before
  <2>6. Rank(ids, r) = Rank(ids, q) - 1
    BY <1>3, <2>5, FS_RemoveElement DEF Rank
  <2>7. r \in after
    BY <1>3, <1>4, <2>4, <2>6
  <2> QED
    BY <1>2, <1>3, <2>4, <2>7
<1> QED
  BY <1>2, <1>3, <1>4

\* What is announced covers the list.
LEMMA PagesCover ==
    ASSUME NEW n \in Nat, NEW k \in Nat, ~ (k < total_pages(n))
    PROVE  n <= k * PER_PAGE
<1>1. PER_PAGE \in Nat /\ PER_PAGE > 0
  BY PageAssumption
<1> DEFINE d == (n + PER_PAGE - 1) \div PER_PAGE
<1>2. d \in Int /\ n + PER_PAGE - 1 < (d + 1) * PER_PAGE
  BY <1>1
<1>3. d <= k
  BY <1>2 DEF total_pages
<1>4. (d + 1) * PER_PAGE <= (k + 1) * PER_PAGE
  BY <1>1, <1>2, <1>3
<1>5. (k + 1) * PER_PAGE = k * PER_PAGE + PER_PAGE
  BY <1>1
<1>6. k * PER_PAGE \in Nat
  BY <1>1
<1> QED
  BY <1>1, <1>2, <1>4, <1>5, <1>6

-----------------------------------------------------------------------------
(* The steps.                                                              *)

LEMMA ListedPrograms == Listed \in SUBSET Programs
BY DEF Listed, verified_program_ids

LEMMA WalkInit == Init => WalkInv
BY DEF Init, WalkInv, FirstPage, WalkMissesNone

\* A step of others that the walk remembers, if something left the list.
LEMMA OthersKeepWalk ==
    ASSUME Inv, WalkInv, phase' = "v1" => phase = "v1",
           walk'.page = walk.page, walk'.start = walk.start, walk'.seen = walk.seen,
           walk'.failed = walk.failed,
           walk.page > 1 /\ ~walk'.lost => ~walk.lost /\ Listed \subseteq Listed',
           walk.page = 0 => walk'.lost = walk.lost
    PROVE  WalkInv'
<1>1. walk.page \in Nat /\ walk.start \in SUBSET Programs
  BY DEF Inv, TypeOK, Walks
<1>2. (walk.page > 1 /\ ~walk.lost => walk.start \subseteq Listed)'
  BY DEF WalkInv
<1>3. ASSUME walk.page > 1, ~walk'.lost, NEW p \in walk.start,
             Rank(Listed', p) < (walk.page - 1) * PER_PAGE
      PROVE  p \in walk.seen
  <2>1. /\ Listed \in SUBSET Programs /\ Listed' \in SUBSET Programs
        /\ Listed \subseteq Listed' /\ p \in Listed
    <3>1. Listed' \in SUBSET Programs
      BY DEF Listed, verified_program_ids
    <3> QED
      BY <3>1, <1>3, ListedPrograms DEF WalkInv
  <2>2. Rank(Listed, p) <= Rank(Listed', p)
    BY <2>1, RankGrows
  <2>3. Rank(Listed, p) \in Nat /\ Rank(Listed', p) \in Nat
    BY <2>1, RankType
  <2>4. (walk.page - 1) * PER_PAGE \in Int
    BY <1>1, PageAssumption
  <2>5. Rank(Listed, p) < (walk.page - 1) * PER_PAGE
    BY <1>3, <2>2, <2>3, <2>4
  <2> QED
    BY <1>3, <2>5 DEF WalkInv
<1>4. WalkMissesNone'
  BY DEF WalkInv, WalkMissesNone
<1> QED
  BY <1>2, <1>3, <1>4 DEF WalkInv, Rank, Before

\* Neither the cleanup nor a restart changes what is listed.
LEMMA CleanupKeepsList == ASSUME Inv, Cleanup PROVE Listed' = Listed
<1>1. builds \in [BuildIds -> ViewRows]
  BY DEF Inv, TypeOK
<1>2. ASSUME NEW b \in BuildIds
      PROVE  /\ builds'[b].program = builds[b].program
             /\ builds'[b].executable_hash = builds[b].executable_hash
             /\ builds'[b].status = "completed" <=> builds[b].status = "completed"
  <2>1. builds[b] \in ViewRows
    BY <1>1
  <2> QED
    BY <2>1 DEF Cleanup, fail_orphan_builds, mark_build_failed, ViewRows
<1>3. \A p \in Programs : Completed(builds', p) = Completed(builds, p)
  BY <1>2 DEF Completed
<1>4. \A p \in Programs : Completed(builds, p) \subseteq BuildIds
  BY DEF Completed
<1>5. \A p \in Programs :
        Matching(program_state[p], builds', Completed(builds', p))
            = Matching(program_state[p], builds, Completed(builds, p))
  BY <1>2, <1>3, <1>4 DEF Matching
<1>6. program_state' = program_state
  BY DEF Cleanup
<1> QED
  BY <1>5, <1>6 DEF Listed, verified_program_ids

LEMMA StatementWatches == ASSUME Statements PROVE Watch /\ Statement
BY DEF Statements, InsertBuild, CompleteBuild, FailBuild, Upsert, Unverify, MarkClosed,
       SetState

LEMMA StatementsKeepWalk == ASSUME Inv, WalkInv, Statements PROVE WalkInv'
<1>1. walk \in Walks
  BY DEF Inv, TypeOK
<1> DEFINE left == /\ walk.page > 1
                   /\ ~ (verified_program_ids(program_state, builds)
                         \subseteq verified_program_ids(program_state', builds'))
<1>2. walk' = [walk EXCEPT !.lost = walk.lost \/ left]
  BY StatementWatches DEF Watch
<1>3. /\ walk'.page = walk.page /\ walk'.start = walk.start /\ walk'.seen = walk.seen
      /\ walk'.failed = walk.failed /\ walk'.lost = (walk.lost \/ left)
  BY <1>1, <1>2 DEF Walks
<1>4. walk.page > 1 /\ ~walk'.lost => ~walk.lost /\ Listed \subseteq Listed'
  BY <1>3 DEF Listed
<1>5. walk.page = 0 => walk'.lost = walk.lost
  BY <1>1, <1>3 DEF Walks
<1>6. phase' = phase
  BY StatementWatches DEF Statement
<1> QED
  BY <1>3, <1>4, <1>5, <1>6, OthersKeepWalk

LEMMA MigrateKeepsWalk == ASSUME Inv, WalkInv, Migrate PROVE WalkInv'
<1>1. walk.page = 1 /\ walk.start = {} /\ walk' = walk /\ phase' = "migrated"
  BY DEF WalkInv, Migrate
<1> QED
  BY <1>1 DEF WalkInv, WalkMissesNone

LEMMA StartKeepsWalk == ASSUME Inv, WalkInv, Cleanup \/ Restart PROVE WalkInv'
<1>1. Listed' = Listed
  <2>1. CASE Cleanup
    BY <2>1, CleanupKeepsList
  <2>2. CASE Restart
    BY <2>2 DEF Restart, table_vars, Listed
  <2> QED
    BY <2>1, <2>2
<1>2. walk' = walk /\ phase' # "v1"
  BY DEF Cleanup, Restart
<1> QED
  BY <1>1, <1>2, OthersKeepWalk

LEMMA GetPageKeepsWalk == ASSUME Inv, WalkInv, GetPage PROVE WalkInv'
<1> DEFINE k == walk.page
           o == (k - 1) * PER_PAGE
<1>1. walk \in Walks /\ k \in Nat /\ k # 0 /\ PER_PAGE \in Nat /\ phase = "serving"
  BY PageAssumption DEF Inv, TypeOK, Walks, GetPage
<1>2. PICK failed \in BOOLEAN :
        LET list == IF failed THEN failed_list
                    ELSE get_verified_programs_list(Listed, k)
        IN  walk' = [walk EXCEPT
              !.page = IF list.has_next_page THEN k + 1 ELSE 0,
              !.seen = @ \cup list.verified_programs,
              !.start = IF k = 1 THEN Listed ELSE @,
              !.failed = failed]
  BY DEF GetPage, Listed
<1>3. Listed' = Listed /\ phase' = phase
  BY DEF GetPage, table_vars, Listed
<1>4. CASE failed
  <2>1. walk'.page = 0 /\ walk'.failed
    BY <1>1, <1>2, <1>4 DEF failed_list, Walks
  <2> QED
    BY <2>1, <1>1, <1>3 DEF WalkInv, WalkMissesNone
<1>5. CASE ~failed
  <2> DEFINE next == k < total_pages(total(Listed, k))
  <2>1. /\ walk'.page = IF next THEN k + 1 ELSE 0
        /\ walk'.seen = walk.seen \cup Page(Listed, k)
        /\ walk'.start = IF k = 1 THEN Listed ELSE walk.start
        /\ walk'.lost = walk.lost
    BY <1>1, <1>2, <1>5 DEF get_verified_programs_list, Walks
  <2>2. o \in Nat /\ k * PER_PAGE = o + PER_PAGE /\ (k = 1 => o = 0)
    BY <1>1
  <2>3. ~walk'.lost => walk'.start \subseteq Listed
    BY <1>1, <2>1 DEF WalkInv
  <2>4. ASSUME ~walk'.lost, NEW p \in walk'.start, Rank(Listed, p) < k * PER_PAGE
        PROVE  p \in walk'.seen
    <3>1. p \in Listed /\ Rank(Listed, p) \in Nat
      BY <2>3, <2>4, ListedPrograms, RankType
    <3>2. CASE Rank(Listed, p) < o
      BY <1>1, <2>1, <2>2, <2>4, <3>1, <3>2 DEF WalkInv
    <3>3. CASE Rank(Listed, p) >= o
      BY <2>1, <2>2, <2>4, <3>1, <3>3 DEF Page, Rank, Before
    <3> QED
      BY <2>2, <3>1, <3>2, <3>3
  <2>5. CASE next
    <3>1. walk'.page = k + 1 /\ walk'.page > 1 /\ walk'.page - 1 = k
      BY <1>1, <2>1, <2>5
    <3> HIDE DEF next, k, o
    <3> QED
      BY <3>1, <2>3, <2>4, <1>1, <1>3 DEF WalkInv, WalkMissesNone
  <2>6. CASE ~next
    <3>1. walk'.page = 0
      BY <2>1, <2>6
    <3>2. ASSUME ~walk'.lost, NEW p \in walk'.start PROVE p \in walk'.seen
      <4>1. /\ p \in Listed /\ Rank(Listed, p) \in Nat /\ Cardinality(Listed) \in Nat
            /\ Rank(Listed, p) < Cardinality(Listed)
        BY <2>3, <3>2, ListedPrograms, RankType
      <4>2. CASE Rank(Listed, p) < o
        BY <2>2, <2>4, <3>2, <4>1, <4>2, <1>1
      <4>3. CASE Rank(Listed, p) >= o
        <5>1. PICK q \in Listed : Rank(Listed, q) = o
          BY <2>2, <4>1, <4>3, ListedPrograms, RankFilled
        <5>2. q \in Page(Listed, k)
          BY <5>1, <2>2, PageAssumption DEF Page, Rank, Before
        <5>3. total(Listed, k) = Cardinality(Listed)
          BY <5>2 DEF total
        <5>4. Cardinality(Listed) <= k * PER_PAGE
          BY <5>3, <2>6, <1>1, <4>1, PagesCover
        <5>5. Rank(Listed, p) < k * PER_PAGE
          BY <4>1, <5>4, <2>2, <1>1
        <5> QED
          BY <2>4, <3>2, <5>5
      <4> QED
        BY <2>2, <4>1, <4>2, <4>3
    <3> QED
      BY <3>1, <3>2, <1>1, <1>3 DEF WalkInv, WalkMissesNone
  <2> QED
    BY <2>5, <2>6
<1> QED
  BY <1>4, <1>5

\* Whatever the size of the list and of a page, and whatever is added to the
\* list meanwhile: a walk that no failed query cut short and no program left
\* has seen every program that was listed at its start
\* (db.rs:540-575, verified_programs_list.rs:100-110).
THEOREM WalkComplete == Spec => []WalkMissesNone
<1>1. Inv /\ WalkInv /\ [Next]_vars => WalkInv'
  <2> SUFFICES ASSUME Inv, WalkInv, [Next]_vars PROVE WalkInv'
    OBVIOUS
  <2>1. CASE UNCHANGED vars
    BY <2>1 DEF vars, table_vars, WalkInv, WalkMissesNone, Listed
  <2> QED
    BY <2>1, MigrateKeepsWalk, StartKeepsWalk, StatementsKeepWalk, GetPageKeepsWalk DEF Next
<1>2. WalkInv => WalkMissesNone
  BY DEF WalkInv
<1> QED
  BY <1>1, <1>2, WalkInit, Invariance, PTL DEF Spec
=============================================================================
