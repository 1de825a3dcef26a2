------------------------------ MODULE StatusViews ------------------------------
(***************************************************************************)
(* What the status and listing endpoints answer from the two tables        *)
(* (db.rs: check_is_verified, get_all_verification_info,                   *)
(* get_verification_status_all, get_verified_program_ids_page;             *)
(* responses.rs; the handlers of the same names).                          *)
(*                                                                         *)
(* Here a row of `builds` has its completed_at, which the queries sort by, *)
(* and may be a migrated one: without signer, hash or time.  Repository    *)
(* and commit are those of the build an answer shows.  Program ids are     *)
(* numbers, in the order of their text.  The cache of /status is module    *)
(* VerifyCache; a search, which restricts the list, is left out.           *)
(***************************************************************************)
EXTENDS Tables, FiniteSets

CONSTANTS
    System,     \* system_program::ID
    PER_PAGE,   \* programs per page of the list (20)
    MaxTime     \* bound: the last time

ASSUME ProgramsAssumption == Programs \subseteq Nat /\ IsFiniteSet(Programs)
ASSUME PageAssumption == PER_PAGE \in Nat \ {0}
ASSUME TimeAssumption == MaxTime \in Nat

Times == 0..MaxTime

Completed(rows, p) ==
    {b \in BuildIds : rows[b].program = p /\ rows[b].status = "completed"}

\* The signer filter: NULL, system_program::ID, a whitelisted key, or the
\* authority in the row of program_state.
TrustedCompleted(row, rows, p) ==
    {b \in Completed(rows, p) : \/ rows[b].signer \in {None, System}
                                \/ IsTrusted(rows[b].signer, row.authority)}

\* Those of s that ORDER BY completed_at DESC may put first: NULL comes before
\* every time.
Newest(rows, s) ==
    {b \in s : \/ rows[b].completed_at = None
               \/ \A c \in s : /\ rows[c].completed_at # None
                               /\ rows[c].completed_at <= rows[b].completed_at}

\* Those of s whose hash matches: never one without a hash.
Matching(row, rows, s) ==
    {b \in s : /\ rows[b].executable_hash # None
               /\ rows[b].executable_hash = row.on_chain_hash}

\* The rule of VerificationResponse::from_state_and_build and of
\* check_is_verified.
is_verified(row, hash) ==
    row.on_chain_hash \notin {None, Empty} /\ hash = row.on_chain_hash
    /\ ~row.is_closed

-----------------------------------------------------------------------------
(* GET /status/{p}: the build of the LATERAL join, and the verdict.        *)

\* Mutant: the newest build, whether it matches or not.
newest_build(row, rows, p) == Newest(rows, TrustedCompleted(row, rows, p))

best_build(row, rows, p) ==
    LET trusted == TrustedCompleted(row, rows, p)
        matching == {b \in trusted : rows[b].executable_hash = row.on_chain_hash}
    IN  Newest(rows, IF matching # {} THEN matching ELSE trusted)

\* The answers it may give; without a build it is None's.
get_verification_status(row, rows, p) ==
    IF TrustedCompleted(row, rows, p) = {}
    THEN {[build |-> None, is_verified |-> FALSE]}
    ELSE {[build |-> b, is_verified |-> is_verified(row, rows[b].executable_hash)] :
             b \in best_build(row, rows, p)}

SaysVerified(row, rows, p) ==
    \A answer \in get_verification_status(row, rows, p) : answer.is_verified

-----------------------------------------------------------------------------
(* GET /status-all/{p}: for every signer its newest completed build.       *)
get_all_verification_info(row, rows, p) ==
    {[build |-> b, is_verified |-> is_verified(row, rows[b].executable_hash)] :
        b \in UNION {Newest(rows, {c \in Completed(rows, p) : rows[c].signer = w}) :
                        w \in Signers \cup {System, None}}}

-----------------------------------------------------------------------------
(* GET /verified-programs-status: p is in it iff one of these can be shown. *)
get_verification_status_all(row, rows, p) ==
    IF ~row.present \/ row.is_closed THEN {}
    ELSE Newest(rows, Matching(row, rows, TrustedCompleted(row, rows, p)))

-----------------------------------------------------------------------------
(* GET /verified-programs/{page}.                                          *)

\* The rows of the query without its LIMIT: whoever signed the build.
verified_program_ids(state, rows) ==
    {p \in Programs : /\ ~state[p].is_closed
                      /\ Matching(state[p], rows, Completed(rows, p)) # {}}

\* LIMIT PER_PAGE OFFSET (page - 1) * PER_PAGE of the ordered ids.
Page(ids, page) ==
    {p \in ids : LET offset == (page - 1) * PER_PAGE
                     before == Cardinality({q \in ids : q < p})
                 IN  offset <= before /\ before < offset + PER_PAGE}

\* The total comes with the rows: without rows it is 0.
total(ids, page) == IF Page(ids, page) = {} THEN 0 ELSE Cardinality(ids)

\* Mutant: the last page, when it is not full, is not counted.
full_pages(n) == n \div PER_PAGE

total_pages(n) == (n + PER_PAGE - 1) \div PER_PAGE

get_verified_programs_list(ids, page) ==
    [verified_programs |-> Page(ids, page),
     has_next_page |-> page < total_pages(total(ids, page))]

\* The answer when the query fails: 200, and no programs.
failed_list == [verified_programs |-> {}, has_next_page |-> FALSE]
=============================================================================
