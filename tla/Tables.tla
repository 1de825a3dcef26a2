------------------------------- MODULE Tables -------------------------------
(***************************************************************************)
(* The two tables the service decides from, `program_state` and `builds`   *)
(* (migrations/0001_init.sql), and what each statement of db.rs does to a  *)
(* row or answers about the rows.  The operators are pure: the modules     *)
(* that own the tables and the processes apply them.                       *)
(*                                                                         *)
(* Data kept: the executable hash, the authority, the flags, and of a      *)
(* build's parameters the program, the signer and the "source", which      *)
(* stands for everything else the dedupe query compares (repository,       *)
(* commit, library, image, mount path, cargo args, bpf flag, arch).        *)
(***************************************************************************)
EXTENDS Naturals

CONSTANTS
    Programs,       \* program ids
    Hashes,         \* executable hashes
    Signers,        \* keys that can hold an authority or publish a PDA
    Sources,        \* what a PDA asks to build (the params but the signer)
    SIGNER_KEYS,    \* the whitelisted signers, a sequence (onchain/otter.rs)
    Artifact,       \* Artifact[s] is the hash solana-verify builds from s
    MaxBuilds,      \* bound: rows of `builds`; an insert beyond it fails
    None,           \* SQL NULL and Rust's Option::None
    Empty           \* the hash "" of an output without the expected line

ASSUME NoneAssumption ==
    None \notin Programs \cup Hashes \cup Signers \cup Sources \cup {Empty}
ASSUME EmptyAssumption == Empty \notin Hashes
ASSUME ArtifactAssumption == Artifact \in [Sources -> Hashes]
ASSUME BuildsAssumption == MaxBuilds \in Nat

\* Build ids in order of created_at: rows are only ever added.
BuildIds == 1..MaxBuilds

\* A row of `program_state`; NoRow is a program without one, and holds the
\* column defaults an INSERT that leaves a column out would give it.
StateRows == [present: BOOLEAN,
              on_chain_hash: Hashes \cup {None},
              authority: Signers \cup {None},
              is_frozen: BOOLEAN,
              is_closed: BOOLEAN,
              pending_reverify: BOOLEAN]

NoRow == [present |-> FALSE, on_chain_hash |-> None, authority |-> None,
          is_frozen |-> FALSE, is_closed |-> FALSE, pending_reverify |-> FALSE]

\* ProgramOnchainState: what is read from chain and written to a row.
Snapshots == [executable_hash: Hashes \cup {None},
              authority: Signers \cup {None},
              is_frozen: BOOLEAN,
              is_closed: BOOLEAN]

\* The parameters that identify a build.
NewBuilds == [program: Programs, signer: Signers, source: Sources]

\* A row of `builds`; NoBuild is an id not handed out yet.
BuildRows == [program: Programs \cup {None},
              signer: Signers \cup {None},
              source: Sources \cup {None},
              status: {"absent", "in_progress", "completed", "failed"},
              executable_hash: Hashes \cup {Empty, None}]

NoBuild == [program |-> None, signer |-> None, source |-> None,
            status |-> "absent", executable_hash |-> None]

-----------------------------------------------------------------------------
(* Statements on `program_state`.                                          *)

\* Mutant: a missing hash is stored as an empty one.
upsert_empties_hash(row, snap) ==
    [present |-> TRUE,
     on_chain_hash |-> IF snap.executable_hash # None THEN snap.executable_hash
                       ELSE Empty,
     authority |-> snap.authority,
     is_frozen |-> snap.is_frozen,
     is_closed |-> snap.is_closed,
     pending_reverify |-> row.pending_reverify]

\* Mutant: an authority that is gone on chain is kept.
upsert_keeps_authority(row, snap) ==
    [present |-> TRUE,
     on_chain_hash |-> IF snap.executable_hash # None THEN snap.executable_hash
                       ELSE row.on_chain_hash,
     authority |-> IF snap.authority # None THEN snap.authority
                   ELSE row.authority,
     is_frozen |-> snap.is_frozen,
     is_closed |-> snap.is_closed,
     pending_reverify |-> row.pending_reverify]

\* INSERT ... ON CONFLICT DO UPDATE: the hash is COALESCEd, the rest is
\* overwritten, and a hash that differs from the stored one raises the flag.
\* A new row keeps the flag's FALSE default.
upsert_program_state(row, snap) ==
    [present |-> TRUE,
     on_chain_hash |-> IF snap.executable_hash # None THEN snap.executable_hash
                       ELSE row.on_chain_hash,
     authority |-> snap.authority,
     is_frozen |-> snap.is_frozen,
     is_closed |-> snap.is_closed,
     pending_reverify |->
        /\ row.present
        /\ \/ row.pending_reverify
           \/ /\ snap.executable_hash # None
              /\ snap.executable_hash # row.on_chain_hash]

\* The stored hash moves to `hash`; the flag is raised on an existing row and
\* left at its default on a new one.  is_closed is not touched.
unverify_program(row, hash) ==
    [row EXCEPT !.present = TRUE,
                !.on_chain_hash = hash,
                !.pending_reverify = row.present]

mark_closed(row) ==
    [row EXCEPT !.present = TRUE, !.is_closed = TRUE, !.authority = None]

clear_pending_reverify(row) == [row EXCEPT !.pending_reverify = FALSE]

\* The rows the drain query admits.
IsReverifyCandidate(row) ==
    row.pending_reverify /\ ~row.is_closed /\ ~row.is_frozen

-----------------------------------------------------------------------------
(* Statements on `builds`; `rows` is the whole table.                      *)

\* The id the next INSERT takes.
IsNextBuild(rows, b) ==
    /\ rows[b].status = "absent"
    /\ \A c \in 1..(b - 1) : rows[c].status # "absent"

InProgress(new) ==
    [program |-> new.program, signer |-> new.signer, source |-> new.source,
     status |-> "in_progress", executable_hash |-> None]

SameParams(row, new) ==
    /\ row.status # "absent"
    /\ row.program = new.program
    /\ row.signer = new.signer
    /\ row.source = new.source

\* Whether a non-failed build with these params exists.
find_duplicate(rows, new) ==
    \E b \in BuildIds : SameParams(rows[b], new) /\ rows[b].status # "failed"

\* Whether any build with these params exists, a failed one too.
has_build_for_params(rows, new) == \E b \in BuildIds : SameParams(rows[b], new)

has_completed_build(rows, p) ==
    \E b \in BuildIds : rows[b].program = p /\ rows[b].status = "completed"

\* Neither UPDATE looks at the status the row has.
mark_build_completed(row, hash) ==
    [row EXCEPT !.status = "completed", !.executable_hash = hash]
mark_build_failed(row) == [row EXCEPT !.status = "failed"]

\* Mutant: the startup cleanup is skipped.
no_cleanup(rows) == rows

\* Mutant: it has lost its WHERE.
fail_all_builds(rows) ==
    [b \in BuildIds |-> IF rows[b].status = "absent" THEN rows[b]
                        ELSE mark_build_failed(rows[b])]

fail_orphan_builds(rows) ==
    [b \in BuildIds |-> IF rows[b].status = "in_progress"
                        THEN mark_build_failed(rows[b]) ELSE rows[b]]

-----------------------------------------------------------------------------
(* The answer of GET /status/{program_id}.                                 *)

\* trusted_signers() or the authority stored in the row.  The NULL and
\* system-program signers of migrated rows do not occur here: every build
\* this version inserts has the signer of its PDA.
IsTrusted(signer, authority) ==
    \/ \E i \in DOMAIN SIGNER_KEYS : SIGNER_KEYS[i] = signer
    \/ signer = authority

\* Mutant: any build of the program will do.
any_completed(row, rows, p) ==
    /\ row.on_chain_hash # None
    /\ ~row.is_closed
    /\ has_completed_build(rows, p)

\* check_is_verified's is_verified.  The query sorts builds whose hash matches
\* first, so a matching trusted build exists iff the one it picks matches.
check_is_verified(row, rows, p) ==
    /\ row.on_chain_hash # None
    /\ ~row.is_closed
    /\ \E b \in BuildIds :
          /\ rows[b].program = p
          /\ rows[b].status = "completed"
          /\ IsTrusted(rows[b].signer, row.authority)
          /\ rows[b].executable_hash = row.on_chain_hash
=============================================================================
