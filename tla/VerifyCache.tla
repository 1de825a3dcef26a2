----------------------------- MODULE VerifyCache -----------------------------
(***************************************************************************)
(* The in-process cache of GET /status bodies (db.rs, verify_cache), for   *)
(* one program: the cache keeps programs apart.                            *)
(*                                                                         *)
(* version    how many writes that change the program's answer have been   *)
(*            committed; a body is the version its query saw               *)
(* entry      the cached body and its age in ticks, or NoEntry             *)
(* reader[r]  a request: waiting for a fill, filling (query, insert), or   *)
(*            about to answer `val`; `served` and `acked`: history, the    *)
(*            newest version answered, and the newest whose write had      *)
(*            returned, when the request came                              *)
(* writer[w]  one of the writing functions of DbClient: idle, or between   *)
(*            its statement and its invalidate, with the version it wrote  *)
(* served, acked   history, as above                                       *)
(*                                                                         *)
(* The cache is moka's: try_get_with runs one fill at a time per key, the  *)
(* requests that come meanwhile share its result, an error is not stored,  *)
(* and a fill whose request is dropped is begun anew by one of the others. *)
(* invalidate removes the entry and does not reach a fill under way.       *)
(***************************************************************************)
EXTENDS Naturals, FiniteSetsExt

CONSTANTS Readers,    \* requests at once
          Writers,    \* writing calls at once
          MaxWrites,  \* bound on the writes
          TTL,        \* time_to_live, in ticks: the sweep interval
          Faults      \* "db", "cancel", "crash"

ASSUME CacheAssumption == MaxWrites \in Nat /\ TTL \in Nat \ {0}

VARIABLES version, entry, reader, writer, served, acked
vars == <<version, entry, reader, writer, served, acked>>

Versions == 0..MaxWrites

NoEntry == [cached |-> FALSE, version |-> 0, age |-> 0]
Entries == [cached: BOOLEAN, version: Versions, age: 0..(TTL - 1)]

ReaderRows == [pc: {"idle", "wait", "query", "insert", "answer"},
               val: Versions, served: Versions, acked: Versions]
IdleReader == [pc |-> "idle", val |-> 0, served |-> 0, acked |-> 0]

WriterRows == [pc: {"idle", "invalidate"}, wrote: Versions]
IdleWriter == [pc |-> "idle", wrote |-> 0]

Init ==
    /\ version = 0
    /\ entry = NoEntry
    /\ reader = [r \in Readers |-> IdleReader]
    /\ writer = [w \in Writers |-> IdleWriter]
    /\ served = 0
    /\ acked = 0

-----------------------------------------------------------------------------
(* upsert_program_state, unverify_program, mark_closed and                 *)
(* mark_build_completed: a statement, then the invalidate.                 *)

\* A statement that fails after it was executed leaves by `?`.
Commit(w) ==
    /\ writer[w].pc = "idle"
    /\ version < MaxWrites
    /\ version' = version + 1
    /\ \/ writer' = [writer EXCEPT ![w] = [pc |-> "invalidate",
                                           wrote |-> version + 1]]
       \/ "db" \in Faults /\ UNCHANGED writer
    /\ UNCHANGED <<entry, reader, served, acked>>

Invalidate(w) ==
    /\ writer[w].pc = "invalidate"
    /\ entry' = NoEntry
    /\ writer' = [writer EXCEPT ![w] = IdleWriter]
    /\ acked' = Max({acked, writer[w].wrote})
    /\ UNCHANGED <<version, reader, served>>

\* The handler that writes is dropped between the two.
WriterDropped(w) ==
    /\ "cancel" \in Faults
    /\ writer[w].pc = "invalidate"
    /\ writer' = [writer EXCEPT ![w] = IdleWriter]
    /\ UNCHANGED <<version, entry, reader, served, acked>>

-----------------------------------------------------------------------------
(* check_is_verified.                                                      *)

ReaderBecomes(r, locals) == reader' = [reader EXCEPT ![r] = locals]

\* A request takes the cached body, or waits for a fill.
Request(r) ==
    /\ reader[r].pc = "idle"
    /\ ReaderBecomes(r, [pc |-> IF entry.cached THEN "answer" ELSE "wait",
                         val |-> entry.version,
                         served |-> served, acked |-> acked])
    /\ UNCHANGED <<version, entry, writer, served, acked>>

Fills(r) == reader[r].pc \in {"query", "insert"}

\* Mutant: every request that misses runs the query itself.
lead_many(r) ==
    /\ reader[r].pc = "wait"
    /\ ReaderBecomes(r, [reader[r] EXCEPT !.pc = "query"])
    /\ UNCHANGED <<version, entry, writer, served, acked>>

\* One of the waiting requests runs the fill.
Lead(r) ==
    /\ reader[r].pc = "wait"
    /\ \A q \in Readers : ~Fills(q)
    /\ ReaderBecomes(r, [reader[r] EXCEPT !.pc = "query"])
    /\ UNCHANGED <<version, entry, writer, served, acked>>

\* The fill's one SELECT; its error is answered to all who wait.
Query(r) ==
    /\ reader[r].pc = "query"
    /\ \/ ReaderBecomes(r, [reader[r] EXCEPT !.pc = "insert", !.val = version])
       \/ /\ "db" \in Faults
          /\ reader' = [q \in Readers |->
                IF q = r \/ reader[q].pc = "wait" THEN IdleReader ELSE reader[q]]
    /\ UNCHANGED <<version, entry, writer, served, acked>>

\* The body is cached and shared with all who wait.
Insert(r) ==
    /\ reader[r].pc = "insert"
    /\ entry' = [cached |-> TRUE, version |-> reader[r].val, age |-> 0]
    /\ reader' = [q \in Readers |->
            IF q = r \/ reader[q].pc = "wait"
            THEN [reader[q] EXCEPT !.pc = "answer", !.val = reader[r].val]
            ELSE reader[q]]
    /\ UNCHANGED <<version, writer, served, acked>>

Answer(r) ==
    /\ reader[r].pc = "answer"
    /\ served' = Max({served, reader[r].val})
    /\ ReaderBecomes(r, IdleReader)
    /\ UNCHANGED <<version, entry, writer, acked>>

\* The client disconnects.
ReaderDropped(r) ==
    /\ "cancel" \in Faults
    /\ reader[r].pc # "idle"
    /\ ReaderBecomes(r, IdleReader)
    /\ UNCHANGED <<version, entry, writer, served, acked>>

-----------------------------------------------------------------------------
(* Time and restarts.                                                      *)

\* Mutant: an entry outlives its TTL.
tick_too_late ==
    /\ entry.cached
    /\ entry' = IF entry.age <= TTL THEN [entry EXCEPT !.age = @ + 1] ELSE NoEntry
    /\ UNCHANGED <<version, reader, writer, served, acked>>

\* Mutant: entries do not expire.
never_expires ==
    /\ entry.cached
    /\ entry.age + 1 < TTL
    /\ entry' = [entry EXCEPT !.age = @ + 1]
    /\ UNCHANGED <<version, reader, writer, served, acked>>

\* Time passes; an entry that has reached its TTL is gone.
Tick ==
    /\ entry.cached
    /\ entry' = IF entry.age + 1 < TTL THEN [entry EXCEPT !.age = @ + 1]
                ELSE NoEntry
    /\ UNCHANGED <<version, reader, writer, served, acked>>

\* The cache lives in the process; the tables do not.
Crash ==
    /\ "crash" \in Faults
    /\ entry' = NoEntry
    /\ reader' = [r \in Readers |-> IdleReader]
    /\ writer' = [w \in Writers |-> IdleWriter]
    /\ UNCHANGED <<version, served, acked>>

ReaderStep(r) == Lead(r) \/ Query(r) \/ Insert(r) \/ Answer(r)

Next ==
    \/ \E w \in Writers : Commit(w) \/ Invalidate(w) \/ WriterDropped(w)
    \/ \E r \in Readers : Request(r) \/ ReaderStep(r) \/ ReaderDropped(r)
    \/ Tick
    \/ Crash

Spec == Init /\ [][Next]_vars

\* tokio runs what can go on, and time passes.
FairSpec ==
    /\ Spec
    /\ \A w \in Writers : WF_vars(Invalidate(w))
    /\ \A r \in Readers : WF_vars(ReaderStep(r))
    /\ WF_vars(Tick)

-----------------------------------------------------------------------------
(* Properties.                                                             *)

\* Every variable has its type.
TypeOK ==
    /\ version \in Versions
    /\ entry \in Entries
    /\ reader \in [Readers -> ReaderRows]
    /\ writer \in [Writers -> WriterRows]
    /\ served \in Versions
    /\ acked \in Versions

\* Whoever asks after an answer was given never gets an older one, although
\* entries may be stale, invalidations lost and requests dropped.
NeverGoesBack ==
    \A r \in Readers : reader[r].pc = "answer" => reader[r].val >= reader[r].served

\* db.rs:42-43, "the TTL is just a safety net for missed invalidations": when
\* the writes stop, stale bodies are gone for good some time, those of missed
\* invalidations and those a fill inserted after the invalidation.
Heals == <>[](entry.cached => entry.version = version)

\* db.rs:376-377, "cache invalidated on every write that affects the row": who
\* asks after a write has returned sees that write.
SeesFinishedWrites ==
    \A r \in Readers : reader[r].pc = "answer" => reader[r].val >= reader[r].acked
=============================================================================
