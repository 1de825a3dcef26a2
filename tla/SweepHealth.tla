------------------------------ MODULE SweepHealth ------------------------------
(***************************************************************************)
(* The clock of the sweep and what /health says of it (sweep.rs: spawn,    *)
(* health; api/handlers/health.rs).  A tokio interval starts run_once; a   *)
(* cycle that ends with Ok stamps last_sweep_at; a stamp older than two    *)
(* intervals is reported.  Module Sweep has the cycle in full; here a      *)
(* cycle is its awaits, each of which takes time, fails or hangs, and the  *)
(* queue of flagged programs a capped drain works off.                     *)
(*                                                                         *)
(* Times are relative, and saturate where the code no longer tells them    *)
(* apart.  A tick that is due fires before time passes: the runtime's own  *)
(* latency is far below a second.                                          *)
(***************************************************************************)
EXTENDS Integers, FiniteSets

CONSTANTS
    Programs,   \* program ids
    Intervals,  \* values of sweep_interval_seconds
    Caps        \* values of max_reverifies_per_sweep

ASSUME IntervalsAssumption == Intervals \subseteq Nat
ASSUME CapsAssumption == Caps \subseteq Nat

VARIABLES
    interval,   \* sweep_interval_seconds
    cap,        \* max_reverifies_per_sweep
    tracked,    \* the programs sweep_program_ids answers
    flagged,    \* those of them pending_reverify_candidates admits
    pc,         \* the await of the sweep task
    queue,      \* the candidates this drain has left
    wait,       \* time to the ticker's deadline, negative once it has passed
    elapsed,    \* time since the last cycle of this process started
    stamped,    \* last_sweep_at # 0
    lag,        \* time since last_sweep_at
    lost,       \* history: since the last stamp or start a cycle failed,
                \* hung, or ran longer than the interval
    calm        \* the world has stopped failing

config_vars == <<interval, cap>>
program_vars == <<tracked, flagged>>
clock_vars == <<wait, elapsed>>
stamp_vars == <<stamped, lag, lost>>
vars == <<config_vars, program_vars, pc, queue, clock_vars, stamp_vars, calm>>

\* "dead" is a task that panicked, "hung" one whose await never answers.
Running == {"ids", "snapshots", "upserts", "drain"}
PCs == Running \cup {"waiting", "hung", "dead"}

\* Mutant: every interval is taken.
spawned_anyway(i) == "waiting"

\* tokio::time::interval panics on a period of zero; else its first tick is
\* due at once.
Spawned(i) == IF i = 0 THEN "dead" ELSE "waiting"

Init ==
    /\ interval \in Intervals /\ cap \in Caps
    /\ tracked \in SUBSET Programs /\ flagged \in SUBSET tracked
    /\ pc = Spawned(interval) /\ queue = {}
    /\ wait = 0 /\ elapsed = interval + 1
    /\ stamped = FALSE /\ lag = 0 /\ lost = FALSE
    /\ calm = FALSE

Restart ==
    /\ pc' = Spawned(interval) /\ queue' = {}
    /\ wait' = 0 /\ elapsed' = interval + 1
    /\ stamped' = FALSE /\ lag' = 0 /\ lost' = FALSE
    /\ UNCHANGED <<config_vars, program_vars>>

\* Webhooks and requests add programs, and raise and withdraw flags.
OthersWrite ==
    /\ tracked' \in SUBSET Programs /\ tracked \subseteq tracked'
    /\ flagged' \in SUBSET tracked'
    /\ UNCHANGED <<config_vars, pc, queue, clock_vars, stamp_vars, calm>>

\* From here on nothing crashes, hangs, fails or outlasts the interval.
BecomesCalm ==
    /\ ~calm /\ calm' = TRUE
    /\ pc \notin {"hung", "dead"}
    /\ UNCHANGED <<config_vars, program_vars, pc, queue, clock_vars, stamp_vars>>

-----------------------------------------------------------------------------
AtMost(n, m) == IF n < m THEN n ELSE m

Tick ==
    /\ ~(pc = "waiting" /\ wait <= 0)
    /\ ~(calm /\ pc \in Running /\ elapsed >= interval)
    /\ wait' = IF wait > -interval THEN wait - 1 ELSE wait
    /\ elapsed' = AtMost(elapsed + 1, interval + 1)
    /\ lag' = IF stamped THEN AtMost(lag + 1, 2 * interval + 1) ELSE lag
    /\ lost' = (lost \/ (pc \in Running /\ elapsed >= interval))
    /\ UNCHANGED <<config_vars, program_vars, pc, queue, stamped, calm>>

\* Mutant: MissedTickBehavior::Burst, the default, catches up.
fire_bursts ==
    /\ pc = "waiting" /\ wait <= 0
    /\ pc' = "ids" /\ elapsed' = 0
    /\ wait' = wait + interval
    /\ UNCHANGED <<config_vars, program_vars, queue, stamp_vars>>

\* MissedTickBehavior::Delay: the next deadline is a period after this tick,
\* however late it is.
Fire ==
    /\ pc = "waiting" /\ wait <= 0
    /\ pc' = "ids" /\ elapsed' = 0
    /\ wait' = interval
    /\ UNCHANGED <<config_vars, program_vars, queue, stamp_vars>>

\* run_once returned Ok: the stamp is now.
Complete ==
    /\ pc' = "waiting" /\ queue' = {}
    /\ stamped' = TRUE /\ lag' = 0 /\ lost' = FALSE
    /\ UNCHANGED <<config_vars, clock_vars>>

\* Mutant: every cycle is stamped, a failed one too.
fail_stamps ==
    /\ pc \in {"ids", "snapshots"}
    /\ Complete /\ UNCHANGED program_vars

\* run_once returned Err: of sweep_program_ids or of snapshot_programs.
FailCycle ==
    /\ pc \in {"ids", "snapshots"}
    /\ pc' = "waiting" /\ lost' = TRUE
    /\ UNCHANGED <<config_vars, program_vars, queue, clock_vars, stamped, lag>>

\* A statement or a call that is never answered.
Hang ==
    /\ pc \in Running
    /\ pc' = "hung" /\ lost' = TRUE
    /\ UNCHANGED <<config_vars, program_vars, queue, clock_vars, stamped, lag>>

\* Mutant: a cycle without programs is not worth a stamp.
empty_not_stamped ==
    /\ pc = "ids" /\ tracked = {}
    /\ pc' = "waiting"
    /\ UNCHANGED <<config_vars, program_vars, queue, clock_vars, stamp_vars>>

EmptyCycle ==
    /\ pc = "ids" /\ tracked = {}
    /\ Complete /\ UNCHANGED program_vars

Goes(from, to) ==
    /\ pc = from /\ pc' = to
    /\ UNCHANGED <<config_vars, queue, clock_vars, stamp_vars>>

LoadIds == tracked # {} /\ Goes("ids", "snapshots") /\ UNCHANGED program_vars
Fetch == Goes("snapshots", "upserts") /\ UNCHANGED program_vars

\* Drift raises flags, programs found closed or frozen are no candidates; the
\* upserts that fail are logged.
Upsert ==
    /\ Goes("upserts", "drain")
    /\ flagged' \in SUBSET tracked /\ UNCHANGED tracked

\* Mutant: the limit is exclusive.
limited_below(s, n) ==
    {q \in SUBSET s : q = {} \/ Cardinality(q) < AtMost(Cardinality(s), n)}

\* The subsets of s a LIMIT of n may take: the order is that of last_checked,
\* which the upserts of this cycle have set in the order of a HashMap.
Limited(s, n) ==
    {q \in SUBSET s : Cardinality(q) = AtMost(Cardinality(s), n)}

LoadCandidates ==
    /\ pc = "drain" /\ queue = {}
    /\ \E q \in Limited(flagged, cap) :
          \/ /\ q = {} /\ Complete
          \/ /\ q # {} /\ queue' = q
             /\ UNCHANGED <<config_vars, pc, clock_vars, stamp_vars>>
    /\ UNCHANGED program_vars

\* An error of the query is logged, and the cycle is complete.
LoadFails == pc = "drain" /\ queue = {} /\ Complete /\ UNCHANGED program_vars

\* What reverifying p and clearing its flag leave of the flags.
Handle(p, flags) ==
    /\ pc = "drain" /\ p \in queue
    /\ flagged' = flags
    /\ \/ queue = {p} /\ Complete
       \/ /\ queue # {p} /\ queue' = queue \ {p}
          /\ UNCHANGED <<config_vars, pc, clock_vars, stamp_vars>>
    /\ UNCHANGED tracked

Reverify(p) == Handle(p, flagged \ {p})
ClearFails(p) == p \in flagged /\ Handle(p, flagged)

SweepStep ==
    /\ \/ Fire \/ EmptyCycle \/ LoadIds \/ Fetch \/ Upsert \/ LoadCandidates
       \/ \E p \in Programs : Reverify(p)
    /\ UNCHANGED calm

Faults ==
    /\ ~calm
    /\ \/ FailCycle \/ Hang \/ LoadFails \/ Restart
       \/ \E p \in Programs : ClearFails(p)
    /\ UNCHANGED calm

Next == SweepStep \/ Faults \/ OthersWrite \/ BecomesCalm \/ Tick

Spec == Init /\ [][Next]_vars

\* Time passes, and the runtime polls the task: an await that is answered
\* goes on.
FairSpec == Spec /\ WF_vars(SweepStep) /\ WF_vars(Tick)

-----------------------------------------------------------------------------
(* sweep::health and its two endpoints.                                    *)

\* Mutant: a stamp may be one interval old.
health_one_interval ==
    IF ~stamped THEN "unknown"
    ELSE IF lag > interval THEN "inactive" ELSE "active"

health ==
    IF ~stamped THEN "unknown"
    ELSE IF lag > interval * 2 THEN "inactive" ELSE "active"

\* The status code of GET /health, when the ping of the database answers.
health_check(db_ok) == IF health = "active" /\ db_ok THEN 200 ELSE 503

\* The status code of GET /health/background-jobs.
background_job_status ==
    CASE health = "active" -> 200
      [] health = "unknown" -> 202
      [] health = "inactive" -> 503

-----------------------------------------------------------------------------
\* Every variable has its type, and only an interval of 0 kills the task.
TypeOK ==
    /\ interval \in Intervals /\ cap \in Caps
    /\ tracked \subseteq Programs /\ flagged \subseteq tracked
    /\ queue \subseteq Programs
    /\ pc \in PCs /\ (interval = 0 <=> pc = "dead")
    /\ wait \in Int /\ -interval <= wait /\ wait <= interval
    /\ elapsed \in Nat /\ elapsed <= interval + 1
    /\ lag \in Nat /\ lag <= 2 * interval + 1
    /\ stamped \in BOOLEAN /\ lost \in BOOLEAN /\ calm \in BOOLEAN

\* No false alarm: /health/background-jobs answers 503 only when, since the
\* last stamp, a cycle failed, hung or outlasted the interval (sweep.rs:57-62:
\* two intervals are enough for a tick and the cycle it starts).
InactiveOnlyAfterFailure == background_job_status = 503 => lost

\* No catch-up ticks back to back, however long cycles take (sweep.rs:26-28):
\* two starts of one process are an interval apart.
StartsSpaced == [][Fire => elapsed >= interval]_vars

Completes ==
    \/ EmptyCycle \/ LoadFails
    \/ /\ pc = "drain" /\ pc' = "waiting"

\* "A dead or stuck sweep actually trips" the endpoint (sweep.rs:33-34), and so
\* does one whose every cycle fails: a service that is reported active again
\* and again goes on completing cycles.
ActiveNeedsCycles ==
    []<>(background_job_status = 200) => []<><<Completes>>_vars

\* A failed cycle is not the end of the sweep (sweep.rs:38), and an empty
\* database is no reason to be degraded (sweep.rs:80-82): once the trouble is
\* over, /health answers 200 for good.
Recovers == <>calm => <>[](health_check(TRUE) = 200)

\* "Overflow stays flagged for the next cycle" (sweep.rs:103-105), and is worked
\* off there: once no flag is raised any more, every flag is cleared.
BurstDrains ==
    <>calm /\ <>[][flagged' \subseteq flagged]_vars /\ cap > 0
    => <>[](flagged = {})
=============================================================================
