-------------------------- MODULE VerifyCacheProofs --------------------------
(***************************************************************************)
(* Proof that the cached answers never go back, for any number of          *)
(* requests, writers and writes and under every fault.                     *)
(*                                                                         *)
(* What carries it is that fills do not overlap: a fill reads after every  *)
(* fill before it has ended, so the body it caches is at least as new as   *)
(* any body that was cached or answered by then.                           *)
(***************************************************************************)
EXTENDS VerifyCache, TLAPS

\* The newer of two versions.
LEMMA MaxPair ==
    ASSUME NEW a \in Nat, NEW b \in Nat
    PROVE  Max({a, b}) \in {a, b} /\ Max({a, b}) >= a /\ Max({a, b}) >= b
<1>1. \E x \in {a, b} : \A y \in {a, b} : x >= y
  OBVIOUS
<1>2. QED
  BY <1>1 DEF Max

\* One fill at a time, and none while a body is cached.
Sequential ==
    /\ \A q, r \in Readers : Fills(q) /\ Fills(r) => q = r
    /\ entry.cached => \A r \in Readers : reader[r].pc \in {"idle", "answer"}

\* A body about to be answered is not newer than the one cached or about to be
\* cached, and that one is not older than any answer given.
Ordered ==
    /\ served <= version
    /\ entry.cached => served <= entry.version /\ entry.version <= version
    /\ \A r \in Readers :
        /\ reader[r].pc # "idle" => reader[r].served <= served
        /\ reader[r].pc = "insert" =>
            served <= reader[r].val /\ reader[r].val <= version
        /\ reader[r].pc = "answer" =>
            /\ reader[r].served <= reader[r].val /\ reader[r].val <= version
            /\ entry.cached => reader[r].val <= entry.version
            /\ \A q \in Readers :
                reader[q].pc = "insert" => reader[r].val <= reader[q].val

Inv == TypeOK /\ Sequential /\ Ordered

\* The resting locals and the missing entry have their types.
LEMMA RestingTypes ==
    NoEntry \in Entries /\ IdleReader \in ReaderRows /\ IdleWriter \in WriterRows
BY CacheAssumption
DEF NoEntry, Entries, IdleReader, ReaderRows, IdleWriter, WriterRows, Versions

\* The invariant holds at the start.
LEMMA InitInv == Init => Inv
BY RestingTypes, CacheAssumption
DEF Init, Inv, TypeOK, Sequential, Ordered, Fills, NoEntry, IdleReader, Versions

\* A writer's statement makes every body older, and changes none.
LEMMA CommitKeeps ==
    ASSUME Inv, NEW w \in Writers, Commit(w)
    PROVE  Inv'
<1>1. version' \in Versions /\ version' = version + 1 /\ version \in Nat
  BY CacheAssumption DEF Inv, TypeOK, Commit, Versions
<1>2. TypeOK'
  BY <1>1 DEF Inv, TypeOK, Commit, WriterRows
<1>3. Sequential'
  BY DEF Inv, Sequential, Commit, Fills
<1>4. Ordered'
  BY <1>1 DEF Inv, TypeOK, Ordered, Commit, Entries, ReaderRows, Versions
<1>5. QED
  BY <1>2, <1>3, <1>4 DEF Inv

\* An entry that goes away, with the readers as they are, keeps the invariant.
LEMMA RemovalKeeps ==
    ASSUME Inv, entry' = NoEntry, UNCHANGED <<version, reader, served>>,
           writer' \in [Writers -> WriterRows], acked' \in Versions
    PROVE  Inv'
<1>1. TypeOK'
  BY RestingTypes DEF Inv, TypeOK
<1>2. Sequential'
  BY DEF Inv, Sequential, NoEntry, Fills
<1>3. Ordered'
  BY DEF Inv, Ordered, NoEntry
<1>4. QED
  BY <1>1, <1>2, <1>3 DEF Inv

\* invalidate.
LEMMA InvalidateKeeps ==
    ASSUME Inv, NEW w \in Writers, Invalidate(w)
    PROVE  Inv'
<1>1. acked' \in Versions
  BY MaxPair, CacheAssumption
  DEF Inv, TypeOK, Invalidate, WriterRows, Versions
<1>2. writer' \in [Writers -> WriterRows]
  BY RestingTypes DEF Inv, TypeOK, Invalidate
<1>3. QED
  BY <1>1, <1>2, RemovalKeeps DEF Invalidate

\* A step that changes the locals of request r only, to something typed that
\* neither fills nor answers beyond what it did.
LEMMA ReaderKeeps ==
    ASSUME Inv, NEW r \in Readers, NEW l \in ReaderRows, ReaderBecomes(r, l),
           UNCHANGED <<version, entry, writer, served, acked>>,
           l.pc # "idle" => l.served <= served,
           l.pc \in {"query", "insert"} => \A q \in Readers \ {r} : ~Fills(q),
           entry.cached => l.pc \in {"idle", "answer"},
           l.pc = "insert" => l.val = version,
           l.pc = "answer" =>
                /\ entry.cached
                /\ l.served = served
                /\ l.val = entry.version
    PROVE  Inv'
<1>1. TypeOK'
  BY DEF Inv, TypeOK, ReaderBecomes
<1>2. reader' = [reader EXCEPT ![r] = l] /\ reader \in [Readers -> ReaderRows]
  BY DEF ReaderBecomes, Inv, TypeOK
<1>3. /\ version \in Nat /\ served \in Nat /\ entry.version \in Nat
      /\ \A q \in Readers : reader[q].val \in Nat
  BY CacheAssumption DEF Inv, TypeOK, Entries, ReaderRows, Versions
<1>4. Sequential'
  BY <1>2 DEF Inv, Sequential, Fills
<1>5. Ordered'
  BY <1>2, <1>3 DEF Inv, Ordered, Sequential
<1>6. QED
  BY <1>1, <1>4, <1>5 DEF Inv

\* A request that comes.
LEMMA RequestKeeps ==
    ASSUME Inv, NEW r \in Readers, Request(r)
    PROVE  Inv'
<1> DEFINE l == [pc |-> IF entry.cached THEN "answer" ELSE "wait",
                 val |-> entry.version, served |-> served, acked |-> acked]
<1>1. l \in ReaderRows
  BY DEF Inv, TypeOK, Entries, ReaderRows
<1>2. served <= served
  BY CacheAssumption DEF Inv, TypeOK, Versions
<1>3. ReaderBecomes(r, l)
  BY DEF Request
<1>4. QED
  BY <1>1, <1>2, <1>3, ReaderKeeps DEF Request

\* A request that begins a fill.
LEMMA LeadKeeps ==
    ASSUME Inv, NEW r \in Readers, Lead(r)
    PROVE  Inv'
<1> DEFINE l == [reader[r] EXCEPT !.pc = "query"]
<1>1. reader[r] \in ReaderRows /\ reader[r].pc = "wait" /\ reader[r].served <= served
  BY DEF Lead, Inv, TypeOK, Ordered
<1>2. l \in ReaderRows /\ l.pc = "query" /\ l.served <= served
  BY <1>1 DEF ReaderRows
<1>3. ~entry.cached
  BY <1>1 DEF Inv, Sequential
<1>4. QED
  BY <1>2, <1>3, ReaderKeeps DEF Lead

\* A request that is dropped, or answered with an error, with others or alone.
LEMMA DropKeeps ==
    ASSUME Inv, NEW R \in SUBSET Readers,
           reader' = [q \in Readers |-> IF q \in R THEN IdleReader ELSE reader[q]],
           UNCHANGED <<version, entry, writer, served, acked>>
    PROVE  Inv'
<1>1. TypeOK'
  BY RestingTypes DEF Inv, TypeOK
<1>2. Sequential'
  BY DEF Inv, Sequential, Fills, IdleReader
<1>3. Ordered'
  BY DEF Inv, Ordered, IdleReader
<1>4. QED
  BY <1>1, <1>2, <1>3 DEF Inv

\* The query.
LEMMA QueryKeeps ==
    ASSUME Inv, NEW r \in Readers, Query(r)
    PROVE  Inv'
<1>1. CASE ReaderBecomes(r, [reader[r] EXCEPT !.pc = "insert", !.val = version])
  <2> DEFINE l == [reader[r] EXCEPT !.pc = "insert", !.val = version]
  <2>1. /\ reader[r] \in ReaderRows /\ reader[r].pc = "query"
        /\ reader[r].served <= served /\ version \in Versions
    BY DEF Query, Inv, TypeOK, Ordered
  <2>2. l \in ReaderRows /\ l.pc = "insert" /\ l.val = version /\ l.served <= served
    BY <2>1 DEF ReaderRows
  <2>3. ~entry.cached /\ \A q \in Readers \ {r} : ~Fills(q)
    BY <2>1 DEF Inv, Sequential, Fills
  <2>4. QED
    BY <1>1, <2>2, <2>3, ReaderKeeps DEF Query
<1>2. CASE reader' = [q \in Readers |-> IF q = r \/ reader[q].pc = "wait"
                                       THEN IdleReader ELSE reader[q]]
  <2> DEFINE R == {q \in Readers : q = r \/ reader[q].pc = "wait"}
  <2>1. reader' = [q \in Readers |-> IF q \in R THEN IdleReader ELSE reader[q]]
    BY <1>2
  <2>2. QED
    BY <2>1, DropKeeps DEF Query
<1>3. QED
  BY <1>1, <1>2 DEF Query

\* The body that is cached is the newest yet, and those who waited get it.
LEMMA InsertKeeps ==
    ASSUME Inv, NEW r \in Readers, Insert(r)
    PROVE  Inv'
<1>1. /\ reader \in [Readers -> ReaderRows] /\ reader[r].pc = "insert"
      /\ reader[r].val \in Versions
      /\ served <= reader[r].val /\ reader[r].val <= version
  BY DEF Insert, Inv, TypeOK, Ordered, ReaderRows
<1>2. \A q \in Readers :
        IF q = r \/ reader[q].pc = "wait"
        THEN reader'[q] = [reader[q] EXCEPT !.pc = "answer", !.val = reader[r].val]
        ELSE reader'[q] = reader[q]
  BY DEF Insert
<1>3. entry' = [cached |-> TRUE, version |-> reader[r].val, age |-> 0]
  BY DEF Insert
<1>4. /\ version \in Nat /\ served \in Nat
      /\ \A q \in Readers : reader[q].val \in Nat /\ reader[q].served \in Nat
  BY <1>1, CacheAssumption DEF Inv, TypeOK, ReaderRows, Versions
<1>5. TypeOK'
  <2>1. entry' \in Entries
    BY <1>1, <1>3, CacheAssumption DEF Entries
  <2>2. \A q \in Readers : reader'[q] \in ReaderRows
    BY <1>1, <1>2 DEF ReaderRows
  <2>3. reader' \in [Readers -> ReaderRows]
    BY <2>2 DEF Insert
  <2>4. QED
    BY <2>1, <2>3 DEF Inv, TypeOK, Insert
<1>6. \A q \in Readers : reader'[q].pc \in {"idle", "answer"}
  <2> SUFFICES ASSUME NEW q \in Readers PROVE reader'[q].pc \in {"idle", "answer"}
    OBVIOUS
  <2>1. CASE q = r \/ reader[q].pc = "wait"
    BY <1>1, <1>2, <2>1 DEF ReaderRows
  <2>2. CASE q # r /\ reader[q].pc # "wait"
    <3>1. ~Fills(q)
      BY <1>1, <2>2 DEF Inv, Sequential, Fills
    <3>2. reader'[q] = reader[q]
      BY <1>2, <2>2
    <3>3. reader[q].pc \in {"idle", "wait", "query", "insert", "answer"}
      BY <1>1 DEF ReaderRows
    <3>4. QED
      BY <2>2, <3>1, <3>2, <3>3 DEF Fills
  <2>3. QED
    BY <2>1, <2>2
<1>7. Sequential'
  BY <1>6 DEF Sequential, Fills
<1>8. \A q \in Readers : reader'[q].pc = "answer" =>
        /\ reader'[q].served <= served
        /\ reader'[q].served <= reader'[q].val
        /\ reader'[q].val <= reader[r].val
  <2> SUFFICES ASSUME NEW q \in Readers, reader'[q].pc = "answer"
               PROVE  /\ reader'[q].served <= served
                      /\ reader'[q].served <= reader'[q].val
                      /\ reader'[q].val <= reader[r].val
    OBVIOUS
  <2>1. CASE q = r \/ reader[q].pc = "wait"
    <3>1. reader'[q].served = reader[q].served /\ reader'[q].val = reader[r].val
      BY <1>1, <1>2, <2>1 DEF ReaderRows
    <3>2. reader[q].served <= served
      BY <1>1, <2>1 DEF Inv, Ordered
    <3>3. QED
      BY <1>1, <1>4, <3>1, <3>2
  <2>2. CASE q # r /\ reader[q].pc # "wait"
    BY <1>1, <1>2, <2>2 DEF Inv, Ordered
  <2>3. QED
    BY <2>1, <2>2
<1>9. Ordered'
  <2>1. /\ served' = served /\ version' = version
        /\ entry'.version = reader[r].val
    <3>1. served' = served /\ version' = version
      BY DEF Insert
    <3>2. entry'.version = reader[r].val
      BY <1>3
    <3>3. QED
      BY <3>1, <3>2
  <2>2. served' <= version' /\ served' <= entry'.version /\ entry'.version <= version'
    BY <1>1, <1>4, <2>1
  <2>3. ASSUME NEW q \in Readers
        PROVE  /\ reader'[q].pc # "idle" => reader'[q].served <= served'
               /\ reader'[q].pc # "insert"
               /\ reader'[q].pc = "answer" =>
                    /\ reader'[q].served <= reader'[q].val
                    /\ reader'[q].val <= version'
                    /\ reader'[q].val <= entry'.version
    <3>1. CASE reader'[q].pc = "idle"
      BY <3>1
    <3>2. CASE reader'[q].pc = "answer"
      <4>1. reader'[q].val \in Nat
        BY <1>5, CacheAssumption DEF TypeOK, ReaderRows, Versions
      <4>2. QED
        BY <1>1, <1>4, <1>8, <2>1, <3>2, <4>1
    <3>3. QED
      BY <1>6, <3>1, <3>2
  <2>4. QED
    BY <2>2, <2>3 DEF Ordered
<1>10. QED
  BY <1>5, <1>7, <1>9 DEF Inv

\* An answer given is not newer than what is cached or about to be.
LEMMA AnswerKeeps ==
    ASSUME Inv, NEW r \in Readers, Answer(r)
    PROVE  Inv'
<1>1. /\ reader \in [Readers -> ReaderRows]
      /\ reader' = [reader EXCEPT ![r] = IdleReader]
      /\ reader[r].pc = "answer"
  BY DEF Answer, ReaderBecomes, Inv, TypeOK
<1>2. /\ version \in Nat /\ served \in Nat /\ entry.version \in Nat
      /\ \A q \in Readers : reader[q].val \in Nat /\ reader[q].served \in Nat
  BY <1>1, CacheAssumption DEF Inv, TypeOK, Entries, ReaderRows, Versions
<1>3. served' \in {served, reader[r].val} /\ served' >= served
  BY <1>2, MaxPair DEF Answer
<1>4. TypeOK'
  BY <1>1, <1>3, RestingTypes DEF Inv, TypeOK, Answer, ReaderRows
<1>5. Sequential'
  BY <1>1 DEF Inv, Sequential, Fills, IdleReader, Answer
<1>6. served' <= version /\ (entry.cached => served' <= entry.version)
  BY <1>1, <1>2, <1>3 DEF Inv, Ordered
<1>7. \A q \in Readers : reader[q].pc = "insert" => served' <= reader[q].val
  BY <1>1, <1>2, <1>3 DEF Inv, Ordered
<1>8. \A q \in Readers : reader[q].pc # "idle" => reader[q].served <= served'
  BY <1>2, <1>3 DEF Inv, Ordered, TypeOK, Versions
<1>9. Ordered'
  BY <1>1, <1>6, <1>7, <1>8 DEF Inv, Ordered, Answer, IdleReader
<1>10. QED
  BY <1>4, <1>5, <1>9 DEF Inv

\* Time that passes.
LEMMA TickKeeps ==
    ASSUME Inv, Tick
    PROVE  Inv'
<1>1. CASE entry' = NoEntry
  BY <1>1, RemovalKeeps DEF Tick, Inv, TypeOK
<1>2. CASE entry.age + 1 < TTL /\ entry' = [entry EXCEPT !.age = @ + 1]
  <2>1. /\ entry' \in Entries
        /\ entry'.cached = entry.cached /\ entry'.version = entry.version
    BY <1>2, CacheAssumption DEF Inv, TypeOK, Entries
  <2>2. TypeOK'
    BY <2>1 DEF Tick, Inv, TypeOK
  <2>3. Sequential' /\ Ordered'
    BY <2>1 DEF Tick, Inv, Sequential, Ordered, Fills
  <2>4. QED
    BY <2>2, <2>3 DEF Inv
<1>3. QED
  BY <1>1, <1>2 DEF Tick

\* A crash.
LEMMA CrashKeeps == ASSUME Inv, Crash PROVE Inv'
BY RestingTypes
DEF Crash, Inv, TypeOK, Sequential, Ordered, Fills, NoEntry, IdleReader

\* Every step keeps the invariant.
LEMMA StepInv == Inv /\ [Next]_vars => Inv'
<1> SUFFICES ASSUME Inv, [Next]_vars PROVE Inv'
  OBVIOUS
<1>1. ASSUME NEW w \in Writers, WriterDropped(w) PROVE Inv'
  BY <1>1, RestingTypes
  DEF WriterDropped, Inv, TypeOK, Sequential, Ordered, Fills
<1>2. ASSUME NEW r \in Readers, ReaderDropped(r) PROVE Inv'
  <2>1. reader' = [q \in Readers |-> IF q \in {r} THEN IdleReader ELSE reader[q]]
    BY <1>2 DEF ReaderDropped, ReaderBecomes, Inv, TypeOK
  <2>2. QED
    BY <1>2, <2>1, DropKeeps DEF ReaderDropped
<1>3. CASE UNCHANGED vars
  BY <1>3 DEF vars, Inv, TypeOK, Sequential, Ordered, Fills
<1>4. QED
  BY <1>1, <1>2, <1>3, CommitKeeps, InvalidateKeeps, RequestKeeps, LeadKeeps,
     QueryKeeps, InsertKeeps, AnswerKeeps, TickKeeps, CrashKeeps
  DEF Next, ReaderStep

\* The entry, the fills and the writes have their types, whatever fails.
THEOREM TypeCorrect == Spec => []TypeOK
<1>1. Inv => TypeOK
  BY DEF Inv
<1>2. QED
  BY <1>1, InitInv, StepInv, PTL DEF Spec

\* Answers of GET /status never go back, for any number of requests and writes
\* and whatever is lost, dropped or crashes.
THEOREM AnswersNeverGoBack == Spec => []NeverGoesBack
<1>1. Inv => NeverGoesBack
  BY CacheAssumption
  DEF Inv, Ordered, TypeOK, ReaderRows, Versions, NeverGoesBack
<1>2. QED
  BY <1>1, InitInv, StepInv, PTL DEF Spec
=============================================================================
