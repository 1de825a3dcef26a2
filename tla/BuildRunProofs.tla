---------------------------- MODULE BuildRunProofs ----------------------------
(***************************************************************************)
(* For every number of builds and restarts and every PDA: what a requester *)
(* was told agrees with the table, nobody is left untold if there is an    *)
(* HTTP client, a failed build has its logs, and the rows implement        *)
(* BuildLifecycle.  All rest on what the task of a build has done by each  *)
(* of its steps.  Requests that share a build share its command, as the    *)
(* key leaves only the sbf args open.                                      *)
(***************************************************************************)
EXTENDS BuildRun, OtterProofs, TLAPS

Before == {"run", "write_err", "write_out", "log_row", "fail", "complete"}

\* The row, the inbox and the outcome at each step of the task.
Stage(b) ==
    /\ builds[b].status = "absent" =>
          At(b, "idle") /\ inbox[b] = {} /\ output[b] = None
    /\ job[b].pc \in Before =>
          builds[b].status = "in_progress" /\ inbox[b] = {}
    /\ job[b].pc \in Before \ {"complete"} =>
          job[b].hash = None /\ ~job[b].is_verified
    /\ At(b, "complete") => job[b].hash # None
    /\ job[b].pc \in Before => job[b].tries = 0
    /\ At(b, "post") => job[b].tries < WEBHOOK_RETRIES
    /\ At(b, "done") /\ job[b].url /\ "client" \notin harmed[b] =>
          inbox[b] # {} \/ job[b].tries = WEBHOOK_RETRIES
    /\ job[b].is_verified => job[b].hash = "hash"

\* The payload agrees with the row.
Agrees(b, payload) ==
    /\ builds[b].status = payload.status
    /\ payload.executable_hash = IF payload.status = "completed"
                                 THEN builds[b].executable_hash ELSE None

\* What was posted, and what is about to be.
Told(b) ==
    /\ At(b, "post") /\ "end" \notin harmed[b] => Agrees(b, Payload(b))
    /\ \A payload \in inbox[b] :
          /\ "end" \notin harmed[b] => Agrees(b, payload)
          /\ payload.is_verified => payload.executable_hash = "hash"

\* How far the logs are.
Logged(b) ==
    /\ job[b].pc \in {"run", "complete"} => output[b] = None
    /\ At(b, "write_err") => output[b] = <<job[b].err, job[b].out>>
    /\ At(b, "write_out") => output[b] = <<logs[b].err, job[b].out>>
    /\ At(b, "log_row") /\ "logs" \notin harmed[b] =>
          output[b] = <<logs[b].err, logs[b].out>>
    /\ /\ job[b].pc \in {"fail", "post", "done", "idle"}
       /\ output[b] # None /\ "logs" \notin harmed[b]
       => logs[b].row /\ output[b] = <<logs[b].err, logs[b].out>>

Good(b) == Stage(b) /\ Told(b) /\ Logged(b)

Inv == TypeOK /\ \A b \in BuildIds : Good(b)

-----------------------------------------------------------------------------
\* What a step leaves of a build it is not about.
Same(b) ==
    /\ builds'[b] = builds[b] /\ job'[b] = job[b] /\ logs'[b] = logs[b]
    /\ inbox'[b] = inbox[b] /\ output'[b] = output[b]
    /\ harmed'[b] = harmed[b]

LEMMA SameGood == ASSUME NEW b, Good(b), Same(b) PROVE Good(b)'
BY DEF Good, Same, Stage, Told, Logged, At, Agrees, Payload

LEMMA InitInv == Init => Inv
<1> SUFFICES ASSUME Init PROVE Inv
  OBVIOUS
<1>1. NoRow \in BuildRows /\ Idle \in JobRows /\ NoLogs \in LogRows
  BY DEF NoRow, BuildRows, Idle, JobRows, Texts, WEBHOOK_RETRIES, NoLogs, LogRows
<1>2. TypeOK
  BY <1>1 DEF Init, TypeOK
<1>3. ASSUME NEW b \in BuildIds PROVE Good(b)
  BY DEF Init, Good, Stage, Told, Logged, At, NoRow, Idle, NoLogs, Before, WEBHOOK_RETRIES
<1> QED
  BY <1>2, <1>3 DEF Inv

LEMMA PutRow == ASSUME NEW S, NEW f \in [BuildIds -> S], NEW b \in BuildIds,
                       NEW row \in S
                PROVE [f EXCEPT ![b] = row] \in [BuildIds -> S]
OBVIOUS

LEMMA IdleRow == /\ Idle \in JobRows
                 /\ \A url \in BOOLEAN : [Idle EXCEPT !.pc = "run", !.url = url] \in JobRows
<1>1. Idle \in JobRows
  BY DEF Idle, JobRows, Texts, WEBHOOK_RETRIES
<1> QED
  BY <1>1 DEF JobRows

\* A step of the task that goes to pc, forgetting the texts or not.
LEMMA GoesRow ==
    ASSUME job \in [BuildIds -> JobRows], NEW b \in BuildIds,
           NEW pc \in {"write_out", "log_row", "fail", "post", "done"},
           Goes(b, pc) \/ Forgets(b, pc)
    PROVE job' \in [BuildIds -> JobRows]
<1>1. job[b] \in JobRows
  OBVIOUS
<1>2. CASE Goes(b, pc)
  <2>1. [job[b] EXCEPT !.pc = pc] \in JobRows
    BY <1>1 DEF JobRows
  <2> QED
    BY <2>1, <1>2, PutRow DEF Goes
<1>3. CASE Forgets(b, pc)
  <2>1. [job[b] EXCEPT !.pc = pc, !.err = "", !.out = ""] \in JobRows
    BY <1>1 DEF JobRows, Texts
  <2> QED
    BY <2>1, <1>3, PutRow DEF Forgets
<1> QED
  BY <1>2, <1>3

\* A file or the build_logs row is written, or nothing is.
LEMMA LogsRow ==
    ASSUME logs \in [BuildIds -> LogRows], NEW b \in BuildIds, NEW t \in Texts,
           \/ logs' = [logs EXCEPT ![b].err = t]
           \/ logs' = [logs EXCEPT ![b].out = t]
           \/ logs' = [logs EXCEPT ![b].row = TRUE]
           \/ UNCHANGED logs
    PROVE logs' \in [BuildIds -> LogRows]
<1>1. logs[b] \in LogRows
  OBVIOUS
<1>2. /\ [logs[b] EXCEPT !.err = t] \in LogRows
      /\ [logs[b] EXCEPT !.out = t] \in LogRows
      /\ [logs[b] EXCEPT !.row = TRUE] \in LogRows
  BY <1>1 DEF LogRows
<1> QED
  BY <1>2, PutRow

LEMMA TypeStep == Inv /\ [Next]_vars => TypeOK'
<1>s. SUFFICES ASSUME Inv, [Next]_vars PROVE TypeOK'
  OBVIOUS
<1>t. TypeOK
  BY <1>s DEF Inv
<1>r. builds \in [BuildIds -> BuildRows]
  BY <1>t DEF TypeOK
<1>j. job \in [BuildIds -> JobRows]
  BY <1>t DEF TypeOK
<1>l. logs \in [BuildIds -> LogRows]
  BY <1>t DEF TypeOK
<1>i. inbox \in [BuildIds -> SUBSET Payloads]
  BY <1>t DEF TypeOK
<1>o. output \in [BuildIds -> Outputs \cup {None}]
  BY <1>t DEF TypeOK
<1>a. answered \in [BuildIds -> SUBSET RequestedArgs]
  BY <1>t DEF TypeOK
<1>h. harmed \in [BuildIds -> SUBSET {"logs", "end", "client"}]
  BY <1>t DEF TypeOK
<1> USE DEF At, Harm
<1>1. CASE Publish
  BY <1>t, <1>1 DEF Publish, TypeOK, table_vars, history_vars
<1>2. CASE AnsweredByDuplicate /\ args \in RequestedArgs
  <2>1. answered' \in [BuildIds -> SUBSET RequestedArgs]
    <3>1. PICK b \in BuildIds : answered' = [answered EXCEPT ![b] = @ \cup {args}]
      BY <1>2 DEF AnsweredByDuplicate, find_duplicate
    <3>2. answered[b] \cup {args} \in SUBSET RequestedArgs
      BY <1>2, <1>a
    <3> QED
      BY <3>1, <3>2, <1>a, PutRow
  <2>2. UNCHANGED <<builds, job, logs, inbox, output, harmed>>
    BY <1>2 DEF AnsweredByDuplicate, JobFrame, history_vars, table_vars
  <2> QED
    BY <1>t, <2>1, <2>2 DEF TypeOK
<1>3. ASSUME NEW b \in BuildIds, StartBuild(b), args \in RequestedArgs PROVE TypeOK'
  <2>1. builds' \in [BuildIds -> BuildRows]
    BY <1>3, <1>r DEF BuildRows, StartBuild, Idle, Keys
  <2>2. job' \in [BuildIds -> JobRows]
    <3>1. PICK url \in BOOLEAN :
              job' = [job EXCEPT ![b] = [Idle EXCEPT !.pc = "run", !.url = url]]
      BY <1>3 DEF StartBuild
    <3> QED
      BY <3>1, <1>j, IdleRow, PutRow
  <2>3. answered' \in [BuildIds -> SUBSET RequestedArgs]
    BY <1>3, <1>a, <1>a DEF StartBuild, Idle, Keys
  <2>4. UNCHANGED <<logs, inbox, output, harmed>>
    BY <1>3 DEF StartBuild, Idle, Keys, JobFrame, history_vars, table_vars
  <2> QED
    BY <1>t, <2>1, <2>2, <2>3, <2>4 DEF TypeOK
<1>4. CASE CrashRestart
  <2>1. builds' \in [BuildIds -> BuildRows]
    BY <1>4, <1>r DEF BuildRows, CrashRestart, Idle
  <2>2. job' \in [BuildIds -> JobRows]
    BY <1>4, IdleRow DEF CrashRestart
  <2>3. harmed' \in [BuildIds -> SUBSET {"logs", "end", "client"}]
    BY <1>4, <1>h DEF CrashRestart, Idle
  <2>4. UNCHANGED <<logs, inbox, output, answered>>
    BY <1>4 DEF CrashRestart, Idle, JobFrame, history_vars, table_vars
  <2> QED
    BY <1>t, <2>1, <2>2, <2>3, <2>4 DEF TypeOK
<1>5. ASSUME NEW b \in BuildIds, SpawnFails(b) PROVE TypeOK'
  <2>1. job' \in [BuildIds -> JobRows]
    BY <1>5, <1>j, GoesRow DEF SpawnFails
  <2>2. UNCHANGED <<builds, logs, inbox, output, answered, harmed>>
    BY <1>5 DEF SpawnFails, JobFrame, history_vars, table_vars
  <2> QED
    BY <1>t, <2>1, <2>2 DEF TypeOK
<1>6. ASSUME NEW b \in BuildIds, ExitsWithError(b) PROVE TypeOK'
  <2>1. job' \in [BuildIds -> JobRows]
    <3>1. PICK o \in Outputs :
              job' = [job EXCEPT ![b].pc = "write_err", ![b].err = o[1],
                                 ![b].out = o[2]]
      BY <1>6 DEF ExitsWithError
    <3>2. o[1] \in Texts /\ o[2] \in Texts
      BY OutputsAssumption
    <3>3. [job[b] EXCEPT !.pc = "write_err", !.err = o[1], !.out = o[2]] \in JobRows
      BY <1>j, <3>2 DEF JobRows
    <3> QED
      BY <3>1, <3>3, <1>j, PutRow
  <2>2. output' \in [BuildIds -> Outputs \cup {None}]
    BY <1>6, <1>o DEF ExitsWithError
  <2>3. UNCHANGED <<builds, logs, inbox, answered, harmed>>
    BY <1>6 DEF ExitsWithError, JobFrame, history_vars, table_vars
  <2> QED
    BY <1>t, <2>1, <2>2, <2>3 DEF TypeOK
<1>7. ASSUME NEW b \in BuildIds, Exits(b) PROVE TypeOK'
  <2>1. job' \in [BuildIds -> JobRows]
    <3>1. PICK hash \in {"", "hash"}, equal \in BOOLEAN :
              job' = [job EXCEPT ![b].pc = "complete", ![b].hash = hash,
                                 ![b].is_verified = hash # "" /\ equal]
      BY <1>7 DEF Exits
    <3>2. [job[b] EXCEPT !.pc = "complete", !.hash = hash,
                         !.is_verified = hash # "" /\ equal] \in JobRows
      BY <1>j DEF JobRows
    <3> QED
      BY <3>1, <3>2, <1>j, PutRow
  <2>2. UNCHANGED <<builds, logs, inbox, output, answered, harmed>>
    BY <1>7 DEF Exits, JobFrame, history_vars, table_vars
  <2> QED
    BY <1>t, <2>1, <2>2 DEF TypeOK
<1>8. ASSUME NEW b \in BuildIds, WriteErr(b) PROVE TypeOK'
  <2>1. job' \in [BuildIds -> JobRows]
    BY <1>8, <1>j, GoesRow DEF WriteErr
  <2>2. logs' \in [BuildIds -> LogRows]
    <3>1. job[b].err \in Texts
      BY <1>j DEF JobRows
    <3> QED
      BY <3>1, <1>8, <1>l, LogsRow DEF WriteErr
  <2>3. harmed' \in [BuildIds -> SUBSET {"logs", "end", "client"}]
    BY <1>8, <1>h DEF WriteErr
  <2>4. UNCHANGED <<builds, inbox, output, answered>>
    BY <1>8 DEF WriteErr, JobFrame, history_vars, table_vars
  <2> QED
    BY <1>t, <2>1, <2>2, <2>3, <2>4 DEF TypeOK
<1>9. ASSUME NEW b \in BuildIds, WriteOut(b) PROVE TypeOK'
  <2>1. job' \in [BuildIds -> JobRows]
    BY <1>9, <1>j, GoesRow DEF WriteOut
  <2>2. logs' \in [BuildIds -> LogRows]
    <3>1. job[b].out \in Texts
      BY <1>j DEF JobRows
    <3> QED
      BY <3>1, <1>9, <1>l, LogsRow DEF WriteOut
  <2>3. harmed' \in [BuildIds -> SUBSET {"logs", "end", "client"}]
    BY <1>9, <1>h DEF WriteOut
  <2>4. UNCHANGED <<builds, inbox, output, answered>>
    BY <1>9 DEF WriteOut, JobFrame, history_vars, table_vars
  <2> QED
    BY <1>t, <2>1, <2>2, <2>3, <2>4 DEF TypeOK
<1>10. ASSUME NEW b \in BuildIds, InsertLogRow(b) PROVE TypeOK'
  <2>1. job' \in [BuildIds -> JobRows]
    BY <1>10, <1>j, GoesRow DEF InsertLogRow
  <2>2. logs' \in [BuildIds -> LogRows]
    <3>1. "" \in Texts
      BY DEF Texts
    <3> QED
      BY <3>1, <1>10, <1>l, LogsRow DEF InsertLogRow
  <2>3. harmed' \in [BuildIds -> SUBSET {"logs", "end", "client"}]
    BY <1>10, <1>h DEF InsertLogRow
  <2>4. UNCHANGED <<builds, inbox, output, answered>>
    BY <1>10 DEF InsertLogRow, JobFrame, history_vars, table_vars
  <2> QED
    BY <1>t, <2>1, <2>2, <2>3, <2>4 DEF TypeOK
<1>11. ASSUME NEW b \in BuildIds, MarkFailed(b) PROVE TypeOK'
  <2>1. job' \in [BuildIds -> JobRows]
    BY <1>11, <1>j, GoesRow DEF MarkFailed, Ends
  <2>2. builds' \in [BuildIds -> BuildRows]
    BY <1>11, <1>r DEF BuildRows, MarkFailed, Ends
  <2>3. harmed' \in [BuildIds -> SUBSET {"logs", "end", "client"}]
    BY <1>11, <1>h DEF MarkFailed, Ends
  <2>4. UNCHANGED <<logs, inbox, output, answered>>
    BY <1>11 DEF MarkFailed, Ends, JobFrame, history_vars, table_vars
  <2> QED
    BY <1>t, <2>1, <2>2, <2>3, <2>4 DEF TypeOK
<1>12. ASSUME NEW b \in BuildIds, MarkCompleted(b) PROVE TypeOK'
  <2>1. job' \in [BuildIds -> JobRows]
    BY <1>12, <1>j, GoesRow DEF MarkCompleted, Ends
  <2>2. builds' \in [BuildIds -> BuildRows]
    <3>1. [builds[b] EXCEPT !.status = "completed",
                            !.executable_hash = job[b].hash] \in BuildRows
      <4>1. builds[b] \in BuildRows /\ job[b] \in JobRows
        BY <1>r, <1>j
      <4>2. job[b].hash \in {None, "", "hash"}
        BY <4>1 DEF JobRows
      <4> QED
        BY <4>1, <4>2 DEF BuildRows
    <3> QED
      BY <3>1, <1>12, <1>r, PutRow DEF MarkCompleted, Ends
  <2>3. harmed' \in [BuildIds -> SUBSET {"logs", "end", "client"}]
    BY <1>12, <1>h DEF MarkCompleted, Ends
  <2>4. UNCHANGED <<logs, inbox, output, answered>>
    BY <1>12 DEF MarkCompleted, Ends, JobFrame, history_vars, table_vars
  <2> QED
    BY <1>t, <2>1, <2>2, <2>3, <2>4 DEF TypeOK
<1>13. ASSUME NEW b \in BuildIds, Post(b) PROVE TypeOK'
  <2>p. Payload(b) \in Payloads
    BY <1>13, <1>j DEF JobRows, Payload, Payloads
  <2>1. job' \in [BuildIds -> JobRows]
    <3>1. PICK succeeds \in BOOLEAN :
              job' = [job EXCEPT
                ![b].pc = IF succeeds \/ job[b].tries + 1 = WEBHOOK_RETRIES
                          THEN "done" ELSE "post",
                ![b].tries = @ + 1]
      BY <1>13 DEF Post
    <3>2. job[b].tries + 1 \in 0..WEBHOOK_RETRIES
      <4>1. job[b] \in JobRows /\ job[b].tries < WEBHOOK_RETRIES
        BY <1>13, <1>j, <1>s DEF Post, Inv, Good, Stage
      <4>2. job[b].tries \in 0..WEBHOOK_RETRIES
        BY <4>1 DEF JobRows
      <4> QED
        BY <4>1, <4>2 DEF WEBHOOK_RETRIES
    <3>3. [job[b] EXCEPT
                !.pc = IF succeeds \/ job[b].tries + 1 = WEBHOOK_RETRIES
                       THEN "done" ELSE "post",
                !.tries = @ + 1] \in JobRows
      BY <1>j, <3>2 DEF JobRows
    <3> QED
      BY <3>1, <3>3, <1>j, PutRow
  <2>2. inbox' \in [BuildIds -> SUBSET Payloads]
    BY <1>13, <1>i, <2>p DEF Post
  <2>3. UNCHANGED <<builds, logs, output, answered, harmed>>
    BY <1>13 DEF Post, JobFrame, history_vars, table_vars
  <2> QED
    BY <1>t, <2>1, <2>2, <2>3 DEF TypeOK
<1>14. ASSUME NEW b \in BuildIds, NoClient(b) PROVE TypeOK'
  <2>1. job' \in [BuildIds -> JobRows]
    BY <1>14, <1>j, GoesRow DEF NoClient
  <2>2. harmed' \in [BuildIds -> SUBSET {"logs", "end", "client"}]
    BY <1>14, <1>h DEF NoClient
  <2>3. UNCHANGED <<builds, logs, inbox, output, answered>>
    BY <1>14 DEF NoClient, JobFrame, history_vars, table_vars
  <2> QED
    BY <1>t, <2>1, <2>2, <2>3 DEF TypeOK
<1>15. CASE UNCHANGED vars
  BY <1>t, <1>15 DEF vars, TypeOK, table_vars, history_vars
<1> QED
  BY <1>s, <1>1, <1>2, <1>3, <1>4, <1>5, <1>6, <1>7,
     <1>8, <1>9, <1>10, <1>11, <1>12, <1>13, <1>14, <1>15
     DEF Next, JobStep, Request

-----------------------------------------------------------------------------
LEMMA OthersSame ==
    ASSUME TypeOK, NEW b \in BuildIds, JobStep(b) \/ StartBuild(b),
           NEW c \in BuildIds, c # b
    PROVE Same(c)
<1>1. CASE SpawnFails(b)
  BY <1>1 DEF SpawnFails, Goes, Same, TypeOK, JobFrame, table_vars, history_vars
<1>2. CASE ExitsWithError(b)
  BY <1>2 DEF ExitsWithError, Same, TypeOK, JobFrame, table_vars, history_vars
<1>3. CASE Exits(b)
  BY <1>3 DEF Exits, Same, TypeOK, JobFrame, table_vars, history_vars
<1>4. CASE WriteErr(b)
  BY <1>4 DEF WriteErr, Goes, Forgets, Harm, Same, TypeOK, JobFrame, table_vars, history_vars
<1>5. CASE WriteOut(b)
  BY <1>5 DEF WriteOut, Forgets, Harm, Same, TypeOK, JobFrame, table_vars, history_vars
<1>6. CASE InsertLogRow(b)
  BY <1>6 DEF InsertLogRow, Goes, Harm, Same, TypeOK, JobFrame, table_vars, history_vars
<1>7. CASE MarkFailed(b)
  BY <1>7 DEF MarkFailed, Ends, Goes, Harm, Same, TypeOK, JobFrame, table_vars, history_vars
<1>8. CASE MarkCompleted(b)
  BY <1>8 DEF MarkCompleted, Ends, Goes, Harm, Same, TypeOK, JobFrame, table_vars, history_vars
<1>9. CASE Post(b)
  BY <1>9 DEF Post, Same, TypeOK, JobFrame, table_vars, history_vars
<1>10. CASE NoClient(b)
  BY <1>10 DEF NoClient, Goes, Harm, Same, TypeOK, JobFrame, table_vars, history_vars
<1>11. CASE StartBuild(b)
  BY <1>11 DEF StartBuild, Same, TypeOK, table_vars, history_vars
<1> QED
  BY <1>1, <1>2, <1>3, <1>4, <1>5, <1>6, <1>7, <1>8, <1>9, <1>10, <1>11 DEF JobStep

\* The types of what a task reads and writes.
LEMMA Rows ==
    ASSUME Inv, NEW b \in BuildIds
    PROVE /\ job \in [BuildIds -> JobRows] /\ job[b] \in JobRows
          /\ builds \in [BuildIds -> BuildRows] /\ builds[b] \in BuildRows
          /\ logs \in [BuildIds -> LogRows] /\ logs[b] \in LogRows
          /\ inbox \in [BuildIds -> SUBSET Payloads]
          /\ output \in [BuildIds -> Outputs \cup {None}]
          /\ harmed \in [BuildIds -> SUBSET {"logs", "end", "client"}]
          /\ Stage(b) /\ Told(b) /\ Logged(b)
BY DEF Inv, TypeOK, Good

LEMMA SpawnFailsGood == ASSUME Inv, NEW b \in BuildIds, SpawnFails(b) PROVE Good(b)'
<1>1. job'[b] = [job[b] EXCEPT !.pc = "fail"]
  BY Rows DEF SpawnFails, Goes
<1>2. UNCHANGED <<builds, logs, inbox, output, harmed>>
  BY DEF SpawnFails, Goes, JobFrame, table_vars, history_vars
<1>3. At(b, "run") /\ job[b] \in JobRows /\ Stage(b) /\ Told(b) /\ Logged(b)
  BY Rows DEF SpawnFails
<1>4. Stage(b)'
  BY <1>1, <1>2, <1>3 DEF Stage, At, Before, JobRows
<1>5. Told(b)'
  BY <1>1, <1>2, <1>3 DEF Told, Stage, At, Agrees, Payload, Before, JobRows
<1>6. Logged(b)'
  BY <1>1, <1>2, <1>3 DEF Logged, At, JobRows
<1> QED
  BY <1>4, <1>5, <1>6 DEF Good

LEMMA ExitsWithErrorGood == ASSUME Inv, NEW b \in BuildIds, ExitsWithError(b) PROVE Good(b)'
<1>1. \E o \in Outputs :
        /\ job'[b] = [job[b] EXCEPT !.pc = "write_err", !.err = o[1],
                                    !.out = o[2]]
        /\ output'[b] = <<o[1], o[2]>>
  <2>1. PICK o \in Outputs :
          /\ job' = [job EXCEPT ![b].pc = "write_err", ![b].err = o[1],
                                ![b].out = o[2]]
          /\ output' = [output EXCEPT ![b] = o]
    BY DEF ExitsWithError
  <2>2. o = <<o[1], o[2]>>
    BY <2>1, OutputsAssumption
  <2>3. job'[b] = [job[b] EXCEPT !.pc = "write_err", !.err = o[1], !.out = o[2]]
    BY <2>1, Rows
  <2>4. output'[b] = <<o[1], o[2]>>
    BY <2>1, <2>2, Rows
  <2> QED
    BY <2>3, <2>4
<1>2. UNCHANGED <<builds, logs, inbox, harmed>>
  BY DEF ExitsWithError, JobFrame, table_vars, history_vars
<1>3. At(b, "run") /\ job[b] \in JobRows /\ Stage(b) /\ Told(b) /\ Logged(b)
  BY Rows DEF ExitsWithError
<1>4. Stage(b)'
  BY <1>1, <1>2, <1>3 DEF Stage, At, Before, JobRows
<1>5. Told(b)'
  BY <1>1, <1>2, <1>3 DEF Told, Stage, At, Agrees, Payload, Before, JobRows
<1>6. Logged(b)'
  BY <1>1, <1>2, <1>3 DEF Logged, At, JobRows
<1> QED
  BY <1>4, <1>5, <1>6 DEF Good

LEMMA ExitsGood == ASSUME Inv, NEW b \in BuildIds, Exits(b) PROVE Good(b)'
<1>1. \E hash \in {"", "hash"}, equal \in BOOLEAN :
        job'[b] = [job[b] EXCEPT !.pc = "complete", !.hash = hash,
                                 !.is_verified = hash # "" /\ equal]
  BY Rows DEF Exits
<1>2. UNCHANGED <<builds, logs, inbox, output, harmed>>
  BY DEF Exits, JobFrame, table_vars, history_vars
<1>3. At(b, "run") /\ job[b] \in JobRows /\ Stage(b) /\ Told(b) /\ Logged(b)
  BY Rows DEF Exits
<1>4. Stage(b)'
  BY <1>1, <1>2, <1>3, NoneAssumption DEF Stage, At, Before, JobRows
<1>5. Told(b)'
  BY <1>1, <1>2, <1>3 DEF Told, Stage, At, Agrees, Payload, Before, JobRows
<1>6. Logged(b)'
  BY <1>1, <1>2, <1>3 DEF Logged, At, JobRows
<1> QED
  BY <1>4, <1>5, <1>6 DEF Good

LEMMA WriteErrGood == ASSUME Inv, NEW b \in BuildIds, WriteErr(b) PROVE Good(b)'
<1>1. \/ /\ job'[b] = [job[b] EXCEPT !.pc = "write_out"]
         /\ logs'[b] = [logs[b] EXCEPT !.err = job[b].err]
         /\ harmed'[b] = harmed[b]
      \/ /\ job'[b] = [job[b] EXCEPT !.pc = "log_row", !.err = "", !.out = ""]
         /\ logs'[b] = logs[b]
         /\ harmed'[b] = harmed[b] \cup {"logs"}
  BY Rows DEF WriteErr, Goes, Forgets, Harm
<1>2. UNCHANGED <<builds, inbox, output>>
  BY DEF WriteErr, Goes, Forgets, Harm, JobFrame, table_vars, history_vars
<1>3. At(b, "write_err") /\ job[b] \in JobRows /\ Stage(b) /\ Told(b) /\ Logged(b)
      /\ logs[b] \in LogRows
  BY Rows DEF WriteErr
<1>4. Stage(b)'
  BY <1>1, <1>2, <1>3 DEF Stage, At, Before, JobRows
<1>5. Told(b)'
  BY <1>1, <1>2, <1>3 DEF Told, Stage, At, Agrees, Payload, Before, JobRows
<1>6. Logged(b)'
  BY <1>1, <1>2, <1>3 DEF Logged, At, JobRows, LogRows
<1> QED
  BY <1>4, <1>5, <1>6 DEF Good

LEMMA WriteOutGood == ASSUME Inv, NEW b \in BuildIds, WriteOut(b) PROVE Good(b)'
<1>1. /\ job'[b] = [job[b] EXCEPT !.pc = "log_row", !.err = "", !.out = ""]
      /\ \/ /\ logs'[b] = [logs[b] EXCEPT !.out = job[b].out]
            /\ harmed'[b] = harmed[b]
         \/ /\ logs'[b] = logs[b]
            /\ harmed'[b] = harmed[b] \cup {"logs"}
  BY Rows DEF WriteOut, Forgets, Harm
<1>2. UNCHANGED <<builds, inbox, output>>
  BY DEF WriteOut, Forgets, Harm, JobFrame, table_vars, history_vars
<1>3. At(b, "write_out") /\ job[b] \in JobRows /\ Stage(b) /\ Told(b) /\ Logged(b)
      /\ logs[b] \in LogRows
  BY Rows DEF WriteOut
<1>4. Stage(b)'
  BY <1>1, <1>2, <1>3 DEF Stage, At, Before, JobRows
<1>5. Told(b)'
  BY <1>1, <1>2, <1>3 DEF Told, Stage, At, Agrees, Payload, Before, JobRows
<1>6. Logged(b)'
  BY <1>1, <1>2, <1>3 DEF Logged, At, JobRows, LogRows
<1> QED
  BY <1>4, <1>5, <1>6 DEF Good

LEMMA InsertLogRowGood == ASSUME Inv, NEW b \in BuildIds, InsertLogRow(b) PROVE Good(b)'
<1>1. /\ job'[b] = [job[b] EXCEPT !.pc = "fail"]
      /\ \/ /\ logs'[b] = [logs[b] EXCEPT !.row = TRUE]
            /\ harmed'[b] = harmed[b]
         \/ /\ logs'[b] = logs[b]
            /\ harmed'[b] = harmed[b] \cup {"logs"}
  BY Rows DEF InsertLogRow, Goes, Harm
<1>2. UNCHANGED <<builds, inbox, output>>
  BY DEF InsertLogRow, Goes, Harm, JobFrame, table_vars, history_vars
<1>3. At(b, "log_row") /\ job[b] \in JobRows /\ Stage(b) /\ Told(b) /\ Logged(b)
      /\ logs[b] \in LogRows
  BY Rows DEF InsertLogRow
<1>4. Stage(b)'
  BY <1>1, <1>2, <1>3 DEF Stage, At, Before, JobRows
<1>5. Told(b)'
  BY <1>1, <1>2, <1>3 DEF Told, Stage, At, Agrees, Payload, Before, JobRows
<1>6. Logged(b)'
  BY <1>1, <1>2, <1>3 DEF Logged, At, JobRows, LogRows
<1> QED
  BY <1>4, <1>5, <1>6 DEF Good

LEMMA MarkFailedGood == ASSUME Inv, NEW b \in BuildIds, MarkFailed(b) PROVE Good(b)'
<1>1. /\ job'[b] = [job[b] EXCEPT !.pc = IF job[b].url THEN "post" ELSE "done"]
      /\ \/ /\ builds'[b] = [builds[b] EXCEPT !.status = "failed"]
            /\ harmed'[b] = harmed[b]
         \/ /\ builds'[b] = builds[b]
            /\ harmed'[b] = harmed[b] \cup {"end"}
  BY Rows DEF MarkFailed, Ends, Goes, Harm
<1>2. UNCHANGED <<logs, inbox, output>>
  BY DEF MarkFailed, Ends, Goes, Harm, JobFrame, table_vars, history_vars
<1>3. At(b, "fail") /\ job[b] \in JobRows /\ Stage(b) /\ Told(b) /\ Logged(b)
      /\ builds[b] \in BuildRows
  BY Rows DEF MarkFailed
<1>f. /\ job'[b].pc = (IF job[b].url THEN "post" ELSE "done")
      /\ job'[b].hash = job[b].hash /\ job'[b].url = job[b].url
      /\ job'[b].is_verified = job[b].is_verified /\ job'[b].tries = job[b].tries
  BY <1>1, <1>3 DEF JobRows
<1>g. \/ /\ builds'[b] = builds[b] /\ harmed'[b] = harmed[b] \cup {"end"}
      \/ /\ builds'[b].status = "failed"
         /\ builds'[b].executable_hash = builds[b].executable_hash
         /\ harmed'[b] = harmed[b]
  BY <1>1, <1>3 DEF BuildRows
<1>4. Stage(b)'
  BY <1>f, <1>g, <1>2, <1>3 DEF Stage, At, Before, WEBHOOK_RETRIES
<1>5. Told(b)'
  BY <1>f, <1>g, <1>2, <1>3, NoneAssumption DEF Told, Stage, At, Agrees, Payload, Before
<1>6. Logged(b)'
  BY <1>1, <1>2, <1>3 DEF Logged, At, JobRows
<1> QED
  BY <1>4, <1>5, <1>6 DEF Good

LEMMA MarkCompletedGood == ASSUME Inv, NEW b \in BuildIds, MarkCompleted(b) PROVE Good(b)'
<1>1. /\ job'[b] = [job[b] EXCEPT !.pc = IF job[b].url THEN "post" ELSE "done"]
      /\ \/ /\ builds'[b] = [builds[b] EXCEPT !.status = "completed",
                                              !.executable_hash = job[b].hash]
            /\ harmed'[b] = harmed[b]
         \/ /\ builds'[b] = builds[b]
            /\ harmed'[b] = harmed[b] \cup {"end"}
  BY Rows DEF MarkCompleted, Ends, Goes, Harm
<1>2. UNCHANGED <<logs, inbox, output>>
  BY DEF MarkCompleted, Ends, Goes, Harm, JobFrame, table_vars, history_vars
<1>3. At(b, "complete") /\ job[b] \in JobRows /\ Stage(b) /\ Told(b) /\ Logged(b)
      /\ builds[b] \in BuildRows
  BY Rows DEF MarkCompleted
<1>f. /\ job'[b].pc = (IF job[b].url THEN "post" ELSE "done")
      /\ job'[b].hash = job[b].hash /\ job'[b].url = job[b].url
      /\ job'[b].is_verified = job[b].is_verified /\ job'[b].tries = job[b].tries
  BY <1>1, <1>3 DEF JobRows
<1>g. \/ /\ builds'[b] = builds[b] /\ harmed'[b] = harmed[b] \cup {"end"}
      \/ /\ builds'[b].status = "completed"
         /\ builds'[b].executable_hash = job[b].hash
         /\ harmed'[b] = harmed[b]
  BY <1>1, <1>3 DEF BuildRows
<1>4. Stage(b)'
  BY <1>f, <1>g, <1>2, <1>3 DEF Stage, At, Before, WEBHOOK_RETRIES
<1>5. Told(b)'
  BY <1>f, <1>g, <1>2, <1>3, NoneAssumption DEF Told, Stage, At, Agrees, Payload, Before
<1>6. Logged(b)'
  BY <1>1, <1>2, <1>3 DEF Logged, At, JobRows
<1> QED
  BY <1>4, <1>5, <1>6 DEF Good

LEMMA PostGood == ASSUME Inv, NEW b \in BuildIds, Post(b) PROVE Good(b)'
<1>1. \E arrives, succeeds \in BOOLEAN :
        /\ succeeds => arrives
        /\ inbox'[b] = IF arrives THEN inbox[b] \cup {Payload(b)} ELSE inbox[b]
        /\ job'[b] = [job[b] EXCEPT
              !.pc = IF succeeds \/ job[b].tries + 1 = WEBHOOK_RETRIES
                     THEN "done" ELSE "post",
              !.tries = @ + 1]
  BY Rows DEF Post
<1>2. UNCHANGED <<builds, logs, output, harmed>>
  BY DEF Post, JobFrame, table_vars, history_vars
<1>3. At(b, "post") /\ job[b] \in JobRows /\ Stage(b) /\ Told(b) /\ Logged(b)
  BY Rows DEF Post
<1>f. /\ job'[b].hash = job[b].hash /\ job'[b].is_verified = job[b].is_verified
      /\ \/ /\ job'[b].pc = "done"
            /\ inbox'[b] # {} \/ job'[b].tries = WEBHOOK_RETRIES
         \/ job'[b].pc = "post" /\ job'[b].tries < WEBHOOK_RETRIES
  <2>1. job[b].tries \in 0..WEBHOOK_RETRIES /\ job[b].tries < WEBHOOK_RETRIES
    BY <1>3 DEF JobRows, Stage, At
  <2>2. PICK succeeds \in BOOLEAN :
          /\ succeeds => inbox'[b] # {}
          /\ job'[b] = [job[b] EXCEPT
              !.pc = IF succeeds \/ job[b].tries + 1 = WEBHOOK_RETRIES
                     THEN "done" ELSE "post",
              !.tries = @ + 1]
    BY <1>1
  <2>3. /\ job'[b].hash = job[b].hash /\ job'[b].is_verified = job[b].is_verified
        /\ job'[b].pc = IF succeeds \/ job[b].tries + 1 = WEBHOOK_RETRIES
                        THEN "done" ELSE "post"
        /\ job'[b].tries = job[b].tries + 1
    BY <2>2, <1>3 DEF JobRows
  <2> QED
    BY <2>1, <2>2, <2>3 DEF WEBHOOK_RETRIES
<1>g. inbox'[b] \subseteq inbox[b] \cup {Payload(b)}
  BY <1>1
<1>h. builds[b].status # "absent"
  BY <1>3 DEF Stage, At
<1>4. Stage(b)'
  BY <1>f, <1>h, <1>2, <1>3 DEF Stage, At, Before
<1>5. Told(b)'
  BY <1>f, <1>g, <1>2, <1>3 DEF Told, Stage, At, Agrees, Payload
<1>6. Logged(b)'
  BY <1>1, <1>2, <1>3 DEF Logged, At, JobRows
<1> QED
  BY <1>4, <1>5, <1>6 DEF Good

LEMMA NoClientGood == ASSUME Inv, NEW b \in BuildIds, NoClient(b) PROVE Good(b)'
<1>1. /\ job'[b] = [job[b] EXCEPT !.pc = "done"]
      /\ harmed'[b] = harmed[b] \cup {"client"}
  BY Rows DEF NoClient, Goes, Harm
<1>2. UNCHANGED <<builds, logs, inbox, output>>
  BY DEF NoClient, JobFrame, table_vars, history_vars
<1>3. At(b, "post") /\ job[b] \in JobRows /\ Stage(b) /\ Told(b) /\ Logged(b)
  BY Rows DEF NoClient
<1>4. Stage(b)'
  BY <1>1, <1>2, <1>3 DEF Stage, At, Before, JobRows
<1>5. Told(b)'
  BY <1>1, <1>2, <1>3 DEF Told, At, Agrees, JobRows
<1>6. Logged(b)'
  BY <1>1, <1>2, <1>3 DEF Logged, At, JobRows
<1> QED
  BY <1>4, <1>5, <1>6 DEF Good

LEMMA StartBuildGood == ASSUME Inv, NEW b \in BuildIds, StartBuild(b) PROVE Good(b)'
<1>1. \E url \in BOOLEAN : job'[b] = [Idle EXCEPT !.pc = "run", !.url = url]
  BY Rows DEF StartBuild
<1>2. job'[b].pc = "run" /\ job'[b].hash = None /\ ~job'[b].is_verified
      /\ job'[b].tries = 0
  BY <1>1 DEF Idle
<1>3. builds'[b].status = "in_progress"
  BY Rows DEF StartBuild
<1>4. UNCHANGED <<logs, inbox, output, harmed>> /\ inbox[b] = {} /\ output[b] = None
  BY Rows DEF StartBuild, Stage
<1>5. Stage(b)' /\ Told(b)' /\ Logged(b)'
  BY <1>2, <1>3, <1>4 DEF Stage, Told, Logged, At, Before
<1> QED
  BY <1>5 DEF Good

LEMMA CrashGood == ASSUME Inv, CrashRestart, NEW b \in BuildIds PROVE Good(b)'
<1>1. job'[b].pc = "idle" /\ ~job'[b].is_verified
  BY DEF CrashRestart, Idle
<1>2. UNCHANGED <<logs, inbox, output>>
  BY DEF CrashRestart, history_vars
<1>3. \/ builds[b].status = "in_progress" /\ builds'[b].status = "failed"
      \/ builds[b].status # "in_progress" /\ builds'[b] = builds[b]
  BY Rows DEF CrashRestart, BuildRows
<1>4. /\ harmed[b] \subseteq harmed'[b]
      /\ "logs" \notin harmed'[b] => job[b].pc \in {"idle", "done"}
      /\ "end" \in harmed'[b] <=> "end" \in harmed[b]
  BY DEF CrashRestart
<1>5. /\ Stage(b) /\ Told(b) /\ Logged(b)
      /\ \A payload \in inbox[b] : payload.status # "in_progress"
  <2>1. inbox[b] \in SUBSET Payloads
    BY Rows
  <2> QED
    BY <2>1, Rows DEF Payloads
<1>6. Stage(b)'
  BY <1>1, <1>2, <1>3, <1>5 DEF Stage, At, Before
<1>7. Told(b)'
  BY <1>1, <1>2, <1>3, <1>4, <1>5 DEF Told, At, Agrees
<1>8. Logged(b)'
  BY <1>1, <1>2, <1>4, <1>5 DEF Logged, At
<1> QED
  BY <1>6, <1>7, <1>8 DEF Good

\* A step is of one build and leaves the others as they are, or of none, or a
\* restart.
LEMMA GoodStep == ASSUME Inv, [Next]_vars, NEW c \in BuildIds PROVE Good(c)'
<1>g. Good(c) /\ TypeOK
  BY DEF Inv
<1>1. CASE UNCHANGED <<builds, job, logs, inbox, output, harmed>>
  BY <1>1, <1>g, SameGood DEF Same
<1>2. CASE \E b \in BuildIds : JobStep(b)
  <2>1. PICK b \in BuildIds : JobStep(b)
    BY <1>2
  <2>2. CASE b = c
    BY <2>1, <2>2, SpawnFailsGood, ExitsWithErrorGood, ExitsGood, WriteErrGood,
       WriteOutGood, InsertLogRowGood, MarkFailedGood, MarkCompletedGood,
       NoClientGood, PostGood
       DEF JobStep
  <2>3. CASE b # c
    BY <2>1, <2>3, <1>g, OthersSame, SameGood
  <2> QED
    BY <2>2, <2>3
<1>3. CASE \E b \in BuildIds : StartBuild(b)
  <2>1. PICK b \in BuildIds : StartBuild(b)
    BY <1>3
  <2>2. CASE b = c
    BY <2>1, <2>2, StartBuildGood
  <2>3. CASE b # c
    BY <2>1, <2>3, <1>g, OthersSame, SameGood
  <2> QED
    BY <2>2, <2>3
<1>4. CASE CrashRestart
  BY <1>4, CrashGood
<1>5. CASE Publish \/ AnsweredByDuplicate \/ UNCHANGED vars
  <2>1. UNCHANGED <<builds, job, logs, inbox, output, harmed>>
    BY <1>5 DEF Publish, AnsweredByDuplicate, vars, table_vars, history_vars
  <2> QED
    BY <2>1, <1>1
<1> QED
  BY <1>2, <1>3, <1>4, <1>5 DEF Next, Request

\* The inductive invariant.
THEOREM Invariance == Spec => []Inv
<1>1. Inv /\ [Next]_vars => Inv'
  <2>1. SUFFICES ASSUME Inv, [Next]_vars PROVE Inv'
    OBVIOUS
  <2>2. TypeOK'
    BY <2>1, TypeStep
  <2>3. ASSUME NEW c \in BuildIds PROVE Good(c)'
    BY <2>1, GoodStep
  <2> QED
    BY <2>2, <2>3 DEF Inv
<1> QED
  BY InitInv, <1>1, PTL DEF Spec

\* The variables keep their types.
THEOREM TypeCorrect == Spec => []TypeOK
<1>1. Inv => TypeOK
  BY DEF Inv
<1> QED
  BY <1>1, Invariance, PTL

LEMMA ToldIsTrue == Inv => NotifiedTruth
<1> SUFFICES ASSUME Inv, NEW b \in BuildIds, NEW payload \in inbox[b]
             PROVE /\ "end" \notin harmed[b] =>
                         get_job_status(b) =
                            [status |-> payload.status,
                             executable_hash |-> payload.executable_hash]
                   /\ payload.is_verified => payload.executable_hash = "hash"
  BY DEF NotifiedTruth
<1> QED
  BY Rows DEF Told, Agrees, get_job_status

\* However often the webhook is posted and the server restarted, what the
\* requester was told is what GET /job/{id} answers (mod.rs:143-242).
THEOREM RequesterToldTheTruth == Spec => []NotifiedTruth
BY ToldIsTrue, Invariance, PTL

LEMMA FailedIsLogged == Inv => FailedHasLogs
<1> SUFFICES ASSUME Inv, NEW b \in BuildIds, builds[b].status = "failed",
                    output[b] # None, "logs" \notin harmed[b]
             PROVE get_build_logs(b) = IF output[b] = <<"", "">> THEN NoTexts
                                       ELSE output[b]
  BY DEF FailedHasLogs
<1>1. job[b] \in JobRows /\ Stage(b) /\ Logged(b) /\ output[b] \in Outputs
  BY Rows
<1>2. job[b].pc \in {"fail", "post", "done", "idle"}
  BY <1>1 DEF Stage, JobRows, Before
<1>3. logs[b].row /\ output[b] = <<logs[b].err, logs[b].out>>
  BY <1>1, <1>2 DEF Logged
<1>4. Content(logs[b].err) = logs[b].err /\ Content(logs[b].out) = logs[b].out
  <2>1. <<logs[b].err, logs[b].out>> \in Texts \X Texts
    BY <1>1, <1>3, OutputsAssumption
  <2> QED
    BY <2>1, NoneAssumption DEF Content, Texts
<1> QED
  BY <1>3, <1>4 DEF get_build_logs, read_logs

\* A build seen as failed has the logs of its process, whatever the order in
\* which files, log row and end of the row are written (mod.rs:64-78, 185).
THEOREM LogsKept == Spec => []FailedHasLogs
BY FailedIsLogged, Invariance, PTL

-----------------------------------------------------------------------------
(* What the requests that one build answers have in common.                *)

\* A row has the key of the request that made it, and of all it answered.
Asked(b) ==
    /\ builds[b].status = "absent" => answered[b] = {}
    /\ builds[b].status # "absent" =>
          \E c \in RequestedArgs : /\ builds[b].key = dedupe_key(NewBuild(c))
                                  /\ ran[b] = build_command(NewBuild(c))
    /\ \A a \in answered[b] : builds[b].key = dedupe_key(NewBuild(a))

\* `ran` is a function, which TypeOK does not say.
RanTyped == ran = [b \in BuildIds |-> ran[b]]

\* The end of a row keeps its key.
RowKept(b) ==
    /\ builds'[b].key = builds[b].key
    /\ builds'[b].status = "absent" <=> builds[b].status = "absent"
    /\ answered'[b] = answered[b] /\ ran'[b] = ran[b]

LEMMA KeptAsked == ASSUME NEW b, Asked(b), RowKept(b) PROVE Asked(b)'
BY DEF Asked, RowKept

LEMMA JobStepKeepsRows ==
    ASSUME Inv, NEW b \in BuildIds, JobStep(b), NEW c \in BuildIds
    PROVE RowKept(c)
<1>1. /\ builds \in [BuildIds -> BuildRows]
      /\ job[b].pc \in Before => builds[b].status = "in_progress"
  BY DEF Inv, TypeOK, Good, Stage
<1>2. ASSUME NEW row, row.key = builds[b].key, row.status # "absent",
             builds[b].status # "absent", Ends(b, row)
      PROVE RowKept(c)
  BY <1>1, <1>2 DEF Ends, RowKept, JobFrame, history_vars
<1>3. CASE MarkFailed(b)
  <2>1. builds[b].status = "in_progress" /\ builds[b] \in BuildRows
    BY <1>1, <1>3 DEF MarkFailed, At, Before
  <2> QED
    BY <2>1, <1>2, <1>3 DEF MarkFailed, BuildRows
<1>4. CASE MarkCompleted(b)
  <2>1. builds[b].status = "in_progress" /\ builds[b] \in BuildRows
    BY <1>1, <1>4 DEF MarkCompleted, At, Before
  <2> QED
    BY <2>1, <1>2, <1>4 DEF MarkCompleted, BuildRows
<1>5. CASE SpawnFails(b) \/ ExitsWithError(b) \/ Exits(b)
  BY <1>5 DEF SpawnFails, ExitsWithError, Exits, RowKept, JobFrame,
              history_vars, table_vars
<1>6. CASE \/ WriteErr(b) \/ WriteOut(b) \/ InsertLogRow(b)
          \/ NoClient(b) \/ Post(b)
  BY <1>6 DEF WriteErr, WriteOut, InsertLogRow, NoClient, Post, RowKept, JobFrame,
              history_vars, table_vars
<1> QED
  BY <1>3, <1>4, <1>5, <1>6 DEF JobStep

LEMMA RequestAsked ==
    ASSUME TypeOK, RanTyped, Request, NEW c \in BuildIds, Asked(c)
    PROVE Asked(c)'
<1>1. args \in RequestedArgs /\ builds \in [BuildIds -> BuildRows]
      /\ answered \in [BuildIds -> SUBSET RequestedArgs]
  BY DEF TypeOK, Request
<1>2. ASSUME NEW b \in find_duplicate(dedupe_key(NewBuild(args))),
             answered' = [answered EXCEPT ![b] = @ \cup {args}],
             UNCHANGED builds, UNCHANGED ran
      PROVE Asked(c)'
  <2>1. b \in BuildIds /\ builds[b].key = dedupe_key(NewBuild(args))
        /\ builds[b].status # "absent"
    BY <1>2 DEF find_duplicate
  <2>2. CASE c = b
    BY <1>1, <1>2, <2>1, <2>2 DEF Asked
  <2>3. CASE c # b
    BY <1>1, <1>2, <2>1, <2>3 DEF Asked
  <2> QED
    BY <2>2, <2>3
<1>3. ASSUME NEW b \in BuildIds, StartBuild(b)
      PROVE Asked(c)'
  <2>1. CASE c = b
    <3>1. /\ builds'[c] = [status |-> "in_progress", executable_hash |-> None,
                           key |-> dedupe_key(NewBuild(args))]
          /\ answered'[c] = {args}
          /\ ran' = [ran EXCEPT ![c] = build_command(NewBuild(args))]
      BY <1>1, <1>3, <2>1 DEF StartBuild
    <3>2. ran'[c] = build_command(NewBuild(args))
      BY <3>1 DEF RanTyped
    <3> QED
      BY <1>1, <3>1, <3>2 DEF Asked
  <2>2. CASE c # b
    BY <1>1, <1>3, <2>2 DEF StartBuild, Asked
  <2> QED
    BY <2>1, <2>2
<1> QED
  BY <1>2, <1>3 DEF Request, AnsweredByDuplicate, table_vars

LEMMA AskedStep ==
    ASSUME Inv, RanTyped, [Next]_vars, NEW c \in BuildIds, Asked(c)
    PROVE Asked(c)'
<1>1. CASE Request
  BY <1>1, RequestAsked DEF Inv
<1>2. CASE CrashRestart
  <2>1. builds[c] \in BuildRows
    BY DEF Inv, TypeOK
  <2>2. builds'[c] = IF builds[c].status = "in_progress"
                     THEN [builds[c] EXCEPT !.status = "failed"] ELSE builds[c]
    BY <1>2 DEF CrashRestart
  <2>3. UNCHANGED <<answered, ran>>
    BY <1>2 DEF CrashRestart, history_vars
  <2>4. RowKept(c)
    BY <2>1, <2>2, <2>3 DEF BuildRows, RowKept
  <2> QED
    BY <2>4, KeptAsked
<1>3. ASSUME NEW b \in BuildIds, JobStep(b)
      PROVE Asked(c)'
  BY <1>3, JobStepKeepsRows, KeptAsked
<1>4. CASE Publish \/ UNCHANGED vars
  BY <1>4 DEF Publish, vars, table_vars, history_vars, Asked
<1> QED
  BY <1>1, <1>2, <1>3, <1>4 DEF Next

LEMMA RanStep == ASSUME RanTyped, [Next]_vars PROVE RanTyped'
<1>1. ASSUME NEW b, StartBuild(b) PROVE RanTyped'
  BY <1>1 DEF StartBuild, RanTyped
<1>2. CASE UNCHANGED ran
  BY <1>2 DEF RanTyped
<1>3. ASSUME NEW b, JobStep(b) PROVE UNCHANGED ran
  BY <1>3 DEF JobStep, SpawnFails, ExitsWithError, Exits, WriteErr, WriteOut,
              InsertLogRow, MarkFailed, MarkCompleted, Ends, NoClient, Post,
              JobFrame, history_vars
<1> QED
  BY <1>1, <1>2, <1>3 DEF Next, Request, AnsweredByDuplicate, Publish,
                          CrashRestart, vars, history_vars

\* Two requests with one key have one command, but for the sbf args.
LEMMA KeyFixesCommand ==
    ASSUME NEW a, NEW c, dedupe_key(NewBuild(a)) = dedupe_key(NewBuild(c))
    PROVE NewBuild(c) = [NewBuild(a) EXCEPT
                            !.cargo_build_sbf_args = get_cargo_build_sbf_args(c)]
<1>1. /\ NewBuild(a).lib_name = NewBuild(c).lib_name
      /\ NewBuild(a).base_docker_image = NewBuild(c).base_docker_image
      /\ NewBuild(a).mount_path = NewBuild(c).mount_path
      /\ NewBuild(a).cargo_args = NewBuild(c).cargo_args
      /\ NewBuild(a).bpf_flag = NewBuild(c).bpf_flag
      /\ NewBuild(a).arch = NewBuild(c).arch
  BY DEF dedupe_key
<1> QED
  BY <1>1 DEF NewBuild

LEMMA AskedIsBuilt ==
    (\A b \in BuildIds : Asked(b)) => DuplicatesBuiltTheSame
<1> SUFFICES ASSUME NEW b \in BuildIds, Asked(b), NEW a \in answered[b]
             PROVE \E c \in RequestedArgs :
                     ran[b] = build_command(
                        [NewBuild(a) EXCEPT
                            !.cargo_build_sbf_args = get_cargo_build_sbf_args(c)])
  BY DEF DuplicatesBuiltTheSame
<1>1. PICK c \in RequestedArgs : /\ builds[b].key = dedupe_key(NewBuild(c))
                                /\ ran[b] = build_command(NewBuild(c))
  BY DEF Asked
<1>2. dedupe_key(NewBuild(a)) = dedupe_key(NewBuild(c))
  BY <1>1 DEF Asked
<1> QED
  BY <1>1, <1>2, KeyFixesCommand

\* Whatever PDAs and however many builds: a request is answered by a build
\* only if that ran its command, up to the sbf args (db.rs:265-302).
THEOREM DuplicatesHonest == Spec => []DuplicatesBuiltTheSame
<1> DEFINE AllAsked == RanTyped /\ \A b \in BuildIds : Asked(b)
<1>1. Init => AllAsked
  BY DEF Init, Asked, NoRow, RanTyped
<1>2. Inv /\ AllAsked /\ [Next]_vars => AllAsked'
  BY AskedStep, RanStep
<1>3. AllAsked => DuplicatesBuiltTheSame
  BY AskedIsBuilt
<1> HIDE DEF AllAsked
<1> QED
  BY <1>1, <1>2, <1>3, Invariance, PTL DEF Spec

-----------------------------------------------------------------------------
(* The args.                                                               *)

LEMMA ArgsStep == args \in PdaArgs /\ [Next]_vars => (args \in PdaArgs)'
<1> SUFFICES ASSUME args \in PdaArgs, [Next]_vars PROVE args' \in PdaArgs
  OBVIOUS
<1>1. CASE Publish
  BY <1>1, ArgsAssumption DEF Publish
<1>2. CASE Request
  BY <1>2 DEF Request, AnsweredByDuplicate, StartBuild
<1>3. CASE CrashRestart
  BY <1>3 DEF CrashRestart
<1>4. CASE \E b \in BuildIds : JobStep(b)
  BY <1>4 DEF JobStep, SpawnFails, ExitsWithError, Exits, WriteErr, WriteOut,
              InsertLogRow, MarkFailed, MarkCompleted, Ends, NoClient, Post,
              JobFrame
<1>5. CASE UNCHANGED vars
  BY <1>5 DEF vars
<1> QED
  BY <1>1, <1>2, <1>3, <1>4, <1>5 DEF Next

\* Whatever PDA is published: its build asks solana-verify for what the PDA's
\* args ask it for, unless they have an option other than the sbf one in the
\* form --option=value (otter.rs:46-105, mod.rs:95-133).
THEOREM AskedForTheSame == Spec => []RoundTrip
<1>1. Init => args \in PdaArgs
  BY DEF Init
<1>2. args \in PdaArgs => RoundTrip
  <2>1. PdaArgs \subseteq Seq(Arg)
    BY ArgsAssumption
  <2> QED
    BY <2>1, CommandAsksTheSame DEF RoundTrip
<1> QED
  BY <1>1, <1>2, ArgsStep, PTL DEF Spec

-----------------------------------------------------------------------------
(* The end of the task, and the rows.                                      *)

\* Whichever writes and statements fail on the way to the end of a build, its
\* task does not end before the requester was told or three POSTs were made,
\* unless there is no HTTP client to make them (mod.rs:64-94, 185-242).
THEOREM NobodyLeftUntold == Spec => []ToldBeforeDone
<1>1. Inv => ToldBeforeDone
  BY DEF Inv, Good, Stage, ToldBeforeDone
<1> QED
  BY <1>1, Invariance, PTL

\* An id that is not handed out has a blank row.
Blank == \A b \in BuildIds :
            builds[b].status = "absent" => builds[b].executable_hash = None

\* Writing one row is a step of BuildLifecycle if the row starts or ends by it.
LEMMA RowStarts ==
    ASSUME builds \in [BuildIds -> BuildRows], Blank, NEW b \in BuildIds,
           NEW key \in Keys, builds[b].status = "absent",
           builds' = [builds EXCEPT ![b] =
              [status |-> "in_progress", executable_hash |-> None, key |-> key]]
    PROVE  Lifecycle!Start(b) /\ Blank'
BY DEF Blank, Lifecycle!Start, BuildRows

LEMMA RowEnds ==
    ASSUME builds \in [BuildIds -> BuildRows], Blank, NEW b \in BuildIds,
           builds[b].status = "in_progress"
    PROVE  /\ builds' = [builds EXCEPT ![b] = [builds[b] EXCEPT !.status = "failed"]]
              => Lifecycle!Fail(b) /\ Blank'
           /\ \A hash \in {"", "hash"} :
                builds' = [builds EXCEPT ![b] =
                  [builds[b] EXCEPT !.status = "completed", !.executable_hash = hash]]
                => Lifecycle!Complete(b) /\ Blank'
<1>1. ASSUME builds' = [builds EXCEPT ![b] = [builds[b] EXCEPT !.status = "failed"]]
      PROVE  Lifecycle!Fail(b) /\ Blank'
  BY <1>1 DEF Blank, Lifecycle!Fail, BuildRows
<1>2. ASSUME NEW hash \in {"", "hash"},
             builds' = [builds EXCEPT ![b] =
               [builds[b] EXCEPT !.status = "completed", !.executable_hash = hash]]
      PROVE  Lifecycle!Complete(b) /\ Blank'
  BY <1>2 DEF Blank, Lifecycle!Complete, BuildRows
<1> QED
  BY <1>1, <1>2

\* Every step moves the rows as BuildLifecycle allows, or not at all.
LEMMA StepImplements ==
    Inv /\ Blank /\ [Next]_vars =>
        Blank' /\ [Lifecycle!Next]_(Lifecycle!lifecycle_vars)
<1> SUFFICES ASSUME Inv, Blank, [Next]_vars
             PROVE  Blank' /\ [Lifecycle!Next]_(Lifecycle!lifecycle_vars)
  OBVIOUS
<1>1. builds \in [BuildIds -> BuildRows]
  BY DEF Inv, TypeOK
<1>2. CASE UNCHANGED builds
  BY <1>2 DEF Blank, Lifecycle!lifecycle_vars
<1>3. ASSUME NEW b \in BuildIds, StartBuild(b), args \in RequestedArgs
      PROVE  Lifecycle!Start(b) /\ Blank'
  <2>1. dedupe_key(NewBuild(args)) \in Keys
    BY <1>3 DEF Keys
  <2> QED
    BY <1>1, <1>3, <2>1, RowStarts DEF StartBuild
<1>4. ASSUME NEW b \in BuildIds, MarkFailed(b)
      PROVE  UNCHANGED builds \/ (Lifecycle!Fail(b) /\ Blank')
  <2>1. builds[b].status = "in_progress"
    BY <1>4 DEF Inv, Good, Stage, MarkFailed, At, Before
  <2> QED
    BY <1>1, <1>4, <2>1, RowEnds DEF MarkFailed, Ends
<1>5. ASSUME NEW b \in BuildIds, MarkCompleted(b)
      PROVE  UNCHANGED builds \/ (Lifecycle!Complete(b) /\ Blank')
  <2>1. builds[b].status = "in_progress" /\ job[b].hash \in {"", "hash"}
    BY <1>5 DEF Inv, TypeOK, Good, Stage, MarkCompleted, At, Before, JobRows
  <2> QED
    BY <1>1, <1>5, <2>1, RowEnds DEF MarkCompleted, Ends
<1>6. CASE CrashRestart
  <2>1. Lifecycle!Restart /\ Blank'
    BY <1>1, <1>6 DEF CrashRestart, Blank, Lifecycle!Restart, BuildRows
  <2> QED
    BY <2>1 DEF Lifecycle!Next
<1>7. ASSUME NEW b \in BuildIds, JobStep(b), ~MarkFailed(b), ~MarkCompleted(b)
      PROVE  UNCHANGED builds
  BY <1>7 DEF JobStep, SpawnFails, ExitsWithError, Exits, WriteErr, WriteOut,
              InsertLogRow, NoClient, Post, table_vars
<1>8. CASE Publish \/ AnsweredByDuplicate \/ UNCHANGED vars
  BY <1>2, <1>8 DEF Publish, AnsweredByDuplicate, vars, table_vars
<1> QED
  BY <1>2, <1>3, <1>4, <1>5, <1>6, <1>7, <1>8 DEF Next, Request, Lifecycle!Next

\* The rows of this module live as BuildLifecycle says too, although the end of
\* a row may go unrecorded and restarts end rows under their tasks.
THEOREM LifecycleImplemented == Spec => LifecycleSafe
<1>1. Init => Blank /\ Lifecycle!Init
  <2>1. ASSUME Init, NEW b \in BuildIds
        PROVE  builds[b].status = "absent" /\ builds[b].executable_hash = None
    BY <2>1 DEF Init, NoRow
  <2> QED
    BY <2>1, NoneAssumption DEF Blank, Lifecycle!Init
<1> QED
  BY <1>1, StepImplements, Invariance, PTL DEF Spec, LifecycleSafe, Lifecycle!Spec
=============================================================================
