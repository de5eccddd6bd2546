--------------------------- MODULE RecordingProofs ---------------------------
(***************************************************************************)
(* The safety of Recording for any number of cameras, children, processes, *)
(* errors, files, messages and faults.                                     *)
(***************************************************************************)
EXTENDS Recording, TLAPS

(* What the helpers and the records of Recording are made of. *)

\* A free child is a job.
LEMMA IdleIsJob == Idle \in Job
  BY ConstantsOK DEF Idle, Job, Stage

\* The end of a process is a process record.
LEMMA GoneIsProcess == ASSUME NEW s \in ProcState PROVE Gone(s) \in Process
  BY ConstantsOK DEF Gone, Process

\* Publishing keeps the message counts within their bound.
LEMMA SendIsQueue ==
  ASSUME TypeOK, NEW c \in Camera PROVE Send(c) \in [Camera -> 0..MaxQueue]
  BY ConstantsOK DEF TypeOK, Send

\* So does a retry.
LEMMA RetryIsQueue ==
  ASSUME TypeOK, NEW c \in Camera, NEW q \in Retries(c) PROVE q \in [Camera -> 0..MaxQueue]
  BY SendIsQueue DEF TypeOK, Retries

\* Stopping a process leaves a table of processes.
LEMMA StoppedIsProcess == ASSUME TypeOK, NEW p PROVE Stopped(p) \in [Proc -> Process]
<1>1. Gone("clean") \in Process
  BY GoneIsProcess DEF ProcState
<1> QED
  BY <1>1 DEF TypeOK, Stopped, Running

\* Popping an entry leaves a registry.
LEMMA PopIsRegistry ==
  ASSUME TypeOK, NEW w \in Child, NEW c \in Camera, Pop(w, c)
  PROVE  registry' \in [Child -> [Camera -> Proc \cup {NoProc}]]
  BY DEF TypeOK, Pop

\* Taking a row out of recording leaves a status table.
LEMMA OfflineIsStatus ==
  ASSUME TypeOK, NEW c \in Camera, OfflineIfRecording(c) PROVE status' \in [Camera -> Status]
  BY DEF TypeOK, OfflineIfRecording, Status

\* Closing a segment writes one more row for at most one file, or notes that it was gone.
LEMMA Closed ==
  ASSUME NEW j \in Job, NEW there \in BOOLEAN
  PROVE  /\ CloseSegment(j, there) \in Job
         /\ CloseSegment(j, there).stage = j.stage /\ CloseSegment(j, there).cam = j.cam
         /\ CloseSegment(j, there).run = j.run /\ CloseSegment(j, there).seen = j.seen
         /\ \A k \in 1..MaxFiles : k \notin CloseSegment(j, there).odd =>
              /\ k \notin j.odd
              /\ CloseSegment(j, there).indexed[k] = IF k = j.seen THEN j.indexed[k] + 1
                                                     ELSE j.indexed[k]
<1>1. j.indexed \in [1..MaxFiles -> Nat] /\ j.seen \in 0..MaxFiles /\ j.odd \subseteq 1..MaxFiles
  BY DEF Job
<1>2. CASE j.seen = 0
  BY <1>1, <1>2, ConstantsOK DEF CloseSegment
<1>3. CASE j.seen # 0 /\ there
  <2>1. j.seen \in 1..MaxFiles
    BY <1>1, <1>3, ConstantsOK
  <2>2. PICK n \in Nat : n = j.indexed[j.seen] + 1
    <3>1. j.indexed[j.seen] \in Nat
      BY <1>1, <2>1
    <3> QED
      BY <3>1
  <2>3. PICK x : x = [j.indexed EXCEPT ![j.seen] = n]
    OBVIOUS
  <2>4. /\ x \in [1..MaxFiles -> Nat]
        /\ \A k \in 1..MaxFiles : x[k] = IF k = j.seen THEN j.indexed[k] + 1 ELSE j.indexed[k]
    BY <1>1, <2>1, <2>2, <2>3
  <2>5. CloseSegment(j, there) = [j EXCEPT !.indexed = x]
    BY <1>3, <2>2, <2>3 DEF CloseSegment
  <2> QED
    BY <2>4, <2>5 DEF Job
<1>4. CASE j.seen # 0 /\ ~there
  <2>1. PICK x : x = j.odd \cup {j.seen}
    OBVIOUS
  <2>2. x \subseteq 1..MaxFiles
    BY <1>1, <1>4, <2>1, ConstantsOK
  <2>3. CloseSegment(j, there) = [j EXCEPT !.odd = x]
    BY <1>4, <2>1 DEF CloseSegment
  <2>4. CloseSegment(j, there) \in Job
    BY <2>2, <2>3 DEF Job
  <2>5. \A k \in 1..MaxFiles : k \notin x => k \notin j.odd /\ k # j.seen
    BY <2>1
  <2>6. /\ CloseSegment(j, there).odd = x /\ CloseSegment(j, there).indexed = j.indexed
        /\ CloseSegment(j, there).stage = j.stage /\ CloseSegment(j, there).cam = j.cam
        /\ CloseSegment(j, there).run = j.run /\ CloseSegment(j, there).seen = j.seen
    BY <2>3 DEF Job
  <2> QED
    BY <2>4, <2>5, <2>6
<1> QED
  BY <1>2, <1>3, <1>4

\* What reading a line that opens a file, reading one that does not match, and closing
\* the final segment make of the job of a child.
LEMMA ClosingJobs ==
  ASSUME TypeOK, NEW w \in Child, NEW there \in BOOLEAN
  PROVE  LET j == job[w]
             k == CloseSegment(job[w], there)
         IN  /\ ReadOpening(w, there) =>
                  /\ job'[w] \in Job /\ job'[w].stage = "monitor" /\ j.stage = "monitor"
                  /\ job'[w].run = j.run /\ job'[w].cam = j.cam /\ job'[w].seen = j.seen + 1
                  /\ job'[w].indexed = k.indexed /\ job'[w].odd = k.odd
             /\ ReadUnmatched(w, there) =>
                  /\ job'[w] \in Job /\ job'[w].stage = "monitor" /\ j.stage = "monitor"
                  /\ job'[w].run = j.run /\ job'[w].cam = j.cam /\ job'[w].seen = j.seen
                  /\ job'[w].indexed = k.indexed /\ job'[w].odd = j.odd \cup {j.seen}
                  /\ j.seen \in 1..MaxFiles
             /\ CloseFinal(w, there) =>
                  /\ job'[w] \in Job /\ job'[w].stage = "closed" /\ j.stage = "exited"
                  /\ job'[w].run = j.run /\ job'[w].cam = j.cam /\ job'[w].seen = j.seen
                  /\ job'[w].indexed = k.indexed /\ job'[w].odd = k.odd
<1>0. job[w] \in Job
  BY DEF TypeOK
<1>1. PICK j \in Job : j = job[w]
  BY <1>0
<1>2. PICK k \in Job : k = CloseSegment(j, there)
  BY Closed
<1>3. k.stage = j.stage /\ k.cam = j.cam /\ k.run = j.run /\ k.seen = j.seen
  BY <1>2, Closed
<1>4. ASSUME ReadOpening(w, there)
      PROVE  /\ job'[w] \in Job /\ job'[w].stage = "monitor" /\ j.stage = "monitor"
             /\ job'[w].run = j.run /\ job'[w].cam = j.cam /\ job'[w].seen = j.seen + 1
             /\ job'[w].indexed = k.indexed /\ job'[w].odd = k.odd
  <2>1. j.seen + 1 \in 0..MaxFiles
    BY <1>1, <1>4, ConstantsOK DEF ReadOpening, Running, TypeOK, Process, Job
  <2>2. job'[w] = [k EXCEPT !.seen = j.seen + 1] /\ j.stage = "monitor"
    BY <1>1, <1>2, <1>4 DEF ReadOpening, TypeOK
  <2> QED
    BY <1>3, <2>1, <2>2 DEF Job
<1>5. ASSUME ReadUnmatched(w, there)
      PROVE  /\ job'[w] \in Job /\ job'[w].stage = "monitor" /\ j.stage = "monitor"
             /\ job'[w].run = j.run /\ job'[w].cam = j.cam /\ job'[w].seen = j.seen
             /\ job'[w].indexed = k.indexed /\ job'[w].odd = j.odd \cup {j.seen}
             /\ j.seen \in 1..MaxFiles
  <2>1. PICK x : x = j.odd \cup {j.seen}
    OBVIOUS
  <2>2. job'[w] = [k EXCEPT !.odd = x] /\ j.stage = "monitor" /\ j.seen \in 1..MaxFiles
    BY <1>1, <1>2, <1>5, <2>1 DEF ReadUnmatched, TypeOK
  <2>3. x \subseteq 1..MaxFiles
    BY <2>1, <2>2 DEF Job
  <2> QED
    BY <1>3, <2>1, <2>2, <2>3 DEF Job
<1>6. ASSUME CloseFinal(w, there)
      PROVE  /\ job'[w] \in Job /\ job'[w].stage = "closed" /\ j.stage = "exited"
             /\ job'[w].run = j.run /\ job'[w].cam = j.cam /\ job'[w].seen = j.seen
             /\ job'[w].indexed = k.indexed /\ job'[w].odd = k.odd
  <2>1. job'[w] = [k EXCEPT !.stage = "closed"] /\ j.stage = "exited"
    BY <1>1, <1>2, <1>6 DEF CloseFinal, TypeOK
  <2> QED
    BY <1>3, <2>1 DEF Job, Stage
<1> QED
  BY <1>1, <1>2, <1>4, <1>5, <1>6

\* A child that replaces its job by another leaves a table of jobs.
LEMMA JobReplaced ==
  ASSUME TypeOK, NEW w \in Child, NEW j \in Job, job' = [job EXCEPT ![w] = j]
  PROVE  job' \in [Child -> Job] /\ job'[w] = j /\ \A v \in Child : v # w => job'[v] = job[v]
  BY DEF TypeOK

\* In particular one that closes a segment.
LEMMA ClosingTable ==
  ASSUME TypeOK, NEW w \in Child, NEW there \in BOOLEAN,
         ReadOpening(w, there) \/ ReadUnmatched(w, there) \/ CloseFinal(w, there)
  PROVE  /\ job' \in [Child -> Job] /\ job' = [job EXCEPT ![w] = job'[w]]
         /\ \A v \in Child : v # w => job'[v] = job[v]
<1>1. PICK j : job' = [job EXCEPT ![w] = j]
  BY DEF ReadOpening, ReadUnmatched, CloseFinal
<1>2. job'[w] = j /\ job'[w] \in Job
  BY <1>1, ClosingJobs DEF TypeOK
<1> QED
  BY <1>1, <1>2, JobReplaced

\* Dropping every plan of a child leaves plans.
LEMMA NothingPlannedIsPlan == NothingPlanned \in [Camera -> Verdict]
  BY DEF NothingPlanned, Verdict
-----------------------------------------------------------------------------
(* Type correctness *)

\* A step of start_recording keeps the types.
LEMMA StartTaskType == ASSUME TypeOK, NEW w \in Child, StartTask(w) PROVE TypeOK'
<1> USE DEF rows, broker, history
<1>0. job[w] \in Job
  BY DEF TypeOK
<1>1. ASSUME NEW p \in Proc, Spawn(w, p) PROVE TypeOK'
  <2>1. [job[w] EXCEPT !.stage = "spawned", !.run = p] \in Job
    BY <1>0 DEF Job, Stage
  <2>2. [state |-> "alive", cam |-> job[w].cam, opened |-> 0] \in Process
    BY <1>0, ConstantsOK DEF Process, ProcState, Job
  <2> QED
    BY <1>1, <2>1, <2>2 DEF Spawn, TypeOK
<1>2. CASE SpawnFails(w)
  <2>1. job[w].cam \in Camera \cup {NoCamera}
    BY <1>0 DEF Job
  <2>2. queue' \in [Camera -> 0..MaxQueue]
    BY <1>2, <2>1, ConstantsOK DEF SpawnFails, Retries, Send, TypeOK
  <2> QED
    BY <1>2, <2>2, IdleIsJob DEF SpawnFails, TypeOK
<1>3. CASE MarkRecording(w)
  <2>1. [job[w] EXCEPT !.stage = "monitor"] \in Job
    BY <1>0 DEF Job, Stage
  <2> QED
    BY <1>3, <2>1 DEF MarkRecording, TypeOK, Status
<1>4. ASSUME NEW there \in BOOLEAN, ReadOpening(w, there) \/ CloseFinal(w, there) PROVE TypeOK'
  BY <1>4, ClosingTable DEF ReadOpening, CloseFinal, TypeOK
<1>5. CASE StopFailing(w)
  <2>1. registry' \in [Child -> [Camera -> Proc \cup {NoProc}]]
    BY <1>5 DEF StopFailing, Pop, TypeOK
  <2> QED
    BY <1>5, <2>1, IdleIsJob, StoppedIsProcess DEF StopFailing, TypeOK
<1>6. CASE ReadCleanExit(w)
  <2>1. [job[w] EXCEPT !.stage = "exited", !.code = "none"] \in Job
    BY <1>0 DEF Job, Stage
  <2>2. registry' \in [Child -> [Camera -> Proc \cup {NoProc}]]
    BY <1>6 DEF ReadCleanExit, Pop, TypeOK
  <2> QED
    BY <1>6, <2>1, <2>2 DEF ReadCleanExit, TypeOK
<1>7. CASE NoticeExit(w)
  <2>1. ASSUME NEW x \in {"clean", "failed"}
        PROVE [job[w] EXCEPT !.stage = "exited", !.code = x] \in Job
    BY <1>0 DEF Job, Stage
  <2>2. registry' \in [Child -> [Camera -> Proc \cup {NoProc}]]
    BY <1>7 DEF NoticeExit, Pop, TypeOK
  <2> QED
    BY <1>7, <2>1, <2>2 DEF NoticeExit, TypeOK
<1>9. CASE Finish(w)
  <2>1. queue' \in [Camera -> 0..MaxQueue]
    BY <1>9, ConstantsOK DEF Finish, Retries, Send, TypeOK
  <2>2. status' \in [Camera -> Status]
    BY <1>9 DEF Finish, OfflineIfRecording, TypeOK, Status
  <2> QED
    BY <1>9, <2>1, <2>2, IdleIsJob DEF Finish, TypeOK
<1> QED
  BY <1>1, <1>2, <1>3, <1>4, <1>5, <1>6, <1>7, <1>9 DEF StartTask

\* A step of stop_recording keeps the types.
LEMMA StopTaskType ==
  ASSUME TypeOK, NEW w \in Child, StopTask(w) \/ \E c \in Camera : StopRecording(w, c)
  PROVE  TypeOK'
<1> USE DEF rows, broker, history
<1>0. job[w] \in Job
  BY DEF TypeOK
<1>1. ASSUME NEW c \in Camera, StopRecording(w, c) PROVE TypeOK'
  <2>0. PICK p \in Proc \cup {NoProc} : p = registry[w][c]
    BY DEF TypeOK
  <2>1. [Idle EXCEPT !.stage = "stopping", !.cam = c, !.run = registry[w][c]] \in Job
    <3>1. [Idle EXCEPT !.stage = "stopping", !.cam = c, !.run = p] \in Job
      BY IdleIsJob DEF Job, Stage
    <3> QED
      BY <2>0, <3>1
  <2>2. registry' \in [Child -> [Camera -> Proc \cup {NoProc}]]
    BY <1>1, PopIsRegistry DEF StopRecording
  <2> QED
    BY <1>1, <2>1, <2>2, JobReplaced DEF StopRecording, TypeOK
<1>2. CASE StopProcess(w)
  <2>1. [Idle EXCEPT !.stage = "stopped", !.cam = job[w].cam] \in Job
    BY <1>0, IdleIsJob DEF Job, Stage
  <2>2. proc' \in [Proc -> Process]
    BY <1>2, StoppedIsProcess DEF StopProcess
  <2> QED
    BY <1>2, <2>1, <2>2, JobReplaced DEF StopProcess, TypeOK
<1>3. CASE MarkStopped(w)
  <2>1. status' \in [Camera -> Status]
    BY <1>3 DEF MarkStopped, OfflineIfRecording, TypeOK, Status
  <2> QED
    BY <1>3, <2>1, IdleIsJob, JobReplaced DEF MarkStopped, TypeOK
<1> QED
  BY <1>1, <1>2, <1>3 DEF StopTask

\* A step of camera_health_check keeps the types.
LEMMA HealthTaskType == ASSUME TypeOK, NEW w \in Child, HealthTask(w) PROVE TypeOK'
<1> USE DEF rows, broker, history
<1>0. ASSUME NEW c \in Camera, Checked(w, c) PROVE plan' \in [Child -> [Camera -> Verdict]]
  BY <1>0 DEF Checked, TypeOK, Verdict
<1>1. ASSUME NEW c \in Camera, CheckOff(w, c) PROVE TypeOK'
  <2>1. registry' \in [Child -> [Camera -> Proc \cup {NoProc}]]
    BY <1>1, PopIsRegistry DEF CheckOff, TypeOK
  <2>2. proc' \in [Proc -> Process]
    BY <1>1, StoppedIsProcess DEF CheckOff, TypeOK
  <2> QED
    BY <1>0, <1>1, <2>1, <2>2 DEF CheckOff, TypeOK
<1>2. ASSUME NEW c \in Camera, CheckAlive(w, c) PROVE TypeOK'
  <2>1. status' \in [Camera -> Status]
    BY <1>2 DEF CheckAlive, TypeOK, Status
  <2> QED
    BY <1>0, <1>2, <2>1 DEF CheckAlive, TypeOK
<1>3. ASSUME NEW c \in Camera, CheckOwnedElsewhere(w, c) PROVE TypeOK'
  BY <1>0, <1>3 DEF CheckOwnedElsewhere, TypeOK
<1>4. ASSUME NEW c \in Camera, CheckRestart(w, c) PROVE TypeOK'
  <2>1. registry' \in [Child -> [Camera -> Proc \cup {NoProc}]]
    BY <1>4, PopIsRegistry DEF CheckRestart
  <2>2. queue' \in [Camera -> 0..MaxQueue]
    BY <1>4, SendIsQueue DEF CheckRestart
  <2> QED
    BY <1>0, <1>4, <2>1, <2>2 DEF CheckRestart, TypeOK
<1>5. CASE EndCheck(w)
  BY <1>5, IdleIsJob DEF EndCheck, TypeOK
<1> QED
  BY <1>1, <1>2, <1>3, <1>4, <1>5 DEF HealthTask

\* Every step keeps the types.
LEMMA TypeStep == TypeOK /\ [Next]_vars => TypeOK'
<1> SUFFICES ASSUME TypeOK, [Next]_vars PROVE TypeOK'
  OBVIOUS
<1> USE DEF rows, broker, history
<1>1. ASSUME NEW w \in Child, NEW c \in Camera, TakeStart(w, c) PROVE TypeOK'
  <2>1. [Idle EXCEPT !.stage = "starting", !.cam = c] \in Job
    BY IdleIsJob DEF Job, Stage
  <2>2. queue' \in [Camera -> 0..MaxQueue]
    BY <1>1, ConstantsOK DEF TakeStart, TypeOK
  <2> QED
    BY <1>1, <2>1, <2>2 DEF TakeStart, TypeOK
<1>2. ASSUME NEW w \in Child, StartTask(w) PROVE TypeOK'
  BY <1>2, StartTaskType
<1>3. ASSUME NEW w \in Child, ReadError(w) PROVE TypeOK'
  <2>0. job[w] \in Job /\ job[w].errs \in 0..MaxErrors
    BY DEF TypeOK, Job
  <2>2. job[w].errs + 1 \in 0..MaxErrors
    BY <1>3, <2>0, ConstantsOK DEF ReadError
  <2>1. [job[w] EXCEPT !.errs = job[w].errs + 1] \in Job
    BY <2>0, <2>2 DEF Job
  <2> QED
    BY <1>3, <2>1 DEF ReadError, TypeOK
<1>4. ASSUME NEW w \in Child, ReadLastError(w) PROVE TypeOK'
  <2>0. job[w] \in Job /\ job[w].errs \in 0..MaxErrors
    BY DEF TypeOK, Job
  <2>2. job[w].errs + 1 \in 0..MaxErrors
    BY <1>4, <2>0, ConstantsOK DEF ReadLastError
  <2>1. [job[w] EXCEPT !.stage = "failing", !.errs = job[w].errs + 1] \in Job
    BY <2>0, <2>2 DEF Job, Stage
  <2> QED
    BY <1>4, <2>1 DEF ReadLastError, TypeOK, Status
<1>5. ASSUME NEW w \in Child, BeginCheck(w) PROVE TypeOK'
  <2>1. [Idle EXCEPT !.stage = "health"] \in Job
    BY IdleIsJob DEF Job, Stage
  <2>2. checks' \in 0..MaxChecks
    BY <1>5, ConstantsOK DEF BeginCheck, TypeOK
  <2>3. [c \in Camera |-> IF c \in deleted THEN "done" ELSE Load(c)] \in [Camera -> Verdict]
    BY DEF Load, Verdict
  <2> QED
    BY <1>5, <2>1, <2>2, <2>3 DEF BeginCheck, TypeOK
<1>6. ASSUME NEW w \in Child, HealthTask(w) PROVE TypeOK'
  BY <1>6, HealthTaskType
<1>7. ASSUME NEW w \in Child, StopTask(w) \/ \E c \in Camera : StopRecording(w, c)
      PROVE  TypeOK'
  BY <1>7, StopTaskType
<1>19. ASSUME NEW w \in Child, NEW there \in BOOLEAN, ReadUnmatched(w, there) PROVE TypeOK'
  BY <1>19, ClosingTable DEF ReadUnmatched, TypeOK
<1>8. ASSUME NEW w \in Child, StartAllRecordings(w) PROVE TypeOK'
  <2>1. queue' \in [Camera -> 0..MaxQueue]
    BY <1>8, SendIsQueue DEF StartAllRecordings, TypeOK
  <2> QED
    BY <1>8, <2>1 DEF StartAllRecordings, TypeOK
<1>9. ASSUME NEW w \in Child, Redeliver(w) PROVE TypeOK'
  <2>1. queue' \in [Camera -> 0..MaxQueue]
    <3> DEFINE c == job[w].cam
    <3>1. queue[c] < MaxQueue /\ queue' = [queue EXCEPT ![c] = queue[c] + 1]
      BY <1>9 DEF Redeliver, Send
    <3>2. ASSUME c \in Camera PROVE queue[c] + 1 \in 0..MaxQueue
      <4>1. queue[c] \in 0..MaxQueue
        BY <3>2 DEF TypeOK
      <4> QED
        BY <3>1, <4>1, ConstantsOK
    <3>3. ASSUME c \notin Camera PROVE queue' = queue
      BY <3>1, <3>3 DEF TypeOK
    <3> HIDE DEF c
    <3> QED
      BY <3>1, <3>2, <3>3 DEF TypeOK
  <2> QED
    BY <1>9, <2>1 DEF Redeliver, TypeOK
<1>10. ASSUME NEW cs \in SUBSET Camera, Fault(cs)
       PROVE faults' \in 0..MaxFaults /\ interrupted' \in SUBSET Camera
  BY <1>10, ConstantsOK DEF Fault, TypeOK
<1>11. ASSUME NEW w \in Child, Abort(w) \/ ChildDies(w) PROVE TypeOK'
  <2>1. TaskCamera(w) \in SUBSET Camera
    BY DEF TaskCamera
  <2>2. faults' \in 0..MaxFaults /\ interrupted' \in SUBSET Camera
    BY <1>10, <1>11, <2>1 DEF Abort, ChildDies
  <2>3. registry' \in [Child -> [Camera -> Proc \cup {NoProc}]]
    BY <1>11 DEF Abort, ChildDies, NoEntries, TypeOK
  <2> QED
    BY <1>11, <2>2, <2>3, IdleIsJob, NothingPlannedIsPlan DEF Abort, ChildDies, TypeOK
<1>12. CASE Beat
  BY <1>12, ConstantsOK DEF Beat, TypeOK
<1>13. ASSUME NEW c \in Camera, SetMode(c) \/ DeleteCamera(c) PROVE TypeOK'
  BY <1>13 DEF SetMode, DeleteCamera, TypeOK
<1>14. ASSUME NEW p \in Proc, OpenFile(p) PROVE TypeOK'
  <2>0. proc[p] \in Process /\ proc[p].opened \in 0..MaxFiles
    BY DEF TypeOK, Process
  <2>2. proc[p].opened + 1 \in 0..MaxFiles
    BY <1>14, <2>0, ConstantsOK DEF OpenFile
  <2>1. [proc[p] EXCEPT !.opened = proc[p].opened + 1] \in Process
    BY <2>0, <2>2 DEF Process
  <2> QED
    BY <1>14, <2>1 DEF OpenFile, TypeOK
<1>15. ASSUME NEW p \in Proc, Terminate(p) PROVE TypeOK'
  <2>1. [proc[p] EXCEPT !.state = "exiting"] \in Process
    BY DEF TypeOK, Process, ProcState
  <2> QED
    BY <1>15, <2>1 DEF Terminate, TypeOK
<1>16. ASSUME NEW p \in Proc, Exit(p) PROVE TypeOK'
  <2>1. Gone("clean") \in Process /\ Gone("failed") \in Process
    BY GoneIsProcess DEF ProcState
  <2> QED
    BY <1>16, <2>1 DEF Exit, TypeOK
<1>17. CASE NodeRestart
  <2>1. UNION {TaskCamera(w) : w \in Child} \in SUBSET Camera
    BY DEF TaskCamera
  <2>2. faults' \in 0..MaxFaults /\ interrupted' \in SUBSET Camera
    BY <1>10, <1>17, <2>1 DEF NodeRestart
  <2>3. queue' \in [Camera -> 0..MaxQueue]
    BY <1>17, SendIsQueue DEF NodeRestart, TypeOK
  <2>4. proc' \in [Proc -> Process]
    BY <1>17, GoneIsProcess DEF NodeRestart, TypeOK, ProcState
  <2>5. registry' \in [Child -> [Camera -> Proc \cup {NoProc}]]
    BY <1>17 DEF NodeRestart, NoEntries
  <2> QED
    BY <1>17, <2>2, <2>3, <2>4, <2>5, IdleIsJob, NothingPlannedIsPlan DEF NodeRestart, TypeOK
<1>18. CASE UNCHANGED vars
  BY <1>18 DEF vars, TypeOK
<1> QED
  BY <1>1, <1>2, <1>3, <1>4, <1>5, <1>6, <1>7, <1>8, <1>9, <1>11, <1>12, <1>13, <1>14,
     <1>15, <1>16, <1>17, <1>18, <1>19 DEF Next

\* Every variable starts with its type.
LEMMA TypeInit == Init => TypeOK
<1>1. NoEntries \in [Camera -> Proc \cup {NoProc}]
  BY DEF NoEntries
<1>2. Gone("free") \in Process
  BY GoneIsProcess DEF ProcState
<1> QED
  BY <1>1, <1>2, IdleIsJob, NothingPlannedIsPlan, ConstantsOK DEF Init, TypeOK, Status

\* Every variable keeps its type in every behaviour.
THEOREM TypeCorrect == Spec => []TypeOK
  BY TypeInit, TypeStep, PTL DEF Spec
-----------------------------------------------------------------------------
(* The inductive invariant.  None of the safety properties is inductive    *)
(* alone: a task that winds up a process relies on the registry entry it   *)
(* made when it started it, and two tasks that shared a process would spoil *)
(* each other's work.                                                       *)

Following(w) == job[w].stage \in {"spawned", "monitor", "failing", "exited", "closed"}

\* A child that neither starts nor follows a process.
Elsewhere == {"idle", "health", "stopping", "stopped"}

\* A task about to start a process has read nothing yet.
FreshJobs ==
  \A w \in Child :
    /\ job[w].stage \in {"starting", "spawned"} => job[w].seen = 0
    /\ InTask(w) => job[w].cam \in Camera

\* A task follows a process of its own camera, the one it put into its registry.
FollowedIsRegistered ==
  \A w \in Child : Following(w) =>
    /\ job[w].run \in Proc
    /\ Running(job[w].run) => proc[job[w].run].cam = job[w].cam
    /\ job[w].stage \in {"spawned", "monitor", "failing"} =>
         registry[w][job[w].cam] = job[w].run

\* No two tasks follow one process.
FollowersAreDisjoint ==
  \A v, w \in Child : Following(v) /\ Following(w) /\ job[v].run = job[w].run => v = w

\* A task about to start a process has no running one in its registry.
StartsAreFresh ==
  \A w \in Child : job[w].stage = "starting" => ~Running(registry[w][job[w].cam])

Ownership == /\ TypeOK
             /\ FreshJobs
             /\ FollowedIsRegistered
             /\ FollowersAreDisjoint
             /\ StartsAreFresh

\* What becomes of the processes in a step that starts none: the ones that run
\* are ones that ran, for the same camera.
NoneStarted == \A p \in Proc : Running(p)' => Running(p) /\ proc'[p].cam = proc[p].cam

\* Stopping a process starts none.
LEMMA StoppedStartsNone == ASSUME TypeOK, NEW p, proc' = Stopped(p) PROVE NoneStarted
  BY DEF TypeOK, NoneStarted, Stopped, Running, Gone

\* Leaving the processes alone starts none.
LEMMA SameStartsNone == ASSUME proc' = proc PROVE NoneStarted
  BY DEF NoneStarted, Running

\* A child that is free, checking or stopping afterwards may do what it likes with its
\* own registry.
LEMMA FreeChild ==
  ASSUME Ownership, TypeOK', NoneStarted, NEW w \in Child,
         job'[w].stage \in Elsewhere,
         \A v \in Child \ {w} : job'[v] = job[v] /\ registry'[v] = registry[v]
  PROVE  Ownership'
<1>1. \A v \in Child : v # w => job'[v] = job[v] /\ registry'[v] = registry[v]
  OBVIOUS
<1>2. job'[w].stage \in Elsewhere /\ ~Following(w)' /\ ~InTask(w)'
  BY DEF Elsewhere, Following, InTask
<1>3. FreshJobs'
  BY <1>1, <1>2 DEF Ownership, FreshJobs, Following, InTask
<1>4. FollowedIsRegistered'
  <2> SUFFICES ASSUME NEW v \in Child, Following(v)'
               PROVE  /\ job'[v].run \in Proc
                      /\ Running(job[v].run)' => proc'[job'[v].run].cam = job'[v].cam
                      /\ job'[v].stage \in {"spawned", "monitor", "failing"} =>
                           registry'[v][job'[v].cam] = job'[v].run
    BY DEF FollowedIsRegistered
  <2>1. v # w
    BY <1>2 DEF Following
  <2> QED
    BY <1>1, <2>1 DEF Ownership, FollowedIsRegistered, Following, NoneStarted, Running
<1>5. FollowersAreDisjoint'
  BY <1>1, <1>2 DEF Ownership, FollowersAreDisjoint, Following
<1>6. StartsAreFresh'
  <2> SUFFICES ASSUME NEW v \in Child, job'[v].stage = "starting"
               PROVE  ~Running(registry[v][job[v].cam])'
    BY DEF StartsAreFresh
  <2>1. v # w
    BY <1>2 DEF Elsewhere
  <2>2. ~Running(registry[v][job[v].cam])
    BY <1>1, <2>1 DEF Ownership, StartsAreFresh
  <2> QED
    BY <1>1, <2>1, <2>2 DEF NoneStarted, Running
<1> QED
  BY <1>3, <1>4, <1>5, <1>6 DEF Ownership

\* In particular when its task is over.
LEMMA FreedChild ==
  ASSUME Ownership, TypeOK', NoneStarted, NEW w \in Child, job' = [job EXCEPT ![w] = Idle],
         \A v \in Child \ {w} : registry'[v] = registry[v]
  PROVE  Ownership'
<1>1. job'[w] = Idle /\ \A v \in Child \ {w} : job'[v] = job[v]
  BY DEF Ownership, TypeOK
<1>2. Idle.stage \in Elsewhere
  BY DEF Idle, Elsewhere
<1> QED
  BY <1>1, <1>2, FreeChild

\* A task that goes on following its process keeps its entry until it winds up.
LEMMA FollowOn ==
  ASSUME Ownership, TypeOK', proc' = proc, NEW w \in Child, NEW j, Following(w),
         j.run = job[w].run, j.cam = job[w].cam,
         j.stage \in {"monitor", "failing", "exited", "closed"},
         job' = [job EXCEPT ![w] = j],
         \A v \in Child \ {w} : registry'[v] = registry[v],
         \/ registry' = registry /\ (job[w].stage \in {"exited", "closed"} => j.stage = "closed")
         \/ j.stage \in {"exited", "closed"}
  PROVE  Ownership'
<1>1. \A v \in Child : v # w => job'[v] = job[v] /\ registry'[v] = registry[v]
  BY DEF Ownership, TypeOK
<1>2. job'[w] = j
  BY DEF Ownership, TypeOK
<1>3. FreshJobs'
  BY <1>1, <1>2 DEF Ownership, FreshJobs, Following, InTask
<1>4. FollowedIsRegistered'
  <2> SUFFICES ASSUME NEW v \in Child, Following(v)'
               PROVE  /\ job'[v].run \in Proc
                      /\ Running(job[v].run)' => proc'[job'[v].run].cam = job'[v].cam
                      /\ job'[v].stage \in {"spawned", "monitor", "failing"} =>
                           registry'[v][job'[v].cam] = job'[v].run
    BY DEF FollowedIsRegistered
  <2>1. CASE v # w
    BY <1>1, <2>1 DEF Ownership, FollowedIsRegistered, Following, Running
  <2>2. CASE v = w
    BY <1>2, <2>2 DEF Ownership, FollowedIsRegistered, Following, Running
  <2> QED
    BY <2>1, <2>2
<1>5. FollowersAreDisjoint'
  BY <1>1, <1>2 DEF Ownership, FollowersAreDisjoint, Following
<1>6. StartsAreFresh'
  BY <1>1, <1>2 DEF Ownership, StartsAreFresh, Running
<1> QED
  BY <1>3, <1>4, <1>5, <1>6 DEF Ownership

\* A child that takes a start_recording message looks at its registry first.
LEMMA TakeStartOwns ==
  ASSUME Ownership, TypeOK', NEW w \in Child, NEW c \in Camera, TakeStart(w, c)
  PROVE  Ownership'
<1> DEFINE j == [Idle EXCEPT !.stage = "starting", !.cam = c]
<1>1. CASE job' = job
  <2>1. registry' = registry /\ proc' = proc
    BY DEF TakeStart
  <2> QED
    BY <1>1, <2>1 DEF Ownership, FreshJobs, FollowedIsRegistered, FollowersAreDisjoint,
                      StartsAreFresh, Following, InTask, Running
<1>2. CASE job' # job
  <2>1. /\ ~Running(registry[w][c])
        /\ job' = [job EXCEPT ![w] = j]
        /\ registry' = registry
        /\ proc' = proc
    BY <1>2 DEF TakeStart
  <2>2. j.stage = "starting" /\ j.cam = c /\ j.run = NoProc /\ j.seen = 0
    BY DEF Idle
  <2> HIDE DEF j
  <2>3. \A v \in Child : v # w => job'[v] = job[v]
    BY <2>1 DEF Ownership, TypeOK
  <2>4. job'[w] = j
    BY <2>1 DEF Ownership, TypeOK
  <2>5. FreshJobs'
    BY <2>2, <2>3, <2>4 DEF Ownership, FreshJobs, Following, InTask
  <2>6. FollowedIsRegistered'
    BY <2>1, <2>2, <2>3, <2>4 DEF Ownership, FollowedIsRegistered, Following, Running
  <2>7. FollowersAreDisjoint'
    BY <2>2, <2>3, <2>4 DEF Ownership, FollowersAreDisjoint, Following
  <2>8. StartsAreFresh'
    BY <2>1, <2>2, <2>3, <2>4 DEF Ownership, StartsAreFresh, Running
  <2> QED
    BY <2>5, <2>6, <2>7, <2>8 DEF Ownership
<1> QED
  BY <1>1, <1>2

\* A process is started in a slot nobody refers to and registered at once.
LEMMA SpawnOwns ==
  ASSUME Ownership, TypeOK', NEW w \in Child, NEW p \in Proc, Spawn(w, p)
  PROVE  Ownership'
<1> DEFINE j == [job[w] EXCEPT !.stage = "spawned", !.run = p]
<1> DEFINE c == job[w].cam
<1>1. job' = [job EXCEPT ![w] = j]
  BY DEF Spawn
<1>2. /\ j.stage = "spawned" /\ j.cam = c /\ j.run = p /\ j.seen = job[w].seen
      /\ job[w].seen = 0 /\ c \in Camera
  BY DEF Ownership, TypeOK, Job, Spawn, FreshJobs, InTask
<1>3. /\ registry'[w][c] = p
      /\ \A v \in Child : v # w => registry'[v] = registry[v]
  BY <1>2 DEF Spawn, Ownership, TypeOK
<1>4. /\ proc'[p].cam = c
      /\ \A q \in Proc : q # p => proc'[q] = proc[q]
  BY DEF Spawn, Ownership, TypeOK
<1>5. /\ \A v \in Child : job[v].run # p
      /\ \A v \in Child, d \in Camera : registry[v][d] # p
  BY DEF Spawn, Reusable
<1> HIDE DEF j, c
<1>6. \A v \in Child : v # w => job'[v] = job[v]
  BY <1>1 DEF Ownership, TypeOK
<1>7. job'[w] = j
  BY <1>1 DEF Ownership, TypeOK
<1>8. FreshJobs'
  BY <1>2, <1>6, <1>7 DEF Ownership, FreshJobs, Following, InTask
<1>9. FollowedIsRegistered'
  <2> SUFFICES ASSUME NEW v \in Child, Following(v)'
               PROVE  /\ job'[v].run \in Proc
                      /\ Running(job[v].run)' => proc'[job'[v].run].cam = job'[v].cam
                      /\ job'[v].stage \in {"spawned", "monitor", "failing"} =>
                           registry'[v][job'[v].cam] = job'[v].run
    BY DEF FollowedIsRegistered
  <2>1. CASE v # w
    BY <1>3, <1>4, <1>5, <1>6, <2>1 DEF Ownership, FollowedIsRegistered, Following, Running
  <2>2. CASE v = w
    BY <1>2, <1>3, <1>4, <1>7, <2>2 DEF Running
  <2> QED
    BY <2>1, <2>2
<1>10. FollowersAreDisjoint'
  BY <1>2, <1>5, <1>6, <1>7 DEF Ownership, FollowersAreDisjoint, Following
<1>11. StartsAreFresh'
  <2> SUFFICES ASSUME NEW v \in Child, job'[v].stage = "starting"
               PROVE  ~Running(registry[v][job[v].cam])'
    BY DEF StartsAreFresh
  <2>1. v # w
    BY <1>2, <1>7
  <2>2. job[v].cam \in Camera /\ job[v].stage = "starting"
    BY <1>6, <2>1 DEF Ownership, FreshJobs, InTask
  <2>3. ~Running(registry[v][job[v].cam]) /\ registry[v][job[v].cam] # p
    BY <1>5, <2>2 DEF Ownership, StartsAreFresh
  <2> QED
    BY <1>3, <1>4, <1>6, <2>1, <2>3 DEF Running
<1> QED
  BY <1>8, <1>9, <1>10, <1>11 DEF Ownership

\* Closing a segment leaves the process and the entry as they are.
LEMMA ClosingOwns ==
  ASSUME Ownership, TypeOK', NEW w \in Child, NEW there \in BOOLEAN,
         ReadOpening(w, there) \/ ReadUnmatched(w, there) \/ CloseFinal(w, there)
  PROVE  Ownership'
<1>1. TypeOK
  BY DEF Ownership
<1>2. PICK j : j = job'[w]
  OBVIOUS
<1>3. job' = [job EXCEPT ![w] = j] /\ registry' = registry /\ proc' = proc
  BY <1>1, <1>2, ClosingTable DEF ReadOpening, ReadUnmatched, CloseFinal
<1>4. /\ j.run = job[w].run /\ j.cam = job[w].cam
      /\ \/ j.stage = "monitor" /\ job[w].stage = "monitor"
         \/ j.stage = "closed" /\ job[w].stage = "exited"
  BY <1>1, <1>2, ClosingJobs
<1>5. Following(w)
  BY <1>4 DEF Following
<1> QED
  BY <1>3, <1>4, <1>5, FollowOn

\* A step of start_recording keeps the ownership of processes.
LEMMA StartTaskOwns ==
  ASSUME Ownership, TypeOK', NEW w \in Child, StartTask(w) PROVE Ownership'
<1> USE DEF rows, broker, history
<1>0. TypeOK /\ Idle.stage \in Elsewhere /\ job[w] \in Job
  BY DEF Ownership, Idle, TypeOK, Elsewhere
<1>1. ASSUME NEW p \in Proc, Spawn(w, p) PROVE Ownership'
  BY <1>1, SpawnOwns
<1>2. CASE SpawnFails(w)
  BY <1>0, <1>2, FreedChild, SameStartsNone DEF SpawnFails
<1>3. CASE MarkRecording(w)
  <2> DEFINE j == [job[w] EXCEPT !.stage = "monitor"]
  <2>1. j.run = job[w].run /\ j.cam = job[w].cam /\ j.stage = "monitor"
    BY <1>0 DEF Job
  <2>2. /\ Following(w) /\ job[w].stage \notin {"exited", "closed"}
        /\ job' = [job EXCEPT ![w] = j] /\ registry' = registry /\ proc' = proc
    BY <1>3 DEF MarkRecording, Following
  <2> HIDE DEF j
  <2> QED
    BY <2>1, <2>2, FollowOn
<1>4. ASSUME NEW there \in BOOLEAN, ReadOpening(w, there) \/ CloseFinal(w, there)
      PROVE  Ownership'
  BY <1>0, <1>4, ClosingOwns
<1>5. CASE StopFailing(w)
  <2>1. \A v \in Child \ {w} : registry'[v] = registry[v]
    BY <1>0, <1>5 DEF StopFailing, Pop, TypeOK
  <2>2. NoneStarted
    BY <1>0, <1>5, StoppedStartsNone DEF StopFailing
  <2>3. job' = [job EXCEPT ![w] = Idle]
    BY <1>5 DEF StopFailing
  <2> QED
    BY <1>0, <2>1, <2>2, <2>3, FreedChild
<1>6. CASE ReadCleanExit(w)
  <2> DEFINE j == [job[w] EXCEPT !.stage = "exited", !.code = "none"]
  <2>1. j.run = job[w].run /\ j.cam = job[w].cam /\ j.stage = "exited"
    BY <1>0 DEF Job
  <2>2. /\ Following(w) /\ job' = [job EXCEPT ![w] = j] /\ proc' = proc
        /\ \A v \in Child \ {w} : registry'[v] = registry[v]
    BY <1>0, <1>6 DEF ReadCleanExit, Following, Pop, TypeOK
  <2> HIDE DEF j
  <2> QED
    BY <2>1, <2>2, FollowOn
<1>7. CASE NoticeExit(w)
  <2> DEFINE x == IF proc[job[w].run].state = "failed" THEN "failed" ELSE "clean"
  <2> DEFINE j == [job[w] EXCEPT !.stage = "exited", !.code = x]
  <2>1. j.run = job[w].run /\ j.cam = job[w].cam /\ j.stage = "exited"
    BY <1>0 DEF Job
  <2>2. /\ Following(w) /\ job' = [job EXCEPT ![w] = j] /\ proc' = proc
        /\ \A v \in Child \ {w} : registry'[v] = registry[v]
    BY <1>0, <1>7 DEF NoticeExit, Following, Pop, TypeOK
  <2> HIDE DEF j
  <2> QED
    BY <2>1, <2>2, FollowOn
<1>9. CASE Finish(w)
  BY <1>0, <1>9, FreedChild, SameStartsNone DEF Finish
<1> QED
  BY <1>1, <1>2, <1>3, <1>4, <1>5, <1>6, <1>7, <1>9 DEF StartTask

\* A step that leaves the children alone and starts no process keeps it too.
LEMMA BystandersOwn ==
  ASSUME Ownership, TypeOK', NoneStarted, job' = job,
         NEW w \in Child, job[w].stage \in Elsewhere,
         \A v \in Child \ {w} : registry'[v] = registry[v]
  PROVE  Ownership'
  BY FreeChild

\* A step of camera_health_check stops, pops and publishes.
LEMMA ServantsOwn ==
  ASSUME Ownership, TypeOK', NEW w \in Child, NEW c \in Camera,
         \/ CheckOff(w, c) \/ CheckAlive(w, c) \/ CheckOwnedElsewhere(w, c)
         \/ CheckRestart(w, c)
  PROVE  Ownership'
<1> USE DEF rows, broker, history
<1>1. TypeOK /\ job' = job
  BY DEF Ownership, CheckOff, CheckAlive, CheckOwnedElsewhere, CheckRestart
<1>2. job[w].stage \in Elsewhere
  BY DEF CheckOff, CheckAlive, CheckOwnedElsewhere, CheckRestart, Checking, Elsewhere
<1>3. \A v \in Child \ {w} : registry'[v] = registry[v]
  BY <1>1 DEF CheckOff, CheckAlive, CheckOwnedElsewhere, CheckRestart, Pop, TypeOK
<1>4. proc' = proc \/ proc' = Stopped(registry[w][c])
  BY DEF CheckOff, CheckAlive, CheckOwnedElsewhere, CheckRestart
<1>5. NoneStarted
  BY <1>1, <1>4, StoppedStartsNone, SameStartsNone
<1> QED
  BY <1>1, <1>2, <1>3, <1>5, BystandersOwn

\* What a step of stop_recording makes of the job of its child.
LEMMA StopperJobs ==
  ASSUME NEW w \in Child, StopTask(w) \/ \E c \in Camera : StopRecording(w, c)
  PROVE  \E j : /\ job' = [job EXCEPT ![w] = j] /\ j.stage \in Elsewhere
                /\ j.seen = 0 /\ j.indexed = [k \in 1..MaxFiles |-> 0]
<1>1. CASE \E c \in Camera : StopRecording(w, c)
  <2>1. PICK c \in Camera : StopRecording(w, c)
    BY <1>1
  <2>2. PICK j : j = [Idle EXCEPT !.stage = "stopping", !.cam = c, !.run = registry[w][c]]
    OBVIOUS
  <2>3. job' = [job EXCEPT ![w] = j]
    BY <2>1, <2>2 DEF StopRecording
  <2>4. j.stage = "stopping" /\ j.seen = 0 /\ j.indexed = [k \in 1..MaxFiles |-> 0]
    BY <2>2 DEF Idle
  <2> QED
    BY <2>3, <2>4 DEF Elsewhere
<1>2. CASE StopProcess(w)
  <2>1. PICK j : j = [Idle EXCEPT !.stage = "stopped", !.cam = job[w].cam]
    OBVIOUS
  <2>2. job' = [job EXCEPT ![w] = j]
    BY <1>2, <2>1 DEF StopProcess
  <2>3. j.stage = "stopped" /\ j.seen = 0 /\ j.indexed = [k \in 1..MaxFiles |-> 0]
    BY <2>1 DEF Idle
  <2> QED
    BY <2>2, <2>3 DEF Elsewhere
<1>3. CASE MarkStopped(w)
  <2>1. job' = [job EXCEPT ![w] = Idle]
    BY <1>3 DEF MarkStopped
  <2>2. Idle.stage = "idle" /\ Idle.seen = 0 /\ Idle.indexed = [k \in 1..MaxFiles |-> 0]
    BY DEF Idle
  <2> QED
    BY <2>1, <2>2 DEF Elsewhere
<1> QED
  BY <1>1, <1>2, <1>3 DEF StopTask

\* Where a child that takes a step of stop_recording comes from.
LEMMA StopperStages ==
  ASSUME NEW w \in Child, StopTask(w) \/ \E c \in Camera : StopRecording(w, c)
  PROVE  job[w].stage \in Elsewhere
<1>1. Idle.stage = "idle"
  BY DEF Idle
<1>2. ASSUME NEW c \in Camera, StopRecording(w, c) PROVE job[w].stage = "idle"
  BY <1>1, <1>2 DEF StopRecording
<1>3. StopTask(w) => job[w].stage \in {"stopping", "stopped"}
  BY DEF StopTask, StopProcess, MarkStopped
<1> QED
  BY <1>2, <1>3 DEF Elsewhere

\* So does one of stop_recording.
LEMMA StoppersOwn ==
  ASSUME Ownership, TypeOK', NEW w \in Child, StopTask(w) \/ \E c \in Camera : StopRecording(w, c)
  PROVE  Ownership'
<1> USE DEF rows, broker, history
<1>0. TypeOK
  BY DEF Ownership
<1>1. PICK j : job' = [job EXCEPT ![w] = j] /\ j.stage \in Elsewhere
  BY StopperJobs
<1>2. job'[w] = j /\ \A v \in Child \ {w} : job'[v] = job[v]
  BY <1>0, <1>1 DEF TypeOK
<1>3. \A v \in Child \ {w} : registry'[v] = registry[v]
  BY <1>0 DEF StopTask, StopRecording, StopProcess, MarkStopped, Pop, TypeOK
<1>4. proc' = proc \/ proc' = Stopped(job[w].run)
  BY DEF StopTask, StopRecording, StopProcess, MarkStopped
<1>5. NoneStarted
  BY <1>0, <1>4, StoppedStartsNone, SameStartsNone
<1> QED
  BY <1>1, <1>2, <1>3, <1>5, FreeChild

\* A step that changes neither the children nor the registries, and starts nothing.
LEMMA OutsidersOwn ==
  ASSUME Ownership, TypeOK', NoneStarted, job' = job, registry' = registry
  PROVE  Ownership'
<1>1. FreshJobs' /\ FollowedIsRegistered' /\ FollowersAreDisjoint'
  BY DEF Ownership, FreshJobs, FollowedIsRegistered, FollowersAreDisjoint,
         NoneStarted, Following, InTask, Running
<1>2. StartsAreFresh'
  BY DEF Ownership, StartsAreFresh, NoneStarted, Running
<1> QED
  BY <1>1, <1>2 DEF Ownership

\* Every step keeps the ownership of processes.
LEMMA OwnershipStep == Ownership /\ [Next]_vars => Ownership'
<1> SUFFICES ASSUME Ownership, [Next]_vars PROVE Ownership'
  OBVIOUS
<1> USE DEF rows, broker, history
<1>0. TypeOK /\ TypeOK' /\ Idle.stage \in Elsewhere
  BY TypeStep DEF Ownership, Idle, Elsewhere
<1>1. ASSUME NEW w \in Child, NEW c \in Camera, TakeStart(w, c) PROVE Ownership'
  BY <1>0, <1>1, TakeStartOwns
<1>2. ASSUME NEW w \in Child, StartTask(w) PROVE Ownership'
  BY <1>0, <1>2, StartTaskOwns
<1>3. ASSUME NEW w \in Child, ReadError(w) \/ ReadLastError(w) PROVE Ownership'
  <2>0. job[w] \in Job
    BY <1>0 DEF TypeOK
  <2>1. CASE ReadError(w)
    <3> DEFINE j == [job[w] EXCEPT !.errs = job[w].errs + 1]
    <3>1. j.run = job[w].run /\ j.cam = job[w].cam /\ j.stage = job[w].stage
      BY <2>0 DEF Job
    <3>2. /\ Following(w) /\ job[w].stage = "monitor"
          /\ job' = [job EXCEPT ![w] = j] /\ registry' = registry /\ proc' = proc
      BY <2>1 DEF ReadError, Following
    <3> HIDE DEF j
    <3> QED
      BY <1>0, <3>1, <3>2, FollowOn
  <2>2. CASE ReadLastError(w)
    <3> DEFINE j == [job[w] EXCEPT !.stage = "failing", !.errs = job[w].errs + 1]
    <3>1. j.run = job[w].run /\ j.cam = job[w].cam /\ j.stage = "failing"
      BY <2>0 DEF Job
    <3>2. /\ Following(w) /\ job[w].stage = "monitor"
          /\ job' = [job EXCEPT ![w] = j] /\ registry' = registry /\ proc' = proc
      BY <2>2 DEF ReadLastError, Following
    <3> HIDE DEF j
    <3> QED
      BY <1>0, <3>1, <3>2, FollowOn
  <2> QED
    BY <1>3, <2>1, <2>2
<1>4. ASSUME NEW w \in Child, BeginCheck(w) PROVE Ownership'
  <2> DEFINE j == [Idle EXCEPT !.stage = "health"]
  <2>1. j.stage \in Elsewhere
    BY DEF Idle, Elsewhere
  <2>2. job' = [job EXCEPT ![w] = j] /\ registry' = registry /\ proc' = proc
    BY <1>4 DEF BeginCheck
  <2> HIDE DEF j
  <2>3. job'[w] = j /\ \A v \in Child \ {w} : job'[v] = job[v] /\ registry'[v] = registry[v]
    BY <1>0, <2>2 DEF TypeOK
  <2> QED
    BY <1>0, <2>1, <2>2, <2>3, FreeChild, SameStartsNone
<1>5. ASSUME NEW w \in Child, HealthTask(w) PROVE Ownership'
  <2>1. CASE EndCheck(w)
    BY <1>0, <2>1, FreedChild, SameStartsNone DEF EndCheck
  <2> QED
    BY <1>0, <1>5, <2>1, ServantsOwn DEF HealthTask
<1>6. ASSUME NEW w \in Child, StopTask(w) \/ \E c \in Camera : StopRecording(w, c)
      PROVE  Ownership'
  BY <1>0, <1>6, StoppersOwn
<1>14. ASSUME NEW w \in Child, NEW there \in BOOLEAN, ReadUnmatched(w, there) PROVE Ownership'
  BY <1>0, <1>14, ClosingOwns
<1>7. ASSUME NEW w \in Child, StartAllRecordings(w) \/ Redeliver(w) PROVE Ownership'
  <2>1. job' = job /\ registry' = registry /\ proc' = proc
    BY <1>7 DEF StartAllRecordings, Redeliver
  <2> QED
    BY <1>0, <2>1, OutsidersOwn, SameStartsNone
<1>8. ASSUME NEW w \in Child, Abort(w) \/ ChildDies(w) PROVE Ownership'
  <2>1. job' = [job EXCEPT ![w] = Idle] /\ proc' = proc
    BY <1>8 DEF Abort, ChildDies
  <2>2. \A v \in Child \ {w} : registry'[v] = registry[v]
    <3>1. CASE registry' = registry
      BY <3>1
    <3>2. CASE registry' = [registry EXCEPT ![w] = NoEntries]
      BY <1>0, <3>2 DEF TypeOK
    <3> QED
      BY <1>8, <3>1, <3>2 DEF Abort, ChildDies
  <2> QED
    BY <1>0, <2>1, <2>2, FreedChild, SameStartsNone
<1>9. CASE Beat
  BY <1>0, <1>9, OutsidersOwn, SameStartsNone DEF Beat
<1>10. ASSUME NEW c \in Camera, SetMode(c) \/ DeleteCamera(c) PROVE Ownership'
  BY <1>0, <1>10, OutsidersOwn, SameStartsNone DEF SetMode, DeleteCamera
<1>11. ASSUME NEW p \in Proc, OpenFile(p) \/ Terminate(p) \/ Exit(p) PROVE Ownership'
  <2>1. NoneStarted
    BY <1>0, <1>11
    DEF OpenFile, Terminate, Exit, NoneStarted, Alive, Running, Gone, TypeOK, Process
  <2>2. job' = job /\ registry' = registry
    BY <1>11 DEF OpenFile, Terminate, Exit
  <2> QED
    BY <1>0, <2>1, <2>2, OutsidersOwn
<1>12. CASE NodeRestart
  <2>1. \A w \in Child : job'[w] = Idle
    BY <1>12 DEF NodeRestart
  <2>2. \A w \in Child : job'[w].stage = "idle"
    BY <2>1 DEF Idle
  <2> QED
    BY <1>0, <2>2 DEF Ownership, FreshJobs, FollowedIsRegistered, FollowersAreDisjoint,
                      StartsAreFresh, Following, InTask
<1>13. CASE UNCHANGED vars
  BY <1>0, <1>13, OutsidersOwn, SameStartsNone DEF vars
<1> QED
  BY <1>1, <1>2, <1>3, <1>4, <1>5, <1>6, <1>7, <1>8, <1>9, <1>10, <1>11, <1>12, <1>13,
     <1>14 DEF Next

\* The inductive invariant holds in every behaviour.
LEMMA OwnershipKept == Spec => []Ownership
<1>1. Init => Ownership
  <2> SUFFICES ASSUME Init PROVE Ownership
    OBVIOUS
  <2>1. \A w \in Child : job[w] = Idle
    BY DEF Init
  <2> QED
    BY <2>1, TypeInit DEF Ownership, FreshJobs, FollowedIsRegistered, FollowersAreDisjoint,
                StartsAreFresh, Following, InTask, Idle
<1> QED
  BY <1>1, OwnershipStep, PTL DEF Spec

-----------------------------------------------------------------------------
(* The segment rows *)

\* A step in which a task goes on, without having been closed, with the same files
\* and the same rows keeps the account.
LEMMA SameAccount ==
  ASSUME NEW j, NEW i, Accounted(j), i.seen = j.seen, i.indexed = j.indexed, i.odd = j.odd,
         i.stage # "closed", j.stage # "closed"
  PROVE  Accounted(i)
  BY DEF Accounted

\* Nothing is owed by a child without a task.
LEMMA NothingOwed ==
  ASSUME NEW i, i.seen = 0, i.indexed = [k \in 1..MaxFiles |-> 0] PROVE Accounted(i)
  BY ConstantsOK DEF Accounted

\* Every job of every child is accounted for after every step.
LEMMA LedgerStep == TypeOK /\ SegmentLedger /\ [Next]_vars => SegmentLedger'
<1> SUFFICES ASSUME TypeOK, SegmentLedger, [Next]_vars, NEW w \in Child PROVE Accounted(job'[w])
  BY DEF SegmentLedger, Accounted
<1>0. job[w] \in Job /\ Accounted(job[w])
  BY DEF TypeOK, SegmentLedger
<1>1. CASE job'[w] = job[w]
  BY <1>0, <1>1
<1>2. CASE job'[w].seen = 0 /\ job'[w].indexed = [k \in 1..MaxFiles |-> 0]
  BY <1>2, NothingOwed
<1>3. CASE /\ job'[w].seen = job[w].seen
           /\ job'[w].indexed = job[w].indexed
           /\ job'[w].odd = job[w].odd
           /\ job'[w].stage # "closed"
           /\ job[w].stage # "closed"
  BY <1>0, <1>3, SameAccount
<1>4. ASSUME NEW there \in BOOLEAN,
             ReadOpening(w, there) \/ ReadUnmatched(w, there) \/ CloseFinal(w, there)
      PROVE  Accounted(job'[w])
  <2>1. job[w].seen \in Nat
    BY <1>0 DEF Job
  <2>2. PICK c : c = CloseSegment(job[w], there)
    OBVIOUS
  <2>3. \A k \in 1..MaxFiles : k \notin c.odd =>
          k \notin job[w].odd
          /\ c.indexed[k] = IF k = job[w].seen THEN job[w].indexed[k] + 1 ELSE job[w].indexed[k]
    BY <1>0, <2>2, Closed
  <2>4. CASE ReadOpening(w, there)
    <3>1. /\ job'[w].seen = job[w].seen + 1 /\ job'[w].indexed = c.indexed /\ job'[w].odd = c.odd
          /\ job'[w].stage = "monitor" /\ job[w].stage = "monitor"
      BY <2>2, <2>4, ClosingJobs
    <3> QED
      BY <1>0, <2>1, <2>3, <3>1 DEF Accounted
  <2>5. CASE ReadUnmatched(w, there)
    <3>1. /\ job'[w].seen = job[w].seen /\ job'[w].indexed = c.indexed
          /\ job'[w].odd = job[w].odd \cup {job[w].seen}
          /\ job'[w].stage = "monitor" /\ job[w].stage = "monitor"
      BY <2>2, <2>5, ClosingJobs
    <3>2. \A k \in 1..MaxFiles : k \notin job'[w].odd => k \notin c.odd /\ k # job[w].seen
      BY <2>2, <3>1 DEF CloseSegment
    <3> QED
      BY <1>0, <2>1, <2>3, <3>1, <3>2 DEF Accounted
  <2>6. CASE CloseFinal(w, there)
    <3>1. /\ job'[w].seen = job[w].seen /\ job'[w].indexed = c.indexed /\ job'[w].odd = c.odd
          /\ job'[w].stage = "closed" /\ job[w].stage = "exited"
      BY <2>2, <2>6, ClosingJobs
    <3> QED
      BY <1>0, <2>1, <2>3, <3>1 DEF Accounted
  <2> QED
    BY <1>4, <2>4, <2>5, <2>6
<1> DEFINE Kept == job'[w] = job[w]
<1> DEFINE Cleared == job'[w].seen = 0 /\ job'[w].indexed = [k \in 1..MaxFiles |-> 0]
<1> DEFINE Onward == /\ job'[w].seen = job[w].seen
                     /\ job'[w].indexed = job[w].indexed
                     /\ job'[w].odd = job[w].odd
                     /\ job'[w].stage # "closed"
                     /\ job[w].stage # "closed"
<1> HIDE DEF Kept, Cleared, Onward
<1> USE DEF rows, broker, history
<1>6. ASSUME NEW v \in Child, NEW c \in Camera, TakeStart(v, c) PROVE Kept \/ Cleared
  <2>1. \/ job' = job
        \/ job' = [job EXCEPT ![v] = [Idle EXCEPT !.stage = "starting", !.cam = c]]
    BY <1>6 DEF TakeStart
  <2> QED
    BY <2>1 DEF TypeOK, Kept, Cleared, Idle
<1>7. ASSUME NEW v \in Child, StartTask(v),
             ~\E there \in BOOLEAN : ReadOpening(w, there) \/ CloseFinal(w, there)
      PROVE Kept \/ Cleared \/ Onward
  <2>1. CASE v # w
    <3>1. ASSUME NEW p \in Proc, Spawn(v, p) PROVE Kept
      BY <2>1, <3>1 DEF Spawn, TypeOK, Kept
    <3>2. ASSUME NEW there \in BOOLEAN, ReadOpening(v, there) \/ CloseFinal(v, there)
          PROVE  Kept
      BY <2>1, <3>2 DEF ReadOpening, CloseFinal, TypeOK, Kept
    <3>3. CASE \/ SpawnFails(v) \/ MarkRecording(v) \/ StopFailing(v) \/ ReadCleanExit(v)
               \/ NoticeExit(v) \/ Finish(v)
      BY <2>1, <3>3 DEF SpawnFails, MarkRecording, StopFailing, ReadCleanExit, NoticeExit,
                        Finish, TypeOK, Kept
    <3> QED
      BY <1>7, <3>1, <3>2, <3>3 DEF StartTask
  <2>2. CASE v = w
    <3>1. ASSUME NEW p \in Proc, Spawn(w, p) PROVE Onward
      BY <1>0, <3>1 DEF Spawn, TypeOK, Onward, Job
    <3>2. CASE SpawnFails(w)
      BY <3>2 DEF SpawnFails, TypeOK, Cleared, Idle
    <3>3. CASE MarkRecording(w)
      BY <1>0, <3>3 DEF MarkRecording, TypeOK, Onward, Job
    <3>4. CASE StopFailing(w)
      BY <3>4 DEF StopFailing, TypeOK, Cleared, Idle
    <3>5. CASE ReadCleanExit(w)
      BY <1>0, <3>5 DEF ReadCleanExit, TypeOK, Onward, Job
    <3>6. CASE NoticeExit(w)
      BY <1>0, <3>6 DEF NoticeExit, TypeOK, Onward, Job
    <3>7. CASE Finish(w)
      BY <3>7 DEF Finish, TypeOK, Cleared, Idle
    <3> QED
      BY <1>7, <2>2, <3>1, <3>2, <3>3, <3>4, <3>5, <3>6, <3>7 DEF StartTask
  <2> QED
    BY <2>1, <2>2
<1>8. ASSUME NEW v \in Child, ReadError(v) \/ ReadLastError(v) PROVE Kept \/ Onward
  <2>1. CASE v # w
    BY <1>8, <2>1 DEF ReadError, ReadLastError, TypeOK, Kept
  <2>2. CASE v = w /\ ReadError(w)
    BY <1>0, <2>2 DEF ReadError, TypeOK, Onward, Job
  <2>3. CASE v = w /\ ReadLastError(w)
    BY <1>0, <2>3 DEF ReadLastError, TypeOK, Onward, Job
  <2> QED
    BY <1>8, <2>1, <2>2, <2>3
<1>9. ASSUME NEW v \in Child, BeginCheck(v) PROVE Kept \/ Cleared
  <2>1. job' = [job EXCEPT ![v] = [Idle EXCEPT !.stage = "health"]]
    BY <1>9 DEF BeginCheck
  <2> QED
    BY <2>1 DEF TypeOK, Kept, Cleared, Idle
<1>10. ASSUME NEW v \in Child, HealthTask(v) \/ Abort(v) \/ ChildDies(v) PROVE Kept \/ Cleared
  <2>1. job' = job \/ job' = [job EXCEPT ![v] = Idle]
    BY <1>10 DEF HealthTask, CheckOff, CheckAlive, CheckOwnedElsewhere, CheckRestart, EndCheck,
                 Abort, ChildDies
  <2>2. CASE job' = job
    BY <2>2 DEF Kept
  <2>3. CASE job' = [job EXCEPT ![v] = Idle]
    BY <2>3 DEF TypeOK, Kept, Cleared, Idle
  <2> QED
    BY <2>1, <2>2, <2>3
<1>11. CASE NodeRestart
  <2>1. job'[w] = Idle
    BY <1>11 DEF NodeRestart
  <2> QED
    BY <2>1, NothingOwed DEF Idle
<1>12. ASSUME NEW v \in Child, StopTask(v) \/ \E c \in Camera : StopRecording(v, c)
       PROVE  Kept \/ Cleared
  <2>1. PICK j : /\ job' = [job EXCEPT ![v] = j]
                 /\ j.seen = 0 /\ j.indexed = [k \in 1..MaxFiles |-> 0]
    BY <1>12, StopperJobs
  <2> QED
    BY <2>1 DEF TypeOK, Kept, Cleared
<1>16. ASSUME NEW v \in Child, NEW there \in BOOLEAN, ReadUnmatched(v, there), v # w PROVE Kept
  BY <1>16 DEF ReadUnmatched, TypeOK, Kept
<1>13. ASSUME NEW v \in Child, StartAllRecordings(v) \/ Redeliver(v) PROVE Kept
  BY <1>13 DEF StartAllRecordings, Redeliver, Kept
<1>14. CASE \/ Beat \/ UNCHANGED vars
            \/ \E c \in Camera : SetMode(c) \/ DeleteCamera(c)
            \/ \E p \in Proc : OpenFile(p) \/ Terminate(p) \/ Exit(p)
  BY <1>1, <1>14 DEF Beat, SetMode, DeleteCamera, OpenFile, Terminate, Exit, vars
<1>15. Kept \/ Cleared \/ Onward => Accounted(job'[w])
  BY <1>1, <1>2, <1>3 DEF Kept, Cleared, Onward
<1> QED
  BY <1>4, <1>6, <1>7, <1>8, <1>9, <1>10, <1>11, <1>12, <1>13, <1>14, <1>15,
     <1>16 DEF Next

\* Every file a recording task has left behind has exactly one row.
THEOREM LedgerKept == Spec => []SegmentLedger
<1>1. Init => SegmentLedger
  <2> SUFFICES ASSUME Init, NEW w \in Child PROVE Accounted(job[w])
    BY DEF SegmentLedger
  <2>1. job[w] = Idle
    BY DEF Init
  <2> QED
    BY <2>1, NothingOwed DEF Idle
<1> QED
  BY <1>1, LedgerStep, TypeCorrect, PTL DEF Spec

-----------------------------------------------------------------------------
(* Rows that say recording *)

Supervises(w, c) == job[w].cam = c /\ job[w].stage \in {"monitor", "exited", "closed"}

\* It is enough that no row begins to say recording, and that a supervisor lost is
\* a row or a camera given up.
LEMMA SupervisorsStay ==
  ASSUME RecordingIsSupervised,
         \A c \in Camera : status'[c] = "recording" /\ c \notin interrupted' =>
           status[c] = "recording" /\ c \notin interrupted,
         \A w \in Child, c \in Camera :
           Supervises(w, c) => \/ Supervises(w, c)'
                               \/ status'[c] # "recording"
                               \/ c \in interrupted'
  PROVE  RecordingIsSupervised'
  BY DEF RecordingIsSupervised, Supervises

\* Every step keeps rows that say recording supervised.
LEMMA SupervisedStep ==
  TypeOK /\ FreshJobs /\ RecordingIsSupervised /\ [Next]_vars => RecordingIsSupervised'
<1> SUFFICES ASSUME TypeOK, FreshJobs, RecordingIsSupervised, [Next]_vars
             PROVE  RecordingIsSupervised'
  OBVIOUS
<1> USE DEF rows, broker, history
<1>0. \A w \in Child : job[w] \in Job
  BY DEF TypeOK
<1>1. ASSUME interrupted' = interrupted, status' = status,
             NEW w \in Child, ~\E c \in Camera : Supervises(w, c) /\ ~Supervises(w, c)',
             \A v \in Child \ {w} : job'[v] = job[v]
      PROVE  RecordingIsSupervised'
  BY <1>1, SupervisorsStay DEF Supervises
<1>15. ASSUME NEW w \in Child, NEW there \in BOOLEAN,
              ReadOpening(w, there) \/ ReadUnmatched(w, there) \/ CloseFinal(w, there)
       PROVE  RecordingIsSupervised'
  <2>1. /\ job'[w].cam = job[w].cam /\ job[w].stage \in {"monitor", "exited"}
        /\ job'[w].stage \in {"monitor", "closed"}
    BY <1>15, ClosingJobs
  <2>2. interrupted' = interrupted /\ status' = status
    BY <1>15 DEF ReadOpening, ReadUnmatched, CloseFinal
  <2>3. \A v \in Child \ {w} : job'[v] = job[v]
    BY <1>15, ClosingTable
  <2> QED
    BY <1>1, <2>1, <2>2, <2>3 DEF Supervises
<1>2. ASSUME NEW w \in Child, NEW c \in Camera, TakeStart(w, c) PROVE RecordingIsSupervised'
  <2>1. job[w].stage = "idle"
    BY <1>2 DEF TakeStart, Idle
  <2>2. \A v \in Child \ {w} : job'[v] = job[v]
    BY <1>2 DEF TakeStart, TypeOK
  <2> QED
    BY <1>1, <1>2, <2>1, <2>2 DEF TakeStart, Supervises
<1>3. ASSUME NEW w \in Child, StartTask(w) PROVE RecordingIsSupervised'
  <2>1. ASSUME NEW p \in Proc, Spawn(w, p) PROVE RecordingIsSupervised'
    BY <1>1, <2>1 DEF Spawn, TypeOK, Supervises
  <2>2. CASE SpawnFails(w)
    BY <1>1, <2>2 DEF SpawnFails, TypeOK, Supervises
  <2>3. CASE MarkRecording(w)
    <3> DEFINE d == job[w].cam
    <3>1. d \in Camera /\ status' = [status EXCEPT ![d] = "recording"] /\ interrupted' = interrupted
      BY <2>3 DEF MarkRecording, FreshJobs, InTask
    <3>2. job'[w].cam = d /\ job'[w].stage = "monitor"
      BY <1>0, <2>3 DEF MarkRecording, TypeOK, Job
    <3>3. \A v \in Child : v # w => job'[v] = job[v]
      BY <2>3 DEF MarkRecording, TypeOK
    <3>4. job[w].stage = "spawned"
      BY <2>3 DEF MarkRecording
    <3> HIDE DEF d
    <3> QED
      BY <3>1, <3>2, <3>3, <3>4 DEF RecordingIsSupervised, Supervises, TypeOK
  <2>4. ASSUME NEW there \in BOOLEAN, ReadOpening(w, there) \/ CloseFinal(w, there)
        PROVE  RecordingIsSupervised'
    BY <1>15, <2>4
  <2>5. CASE StopFailing(w)
    BY <1>1, <2>5 DEF StopFailing, TypeOK, Supervises
  <2>6. CASE ReadCleanExit(w)
    <3>1. job'[w].cam = job[w].cam /\ job'[w].stage = "exited"
      BY <1>0, <2>6 DEF ReadCleanExit, TypeOK, Job
    <3> QED
      BY <1>1, <2>6, <3>1 DEF ReadCleanExit, TypeOK, Supervises
  <2>7. CASE NoticeExit(w)
    <3>1. job'[w].cam = job[w].cam /\ job'[w].stage = "exited"
      BY <1>0, <2>7 DEF NoticeExit, TypeOK, Job
    <3> QED
      BY <1>1, <2>7, <3>1 DEF NoticeExit, TypeOK, Supervises
  <2>9. CASE Finish(w)
    <3> DEFINE d == job[w].cam
    <3>1. /\ \A c \in Camera : status'[c] = IF c = d /\ status[c] = "recording"
                                           THEN "away" ELSE status[c]
          /\ interrupted' = interrupted
          /\ \A v \in Child : v # w => job'[v] = job[v]
      BY <2>9 DEF Finish, OfflineIfRecording, TypeOK
    <3> QED
      BY <3>1, SupervisorsStay DEF Supervises
  <2> QED
    BY <1>3, <2>1, <2>2, <2>3, <2>4, <2>5, <2>6, <2>7, <2>9 DEF StartTask
<1>4. ASSUME NEW w \in Child, ReadError(w) PROVE RecordingIsSupervised'
  <2>1. job'[w].cam = job[w].cam /\ job'[w].stage = job[w].stage
    BY <1>0, <1>4 DEF ReadError, TypeOK, Job
  <2> QED
    BY <1>1, <1>4, <2>1 DEF ReadError, TypeOK, Supervises
<1>5. ASSUME NEW w \in Child, ReadLastError(w) PROVE RecordingIsSupervised'
  <2> DEFINE d == job[w].cam
  <2>1. /\ \A c \in Camera : status'[c] = IF c = d THEN "error" ELSE status[c]
        /\ interrupted' = interrupted
        /\ \A v \in Child : v # w => job'[v] = job[v]
    BY <1>5 DEF ReadLastError, TypeOK
  <2> QED
    BY <2>1, SupervisorsStay DEF Supervises
<1>6. ASSUME NEW w \in Child, BeginCheck(w) PROVE RecordingIsSupervised'
  <2>1. job[w].stage = "idle"
    BY <1>6 DEF BeginCheck, Idle
  <2>2. \A v \in Child \ {w} : job'[v] = job[v]
    BY <1>6 DEF BeginCheck, TypeOK
  <2> QED
    BY <1>1, <1>6, <2>1, <2>2 DEF BeginCheck, Supervises
<1>7. ASSUME NEW w \in Child, NEW c \in Camera, CheckAlive(w, c) PROVE RecordingIsSupervised'
  <2>1. /\ \A d \in Camera : status'[d] = "recording" => status[d] = "recording"
        /\ interrupted' = interrupted /\ job' = job
    BY <1>7 DEF CheckAlive, TypeOK
  <2> QED
    BY <2>1, SupervisorsStay DEF Supervises
<1>16. ASSUME NEW w \in Child, StopTask(w) \/ \E c \in Camera : StopRecording(w, c)
       PROVE  RecordingIsSupervised'
  <2>1. /\ \A d \in Camera : status'[d] = "recording" => status[d] = "recording"
        /\ interrupted' = interrupted
    BY <1>16 DEF StopTask, StopRecording, StopProcess, MarkStopped, OfflineIfRecording, TypeOK
  <2>2. job[w].stage \notin {"monitor", "exited", "closed"}
    BY <1>16, StopperStages DEF Elsewhere
  <2>3. \A v \in Child : v # w => job'[v] = job[v]
    BY <1>16 DEF StopTask, StopRecording, StopProcess, MarkStopped, TypeOK
  <2> QED
    BY <2>1, <2>2, <2>3, SupervisorsStay DEF Supervises
<1>8. ASSUME NEW w \in Child, EndCheck(w) PROVE RecordingIsSupervised'
  BY <1>1, <1>8 DEF EndCheck, TypeOK, Supervises
<1>9. ASSUME NEW w \in Child, Abort(w) \/ ChildDies(w) PROVE RecordingIsSupervised'
  <2>1. /\ \A v \in Child : v # w => job'[v] = job[v]
        /\ status' = status /\ interrupted \subseteq interrupted'
        /\ \A c \in Camera : Supervises(w, c) => c \in interrupted'
    BY <1>9 DEF Abort, ChildDies, Fault, TaskCamera, Supervises, InTask, TypeOK
  <2> QED
    BY <2>1, SupervisorsStay DEF Supervises
<1>10. CASE NodeRestart
  <2>1. /\ status' = status /\ interrupted \subseteq interrupted'
        /\ \A w \in Child, c \in Camera : Supervises(w, c) => c \in interrupted'
    BY <1>10 DEF NodeRestart, Fault, TaskCamera, Supervises, InTask
  <2> QED
    BY <2>1, SupervisorsStay
<1>11. CASE status' = status /\ interrupted' = interrupted /\ job' = job
  BY <1>11, SupervisorsStay DEF Supervises
<1>12. ASSUME NEW w \in Child, NEW c \in Camera,
              CheckOff(w, c) \/ CheckOwnedElsewhere(w, c) \/ CheckRestart(w, c)
       PROVE  RecordingIsSupervised'
  BY <1>11, <1>12 DEF CheckOff, CheckOwnedElsewhere, CheckRestart
<1>13. ASSUME NEW w \in Child, StartAllRecordings(w) \/ Redeliver(w) PROVE RecordingIsSupervised'
  BY <1>11, <1>13 DEF StartAllRecordings, Redeliver
<1>14. CASE \/ Beat \/ UNCHANGED vars
            \/ \E c \in Camera : SetMode(c) \/ DeleteCamera(c)
            \/ \E p \in Proc : OpenFile(p) \/ Terminate(p) \/ Exit(p)
  BY <1>11, <1>14 DEF Beat, SetMode, DeleteCamera, OpenFile, Terminate, Exit, vars
<1> QED
  BY <1>2, <1>3, <1>4, <1>5, <1>6, <1>7, <1>8, <1>9, <1>10, <1>12, <1>13, <1>14,
     <1>15, <1>16
  DEF Next, HealthTask

\* A row that says recording has a task behind it, or a task that was cut short.
THEOREM Supervised == Spec => []RecordingIsSupervised
<1>1. Init => RecordingIsSupervised
  BY DEF Init, RecordingIsSupervised
<1>2. Ownership => TypeOK /\ FreshJobs
  BY DEF Ownership
<1> QED
  BY <1>1, <1>2, SupervisedStep, OwnershipKept, PTL DEF Spec

-----------------------------------------------------------------------------
(* Live processes *)

OwnsProcess(w, p) == /\ job[w].run = p
                     /\ job[w].cam = proc[p].cam
                     /\ job[w].stage \in {"spawned", "monitor", "failing"}
                     /\ registry[w][proc[p].cam] = p

\* It is enough that no process comes alive, and that an owner lost is a process
\* ended or a camera given up.
LEMMA OwnersStay ==
  ASSUME RecorderIsOwned,
         \A p \in Proc : Alive(p)' => Alive(p) /\ proc'[p].cam = proc[p].cam,
         interrupted \subseteq interrupted',
         \A w \in Child, p \in Proc :
           Alive(p) /\ OwnsProcess(w, p) => \/ OwnsProcess(w, p)'
                                            \/ ~Alive(p)'
                                            \/ proc[p].cam \in interrupted'
  PROVE  RecorderIsOwned'
<1> SUFFICES ASSUME NEW p \in Proc, Alive(p)', proc'[p].cam \notin interrupted'
             PROVE  \E w \in Child : OwnsProcess(w, p)'
  BY DEF RecorderIsOwned, OwnsProcess, Alive
<1>1. PICK w \in Child : OwnsProcess(w, p)
  BY DEF RecorderIsOwned, OwnsProcess
<1> QED
  BY <1>1

\* Every step keeps the live processes owned.
LEMMA OwnedStep == Ownership /\ RecorderIsOwned /\ [Next]_vars => RecorderIsOwned'
<1> SUFFICES ASSUME Ownership, RecorderIsOwned, [Next]_vars PROVE RecorderIsOwned'
  OBVIOUS
<1> USE DEF rows, broker, history
<1>0. TypeOK /\ FollowersAreDisjoint /\ FreshJobs /\ \A w \in Child : job[w] \in Job
  BY DEF Ownership, TypeOK
\* A child that owns nothing may do anything to itself.
<1>1. ASSUME interrupted' = interrupted, proc' = proc, NEW w \in Child,
             job[w].stage \notin {"spawned", "monitor", "failing"},
             \A v \in Child \ {w} : job'[v] = job[v] /\ registry'[v] = registry[v]
      PROVE  RecorderIsOwned'
  BY <1>1, OwnersStay DEF OwnsProcess, Alive
\* A child that goes on owning may change what ownership does not look at.
<1>2. ASSUME interrupted' = interrupted, proc' = proc, registry' = registry, NEW w \in Child,
             job'[w].run = job[w].run, job'[w].cam = job[w].cam,
             job'[w].stage \in {"monitor", "failing"},
             \A v \in Child \ {w} : job'[v] = job[v]
      PROVE  RecorderIsOwned'
  BY <1>2, OwnersStay DEF OwnsProcess, Alive
\* A child may let go of a process that is not alive.
<1>3. ASSUME interrupted' = interrupted, proc' = proc, NEW w \in Child, ~Alive(job[w].run),
             \A v \in Child \ {w} : job'[v] = job[v] /\ registry'[v] = registry[v]
      PROVE  RecorderIsOwned'
  BY <1>3, OwnersStay DEF OwnsProcess, Alive
<1>16. ASSUME NEW w \in Child, NEW there \in BOOLEAN,
              ReadOpening(w, there) \/ ReadUnmatched(w, there) \/ CloseFinal(w, there)
       PROVE  RecorderIsOwned'
  <2>1. /\ job'[w].run = job[w].run /\ job'[w].cam = job[w].cam
        /\ job'[w].stage = "monitor" \/ job[w].stage = "exited"
    BY <1>0, <1>16, ClosingJobs
  <2>2. interrupted' = interrupted /\ proc' = proc /\ registry' = registry
    BY <1>16 DEF ReadOpening, ReadUnmatched, CloseFinal
  <2>3. \A v \in Child \ {w} : job'[v] = job[v]
    BY <1>0, <1>16, ClosingTable
  <2> QED
    BY <1>1, <1>2, <2>1, <2>2, <2>3
<1>4. ASSUME NEW w \in Child, NEW c \in Camera, TakeStart(w, c) PROVE RecorderIsOwned'
  <2>1. job[w].stage = "idle"
    BY <1>4 DEF TakeStart, Idle
  <2>2. \A v \in Child \ {w} : job'[v] = job[v] /\ registry'[v] = registry[v]
    BY <1>0, <1>4 DEF TakeStart, TypeOK
  <2> QED
    BY <1>1, <1>4, <2>1, <2>2 DEF TakeStart
<1>5. ASSUME NEW w \in Child, StartTask(w) PROVE RecorderIsOwned'
  <2>1. ASSUME NEW p \in Proc, Spawn(w, p) PROVE RecorderIsOwned'
    <3> DEFINE d == job[w].cam
    <3>1. /\ d \in Camera /\ job[w].stage = "starting" /\ interrupted' = interrupted
          /\ job'[w].run = p /\ job'[w].cam = d /\ job'[w].stage = "spawned"
      BY <1>0, <2>1 DEF Spawn, TypeOK, Job, FreshJobs, InTask
    <3>2. /\ registry'[w][d] = p
          /\ \A v \in Child \ {w} : job'[v] = job[v] /\ registry'[v] = registry[v]
      BY <1>0, <2>1, <3>1 DEF Spawn, TypeOK
    <3>3. /\ proc'[p].cam = d
          /\ \A q \in Proc : q # p => proc'[q] = proc[q]
      BY <1>0, <2>1 DEF Spawn, TypeOK
    <3> HIDE DEF d
    <3> SUFFICES ASSUME NEW q \in Proc, Alive(q)', proc'[q].cam \notin interrupted'
                 PROVE  \E v \in Child : OwnsProcess(v, q)'
      BY DEF RecorderIsOwned, OwnsProcess, Alive
    <3>4. CASE q = p
      BY <3>1, <3>2, <3>3, <3>4 DEF OwnsProcess
    <3>5. CASE q # p
      <4>1. Alive(q) /\ proc[q].cam \notin interrupted
        BY <3>1, <3>3, <3>5 DEF Alive
      <4>2. PICK v \in Child : OwnsProcess(v, q)
        BY <4>1 DEF RecorderIsOwned, OwnsProcess
      <4>3. v # w
        BY <3>1, <4>2 DEF OwnsProcess
      <4> QED
        BY <3>2, <3>3, <3>5, <4>2, <4>3 DEF OwnsProcess
    <3> QED
      BY <3>4, <3>5
  <2>2. CASE SpawnFails(w)
    BY <1>0, <1>1, <2>2 DEF SpawnFails, TypeOK
  <2>3. CASE MarkRecording(w)
    <3>1. job'[w].run = job[w].run /\ job'[w].cam = job[w].cam /\ job'[w].stage = "monitor"
      BY <1>0, <2>3 DEF MarkRecording, TypeOK, Job
    <3> QED
      BY <1>0, <1>2, <2>3, <3>1 DEF MarkRecording, TypeOK
  <2>4. ASSUME NEW there \in BOOLEAN, ReadOpening(w, there) \/ CloseFinal(w, there)
        PROVE  RecorderIsOwned'
    BY <1>16, <2>4
  <2>5. CASE StopFailing(w)
    <3>1. /\ interrupted' = interrupted
          /\ \A v \in Child \ {w} : job'[v] = job[v] /\ registry'[v] = registry[v]
      BY <1>0, <2>5 DEF StopFailing, Pop, TypeOK
    <3>2. \A q \in Proc : /\ q = job[w].run => ~Alive(q)'
                          /\ q # job[w].run => proc'[q] = proc[q]
      BY <1>0, <2>5 DEF StopFailing, Stopped, Running, Alive, Gone, TypeOK
    <3>3. \A q \in Proc : Alive(q)' => Alive(q) /\ proc'[q] = proc[q]
      BY <3>2 DEF Alive
    <3>4. ASSUME NEW v \in Child, NEW q \in Proc, OwnsProcess(v, q), Alive(q)'
          PROVE  OwnsProcess(v, q)'
      <4>1. v # w
        BY <3>2, <3>4 DEF OwnsProcess, Alive
      <4> QED
        BY <3>1, <3>3, <3>4, <4>1 DEF OwnsProcess
    <3> QED
      BY <3>1, <3>3, <3>4, OwnersStay
  <2>6. CASE ReadCleanExit(w)
    <3>1. ~Alive(job[w].run)
      BY <2>6 DEF ReadCleanExit, Alive
    <3> QED
      BY <1>0, <1>3, <2>6, <3>1 DEF ReadCleanExit, Pop, TypeOK
  <2>7. CASE NoticeExit(w)
    <3>1. ~Alive(job[w].run)
      BY <2>7 DEF NoticeExit, Alive, Running
    <3> QED
      BY <1>0, <1>3, <2>7, <3>1 DEF NoticeExit, Pop, TypeOK
  <2>9. CASE Finish(w)
    BY <1>0, <1>1, <2>9 DEF Finish, TypeOK
  <2> QED
    BY <1>5, <2>1, <2>2, <2>3, <2>4, <2>5, <2>6, <2>7, <2>9 DEF StartTask
<1>6. ASSUME NEW w \in Child, ReadError(w) PROVE RecorderIsOwned'
  <2>1. job'[w].run = job[w].run /\ job'[w].cam = job[w].cam /\ job'[w].stage = "monitor"
    BY <1>0, <1>6 DEF ReadError, TypeOK, Job
  <2> QED
    BY <1>0, <1>2, <1>6, <2>1 DEF ReadError, TypeOK
<1>7. ASSUME NEW w \in Child, ReadLastError(w) PROVE RecorderIsOwned'
  <2>1. job'[w].run = job[w].run /\ job'[w].cam = job[w].cam /\ job'[w].stage = "failing"
    BY <1>0, <1>7 DEF ReadLastError, TypeOK, Job
  <2> QED
    BY <1>0, <1>2, <1>7, <2>1 DEF ReadLastError, TypeOK
<1>8. ASSUME NEW w \in Child, BeginCheck(w) \/ EndCheck(w) PROVE RecorderIsOwned'
  <2>1. job[w].stage \notin {"spawned", "monitor", "failing"}
    BY <1>8 DEF BeginCheck, EndCheck, Idle
  <2>2. \A v \in Child \ {w} : job'[v] = job[v] /\ registry'[v] = registry[v]
    BY <1>0, <1>8 DEF BeginCheck, EndCheck, TypeOK
  <2> QED
    BY <1>1, <1>8, <2>1, <2>2 DEF BeginCheck, EndCheck
<1>9. ASSUME NEW w \in Child, NEW c \in Camera,
             \/ CheckOff(w, c) \/ CheckAlive(w, c) \/ CheckOwnedElsewhere(w, c)
             \/ CheckRestart(w, c)
      PROVE  RecorderIsOwned'
  <2>1. /\ interrupted' = interrupted /\ job' = job
        /\ job[w].stage \notin {"spawned", "monitor", "failing"}
    BY <1>9 DEF CheckOff, CheckAlive, CheckOwnedElsewhere, CheckRestart,
                Checking, Idle
  <2>2. \A v \in Child \ {w} : registry'[v] = registry[v]
    BY <1>0, <1>9 DEF CheckOff, CheckAlive, CheckOwnedElsewhere, CheckRestart,
                      Pop, TypeOK
  <2>3. proc' = proc \/ proc' = Stopped(registry[w][c])
    BY <1>9 DEF CheckOff, CheckAlive, CheckOwnedElsewhere, CheckRestart
  <2>4. \A q \in Proc : Alive(q)' => proc'[q] = proc[q]
    BY <1>0, <2>3 DEF Stopped, Running, Alive, Gone, TypeOK
  <2> QED
    BY <2>1, <2>2, <2>4, OwnersStay DEF OwnsProcess, Alive
<1>17. ASSUME NEW w \in Child, StopTask(w) \/ \E c \in Camera : StopRecording(w, c)
       PROVE  RecorderIsOwned'
  <2>1. interrupted' = interrupted /\ job[w].stage \notin {"spawned", "monitor", "failing"}
    <3>1. interrupted' = interrupted
      BY <1>17 DEF StopTask, StopRecording, StopProcess, MarkStopped
    <3> QED
      BY <1>17, <3>1, StopperStages DEF Elsewhere
  <2>2. \A v \in Child \ {w} : job'[v] = job[v] /\ registry'[v] = registry[v]
    BY <1>0, <1>17 DEF StopTask, StopRecording, StopProcess, MarkStopped, Pop, TypeOK
  <2>3. proc' = proc \/ proc' = Stopped(job[w].run)
    BY <1>17 DEF StopTask, StopRecording, StopProcess, MarkStopped
  <2>4. \A q \in Proc : Alive(q)' => proc'[q] = proc[q]
    BY <1>0, <2>3 DEF Stopped, Running, Alive, Gone, TypeOK
  <2> QED
    BY <2>1, <2>2, <2>4, OwnersStay DEF OwnsProcess, Alive
<1>10. ASSUME NEW w \in Child, Abort(w) \/ ChildDies(w) PROVE RecorderIsOwned'
  <2>1. /\ proc' = proc /\ interrupted' = interrupted \cup TaskCamera(w)
        /\ \A v \in Child \ {w} : job'[v] = job[v] /\ registry'[v] = registry[v]
    BY <1>0, <1>10 DEF Abort, ChildDies, Fault, TypeOK
  <2>2. \A p \in Proc : OwnsProcess(w, p) => proc[p].cam \in interrupted'
    BY <1>0, <2>1 DEF OwnsProcess, TaskCamera, InTask, FreshJobs
  <2> QED
    BY <2>1, <2>2, OwnersStay DEF OwnsProcess, Alive
<1>11. CASE NodeRestart
  <2>1. \A p \in Proc : ~Alive(p)'
    BY <1>0, <1>11 DEF NodeRestart, Running, Alive, Gone, TypeOK
  <2> QED
    BY <2>1 DEF RecorderIsOwned
<1>12. CASE interrupted' = interrupted /\ job' = job /\ registry' = registry /\ proc' = proc
  BY <1>12, OwnersStay DEF OwnsProcess, Alive
<1>13. ASSUME NEW p \in Proc, OpenFile(p) \/ Terminate(p) \/ Exit(p) PROVE RecorderIsOwned'
  <2>1. /\ interrupted' = interrupted /\ job' = job /\ registry' = registry
        /\ \A q \in Proc : q # p => proc'[q] = proc[q]
    BY <1>0, <1>13 DEF OpenFile, Terminate, Exit, TypeOK
  <2>2. Alive(p)' => Alive(p) /\ proc'[p].cam = proc[p].cam
    <3>1. proc[p] \in Process
      BY <1>0 DEF TypeOK
    <3>2. CASE OpenFile(p)
      BY <1>0, <3>1, <3>2 DEF OpenFile, Alive, TypeOK, Process
    <3>3. CASE Terminate(p)
      BY <1>0, <3>1, <3>3 DEF Terminate, Alive, TypeOK, Process
    <3>4. CASE Exit(p)
      BY <1>0, <3>4 DEF Exit, Alive, Gone, TypeOK
    <3> QED
      BY <1>13, <3>2, <3>3, <3>4
  <2>3. \A q \in Proc : Alive(q)' => Alive(q) /\ proc'[q].cam = proc[q].cam
    BY <2>1, <2>2 DEF Alive
  <2> QED
    <3>1. ASSUME NEW v \in Child, NEW q \in Proc, OwnsProcess(v, q), Alive(q)'
          PROVE  OwnsProcess(v, q)'
      BY <2>1, <2>3, <3>1 DEF OwnsProcess, Alive
    <3> QED
      BY <2>1, <2>3, <3>1, OwnersStay
<1>14. ASSUME NEW w \in Child, StartAllRecordings(w) \/ Redeliver(w) PROVE RecorderIsOwned'
  BY <1>12, <1>14 DEF StartAllRecordings, Redeliver
<1>15. CASE Beat \/ UNCHANGED vars \/ \E c \in Camera : SetMode(c) \/ DeleteCamera(c)
  BY <1>12, <1>15 DEF Beat, SetMode, DeleteCamera, vars
<1> QED
  BY <1>4, <1>5, <1>6, <1>7, <1>8, <1>9, <1>10, <1>11, <1>13, <1>14, <1>15,
     <1>16, <1>17 DEF Next, HealthTask

\* A live FFmpeg process has an owner that monitors it, unless its task was cut short.
THEOREM RecordersOwned == Spec => []RecorderIsOwned
<1>1. Init => RecorderIsOwned
  BY DEF Init, RecorderIsOwned, Alive, Gone
<1> QED
  BY <1>1, OwnedStep, OwnershipKept, PTL DEF Spec

-----------------------------------------------------------------------------
(* Registry entries *)

\* The step of RunningEntryKept.
EntryKept(w, c) ==
  Running(registry[w][c]) /\ registry'[w][c] # registry[w][c] =>
    /\ registry'[w][c] = NoProc
    /\ \/ proc'[registry[w][c]].state # "alive"
       \/ job'[w].stage = "stopping" /\ job'[w].run = registry[w][c]
       \/ faults' # faults

\* Stopping the process of an entry ends it.
LEMMA StoppedIsGone ==
  ASSUME TypeOK, NEW p \in Proc, Running(p), proc' = Stopped(p)
  PROVE  proc'[p].state # "alive"
  BY DEF TypeOK, Stopped, Gone

\* Every step keeps the running entries, or ends their processes.
LEMMA EntryStep ==
  ASSUME Ownership, [Next]_vars, NEW w \in Child, NEW c \in Camera PROVE EntryKept(w, c)
<1> USE DEF rows, broker, history
<1>0. TypeOK
  BY DEF Ownership
<1>1. CASE registry' = registry
  BY <1>1 DEF EntryKept
<1>2. ASSUME NEW v \in Child, NEW p \in Proc, Spawn(v, p) PROVE EntryKept(w, c)
  <2>1. job[v].stage = "starting" /\ job[v].cam \in Camera
    BY <1>2 DEF Spawn, Ownership, FreshJobs, InTask
  <2>2. ~Running(registry[v][job[v].cam])
    BY <2>1 DEF Ownership, StartsAreFresh
  <2> QED
    BY <1>0, <1>2, <2>1, <2>2 DEF Spawn, EntryKept, TypeOK
<1>3. ASSUME NEW v \in Child, StopFailing(v) PROVE EntryKept(w, c)
  <2>1. registry[v][job[v].cam] = job[v].run /\ job[v].cam \in Camera
    BY <1>3 DEF StopFailing, Ownership, FollowedIsRegistered, FreshJobs, Following, InTask
  <2> QED
    BY <1>0, <1>3, <2>1, StoppedIsGone DEF StopFailing, Pop, EntryKept, TypeOK, Running
<1>4. ASSUME NEW v \in Child, ReadCleanExit(v) \/ NoticeExit(v) PROVE EntryKept(w, c)
  <2>1. registry[v][job[v].cam] = job[v].run /\ job[v].cam \in Camera
    BY <1>4 DEF ReadCleanExit, NoticeExit, Ownership, FollowedIsRegistered, FreshJobs,
                Following, InTask
  <2>2. Pop(v, job[v].cam) /\ proc' = proc
    BY <1>4 DEF ReadCleanExit, NoticeExit
  <2>3. ~Alive(job[v].run)
    BY <1>4 DEF ReadCleanExit, NoticeExit, Alive, Running
  <2> QED
    BY <1>0, <2>1, <2>2, <2>3 DEF Pop, EntryKept, TypeOK, Running, Alive
<1>5. ASSUME NEW v \in Child, NEW d \in Camera, CheckOff(v, d) PROVE EntryKept(w, c)
  <2>1. \/ registry' = registry
        \/ Pop(v, d) /\ proc' = Stopped(registry[v][d])
    BY <1>5 DEF CheckOff
  <2> QED
    BY <1>0, <1>1, <2>1, StoppedIsGone DEF Pop, EntryKept, TypeOK, Running
<1>15. ASSUME NEW v \in Child, NEW d \in Camera, StopRecording(v, d) PROVE EntryKept(w, c)
  <2>1. /\ registry' = [registry EXCEPT ![v][d] = NoProc]
        /\ job'[v].stage = "stopping" /\ job'[v].run = registry[v][d]
    BY <1>0, <1>15 DEF StopRecording, Pop, TypeOK, Idle
  <2> QED
    BY <1>0, <2>1 DEF EntryKept, TypeOK
<1>16. ASSUME NEW v \in Child, StopTask(v) PROVE registry' = registry
  BY <1>16 DEF StopTask, StopProcess, MarkStopped
<1>17. ASSUME NEW v \in Child, NEW there \in BOOLEAN,
              ReadOpening(v, there) \/ ReadUnmatched(v, there) \/ CloseFinal(v, there)
       PROVE  registry' = registry
  BY <1>17 DEF ReadOpening, ReadUnmatched, CloseFinal
<1>6. ASSUME NEW v \in Child, NEW d \in Camera, CheckRestart(v, d) PROVE EntryKept(w, c)
  BY <1>0, <1>6 DEF CheckRestart, Pop, EntryKept, TypeOK
<1>7. ASSUME NEW v \in Child, ChildDies(v) \/ NodeRestart PROVE EntryKept(w, c)
  <2>1. faults' # faults
    BY <1>0, <1>7, ConstantsOK DEF ChildDies, NodeRestart, Fault, TypeOK
  <2>2. registry'[w] = registry[w] \/ registry'[w] = NoEntries
    BY <1>0, <1>7 DEF ChildDies, NodeRestart, TypeOK
  <2> QED
    BY <2>1, <2>2 DEF EntryKept, NoEntries
<1>8. ASSUME NEW v \in Child, \/ SpawnFails(v) \/ MarkRecording(v) \/ Finish(v)
                               \/ ReadError(v) \/ ReadLastError(v)
      PROVE  registry' = registry
  BY <1>8 DEF SpawnFails, MarkRecording, Finish, ReadError, ReadLastError
<1>9. ASSUME NEW v \in Child, NEW d \in Camera,
             \/ TakeStart(v, d) \/ BeginCheck(v) \/ CheckAlive(v, d)
             \/ CheckOwnedElsewhere(v, d) \/ EndCheck(v)
      PROVE  registry' = registry
  BY <1>9 DEF TakeStart, BeginCheck, CheckAlive, CheckOwnedElsewhere, EndCheck
<1>10. ASSUME NEW v \in Child, StartAllRecordings(v) \/ Redeliver(v) \/ Abort(v)
       PROVE  registry' = registry
  BY <1>10 DEF StartAllRecordings, Redeliver, Abort
<1>11. ASSUME \/ Beat \/ UNCHANGED vars
              \/ \E d \in Camera : SetMode(d) \/ DeleteCamera(d)
              \/ \E p \in Proc : OpenFile(p) \/ Terminate(p) \/ Exit(p)
       PROVE  registry' = registry
  BY <1>11 DEF Beat, SetMode, DeleteCamera, OpenFile, Terminate, Exit, vars
<1>12. ASSUME NEW v \in Child, StartTask(v) PROVE EntryKept(w, c)
  BY <1>1, <1>2, <1>3, <1>4, <1>8, <1>12, <1>17 DEF StartTask
<1>13. ASSUME NEW v \in Child, HealthTask(v) PROVE EntryKept(w, c)
  <2>1. CASE EndCheck(v)
    BY <1>1, <2>1 DEF EndCheck
  <2> QED
    BY <1>1, <1>5, <1>6, <1>9, <1>13, <2>1 DEF HealthTask
<1>14. ASSUME NEW v \in Child, BeginCheck(v) PROVE registry' = registry
  BY <1>14 DEF BeginCheck
<1> QED
  BY <1>1, <1>5, <1>7, <1>8, <1>9, <1>10, <1>11, <1>12, <1>13, <1>14, <1>15,
     <1>16, <1>17 DEF Next

\* A child never forgets a running process without a fault or its end.
THEOREM EntriesKept == Spec => RunningEntryKept
<1>1. Ownership /\ [Next]_vars =>
        [\A w \in Child, c \in Camera :
           Running(registry[w][c]) /\ registry'[w][c] # registry[w][c] =>
             /\ registry'[w][c] = NoProc
             /\ \/ proc'[registry[w][c]].state # "alive"
                \/ job'[w].stage = "stopping" /\ job'[w].run = registry[w][c]
                \/ faults' # faults]_vars
  BY EntryStep DEF EntryKept
<1> QED
  BY <1>1, OwnershipKept, PTL DEF Spec, RunningEntryKept
=============================================================================
