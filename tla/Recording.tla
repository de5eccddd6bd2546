------------------------------ MODULE Recording ------------------------------
(***************************************************************************)
(* Continuous recording: the Celery tasks nvr.start_recording,             *)
(* nvr.stop_recording, nvr.start_all_recordings and                        *)
(* nvr.camera_health_check, run by the prefork children of the worker, the *)
(* FFmpeg processes they supervise, and the camera rows they share.        *)
(*                                                                         *)
(* Each child has its own registry RUNNING_PROCESSES (module-level state   *)
(* of a forked process) and runs one task at a time; a start_recording     *)
(* task holds its child for as long as its FFmpeg process lives.  Children *)
(* see each other only through the camera rows and the broker.  A `_db()`  *)
(* block is one transaction, hence one step; what the code does between    *)
(* two such blocks can interleave with every other process.                *)
(***************************************************************************)
EXTENDS Naturals, FiniteSets

CONSTANTS
  Camera,      \* registered cameras
  HasUrl,      \* those whose rtsp_main_url is known
  Child,       \* prefork children of the Celery worker (--concurrency)
  Proc,        \* FFmpeg process slots: the slot of a dead process is reused
  NoCamera, NoProc,
  ManualTasks, \* whether operators send the tasks no code of the repository sends
  MaxErrors,   \* MAX_ERRORS of start_recording (10 in the code)
  MaxFiles,    \* bound: segment files one FFmpeg process opens
  MaxQueue,    \* bound: identical queued messages told apart
  MaxChecks,   \* bound: queued health checks told apart
  MaxFaults    \* bound: failed transactions, lost children, node restarts

ASSUME ConstantsOK ==
  /\ HasUrl \subseteq Camera
  /\ NoCamera \notin Camera
  /\ NoProc \notin Proc
  /\ {MaxErrors, MaxFiles, MaxQueue, MaxChecks, MaxFaults} \subseteq Nat
  /\ ManualTasks \in BOOLEAN
  /\ MaxErrors > 0
  /\ MaxQueue > 0

VARIABLES
  status,      \* cameras.status
  mode,        \* cameras.recording_mode, told apart only as off or not off
  deleted,     \* cameras whose is_deleted is set
  queue,       \* start_recording messages waiting, per camera
  checks,      \* camera_health_check messages waiting
  job,         \* what each child is doing
  plan,        \* the rows a running health check has loaded and not yet handled
  registry,    \* RUNNING_PROCESSES of each child
  proc,        \* the FFmpeg processes: state, camera, segment files opened so far
  faults,      \* faults so far
  interrupted  \* history: cameras whose start_recording task was cut short

rows    == <<status, mode, deleted>>
broker  == <<queue, checks>>
history == <<faults, interrupted>>
vars == <<rows, broker, job, plan, registry, proc, history>>

\* "away" stands for unknown, online, offline and unauthorized: the values these
\* tasks write but never tell apart.
Status == {"away", "error", "recording"}
Stage  == {"idle", "starting", "spawned", "monitor", "failing", "exited", "closed", "health",
           "stopping", "stopped"}
\* "exiting": has logged its clean-exit line and can still be polled as running;
\* "clean": gone with return code 0, 255 or -15; "failed": gone with another one.
ProcState == {"free", "alive", "exiting", "clean", "failed"}
Process == [state : ProcState, cam : Camera \cup {NoCamera}, opened : 0..MaxFiles]
Gone(s) == [state |-> s, cam |-> NoCamera, opened |-> 0]
\* What a loaded row makes the health check do; "done": nothing (any more).
Verdict == {"done", "off", "recording", "restart"}

Job == [stage : Stage, cam : Camera \cup {NoCamera},
        run : Proc \cup {NoProc}, seen : 0..MaxFiles, errs : 0..MaxErrors,
        code : {"none", "clean", "failed"},  \* returncode of the run, once it is over
        indexed : [1..MaxFiles -> Nat],      \* rows written per file of the run
        odd : SUBSET (1..MaxFiles)]          \* history: files gone or named by no line

Idle == [stage |-> "idle", cam |-> NoCamera, run |-> NoProc,
         seen |-> 0, errs |-> 0, code |-> "none",
         indexed |-> [k \in 1..MaxFiles |-> 0], odd |-> {}]

NothingPlanned == [c \in Camera |-> "done"]
NoEntries      == [c \in Camera |-> NoProc]

TypeOK ==
  /\ status \in [Camera -> Status]
  /\ mode \in [Camera -> {"on", "off"}]
  /\ deleted \in SUBSET Camera
  /\ queue \in [Camera -> 0..MaxQueue]
  /\ checks \in 0..MaxChecks
  /\ job \in [Child -> Job]
  /\ plan \in [Child -> [Camera -> Verdict]]
  /\ registry \in [Child -> [Camera -> Proc \cup {NoProc}]]
  /\ proc \in [Proc -> Process]
  /\ faults \in 0..MaxFaults
  /\ interrupted \in SUBSET Camera

Init ==
  /\ status = [c \in Camera |-> "away"]
  /\ mode = [c \in Camera |-> "on"]
  /\ deleted = {}
  /\ queue = [c \in Camera |-> 0]
  /\ checks = 0
  /\ job = [w \in Child |-> Idle]
  /\ plan = [w \in Child |-> NothingPlanned]
  /\ registry = [w \in Child |-> NoEntries]
  /\ proc = [p \in Proc |-> Gone("free")]
  /\ faults = 0
  /\ interrupted = {}
-----------------------------------------------------------------------------
(* Helpers *)

\* FFmpegProcess.is_running: poll() has not returned an exit code.
Alive(p)   == p \in Proc /\ proc[p].state = "alive"
Running(p) == p \in Proc /\ proc[p].state \in {"alive", "exiting"}

\* The start_recording checks on the camera row.
StartAllowed(c) == c \notin deleted /\ mode[c] = "on" /\ c \in HasUrl

\* Publishing a start_recording message.
Send(c) == [queue EXCEPT ![c] = IF @ < MaxQueue THEN @ + 1 ELSE @]

\* self.retry: the message is sent again, unless max_retries (20) are used up.
\* The count is abstracted to that choice.
Retries(c) == {queue, Send(c)}

\* A slot nobody refers to any more: a new process may take it.
Reusable(p) == /\ ~Running(p)
               /\ \A w \in Child : job[w].run # p /\ \A c \in Camera : registry[w][c] # p

\* RUNNING_PROCESSES.pop(camera_id, None)
Pop(w, c) == registry' = [registry EXCEPT ![w][c] = NoProc]

\* FFmpegProcess.stop: SIGTERM, then SIGKILL; on return the process is gone.
StopSkipped(p) == proc  \* mutant: the entry is dropped and nothing is stopped
Stopped(p) == IF Running(p) THEN [proc EXCEPT ![p] = Gone("clean")] ELSE proc

\* _close_segment: one more row for the file job j follows, if it follows one and that
\* is `there`.
CloseOpened(j, there) ==  \* mutant: the new path is assigned before the old one is closed
  IF j.seen = 0 THEN j
  ELSE IF there THEN [j EXCEPT !.indexed[j.seen + 1] = @ + 1]
  ELSE [j EXCEPT !.odd = @ \cup {j.seen}]
CloseSegment(j, there) ==
  IF j.seen = 0 THEN j
  ELSE IF there THEN [j EXCEPT !.indexed[j.seen] = @ + 1]
  ELSE [j EXCEPT !.odd = @ \cup {j.seen}]

InTask(w) == job[w].stage \in {"starting", "spawned", "monitor", "failing", "exited", "closed"}

\* camera.status is reset only when it still says recording.
StatusKept(c) == status' = status  \* mutant: the row is left as it is
OfflineIfRecording(c) ==
  status' = [status EXCEPT ![c] = IF @ = "recording" THEN "away" ELSE @]
-----------------------------------------------------------------------------
(* nvr.start_recording *)

\* The child takes a message: the task ends at once when this child already
\* runs the camera's process or when the row does not allow recording.
TakeStartAgain(w, c) ==  \* mutant: the registry is not looked at
  /\ job[w] = Idle
  /\ queue[c] > 0
  /\ queue' = [queue EXCEPT ![c] = @ - 1]
  /\ job' = IF ~StartAllowed(c)
            THEN job
            ELSE [job EXCEPT ![w] = [Idle EXCEPT !.stage = "starting", !.cam = c]]
  /\ UNCHANGED <<rows, checks, plan, registry, proc, history>>
TakeStart(w, c) ==
  /\ job[w] = Idle
  /\ queue[c] > 0
  /\ queue' = [queue EXCEPT ![c] = @ - 1]
  /\ job' = IF Running(registry[w][c]) \/ ~StartAllowed(c)
            THEN job
            ELSE [job EXCEPT ![w] = [Idle EXCEPT !.stage = "starting", !.cam = c]]
  /\ UNCHANGED <<rows, checks, plan, registry, proc, history>>

\* proc.start() succeeds and the process is registered.
Spawn(w, p) ==
  /\ job[w].stage = "starting"
  /\ Reusable(p)
  /\ proc' = [proc EXCEPT ![p] = [state |-> "alive", cam |-> job[w].cam, opened |-> 0]]
  /\ registry' = [registry EXCEPT ![w][job[w].cam] = p]
  /\ job' = [job EXCEPT ![w] = [job[w] EXCEPT !.stage = "spawned", !.run = p]]
  /\ UNCHANGED <<rows, broker, plan, history>>

\* proc.start() raises: the task asks to be retried.
SpawnFails(w) ==
  /\ job[w].stage = "starting"
  /\ queue' \in Retries(job[w].cam)
  /\ job' = [job EXCEPT ![w] = Idle]
  /\ UNCHANGED <<rows, checks, plan, registry, proc, history>>

\* The row says recording; the monitoring loop begins.
MarkRecording(w) ==
  /\ job[w].stage = "spawned"
  /\ status' = [status EXCEPT ![job[w].cam] = "recording"]
  /\ job' = [job EXCEPT ![w] = [job[w] EXCEPT !.stage = "monitor"]]
  /\ UNCHANGED <<mode, deleted, broker, plan, registry, proc, history>>

\* "Opening '...' for writing": close the previous segment, follow the new file.
ReadOpening(w, there) ==
  /\ job[w].stage = "monitor"
  /\ Running(job[w].run)
  /\ job[w].seen < proc[job[w].run].opened
  /\ job' = [job EXCEPT ![w] = [CloseSegment(job[w], there) EXCEPT !.seen = job[w].seen + 1]]
  /\ UNCHANGED <<rows, broker, plan, registry, proc, history>>

\* A line that speaks of opening an .mp4 and does not match the pattern: the segment is
\* closed and goes on being followed.  Bound: once for each file.
ReadUnmatched(w, there) ==
  /\ job[w].stage = "monitor"
  /\ Running(job[w].run)
  /\ job[w].seen \in 1..MaxFiles \ job[w].odd
  /\ job' = [job EXCEPT ![w] = [CloseSegment(job[w], there) EXCEPT
                                  !.odd = job[w].odd \cup {job[w].seen}]]
  /\ UNCHANGED <<rows, broker, plan, registry, proc, history>>

\* An error line below the limit; consecutive_errors is never reset in the loop.
ReadErrorLate(w) ==  \* mutant: the limit is tested with > instead of >=
  /\ job[w].stage = "monitor"
  /\ Running(job[w].run)
  /\ job[w].errs <= MaxErrors
  /\ job' = [job EXCEPT ![w] = [job[w] EXCEPT !.errs = @ + 1]]
  /\ UNCHANGED <<rows, broker, plan, registry, proc, history>>
ReadError(w) ==
  /\ job[w].stage = "monitor"
  /\ Running(job[w].run)
  /\ job[w].errs + 1 < MaxErrors
  /\ job' = [job EXCEPT ![w] = [job[w] EXCEPT !.errs = @ + 1]]
  /\ UNCHANGED <<rows, broker, plan, registry, proc, history>>

\* The error line that reaches the limit: the row says error.
ReadLastError(w) ==
  /\ job[w].stage = "monitor"
  /\ Running(job[w].run)
  /\ job[w].errs + 1 = MaxErrors
  /\ status' = [status EXCEPT ![job[w].cam] = "error"]
  /\ job' = [job EXCEPT ![w] = [job[w] EXCEPT !.stage = "failing", !.errs = @ + 1]]
  /\ UNCHANGED <<mode, deleted, broker, plan, registry, proc, history>>

\* Then the process is stopped and the task returns; the file it was writing
\* gets no row.
StopFailing(w) ==
  /\ job[w].stage = "failing"
  /\ proc' = Stopped(job[w].run)
  /\ Pop(w, job[w].cam)
  /\ job' = [job EXCEPT ![w] = Idle]
  /\ UNCHANGED <<rows, broker, plan, history>>

\* The clean-exit line breaks the loop before the process has been reaped, so its
\* returncode is None, which is none of 0, 255, -15.
ReadCleanExit(w) ==
  /\ job[w].stage = "monitor"
  /\ Running(job[w].run)
  /\ proc[job[w].run].state = "exiting"
  /\ Pop(w, job[w].cam)
  /\ job' = [job EXCEPT ![w] = [job[w] EXCEPT !.stage = "exited", !.code = "none"]]
  /\ UNCHANGED <<rows, broker, plan, proc, history>>

\* is_running() is false: lines not yet read stay unread.
NoticeExit(w) ==
  /\ job[w].stage = "monitor"
  /\ ~Running(job[w].run)
  /\ Pop(w, job[w].cam)
  /\ job' = [job EXCEPT ![w] = [job[w] EXCEPT !.stage = "exited",
                                         !.code = IF proc[job[w].run].state = "failed"
                                                  THEN "failed" ELSE "clean"]]
  /\ UNCHANGED <<rows, broker, plan, proc, history>>

\* Close the final segment.
CloseFinal(w, there) ==
  /\ job[w].stage = "exited"
  /\ job' = [job EXCEPT ![w] = [CloseSegment(job[w], there) EXCEPT !.stage = "closed"]]
  /\ UNCHANGED <<rows, broker, plan, registry, proc, history>>

\* Take the row out of recording, then end or retry.
Finish(w) ==
  /\ job[w].stage = "closed"
  /\ OfflineIfRecording(job[w].cam)
  /\ queue' \in IF job[w].code = "clean" THEN {queue} ELSE Retries(job[w].cam)
  /\ job' = [job EXCEPT ![w] = Idle]
  /\ UNCHANGED <<mode, deleted, checks, plan, registry, proc, history>>
-----------------------------------------------------------------------------
(* nvr.stop_recording and nvr.start_all_recordings: no code in the repository *)
(* sends them; an operator can.                                               *)

\* The entry is popped, then the process is stopped, which takes up to 5 seconds, then
\* the row is written.
StopRecording(w, c) ==
  /\ ManualTasks
  /\ job[w] = Idle
  /\ Pop(w, c)
  /\ job' = [job EXCEPT ![w] = [Idle EXCEPT !.stage = "stopping", !.cam = c,
                                            !.run = registry[w][c]]]
  /\ UNCHANGED <<rows, broker, plan, proc, history>>

StopProcess(w) ==
  /\ job[w].stage = "stopping"
  /\ proc' = Stopped(job[w].run)
  /\ job' = [job EXCEPT ![w] = [Idle EXCEPT !.stage = "stopped", !.cam = job[w].cam]]
  /\ UNCHANGED <<rows, broker, plan, registry, history>>

MarkStopped(w) ==
  /\ job[w].stage = "stopped"
  /\ OfflineIfRecording(job[w].cam)
  /\ job' = [job EXCEPT ![w] = Idle]
  /\ UNCHANGED <<mode, deleted, broker, plan, registry, proc, history>>

StartAllRecordings(w) ==
  /\ ManualTasks
  /\ job[w] = Idle
  /\ queue' = [c \in Camera |-> IF mode[c] = "on" /\ c \notin deleted
                                THEN Send(c)[c] ELSE queue[c]]
  /\ UNCHANGED <<rows, checks, job, plan, registry, proc, history>>
-----------------------------------------------------------------------------
(* nvr.camera_health_check *)

\* Celery Beat sends the task every 60 seconds.
Beat ==
  /\ checks < MaxChecks
  /\ checks' = checks + 1
  /\ UNCHANGED <<rows, queue, job, plan, registry, proc, history>>

\* What the health check does for a loaded row whose process is not this child's.
LoadForgiving(c) ==  \* mutant: a camera in error is left alone too
  IF mode[c] = "off" THEN "off" ELSE IF status[c] # "away" THEN "recording" ELSE "restart"
Load(c) ==
  IF mode[c] = "off" THEN "off" ELSE IF status[c] = "recording" THEN "recording" ELSE "restart"

\* One query loads every camera that is not deleted; the loop works on that copy.
BeginCheck(w) ==
  /\ job[w] = Idle
  /\ checks > 0
  /\ checks' = checks - 1
  /\ plan' = [plan EXCEPT ![w] = [c \in Camera |-> IF c \in deleted THEN "done" ELSE Load(c)]]
  /\ job' = [job EXCEPT ![w] = [Idle EXCEPT !.stage = "health"]]
  /\ UNCHANGED <<rows, queue, registry, proc, history>>

Checking(w, c) == job[w].stage = "health" /\ plan[w][c] # "done"
Checked(w, c)  == plan' = [plan EXCEPT ![w][c] = "done"]

\* recording_mode is off: stop this child's own process, if it runs one.
CheckOff(w, c) ==
  /\ Checking(w, c)
  /\ plan[w][c] = "off"
  /\ IF Running(registry[w][c])
     THEN proc' = Stopped(registry[w][c]) /\ Pop(w, c)
     ELSE UNCHANGED <<proc, registry>>
  /\ Checked(w, c)
  /\ UNCHANGED <<rows, broker, job, history>>

\* This child runs the process: ping the camera.  A ping that succeeds leaves
\* recording alone; one that fails does not.
CheckAlive(w, c) ==
  /\ Checking(w, c)
  /\ plan[w][c] # "off"
  /\ Running(registry[w][c])
  /\ \/ status' = [status EXCEPT ![c] = IF @ = "recording" THEN @ ELSE "away"]
     \/ status' = [status EXCEPT ![c] = "away"]
  /\ Checked(w, c)
  /\ UNCHANGED <<mode, deleted, broker, job, registry, proc, history>>

\* The row says recording: another child owns the process, do nothing.
CheckOwnedElsewhere(w, c) ==
  /\ Checking(w, c)
  /\ plan[w][c] = "recording"
  /\ ~Running(registry[w][c])
  /\ Checked(w, c)
  /\ UNCHANGED <<rows, broker, job, registry, proc, history>>

\* Not recording but should be: forget a dead process and send start_recording.
CheckRestart(w, c) ==
  /\ Checking(w, c)
  /\ plan[w][c] = "restart"
  /\ ~Running(registry[w][c])
  /\ Pop(w, c)
  /\ queue' = Send(c)
  /\ Checked(w, c)
  /\ UNCHANGED <<rows, checks, job, proc, history>>

EndCheck(w) ==
  /\ job[w].stage = "health"
  /\ plan[w] = NothingPlanned
  /\ job' = [job EXCEPT ![w] = Idle]
  /\ UNCHANGED <<rows, broker, plan, registry, proc, history>>
-----------------------------------------------------------------------------
(* The API: PATCH /cameras/{id}/recording-mode, DELETE /cameras/{id}.  Both *)
(* change the row and nothing else.                                         *)

SetMode(c) ==
  /\ c \notin deleted
  /\ mode' = [mode EXCEPT ![c] = IF @ = "on" THEN "off" ELSE "on"]
  /\ UNCHANGED <<status, deleted, broker, job, plan, registry, proc, history>>

DeleteCamera(c) ==
  /\ c \notin deleted
  /\ deleted' = deleted \cup {c}
  /\ UNCHANGED <<status, mode, broker, job, plan, registry, proc, history>>
-----------------------------------------------------------------------------
(* FFmpeg *)

\* The segment muxer finishes the current file and opens the next.
OpenFile(p) ==
  /\ Alive(p)
  /\ proc[p].opened < MaxFiles
  /\ proc' = [proc EXCEPT ![p] = [proc[p] EXCEPT !.opened = @ + 1]]
  /\ UNCHANGED <<rows, broker, job, plan, registry, history>>

\* A signal from outside makes FFmpeg finish its file and log a clean exit.
Terminate(p) ==
  /\ Alive(p)
  /\ proc' = [proc EXCEPT ![p] = [proc[p] EXCEPT !.state = "exiting"]]
  /\ UNCHANGED <<rows, broker, job, plan, registry, history>>

\* The stream ends, fails, or the process finishes a termination.
Exit(p) ==
  /\ Running(p)
  /\ \/ proc' = [proc EXCEPT ![p] = Gone("clean")]
     \/ Alive(p) /\ proc' = [proc EXCEPT ![p] = Gone("failed")]
  /\ UNCHANGED <<rows, broker, job, plan, registry, history>>
-----------------------------------------------------------------------------
(* The broker and the faults *)

\* task_acks_late: a start_recording message stays unacknowledged while its task
\* runs, and the Redis transport delivers it again after the visibility timeout.
Redeliver(w) ==
  /\ InTask(w)
  /\ queue[job[w].cam] < MaxQueue
  /\ queue' = Send(job[w].cam)
  /\ UNCHANGED <<rows, checks, job, plan, registry, proc, history>>

Fault(cs) ==
  /\ faults < MaxFaults
  /\ faults' = faults + 1
  /\ interrupted' = interrupted \cup cs

TaskCamera(w) == {c \in Camera : InTask(w) /\ job[w].cam = c}

\* A transaction fails: the exception ends the task and leaves the registry as
\* it is (camera_health_check catches it, rolls back and ends too).
Abort(w) ==
  /\ job[w].stage \in {"starting", "spawned", "monitor", "exited", "closed", "health",
                       "stopped"}
  /\ Fault(TaskCamera(w))
  /\ job' = [job EXCEPT ![w] = Idle]
  /\ plan' = [plan EXCEPT ![w] = NothingPlanned]
  /\ UNCHANGED <<rows, broker, registry, proc>>

\* The child is killed; the pool replaces it.  Its FFmpeg process lives on, its
\* message is acknowledged (task_reject_on_worker_lost is not set).
ChildDies(w) ==
  /\ Fault(TaskCamera(w))
  /\ job' = [job EXCEPT ![w] = Idle]
  /\ plan' = [plan EXCEPT ![w] = NothingPlanned]
  /\ registry' = [registry EXCEPT ![w] = NoEntries]
  /\ UNCHANGED <<rows, broker, proc>>

\* The worker container restarts: children and FFmpeg processes are gone, and the
\* unacknowledged start_recording messages are delivered again.
NodeRestart ==
  /\ Fault(UNION {TaskCamera(w) : w \in Child})
  /\ queue' = [c \in Camera |-> IF \E w \in Child : c \in TaskCamera(w)
                                THEN Send(c)[c] ELSE queue[c]]
  /\ job' = [w \in Child |-> Idle]
  /\ plan' = [w \in Child |-> NothingPlanned]
  /\ registry' = [w \in Child |-> NoEntries]
  /\ proc' = [p \in Proc |-> IF Running(p) THEN Gone("failed") ELSE proc[p]]
  /\ UNCHANGED <<rows, checks>>
-----------------------------------------------------------------------------
\* The steps of start_recording that depend on nothing but the task's own progress,
\* FFmpeg's output so far and FFmpeg's exit.
StartTask(w) ==
  \/ \E p \in Proc : Spawn(w, p)
  \/ SpawnFails(w)
  \/ MarkRecording(w)
  \/ \E there \in BOOLEAN : ReadOpening(w, there) \/ CloseFinal(w, there)
  \/ StopFailing(w)
  \/ ReadCleanExit(w)
  \/ NoticeExit(w)
  \/ Finish(w)

StopTask(w) == StopProcess(w) \/ MarkStopped(w)

HealthTask(w) ==
  \/ \E c \in Camera : \/ CheckOff(w, c)
                       \/ CheckAlive(w, c)
                       \/ CheckOwnedElsewhere(w, c)
                       \/ CheckRestart(w, c)
  \/ EndCheck(w)

Next ==
  \/ \E w \in Child :
       \/ \E c \in Camera : TakeStart(w, c)
       \/ StartTask(w)
       \/ ReadError(w)
       \/ ReadLastError(w)
       \/ \E there \in BOOLEAN : ReadUnmatched(w, there)
       \/ BeginCheck(w)
       \/ HealthTask(w)
       \/ \E c \in Camera : StopRecording(w, c)
       \/ StopTask(w)
       \/ StartAllRecordings(w)
       \/ Redeliver(w)
       \/ Abort(w)
       \/ ChildDies(w)
  \/ Beat
  \/ \E c \in Camera : SetMode(c) \/ DeleteCamera(c)
  \/ \E p \in Proc : OpenFile(p) \/ Terminate(p) \/ Exit(p)
  \/ NodeRestart

Spec == Init /\ [][Next]_vars

\* A child with a task keeps executing it; the beat keeps beating; when children are
\* free again and again, one of them gets to every kind of message in the end (the
\* broker list is served in order); a process that has logged its exit does exit.
\* Nothing is assumed of cameras, operators or FFmpeg's output.
Fairness ==
  /\ WF_vars(Beat)
  /\ \A w \in Child : WF_vars(StartTask(w)) /\ WF_vars(HealthTask(w)) /\ WF_vars(StopTask(w))
  /\ SF_vars(\E w \in Child : BeginCheck(w))
  /\ \A c \in Camera : SF_vars(\E w \in Child : TakeStart(w, c))
  /\ \A p \in Proc : WF_vars(proc[p].state = "exiting" /\ Exit(p))

FairSpec == Spec /\ Fairness
-----------------------------------------------------------------------------
(* Properties *)

\* A row that says "recording" is backed by a start_recording task past its
\* MarkRecording step, unless such a task of the camera was cut short.  The health
\* check relies on it: it never restarts a camera whose row says recording
\* (health_check.py:53-56).
RecordingIsSupervised ==
  \A c \in Camera : status[c] = "recording" /\ c \notin interrupted =>
    \E w \in Child : job[w].cam = c /\ job[w].stage \in {"monitor", "exited", "closed"}

\* A live FFmpeg process belongs to the child that monitors it and is in that
\* child's registry, unless its task was cut short ("Each recording task owns its
\* FFmpeg process", SPEC.md:907).  A process that is exiting may have been let go.
RecorderIsOwned ==
  \A p \in Proc : Alive(p) /\ proc[p].cam \notin interrupted =>
    \E w \in Child : /\ job[w].run = p
                     /\ job[w].cam = proc[p].cam
                     /\ job[w].stage \in {"spawned", "monitor", "failing"}
                     /\ registry[w][proc[p].cam] = p

\* While a task monitors a process, exactly the files before the one it follows
\* have a row, and each has exactly one; once the final segment is closed, so does
\* the last one it followed (recording.py:193-203, 255-256).  Files that were gone when
\* they were to be closed, or closed on a line that names no file, aside.
Accounted(j) ==
  \A k \in 1..MaxFiles : k \notin j.odd =>
    j.indexed[k] = IF k < j.seen \/ (k = j.seen /\ j.stage = "closed") THEN 1 ELSE 0
SegmentLedger == \A w \in Child : Accounted(job[w])

\* A running entry of RUNNING_PROCESSES is never overwritten with another process:
\* it is removed, and then the process is stopped or has ended, or is exiting, or
\* the task that removed it is about to stop it, or the child itself was lost (the
\* idempotency check, recording.py:127-131).
RunningEntryKept ==
  [][\A w \in Child, c \in Camera :
       Running(registry[w][c]) /\ registry'[w][c] # registry[w][c] =>
         /\ registry'[w][c] = NoProc
         /\ \/ proc'[registry[w][c]].state # "alive"
            \/ job'[w].stage = "stopping" /\ job'[w].run = registry[w][c]
            \/ faults' # faults]_vars

\* SPEC.md:1284: "all Celery tasks must be safe to retry.  Use DB state to detect
\* already-completed work"; recording.py:127: "Idempotency - already recording".  A
\* camera has one recorder at a time.  But start_recording looks at the registry of its
\* own child only: a second message, which Celery delivers to another child, starts a
\* second one.
OneRecorder ==
  \A p, q \in Proc : Alive(p) /\ Alive(q) /\ proc[p].cam = proc[q].cam => p = q

\* A camera that should be recorded and is not gets a start_recording task, or
\* stops being one that should (health_check.py:57-62).
ShouldRecord(c) == StartAllowed(c) /\ \A p \in Proc : Running(p) => proc[p].cam # c
CameraIsRestarted ==
  \A c \in Camera : ShouldRecord(c) ~>
    \/ ~ShouldRecord(c)
    \/ \E w \in Child : job[w].cam = c /\ job[w].stage = "starting"

\* A recorder whose process is gone is wound up: its task leaves the row in some
\* state other than recording, or another task of the camera records.
ExitIsRecorded ==
  \A w \in Child, c \in Camera :
    job[w].cam = c /\ job[w].stage = "monitor" /\ ~Running(job[w].run) ~>
      \/ status[c] # "recording"
      \/ \E v \in Child : job[v].cam = c /\ job[v].stage = "monitor" /\ Running(job[v].run)
=============================================================================
