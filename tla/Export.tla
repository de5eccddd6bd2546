------------------------------- MODULE Export -------------------------------
(***************************************************************************)
(* One export job: the request that creates its row and sends its task,    *)
(* the Celery task that encodes the footage of the range into a file, the  *)
(* download, and the purge that removes the file and the row when the link *)
(* has expired.  The footage the job reads is recorded and purged outside. *)
(*                                                                         *)
(* The request sends the task before it commits.  The broker acknowledges  *)
(* late and redelivers a task whose worker has died or that runs longer    *)
(* than its visibility timeout; the task of a child that is killed is      *)
(* acknowledged and lost.                                                  *)
(***************************************************************************)
EXTENDS Timeline

CONSTANTS
  Child,      \* children of the worker that can run the task
  Span,       \* the range asked for, <<from_dt, to_dt>>
  MaxSpan,    \* _MAX_EXPORT_HOURS
  MaxFaults   \* bound: redeliveries and deaths

ASSUME ExportOK ==
  /\ Span \in Nat \X Nat
  /\ MaxFaults \in Nat

VARIABLES
  footage,  \* the segments of the camera
  job,      \* the row of export_jobs
  due,      \* messages nvr.export_clip in the queue
  task,     \* what each child does
  disk,     \* the files of the job's directory
  purge,    \* what the purge of expired exports does
  mishap,   \* history: what keeps a job from being settled
  overlap,  \* history: two tasks of the job have run at a time
  faults,   \* how many of MaxFaults have come
  camera,   \* the camera exists and is not deleted
  held      \* the children that run another task

(* What goes on around the job. *)
around == <<camera, held>>

vars == <<footage, job, due, task, disk, purge, mishap, overlap, faults, around>>

(* A segment is usable, or marked corrupt, or has a row without its file. *)
Segment == [from : Nat, to : Nat, state : {"good", "corrupt", "missing"}]

(* "flushed" is a row that has not been committed, "absent" none (deleted  *)
(* by the purge, or rolled back).  `sum` is what the checksum was taken of.*)
Job == [status : {"new", "flushed", "queued", "processing", "completed", "failed", "absent"},
        file : {"none", "mp4", "zip"}, sum : Int, expires : {"none", "later", "past"},
        protected : BOOLEAN]

Stage == {"idle", "started", "encoding", "encoded", "ready"}

(* A file holds what the g-th run wrote into it: g when it is complete, -g *)
(* while it is being written or when that was broken off, 0 when absent.   *)
TypeOK ==
  /\ \A s \in footage : s \in Segment /\ s.from < s.to
  /\ job \in Job
  /\ due \in 0..(MaxFaults + 1)
  /\ task \in [Child -> [stage : Stage, run : 0..(MaxFaults + 1), file : {"none", "mp4", "zip"}]]
  /\ disk \in [{"mp4", "zip"} -> -(MaxFaults + 1)..(MaxFaults + 1)]
  /\ purge \in [step : {"idle", "selected", "unlinked"}, file : {"none", "mp4", "zip"}]
  /\ mishap \subseteq {"unsent", "missed", "lost", "unpurged"}
  /\ overlap \in BOOLEAN
  /\ faults \in 0..MaxFaults
  /\ camera \in BOOLEAN
  /\ held \subseteq Child

NoPurge == [step |-> "idle", file |-> "none"]

Idle == [stage |-> "idle", run |-> 0, file |-> "none"]

InitWith(initial) ==
  /\ footage = initial
  /\ job = [status |-> "new", file |-> "none", sum |-> 0, expires |-> "none",
            protected |-> FALSE]
  /\ due = 0
  /\ task = [c \in Child |-> Idle]
  /\ disk = [f \in {"mp4", "zip"} |-> 0]
  /\ purge = NoPurge
  /\ mishap = {}
  /\ overlap = FALSE
  /\ faults = 0
  /\ camera = TRUE
  /\ held = {}

Visible == job.status \notin {"new", "flushed", "absent"}

Running == {c \in Child : task[c].stage # "idle"}

(***************************************************************************)
(* The request                                                             *)
(***************************************************************************)

(* Refused when the range is empty, too long or without any segment, or    *)
(* the camera deleted.  That the task cannot be queued is only logged.     *)
CreateExportJob(protected, sent) ==
  /\ job.status = "new"
  /\ Span[1] < Span[2] /\ Span[2] - Span[1] <= MaxSpan
  /\ camera
  /\ InRange(footage, Span[1], Span[2]) # {}
  /\ job' = [job EXCEPT !.status = "flushed", !.protected = protected]
  /\ due' = IF sent THEN 1 ELSE 0
  /\ mishap' = IF sent THEN mishap ELSE mishap \cup {"unsent"}
  /\ UNCHANGED <<footage, task, disk, purge, overlap, faults, around>>

CommitJob ==
  /\ job.status = "flushed"
  /\ job' = [job EXCEPT !.status = "queued"]
  /\ UNCHANGED <<footage, due, task, disk, purge, mishap, overlap, faults, around>>

RollBackJob ==
  /\ job.status = "flushed"
  /\ job' = [job EXCEPT !.status = "absent"]
  /\ UNCHANGED <<footage, due, task, disk, purge, mishap, overlap, faults, around>>

(***************************************************************************)
(* The task                                                                *)
(***************************************************************************)

(* The number of the run that is next: faults + 1 messages were sent, `due` *)
(* of them are still in the queue.                                         *)
Runs == faults + 2 - due

Free(c) == task[c].stage = "idle" /\ c \notin held

TakeTwice(c) ==
  /\ Free(c) /\ job.status # "new" /\ Visible
  /\ due' = due - 1
  /\ task' = [task EXCEPT ![c] = [stage |-> "started", run |-> Runs, file |-> "none"]]
  /\ job' = [job EXCEPT !.status = "processing"]
  /\ overlap' = (overlap \/ Running # {})
  /\ UNCHANGED <<footage, disk, purge, mishap, faults, around>>

TakeAsItIs(c) ==
  /\ due > 0 /\ Free(c) /\ Visible
  /\ due' = due - 1
  /\ task' = [task EXCEPT ![c] = [stage |-> "started", run |-> Runs, file |-> "none"]]
  /\ job' = [job EXCEPT !.status = IF job.status = "completed" THEN @ ELSE "processing"]
  /\ overlap' = (overlap \/ Running # {})
  /\ UNCHANGED <<footage, disk, purge, mishap, faults, around>>

(* A job that is done already is started over. *)
Take(c) ==
  /\ due > 0 /\ Free(c) /\ Visible
  /\ due' = due - 1
  /\ task' = [task EXCEPT ![c] = [stage |-> "started", run |-> Runs, file |-> "none"]]
  /\ job' = [job EXCEPT !.status = "processing"]
  /\ overlap' = (overlap \/ Running # {})
  /\ UNCHANGED <<footage, disk, purge, mishap, faults, around>>

(* The task ends when it finds no row: not yet, or no more. *)
TakeNothing(c) ==
  /\ due > 0 /\ Free(c) /\ ~Visible
  /\ due' = due - 1
  /\ mishap' = mishap \cup {"missed"}
  /\ UNCHANGED <<footage, job, task, disk, purge, overlap, faults, around>>

(* What a task writes has no effect once the purge has deleted the row:    *)
(* the mapper raises, and so does the handler of that exception.           *)
Written(status) == [job EXCEPT !.status = IF Visible THEN status ELSE @]

Ends(c) == task' = [task EXCEPT ![c] = Idle]

Usable == {s \in InRange(footage, Span[1], Span[2]) : s.state = "good"}

(* FFmpeg opens the output with -y: what was there is truncated. *)
SelectInput(c) ==
  /\ task[c].stage = "started"
  /\ Usable # {}
  /\ task' = [task EXCEPT ![c].stage = "encoding"]
  /\ disk' = [disk EXCEPT !["mp4"] = -task[c].run]
  /\ UNCHANGED <<footage, job, due, purge, mishap, overlap, faults, around>>

SelectNothing(c) ==
  /\ task[c].stage = "started"
  /\ Usable = {}
  /\ job' = Written("failed")
  /\ Ends(c)
  /\ UNCHANGED <<footage, due, disk, purge, mishap, overlap, faults, around>>

EncodingFailsUnnoticed(c) ==
  /\ task[c].stage = "encoding"
  /\ Ends(c)
  /\ UNCHANGED <<footage, job, due, disk, purge, mishap, overlap, faults, around>>

(* FFmpeg exits with a code other than 0, or the output does not exist. *)
EncodingFails(c) ==
  /\ task[c].stage = "encoding"
  /\ job' = Written("failed")
  /\ Ends(c)
  /\ UNCHANGED <<footage, due, disk, purge, mishap, overlap, faults, around>>

Encoded(c) ==
  /\ task[c].stage = "encoding" /\ disk["mp4"] # 0
  /\ disk' = [disk EXCEPT !["mp4"] = task[c].run]
  /\ task' = [task EXCEPT ![c].stage = "encoded"]
  /\ UNCHANGED <<footage, job, due, purge, mishap, overlap, faults, around>>

(* Without a password the mp4 is final; with one it is packed and removed. *)
(* A zip that fails is left as it is, and the mp4 is handed out.           *)
Pack(c, packed) ==
  /\ task[c].stage = "encoded"
  /\ packed => job.protected /\ disk["mp4"] # 0
  /\ disk' = IF packed THEN [mp4 |-> 0, zip |-> disk["mp4"]]
             ELSE IF job.protected THEN [disk EXCEPT !["zip"] = -task[c].run] ELSE disk
  /\ task' = [task EXCEPT ![c].stage = "ready", ![c].file = IF packed THEN "zip" ELSE "mp4"]
  /\ UNCHANGED <<footage, job, due, purge, mishap, overlap, faults, around>>

(* The checksum of a file that is gone cannot be taken: TaskFails. *)
Complete(c) ==
  /\ task[c].stage = "ready" /\ disk[task[c].file] # 0
  /\ job' = IF Visible
            THEN [job EXCEPT !.status = "completed", !.file = task[c].file,
                             !.sum = disk[task[c].file], !.expires = "later"]
            ELSE job
  /\ Ends(c)
  /\ UNCHANGED <<footage, due, disk, purge, mishap, overlap, faults, around>>

(* Any exception marks the job failed; an exception of the database keeps  *)
(* the handler from that, and the job stays as it is.                      *)
TaskFails(c, marked) ==
  /\ task[c].stage # "idle"
  /\ job' = IF marked THEN Written("failed") ELSE job
  /\ mishap' = IF marked THEN mishap ELSE mishap \cup {"lost"}
  /\ Ends(c)
  /\ UNCHANGED <<footage, due, disk, purge, overlap, faults, around>>

(***************************************************************************)
(* The broker and the worker                                               *)
(***************************************************************************)

(* The child is killed: its task is acknowledged. *)
LoseChild(c) ==
  /\ task[c].stage # "idle"
  /\ Ends(c)
  /\ mishap' = mishap \cup {"lost"}
  /\ UNCHANGED <<footage, job, due, disk, purge, overlap, faults, around>>

(* The visibility timeout is over, or the worker has died with the task. *)
Redeliver(c, dies) ==
  /\ task[c].stage # "idle" /\ faults < MaxFaults
  /\ due' = due + 1
  /\ faults' = faults + 1
  /\ IF dies THEN Ends(c) ELSE UNCHANGED task
  /\ UNCHANGED <<footage, job, disk, purge, mishap, overlap, around>>

(***************************************************************************)
(* Expiry and purge                                                        *)
(***************************************************************************)

Expire ==
  /\ job.expires = "later"
  /\ job' = [job EXCEPT !.expires = "past"]
  /\ UNCHANGED <<footage, due, task, disk, purge, mishap, overlap, faults, around>>

(* One purge at a time: it deletes the row it has selected, whatever has   *)
(* become of the job in the meantime.                                      *)
PurgeSelect ==
  /\ purge.step = "idle" /\ Visible /\ job.expires = "past"
  /\ purge' = [step |-> "selected", file |-> job.file]
  /\ UNCHANGED <<footage, job, due, task, disk, mishap, overlap, faults, around>>

(* An error of the file system is passed over: the row goes all the same. *)
PurgeUnlink(removed) ==
  /\ purge.step = "selected"
  /\ disk' = IF removed THEN [disk EXCEPT ![purge.file] = 0] ELSE disk
  /\ purge' = [purge EXCEPT !.step = "unlinked"]
  /\ UNCHANGED <<footage, job, due, task, mishap, overlap, faults, around>>

PurgeCommit ==
  /\ purge.step = "unlinked"
  /\ purge' = NoPurge
  /\ job' = [job EXCEPT !.status = "absent"]
  /\ UNCHANGED <<footage, due, task, disk, mishap, overlap, faults, around>>

(* The purge fails later on: its rows come back, its files do not. *)
PurgeFails ==
  /\ purge.step = "unlinked"
  /\ purge' = NoPurge
  /\ mishap' = mishap \cup {"unpurged"}
  /\ UNCHANGED <<footage, job, due, task, disk, overlap, faults, around>>

SegmentPurged ==
  /\ \E s \in footage : footage' = footage \ {s}
  /\ UNCHANGED <<job, due, task, disk, purge, mishap, overlap, faults, around>>

(***************************************************************************)
(* Around the job                                                          *)
(***************************************************************************)

Others == <<footage, job, due, task, disk, purge, mishap, overlap, faults>>

(* The camera is deleted.  Only the request looks at it, so that deletions *)
(* after it are left out (bound).                                          *)
DeleteCamera ==
  /\ camera /\ job.status = "new"
  /\ camera' = FALSE
  /\ UNCHANGED <<Others, held>>

(* A recording or the consumer of alerts holds a child as long as it runs: *)
(* for ever, if nothing ends it.                                           *)
TakenElsewhere(c) ==
  /\ Free(c)
  /\ held' = held \cup {c}
  /\ UNCHANGED <<Others, camera>>

DoneElsewhere(c) ==
  /\ c \in held
  /\ held' = held \ {c}
  /\ UNCHANGED <<Others, camera>>

(***************************************************************************)
(* Specification                                                           *)
(***************************************************************************)

Turn == \E c \in Child : Take(c) \/ TakeNothing(c)

RunStep(c) ==
  \/ SelectInput(c) \/ SelectNothing(c)
  \/ EncodingFails(c) \/ Encoded(c)
  \/ \E packed \in BOOLEAN : Pack(c, packed)
  \/ Complete(c)
  \/ \E marked \in BOOLEAN : TaskFails(c, marked)

Next ==
  \/ \E protected, sent \in BOOLEAN : CreateExportJob(protected, sent)
  \/ CommitJob \/ RollBackJob
  \/ Turn
  \/ \E c \in Child : RunStep(c) \/ LoseChild(c)
                      \/ \E dies \in BOOLEAN : Redeliver(c, dies)
  \/ Expire
  \/ PurgeSelect \/ (\E removed \in BOOLEAN : PurgeUnlink(removed)) \/ PurgeCommit \/ PurgeFails
  \/ SegmentPurged \/ DeleteCamera
  \/ \E c \in Child : TakenElsewhere(c) \/ DoneElsewhere(c)

(* The queue is in order: a child that comes free takes what has waited    *)
(* longest, so the export has its turn if children come free again and     *)
(* again.  FFmpeg ends one day.  No child is presumed to be free.          *)
Fairness == SF_vars(Turn) /\ \A c \in Child : WF_vars(RunStep(c))

(* Any footage there is when the job is asked for. *)
Init ==
  /\ InitWith(footage)
  /\ IsFiniteSet(footage) /\ \A s \in footage : s \in Segment /\ s.from < s.to

Spec == Init /\ [][Next]_vars /\ Fairness

(***************************************************************************)
(* Properties                                                              *)
(***************************************************************************)

Downloadable ==
  /\ job.status = "completed" /\ job.file # "none"
  /\ job.expires # "past"
  /\ disk[job.file] # 0

(* What can be downloaded is a complete file with the checksum of the row, *)
(* and a completed job has its file until it is purged, however often the  *)
(* task was delivered, as long as two runs do not overlap.                 *)
ExportsAreSound ==
  /\ Downloadable /\ ~overlap => disk[job.file] = job.sum /\ job.sum > 0
  /\ (/\ job.status = "completed" /\ ~overlap
      /\ purge.step # "unlinked" /\ "unpurged" \notin mishap) => disk[job.file] # 0

(* The answers of the recordings API agree with the footage and with each  *)
(* other, on the two days the range spans.                                 *)
TimelineExact ==
  /\ \A d \in {0, 1} : DayExact(footage, d * DaySlots, (d + 1) * DaySlots)
  /\ PagesExact(footage, 0, Span[2], 1)

(* A job that has been created ends completed, failed or purged, unless    *)
(* its message was not sent, came before the commit, or was lost, or from  *)
(* some time on every child is held by recordings and consumers: there are *)
(* 8, and nothing limits the cameras to fewer.                             *)
ExportSettles ==
  \/ <>[](held = Child)
  \/ job.status = "queued" ~> \/ job.status \in {"completed", "failed", "absent"}
                              \/ mishap # {}

(* SPEC.md:945: "Delete export files where expires_at < now()".  When the  *)
(* row of an expired export is deleted, and no task is running, its files  *)
(* are.  But an unlink that fails is passed over and the row, the only     *)
(* record of the file, is deleted; and of a pair of files only the one     *)
(* that was handed out is unlinked.                                        *)
NoFileLeft ==
  job.status = "absent" /\ job.expires = "past" /\ Running = {} =>
    \A f \in {"mp4", "zip"} : disk[f] = 0

=============================================================================
