------------------------------- MODULE Footage -------------------------------
(***************************************************************************)
(* The life of recorded footage: FFmpeg names and writes the segment files,*)
(* the tasks that follow it write their rows, and the purge, the emergency *)
(* purge and the API remove both.  No transaction spans the file system, so*)
(* every removal is a sequence of steps that can be cut short.             *)
(*                                                                         *)
(* Time advances in slots, the 600 s of -segment_time; with                *)
(* -segment_atclocktime the files open on slot boundaries, but for the     *)
(* first one of a process.  A segment is what one process recorded in one  *)
(* slot; its file name is not that identity, and that is what the module   *)
(* is about.                                                               *)
(***************************************************************************)
EXTENDS Integers, FiniteSets, FiniteSetsExt

CONSTANTS
  Camera,
  Process,         \* FFmpeg processes, each started at most once: the bound on starts
  Purger,          \* Celery children that run nvr.purge_old_segments
  DaySlots,        \* slots of a day (144)
  PurgeSlot,       \* slot of the day in which the purge is due (18: 03:00)
  Seconds,         \* seconds of a slot, in which a process may be started (600)
  Retention,       \* retention_days of the cameras, in slots
  PurgeLimit,      \* rows per camera and purge (100)
  EmergencyLimit,  \* rows per batch of the emergency purge (50)
  Critical,        \* files at which usage reaches STORAGE_CRITICAL_PCT
  Target,          \* files at which usage is down to 85 %
  MaxTime,         \* bound: slots
  MaxEvents        \* bound: DELETE requests, and faults: lost or late tasks,
                   \* failed commits, failed unlinks

ASSUME ConstantsOK ==
  /\ {DaySlots, Seconds, Retention, PurgeLimit, EmergencyLimit, Critical, Target,
      MaxTime, MaxEvents} \subseteq Nat
  /\ Seconds > 0 /\ Camera # {}
  /\ PurgeSlot \in 0..DaySlots - 1 /\ DaySlots > 1 /\ PurgeLimit > 0 /\ EmergencyLimit > 0

VARIABLES
  now,        \* the slot
  recorder,   \* the FFmpeg processes, each with what the task that follows it has read
  files,      \* segment files on disk, with what they contain
  rows,       \* recording_segments, each with the segment it was written for
  purge,      \* per child, the purge it executes
  deleting,   \* rows whose file DELETE /segments/{id} has removed, commit pending
  due,        \* nvr.purge_old_segments messages waiting
  removed,    \* cameras whose is_deleted is set
  calls,      \* DELETE requests so far
  faults,     \* faults so far
  spoiled,    \* history: rows whose removal was cut short after the unlink
  abandoned,  \* history: files that never got or no longer have a row
  opened      \* history: the segments for which a file was opened

vars == <<now, recorder, files, rows, purge, deleting, due, removed, calls, faults, spoiled, abandoned,
          opened>>
store   == <<files, rows, opened>>
history == <<calls, faults, spoiled, abandoned>>

None == -1
Time == 0..MaxTime
Day(t) == t \div DaySlots

\* {output_dir}/%H-%M-%S_continuous.mp4: the directory is that of the day on which the
\* process was started, the name that of the time of day at which the file is opened:
\* the start of the slot, except for the first file of a process.
Name(c, since, t, second) ==
  [cam |-> c, dir |-> Day(since), slot |-> t % DaySlots,
   second |-> IF t = since THEN second ELSE 0]

Names == [cam : Camera, dir : 0..Day(MaxTime), slot : 0..DaySlots - 1, second : 0..Seconds - 1]
Segments == [name : Names, by : Process, at : Time]
Rows     == [name : Names, by : Process, at : Time, end : Time]
Segment(r) == [name |-> r.name, by |-> r.by, at |-> r.at]

\* state: not started yet, running, exited; since, second: when it was started; at: slot of
\* the file it writes; last: slot of the file before, if the task has not written its row.
Recorder == [state : {"new", "on", "off"}, cam : Camera, since : Time, second : 0..Seconds - 1,
             at : Time, last : Time \cup {None}]

\* from: the time the purge works with; left: cameras it has not come to; todo: rows
\* selected; gone: rows whose files are unlinked, deletion not committed.
Purge == [stage : {"idle", "purging", "emergency"}, from : Time,
          left : SUBSET Camera, todo : SUBSET Rows, gone : SUBSET Rows]
Resting == [stage |-> "idle", from |-> 0, left |-> {}, todo |-> {}, gone |-> {}]

Unused == [state |-> "new", cam |-> CHOOSE c \in Camera : TRUE, since |-> 0, second |-> 0,
           at |-> 0, last |-> None]

TypeOK ==
  /\ now \in Time
  /\ recorder \in [Process -> Recorder]
  /\ files \subseteq Segments
  /\ \A f, g \in files : f.name = g.name => f = g
  /\ rows \subseteq Rows
  /\ purge \in [Purger -> Purge]
  /\ deleting \subseteq Rows
  /\ due \in 0..1
  /\ removed \subseteq Camera
  /\ calls \in 0..MaxEvents
  /\ faults \in 0..MaxEvents
  /\ spoiled \subseteq Rows
  /\ abandoned \subseteq Segments
  /\ opened \subseteq Segments

Init ==
  /\ now = 0
  /\ recorder = [p \in Process |-> Unused]
  /\ files = {}
  /\ rows = {}
  /\ purge = [w \in Purger |-> Resting]
  /\ deleting = {}
  /\ due = 0
  /\ removed = {}
  /\ calls = 0
  /\ faults = 0
  /\ spoiled = {}
  /\ abandoned = {}
  /\ opened = {}
-----------------------------------------------------------------------------
(* Files *)

Fault == calls + faults < MaxEvents /\ faults' = faults + 1

Exists(n)   == \E f \in files : f.name = n
Without(n)  == {f \in files : f.name # n}
\* Opening a file for writing truncates the one of that name: its content is from now on
\* that of whoever opened it last.
Open(s) == /\ files' = Without(s.name) \cup {s}
           /\ opened' = opened \cup {s}

On(p) == recorder[p].state = "on"
Of(p, t) == [name |-> Name(recorder[p].cam, recorder[p].since, t, recorder[p].second),
             by |-> p, at |-> t]
Current(p) == Of(p, recorder[p].at)
Last(p)    == Of(p, recorder[p].last)
-----------------------------------------------------------------------------
(* Recording *)

\* start_recording: the directory is computed once, before FFmpeg is started.  The child
\* looks for a process of the camera in its own registry only, and a message delivered
\* again is taken by another: a camera may have several processes.
Start(p, c, second) ==
  /\ recorder[p].state = "new" /\ c \notin removed
  /\ recorder' = [recorder EXCEPT ![p] = [state |-> "on", cam |-> c, since |-> now,
                                         second |-> second, at |-> now, last |-> None]]
  /\ Open([name |-> Name(c, now, now, second), by |-> p, at |-> now])
  /\ UNCHANGED <<now, rows, purge, deleting, due, removed, history>>

\* FFmpeg opens the next file at the start of the slot.
Rotate(p) ==
  /\ On(p) /\ recorder[p].at < now
  /\ recorder' = [recorder EXCEPT ![p].at = now, ![p].last = recorder[p].at]
  /\ Open(Of(p, now))
  /\ UNCHANGED <<now, rows, purge, deleting, due, removed, history>>

\* _close_segment: one row, unless the file is gone.
Closed(s) == IF Exists(s.name)
             THEN rows \cup {[name |-> s.name, by |-> s.by, at |-> s.at, end |-> now]}
             ELSE rows

\* The task reads the "Opening" line of the file FFmpeg now writes: it writes the row of
\* the file before.
IndexNew(p) ==  \* mutant: the path is taken from the line before the row is written
  /\ On(p) /\ recorder[p].last # None
  /\ rows' = Closed([Current(p) EXCEPT !.at = recorder[p].last])
  /\ recorder' = [recorder EXCEPT ![p].last = None]
  /\ UNCHANGED <<now, files, opened, purge, deleting, due, removed, history>>
Index(p) ==
  /\ On(p) /\ recorder[p].last # None
  /\ rows' = Closed(Last(p))
  /\ recorder' = [recorder EXCEPT ![p].last = None]
  /\ UNCHANGED <<now, files, opened, purge, deleting, due, removed, history>>

\* FFmpeg exits: the task writes the row of the final file.
Stop(p) ==
  /\ On(p) /\ recorder[p].last = None
  /\ rows' = Closed(Current(p))
  /\ recorder' = [recorder EXCEPT ![p] = [Unused EXCEPT !.state = "off"]]
  /\ UNCHANGED <<now, files, opened, purge, deleting, due, removed, history>>

\* Too many errors, or lines of an exited FFmpeg left unread, or the task lost: the files
\* without a row keep none.
Unindexed(p) == files \cap ({Current(p)} \cup IF recorder[p].last = None THEN {} ELSE {Last(p)})
StopUnindexed(p) ==
  /\ On(p)
  /\ Fault
  /\ abandoned' = abandoned \cup Unindexed(p)
  /\ recorder' = [recorder EXCEPT ![p] = [Unused EXCEPT !.state = "off"]]
  /\ UNCHANGED <<now, store, purge, deleting, due, removed, calls, spoiled>>
-----------------------------------------------------------------------------
(* nvr.purge_old_segments *)

ExpiredNot(c, from) ==  \* mutant: the comparison is turned round
  {r \in rows : r.name.cam = c /\ r.end > from - Retention}
Expired(c, from) == {r \in rows : r.name.cam = c /\ r.end < from - Retention}

\* .limit(n): any n of them, or all when there are no more.
Limited(n, S) == {B \in SUBSET S : Cardinality(B) = IF Cardinality(S) < n THEN Cardinality(S) ELSE n}

\* The message is sent by hand, or delivered again (task_acks_late): other purges may be
\* under way.
SendPurge ==
  /\ due = 0
  /\ due' = 1
  /\ UNCHANGED <<now, recorder, store, purge, deleting, removed, history>>

BeginPurgeTwice(w) ==  \* mutant: the message is not looked for
  /\ purge[w] = Resting
  /\ due' = due - 1
  /\ purge' = [purge EXCEPT ![w] = [Resting EXCEPT !.stage = "purging", !.from = now,
                                                   !.left = Camera \ removed]]
  /\ UNCHANGED <<now, recorder, store, deleting, removed, history>>
BeginPurge(w) ==
  /\ purge[w] = Resting
  /\ due > 0
  /\ due' = due - 1
  /\ purge' = [purge EXCEPT ![w] = [Resting EXCEPT !.stage = "purging", !.from = now,
                                                   !.left = Camera \ removed]]
  /\ UNCHANGED <<now, recorder, store, deleting, removed, history>>

SelectExpired(w, c) ==
  /\ purge[w].stage = "purging"
  /\ purge[w].todo = {}
  /\ c \in purge[w].left
  /\ \E B \in Limited(PurgeLimit, Expired(c, purge[w].from)) :
       purge' = [purge EXCEPT ![w].left = @ \ {c}, ![w].todo = B]
  /\ UNCHANGED <<now, recorder, store, deleting, due, removed, history>>

\* The emergency purge goes from the oldest row on, the purge in no particular order.
Turn(w, r) == purge[w].stage = "emergency" => \A s \in purge[w].todo : r.at <= s.at

\* _delete_segment: unlink the file if there is one, mark the row for deletion.
UnlinkKept(w, r) ==  \* mutant: the row goes, the file stays
  /\ r \in purge[w].todo /\ Turn(w, r)
  /\ purge' = [purge EXCEPT ![w].todo = @ \ {r}, ![w].gone = @ \cup {r}]
  /\ UNCHANGED <<now, recorder, store, deleting, due, removed, history>>
UnlinkOne(w, r) ==
  /\ r \in purge[w].todo /\ Turn(w, r)
  /\ purge' = [purge EXCEPT ![w].todo = @ \ {r}, ![w].gone = @ \cup {r}]
  /\ files' = Without(r.name)
  /\ UNCHANGED <<now, recorder, rows, opened, deleting, due, removed, history>>

\* The unlink fails: the row is deleted all the same.
UnlinkFails(w, r) ==
  /\ r \in purge[w].todo /\ Turn(w, r)
  /\ Exists(r.name)
  /\ Fault
  /\ purge' = [purge EXCEPT ![w].todo = @ \ {r}, ![w].gone = @ \cup {r}]
  /\ abandoned' = abandoned \cup ({Segment(r)} \cap files)
  /\ UNCHANGED <<now, recorder, store, deleting, due, removed, calls, spoiled>>

\* The rows are deleted; a disk that is too full turns the purge into an emergency.
CommitPurge(w) ==
  /\ purge[w].stage = "purging"
  /\ purge[w].left = {} /\ purge[w].todo = {}
  /\ rows' = rows \ purge[w].gone
  /\ purge' = [purge EXCEPT ![w] = IF Cardinality(files) >= Critical
                                   THEN [Resting EXCEPT !.stage = "emergency"] ELSE Resting]
  /\ UNCHANGED <<now, recorder, files, opened, deleting, due, removed, history>>

\* The n oldest rows.
Oldest(n) == {B \in Limited(n, rows) : \A r \in B, s \in rows \ B : r.at <= s.at}

\* emergency_purge: while usage is above the target, delete the oldest rows.
SelectOldest(w) ==
  /\ purge[w].stage = "emergency"
  /\ purge[w].todo = {} /\ purge[w].gone = {}
  /\ Cardinality(files) > Target
  /\ rows # {}
  /\ \E B \in Oldest(EmergencyLimit) : purge' = [purge EXCEPT ![w].todo = B]
  /\ UNCHANGED <<now, recorder, store, deleting, due, removed, history>>

CommitBatch(w) ==
  /\ purge[w].stage = "emergency"
  /\ purge[w].todo = {} /\ purge[w].gone # {}
  /\ rows' = rows \ purge[w].gone
  /\ purge' = [purge EXCEPT ![w].gone = {}]
  /\ UNCHANGED <<now, recorder, files, opened, deleting, due, removed, history>>

EndEmergency(w) ==
  /\ purge[w].stage = "emergency"
  /\ purge[w].todo = {} /\ purge[w].gone = {}
  /\ Cardinality(files) <= Target \/ rows = {}
  /\ purge' = [purge EXCEPT ![w] = Resting]
  /\ UNCHANGED <<now, recorder, store, deleting, due, removed, history>>

\* The commit fails or the child is lost: the transaction is rolled back, the files
\* already unlinked stay so.
AbortPurge(w) ==
  /\ purge[w] # Resting
  /\ Fault
  /\ spoiled' = spoiled \cup {r \in purge[w].gone : ~Exists(r.name)}
  /\ purge' = [purge EXCEPT ![w] = Resting]
  /\ UNCHANGED <<now, recorder, store, deleting, due, removed, calls, abandoned>>
-----------------------------------------------------------------------------
(* The API: DELETE /cameras/{id}, DELETE /segments/{id} *)

Call == calls + faults < MaxEvents /\ calls' = calls + 1

\* The row of the camera is marked; its recorder and its footage are left alone.
DeleteCamera(c) ==
  /\ c \notin removed
  /\ Call
  /\ removed' = removed \cup {c}
  /\ UNCHANGED <<now, recorder, store, purge, deleting, due, faults, spoiled, abandoned>>

DeleteFile(r) ==
  /\ r \in rows \ deleting
  /\ Call
  /\ files' = Without(r.name)
  /\ deleting' = deleting \cup {r}
  /\ UNCHANGED <<now, recorder, rows, opened, purge, due, removed, faults, spoiled, abandoned>>

CommitDelete(r) ==
  /\ r \in deleting
  /\ rows' = rows \ {r}
  /\ deleting' = deleting \ {r}
  /\ UNCHANGED <<now, recorder, files, opened, purge, due, removed, history>>

AbortDelete(r) ==
  /\ r \in deleting
  /\ spoiled' = spoiled \cup {r}
  /\ deleting' = deleting \ {r}
  /\ UNCHANGED <<now, recorder, store, purge, due, removed, calls, faults, abandoned>>
-----------------------------------------------------------------------------
(* Time *)

\* beat_schedule: Celery takes a number of seconds, a timedelta or a crontab; the purge's
\* entry is a plain dictionary.
PurgeSchedule == "dict"
BeatSends == PurgeSchedule \in {"seconds", "timedelta", "crontab"}

\* A slot passes.  Every running process has opened its file and its task has read the
\* line of the file before.
Tick ==
  /\ now < MaxTime
  /\ \A p \in Process : On(p) => recorder[p].at = now /\ recorder[p].last = None
  /\ now' = now + 1
  /\ due' = IF BeatSends /\ (now + 1) % DaySlots = PurgeSlot THEN 1 ELSE due
  /\ UNCHANGED <<recorder, store, purge, deleting, removed, history>>
-----------------------------------------------------------------------------
Next ==
  \/ Tick
  \/ \E p \in Process :
       \/ \E c \in Camera, second \in 0..Seconds - 1 : Start(p, c, second)
       \/ Rotate(p) \/ Index(p) \/ Stop(p) \/ StopUnindexed(p)
  \/ \E c \in Camera : DeleteCamera(c)
  \/ SendPurge
  \/ \E w \in Purger :
       \/ BeginPurge(w)
       \/ \E c \in Camera : SelectExpired(w, c)
       \/ \E r \in purge[w].todo : UnlinkOne(w, r) \/ UnlinkFails(w, r)
       \/ CommitPurge(w) \/ SelectOldest(w) \/ CommitBatch(w) \/ EndEmergency(w)
       \/ AbortPurge(w)
  \/ \E r \in rows \cup deleting : DeleteFile(r) \/ CommitDelete(r) \/ AbortDelete(r)

Spec == Init /\ [][Next]_vars
-----------------------------------------------------------------------------
(* Properties *)

\* The file of a row was unlinked, or was to be, and the row is to follow.
InRemoval(r) == \/ r \in deleting \cup spoiled
                \/ \E w \in Purger : r \in purge[w].gone

\* The rows there are, and those of transactions under way.
Known == rows \cup deleting \cup UNION {purge[w].todo \cup purge[w].gone : w \in Purger}

\* A name that several segments had: FFmpeg opened the file again.
Reused(n) == \E s, o \in opened : s # o /\ s.name = n /\ o.name = n

\* The file a row names is there and contains what the row was written for, unless the
\* file was unlinked and the row is to follow (or was to: its removal was cut short)
\* (recording.py:87-117, purge.py:42-57).
RowsNameTheirFootage ==
  \A r \in rows : InRemoval(r) \/ Segment(r) \in files

\* So much of it holds whatever the processes do: an exception is a name that FFmpeg
\* opened more than once.
UniqueNamesHold ==
  \A r \in rows : InRemoval(r) \/ Reused(r.name) \/ Segment(r) \in files

\* A file on disk is being written, has a row or is about to get one, or was left
\* without one by a task that gave up (purge.py removes only what has a row).
FilesAreAccounted ==
  \A f \in files :
    \/ f \in abandoned
    \/ \E r \in rows : Segment(r) = f
    \/ \E p \in Process : On(p) /\ f \in Unindexed(p)

\* Why the footage of a row may go in a step: an emergency; FFmpeg opens its name again; a
\* DELETE of the row, or its retention is over, or those of another row if the name was reused.
Excused(r) ==
  \/ \E w \in Purger : purge[w].stage = "emergency"
  \/ \E s \in opened' \ opened : s.name = r.name
  \/ \E s \in {r} \cup {o \in Known : Reused(r.name)} :
       /\ s.name = r.name
       /\ s \in deleting' \ deleting \/ s.end < now - Retention

\* Footage disappears for no other reason ("Purge expired recording segments", purge.py:69).
RecentFootageKept == [][\A r \in rows : Segment(r) \in files \ files' => Excused(r)]_vars

\* A purge that no fault disturbs leaves no row that was expired when it began, unless its
\* camera is deleted ("Query segments where ended_at < now() - retention_days ... For
\* each: delete file, delete thumbnail, delete DB row", SPEC.md:943-944).
PurgesAreComplete ==
  [][\A w \in Purger :
       purge[w].stage = "purging" /\ purge'[w].stage # "purging" /\ faults' = 0 =>
         \A r \in rows' : r.name.cam \in removed \/ r.end >= purge[w].from - Retention]_vars

\* Every day at 03:00 there is a message for the purge ("daily at 03:00 UTC",
\* celery_app.py:35; "Purge task (runs daily at 03:00)", SPEC.md:942).
PurgeRunsDaily ==
  [][now' # now /\ now' % DaySlots = PurgeSlot => due' = 1]_vars
=============================================================================
