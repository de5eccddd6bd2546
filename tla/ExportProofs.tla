------------------------------ MODULE ExportProofs ------------------------------
(***************************************************************************)
(* Theorems of Export, for every footage, range and number of children,    *)
(* redeliveries and deaths; and of Timeline, for every footage and day.    *)
(***************************************************************************)
EXTENDS Export, FiniteSetTheorems, TLAPS
-----------------------------------------------------------------------------
(* Type correctness *)

\* Of the faults + 1 messages ever sent, `due` wait; a run has the number of its message, so
\* that none is 0, and a task that has packed its result knows its file.
Counted ==
  /\ due <= faults + 1
  /\ \A c \in Child : /\ task[c].stage # "idle" => task[c].run > 0
                      /\ task[c].stage = "ready" => task[c].file \in {"mp4", "zip"}

Typed == TypeOK /\ Counted

TaskRow == [stage : Stage, run : 0..(MaxFaults + 1), file : {"none", "mp4", "zip"}]

LEMMA TypedInit == Init => Typed
<1> SUFFICES ASSUME Init PROVE Typed
  OBVIOUS
<1>1. Idle \in TaskRow /\ MaxFaults \in Nat
  BY ExportOK DEF Idle, TaskRow, Stage
<1>2. /\ job = [status |-> "new", file |-> "none", sum |-> 0, expires |-> "none",
                protected |-> FALSE]
      /\ due = 0 /\ task = [c \in Child |-> Idle] /\ disk = [f \in {"mp4", "zip"} |-> 0]
      /\ purge = NoPurge /\ mishap = {} /\ overlap = FALSE /\ faults = 0
      /\ camera = TRUE /\ held = {}
      /\ \A s \in footage : s \in Segment /\ s.from < s.to
  BY DEF Init, InitWith
<1>3. job \in Job
  BY <1>2 DEF Job
<1>4. task \in [Child -> TaskRow] /\ disk \in [{"mp4", "zip"} -> -(MaxFaults + 1)..(MaxFaults + 1)]
  <2>1. 0 \in -(MaxFaults + 1)..(MaxFaults + 1)
    BY <1>1
  <2> QED
    BY <1>1, <1>2, <2>1
<1>5. TypeOK
  <2>1. 0 \in 0..(MaxFaults + 1) /\ 0 \in 0..MaxFaults
    BY <1>1
  <2>2. due \in 0..(MaxFaults + 1) /\ faults \in 0..MaxFaults
    BY <1>2, <2>1
  <2>3. /\ purge \in [step : {"idle", "selected", "unlinked"}, file : {"none", "mp4", "zip"}]
        /\ mishap \subseteq {"unsent", "missed", "lost", "unpurged"}
        /\ overlap \in BOOLEAN /\ camera \in BOOLEAN /\ held \subseteq Child
    BY <1>2 DEF NoPurge
  <2> QED
    BY <1>2, <1>3, <1>4, <2>2, <2>3 DEF TypeOK, TaskRow
<1>6. Counted
  BY <1>2 DEF Counted, Idle
<1> QED
  BY <1>5, <1>6 DEF Typed

\* What the types give a step of a task.
LEMMA Facts ==
  ASSUME Typed
  PROVE  /\ MaxFaults \in Nat /\ faults \in Nat /\ faults <= MaxFaults /\ due \in Nat
         /\ due <= faults + 1 /\ job \in Job /\ task \in [Child -> TaskRow]
         /\ disk \in [{"mp4", "zip"} -> -(MaxFaults + 1)..(MaxFaults + 1)]
         /\ \A c \in Child : /\ task[c] \in TaskRow
                             /\ task[c].run \in 0..(MaxFaults + 1)
                             /\ task[c].stage # "idle" => task[c].run > 0
                             /\ task[c].stage = "ready" => task[c].file \in {"mp4", "zip"}
BY ExportOK DEF Typed, TypeOK, Counted, TaskRow

\* The row of a child is replaced by one that is sound.
LEMMA Replaced ==
  ASSUME Typed, NEW c \in Child, NEW r \in TaskRow, task' = [task EXCEPT ![c] = r],
         r.stage # "idle" => r.run > 0, r.stage = "ready" => r.file \in {"mp4", "zip"},
         due' <= faults' + 1
  PROVE  task' \in [Child -> TaskRow] /\ Counted'
         /\ task'[c] = r /\ \A d \in Child : d # c => task'[d] = task[d]
<1>1. /\ task' \in [Child -> TaskRow] /\ task'[c] = r
      /\ \A d \in Child : d # c => task'[d] = task[d]
  BY Facts
<1>2. Counted'
  BY <1>1 DEF Typed, Counted
<1> QED
  BY <1>1, <1>2

\* A child that has done with its task.
LEMMA Ended ==
  ASSUME Typed, NEW c \in Child, Ends(c), due' <= faults' + 1
  PROVE  /\ task' \in [Child -> TaskRow] /\ Counted' /\ task'[c].stage = "idle"
         /\ \A d \in Child : d # c => task'[d] = task[d]
<1>1. Idle \in TaskRow /\ Idle.stage = "idle"
  BY Facts DEF Idle, TaskRow, Stage
<1> QED
  BY <1>1, Replaced DEF Ends

\* The row of the job after a step.
LEMMA Rows ==
  ASSUME Typed
  PROVE  /\ \A s \in {"flushed", "queued", "processing", "failed", "absent"} :
              /\ [job EXCEPT !.status = s] \in Job
              /\ [job EXCEPT !.status = s].status = s
         /\ Written("failed") \in Job
         /\ Written("failed").status \in {job.status, "failed"}
BY Facts DEF Job, Written
-----------------------------------------------------------------------------
(* Soundness of what can be downloaded *)

\* As long as no two runs have overlapped: one at most runs, ...
Alone == ~overlap => \A c, d \in Child : task[c].stage # "idle" /\ task[d].stage # "idle" => c = d

\* ... what it has encoded is complete or has been purged, its job is not completed, ...
Filled ==
  ~overlap => \A c \in Child : task[c].stage # "idle" =>
    /\ job.status # "completed"
    /\ task[c].stage = "encoded" => disk["mp4"] >= 0
    /\ task[c].stage = "ready" => disk[task[c].file] >= 0

\* ... and a completed job has the file its checksum was taken of, unless a purge that
\* selected the job when an earlier file had expired has removed it.
Done ==
  ~overlap /\ job.status = "completed" =>
    /\ job.file \in {"mp4", "zip"}
    /\ \/ disk[job.file] = job.sum /\ job.sum > 0
       \/ disk[job.file] = 0 /\ (purge.step = "unlinked" \/ "unpurged" \in mishap)

Sound == Alone /\ Filled /\ Done

Inv == Typed /\ Sound

LEMMA SoundInit == Init => Sound
<1> SUFFICES ASSUME Init PROVE Sound
  OBVIOUS
<1>1. task = [c \in Child |-> Idle] /\ job.status = "new"
  BY DEF Init, InitWith
<1>2. \A c \in Child : task[c].stage = "idle"
  BY <1>1 DEF Idle
<1> QED
  BY <1>1, <1>2 DEF Sound, Alone, Filled, Done

\* Steps of the job's row and of the purge, which leave the tasks alone.
LEMMA Aside ==
  ASSUME Inv, UNCHANGED <<task, overlap>>, TypeOK', due' <= faults' + 1,
         job'.status = "completed" => job.status = "completed",
         \A f \in {"mp4", "zip"} : disk'[f] = disk[f] \/ disk'[f] = 0,
         Done'
  PROVE  Inv'
<1>1. Typed'
  BY DEF Inv, Typed, Counted
<1>2. Alone'
  BY DEF Inv, Sound, Alone
<1>3. ASSUME ~overlap, NEW c \in Child, task[c].stage # "idle"
      PROVE  /\ job'.status # "completed"
             /\ task[c].stage = "encoded" => disk'["mp4"] >= 0
             /\ task[c].stage = "ready" => disk'[task[c].file] >= 0
  <2>1. /\ job.status # "completed"
        /\ task[c].stage = "encoded" => disk["mp4"] >= 0
        /\ task[c].stage = "ready" => disk[task[c].file] >= 0 /\ task[c].file \in {"mp4", "zip"}
    BY <1>3, Facts DEF Inv, Sound, Filled
  <2>2. "mp4" \in {"mp4", "zip"}
    OBVIOUS
  <2> QED
    BY <2>1, <2>2
<1>4. Filled'
  BY <1>3 DEF Filled
<1> QED
  BY <1>1, <1>2, <1>4 DEF Inv, Sound

LEMMA RequestSteps ==
  ASSUME Inv
  PROVE  /\ (\E protected, sent \in BOOLEAN : CreateExportJob(protected, sent)) => Inv'
         /\ CommitJob \/ RollBackJob => Inv'
<1>0. /\ TypeOK /\ job \in Job /\ MaxFaults \in Nat /\ faults \in Nat /\ due \in Nat
      /\ due <= faults + 1
  BY Facts DEF Inv, Typed
<1>1. ASSUME NEW protected \in BOOLEAN, NEW sent \in BOOLEAN, CreateExportJob(protected, sent)
      PROVE  Inv'
  <2>1. /\ job' = [job EXCEPT !.status = "flushed", !.protected = protected]
        /\ due' = IF sent THEN 1 ELSE 0
        /\ mishap' = IF sent THEN mishap ELSE mishap \cup {"unsent"}
        /\ UNCHANGED <<footage, task, disk, purge, overlap, faults, around>>
    BY <1>1 DEF CreateExportJob
  <2>2. job' \in Job /\ job'.status = "flushed"
    BY <1>0, <2>1 DEF Job
  <2>3. due' \in 0..1 /\ due' <= faults' + 1
    BY <1>0, <2>1
  <2>4. TypeOK'
    BY <1>0, <2>1, <2>2, <2>3 DEF TypeOK, around
  <2>5. Done'
    BY <2>2 DEF Done
  <2> QED
    BY <2>1, <2>2, <2>3, <2>4, <2>5, Aside
<1>2. ASSUME CommitJob \/ RollBackJob PROVE Inv'
  <2>1. PICK s \in {"queued", "absent"} : job' = [job EXCEPT !.status = s]
    BY <1>2 DEF CommitJob, RollBackJob
  <2>2. UNCHANGED <<footage, due, task, disk, purge, mishap, overlap, faults, around>>
    BY <1>2 DEF CommitJob, RollBackJob
  <2>3. job' \in Job /\ job'.status # "completed"
    BY <1>0, <2>1 DEF Job
  <2>4. TypeOK'
    BY <1>0, <2>2, <2>3 DEF TypeOK, around
  <2>5. Done'
    BY <2>3 DEF Done
  <2> QED
    BY <1>0, <2>2, <2>3, <2>4, <2>5, Aside
<1> QED
  BY <1>1, <1>2

LEMMA PurgeSteps ==
  ASSUME Inv
  PROVE  /\ Expire \/ PurgeSelect \/ PurgeCommit \/ PurgeFails \/ SegmentPurged => Inv'
         /\ (\E removed \in BOOLEAN : PurgeUnlink(removed)) => Inv'
<1>0. /\ TypeOK /\ job \in Job /\ MaxFaults \in Nat /\ faults \in Nat /\ due \in Nat
      /\ due <= faults + 1
      /\ disk \in [{"mp4", "zip"} -> -(MaxFaults + 1)..(MaxFaults + 1)] /\ Done
  BY Facts DEF Inv, Typed, Sound
<1>1. ASSUME Expire PROVE Inv'
  <2>1. /\ job' = [job EXCEPT !.expires = "past"] /\ job.expires = "later"
        /\ UNCHANGED <<footage, due, task, disk, purge, mishap, overlap, faults, around>>
    BY <1>1 DEF Expire
  <2>2. /\ job' \in Job /\ job'.status = job.status /\ job'.file = job.file
        /\ job'.sum = job.sum
    BY <1>0, <2>1 DEF Job
  <2>3. TypeOK'
    BY <1>0, <2>1, <2>2 DEF TypeOK, around
  <2>4. Done'
    BY <1>0, <2>1, <2>2 DEF Done
  <2> QED
    BY <1>0, <2>1, <2>2, <2>3, <2>4, Aside
<1>6. ASSUME PurgeSelect PROVE Inv'
  <2>1. /\ purge' = [step |-> "selected", file |-> job.file] /\ purge.step = "idle"
        /\ UNCHANGED <<footage, job, due, task, disk, mishap, overlap, faults, around>>
    BY <1>6 DEF PurgeSelect
  <2>2. purge' \in [step : {"idle", "selected", "unlinked"}, file : {"none", "mp4", "zip"}]
    BY <1>0, <2>1 DEF Job
  <2>3. TypeOK'
    BY <1>0, <2>1, <2>2 DEF TypeOK, around
  <2>4. Done'
    BY <1>0, <2>1 DEF Done
  <2> QED
    BY <1>0, <2>1, <2>3, <2>4, Aside
<1>2. ASSUME NEW removed \in BOOLEAN, PurgeUnlink(removed) PROVE Inv'
  <2>1. /\ disk' = IF removed THEN [disk EXCEPT ![purge.file] = 0] ELSE disk
        /\ purge' = [purge EXCEPT !.step = "unlinked"]
        /\ UNCHANGED <<footage, job, due, task, mishap, overlap, faults, around>>
    BY <1>2 DEF PurgeUnlink
  <2>2. 0 \in -(MaxFaults + 1)..(MaxFaults + 1)
    BY <1>0
  <2>3. /\ disk' \in [{"mp4", "zip"} -> -(MaxFaults + 1)..(MaxFaults + 1)]
        /\ \A f \in {"mp4", "zip"} : disk'[f] = disk[f] \/ disk'[f] = 0
    BY <1>0, <2>1, <2>2
  <2>4. TypeOK'
    <3>1. /\ purge' \in [step : {"idle", "selected", "unlinked"}, file : {"none", "mp4", "zip"}]
          /\ purge'.step = "unlinked"
      BY <1>0, <2>1 DEF TypeOK, around
    <3> QED
      BY <1>0, <2>1, <2>3, <3>1 DEF TypeOK, around
  <2>5. Done'
    <3>1. purge'.step = "unlinked"
      BY <1>0, <2>1 DEF TypeOK, around
    <3>2. job.file \in {"mp4", "zip"} => disk'[job.file] = disk[job.file] \/ disk'[job.file] = 0
      BY <2>3
    <3> QED
      BY <1>0, <2>1, <3>1, <3>2 DEF Done
  <2> QED
    BY <1>0, <2>1, <2>3, <2>4, <2>5, Aside
<1>3. ASSUME PurgeCommit PROVE Inv'
  <2>1. /\ job' = [job EXCEPT !.status = "absent"] /\ purge' = NoPurge
        /\ UNCHANGED <<footage, due, task, disk, mishap, overlap, faults, around>>
    BY <1>3 DEF PurgeCommit
  <2>2. job' \in Job /\ job'.status = "absent"
    BY <1>0, <2>1 DEF Job
  <2>3. TypeOK'
    BY <1>0, <2>1, <2>2 DEF TypeOK, around, NoPurge
  <2>4. Done'
    BY <2>2 DEF Done
  <2> QED
    BY <1>0, <2>1, <2>2, <2>3, <2>4, Aside
<1>4. ASSUME PurgeFails PROVE Inv'
  <2>1. /\ mishap' = mishap \cup {"unpurged"} /\ purge' = NoPurge
        /\ UNCHANGED <<footage, job, due, task, disk, overlap, faults, around>>
    BY <1>4 DEF PurgeFails
  <2>2. TypeOK'
    BY <1>0, <2>1 DEF TypeOK, around, NoPurge
  <2>3. Done'
    BY <1>0, <2>1 DEF Done
  <2> QED
    BY <1>0, <2>1, <2>2, <2>3, Aside
<1>5. ASSUME SegmentPurged PROVE Inv'
  <2>1. /\ footage' \subseteq footage
        /\ UNCHANGED <<job, due, task, disk, purge, mishap, overlap, faults, around>>
    BY <1>5 DEF SegmentPurged
  <2>2. TypeOK'
    BY <1>0, <2>1 DEF TypeOK, around
  <2>3. Done'
    BY <1>0, <2>1 DEF Done
  <2> QED
    BY <1>0, <2>1, <2>2, <2>3, Aside
<1> QED
  BY <1>1, <1>2, <1>3, <1>4, <1>5, <1>6

\* What goes on around the job.
LEMMA AroundSteps ==
  ASSUME Inv
  PROVE  DeleteCamera \/ (\E c \in Child : TakenElsewhere(c) \/ DoneElsewhere(c)) => Inv'
<1> SUFFICES ASSUME DeleteCamera \/ \E c \in Child : TakenElsewhere(c) \/ DoneElsewhere(c)
             PROVE  Inv'
  OBVIOUS
<1>1. UNCHANGED Others /\ camera' \in {camera, FALSE} /\ (held' \subseteq held \cup Child)
  BY DEF DeleteCamera, TakenElsewhere, DoneElsewhere
<1>2. /\ UNCHANGED <<footage, job, due, task, disk, purge, mishap, overlap, faults>>
      /\ TypeOK /\ Done /\ MaxFaults \in Nat /\ due <= faults + 1
  BY <1>1, Facts DEF Others, Inv, Typed, Sound
<1>3. TypeOK'
  BY <1>1, <1>2 DEF TypeOK
<1>4. Done'
  BY <1>2 DEF Done
<1> QED
  BY <1>2, <1>3, <1>4, Aside

\* A step of the task of one child, which ends or goes on.
LEMMA OneTask ==
  ASSUME Inv, NEW c \in Child, \A d \in Child : d # c => task'[d] = task[d],
         Typed', overlap' = overlap, task[c].stage # "idle",
         ~overlap /\ task'[c].stage # "idle" =>
           /\ job'.status # "completed"
           /\ task'[c].stage = "encoded" => disk'["mp4"] >= 0
           /\ task'[c].stage = "ready" => disk'[task'[c].file] >= 0,
         Done'
  PROVE  Inv'
<1>1. ~overlap => \A d \in Child : task[d].stage # "idle" => d = c
  BY DEF Inv, Sound, Alone
<1>2. ~overlap => \A d \in Child : task'[d].stage # "idle" => d = c
  BY <1>1
<1>3. Alone' /\ Filled'
  BY <1>2 DEF Alone, Filled
<1> QED
  BY <1>3 DEF Inv, Sound

LEMMA TakeSteps == ASSUME Inv, NEW c \in Child, Take(c) \/ TakeNothing(c) PROVE Inv'
<1>0. /\ TypeOK /\ Typed /\ job \in Job /\ MaxFaults \in Nat /\ faults \in Nat /\ due \in Nat
      /\ due <= faults + 1 /\ faults <= MaxFaults /\ Done
  BY Facts DEF Inv, Typed, Sound
<1>1. ASSUME Take(c) PROVE Inv'
  <2>1. /\ due > 0 /\ task[c].stage = "idle" /\ due' = due - 1
        /\ job' = [job EXCEPT !.status = "processing"]
        /\ overlap' = (overlap \/ Running # {})
        /\ UNCHANGED <<footage, disk, purge, mishap, faults, around>>
    BY <1>1 DEF Take, Free
  <2>2. PICK r : r = [stage |-> "started", run |-> Runs, file |-> "none"]
    OBVIOUS
  <2>3. r \in TaskRow /\ r.stage = "started" /\ r.run > 0
    BY <1>0, <2>1, <2>2 DEF TaskRow, Stage, Runs
  <2>4. task' = [task EXCEPT ![c] = r] /\ due' <= faults' + 1 /\ due' \in 0..(MaxFaults + 1)
    BY <1>0, <1>1, <2>1, <2>2 DEF Take, Free
  <2>5. /\ task' \in [Child -> TaskRow] /\ Counted'
        /\ task'[c] = r /\ \A d \in Child : d # c => task'[d] = task[d]
    BY <1>0, <2>3, <2>4, Replaced
  <2>6. job' \in Job /\ job'.status = "processing"
    BY <1>0, <2>1 DEF Job
  <2>7. overlap' \in BOOLEAN
    BY <2>1
  <2>8. Typed'
    BY <1>0, <2>1, <2>4, <2>5, <2>6, <2>7 DEF TypeOK, around, Typed, TaskRow
  <2>9. ~overlap' => \A d \in Child : task[d].stage = "idle"
    BY <2>1 DEF Running
  <2>10. ~overlap' => \A d \in Child : task'[d].stage # "idle" => d = c
    BY <2>5, <2>9
  <2>11. Alone' /\ Filled' /\ Done'
    BY <2>3, <2>5, <2>6, <2>10 DEF Alone, Filled, Done
  <2> QED
    BY <2>8, <2>11 DEF Inv, Sound
<1>2. ASSUME TakeNothing(c) PROVE Inv'
  <2>1. /\ due > 0 /\ due' = due - 1 /\ mishap' = mishap \cup {"missed"}
        /\ UNCHANGED <<footage, job, task, disk, purge, overlap, faults, around>>
    BY <1>2 DEF TakeNothing, Free
  <2>2. due' \in 0..(MaxFaults + 1) /\ due' <= faults' + 1
    BY <1>0, <2>1
  <2>3. TypeOK'
    BY <1>0, <2>1, <2>2 DEF TypeOK, around
  <2>4. Done'
    BY <1>0, <2>1 DEF Done
  <2> QED
    BY <2>1, <2>2, <2>3, <2>4, Aside
<1> QED
  BY <1>1, <1>2

\* Steps with which a task ends: it fails, is killed, or completes its job.
LEMMA EndSteps ==
  ASSUME Inv, NEW c \in Child,
         \/ SelectNothing(c) \/ EncodingFails(c) \/ Complete(c) \/ LoseChild(c)
         \/ \E marked \in BOOLEAN : TaskFails(c, marked)
  PROVE  Inv'
<1>0. /\ TypeOK /\ Typed /\ job \in Job /\ MaxFaults \in Nat /\ faults \in Nat /\ due \in Nat
      /\ due <= faults + 1 /\ Done /\ Filled
      /\ disk \in [{"mp4", "zip"} -> -(MaxFaults + 1)..(MaxFaults + 1)]
      /\ task[c].stage = "ready" => task[c].file \in {"mp4", "zip"}
  BY Facts DEF Inv, Typed, Sound
<1>1. /\ Ends(c) /\ task[c].stage # "idle"
      /\ UNCHANGED <<footage, due, disk, purge, overlap, faults, around>>
      /\ mishap' \in {mishap, mishap \cup {"lost"}}
  BY DEF SelectNothing, EncodingFails, Complete, LoseChild, TaskFails
<1>2. /\ task' \in [Child -> TaskRow] /\ Counted' /\ task'[c].stage = "idle"
      /\ \A d \in Child : d # c => task'[d] = task[d]
  BY <1>0, <1>1, Ended
<1>3. ~overlap => job.status # "completed"
  BY <1>0, <1>1 DEF Filled
<1>4. ASSUME job' \in Job, Done' PROVE Inv'
  <2>1. Typed'
    BY <1>0, <1>1, <1>2, <1>4 DEF Typed, TypeOK, TaskRow, around
  <2> QED
    BY <1>1, <1>2, <1>4, <2>1, OneTask
<1>5. ASSUME job' \in {job, Written("failed")} PROVE Inv'
  <2>1. job' \in Job /\ job'.status \in {job.status, "failed"}
    BY <1>0, <1>5, Rows
  <2>2. Done'
    BY <1>1, <1>3, <2>1 DEF Done
  <2> QED
    BY <1>4, <2>1, <2>2
<1>6. ASSUME Complete(c), Visible PROVE Inv'
  <2>1. /\ task[c].stage = "ready" /\ disk[task[c].file] # 0
        /\ job' = [job EXCEPT !.status = "completed", !.file = task[c].file,
                              !.sum = disk[task[c].file], !.expires = "later"]
    BY <1>6 DEF Complete
  <2>2. task[c].file \in {"mp4", "zip"} /\ disk[task[c].file] \in Int
    BY <1>0, <2>1
  <2>3. /\ job' \in Job /\ job'.file = task[c].file /\ job'.sum = disk[task[c].file]
    BY <1>0, <2>1, <2>2 DEF Job
  <2>4. ~overlap => disk[task[c].file] > 0
    BY <1>0, <2>1, <2>2 DEF Filled
  <2>5. Done'
    BY <1>1, <2>2, <2>3, <2>4 DEF Done
  <2> QED
    BY <1>4, <2>3, <2>5
<1>7. CASE Complete(c)
  <2>1. CASE Visible
    BY <1>6, <1>7, <2>1
  <2>2. CASE ~Visible
    BY <1>5, <1>7, <2>2 DEF Complete
  <2> QED
    BY <2>1, <2>2
<1>8. CASE SelectNothing(c) \/ EncodingFails(c) \/ LoseChild(c)
  BY <1>5, <1>8 DEF SelectNothing, EncodingFails, LoseChild
<1>9. ASSUME NEW marked \in BOOLEAN, TaskFails(c, marked) PROVE Inv'
  BY <1>5, <1>9 DEF TaskFails
<1> QED
  BY <1>7, <1>8, <1>9

\* Steps with which a task goes on.
LEMMA OnwardSteps ==
  ASSUME Inv, NEW c \in Child,
         SelectInput(c) \/ Encoded(c) \/ (\E packed \in BOOLEAN : Pack(c, packed))
  PROVE  Inv'
<1>0. /\ TypeOK /\ Typed /\ job \in Job /\ MaxFaults \in Nat /\ due <= faults + 1 /\ Filled
      /\ disk \in [{"mp4", "zip"} -> -(MaxFaults + 1)..(MaxFaults + 1)]
      /\ task[c] \in TaskRow /\ task[c].run \in 0..(MaxFaults + 1)
      /\ task[c].stage # "idle" => task[c].run > 0
  BY Facts DEF Inv, Typed, Sound
<1>1. /\ task[c].stage # "idle"
      /\ UNCHANGED <<footage, job, due, purge, mishap, overlap, faults, around>>
  BY DEF SelectInput, Encoded, Pack
<1>2. ~overlap => job'.status # "completed"
  BY <1>0, <1>1 DEF Filled
<1>3. ASSUME NEW r \in TaskRow, task' = [task EXCEPT ![c] = r], r.stage # "idle" => r.run > 0,
             r.stage = "ready" => r.file \in {"mp4", "zip"},
             disk' \in [{"mp4", "zip"} -> -(MaxFaults + 1)..(MaxFaults + 1)],
             ~overlap => /\ r.stage = "encoded" => disk'["mp4"] >= 0
                         /\ r.stage = "ready" => disk'[r.file] >= 0
      PROVE  Inv'
  <2>1. /\ task' \in [Child -> TaskRow] /\ Counted'
        /\ task'[c] = r /\ \A d \in Child : d # c => task'[d] = task[d]
    BY <1>0, <1>1, <1>3, Replaced
  <2>2. Typed'
    BY <1>0, <1>1, <1>3, <2>1 DEF Typed, TypeOK, TaskRow, around
  <2>3. Done'
    BY <1>1, <1>2 DEF Done
  <2> QED
    BY <1>1, <1>2, <1>3, <2>1, <2>2, <2>3, OneTask
<1>4. ASSUME SelectInput(c) PROVE Inv'
  <2>1. PICK r : r = [task[c] EXCEPT !.stage = "encoding"]
    OBVIOUS
  <2>2. r \in TaskRow /\ r.stage = "encoding" /\ r.run = task[c].run
    BY <1>0, <2>1 DEF TaskRow, Stage
  <2>3. task' = [task EXCEPT ![c] = r] /\ disk' = [disk EXCEPT !["mp4"] = -task[c].run]
    BY <1>0, <1>4, <2>1 DEF SelectInput
  <2>4. -task[c].run \in -(MaxFaults + 1)..(MaxFaults + 1)
    BY <1>0
  <2>5. disk' \in [{"mp4", "zip"} -> -(MaxFaults + 1)..(MaxFaults + 1)]
    BY <1>0, <2>3, <2>4
  <2> QED
    BY <1>0, <1>1, <1>3, <2>2, <2>3, <2>5
<1>5. ASSUME Encoded(c) PROVE Inv'
  <2>1. PICK r : r = [task[c] EXCEPT !.stage = "encoded"]
    OBVIOUS
  <2>2. r \in TaskRow /\ r.stage = "encoded" /\ r.run = task[c].run
    BY <1>0, <2>1 DEF TaskRow, Stage
  <2>3. task' = [task EXCEPT ![c] = r] /\ disk' = [disk EXCEPT !["mp4"] = task[c].run]
    BY <1>0, <1>5, <2>1 DEF Encoded
  <2>4. task[c].run \in -(MaxFaults + 1)..(MaxFaults + 1)
    BY <1>0
  <2>5. disk' \in [{"mp4", "zip"} -> -(MaxFaults + 1)..(MaxFaults + 1)] /\ disk'["mp4"] >= 0
    BY <1>0, <2>3, <2>4
  <2> QED
    BY <1>0, <1>1, <1>3, <2>2, <2>3, <2>5
<1>6. ASSUME NEW packed \in BOOLEAN, Pack(c, packed) PROVE Inv'
  <2>1. PICK f : f = IF packed THEN "zip" ELSE "mp4"
    OBVIOUS
  <2>2. PICK r : r = [task[c] EXCEPT !.stage = "ready", !.file = f]
    OBVIOUS
  <2>3. r \in TaskRow /\ r.stage = "ready" /\ r.run = task[c].run /\ r.file = f
    BY <1>0, <2>1, <2>2 DEF TaskRow, Stage
  <2>4. task' = [task EXCEPT ![c] = r]
    BY <1>0, <1>6, <2>1, <2>2 DEF Pack
  <2>5. /\ task[c].stage = "encoded"
        /\ disk' = IF packed THEN [mp4 |-> 0, zip |-> disk["mp4"]]
                   ELSE IF job.protected THEN [disk EXCEPT !["zip"] = -task[c].run] ELSE disk
    BY <1>6 DEF Pack
  <2>6. /\ -task[c].run \in -(MaxFaults + 1)..(MaxFaults + 1)
        /\ 0 \in -(MaxFaults + 1)..(MaxFaults + 1)
    BY <1>0
  <2>7. ~overlap => disk["mp4"] >= 0
    BY <1>0, <2>5 DEF Filled
  <2>8. /\ disk' \in [{"mp4", "zip"} -> -(MaxFaults + 1)..(MaxFaults + 1)]
        /\ disk'[f] = disk["mp4"]
    <3>1. CASE packed
      <4>1. disk' = [mp4 |-> 0, zip |-> disk["mp4"]] /\ f = "zip"
        BY <2>1, <2>5, <3>1
      <4>2. disk' = [g \in {"mp4", "zip"} |-> IF g = "mp4" THEN 0 ELSE disk["mp4"]]
        BY <4>1
      <4> QED
        BY <1>0, <2>6, <4>1, <4>2
    <3>2. CASE ~packed
      BY <1>0, <2>1, <2>5, <2>6, <3>2
    <3> QED
      BY <3>1, <3>2
  <2>9. r.file \in {"mp4", "zip"}
    BY <2>1, <2>3
  <2> QED
    BY <1>0, <1>1, <1>3, <2>3, <2>4, <2>7, <2>8, <2>9
<1> QED
  BY <1>4, <1>5, <1>6

LEMMA RedeliverSteps ==
  ASSUME Inv, NEW c \in Child, NEW dies \in BOOLEAN, Redeliver(c, dies) PROVE Inv'
<1>0. /\ TypeOK /\ Typed /\ MaxFaults \in Nat /\ faults \in Nat /\ due \in Nat
      /\ due <= faults + 1 /\ faults <= MaxFaults /\ Done /\ task \in [Child -> TaskRow]
  BY Facts DEF Inv, Typed, Sound
<1>1. /\ task[c].stage # "idle" /\ faults < MaxFaults /\ due' = due + 1 /\ faults' = faults + 1
      /\ UNCHANGED <<footage, job, disk, purge, mishap, overlap, around>>
      /\ dies => Ends(c)
      /\ ~dies => task' = task
  BY DEF Redeliver
<1>2. due' \in 0..(MaxFaults + 1) /\ faults' \in 0..MaxFaults /\ due' <= faults' + 1
  BY <1>0, <1>1
<1>3. Done'
  BY <1>0, <1>1 DEF Done
<1>4. CASE dies
  <2>1. /\ task' \in [Child -> TaskRow] /\ Counted' /\ task'[c].stage = "idle"
        /\ \A d \in Child : d # c => task'[d] = task[d]
    BY <1>0, <1>1, <1>2, <1>4, Ended
  <2>2. Typed'
    BY <1>0, <1>1, <1>2, <2>1 DEF Typed, TypeOK, TaskRow, around
  <2> QED
    BY <1>1, <1>3, <2>1, <2>2, OneTask
<1>5. CASE ~dies
  <2>1. TypeOK'
    BY <1>0, <1>1, <1>2, <1>5 DEF TypeOK, around
  <2> QED
    BY <1>1, <1>2, <1>3, <1>5, <2>1, Aside
<1> QED
  BY <1>4, <1>5

LEMMA InvStep == ASSUME Inv, [Next]_vars PROVE Inv'
<1>1. CASE UNCHANGED vars
  BY <1>1 DEF vars, around, Inv, Typed, TypeOK, Counted, Sound, Alone, Filled, Done
<1>2. ASSUME NEW c \in Child, Take(c) \/ TakeNothing(c) \/ RunStep(c) \/ LoseChild(c)
      PROVE  Inv'
  <2>1. CASE Take(c) \/ TakeNothing(c)
    BY <2>1, TakeSteps
  <2>2. CASE SelectInput(c) \/ Encoded(c) \/ \E packed \in BOOLEAN : Pack(c, packed)
    BY <2>2, OnwardSteps
  <2>3. CASE \/ SelectNothing(c) \/ EncodingFails(c) \/ Complete(c) \/ LoseChild(c)
             \/ \E marked \in BOOLEAN : TaskFails(c, marked)
    BY <2>3, EndSteps
  <2> QED
    BY <1>2, <2>1, <2>2, <2>3 DEF RunStep
<1> QED
  BY <1>1, <1>2, RequestSteps, PurgeSteps, RedeliverSteps, AroundSteps DEF Next, Turn

\* Every variable keeps its type; no file is of a run that was never taken.
THEOREM TypeCorrect == Spec => []TypeOK
<1>1. Init => Inv
  BY TypedInit, SoundInit DEF Inv
<1>2. Inv /\ [Next]_vars => Inv'
  BY InvStep
<1>3. Inv => TypeOK
  BY DEF Inv, Typed
<1> QED
  BY <1>1, <1>2, <1>3, PTL DEF Spec

\* While no two runs of a job overlap, what can be downloaded is complete and has the checksum
\* of the row, and a completed job has its file until it is purged.
THEOREM DownloadsSound == Spec => []ExportsAreSound
<1>1. Init => Inv
  BY TypedInit, SoundInit DEF Inv
<1>2. Inv /\ [Next]_vars => Inv'
  BY InvStep
<1>3. Inv => ExportsAreSound
  BY Facts DEF Inv, Sound, Done, ExportsAreSound, Downloadable
<1> QED
  BY <1>1, <1>2, <1>3, PTL DEF Spec

-----------------------------------------------------------------------------
(* Induction: on sets of numbers, since no prover here instantiates a predicate *)

\* A set of numbers with any member has a least one.
LEMMA Least ==
  ASSUME NEW T \in SUBSET Nat, T # {}
  PROVE  \E n \in T : \A m \in T : n <= m
<1>1. PICK n \in T : \A m \in T : ~(<<m, n>> \in OpToRel(<, Nat))
  BY NatLessThanWellFounded, WFMin
<1>2. \A m \in T : ~(m < n)
  BY <1>1 DEF OpToRel
<1> QED
  BY <1>2

LEMMA Induction ==
  ASSUME NEW T, 0 \in T, \A n \in Nat : n \in T => n + 1 \in T
  PROVE  Nat \subseteq T
<1> SUFFICES ASSUME Nat \ T # {} PROVE FALSE
  OBVIOUS
<1>1. PICK n \in Nat \ T : \A m \in Nat \ T : n <= m
  BY Least
<1>2. n - 1 \in Nat /\ n - 1 \notin Nat \ T
  BY <1>1
<1> QED
  BY <1>2

\* f starts with base, and f[i] is what the i-th step makes of the value before.
Iterates(f, n, V, base, step) ==
  f \in [0..n -> V] /\ f[0] = base /\ \A i \in 1..n : f[i] = step[i][f[i - 1]]

\* A recursion over the first numbers has a solution: step[i][x] is what x becomes at i.
LEMMA Iteration ==
  ASSUME NEW n \in Nat, NEW V, NEW base \in V, NEW step \in [1..n -> [V -> V]]
  PROVE  \E f : Iterates(f, n, V, base, step)
<1> DEFINE Solves(f, m) == Iterates(f, m, V, base, step)
           T == {m \in Nat : m <= n => \E f : Solves(f, m)}
<1>1. 0 \in T
  <2>1. Solves([i \in 0..0 |-> base], 0)
    BY DEF Iterates
  <2> QED
    BY <2>1
<1>2. ASSUME NEW m \in Nat, m \in T PROVE m + 1 \in T
  <2> SUFFICES ASSUME m + 1 <= n PROVE \E f : Solves(f, m + 1)
    OBVIOUS
  <2>1. PICK f : Solves(f, m)
    BY <1>2
  <2>2. PICK g : g = [i \in 0..(m + 1) |-> IF i = m + 1 THEN step[m + 1][f[m]] ELSE f[i]]
    OBVIOUS
  <2>3. step[m + 1][f[m]] \in V /\ m \in 0..m
    <3>1. m + 1 \in 1..n /\ f[m] \in V
      BY <2>1 DEF Iterates
    <3> QED
      BY <3>1
  <2>4. /\ g \in [0..(m + 1) -> V] /\ g[m + 1] = step[m + 1][f[m]]
        /\ \A i \in 0..m : g[i] = f[i]
    BY <2>1, <2>2, <2>3 DEF Iterates
  <2>5. \A i \in 1..(m + 1) : g[i] = step[i][g[i - 1]]
    <3> SUFFICES ASSUME NEW i \in 1..(m + 1) PROVE g[i] = step[i][g[i - 1]]
      OBVIOUS
    <3>1. CASE i = m + 1
      BY <2>3, <2>4, <3>1
    <3>2. CASE i # m + 1
      <4>1. i \in 1..m /\ i \in 0..m /\ i - 1 \in 0..m
        BY <3>2
      <4> QED
        BY <2>1, <2>4, <4>1 DEF Iterates
    <3> QED
      BY <3>1, <3>2
  <2>6. g[0] = base
    BY <2>1, <2>4 DEF Iterates
  <2> QED
    BY <2>4, <2>5, <2>6 DEF Iterates
<1>3. n \in T
  <2> HIDE DEF T
  <2> QED
    BY <1>1, <1>2, Induction
<1> QED
  BY <1>3

\* What a list of segments is.
IsList(q, n) == n \in Nat /\ DOMAIN q = 1..n /\ Len(q) = n
                /\ \A i \in 1..n : q[i].from \in Int /\ q[i].to \in Int

\* The values of a recursion stay numbers when each step does.
LEMMA Stays ==
  ASSUME NEW n \in Nat, NEW f, f[0] \in Int,
         \A i \in 1..n : f[i - 1] \in Int => f[i] \in Int
  PROVE  \A i \in 0..n : f[i] \in Int
<1> DEFINE T == {m \in Nat : m <= n => f[m] \in Int}
<1>1. 0 \in T
  OBVIOUS
<1>2. ASSUME NEW m \in Nat, m \in T PROVE m + 1 \in T
  <2> SUFFICES ASSUME m + 1 <= n PROVE f[m + 1] \in Int
    OBVIOUS
  <2>1. PICK k : k = m + 1
    OBVIOUS
  <2>2. k \in 1..n /\ k - 1 = m /\ f[m] \in Int
    BY <1>2, <2>1
  <2> QED
    BY <2>1, <2>2
<1>3. Nat \subseteq T
  <2> HIDE DEF T
  <2> QED
    BY <1>1, <1>2, Induction
<1> QED
  BY <1>3

\* Passing the cursor over the segment r.
Pass(r, x, b) == Larger(x, Smaller(r.to, b))

LEMMA CursorSteps ==
  ASSUME NEW q, NEW n, IsList(q, n), NEW a \in Int, NEW b \in Int
  PROVE  \E c \in [0..n -> Int] :
           /\ Cursor(q, a, b) = c
           /\ c[0] = a
           /\ \A i \in 1..n : c[i] = Pass(q[i], c[i - 1], b)
<1> DEFINE step == [i \in 1..n |-> [x \in Int |-> Pass(q[i], x, b)]]
           Solved(c) == c = [i \in 0..n |-> IF i = 0 THEN a ELSE Pass(q[i], c[i - 1], b)]
<1>0. n \in Nat
  BY DEF IsList
<1>1. step \in [1..n -> [Int -> Int]]
  BY DEF IsList, Larger, Smaller, Pass
<1>2. PICK c \in [0..n -> Int] : c[0] = a /\ \A i \in 1..n : c[i] = step[i][c[i - 1]]
  <2>1. PICK V : V = Int
    OBVIOUS
  <2>2. step \in [1..n -> [V -> V]] /\ a \in V
    BY <1>1, <2>1
  <2>3. \E c : Iterates(c, n, V, a, step)
    <3> HIDE DEF step
    <3> QED
      BY <1>0, <2>2, Iteration
  <2> QED
    BY <2>1, <2>3 DEF Iterates
<1>3. \A i \in 1..n : c[i] = Pass(q[i], c[i - 1], b)
  <2> SUFFICES ASSUME NEW i \in 1..n PROVE c[i] = Pass(q[i], c[i - 1], b)
    OBVIOUS
  <2>1. i - 1 \in 0..n
    BY <1>0
  <2>2. PICK x \in Int : x = c[i - 1]
    BY <1>2, <2>1
  <2>3. c[i] = step[i][x]
    BY <1>2, <2>2
  <2> QED
    BY <2>2, <2>3
<1>4. Solved(c)
  <2>1. \A i \in 0..n : i # 0 => i \in 1..n
    BY <1>0
  <2> QED
    BY <1>2, <1>3, <2>1
<1>5. Cursor(q, a, b) = CHOOSE d : Solved(d)
  BY DEF Cursor, IsList, Pass
<1>6. PICK d : d = Cursor(q, a, b) /\ Solved(d)
  <2>1. \E d : Solved(d)
    BY <1>4
  <2> HIDE DEF Solved
  <2> QED
    BY <1>5, <2>1
<1>7. /\ d[0] = a
      /\ \A i \in 1..n : d[i] = Pass(q[i], d[i - 1], b)
      /\ d = [i \in 0..n |-> d[i]]
  BY <1>0, <1>6
<1>8. \A i \in 1..n : d[i - 1] \in Int => d[i] \in Int
  BY <1>7 DEF IsList, Larger, Smaller, Pass
<1>9. \A i \in 0..n : d[i] \in Int
  BY <1>0, <1>7, <1>8, Stays
<1> QED
  BY <1>6, <1>7, <1>9

\* What the segment r adds to the coverage of a..b.
Share(r, a, b) == Smaller(r.to, b) - Larger(r.from, a)

\* c[i] is the coverage by i segments.
Added(c, q, n, a, b) ==
  /\ c \in [0..n -> Int] /\ c[0] = 0
  /\ \A i \in 1..n : c[i] = c[i - 1] + Share(q[i], a, b)

LEMMA CoverSteps ==
  ASSUME NEW q, NEW n, IsList(q, n), NEW a \in Int, NEW b \in Int
  PROVE  \E c : Added(c, q, n, a, b) /\ Covered(q, a, b) = Smaller(DaySlots, c[n])
<1> DEFINE step == [i \in 1..n |-> [x \in Int |-> x + Share(q[i], a, b)]]
           Solved(c) == c = [i \in 0..n |-> IF i = 0 THEN 0 ELSE c[i - 1] + Share(q[i], a, b)]
<1>0. n \in Nat /\ \A i \in 1..n : Share(q[i], a, b) \in Int
  BY DEF IsList, Larger, Smaller, Share
<1>1. step \in [1..n -> [Int -> Int]]
  BY <1>0
<1>2. PICK c \in [0..n -> Int] : c[0] = 0 /\ \A i \in 1..n : c[i] = step[i][c[i - 1]]
  <2>1. PICK V, zero : V = Int /\ zero = 0
    OBVIOUS
  <2>2. step \in [1..n -> [V -> V]] /\ zero \in V
    BY <1>1, <2>1
  <2>3. \E c : Iterates(c, n, V, zero, step)
    <3> HIDE DEF step
    <3> QED
      BY <1>0, <2>2, Iteration
  <2> QED
    BY <2>1, <2>3 DEF Iterates
<1>3. \A i \in 1..n : c[i] = c[i - 1] + Share(q[i], a, b)
  <2> SUFFICES ASSUME NEW i \in 1..n PROVE c[i] = c[i - 1] + Share(q[i], a, b)
    OBVIOUS
  <2>1. i - 1 \in 0..n
    BY <1>0
  <2>2. PICK x \in Int : x = c[i - 1]
    BY <1>2, <2>1
  <2>3. c[i] = step[i][x]
    BY <1>2, <2>2
  <2> QED
    BY <2>2, <2>3
<1>4. Solved(c)
  <2>1. \A i \in 0..n : i # 0 => i \in 1..n
    BY <1>0
  <2> QED
    BY <1>2, <1>3, <2>1
<1>5. Covered(q, a, b) = Smaller(DaySlots, (CHOOSE d : Solved(d))[n])
  BY DEF Covered, IsList, Share
<1>6. PICK d : d = (CHOOSE e : Solved(e)) /\ Solved(d)
  <2>1. \E e : Solved(e)
    BY <1>4
  <2> HIDE DEF Solved
  <2> QED
    BY <2>1
<1>7. /\ d[0] = 0
      /\ \A i \in 1..n : d[i] = d[i - 1] + Share(q[i], a, b)
      /\ d = [i \in 0..n |-> d[i]]
  <2>1. d = [i \in 0..n |-> d[i]] /\ d[0] = 0
    <3>1. PICK x : x = [i \in 0..n |-> IF i = 0 THEN 0 ELSE d[i - 1] + Share(q[i], a, b)]
      OBVIOUS
    <3>2. d = x /\ x = [i \in 0..n |-> x[i]]
      BY <1>6, <3>1
    <3>3. 0 \in 0..n
      BY <1>0
    <3>4. x[0] = 0
      BY <3>1, <3>3
    <3> QED
      BY <3>2, <3>4
  <2>2. ASSUME NEW i \in 1..n PROVE d[i] = d[i - 1] + Share(q[i], a, b)
    <3>1. i \in 0..n /\ i # 0
      BY <1>0
    <3> QED
      BY <1>6, <3>1
  <2> QED
    BY <2>1, <2>2
<1>8. ASSUME NEW i \in 1..n, d[i - 1] \in Int PROVE d[i] \in Int
  <2>1. PICK x \in Int, y \in Int : x = d[i - 1] /\ y = Share(q[i], a, b)
    BY <1>0, <1>8
  <2>2. d[i] = x + y
    BY <1>7, <2>1
  <2> QED
    BY <2>2
<1>9. \A i \in 0..n : d[i] \in Int
  <2>1. d[0] \in Int
    BY <1>7
  <2> QED
    BY <1>0, <1>8, <2>1, Stays
<1>10. Covered(q, a, b) = Smaller(DaySlots, d[n])
  <2> HIDE DEF Solved
  <2> QED
    BY <1>5, <1>6
<1> QED
  BY <1>7, <1>9, <1>10 DEF Added

-----------------------------------------------------------------------------
(* Lists of segments *)

Segments(S) == \A s \in S : s.from \in Int /\ s.to \in Int /\ s.from < s.to

\* An order of a finite set of segments lists each of them once.
LEMMA OrderLists ==
  ASSUME NEW S, IsFiniteSet(S), Segments(S), NEW q \in SetToSeqs(S),
         NEW n, n = Cardinality(S)
  PROVE  /\ IsList(q, n)
         /\ \A i \in 1..n : q[i] \in S
         /\ \A i, j \in 1..n : i # j => q[i] # q[j]
         /\ \A s \in S : \E i \in 1..n : q[i] = s
<1>1. n \in Nat
  BY FS_CardinalityType
<1>2. q \in [1..n -> S] /\ \A i, j \in 1..n : i # j => q[i] # q[j]
  BY DEF SetToSeqs
<1>3. Len(q) = n
  BY <1>1, <1>2
<1>4. q \in Injection(1..n, S)
  BY <1>2 DEF Injection, IsInjective
<1>5. Cardinality(1..n) = n
  BY <1>1, FS_Interval
<1>6. q \in Surjection(1..n, S)
  BY <1>4, <1>5, FS_Injection
<1>7. \A s \in S : \E i \in 1..n : q[i] = s
  BY <1>6 DEF Surjection
<1> QED
  BY <1>1, <1>2, <1>3, <1>7 DEF IsList, Segments

-----------------------------------------------------------------------------
(* The gaps of a day *)

\* The list of a day: q has n segments that overlap a..b, by their starts.
DayList(q, n, a, b) ==
  /\ IsList(q, n)
  /\ a \in Int /\ b \in Int /\ a < b
  /\ \A i \in 1..n : q[i].from < q[i].to /\ q[i].from < b /\ q[i].to > a
  /\ \A i, j \in 1..n : i < j => q[i].from <= q[j].from

\* c[i] is where the cursor is after i segments, e[i] where the i-th starts.
Passed(c, e, q, n, a, b) ==
  /\ c \in [0..n -> Int] /\ c[0] = a
  /\ \A i \in 1..n : c[i] = Pass(q[i], c[i - 1], b)
  /\ e = [i \in 1..(n + 1) |-> IF i = n + 1 THEN b ELSE Larger(q[i].from, a)]

\* The cursor is at the latest end that it has passed.
Reached(c, q, i, a, b) ==
  /\ a <= c[i] /\ c[i] <= b
  /\ \A j \in 1..i : q[j].to <= c[i] \/ c[i] = b
  /\ c[i] = a \/ \E j \in 1..i : q[j].to >= c[i]

LEMMA CursorReaches ==
  ASSUME NEW q, NEW n, NEW a, NEW b, NEW c, NEW e, DayList(q, n, a, b), Passed(c, e, q, n, a, b)
  PROVE  \A i \in 0..n : Reached(c, q, i, a, b)
<1>0. n \in Nat /\ a \in Int /\ b \in Int /\ a < b
  BY DEF DayList, IsList
<1> DEFINE T == {m \in Nat : m <= n => Reached(c, q, m, a, b)}
<1>1. 0 \in T
  BY <1>0 DEF Passed, Reached
<1>2. ASSUME NEW m \in Nat, m \in T PROVE m + 1 \in T
  <2> SUFFICES ASSUME m + 1 <= n PROVE Reached(c, q, m + 1, a, b)
    OBVIOUS
  <2>1. PICK k : k = m + 1
    OBVIOUS
  <2>2. k \in 1..n /\ k - 1 = m /\ m \in 0..n /\ k \in Nat
    BY <2>1, <1>0
  <2>3. Reached(c, q, m, a, b)
    BY <1>0, <1>2
  <2>4. PICK x \in Int : x = c[m]
    BY <2>2 DEF Passed
  <2>5. PICK y \in Int : y = q[k].to /\ a < y
    BY <2>2 DEF DayList, IsList
  <2>6. c[k] = Larger(x, Smaller(y, b))
    BY <2>2, <2>4, <2>5 DEF Passed, Pass
  <2>7. /\ a <= c[k] /\ c[k] <= b /\ x <= c[k]
        /\ y <= c[k] \/ c[k] = b
        /\ c[k] = x \/ (y >= c[k])
        /\ c[k] \in Int
    BY <2>3, <2>4, <2>5, <2>6, <1>0 DEF Larger, Smaller, Reached
  <2>8. ASSUME NEW j \in 1..k PROVE q[j].to <= c[k] \/ c[k] = b
    <3>1. CASE j = k
      BY <2>5, <2>7, <3>1
    <3>2. CASE j # k
      <4>1. j \in 1..m /\ j \in 1..n
        BY <1>0, <2>1, <2>2, <3>2
      <4>2. PICK z \in Int : z = q[j].to
        BY <4>1 DEF DayList, IsList
      <4>3. z <= x \/ x = b
        BY <2>3, <2>4, <4>1, <4>2 DEF Reached
      <4> QED
        BY <1>0, <2>7, <4>2, <4>3
    <3> QED
      BY <3>1, <3>2
  <2>9. c[k] = a \/ \E j \in 1..k : q[j].to >= c[k]
    <3>1. CASE y >= c[k]
      BY <2>2, <2>5, <3>1
    <3>2. CASE c[k] = x
      <4>1. CASE \E j \in 1..m : q[j].to >= c[m]
        <5>1. PICK j \in 1..m : q[j].to >= c[m]
          BY <4>1
        <5>2. j \in 1..k
          BY <2>2
        <5> QED
          BY <5>1, <5>2, <2>4, <3>2
      <4>2. CASE c[m] = a
        BY <4>2, <2>4, <3>2
      <4> QED
        BY <2>3, <4>1, <4>2 DEF Reached
    <3> QED
      BY <2>7, <3>1, <3>2
  <2> QED
    BY <2>1, <2>7, <2>8, <2>9 DEF Reached
<1>3. Nat \subseteq T
  <2> HIDE DEF T
  <2> QED
    BY <1>1, <1>2, Induction
<1> QED
  BY <1>0, <1>3

\* The starts go up, to the end of the day.
LEMMA StartsGoUp ==
  ASSUME NEW q, NEW n, NEW a, NEW b, NEW c, NEW e, DayList(q, n, a, b), Passed(c, e, q, n, a, b)
  PROVE  /\ n \in Nat /\ e \in [1..(n + 1) -> Int] /\ e[n + 1] = b
         /\ \A i \in 1..n : e[i] >= a /\ e[i] >= q[i].from
         /\ \A i \in 1..n : e[i] = a \/ e[i] = q[i].from
         /\ \A i \in 1..(n + 1) : e[i] <= b
         /\ \A i, j \in 1..(n + 1) : i <= j => e[i] <= e[j]
<1>0. n \in Nat /\ a \in Int /\ b \in Int /\ a < b
  BY DEF DayList, IsList
<1>1. PICK k : k = n + 1
  OBVIOUS
<1>2. k \in 1..k /\ \A i \in 1..k : i # k => i \in 1..n
  BY <1>0, <1>1
<1>3. DOMAIN e = 1..k /\ e = [i \in 1..k |-> e[i]] /\ e[k] = b
  BY <1>1, <1>2 DEF Passed
<1>4. \A i \in 1..n : i \in 1..k /\ i # k /\ e[i] = Larger(q[i].from, a)
  BY <1>0, <1>1 DEF Passed
<1>5. \A i \in 1..n : /\ e[i] \in Int /\ e[i] >= a /\ e[i] >= q[i].from /\ e[i] <= b
                      /\ e[i] = a \/ e[i] = q[i].from
  BY <1>0, <1>4 DEF DayList, IsList, Larger
<1>6. e \in [1..k -> Int]
  BY <1>0, <1>2, <1>3, <1>5
<1>7. ASSUME NEW i \in 1..k PROVE e[i] <= b
  <2>1. CASE i = k
    BY <1>0, <1>3, <2>1
  <2>2. CASE i # k
    BY <1>2, <1>5, <2>2
  <2> QED
    BY <2>1, <2>2
<1>8. ASSUME NEW i \in 1..k, NEW j \in 1..k, i <= j PROVE e[i] <= e[j]
  <2>1. CASE j = k
    BY <1>3, <1>7, <2>1
  <2>2. CASE i = j
    BY <1>6, <2>2
  <2>3. CASE i # j /\ j # k
    <3>1. i \in 1..n /\ j \in 1..n /\ i < j
      BY <1>0, <1>1, <1>8, <2>3
    <3>2. PICK x \in Int, y \in Int : x = q[i].from /\ y = q[j].from /\ x <= y
      BY <3>1 DEF DayList, IsList
    <3>3. e[i] = Larger(x, a) /\ e[j] = Larger(y, a)
      BY <1>4, <3>1, <3>2
    <3> QED
      BY <1>0, <3>2, <3>3 DEF Larger
  <2> QED
    BY <2>1, <2>2, <2>3
<1> QED
  BY <1>0, <1>1, <1>3, <1>5, <1>6, <1>7, <1>8

\* q lists what S has on the day a..b, each segment once.
Lists(q, n, S, a, b) ==
  /\ DayList(q, n, a, b) /\ Segments(S)
  /\ \A i \in 1..n : q[i] \in S
  /\ \A i, j \in 1..n : i # j => q[i] # q[j]
  /\ \A s \in S : s.from < b /\ s.to > a => \E i \in 1..n : q[i] = s

LEMMA GapsAre ==
  ASSUME NEW q, NEW n, NEW a, NEW b, NEW c, NEW e, DayList(q, n, a, b), Passed(c, e, q, n, a, b),
         Cursor(q, a, b) = c
  PROVE  /\ \A g \in Gaps(q, a, b) : \E i \in 1..(n + 1) : g = <<c[i - 1], e[i]>> /\ c[i - 1] < e[i]
         /\ \A i \in 1..(n + 1) : c[i - 1] < e[i] => <<c[i - 1], e[i]>> \in Gaps(q, a, b)
<1>0. n \in Nat /\ DOMAIN q = 1..n /\ Len(q) = n
  BY DEF DayList, IsList
<1>1. PICK k : k = n + 1
  OBVIOUS
<1>2. k \in 1..k /\ k - 1 = n /\ \A i \in 1..k : i # k => i \in 1..n
  BY <1>0, <1>1
<1>3. e[k] = b /\ \A i \in 1..n : i \in 1..k /\ e[i] = Larger(q[i].from, a)
  BY <1>0, <1>1, <1>2 DEF Passed
<1>4. PICK met : met = {<<c[i - 1], Larger(q[i].from, a)>> : i \in 1..n}
  OBVIOUS
<1>5. Gaps(q, a, b) = {g \in met \cup {<<c[n], b>>} : g[1] < g[2]}
  BY <1>0, <1>4 DEF Gaps
<1>6. ASSUME NEW g \in Gaps(q, a, b)
      PROVE  \E i \in 1..k : g = <<c[i - 1], e[i]>> /\ c[i - 1] < e[i]
  <2>1. g \in met \cup {<<c[n], b>>} /\ g[1] < g[2]
    BY <1>5
  <2>2. CASE g \in met
    <3>1. PICK i \in 1..n : g = <<c[i - 1], Larger(q[i].from, a)>>
      BY <1>4, <2>2
    <3>2. i \in 1..k /\ g = <<c[i - 1], e[i]>>
      BY <1>3, <3>1
    <3>3. c[i - 1] < e[i]
      BY <2>1, <3>2
    <3> QED
      BY <3>2, <3>3
  <2>3. CASE g = <<c[n], b>>
    <3>1. g = <<c[k - 1], e[k]>>
      BY <1>2, <1>3, <2>3
    <3>2. c[k - 1] < e[k]
      BY <2>1, <3>1
    <3> QED
      BY <1>2, <3>1, <3>2
  <2> QED
    BY <2>1, <2>2, <2>3
<1>7. ASSUME NEW i \in 1..k, c[i - 1] < e[i]
      PROVE  <<c[i - 1], e[i]>> \in Gaps(q, a, b)
  <2>1. PICK g : g = <<c[i - 1], e[i]>>
    OBVIOUS
  <2>2. g[1] < g[2]
    BY <1>7, <2>1
  <2>3. g \in met \cup {<<c[n], b>>}
    <3>1. CASE i = k
      BY <1>2, <1>3, <2>1, <3>1
    <3>2. CASE i # k
      BY <1>2, <1>3, <1>4, <2>1, <3>2
    <3> QED
      BY <3>1, <3>2
  <2> QED
    BY <1>5, <2>1, <2>2, <2>3
<1> QED
  BY <1>1, <1>6, <1>7

Empty(q, a, b) == UNION {Slots(g[1], g[2]) : g \in Gaps(q, a, b)}

LEMMA EmptyAre ==
  ASSUME NEW q, NEW n, NEW a, NEW b, NEW c, NEW e, DayList(q, n, a, b), Passed(c, e, q, n, a, b),
         Cursor(q, a, b) = c, NEW t
  PROVE  t \in Empty(q, a, b) <=>
           t \in Int /\ \E i \in 1..(n + 1) : c[i - 1] <= t /\ t < e[i]
<1>0. n \in Nat /\ c \in [0..n -> Int]
  BY DEF DayList, IsList, Passed
<1>1. e \in [1..(n + 1) -> Int]
  BY StartsGoUp
<1>2. \A i \in 1..(n + 1) : i - 1 \in 0..n
  BY <1>0
<1>3. \A i \in 1..(n + 1) : c[i - 1] \in Int /\ e[i] \in Int
  BY <1>0, <1>1, <1>2
<1>4. ASSUME t \in Empty(q, a, b)
      PROVE  t \in Int /\ \E i \in 1..(n + 1) : c[i - 1] <= t /\ t < e[i]
  <2>1. PICK g \in Gaps(q, a, b) : t \in Slots(g[1], g[2])
    BY <1>4 DEF Empty
  <2>2. PICK i \in 1..(n + 1) : g = <<c[i - 1], e[i]>>
    BY GapsAre
  <2>3. g[1] = c[i - 1] /\ g[2] = e[i]
    BY <2>2
  <2>4. PICK x \in Int, y \in Int : x = c[i - 1] /\ y = e[i]
    BY <1>3
  <2>5. t \in x..(y - 1)
    BY <2>1, <2>3, <2>4 DEF Slots
  <2>6. t \in Int /\ x <= t /\ t < y
    BY <2>5
  <2> QED
    BY <2>4, <2>6
<1>5. ASSUME t \in Int, NEW i \in 1..(n + 1), c[i - 1] <= t, t < e[i]
      PROVE  t \in Empty(q, a, b)
  <2>1. PICK x \in Int, y \in Int : x = c[i - 1] /\ y = e[i]
    BY <1>3
  <2>2. x < y /\ t \in x..(y - 1)
    BY <1>5, <2>1
  <2>3. PICK g : g = <<x, y>>
    OBVIOUS
  <2>4. g \in Gaps(q, a, b)
    BY <2>1, <2>2, <2>3, GapsAre
  <2>5. t \in Slots(g[1], g[2])
    BY <2>2, <2>3 DEF Slots
  <2> QED
    BY <2>4, <2>5 DEF Empty
<1> QED
  BY <1>4, <1>5

\* The gaps are the slots of the day without a segment.
LEMMA EmptySlots ==
  ASSUME NEW q, NEW n, NEW S, NEW a, NEW b, NEW c, NEW e,
         Lists(q, n, S, a, b), Passed(c, e, q, n, a, b), Cursor(q, a, b) = c, NEW t
  PROVE  t \in Empty(q, a, b) <=>
           t \in Slots(a, b) /\ ~\E s \in S : s.from <= t /\ t < s.to
<1>0. /\ n \in Nat /\ c \in [0..n -> Int] /\ a \in Int /\ b \in Int /\ a < b
      /\ DayList(q, n, a, b)
  BY DEF DayList, IsList, Passed, Lists
<1>1. /\ e \in [1..(n + 1) -> Int] /\ e[n + 1] = b
      /\ \A i \in 1..n : e[i] >= a /\ e[i] >= q[i].from
      /\ \A i \in 1..n : e[i] = a \/ e[i] = q[i].from
      /\ \A i \in 1..(n + 1) : e[i] <= b
      /\ \A i, j \in 1..(n + 1) : i <= j => e[i] <= e[j]
  <2>1. DayList(q, n, a, b)
    BY <1>0
  <2> QED
    BY <2>1, StartsGoUp, SMTT(60)
<1>2. \A i \in 0..n : Reached(c, q, i, a, b)
  BY <1>0, CursorReaches
<1>3. \A i \in 1..(n + 1) : i - 1 \in 0..n
  BY <1>0
<1>4. \A i \in 1..n : i \in 1..(n + 1) /\ q[i].from \in Int /\ q[i].to \in Int /\ q[i] \in S
  BY <1>0 DEF Lists, DayList, IsList
<1>5. ASSUME t \in Empty(q, a, b)
      PROVE  t \in Slots(a, b) /\ ~\E s \in S : s.from <= t /\ t < s.to
  <2>1. PICK i \in 1..(n + 1) : t \in Int /\ c[i - 1] <= t /\ t < e[i]
    BY <1>0, <1>5, EmptyAre
  <2>2. Reached(c, q, i - 1, a, b) /\ c[i - 1] \in Int /\ e[i] \in Int /\ e[i] <= b
    BY <1>0, <1>1, <1>2, <1>3
  <2>3. a <= t /\ t < b /\ c[i - 1] < b
    BY <1>0, <2>1, <2>2 DEF Reached
  <2>4. t \in Slots(a, b)
    BY <1>0, <2>1, <2>3 DEF Slots
  <2>5. ASSUME NEW s \in S, s.from <= t, t < s.to PROVE FALSE
    <3>1. PICK x \in Int, y \in Int : x = s.from /\ y = s.to
      BY DEF Lists, Segments
    <3>2. x < b /\ y > a
      BY <1>0, <2>1, <2>3, <2>5, <3>1
    <3>3. PICK j \in 1..n : q[j] = s
      BY <3>1, <3>2 DEF Lists
    <3>4. CASE j < i
      <4>1. j \in 1..(i - 1)
        BY <1>0, <3>4
      <4>2. y <= c[i - 1]
        BY <2>2, <2>3, <3>1, <3>3, <4>1 DEF Reached
      <4> QED
        BY <2>1, <2>2, <2>5, <3>1, <4>2
    <3>5. CASE i <= j
      <4>1. e[i] <= e[j] /\ e[j] \in Int /\ (e[j] = a \/ e[j] = x)
        BY <1>1, <1>4, <3>1, <3>3, <3>5
      <4> QED
        BY <1>0, <2>1, <2>2, <2>3, <2>5, <3>1, <4>1
    <3> QED
      BY <1>0, <3>4, <3>5
  <2> QED
    BY <2>4, <2>5
<1>6. ASSUME t \in Slots(a, b), ~\E s \in S : s.from <= t /\ t < s.to
      PROVE  t \in Empty(q, a, b)
  <2>1. t \in Int /\ a <= t /\ t < b
    BY <1>0, <1>6 DEF Slots
  <2> DEFINE After == {i \in 1..(n + 1) : t < e[i]}
  <2>2. After \in SUBSET Nat /\ n + 1 \in After
    BY <1>0, <1>1, <2>1
  <2>3. PICK i \in After : \A m \in After : i <= m
    <3> HIDE DEF After
    <3> QED
      BY <2>2, Least
  <2>4. i \in 1..(n + 1) /\ t < e[i]
    OBVIOUS
  <2>5. Reached(c, q, i - 1, a, b) /\ c[i - 1] \in Int
    BY <1>0, <1>2, <1>3, <2>4
  <2>6. c[i - 1] <= t
    <3>1. CASE c[i - 1] = a
      BY <2>1, <3>1
    <3>2. ASSUME NEW j \in 1..(i - 1), q[j].to >= c[i - 1] PROVE c[i - 1] <= t
      <4>1. j \in 1..n /\ j \in 1..(n + 1) /\ ~(i <= j)
        BY <1>0, <2>4
      <4>2. j \notin After
        BY <2>3, <4>1
      <4>3. e[j] <= t
        BY <1>1, <2>1, <4>1, <4>2
      <4>4. PICK x \in Int, y \in Int : x = q[j].from /\ y = q[j].to
        BY <1>4, <4>1
      <4>5. x <= t
        BY <1>1, <2>1, <4>1, <4>3, <4>4
      <4>6. y <= t
        BY <1>4, <1>6, <2>1, <4>1, <4>4, <4>5
      <4> QED
        BY <2>1, <2>5, <3>2, <4>4, <4>6
    <3> QED
      BY <2>5, <3>1, <3>2 DEF Reached
  <2> QED
    BY <1>0, <2>1, <2>4, <2>6, EmptyAre
<1> QED
  BY <1>5, <1>6

LEMMA GapsApart ==
  ASSUME NEW q, NEW n, NEW a, NEW b, NEW c, NEW e, DayList(q, n, a, b), Passed(c, e, q, n, a, b),
         Cursor(q, a, b) = c,
         NEW g \in Gaps(q, a, b), NEW h \in Gaps(q, a, b), g # h
  PROVE  Slots(g[1], g[2]) \cap Slots(h[1], h[2]) = {}
<1>0. n \in Nat /\ c \in [0..n -> Int] /\ a \in Int /\ b \in Int /\ a < b
  BY DEF DayList, IsList, Passed
<1>1. /\ e \in [1..(n + 1) -> Int]
      /\ \A i \in 1..n : e[i] = a \/ e[i] = q[i].from
      /\ \A i \in 1..(n + 1) : e[i] <= b
  BY StartsGoUp
<1>2. \A i \in 0..n : Reached(c, q, i, a, b)
  BY CursorReaches
<1>3. \A i \in 1..(n + 1) : i - 1 \in 0..n
  BY <1>0
<1>4. ASSUME NEW i \in 1..(n + 1), NEW k \in 1..(n + 1), i < k PROVE e[i] <= c[k - 1]
  <2>1. i \in 1..n /\ i \in 1..(k - 1)
    BY <1>0, <1>4
  <2>2. Reached(c, q, k - 1, a, b) /\ c[k - 1] \in Int /\ e[i] \in Int /\ e[i] <= b
    BY <1>0, <1>1, <1>2, <1>3
  <2>3. PICK x \in Int, y \in Int : x = q[i].from /\ y = q[i].to /\ x < y /\ y > a
    BY <2>1 DEF DayList, IsList
  <2>4. e[i] = a \/ e[i] = x
    BY <1>1, <2>1, <2>3
  <2>5. y <= c[k - 1] \/ c[k - 1] = b
    BY <2>1, <2>2, <2>3 DEF Reached
  <2> QED
    BY <1>0, <2>2, <2>3, <2>4, <2>5
<1>5. PICK i \in 1..(n + 1) : g = <<c[i - 1], e[i]>>
  BY GapsAre
<1>6. PICK k \in 1..(n + 1) : h = <<c[k - 1], e[k]>>
  BY GapsAre
<1>7. PICK w \in Int, x \in Int, y \in Int, z \in Int :
        w = c[i - 1] /\ x = e[i] /\ y = c[k - 1] /\ z = e[k]
  BY <1>0, <1>1, <1>3
<1>8. g[1] = w /\ g[2] = x /\ h[1] = y /\ h[2] = z
  BY <1>5, <1>6, <1>7
<1>9. i # k
  BY <1>5, <1>6
<1>10. x <= y \/ z <= w
  BY <1>0, <1>4, <1>7, <1>9
<1>11. (w..(x - 1)) \cap (y..(z - 1)) = {}
  BY <1>10
<1> QED
  BY <1>8, <1>11 DEF Slots

-----------------------------------------------------------------------------
(* Coverage *)

Clip(r, a, b) == Slots(Larger(r.from, a), Smaller(r.to, b))

\* The slots of the day in the first i segments.
Taken(q, i, a, b) == UNION {Clip(q[j], a, b) : j \in 1..i}

LEMMA TakenCounted ==
  ASSUME NEW q, NEW n, NEW S, NEW a, NEW b, Lists(q, n, S, a, b), Apart(S),
         NEW c, Added(c, q, n, a, b)
  PROVE  IsFiniteSet(Taken(q, n, a, b)) /\ Cardinality(Taken(q, n, a, b)) = c[n]
<1>0. n \in Nat /\ a \in Int /\ b \in Int /\ a < b
  BY DEF Lists, DayList, IsList
<1> DEFINE Told(m) == /\ IsFiniteSet(Taken(q, m, a, b))
                      /\ Cardinality(Taken(q, m, a, b)) = c[m]
           T == {m \in Nat : m <= n => Told(m)}
<1>1. 0 \in T
  <2>1. Taken(q, 0, a, b) = {}
    BY DEF Taken
  <2> QED
    BY <2>1, FS_EmptySet DEF Added
<1>2. ASSUME NEW m \in Nat, m \in T PROVE m + 1 \in T
  <2> SUFFICES ASSUME m + 1 <= n PROVE Told(m + 1)
    OBVIOUS
  <2>1. PICK k : k = m + 1
    OBVIOUS
  <2>2. k \in 1..n /\ k - 1 = m /\ m \in 0..n /\ k \in Nat
    BY <2>1, <1>0
  <2>3. Told(m)
    BY <1>0, <1>2
  <2>4. PICK x \in Int, y \in Int : x = q[k].from /\ y = q[k].to
    BY <2>2 DEF Lists, DayList, IsList
  <2>5. x < y /\ x < b /\ y > a
    BY <2>2, <2>4 DEF Lists, DayList
  <2>6. PICK v \in Int, w \in Int : v = Larger(x, a) /\ w = Smaller(y, b)
    BY <1>0 DEF Larger, Smaller
  <2>7. v < w /\ x <= v /\ w <= y
    BY <1>0, <2>5, <2>6 DEF Larger, Smaller
  <2>8. Clip(q[k], a, b) = v..(w - 1) /\ Share(q[k], a, b) = w - v
    BY <2>4, <2>6 DEF Clip, Share, Slots
  <2>9. IsFiniteSet(v..(w - 1)) /\ Cardinality(v..(w - 1)) = w - v
    <3>1. PICK u \in Int : u = w - 1
      OBVIOUS
    <3>2. IsFiniteSet(v..u) /\ Cardinality(v..u) = IF v > u THEN 0 ELSE u - v + 1
      BY FS_Interval
    <3> QED
      BY <2>7, <3>1, <3>2
  <2>10. Taken(q, k, a, b) = Taken(q, m, a, b) \cup (v..(w - 1))
    <3>1. 1..k = 1..m \cup {k}
      BY <2>1, <2>2
    <3> QED
      BY <2>8, <3>1 DEF Taken
  <2>11. Taken(q, m, a, b) \cap (v..(w - 1)) = {}
    <3> SUFFICES ASSUME NEW t \in v..(w - 1), NEW j \in 1..m, t \in Clip(q[j], a, b)
                 PROVE  FALSE
      BY DEF Taken
    <3>1. j \in 1..n /\ j # k
      BY <1>0, <2>1, <2>2
    <3>2. q[j] # q[k] /\ q[j] \in S /\ q[k] \in S
      BY <2>2, <3>1 DEF Lists
    <3>3. PICK z \in Int, u \in Int : z = q[j].from /\ u = q[j].to
      BY <3>1 DEF Lists, DayList, IsList
    <3>4. t \in Int /\ z <= t /\ t < u
      BY <1>0, <3>3 DEF Clip, Slots, Larger, Smaller
    <3>5. u <= x \/ y <= z
      BY <2>4, <3>2, <3>3 DEF Apart
    <3> QED
      BY <2>7, <3>4, <3>5
  <2>12. /\ IsFiniteSet(Taken(q, k, a, b))
         /\ Cardinality(Taken(q, k, a, b)) = c[m] + (w - v)
    <3>1. PICK U, W : U = Taken(q, m, a, b) /\ W = v..(w - 1)
      OBVIOUS
    <3>2. IsFiniteSet(U) /\ IsFiniteSet(W) /\ U \cap W = {} /\ Taken(q, k, a, b) = U \cup W
      BY <2>3, <2>9, <2>10, <2>11, <3>1
    <3>3. /\ IsFiniteSet(U \cup W)
          /\ Cardinality(U \cup W) = Cardinality(U) + Cardinality(W) - Cardinality(U \cap W)
      BY <3>2, FS_Union
    <3>4. Cardinality(U \cap W) = 0 /\ Cardinality(U) = c[m] /\ Cardinality(W) = w - v
      BY <2>3, <2>9, <3>1, <3>2, FS_EmptySet
    <3>5. c[m] \in Int
      BY <2>2 DEF Added
    <3> QED
      BY <3>2, <3>3, <3>4, <3>5
  <2>13. c[k] = c[m] + (w - v)
    BY <2>2, <2>8 DEF Added
  <2> QED
    BY <2>1, <2>12, <2>13
<1>3. Nat \subseteq T
  <2> HIDE DEF T
  <2> QED
    BY <1>1, <1>2, Induction
<1> QED
  BY <1>0, <1>3

\* Gaps and coverage make up the day.
LEMMA CoverageExact ==
  ASSUME NEW q, NEW n, NEW S, NEW a, NEW b, NEW c, NEW e,
         Lists(q, n, S, a, b), Passed(c, e, q, n, a, b), Cursor(q, a, b) = c,
         Apart(S), b - a = DaySlots
  PROVE  Covered(q, a, b) + Cardinality(Empty(q, a, b)) = DaySlots
<1>0. n \in Nat /\ a \in Int /\ b \in Int /\ a < b /\ IsList(q, n)
  BY DEF Lists, DayList, IsList
<1>1. PICK d : Added(d, q, n, a, b) /\ Covered(q, a, b) = Smaller(DaySlots, d[n])
  BY <1>0, CoverSteps
<1>2. PICK U : U = Taken(q, n, a, b)
  OBVIOUS
<1>3. IsFiniteSet(U) /\ Cardinality(U) = d[n]
  BY <1>1, <1>2, TakenCounted
<1>4. PICK W : W = Slots(a, b)
  OBVIOUS
<1>5. IsFiniteSet(W) /\ Cardinality(W) = DaySlots
  <2>1. PICK u \in Int : u = b - 1
    BY <1>0
  <2>2. IsFiniteSet(a..u) /\ Cardinality(a..u) = IF a > u THEN 0 ELSE u - a + 1
    BY <1>0, FS_Interval
  <2> QED
    BY <1>0, <1>4, <2>1, <2>2 DEF Slots
<1>6. ASSUME NEW t PROVE t \in U <=> t \in W /\ \E s \in S : s.from <= t /\ t < s.to
  <2>1. ASSUME t \in U PROVE t \in W /\ \E s \in S : s.from <= t /\ t < s.to
    <3>1. PICK i \in 1..n : t \in Clip(q[i], a, b)
      BY <1>2, <2>1 DEF Taken
    <3>2. PICK x \in Int, y \in Int : x = q[i].from /\ y = q[i].to
      BY <1>0 DEF IsList
    <3>3. t \in Int /\ x <= t /\ t < y /\ a <= t /\ t < b
      BY <1>0, <3>1, <3>2 DEF Clip, Slots, Larger, Smaller
    <3> QED
      BY <1>0, <1>4, <3>2, <3>3 DEF Slots, Lists
  <2>2. ASSUME t \in W, NEW s \in S, s.from <= t, t < s.to PROVE t \in U
    <3>1. t \in Int /\ a <= t /\ t < b
      BY <1>0, <1>4, <2>2 DEF Slots
    <3>2. PICK x \in Int, y \in Int : x = s.from /\ y = s.to
      BY DEF Lists, Segments
    <3>3. x < b /\ y > a
      BY <1>0, <2>2, <3>1, <3>2
    <3>4. PICK i \in 1..n : q[i] = s
      BY <3>2, <3>3 DEF Lists
    <3>5. t \in Clip(s, a, b)
      BY <1>0, <2>2, <3>1, <3>2 DEF Clip, Slots, Larger, Smaller
    <3> QED
      BY <1>2, <3>4, <3>5 DEF Taken
  <2> QED
    BY <2>1, <2>2
<1>7. Empty(q, a, b) = W \ U
  <2>1. \A t : t \in Empty(q, a, b) <=> t \in W /\ ~\E s \in S : s.from <= t /\ t < s.to
    BY <1>4, EmptySlots
  <2> QED
    BY <1>6, <2>1
<1>8. U \subseteq W /\ W \cap U = U
  BY <1>6
<1>9. Cardinality(U) <= Cardinality(W)
  BY <1>5, <1>8, FS_Subset
<1>10. Cardinality(W \ U) = Cardinality(W) - Cardinality(W \cap U)
  BY <1>5, FS_Difference
<1>11. PICK x \in Int : x = d[n]
  BY <1>0, <1>1 DEF Added
<1>12. x <= DaySlots /\ Cardinality(W \ U) = DaySlots - x /\ DaySlots \in Int
  <2>1. Cardinality(U) = x /\ Cardinality(W) = DaySlots /\ Cardinality(W \cap U) = x
    BY <1>3, <1>5, <1>8, <1>11
  <2> QED
    BY <1>9, <1>10, <2>1, DaySlotsOK
<1>13. Covered(q, a, b) = x
  BY <1>1, <1>11, <1>12 DEF Smaller
<1> QED
  BY <1>7, <1>12, <1>13

-----------------------------------------------------------------------------
(* A day *)

\* Of the segments that play a moment, one starts last.
LEMMA LatestPlays ==
  ASSUME NEW S, Segments(S), NEW t \in Int, NEW s \in S, s.from <= t, s.to >= t
  PROVE  SegmentAt(S, t) # {}
<1> DEFINE playing == {o \in S : o.from <= t /\ o.to >= t}
           Ages == {t - o.from : o \in playing}
<1>1. \A o \in playing : o.from \in Int /\ t - o.from \in Nat
  BY DEF Segments
<1>2. s \in playing
  OBVIOUS
<1>3. Ages \in SUBSET Nat /\ Ages # {}
  <2> HIDE DEF playing
  <2> QED
    BY <1>1, <1>2
<1>4. PICK x \in Ages : \A y \in Ages : x <= y
  <2> HIDE DEF Ages
  <2> QED
    BY <1>3, Least
<1>5. PICK l \in playing : x = t - l.from
  OBVIOUS
<1>6. \A o \in playing : o.from <= l.from
  <2> SUFFICES ASSUME NEW o \in playing PROVE o.from <= l.from
    OBVIOUS
  <2>1. PICK u \in Int, v \in Int : u = o.from /\ v = l.from
    BY <1>1
  <2>2. t - v <= t - u
    BY <1>4, <1>5, <2>1
  <2> QED
    BY <2>1, <2>2
<1>7. l \in SegmentAt(S, t)
  BY <1>6 DEF SegmentAt
<1> QED
  BY <1>7

\* A moment strictly inside a gap has no segment, one in no gap has.
LEMMA MomentExact ==
  ASSUME NEW q, NEW n, NEW S, NEW a, NEW b, NEW c, NEW e,
         Lists(q, n, S, a, b), Passed(c, e, q, n, a, b), Cursor(q, a, b) = c,
         NEW t \in Slots(a, b)
  PROVE  /\ (\E g \in Gaps(q, a, b) : g[1] < t /\ t < g[2]) => SegmentAt(S, t) = {}
         /\ t \notin Empty(q, a, b) => SegmentAt(S, t) # {}
<1>0. /\ n \in Nat /\ a \in Int /\ b \in Int /\ a < b /\ DayList(q, n, a, b)
      /\ c \in [0..n -> Int] /\ t \in Int
  BY DEF Lists, DayList, IsList, Passed, Slots
<1>1. e \in [1..(n + 1) -> Int]
  BY <1>0, StartsGoUp
<1>2. ASSUME NEW g \in Gaps(q, a, b), g[1] < t, t < g[2], NEW s \in SegmentAt(S, t)
      PROVE  FALSE
  <2>1. s \in S /\ s.from <= t /\ s.to >= t
    BY DEF SegmentAt
  <2>2. PICK x \in Int, y \in Int : x = s.from /\ y = s.to /\ x < y
    BY <2>1 DEF Lists, Segments
  <2>3. PICK i \in 1..(n + 1) : g = <<c[i - 1], e[i]>>
    BY <1>0, GapsAre
  <2>4. i - 1 \in 0..n
    BY <1>0
  <2>5. PICK v \in Int, w \in Int : v = c[i - 1] /\ w = e[i] /\ g[1] = v /\ g[2] = w
    BY <1>0, <1>1, <2>3, <2>4
  <2>6. PICK u \in Int : (u = t \/ u = t - 1) /\ x <= u /\ u < y
    <3>1. t - 1 \in Int /\ (t < y \/ (x <= t - 1 /\ t - 1 < y))
      BY <1>0, <2>1, <2>2
    <3> QED
      BY <1>0, <2>1, <2>2, <3>1
  <2>7. v <= u /\ u < w
    BY <1>0, <1>2, <2>5, <2>6
  <2>8. u \in Empty(q, a, b)
    <3>1. \E k \in 1..(n + 1) : c[k - 1] <= u /\ u < e[k]
      BY <2>5, <2>7
    <3> QED
      BY <1>0, <3>1, EmptyAre
  <2> QED
    BY <2>1, <2>2, <2>6, <2>8, EmptySlots
<1>3. ASSUME t \notin Empty(q, a, b) PROVE SegmentAt(S, t) # {}
  <2>1. PICK s \in S : s.from <= t /\ t < s.to
    BY <1>3, EmptySlots
  <2>2. s.to >= t
    BY <1>0, <2>1 DEF Lists, Segments
  <2> QED
    BY <1>0, <2>1, <2>2, LatestPlays DEF Lists
<1> QED
  BY <1>2, <1>3

\* What the answers owe to the list q of a day.
ListOwes(S, q, a, b) ==
  /\ Empty(q, a, b) = Slots(a, b) \ UNION {Slots(s.from, s.to) : s \in S}
  /\ \A g, h \in Gaps(q, a, b) : g # h => Slots(g[1], g[2]) \cap Slots(h[1], h[2]) = {}
  /\ Apart(S) => Covered(q, a, b) + Cardinality(Empty(q, a, b)) = DaySlots
  /\ \A t \in Slots(a, b) :
       /\ (\E g \in Gaps(q, a, b) : g[1] < t /\ t < g[2]) => SegmentAt(S, t) = {}
       /\ t \notin Empty(q, a, b) => SegmentAt(S, t) # {}

LEMMA ListExact ==
  ASSUME NEW S, IsFiniteSet(S), Segments(S), NEW a \in Int, NEW b \in Int, b - a = DaySlots,
         NEW q \in OldestFirst(OnDay(S, a, b))
  PROVE  ListOwes(S, q, a, b)
<1>1. PICK R : R = OnDay(S, a, b)
  OBVIOUS
<1>2. IsFiniteSet(R) /\ Segments(R) /\ q \in SetToSeqs(R)
  <2>1. R \in SUBSET S
    BY <1>1 DEF OnDay, InRange
  <2>2. IsFiniteSet(R)
    BY <2>1, FS_Subset
  <2> QED
    BY <1>1, <2>1, <2>2 DEF OldestFirst, Segments
<1>3. PICK n : n = Cardinality(R)
  OBVIOUS
<1>4. /\ IsList(q, n)
      /\ \A i \in 1..n : q[i] \in R
      /\ \A i, j \in 1..n : i # j => q[i] # q[j]
      /\ \A s \in R : \E i \in 1..n : q[i] = s
  BY <1>2, <1>3, OrderLists
<1>5. a < b
  BY DaySlotsOK
<1>6. \A i, j \in 1..n : i < j => q[i].from <= q[j].from
  BY <1>4 DEF OldestFirst, IsList
<1>7. \A i \in 1..n : q[i] \in S /\ q[i].from < b /\ q[i].to > a
  BY <1>1, <1>4 DEF OnDay, InRange
<1>8. DayList(q, n, a, b)
  BY <1>4, <1>5, <1>6, <1>7 DEF DayList, Segments
<1>9. Lists(q, n, S, a, b)
  BY <1>1, <1>4, <1>7, <1>8 DEF Lists, OnDay, InRange
<1>10. PICK c \in [0..n -> Int] :
         /\ Cursor(q, a, b) = c
         /\ c[0] = a
         /\ \A i \in 1..n : c[i] = Pass(q[i], c[i - 1], b)
  BY <1>4, CursorSteps
<1>11. PICK e : e = [i \in 1..(n + 1) |-> IF i = n + 1 THEN b ELSE Larger(q[i].from, a)]
  OBVIOUS
<1>12. Passed(c, e, q, n, a, b)
  BY <1>10, <1>11 DEF Passed
<1>13. Empty(q, a, b) = Slots(a, b) \ UNION {Slots(s.from, s.to) : s \in S}
  <2>1. ASSUME NEW t, t \in Slots(a, b)
        PROVE  t \in UNION {Slots(s.from, s.to) : s \in S} <=> \E s \in S : s.from <= t /\ t < s.to
    <3>1. \A s \in S : t \in Slots(s.from, s.to) <=> s.from <= t /\ t < s.to
      BY <2>1 DEF Slots, Segments
    <3> QED
      BY <3>1
  <2>2. \A t : t \in Empty(q, a, b) <=> t \in Slots(a, b) /\ ~\E s \in S : s.from <= t /\ t < s.to
    BY <1>9, <1>10, <1>12, EmptySlots
  <2> QED
    BY <2>1, <2>2
<1>14. \A g, h \in Gaps(q, a, b) : g # h => Slots(g[1], g[2]) \cap Slots(h[1], h[2]) = {}
  BY <1>8, <1>10, <1>12, GapsApart
<1>15. Apart(S) => Covered(q, a, b) + Cardinality(Empty(q, a, b)) = DaySlots
  BY <1>9, <1>10, <1>12, CoverageExact
<1>16. \A t \in Slots(a, b) :
         /\ (\E g \in Gaps(q, a, b) : g[1] < t /\ t < g[2]) => SegmentAt(S, t) = {}
         /\ t \notin Empty(q, a, b) => SegmentAt(S, t) # {}
  BY <1>9, <1>10, <1>12, MomentExact
<1> QED
  BY <1>13, <1>14, <1>15, <1>16 DEF ListOwes

LEMMA InItsDay ==
  ASSUME NEW d \in Int, NEW x \in Int, x \div DaySlots = (d * DaySlots) \div DaySlots
  PROVE  d * DaySlots <= x /\ x < (d + 1) * DaySlots
<1>1. PICK D \in Nat \ {0} : D = DaySlots
  BY DaySlotsOK
<1>2. (d * D) \div D = d
  OBVIOUS
<1>3. d * D <= x /\ x < d * D + D
  <2>1. x \div D = d
    BY <1>1, <1>2
  <2>2. x = D * (x \div D) + (x % D) /\ x % D \in 0..(D - 1)
    OBVIOUS
  <2> QED
    BY <2>1, <2>2
<1>4. (d + 1) * D = d * D + D
  OBVIOUS
<1> QED
  BY <1>1, <1>3, <1>4

\* The answers about a day agree with the footage, whatever the footage and the day.
THEOREM DayTrue ==
  ASSUME NEW S, IsFiniteSet(S), Segments(S), NEW d \in Int
  PROVE  DayExact(S, d * DaySlots, (d + 1) * DaySlots)
<1>1. PICK a \in Int, b \in Int : a = d * DaySlots /\ b = (d + 1) * DaySlots /\ b - a = DaySlots
  BY DaySlotsOK
<1>2. ASSUME HasRecordings(S, a \div DaySlots) PROVE OnDay(S, a, b) # {}
  <2>1. PICK s \in S : s.from \div DaySlots = a \div DaySlots
    BY <1>2 DEF HasRecordings
  <2>2. PICK x \in Int, y \in Int : x = s.from /\ y = s.to /\ x < y
    BY DEF Segments
  <2>3. x \div DaySlots = (d * DaySlots) \div DaySlots
    BY <1>1, <2>1, <2>2
  <2>4. a <= x /\ x < b
    BY <1>1, <2>2, <2>3, InItsDay
  <2>5. y > a
    BY <2>2, <2>4
  <2> QED
    BY <2>2, <2>4, <2>5 DEF OnDay, InRange
<1>3. DayExact(S, a, b)
  <2> SUFFICES ASSUME NEW q \in OldestFirst(OnDay(S, a, b))
               PROVE  LET gaps == Gaps(q, a, b)
                          empty == Empty(q, a, b)
                      IN  /\ empty = Slots(a, b) \ UNION {Slots(s.from, s.to) : s \in S}
                          /\ \A g, h \in gaps :
                               g # h => Slots(g[1], g[2]) \cap Slots(h[1], h[2]) = {}
                          /\ Apart(S) => Covered(q, a, b) + Cardinality(empty) = DaySlots
                          /\ \A t \in Slots(a, b) :
                               /\ (\E g \in gaps : g[1] < t /\ t < g[2]) => SegmentAt(S, t) = {}
                               /\ t \notin empty => SegmentAt(S, t) # {}
                          /\ HasRecordings(S, a \div DaySlots) => OnDay(S, a, b) # {}
    BY DEF DayExact, Empty
  <2>1. ListOwes(S, q, a, b)
    BY <1>1, ListExact
  <2> QED
    BY <1>2, <2>1 DEF ListOwes
<1> QED
  BY <1>1, <1>3

-----------------------------------------------------------------------------
(* Pages *)

\* In the list of segments of which no two start together, a segment has its rank.
LEMMA Rank ==
  ASSUME NEW S, IsFiniteSet(S), Segments(S), \A s, t \in S : s.from = t.from => s = t,
         NEW q \in NewestFirst(S), NEW n, n = Cardinality(S), NEW i \in 1..n
  PROVE  Cardinality({t \in S : t.from >= q[i].from}) = i
<1>1. /\ IsList(q, n)
      /\ \A k \in 1..n : q[k] \in S
      /\ \A k, j \in 1..n : k # j => q[k] # q[j]
      /\ \A s \in S : \E k \in 1..n : q[k] = s
  BY OrderLists DEF NewestFirst
<1>2. \A k, j \in 1..n : k < j => q[k].from >= q[j].from
  BY <1>1 DEF NewestFirst, IsList
<1>3. n \in Nat /\ i \in Nat /\ \A j \in 1..i : j \in 1..n
  BY <1>1 DEF IsList
<1>4. PICK B : B = {t \in S : t.from >= q[i].from}
  OBVIOUS
<1>5. PICK f : f = [j \in 1..i |-> q[j]]
  OBVIOUS
<1>6. \A s \in S : s.from \in Int
  BY DEF Segments
<1>7. f \in [1..i -> B]
  <2>1. ASSUME NEW j \in 1..i PROVE q[j] \in B
    <3>1. q[j] \in S /\ q[i] \in S /\ (j = i \/ j < i) /\ j \in 1..n
      BY <1>1, <1>3
    <3>2. q[j].from >= q[i].from
      BY <1>2, <1>6, <3>1
    <3> QED
      BY <1>4, <3>1, <3>2
  <2> QED
    BY <1>5, <2>1
<1>8. \A k, j \in 1..i : f[k] = f[j] => k = j
  BY <1>1, <1>3, <1>5
<1>9. ASSUME NEW s \in B PROVE \E j \in 1..i : f[j] = s
  <2>1. s \in S /\ s.from >= q[i].from
    BY <1>4
  <2>2. PICK k \in 1..n : q[k] = s
    BY <1>1, <2>1
  <2>3. ~(i < k)
    <3>1. SUFFICES ASSUME i < k PROVE FALSE
      OBVIOUS
    <3>2. q[i].from >= s.from /\ q[i] \in S /\ q[i] # s
      BY <1>1, <1>2, <2>2, <3>1
    <3> QED
      BY <1>6, <2>1, <3>2
  <2>4. k \in 1..i
    BY <1>3, <2>3
  <2> QED
    BY <1>5, <2>2, <2>4
<1>10. f \in Surjection(1..i, B) /\ f \in Injection(1..i, B)
  BY <1>7, <1>8, <1>9 DEF Surjection, Injection, IsInjective
<1>11. IsFiniteSet(1..i) /\ Cardinality(1..i) = i
  BY <1>3, FS_Interval
<1>12. Cardinality(B) = i
  BY <1>10, <1>11, FS_Surjection
<1> QED
  BY <1>4, <1>12

\* There is then one list only.
LEMMA OneOrder ==
  ASSUME NEW S, IsFiniteSet(S), Segments(S), \A s, t \in S : s.from = t.from => s = t,
         NEW q \in NewestFirst(S), NEW r \in NewestFirst(S)
  PROVE  q = r
<1>1. PICK n : n = Cardinality(S) /\ n \in Nat
  BY FS_CardinalityType
<1>2. q \in [1..n -> S] /\ r \in [1..n -> S]
  BY <1>1 DEF NewestFirst, SetToSeqs
<1>3. ASSUME NEW i \in 1..n PROVE q[i] = r[i]
  <2>1. PICK k \in 1..n : r[k] = q[i]
    BY <1>1, <1>2, OrderLists DEF NewestFirst
  <2>2. PICK x : x = Cardinality({t \in S : t.from >= q[i].from})
    OBVIOUS
  <2>3. x = i
    BY <1>1, <2>2, Rank
  <2>4. x = Cardinality({t \in S : t.from >= r[k].from})
    BY <2>1, <2>2
  <2>5. x = k
    BY <1>1, <2>4, Rank
  <2> QED
    BY <2>1, <2>3, <2>5
<1>4. q = [i \in 1..n |-> q[i]] /\ r = [i \in 1..n |-> r[i]]
  BY <1>2
<1>5. [i \in 1..n |-> q[i]] = [i \in 1..n |-> r[i]]
  BY <1>3
<1> QED
  BY <1>4, <1>5

\* A page is a window on the list of N segments.
InWindow(q, N, n, size, s) == \E i \in 1..N : q[i] = s /\ (n - 1) * size < i /\ i <= n * size

LEMMA PageIs ==
  ASSUME NEW q, NEW N \in Nat, NEW S, q \in [1..N -> S], NEW n \in Nat \ {0},
         NEW size \in Nat \ {0}, NEW s
  PROVE  s \in Range(Page(q, n, size)) <=> InWindow(q, N, n, size, s)
<1>1. PICK x \in Nat, y \in Nat : x = (n - 1) * size /\ y = n * size /\ x < y
  <2>1. n * size = (n - 1) * size + size /\ n - 1 \in Nat
    OBVIOUS
  <2>2. (n - 1) * size \in Nat /\ n * size \in Nat
    BY <2>1
  <2> QED
    BY <2>1, <2>2
<1>2. Len(q) = N
  OBVIOUS
<1>3. PICK z \in Nat : z = Smaller(y, N) /\ z <= y /\ z <= N /\ (z = y \/ z = N)
  BY <1>1 DEF Smaller
<1>4. PICK w \in Nat : w = x + 1
  BY <1>1
<1>5. Page(q, n, size) = SubSeq(q, w, z)
  BY <1>1, <1>2, <1>3, <1>4 DEF Page
<1>6. PICK p : p = SubSeq(q, w, z)
  OBVIOUS
<1>7. DOMAIN p = 1..(z - w + 1) /\ \A i \in 1..(z - w + 1) : p[i] = q[w + i - 1]
  BY <1>1, <1>3, <1>4, <1>6
<1>8. ASSUME NEW j \in DOMAIN p, p[j] = s
      PROVE  \E i \in 1..N : q[i] = s /\ x < i /\ i <= y
  <2>1. PICK i \in Int : i = w + j - 1
    BY <1>7
  <2>2. x < i /\ i <= y /\ i \in 1..N /\ q[i] = s
    BY <1>1, <1>3, <1>4, <1>7, <1>8, <2>1
  <2> QED
    BY <2>2
<1>9. ASSUME NEW i \in 1..N, q[i] = s, x < i, i <= y PROVE \E j \in DOMAIN p : p[j] = s
  <2>1. PICK j \in Int : j = i - w + 1
    OBVIOUS
  <2>2. j \in 1..(z - w + 1) /\ w + j - 1 = i
    BY <1>1, <1>3, <1>4, <1>9, <2>1
  <2> QED
    BY <1>7, <1>9, <2>2
<1> QED
  BY <1>1, <1>5, <1>6, <1>8, <1>9 DEF Range, InWindow

LEMMA Before ==
  ASSUME NEW m \in Nat, NEW k \in Nat, m <= k, NEW size \in Nat
  PROVE  m * size <= k * size
<1>1. PICK d \in Nat : k = m + d
  <2>1. k - m \in Nat /\ k = m + (k - m)
    OBVIOUS
  <2> QED
    BY <2>1
<1>2. k * size = m * size + d * size
  BY <1>1
<1>3. d * size \in Nat /\ m * size \in Nat
  OBVIOUS
<1> QED
  BY <1>2, <1>3

\* Every segment that is listed is on one page, whatever the size of the pages.
THEOREM PagesTrue ==
  ASSUME NEW S, IsFiniteSet(S), Segments(S), NEW a, NEW b, NEW size \in Nat \ {0}
  PROVE  PagesExact(S, a, b, size)
<1>1. PICK L : L = Listed(S, a, b)
  OBVIOUS
<1>2. PICK numbers : numbers = 1..(Cardinality(S) + 1)
  OBVIOUS
<1>3. L \in SUBSET S /\ Segments(L)
  BY <1>1 DEF Listed, Segments
<1>4. PICK N \in Nat, M \in Nat :
        IsFiniteSet(L) /\ N = Cardinality(L) /\ M = Cardinality(S) /\ N <= M
  BY <1>3, FS_Subset, FS_CardinalityType
<1>5. numbers = 1..(M + 1) /\ 1 \in numbers /\ \A n \in numbers : n \in Nat \ {0}
  BY <1>2, <1>4
<1>6. SUFFICES ASSUME \A s, t \in L : s.from = t.from => s = t,
                      NEW q \in [numbers -> NewestFirst(L)]
               PROVE  /\ UNION {Range(Page(q[n], n, size)) : n \in numbers} = L
                      /\ \A m, n \in numbers : m # n =>
                           Range(Page(q[m], m, size)) \cap Range(Page(q[n], n, size)) = {}
  BY <1>1, <1>2 DEF PagesExact
<1>7. PICK p : p = q[1] /\ p \in NewestFirst(L)
  BY <1>5
<1>8. \A n \in numbers : q[n] = p
  BY <1>3, <1>4, <1>6, <1>7, OneOrder
<1>9. /\ p \in [1..N -> L]
      /\ \A i, j \in 1..N : i # j => p[i] # p[j]
      /\ \A s \in L : \E i \in 1..N : p[i] = s
  <2>1. p \in [1..N -> L]
    BY <1>4, <1>7 DEF NewestFirst, SetToSeqs
  <2> QED
    BY <1>3, <1>4, <1>7, <2>1, OrderLists DEF NewestFirst
<1>10. ASSUME NEW n \in numbers, NEW s
       PROVE  s \in Range(Page(q[n], n, size)) <=> InWindow(p, N, n, size, s)
  BY <1>5, <1>8, <1>9, PageIs
<1>11. ASSUME NEW s \in L PROVE \E n \in numbers : s \in Range(Page(q[n], n, size))
  <2>1. PICK i \in 1..N : p[i] = s
    BY <1>9
  <2> DEFINE Enough == {n \in Nat : i <= n * size}
  <2>2. i \in Enough /\ Enough \in SUBSET Nat
    <3>1. i * 1 <= i * size
      <4>1. size * i = (size - 1) * i + i /\ size - 1 \in Nat
        OBVIOUS
      <4>2. (size - 1) * i \in Nat
        BY <4>1
      <4> QED
        BY <4>1, <4>2
    <3> QED
      BY <3>1
  <2>3. PICK n \in Enough : \A m \in Enough : n <= m
    <3> HIDE DEF Enough
    <3> QED
      BY <2>2, Least
  <2>4. n \in Nat /\ i <= n * size /\ n <= i
    BY <2>2, <2>3
  <2>5. n # 0
    BY <2>4
  <2>6. n - 1 \in Nat /\ n - 1 \notin Enough
    BY <2>3, <2>4, <2>5
  <2>7. (n - 1) * size < i
    <3>1. PICK x \in Nat : x = (n - 1) * size
      BY <2>6
    <3> QED
      BY <2>6, <3>1
  <2>8. n \in numbers
    BY <1>4, <1>5, <2>4, <2>5
  <2> QED
    BY <1>10, <2>1, <2>4, <2>7, <2>8 DEF InWindow
<1>12. ASSUME NEW n \in numbers, NEW s \in Range(Page(q[n], n, size)) PROVE s \in L
  BY <1>9, <1>10 DEF InWindow
<1>13. ASSUME NEW m \in numbers, NEW n \in numbers, m < n,
              NEW s \in Range(Page(q[m], m, size)), s \in Range(Page(q[n], n, size))
       PROVE  FALSE
  <2>1. PICK i \in 1..N : p[i] = s /\ i <= m * size
    BY <1>10 DEF InWindow
  <2>2. PICK j \in 1..N : p[j] = s /\ (n - 1) * size < j
    BY <1>10, <1>13 DEF InWindow
  <2>3. i = j
    BY <1>9, <2>1, <2>2
  <2>4. m \in Nat /\ n - 1 \in Nat /\ m <= n - 1
    BY <1>5, <1>13
  <2>5. PICK x \in Nat, y \in Nat : x = m * size /\ y = (n - 1) * size /\ x <= y
    BY <2>4, Before
  <2> QED
    BY <2>1, <2>2, <2>3, <2>5
<1>14. ASSUME NEW m \in numbers, NEW n \in numbers, m # n
       PROVE  Range(Page(q[m], m, size)) \cap Range(Page(q[n], n, size)) = {}
  <2>1. m < n \/ n < m
    BY <1>5, <1>14
  <2> QED
    BY <1>13, <2>1
<1> QED
  BY <1>11, <1>12, <1>14

-----------------------------------------------------------------------------
(* There is an order of any finite set of segments *)

LEMMA LatestExists ==
  ASSUME NEW S, IsFiniteSet(S), Segments(S), S # {}
  PROVE  \E l \in S : \A s \in S : s.from <= l.from
<1> DEFINE Has(R) == \E l \in R : \A s \in R : s.from <= l.from
           T == {n \in Nat : \A R \in SUBSET S : R # {} /\ Cardinality(R) = n => Has(R)}
<1>1. 0 \in T
  <2>1. ASSUME NEW R \in SUBSET S, Cardinality(R) = 0 PROVE R = {}
    BY <2>1, FS_Subset, FS_EmptySet
  <2> QED
    BY <2>1
<1>2. ASSUME NEW n \in Nat, n \in T PROVE n + 1 \in T
  <2> SUFFICES ASSUME NEW R \in SUBSET S, R # {}, Cardinality(R) = n + 1 PROVE Has(R)
    OBVIOUS
  <2>1. PICK x \in R : TRUE
    OBVIOUS
  <2>2. PICK O : O = R \ {x} /\ O \in SUBSET S
    OBVIOUS
  <2>3. IsFiniteSet(R) /\ Cardinality(R \ {x}) = Cardinality(R) - 1
    BY FS_Subset, FS_RemoveElement
  <2>4. Cardinality(O) = n
    BY <2>2, <2>3
  <2>5. R = O \cup {x} /\ x \in S
    BY <2>1, <2>2
  <2>6. \A s \in R : s.from \in Int
    BY DEF Segments
  <2>7. CASE O = {}
    BY <2>5, <2>6, <2>7
  <2>8. CASE O # {}
    <3>1. PICK l \in O : \A s \in O : s.from <= l.from
      BY <1>2, <2>2, <2>4, <2>8
    <3>2. l \in R /\ (x.from <= l.from \/ l.from <= x.from)
      BY <2>5, <2>6
    <3>3. CASE x.from <= l.from
      BY <2>5, <3>1, <3>2, <3>3
    <3>4. CASE l.from <= x.from
      <4>1. \A s \in O : s.from <= x.from
        BY <2>5, <2>6, <3>1, <3>2, <3>4
      <4> QED
        BY <2>5, <2>6, <4>1
    <3> QED
      BY <3>2, <3>3, <3>4
  <2> QED
    BY <2>7, <2>8
<1>3. Nat \subseteq T
  <2> HIDE DEF T
  <2> QED
    BY <1>1, <1>2, Induction
<1>4. Cardinality(S) \in Nat
  BY FS_CardinalityType
<1> QED
  BY <1>3, <1>4

LEMMA OldestExists ==
  ASSUME NEW S, IsFiniteSet(S), Segments(S)
  PROVE  OldestFirst(S) # {}
<1> DEFINE T == {n \in Nat : \A R \in SUBSET S : Cardinality(R) = n => OldestFirst(R) # {}}
<1>1. 0 \in T
  <2>1. ASSUME NEW R \in SUBSET S, Cardinality(R) = 0 PROVE OldestFirst(R) # {}
    <3>1. 1..0 = {} /\ DOMAIN <<>> = {}
      OBVIOUS
    <3>2. <<>> \in [1..0 -> R]
      OBVIOUS
    <3>3. <<>> \in SetToSeqs(R)
      BY <2>1, <3>1, <3>2 DEF SetToSeqs
    <3> QED
      BY <3>1, <3>3 DEF OldestFirst
  <2> QED
    BY <2>1
<1>2. ASSUME NEW n \in Nat, n \in T PROVE n + 1 \in T
  <2> SUFFICES ASSUME NEW R \in SUBSET S, Cardinality(R) = n + 1 PROVE OldestFirst(R) # {}
    OBVIOUS
  <2>1. IsFiniteSet(R) /\ R # {} /\ Segments(R)
    BY FS_Subset, FS_EmptySet DEF Segments
  <2>2. PICK l \in R : \A s \in R : s.from <= l.from
    BY <2>1, LatestExists
  <2>3. PICK O : O = R \ {l} /\ O \in SUBSET S
    OBVIOUS
  <2>4. Cardinality(O) = n
    <3>1. Cardinality(R \ {l}) = Cardinality(R) - 1
      BY <2>1, FS_RemoveElement
    <3> QED
      BY <2>3, <3>1
  <2>5. PICK q \in OldestFirst(O) : TRUE
    BY <1>2, <2>3, <2>4
  <2>6. /\ q \in [1..n -> O]
        /\ \A i, j \in 1..n : i # j => q[i] # q[j]
        /\ \A i, j \in 1..n : i < j => q[i].from <= q[j].from
    BY <2>4, <2>5 DEF OldestFirst, SetToSeqs
  <2>7. PICK k \in Nat : k = n + 1
    OBVIOUS
  <2>8. PICK r : r = [i \in 1..k |-> IF i = k THEN l ELSE q[i]]
    OBVIOUS
  <2>9. \A i \in 1..k : i # k => i \in 1..n
    BY <2>7
  <2>10. r[k] = l /\ k \in 1..k /\ \A i \in 1..k : i # k => r[i] = q[i] /\ r[i] \in O
    BY <2>6, <2>7, <2>8, <2>9
  <2>11. r \in [1..k -> R]
    BY <2>3, <2>8, <2>10
  <2>12. ASSUME NEW i \in 1..k, NEW j \in 1..k, i # j PROVE r[i] # r[j]
    <3>1. l \notin O
      BY <2>3
    <3>2. CASE i = k \/ j = k
      BY <2>10, <2>12, <3>1, <3>2
    <3>3. CASE i # k /\ j # k
      BY <2>6, <2>9, <2>10, <2>12, <3>3
    <3> QED
      BY <3>2, <3>3
  <2>13. ASSUME NEW i \in 1..k, NEW j \in 1..k, i < j PROVE r[i].from <= r[j].from
    <3>1. CASE j = k
      BY <2>2, <2>10, <2>11, <3>1
    <3>2. CASE j # k
      <4>1. i # k
        BY <2>7, <2>13
      <4> QED
        BY <2>6, <2>9, <2>10, <2>13, <3>2, <4>1
    <3> QED
      BY <3>1, <3>2
  <2>14. r \in SetToSeqs(R) /\ DOMAIN r = 1..k
    BY <2>7, <2>11, <2>12 DEF SetToSeqs
  <2> QED
    BY <2>13, <2>14 DEF OldestFirst
<1>3. Nat \subseteq T
  <2> HIDE DEF T
  <2> QED
    BY <1>1, <1>2, Induction
<1>4. Cardinality(S) \in Nat
  BY FS_CardinalityType
<1> QED
  BY <1>3, <1>4

LEMMA NewestExists ==
  ASSUME NEW S, IsFiniteSet(S), Segments(S)
  PROVE  NewestFirst(S) # {}
<1>1. PICK q \in OldestFirst(S) : TRUE
  BY OldestExists
<1>2. PICK n \in Nat : n = Cardinality(S)
  BY FS_CardinalityType
<1>3. /\ q \in [1..n -> S]
      /\ \A i, j \in 1..n : i # j => q[i] # q[j]
      /\ \A i, j \in 1..n : i < j => q[i].from <= q[j].from
  BY <1>1, <1>2 DEF OldestFirst, SetToSeqs
<1>4. PICK r : r = [i \in 1..n |-> q[n - i + 1]]
  OBVIOUS
<1>5. \A i \in 1..n : n - i + 1 \in 1..n
  OBVIOUS
<1>6. r \in [1..n -> S] /\ \A i \in 1..n : r[i] = q[n - i + 1]
  BY <1>3, <1>4, <1>5
<1>7. ASSUME NEW i \in 1..n, NEW j \in 1..n, i # j PROVE r[i] # r[j]
  <2>1. PICK k \in 1..n, m \in 1..n : k = n - i + 1 /\ m = n - j + 1 /\ k # m
    BY <1>5, <1>7
  <2> QED
    BY <1>3, <1>6, <2>1
<1>8. ASSUME NEW i \in 1..n, NEW j \in 1..n, i < j PROVE r[i].from >= r[j].from
  <2>1. PICK k \in 1..n, m \in 1..n : k = n - i + 1 /\ m = n - j + 1 /\ m < k
    BY <1>5, <1>8
  <2>2. PICK x \in Int, y \in Int : x = q[m].from /\ y = q[k].from /\ x <= y
    BY <1>3, <2>1 DEF Segments
  <2> QED
    BY <1>6, <2>1, <2>2
<1>9. r \in SetToSeqs(S) /\ DOMAIN r = 1..n
  BY <1>2, <1>6, <1>7 DEF SetToSeqs
<1> QED
  BY <1>8, <1>9 DEF NewestFirst

\* The answers that DayTrue and PagesTrue speak of exist, for every footage.
THEOREM OrdersExist ==
  ASSUME NEW S, IsFiniteSet(S), Segments(S), NEW a \in Int, NEW b \in Int
  PROVE  OldestFirst(OnDay(S, a, b)) # {} /\ NewestFirst(Listed(S, a, b)) # {}
<1>1. OnDay(S, a, b) \in SUBSET S /\ Listed(S, a, b) \in SUBSET S
  BY DEF OnDay, InRange, Listed
<1>2. \A R \in SUBSET S : IsFiniteSet(R) /\ Segments(R)
  BY FS_Subset DEF Segments
<1> QED
  BY <1>1, <1>2, OldestExists, NewestExists

-----------------------------------------------------------------------------
(* The answers while footage is purged *)

Finite == IsFiniteSet(footage)

LEMMA FootageShrinks == [Next]_vars => footage' \subseteq footage
<1> SUFFICES ASSUME [Next]_vars PROVE footage' \subseteq footage
  OBVIOUS
<1>1. CASE UNCHANGED vars
  BY <1>1 DEF vars
<1>2. ASSUME NEW protected \in BOOLEAN, NEW sent \in BOOLEAN, CreateExportJob(protected, sent)
      PROVE  footage' = footage
  BY <1>2 DEF CreateExportJob
<1>3. ASSUME NEW c \in Child, Take(c) \/ TakeNothing(c) \/ RunStep(c) PROVE footage' = footage
  BY <1>3 DEF RunStep, Take, TakeNothing, SelectInput, SelectNothing, EncodingFails, Encoded,
       Pack, Complete, TaskFails
<1>4. ASSUME NEW c \in Child, LoseChild(c) \/ \E dies \in BOOLEAN : Redeliver(c, dies)
      PROVE  footage' = footage
  BY <1>4 DEF LoseChild, Redeliver
<1>5. CASE CommitJob \/ RollBackJob \/ Expire \/ PurgeSelect \/ PurgeCommit \/ PurgeFails
  BY <1>5 DEF CommitJob, RollBackJob, Expire, PurgeSelect, PurgeCommit, PurgeFails
<1>7. CASE \E removed \in BOOLEAN : PurgeUnlink(removed)
  BY <1>7 DEF PurgeUnlink
<1>8. CASE DeleteCamera \/ \E c \in Child : TakenElsewhere(c) \/ DoneElsewhere(c)
  BY <1>8 DEF DeleteCamera, TakenElsewhere, DoneElsewhere, Others
<1>6. CASE SegmentPurged
  BY <1>6 DEF SegmentPurged
<1> QED
  BY <1>1, <1>2, <1>3, <1>4, <1>5, <1>6, <1>7, <1>8 DEF Next, Turn

LEMMA FiniteStep == Finite /\ [Next]_vars => Finite'
<1> SUFFICES ASSUME Finite, [Next]_vars PROVE Finite'
  OBVIOUS
<1>1. PICK F, G : F = footage /\ G = footage' /\ IsFiniteSet(F)
  BY DEF Finite
<1>2. G \in SUBSET F
  BY <1>1, FootageShrinks
<1>3. IsFiniteSet(G)
  BY <1>1, <1>2, FS_Subset
<1> QED
  BY <1>1, <1>3 DEF Finite

\* Whatever is purged, the timeline, the lookup of a moment, the calendar and the pages agree
\* with the footage there is, and with each other.
THEOREM TimelineTrue == Spec => []TimelineExact
<1>1. Init => Finite
  BY DEF Init, Finite
<1>2. Finite /\ [Next]_vars => Finite'
  BY FiniteStep
<1>3. TypeOK /\ Finite => TimelineExact
  <2> SUFFICES ASSUME TypeOK, Finite PROVE TimelineExact
    OBVIOUS
  <2>1. PICK F : F = footage
    OBVIOUS
  <2>2. IsFiniteSet(F) /\ Segments(F)
    BY <2>1 DEF TypeOK, Segment, Segments, Finite
  <2>3. ASSUME NEW d \in {0, 1} PROVE DayExact(F, d * DaySlots, (d + 1) * DaySlots)
    <3>1. d \in Int
      OBVIOUS
    <3> QED
      BY <2>2, <3>1, DayTrue
  <2>4. PagesExact(F, 0, Span[2], 1)
    BY <2>2, PagesTrue
  <2> QED
    BY <2>1, <2>3, <2>4 DEF TimelineExact
<1> QED
  BY <1>1, <1>2, <1>3, TypeCorrect, PTL DEF Spec
=============================================================================
