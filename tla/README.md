# Comandante CAM: a TLA+ model and its proofs

A verification development kept beside the code of Comandante CAM, a network
video recorder: FastAPI backend, Celery workers, a YOLO detection service,
PostgreSQL, Redis and FFmpeg.  The TLA+ modules translate the code (paths are
those of the repository; `workers/`, `routers/`, `services/`, `utils/` are below
`src/backend/app/`), TLC checks them on small instances, and TLAPS proves theorems
about them for every value of the constants.

    tlc -workers 2 -config MCRecording.cfg MCRecording     # one run
    tlapm RecordingProofs.tla                              # one module of proofs

`PROJECT.json` lists components, runs, mutants (one plausible bug per property,
which the property must catch), the source lines of every definition, hazards,
findings and theorems.

1. [Inventory](#1-inventory-of-the-system) - 2. [Plan](#2-plan) -
3. [Modules](#3-what-is-modelled) - 4. [Runs](#4-the-runs) -
5. [Proofs](#5-what-is-proved) - 6. [Findings](#6-findings) -
7. [Not modelled](#7-what-is-not-modelled)

## 1. Inventory of the system

| Component | State it keeps | Operations | Interacts with | Module |
|---|---|---|---|---|
| Recording engine `workers/recording.py`, `utils/ffmpeg.py` | `RUNNING_PROCESSES` (per prefork child), FFmpeg processes, `cameras.status`, `recording_segments` | `start_recording` (runs as long as its FFmpeg), `stop_recording`, `start_all_recordings` | broker, camera rows, file system, health check | `Recording` |
| Camera health check `workers/health_check.py` | none; reads the registry of its own child and the camera rows | `camera_health_check`, every 60 s by Beat | sends `start_recording`, stops processes, pings cameras | `Recording` |
| Footage storage and purge `workers/purge.py`, `routers/recordings.py` | segment files, `recording_segments`, disk usage | `purge_old_segments` (daily), `emergency_purge`, `DELETE /segments/{id}` | recording engine, camera rows | `Footage` |
| Recording queries `services/recording_service.py` | none | timeline, gaps, coverage, calendar, lookup, pages | segments | `Timeline` |
| Export jobs `workers/export.py`, `services/export_service.py` | `export_jobs`, output files | create, run, download, expire, purge | segments, broker, purge | `Export` |
| Live view `services/hls_service.py`, `routers/ws.py`, `routers/live.py` | `_streams`, `_viewers`, `_locks`, HLS directory | `start_stream`, `stop_stream`, watchdog, subscribe, unsubscribe | FFmpeg, WebSocket clients | `LiveView` |
| WebSocket hub `routers/ws.py` | `_connections`, `_ws_to_user`, `_ws_cameras`, a connection counter | connect, disconnect, broadcast, send to a user | Redis pub/sub, live view | `Hub` |
| Detection publisher `detection_service/redis_publisher.py` | bounded buffer of 100 events, connection | publish, drain, reconnect, probe | alert consumer over Redis pub/sub | `AlertPipeline` |
| Alert consumer and clips `workers/alert_consumer.py` | `alert_events`, clip path | consume, `save_alert_clip`, `send_alert_notifications` | publisher, segments, notifications | `AlertPipeline` |
| Alert desk and audit log `services/alert_service.py`, `services/audit_service.py` | acknowledgement, false-positive mark, hold; `audit_log` | acknowledge, mark, hold, release; `log` | every handler that audits | `AlertDesk` |
| Notifications `services/notification_service.py` | alert rules, channels | the task that tells the channels of a rule, `_retry` | SMTP, webhooks | `Notifications` |
| Authentication and sessions `services/auth_service.py`, `user_service.py`, `routers/auth.py`, `users.py` | `users`, `sessions`, lockout counters in Redis | sign-in with MFA, refresh, log-out, revoke, deactivate, erase | every request | `Sessions` |
| Camera registry `routers/cameras.py`, `services/camera_service.py` | `cameras`, `camera_permissions`, `nvr:cameras` | register, change address, delete, permissions, restart of the detection service | ONVIF, detection service | `Registry`, `Permissions` |
| Zones and config watcher `routers/cameras.py`, `detection_service/config_watcher.py` | `detection_zones`, `nvr:zones:<camera>`, the zones of the service | PUT all, edit one, load, subscribe, reload | Redis, detector | `ZoneConfig` |
| Detection worker `detection_service/detector.py`, `tracker.py`, `rules_engine.py`, `zone_filter.py` | tracks with entry times, cooldowns, baseline | connect, frame, evaluate, reload, stop | publisher | `Detector` |
| Floor plan `routers/floor_plan.py` | buildings, floors, placements, image files | create, delete, upload, place | file system | `FloorPlan` |
| Storage targets `routers/storage_targets.py` | `storage_targets`, mounts | create, activate, delete | `/proc/mounts` | `StorageTargets` |
| ONVIF client, system, roles, equipment, terminal | rows of their own, or none | I/O with cameras; one transaction per request | - | in part, through `Registry` and `Detector` |
| Middleware, frontend, deployment, fake cameras | none | wiring, user interface | - | - |

The processes (four API workers, eight Celery children, Beat, the detection
service, FFmpeg) share nothing but PostgreSQL rows, Redis (broker, pub/sub, keys)
and the file system.  What is hard about that:

* **State that several processes believe something about.**  `RUNNING_PROCESSES`
  is a module-level dictionary, so each prefork child has its own; a child learns
  of the others only from `cameras.status`.  A start task holds its child for as
  long as its FFmpeg lives, its message stays unacknowledged meanwhile
  (`task_acks_late`), and the broker delivers it again after the visibility timeout.
* **Effects outside the transaction.**  Files are unlinked before rows are deleted;
  tasks are sent and Redis keys are set before the commit of the row they are about;
  FFmpeg is started before the row says so; what a refused request wrote is rolled back.
* **Check, wait, write.**  Handlers load a row, await (a probe, a body, a password
  hash, a lock), and write by columns; another request may have written meanwhile.
* **Coroutines that share dictionaries.**  A lock is dropped from the map it lives in
  while it is held; a limit is checked before an await and the list appended after it.
* **Bounded buffers and retries.**  The publisher's buffer drops the oldest event;
  notification attempts, export tasks and consumers repeat what may have succeeded.

What makes each component correct:

* *Recording engine*: a row that says `recording` is backed by a task; a live
  process belongs to somebody who will stop it; each file gets exactly one row;
  a camera that should be recorded is restarted.
* *Footage*: a row names the footage it was written for; a file has a row or a
  reason not to; nothing younger than its retention disappears except on request or in
  an emergency; a purge takes all that is older, and comes every day.
* *Recording queries*: gaps, coverage, calendar, lookup and pages agree with the
  footage and with each other.
* *Export*: what can be downloaded is complete and has the checksum of its row; a job
  ends completed or failed; an expired file goes with its row.
* *Live view*: one task works on a camera at a time; a process is always somebody's to
  stop; the directory it writes to is there; a viewer has a connection; nobody waits for
  a lock for ever.
* *Hub*: the connection limit is overrun by no more than the handshakes under way; a
  message reaches every connection that stays; the counter counts.
* *Alert pipeline*: an event given to the publisher is sent, kept, or given up as a
  bounded buffer does; a consumer never goes back in the order of events; an alert
  others can see has been followed up.
* *Alert desk*: whatever changes an alert is in the audit log.
* *Notifications*: one channel's failure does not silence another.
* *Sessions*: attempts are counted and a lockout ends; a session is spent by its
  refresh, and one sign-in has one live session; a deactivated or erased user has none.
* *Registry, permissions, storage targets*: overlapping requests do not mix their rows.
* *Zones*: rows, Redis and the service agree when all is quiet.
* *Detector*: a dwell alert is about presence in the zone (of which the code
  establishes visibility since the first entry only, section 6); tracks are forgotten; rules
  have priorities.
* *Floor plan*: rows and image files agree; what is placed is on a floor that exists.

## 2. Plan

| Order | Module | About | Status |
|---|---|---|---|
| 1 | `Recording`, `RecordingProofs` | engine, health check, broker, faults, mode and delete API | 2 runs, safety proved |
| 2 | `Footage`, `FootageProofs` | FFmpeg's names, rows, purge, its schedule, emergency purge, delete API | 2 runs, proved |
| 3 | `LiveView`, `LiveViewProofs` | HLS manager and its clients on one event loop | 1 run, proved |
| 4 | `AlertChannel`, `AlertPipeline`, `AlertPipelineProofs` | abstract channel; publisher, pub/sub, consumers, alerts, clips, which implement it | 1 run, proved with the refinement |
| 5 | `Sessions`, `SessionsProofs` | sign-in, lockout, rotation, reuse, deactivation, erasure | 3 runs, safety proved |
| 6 | `Timeline`, `Export`, `ExportProofs` | the recording queries; export jobs over the same footage | 1 run, safety proved |
| 7 | `ZoneConfig`, `DetectionProofs` | zones from PUT to the detection service | 1 run (`MCDetection`), proved |
| 8 | `Detector`, `DetectionProofs` | worker thread, tracker, rules | the same run, proved |
| 9 | `FloorPlan`, `StorageTargets`, `Registry`, `Permissions`, `Notifications`, `AlertDesk`, `Hub`, composed in `MCServices`, `ServicesProofs` | services that share no state | 1 run, proved |

What would come next: `Recording` composed with `AlertPipeline` on one set of children
(a consumer and eight recordings leave none for exports: here each module sees the others'
tasks only as children that are not free); the ONVIF settings that are
pushed to a camera and read back; the equipment inventory.

## 3. What is modelled

An action is the code between two points where another process, coroutine or message can
intervene: a transaction, the code up to an await that suspends, one call to Redis, one
file operation.  Variables marked *history* have no counterpart in the code; they record
what the properties except.

### Recording

A `with _db()` block is one transaction and one step; the code between two such
blocks is not atomic with them.

| Variable | In the code |
|---|---|
| `status`, `mode`, `deleted` | `cameras.status`, `recording_mode` (off / not off), `is_deleted` |
| `queue`, `checks` | messages in the Redis broker |
| `job[w]` | program counter and locals of the task child `w` executes: `stage`, `current_segment_path`, `consecutive_errors`, the rows it wrote; `odd` is history |
| `plan[w]` | the camera rows a health check loaded in its first query |
| `registry[w]` | `RUNNING_PROCESSES` of child `w` |
| `proc` | FFmpeg processes: alive, exiting (has logged its clean exit, can still be polled as running), gone with a clean or another code |
| `faults`, `interrupted` | history |

`start_recording` is `TakeStart` (both idempotency check and row checks, no
writes in between), `Spawn` or `SpawnFails`, `MarkRecording`, then the loop
(`ReadOpening`, `ReadUnmatched`, `ReadError`, `ReadLastError`, `ReadCleanExit`, `NoticeExit`),
then `StopFailing` or `CloseFinal` and `Finish`.  A file may be gone when it is to be closed
(`there`), and a line that speaks of opening an `.mp4` and does not match the pattern closes the segment
and goes on following it.  `stop_recording` is three steps: the entry is popped (`StopRecording`), the
process is waited for (`StopProcess`), the row is written (`MarkStopped`).  The health check is `BeginCheck` (one
query), one of four branches per camera, `EndCheck`.  `Redeliver`, `Abort`,
`ChildDies` and `NodeRestart` are acks-late redelivery, a failed transaction, a
lost child and a restart of the worker container.

Simplifications: all rows the tasks do not tell apart are one status `away`; the
midnight block of the loop assigns variables nothing reads and has no effect;
retry countdowns are any delay, and `max_retries` a choice to give up.
Transactions are serializable here; the code runs at READ COMMITTED and the ping
of a health check writes the status it computed from a row read in the same
transaction, so a status written meanwhile can be lost as well.  That interleaving
is not modelled.

### Footage

Time advances in slots of `-segment_time`.  A segment is what one process recorded in one slot
(name, process, slot); its *name* is the directory of the day the process was started plus the
time of day at which the file is opened, which is not the same thing.  The processes are independent: any
of them may be started for any camera at any time (`Start`; `recording.py:127-131` looks at the registry of
its own child only) and lives as long as it likes, over midnight too.  `Rotate`
opens the next file and truncates the one that has its name; `Index` writes the row of the file before.

`files` are the segments on disk, `rows` is `recording_segments`, `purge[w]` a purge in progress: the camera loop
(`SelectExpired`, which takes any `PurgeLimit` of the expired rows), `_delete_segment` per row (`UnlinkOne`, `UnlinkFails`), one
commit at the end (`CommitPurge`), then `emergency_purge` (`SelectOldest`, `CommitBatch`, `EndEmergency`).  The API's
delete is unlink, then commit or failure.  `AbortPurge` is a failed commit or a lost child: files stay removed, rows
come back.  Disk usage is the number of files.

A purge is executed when there is a message for it (`due`).  Whether Beat sends one is not assumed: `Tick` asks
`BeatSends`, which is false of a plain dictionary, the schedule of `celery_app.py:35`.  `SendPurge` is an operator, or a
redelivery, at any time; with two purgers they overlap.  That Beat goes on with its other entries is Celery's affair (the
health check of `Recording` depends on it).

### Timeline and Export

`Timeline` has the queries of `recording_service.py` as operators on a set of segments, or on a list of it in the order of
`ORDER BY started_at`: `OldestFirst` and `NewestFirst` are all such lists, since segments that start together come in any order.
`Gaps` is the pass with a cursor (`Cursor`, a recursive function), `Covered` the sum cut at a day; `SegmentAt`, `HasRecordings`, `Page`.
`DayExact` and `PagesExact` are the reference definitions: gaps are the slots without footage, gaps and coverage make up
the day, the calendar, the lookup and the timeline agree, each segment is on one page.  The last is said of footage of which no two
segments start together: each page is a query of its own, and the order of equal starts may differ between two of them.  A day is
`DaySlots` long; a day on which a clock is changed, whose coverage the code divides by 86400 all the same, is not modelled.

`Export` is one job: `CreateExportJob` sends the task, `CommitJob` or `RollBackJob` follow; the task is `Take`,
`SelectInput`, `Encoded`, `Pack`, `Complete` with the failures of each step; `LoseChild` and `Redeliver` are the
broker's; `PurgeSelect`, `PurgeUnlink` (which may fail, and is passed over), `PurgeCommit`, `PurgeFails` are the part of
`purge_old_segments` about expired exports.  A child takes the task only if it is `Free`: other tasks hold children
(`TakenElsewhere`, `DoneElsewhere`), recordings and consumers for ever.  A request for a deleted camera is refused.  A file is the number of the run that wrote it,
negative while it is incomplete, so that a checksum can be told to be that of another run.  It reads the same
`footage` the queries answer about, and any segment of it may be purged meanwhile.

### LiveView and Hub

One event loop in one API process: a coroutine runs without interruption up to an
await that suspends it.  A taken `asyncio.Lock` and three thread calls
(`proc.start`, `proc.stop`, `rmtree`) are those awaits.  Locks are objects: `lock` is the one `_locks` has,
`owner` and `waiting` belong to each object, and a waiter keeps the object it waits for
even when `stop_stream` has dropped it from the map (`Resume`).  A request for a camera without a URL ends before a
directory is made (`EnterStart`); one whose `proc.start` raises leaves the directory (`LaunchFails`).  Connections subscribe,
unsubscribe, fail to be written to and end; `viewers` is a set of users, as in the
code.  The deployment runs `uvicorn --workers 4`, which gives four such
managers that know nothing of each other; the module is about one.

`Hub` is the other side of `ws.py`: the handshake with its limit (`Check`, `Accept`), the maps of
`ConnectionManager`, the counter, and one broadcast or message to a user at a time (`Start`, `SendText`, `SendFails`,
`DropDead`), which suspends at each socket.

### AlertChannel and AlertPipeline

From `RedisPublisher.publish` in the detection service to the alert, its clip and its
notifications.  Detection threads publish under one lock that is held over the calls to
Redis, so events are numbered in the order of the lock and at most one publish is under
way (`call`); `is_connected` is called by the main thread without that lock (`ProbeFails`,
`ProbeResets`).

| Variable | In the code |
|---|---|
| `connected`, `buffer`, `call`, `probe` | `_r is not None`, `_buffer`, the payload of the `publish` under way, the failed ping of `is_connected` |
| `up` | Redis answers: pub/sub channel and Celery broker |
| `consumer[c]` | the `consume_alerts` task of child `c`: subscription, messages received but not read, alert of the open transaction |
| `kicks` | `consume_alerts` messages waiting, sent by an operator (`SendConsumer`) or delivered again; none is sent by a worker that starts, since the receiver of `worker_ready` does not live (`ReceiverLives`) |
| `alerts` | alerts begun: event, row (flushed, committed, gone), the two tasks sent for it |
| `segment[e]` | the recording at the time of event `e`: none, open (no row yet), indexed |
| `handled`, `buffered`, `sent`, `overflowed`, `failed`, `faults` | history |

`publish` is `Publish` (take the lock, buffer first and connect if there is no connection),
then one `Send` per event, the buffer's first, or `SendFails` and `SendUnanswered` (the
message went out, the reply was lost) with the exception handler `HandleFailure`.  A consumer is
`Subscribe`, then per message `ProcessEvent` (flush, send both tasks) and `Commit`, or one of
the failures.  `SaveClip` and `MissClip` are the outcomes of `save_alert_clip`, whose query needs
the committed alert and a segment row.

`AlertChannel` is the abstract specification: events are published one after another, and
each consumer handles them without going back.  `InOrder` is `AlertPipeline => AlertChannel` with
`published` and `handled` mapped to themselves and consumers to children.  The
abstract `Handle(c, e)` admits repeating an event, which `SendUnanswered`, the buffering at line 32
and a later consumer in the same child all do.

Simplifications: malformed messages, which the code skips, are not sent by this publisher;
which rule matches decides severity and channels, not whether there is an alert; redis-py's
`listen` is taken to raise when its connection breaks, after the messages already received.

### Sessions

`row` is the users table, `sess` the sessions table in the order of commits, `lock` the Redis counters per e-mail and
address with their time to live, `req[r]` what a sign-in or refresh under way has read.  A sign-in is `LoginCheck` (counters and
row), `LoginFailed` or `LoginCleared` and `LoginCommit`; a refresh is `RefreshRead` and `RefreshCommit`, or `RefreshReused`
for a revoked token.  Deactivation, erasure and the administrator's revocation are two steps, as they are at READ COMMITTED: the
`UPDATE` of sessions (`Revoke`), which sees the sessions that are committed by then, and the commit (`DeactivateCommit`, `EraseCommit`, `RevokeCommit`), at
which the user's row is written; requests commit in between (`closing` holds the administrator's transaction, and `RowFree` the lock on the user's row
that a sign-in waits for).  Redis is not part of the transaction, so a counter stays when the row rolls back.  The other requests of a
signed-in user and of an administrator write what does not depend on other rows and are one step each.  A session has the sign-in it comes from (`root`) and
whether a refresh has replaced it (`spent`); `twin` and `raced` are history.

### ZoneConfig

(Its specification is `ZCSpec` and so on, because `DetectionProofs` extends `Detector` as well.)  A `PUT` is select, flush, set of the key, publish, commit, each a step, and may be rolled back at any of them; `rows` carry identifiers: a `PUT` deletes the rows it has loaded by identifier, also those
edited since, and leaves the rows another request has inserted.  The service loads (`Load`), or fails to and goes on without zones (`LoadFails`), subscribes,
takes a message, reads the key, assigns; its thread may die while the workers go on.  `mishap` names what keeps the copies apart until a later `PUT` or read
repairs it: PUTs that overlap or are rolled back after the set (`torn`), a set published between load and subscription (`missed`), a failed load, read,
publication or watcher (`failed`).

### Detector

One worker thread: `Connect` with its retries and backoff, `BaselineFrame`, `EmptyFrame` and a frame with any detections (`EvaluatedFrame`), or one that raises half
way and keeps the tracks, entries and cooldowns set so far while its alerts are lost (`FrameFails`), `Tick`, `Reload`, `Restart`.  Zones may share a name: the tracker and the
cooldowns go by name, as in the code.  `present` and `stay` are history: since when a track has been around, and since when it has not been seen outside the zone.
Ages and cooldowns are counted in ticks up to a bound beyond which the code cannot tell them apart.  `ZoneFilter` (privacy masks, full-frame stand-in),
`Within` (hours over midnight), `RuleFor` (priority), `Expired`, `Seen`, `Entered` (tracker) and `InCooldown` are the operators of a frame.

### The services of MCServices

Seven modules that share no variables; `MCServices` puts them side by side, one running at a time, so that one run and one type invariant serve all.

| Module | State | What overlaps |
|---|---|---|
| `FloorPlan` | buildings, floors, images, files, placements | uploads and deletions of one floor, between the load of the row and the commit, with the file operations in between |
| `StorageTargets` | rows, mounts | the check of an activation or deletion and its write |
| `Registry` | camera rows by address and URL, `nvr:cameras`, what the service runs | a probe of seconds between load and write by columns; restarts of the detection service that read and set |
| `Permissions` | rights per user and camera | two routes that load, assign and write by columns |
| `Notifications` | rules, channels, one alert, its task | edits while the task goes through its channels; lost answers and workers |
| `AlertDesk` | the alert, sessions of requests, audit log | requests for one alert; the task that adds the audit entry to the session of its request |
| `Hub` | endpoints, maps, counter, one broadcast | handshakes, broadcasts and endings |

## 4. The runs

| Run | Instance | Shows |
|---|---|---|
| `recording` | 1 camera, 2 children, 2 process slots, 2 files, 1 error to give up at, 1 fault, operator tasks | supervision, ownership, entries kept, exact ledger (6.3 M states) |
| `recording_live` | no fault, no file, no operator tasks, 2 errors, fair | a camera that should be recorded is restarted; an exit is wound up (0.2 M) |
| `footage` | 1 camera, 2 processes, 2 purging children, days of 2 slots, slots 0 to 2, 1 request or fault | names opened once have their footage, files are accounted for, footage goes for the stated reasons only (6.5 M) |
| `footage_overnight` | 1 process, 1 purger, no fault | **violated**: `RowsNameTheirFootage` |
| `live_view` | 3 tasks, 3 locks, 2 processes, 2 connections of one user | stream managed, viewers subscribed, one task works, waiters served (0.5 M) |
| `alert_pipeline` | 2 children, 2 events, buffer of 1, 2 alerts, 1 waiting message, 2 faults | implements `AlertChannel`; events kept, no repeats without buffering, alerts followed up (7.4 M) |
| `sessions` | 1 user, 2 requests under way, 3 sessions, limit 1 | revocation holds, a sign-in's sessions are a chain (3.4 M) |
| `sessions_lockout` | 2 requests, limit 2, lockout of 2 ticks, 1 session, fair clock | lockout bounded and ending (0.1 M) |
| `sessions_reuse` | as `sessions` | **violated**: `ReuseRevokesAll` |
| `export` | 1 job, 2 children, 1 redelivery or death, every footage of up to two segments on two days of 2 slots, fair | downloads are sound, jobs settle, queries are exact (1.3 M) |
| `detection` | 2 zones, 2 PUTs at a time, 2 inserts, 2 messages; 1 track, 3 configurations, days of 3 ticks | rows, key and service agree; alerts are due, tracks freed, priorities (4.3 M) |
| `services` | two of what can overlap or differ, three addresses, two troubles, a limit of one connection | `PlanIsSound`, `RowsAreWhole`, `ChannelsAreTold`, `ConnectionsAreKept` (0.9 M) |

Why the bounds are enough.  *Recording*: cameras interact only by occupying
children, so one camera and a child for each of two competing tasks gives every
interleaving of start, health check and stop; two process slots are needed for a
duplicate and for a successor of an orphan.  One error is the last one, and `recording_live` has one before it (errors before the last change
only their counter).  Files concern one task and its process only, and two of them are one to close while the next is open, and a last one; queued messages
are identical, so one waiting beside one running is what redelivery adds.  One fault at any step.  *Footage*:
names repeat after a day, and the slots 0 to 2 are a day and the first of the next: a process that lives over midnight opens a name
of the day before again, whose row, if its process stopped at once, is over its retention by then.  Two processes are a recorder and a second or a later
one of the camera; two purgers are a purge and the one that redelivery adds; `Critical` 3 and `Target` 2 are reached.
*LiveView*: three tasks are a holder, a waiter and a newcomer, the smallest set in which a
dropped lock and its successor are both in use; a third lock object is never short.
*AlertPipeline*: two events and a buffer of one are the smallest overflow, the smallest drain that
fails and the smallest inversion of order; two children are a consumer and the one that redelivery
adds; two faults are an outage and whatever goes wrong while its effects last.
*Sessions*: users share only the counter of their address; two requests are the smallest race, three sessions a
rotation whose result is rotated again, or two sign-ins and a rotation.  What a sign-in counts and what it writes meet in `LoginCheck` only, hence the two runs.  *Export*: footage has gaps, touching and overlapping segments, segments across
midnight and longer than a slot; one fault gives a second run, beside the first or after it.  *Detection*: the two parts share no variable, so `MCDetection` lets one run at a time, as `MCServices` does.  *ZoneConfig*: two payloads that differ and two
writers are the smallest mixture of rows; two waiting messages are one more than is being read.
*Detector*: tracks do not meet in any operator but by sharing a frame, and their keys differ; the three configurations have a mask, a restricted zone,
hours over midnight and the stand-in zone; a day of three ticks has a time inside and one outside.
*Services*: pairs are the smallest overlaps; three addresses let two requests differ from the row and from each other.
All bounds are constants with "bound" in their comment.

`CHECK_DEADLOCK FALSE` is set for the runs of `Recording`, `Footage`, `LiveView`, `AlertPipeline`, `Export` and `MCServices`:
`MaxChecks`, `MaxFaults`, `MaxTime`, `MaxAlerts` and `MaxEvents` end the bounded system, a purged job has nothing left to do, a service's
identifiers are not used twice, and in `LiveView` the hang that matters is stated as `WaitersAreServed`.  The other runs check deadlock.

### Fairness

`Recording` (`FairSpec`), `Export` (`Fairness`) and `Sessions` (`FairSpec`) assume some; the other modules check safety.

* `Recording`: `WF` of `StartTask(w)`, `StopTask(w)` and `HealthTask(w)`, a child that executes a task keeps executing
  it (error lines and new files are FFmpeg's and are not assumed); `WF` of `Beat`, the 60 s schedule at `celery_app.py:37-40`;
  `SF` of `BeginCheck` and of `TakeStart` for each camera, over the set of children: the
  broker list is served in order, so a message is taken when children become free again and
  again.  A deployment of `--concurrency=8` (`docker-compose.yml:69`) with eight recordings has
  no free child; then the assumption is void and nothing is restarted.  `WF` of the exit of a process that has logged its clean exit.
* `Export`: `SF` of `Turn`, the children together: the queue is served in order, so a message is taken if children become free again and again; `WF` of
  `RunStep(c)`, a task that was taken goes on, FFmpeg ends one day.  No child is presumed free: `ExportSettles` excepts behaviours in which from some time on
  every child is held by a recording or a consumer, the case of the eight children of `docker-compose.yml:69`.  Nothing is assumed of commits, faults or the purge.
* `Sessions`: `WF` of `Tick` alone: time passes.  No request has to come or to end.
* A camera, its operator, the network and a client are not assumed to do anything.

## 5. What is proved

Each proof module is about every value of the constants, from the named assumption of its
module alone (`ConstantsOK`, `ZoneConfigOK`, `ServicesAssumption`, ...).  TLC evaluates those assumptions in every run.

| Module | Theorem | Statement |
|---|---|---|
| `RecordingProofs` | `TypeCorrect`, `LedgerKept`, `Supervised`, `RecordersOwned`, `EntriesKept` | `[]TypeOK`, `[]SegmentLedger`, `[]RecordingIsSupervised`, `[]RecorderIsOwned`, `RunningEntryKept` |
| `LiveViewProofs` | `TypeCorrect`, `WaitersServed`, `OneWorks`, `Managed`, `Viewed` | `[]TypeOK`, `[]WaitersAreServed`, `[]OneTaskWorks`, `[]StreamIsManaged`, `[]ViewersAreSubscribed` |
| `AlertPipelineProofs` | `TypeCorrect`, `EventsKept`, `OrderKept`, `FollowedUp`, `UnbufferedAlertedOnce` | `[]TypeOK`, `[]EventsAreKept`, `InOrder` (the refinement of `AlertChannel`), `[]AlertsAreFollowedUp`, `[]UnbufferedOnce` |
| `FootageProofs` | `TypeCorrect`, `FilesAccounted`, `RowsTrue`, `RecentKept` | `[]TypeOK`, `[]FilesAreAccounted`, `[]UniqueNamesHold`, `RecentFootageKept`, with no hypothesis about processes, purges or limits |
| `SessionsProofs` | `TypeCorrect`, `LockoutBounded`, `RevocationLasts`, `RotationBounded` | `[]TypeOK`, `[]LockoutBounds`, `[]RevocationHolds`, `[]RotationSpends` |
| `DetectionProofs` | `ZCTypeCorrect`, `ZonesAgreeAlways` | of `ZoneConfig`: `[]ZCTypeOK`, `[]ZonesAgree` |
| | `TypeCorrect`, `AlertsDue` | of `Detector`: `[]TypeOK`, `[]AlertsAreDue`, for any configuration |
| `ExportProofs` | `TypeCorrect`, `DownloadsSound`, `TimelineTrue` | `[]TypeOK`, `[]ExportsAreSound`, `[]TimelineExact` |
| | `DayTrue`, `PagesTrue`, `OrdersExist` | of `Timeline`: `DayExact` for every finite footage and every day, `PagesExact` for every footage, range and size of page; there is an order to answer in |
| `ServicesProofs` | `TypeCorrect`, `PlanSound`, `RowsWhole`, `ChannelsTold`, `ConnectionsKept` | of `MCServices`: `[]TypeOK`, `[]PlanIsSound`, `[]RowsAreWhole`, `[]ChannelsAreTold`, `[]ConnectionsAreKept` |

The inductive invariants, and why they are needed:

* **Recording.**  `SegmentLedger` is inductive with the types.  That a
  process a child monitors is the one in its registry does not survive `Spawn`
  unless no other child, job or entry refers to the process taken, nor `StopRecording` unless a
  free child follows nothing.  A child that is idle, checks or stops (`Elsewhere`) does with its registry what it likes (`FreeChild`).  `Ownership` adds that: `FreshJobs` (a child that is idle or checks cameras
  has the job record `Idle` but for its stage), `FollowedIsRegistered`, `FollowersAreDisjoint` (two children never refer
  to one process), `StartsAreFresh` (the idempotency check carried forward from `TakeStart`).  From it, a live process has one
  follower, whose entry it is (`RecordersOwned`), and the only task that changes an entry of a running process is that follower or
  one that stops it (`EntriesKept`).
* **Footage.**  `Ledger` is what every other argument stands on: what is on disk, in a row or in a process's hands was opened (`OpenedAll`), by a process at most once
  in a slot and in no slot it has not come to (`OpenedDated`); a process has no row yet for what it writes or its task has not indexed (`RowsBehind`); a segment has
  one row at most, wherever a purge or a request has put it (`OneRow`).  Every step of a purge or of the API is a `Removal`, so that the invariants are kept by one
  argument for all of them.  `Accounted` adds that the file of a row on its way out is gone or its removal has failed (`Departed`), without which a rollback would
  bring back the row of a file nobody accounts for.  `Present` is `UniqueNamesHold` with `Left` in the place of `InRemoval`: opening a name a second time makes the
  name `Reused` for ever, so that the file of a name opened once is the segment its row is of (`OneSegment`).  `Chosen` carries a purge's cutoff from its selection
  to its unlinks.  There is no theorem about retention: the code does not enforce it (section 6).
* **LiveView.**  `Locking` relates locks and tasks: the owner of a lock is a task that works with it or has just been
  given it, and the other way round; the queue of a lock in use has exactly the tasks that wait for it, each once.  It holds
  whatever happens to `_locks`, which is why waiters of a dropped lock are served (`WaitersServed`).  `Alone` says that until a
  second lock is created one lock at most is in use, and is the one in the map or a dropped one; a task that finds none in the
  map then finds none in use, unless `forked` records that it did.  `InHand` says what a task that works may rely on: one that starts the stream has
  found no running one and has made the directory, one that stops it has taken it out.  That a new lock can be created is a
  counting argument (at most one lock per task is in use), with the theorems about injections of finite sets.
* **AlertPipeline.**  `Kept` numbers the events in buffer and call below `published` and in increasing order, so that what is dropped is the oldest.
  `Ordered` orders what a child has handled, its inbox, what may still be sent to it and the publish under way, which is the step of the refinement.
  `Followed` and `Once` say what is true of the alert of an open transaction and of the events a child has not come to.
* **Sessions.**  `Bounded`: a counter plus the failing sign-ins still under way is at most `MaxAttempts - 1 + |Request|`, a sum over requests.
  `Out`: an erased user has no password hash, and a request under way for a barred user is marked as raced; with `Shut`, a session of a barred user is
  revoked unless its request was raced.  `Chain`: of two sessions of one sign-in that are no twins the earlier is spent (`Chained`), what is spent is
  revoked and roots lie before their sessions (`Rooted`), and a refresh under way that may still replace a session without making a twin has read one that is not spent.
* **ZoneConfig.**  `Heard`: the service's copy is the key's, or an announcement is on its way, or `mishap` says that one was missed or a read failed, the first load included.  `AloneHolds`: a PUT that nothing disturbed has seen all
  rows, and the key is its own once set.  `Synced` says for every state of the watcher what is true of key, inbox and `raw`.
* **Export.**  `Counted` numbers the runs: a file is of a run whose message was taken.  While no two runs overlap (`Alone`), a task finds what it has
  encoded complete or purged, and its job not completed (`Filled`), and a completed job has the file its checksum is of, unless a purge that
  selected the job has unlinked it (`Done`).  Overlapping runs write one file; `overlap` is the exception the property makes.
* **Timeline.**  What the recursions compute is proved by induction, on a *set* of numbers (`Induction`, from the least member of a set, since
  no prover here instantiates a predicate): `Iteration` says that a recursion over `1..n` has a solution, so that `Cursor` and the sum of `Covered`
  obey their equations (`CursorSteps`, `CoverSteps`).  `Reached` is the loop invariant of `_find_gaps`: the cursor has passed every end so far and is one of
  them, or the start of the day.  A slot without footage lies in the gap before the first segment that starts later (`EmptySlots`), gaps lie apart
  since a cursor is past the start of what it has passed (`GapsApart`), and the slots taken by segments that do not overlap are counted one segment at a
  time (`TakenCounted`).  A segment's place in a list is the number of those that start no earlier (`Rank`), so there is one list only (`OneOrder`),
  of which pages are windows.  `TimelineTrue` needs in addition only that footage is finite, as it is at first, and does not grow.
* **Detector.**  `AgesAreTrue`: unless a track has been out of sight for too long, the tracker's time in a zone is no longer than the track has been
  around.  A stale track is dropped by the next frame with boxes before its times are read, which is what `DwellIsVisibility` rests on.

* **Services.**  One invariant per service, since they share nothing; `MCServices` interleaves them, and each keeps its own while another moves.
  *Floor plan* (`PlanInv`): what a floor's row, its image files and the requests under way say of each other (`FloorSound`), on every floor no mishap befell.
  *Storage* (`TargetInv`): a deletion that is not late is one of an inactive target.  *Registry* (`CameraInv`): a move to the address the URL had already is one
  without a new URL; a list read that is fresh is the list of now.  *Permissions* (`GrantInv`): a pair of rights nobody mixed is changed by one request at a
  time, which knows the rights as they are.  *Notifications* (`NotifyInv`): a channel the task has come to the end of was told or given up; one it has not
  come to was told no more often than there was trouble.  *Alert desk* (`AlertInv`): the audit entry is there when changes are flushed, and nothing is left
  to be written when they are committed.  *Hub* (`HubInv`): sockets in the maps and handshakes that passed the check are bounded together, and who stays
  during a broadcast has got the message or is still to get it.

Only model-checked: liveness (`CameraIsRestarted`, `ExitIsRecorded`, `LockoutEnds`, `ExportSettles`), which is out of the prover's reach as is `ENABLED`.
Every safety property of a run that is expected to pass is a theorem, from the assumptions on the constants alone.

## 6. Findings

Two are runs expected to fail; `PROJECT.json` quotes the line the code disagrees with.

* **Footage overwritten** (`footage_overnight`).  The directory is computed once; after a day the same
  names are opened again under the old rows, whose purge then deletes new footage.
* **Reuse revokes nothing** (`sessions_reuse`).  The revocation of all sessions is followed by the exception that tells the
  client, and the request's transaction is rolled back.  The test passes because its `get_db` does not roll back.

The others are invariants or action properties kept in their modules beside those that hold, each with a configuration under which TLC finds it violated
within seconds (`tlc -config MCFootageLimit.cfg MCFootage`; the last two belong to `MCDetection`, the others to the module their name begins with).  No run relies on them; the properties of the runs say what holds instead.

* **The purge falls behind** (`PurgesAreComplete`, `MCFootageLimit.cfg`).  `purge.py:80` takes 100 rows per camera and run; a camera that records all day writes 144.
  The claim: `SPEC.md:943-944`: "Query segments where ended_at < now() - retention_days ... For each: delete file".
* **The purge is not sent** (`PurgeRunsDaily`, `MCFootageSchedule.cfg`).  `celery_app.py:35` has a plain dictionary where Celery wants a number of seconds, a
  `timedelta` or a `crontab`.
  The claim: `celery_app.py:35`: "daily at 03:00 UTC", `SPEC.md:942`.
* **Two recorders** (`OneRecorder`, `MCRecordingTwice.cfg`).  The idempotency check sees the registry of one child; a redelivered start runs in another.
  The claim: `recording.py:126`: "Idempotency — already recording", `SPEC.md:1284`.
* **No consumer** (`WorkerReadyKicks`, `MCAlertPipelineStart.cfg`).  The receiver of `worker_ready` is a local function (`celery_app.py:44-51`), which Celery refers to weakly;
  it is gone before the signal comes, and `consume_alerts` is sent by nothing else.
  The claim: `celery_app.py:46`: "Send consume_alerts task when the worker is fully initialised.".
* **One refresh token, two sessions** (`OneTokenPerSignIn`, `MCSessionsDouble.cfg`).  Two refreshes that overlap both replace the session they have read.
  The claim: `SPEC.md:222-223`: "every use issues a new refresh token and invalidates the old one".
* **A session outlives a deactivation** (`NoSessionLeft`, `MCSessionsLate.cfg`).  The `UPDATE` of sessions comes before the user's row is written; a sign-in commits in between.
  The claim: `user_service.py:106`: "Revoke all active sessions".
* **Expired files stay** (`NoFileLeft`, `MCExportPurge.cfg`).  A file that cannot be unlinked is passed over and its row deleted; of the mp4 and the zip a failed packing
  leaves only the one handed out is unlinked.
  The claim: `SPEC.md:945`: "Delete export files where expires_at < now()".
* **Zones are not reloaded** (`PublishReloads`, `MCZoneConfigReload.cfg`).  A set published between the service's load and its subscription is missed by both; one that follows a
  failed initial load (`main.py:48-57`) likewise, until the next.
  The claim: `routers/cameras.py:716`: "Publish to Redis so detection service reloads without restart".
* **Dwell is not presence** (`DwellIsPresence`, `MCDetectorDwell.cfg`).  The entry of a track lasts as long as the track is in sight: one that leaves the zone, stays visible and comes
  back is reported at once.
  The claim: `SPEC.md:1054-1055`: "Object track_id present in zone for > dwell_threshold_s seconds".

Also seen while modelling, not shown by a run:

*Recording and health check*
* The health check goes by the row (`health_check.py:53`): a start that is queued or not yet marked is not seen, and another is sent.
* Setting the mode to off does not stop the recorder (`health_check.py:42`): only the child that owns the process could, and it is busy with it.
* A child that dies leaves `recording` in the row; each later health check takes it for another child's.

*Footage and exports*
* `purge.py:70` passes over deleted cameras, so their footage stays.
* The legal hold of an alert (`alert_service.py:211-221`) marks the alert only.  The purge and
  `DELETE /segments` respect the flag of a *segment*, which no code sets; `SESSION_PROMPTS.md:730` says a hold prevents "clip
  deletion, segment purge".  `Footage` has no held rows for that reason.
* An export joins mp4 files with the `concat:` protocol and trims nothing to the range asked for; files of failed exports are never purged.

*Live view and hub*
* Two FFmpeg processes for one camera after `stop_stream` has dropped the lock it holds (`hls_service.py:77`): the case `forked` names.
* Viewers are users, not connections (`hls_service.py:24`, `ws.py:203`): closing one of a user's two
  connections can stop the stream of the other.  `unsubscribe_camera` by the last viewer stops nothing; the count read at `ws.py:223` may be
  out of date when the stop runs.
* A failed broadcast forgets a socket whose endpoint runs on; the limit is overrun by handshakes under way; a connection stays open after its user is
  deactivated; `send_to_permission` is used by nothing.

*Alerts, notifications, audit*
* `redis_publisher.py:39-40` takes an event from the buffer before it is sent, and the handler puts back
  only the new one: a failed drain loses an event although the buffer has room, and
  `is_connected`, which resets `_r` without the lock, can cause that with Redis in good health.
  `SESSION_PROMPTS.md:853` says "buffer up to 100 events in memory, retry on reconnect"; there is
  no retry on reconnect as such, the buffer waits for the next `publish`.
* `consume_alerts` never ends, so its message is delivered again after each visibility timeout:
  consumers accumulate, each makes its own alert of an event, and each holds a child.
* Clip and notification tasks are sent before the commit (`alert_consumer.py:118-121`), find no alert if they are early, and are not retried; a clip is cut at
  a time at which the segment being recorded has no row.
* `_process_detection_event` calls itself the "Sync version of alert_service.create_alert_from_detection"
  (`alert_consumer.py:80`) but ignores the schedule of a rule (`alert_service.py:93-94`); only tests call the original.
* A rule that has alerts cannot be deleted (foreign key, answered with 500).  Settings are updated by read, modify, write.
* The audit entry of a handler that flushed before `log()` (create rule, role, channel, user, export) or changed nothing is lost: the task that adds it runs in the
  `COMMIT` (`SPEC.md:294` wants every action logged).  `AuditLogMiddleware` writes no row.

*Accounts*
* `failed_login_count` is incremented and rolled back with the refusal; `unlock_user` does not touch the counters in Redis (`SPEC.md:786`).
* A used backup code is marked in the list in place, which the mapper does not see: it can be used again (`SPEC.md:227`).
* `PATCH is_active=false` and a change of password revoke no session.  Nothing keeps a last administrator.  Anonymising an e-mail that was registered
  again violates its uniqueness.

*Zones and detection*
* A covered camera yields no boxes, so tampering is not evaluated (`SPEC.md` 9.5); dwell alerts are evaluated after a tampering alert all the same.
* The time zone of a zone is ignored, hours are in UTC; `is_privacy_mask` is not a column of the database; zones with equal names share a polygon;
  `_cooldowns` never shrinks.
* Overlapping PUTs leave the union of their rows.

*Registry, floor plan, storage*
* Deleting a building leaves the image files of its floors.  A target activated between the check and its deletion is deleted.
* A change of address whose probe finds no URL keeps the old URL.  Overlapping permission requests can leave a mixture of both when neither loaded what
  the other wrote; `require_camera_permission` is used by no router.  `nvr:cameras` is only written at a restart of the detection service.

## 7. What is not modelled

Thumbnails, checksums of segments, segment durations and sizes; discovery, time, OSD and encoder settings of the ONVIF client, camera groups,
PTZ and snapshots, which are I/O with cameras; roles, equipment, API keys and system settings, one transaction per request on rows of
their own; the terminal and host diagnostics; audit-log retention, a single `DELETE`; `stop_all`, after which
the process ends; the heartbeat's timing; statistics and lists, which read only.  YOLO inference, ByteTrack's matching and image statistics
are inputs of `Detector`: a model checker has nothing to say about them.  Middleware is wiring; the frontend, nginx, the
deployment scripts and the fake cameras have no protocol of their own.
