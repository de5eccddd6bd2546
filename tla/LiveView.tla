------------------------------- MODULE LiveView -------------------------------
(***************************************************************************)
(* Live view of one camera: HLSStreamManager, which starts and stops the   *)
(* FFmpeg process that feeds the camera's HLS directory, and the WebSocket *)
(* connections whose subscriptions are its viewers.                        *)
(*                                                                         *)
(* One event loop runs all of it: a coroutine executes without interruption*)
(* up to an await that suspends it, and so does an action here.  The awaits*)
(* that suspend are those of a lock that is taken and of the three calls   *)
(* handed to threads: proc.start, proc.stop and rmtree.                    *)
(***************************************************************************)
EXTENDS Naturals, Sequences, FiniteSets

CONSTANTS
  Task,     \* coroutines that execute start_stream or stop_stream
  Lock,     \* asyncio.Lock objects: one that is not in use may be created again
  Proc,     \* FFmpeg processes: the slot of a dead process is reused
  Socket,   \* WebSocket connections; one that ends is followed by a new one of its user
  User,
  UserOf,   \* the user of each connection
  NoTask, NoLock, NoProc

ASSUME ConstantsOK ==
  /\ UserOf \in [Socket -> User]
  /\ NoTask \notin Task /\ NoLock \notin Lock /\ NoProc \notin Proc
  /\ IsFiniteSet(Task) /\ IsFiniteSet(Lock)
  /\ Cardinality(Task) <= Cardinality(Lock)  \* a new lock can always be created

VARIABLES
  lock,      \* _locks[camera_id]
  owner,     \* the task that holds each lock
  waiting,   \* the tasks that wait for each lock, in order
  task,      \* what each task is doing
  stream,    \* _streams[camera_id]
  alive,     \* the FFmpeg processes that run
  dir,       \* whether HLS_PATH/{camera_id} exists
  viewers,   \* _viewers[camera_id]; no entry is an empty one
  dropped,   \* connections that are open, but no longer in the manager's maps
  tracking,  \* connections whose _ws_cameras entry has the camera
  forked,    \* history: a lock was created while another of the camera was in use
  leaked     \* history: users whose subscription the manager forgot before they left

locks   == <<lock, owner, waiting>>
hls     == <<stream, alive, dir>>
clients == <<viewers, dropped, tracking, leaked>>
vars == <<locks, task, hls, clients, forked>>

Rest == [op |-> "none", at |-> "rest", lock |-> NoLock, proc |-> NoProc]
At(o, a, l, p) == [op |-> o, at |-> a, lock |-> l, proc |-> p]
Places == {"rest", "created", "waiting", "granted", "launching", "launched", "stopping", "removing"}
Tasks == [op : {"none", "start", "stop"}, at : Places,
          lock : Lock \cup {NoLock}, proc : Proc \cup {NoProc}]

TypeOK ==
  /\ lock \in Lock \cup {NoLock}
  /\ owner \in [Lock -> Task \cup {NoTask}]
  /\ waiting \in [Lock -> Seq(Task)]
  /\ task \in [Task -> Tasks]
  /\ \A t \in Task : task[t].at \in {"launched", "stopping"} <=> task[t].proc \in Proc
  /\ stream \in Proc \cup {NoProc}
  /\ alive \in SUBSET Proc
  /\ dir \in BOOLEAN
  /\ viewers \in SUBSET User
  /\ dropped \in SUBSET Socket
  /\ tracking \in SUBSET Socket
  /\ forked \in BOOLEAN
  /\ leaked \in SUBSET User

Init ==
  /\ lock = NoLock
  /\ owner = [l \in Lock |-> NoTask]
  /\ waiting = [l \in Lock |-> <<>>]
  /\ task = [t \in Task |-> Rest]
  /\ stream = NoProc
  /\ alive = {}
  /\ dir = FALSE
  /\ viewers = {}
  /\ dropped = {}
  /\ tracking = {}
  /\ forked = FALSE
  /\ leaked = {}
-----------------------------------------------------------------------------
(* Locks.  Each task works in the "async with lock" block of its method.     *)

InUse(l) == owner[l] # NoTask \/ waiting[l] # <<>>

\* _get_lock: the camera's lock, or a new one (which of the unused objects is immaterial).
New == CHOOSE l \in Lock : ~InUse(l)
Get == IF lock = NoLock THEN New ELSE lock

\* Task t goes on, in state j, with lock l held.
Hold(t, l, j) ==
  /\ owner' = [owner EXCEPT ![l] = t]
  /\ task' = [task EXCEPT ![t] = j]
  /\ UNCHANGED waiting

\* Task t leaves the block and ends; the first waiter gets the lock.
LeaveSilently(t, l) ==  \* mutant: the waiters are not woken
  /\ owner' = [owner EXCEPT ![l] = NoTask]
  /\ task' = [task EXCEPT ![t] = Rest]
  /\ UNCHANGED waiting
Leave(t, l) ==
  IF waiting[l] = <<>>
  THEN /\ owner' = [owner EXCEPT ![l] = NoTask]
       /\ task' = [task EXCEPT ![t] = Rest]
       /\ UNCHANGED waiting
  ELSE LET n == Head(waiting[l])
       IN  /\ owner' = [owner EXCEPT ![l] = n]
           /\ waiting' = [waiting EXCEPT ![l] = Tail(waiting[l])]
           /\ task' = [task EXCEPT ![t] = Rest, ![n] = At(task[n].op, "granted", l, NoProc)]
-----------------------------------------------------------------------------
(* start_stream *)

\* With lock l, when _locks has k: nothing to do for a running stream; a camera without
\* a URL raises; else make the directory and start FFmpeg in a thread.
EnterStartAgain(t, l, k) ==  \* mutant: _streams is not looked at
  /\ Hold(t, l, At("start", "launching", l, NoProc)) /\ dir' = TRUE
  /\ lock' = k
  /\ UNCHANGED <<stream, viewers>>
EnterStart(t, l, k) ==
  /\ \/ Leave(t, l) /\ UNCHANGED dir  \* it runs, or there is no URL
     \/ stream \notin alive /\ Hold(t, l, At("start", "launching", l, NoProc)) /\ dir' = TRUE
  /\ lock' = k
  /\ UNCHANGED <<stream, viewers>>

Launch(t, p) ==
  /\ task[t].at = "launching"
  /\ p \notin alive \cup {stream} /\ \A s \in Task : task[s].proc # p
  /\ alive' = alive \cup {p}
  /\ Hold(t, task[t].lock, At("start", "launched", task[t].lock, p))
  /\ UNCHANGED <<lock, stream, dir, clients, forked>>

\* proc.start raises: the directory made stays.
LaunchFails(t) ==
  /\ task[t].at = "launching"
  /\ Leave(t, task[t].lock)
  /\ UNCHANGED <<lock, hls, clients, forked>>

\* The coroutine goes on: the process is registered, whatever was there before.
Register(t) ==
  /\ task[t].at = "launched"
  /\ stream' = task[t].proc
  /\ Leave(t, task[t].lock)
  /\ UNCHANGED <<lock, alive, dir, clients, forked>>
-----------------------------------------------------------------------------
(* stop_stream *)

\* The entries of the camera are dropped, that in _locks too; the directory, if there
\* is one, is removed in a thread while the lock is still held.
Clear(t, l) ==
  /\ viewers' = {}
  /\ lock' = NoLock
  /\ IF dir THEN Hold(t, l, At("stop", "removing", l, NoProc)) ELSE Leave(t, l)

\* With lock l, when _locks has k: take the stream out and stop its process in a thread.
EnterStopBlind(t, l, k) ==  \* mutant: proc.stop is called when there is no process
  /\ stream' = NoProc
  /\ Hold(t, l, At("stop", "stopping", l, stream))
  /\ lock' = k
  /\ UNCHANGED <<viewers, dir>>
EnterStop(t, l, k) ==
  /\ stream' = NoProc
  /\ IF stream = NoProc
     THEN Clear(t, l)
     ELSE /\ Hold(t, l, At("stop", "stopping", l, stream))
          /\ lock' = k
          /\ UNCHANGED viewers
  /\ UNCHANGED dir

StopProcess(t) ==
  /\ task[t].at = "stopping"
  /\ alive' = alive \ {task[t].proc}
  /\ Clear(t, task[t].lock)
  /\ UNCHANGED <<stream, dir, dropped, tracking, leaked, forked>>

RemoveDir(t) ==
  /\ task[t].at = "removing"
  /\ dir' = FALSE
  /\ Leave(t, task[t].lock)
  /\ UNCHANGED <<lock, stream, alive, clients, forked>>
-----------------------------------------------------------------------------
(* The tasks *)

Enter(t, o, l, k) ==
  /\ IF o = "start" THEN EnterStart(t, l, k) ELSE EnterStop(t, l, k)
  /\ UNCHANGED <<alive, dropped, tracking, leaked>>

\* Task t gets the lock, or waits for it.
ArriveAtOnce(t, o) ==  \* mutant: the lock is not waited for
  /\ forked' = (forked \/ (lock = NoLock /\ \E k \in Lock : InUse(k)))
  /\ Enter(t, o, Get, Get)
Arrive(t, o) ==
  LET l == Get
  IN  /\ forked' = (forked \/ (lock = NoLock /\ \E k \in Lock : InUse(k)))
      /\ IF InUse(l)
         THEN /\ waiting' = [waiting EXCEPT ![l] = Append(waiting[l], t)]
              /\ task' = [task EXCEPT ![t] = At(o, "waiting", l, NoProc)]
              /\ UNCHANGED <<lock, owner, hls, clients>>
         ELSE Enter(t, o, l, l)

\* GET /live/{camera_id}/stream-url, DELETE /live/{camera_id}/stream
Request(t, o) == task[t] = Rest /\ Arrive(t, o)

\* The first step of a task that an ended connection created.
Run(t) == task[t].at = "created" /\ Arrive(t, "stop")

\* A waiter that was given the lock goes on with it, even when it is no longer the
\* one in _locks.
Resume(t) ==
  /\ task[t].at = "granted"
  /\ Enter(t, task[t].op, task[t].lock, lock)
  /\ UNCHANGED forked

\* _watchdog: an entry whose process has died is dropped.
Watchdog ==
  /\ stream # NoProc /\ stream \notin alive
  /\ stream' = NoProc
  /\ UNCHANGED <<locks, task, alive, dir, clients, forked>>

Die(p) ==
  /\ p \in alive
  /\ alive' = alive \ {p}
  /\ UNCHANGED <<locks, task, stream, dir, clients, forked>>
-----------------------------------------------------------------------------
(* The WebSocket connections: websocket_endpoint and ConnectionManager       *)

\* subscribe_camera: track_camera ignores a connection that is not in the maps,
\* add_viewer counts its user all the same.
Subscribe(s) ==
  /\ tracking' = tracking \cup ({s} \ dropped)
  /\ viewers' = viewers \cup {UserOf[s]}
  /\ leaked' = IF s \in dropped THEN leaked \cup {UserOf[s]} ELSE leaked
  /\ UNCHANGED <<locks, task, hls, dropped, forked>>

\* unsubscribe_camera: nothing is stopped.
Unsubscribe(s) ==
  /\ tracking' = tracking \ {s}
  /\ viewers' = viewers \ {UserOf[s]}
  /\ UNCHANGED <<locks, task, hls, dropped, leaked, forked>>

\* broadcast or send_to_user cannot write: the manager forgets the connection and
\* nobody looks at the cameras it was viewing.
SendFails(s) ==
  /\ s \notin dropped
  /\ dropped' = dropped \cup {s}
  /\ tracking' = tracking \ {s}
  /\ leaked' = IF s \in tracking THEN leaked \cup {UserOf[s]} ELSE leaked
  /\ UNCHANGED <<locks, task, hls, viewers, forked>>

\* The endpoint ends: the user of a connection that tracks the camera is removed, and
\* if nobody is left the stream is stopped, by a task of its own.
DisconnectSilent(s, t) ==  \* mutant: the viewer is left
  /\ task[t] = Rest
  /\ dropped' = dropped \ {s}
  /\ tracking' = tracking \ {s}
  /\ UNCHANGED <<locks, task, hls, viewers, leaked, forked>>
Disconnect(s, t) ==
  /\ task[t] = Rest
  /\ dropped' = dropped \ {s}
  /\ tracking' = tracking \ {s}
  /\ viewers' = IF s \in tracking THEN viewers \ {UserOf[s]} ELSE viewers
  /\ task' = IF s \in tracking /\ viewers' = {}
             THEN [task EXCEPT ![t] = At("stop", "created", NoLock, NoProc)] ELSE task
  /\ UNCHANGED <<locks, hls, leaked, forked>>
-----------------------------------------------------------------------------
TaskStep(t) ==
  \/ Run(t)
  \/ Resume(t)
  \/ \E p \in Proc : Launch(t, p)
  \/ LaunchFails(t)
  \/ Register(t)
  \/ StopProcess(t)
  \/ RemoveDir(t)

Next ==
  \/ \E t \in Task : TaskStep(t) \/ \E o \in {"start", "stop"} : Request(t, o)
  \/ Watchdog
  \/ \E p \in Proc : Die(p)
  \/ \E s \in Socket : \/ Subscribe(s) \/ Unsubscribe(s) \/ SendFails(s)
                       \/ \E t \in Task : Disconnect(s, t)

Spec == Init /\ [][Next]_vars
-----------------------------------------------------------------------------
(* Properties *)

\* A running FFmpeg process is the one in _streams or in the hands of a task, so that
\* stop_all can end every process, and the directory a registered process writes to is
\* not removed under it; unless a second lock of the camera was created
\* (hls_service.py:39-83).
StreamIsManaged ==
  ~forked =>
    /\ \A p \in alive : p = stream \/ \E t \in Task : task[t].proc = p
    /\ stream \in alive => dir

\* A viewer has a connection that views the camera, unless the manager forgot one of
\* theirs (ws.py:195-222).
ViewersAreSubscribed ==
  \A u \in viewers \ leaked : \E s \in tracking : UserOf[s] = u

\* Two tasks never work on the camera at once, with the same exception; those that
\* hold a lock hold the one they work with (hls_service.py:45-46, 71-72).
Working(t) == task[t].at \in {"launching", "launched", "stopping", "removing"}
OneTaskWorks ==
  /\ \A t \in Task : Working(t) => owner[task[t].lock] = t
  /\ ~forked => \A t, s \in Task : Working(t) /\ Working(s) => t = s

\* No task waits for a lock that nobody will release, in particular not for one that
\* stop_stream has dropped from _locks: its owner works with it or has just been given
\* it (hls_service.py:77).
WaitersAreServed ==
  \A t \in Task : task[t].at = "waiting" =>
    LET l == task[t].lock
    IN  /\ \E i \in DOMAIN waiting[l] : waiting[l][i] = t
        /\ \E s \in Task : owner[l] = s /\ task[s].lock = l /\ (Working(s) \/ task[s].at = "granted")
=============================================================================
