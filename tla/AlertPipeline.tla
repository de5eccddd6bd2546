----------------------------- MODULE AlertPipeline -----------------------------
(***************************************************************************)
(* From a detection to an alert: the publisher of the detection service    *)
(* with its bounded buffer, the Redis channel nvr:alerts, the consume_alerts*)
(* tasks that listen to it, and the clip and notification tasks they send. *)
(*                                                                         *)
(* All detection threads publish under one lock, which is held over every  *)
(* call to Redis: events are numbered in the order of that lock, and at    *)
(* most one publish is under way.  The main thread's is_connected does not *)
(* take the lock.  A consumer handles one event per transaction; the tasks *)
(* it sends are out before the transaction is committed.                   *)
(***************************************************************************)
EXTENDS Naturals, Sequences

CONSTANTS
  Child,      \* Celery children that run nvr.consume_alerts
  MaxBuffer,  \* _MAX_BUFFER (100)
  MaxEvents,  \* bound: events published
  MaxAlerts,  \* bound: alerts begun
  MaxKicks,   \* bound: consume_alerts messages waiting
  MaxFaults   \* bound: outages of Redis, lost replies, failed transactions and tasks,
              \* lost children, restarts

ASSUME ConstantsOK ==
  /\ {MaxBuffer, MaxEvents, MaxAlerts, MaxKicks, MaxFaults} \subseteq Nat
  /\ MaxBuffer > 0 /\ MaxKicks > 0

VARIABLES
  up,         \* whether Redis answers
  connected,  \* _r is not None
  probe,      \* is_connected has seen its ping fail and not yet reset _r
  buffer,     \* _buffer
  call,       \* the event whose publish is under way, or 0
  published,  \* events given to publish, numbered in that order
  consumer,   \* the consume_alerts tasks
  kicks,      \* consume_alerts messages waiting
  alerts,     \* the alerts begun, in that order, with their rows and tasks
  segment,    \* the recording segment each event falls into
  handled,    \* history: the last event each child has taken from the channel
  buffered,   \* history: events that have been in the buffer
  sent,       \* history: events Redis has been given
  overflowed, \* history: events the full buffer has dropped
  failed,     \* history: events taken from the buffer whose sending failed
  faults      \* faults so far

publisher == <<connected, probe, buffer, call, published, buffered, sent, overflowed, failed>>
workers   == <<consumer, kicks, handled>>
vars == <<up, publisher, workers, alerts, segment, faults>>

Event == 1..MaxEvents

\* sub: its connection is subscribed; inbox: messages received and not yet read; alert:
\* the alert of the transaction it is in, or 0.
Consumer == [on : BOOLEAN, sub : BOOLEAN, inbox : Seq(Event), alert : 0..MaxAlerts]
Off == [on |-> FALSE, sub |-> FALSE, inbox |-> <<>>, alert |-> 0]

\* row: "flushed" is not visible to others yet; clip and note: the tasks save_alert_clip
\* and send_alert_notifications: not sent, waiting, run (with or without a clip).
Alert == [event : Event, by : Child, row : {"flushed", "there", "gone"},
          clip : {"unsent", "waiting", "saved", "missed"},
          note : {"unsent", "waiting", "run"}]

\* "open": being recorded, hence without a row; "none": not recorded, or purged.
Segment == {"none", "open", "indexed"}

TypeOK ==
  /\ up \in BOOLEAN /\ connected \in BOOLEAN /\ probe \in BOOLEAN
  /\ buffer \in Seq(Event) /\ Len(buffer) <= MaxBuffer
  /\ call \in 0..MaxEvents
  /\ published \in 0..MaxEvents
  /\ consumer \in [Child -> Consumer]
  /\ kicks \in 0..MaxKicks
  /\ alerts \in Seq(Alert) /\ Len(alerts) <= MaxAlerts
  /\ segment \in [Event -> Segment]
  /\ handled \in [Child -> 0..MaxEvents]
  /\ {buffered, sent, overflowed, failed} \subseteq SUBSET Event
  /\ faults \in 0..MaxFaults

\* The receiver of worker_ready that sends consume_alerts is a function inside
\* _start_alert_consumer.  Celery refers to receivers weakly unless told otherwise, and
\* nothing else refers to this one once that function has returned.
Receiver == "local"
ReceiverLives == Receiver = "module"

\* Both services have started.
Init ==
  /\ up = TRUE /\ connected = TRUE /\ probe = FALSE
  /\ buffer = <<>>
  /\ call = 0
  /\ published = 0
  /\ consumer = [c \in Child |-> Off]
  /\ kicks = IF ReceiverLives THEN 1 ELSE 0
  /\ alerts = <<>>
  /\ segment = [e \in Event |-> "none"]
  /\ handled = [c \in Child |-> 0]
  /\ buffered = {} /\ sent = {} /\ overflowed = {} /\ failed = {}
  /\ faults = 0

Fault == faults < MaxFaults /\ faults' = faults + 1
-----------------------------------------------------------------------------
(* RedisPublisher *)

\* _buffer.append(e): a full deque drops its oldest element.
PushUnbounded(b, e) ==  \* mutant: the deque has no maxlen
  /\ buffer' = Append(b, e)
  /\ buffered' = buffered \cup {e}
  /\ UNCHANGED overflowed
Push(b, e) ==
  /\ buffer' = IF Len(b) = MaxBuffer THEN Append(Tail(b), e) ELSE Append(b, e)
  /\ overflowed' = IF Len(b) = MaxBuffer THEN overflowed \cup {Head(b)} ELSE overflowed
  /\ buffered' = buffered \cup {e}

\* A detection thread gets the lock.  Without a connection the event is buffered first,
\* and published as well if connecting succeeds.
Publish(s) ==
  /\ call = 0
  /\ published < MaxEvents
  /\ LET e == published + 1
     IN  /\ published' = e
         /\ segment' = [segment EXCEPT ![e] = s]
         /\ IF connected
            THEN call' = e /\ UNCHANGED <<connected, buffer, buffered, overflowed>>
            ELSE /\ Push(buffer, e)
                 /\ connected' = up
                 /\ call' = IF up THEN e ELSE 0
  /\ UNCHANGED <<up, probe, sent, failed, workers, alerts, faults>>

\* The buffer is drained before the new event is sent.
Sending == IF buffer = <<>> THEN call ELSE Head(buffer)
Rest    == IF buffer = <<>> THEN <<>> ELSE Tail(buffer)

\* PUBLISH: Redis passes the message to the connections that are subscribed.
Deliver(e) ==
  /\ consumer' = [c \in Child |-> IF consumer[c].sub
                                  THEN [consumer[c] EXCEPT !.inbox = Append(@, e)]
                                  ELSE consumer[c]]
  /\ sent' = sent \cup {e}

SendRepeated ==  \* mutant: the new event is sent once more
  /\ call # 0 /\ connected /\ up
  /\ Deliver(Sending)
  /\ buffer' = Rest
  /\ call' \in IF buffer = <<>> THEN {0, call} ELSE {call}
  /\ UNCHANGED <<up, connected, probe, published, buffered, overflowed, failed,
                 kicks, handled, alerts, segment, faults>>
SendNewestFirst ==  \* mutant: the new event is sent before the buffer is drained
  /\ call # 0 /\ connected /\ up
  /\ Deliver(call)
  /\ buffer' = Rest
  /\ call' = IF buffer = <<>> THEN 0 ELSE Head(buffer)
  /\ UNCHANGED <<up, connected, probe, published, buffered, overflowed, failed,
                 kicks, handled, alerts, segment, faults>>
Send ==
  /\ call # 0 /\ connected /\ up
  /\ Deliver(Sending)
  /\ buffer' = Rest
  /\ call' = IF buffer = <<>> THEN 0 ELSE call
  /\ UNCHANGED <<up, connected, probe, published, buffered, overflowed, failed,
                 kicks, handled, alerts, segment, faults>>

\* The exception handler: the new event goes to the buffer, an old one that was taken
\* from it does not go back; then connect again.
HandleDropping ==  \* mutant: the handler forgets the new event
  /\ buffer' = Rest
  /\ failed' = IF buffer = <<>> THEN failed ELSE failed \cup {Head(buffer)}
  /\ call' = 0
  /\ connected' = up
  /\ UNCHANGED <<up, probe, published, buffered, overflowed, kicks, handled, alerts, segment>>
HandleFailure ==
  /\ Push(Rest, call)
  /\ failed' = IF buffer = <<>> THEN failed ELSE failed \cup {Head(buffer)}
  /\ call' = 0
  /\ connected' = up
  /\ UNCHANGED <<up, probe, published, kicks, handled, alerts, segment>>

\* Redis does not answer, or is_connected has reset _r in the meantime.
SendFails ==
  /\ call # 0
  /\ ~connected \/ ~up
  /\ HandleFailure
  /\ UNCHANGED <<consumer, sent, faults>>

\* Redis takes the message, but the reply is lost.
SendUnanswered ==
  /\ call # 0 /\ connected /\ up
  /\ Fault
  /\ Deliver(Sending)
  /\ HandleFailure

\* is_connected, called by the main thread without the lock.
ProbeFails ==
  /\ connected /\ ~up /\ ~probe
  /\ probe' = TRUE
  /\ UNCHANGED <<up, connected, buffer, call, published, buffered, sent, overflowed, failed,
                 workers, alerts, segment, faults>>
ProbeResets ==
  /\ probe
  /\ probe' = FALSE
  /\ connected' = FALSE
  /\ UNCHANGED <<up, buffer, call, published, buffered, sent, overflowed, failed,
                 workers, alerts, segment, faults>>
-----------------------------------------------------------------------------
(* Redis and the broker in it *)

\* An outage ends every subscription.
Outage ==
  /\ up
  /\ Fault
  /\ up' = FALSE
  /\ consumer' = [c \in Child |-> [consumer[c] EXCEPT !.sub = FALSE]]
  /\ UNCHANGED <<publisher, kicks, handled, alerts, segment>>

Recovery ==
  /\ ~up
  /\ up' = TRUE
  /\ UNCHANGED <<publisher, workers, alerts, segment, faults>>

MoreKicks == IF kicks < MaxKicks THEN kicks + 1 ELSE kicks

\* A consumer outlasts the visibility timeout: its message is delivered again.
Redeliver ==
  /\ up
  /\ \E c \in Child : consumer[c].on
  /\ kicks < MaxKicks
  /\ kicks' = kicks + 1
  /\ UNCHANGED <<up, publisher, consumer, handled, alerts, segment, faults>>

\* An operator sends consume_alerts.
SendConsumer ==
  /\ up
  /\ kicks < MaxKicks
  /\ kicks' = kicks + 1
  /\ UNCHANGED <<up, publisher, consumer, handled, alerts, segment, faults>>

\* What becomes of the alert a lost transaction was about.
RolledBack(S) ==
  [i \in DOMAIN alerts |-> IF i \in S THEN [alerts[i] EXCEPT !.row = "gone"] ELSE alerts[i]]
Open(C) == {consumer[c].alert : c \in C}

\* The worker starts anew: the message of a consumer that was running is delivered again,
\* and a receiver of worker_ready that lives sends one more.
WorkerRestart ==
  /\ Fault
  /\ alerts' = RolledBack(Open(Child))
  /\ consumer' = [c \in Child |-> Off]
  /\ kicks' = IF ReceiverLives \/ \E c \in Child : consumer[c].on THEN MoreKicks ELSE kicks
  /\ UNCHANGED <<up, publisher, handled, segment>>
-----------------------------------------------------------------------------
(* nvr.consume_alerts *)

Subscribe(c) ==
  /\ ~consumer[c].on
  /\ kicks > 0 /\ up
  /\ kicks' = kicks - 1
  /\ consumer' = [consumer EXCEPT ![c] = [Off EXCEPT !.on = TRUE, !.sub = TRUE]]
  /\ UNCHANGED <<up, publisher, handled, alerts, segment, faults>>

Ready(c) == consumer[c].on /\ consumer[c].alert = 0 /\ consumer[c].inbox # <<>>
Take(c, alert) ==
  /\ consumer' = [consumer EXCEPT ![c].inbox = Tail(@), ![c].alert = alert]
  /\ handled' = [handled EXCEPT ![c] = Head(consumer[c].inbox)]

\* A new alert of the event that child c takes.
Begin(c, row, clip, note) ==
  /\ Ready(c)
  /\ Len(alerts) < MaxAlerts
  /\ alerts' = Append(alerts, [event |-> Head(consumer[c].inbox), by |-> c,
                               row |-> row, clip |-> clip, note |-> note])

\* _process_detection_event: flush the row, send both tasks.
ProcessEventLater(c) ==  \* mutant: the tasks are left to be sent after the commit
  /\ Begin(c, "flushed", "unsent", "unsent")
  /\ up
  /\ Take(c, Len(alerts'))
  /\ UNCHANGED <<up, publisher, kicks, segment, faults>>
ProcessEvent(c) ==
  /\ Begin(c, "flushed", "waiting", "waiting")
  /\ up
  /\ Take(c, Len(alerts'))
  /\ UNCHANGED <<up, publisher, kicks, segment, faults>>

\* A statement or the second task fails: rolled back, on to the next event.
ProcessFails(c) ==
  /\ \/ ~up /\ Begin(c, "gone", "unsent", "unsent") /\ UNCHANGED faults
     \/ up /\ Fault /\ \E clip \in {"unsent", "waiting"} : Begin(c, "gone", clip, "unsent")
  /\ Take(c, 0)
  /\ UNCHANGED <<up, publisher, kicks, segment>>

Commit(c) ==
  /\ consumer[c].alert # 0
  /\ alerts' = [alerts EXCEPT ![consumer[c].alert].row = "there"]
  /\ consumer' = [consumer EXCEPT ![c].alert = 0]
  /\ UNCHANGED <<up, publisher, kicks, handled, segment, faults>>

CommitFails(c) ==
  /\ consumer[c].alert # 0
  /\ Fault
  /\ alerts' = RolledBack({consumer[c].alert})
  /\ consumer' = [consumer EXCEPT ![c].alert = 0]
  /\ UNCHANGED <<up, publisher, kicks, handled, segment>>

\* listen() raises on the connection that broke: the task fails, and its message is
\* acknowledged or, when that is lost with the broker's connection, delivered again.
ConsumerFails(c) ==
  /\ consumer[c].on /\ ~consumer[c].sub
  /\ consumer[c].inbox = <<>> /\ consumer[c].alert = 0
  /\ consumer' = [consumer EXCEPT ![c] = Off]
  /\ kicks' \in {kicks, MoreKicks}
  /\ UNCHANGED <<up, publisher, handled, alerts, segment, faults>>

ChildDies(c) ==
  /\ consumer[c].on
  /\ Fault
  /\ alerts' = RolledBack(Open({c}))
  /\ consumer' = [consumer EXCEPT ![c] = Off]
  /\ UNCHANGED <<up, publisher, kicks, handled, segment>>
-----------------------------------------------------------------------------
(* nvr.save_alert_clip and nvr.send_alert_notifications: any child runs them. *)

\* The row of a segment that contains the event, and its file, are there.
SaveClip(i) ==
  /\ alerts[i].clip = "waiting"
  /\ alerts[i].row = "there" /\ segment[alerts[i].event] = "indexed"
  /\ alerts' = [alerts EXCEPT ![i].clip = "saved"]
  /\ UNCHANGED <<up, publisher, workers, segment, faults>>

\* No alert or no segment is found, or FFmpeg or the transaction fails: no retry.
MissClip(i) ==
  /\ alerts[i].clip = "waiting"
  /\ \/ /\ alerts[i].row = "there" => segment[alerts[i].event] # "indexed"
        /\ UNCHANGED faults
     \/ Fault
  /\ alerts' = [alerts EXCEPT ![i].clip = "missed"]
  /\ UNCHANGED <<up, publisher, workers, segment>>

SendNotifications(i) ==
  /\ alerts[i].note = "waiting"
  /\ alerts' = [alerts EXCEPT ![i].note = "run"]
  /\ UNCHANGED <<up, publisher, workers, segment, faults>>

\* The recording task writes the row of the segment; the purge removes it.
SegmentStep(e) ==
  /\ \/ segment[e] = "open" /\ segment' = [segment EXCEPT ![e] = "indexed"]
     \/ segment[e] = "indexed" /\ segment' = [segment EXCEPT ![e] = "none"]
  /\ UNCHANGED <<up, publisher, workers, alerts, faults>>
-----------------------------------------------------------------------------
Next ==
  \/ \E s \in {"none", "open"} : Publish(s)
  \/ Send \/ SendFails \/ SendUnanswered
  \/ ProbeFails \/ ProbeResets
  \/ Outage \/ Recovery \/ Redeliver \/ SendConsumer \/ WorkerRestart
  \/ \E c \in Child : \/ Subscribe(c) \/ ProcessEvent(c) \/ ProcessFails(c)
                      \/ Commit(c) \/ CommitFails(c) \/ ConsumerFails(c) \/ ChildDies(c)
  \/ \E i \in DOMAIN alerts : SaveClip(i) \/ MissClip(i) \/ SendNotifications(i)
  \/ \E e \in Event : SegmentStep(e)

Spec == Init /\ [][Next]_vars
-----------------------------------------------------------------------------
(* Properties *)

\* No consumer handles an event after a later one, or one that was never published
\* ("FIFO order preserved", redis_publisher.py:37).
Channel == INSTANCE AlertChannel WITH Consumer <- Child
InOrder == Channel!Spec

\* An event given to publish is being sent, is in the buffer, has gone to Redis or was
\* given up in one of the two ways the buffer has; when it is full it gives up the oldest:
\* every event in it is as new as those that were dropped (redis_publisher.py:3, 29-47).
EventsAreKept ==
  /\ \A e \in 1..published :
       \/ e = call \/ e \in sent \cup overflowed \cup failed
       \/ \E i \in DOMAIN buffer : buffer[i] = e
  /\ \A e \in overflowed : \A i \in DOMAIN buffer : e <= buffer[i]

\* An event that was never in the buffer leads to at most one alert per consumer
\* (redis_publisher.py:41, alert_consumer.py:58-77).
UnbufferedOnce ==
  \A i, j \in DOMAIN alerts :
    alerts[i].event = alerts[j].event /\ alerts[i].by = alerts[j].by /\ i # j =>
      alerts[i].event \in buffered

\* An alert that others can see has been followed up: both of its tasks have been sent,
\* whatever happened to the consumer (alert_consumer.py:118-121).
AlertsAreFollowedUp ==
  \A i \in DOMAIN alerts :
    alerts[i].row = "there" => alerts[i].clip # "unsent" /\ alerts[i].note # "unsent"

\* A worker that has started has sent for a consumer ("Send consume_alerts task when the
\* worker is fully initialised", celery_app.py:46).
WorkerReadyKicks == [][WorkerRestart => kicks' > 0]_vars
=============================================================================
