----------------------------- MODULE Notifications -----------------------------
(***************************************************************************)
(* The notifications about one alert: the task that tells the channels of  *)
(* its rule, one after the other, with retries, while rules and channels   *)
(* are edited.                                                             *)
(*                                                                         *)
(* The consumer sends the task before it commits the alert.  The task      *)
(* loads alert, rule and channels when it starts.                          *)
(***************************************************************************)
EXTENDS Integers

CONSTANTS
  Rule,         \* alert rules
  Channel,      \* notification channels
  MaxAttempts,  \* max_attempts of _retry (3)
  MaxTrouble,   \* bound: answers lost, workers lost
  None

VARIABLES
  enabled,   \* rules that are there and enabled
  names,     \* notification_channels of each rule
  channel,   \* the rows of notification_channels
  alert,     \* the alert: its row and its rule
  task,      \* the task nvr.send_alert_notifications
  told,      \* how often each channel got the message
  given,     \* history: the channels the task has given up
  trouble    \* answers lost, workers lost

vars == <<enabled, names, channel, alert, task, told, given, trouble>>

(* A channel is on, off, not there, or on with a configuration that names  *)
(* no recipient ("mute"), with which the sending functions return.         *)
ChannelState == {"on", "off", "mute"}

(* `aim` are the enabled channels the task has loaded, `mute` those of     *)
(* them with nobody to tell, `todo` those it has not come to the end of.   *)
NoTask == [state |-> "unsent", aim |-> {}, mute |-> {}, todo |-> {}, now |-> None, failures |-> 0]

TypeOK ==
  /\ enabled \subseteq Rule
  /\ names \in [Rule -> SUBSET Channel]
  /\ channel \in [Channel -> ChannelState \cup {"absent"}]
  /\ alert \in [row : {"none", "flushed", "there", "gone"}, rule : Rule \cup {None}]
  /\ task.state \in {"unsent", "waiting", "running", "done", "missed", "lost"}
  /\ {task.mute, task.todo} \subseteq SUBSET task.aim /\ task.aim \subseteq Channel
  /\ task.now \in task.todo \cup {None}
  /\ task.failures \in 0..(MaxAttempts - 1)
  /\ told \in [Channel -> Nat]
  /\ given \subseteq task.aim
  /\ trouble \in 0..MaxTrouble

Init ==
  /\ enabled = {}
  /\ names = [i \in Rule |-> {}]
  /\ channel = [c \in Channel |-> "absent"]
  /\ alert = [row |-> "none", rule |-> None]
  /\ task = NoTask
  /\ told = [c \in Channel |-> 0]
  /\ given = {}
  /\ trouble = 0

(***************************************************************************)
(* Rules and channels                                                      *)
(***************************************************************************)

(* Created, changed, enabled or disabled, or deleted; a rule that an alert *)
(* refers to cannot be deleted, but it may be disabled.  A rule may name   *)
(* channels that are not there.                                            *)
EditRule(i) ==
  /\ \/ \E N \in SUBSET Channel : names' = [names EXCEPT ![i] = N] /\ UNCHANGED enabled
     \/ enabled' \in {enabled \cup {i}, enabled \ {i}} /\ UNCHANGED names
  /\ UNCHANGED <<channel, alert, task, told, given, trouble>>

EditChannel(c, state) ==
  /\ channel' = [channel EXCEPT ![c] = state]
  /\ UNCHANGED <<enabled, names, alert, task, told, given, trouble>>

CreateChannel(c) == channel[c] = "absent" /\ \E s \in ChannelState : EditChannel(c, s)
UpdateChannel(c) == channel[c] # "absent" /\ \E s \in ChannelState : EditChannel(c, s)
DeleteChannel(c) == channel[c] # "absent" /\ EditChannel(c, "absent")

(***************************************************************************)
(* The alert                                                               *)
(***************************************************************************)

(* Which of the enabled rules comes first depends on the camera and the    *)
(* type of the event; its schedule is not looked at.                       *)
MatchingRule == enabled \cup {None}

CreateAlert ==
  /\ alert.row = "none"
  /\ \E i \in MatchingRule : alert' = [row |-> "flushed", rule |-> i]
  /\ task' = [task EXCEPT !.state = "waiting"]
  /\ UNCHANGED <<enabled, names, channel, told, given, trouble>>

AlertEnds ==
  /\ alert.row = "flushed"
  /\ alert' \in {[alert EXCEPT !.row = r] : r \in {"there", "gone"}}
  /\ UNCHANGED <<enabled, names, channel, task, told, given, trouble>>

(***************************************************************************)
(* The task                                                                *)
(***************************************************************************)

(* The task comes before the commit, or the alert was rolled back. *)
StartMissed ==
  /\ task.state = "waiting" /\ alert.row # "there"
  /\ task' = [task EXCEPT !.state = "missed"]
  /\ UNCHANGED <<enabled, names, channel, alert, told, given, trouble>>

Named == IF alert.rule = None THEN {} ELSE names[alert.rule]

Start ==
  /\ task.state = "waiting" /\ alert.row = "there"
  /\ LET aim  == {c \in Named : channel[c] \in {"on", "mute"}}
     IN  task' = [state |-> "running", aim |-> aim, todo |-> aim, now |-> None, failures |-> 0,
                  mute |-> {c \in aim : channel[c] = "mute"}]
  /\ given' = {}
  /\ UNCHANGED <<enabled, names, channel, alert, told, trouble>>

NextChannel(c) ==
  /\ task.state = "running" /\ task.now = None /\ c \in task.todo
  /\ task' = [task EXCEPT !.now = c, !.failures = 0]
  /\ UNCHANGED <<enabled, names, channel, alert, told, given, trouble>>

Trouble == trouble < MaxTrouble /\ trouble' = trouble + 1

Done(c) == [task EXCEPT !.now = None, !.todo = @ \ {c}]

(* One call of send_email, send_webhook, ... that succeeds. *)
Sent(c) ==
  /\ task.now = c /\ c \notin task.mute
  /\ told' = [told EXCEPT ![c] = @ + 1]
  /\ task' = Done(c)
  /\ UNCHANGED <<enabled, names, channel, alert, given, trouble>>

NothingToSend(c) ==
  /\ task.now = c /\ c \in task.mute
  /\ task' = Done(c)
  /\ UNCHANGED <<enabled, names, channel, alert, told, given, trouble>>

OneMoreAttempt == task.failures = MaxAttempts

LastAttempt == task.failures + 1 = MaxAttempts

FailedEndsAll(c) == IF LastAttempt THEN [task EXCEPT !.now = None, !.todo = {}]
                                   ELSE [task EXCEPT !.failures = @ + 1]

(* After the last attempt the exception is logged and the next channel has *)
(* its turn.                                                               *)
Failed(c) == IF LastAttempt THEN Done(c) ELSE [task EXCEPT !.failures = @ + 1]

(* The call raises: nothing was sent, or it was and the answer got lost. *)
AttemptFails(c) ==
  /\ task.now = c /\ c \notin task.mute
  /\ \/ UNCHANGED <<told, trouble>>
     \/ Trouble /\ told' = [told EXCEPT ![c] = @ + 1]
  /\ task' = Failed(c)
  /\ given' = IF LastAttempt THEN given \cup {c} ELSE given
  /\ UNCHANGED <<enabled, names, channel, alert>>

Finish ==
  /\ task.state = "running" /\ task.todo = {}
  /\ task' = [task EXCEPT !.state = "done"]
  /\ UNCHANGED <<enabled, names, channel, alert, told, given, trouble>>

(* A child that dies loses the task; a worker that stops has not           *)
(* acknowledged it, and it is delivered again.                             *)
WorkerLost ==
  /\ task.state = "running"
  /\ Trouble
  /\ \E s \in {"lost", "waiting"} : task' = [NoTask EXCEPT !.state = s]
  /\ given' = {}
  /\ UNCHANGED <<enabled, names, channel, alert, told>>

(***************************************************************************)
(* Specification                                                           *)
(***************************************************************************)

Next ==
  \/ \E i \in Rule : EditRule(i)
  \/ \E c \in Channel :
       \/ CreateChannel(c) \/ UpdateChannel(c) \/ DeleteChannel(c)
       \/ NextChannel(c) \/ Sent(c) \/ NothingToSend(c) \/ AttemptFails(c)
  \/ CreateAlert \/ AlertEnds \/ StartMissed \/ Start \/ Finish \/ WorkerLost

Spec == Init /\ [][Next]_vars

(***************************************************************************)
(* Properties                                                              *)
(***************************************************************************)

(* A task that has run to its end has told every channel it loaded, but    *)
(* those with nobody to tell and those that failed as often as it tries:   *)
(* neither the failure of another channel nor an edit meanwhile keeps a    *)
(* channel from being told.  And a channel is told twice only after an     *)
(* answer or a worker was lost (send_alert_notifications, _retry).         *)
ChannelsAreTold ==
  /\ task.state = "done" =>
       \A c \in task.aim \ task.mute : told[c] > 0 \/ c \in given
  /\ \A c \in Channel : told[c] <= 1 + trouble

=============================================================================
