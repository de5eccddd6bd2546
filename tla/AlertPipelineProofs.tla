------------------------- MODULE AlertPipelineProofs -------------------------
(***************************************************************************)
(* Proofs about AlertPipeline, for every set of children, every size of    *)
(* the buffer and every bound: types, what the publisher does with events, *)
(* what becomes of alerts, and the order of events, which is the           *)
(* implementation of AlertChannel.                                         *)
(***************************************************************************)
EXTENDS AlertPipeline, SequenceTheorems, TLAPS

-----------------------------------------------------------------------------
(* Types *)

\* What the type invariant says of the buffer and of the event under way.
LEMMA Typing ==
  ASSUME TypeOK
  PROVE  /\ MaxBuffer \in Nat \ {0} /\ MaxEvents \in Nat /\ MaxAlerts \in Nat
         /\ MaxKicks \in Nat \ {0} /\ MaxFaults \in Nat
         /\ Len(buffer) \in Nat /\ DOMAIN buffer = 1..Len(buffer)
         /\ \A i \in DOMAIN buffer : buffer[i] \in Event
         /\ call # 0 => call \in Event
         /\ published \in Nat
<1>1. Len(buffer) \in Nat /\ DOMAIN buffer = 1..Len(buffer)
  BY LenProperties DEF TypeOK
<1>2. \A i \in DOMAIN buffer : buffer[i] \in Event
  BY <1>1, ElementOfSeq DEF TypeOK
<1>3. MaxBuffer \in Nat \ {0} /\ MaxEvents \in Nat /\ MaxAlerts \in Nat
      /\ MaxKicks \in Nat \ {0} /\ MaxFaults \in Nat
  BY ConstantsOK
<1> QED
  BY <1>1, <1>2, <1>3 DEF TypeOK, Event

\* The event that is sent next, and what is left of the buffer then.
LEMMA RestShape ==
  ASSUME TypeOK, call # 0
  PROVE  /\ Sending \in Event
         /\ Rest \in Seq(Event) /\ Len(Rest) \in Nat /\ Len(Rest) < MaxBuffer
         /\ DOMAIN Rest = 1..Len(Rest)
         /\ Len(buffer) = 0 => buffer = <<>> /\ Sending = call /\ Len(Rest) = 0
         /\ Len(buffer) # 0 => /\ buffer # <<>> /\ 1 \in DOMAIN buffer /\ Sending = buffer[1]
                               /\ Len(Rest) = Len(buffer) - 1
         /\ \A i \in 1..Len(Rest) : i + 1 \in DOMAIN buffer /\ Rest[i] = buffer[i + 1]
<1>1. CASE buffer = <<>>
  <2>1. Rest = <<>> /\ Sending = call
    BY <1>1 DEF Rest, Sending
  <2>2. <<>> \in Seq(Event) /\ Len(<<>>) = 0 /\ DOMAIN <<>> = 1..0
    BY EmptySeq
  <2> QED
    BY <1>1, <2>1, <2>2, Typing
<1>2. CASE buffer # <<>>
  <2>1. Rest = Tail(buffer) /\ Sending = Head(buffer) /\ buffer \in Seq(Event)
    BY <1>2 DEF Rest, Sending, TypeOK
  <2>2. /\ Head(buffer) \in Event /\ Tail(buffer) \in Seq(Event)
        /\ Len(Tail(buffer)) = Len(buffer) - 1
        /\ \A i \in 1..Len(Tail(buffer)) : Tail(buffer)[i] = buffer[i + 1]
    BY <1>2, <2>1, HeadTailProperties
  <2>3. Len(buffer) \in Nat \ {0}
    BY <1>2, <2>1, EmptySeq
  <2>4. Head(buffer) = buffer[1]
    BY <1>2, <2>1
  <2>5. DOMAIN Rest = 1..Len(Rest)
    BY <2>1, <2>2, LenProperties
  <2>6. Len(buffer) <= MaxBuffer
    BY DEF TypeOK
  <2> QED
    BY <1>2, <2>1, <2>2, <2>3, <2>4, <2>5, <2>6, Typing
<1> QED
  BY <1>1, <1>2

\* What an event pushed to the buffer leaves there: it comes last, the others move by
\* d places, and d is 1 when the oldest had to go.
LEMMA PushShape ==
  ASSUME NEW b \in Seq(Event), Len(b) <= MaxBuffer, NEW e \in Event, Push(b, e)
  PROVE  /\ buffer' \in Seq(Event) /\ Len(buffer') \in Nat \ {0} /\ Len(buffer') <= MaxBuffer
         /\ DOMAIN buffer' = 1..Len(buffer')
         /\ buffer'[Len(buffer')] = e
         /\ buffered' = buffered \cup {e}
         /\ \E d \in {0, 1} :
              /\ Len(buffer') = Len(b) + 1 - d
              /\ \A i \in 1..(Len(buffer') - 1) : buffer'[i] = b[i + d]
              /\ overflowed' = IF d = 1 THEN overflowed \cup {b[1]} ELSE overflowed
              /\ d = 1 => Len(b) > 0
<1>0. Len(b) \in Nat /\ MaxBuffer \in Nat /\ MaxBuffer > 0 /\ buffered' = buffered \cup {e}
  BY ConstantsOK, LenProperties DEF Push
<1>1. CASE Len(b) = MaxBuffer
  <2>1. b # <<>>
    BY <1>0, <1>1, EmptySeq
  <2>2. buffer' = Append(Tail(b), e) /\ overflowed' = overflowed \cup {Head(b)}
    BY <1>1 DEF Push
  <2>3. /\ Tail(b) \in Seq(Event) /\ Len(Tail(b)) = Len(b) - 1
        /\ \A i \in 1..Len(Tail(b)) : Tail(b)[i] = b[i + 1]
    BY <2>1, HeadTailProperties
  <2>4. Head(b) = b[1]
    BY <2>1
  <2>5. /\ buffer' \in Seq(Event) /\ Len(buffer') = Len(Tail(b)) + 1
        /\ \A i \in 1..Len(Tail(b)) : buffer'[i] = Tail(b)[i]
        /\ buffer'[Len(Tail(b)) + 1] = e
    BY <2>2, <2>3, AppendProperties
  <2>6. DOMAIN buffer' = 1..Len(buffer')
    BY <2>5, LenProperties
  <2>7. /\ Len(buffer') = Len(b) + 1 - 1 /\ Len(b) > 0
        /\ \A i \in 1..(Len(buffer') - 1) : buffer'[i] = b[i + 1]
        /\ overflowed' = overflowed \cup {b[1]}
    BY <1>0, <1>1, <2>2, <2>3, <2>4, <2>5
  <2> QED
    BY <1>0, <1>1, <2>3, <2>5, <2>6, <2>7
<1>2. CASE Len(b) # MaxBuffer
  <2>1. buffer' = Append(b, e) /\ overflowed' = overflowed
    BY <1>2 DEF Push
  <2>2. /\ buffer' \in Seq(Event) /\ Len(buffer') = Len(b) + 1
        /\ \A i \in 1..Len(b) : buffer'[i] = b[i]
        /\ buffer'[Len(b) + 1] = e
    BY <2>1, AppendProperties
  <2>3. DOMAIN buffer' = 1..Len(buffer')
    BY <2>2, LenProperties
  <2>4. /\ Len(buffer') = Len(b) + 1 - 0
        /\ \A i \in 1..(Len(buffer') - 1) : buffer'[i] = b[i + 0]
    BY <1>0, <2>2
  <2> QED
    BY <1>0, <1>2, <2>1, <2>2, <2>3, <2>4
<1> QED
  BY <1>1, <1>2

\* Redis adds an event to the inboxes of those who are subscribed.
LEMMA DeliverTypes ==
  ASSUME TypeOK, NEW e \in Event, Deliver(e)
  PROVE  /\ consumer' \in [Child -> Consumer]
         /\ sent' = sent \cup {e}
         /\ \A c \in Child :
              /\ consumer'[c].on = consumer[c].on /\ consumer'[c].sub = consumer[c].sub
              /\ consumer'[c].alert = consumer[c].alert
              /\ consumer'[c].inbox = consumer[c].inbox
                   \/ consumer'[c].inbox = Append(consumer[c].inbox, e)
<1>1. ASSUME NEW c \in Child
      PROVE  /\ consumer[c] \in Consumer
             /\ [consumer[c] EXCEPT !.inbox = Append(@, e)] \in Consumer
  <2>1. consumer[c] \in Consumer
    BY DEF TypeOK
  <2>2. consumer[c].inbox \in Seq(Event)
    BY <2>1 DEF Consumer
  <2>3. Append(consumer[c].inbox, e) \in Seq(Event)
    BY <2>2, AppendProperties
  <2> QED
    BY <2>1, <2>3 DEF Consumer
<1>2. consumer' \in [Child -> Consumer]
  BY <1>1 DEF Deliver
<1>3. ASSUME NEW c \in Child
      PROVE  /\ consumer'[c].on = consumer[c].on /\ consumer'[c].sub = consumer[c].sub
             /\ consumer'[c].alert = consumer[c].alert
             /\ consumer'[c].inbox = consumer[c].inbox
                  \/ consumer'[c].inbox = Append(consumer[c].inbox, e)
  <2>1. consumer'[c] = IF consumer[c].sub THEN [consumer[c] EXCEPT !.inbox = Append(@, e)]
                       ELSE consumer[c]
    BY DEF Deliver
  <2>2. CASE consumer[c].sub
    <3>1. consumer'[c] = [consumer[c] EXCEPT !.inbox = Append(@, e)] /\ consumer[c] \in Consumer
      BY <1>1, <2>1, <2>2
    <3> QED
      BY <3>1 DEF Consumer
  <2> QED
    BY <2>1, <2>2
<1> QED
  BY <1>2, <1>3 DEF Deliver

\* The alerts begun so far.
LEMMA AlertRows ==
  ASSUME TypeOK
  PROVE  /\ Len(alerts) \in Nat /\ DOMAIN alerts = 1..Len(alerts)
         /\ \A i \in DOMAIN alerts : alerts[i] \in Alert
         /\ Len(alerts) <= MaxAlerts
<1>1. Len(alerts) \in Nat /\ DOMAIN alerts = 1..Len(alerts)
  BY LenProperties DEF TypeOK
<1> QED
  BY <1>1, ElementOfSeq DEF TypeOK

\* A lost transaction changes only the row of its alert.
LEMMA RolledBackShape ==
  ASSUME TypeOK, NEW S
  PROVE  /\ RolledBack(S) \in Seq(Alert) /\ Len(RolledBack(S)) = Len(alerts)
         /\ DOMAIN RolledBack(S) = DOMAIN alerts
         /\ \A i \in DOMAIN alerts :
              /\ RolledBack(S)[i].event = alerts[i].event /\ RolledBack(S)[i].by = alerts[i].by
              /\ RolledBack(S)[i].clip = alerts[i].clip /\ RolledBack(S)[i].note = alerts[i].note
              /\ RolledBack(S)[i].row = "gone" \/ RolledBack(S)[i] = alerts[i]
<1>1. ASSUME NEW i \in DOMAIN alerts
      PROVE  /\ RolledBack(S)[i] \in Alert
             /\ RolledBack(S)[i].event = alerts[i].event /\ RolledBack(S)[i].by = alerts[i].by
             /\ RolledBack(S)[i].clip = alerts[i].clip /\ RolledBack(S)[i].note = alerts[i].note
             /\ RolledBack(S)[i].row = "gone" \/ RolledBack(S)[i] = alerts[i]
  <2>1. alerts[i] \in Alert
    BY AlertRows
  <2>2. RolledBack(S)[i] = IF i \in S THEN [alerts[i] EXCEPT !.row = "gone"] ELSE alerts[i]
    BY DEF RolledBack
  <2> QED
    BY <2>1, <2>2 DEF Alert
<1>2. RolledBack(S) = [i \in 1..Len(alerts) |-> RolledBack(S)[i]]
      /\ DOMAIN RolledBack(S) = 1..Len(alerts)
  BY AlertRows DEF RolledBack
<1>3. RolledBack(S) \in [1..Len(alerts) -> Alert]
  BY <1>1, <1>2, AlertRows
<1>4. RolledBack(S) \in Seq(Alert)
  BY <1>3, AlertRows, SeqDef
<1>5. Len(RolledBack(S)) = Len(alerts)
  BY <1>2, <1>4, AlertRows, LenProperties
<1> QED
  BY <1>1, <1>2, <1>4, <1>5, AlertRows

\* An alert whose fields change is an alert, and the others stay as they are.
LEMMA AlertChanged ==
  ASSUME TypeOK, NEW i \in DOMAIN alerts, NEW a \in Alert, alerts' = [alerts EXCEPT ![i] = a]
  PROVE  /\ alerts' \in Seq(Alert) /\ Len(alerts') = Len(alerts)
         /\ DOMAIN alerts' = DOMAIN alerts
         /\ alerts'[i] = a
         /\ \A j \in DOMAIN alerts : j # i => alerts'[j] = alerts[j]
<1>1. alerts \in Seq(Alert) /\ i \in 1..Len(alerts)
  BY AlertRows DEF TypeOK
<1>2. alerts' \in Seq(Alert) /\ Len(alerts') = Len(alerts)
  BY <1>1, ExceptSeq
<1> QED
  BY <1>1, <1>2

\* A consumer that is ready has an event to take.
LEMMA TakeShape ==
  ASSUME TypeOK, NEW c \in Child, Ready(c), NEW a \in 0..MaxAlerts, Take(c, a)
  PROVE  LET old == consumer[c].inbox
             new == consumer'[c].inbox
         IN  /\ consumer' \in [Child -> Consumer] /\ handled' \in [Child -> 0..MaxEvents]
             /\ old \in Seq(Event) /\ Len(old) \in Nat \ {0} /\ Head(old) = old[1]
             /\ Head(old) \in Event /\ handled'[c] = Head(old) /\ consumer'[c].alert = a
             /\ new \in Seq(Event) /\ Len(new) = Len(old) - 1
             /\ \A i \in 1..Len(new) : new[i] = old[i + 1]
             /\ \A d \in Child : d # c => consumer'[d] = consumer[d] /\ handled'[d] = handled[d]
             /\ handled' = [handled EXCEPT ![c] = Head(old)]
<1> DEFINE old == consumer[c].inbox
<1>1. consumer[c] \in Consumer /\ old \in Seq(Event) /\ old # <<>>
  BY DEF TypeOK, Ready, Consumer
<1>2. /\ Head(old) \in Event /\ Tail(old) \in Seq(Event) /\ Len(Tail(old)) = Len(old) - 1
      /\ \A i \in 1..Len(Tail(old)) : Tail(old)[i] = old[i + 1]
  BY <1>1, HeadTailProperties
<1>3. Len(old) \in Nat \ {0} /\ Head(old) = old[1]
  BY <1>1, EmptySeq
<1>4. consumer' = [consumer EXCEPT ![c] = [consumer[c] EXCEPT !.inbox = Tail(old), !.alert = a]]
  BY DEF Take, TypeOK
<1>5. [consumer[c] EXCEPT !.inbox = Tail(old), !.alert = a] \in Consumer
  BY <1>1, <1>2 DEF Consumer
<1>6. consumer' \in [Child -> Consumer] /\ consumer'[c].inbox = Tail(old) /\ consumer'[c].alert = a
      /\ \A d \in Child : d # c => consumer'[d] = consumer[d]
  BY <1>1, <1>4, <1>5 DEF TypeOK, Consumer
<1>7. handled' \in [Child -> 0..MaxEvents] /\ handled'[c] = Head(old)
      /\ handled' = [handled EXCEPT ![c] = Head(old)]
      /\ \A d \in Child : d # c => handled'[d] = handled[d]
  BY <1>2 DEF Take, TypeOK, Event
<1> QED
  BY <1>1, <1>2, <1>3, <1>6, <1>7

\* A new alert comes behind the others.
LEMMA BeginShape ==
  ASSUME TypeOK, NEW c \in Child,
         NEW row \in {"flushed", "there", "gone"},
         NEW clip \in {"unsent", "waiting", "saved", "missed"},
         NEW note \in {"unsent", "waiting", "run"},
         Begin(c, row, clip, note)
  PROVE  /\ alerts' \in Seq(Alert) /\ Len(alerts') = Len(alerts) + 1 /\ Len(alerts') <= MaxAlerts
         /\ DOMAIN alerts' = 1..Len(alerts')
         /\ \A i \in DOMAIN alerts : alerts'[i] = alerts[i]
         /\ alerts'[Len(alerts')] = [event |-> Head(consumer[c].inbox), by |-> c,
                                     row |-> row, clip |-> clip, note |-> note]
         /\ alerts'[Len(alerts')].event = Head(consumer[c].inbox) /\ alerts'[Len(alerts')].by = c
         /\ Ready(c) /\ Head(consumer[c].inbox) \in Event
<1> DEFINE a == [event |-> Head(consumer[c].inbox), by |-> c,
                 row |-> row, clip |-> clip, note |-> note]
<1>1. Ready(c) /\ Len(alerts) < MaxAlerts /\ alerts' = Append(alerts, a)
  BY DEF Begin
<1>2. consumer[c].inbox \in Seq(Event) /\ consumer[c].inbox # <<>>
  BY <1>1 DEF TypeOK, Ready, Consumer
<1>3. Head(consumer[c].inbox) \in Event
  BY <1>2, HeadTailProperties
<1>4. a \in Alert
  BY <1>3 DEF Alert
<1>5. alerts \in Seq(Alert)
  BY DEF TypeOK
<1> HIDE DEF a
<1>6. /\ alerts' \in Seq(Alert) /\ Len(alerts') = Len(alerts) + 1
      /\ \A i \in 1..Len(alerts) : alerts'[i] = alerts[i]
      /\ alerts'[Len(alerts) + 1] = a
  BY <1>1, <1>4, <1>5, AppendProperties
<1>7. DOMAIN alerts' = 1..Len(alerts')
  BY <1>6, LenProperties
<1>8. Len(alerts') <= MaxAlerts
  BY <1>1, <1>6, AlertRows, Typing
<1> QED
  BY <1>1, <1>3, <1>6, <1>7, <1>8, AlertRows DEF a

\* A failed send leaves types as they are.
LEMMA FailureTypes ==
  ASSUME TypeOK, call # 0, HandleFailure
  PROVE  /\ up' \in BOOLEAN /\ connected' \in BOOLEAN /\ probe' \in BOOLEAN
         /\ buffer' \in Seq(Event) /\ Len(buffer') <= MaxBuffer /\ call' \in 0..MaxEvents
         /\ {buffered', overflowed', failed'} \subseteq SUBSET Event
<1>1. /\ Rest \in Seq(Event) /\ Len(Rest) \in Nat /\ Len(Rest) < MaxBuffer
      /\ \A i \in 1..Len(Rest) : Rest[i] \in Event
  <2>1. Rest \in Seq(Event) /\ Len(Rest) \in Nat /\ Len(Rest) < MaxBuffer
    BY RestShape
  <2> QED
    BY <2>1, RestShape, ElementOfSeq
<1>2. call \in Event /\ Push(Rest, call)
  BY Typing DEF HandleFailure
<1>3. Len(Rest) <= MaxBuffer
  BY <1>1, Typing
<1>4. /\ buffer' \in Seq(Event) /\ Len(buffer') <= MaxBuffer
      /\ buffered' = buffered \cup {call}
      /\ \E d \in {0, 1} : /\ overflowed' = IF d = 1 THEN overflowed \cup {Rest[1]} ELSE overflowed
                           /\ d = 1 => Len(Rest) > 0
  BY <1>1, <1>2, <1>3, PushShape
<1>5. overflowed' \subseteq Event
  BY <1>1, <1>4 DEF TypeOK
<1>6. failed' \subseteq Event
  BY <1>1, RestShape DEF HandleFailure, TypeOK, Sending
<1> QED
  BY <1>2, <1>4, <1>5, <1>6, Typing DEF HandleFailure, TypeOK

\* Every step keeps the types.
LEMMA TypeStep == TypeOK /\ [Next]_vars => TypeOK'
<1> SUFFICES ASSUME TypeOK, [Next]_vars PROVE TypeOK'
  OBVIOUS
<1>0. MaxBuffer \in Nat /\ MaxEvents \in Nat /\ MaxAlerts \in Nat /\ MaxKicks \in Nat
      /\ MaxFaults \in Nat /\ Off \in Consumer /\ <<>> \in Seq(Event)
  BY Typing, EmptySeq DEF Off, Consumer
<1>f. Fault => faults' \in 0..MaxFaults
  BY <1>0 DEF Fault, TypeOK
<1>1. ASSUME NEW s \in {"none", "open"}, Publish(s) PROVE TypeOK'
  <2>1. published + 1 \in Event /\ published' = published + 1
    BY <1>0, <1>1 DEF Publish, TypeOK, Event
  <2>2. segment' \in [Event -> Segment]
    BY <1>1, <2>1 DEF Publish, TypeOK, Segment
  <2>3. CASE connected
    <3>1. call' = published + 1 /\ UNCHANGED <<connected, buffer, buffered, overflowed>>
      BY <1>1, <2>3 DEF Publish
    <3> QED
      BY <1>0, <1>1, <2>1, <2>2, <3>1 DEF Publish, TypeOK, workers, Event
  <2>4. CASE ~connected
    <3>1. Push(buffer, published + 1) /\ connected' = up /\ call' \in {0, published + 1}
      BY <1>1, <2>4 DEF Publish
    <3>2. buffer \in Seq(Event) /\ Len(buffer) <= MaxBuffer
      BY DEF TypeOK
    <3>3. /\ buffer' \in Seq(Event) /\ Len(buffer') <= MaxBuffer
          /\ buffered' = buffered \cup {published + 1}
          /\ \E d \in {0, 1} :
               /\ overflowed' = IF d = 1 THEN overflowed \cup {buffer[1]} ELSE overflowed
               /\ d = 1 => Len(buffer) > 0
      BY <2>1, <3>1, <3>2, PushShape
    <3>4. overflowed' \subseteq Event
      BY <3>3, Typing DEF TypeOK
    <3> QED
      BY <1>0, <1>1, <2>1, <2>2, <3>1, <3>3, <3>4 DEF Publish, TypeOK, workers, Event
  <2> QED
    BY <2>3, <2>4
<1>2. CASE Send
  <2>1. Sending \in Event /\ Rest \in Seq(Event) /\ Len(Rest) <= MaxBuffer
    BY <1>0, <1>2, RestShape DEF Send
  <2>2. consumer' \in [Child -> Consumer] /\ sent' = sent \cup {Sending}
    BY <1>2, <2>1, DeliverTypes DEF Send
  <2> QED
    BY <1>0, <1>2, <2>1, <2>2 DEF Send, TypeOK
<1>3. CASE SendFails
  BY <1>3, FailureTypes DEF SendFails, HandleFailure, TypeOK
<1>4. CASE SendUnanswered
  <2>1. Sending \in Event /\ call # 0
    BY <1>4, RestShape DEF SendUnanswered
  <2>2. consumer' \in [Child -> Consumer] /\ sent' = sent \cup {Sending}
    BY <1>4, <2>1, DeliverTypes DEF SendUnanswered
  <2> QED
    BY <1>4, <1>f, <2>1, <2>2, FailureTypes DEF SendUnanswered, HandleFailure, TypeOK
<1>5. CASE ProbeFails
  BY <1>5 DEF ProbeFails, workers, TypeOK
<1>6. CASE ProbeResets
  BY <1>6 DEF ProbeResets, workers, TypeOK
<1>7. CASE Outage
  <2>1. \A c \in Child : [consumer[c] EXCEPT !.sub = FALSE] \in Consumer
    BY DEF TypeOK, Consumer
  <2> QED
    BY <1>7, <1>f, <2>1 DEF Outage, publisher, TypeOK
<1>8. CASE Recovery
  BY <1>8 DEF Recovery, publisher, workers, TypeOK
<1>9. CASE Redeliver \/ SendConsumer
  BY <1>0, <1>9 DEF Redeliver, SendConsumer, publisher, TypeOK
<1>10. CASE WorkerRestart
  <2>1. kicks' \in 0..MaxKicks
    BY <1>0, <1>10 DEF WorkerRestart, MoreKicks, TypeOK
  <2>2. alerts' \in Seq(Alert) /\ Len(alerts') <= MaxAlerts
    BY <1>10, RolledBackShape, AlertRows DEF WorkerRestart
  <2> QED
    BY <1>0, <1>10, <1>f, <2>1, <2>2 DEF WorkerRestart, publisher, TypeOK
<1>11. ASSUME NEW c \in Child, Subscribe(c) PROVE TypeOK'
  <2>1. [Off EXCEPT !.on = TRUE, !.sub = TRUE] \in Consumer
    BY <1>0 DEF Consumer
  <2> QED
    BY <1>0, <1>11, <2>1 DEF Subscribe, publisher, TypeOK
<1>12. ASSUME NEW c \in Child, ProcessEvent(c) PROVE TypeOK'
  <2>1. /\ alerts' \in Seq(Alert) /\ Len(alerts') <= MaxAlerts /\ Len(alerts') \in 0..MaxAlerts
        /\ Ready(c)
    <3>1. Begin(c, "flushed", "waiting", "waiting")
      BY <1>12 DEF ProcessEvent
    <3>2. "flushed" \in {"flushed", "there", "gone"} /\ "waiting" \in {"unsent", "waiting", "run"}
          /\ "waiting" \in {"unsent", "waiting", "saved", "missed"}
      OBVIOUS
    <3>3. /\ alerts' \in Seq(Alert) /\ Len(alerts') = Len(alerts) + 1 /\ Len(alerts') <= MaxAlerts
          /\ Ready(c)
      BY <3>1, <3>2, BeginShape
    <3> QED
      BY <1>0, <3>3, AlertRows
  <2>2. consumer' \in [Child -> Consumer] /\ handled' \in [Child -> 0..MaxEvents]
    BY <1>12, <2>1, TakeShape DEF ProcessEvent
  <2> QED
    BY <1>12, <2>1, <2>2 DEF ProcessEvent, publisher, TypeOK
<1>13. ASSUME NEW c \in Child, ProcessFails(c) PROVE TypeOK'
  <2>1. PICK clip \in {"unsent", "waiting"} : Begin(c, "gone", clip, "unsent")
    BY <1>13 DEF ProcessFails
  <2>2. alerts' \in Seq(Alert) /\ Len(alerts') <= MaxAlerts /\ Ready(c)
    BY <2>1, BeginShape
  <2>3. consumer' \in [Child -> Consumer] /\ handled' \in [Child -> 0..MaxEvents]
    BY <1>0, <1>13, <2>2, TakeShape DEF ProcessFails
  <2>4. faults' \in 0..MaxFaults
    BY <1>13, <1>f DEF ProcessFails, TypeOK
  <2> QED
    BY <1>13, <2>2, <2>3, <2>4 DEF ProcessFails, publisher, TypeOK
<1>14. ASSUME NEW c \in Child, Commit(c) PROVE TypeOK'
  <2>1. [consumer[c] EXCEPT !.alert = 0] \in Consumer
    <3>1. consumer[c] \in Consumer /\ 0 \in 0..MaxAlerts
      BY <1>0 DEF TypeOK
    <3> QED
      BY <3>1 DEF Consumer
  <2>2. alerts' \in Seq(Alert) /\ Len(alerts') = Len(alerts)
    <3> DEFINE i == consumer[c].alert
    <3>1. CASE i \in DOMAIN alerts
      <4>1. [alerts[i] EXCEPT !.row = "there"] \in Alert
        BY <3>1, AlertRows DEF Alert
      <4>2. alerts' = [alerts EXCEPT ![i] = [alerts[i] EXCEPT !.row = "there"]]
        BY <1>14 DEF Commit
      <4> QED
        BY <3>1, <4>1, <4>2, AlertChanged
    <3>2. CASE i \notin DOMAIN alerts
      <4>1. alerts' = alerts
        BY <1>14, <3>2 DEF Commit, TypeOK
      <4> QED
        BY <4>1 DEF TypeOK
    <3> QED
      BY <3>1, <3>2
  <2> QED
    BY <1>14, <2>1, <2>2 DEF Commit, publisher, TypeOK
<1>15. ASSUME NEW c \in Child, CommitFails(c) PROVE TypeOK'
  <2>1. [consumer[c] EXCEPT !.alert = 0] \in Consumer
    <3>1. consumer[c] \in Consumer /\ 0 \in 0..MaxAlerts
      BY <1>0 DEF TypeOK
    <3> QED
      BY <3>1 DEF Consumer
  <2>2. alerts' \in Seq(Alert) /\ Len(alerts') <= MaxAlerts
    BY <1>15, RolledBackShape, AlertRows DEF CommitFails
  <2> QED
    BY <1>15, <1>f, <2>1, <2>2 DEF CommitFails, publisher, TypeOK
<1>16. ASSUME NEW c \in Child, ConsumerFails(c) PROVE TypeOK'
  BY <1>0, <1>16 DEF ConsumerFails, MoreKicks, publisher, TypeOK
<1>17. ASSUME NEW c \in Child, ChildDies(c) PROVE TypeOK'
  <2>1. alerts' \in Seq(Alert) /\ Len(alerts') <= MaxAlerts
    BY <1>17, RolledBackShape, AlertRows DEF ChildDies
  <2> QED
    BY <1>0, <1>17, <1>f, <2>1 DEF ChildDies, publisher, TypeOK
<1>18. ASSUME NEW i \in DOMAIN alerts, SaveClip(i) \/ MissClip(i) \/ SendNotifications(i)
       PROVE  TypeOK'
  <2>1. alerts[i] \in Alert
    BY AlertRows
  <2>2. \E a \in Alert : alerts' = [alerts EXCEPT ![i] = a]
    <3>1. [alerts[i] EXCEPT !.clip = "saved"] \in Alert
          /\ [alerts[i] EXCEPT !.clip = "missed"] \in Alert
          /\ [alerts[i] EXCEPT !.note = "run"] \in Alert
      BY <2>1 DEF Alert
    <3> QED
      BY <1>18, <3>1 DEF SaveClip, MissClip, SendNotifications
  <2>3. alerts' \in Seq(Alert) /\ Len(alerts') <= MaxAlerts
    BY <2>2, AlertChanged, AlertRows
  <2>4. faults' \in 0..MaxFaults
    BY <1>18, <1>f DEF SaveClip, MissClip, SendNotifications, TypeOK
  <2> QED
    BY <1>18, <2>3, <2>4 DEF SaveClip, MissClip, SendNotifications, publisher, workers, TypeOK
<1>19. ASSUME NEW e \in Event, SegmentStep(e) PROVE TypeOK'
  BY <1>19 DEF SegmentStep, publisher, workers, TypeOK, Segment
<1>20. CASE UNCHANGED vars
  BY <1>20 DEF vars, publisher, workers, TypeOK
<1> QED
  BY <1>1, <1>2, <1>3, <1>4, <1>5, <1>6, <1>7, <1>8, <1>9, <1>10, <1>11, <1>12, <1>13, <1>14,
     <1>15, <1>16, <1>17, <1>18, <1>19, <1>20 DEF Next

\* The initial state has the types.
LEMMA TypeInit == Init => TypeOK
<1> SUFFICES ASSUME Init PROVE TypeOK
  OBVIOUS
<1>1. MaxBuffer \in Nat /\ MaxEvents \in Nat /\ MaxAlerts \in Nat /\ MaxKicks \in Nat \ {0}
      /\ MaxFaults \in Nat
  BY ConstantsOK
<1>2. <<>> \in Seq(Event) /\ <<>> \in Seq(Alert) /\ Len(<<>>) = 0
  BY EmptySeq
<1>3. Off \in Consumer
  BY <1>1, <1>2 DEF Off, Consumer
<1>4. consumer \in [Child -> Consumer] /\ segment \in [Event -> Segment]
      /\ handled \in [Child -> 0..MaxEvents]
  BY <1>1, <1>3 DEF Init, Segment
<1>5. kicks \in 0..MaxKicks /\ call \in 0..MaxEvents /\ published \in 0..MaxEvents
      /\ faults \in 0..MaxFaults
  BY <1>1 DEF Init
<1>6. /\ buffer \in Seq(Event) /\ Len(buffer) <= MaxBuffer
      /\ alerts \in Seq(Alert) /\ Len(alerts) <= MaxAlerts
  BY <1>1, <1>2 DEF Init
<1> QED
  BY <1>4, <1>5, <1>6 DEF Init, TypeOK

\* Every reachable state is well typed: the buffer never exceeds _MAX_BUFFER, a consumer
\* is in at most one transaction (redis_publisher.py:25, alert_consumer.py:51-77).
THEOREM TypeCorrect == Spec => []TypeOK
<1>1. Init => TypeOK
  BY TypeInit
<1>2. TypeOK /\ [Next]_vars => TypeOK'
  BY TypeStep
<1> QED
  BY <1>1, <1>2, PTL DEF Spec
-----------------------------------------------------------------------------
(* What the publisher does with events *)

\* Events are numbered in the order in which they reach the buffer and Redis, the event
\* under way is the last, and the buffer is in that order.
Numbered ==
  /\ call \in {0, published}
  /\ sent \cup overflowed \subseteq 1..published
  /\ \A i \in DOMAIN buffer : buffer[i] \in 1..published
  /\ \A i, j \in DOMAIN buffer : i <= j => buffer[i] <= buffer[j]

\* EventsAreKept is inductive with it.
Kept == Numbered /\ EventsAreKept

\* The newest event pushed to a buffer that is in order: the order stays, what goes is the
\* oldest, and what all its events exceed, they still do.
LEMMA PushKeeps ==
  ASSUME NEW b \in Seq(Event), Len(b) <= MaxBuffer, NEW e \in Event, Push(b, e),
         \A i \in 1..Len(b) : b[i] \in 1..e,
         \A i, j \in 1..Len(b) : i <= j => b[i] <= b[j],
         overflowed \subseteq 1..e,
         \A o \in overflowed : \A i \in 1..Len(b) : o <= b[i]
  PROVE  /\ overflowed \subseteq overflowed' /\ overflowed' \subseteq 1..e
         /\ \A i \in DOMAIN buffer' : buffer'[i] \in 1..e
         /\ \A i, j \in DOMAIN buffer' : i <= j => buffer'[i] <= buffer'[j]
         /\ \A o \in overflowed' : \A i \in DOMAIN buffer' : o <= buffer'[i]
         /\ \A i \in 1..Len(b) : b[i] \in overflowed' \/ \E j \in DOMAIN buffer' : buffer'[j] = b[i]
         /\ \E j \in DOMAIN buffer' : buffer'[j] = e
         /\ \A j \in DOMAIN buffer' : buffer'[j] = e \/ \E i \in 1..Len(b) : buffer'[j] = b[i]
<1>0. Len(b) \in Nat /\ e \in Nat /\ e > 0
  BY LenProperties, ConstantsOK DEF Event
<1>1. /\ buffer' \in Seq(Event) /\ Len(buffer') \in Nat \ {0} /\ DOMAIN buffer' = 1..Len(buffer')
      /\ buffer'[Len(buffer')] = e
  BY PushShape
<1>2. PICK d \in {0, 1} :
        /\ Len(buffer') = Len(b) + 1 - d
        /\ \A i \in 1..(Len(buffer') - 1) : buffer'[i] = b[i + d]
        /\ overflowed' = IF d = 1 THEN overflowed \cup {b[1]} ELSE overflowed
        /\ d = 1 => Len(b) > 0
  BY PushShape
<1>3. \A j \in DOMAIN buffer' : \/ j = Len(buffer') /\ buffer'[j] = e
                                \/ j + d \in 1..Len(b) /\ buffer'[j] = b[j + d]
  <2> SUFFICES ASSUME NEW j \in DOMAIN buffer', j # Len(buffer')
               PROVE  j + d \in 1..Len(b) /\ buffer'[j] = b[j + d]
    BY <1>1
  <2>1. j \in 1..(Len(buffer') - 1) /\ Len(buffer') = Len(b) + 1 - d /\ d \in {0, 1}
    BY <1>1, <1>2
  <2>2. j + d \in 1..Len(b)
    BY ONLY <2>1, <1>0
  <2> QED
    BY <1>2, <2>1, <2>2
<1>4. overflowed \subseteq overflowed' /\ overflowed' \subseteq 1..e
  <2>1. CASE d = 1
    <3>1. b[1] \in 1..e
      BY <1>0, <1>2, <2>1
    <3> QED
      BY <1>2, <2>1, <3>1
  <2>2. CASE d # 1
    BY <1>2, <2>2
  <2> QED
    BY <2>1, <2>2
<1>5. \A i \in DOMAIN buffer' : buffer'[i] \in 1..e
  BY <1>0, <1>3
<1>6. ASSUME NEW i \in DOMAIN buffer', NEW j \in DOMAIN buffer', i <= j
      PROVE  buffer'[i] <= buffer'[j]
  <2>1. CASE j = Len(buffer')
    BY <1>0, <1>1, <1>5, <2>1
  <2>2. CASE j # Len(buffer')
    <3>1. i \in 1..(Len(buffer') - 1) /\ j \in 1..(Len(buffer') - 1)
      BY <1>1, <1>6, <2>2
    <3>2. i + d \in 1..Len(b) /\ j + d \in 1..Len(b) /\ i + d <= j + d
      BY <1>0, <1>2, <1>6, <3>1
    <3> QED
      BY <1>2, <3>1, <3>2
  <2> QED
    BY <2>1, <2>2
<1>7. ASSUME NEW o \in overflowed', NEW i \in DOMAIN buffer' PROVE o <= buffer'[i]
  <2>1. CASE buffer'[i] = e
    BY <1>0, <1>4, <2>1
  <2>2. CASE i + d \in 1..Len(b) /\ buffer'[i] = b[i + d]
    <3>1. CASE o \in overflowed
      BY <2>2, <3>1
    <3>2. CASE d = 1 /\ o = b[1]
      BY <1>0, <1>1, <1>2, <2>2, <3>2
    <3> QED
      BY <1>2, <3>1, <3>2
  <2> QED
    BY <1>3, <2>1, <2>2
<1>8. ASSUME NEW i \in 1..Len(b)
      PROVE  b[i] \in overflowed' \/ \E j \in DOMAIN buffer' : buffer'[j] = b[i]
  <2>1. CASE d = 1 /\ i = 1
    BY <1>2, <2>1
  <2>2. CASE ~(d = 1 /\ i = 1)
    <3>1. i - d \in 1..(Len(buffer') - 1) /\ (i - d) + d = i
      BY <1>0, <1>1, <1>2, <2>2
    <3>2. i - d \in DOMAIN buffer'
      BY <1>1, <3>1
    <3> QED
      BY <1>2, <3>1, <3>2
  <2> QED
    BY <2>1, <2>2
<1>9. Len(buffer') \in DOMAIN buffer'
  BY <1>1
<1> QED
  BY <1>1, <1>3, <1>4, <1>5, <1>6, <1>7, <1>8, <1>9

\* What is left of the buffer behind its first event is in order as well.
LEMMA RestKeeps ==
  ASSUME TypeOK, Kept, call # 0
  PROVE  /\ call = published /\ call \in Event /\ Sending \in 1..call
         /\ \A i \in 1..Len(Rest) : Rest[i] \in 1..call /\ Sending <= Rest[i]
         /\ \A i, j \in 1..Len(Rest) : i <= j => Rest[i] <= Rest[j]
         /\ overflowed \subseteq 1..call
         /\ \A o \in overflowed : \A i \in 1..Len(Rest) : o <= Rest[i]
         /\ \A i \in DOMAIN buffer :
              buffer[i] = Sending \/ \E j \in 1..Len(Rest) : Rest[j] = buffer[i]
         /\ Len(buffer) = 0 => Sending = call
<1>1. call = published /\ call \in Event /\ call \in Nat
  BY Typing DEF Kept, Numbered
<1>2. /\ Len(buffer) = 0 => Sending = call /\ Len(Rest) = 0
      /\ Len(buffer) # 0 => /\ 1 \in DOMAIN buffer /\ Sending = buffer[1]
                            /\ Len(Rest) = Len(buffer) - 1
  BY RestShape
<1>r. Len(Rest) \in Nat /\ Len(buffer) \in Nat /\ DOMAIN buffer = 1..Len(buffer)
  BY RestShape, Typing
<1>s. \A i \in 1..Len(Rest) : i + 1 \in DOMAIN buffer /\ Rest[i] = buffer[i + 1]
  BY RestShape
<1>3. /\ \A i \in DOMAIN buffer : buffer[i] \in 1..published
      /\ \A i, j \in DOMAIN buffer : i <= j => buffer[i] <= buffer[j]
      /\ overflowed \subseteq 1..published
      /\ \A o \in overflowed : \A i \in DOMAIN buffer : o <= buffer[i]
  BY DEF Kept, Numbered, EventsAreKept
<1>4. Sending \in 1..call
  <2>1. CASE Len(buffer) = 0
    <3>1. Sending = call
      BY <1>2, <2>1
    <3> QED
      BY <1>1, <3>1 DEF Event
  <2>2. CASE Len(buffer) # 0
    <3>1. Sending = buffer[1] /\ 1 \in DOMAIN buffer
      BY <1>2, <2>2
    <3>2. buffer[1] \in 1..published
      BY <1>3, <3>1
    <3> QED
      BY <1>1, <3>1, <3>2
  <2> QED
    BY <2>1, <2>2
<1>5. ASSUME NEW i \in 1..Len(Rest) PROVE Rest[i] \in 1..call /\ Sending <= Rest[i]
  <2>0. i \in Nat /\ Len(Rest) # 0
    BY <1>r
  <2>1. Len(buffer) # 0
    BY <1>2, <2>0
  <2>2. Sending = buffer[1] /\ 1 \in DOMAIN buffer
    BY <1>2, <2>1
  <2>3. i + 1 \in DOMAIN buffer /\ Rest[i] = buffer[i + 1] /\ 1 <= i + 1
    BY <1>s, <2>0
  <2>4. buffer[1] <= buffer[i + 1] /\ buffer[i + 1] \in 1..published
    BY <1>3, <2>2, <2>3
  <2> QED
    BY <1>1, <2>2, <2>3, <2>4
<1>6. ASSUME NEW i \in 1..Len(Rest), NEW j \in 1..Len(Rest), i <= j PROVE Rest[i] <= Rest[j]
  <2>1. i + 1 <= j + 1
    BY <1>r, <1>6
  <2> QED
    BY <1>3, <1>s, <2>1
<1>7. ASSUME NEW i \in DOMAIN buffer
      PROVE  buffer[i] = Sending \/ \E j \in 1..Len(Rest) : Rest[j] = buffer[i]
  <2>1. Len(buffer) # 0 /\ i \in 1..Len(buffer)
    BY <1>r
  <2>2. Sending = buffer[1] /\ Len(Rest) = Len(buffer) - 1
    BY <1>2, <2>1
  <2>3. CASE i = 1
    BY <2>2, <2>3
  <2>4. CASE i # 1
    <3>1. i - 1 \in 1..Len(Rest) /\ (i - 1) + 1 = i
      BY <1>r, <2>1, <2>2, <2>4
    <3> QED
      BY <1>s, <3>1
  <2> QED
    BY <2>3, <2>4
<1>8. \A o \in overflowed : \A i \in 1..Len(Rest) : o <= Rest[i]
  BY <1>s, <1>3
<1> QED
  BY <1>1, <1>2, <1>3, <1>4, <1>5, <1>6, <1>7, <1>8

\* A failed send: the event taken from the buffer is given up, the new one is kept.
LEMMA FailureKeeps ==
  ASSUME TypeOK, Kept, call # 0, HandleFailure, sent' \in {sent, sent \cup {Sending}}
  PROVE  Kept'
<1>0. /\ call = published /\ call \in Event /\ Sending \in 1..call
      /\ \A i \in 1..Len(Rest) : Rest[i] \in 1..call /\ Sending <= Rest[i]
      /\ \A i, j \in 1..Len(Rest) : i <= j => Rest[i] <= Rest[j]
      /\ overflowed \subseteq 1..call
      /\ \A o \in overflowed : \A i \in 1..Len(Rest) : o <= Rest[i]
  BY RestKeeps
<1>1. Rest \in Seq(Event) /\ Len(Rest) <= MaxBuffer
  <2>1. Rest \in Seq(Event) /\ Len(Rest) \in Nat /\ Len(Rest) < MaxBuffer
    BY RestShape
  <2> QED
    BY <2>1, Typing
<1>2. Push(Rest, call) /\ call' = 0 /\ published' = published
  BY DEF HandleFailure
<1>3. /\ overflowed \subseteq overflowed' /\ overflowed' \subseteq 1..call
      /\ \A i \in DOMAIN buffer' : buffer'[i] \in 1..call
      /\ \A i, j \in DOMAIN buffer' : i <= j => buffer'[i] <= buffer'[j]
      /\ \A o \in overflowed' : \A i \in DOMAIN buffer' : o <= buffer'[i]
      /\ \A i \in 1..Len(Rest) :
           Rest[i] \in overflowed' \/ \E j \in DOMAIN buffer' : buffer'[j] = Rest[i]
      /\ \E j \in DOMAIN buffer' : buffer'[j] = call
  BY <1>0, <1>1, <1>2, PushKeeps
<1>4. Numbered'
  <2>1. sent' \subseteq 1..published
    BY <1>0 DEF Kept, Numbered
  <2>2. call' \in {0, published'}
    BY <1>2
  <2>3. sent' \cup overflowed' \subseteq 1..published'
    BY <1>0, <1>2, <1>3, <2>1
  <2>4. \A i \in DOMAIN buffer' : buffer'[i] \in 1..published'
    BY <1>0, <1>2, <1>3
  <2>5. \A i, j \in DOMAIN buffer' : i <= j => buffer'[i] <= buffer'[j]
    BY <1>3
  <2> QED
    BY <2>2, <2>3, <2>4, <2>5 DEF Numbered
<1>5. ASSUME NEW e \in 1..published'
      PROVE  \/ e = call' \/ e \in sent' \cup overflowed' \cup failed'
             \/ \E i \in DOMAIN buffer' : buffer'[i] = e
  <2>1. CASE e = call
    BY <1>3, <2>1
  <2>2. CASE e \in sent \cup overflowed \cup failed
    <3>1. sent \subseteq sent' /\ failed \subseteq failed'
      BY DEF HandleFailure
    <3> QED
      BY <1>3, <2>2, <3>1
  <2>3. ASSUME NEW i \in DOMAIN buffer, buffer[i] = e
        PROVE  e \in overflowed' \cup failed' \/ \E j \in DOMAIN buffer' : buffer'[j] = e
    <3>1. CASE e = Sending
      <4>1. Len(buffer) # 0
        BY <2>3, Typing
      <4>2. buffer # <<>>
        BY <4>1, EmptySeq
      <4>3. failed' = failed \cup {Sending}
        BY <4>2 DEF HandleFailure, Sending
      <4> QED
        BY <3>1, <4>3
    <3>2. CASE e # Sending
      <4>1. PICK j \in 1..Len(Rest) : Rest[j] = e
        BY <2>3, <3>2, RestKeeps
      <4> QED
        BY <1>3, <4>1
    <3> QED
      BY <3>1, <3>2
  <2> QED
    BY <1>2, <2>1, <2>2, <2>3 DEF Kept, EventsAreKept
<1> QED
  BY <1>3, <1>4, <1>5 DEF Kept, EventsAreKept

\* Every step of the publisher keeps its events, and no other step touches them.
LEMMA KeptStep == TypeOK /\ Kept /\ [Next]_vars => Kept'
<1> SUFFICES ASSUME TypeOK, Kept, [Next]_vars PROVE Kept'
  OBVIOUS
<1>a. ASSUME UNCHANGED <<buffer, call, published, sent, overflowed, failed>> PROVE Kept'
  BY <1>a DEF Kept, Numbered, EventsAreKept
<1>b. UNCHANGED publisher => UNCHANGED <<buffer, call, published, sent, overflowed, failed>>
  BY DEF publisher
<1>1. ASSUME NEW s \in {"none", "open"}, Publish(s) PROVE Kept'
  <2> DEFINE e == published + 1
  <2>0. e \in Event /\ e \in Nat /\ published \in Nat /\ published' = e /\ call = 0
        /\ UNCHANGED <<sent, failed>>
    BY <1>1, Typing DEF Publish, TypeOK, Event
  <2>1. CASE connected
    <3>1. call' = e /\ UNCHANGED <<buffer, overflowed>>
      BY <1>1, <2>1 DEF Publish
    <3> HIDE DEF e
    <3>2. \A x \in 1..published : x \in 1..e
      BY <1>1, <2>0 DEF e, Publish
    <3>3. Numbered'
      BY <2>0, <3>1, <3>2 DEF Kept, Numbered
    <3>4. \A x \in 1..e : x \in 1..published \/ x = e
      BY <2>0 DEF e
    <3>5. EventsAreKept'
      BY <2>0, <3>1, <3>4 DEF Kept, EventsAreKept
    <3> QED
      BY <3>3, <3>5 DEF Kept
  <2>2. CASE ~connected
    <3>1. Push(buffer, e) /\ call' \in {0, e}
      BY <1>1, <2>2 DEF Publish
    <3>2. buffer \in Seq(Event) /\ Len(buffer) <= MaxBuffer /\ DOMAIN buffer = 1..Len(buffer)
      BY Typing DEF TypeOK
    <3>3. /\ \A i \in 1..Len(buffer) : buffer[i] \in 1..e
          /\ \A i, j \in 1..Len(buffer) : i <= j => buffer[i] <= buffer[j]
          /\ overflowed \subseteq 1..e /\ sent \subseteq 1..e
          /\ \A o \in overflowed : \A i \in 1..Len(buffer) : o <= buffer[i]
      BY <2>0, <3>2 DEF Kept, Numbered, EventsAreKept
    <3> HIDE DEF e
    <3>4. /\ overflowed \subseteq overflowed' /\ overflowed' \subseteq 1..e
          /\ \A i \in DOMAIN buffer' : buffer'[i] \in 1..e
          /\ \A i, j \in DOMAIN buffer' : i <= j => buffer'[i] <= buffer'[j]
          /\ \A o \in overflowed' : \A i \in DOMAIN buffer' : o <= buffer'[i]
          /\ \A i \in 1..Len(buffer) :
               buffer[i] \in overflowed' \/ \E j \in DOMAIN buffer' : buffer'[j] = buffer[i]
          /\ \E j \in DOMAIN buffer' : buffer'[j] = e
      BY <2>0, <3>1, <3>2, <3>3, PushKeeps
    <3>5. Numbered'
      BY <2>0, <3>1, <3>3, <3>4 DEF Numbered
    <3>6. ASSUME NEW x \in 1..e
          PROVE  \/ x \in sent' \cup overflowed' \cup failed'
                 \/ \E j \in DOMAIN buffer' : buffer'[j] = x
      <4>1. x = e \/ x \in 1..published
        BY <2>0 DEF e
      <4>2. CASE x = e
        BY <3>4, <4>2
      <4>3. CASE x \in 1..published
        <5>1. x # 0
          BY <4>3
        <5>2. x \in sent \cup overflowed \cup failed \/ \E i \in DOMAIN buffer : buffer[i] = x
          BY <2>0, <4>3, <5>1 DEF Kept, EventsAreKept
        <5> QED
          BY <2>0, <3>2, <3>4, <5>2
      <4> QED
        BY <4>1, <4>2, <4>3
    <3> QED
      BY <2>0, <3>4, <3>5, <3>6 DEF Kept, EventsAreKept
  <2> QED
    BY <2>1, <2>2
<1>2. CASE Send
  <2>0. call # 0 /\ buffer' = Rest /\ sent' = sent \cup {Sending}
        /\ UNCHANGED <<published, overflowed, failed>>
    BY <1>2 DEF Send, Deliver
  <2>1. /\ call = published /\ Sending \in 1..call /\ overflowed \subseteq 1..call
        /\ \A i \in 1..Len(Rest) : Rest[i] \in 1..call
        /\ \A i, j \in 1..Len(Rest) : i <= j => Rest[i] <= Rest[j]
        /\ \A o \in overflowed : \A i \in 1..Len(Rest) : o <= Rest[i]
        /\ \A i \in DOMAIN buffer :
             buffer[i] = Sending \/ \E j \in 1..Len(Rest) : Rest[j] = buffer[i]
        /\ Len(buffer) = 0 => Sending = call
    BY <2>0, RestKeeps
  <2>2. DOMAIN Rest = 1..Len(Rest)
    BY <2>0, RestShape
  <2>3. call' = call \/ (call' = 0 /\ Sending = call)
    BY <1>2, EmptySeq DEF Send, Sending
  <2>4. Numbered'
    BY <2>0, <2>1, <2>2, <2>3 DEF Kept, Numbered
  <2>5. ASSUME NEW x \in 1..published'
        PROVE  \/ x = call' \/ x \in sent' \cup overflowed' \cup failed'
               \/ \E j \in DOMAIN buffer' : buffer'[j] = x
    BY <2>0, <2>1, <2>2, <2>3 DEF Kept, EventsAreKept
  <2> QED
    BY <2>0, <2>1, <2>2, <2>4, <2>5 DEF Kept, EventsAreKept
<1>3. CASE SendFails
  BY <1>3, FailureKeeps DEF SendFails
<1>4. CASE SendUnanswered
  BY <1>4, FailureKeeps DEF SendUnanswered, Deliver
<1>5. CASE ProbeFails
  BY <1>a, <1>5 DEF ProbeFails
<1>6. CASE ProbeResets
  BY <1>a, <1>6 DEF ProbeResets
<1>7. CASE Outage \/ Recovery \/ Redeliver \/ SendConsumer \/ WorkerRestart
  BY <1>a, <1>b, <1>7 DEF Outage, Recovery, Redeliver, SendConsumer, WorkerRestart
<1>8. ASSUME NEW c \in Child,
             \/ Subscribe(c) \/ ProcessEvent(c) \/ ProcessFails(c) \/ Commit(c)
             \/ CommitFails(c) \/ ConsumerFails(c) \/ ChildDies(c)
      PROVE  Kept'
  BY <1>a, <1>b, <1>8
     DEF Subscribe, ProcessEvent, ProcessFails, Commit, CommitFails, ConsumerFails, ChildDies
<1>9. ASSUME NEW i \in DOMAIN alerts, SaveClip(i) \/ MissClip(i) \/ SendNotifications(i)
      PROVE  Kept'
  BY <1>a, <1>b, <1>9 DEF SaveClip, MissClip, SendNotifications
<1>10. ASSUME NEW e \in Event, SegmentStep(e) PROVE Kept'
  BY <1>a, <1>b, <1>10 DEF SegmentStep
<1>11. CASE UNCHANGED vars
  BY <1>a, <1>b, <1>11 DEF vars
<1> QED
  BY <1>1, <1>2, <1>3, <1>4, <1>5, <1>6, <1>7, <1>8, <1>9, <1>10, <1>11 DEF Next

\* An event given to publish is under way, in the buffer, sent, or was given up as the
\* buffer gives up events, the oldest first (redis_publisher.py:3, 29-47).
THEOREM EventsKept == Spec => []EventsAreKept
<1>1. Init => Kept
  <2> SUFFICES ASSUME Init PROVE Kept
    OBVIOUS
  <2>1. buffer = <<>> /\ call = 0 /\ published = 0 /\ sent = {} /\ overflowed = {}
    BY DEF Init
  <2>2. DOMAIN buffer = {}
    BY <2>1
  <2>3. 1..published = {}
    BY <2>1
  <2> QED
    BY <2>1, <2>2, <2>3 DEF Kept, Numbered, EventsAreKept
<1>2. Kept => EventsAreKept
  BY DEF Kept
<1> QED
  BY <1>1, <1>2, KeptStep, TypeCorrect, PTL DEF Spec
-----------------------------------------------------------------------------
(* The order in which children handle events *)

\* Nothing child c has handled or received is newer than e.
Precedes(c, e) ==
  /\ handled[c] <= e
  /\ \A i \in DOMAIN consumer[c].inbox : consumer[c].inbox[i] <= e

\* What child c has received is in order, and nothing in it is older than what it has handled.
InTurn(c) ==
  /\ \A i \in DOMAIN consumer[c].inbox : handled[c] <= consumer[c].inbox[i]
  /\ \A i, j \in DOMAIN consumer[c].inbox :
       i <= j => consumer[c].inbox[i] <= consumer[c].inbox[j]

\* Children are in order among themselves and behind what the publisher still has.
Ordered ==
  \A c \in Child : /\ InTurn(c) /\ Precedes(c, published)
                   /\ \A b \in DOMAIN buffer : Precedes(c, buffer[b])

\* Events as numbers.
LEMMA Inboxes ==
  ASSUME TypeOK, NEW c \in Child
  PROVE  /\ consumer[c].inbox \in Seq(Event) /\ Len(consumer[c].inbox) \in Nat
         /\ DOMAIN consumer[c].inbox = 1..Len(consumer[c].inbox)
         /\ \A i \in DOMAIN consumer[c].inbox : consumer[c].inbox[i] \in Event
         /\ handled[c] \in 0..MaxEvents /\ handled[c] \in Nat
<1>1. consumer[c].inbox \in Seq(Event) /\ handled[c] \in 0..MaxEvents
  BY DEF TypeOK, Consumer
<1>2. Len(consumer[c].inbox) \in Nat /\ DOMAIN consumer[c].inbox = 1..Len(consumer[c].inbox)
  BY <1>1, LenProperties
<1>3. \A i \in DOMAIN consumer[c].inbox : consumer[c].inbox[i] \in Event
  BY <1>1, <1>2, ElementOfSeq
<1> QED
  BY <1>1, <1>2, <1>3, Typing

\* An event that nothing received precedes joins the end of an inbox.
LEMMA DeliverOrder ==
  ASSUME TypeOK, NEW c \in Child, NEW e \in Event, Deliver(e), handled' = handled,
         InTurn(c), Precedes(c, e)
  PROVE  /\ InTurn(c)'
         /\ \A x \in Nat : Precedes(c, x) /\ e <= x => Precedes(c, x)'
<1> DEFINE old == consumer[c].inbox
           new == consumer'[c].inbox
<1>0. old \in Seq(Event) /\ Len(old) \in Nat /\ DOMAIN old = 1..Len(old) /\ e \in Nat
      /\ \A i \in DOMAIN old : old[i] \in Nat
  BY Inboxes, Typing DEF Event
<1>1. new = old \/ new = Append(old, e)
  BY DeliverTypes
<1>2. CASE new = old
  BY <1>2 DEF InTurn, Precedes
<1>3. CASE new = Append(old, e)
  <2>1. /\ new \in Seq(Event) /\ Len(new) = Len(old) + 1
        /\ \A i \in 1..Len(old) : new[i] = old[i]
        /\ new[Len(old) + 1] = e
    BY <1>0, <1>3, AppendProperties
  <2>2. DOMAIN new = 1..(Len(old) + 1)
    BY <2>1, LenProperties
  <2>3. ASSUME NEW i \in DOMAIN new
        PROVE  (i \in DOMAIN old /\ new[i] = old[i]) \/ (i = Len(old) + 1 /\ new[i] = e)
    <3> HIDE DEF old, new
    <3>1. i \in 1..Len(old) \/ i = Len(old) + 1
      BY <1>0, <2>2
    <3> QED
      BY <1>0, <2>1, <3>1
  <2>4. /\ \A i \in DOMAIN old : handled[c] <= old[i] /\ old[i] <= e
        /\ \A i, j \in DOMAIN old : i <= j => old[i] <= old[j]
        /\ handled[c] <= e
    BY DEF InTurn, Precedes
  <2> HIDE DEF old, new
  <2>5. \A i \in DOMAIN new : handled'[c] <= new[i]
    BY <2>3, <2>4
  <2>6. ASSUME NEW i \in DOMAIN new, NEW j \in DOMAIN new, i <= j PROVE new[i] <= new[j]
    <3>1. CASE j \in DOMAIN old /\ new[j] = old[j]
      <4>1. i \in DOMAIN old
        BY <1>0, <2>2, <2>6, <3>1
      <4>2. new[i] = old[i]
        BY <1>0, <2>1, <4>1
      <4> QED
        BY <2>4, <2>6, <3>1, <4>1, <4>2
    <3>2. CASE new[j] = e
      <4>1. new[i] = e \/ (i \in DOMAIN old /\ new[i] = old[i])
        BY <2>3
      <4> QED
        BY <1>0, <2>4, <3>2, <4>1
    <3> QED
      BY <2>3, <3>1, <3>2
  <2>7. InTurn(c)'
    BY <2>5, <2>6 DEF InTurn, new
  <2>8. ASSUME NEW x \in Nat, Precedes(c, x), e <= x PROVE Precedes(c, x)'
    <3>1. handled'[c] <= x /\ \A i \in DOMAIN old : old[i] <= x
      BY <2>8 DEF Precedes, old
    <3>2. \A i \in DOMAIN new : new[i] <= x
      BY <2>3, <2>8, <3>1
    <3> QED
      BY <3>1, <3>2 DEF Precedes, new
  <2> QED
    BY <2>7, <2>8
<1> QED
  BY <1>1, <1>2, <1>3

\* The first event of an inbox is handled.
LEMMA TakeOrder ==
  ASSUME TypeOK, NEW c \in Child, Ready(c), NEW a \in 0..MaxAlerts, Take(c, a), InTurn(c)
  PROVE  /\ InTurn(c)' /\ handled[c] <= handled'[c]
         /\ \A x \in Nat : Precedes(c, x) => Precedes(c, x)' /\ handled'[c] <= x
<1> DEFINE old == consumer[c].inbox
           new == consumer'[c].inbox
<1>1. /\ Len(old) \in Nat \ {0} /\ handled'[c] = old[1]
      /\ new \in Seq(Event) /\ Len(new) = Len(old) - 1
      /\ \A i \in 1..Len(new) : new[i] = old[i + 1]
  BY TakeShape
<1>2. DOMAIN old = 1..Len(old) /\ DOMAIN new = 1..Len(new) /\ Len(new) \in Nat
  BY <1>1, Inboxes, LenProperties
<1>3. /\ \A i \in DOMAIN old : handled[c] <= old[i]
      /\ \A i, j \in DOMAIN old : i <= j => old[i] <= old[j]
  BY DEF InTurn
<1> HIDE DEF old, new
<1>4. 1 \in DOMAIN old
  BY <1>1, <1>2
<1>5. \A i \in DOMAIN new : i + 1 \in DOMAIN old /\ 1 <= i + 1 /\ new[i] = old[i + 1]
  BY <1>1, <1>2
<1>6. \A i \in DOMAIN new : handled'[c] <= new[i]
  BY <1>1, <1>3, <1>4, <1>5
<1>7. ASSUME NEW i \in DOMAIN new, NEW j \in DOMAIN new, i <= j PROVE new[i] <= new[j]
  <2>1. i + 1 <= j + 1
    BY <1>2, <1>7
  <2> QED
    BY <1>3, <1>5, <2>1
<1>8. InTurn(c)'
  BY <1>6, <1>7 DEF InTurn, new
<1>9. ASSUME NEW x \in Nat, Precedes(c, x) PROVE Precedes(c, x)' /\ handled'[c] <= x
  <2>1. \A i \in DOMAIN old : old[i] <= x
    BY <1>9 DEF Precedes, old
  <2>2. handled'[c] <= x /\ \A i \in DOMAIN new : new[i] <= x
    BY <1>1, <1>4, <1>5, <2>1
  <2> QED
    BY <2>2 DEF Precedes, new
<1>10. handled[c] <= handled'[c]
  BY <1>1, <1>3, <1>4
<1> QED
  BY <1>8, <1>9, <1>10

\* What precedes an event precedes the later ones.
LEMMA PrecedesLater ==
  ASSUME TypeOK, NEW c \in Child, NEW x \in Nat, NEW y \in Nat, x <= y, Precedes(c, x)
  PROVE  Precedes(c, y)
<1>1. \A i \in DOMAIN consumer[c].inbox : consumer[c].inbox[i] \in Nat
  BY Inboxes, Typing DEF Event
<1> QED
  BY <1>1, Inboxes DEF Precedes

\* A child's own steps keep it in turn, and what preceded an event still does.
Steady(c) == InTurn(c)' /\ \A x \in Nat : Precedes(c, x) => Precedes(c, x)'

\* Nothing happens to what child c has handled and received, or it loses what it has received.
LEMMA QuietOrder ==
  ASSUME TypeOK, NEW c \in Child, InTurn(c), handled'[c] = handled[c],
         consumer'[c].inbox = consumer[c].inbox \/ consumer'[c].inbox = <<>>
  PROVE  Steady(c)
<1>1. CASE consumer'[c].inbox = consumer[c].inbox
  BY <1>1 DEF Steady, InTurn, Precedes
<1>2. CASE consumer'[c].inbox = <<>>
  <2>1. DOMAIN consumer'[c].inbox = {}
    BY <1>2
  <2> QED
    BY <2>1 DEF Steady, InTurn, Precedes
<1> QED
  BY <1>1, <1>2

\* The steps of consumers.
ChildStep(c) ==
  \/ Subscribe(c) \/ ProcessEvent(c) \/ ProcessFails(c)
  \/ Commit(c) \/ CommitFails(c) \/ ConsumerFails(c) \/ ChildDies(c)

LEMMA ChildOrder ==
  ASSUME TypeOK, NEW c \in Child, InTurn(c), NEW d \in Child, ChildStep(d)
  PROVE  Steady(c)
<1>0. Off.inbox = <<>> /\ [Off EXCEPT !.on = TRUE, !.sub = TRUE].inbox = <<>>
      /\ 0 \in 0..MaxAlerts /\ consumer \in [Child -> Consumer]
  BY Typing DEF Off, TypeOK
<1>1. ASSUME NEW a \in 0..MaxAlerts, Ready(d), Take(d, a) PROVE Steady(c)
  <2>1. CASE c = d
    BY <1>1, <2>1, TakeOrder DEF Steady
  <2>2. CASE c # d
    <3>1. consumer'[c] = consumer[c] /\ handled'[c] = handled[c]
      BY <1>1, <2>2, TakeShape
    <3> QED
      BY <3>1, QuietOrder
  <2> QED
    BY <2>1, <2>2
<1>2. CASE ProcessEvent(d)
  <2>1. Begin(d, "flushed", "waiting", "waiting") /\ Take(d, Len(alerts'))
    BY <1>2 DEF ProcessEvent
  <2>2. Ready(d) /\ Len(alerts') = Len(alerts) + 1 /\ Len(alerts') <= MaxAlerts
    BY <2>1, BeginShape
  <2>3. Len(alerts') \in 0..MaxAlerts
    BY <2>2, AlertRows, Typing
  <2> QED
    BY <1>1, <2>1, <2>2, <2>3
<1>3. CASE ProcessFails(d)
  <2>1. Ready(d) /\ Take(d, 0)
    BY <1>3 DEF ProcessFails, Begin
  <2> QED
    BY <1>0, <1>1, <2>1
<1>4. CASE Subscribe(d) \/ ConsumerFails(d) \/ ChildDies(d)
  <2>1. /\ handled' = handled
        /\ \/ consumer' = [consumer EXCEPT ![d] = [Off EXCEPT !.on = TRUE, !.sub = TRUE]]
           \/ consumer' = [consumer EXCEPT ![d] = Off]
    BY <1>4 DEF Subscribe, ConsumerFails, ChildDies
  <2>2. consumer'[c].inbox = consumer[c].inbox \/ consumer'[c].inbox = <<>>
    BY <1>0, <2>1
  <2> QED
    BY <2>1, <2>2, QuietOrder
<1>5. CASE Commit(d) \/ CommitFails(d)
  <2>1. handled' = handled /\ consumer' = [consumer EXCEPT ![d].alert = 0]
    BY <1>5 DEF Commit, CommitFails
  <2>2. consumer'[c].inbox = consumer[c].inbox
    BY <1>0, <2>1 DEF Consumer
  <2> QED
    BY <2>1, <2>2, QuietOrder
<1> QED
  BY <1>2, <1>3, <1>4, <1>5 DEF ChildStep

\* With the buffer and the numbering as they are, steady children stay in order.
LEMMA SteadyOrder ==
  ASSUME TypeOK, Ordered, \A c \in Child : Steady(c), UNCHANGED <<buffer, published>>
  PROVE  Ordered'
<1> SUFFICES ASSUME NEW c \in Child
             PROVE  /\ InTurn(c)' /\ Precedes(c, published)'
                    /\ (\A b \in DOMAIN buffer : Precedes(c, buffer[b]))'
  BY DEF Ordered
<1>1. published \in Nat /\ \A b \in DOMAIN buffer : buffer[b] \in Nat
  BY Typing DEF Event
<1>2. /\ InTurn(c) /\ Precedes(c, published)
      /\ \A b \in DOMAIN buffer : Precedes(c, buffer[b])
  BY DEF Ordered
<1>3. \A x \in Nat : Precedes(c, x) => handled'[c] <= x
                    /\ \A i \in DOMAIN consumer'[c].inbox : consumer'[c].inbox[i] <= x
  BY DEF Steady, Precedes
<1>4. InTurn(c)'
  BY DEF Steady
<1> QED
  BY <1>1, <1>2, <1>3, <1>4 DEF Precedes

\* Sending the oldest event keeps the order, whether it reaches the channel or not.
LEMMA SendOrder ==
  ASSUME TypeOK, Kept, Ordered, call # 0, Deliver(Sending) \/ UNCHANGED consumer,
         handled' = handled, published' = published,
         \A i \in DOMAIN buffer' :
           buffer'[i] = call \/ \E j \in 1..Len(Rest) : buffer'[i] = Rest[j]
  PROVE  Ordered'
<1> SUFFICES ASSUME NEW c \in Child
             PROVE  /\ InTurn(c)' /\ Precedes(c, published)'
                    /\ (\A b \in DOMAIN buffer : Precedes(c, buffer[b]))'
  BY DEF Ordered
<1>1. /\ call = published /\ Sending \in 1..call
      /\ \A j \in 1..Len(Rest) : Rest[j] \in 1..call /\ Sending <= Rest[j]
  BY RestKeeps
<1>2. call \in Nat /\ Sending \in Nat /\ Sending \in Event /\ Sending <= call
      /\ \A j \in 1..Len(Rest) : Rest[j] \in Nat
  <2>1. call \in Event /\ Sending \in Event /\ MaxEvents \in Nat
    BY RestShape, Typing
  <2>2. call \in Nat
    BY <2>1 DEF Event
  <2> QED
    BY <1>1, <2>1, <2>2
<1>3. InTurn(c) /\ Precedes(c, call)
  BY <1>1 DEF Ordered
<1>4. Precedes(c, Sending)
  <2>1. CASE Len(buffer) = 0
    BY <1>3, <2>1, RestShape
  <2>2. CASE Len(buffer) # 0
    <3>1. 1 \in DOMAIN buffer /\ Sending = buffer[1]
      BY <2>2, RestShape
    <3> QED
      BY <3>1 DEF Ordered
  <2> QED
    BY <2>1, <2>2
<1>5. InTurn(c)' /\ \A x \in Nat : Precedes(c, x) /\ Sending <= x => Precedes(c, x)'
  <2>1. CASE Deliver(Sending)
    BY <1>2, <1>3, <1>4, <2>1, DeliverOrder
  <2>2. CASE UNCHANGED consumer
    BY <1>3, <2>2 DEF InTurn, Precedes
  <2> QED
    BY <2>1, <2>2
<1>6. \A x \in Nat : Sending <= x =>
        /\ handled'[c] <= x
        /\ \A i \in DOMAIN consumer'[c].inbox : consumer'[c].inbox[i] <= x
  <2> SUFFICES ASSUME NEW x \in Nat, Sending <= x
               PROVE  /\ handled'[c] <= x
                      /\ \A i \in DOMAIN consumer'[c].inbox : consumer'[c].inbox[i] <= x
    OBVIOUS
  <2>1. Precedes(c, x)
    BY <1>2, <1>4, PrecedesLater
  <2> QED
    BY <1>5, <2>1 DEF Precedes
<1>7. Precedes(c, published)'
  BY <1>1, <1>2, <1>6 DEF Precedes
<1>8. ASSUME NEW b \in DOMAIN buffer' PROVE buffer'[b] \in Nat /\ Sending <= buffer'[b]
  BY <1>1, <1>2
<1>9. (\A b \in DOMAIN buffer : Precedes(c, buffer[b]))'
  BY <1>6, <1>8 DEF Precedes
<1> QED
  BY <1>5, <1>7, <1>9

\* A failed send leaves what Rest has, and the event under way.
LEMMA FailureRest ==
  ASSUME TypeOK, Kept, call # 0, HandleFailure
  PROVE  \A i \in DOMAIN buffer' :
           buffer'[i] = call \/ \E j \in 1..Len(Rest) : buffer'[i] = Rest[j]
<1>0. /\ call \in Event
      /\ \A i \in 1..Len(Rest) : Rest[i] \in 1..call
      /\ \A i, j \in 1..Len(Rest) : i <= j => Rest[i] <= Rest[j]
      /\ overflowed \subseteq 1..call
      /\ \A o \in overflowed : \A i \in 1..Len(Rest) : o <= Rest[i]
  BY RestKeeps
<1>1. Rest \in Seq(Event) /\ Len(Rest) <= MaxBuffer
  <2>1. Rest \in Seq(Event) /\ Len(Rest) \in Nat /\ Len(Rest) < MaxBuffer
    BY RestShape
  <2> QED
    BY <2>1, Typing
<1>2. Push(Rest, call)
  BY DEF HandleFailure
<1> QED
  BY <1>0, <1>1, <1>2, PushKeeps

LEMMA OrderedStep == TypeOK /\ Kept /\ Ordered /\ [Next]_vars => Ordered'
<1> SUFFICES ASSUME TypeOK, Kept, Ordered, [Next]_vars PROVE Ordered'
  OBVIOUS
<1>a. ASSUME UNCHANGED <<consumer, handled, buffer, published>> PROVE Ordered'
  BY <1>a DEF Ordered, InTurn, Precedes
<1>b. ASSUME UNCHANGED <<buffer, published>>, \A c \in Child : Steady(c) PROVE Ordered'
  BY <1>b, SteadyOrder
<1>c. \A c \in Child : InTurn(c)
  BY DEF Ordered
<1>1. ASSUME NEW s \in {"none", "open"}, Publish(s) PROVE Ordered'
  <2> DEFINE e == published + 1
  <2>0. e \in Event /\ e \in Nat /\ published \in Nat /\ published' = e /\ published <= e
        /\ UNCHANGED <<consumer, handled>>
    BY <1>1, Typing DEF Publish, TypeOK, Event, workers
  <2>1. \A i \in DOMAIN buffer' : buffer'[i] = e \/ \E j \in DOMAIN buffer : buffer'[i] = buffer[j]
    <3>1. CASE connected
      BY <1>1, <3>1 DEF Publish
    <3>2. CASE ~connected
      <4>1. Push(buffer, e)
        BY <1>1, <3>2 DEF Publish
      <4>2. buffer \in Seq(Event) /\ Len(buffer) <= MaxBuffer /\ DOMAIN buffer = 1..Len(buffer)
        BY Typing DEF TypeOK
      <4>3. /\ \A i \in 1..Len(buffer) : buffer[i] \in 1..e
            /\ \A i, j \in 1..Len(buffer) : i <= j => buffer[i] <= buffer[j]
            /\ overflowed \subseteq 1..e
            /\ \A o \in overflowed : \A i \in 1..Len(buffer) : o <= buffer[i]
        <5>1. /\ \A i \in 1..Len(buffer) : buffer[i] \in 1..published
              /\ \A i, j \in 1..Len(buffer) : i <= j => buffer[i] <= buffer[j]
              /\ overflowed \subseteq 1..published
              /\ \A o \in overflowed : \A i \in 1..Len(buffer) : o <= buffer[i]
          BY <4>2 DEF Kept, Numbered, EventsAreKept
        <5>2. 1..published \subseteq 1..e
          BY <2>0
        <5> QED
          BY <5>1, <5>2
      <4> HIDE DEF e
      <4> QED
        BY <2>0, <4>1, <4>2, <4>3, PushKeeps
    <3> QED
      BY <3>1, <3>2
  <2> HIDE DEF e
  <2>2. ASSUME NEW c \in Child
        PROVE  /\ InTurn(c)' /\ Precedes(c, published)'
               /\ (\A b \in DOMAIN buffer : Precedes(c, buffer[b]))'
    <3>1. InTurn(c) /\ Precedes(c, e) /\ \A b \in DOMAIN buffer : Precedes(c, buffer[b])
      BY <2>0, PrecedesLater DEF Ordered
    <3>2. InTurn(c)' /\ Precedes(c, published)'
      BY <2>0, <3>1 DEF InTurn, Precedes
    <3>3. (\A b \in DOMAIN buffer : Precedes(c, buffer[b]))'
      BY <2>0, <2>1, <3>1 DEF Precedes
    <3> QED
      BY <3>1, <3>2, <3>3
  <2> QED
    BY <2>2 DEF Ordered
<1>2. CASE Send
  <2>1. call # 0 /\ Deliver(Sending) /\ buffer' = Rest /\ UNCHANGED <<handled, published>>
    BY <1>2 DEF Send
  <2>2. DOMAIN buffer' = 1..Len(Rest)
    BY <2>1, RestShape
  <2> QED
    BY <2>1, <2>2, SendOrder
<1>3. CASE SendFails
  <2>1. call # 0 /\ HandleFailure /\ UNCHANGED <<consumer, handled, published>>
    BY <1>3 DEF SendFails, HandleFailure
  <2> QED
    BY <2>1, FailureRest, SendOrder
<1>4. CASE SendUnanswered
  <2>1. call # 0 /\ Deliver(Sending) /\ HandleFailure /\ UNCHANGED <<handled, published>>
    BY <1>4 DEF SendUnanswered, HandleFailure
  <2> QED
    BY <2>1, FailureRest, SendOrder
<1>5. CASE ProbeFails \/ ProbeResets \/ Recovery
  BY <1>a, <1>5 DEF ProbeFails, ProbeResets, Recovery, publisher, workers
<1>6. CASE Outage
  <2>1. \A c \in Child : consumer'[c].inbox = consumer[c].inbox /\ handled'[c] = handled[c]
    BY <1>6 DEF Outage, TypeOK, Consumer
  <2> QED
    BY <1>b, <1>c, <1>6, <2>1, QuietOrder DEF Outage, publisher
<1>7. CASE Redeliver \/ SendConsumer
  BY <1>a, <1>7 DEF Redeliver, SendConsumer, publisher
<1>8. CASE WorkerRestart
  <2>1. \A c \in Child : consumer'[c].inbox = <<>> /\ handled'[c] = handled[c]
    BY <1>8 DEF WorkerRestart, Off
  <2> QED
    BY <1>b, <1>c, <1>8, <2>1, QuietOrder DEF WorkerRestart, publisher
<1>9. ASSUME NEW d \in Child, ChildStep(d) PROVE Ordered'
  <2>1. \A c \in Child : Steady(c)
    BY <1>c, <1>9, ChildOrder
  <2>2. UNCHANGED <<buffer, published>>
    BY <1>9 DEF ChildStep, Subscribe, ProcessEvent, ProcessFails, Commit, CommitFails,
                ConsumerFails, ChildDies, publisher
  <2> QED
    BY <1>b, <2>1, <2>2
<1>10. ASSUME NEW i \in DOMAIN alerts, SaveClip(i) \/ MissClip(i) \/ SendNotifications(i)
       PROVE  Ordered'
  BY <1>a, <1>10 DEF SaveClip, MissClip, SendNotifications, publisher, workers
<1>11. ASSUME NEW e \in Event, SegmentStep(e) PROVE Ordered'
  BY <1>a, <1>11 DEF SegmentStep, publisher, workers
<1>12. CASE UNCHANGED vars
  BY <1>a, <1>12 DEF vars, publisher, workers
<1> QED
  BY <1>1, <1>2, <1>3, <1>4, <1>5, <1>6, <1>7, <1>8, <1>9, <1>10, <1>11, <1>12
     DEF Next, ChildStep

\* The channel is implemented: children handle events without going back.
LEMMA ChannelStep ==
  TypeOK /\ Ordered /\ [Next]_vars => [Channel!Next]_(Channel!vars)
<1> SUFFICES ASSUME TypeOK, Ordered, [Next]_vars PROVE [Channel!Next]_(Channel!vars)
  OBVIOUS
<1>a. UNCHANGED <<published, handled>> => [Channel!Next]_(Channel!vars)
  BY DEF Channel!vars
<1>1. ASSUME NEW s \in {"none", "open"}, Publish(s) PROVE Channel!Next
  <2>1. published < MaxEvents /\ published' = published + 1 /\ UNCHANGED handled
    BY <1>1 DEF Publish, workers
  <2> QED
    BY <2>1 DEF Channel!Next, Channel!Publish
<1>2. ASSUME NEW c \in Child, NEW a \in 0..MaxAlerts, Ready(c), Take(c, a), UNCHANGED published
      PROVE  Channel!Next
  <2> DEFINE e == Head(consumer[c].inbox)
  <2>1. e \in Event /\ handled' = [handled EXCEPT ![c] = e] /\ handled'[c] = e
    BY <1>2, TakeShape
  <2>2. InTurn(c) /\ Precedes(c, published) /\ published \in Nat
    BY Typing DEF Ordered
  <2>3. handled[c] <= handled'[c] /\ handled'[c] <= published
    BY <1>2, <2>2, TakeOrder
  <2>4. Channel!Handle(c, e)
    BY <1>2, <2>1, <2>3 DEF Channel!Handle
  <2> QED
    BY <2>1, <2>4 DEF Channel!Next, Event
<1>3. CASE Send \/ SendFails \/ SendUnanswered
  <2>1. UNCHANGED <<published, handled>>
    BY <1>3 DEF Send, SendFails, SendUnanswered, HandleFailure
  <2> QED
    BY <1>a, <2>1
<1>4. CASE ProbeFails \/ ProbeResets
  BY <1>a, <1>4 DEF ProbeFails, ProbeResets, workers
<1>5. CASE Outage \/ Recovery \/ Redeliver \/ SendConsumer \/ WorkerRestart
  BY <1>a, <1>5 DEF Outage, Recovery, Redeliver, SendConsumer, WorkerRestart, publisher, workers
<1>6. ASSUME NEW c \in Child, ProcessEvent(c) PROVE Channel!Next
  <2>1. Begin(c, "flushed", "waiting", "waiting") /\ Take(c, Len(alerts')) /\ UNCHANGED published
    BY <1>6 DEF ProcessEvent, publisher
  <2>2. Ready(c) /\ Len(alerts') = Len(alerts) + 1 /\ Len(alerts') <= MaxAlerts
    BY <2>1, BeginShape
  <2>3. Len(alerts') \in 0..MaxAlerts
    BY <2>2, AlertRows, Typing
  <2> QED
    BY <1>2, <2>1, <2>2, <2>3
<1>7. ASSUME NEW c \in Child, ProcessFails(c) PROVE Channel!Next
  <2>1. Ready(c) /\ Take(c, 0) /\ 0 \in 0..MaxAlerts /\ UNCHANGED published
    BY <1>7, Typing DEF ProcessFails, Begin, publisher
  <2> QED
    BY <1>2, <2>1
<1>8. ASSUME NEW c \in Child, Subscribe(c) \/ Commit(c) \/ CommitFails(c)
      PROVE  UNCHANGED <<published, handled>>
  BY <1>8 DEF Subscribe, Commit, CommitFails, publisher
<1>9. ASSUME NEW c \in Child, ConsumerFails(c) \/ ChildDies(c)
      PROVE  UNCHANGED <<published, handled>>
  BY <1>9 DEF ConsumerFails, ChildDies, publisher
<1>10. ASSUME NEW i \in DOMAIN alerts, SaveClip(i) \/ MissClip(i) \/ SendNotifications(i)
       PROVE  UNCHANGED <<published, handled>>
  BY <1>10 DEF SaveClip, MissClip, SendNotifications, publisher, workers
<1>11. ASSUME NEW e \in Event, SegmentStep(e) PROVE UNCHANGED <<published, handled>>
  BY <1>11 DEF SegmentStep, publisher, workers
<1>12. CASE UNCHANGED vars
  BY <1>a, <1>12 DEF vars, publisher, workers
<1> QED
  BY <1>a, <1>1, <1>3, <1>4, <1>5, <1>6, <1>7, <1>8, <1>9, <1>10, <1>11, <1>12 DEF Next

\* The channel promised by AlertChannel is what the pipeline implements: no child handles an
\* event after a later one, or one never published, through lost replies, redeliveries, a
\* buffer that is drained late and restarts ("FIFO order preserved", redis_publisher.py:37).
THEOREM OrderKept == Spec => InOrder
<1>1. Init => Kept /\ Ordered
  <2> SUFFICES ASSUME Init PROVE Kept /\ Ordered
    OBVIOUS
  <2>1. buffer = <<>> /\ call = 0 /\ published = 0 /\ sent = {} /\ overflowed = {}
        /\ consumer = [c \in Child |-> Off] /\ handled = [c \in Child |-> 0]
    BY DEF Init
  <2>2. DOMAIN buffer = {} /\ 1..published = {}
    BY <2>1
  <2>3. Kept
    BY <2>1, <2>2 DEF Kept, Numbered, EventsAreKept
  <2>4. ASSUME NEW c \in Child
        PROVE  DOMAIN consumer[c].inbox = {} /\ handled[c] <= published
    <3>1. consumer[c].inbox = <<>> /\ handled[c] = 0
      BY <2>1 DEF Off
    <3>2. DOMAIN consumer[c].inbox = {}
      BY <3>1
    <3> QED
      BY <2>1, <3>1, <3>2
  <2>5. Ordered
    BY <2>2, <2>4 DEF Ordered, InTurn, Precedes
  <2> QED
    BY <2>3, <2>5
<1>2. Init => Channel!Init
  BY DEF Init, Channel!Init
<1> QED
  BY <1>1, <1>2, KeptStep, OrderedStep, ChannelStep, TypeCorrect, PTL
     DEF Spec, InOrder, Channel!Spec
-----------------------------------------------------------------------------
(* Alerts *)

\* A step that begins no alert changes neither the event of an alert nor its child, nor does
\* it take back a task that has been sent.
SameAlerts ==
  /\ DOMAIN alerts' = DOMAIN alerts
  /\ \A k \in DOMAIN alerts :
       /\ alerts'[k].event = alerts[k].event /\ alerts'[k].by = alerts[k].by
       /\ alerts[k].clip # "unsent" => alerts'[k].clip # "unsent"
       /\ alerts[k].note # "unsent" => alerts'[k].note # "unsent"

\* Of the steps that begin no alert, only a commit shows one to others.
NothingShown == \A k \in DOMAIN alerts : alerts'[k].row = "there" => alerts[k].row = "there"

LEMMA RollbackSame ==
  ASSUME TypeOK, NEW S, alerts' = RolledBack(S) PROVE SameAlerts /\ NothingShown
<1>1. \A k \in DOMAIN alerts : alerts'[k].row = "there" => alerts[k].row = "there"
  BY RolledBackShape
<1> QED
  BY <1>1, RolledBackShape DEF SameAlerts, NothingShown

LEMMA FieldSame ==
  ASSUME TypeOK, NEW i \in DOMAIN alerts, SaveClip(i) \/ MissClip(i) \/ SendNotifications(i)
  PROVE  SameAlerts /\ NothingShown
<1>1. alerts[i] \in Alert
  BY AlertRows
<1>2. PICK a \in Alert : /\ alerts' = [alerts EXCEPT ![i] = a]
                         /\ a.event = alerts[i].event /\ a.by = alerts[i].by
                         /\ a.row = alerts[i].row
                         /\ alerts[i].clip # "unsent" => a.clip # "unsent"
                         /\ alerts[i].note # "unsent" => a.note # "unsent"
  <2>1. CASE SaveClip(i)
    <3> DEFINE a == [alerts[i] EXCEPT !.clip = "saved"]
    <3>1. a \in Alert /\ a.event = alerts[i].event /\ a.by = alerts[i].by /\ a.row = alerts[i].row
          /\ a.clip = "saved" /\ a.note = alerts[i].note
      BY <1>1 DEF Alert
    <3>2. alerts' = [alerts EXCEPT ![i] = a]
      BY <2>1 DEF SaveClip
    <3> HIDE DEF a
    <3> QED
      BY <3>1, <3>2
  <2>2. CASE MissClip(i)
    <3> DEFINE a == [alerts[i] EXCEPT !.clip = "missed"]
    <3>1. a \in Alert /\ a.event = alerts[i].event /\ a.by = alerts[i].by /\ a.row = alerts[i].row
          /\ a.clip = "missed" /\ a.note = alerts[i].note
      BY <1>1 DEF Alert
    <3>2. alerts' = [alerts EXCEPT ![i] = a]
      BY <2>2 DEF MissClip
    <3> HIDE DEF a
    <3> QED
      BY <3>1, <3>2
  <2>3. CASE SendNotifications(i)
    <3> DEFINE a == [alerts[i] EXCEPT !.note = "run"]
    <3>1. a \in Alert /\ a.event = alerts[i].event /\ a.by = alerts[i].by /\ a.row = alerts[i].row
          /\ a.clip = alerts[i].clip /\ a.note = "run"
      BY <1>1 DEF Alert
    <3>2. alerts' = [alerts EXCEPT ![i] = a]
      BY <2>3 DEF SendNotifications
    <3> HIDE DEF a
    <3> QED
      BY <3>1, <3>2
  <2> QED
    BY <2>1, <2>2, <2>3
<1>3. DOMAIN alerts' = DOMAIN alerts /\ alerts'[i] = a
      /\ \A k \in DOMAIN alerts : k # i => alerts'[k] = alerts[k]
  BY <1>2, AlertChanged
<1> QED
  BY <1>2, <1>3 DEF SameAlerts, NothingShown

LEMMA CommitSame ==
  ASSUME TypeOK, NEW c \in Child, consumer[c].alert \in DOMAIN alerts, Commit(c)
  PROVE  /\ SameAlerts
         /\ \A k \in DOMAIN alerts :
              k # consumer[c].alert /\ alerts'[k].row = "there" => alerts[k].row = "there"
<1> DEFINE i == consumer[c].alert
           a == [alerts[i] EXCEPT !.row = "there"]
<1>1. alerts[i] \in Alert
  BY AlertRows
<1>2. a \in Alert /\ a.event = alerts[i].event /\ a.by = alerts[i].by
      /\ a.clip = alerts[i].clip /\ a.note = alerts[i].note
  BY <1>1 DEF Alert
<1>3. alerts' = [alerts EXCEPT ![i] = a]
  BY DEF Commit
<1> HIDE DEF a
<1>4. DOMAIN alerts' = DOMAIN alerts /\ alerts'[i] = a
      /\ \A k \in DOMAIN alerts : k # i => alerts'[k] = alerts[k]
  BY <1>2, <1>3, AlertChanged
<1> QED
  BY <1>2, <1>4 DEF SameAlerts

\* The alert of a transaction under way has its tasks sent already.
Pending ==
  \A c \in Child : consumer[c].alert # 0 =>
    /\ consumer[c].alert \in DOMAIN alerts
    /\ alerts[consumer[c].alert].clip # "unsent"
    /\ alerts[consumer[c].alert].note # "unsent"

Followed == Pending /\ AlertsAreFollowedUp

LEMMA FollowedStep == TypeOK /\ Followed /\ [Next]_vars => Followed'
<1> SUFFICES ASSUME TypeOK, Followed, [Next]_vars PROVE Followed'
  OBVIOUS
<1>a. ASSUME SameAlerts,
             \A c \in Child : consumer'[c].alert = consumer[c].alert \/ consumer'[c].alert = 0
      PROVE  Pending'
  BY <1>a DEF SameAlerts, Followed, Pending
<1>b. ASSUME SameAlerts, NothingShown PROVE AlertsAreFollowedUp'
  BY <1>b DEF SameAlerts, NothingShown, Followed, AlertsAreFollowedUp
<1>c. alerts' = alerts => SameAlerts /\ NothingShown
  BY DEF SameAlerts, NothingShown
<1>d. consumer \in [Child -> Consumer] /\ Off.alert = 0
      /\ [Off EXCEPT !.on = TRUE, !.sub = TRUE].alert = 0
  BY DEF TypeOK, Off
<1>1. ASSUME NEW s \in {"none", "open"}, Publish(s) PROVE Followed'
  BY <1>a, <1>b, <1>c, <1>1 DEF Publish, workers, Followed
<1>2. CASE Send \/ SendUnanswered
  <2>1. \A c \in Child : consumer'[c].alert = consumer[c].alert
    BY <1>2, RestShape, DeliverTypes DEF Send, SendUnanswered
  <2>2. alerts' = alerts
    BY <1>2 DEF Send, SendUnanswered, HandleFailure
  <2> QED
    BY <1>a, <1>b, <1>c, <2>1, <2>2 DEF Followed
<1>3. CASE SendFails \/ ProbeFails \/ ProbeResets \/ Recovery \/ Redeliver \/ SendConsumer
  <2>1. UNCHANGED <<consumer, alerts>>
    BY <1>3 DEF SendFails, HandleFailure, ProbeFails, ProbeResets, Recovery, Redeliver,
                SendConsumer, workers
  <2> QED
    BY <1>a, <1>b, <1>c, <2>1 DEF Followed
<1>4. CASE Outage
  <2>1. \A c \in Child : consumer'[c].alert = consumer[c].alert
    BY <1>4, <1>d DEF Outage, Consumer
  <2> QED
    BY <1>a, <1>b, <1>c, <1>4, <2>1 DEF Followed, Outage
<1>5. CASE WorkerRestart
  <2>1. \A c \in Child : consumer'[c].alert = 0
    BY <1>5, <1>d DEF WorkerRestart
  <2>2. SameAlerts /\ NothingShown
    BY <1>5, RollbackSame DEF WorkerRestart
  <2> QED
    BY <1>a, <1>b, <2>1, <2>2 DEF Followed
<1>6. ASSUME NEW c \in Child, Subscribe(c) \/ ConsumerFails(c) PROVE Followed'
  <2>1. \A d \in Child : consumer'[d].alert = consumer[d].alert \/ consumer'[d].alert = 0
    BY <1>6, <1>d DEF Subscribe, ConsumerFails
  <2> QED
    BY <1>a, <1>b, <1>c, <1>6, <2>1 DEF Followed, Subscribe, ConsumerFails
<1>7. ASSUME NEW c \in Child, ProcessEvent(c) PROVE Followed'
  <2>1. Begin(c, "flushed", "waiting", "waiting") /\ Take(c, Len(alerts'))
    BY <1>7 DEF ProcessEvent
  <2>2. /\ Len(alerts') = Len(alerts) + 1 /\ Len(alerts') <= MaxAlerts
        /\ DOMAIN alerts' = 1..Len(alerts')
        /\ \A k \in DOMAIN alerts : alerts'[k] = alerts[k]
        /\ alerts'[Len(alerts')] = [event |-> Head(consumer[c].inbox), by |-> c,
                                    row |-> "flushed", clip |-> "waiting", note |-> "waiting"]
        /\ Ready(c)
    BY <2>1, BeginShape
  <2>3. /\ Len(alerts') \in 0..MaxAlerts /\ Len(alerts') \in DOMAIN alerts'
        /\ \A k \in DOMAIN alerts' : k \in DOMAIN alerts \/ k = Len(alerts')
        /\ DOMAIN alerts \subseteq DOMAIN alerts'
    BY <2>2, AlertRows, Typing
  <2>4. /\ alerts'[Len(alerts')].row = "flushed" /\ alerts'[Len(alerts')].clip = "waiting"
        /\ alerts'[Len(alerts')].note = "waiting"
    BY <2>2
  <2>5. consumer'[c].alert = Len(alerts')
        /\ \A d \in Child : d # c => consumer'[d] = consumer[d]
    BY <2>1, <2>2, <2>3, TakeShape
  <2>6. Pending'
    BY <2>2, <2>3, <2>4, <2>5 DEF Followed, Pending
  <2>7. AlertsAreFollowedUp'
    BY <2>2, <2>3, <2>4 DEF Followed, AlertsAreFollowedUp
  <2> QED
    BY <2>6, <2>7 DEF Followed
<1>8. ASSUME NEW c \in Child, ProcessFails(c) PROVE Followed'
  <2>1. PICK clip \in {"unsent", "waiting"} : Begin(c, "gone", clip, "unsent")
    BY <1>8 DEF ProcessFails
  <2>2. /\ Len(alerts') = Len(alerts) + 1 /\ DOMAIN alerts' = 1..Len(alerts')
        /\ \A k \in DOMAIN alerts : alerts'[k] = alerts[k]
        /\ alerts'[Len(alerts')] = [event |-> Head(consumer[c].inbox), by |-> c,
                                    row |-> "gone", clip |-> clip, note |-> "unsent"]
        /\ Ready(c)
    <3>1. /\ clip \in {"unsent", "waiting", "saved", "missed"}
          /\ "gone" \in {"flushed", "there", "gone"} /\ "unsent" \in {"unsent", "waiting", "run"}
      OBVIOUS
    <3> QED
      BY <2>1, <3>1, BeginShape, ZenonT(60)
  <2>3. /\ \A k \in DOMAIN alerts' : k \in DOMAIN alerts \/ k = Len(alerts')
        /\ DOMAIN alerts \subseteq DOMAIN alerts'
    BY <2>2, AlertRows
  <2>4. alerts'[Len(alerts')].row = "gone"
    BY <2>2
  <2>5. consumer'[c].alert = 0 /\ \A d \in Child : d # c => consumer'[d] = consumer[d]
    <3>1. Take(c, 0) /\ 0 \in 0..MaxAlerts
      BY <1>8, Typing DEF ProcessFails
    <3> QED
      BY <2>2, <3>1, TakeShape
  <2>6. Pending'
    BY <2>2, <2>3, <2>5 DEF Followed, Pending
  <2>7. AlertsAreFollowedUp'
    BY <2>2, <2>3, <2>4 DEF Followed, AlertsAreFollowedUp
  <2> QED
    BY <2>6, <2>7 DEF Followed
<1>9. ASSUME NEW c \in Child, Commit(c) PROVE Followed'
  <2>1. /\ consumer[c].alert \in DOMAIN alerts
        /\ alerts[consumer[c].alert].clip # "unsent" /\ alerts[consumer[c].alert].note # "unsent"
    BY <1>9 DEF Commit, Followed, Pending
  <2>2. /\ SameAlerts
        /\ \A k \in DOMAIN alerts :
             k # consumer[c].alert /\ alerts'[k].row = "there" => alerts[k].row = "there"
    BY <1>9, <2>1, CommitSame
  <2>3. \A d \in Child : consumer'[d].alert = consumer[d].alert \/ consumer'[d].alert = 0
    BY <1>9, <1>d DEF Commit, Consumer
  <2>4. AlertsAreFollowedUp'
    BY <2>1, <2>2 DEF SameAlerts, Followed, AlertsAreFollowedUp
  <2> QED
    BY <1>a, <2>2, <2>3, <2>4 DEF Followed
<1>10. ASSUME NEW c \in Child, CommitFails(c) \/ ChildDies(c) PROVE Followed'
  <2>1. SameAlerts /\ NothingShown
    BY <1>10, RollbackSame DEF CommitFails, ChildDies
  <2>2. \A d \in Child : consumer'[d].alert = consumer[d].alert \/ consumer'[d].alert = 0
    BY <1>10, <1>d DEF CommitFails, ChildDies, Consumer
  <2> QED
    BY <1>a, <1>b, <2>1, <2>2 DEF Followed
<1>11. ASSUME NEW i \in DOMAIN alerts, SaveClip(i) \/ MissClip(i) \/ SendNotifications(i)
       PROVE  Followed'
  <2>1. SameAlerts /\ NothingShown
    BY <1>11, FieldSame
  <2>2. UNCHANGED consumer
    BY <1>11 DEF SaveClip, MissClip, SendNotifications, workers
  <2> QED
    BY <1>a, <1>b, <2>1, <2>2 DEF Followed
<1>12. ASSUME NEW e \in Event, SegmentStep(e) PROVE Followed'
  BY <1>a, <1>b, <1>c, <1>12 DEF SegmentStep, workers, Followed
<1>13. CASE UNCHANGED vars
  BY <1>a, <1>b, <1>c, <1>13 DEF vars, workers, Followed
<1> QED
  BY <1>1, <1>2, <1>3, <1>4, <1>5, <1>6, <1>7, <1>8, <1>9, <1>10, <1>11, <1>12, <1>13 DEF Next

\* An alert that others can see has both its tasks sent, whatever befell its consumer
\* (alert_consumer.py:118-121).
THEOREM FollowedUp == Spec => []AlertsAreFollowedUp
<1>1. Init => Followed
  <2> SUFFICES ASSUME Init PROVE Followed
    OBVIOUS
  <2>1. DOMAIN alerts = {}
    BY DEF Init
  <2>2. \A c \in Child : consumer[c].alert = 0
    BY DEF Init, Off
  <2> QED
    BY <2>1, <2>2 DEF Followed, Pending, AlertsAreFollowedUp
<1>2. Followed => AlertsAreFollowedUp
  BY DEF Followed
<1> QED
  BY <1>1, <1>2, FollowedStep, TypeCorrect, PTL DEF Spec
-----------------------------------------------------------------------------
(* Repetitions *)

\* An event that has not been in the buffer and is under way has not been sent yet.
Unsent ==
  /\ \A i \in DOMAIN buffer : buffer[i] \in buffered
  /\ call # 0 /\ call \notin buffered => call \notin sent
  /\ \A k \in DOMAIN alerts : alerts[k].event \in sent

\* What child c has received, it has received once and made no alert of, unless it has been
\* in the buffer.
Fresh(c) ==
  /\ \A i \in DOMAIN consumer[c].inbox : consumer[c].inbox[i] \in sent
  /\ \A i, j \in DOMAIN consumer[c].inbox :
       i # j /\ consumer[c].inbox[i] = consumer[c].inbox[j] => consumer[c].inbox[i] \in buffered
  /\ \A i \in DOMAIN consumer[c].inbox, k \in DOMAIN alerts :
       alerts[k].by = c /\ alerts[k].event = consumer[c].inbox[i] =>
         alerts[k].event \in buffered

Once == Unsent /\ UnbufferedOnce /\ \A c \in Child : Fresh(c)

\* With the same alerts, an inbox that is left alone or emptied stays fresh, and so does
\* what the alerts say.
LEMMA StillFresh ==
  ASSUME TypeOK, Once, SameAlerts, sent \subseteq sent', buffered \subseteq buffered',
         NEW c \in Child,
         consumer'[c].inbox = consumer[c].inbox \/ consumer'[c].inbox = <<>>
  PROVE  Fresh(c)'
<1>1. CASE consumer'[c].inbox = consumer[c].inbox
  BY <1>1 DEF Once, Fresh, SameAlerts
<1>2. CASE consumer'[c].inbox = <<>>
  <2>1. DOMAIN consumer'[c].inbox = {}
    BY <1>2
  <2> QED
    BY <2>1 DEF Fresh
<1> QED
  BY <1>1, <1>2

LEMMA StillOnce ==
  ASSUME TypeOK, Once, SameAlerts, sent \subseteq sent', buffered \subseteq buffered'
  PROVE  UnbufferedOnce' /\ \A k \in DOMAIN alerts' : alerts'[k].event \in sent'
BY DEF Once, Unsent, UnbufferedOnce, SameAlerts

\* A consumer's step that begins no alert.
LEMMA QuietOnce ==
  ASSUME TypeOK, Once, SameAlerts, UNCHANGED <<buffer, call, sent, buffered>>,
         \A c \in Child : consumer'[c].inbox = consumer[c].inbox \/ consumer'[c].inbox = <<>>
  PROVE  Once'
<1>1. \A c \in Child : Fresh(c)'
  BY StillFresh
<1>2. UnbufferedOnce' /\ \A k \in DOMAIN alerts' : alerts'[k].event \in sent'
  BY StillOnce
<1>3. Unsent'
  BY <1>2 DEF Once, Unsent
<1> QED
  BY <1>1, <1>2, <1>3 DEF Once

\* An event that is sent for the first time, or has been in the buffer, leaves inboxes fresh.
LEMMA DeliverFresh ==
  ASSUME TypeOK, Once, NEW e \in Event, Deliver(e), e \in buffered \/ e \notin sent,
         buffered \subseteq buffered', alerts' = alerts, NEW c \in Child
  PROVE  Fresh(c)'
<1> DEFINE old == consumer[c].inbox
           new == consumer'[c].inbox
<1>0. old \in Seq(Event) /\ Len(old) \in Nat /\ DOMAIN old = 1..Len(old)
  BY Inboxes
<1>1. new = old \/ new = Append(old, e)
  BY DeliverTypes
<1>2. sent' = sent \cup {e}
  BY DEF Deliver
<1>3. CASE new = old
  <2>1. SameAlerts
    BY DEF SameAlerts
  <2> QED
    BY <1>2, <1>3, <2>1, StillFresh
<1>4. CASE new = Append(old, e)
  <2>1. /\ new \in Seq(Event) /\ Len(new) = Len(old) + 1
        /\ \A i \in 1..Len(old) : new[i] = old[i]
        /\ new[Len(old) + 1] = e
    BY <1>0, <1>4, AppendProperties
  <2>2. DOMAIN new = 1..(Len(old) + 1)
    BY <2>1, LenProperties
  <2>3. /\ \A i \in DOMAIN old : old[i] \in sent
        /\ \A i, j \in DOMAIN old : i # j /\ old[i] = old[j] => old[i] \in buffered
        /\ \A i \in DOMAIN old, k \in DOMAIN alerts :
             alerts[k].by = c /\ alerts[k].event = old[i] => alerts[k].event \in buffered
        /\ \A k \in DOMAIN alerts : alerts[k].event \in sent
    BY DEF Once, Unsent, Fresh
  <2> HIDE DEF old, new
  <2>4. ASSUME NEW i \in DOMAIN new
        PROVE  (i \in DOMAIN old /\ new[i] = old[i]) \/ (i = Len(old) + 1 /\ new[i] = e)
    <3>1. i \in 1..Len(old) \/ i = Len(old) + 1
      BY <1>0, <2>2
    <3> QED
      BY <1>0, <2>1, <3>1
  <2>5. \A i \in DOMAIN new : new[i] \in sent'
    BY <1>2, <2>3, <2>4
  <2>6. ASSUME NEW i \in DOMAIN new, NEW j \in DOMAIN new, i # j, new[i] = new[j]
        PROVE  new[i] \in buffered
    BY <2>3, <2>4, <2>6
  <2>7. ASSUME NEW i \in DOMAIN new, NEW k \in DOMAIN alerts,
               alerts[k].by = c, alerts[k].event = new[i]
        PROVE  alerts[k].event \in buffered
    BY <2>3, <2>4, <2>7
  <2> QED
    BY <2>5, <2>6, <2>7 DEF Fresh, new
<1> QED
  BY <1>1, <1>3, <1>4

\* The event that is sent next has been in the buffer, or is sent for the first time.
LEMMA SendingFresh ==
  ASSUME TypeOK, Once, call # 0
  PROVE  /\ Sending \in buffered \/ (Sending = call /\ Len(buffer) = 0)
         /\ Sending \in buffered \/ Sending \notin sent
         /\ \A i \in 1..Len(Rest) : Rest[i] \in buffered
<1>1. CASE Len(buffer) = 0
  <2>1. Sending = call /\ Len(Rest) = 0
    BY <1>1, RestShape
  <2> QED
    BY <1>1, <2>1 DEF Once, Unsent
<1>2. CASE Len(buffer) # 0
  <2>1. 1 \in DOMAIN buffer /\ Sending = buffer[1]
    BY <1>2, RestShape
  <2>2. \A i \in 1..Len(Rest) : Rest[i] \in buffered
    BY RestShape DEF Once, Unsent
  <2> QED
    BY <2>1, <2>2 DEF Once, Unsent
<1> QED
  BY <1>1, <1>2

\* A child that takes an event and begins an alert of it.
LEMMA BeginOnce ==
  ASSUME TypeOK, Once, NEW c \in Child,
         NEW row \in {"flushed", "there", "gone"},
         NEW clip \in {"unsent", "waiting", "saved", "missed"},
         NEW note \in {"unsent", "waiting", "run"},
         Begin(c, row, clip, note), NEW a \in 0..MaxAlerts, Take(c, a),
         UNCHANGED <<buffer, call, sent, buffered>>
  PROVE  Once'
<1> DEFINE old == consumer[c].inbox
           new == consumer'[c].inbox
           n == Len(alerts')
<1>1. /\ n = Len(alerts) + 1 /\ DOMAIN alerts' = 1..n
      /\ \A k \in DOMAIN alerts : alerts'[k] = alerts[k]
      /\ alerts'[n].event = Head(old) /\ alerts'[n].by = c
      /\ Ready(c)
  <2>1. /\ Len(alerts') = Len(alerts) + 1 /\ DOMAIN alerts' = 1..Len(alerts')
        /\ \A i \in DOMAIN alerts : alerts'[i] = alerts[i]
    BY BeginShape
  <2>2. alerts'[Len(alerts')].event = Head(consumer[c].inbox) /\ alerts'[Len(alerts')].by = c
    BY BeginShape, ZenonT(60)
  <2>3. Ready(c)
    BY DEF Begin
  <2> QED
    BY <2>1, <2>2, <2>3
<1>2. /\ DOMAIN old = 1..Len(old) /\ Len(old) \in Nat \ {0} /\ Head(old) = old[1]
      /\ new \in Seq(Event) /\ Len(new) = Len(old) - 1
      /\ \A i \in 1..Len(new) : new[i] = old[i + 1]
      /\ \A d \in Child : d # c => consumer'[d] = consumer[d]
  BY <1>1, TakeShape, Inboxes
<1>3. alerts'[n].event = old[1] /\ alerts'[n].by = c
  BY <1>1, <1>2
<1>4. \A k \in DOMAIN alerts' : k \in DOMAIN alerts \/ k = n
  BY <1>1, AlertRows
<1>5. 1 \in DOMAIN old
  BY <1>2
<1>6. DOMAIN new = 1..Len(new) /\ Len(new) \in Nat
  BY <1>2, LenProperties
<1>7. \A i \in DOMAIN new : i + 1 \in DOMAIN old /\ i + 1 # 1 /\ new[i] = old[i + 1]
  <2> HIDE DEF old, new
  <2> SUFFICES ASSUME NEW i \in DOMAIN new
               PROVE  i + 1 \in DOMAIN old /\ i + 1 # 1 /\ new[i] = old[i + 1]
    OBVIOUS
  <2>1. i \in 1..Len(new)
    BY <1>6
  <2>2. new[i] = old[i + 1]
    BY <1>2, <2>1
  <2>3. i + 1 \in 1..Len(old) /\ i + 1 # 1
    BY <1>2, <1>6, <2>1
  <2> QED
    BY <1>2, <2>2, <2>3
<1>8. /\ \A i \in DOMAIN old : old[i] \in sent
      /\ \A i, j \in DOMAIN old : i # j /\ old[i] = old[j] => old[i] \in buffered
      /\ \A i \in DOMAIN old, k \in DOMAIN alerts :
           alerts[k].by = c /\ alerts[k].event = old[i] => alerts[k].event \in buffered
      /\ \A k \in DOMAIN alerts : alerts[k].event \in sent
  BY DEF Once, Unsent, Fresh
<1> HIDE DEF old, new, n
<1>9. Unsent'
  BY <1>1, <1>3, <1>4, <1>5, <1>8 DEF Once, Unsent
<1>10. ASSUME NEW i \in DOMAIN alerts', NEW j \in DOMAIN alerts', i # j,
              alerts'[i].event = alerts'[j].event, alerts'[i].by = alerts'[j].by
       PROVE  alerts'[i].event \in buffered
  <2>1. CASE i \in DOMAIN alerts /\ j \in DOMAIN alerts
    BY <1>1, <1>10, <2>1 DEF Once, UnbufferedOnce
  <2>2. CASE i \in DOMAIN alerts /\ j = n
    BY <1>1, <1>3, <1>5, <1>8, <1>10, <2>2
  <2>3. CASE i = n /\ j \in DOMAIN alerts
    BY <1>1, <1>3, <1>5, <1>8, <1>10, <2>3
  <2> QED
    BY <1>4, <1>10, <2>1, <2>2, <2>3
<1>11. UnbufferedOnce'
  BY <1>10 DEF UnbufferedOnce
<1>12. Fresh(c)'
  <2>1. \A i \in DOMAIN new : new[i] \in sent
    BY <1>7, <1>8
  <2>2. ASSUME NEW i \in DOMAIN new, NEW j \in DOMAIN new, i # j, new[i] = new[j]
        PROVE  new[i] \in buffered
    <3>1. i + 1 # j + 1
      BY <1>6, <2>2
    <3> QED
      BY <1>7, <1>8, <2>2, <3>1
  <2>3. ASSUME NEW i \in DOMAIN new, NEW k \in DOMAIN alerts',
               alerts'[k].by = c, alerts'[k].event = new[i]
        PROVE  alerts'[k].event \in buffered
    <3>1. CASE k \in DOMAIN alerts
      BY <1>1, <1>7, <1>8, <2>3, <3>1
    <3>2. CASE k = n
      BY <1>3, <1>5, <1>7, <1>8, <2>3, <3>2
    <3> QED
      BY <1>4, <3>1, <3>2
  <2> QED
    BY <2>1, <2>2, <2>3 DEF Fresh, new
<1>13. ASSUME NEW d \in Child, d # c PROVE Fresh(d)'
  <2>1. consumer'[d] = consumer[d]
    BY <1>2, <1>13
  <2>2. Fresh(d)
    BY DEF Once
  <2>3. \A k \in DOMAIN alerts' : alerts'[k].by = d => k \in DOMAIN alerts /\ alerts'[k] = alerts[k]
    BY <1>1, <1>3, <1>4, <1>13
  <2> QED
    BY <2>1, <2>2, <2>3 DEF Fresh
<1> QED
  BY <1>9, <1>11, <1>12, <1>13 DEF Once

LEMMA OnceStep == TypeOK /\ Kept /\ Once /\ [Next]_vars => Once'
<1> SUFFICES ASSUME TypeOK, Kept, Once, [Next]_vars PROVE Once'
  OBVIOUS
<1>a. alerts' = alerts => SameAlerts
  BY DEF SameAlerts
<1>b. ASSUME UNCHANGED <<consumer, alerts, buffer, call, sent, buffered>> PROVE Once'
  BY <1>a, <1>b, QuietOnce
<1>c. consumer \in [Child -> Consumer] /\ Off.inbox = <<>>
      /\ [Off EXCEPT !.on = TRUE, !.sub = TRUE].inbox = <<>>
  BY DEF TypeOK, Off
<1>1. ASSUME NEW s \in {"none", "open"}, Publish(s) PROVE Once'
  <2> DEFINE e == published + 1
  <2>0. e \in Event /\ e \in Nat /\ published \in Nat /\ e \notin sent
        /\ UNCHANGED <<consumer, alerts, sent>>
    <3>1. e \in Event /\ e \in Nat /\ published \in Nat
      BY <1>1, Typing DEF Publish, Event, TypeOK
    <3>2. sent \subseteq 1..published
      BY DEF Kept, Numbered
    <3> QED
      BY <1>1, <3>1, <3>2 DEF Publish, workers
  <2>1. /\ buffered \subseteq buffered' /\ call' \in {0, e}
        /\ \A i \in DOMAIN buffer' : buffer'[i] \in buffered'
    <3>1. CASE connected
      BY <1>1, <3>1 DEF Publish, Once, Unsent
    <3>2. CASE ~connected
      <4>1. Push(buffer, e) /\ call' \in {0, e}
        BY <1>1, <3>2 DEF Publish
      <4>2. buffer \in Seq(Event) /\ Len(buffer) <= MaxBuffer /\ DOMAIN buffer = 1..Len(buffer)
        BY Typing DEF TypeOK
      <4>3. /\ \A i \in 1..Len(buffer) : buffer[i] \in 1..e
            /\ \A i, j \in 1..Len(buffer) : i <= j => buffer[i] <= buffer[j]
            /\ overflowed \subseteq 1..e
            /\ \A o \in overflowed : \A i \in 1..Len(buffer) : o <= buffer[i]
        BY <2>0, <4>2 DEF Kept, Numbered, EventsAreKept
      <4>4. buffered' = buffered \cup {e}
        BY <4>1 DEF Push
      <4> HIDE DEF e
      <4>5. \A j \in DOMAIN buffer' :
              buffer'[j] = e \/ \E i \in 1..Len(buffer) : buffer'[j] = buffer[i]
        BY <2>0, <4>1, <4>2, <4>3, PushKeeps
      <4> QED
        BY <4>1, <4>2, <4>4, <4>5 DEF Once, Unsent
    <3> QED
      BY <3>1, <3>2
  <2> HIDE DEF e
  <2>2. SameAlerts /\ sent \subseteq sent'
    BY <1>a, <2>0
  <2>3. \A c \in Child : Fresh(c)'
    BY <2>0, <2>1, <2>2, StillFresh
  <2>4. UnbufferedOnce' /\ \A k \in DOMAIN alerts' : alerts'[k].event \in sent'
    BY <2>1, <2>2, StillOnce
  <2>5. Unsent'
    BY <2>0, <2>1, <2>4 DEF Unsent
  <2> QED
    BY <2>3, <2>4, <2>5 DEF Once
<1>2. ASSUME call # 0, Deliver(Sending) \/ UNCHANGED <<consumer, sent>>, HandleFailure
      PROVE  Once'
  <2>1. /\ Sending \in Event /\ (Sending \in buffered \/ Sending \notin sent)
        /\ \A i \in 1..Len(Rest) : Rest[i] \in buffered
    <3>1. Sending \in Event
      BY <1>2, RestShape
    <3> QED
      BY <1>2, <3>1, SendingFresh
  <2>2. buffered' = buffered \cup {call} /\ call' = 0 /\ alerts' = alerts
    BY <1>2 DEF HandleFailure, Push
  <2>3. SameAlerts /\ buffered \subseteq buffered'
    BY <1>a, <2>2
  <2>4. sent \subseteq sent'
    BY <1>2 DEF Deliver
  <2>5. \A c \in Child : Fresh(c)'
    <3>1. CASE Deliver(Sending)
      BY <2>1, <2>2, <2>3, <3>1, DeliverFresh
    <3>2. CASE UNCHANGED <<consumer, sent>>
      BY <2>3, <2>4, <3>2, StillFresh
    <3> QED
      BY <1>2, <3>1, <3>2
  <2>6. UnbufferedOnce' /\ \A k \in DOMAIN alerts' : alerts'[k].event \in sent'
    BY <2>3, <2>4, StillOnce
  <2>7. \A i \in DOMAIN buffer' : buffer'[i] \in buffered'
    <3>1. \A i \in DOMAIN buffer' :
            buffer'[i] = call \/ \E j \in 1..Len(Rest) : buffer'[i] = Rest[j]
      BY <1>2, FailureRest
    <3> QED
      BY <2>1, <2>2, <3>1
  <2>8. Unsent'
    BY <2>2, <2>6, <2>7 DEF Unsent
  <2> QED
    BY <2>5, <2>6, <2>8 DEF Once
<1>3. CASE Send
  <2>1. /\ call # 0 /\ Deliver(Sending) /\ buffer' = Rest
        /\ UNCHANGED <<buffered, alerts>>
    BY <1>3 DEF Send
  <2>2. Sending \in Event /\ DOMAIN Rest = 1..Len(Rest)
    BY <2>1, RestShape
  <2>3. Sending \in buffered \/ (Sending = call /\ Len(buffer) = 0)
    BY <2>1, SendingFresh
  <2>4. Sending \in buffered \/ Sending \notin sent
    BY <2>1, SendingFresh
  <2>5. \A i \in DOMAIN buffer' : buffer'[i] \in buffered'
    BY <2>1, <2>2, SendingFresh
  <2>6. \A c \in Child : Fresh(c)'
    BY <2>1, <2>2, <2>4, DeliverFresh
  <2>7. SameAlerts /\ sent' = sent \cup {Sending}
    BY <1>a, <2>1 DEF Deliver
  <2>8. UnbufferedOnce' /\ \A k \in DOMAIN alerts' : alerts'[k].event \in sent'
    BY <2>1, <2>7, StillOnce
  <2>9. call' # 0 /\ call' \notin buffered' => call' \notin sent'
    <3>1. CASE Len(buffer) = 0
      <4>1. buffer = <<>>
        BY <2>1, <3>1, RestShape
      <4> QED
        BY <1>3, <4>1 DEF Send
    <3>2. CASE Len(buffer) # 0
      <4>1. call' \in {0, call}
        BY <1>3 DEF Send
      <4> QED
        BY <2>1, <2>3, <2>7, <3>2, <4>1 DEF Once, Unsent
    <3> QED
      BY <3>1, <3>2
  <2> QED
    BY <2>5, <2>6, <2>8, <2>9 DEF Once, Unsent
<1>4. CASE SendFails \/ SendUnanswered
  BY <1>2, <1>4 DEF SendFails, SendUnanswered
<1>5. CASE ProbeFails \/ ProbeResets \/ Recovery \/ Redeliver \/ SendConsumer
  BY <1>b, <1>5 DEF ProbeFails, ProbeResets, Recovery, Redeliver, SendConsumer, publisher,
                    workers
<1>6. CASE Outage
  <2>1. \A c \in Child : consumer'[c].inbox = consumer[c].inbox
    BY <1>6, <1>c DEF Outage, Consumer
  <2> QED
    BY <1>a, <1>6, <2>1, QuietOnce DEF Outage, publisher
<1>7. CASE WorkerRestart
  <2>1. \A c \in Child : consumer'[c].inbox = <<>>
    BY <1>7, <1>c DEF WorkerRestart
  <2>2. SameAlerts
    BY <1>7, RollbackSame DEF WorkerRestart
  <2> QED
    BY <1>7, <2>1, <2>2, QuietOnce DEF WorkerRestart, publisher
<1>8. ASSUME NEW c \in Child, Subscribe(c) \/ ConsumerFails(c) \/ ChildDies(c) PROVE Once'
  <2>1. \A d \in Child : consumer'[d].inbox = consumer[d].inbox \/ consumer'[d].inbox = <<>>
    BY <1>8, <1>c DEF Subscribe, ConsumerFails, ChildDies
  <2>2. SameAlerts /\ UNCHANGED publisher
    BY <1>a, <1>8, RollbackSame DEF Subscribe, ConsumerFails, ChildDies
  <2> QED
    BY <2>1, <2>2, QuietOnce DEF publisher
<1>9. ASSUME NEW c \in Child, ProcessEvent(c) PROVE Once'
  <2>1. Begin(c, "flushed", "waiting", "waiting") /\ Take(c, Len(alerts')) /\ UNCHANGED publisher
    BY <1>9 DEF ProcessEvent
  <2>2. Len(alerts') = Len(alerts) + 1 /\ Len(alerts') <= MaxAlerts
    BY <2>1, BeginShape
  <2>3. Len(alerts') \in 0..MaxAlerts
    BY <2>2, AlertRows, Typing
  <2> QED
    BY <2>1, <2>3, BeginOnce DEF publisher
<1>10. ASSUME NEW c \in Child, ProcessFails(c) PROVE Once'
  <2>1. PICK clip \in {"unsent", "waiting"} : Begin(c, "gone", clip, "unsent")
    BY <1>10 DEF ProcessFails
  <2>2. Take(c, 0) /\ 0 \in 0..MaxAlerts /\ UNCHANGED publisher
    BY <1>10, Typing DEF ProcessFails
  <2> QED
    BY <2>1, <2>2, BeginOnce DEF publisher
<1>11. ASSUME NEW c \in Child, Commit(c) \/ CommitFails(c) PROVE Once'
  <2>0. consumer' = [consumer EXCEPT ![c].alert = 0]
    BY <1>11 DEF Commit, CommitFails
  <2>1. \A d \in Child : consumer'[d].inbox = consumer[d].inbox
    BY <1>c, <2>0 DEF Consumer
  <2>2. SameAlerts
    <3>1. CASE Commit(c) /\ consumer[c].alert \in DOMAIN alerts
      BY <3>1, CommitSame
    <3>2. CASE Commit(c) /\ consumer[c].alert \notin DOMAIN alerts
      <4>1. alerts' = alerts
        BY <3>2 DEF Commit, TypeOK
      <4> QED
        BY <1>a, <4>1
    <3>3. CASE CommitFails(c)
      BY <3>3, RollbackSame DEF CommitFails
    <3> QED
      BY <1>11, <3>1, <3>2, <3>3
  <2>3. UNCHANGED publisher
    BY <1>11 DEF Commit, CommitFails
  <2> QED
    BY <2>1, <2>2, <2>3, QuietOnce DEF publisher
<1>12. ASSUME NEW i \in DOMAIN alerts, SaveClip(i) \/ MissClip(i) \/ SendNotifications(i)
       PROVE  Once'
  <2>1. SameAlerts
    BY <1>12, FieldSame
  <2>2. UNCHANGED <<consumer, buffer, call, sent, buffered>>
    BY <1>12 DEF SaveClip, MissClip, SendNotifications, publisher, workers
  <2> QED
    BY <2>1, <2>2, QuietOnce
<1>13. ASSUME NEW e \in Event, SegmentStep(e) PROVE Once'
  BY <1>b, <1>13 DEF SegmentStep, publisher, workers
<1>14. CASE UNCHANGED vars
  BY <1>b, <1>14 DEF vars, publisher, workers
<1> QED
  BY <1>1, <1>3, <1>4, <1>5, <1>6, <1>7, <1>8, <1>9, <1>10, <1>11, <1>12, <1>13, <1>14 DEF Next

\* An event that was never in the buffer leads to at most one alert per child
\* (redis_publisher.py:41, alert_consumer.py:58-77).
THEOREM UnbufferedAlertedOnce == Spec => []UnbufferedOnce
<1>1. Init => Kept /\ Once
  <2> SUFFICES ASSUME Init PROVE Kept /\ Once
    OBVIOUS
  <2>1. buffer = <<>> /\ call = 0 /\ published = 0 /\ sent = {} /\ overflowed = {}
        /\ alerts = <<>> /\ consumer = [c \in Child |-> Off]
    BY DEF Init
  <2>2. DOMAIN buffer = {} /\ 1..published = {} /\ DOMAIN alerts = {}
    BY <2>1
  <2>3. Kept
    BY <2>1, <2>2 DEF Kept, Numbered, EventsAreKept
  <2>4. ASSUME NEW c \in Child PROVE DOMAIN consumer[c].inbox = {}
    <3>1. consumer[c].inbox = <<>>
      BY <2>1 DEF Off
    <3> QED
      BY <3>1
  <2>5. Once
    BY <2>1, <2>2, <2>4 DEF Once, Unsent, UnbufferedOnce, Fresh
  <2> QED
    BY <2>3, <2>5
<1>2. Once => UnbufferedOnce
  BY DEF Once
<1> QED
  BY <1>1, <1>2, KeptStep, OnceStep, TypeCorrect, PTL DEF Spec
=============================================================================
