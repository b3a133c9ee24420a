---------------------------- MODULE WebhookRelay ----------------------------
(***************************************************************************)
(* The webhook-relay agent (blueprints/webhook-relay/agent.ts): webhooks    *)
(* whose bodies arrive side by side, and the buffer replay looks into.      *)
(***************************************************************************)
EXTENDS Naturals, Sequences

CONSTANTS
  Webhooks,
  MaxEvents

ASSUME RelayAssumption == MaxEvents \in Nat \ {0}

VARIABLES
  webhook,       \* of each: "none", "reading", "received", "refused", "broken"
  eventId,       \* the id it was answered with, or 0
  events,        \* ids of the events in the buffer
  eventCounter

relayVars == <<webhook, eventId, events, eventCounter>>

RelayInit ==
  /\ webhook = [w \in Webhooks |-> "none"]
  /\ eventId = [w \in Webhooks |-> 0]
  /\ events = <<>>
  /\ eventCounter = 0

Post(w) ==
  /\ webhook[w] = "none"
  /\ webhook' = [webhook EXCEPT ![w] = "reading"]
  /\ UNCHANGED <<eventId, events, eventCounter>>

\* Faulty variant of Buffered: a full buffer makes room first, and once more.
BufferedTwice(id) ==
  LET s == Append(events, id)
  IN  IF Len(s) >= MaxEvents THEN SubSeq(s, Len(s) - MaxEvents + 2, Len(s)) ELSE s

\* addEvent.
Buffered(id) ==
  LET s == Append(events, id)
  IN  IF Len(s) > MaxEvents THEN SubSeq(s, Len(s) - MaxEvents + 1, Len(s)) ELSE s

\* The body is there: the event gets its id and is buffered, or its signature
\* is wrong.
Read(w) ==
  /\ webhook[w] = "reading"
  /\ \/ /\ webhook' = [webhook EXCEPT ![w] = "received"]
        /\ eventCounter' = eventCounter + 1
        /\ eventId' = [eventId EXCEPT ![w] = eventCounter + 1]
        /\ events' = Buffered(eventCounter + 1)
     \/ /\ webhook' = [webhook EXCEPT ![w] = "refused"]
        /\ UNCHANGED <<eventId, events, eventCounter>>

BodyBreaks(w) ==
  /\ webhook[w] = "reading"
  /\ webhook' = [webhook EXCEPT ![w] = "broken"]
  /\ UNCHANGED <<eventId, events, eventCounter>>

RelayNext == \E w \in Webhooks : Post(w) \/ Read(w) \/ BodyBreaks(w)

\* replay.
Found(id) == \E i \in DOMAIN events : events[i] = id
-----------------------------------------------------------------------------
\* An event that was answered can be replayed until maxEvents newer ones came,
\* and not after (addEvent, replay).
Replayable ==
  \A w \in Webhooks :
    webhook[w] = "received" => (Found(eventId[w]) <=> eventCounter < eventId[w] + MaxEvents)
=============================================================================
