-------------------------- MODULE TransportServer --------------------------
(***************************************************************************)
(* TransportServer (transport/server.ts): connections whose TLS handshake   *)
(* is followed by a session, streams with a timer for their body, the       *)
(* agent's request handler, and stop.                                       *)
(***************************************************************************)
EXTENDS Naturals

CONSTANTS
  Connections,
  Streams,
  NoConnection

VARIABLES
  listening,   \* "down", "failed" (start never ends), "up", "closing"
  connection,  \* of each connection: "none", "securing", "open", "closed"
  carrier,     \* of each stream: the connection that opened it
  task,        \* of each stream: "none", "reading", "handling", "over"
  answer,      \* of each stream: the status it was answered with, or "none"
  destroyed    \* streams that are closed

serverVars == <<listening, connection, carrier, task, answer, destroyed>>

TransportInit ==
  /\ listening = "down"
  /\ connection = [c \in Connections |-> "none"]
  /\ carrier = [s \in Streams |-> NoConnection]
  /\ task = [s \in Streams |-> "none"]
  /\ answer = [s \in Streams |-> "none"]
  /\ destroyed = {}

\* start; a port that is taken is reported, and the promise never settles.
Listen ==
  /\ listening = "down"
  /\ listening' \in {"up", "failed"}
  /\ UNCHANGED <<connection, carrier, task, answer, destroyed>>

Dial(c) ==
  /\ listening = "up"
  /\ connection[c] = "none"
  /\ connection' = [connection EXCEPT ![c] = "securing"]
  /\ UNCHANGED <<listening, carrier, task, answer, destroyed>>

\* The 'session' event, destroyed again without a client certificate; a
\* handshake that began before stop ends after it.
SessionBegins(c) ==
  /\ connection[c] = "securing"
  /\ \E state \in {"open", "closed"} : connection' = [connection EXCEPT ![c] = state]
  /\ UNCHANGED <<listening, carrier, task, answer, destroyed>>

\* The 'stream' event: its timer runs while the body is read.
StreamBegins(s, c) ==
  /\ connection[c] = "open"
  /\ task[s] = "none"
  /\ carrier' = [carrier EXCEPT ![s] = c]
  /\ task' = [task EXCEPT ![s] = "reading"]
  /\ UNCHANGED <<listening, connection, answer, destroyed>>

\* A stream that was answered and whose body is read is destroyed by http2.
Respond(s, status) ==
  /\ answer' = [answer EXCEPT ![s] = IF s \in destroyed \/ @ # "none" THEN @ ELSE status]
  /\ destroyed' = destroyed \cup {s}

\* The body is complete, and the timer cleared.  A stream that was answered
\* with 408 is handled all the same.
BodyRead(s) ==
  /\ task[s] = "reading"
  /\ s \notin destroyed
  /\ task' = [task EXCEPT ![s] = "handling"]
  /\ destroyed' = IF answer[s] = "none" THEN destroyed ELSE destroyed \cup {s}
  /\ UNCHANGED <<listening, connection, carrier, answer>>

\* Reading a destroyed stream throws; there is nothing left to answer.
BodyThrows(s) ==
  /\ task[s] = "reading"
  /\ s \in destroyed
  /\ task' = [task EXCEPT ![s] = "over"]
  /\ UNCHANGED <<listening, connection, carrier, answer, destroyed>>

\* Faulty variant of Handled: a handler that throws is only reported.
HandledSilently(s) ==
  /\ task[s] = "handling"
  /\ task' = [task EXCEPT ![s] = "over"]
  /\ Respond(s, "200") \/ UNCHANGED <<answer, destroyed>>
  /\ UNCHANGED <<listening, connection, carrier>>

\* The handler returned or threw.  It awaits the tool of the application, so it
\* may also never end.
Handled(s) ==
  /\ task[s] = "handling"
  /\ task' = [task EXCEPT ![s] = "over"]
  /\ \E status \in {"200", "500"} : Respond(s, status)
  /\ UNCHANGED <<listening, connection, carrier>>

\* The timer of a stream whose body is not there.
BodyTimeout(s) ==
  /\ task[s] = "reading"
  /\ s \notin destroyed
  /\ answer[s] = "none"
  /\ answer' = [answer EXCEPT ![s] = "408"]
  /\ UNCHANGED <<listening, connection, carrier, task, destroyed>>

\* The peer resets a stream, as any HTTP/2 client may; TransportClient only
\* rejects its promise at its timeout, and leaves the stream open.
StreamReset(s) ==
  /\ task[s] # "none"
  /\ destroyed' = destroyed \cup {s}
  /\ UNCHANGED <<listening, connection, carrier, task, answer>>

Close(cs) ==
  /\ connection' = [c \in Connections |-> IF c \in cs THEN "closed" ELSE connection[c]]
  /\ destroyed' = destroyed \cup {s \in Streams : carrier[s] \in cs}
  /\ UNCHANGED <<carrier, task, answer>>

ConnectionLost(c) ==
  /\ connection[c] \in {"securing", "open"}
  /\ Close({c})
  /\ UNCHANGED listening

\* stop: streams and sessions are destroyed; connections still in their TLS
\* handshake are no sessions yet.
StopListening ==
  /\ listening = "up"
  /\ listening' = "closing"
  /\ Close({c \in Connections : connection[c] = "open"})

\* server.close calls back when no connection is left, or nothing listened.
Stopped ==
  /\ \/ listening = "failed"
     \/ listening = "closing" /\ \A c \in Connections : connection[c] \in {"none", "closed"}
  /\ listening' = "down"
  /\ UNCHANGED <<connection, carrier, task, answer, destroyed>>

TransportNext ==
  \/ Listen \/ StopListening \/ Stopped
  \/ \E c \in Connections : Dial(c) \/ SessionBegins(c) \/ ConnectionLost(c)
  \/ \E s \in Streams :
       \/ \E c \in Connections : StreamBegins(s, c)
       \/ BodyRead(s) \/ BodyThrows(s) \/ Handled(s) \/ BodyTimeout(s) \/ StreamReset(s)

\* The timer of a stream fires.  Nothing makes the handler end.
TransportFairness == \A s \in Streams : WF_serverVars(BodyTimeout(s))
-----------------------------------------------------------------------------
\* Whatever the peer sends, and however the timer, the body, a reset, the end of
\* the handler, a lost connection and stop meet: a stream is answered or gone in
\* the end, unless its handler runs for ever (handleStream: the timer ends with
\* the body, and nothing else bounds the handler).
StreamsSettle ==
  \A s \in Streams :
    task[s] # "none" ~> \/ answer[s] # "none"
                        \/ s \in destroyed
                        \/ [](task[s] = "handling")
=============================================================================
