------------------------------- MODULE Client -------------------------------
(***************************************************************************)
(* TransportClient and its ConnectionPool (transport/client.ts).  A request *)
(* that finds no connection makes one, which is named after it.             *)
(*                                                                          *)
(* getConnection replaces the array of the host in the map (line 110)       *)
(* before it awaits the new connection, and pushes that to the array it had *)
(* taken out (line 120): the connection never comes into the pool.          *)
(***************************************************************************)
EXTENDS Naturals, FiniteSets

CONSTANTS
  Calls,              \* requests
  NoCall,             \* no request
  Hosts,              \* endpoints
  MaxConnectionsPerHost

VARIABLES
  pool,    \* connections: those of each host that are in the map
  conn,    \* "none", "connecting", "open", "closing", "closed", "errored"
  request, \* "none", "connecting", "streaming", "ok", "failed"
  on,      \* the connection of each request
  stream   \* of each request: "none", "open", "ended"

clientVars == <<pool, conn, request, on, stream>>

ClientInit ==
  /\ pool = [h \in Hosts |-> {}]
  /\ conn = [c \in Calls |-> "none"]
  /\ request = [c \in Calls |-> "none"]
  /\ on = [c \in Calls |-> NoCall]
  /\ stream = [c \in Calls |-> "none"]

Available(h) == {d \in pool[h] : conn[d] = "open"}
Exhausted(h) == Cardinality(pool[h]) >= MaxConnectionsPerHost

\* request and getConnection: an open connection, "Connection pool exhausted",
\* or a new connection to wait for.
Request(c, h) ==
  /\ request[c] = "none"
  /\ IF Available(h) # {}
     THEN /\ on' = [on EXCEPT ![c] = CHOOSE d \in Available(h) : TRUE]
          /\ request' = [request EXCEPT ![c] = "streaming"]
          /\ stream' = [stream EXCEPT ![c] = "open"]
          /\ UNCHANGED <<pool, conn>>
     ELSE /\ pool' = [pool EXCEPT ![h] = {}]
          /\ request' = [request EXCEPT ![c] = IF Exhausted(h) THEN "failed" ELSE "connecting"]
          /\ conn' = IF Exhausted(h) THEN conn ELSE [conn EXCEPT ![c] = "connecting"]
          /\ UNCHANGED <<on, stream>>

\* 'connect': the request, if it still waits, goes out on the connection.
Connected(c) ==
  /\ conn[c] = "connecting"
  /\ conn' = [conn EXCEPT ![c] = "open"]
  /\ IF request[c] = "connecting"
     THEN /\ request' = [request EXCEPT ![c] = "streaming"]
          /\ on' = [on EXCEPT ![c] = c]
          /\ stream' = [stream EXCEPT ![c] = "open"]
     ELSE UNCHANGED <<request, on, stream>>
  /\ UNCHANGED <<pool>>

\* Faulty variant of ConnectError: the timer is cleared, nobody is told.
ConnectErrorUntold(c) ==
  /\ conn[c] = "connecting"
  /\ conn' = [conn EXCEPT ![c] = "errored"]
  /\ UNCHANGED <<pool, request, on, stream>>

\* 'error' before 'connect': the timer is cleared and the promise rejected.
ConnectError(c) ==
  /\ conn[c] = "connecting"
  /\ conn' = [conn EXCEPT ![c] = "errored"]
  /\ request' = [request EXCEPT ![c] = "failed"]
  /\ UNCHANGED <<pool, on, stream>>

\* The connection's timer: the promise is rejected, the connection goes on.
ConnectTimeout(c) ==
  /\ request[c] = "connecting"
  /\ conn[c] # "errored"
  /\ request' = [request EXCEPT ![c] = "failed"]
  /\ UNCHANGED <<pool, conn, on, stream>>

\* 'end' of the stream; the promise may have been rejected by its timer.
Respond(c) ==
  /\ stream[c] = "open"
  /\ conn[on[c]] \in {"open", "closing"}
  /\ stream' = [stream EXCEPT ![c] = "ended"]
  /\ request' = [request EXCEPT ![c] = IF @ = "streaming" THEN "ok" ELSE @]
  /\ UNCHANGED <<pool, conn, on>>

\* The request's timer: its stream stays open.
RequestTimeout(c) ==
  /\ request[c] = "streaming"
  /\ request' = [request EXCEPT ![c] = "failed"]
  /\ UNCHANGED <<pool, conn, on, stream>>

Without(d) == [h \in Hosts |-> pool[h] \ {d}]

\* 'close' of a connection, by itself or by the peer: its streams get an 'error'.
Close(d) ==
  /\ conn[d] \in {"connecting", "open", "closing"}
  /\ conn' = [conn EXCEPT ![d] = "closed"]
  /\ pool' = Without(d)
  /\ LET cut == {c \in Calls : on[c] = d /\ stream[c] = "open"}
     IN  /\ stream' = [c \in Calls |-> IF c \in cut THEN "ended" ELSE stream[c]]
         /\ request' = [c \in Calls |-> IF c \in cut /\ request[c] = "streaming"
                                        THEN "failed" ELSE request[c]]
  /\ UNCHANGED <<on>>

Streams(d) == Cardinality({c \in Calls : on[c] = d /\ stream[c] = "open"})

\* cleanup closes what is in the pool, idle for long, and without streams.
Cleanup ==
  \E old \in SUBSET {d \in UNION {pool[h] : h \in Hosts} : Streams(d) = 0} :
    /\ conn' = [d \in Calls |-> IF d \in old /\ conn[d] = "open" THEN "closing" ELSE conn[d]]
    /\ pool' = [h \in Hosts |-> {d \in pool[h] : conn'[d] = "open"}]
    /\ UNCHANGED <<request, on, stream>>

Stop ==
  /\ conn' = [d \in Calls |-> IF \E h \in Hosts : d \in pool[h] THEN "closing" ELSE conn[d]]
  /\ pool' = [h \in Hosts |-> {}]
  /\ UNCHANGED <<request, on, stream>>

ClientNext ==
  \/ \E c \in Calls : \/ Connected(c) \/ ConnectError(c) \/ ConnectTimeout(c)
                      \/ Respond(c) \/ RequestTimeout(c) \/ Close(c)
  \/ Cleanup \/ Stop
=============================================================================
