------------------------------ MODULE Handshake ------------------------------
(***************************************************************************)
(* The three messages of a handshake (transport/handshake.ts) between the   *)
(* connects of some initiators (agent.ts connect) and one responder         *)
(* (agent.ts handleRequest), over a network that may lose a message, delay  *)
(* it past the initiator's patience or, as a proxy that retries does,       *)
(* deliver a request again.  The responder's process may be restarted, with *)
(* other capabilities.                                                      *)
(*                                                                          *)
(* A handshake is named by the nonce of its init message.  A signature is   *)
(* what it is over: that of a completion, the responder's nonce.            *)
(***************************************************************************)
EXTENDS Integers, FiniteSets

CONSTANTS
  Handshakes,    \* handshakes: the nonces of createInit
  Compatible,    \* those whose initiator shares a protocol version
  Offer,         \* the capabilities each initiator offers
  Capabilities,  \* all capabilities
  MaxRepeats,    \* bound: requests delivered again
  MaxRestarts    \* bound: restarts of the responder

ASSUME HandshakeAssumption ==
  /\ Compatible \subseteq Handshakes
  /\ Offer \in [Handshakes -> SUBSET Capabilities]
  /\ MaxRepeats \in Nat
  /\ MaxRestarts \in Nat

VARIABLES
  phase,     \* of each connect: "none", "init", "complete", "established", "failed"
  agreed,    \* the initiator's negotiatedCapabilities
  net,       \* messages under way
  pending,   \* pendingHandshakes: the responder's nonce, 0 for no entry
  session,   \* the responder's sessions: the capabilities of each, or NoSession
  opened,    \* how many sessions the responder has opened for each handshake
  offered,   \* the responder's capabilities
  last,      \* the last nonce the responder generated
  repeats,
  restarts

vars == <<phase, agreed, net, pending, session, opened, offered, last, repeats, restarts>>

NoSession == [open |-> FALSE]
Session(C) == [open |-> TRUE, caps |-> C]

InitMsg(h) == [type |-> "init", of |-> h]
Response(h, n, C) == [type |-> "response", of |-> h, nonce |-> n, caps |-> C]
Complete(h, n, C) == [type |-> "complete", of |-> h, nonce |-> n, caps |-> C]
Answer(h, stage, ok) == [type |-> "answer", of |-> h, to |-> stage, ok |-> ok]

Messages ==
  {InitMsg(h) : h \in Handshakes}
    \cup [type : {"response", "complete"}, of : Handshakes, nonce : Nat \ {0}, caps : SUBSET Capabilities]
    \cup [type : {"answer"}, of : Handshakes, to : {"init", "complete"}, ok : BOOLEAN]

TypeOK ==
  /\ phase \in [Handshakes -> {"none", "init", "complete", "established", "failed"}]
  /\ agreed \in [Handshakes -> SUBSET Capabilities]
  /\ net \in SUBSET Messages
  /\ pending \in [Handshakes -> 0..last]
  /\ session \in [Handshakes -> {NoSession} \cup {Session(C) : C \in SUBSET Capabilities}]
  /\ opened \in [Handshakes -> Nat]
  /\ offered \in SUBSET Capabilities
  /\ last \in Nat
  /\ repeats \in 0..MaxRepeats
  /\ restarts \in 0..MaxRestarts
-----------------------------------------------------------------------------
Init ==
  /\ phase = [h \in Handshakes |-> "none"]
  /\ agreed = [h \in Handshakes |-> {}]
  /\ net = {}
  /\ pending = [h \in Handshakes |-> 0]
  /\ session = [h \in Handshakes |-> NoSession]
  /\ opened = [h \in Handshakes |-> 0]
  /\ offered = Capabilities
  /\ last = 0
  /\ repeats = 0
  /\ restarts = 0

initiatorVars == <<phase, agreed>>
responderVars == <<pending, session, opened, offered, last, restarts>>

\* connect up to its first request.
CreateInit(h) ==
  /\ phase[h] = "none"
  /\ phase' = [phase EXCEPT ![h] = "init"]
  /\ net' = net \cup {InitMsg(h)}
  /\ UNCHANGED <<agreed, repeats, responderVars>>

\* A request reaches the responder, and may stay to be delivered again; the
\* answer goes back.
Handled(request, answer) ==
  /\ request \in net
  /\ \/ net' = (net \ {request}) \cup {answer} /\ UNCHANGED repeats
     \/ /\ repeats < MaxRepeats
        /\ net' = net \cup {answer}
        /\ repeats' = repeats + 1

\* processInit refuses: no common version, or older than five minutes.
RefuseInit(h) ==
  /\ Handled(InitMsg(h), Answer(h, "init", FALSE))
  /\ UNCHANGED <<initiatorVars, responderVars>>

\* processInit: a fresh nonce, even if the handshake has an entry.
ProcessInit(h) ==
  /\ h \in Compatible
  /\ Handled(InitMsg(h), Response(h, last + 1, Offer[h] \cap offered))
  /\ last' = last + 1
  /\ pending' = [pending EXCEPT ![h] = last + 1]
  /\ UNCHANGED <<initiatorVars, session, opened, offered, restarts>>

\* processResponse, and the second request of connect.
ProcessResponse(h) ==
  /\ phase[h] = "init"
  /\ \E r \in net :
       /\ r.type = "response" /\ r.of = h
       /\ phase' = [phase EXCEPT ![h] = "complete"]
       /\ agreed' = [agreed EXCEPT ![h] = r.caps]
       /\ net' = (net \ {r}) \cup {Complete(h, r.nonce, r.caps)}
  /\ UNCHANGED <<repeats, responderVars>>

\* Faulty variant of Verified: any pending entry will do.
VerifiedAnyEntry(c) == pending[c.of] # 0

\* The signature of a completion is over the nonce now pending.
Verified(c) == pending[c.of] # 0 /\ c.nonce = pending[c.of]

\* Faulty variant of ProcessComplete: the entry stays.
ProcessCompleteKeepsEntry(c) ==
  /\ Verified(c)
  /\ Handled(c, Answer(c.of, "complete", TRUE))
  /\ session' = [session EXCEPT ![c.of] = Session(c.caps)]
  /\ opened' = [opened EXCEPT ![c.of] = @ + 1]
  /\ UNCHANGED <<initiatorVars, pending, offered, last, restarts>>

\* processComplete, and the session that handleRequest opens.
ProcessComplete(c) ==
  /\ Verified(c)
  /\ Handled(c, Answer(c.of, "complete", TRUE))
  /\ pending' = [pending EXCEPT ![c.of] = 0]
  /\ session' = [session EXCEPT ![c.of] = Session(c.caps)]
  /\ opened' = [opened EXCEPT ![c.of] = @ + 1]
  /\ UNCHANGED <<initiatorVars, offered, last, restarts>>

\* processComplete: UNKNOWN_HANDSHAKE or SIGNATURE_INVALID.
RefuseComplete(c) ==
  /\ ~Verified(c)
  /\ Handled(c, Answer(c.of, "complete", FALSE))
  /\ UNCHANGED <<initiatorVars, responderVars>>

\* connect after its second request: success, or the pinned key does not match.
Finish(h) ==
  /\ phase[h] = "complete"
  /\ \E a \in net :
       /\ a = Answer(h, "complete", TRUE)
       /\ net' = net \ {a}
       /\ \E end \in {"established", "failed"} : phase' = [phase EXCEPT ![h] = end]
  /\ UNCHANGED <<agreed, repeats, responderVars>>

\* connect when a request is refused, or breaks or times out in the client.
Fail(h) ==
  /\ phase[h] \in {"init", "complete"}
  /\ phase' = [phase EXCEPT ![h] = "failed"]
  /\ net' = net \ {Answer(h, phase[h], FALSE)}
  /\ UNCHANGED <<agreed, repeats, responderVars>>

Lose ==
  /\ \E lost \in net : net' = net \ {lost}
  /\ UNCHANGED <<initiatorVars, repeats, responderVars>>

\* cleanup removes the entries whose init is older than its limit, by the
\* initiators' clocks.
Cleanup ==
  /\ \E old \in SUBSET {h \in Handshakes : pending[h] # 0} :
       pending' = [h \in Handshakes |-> IF h \in old THEN 0 ELSE pending[h]]
  /\ UNCHANGED <<initiatorVars, net, repeats, session, opened, offered, last, restarts>>

\* Another process takes the responder's place.
Restart ==
  /\ restarts < MaxRestarts
  /\ restarts' = restarts + 1
  /\ offered' \in SUBSET Capabilities
  /\ pending' = [h \in Handshakes |-> 0]
  /\ session' = [h \in Handshakes |-> NoSession]
  /\ UNCHANGED <<initiatorVars, net, repeats, opened, last>>

Next ==
  \/ \E h \in Handshakes : \/ CreateInit(h) \/ RefuseInit(h) \/ ProcessInit(h)
                           \/ ProcessResponse(h) \/ Finish(h) \/ Fail(h)
  \/ \E c \in {n \in net : n.type = "complete"} : ProcessComplete(c) \/ RefuseComplete(c)
  \/ Lose \/ Cleanup \/ Restart

Spec == Init /\ [][Next]_vars
-----------------------------------------------------------------------------
\* The responder opens at most one session for a handshake, however often its
\* messages arrive, and connect reports success only for one that was opened
\* (processComplete, connect).
P == INSTANCE Pairings WITH established <- {h \in Handshakes : phase[h] = "established"}
PairingsSpec == P!Spec

\* Every session of the responder, also one made from a message of before a
\* restart, has only capabilities this process and its initiator both have;
\* and an initiator's connection that still has its session agrees with it.
CapabilitiesAgreed ==
  \A h \in Handshakes : session[h].open =>
    /\ session[h].caps = Offer[h] \cap offered
    /\ phase[h] = "established" => agreed[h] = session[h].caps
=============================================================================
