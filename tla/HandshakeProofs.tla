-------------------------- MODULE HandshakeProofs --------------------------
(***************************************************************************)
(* Proofs about Handshake, for any number of handshakes, repeated requests  *)
(* and restarts: types, CapabilitiesAgreed, and that it implements          *)
(* Pairings.  What carries them is what the messages under way can still    *)
(* do: only an answer of this process to the init it got last leads to a    *)
(* completion that it accepts, and once it has accepted one, no completion  *)
(* under way is acceptable again.                                           *)
(***************************************************************************)
EXTENDS Handshake, TLAPS

Answering == {"response", "complete"}
Begun(h) == phase[h] \notin {"none", "init"}

\* What a response or a completion under way carries: a nonce that was
\* generated, and, if it is the one now pending, what both sides have.
Carried ==
  \A m \in net : m.type \in Answering =>
    /\ m.nonce <= last
    /\ m.nonce = pending[m.of] => m.caps = Offer[m.of] \cap offered

\* A completion under way is of a connect that sent it, and says what it keeps.
Completing == \A m \in net : m.type = "complete" => Begun(m.of) /\ m.caps = agreed[m.of]

SessionsAgree ==
  \A h \in Handshakes : session[h].open =>
    Begun(h) /\ session[h].caps = Offer[h] \cap offered /\ session[h].caps = agreed[h]

\* A handshake is opened once: no completion of it is acceptable any more.
OpenedOnce ==
  \A h \in Handshakes : opened[h] # 0 =>
    /\ opened[h] = 1
    /\ Begun(h)
    /\ \A m \in net : m.type = "complete" /\ m.of = h => m.nonce # pending[h]

\* Success is reported, and believed, only of what was opened.
Reported ==
  \A h \in Handshakes :
    Answer(h, "complete", TRUE) \in net \/ phase[h] = "established" => opened[h] = 1

IInv ==
  /\ TypeOK
  /\ Carried
  /\ Completing
  /\ SessionsAgree
  /\ OpenedOnce
  /\ Reported
-----------------------------------------------------------------------------
\* The fields that messages have.
LEMMA MessageFields ==
  ASSUME NEW m \in Messages
  PROVE  /\ m.of \in Handshakes
         /\ m.type \in Answering =>
              m.nonce \in Nat \ {0} /\ m.caps \in SUBSET Capabilities
BY DEF Messages, InitMsg, Answering

LEMMA NewMessages ==
  ASSUME NEW h \in Handshakes, NEW n \in Nat \ {0}, NEW C \in SUBSET Capabilities
  PROVE  /\ InitMsg(h) \in Messages /\ InitMsg(h).type = "init" /\ InitMsg(h).of = h
         /\ Response(h, n, C) \in Messages /\ Response(h, n, C).type = "response"
         /\ Response(h, n, C).of = h /\ Response(h, n, C).nonce = n /\ Response(h, n, C).caps = C
         /\ Complete(h, n, C) \in Messages /\ Complete(h, n, C).type = "complete"
         /\ Complete(h, n, C).of = h /\ Complete(h, n, C).nonce = n /\ Complete(h, n, C).caps = C
BY DEF Messages, InitMsg, Response, Complete

LEMMA NewAnswers ==
  ASSUME NEW h \in Handshakes, NEW stage \in {"init", "complete"}, NEW ok \in BOOLEAN
  PROVE  /\ Answer(h, stage, ok) \in Messages
         /\ Answer(h, stage, ok).type = "answer"
         /\ \A g \in Handshakes : Answer(h, stage, ok) = Answer(g, "complete", TRUE)
                                    => g = h /\ stage = "complete" /\ ok
BY DEF Messages, Answer

\* An answer to a handshake is none of the other messages.
LEMMA AnswerType ==
  ASSUME NEW h, NEW stage, NEW ok
  PROVE  Answer(h, stage, ok).type = "answer"
BY DEF Answer

\* A delivered request leaves the network with at most one message more.
LEMMA Delivered ==
  ASSUME TypeOK, NEW request, NEW answer \in Messages, Handled(request, answer)
  PROVE  request \in net /\ net' \subseteq net \cup {answer} /\ net' \in SUBSET Messages
         /\ repeats' \in 0..MaxRepeats
BY HandshakeAssumption DEF Handled, TypeOK

LEMMA InitHolds == Init => IInv
BY HandshakeAssumption
DEF Init, IInv, TypeOK, Carried, Completing, SessionsAgree, OpenedOnce, Reported, Begun, NoSession

\* What loses messages, or adds a refusal, disturbs nothing.
LEMMA QuietStep ==
  ASSUME IInv, UNCHANGED <<initiatorVars, responderVars>>, repeats' \in 0..MaxRepeats,
         NEW h \in Handshakes, NEW stage \in {"init", "complete"},
         net' \subseteq net \cup {Answer(h, stage, FALSE)}
  PROVE  IInv'
<1> DEFINE a == Answer(h, stage, FALSE)
<1>1. /\ a \in Messages /\ a.type = "answer"
      /\ \A g \in Handshakes : a # Answer(g, "complete", TRUE)
  BY NewAnswers
<1> HIDE DEF a
<1>2. net' \subseteq net \cup {a}
  BY DEF a
<1> USE <1>1, <1>2 DEF IInv, initiatorVars, responderVars
<1>3. TypeOK'
  BY DEF TypeOK
<1>4. Carried'
  BY DEF Carried, Answering
<1>5. Completing'
  BY DEF Completing, Begun
<1>6. SessionsAgree'
  BY DEF SessionsAgree, Begun
<1>7. OpenedOnce'
  BY DEF OpenedOnce, Begun
<1>8. Reported'
  BY DEF Reported
<1> QED
  BY <1>3, <1>4, <1>5, <1>6, <1>7, <1>8

LEMMA CreateInitStep ==
  ASSUME IInv, NEW h \in Handshakes, CreateInit(h)
  PROVE  IInv'
<1>1. /\ phase[h] = "none" /\ phase' = [phase EXCEPT ![h] = "init"]
      /\ net' = net \cup {InitMsg(h)} /\ UNCHANGED <<agreed, repeats, responderVars>>
  BY DEF CreateInit
<1>2. InitMsg(h) \in Messages /\ InitMsg(h).type = "init"
  BY DEF Messages, InitMsg
<1>3. \A g \in Handshakes : InitMsg(h) # Answer(g, "complete", TRUE)
  BY <1>2, AnswerType
<1>4. \A g \in Handshakes : (Begun(g) <=> Begun(g)') /\ (phase'[g] = "established" <=> phase[g] = "established")
  BY <1>1 DEF Begun, IInv, TypeOK
<1> USE <1>1, <1>2, <1>4 DEF IInv, responderVars
<1>5. TypeOK'
  BY DEF TypeOK
<1>6. Carried'
  BY DEF Carried, Answering
<1>7. Completing'
  BY MessageFields DEF Completing, TypeOK, Answering
<1>8. SessionsAgree'
  BY DEF SessionsAgree
<1>9. OpenedOnce'
  BY DEF OpenedOnce
<1>10. Reported'
  BY <1>3 DEF Reported
<1> QED
  BY <1>5, <1>6, <1>7, <1>8, <1>9, <1>10

LEMMA ProcessInitStep ==
  ASSUME IInv, NEW h \in Handshakes, ProcessInit(h)
  PROVE  IInv'
<1> DEFINE C == Offer[h] \cap offered
           r == Response(h, last + 1, C)
<1>1. /\ C \in SUBSET Capabilities /\ last \in Nat /\ last + 1 \in Nat \ {0}
  BY HandshakeAssumption DEF IInv, TypeOK
<1>2. /\ r \in Messages /\ r.type = "response" /\ r.of = h /\ r.nonce = last + 1 /\ r.caps = C
  BY <1>1, NewMessages
<1>3. /\ Handled(InitMsg(h), r) /\ last' = last + 1
      /\ pending' = [pending EXCEPT ![h] = last + 1]
      /\ UNCHANGED <<initiatorVars, session, opened, offered, restarts>>
  BY DEF ProcessInit
<1> HIDE DEF r
<1>4. net' \subseteq net \cup {r} /\ net' \in SUBSET Messages /\ repeats' \in 0..MaxRepeats
  BY <1>2, <1>3, Delivered DEF IInv
<1>5. \A g \in Handshakes : r # Answer(g, "complete", TRUE)
  BY <1>2, AnswerType
<1>6. \A m \in net : m.type \in Answering => m.of \in Handshakes /\ m.nonce \in Nat \ {0} /\ m.nonce <= last
  BY MessageFields DEF IInv, TypeOK, Carried
<1> USE <1>1, <1>3, <1>4 DEF IInv, initiatorVars
<1>7. TypeOK'
  BY DEF TypeOK
<1>8. Carried'
  <2> SUFFICES ASSUME NEW m \in net', m.type \in Answering
               PROVE  m.nonce <= last' /\ (m.nonce = pending'[m.of] => m.caps = Offer[m.of] \cap offered)
    BY DEF Carried
  <2>1. CASE m = r
    BY <2>1, <1>2
  <2>2. CASE m # r
    <3>1. m \in net /\ m.nonce <= last /\ m.nonce \in Nat /\ m.of \in Handshakes
      BY <2>2, <1>6
    <3>2. CASE m.of = h
      BY <3>1, <3>2 DEF TypeOK
    <3>3. CASE m.of # h
      BY <3>1, <3>3 DEF TypeOK, Carried
    <3> QED
      BY <3>2, <3>3
  <2> QED
    BY <2>1, <2>2
<1>9. Completing'
  BY <1>2 DEF Completing, Begun
<1>10. SessionsAgree'
  BY DEF SessionsAgree, Begun
<1>11. OpenedOnce'
  <2> SUFFICES ASSUME NEW g \in Handshakes, opened[g] # 0, NEW m \in net', m.type = "complete", m.of = g
               PROVE  m.nonce # pending'[g]
    BY DEF OpenedOnce, Begun
  <2>1. m \in net /\ m.nonce <= last /\ m.nonce \in Nat
    BY <1>2, <1>6 DEF Answering
  <2> QED
    BY <2>1 DEF OpenedOnce, TypeOK
<1>12. Reported'
  BY <1>5 DEF Reported
<1> QED
  BY <1>7, <1>8, <1>9, <1>10, <1>11, <1>12

LEMMA ProcessResponseStep ==
  ASSUME IInv, NEW h \in Handshakes, ProcessResponse(h)
  PROVE  IInv'
<1>1. PICK r \in net :
        /\ r.type = "response" /\ r.of = h
        /\ phase' = [phase EXCEPT ![h] = "complete"]
        /\ agreed' = [agreed EXCEPT ![h] = r.caps]
        /\ net' = (net \ {r}) \cup {Complete(h, r.nonce, r.caps)}
  BY DEF ProcessResponse
<1> DEFINE c == Complete(h, r.nonce, r.caps)
<1>2. phase[h] = "init" /\ UNCHANGED <<repeats, responderVars>>
  BY DEF ProcessResponse
<1>3. r.nonce \in Nat \ {0} /\ r.caps \in SUBSET Capabilities
  BY <1>1, MessageFields DEF IInv, TypeOK, Answering
<1>4. c \in Messages /\ c.type = "complete" /\ c.of = h /\ c.nonce = r.nonce /\ c.caps = r.caps
  BY <1>3, NewMessages
<1> HIDE DEF c
<1>5. net' = (net \ {r}) \cup {c}
  BY <1>1 DEF c
<1>6. \A g \in Handshakes : c # Answer(g, "complete", TRUE)
  BY <1>4, AnswerType
<1>7. ~Begun(h) /\ Begun(h)' /\ phase'[h] = "complete" /\ agreed'[h] = r.caps
      /\ \A g \in Handshakes \ {h} :
           phase'[g] = phase[g] /\ agreed'[g] = agreed[g] /\ (Begun(g)' <=> Begun(g))
  BY <1>1, <1>2 DEF Begun, IInv, TypeOK
<1> USE <1>2, <1>4, <1>5 DEF IInv, responderVars
<1>8. TypeOK'
  BY <1>1, <1>3 DEF TypeOK
<1>9. Carried'
  BY <1>1 DEF Carried, Answering
<1>10. Completing'
  <2> SUFFICES ASSUME NEW m \in net', m.type = "complete"
               PROVE  Begun(m.of)' /\ m.caps = agreed'[m.of]
    BY DEF Completing
  <2>1. CASE m = c
    BY <2>1, <1>7
  <2>2. CASE m # c
    <3>1. m \in net /\ m.of \in Handshakes /\ Begun(m.of) /\ m.caps = agreed[m.of]
      BY <2>2, MessageFields DEF Completing, TypeOK
    <3> QED
      BY <3>1, <1>7
  <2> QED
    BY <2>1, <2>2
<1>11. SessionsAgree'
  BY <1>7 DEF SessionsAgree
<1>12. OpenedOnce'
  BY <1>7 DEF OpenedOnce
<1>13. Reported'
  BY <1>6, <1>7 DEF Reported
<1> QED
  BY <1>8, <1>9, <1>10, <1>11, <1>12, <1>13

LEMMA ProcessCompleteStep ==
  ASSUME IInv, NEW c \in net, c.type = "complete", ProcessComplete(c)
  PROVE  IInv' /\ opened[c.of] = 0
<1> DEFINE h == c.of
           a == Answer(h, "complete", TRUE)
<1>1. /\ h \in Handshakes /\ c.nonce \in Nat \ {0} /\ c.caps \in SUBSET Capabilities
  BY MessageFields DEF IInv, TypeOK, Answering
<1>2. /\ pending[h] # 0 /\ c.nonce = pending[h]
      /\ Handled(c, a)
      /\ pending' = [pending EXCEPT ![h] = 0]
      /\ session' = [session EXCEPT ![h] = Session(c.caps)]
      /\ opened' = [opened EXCEPT ![h] = @ + 1]
      /\ UNCHANGED <<initiatorVars, offered, last, restarts>>
  BY DEF ProcessComplete, Verified
<1>3. /\ a \in Messages /\ a.type = "answer"
      /\ \A g \in Handshakes : a = Answer(g, "complete", TRUE) => g = h
  BY <1>1, NewAnswers
<1>4. Begun(h) /\ c.caps = agreed[h] /\ c.caps = Offer[h] \cap offered
  BY <1>2 DEF IInv, Completing, Carried, Answering
<1>5. opened[h] = 0
  BY <1>1, <1>2 DEF IInv, OpenedOnce
<1> HIDE DEF h, a
<1>6. net' \subseteq net \cup {a} /\ net' \in SUBSET Messages /\ repeats' \in 0..MaxRepeats
  BY <1>2, <1>3, Delivered DEF IInv
<1>7. Session(c.caps).open /\ Session(c.caps).caps = c.caps
  BY DEF Session
<1>8. opened'[h] = 1 /\ pending'[h] = 0 /\ session'[h] = Session(c.caps)
      /\ \A g \in Handshakes \ {h} :
           opened'[g] = opened[g] /\ pending'[g] = pending[g] /\ session'[g] = session[g]
  BY <1>1, <1>2, <1>5 DEF IInv, TypeOK
<1>9. \A g : Begun(g)' <=> Begun(g)
  BY <1>2 DEF Begun, initiatorVars
<1>10. \A m \in net' : m.type \in Answering => m \in net /\ m.of \in Handshakes /\ m.nonce \in Nat \ {0}
  BY <1>3, <1>6, MessageFields DEF IInv, TypeOK, Answering
<1> USE <1>1, <1>2, <1>3, <1>6 DEF IInv, initiatorVars
<1>11. TypeOK'
  BY DEF TypeOK
<1>12. Carried'
  <2> SUFFICES ASSUME NEW m \in net', m.type \in Answering
               PROVE  m.nonce <= last /\ (m.nonce = pending'[m.of] => m.caps = Offer[m.of] \cap offered)
    BY DEF Carried
  <2>1. m \in net /\ m.of \in Handshakes /\ m.nonce \in Nat \ {0}
    BY <1>10
  <2> QED
    BY <2>1, <1>8 DEF Carried
<1>13. Completing'
  BY <1>9, <1>10 DEF Completing, Answering
<1>14. SessionsAgree'
  <2> SUFFICES ASSUME NEW g \in Handshakes, session'[g].open
               PROVE  /\ Begun(g)' /\ session'[g].caps = Offer[g] \cap offered
                      /\ session'[g].caps = agreed[g]
    BY DEF SessionsAgree
  <2>1. CASE g = h
    BY <2>1, <1>4, <1>7, <1>8, <1>9
  <2>2. CASE g # h
    BY <2>2, <1>8, <1>9 DEF SessionsAgree
  <2> QED
    BY <2>1, <2>2
<1>15. OpenedOnce'
  <2> SUFFICES ASSUME NEW g \in Handshakes, opened'[g] # 0
               PROVE  /\ opened'[g] = 1 /\ Begun(g)'
                      /\ \A m \in net' : m.type = "complete" /\ m.of = g => m.nonce # pending'[g]
    BY DEF OpenedOnce
  <2>1. CASE g = h
    BY <2>1, <1>4, <1>8, <1>9, <1>10 DEF Answering, h
  <2>2. CASE g # h
    BY <2>2, <1>8, <1>9, <1>10 DEF Answering, OpenedOnce
  <2> QED
    BY <2>1, <2>2
<1>16. Reported'
  BY <1>8 DEF Reported
<1> QED
  BY <1>5, <1>11, <1>12, <1>13, <1>14, <1>15, <1>16 DEF h

\* A connect ends: with success only if it was reported.
LEMMA EndStep ==
  ASSUME IInv, NEW h \in Handshakes, NEW end \in {"established", "failed"},
         phase' = [phase EXCEPT ![h] = end],
         end = "established" => opened[h] = 1,
         net' \subseteq net, UNCHANGED <<agreed, repeats, responderVars>>
  PROVE  IInv'
<1>1. Begun(h)' /\ phase'[h] = end
      /\ \A g \in Handshakes \ {h} : phase'[g] = phase[g] /\ (Begun(g)' <=> Begun(g))
  BY DEF Begun, IInv, TypeOK
<1> USE <1>1 DEF IInv, responderVars
<1>2. TypeOK'
  BY DEF TypeOK
<1>3. Carried'
  BY DEF Carried
<1>4. Completing'
  <2> SUFFICES ASSUME NEW m \in net', m.type = "complete"
               PROVE  Begun(m.of)' /\ m.caps = agreed'[m.of]
    BY DEF Completing
  <2>1. m \in net /\ m.of \in Handshakes
    BY MessageFields DEF TypeOK
  <2> QED
    BY <2>1 DEF Completing
<1>5. SessionsAgree'
  BY DEF SessionsAgree
<1>6. OpenedOnce'
  BY DEF OpenedOnce
<1>7. Reported'
  BY DEF Reported
<1> QED
  BY <1>2, <1>3, <1>4, <1>5, <1>6, <1>7

\* cleanup: entries that go accept nothing.
LEMMA CleanupStep == IInv /\ Cleanup => IInv'
<1> SUFFICES ASSUME IInv, Cleanup PROVE IInv'
  OBVIOUS
<1>1. PICK old \in SUBSET {h \in Handshakes : pending[h] # 0} :
        pending' = [h \in Handshakes |-> IF h \in old THEN 0 ELSE pending[h]]
  BY DEF Cleanup
<1>2. UNCHANGED <<initiatorVars, net, repeats, session, opened, offered, last, restarts>>
  BY DEF Cleanup
<1>3. \A h \in Handshakes : pending'[h] \in {0, pending[h]}
  BY <1>1
<1>4. \A m \in net : m.type \in Answering => m.of \in Handshakes /\ m.nonce \in Nat \ {0}
  BY MessageFields DEF IInv, TypeOK
<1> USE <1>2 DEF IInv, initiatorVars
<1>5. TypeOK'
  BY <1>1 DEF TypeOK
<1>6. Carried'
  BY <1>3, <1>4 DEF Carried
<1>7. Completing' /\ SessionsAgree' /\ Reported'
  BY DEF Completing, SessionsAgree, Reported, Begun
<1>8. OpenedOnce'
  <2> SUFFICES ASSUME NEW h \in Handshakes, opened[h] # 0, NEW m \in net, m.type = "complete", m.of = h
               PROVE  m.nonce # pending'[h]
    BY DEF OpenedOnce, Begun
  <2>1. m.nonce # 0 /\ m.nonce # pending[h]
    BY <1>4 DEF OpenedOnce, Answering
  <2> QED
    BY <2>1, <1>3
<1> QED
  BY <1>5, <1>6, <1>7, <1>8

\* Another process accepts nothing that came of the one before.
LEMMA RestartStep == IInv /\ Restart => IInv'
<1> SUFFICES ASSUME IInv, Restart PROVE IInv'
  OBVIOUS
<1>1. /\ restarts < MaxRestarts /\ restarts' = restarts + 1
      /\ offered' \in SUBSET Capabilities
      /\ pending' = [h \in Handshakes |-> 0]
      /\ session' = [h \in Handshakes |-> NoSession]
      /\ UNCHANGED <<initiatorVars, net, repeats, opened, last>>
  BY DEF Restart
<1>2. \A h \in Handshakes : ~session'[h].open
  BY <1>1 DEF NoSession
<1>3. \A m \in net : m.type \in Answering => m.of \in Handshakes /\ m.nonce \in Nat \ {0}
  BY MessageFields DEF IInv, TypeOK
<1> USE <1>1 DEF IInv, initiatorVars
<1>4. TypeOK'
  BY HandshakeAssumption DEF TypeOK
<1>5. Carried'
  BY <1>3 DEF Carried
<1>6. Completing' /\ SessionsAgree' /\ Reported'
  BY <1>2 DEF Completing, SessionsAgree, Reported, Begun
<1>7. OpenedOnce'
  BY <1>3 DEF OpenedOnce, Begun, Answering
<1> QED
  BY <1>4, <1>5, <1>6, <1>7

LEMMA Invariance == IInv /\ [Next]_vars => IInv'
<1> SUFFICES ASSUME IInv, [Next]_vars PROVE IInv'
  OBVIOUS
<1>1. ASSUME NEW h \in Handshakes, CreateInit(h) PROVE IInv'
  BY <1>1, CreateInitStep
<1>2. ASSUME NEW h \in Handshakes, RefuseInit(h) PROVE IInv'
  <2>1. Answer(h, "init", FALSE) \in Messages
    BY NewAnswers
  <2>2. net' \subseteq net \cup {Answer(h, "init", FALSE)} /\ repeats' \in 0..MaxRepeats
    BY <1>2, <2>1, Delivered DEF IInv, RefuseInit
  <2> QED
    BY <1>2, <2>2, QuietStep DEF RefuseInit
<1>3. ASSUME NEW h \in Handshakes, ProcessInit(h) PROVE IInv'
  BY <1>3, ProcessInitStep
<1>4. ASSUME NEW h \in Handshakes, ProcessResponse(h) PROVE IInv'
  BY <1>4, ProcessResponseStep
<1>5. ASSUME NEW h \in Handshakes, Finish(h) PROVE IInv'
  <2>1. PICK end \in {"established", "failed"} : phase' = [phase EXCEPT ![h] = end]
    BY <1>5 DEF Finish
  <2>2. /\ Answer(h, "complete", TRUE) \in net /\ net' \subseteq net
        /\ UNCHANGED <<agreed, repeats, responderVars>>
    BY <1>5 DEF Finish
  <2> QED
    BY <2>1, <2>2, EndStep DEF IInv, Reported
<1>6. ASSUME NEW h \in Handshakes, Fail(h) PROVE IInv'
  BY <1>6, EndStep DEF Fail
<1>7. ASSUME NEW c \in net, c.type = "complete", ProcessComplete(c) PROVE IInv'
  BY <1>7, ProcessCompleteStep
<1>8. ASSUME NEW c \in net, c.type = "complete", RefuseComplete(c) PROVE IInv'
  <2>1. c.of \in Handshakes
    BY MessageFields DEF IInv, TypeOK
  <2>2. Answer(c.of, "complete", FALSE) \in Messages
    BY <2>1, NewAnswers
  <2>3. net' \subseteq net \cup {Answer(c.of, "complete", FALSE)} /\ repeats' \in 0..MaxRepeats
    BY <1>8, <2>2, Delivered DEF IInv, RefuseComplete
  <2> QED
    BY <1>8, <2>1, <2>3, QuietStep DEF RefuseComplete
<1>9. CASE Lose
  <2>1. PICK lost \in net : net' = net \ {lost}
    BY <1>9 DEF Lose
  <2>2. lost.of \in Handshakes
    BY MessageFields DEF IInv, TypeOK
  <2>3. net' \subseteq net \cup {Answer(lost.of, "complete", FALSE)} /\ repeats' \in 0..MaxRepeats
    BY <2>1, <1>9 DEF Lose, IInv, TypeOK
  <2> QED
    BY <1>9, <2>2, <2>3, QuietStep DEF Lose
<1>10. CASE Cleanup
  BY <1>10, CleanupStep
<1>11. CASE Restart
  BY <1>11, RestartStep
<1>12. CASE UNCHANGED vars
  BY <1>12 DEF vars, IInv, TypeOK, Carried, Completing, SessionsAgree, OpenedOnce, Reported, Begun
<1> QED
  BY <1>1, <1>2, <1>3, <1>4, <1>5, <1>6, <1>7, <1>8, <1>9, <1>10, <1>11, <1>12 DEF Next
-----------------------------------------------------------------------------
LEMMA InvariantHolds == Spec => []IInv
BY InitHolds, Invariance, PTL DEF Spec

\* Messages, entries and sessions always have their types.
THEOREM TypeCorrect == Spec => []TypeOK
<1>1. IInv => TypeOK
  BY DEF IInv
<1> QED
  BY <1>1, InvariantHolds, PTL

\* Every session of the responder has only capabilities that this process and its
\* initiator both have, and the initiator agrees with it.
THEOREM CapabilitiesAgree == Spec => []CapabilitiesAgreed
<1>1. IInv => CapabilitiesAgreed
  BY DEF IInv, SessionsAgree, CapabilitiesAgreed
<1> QED
  BY <1>1, InvariantHolds, PTL

LEMMA StepPairs ==
  ASSUME IInv, [Next]_vars
  PROVE  [P!Next]_<<opened, {h \in Handshakes : phase[h] = "established"}>>
<1> DEFINE established == {h \in Handshakes : phase[h] = "established"}
<1>1. ASSUME NEW c \in net, c.type = "complete", ProcessComplete(c)
      PROVE  \E h \in Handshakes : P!Open(h)
  <2>1. c.of \in Handshakes /\ opened[c.of] = 0
    BY <1>1, MessageFields, ProcessCompleteStep DEF IInv, TypeOK
  <2>2. P!Open(c.of)
    BY <1>1, <2>1 DEF ProcessComplete, P!Open, initiatorVars, IInv, TypeOK
  <2> QED
    BY <2>1, <2>2
<1>2. ASSUME NEW h \in Handshakes, Finish(h)
      PROVE  P!Establish(h) \/ UNCHANGED <<opened, established>>
  <2>1. PICK end \in {"established", "failed"} : phase' = [phase EXCEPT ![h] = end]
    BY <1>2 DEF Finish
  <2>2. /\ phase[h] = "complete" /\ opened[h] = 1 /\ UNCHANGED opened
    BY <1>2 DEF Finish, responderVars, IInv, Reported
  <2>3. CASE end = "established"
    <3>1. established' = established \cup {h} /\ h \notin established
      BY <2>1, <2>2, <2>3 DEF IInv, TypeOK
    <3> QED
      BY <2>2, <3>1 DEF P!Establish
  <2>4. CASE end = "failed"
    BY <2>1, <2>2, <2>4 DEF IInv, TypeOK
  <2> QED
    BY <2>3, <2>4
<1>3. ASSUME NEW h \in Handshakes, CreateInit(h) \/ ProcessResponse(h) \/ Fail(h)
      PROVE  UNCHANGED <<opened, established>>
  BY <1>3 DEF CreateInit, ProcessResponse, Fail, responderVars, IInv, TypeOK
<1>4. ASSUME NEW h \in Handshakes, RefuseInit(h) \/ ProcessInit(h)
      PROVE  UNCHANGED <<opened, established>>
  BY <1>4 DEF RefuseInit, ProcessInit, initiatorVars, responderVars
<1>5. ASSUME NEW c \in net, RefuseComplete(c)
      PROVE  UNCHANGED <<opened, established>>
  BY <1>5 DEF RefuseComplete, initiatorVars, responderVars
<1>6. CASE Lose \/ Cleanup \/ Restart \/ UNCHANGED vars
  BY <1>6 DEF Lose, Cleanup, Restart, initiatorVars, responderVars, vars
<1> QED
  BY <1>1, <1>2, <1>3, <1>4, <1>5, <1>6 DEF Next, P!Next

\* The handshake implements Pairings: opened at most once, and taken for
\* established only after that.
THEOREM PairingsImplemented == Spec => PairingsSpec
<1>1. Init => P!Init
  BY DEF Init, P!Init
<1>2. IInv /\ [Next]_vars => [P!Next]_<<opened, {h \in Handshakes : phase[h] = "established"}>>
  BY StepPairs
<1> QED
  BY <1>1, <1>2, InvariantHolds, PTL DEF Spec, PairingsSpec, P!Spec
=============================================================================
