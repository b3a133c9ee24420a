---------------------------- MODULE Credentials ----------------------------
(***************************************************************************)
(* The identity of an agent on disk: initializeKeys (crypto/keys.ts), then  *)
(* initializeCA (crypto/certs.ts), each of which loads three files or, if   *)
(* it cannot, makes them anew and writes one after the other.  The process  *)
(* may die anywhere.                                                        *)
(***************************************************************************)
EXTENDS Naturals, Sequences, FiniteSets

CONSTANTS
  MaxMade,   \* bound: identities that are generated
  MaxStarts  \* bound: starts of the process

ASSUME CredentialsAssumption == {MaxMade, MaxStarts} \subseteq Nat

\* In the order in which they are written.
KeyFiles == <<"agent.json", "tls-private.pem", "tls-public.pem">>
CAFiles == <<"ca.crt", "ca.key", "serial">>
Files == {"agent.json", "tls-private.pem", "tls-public.pem", "ca.crt", "ca.key", "serial"}

Missing == 0
Empty == MaxMade + 1    \* created or truncated, and not yet written

VARIABLES
  disk,      \* of each file: the identity it was written for, Missing or Empty
  generated, \* identities generated
  work,      \* what the process is to do: files to write, or a store to load
  identity,  \* what the process has loaded or generated so far
  starts,
  agents     \* identities of the agents that were constructed

credentialVars == <<disk, generated, work, identity, starts, agents>>

Load(store) == [do |-> "load", store |-> store, next |-> 0]
Down == [do |-> "nothing", store |-> <<>>, next |-> 0]

CredentialsInit ==
  /\ disk = [f \in Files |-> Missing]
  /\ generated = 0
  /\ work = Down
  /\ identity = <<>>
  /\ starts = 0
  /\ agents = {}

Construct ==
  /\ work = Down
  /\ starts < MaxStarts
  /\ starts' = starts + 1
  /\ work' = Load(KeyFiles)
  /\ identity' = <<>>
  /\ UNCHANGED <<disk, generated, agents>>

\* A store is at hand, with the parts id: the certificate authority is next, and
\* then the agent is there.
Obtained(store, id) ==
  /\ identity' = identity \o id
  /\ work' = IF store = KeyFiles THEN Load(CAFiles) ELSE Down
  /\ agents' = IF store = KeyFiles THEN agents ELSE agents \cup {identity \o id}

\* Faulty variant of Loadable: the file that is written last is not needed.
LoadableWithTwo(store) ==
  /\ \A i \in 1..2 : disk[store[i]] # Missing
  /\ store = KeyFiles => disk["agent.json"] # Empty

\* loadKeys and loadCA: all three files are there, and agent.json parses.  Files
\* of PEM text are taken as they are.
Loadable(store) ==
  /\ \A i \in 1..3 : disk[store[i]] # Missing
  /\ store = KeyFiles => disk["agent.json"] # Empty

LoadStore ==
  /\ work.do = "load"
  /\ Loadable(work.store)
  /\ Obtained(work.store, <<disk[work.store[1]], disk[work.store[2]]>>)
  /\ UNCHANGED <<disk, generated, starts>>

\* A store that cannot be loaded is made anew, and its files are to be written.
Renew(store) ==
  /\ work = Load(store)
  /\ ~Loadable(store)
  /\ generated < MaxMade
  /\ generated' = generated + 1
  /\ work' = [work EXCEPT !.do = "open", !.next = 1]
  /\ UNCHANGED <<disk, identity, starts, agents>>

\* initializeKeys and initializeCA without what they could load.
GenerateKeys == Renew(KeyFiles)

CreateCA == Renew(CAFiles)

\* writeFileSync creates or truncates a file, and then writes it.
OpenFile ==
  /\ work.do = "open"
  /\ disk' = [disk EXCEPT ![work.store[work.next]] = Empty]
  /\ work' = [work EXCEPT !.do = "write"]
  /\ UNCHANGED <<generated, identity, starts, agents>>

WriteFile ==
  /\ work.do = "write"
  /\ disk' = [disk EXCEPT ![work.store[work.next]] = generated]
  /\ IF work.next < 3
     THEN work' = [work EXCEPT !.do = "open", !.next = @ + 1] /\ UNCHANGED <<identity, agents>>
     ELSE Obtained(work.store, <<generated, generated>>)
  /\ UNCHANGED <<generated, starts>>

Die ==
  /\ work # Down
  /\ work' = Down
  /\ identity' = <<>>
  /\ UNCHANGED <<disk, generated, starts, agents>>

CredentialsNext == Construct \/ LoadStore \/ GenerateKeys \/ CreateCA \/ OpenFile \/ WriteFile \/ Die
-----------------------------------------------------------------------------
\* However often the process died while it wrote its keys and certificates, an
\* agent's two private keys were made together, so were its certificate and the
\* key of it, none of them is a torn file, and every agent that is constructed
\* from the directory has the same (initializeKeys, initializeCA).
OneIdentity ==
  /\ \A id \in agents : id[1] = id[2] /\ id[3] = id[4] /\ Empty \notin {id[1], id[3]}
  /\ Cardinality(agents) <= 1
=============================================================================
