------------------------------ MODULE Resolver ------------------------------
(***************************************************************************)
(* DNSResolver (dns/resolver.ts) for one name: its cache, the lookup that   *)
(* callers share while it is in flight, and the directory it asks: a        *)
(* service outside of the repository, whose record may change at any time.  *)
(* A call of resolve is made once; whoever starts a lookup lends it its own *)
(* name.                                                                    *)
(***************************************************************************)
EXTENDS Naturals

CONSTANTS
  Calls,   \* calls of resolve
  NoCall,  \* no call
  NoHost   \* no endpoint

ASSUME ResolverAssumption == NoCall \notin Calls

VARIABLES
  record,   \* the directory's record: a version, an endpoint, and whether it is listed
  cached,   \* what the cache holds: a record, whether present, whether expired
  pending,  \* pendingRequests: the call whose lookup is in flight, or NoCall
  lookup,   \* of each call: its own lookup's progress, and what it was answered
  asked,    \* of each call: "none", "waiting", "found", "missing", "failed"
  waitsFor, \* the call whose lookup each call waits for
  result,   \* the endpoint each call was given
  newest    \* the version of the record given to a call most recently

dnsVars == <<cached, pending, lookup, asked, waitsFor, result, newest>>

NoRecord == [version |-> 0, listed |-> FALSE, endpoint |-> NoHost]
Idle == [at |-> "none", record |-> NoRecord]

ResolverInit ==
  /\ cached = [present |-> FALSE, expired |-> FALSE, record |-> NoRecord]
  /\ pending = NoCall
  /\ lookup = [c \in Calls |-> Idle]
  /\ asked = [c \in Calls |-> "none"]
  /\ waitsFor = [c \in Calls |-> NoCall]
  /\ result = [c \in Calls |-> NoHost]
  /\ newest = 0

Outcome(r) == IF r.listed THEN "found" ELSE "missing"

\* resolve: from the cache, by joining the lookup in flight, or by a new one.
Hit == cached.present /\ ~cached.expired

FromCache(c) ==
  /\ asked[c] = "none" /\ Hit
  /\ asked' = [asked EXCEPT ![c] = "found"]
  /\ result' = [result EXCEPT ![c] = cached.record.endpoint]
  /\ newest' = cached.record.version
  /\ UNCHANGED <<record, cached, pending, lookup, waitsFor>>

Join(c) ==
  /\ asked[c] = "none" /\ ~Hit
  /\ pending # NoCall
  /\ asked' = [asked EXCEPT ![c] = "waiting"]
  /\ waitsFor' = [waitsFor EXCEPT ![c] = pending]
  /\ UNCHANGED <<record, cached, pending, lookup, result, newest>>

StartLookup(c) ==
  /\ asked[c] = "none" /\ ~Hit
  /\ pending = NoCall
  /\ pending' = c
  /\ lookup' = [lookup EXCEPT ![c].at = "sent"]
  /\ asked' = [asked EXCEPT ![c] = "waiting"]
  /\ waitsFor' = [waitsFor EXCEPT ![c] = c]
  /\ UNCHANGED <<record, cached, result, newest>>

\* External: the directory answers; the answer is on its way.
Answer(c) ==
  /\ lookup[c].at = "sent"
  /\ lookup' = [lookup EXCEPT ![c] = [at |-> "answered", record |-> record]]
  /\ UNCHANGED <<record, cached, pending, asked, waitsFor, result, newest>>

\* Everyone who waits for the lookup of c returns with it, and the entry in
\* pendingRequests goes: the finally of the call that started it.
Return(c, how, r) ==
  /\ LET waiting == {d \in Calls : asked[d] = "waiting" /\ waitsFor[d] = c}
     IN  /\ asked' = [d \in Calls |-> IF d \in waiting THEN how ELSE asked[d]]
         /\ result' = [d \in Calls |-> IF d \in waiting THEN r.endpoint ELSE result[d]]
         /\ waitsFor' = [d \in Calls |-> IF d \in waiting THEN NoCall ELSE waitsFor[d]]
  /\ pending' = NoCall
  /\ lookup' = [lookup EXCEPT ![c] = Idle]
  /\ UNCHANGED record

\* doResolve ends with an answer; a record is cached, a missing one is not.
Arrive(c) ==
  /\ lookup[c].at = "answered"
  /\ LET r == lookup[c].record
     IN  /\ cached' = IF r.listed THEN [present |-> TRUE, expired |-> FALSE, record |-> r]
                      ELSE cached
         /\ newest' = r.version
         /\ Return(c, Outcome(r), r)

\* doResolve ends with an error: aborted by its timer, the connection broke, or
\* an answer it cannot use.
Break(c) ==
  /\ lookup[c].at \in {"sent", "answered"}
  /\ Return(c, "failed", NoRecord)
  /\ UNCHANGED <<cached, newest>>

Expire ==
  /\ Hit
  /\ cached' = [cached EXCEPT !.expired = TRUE]
  /\ UNCHANGED <<record, pending, lookup, asked, waitsFor, result, newest>>

Forget ==
  /\ cached' = [present |-> FALSE, expired |-> FALSE, record |-> NoRecord]
  /\ UNCHANGED <<record, lookup, asked, waitsFor, result, newest>>

\* pruneCache.
Prune ==
  /\ cached.present /\ cached.expired
  /\ Forget
  /\ UNCHANGED pending

\* Faulty variant of Invalidate: the lookup in flight is forgotten as well.
InvalidateAll ==
  /\ cached.present \/ pending # NoCall
  /\ Forget
  /\ pending' = NoCall

\* invalidate and clearCache.
Invalidate ==
  /\ cached.present
  /\ Forget
  /\ UNCHANGED pending

ResolverNext ==
  \/ \E c \in Calls : FromCache(c) \/ Join(c) \/ StartLookup(c) \/ Answer(c) \/ Arrive(c) \/ Break(c)
  \/ Expire \/ Prune \/ Invalidate
-----------------------------------------------------------------------------
\* What resolve answers never goes back to an older state of the record, for
\* any callers, however lookups, expiry and invalidation interleave (resolve,
\* doResolve).
NeverOlder == [][newest' >= newest]_dnsVars
=============================================================================
