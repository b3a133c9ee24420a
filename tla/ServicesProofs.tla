--------------------------- MODULE ServicesProofs ---------------------------
(***************************************************************************)
(* Proofs about the services around an agent: its bug reporter with the     *)
(* reporter's server (BugReports), the transport of an MCP bridge           *)
(* (McpTransport, in B), and the resolver of names, before a directory that *)
(* changes (Resolver, in D), for any calls, reports and limits.             *)
(***************************************************************************)
EXTENDS BugReports, McpTransport, Resolver, SequenceTheorems, FiniteSetTheorems, TLAPS

-----------------------------------------------------------------------------
\* LISTS

\* An element at the end of a list.
LEMMA Appended ==
  ASSUME NEW S, NEW s \in Seq(S), NEW x \in S
  PROVE  /\ Append(s, x) \in Seq(S)
         /\ Range(Append(s, x)) = Range(s) \cup {x}
         /\ IsInjective(s) /\ x \notin Range(s) => IsInjective(Append(s, x))
<1> DEFINE u == Append(s, x)
<1>1. /\ u \in Seq(S) /\ Len(u) = Len(s) + 1 /\ Len(s) \in Nat
      /\ \A i \in 1..Len(s) : u[i] = s[i]
      /\ u[Len(s) + 1] = x
  BY AppendProperties
<1>2. DOMAIN s = 1..Len(s) /\ DOMAIN u = 1..(Len(s) + 1)
  BY <1>1
<1>3. 1..(Len(s) + 1) = 1..Len(s) \cup {Len(s) + 1} /\ Len(s) + 1 \notin 1..Len(s)
  BY <1>1
<1> HIDE DEF u
<1> QED
  BY <1>1, <1>2, <1>3 DEF Range, IsInjective, u

\* Two lists, one after the other.
LEMMA Joined ==
  ASSUME NEW S, NEW s \in Seq(S), NEW t \in Seq(S)
  PROVE  /\ s \o t \in Seq(S)
         /\ Range(s \o t) = Range(s) \cup Range(t)
         /\ IsInjective(s) /\ IsInjective(t) /\ Range(s) \cap Range(t) = {} => IsInjective(s \o t)
<1> DEFINE u == s \o t
<1>1. /\ u \in Seq(S) /\ Len(u) = Len(s) + Len(t) /\ Len(s) \in Nat /\ Len(t) \in Nat
      /\ \A i \in 1..Len(s) : u[i] = s[i]
      /\ \A i \in 1..Len(t) : u[Len(s) + i] = t[i]
  BY ConcatProperties
<1>2. DOMAIN s = 1..Len(s) /\ DOMAIN t = 1..Len(t) /\ DOMAIN u = 1..(Len(s) + Len(t))
  BY <1>1
<1> HIDE DEF u
<1>3. \A i \in DOMAIN u : \/ i \in DOMAIN s /\ u[i] = s[i]
                          \/ i - Len(s) \in DOMAIN t /\ i = Len(s) + (i - Len(s)) /\ u[i] = t[i - Len(s)]
  <2> TAKE i \in DOMAIN u
  <2>1. CASE i <= Len(s)
    BY <1>1, <1>2, <2>1
  <2>2. CASE i > Len(s)
    <3>1. i - Len(s) \in 1..Len(t) /\ i = Len(s) + (i - Len(s))
      BY <1>1, <1>2, <2>2
    <3> QED
      BY <1>1, <1>2, <3>1
  <2> QED
    BY <1>1, <1>2, <2>1, <2>2
<1>4. Range(u) = Range(s) \cup Range(t)
  <2>1. \A i \in DOMAIN s : i \in DOMAIN u /\ u[i] = s[i]
    BY <1>1, <1>2
  <2>2. \A i \in DOMAIN t : Len(s) + i \in DOMAIN u /\ u[Len(s) + i] = t[i]
    BY <1>1, <1>2
  <2> QED
    BY <1>3, <2>1, <2>2 DEF Range
<1>5. ASSUME IsInjective(s), IsInjective(t), Range(s) \cap Range(t) = {} PROVE IsInjective(u)
  <2> SUFFICES ASSUME NEW i \in DOMAIN u, NEW j \in DOMAIN u, u[i] = u[j] PROVE i = j
    BY DEF IsInjective
  <2>1. CASE i \in DOMAIN s /\ u[i] = s[i] /\ j \in DOMAIN s /\ u[j] = s[j]
    BY <1>5, <2>1 DEF IsInjective
  <2>2. CASE /\ i - Len(s) \in DOMAIN t /\ u[i] = t[i - Len(s)]
             /\ j - Len(s) \in DOMAIN t /\ u[j] = t[j - Len(s)]
    <3>1. i - Len(s) = j - Len(s)
      BY <1>5, <2>2 DEF IsInjective
    <3> QED
      BY <1>1, <1>2, <3>1
  <2>3. ~(i \in DOMAIN s /\ u[i] = s[i] /\ j - Len(s) \in DOMAIN t /\ u[j] = t[j - Len(s)])
    BY <1>5 DEF Range
  <2>4. ~(j \in DOMAIN s /\ u[j] = s[j] /\ i - Len(s) \in DOMAIN t /\ u[i] = t[i - Len(s)])
    BY <1>5 DEF Range
  <2> QED
    BY <1>3, <2>1, <2>2, <2>3, <2>4
<1> QED
  BY <1>1, <1>4, <1>5 DEF u

\* A list without its first element.
LEMMA Beheaded ==
  ASSUME NEW S, NEW s \in Seq(S), s # <<>>
  PROVE  /\ Head(s) \in Range(s) /\ Head(s) \in S /\ Tail(s) \in Seq(S)
         /\ Len(s) = 1 => Tail(s) = <<>>
         /\ IsInjective(s) => IsInjective(Tail(s)) /\ Range(Tail(s)) = Range(s) \ {Head(s)}
<1> DEFINE t == Tail(s)
<1>1. /\ t \in Seq(S) /\ Len(t) = Len(s) - 1 /\ Len(s) \in Nat /\ Len(s) >= 1 /\ Head(s) = s[1]
      /\ \A i \in 1..Len(t) : t[i] = s[i + 1]
  BY HeadTailProperties, EmptySeq
<1>2. DOMAIN s = 1..Len(s) /\ DOMAIN t = 1..(Len(s) - 1)
  BY <1>1
<1>3. Len(s) = 1 => t = <<>>
  <2>1. t # <<>> => Len(t) # 0
    BY <1>1, EmptySeq
  <2> HIDE DEF t
  <2> QED
    BY <1>1, <2>1
<1> HIDE DEF t
<1>4. \A i \in DOMAIN t : i + 1 \in DOMAIN s /\ i + 1 # 1 /\ t[i] = s[i + 1]
  BY <1>1, <1>2
<1>5. \A i \in DOMAIN s : i = 1 \/ (i - 1 \in DOMAIN t /\ t[i - 1] = s[i])
  <2> TAKE i \in DOMAIN s
  <2>1. i = 1 \/ (i - 1 \in DOMAIN t /\ (i - 1) + 1 = i)
    BY <1>1, <1>2
  <2> QED
    BY <1>4, <2>1
<1>6. 1 \in DOMAIN s /\ Head(s) = s[1] /\ Head(s) \in S
  BY <1>1, <1>2
<1>7. ASSUME IsInjective(s) PROVE IsInjective(t) /\ Range(t) = Range(s) \ {Head(s)}
  <2>1. IsInjective(t)
    BY <1>1, <1>2, <1>4, <1>7 DEF IsInjective
  <2>2. \A i \in DOMAIN t : t[i] \in Range(s) \ {s[1]}
    BY <1>4, <1>6, <1>7 DEF Range, IsInjective
  <2>3. \A i \in DOMAIN s : s[i] # s[1] => s[i] \in Range(t)
    BY <1>5 DEF Range
  <2> QED
    BY <1>6, <2>1, <2>2, <2>3 DEF Range
<1> QED
  BY <1>1, <1>3, <1>6, <1>7 DEF t, Range

\* A list cut in two.
LEMMA Cut ==
  ASSUME NEW S, NEW s \in Seq(S), NEW n \in 0..Len(s)
  PROVE  /\ SubSeq(s, 1, n) \in Seq(S) /\ SubSeq(s, n + 1, Len(s)) \in Seq(S)
         /\ Range(SubSeq(s, 1, n)) \cup Range(SubSeq(s, n + 1, Len(s))) = Range(s)
         /\ IsInjective(s) => /\ IsInjective(SubSeq(s, 1, n)) /\ IsInjective(SubSeq(s, n + 1, Len(s)))
                             /\ Range(SubSeq(s, 1, n)) \cap Range(SubSeq(s, n + 1, Len(s))) = {}
<1> DEFINE u == SubSeq(s, 1, n)
           v == SubSeq(s, n + 1, Len(s))
<1>1. Len(s) \in Nat /\ n \in Nat /\ n <= Len(s) /\ DOMAIN s = 1..Len(s)
  OBVIOUS
<1>2. u \in Seq(S) /\ Len(u) = n /\ \A i \in 1..n : u[i] = s[i]
  <2>1. 1 \in Int /\ n \in Int /\ \A i \in 1..n : s[i] \in S
    BY <1>1
  <2>2. /\ u \in Seq(S) /\ Len(u) = IF 1 <= n THEN n - 1 + 1 ELSE 0
        /\ \A i \in 1..(n - 1 + 1) : u[i] = s[1 + i - 1]
    BY <2>1, SubSeqProperties
  <2> HIDE DEF u
  <2>3. n - 1 + 1 = n /\ \A i \in 1..n : 1 + i - 1 = i
    BY <1>1
  <2> QED
    BY <1>1, <2>2, <2>3
<1>3. v \in Seq(S) /\ Len(v) = Len(s) - n /\ \A i \in 1..(Len(s) - n) : v[i] = s[i + n]
  <2>1. n + 1 \in Int /\ Len(s) \in Int /\ \A i \in (n + 1)..Len(s) : s[i] \in S
    BY <1>1
  <2>2. /\ v \in Seq(S) /\ Len(v) = IF n + 1 <= Len(s) THEN Len(s) - (n + 1) + 1 ELSE 0
        /\ \A i \in 1..(Len(s) - (n + 1) + 1) : v[i] = s[(n + 1) + i - 1]
    BY <2>1, SubSeqProperties
  <2> HIDE DEF v
  <2>3. Len(s) - (n + 1) + 1 = Len(s) - n /\ \A i \in 1..(Len(s) - n) : (n + 1) + i - 1 = i + n
    BY <1>1
  <2>4. Len(v) = Len(s) - n
    <3>1. n + 1 <= Len(s) \/ Len(s) - n = 0
      <4>1. \A a, b \in Nat : b <= a => b + 1 <= a \/ a - b = 0
        OBVIOUS
      <4> QED
        BY <1>1, <4>1
    <3>2. n + 1 <= Len(s) => Len(v) = Len(s) - (n + 1) + 1
      BY <2>2
    <3>3. ~(n + 1 <= Len(s)) => Len(v) = 0
      BY <2>2
    <3> QED
      BY <2>3, <3>1, <3>2, <3>3
  <2>5. \A i \in 1..(Len(s) - n) : v[i] = s[(n + 1) + i - 1]
    BY <2>2, <2>3
  <2>6. \A i \in 1..(Len(s) - n) : v[i] = s[i + n]
    BY <2>3, <2>5
  <2> QED
    BY <2>2, <2>4, <2>6
<1>4. DOMAIN u = 1..n /\ DOMAIN v = 1..(Len(s) - n)
  BY <1>2, <1>3
<1> HIDE DEF u, v
<1>5. \A i \in DOMAIN u : i \in DOMAIN s /\ i <= n /\ u[i] = s[i]
  BY <1>1, <1>2, <1>4
<1>6. \A i \in DOMAIN v : i + n \in DOMAIN s /\ ~(i + n <= n) /\ v[i] = s[i + n]
  BY <1>1, <1>3, <1>4
<1>7. \A i \in DOMAIN s : \/ i \in DOMAIN u /\ s[i] = u[i]
                          \/ i - n \in DOMAIN v /\ s[i] = v[i - n]
  <2> TAKE i \in DOMAIN s
  <2>1. CASE i <= n
    BY <1>1, <1>2, <1>4, <2>1
  <2>2. CASE i > n
    <3>1. i - n \in 1..(Len(s) - n) /\ (i - n) + n = i
      BY <1>1, <2>2
    <3> QED
      BY <1>3, <1>4, <3>1
  <2> QED
    BY <1>1, <2>1, <2>2
<1>8. Range(u) \cup Range(v) = Range(s)
  <2>1. \A i \in DOMAIN u : u[i] \in Range(s)
    BY <1>5 DEF Range
  <2>2. \A i \in DOMAIN v : v[i] \in Range(s)
    BY <1>6 DEF Range
  <2>3. \A i \in DOMAIN s : s[i] \in Range(u) \cup Range(v)
    BY <1>7 DEF Range
  <2> QED
    BY <2>1, <2>2, <2>3 DEF Range
<1>9. ASSUME IsInjective(s) PROVE IsInjective(u) /\ IsInjective(v) /\ Range(u) \cap Range(v) = {}
  <2>1. IsInjective(u)
    BY <1>5, <1>9 DEF IsInjective
  <2>2. IsInjective(v)
    <3> SUFFICES ASSUME NEW i \in DOMAIN v, NEW j \in DOMAIN v, v[i] = v[j] PROVE i = j
      BY DEF IsInjective
    <3>1. i + n = j + n
      BY <1>6, <1>9 DEF IsInjective
    <3> QED
      BY <1>1, <1>4, <3>1
  <2>3. \A i \in DOMAIN u, j \in DOMAIN v : u[i] # v[j]
    BY <1>5, <1>6, <1>9 DEF IsInjective
  <2> QED
    BY <2>1, <2>2, <2>3 DEF Range
<1> QED
  BY <1>2, <1>3, <1>8, <1>9 DEF u, v

\* A list without the elements of a set.  The positions that stay, numbered by how
\* many come up to each, are as many as their numbers, so that every number is taken.
LEMMA LeftOver ==
  ASSUME NEW S, NEW s \in Seq(S), NEW out
  PROVE  /\ Left(s, out) \in Seq(S)
         /\ Range(Left(s, out)) = Range(s) \ out
         /\ IsInjective(s) => IsInjective(Left(s, out))
<1> DEFINE stay == {i \in DOMAIN s : s[i] \notin out}
           n == Cardinality(stay)
           below(i) == {j \in stay : j <= i}
           rank == [i \in stay |-> Cardinality(below(i))]
           nth(k) == CHOOSE i \in stay : Cardinality(below(i)) = k
           u == Left(s, out)
<1>1. DOMAIN s = 1..Len(s) /\ Len(s) \in Nat /\ stay \subseteq Nat
  OBVIOUS
<1>2. IsFiniteSet(stay)
  <2>1. IsFiniteSet(1..Len(s))
    BY <1>1, FS_Interval
  <2>2. stay \in SUBSET (1..Len(s))
    BY <1>1
  <2> QED
    BY <2>1, <2>2, FS_Subset
<1>3. n \in Nat
  BY <1>2, FS_CardinalityType
<1>4. ASSUME NEW i \in stay PROVE IsFiniteSet(below(i)) /\ Cardinality(below(i)) \in 1..n
  <2>1. below(i) \in SUBSET stay /\ i \in below(i)
    BY <1>1
  <2>2. IsFiniteSet(below(i)) /\ Cardinality(below(i)) <= n
    BY <1>2, <2>1, FS_Subset
  <2>3. Cardinality(below(i)) \in Nat /\ Cardinality(below(i)) # 0
    BY <2>1, <2>2, FS_CardinalityType, FS_EmptySet
  <2> QED
    BY <1>3, <2>2, <2>3
<1>5. rank \in Injection(stay, 1..n)
  <2>1. rank \in [stay -> 1..n]
    BY <1>4
  <2>2. ASSUME NEW i \in stay, NEW j \in stay, i < j PROVE Cardinality(below(i)) # Cardinality(below(j))
    <3>1. below(i) \in SUBSET below(j) /\ j \in below(j) /\ j \notin below(i)
      BY <1>1, <2>2
    <3>2. below(i) # below(j)
      BY <3>1
    <3> QED
      BY <1>4, <3>1, <3>2, FS_Subset
  <2>3. ASSUME NEW i \in stay, NEW j \in stay, rank[i] = rank[j] PROVE i = j
    <3>1. Cardinality(below(i)) = Cardinality(below(j))
      BY <2>3
    <3>2. ~(i < j) /\ ~(j < i)
      BY <2>2, <3>1
    <3> QED
      BY <1>1, <3>2
  <2>4. IsInjective(rank)
    BY <2>3 DEF IsInjective
  <2> QED
    BY <2>1, <2>4 DEF Injection
<1>6. \A k \in 1..n : \E i \in stay : Cardinality(below(i)) = k
  <2>1. IsFiniteSet(1..n) /\ Cardinality(1..n) = n
    BY <1>3, FS_Interval
  <2>2. rank \in Surjection(stay, 1..n)
    BY <1>5, <2>1, FS_Injection
  <2>3. \A k \in 1..n : \E i \in stay : rank[i] = k
    BY <2>2 DEF Surjection
  <2> QED
    BY <2>3
<1>7. \A k \in 1..n : nth(k) \in stay /\ Cardinality(below(nth(k))) = k
  BY <1>6
<1>8. u = [k \in 1..n |-> s[nth(k)]]
  BY DEF Left
<1> HIDE DEF nth, u
<1>9. DOMAIN u = 1..n /\ \A k \in 1..n : nth(k) \in DOMAIN s /\ u[k] = s[nth(k)] /\ s[nth(k)] \notin out
  BY <1>7, <1>8
<1>10. u \in Seq(S)
  <2>1. \A k \in 1..n : u[k] \in S
    BY <1>9
  <2> QED
    BY <1>3, <1>8, <2>1
<1>11. Range(u) = Range(s) \ out
  <2>1. \A k \in DOMAIN u : u[k] \in Range(s) \ out
    BY <1>9 DEF Range
  <2>2. ASSUME NEW i \in DOMAIN s, s[i] \notin out PROVE s[i] \in Range(u)
    <3>1. i \in stay /\ rank[i] \in 1..n
      BY <1>4, <2>2
    <3>2. rank[nth(rank[i])] = rank[i] /\ nth(rank[i]) \in stay
      BY <1>7, <3>1
    <3>3. nth(rank[i]) = i
      BY <1>5, <3>1, <3>2 DEF Injection, IsInjective
    <3> QED
      BY <1>9, <3>1, <3>3 DEF Range
  <2> QED
    BY <2>1, <2>2 DEF Range
<1>12. ASSUME IsInjective(s) PROVE IsInjective(u)
  <2> SUFFICES ASSUME NEW k \in 1..n, NEW l \in 1..n, u[k] = u[l] PROVE k = l
    BY <1>9 DEF IsInjective
  <2>1. nth(k) = nth(l)
    BY <1>9, <1>12 DEF IsInjective
  <2> QED
    BY <1>7, <2>1
<1> QED
  BY <1>10, <1>11, <1>12 DEF u

-----------------------------------------------------------------------------
\* THE BUG REPORTER

Fates == {"none", "kept", "dropped", "sent", "given up"}

ReporterOK ==
  /\ fate \in [Reports -> Fates]
  /\ queue \in Seq(Reports)
  /\ todo \in [Batches -> Seq(Reports)] /\ failed \in [Batches -> Seq(Reports)]

Kept == {r \in Reports : fate[r] = "kept"}

\* A step of one batch and the queue.
OnlyBatch(b) ==
  /\ \A c \in Batches \ {b} : todo'[c] = todo[c] /\ failed'[c] = failed[c]
  /\ IsInjective(queue') /\ IsInjective(todo'[b]) /\ IsInjective(failed'[b])
  /\ Range(todo'[b]) \cap Range(failed'[b]) = {} /\ Has(b)' \cap Range(queue') = {}

\* Such a step, which takes the reports gone out of the reporter and keeps the others.
LEMMA BatchMoves ==
  ASSUME OnePlace, NEW b \in Batches, OnlyBatch(b), NEW gone \in SUBSET (Has(b) \cup Range(queue)),
         Has(b)' \cup Range(queue') = (Has(b) \cup Range(queue)) \ gone, Kept' = Kept \ gone
  PROVE  OnePlace'
<1>1. \A c \in Batches \ {b} : Has(c)' = Has(c) /\ Has(c) \cap (Has(b) \cup Range(queue)) = {}
  BY DEF OnePlace, OnlyBatch, Has
<1>2. \A c \in Batches : Has(c)' \cap Range(queue') = {}
  BY <1>1 DEF OnlyBatch
<1>3. \A c, d \in Batches : c # d => Has(c)' \cap Has(d)' = {}
  <2>1. \A c \in Batches \ {b} : Has(b)' \cap Has(c)' = {}
    BY <1>1
  <2>2. \A c \in Batches \ {b}, d \in Batches \ {b} : c # d => Has(c)' \cap Has(d)' = {}
    BY <1>1 DEF OnePlace
  <2> QED
    BY <2>1, <2>2
<1>4. \A c \in Batches : /\ IsInjective(todo'[c]) /\ IsInjective(failed'[c])
                         /\ Range(todo'[c]) \cap Range(failed'[c]) = {}
  BY DEF OnePlace, OnlyBatch
<1>5. Range(queue') \cup UNION {Has(c)' : c \in Batches} = Kept'
  <2> DEFINE rest == UNION {Has(c) : c \in Batches \ {b}}
  <2>1. Kept = (Range(queue) \cup Has(b)) \cup rest /\ rest \cap gone = {}
    BY <1>1 DEF OnePlace, Kept
  <2>2. rest = UNION {Has(c)' : c \in Batches \ {b}}
    BY <1>1
  <2> QED
    BY <2>1, <2>2
<1> QED
  BY <1>2, <1>3, <1>4, <1>5 DEF OnePlace, OnlyBatch, Kept

\* report and enqueue: what is dropped leaves the queue, and the new report joins it.
LEMMA ReportKeeps ==
  ASSUME ReporterOK, OnePlace, NEW r \in Reports, Report(r)
  PROVE  ReporterOK' /\ OnePlace'
<1> DEFINE out == Surplus(queue)
<1>1. /\ queue' = Append(Left(queue, out), r)
      /\ fate' = [x \in Reports |-> IF x = r THEN "kept" ELSE IF x \in out THEN "dropped" ELSE fate[x]]
      /\ todo' = todo /\ failed' = failed /\ fate[r] = "none"
  BY DEF Report
<1>2. out \subseteq Range(queue)
  BY DEF Surplus, Range
<1> HIDE DEF out
<1>3. r \notin Range(queue) /\ \A b \in Batches : r \notin Has(b)
  BY <1>1 DEF OnePlace
<1>4. /\ queue' \in Seq(Reports) /\ Range(queue') = (Range(queue) \ out) \cup {r} /\ IsInjective(queue')
  <2>1. /\ Left(queue, out) \in Seq(Reports) /\ Range(Left(queue, out)) = Range(queue) \ out
        /\ IsInjective(Left(queue, out))
    BY LeftOver DEF ReporterOK, OnePlace
  <2> QED
    BY <1>1, <1>3, <2>1, Appended
<1>5. ReporterOK'
  BY <1>1, <1>4 DEF ReporterOK, Fates
<1>6. \A b \in Batches : Has(b)' = Has(b) /\ Has(b) \cap Range(queue') = {}
  BY <1>1, <1>3, <1>4 DEF OnePlace, Has
<1>7. {x \in Reports : fate'[x] = "kept"} = ({x \in Reports : fate[x] = "kept"} \ out) \cup {r}
  BY <1>1, <1>2, <1>3
<1>8. UNION {Has(b)' : b \in Batches} = UNION {Has(b) : b \in Batches}
  BY <1>6
<1>9. (UNION {Has(b) : b \in Batches}) \cap out = {}
  <2>1. \A b \in Batches : Has(b) \cap out = {}
    BY <1>2 DEF OnePlace
  <2> QED
    BY <2>1
<1>10. Range(queue') \cup UNION {Has(b)' : b \in Batches} = {x \in Reports : fate'[x] = "kept"}
  <2> DEFINE all == UNION {Has(b) : b \in Batches}
  <2>1. Range(queue) \cup all = {x \in Reports : fate[x] = "kept"}
    BY DEF OnePlace
  <2> HIDE DEF all
  <2>2. ((Range(queue) \cup all) \ out) \cup {r} = (Range(queue) \ out) \cup {r} \cup all
    BY <1>9 DEF all
  <2>3. Range(queue') \cup all = {x \in Reports : fate'[x] = "kept"}
    BY <1>4, <1>7, <2>1, <2>2
  <2> QED
    BY <1>8, <2>3 DEF all
<1> QED
  BY <1>1, <1>4, <1>5, <1>6, <1>10 DEF OnePlace

\* processBatch takes from the queue, and its batch was none before.
LEMMA TakeKeeps ==
  ASSUME ReporterOK, OnePlace, NEW b \in Batches, Take(b)
  PROVE  ReporterOK' /\ OnePlace' /\ todo[b] = <<>>
<1> DEFINE n == IF Len(queue) < BatchSize THEN Len(queue) ELSE BatchSize
<1>1. /\ todo' = [todo EXCEPT ![b] = SubSeq(queue, 1, n)] /\ queue' = SubSeq(queue, n + 1, Len(queue))
      /\ fate' = fate /\ failed' = failed
  BY DEF Take
<1>2. todo[b] = <<>>
  <2>1. b \in 1..b
    BY ReporterAssumption DEF Batches
  <2> QED
    BY <2>1 DEF Take, FirstFree
<1>3. n \in 0..Len(queue)
  BY ReporterAssumption DEF ReporterOK
<1> HIDE DEF n
<1>4. /\ queue' \in Seq(Reports) /\ SubSeq(queue, 1, n) \in Seq(Reports)
      /\ IsInjective(queue') /\ IsInjective(SubSeq(queue, 1, n))
      /\ Range(SubSeq(queue, 1, n)) \cup Range(queue') = Range(queue)
      /\ Range(SubSeq(queue, 1, n)) \cap Range(queue') = {}
  BY <1>1, <1>3, Cut DEF ReporterOK, OnePlace
<1>5. /\ \A c \in Batches \ {b} : todo'[c] = todo[c] /\ failed'[c] = failed[c]
      /\ todo'[b] = SubSeq(queue, 1, n) /\ failed'[b] = failed[b]
  BY <1>1 DEF ReporterOK
<1>6. Range(todo[b]) = {}
  BY <1>2 DEF Range
<1>7. OnlyBatch(b) /\ Has(b)' \cup Range(queue') = (Has(b) \cup Range(queue)) \ {} /\ Kept' = Kept \ {}
  BY <1>1, <1>4, <1>5, <1>6 DEF OnlyBatch, OnePlace, Has, Kept
<1> QED
  BY <1>1, <1>2, <1>4, <1>7, BatchMoves DEF ReporterOK

\* After an upload a report leaves, or is among those that failed; these go back to
\* the queue with the last.
LEMMA UploadedKeeps ==
  ASSUME ReporterOK, OnePlace, NEW b \in Batches, NEW ok \in BOOLEAN, Uploaded(b, ok)
  PROVE  ReporterOK' /\ OnePlace'
<1> DEFINE r == Head(todo[b])
           again == ~ok /\ attempts[r] + 1 < MaxRetries
           back == IF again THEN Append(failed[b], r) ELSE failed[b]
<1>1. /\ todo[b] # <<>> /\ Advance(b, back)
      /\ fate' = IF again THEN fate ELSE [fate EXCEPT ![r] = IF ok THEN "sent" ELSE "given up"]
  BY DEF Uploaded
<1>2. /\ todo[b] \in Seq(Reports) /\ failed[b] \in Seq(Reports)
      /\ IsInjective(todo[b]) /\ IsInjective(failed[b]) /\ IsInjective(queue)
      /\ Range(todo[b]) \cap Range(failed[b]) = {} /\ Has(b) \cap Range(queue) = {}
  BY DEF ReporterOK, OnePlace
<1>3. /\ r \in Range(todo[b]) /\ r \in Reports /\ Tail(todo[b]) \in Seq(Reports)
      /\ Len(todo[b]) = 1 => Tail(todo[b]) = <<>>
      /\ IsInjective(Tail(todo[b])) /\ Range(Tail(todo[b])) = Range(todo[b]) \ {r}
  BY <1>1, <1>2, Beheaded
<1> HIDE DEF r
<1> DEFINE gone == IF again THEN {} ELSE {r}
<1>4. /\ back \in Seq(Reports) /\ IsInjective(back)
      /\ Range(back) = Range(failed[b]) \cup ({r} \ gone)
  <2>1. CASE again
    BY <1>2, <1>3, <2>1, Appended
  <2>2. CASE ~again
    BY <1>2, <2>2
  <2> QED
    BY <2>1, <2>2
<1> HIDE DEF again, back
<1>5. /\ todo'[b] = Tail(todo[b])
      /\ todo' \in [Batches -> Seq(Reports)]
      /\ \A c \in Batches \ {b} : todo'[c] = todo[c] /\ failed'[c] = failed[c]
  BY <1>1, <1>3 DEF ReporterOK, Advance
<1>6. /\ Kept' = Kept \ gone
      /\ fate' \in [Reports -> Fates]
  BY <1>1, <1>3 DEF ReporterOK, Kept, Fates
<1>7. CASE Len(todo[b]) = 1
  <2>1. /\ queue' = back \o queue /\ failed' = [failed EXCEPT ![b] = <<>>]
    BY <1>1, <1>7 DEF Advance
  <2>2. Range(back) \cap Range(queue) = {}
    BY <1>2, <1>3, <1>4 DEF Has
  <2>3. queue' \in Seq(Reports) /\ Range(queue') = Range(back) \cup Range(queue) /\ IsInjective(queue')
    BY <1>2, <1>4, <2>1, <2>2, Joined DEF ReporterOK
  <2>4. /\ failed'[b] = <<>> /\ todo'[b] = <<>> /\ failed' \in [Batches -> Seq(Reports)]
    BY <1>3, <1>5, <1>7, <2>1 DEF ReporterOK
  <2>5. Range(failed'[b]) = {} /\ Range(todo'[b]) = {} /\ IsInjective(failed'[b]) /\ IsInjective(todo'[b])
    BY <2>4 DEF Range, IsInjective
  <2>6. Range(todo[b]) = {r}
    BY <1>3, <1>5, <2>5
  <2>7. OnlyBatch(b) /\ Has(b)' \cup Range(queue') = (Has(b) \cup Range(queue)) \ gone
    BY <1>2, <1>4, <1>5, <2>3, <2>5, <2>6 DEF OnlyBatch, Has
  <2>8. gone \in SUBSET (Has(b) \cup Range(queue))
    BY <1>3 DEF Has
  <2>9. OnePlace'
    BY <1>6, <2>7, <2>8, BatchMoves
  <2> QED
    BY <1>5, <1>6, <2>3, <2>4, <2>9 DEF ReporterOK
<1>8. CASE Len(todo[b]) # 1
  <2>1. queue' = queue /\ failed' = [failed EXCEPT ![b] = back]
    BY <1>1, <1>8 DEF Advance
  <2>2. failed'[b] = back /\ failed' \in [Batches -> Seq(Reports)]
    BY <1>4, <2>1 DEF ReporterOK
  <2>3. OnlyBatch(b) /\ Has(b)' \cup Range(queue') = (Has(b) \cup Range(queue)) \ gone
    BY <1>2, <1>3, <1>4, <1>5, <2>1, <2>2 DEF OnlyBatch, Has
  <2>4. gone \in SUBSET (Has(b) \cup Range(queue))
    BY <1>3 DEF Has
  <2>5. OnePlace'
    BY <1>6, <2>3, <2>4, BatchMoves
  <2> QED
    BY <1>5, <1>6, <2>1, <2>2, <2>5 DEF ReporterOK
<1> QED
  BY <1>7, <1>8

\* The process dies, and keeps nothing.
LEMMA DieKeeps ==
  ASSUME ReporterOK, Die
  PROVE  ReporterOK' /\ OnePlace'
<1>1. /\ queue' = <<>> /\ \A b \in Batches : todo'[b] = <<>> /\ failed'[b] = <<>>
      /\ fate' = [r \in Reports |-> IF fate[r] = "kept" THEN "dropped" ELSE fate[r]]
  BY DEF Die
<1>2. IsInjective(<<>>) /\ Range(<<>>) = {}
  BY DEF IsInjective, Range
<1>3. Range(queue') = {} /\ \A b \in Batches : Has(b)' = {}
  BY <1>1, <1>2 DEF Has
<1>4. {r \in Reports : fate'[r] = "kept"} = {}
  BY <1>1
<1>5. OnePlace'
  BY <1>1, <1>2, <1>3, <1>4 DEF OnePlace
<1>6. fate' \in [Reports -> Fates]
  BY <1>1 DEF ReporterOK, Fates
<1>7. <<>> \in Seq(Reports)
  OBVIOUS
<1> QED
  BY <1>5, <1>6, <1>7 DEF ReporterOK, Die

ReporterInv == ReporterOK /\ OnePlace

\* Every step keeps the reporter's invariant.
LEMMA ReporterKeeps ==
  ASSUME ReporterInv, [Next]_vars
  PROVE  ReporterInv'
<1>1. ASSUME UNCHANGED <<fate, queue, todo, failed>> PROVE ReporterInv'
  BY <1>1 DEF ReporterInv, ReporterOK, OnePlace, Has
<1>2. CASE ReporterStep
  <2>1. ASSUME NEW b \in Batches, Timer(b) \/ Immediate(b) PROVE ReporterInv'
    BY <1>1, <2>1, TakeKeeps DEF ReporterInv, Timer, Immediate
  <2>2. CASE Start \/ Stop
    BY <1>1, <2>2 DEF Start, Stop
  <2> QED
    BY <1>2, <2>1, <2>2, ReportKeeps DEF ReporterInv, ReporterStep
<1>3. ASSUME NEW b \in Batches, Sent(b) \/ NotSent(b) PROVE ReporterInv'
  BY <1>3, UploadedKeeps DEF ReporterInv, Sent, NotSent
<1>4. CASE ProcessDies
  BY <1>4, DieKeeps DEF ReporterInv, ProcessDies
<1>5. ASSUME NEW b \in Batches, PostArrives(b) PROVE ReporterInv'
  BY <1>1, <1>5 DEF PostArrives, reporterVars
<1>6. ASSUME NEW r \in Reports, ArriveLate(r) PROVE ReporterInv'
  BY <1>1, <1>6 DEF ArriveLate, reporterVars
<1>7. CASE ServerDies \/ ((ServerStart \/ ServerStop) /\ UNCHANGED <<reporterVars, answer, late, lates>>)
  BY <1>1, <1>7 DEF ServerDies, reporterVars
<1>8. CASE UNCHANGED vars
  BY <1>1, <1>8 DEF vars, reporterVars
<1> QED
  BY <1>2, <1>3, <1>4, <1>5, <1>6, <1>7, <1>8 DEF Next

\* The reporter starts empty.
LEMMA ReporterStarts == Init => ReporterInv
<1> SUFFICES ASSUME Init PROVE ReporterInv
  OBVIOUS
<1>1. ReporterOK
  BY DEF Init, ReporterInit, ReporterOK, Fates
<1>2. IsInjective(<<>>) /\ Range(<<>>) = {}
  BY DEF IsInjective, Range
<1>3. queue = <<>> /\ \A b \in Batches : todo[b] = <<>> /\ failed[b] = <<>>
  BY DEF Init, ReporterInit
<1>4. Range(queue) = {} /\ \A b \in Batches : Has(b) = {}
  BY <1>2, <1>3 DEF Has
<1>5. {r \in Reports : fate[r] = "kept"} = {}
  BY DEF Init, ReporterInit
<1>6. OnePlace
  BY <1>2, <1>3, <1>4, <1>5 DEF OnePlace
<1> QED
  BY <1>1, <1>6 DEF ReporterInv

\* A report that is not settled is in the queue or in one batch, once, and a settled
\* one in none, for any queue, batches and crashes (enqueue, processBatch).
THEOREM InOnePlace == Spec => []OnePlace
<1>1. ReporterInv /\ [Next]_vars => ReporterInv'
  BY ReporterKeeps
<1>2. ReporterInv => OnePlace
  BY DEF ReporterInv
<1> QED
  BY <1>1, <1>2, ReporterStarts, PTL DEF Spec

-----------------------------------------------------------------------------
\* An answer says that the first report of its batch is stored; the tables are filled
\* in their order, and each crash leaves at most one row short in each.
TablesOK ==
  /\ events \in [Reports -> Nat] /\ {occurrences, count, broken} \subseteq Nat
  /\ IsFiniteSet(Rows)
  /\ Cardinality(Rows) \in (occurrences - broken)..occurrences
  /\ count \in (Cardinality(Rows) - broken)..Cardinality(Rows)

AnswersTrue ==
  /\ late \subseteq Reports
  /\ \A b \in Batches : answer[b] = "ok" => todo[b] # <<>> /\ events[Head(todo[b])] > 0
  /\ \A r \in Reports : fate[r] = "sent" => events[r] > 0

Answers == {"none", "ok", "error"}

StoredInv == ReporterInv /\ TablesOK /\ AnswersTrue /\ answer \in [Batches -> Answers]

\* One more event of a report is one more row.
LEMMA RowAdded ==
  ASSUME TablesOK, NEW r \in Reports, events' = [events EXCEPT ![r] = @ + 1]
  PROVE  /\ IsFiniteSet(Rows') /\ Cardinality(Rows') = Cardinality(Rows) + 1
         /\ events' \in [Reports -> Nat]
         /\ events'[r] > 0 /\ \A x \in Reports : events[x] > 0 => events'[x] > 0
<1>1. /\ events'[r] = events[r] + 1 /\ events[r] \in Nat
      /\ \A x \in Reports \ {r} : events'[x] = events[x]
  BY DEF TablesOK
<1>2. {r} \X (1..events'[r]) = ({r} \X (1..events[r])) \cup {<<r, events[r] + 1>>}
  <2>1. 1..(events[r] + 1) = 1..events[r] \cup {events[r] + 1}
    BY <1>1
  <2> QED
    BY <1>1, <2>1
<1>3. Rows' = Rows \cup {<<r, events[r] + 1>>}
  <2> DEFINE others == UNION {{x} \X (1..events[x]) : x \in Reports \ {r}}
  <2>1. Rows = others \cup ({r} \X (1..events[r]))
    BY DEF Rows
  <2>2. Rows' = others \cup ({r} \X (1..events'[r]))
    <3>1. others = UNION {{x} \X (1..events'[x]) : x \in Reports \ {r}}
      BY <1>1
    <3> QED
      BY <3>1 DEF Rows
  <2> QED
    BY <1>2, <2>1, <2>2
<1>4. <<r, events[r] + 1>> \notin Rows
  <2>1. events[r] + 1 \notin 1..events[r]
    BY <1>1
  <2> QED
    BY <2>1 DEF Rows
<1>5. events' \in [Reports -> Nat] /\ events'[r] > 0
  BY <1>1 DEF TablesOK
<1> QED
  BY <1>1, <1>3, <1>4, <1>5, FS_AddElement DEF TablesOK

\* ingest as far as its statement n; before the last, it counts as broken.
LEMMA WriteKeeps ==
  ASSUME TablesOK, NEW r \in Reports, NEW n \in 1..3, Write(r, n), broken' \in Nat,
         broken' = IF n = 3 THEN broken ELSE broken + 1
  PROVE  /\ TablesOK' /\ \A x \in Reports : events[x] > 0 => events'[x] > 0
         /\ n = 3 => events'[r] > 0
<1>1. occurrences \in Nat /\ count \in Nat /\ broken \in Nat /\ Cardinality(Rows) \in Nat
  BY FS_CardinalityType DEF TablesOK
<1>2. CASE n = 1
  <2>1. /\ occurrences' = occurrences + 1 /\ events' = events /\ count' = count /\ broken' = broken + 1
        /\ Rows' = Rows
    BY <1>2 DEF Write, Rows
  <2> QED
    BY <1>1, <1>2, <2>1 DEF TablesOK
<1>3. CASE n \in {2, 3}
  <2>1. /\ occurrences' = occurrences + 1 /\ events' = [events EXCEPT ![r] = @ + 1]
        /\ n = 2 => count' = count /\ broken' = broken + 1
        /\ n = 3 => count' = count + 1 /\ broken' = broken
    BY <1>3 DEF Write, RecordEvent, UpdateAgentInstance
  <2>2. /\ IsFiniteSet(Rows') /\ Cardinality(Rows') = Cardinality(Rows) + 1
        /\ events' \in [Reports -> Nat]
        /\ events'[r] > 0 /\ \A x \in Reports : events[x] > 0 => events'[x] > 0
    BY <2>1, RowAdded
  <2>3. TablesOK'
    BY <1>1, <1>3, <2>1, <2>2 DEF TablesOK
  <2> QED
    BY <2>2, <2>3
<1> QED
  BY <1>2, <1>3

\* Every step keeps the tables, and what is sent and answer, in agreement.
LEMMA StoredKeeps ==
  ASSUME StoredInv, [Next]_vars
  PROVE  StoredInv'
<1>1. ReporterInv'
  BY ReporterKeeps DEF StoredInv
<1> SUFFICES TablesOK' /\ AnswersTrue' /\ answer' \in [Batches -> Answers]
  BY <1>1 DEF StoredInv
<1>2. /\ todo \in [Batches -> Seq(Reports)] /\ fate \in [Reports -> Fates] /\ TablesOK /\ AnswersTrue
      /\ answer \in [Batches -> Answers]
  BY DEF StoredInv, ReporterInv, ReporterOK
<1>3. ASSUME UNCHANGED service PROVE TablesOK' /\ events' = events
  BY <1>2, <1>3 DEF TablesOK, Rows, service
<1>4. \A b \in Batches : todo[b] # <<>> => Head(todo[b]) \in Reports
  BY <1>2, Beheaded
<1>5. CASE ReporterStep
  <2>1. UNCHANGED <<service, answer, late, lates>>
    BY <1>5 DEF ReporterStep
  <2>2. ASSUME NEW r \in Reports, Report(r) PROVE AnswersTrue'
    <3>1. todo' = todo /\ \A x \in Reports : fate'[x] = "sent" => fate[x] = "sent"
      BY <2>2 DEF Report
    <3> QED
      BY <1>2, <1>3, <2>1, <3>1 DEF AnswersTrue
  <2>3. ASSUME NEW b \in Batches, Take(b) PROVE AnswersTrue'
    <3>1. fate' = fate /\ \A c \in Batches : todo'[c] = todo[c] \/ todo[c] = <<>>
      <4>1. todo[b] = <<>>
        BY <2>3, TakeKeeps DEF StoredInv, ReporterInv
      <4> QED
        BY <1>2, <2>3, <4>1 DEF Take
    <3> QED
      BY <1>2, <1>3, <2>1, <3>1 DEF AnswersTrue
  <2>4. ASSUME UNCHANGED <<fate, todo>> PROVE AnswersTrue'
    BY <1>2, <1>3, <2>1, <2>4 DEF AnswersTrue
  <2>5. AnswersTrue'
    BY <1>5, <2>2, <2>3, <2>4 DEF ReporterStep, Timer, Immediate, Start, Stop
  <2> QED
    BY <1>2, <1>3, <2>1, <2>5
<1>6. ASSUME NEW r \in Reports, Ingest(r), UNCHANGED reporterVars,
             late' \subseteq late,
             \A b \in Batches : answer'[b] = "ok" =>
               answer[b] = "ok" \/ (todo[b] # <<>> /\ Head(todo[b]) = r)
      PROVE  TablesOK' /\ AnswersTrue'
  <2>1. TablesOK' /\ events'[r] > 0 /\ \A x \in Reports : events[x] > 0 => events'[x] > 0
    <3>1. 3 \in 1..3 /\ broken' = broken /\ Write(r, 3)
      BY <1>6 DEF Ingest
    <3>2. broken \in Nat
      BY <1>2 DEF TablesOK
    <3> QED
      BY <1>2, <3>1, <3>2, WriteKeeps
  <2> QED
    BY <1>2, <1>4, <1>6, <2>1 DEF AnswersTrue, reporterVars
<1>7. ASSUME NEW r \in Reports, CutShort(r), UNCHANGED reporterVars,
              late' \subseteq late,
              \A b \in Batches : answer'[b] = "ok" => answer[b] = "ok"
       PROVE  TablesOK' /\ AnswersTrue'
  <2>1. PICK n \in 1..2 : Write(r, n) /\ broken' = broken + 1
    BY <1>7 DEF CutShort
  <2>2. TablesOK' /\ \A x \in Reports : events[x] > 0 => events'[x] > 0
    <3>1. n \in 1..3 /\ n # 3 /\ broken + 1 \in Nat
      BY <1>2 DEF TablesOK
    <3> QED
      BY <1>2, <2>1, <3>1, WriteKeeps
  <2> QED
    BY <1>2, <1>4, <1>7, <2>2 DEF AnswersTrue, reporterVars
<1>8. ASSUME NEW b \in Batches, PostArrives(b)
      PROVE  TablesOK' /\ AnswersTrue' /\ answer' \in [Batches -> Answers]
  <2>1. /\ Head(todo[b]) \in Reports /\ UNCHANGED reporterVars /\ late' = late
        /\ todo[b] # <<>>
    BY <1>4, <1>8 DEF PostArrives
  <2>2. CASE Ingest(Head(todo[b])) /\ answer' = [answer EXCEPT ![b] = "ok"]
    <3>1. \A c \in Batches : c # b => answer'[c] = answer[c]
      BY <1>2, <2>2
    <3>2. answer' \in [Batches -> Answers]
      BY <1>2, <2>2 DEF Answers
    <3> QED
      BY <1>6, <2>1, <2>2, <3>1, <3>2
  <2>3. CASE IngestFails(Head(todo[b])) /\ answer' = [answer EXCEPT ![b] = "error"]
    <3>1. \A c \in Batches : answer'[c] = "ok" => answer[c] = "ok"
      BY <1>2, <2>3
    <3>2. answer' \in [Batches -> Answers]
      BY <1>2, <2>3 DEF Answers
    <3> QED
      BY <1>7, <2>1, <2>3, <3>1, <3>2 DEF IngestFails
  <2> QED
    BY <1>8, <2>2, <2>3 DEF PostArrives
<1>9. ASSUME NEW r \in Reports, ArriveLate(r)
      PROVE  TablesOK' /\ AnswersTrue' /\ answer' \in [Batches -> Answers]
  <2>1. UNCHANGED reporterVars /\ late' \subseteq late /\ answer' = answer
    BY <1>9 DEF ArriveLate
  <2>2. CASE Ingest(r)
    BY <1>2, <1>6, <2>1, <2>2
  <2>3. CASE IngestFails(r)
    BY <1>2, <1>7, <2>1, <2>3 DEF IngestFails
  <2> QED
    BY <1>9, <2>2, <2>3 DEF ArriveLate
<1>10. CASE ServerDies
  <2>1. PICK b \in Batches : /\ todo[b] # <<>> /\ CutShort(Head(todo[b]))
                             /\ UNCHANGED <<reporterVars, answer, late>>
    BY <1>10 DEF ServerDies, DieWriting
  <2> QED
    BY <1>2, <1>4, <1>7, <2>1
<1>11. ASSUME NEW b \in Batches, NEW ok \in BOOLEAN, Uploaded(b, ok), ok => answer[b] = "ok",
              answer' = [answer EXCEPT ![b] = "none"], UNCHANGED service, late' \subseteq Reports
       PROVE  TablesOK' /\ AnswersTrue' /\ answer' \in [Batches -> Answers]
  <2>1. Head(todo[b]) \in Reports
    BY <1>4, <1>11 DEF Uploaded
  <2>2. \A x \in Reports : fate'[x] = "sent" => fate[x] = "sent" \/ (ok /\ x = Head(todo[b]))
    BY <1>2, <1>11, <2>1 DEF Uploaded
  <2>3. \A c \in Batches \ {b} : todo'[c] = todo[c]
    BY <1>2, <1>11 DEF Uploaded, Advance
  <2>4. /\ answer' \in [Batches -> Answers] /\ answer'[b] = "none"
        /\ \A c \in Batches \ {b} : answer'[c] = answer[c]
    BY <1>2, <1>11 DEF Answers
  <2> QED
    BY <1>2, <1>3, <1>11, <2>2, <2>3, <2>4 DEF AnswersTrue
<1>12. ASSUME NEW b \in Batches, Sent(b)
       PROVE  TablesOK' /\ AnswersTrue' /\ answer' \in [Batches -> Answers]
  BY <1>2, <1>11, <1>12 DEF Sent, Settle, AnswersTrue
<1>13. ASSUME NEW b \in Batches, NotSent(b)
       PROVE  TablesOK' /\ AnswersTrue' /\ answer' \in [Batches -> Answers]
  <2>1. late' \subseteq Reports
    <3>1. late \subseteq Reports /\ Head(todo[b]) \in Reports
      BY <1>2, <1>4, <1>13 DEF NotSent, Uploaded, AnswersTrue
    <3>2. late' = late \/ late' = late \cup {Head(todo[b])}
      BY <1>13 DEF NotSent
    <3> QED
      BY <3>1, <3>2
  <2> QED
    BY <1>11, <1>13, <2>1 DEF NotSent, Settle
<1>14. CASE ProcessDies
  <2>1. \A x \in Reports : fate'[x] = "sent" => fate[x] = "sent"
    BY <1>14 DEF ProcessDies, Die
  <2>2. UNCHANGED <<service, late>> /\ answer' = [b \in Batches |-> "none"]
    BY <1>14 DEF ProcessDies
  <2> QED
    BY <1>2, <1>3, <2>1, <2>2 DEF AnswersTrue, Answers
<1>15. CASE (ServerStart \/ ServerStop) /\ UNCHANGED <<reporterVars, answer, late, lates>>
  BY <1>2, <1>15 DEF ServerStart, ServerStop, rows, TablesOK, Rows, AnswersTrue, reporterVars
<1>16. CASE UNCHANGED vars
  BY <1>2, <1>3, <1>16 DEF vars, reporterVars, AnswersTrue
<1> QED
  BY <1>5, <1>8, <1>9, <1>10, <1>12, <1>13, <1>14, <1>15, <1>16 DEF Next

\* What the reporter takes for sent is in the database, and the tables agree but for
\* what was cut short, for any reports and number of broken (upload, ingest).
THEOREM SentIsStored == Spec => []SentWasStored
<1>1. Init => StoredInv
  <2> SUFFICES ASSUME Init PROVE StoredInv
    OBVIOUS
  <2>1. Rows = {}
    BY DEF Init, ServerInit, Rows
  <2>2. TablesOK
    BY <2>1, FS_EmptySet DEF Init, ServerInit, TablesOK
  <2>3. AnswersTrue /\ answer \in [Batches -> Answers]
    BY DEF Init, ReporterInit, AnswersTrue, Answers
  <2> QED
    BY <2>2, <2>3, ReporterStarts DEF StoredInv
<1>2. StoredInv /\ [Next]_vars => StoredInv'
  BY StoredKeeps
<1>3. StoredInv => SentWasStored
  BY DEF StoredInv, TablesOK, AnswersTrue, SentWasStored
<1> QED
  BY <1>1, <1>2, <1>3, PTL DEF Spec

-----------------------------------------------------------------------------
\* THE BRIDGE

CONSTANTS Starts, NoAgent

VARIABLES state, at, agent, agentState, stop

B == INSTANCE Bridge

Tries == {"none", "first", "delay", "reopening", "retry", "ok", "failed", "refused"}

\* What the server has carried out for a request, by where its call is: a try that
\* runs counts once, and only the first is followed by another.
Counted(k) ==
  /\ call[k] \in Tries /\ ran[k] \in BOOLEAN /\ executed[k] \in 0..2
  /\ ran[k] => call[k] \in {"first", "retry"}
  /\ call[k] = "first" => executed[k] = IF ran[k] THEN 1 ELSE 0
  /\ call[k] \in {"delay", "reopening"} => executed[k] <= 1
  /\ call[k] = "retry" => IF ran[k] THEN executed[k] \in 1..2 ELSE executed[k] <= 1
  /\ call[k] = "ok" => executed[k] >= 1

BridgeInv ==
  /\ DOMAIN call = McpCalls
  /\ DOMAIN ran = McpCalls
  /\ DOMAIN executed = McpCalls
  /\ \A k \in Requests : Counted(k)

BridgeAssumed == B!BridgeAssumption

\* A step that moves one call k and leaves the counts of all others.
OnlyMoves(k) ==
  /\ DOMAIN call' = DOMAIN call /\ DOMAIN ran' = DOMAIN ran /\ DOMAIN executed' = DOMAIN executed
  /\ \A j \in McpCalls \ {k} :
       call'[j] = call[j] /\ ran'[j] = ran[j] /\ executed'[j] = executed[j]

\* Such a step needs to keep the count of its own call only.
LEMMA OnlyMovesKeeps ==
  ASSUME BridgeAssumed, BridgeInv, NEW k \in McpCalls, OnlyMoves(k), k \in Requests => Counted(k)'
  PROVE  BridgeInv'
BY DEF BridgeInv, OnlyMoves, Counted, BridgeAssumed, B!BridgeAssumption

\* Every step of the transport keeps the counts.
LEMMA TransportStep ==
  ASSUME BridgeAssumed, BridgeInv, NEW k \in McpCalls,
         \/ B!Execute(k) \/ B!Answered(k) \/ B!Expires(k) \/ B!Broken(k)
         \/ B!Reconnect(k) \/ B!Opened(k) \/ B!OpenFails(k)
  PROVE  BridgeInv'
<1>1. OnlyMoves(k)
  BY DEF OnlyMoves, BridgeInv, B!Execute, B!Answered, B!Expires, B!Broken, B!Reconnect, B!Opened,
         B!OpenFails, B!End, B!Goes
<1>2. ASSUME k \in Requests PROVE Counted(k)'
  <2>1. Counted(k) /\ k \in DOMAIN call /\ k \in DOMAIN ran /\ k \in DOMAIN executed
    BY <1>2 DEF BridgeInv
  <2>2. CASE B!Execute(k)
    <3>1. /\ call' = call /\ ran'[k] = TRUE /\ executed'[k] = executed[k] + 1
          /\ call[k] \in {"first", "retry"} /\ ~ran[k]
      BY <2>1, <2>2 DEF B!Execute, B!Trying
    <3>2. executed[k] \in 0..1 /\ (call[k] = "first" => executed[k] = 0)
      BY <2>1, <3>1 DEF Counted
    <3>3. executed'[k] \in 1..2 /\ (call'[k] = "first" => executed'[k] = 1)
      BY <3>1, <3>2
    <3>4. executed'[k] \in 0..2 /\ executed'[k] >= 1
      BY <3>3
    <3>5. call'[k] \in {"first", "retry"} /\ ran'[k] = TRUE
      BY <3>1
    <3>6. call'[k] \in Tries /\ ~(call'[k] \in {"delay", "reopening", "ok"})
      BY <3>5 DEF Tries
    <3> QED
      BY <3>3, <3>4, <3>5, <3>6 DEF Counted
  <2>3. ASSUME NEW w \in {"ok", "failed", "delay", "reopening", "retry"}, B!Goes(k, w), executed' = executed
        PROVE  ran'[k] = FALSE /\ call'[k] = w /\ executed'[k] = executed[k]
    BY <2>1, <2>3 DEF B!Goes
  <2>4. CASE B!Answered(k)
    <3>1. /\ call[k] \in {"first", "retry"} /\ ran[k] /\ executed' = executed
          /\ B!Goes(k, "ok") \/ B!Goes(k, "failed")
      BY <2>4 DEF B!Answered, B!End, B!Trying
    <3>2. executed[k] \in 1..2
      BY <2>1, <3>1 DEF Counted
    <3>3. ran'[k] = FALSE /\ call'[k] \in {"ok", "failed"} /\ executed'[k] = executed[k]
      BY <2>3, <3>1
    <3>4. executed'[k] \in 0..2 /\ executed'[k] >= 1
      BY <3>2, <3>3
    <3>5. call'[k] \in Tries /\ ~(call'[k] \in {"first", "retry", "delay", "reopening"})
      BY <3>3 DEF Tries
    <3> QED
      BY <3>3, <3>4, <3>5 DEF Counted
  <2>5. CASE B!Expires(k) \/ B!OpenFails(k)
    BY <2>1, <2>3, <2>5 DEF B!Expires, B!OpenFails, B!End, Counted, Tries
  <2>6. CASE B!Broken(k)
    <3>1. /\ call[k] \in {"first", "retry"} /\ executed' = executed
          /\ B!Goes(k, "failed") \/ (call[k] = "first" /\ B!Goes(k, "delay"))
      BY <2>6 DEF B!Broken
    <3>2. executed[k] \in 0..2 /\ (call[k] = "first" => executed[k] <= 1)
      BY <2>1 DEF Counted
    <3>3. /\ ran'[k] = FALSE /\ executed'[k] = executed[k]
          /\ call'[k] = "failed" \/ (call[k] = "first" /\ call'[k] = "delay")
      BY <2>3, <3>1
    <3> QED
      BY <3>2, <3>3 DEF Counted, Tries
  <2>7. CASE B!Reconnect(k)
    BY <2>1, <2>3, <2>7 DEF B!Reconnect, Counted, Tries
  <2>8. CASE B!Opened(k)
    <3>1. call[k] = "reopening" /\ B!Goes(k, "retry") /\ executed' = executed
      BY <2>1, <2>8 DEF B!Opened, Counted, Tries
    <3> QED
      BY <2>1, <2>3, <3>1 DEF Counted, Tries
  <2> QED
    BY <2>2, <2>4, <2>5, <2>6, <2>7, <2>8
<1> QED
  BY <1>1, <1>2, OnlyMovesKeeps

\* Every step of the bridge keeps the counts.
LEMMA BridgeKeeps ==
  ASSUME BridgeAssumed, BridgeInv, [B!Next]_(B!vars)
  PROVE  BridgeInv'
<1>1. ASSUME UNCHANGED <<call, ran, executed>> PROVE BridgeInv'
  BY <1>1 DEF BridgeInv, Counted
<1>2. CASE B!TransportNext
  BY <1>2, TransportStep DEF B!TransportNext
<1>3. ASSUME NEW s \in Starts, B!Start(s) \/ B!Discover(s) PROVE BridgeInv'
  <2>1. s \notin Requests
    BY <1>3 DEF BridgeAssumed, B!BridgeAssumption
  <2>2. CASE UNCHANGED B!transportVars
    BY <1>1, <2>2 DEF B!transportVars
  <2>3. CASE B!Connect(s) \/ B!Issue(s)
    <3>1. OnlyMoves(s)
      BY <1>3, <2>3 DEF OnlyMoves, BridgeInv, B!Connect, B!Issue, B!Goes
    <3> QED
      BY <1>3, <2>1, <3>1, OnlyMovesKeeps DEF BridgeAssumed, B!BridgeAssumption
  <2> QED
    BY <1>3, <2>2, <2>3 DEF B!Start, B!Discover
<1>4. ASSUME NEW s \in Starts, B!StartAgent(s) \/ B!StageFails(s) \/ B!AgentStarted(s) \/ B!Register(s)
      PROVE  BridgeInv'
  BY <1>1, <1>4 DEF B!StartAgent, B!StageFails, B!AgentStarted, B!Register, B!transportVars
<1>5. CASE B!StopCalled \/ B!AgentStopped \/ B!McpClosed
  BY <1>1, <1>5 DEF B!StopCalled, B!AgentStopped, B!McpClosed, B!transportVars
<1>6. ASSUME NEW k \in Requests, B!Request(k) PROVE BridgeInv'
  <2>1. OnlyMoves(k)
    BY <1>6 DEF OnlyMoves, BridgeInv, B!Request, B!Issue, B!Goes
  <2>2. /\ call'[k] \in {"first", "refused"} /\ ran'[k] = FALSE /\ executed'[k] = 0
    BY <1>6 DEF BridgeInv, B!Request, B!Issue, B!Goes, BridgeAssumed, B!BridgeAssumption
  <2>3. Counted(k)'
    <3>1. 0 \in 0..2 /\ 0 <= 1
      OBVIOUS
    <3> QED
      BY <2>2, <3>1 DEF Counted, Tries
  <2> QED
    BY <1>6, <2>1, <2>3, OnlyMovesKeeps DEF BridgeAssumed, B!BridgeAssumption
<1>7. CASE UNCHANGED B!vars
  BY <1>1, <1>7 DEF B!vars, B!transportVars
<1> QED
  BY <1>2, <1>3, <1>4, <1>5, <1>6, <1>7 DEF B!Next

\* A request of a remote agent is carried out twice at most, and once at least if it
\* is answered (withReconnect), over any number of reconnects of any calls.
THEOREM CarriedOut == BridgeAssumed => (B!Spec => []AtMostTwice)
<1> SUFFICES ASSUME BridgeAssumed PROVE B!Spec => []AtMostTwice
  OBVIOUS
<1>1. B!Init => BridgeInv
  BY DEF B!Init, B!TransportInit, BridgeInv, Counted, Tries, BridgeAssumed, B!BridgeAssumption
<1>2. BridgeInv /\ [B!Next]_(B!vars) => BridgeInv'
  BY BridgeKeeps
<1>3. BridgeInv => AtMostTwice
  BY DEF BridgeInv, Counted, AtMostTwice
<1> QED
  BY <1>1, <1>2, <1>3, PTL DEF B!Spec

-----------------------------------------------------------------------------
\* THE DIRECTORY

CONSTANTS Operations, Host, Localhost, Hosts, MaxConnectionsPerHost

VARIABLES apiKey, op, pool, conn, request, on, stream

D == INSTANCE Discovery

\* What a call may be given next, from the cache or by the one lookup in flight, is no
\* older than what any was given before.
Fresh(v) == v \in Nat /\ newest <= v /\ v <= record.version

OneLookup ==
  /\ DOMAIN lookup = Calls
  /\ \A c \in Calls : /\ "at" \in DOMAIN lookup[c]
                      /\ lookup[c].at # "none" => c = pending
                      /\ lookup[c].at = "answered" => Fresh(lookup[c].record.version)

CacheFresh ==
  /\ "expired" \in DOMAIN cached
  /\ D!Hit => pending = NoCall /\ Fresh(cached.record.version)

DirectoryInv ==
  /\ record.version \in Nat /\ newest \in Nat /\ newest <= record.version
  /\ OneLookup /\ CacheFresh

\* A request of the agent makes the directory's record newer, and no answer older.
LEMMA RecordGrows ==
  ASSUME DirectoryInv, D!RegistrationNext, UNCHANGED D!dnsVars
  PROVE  DirectoryInv' /\ newest' >= newest
<1>1. record'.version \in Nat /\ record.version <= record'.version
  <2>1. record' = record \/ record'.version = record.version + 1
    BY DEF D!RegistrationNext, D!Register, D!Sync, D!Unregister, D!Land, D!Succeed, D!GiveUp
  <2> QED
    BY <2>1 DEF DirectoryInv
<1>2. \A v : Fresh(v) => Fresh(v)'
  BY <1>1 DEF Fresh, D!dnsVars, DirectoryInv
<1> QED
  BY <1>1, <1>2 DEF DirectoryInv, OneLookup, CacheFresh, Fresh, D!Hit, D!dnsVars

\* The resolver's steps keep the cache and the lookup in flight fresh.
LEMMA ResolverKeeps ==
  ASSUME DirectoryInv, D!ResolverNext
  PROVE  DirectoryInv' /\ newest' >= newest
<1> USE DEF DirectoryInv, OneLookup, CacheFresh
<1>1. ASSUME NEW c \in Calls, D!FromCache(c) PROVE DirectoryInv' /\ newest' >= newest
  <2>1. /\ UNCHANGED <<record, cached, pending, lookup>> /\ D!Hit
        /\ newest' = cached.record.version
    BY <1>1 DEF D!FromCache
  <2>2. pending = NoCall /\ newest' \in Nat /\ newest <= newest' /\ newest' <= record.version
    BY <2>1 DEF Fresh
  <2>3. \A d \in Calls : lookup[d].at = "none"
    BY <2>2, ResolverAssumption
  <2> QED
    BY <2>1, <2>2, <2>3 DEF Fresh, D!Hit
<1>2. ASSUME NEW c \in Calls, D!Join(c) PROVE DirectoryInv' /\ newest' >= newest
  BY <1>2 DEF D!Join, Fresh, D!Hit
<1>3. ASSUME NEW c \in Calls, D!StartLookup(c) PROVE DirectoryInv' /\ newest' >= newest
  <2>1. /\ UNCHANGED <<record, cached, newest>> /\ ~D!Hit /\ pending = NoCall /\ pending' = c
        /\ lookup' = [lookup EXCEPT ![c].at = "sent"]
    BY <1>3 DEF D!StartLookup
  <2>2. \A d \in Calls : lookup[d].at = "none"
    BY <2>1, ResolverAssumption
  <2>3. lookup'[c].at = "sent" /\ "at" \in DOMAIN lookup'[c] /\ DOMAIN lookup' = Calls
    BY <2>1
  <2>4. \A d \in Calls \ {c} : lookup'[d] = lookup[d]
    BY <2>1
  <2> QED
    BY <2>1, <2>2, <2>3, <2>4 DEF D!Hit
<1>4. ASSUME NEW c \in Calls, D!Answer(c) PROVE DirectoryInv' /\ newest' >= newest
  <2>1. /\ UNCHANGED <<record, cached, pending, newest>> /\ lookup[c].at = "sent"
        /\ lookup' = [lookup EXCEPT ![c] = [at |-> "answered", record |-> record]]
    BY <1>4 DEF D!Answer
  <2>2. /\ DOMAIN lookup' = Calls /\ lookup'[c].at = "answered" /\ "at" \in DOMAIN lookup'[c]
        /\ lookup'[c].record = record
    BY <2>1
  <2>3. \A d \in Calls \ {c} : lookup'[d] = lookup[d]
    BY <2>1
  <2> QED
    BY <2>1, <2>2, <2>3 DEF Fresh, D!Hit
<1>5. ASSUME NEW c \in Calls, D!Arrive(c) \/ D!Break(c) PROVE DirectoryInv' /\ newest' >= newest
  <2>1. /\ pending = c /\ pending' = NoCall /\ record' = record
        /\ lookup' = [lookup EXCEPT ![c] = D!Idle]
    BY <1>5 DEF D!Arrive, D!Break, D!Return
  <2>2. /\ DOMAIN lookup' = Calls
        /\ \A d \in Calls : "at" \in DOMAIN lookup'[d] /\ lookup'[d].at = "none"
    <3>1. "at" \in DOMAIN D!Idle /\ D!Idle.at = "none"
      BY DEF D!Idle
    <3> QED
      BY <2>1, <3>1
  <2>3. CASE D!Break(c)
    BY <2>1, <2>2, <2>3 DEF D!Break, Fresh, D!Hit
  <2>4. CASE D!Arrive(c)
    <3>1. newest' = lookup[c].record.version /\ Fresh(newest')
      BY <2>4 DEF D!Arrive
    <3>2. \/ cached' = [present |-> TRUE, expired |-> FALSE, record |-> lookup[c].record]
          \/ cached' = cached
      BY <2>4 DEF D!Arrive
    <3>3. ~D!Hit
      BY <2>1, ResolverAssumption
    <3>4. "expired" \in DOMAIN cached' /\ (D!Hit' => cached'.record.version = newest')
      BY <3>1, <3>2, <3>3 DEF D!Hit
    <3> QED
      BY <2>1, <2>2, <3>1, <3>4 DEF Fresh
  <2> QED
    BY <1>5, <2>3, <2>4
<1>6. ASSUME D!Expire \/ D!Prune \/ D!Invalidate PROVE DirectoryInv' /\ newest' >= newest
  <2>1. UNCHANGED <<record, pending, lookup, newest>>
    BY <1>6 DEF D!Expire, D!Prune, D!Invalidate, D!Forget
  <2>2. \/ cached' = [cached EXCEPT !.expired = TRUE]
        \/ cached' = [present |-> FALSE, expired |-> FALSE, record |-> D!NoRecord]
    BY <1>6 DEF D!Expire, D!Prune, D!Invalidate, D!Forget
  <2>3. "expired" \in DOMAIN cached' /\ ~D!Hit'
    BY <2>2 DEF D!Hit
  <2> QED
    BY <2>1, <2>3 DEF Fresh
<1> QED
  BY <1>1, <1>2, <1>3, <1>4, <1>5, <1>6 DEF D!ResolverNext

\* Every step keeps them fresh.
LEMMA DirectoryKeeps ==
  ASSUME DirectoryInv, [D!Next]_(D!vars)
  PROVE  DirectoryInv' /\ newest' >= newest
<1>1. ASSUME UNCHANGED <<record, D!dnsVars>> PROVE DirectoryInv' /\ newest' >= newest
  BY <1>1 DEF DirectoryInv, OneLookup, CacheFresh, Fresh, D!Hit, D!dnsVars
<1> QED
  BY <1>1, RecordGrows, ResolverKeeps DEF D!Next, D!vars

\* Nothing is cached, asked or recorded at first.
LEMMA DirectoryStarts == D!Init => DirectoryInv
BY DEF D!Init, D!ResolverInit, D!RegistrationInit, D!Absent, D!Idle, D!NoRecord, DirectoryInv,
       OneLookup, CacheFresh, D!Hit

\* What resolve answers never goes back to an older state of the record, for any callers
\* and agents (resolve, doResolve).
THEOREM Newer == D!Spec => NeverOlder
<1>1. DirectoryInv /\ [D!Next]_(D!vars) => DirectoryInv' /\ [newest' >= newest]_dnsVars
  BY DirectoryKeeps DEF D!vars, D!dnsVars, dnsVars
<1> QED
  BY DirectoryStarts, <1>1, PTL DEF D!Spec, NeverOlder, D!vars

\* Whoever waits does so for the lookup in flight, which has timers.
WaitersServed ==
  \A c \in Calls : asked[c] = "waiting" =>
    /\ pending \in Calls /\ waitsFor[c] = pending
    /\ lookup[pending].at \in {"sent", "answered"}

PendingSent == pending # NoCall => pending \in Calls /\ lookup[pending].at \in {"sent", "answered"}

ServedInv ==
  /\ DirectoryInv /\ WaitersServed /\ PendingSent
  /\ DOMAIN asked = Calls /\ DOMAIN waitsFor = Calls

\* Every step keeps them served: a new lookup is begun when nobody waits, and the end of
\* one is told to all who do.
LEMMA ServedKeeps ==
  ASSUME ServedInv, [D!Next]_(D!vars)
  PROVE  ServedInv'
<1>1. DirectoryInv'
  BY DirectoryKeeps DEF ServedInv
<1> SUFFICES WaitersServed' /\ PendingSent' /\ DOMAIN asked' = Calls /\ DOMAIN waitsFor' = Calls
  BY <1>1 DEF ServedInv
<1> USE DEF ServedInv, WaitersServed, PendingSent
<1>2. ASSUME UNCHANGED <<pending, lookup, asked, waitsFor>>
      PROVE  WaitersServed' /\ PendingSent' /\ DOMAIN asked' = Calls /\ DOMAIN waitsFor' = Calls
  BY <1>2
<1>3. ASSUME NEW c \in Calls, D!FromCache(c) \/ D!Join(c)
      PROVE  WaitersServed' /\ PendingSent' /\ DOMAIN asked' = Calls /\ DOMAIN waitsFor' = Calls
  BY <1>3 DEF D!FromCache, D!Join
<1>4. ASSUME NEW c \in Calls, D!StartLookup(c)
      PROVE  WaitersServed' /\ PendingSent' /\ DOMAIN asked' = Calls /\ DOMAIN waitsFor' = Calls
  <2>1. /\ pending = NoCall /\ pending' = c /\ lookup' = [lookup EXCEPT ![c].at = "sent"]
        /\ asked' = [asked EXCEPT ![c] = "waiting"] /\ waitsFor' = [waitsFor EXCEPT ![c] = c]
    BY <1>4 DEF D!StartLookup
  <2>2. \A d \in Calls : asked[d] # "waiting"
    BY <2>1, ResolverAssumption
  <2>3. lookup'[c].at = "sent"
    BY <2>1 DEF DirectoryInv, OneLookup
  <2> QED
    BY <2>1, <2>2, <2>3
<1>5. ASSUME NEW c \in Calls, D!Answer(c)
      PROVE  WaitersServed' /\ PendingSent' /\ DOMAIN asked' = Calls /\ DOMAIN waitsFor' = Calls
  <2>1. /\ UNCHANGED <<pending, asked, waitsFor>>
        /\ lookup' = [lookup EXCEPT ![c] = [at |-> "answered", record |-> record]]
    BY <1>5 DEF D!Answer
  <2>2. \A d \in Calls : lookup'[d] = lookup[d] \/ lookup'[d].at = "answered"
    BY <2>1 DEF DirectoryInv, OneLookup
  <2> QED
    BY <2>1, <2>2
<1>6. ASSUME NEW c \in Calls, D!Arrive(c) \/ D!Break(c)
      PROVE  WaitersServed' /\ PendingSent' /\ DOMAIN asked' = Calls /\ DOMAIN waitsFor' = Calls
  <2>1. pending = c /\ pending' = NoCall
    BY <1>6 DEF D!Arrive, D!Break, D!Return, DirectoryInv, OneLookup
  <2>2. \/ D!Return(c, D!Outcome(lookup[c].record), lookup[c].record)
        \/ D!Return(c, "failed", D!NoRecord)
    BY <1>6 DEF D!Arrive, D!Break
  <2>3. /\ waitsFor' = [d \in Calls |-> IF asked[d] = "waiting" /\ waitsFor[d] = c THEN NoCall ELSE waitsFor[d]]
        /\ \E how \in {"found", "missing", "failed"} :
             asked' = [d \in Calls |-> IF asked[d] = "waiting" /\ waitsFor[d] = c THEN how ELSE asked[d]]
    BY <2>2 DEF D!Return, D!Outcome
  <2>4. \A d \in Calls : asked'[d] # "waiting"
    BY <2>1, <2>3
  <2> QED
    BY <2>1, <2>3, <2>4
<1> QED
  BY <1>2, <1>3, <1>4, <1>5, <1>6
  DEF D!Next, D!vars, D!dnsVars, D!ResolverNext, D!Expire, D!Prune, D!Invalidate, D!Forget

\* Whoever waits for an answer waits for the one lookup in flight, whichever call began
\* it, so that its timer ends every wait (resolve, doResolve).
THEOREM Served == D!Spec => []WaitersServed
<1>1. D!Init => ServedInv
  <2> SUFFICES ASSUME D!Init PROVE ServedInv
    OBVIOUS
  <2>1. DirectoryInv
    BY DirectoryStarts
  <2> QED
    BY <2>1 DEF D!Init, D!ResolverInit, ServedInv, WaitersServed, PendingSent
<1>2. ServedInv /\ [D!Next]_(D!vars) => ServedInv'
  BY ServedKeeps
<1>3. ServedInv => WaitersServed
  BY DEF ServedInv
<1> QED
  BY <1>1, <1>2, <1>3, PTL DEF D!Spec
=============================================================================
