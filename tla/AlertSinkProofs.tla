--------------------------- MODULE AlertSinkProofs ---------------------------
(***************************************************************************)
(* Proofs about AlertSink, for any keys, any TTL, any capacity of the      *)
(* table and of the queue and any number of attempts.                      *)
(*                                                                         *)
(* The table is handled by three facts: evicting and removing leave a      *)
(* subsequence of it (Leaves), which keeps it in order; the first fresh    *)
(* entry exists, so that what is left has not expired; and what the cap    *)
(* evicts has MaxEntries later keys behind it.                             *)
(***************************************************************************)
EXTENDS AlertSink, SequenceTheorems, FunctionTheorems, FiniteSetTheorems,
        WellFoundedInduction, TLAPS

Entry == [key : Keys, age : Ages]

\* TableIsOrderedBySend, of any table and any record of the latest sends.
Ordered(s, sent) ==
    \A i, j \in 1 .. Len(s) :
        /\ s[i].age = sent[s[i].key]
        /\ i < j => /\ s[i].key # s[j].key
                    /\ s[i].age >= s[j].age

\* t is what is left of s when some entries have been taken out.
Leaves(s, t) ==
    /\ t \in Seq(Entry)
    /\ Len(t) <= Len(s)
    /\ \A i, j \in 1 .. Len(t) :
          \E m, n \in 1 .. Len(s) : t[i] = s[m] /\ t[j] = s[n] /\ (i < j => m < n)

-----------------------------------------------------------------------------
(* Subsequences.                                                            *)

\* Taking entries out twice is taking entries out.
LEMMA LeavesTransitive ==
    ASSUME NEW r \in Seq(Entry), NEW s, NEW t, Leaves(r, s), Leaves(s, t)
    PROVE  Leaves(r, t)
<1>1. t \in Seq(Entry) /\ s \in Seq(Entry) BY DEF Leaves
<1>2. Len(t) \in Nat /\ Len(s) \in Nat /\ Len(r) \in Nat BY <1>1, LenProperties
<1>3. Len(t) <= Len(r) BY <1>2 DEF Leaves
<1>4. ASSUME NEW i \in 1 .. Len(t), NEW j \in 1 .. Len(t)
      PROVE  \E m, n \in 1 .. Len(r) : t[i] = r[m] /\ t[j] = r[n] /\ (i < j => m < n)
  <2>1. PICK a, b \in 1 .. Len(s) : t[i] = s[a] /\ t[j] = s[b] /\ (i < j => a < b)
    BY DEF Leaves
  <2>2. PICK m, n \in 1 .. Len(r) : s[a] = r[m] /\ s[b] = r[n] /\ (a < b => m < n)
    BY DEF Leaves
  <2> QED BY <2>1, <2>2
<1> QED BY <1>1, <1>3, <1>4 DEF Leaves

\* The end of a table is a part of it.
LEMMA SuffixLeaves ==
    ASSUME NEW s \in Seq(Entry), NEW from \in 1 .. Len(s) + 1
    PROVE  /\ Leaves(s, Suffix(s, from))
           /\ Len(Suffix(s, from)) = Len(s) - from + 1
           /\ \A i \in 1 .. Len(s) - from + 1 : Suffix(s, from)[i] = s[from + i - 1]
<1> DEFINE t == SubSeq(s, from, Len(s))
<1>1. Len(s) \in Nat /\ from \in Int BY LenProperties
<1>2. \A i \in from .. Len(s) : s[i] \in Entry BY <1>1, ElementOfSeq
<1>3. /\ t \in Seq(Entry)
      /\ Len(t) = IF from <= Len(s) THEN Len(s) - from + 1 ELSE 0
      /\ \A i \in 1 .. Len(s) - from + 1 : t[i] = s[from + i - 1]
  BY <1>1, <1>2, SubSeqProperties
<1> HIDE DEF t
<1>4. Len(t) = Len(s) - from + 1 BY <1>1, <1>3
<1>5. Len(t) <= Len(s) BY <1>1, <1>4
<1>6. ASSUME NEW i \in 1 .. Len(t), NEW j \in 1 .. Len(t)
      PROVE  \E m, n \in 1 .. Len(s) : t[i] = s[m] /\ t[j] = s[n] /\ (i < j => m < n)
  <2>1. from + i - 1 \in 1 .. Len(s) /\ from + j - 1 \in 1 .. Len(s)
    BY <1>1, <1>4
  <2>2. t[i] = s[from + i - 1] /\ t[j] = s[from + j - 1] BY <1>3, <1>4
  <2>3. i < j => from + i - 1 < from + j - 1 BY <1>1
  <2> QED BY <2>1, <2>2, <2>3
<1>7. Leaves(s, t) BY <1>3, <1>5, <1>6 DEF Leaves
<1> QED BY <1>3, <1>4, <1>7 DEF t, Suffix

\* A table without one of its entries.
LEMMA RemoveLeaves ==
    ASSUME NEW s \in Seq(Entry), NEW at \in 1 .. Len(s)
    PROVE  /\ Leaves(s, RemoveAt(s, at))
           /\ Len(RemoveAt(s, at)) = Len(s) - 1
           /\ \A i \in 1 .. Len(s) - 1 :
                 RemoveAt(s, at)[i] = IF i < at THEN s[i] ELSE s[i + 1]
<1> DEFINE a == SubSeq(s, 1, at - 1)
           b == SubSeq(s, at + 1, Len(s))
           t == a \o b
<1>1. Len(s) \in Nat /\ at \in Int BY LenProperties
<1>2. \A i \in 1 .. Len(s) : s[i] \in Entry BY ElementOfSeq
<1>3. /\ a \in Seq(Entry)
      /\ Len(a) = IF 1 <= at - 1 THEN (at - 1) - 1 + 1 ELSE 0
      /\ \A i \in 1 .. (at - 1) - 1 + 1 : a[i] = s[1 + i - 1]
  <2>1. \A i \in 1 .. at - 1 : s[i] \in Entry BY <1>1, <1>2
  <2>2. 1 \in Int /\ at - 1 \in Int BY <1>1
  <2> QED BY <2>1, <2>2, SubSeqProperties
<1>4. /\ b \in Seq(Entry)
      /\ Len(b) = IF at + 1 <= Len(s) THEN Len(s) - (at + 1) + 1 ELSE 0
      /\ \A i \in 1 .. Len(s) - (at + 1) + 1 : b[i] = s[(at + 1) + i - 1]
  <2>1. \A i \in at + 1 .. Len(s) : s[i] \in Entry BY <1>1, <1>2
  <2>2. at + 1 \in Int /\ Len(s) \in Int BY <1>1
  <2> QED BY <2>1, <2>2, SubSeqProperties
<1> HIDE DEF a, b
<1>5. Len(a) = at - 1 /\ \A i \in 1 .. at - 1 : a[i] = s[i] BY <1>1, <1>3
<1>6. Len(b) = Len(s) - at /\ \A i \in 1 .. Len(s) - at : b[i] = s[at + i] BY <1>1, <1>4
<1>7. /\ t \in Seq(Entry)
      /\ Len(t) = Len(a) + Len(b)
      /\ \A i \in 1 .. Len(a) + Len(b) : t[i] = IF i <= Len(a) THEN a[i] ELSE b[i - Len(a)]
  BY <1>3, <1>4, ConcatProperties
<1> HIDE DEF t
<1>8. Len(t) = Len(s) - 1 BY <1>1, <1>5, <1>6, <1>7
<1>9. ASSUME NEW i \in 1 .. Len(s) - 1 PROVE t[i] = IF i < at THEN s[i] ELSE s[i + 1]
  <2>1. t[i] = IF i <= at - 1 THEN a[i] ELSE b[i - (at - 1)] BY <1>1, <1>5, <1>6, <1>7
  <2>2. CASE i < at BY <1>1, <1>5, <2>1, <2>2
  <2>3. CASE ~(i < at)
    <3>1. i - (at - 1) \in 1 .. Len(s) - at /\ at + (i - (at - 1)) = i + 1 BY <1>1, <2>3
    <3>2. t[i] = b[i - (at - 1)] BY <1>1, <2>1, <2>3
    <3> QED BY <1>6, <2>3, <3>1, <3>2
  <2> QED BY <2>2, <2>3
<1>10. ASSUME NEW i \in 1 .. Len(t), NEW j \in 1 .. Len(t)
       PROVE  \E m, n \in 1 .. Len(s) : t[i] = s[m] /\ t[j] = s[n] /\ (i < j => m < n)
  <2> DEFINE m == IF i < at THEN i ELSE i + 1
             n == IF j < at THEN j ELSE j + 1
  <2>1. m \in 1 .. Len(s) /\ n \in 1 .. Len(s) /\ (i < j => m < n) BY <1>1, <1>8
  <2>2. t[i] = s[m] /\ t[j] = s[n] BY <1>8, <1>9
  <2> HIDE DEF m, n
  <2> QED BY <2>1, <2>2
<1>11. Len(t) <= Len(s) BY <1>1, <1>8
<1>12. Leaves(s, t) BY <1>7, <1>10, <1>11 DEF Leaves
<1> QED BY <1>8, <1>9, <1>12 DEF t, a, b, RemoveAt

\* What is left of a table in order is in order.
LEMMA LeavesOrdered ==
    ASSUME NEW s, NEW t, NEW sent, Leaves(s, t), Ordered(s, sent)
    PROVE  Ordered(t, sent)
<1>1. ASSUME NEW i \in 1 .. Len(t), NEW j \in 1 .. Len(t)
      PROVE  /\ t[i].age = sent[t[i].key]
             /\ i < j => /\ t[i].key # t[j].key
                         /\ t[i].age >= t[j].age
  <2>1. PICK m, n \in 1 .. Len(s) : t[i] = s[m] /\ t[j] = s[n] /\ (i < j => m < n)
    BY DEF Leaves
  <2> QED BY <2>1 DEF Ordered
<1> QED BY <1>1 DEF Ordered

\* And it holds no key that s does not.
LEMMA LeavesHolds ==
    ASSUME NEW s, NEW t, NEW k, Leaves(s, t), Holds(t, k)
    PROVE  Holds(s, k)
<1>1. PICK i \in 1 .. Len(t) : t[i].key = k BY DEF Holds
<1>2. PICK m \in 1 .. Len(s) : t[i] = s[m] BY DEF Leaves
<1> QED BY <1>1, <1>2 DEF Holds

-----------------------------------------------------------------------------
(* Eviction.                                                                *)

\* A set of numbers that is not empty has a least one.
LEMMA Least == ASSUME NEW S \in SUBSET Nat, S # {}
               PROVE  \E a \in S : \A b \in S : a <= b
<1> DEFINE Below == {p \in Nat \X Nat : p[1] < p[2]}
<1>1. IsWellFoundedOn(Below, Nat) BY NatLessThanWellFounded DEF OpToRel
<1>2. \A a, b \in Nat : <<b, a>> \in Below <=> b < a OBVIOUS
<1> HIDE DEF Below
<1>3. PICK a \in S : \A b \in S : <<b, a>> \notin Below BY <1>1, WFMin
<1>4. \A b \in S : ~(b < a) BY <1>2, <1>3
<1>5. \A b \in S : a <= b
  <2> TAKE b \in S
  <2>1. ~(b < a) BY <1>4
  <2>2. a \in Nat /\ b \in Nat OBVIOUS
  <2> QED BY <2>1, <2>2
<1> QED BY <1>5

\* Entries are typed.
LEMMA EntryTypes ==
    ASSUME NEW s \in Seq(Entry), NEW i \in 1 .. Len(s)
    PROVE  s[i].key \in Keys /\ s[i].age \in Ages
<1>1. s[i] \in Entry BY ElementOfSeq
<1> QED BY <1>1 DEF Entry

\* The first loop leaves the end of the table that begins at its first fresh entry.
LEMMA UnexpiredIs ==
    ASSUME NEW s \in Seq(Entry)
    PROVE  \E from \in 1 .. Len(s) + 1 :
              /\ Unexpired(s) = Suffix(s, from)
              /\ from <= Len(s) => s[from].age <= Ttl
              /\ \A i \in 1 .. Len(s) : s[i].age <= Ttl => from <= i
<1> DEFINE kept == {i \in 1 .. Len(s) : s[i].age <= Ttl}
           S    == kept \cup {Len(s) + 1}
           from == CHOOSE i \in S : \A j \in kept : i <= j
<1>1. Len(s) \in Nat BY LenProperties
<1>2. S \in SUBSET Nat /\ S # {} BY <1>1
<1>3. \E a \in S : \A b \in S : a <= b
  <2> HIDE DEF S
  <2> QED BY <1>2, Least
<1>4. \E a \in S : \A b \in kept : a <= b BY <1>3
<1>5. from \in S /\ \A j \in kept : from <= j BY <1>4
<1>6. Unexpired(s) = Suffix(s, from) BY DEF Unexpired
<1> HIDE DEF from
<1>7. from \in 1 .. Len(s) + 1 BY <1>1, <1>5
<1>8. from <= Len(s) => s[from].age <= Ttl BY <1>1, <1>5
<1>9. \A i \in 1 .. Len(s) : s[i].age <= Ttl => from <= i BY <1>5
<1> QED BY <1>6, <1>7, <1>8, <1>9

\* The second loop leaves the latest MaxEntries entries.
LEMMA WithinCapIs ==
    ASSUME NEW s \in Seq(Entry)
    PROVE  /\ Leaves(s, WithinCap(s))
           /\ Len(WithinCap(s)) <= MaxEntries
           /\ Len(s) > MaxEntries =>
                \A i \in 1 .. MaxEntries : WithinCap(s)[i] = s[Len(s) - MaxEntries + i]
           /\ Len(WithinCap(s)) = IF Len(s) > MaxEntries THEN MaxEntries ELSE Len(s)
<1>1. Len(s) \in Nat /\ MaxEntries \in Nat BY LenProperties, SinkAssumption
<1>2. CASE Len(s) > MaxEntries
  <2> DEFINE from == Len(s) - MaxEntries + 1
  <2>1. from \in 1 .. Len(s) + 1 BY <1>1, <1>2
  <2>2. WithinCap(s) = Suffix(s, from) BY <1>2 DEF WithinCap
  <2>3. Len(s) - from + 1 = MaxEntries BY <1>1
  <2>4. \A i \in 1 .. MaxEntries : from + i - 1 = Len(s) - MaxEntries + i BY <1>1
  <2> HIDE DEF from
  <2>5. /\ Leaves(s, Suffix(s, from))
        /\ Len(Suffix(s, from)) = MaxEntries
        /\ \A i \in 1 .. MaxEntries : Suffix(s, from)[i] = s[from + i - 1]
    BY <2>1, <2>3, SuffixLeaves
  <2>6. Len(WithinCap(s)) = MaxEntries BY <2>2, <2>5
  <2>7. \A i \in 1 .. MaxEntries : WithinCap(s)[i] = s[Len(s) - MaxEntries + i]
    BY <2>2, <2>4, <2>5
  <2>8. Len(WithinCap(s)) <= MaxEntries BY <1>1, <2>6
  <2> QED BY <1>2, <2>2, <2>5, <2>6, <2>7, <2>8
<1>3. CASE ~(Len(s) > MaxEntries)
  <2>1. WithinCap(s) = s BY <1>3 DEF WithinCap
  <2>2. Leaves(s, s)
    <3>1. \A i, j \in 1 .. Len(s) :
             \E m, n \in 1 .. Len(s) : s[i] = s[m] /\ s[j] = s[n] /\ (i < j => m < n)
      OBVIOUS
    <3> QED BY <1>1, <3>1 DEF Leaves
  <2> QED BY <1>1, <1>3, <2>1, <2>2
<1> QED BY <1>2, <1>3

\* What _evict leaves of a table in order: a part of it, within the cap, all fresh.
LEMMA EvictIs ==
    ASSUME NEW s \in Seq(Entry), NEW sent, Ordered(s, sent)
    PROVE  /\ Leaves(s, Evict(s))
           /\ Len(Evict(s)) <= MaxEntries
           /\ \A i \in 1 .. Len(Evict(s)) : Evict(s)[i].age <= Ttl
<1>1. Len(s) \in Nat BY LenProperties
<1>2. PICK from \in 1 .. Len(s) + 1 :
         /\ Unexpired(s) = Suffix(s, from)
         /\ from <= Len(s) => s[from].age <= Ttl
  BY UnexpiredIs
<1> DEFINE u == Unexpired(s)
<1>3. /\ Leaves(s, u)
      /\ Len(u) = Len(s) - from + 1
      /\ \A i \in 1 .. Len(s) - from + 1 : u[i] = s[from + i - 1]
  BY <1>2, SuffixLeaves
<1>4. u \in Seq(Entry) BY <1>3 DEF Leaves
<1>5. ASSUME NEW i \in 1 .. Len(u) PROVE u[i].age <= Ttl
  <2>1. from <= Len(s) /\ from + i - 1 \in from .. Len(s) /\ from + i - 1 \in 1 .. Len(s)
    BY <1>1, <1>3
  <2>2. u[i] = s[from + i - 1] BY <1>3
  <2>3. s[from].age <= Ttl BY <1>2, <2>1
  <2>4. from \in 1 .. Len(s) BY <1>1, <2>1
  <2>5. s[from].age >= s[from + i - 1].age
    <3>1. CASE from < from + i - 1 BY <2>1, <2>4, <3>1 DEF Ordered
    <3>2. CASE ~(from < from + i - 1)
      <4>1. from + i - 1 = from BY <1>1, <2>1, <3>2
      <4>2. s[from].age \in Ages BY <2>4, EntryTypes
      <4> QED BY <4>1, <4>2, SinkAssumption DEF Ages
    <3> QED BY <3>1, <3>2
  <2>6. s[from].age \in Int /\ s[from + i - 1].age \in Int
    BY <2>1, <2>4, EntryTypes, SinkAssumption DEF Ages
  <2> QED BY <2>2, <2>3, <2>5, <2>6, SinkAssumption
<1> HIDE DEF u
<1>6. Leaves(u, WithinCap(u)) /\ Len(WithinCap(u)) <= MaxEntries BY <1>4, WithinCapIs
<1>7. Leaves(s, WithinCap(u)) BY <1>3, <1>6, LeavesTransitive
<1>8. ASSUME NEW i \in 1 .. Len(WithinCap(u)) PROVE WithinCap(u)[i].age <= Ttl
  <2>1. PICK m \in 1 .. Len(u) : WithinCap(u)[i] = u[m] BY <1>6 DEF Leaves
  <2> QED BY <1>5, <2>1
<1> QED BY <1>6, <1>7, <1>8 DEF Evict, u
\* A key that was sent within the TTL and that _evict has dropped, or dropped before,
\* gave way to max_entries other keys that were sent after it.
Kept(s, sent) ==
    \A k \in Keys :
        sent[k] \in 0 .. Ttl /\ ~Holds(s, k)
        => Cardinality({j \in Keys \ {k} : sent[j] \in 0 .. sent[k]}) >= MaxEntries

\* Eviction keeps that.
LEMMA EvictKeeps ==
    ASSUME NEW s \in Seq(Entry), NEW sent, Ordered(s, sent), Kept(s, sent)
    PROVE  Kept(Evict(s), sent)
<1> SUFFICES ASSUME NEW k \in Keys, sent[k] \in 0 .. Ttl, ~Holds(Evict(s), k)
             PROVE  Cardinality({j \in Keys \ {k} : sent[j] \in 0 .. sent[k]}) >= MaxEntries
  BY DEF Kept
<1>1. CASE ~Holds(s, k) BY <1>1 DEF Kept
<1>2. CASE Holds(s, k)
  <2> DEFINE after == {j \in Keys \ {k} : sent[j] \in 0 .. sent[k]}
             u     == Unexpired(s)
  <2>1. Len(s) \in Nat /\ MaxEntries \in Nat /\ Ttl \in Nat BY LenProperties, SinkAssumption
  <2>2. PICK p \in 1 .. Len(s) : s[p].key = k BY <1>2 DEF Holds
  <2>3. s[p].age = sent[k] BY <2>2 DEF Ordered
  <2>4. s[p].age <= Ttl BY <2>1, <2>3
  <2>5. PICK from \in 1 .. Len(s) + 1 :
           /\ u = Suffix(s, from)
           /\ \A i \in 1 .. Len(s) : s[i].age <= Ttl => from <= i
    BY UnexpiredIs
  <2>6. from <= p BY <2>4, <2>5
  <2>7. /\ u \in Seq(Entry)
        /\ Len(u) = Len(s) - from + 1
        /\ \A i \in 1 .. Len(s) - from + 1 : u[i] = s[from + i - 1]
    BY <2>5, SuffixLeaves DEF Leaves
  <2>8. Evict(s) = WithinCap(u) BY DEF Evict
  <2> HIDE DEF u
  <2>9. Len(u) \in Nat BY <2>7, LenProperties
  <2> DEFINE q == p - from + 1
  <2>10. q \in 1 .. Len(u) /\ from + q - 1 = p BY <2>1, <2>6, <2>7
  <2>11. u[q].key = k BY <2>2, <2>7, <2>10
  <2>12. Len(u) > MaxEntries
    <3> SUFFICES ASSUME ~(Len(u) > MaxEntries) PROVE FALSE OBVIOUS
    <3>1. WithinCap(u) = u BY DEF WithinCap
    <3>2. Holds(u, k) BY <2>10, <2>11 DEF Holds
    <3> QED BY <2>8, <3>1, <3>2
  <2>13. /\ Len(WithinCap(u)) = MaxEntries
         /\ \A i \in 1 .. MaxEntries : WithinCap(u)[i] = u[Len(u) - MaxEntries + i]
    BY <2>7, <2>12, WithinCapIs
  <2>14. q <= Len(u) - MaxEntries
    <3> SUFFICES ASSUME ~(q <= Len(u) - MaxEntries) PROVE FALSE OBVIOUS
    <3> DEFINE i == q - (Len(u) - MaxEntries)
    <3>1. i \in 1 .. MaxEntries /\ Len(u) - MaxEntries + i = q BY <2>1, <2>6, <2>9, <2>10
    <3> HIDE DEF i, q
    <3>2. WithinCap(u)[i].key = k BY <2>11, <2>13, <3>1
    <3>3. Holds(WithinCap(u), k) BY <2>13, <3>1, <3>2 DEF Holds
    <3> QED BY <2>8, <3>3
  <2>15. p <= Len(s) - MaxEntries BY <2>1, <2>7, <2>14
  <2> HIDE DEF q
  <2> DEFINE f == [i \in 1 .. MaxEntries |-> s[Len(s) - MaxEntries + i].key]
  <2>16. ASSUME NEW i \in 1 .. MaxEntries PROVE f[i] \in after
    <3> DEFINE n == Len(s) - MaxEntries + i
    <3>1. n \in 1 .. Len(s) /\ p < n BY <2>1, <2>15
    <3>2. f[i] = s[n].key OBVIOUS
    <3> HIDE DEF n, f
    <3>3. s[p].key # s[n].key /\ s[p].age >= s[n].age /\ s[n].age = sent[s[n].key]
      BY <3>1 DEF Ordered
    <3>4. s[n].key \in Keys /\ s[n].age \in Ages /\ s[p].age \in Ages BY <3>1, EntryTypes
    <3>5. s[n].age \in 0 .. s[p].age BY <2>1, <3>3, <3>4 DEF Ages
    <3> QED BY <2>2, <2>3, <3>2, <3>3, <3>4, <3>5
  <2>17. ASSUME NEW i \in 1 .. MaxEntries, NEW j \in 1 .. MaxEntries, i # j
         PROVE  f[i] # f[j]
    <3> DEFINE m == Len(s) - MaxEntries + i
               n == Len(s) - MaxEntries + j
    <3>1. m \in 1 .. Len(s) /\ n \in 1 .. Len(s) /\ (m < n \/ n < m)
      BY <2>1, <2>2, <2>15, <2>17
    <3>2. f[i] = s[m].key /\ f[j] = s[n].key OBVIOUS
    <3> HIDE DEF m, n, f
    <3> QED BY <3>1, <3>2 DEF Ordered
  <2>18. f \in [1 .. MaxEntries -> after] BY <2>16
  <2> HIDE DEF f
  <2>19. f \in Injection(1 .. MaxEntries, after)
    BY <2>17, <2>18 DEF Injection, IsInjective
  <2> HIDE DEF after
  <2>20. IsFiniteSet(after) /\ Cardinality(after) \in Nat
    BY SinkAssumption, FS_Subset, FS_CardinalityType DEF after
  <2>21. Cardinality(1 .. MaxEntries) <= Cardinality(after) BY <2>19, <2>20, FS_Injection
  <2>22. Cardinality(1 .. MaxEntries) = MaxEntries
    <3>1. 1 \in Int /\ MaxEntries \in Int BY <2>1
    <3>2. Cardinality(1 .. MaxEntries) = IF 1 > MaxEntries THEN 0 ELSE MaxEntries - 1 + 1
      BY <3>1, FS_Interval
    <3> QED BY <2>1, <3>2
  <2>23. Cardinality(after) >= MaxEntries BY <2>1, <2>20, <2>21, <2>22
  <2> QED BY <2>23 DEF after
<1> QED BY <1>1, <1>2

-----------------------------------------------------------------------------
(* What a send and a tick do to the table.                                  *)

\* Recording a send: the key is at the end with age 0, and the rest as it was.
LEMMA RefreshedIs ==
    ASSUME NEW s \in Seq(Entry), NEW k \in Keys,
           NEW sent \in [Keys -> Ages \cup {None}], Ordered(s, sent)
    PROVE  /\ Refreshed(s, k) \in Seq(Entry)
           /\ Len(Refreshed(s, k)) <= Len(s) + 1
           /\ Ordered(Refreshed(s, k), [sent EXCEPT ![k] = 0])
           /\ \A j \in Keys : j = k \/ Holds(s, j) => Holds(Refreshed(s, k), j)
<1> DEFINE r     == IF Holds(s, k) THEN RemoveAt(s, Place(s, k)) ELSE s
           new   == [key |-> k, age |-> 0]
           sent2 == [sent EXCEPT ![k] = 0]
<1>1. Len(s) \in Nat /\ Ttl \in Nat BY LenProperties, SinkAssumption
<1>2. /\ Leaves(s, r)
      /\ \A i \in 1 .. Len(r) : r[i].key # k
      /\ \A j \in Keys \ {k} : Holds(s, j) => Holds(r, j)
  <2>1. CASE ~Holds(s, k)
    <3>1. r = s BY <2>1
    <3>2. \A i, j \in 1 .. Len(s) :
             \E m, n \in 1 .. Len(s) : s[i] = s[m] /\ s[j] = s[n] /\ (i < j => m < n)
      OBVIOUS
    <3>3. Leaves(s, s) BY <1>1, <3>2 DEF Leaves
    <3> HIDE DEF r
    <3> QED BY <2>1, <3>1, <3>3 DEF Holds
  <2>2. CASE Holds(s, k)
    <3> DEFINE p == Place(s, k)
    <3>1. p \in 1 .. Len(s) /\ s[p].key = k BY <2>2 DEF Holds, Place
    <3>2. r = RemoveAt(s, p) BY <2>2
    <3> HIDE DEF p, r
    <3>3. /\ Leaves(s, r)
          /\ Len(r) = Len(s) - 1
          /\ \A i \in 1 .. Len(s) - 1 : r[i] = IF i < p THEN s[i] ELSE s[i + 1]
      BY <3>1, <3>2, RemoveLeaves
    <3>4. ASSUME NEW m \in 1 .. Len(s), m # p PROVE s[m].key # k
      <4>1. m < p \/ p < m BY <1>1, <3>1, <3>4
      <4> QED BY <3>1, <4>1 DEF Ordered
    <3>5. ASSUME NEW i \in 1 .. Len(r) PROVE r[i].key # k
      <4>1. CASE i < p
        <5>1. r[i] = s[i] /\ i \in 1 .. Len(s) /\ i # p BY <1>1, <3>1, <3>3, <4>1
        <5> QED BY <3>4, <5>1
      <4>2. CASE ~(i < p)
        <5>1. r[i] = s[i + 1] /\ i + 1 \in 1 .. Len(s) /\ i + 1 # p BY <1>1, <3>1, <3>3, <4>2
        <5> QED BY <3>4, <5>1
      <4> QED BY <4>1, <4>2
    <3>6. ASSUME NEW j \in Keys \ {k}, Holds(s, j) PROVE Holds(r, j)
      <4>1. PICK m \in 1 .. Len(s) : s[m].key = j BY <3>6 DEF Holds
      <4>2. m # p BY <3>1, <4>1
      <4>3. CASE m < p
        <5>1. m \in 1 .. Len(r) /\ r[m] = s[m] BY <1>1, <3>1, <3>3, <4>3
        <5> QED BY <4>1, <5>1 DEF Holds
      <4>4. CASE ~(m < p)
        <5>1. m - 1 \in 1 .. Len(s) - 1 /\ ~(m - 1 < p) /\ (m - 1) + 1 = m
          BY <1>1, <3>1, <4>2, <4>4
        <5>2. r[m - 1] = s[m] BY <3>3, <5>1
        <5> QED BY <3>3, <4>1, <5>1, <5>2 DEF Holds
      <4> QED BY <4>3, <4>4
    <3> QED BY <3>3, <3>5, <3>6
  <2> QED BY <2>1, <2>2
<1>3. Refreshed(s, k) = Append(r, new) BY DEF Refreshed
<1>4. new \in Entry BY <1>1 DEF Entry, Ages
<1> HIDE DEF r, new
<1>5. Ordered(r, sent) BY <1>2, LeavesOrdered
<1>6. r \in Seq(Entry) /\ Len(r) \in Nat /\ Len(r) <= Len(s) BY <1>2, LenProperties DEF Leaves
<1> DEFINE t == Append(r, new)
<1>7. /\ t \in Seq(Entry)
      /\ Len(t) = Len(r) + 1
      /\ \A i \in 1 .. Len(r) : t[i] = r[i]
      /\ t[Len(r) + 1] = new
  BY <1>4, <1>6, AppendProperties
<1> HIDE DEF t
<1>8. Len(t) <= Len(s) + 1 BY <1>1, <1>6, <1>7
<1>9. new.key = k /\ new.age = 0 BY DEF new
<1>10. sent2[k] = 0 /\ \A j \in Keys \ {k} : sent2[j] = sent[j] OBVIOUS
<1> HIDE DEF sent2
<1>11. ASSUME NEW i \in 1 .. Len(r)
       PROVE  t[i] = r[i] /\ r[i].key \in Keys \ {k} /\ r[i].age \in Ages
  BY <1>2, <1>6, <1>7, EntryTypes
<1>12. ASSUME NEW i \in 1 .. Len(t) PROVE t[i].age = sent2[t[i].key]
  <2>1. CASE i = Len(r) + 1 BY <1>7, <1>9, <1>10, <2>1
  <2>2. CASE i # Len(r) + 1
    <3>1. i \in 1 .. Len(r) BY <1>6, <1>7, <2>2
    <3>2. r[i].age = sent[r[i].key] BY <1>5, <3>1 DEF Ordered
    <3> QED BY <1>10, <1>11, <3>1, <3>2
  <2> QED BY <2>1, <2>2
<1>13. ASSUME NEW i \in 1 .. Len(t), NEW j \in 1 .. Len(t), i < j
       PROVE  t[i].key # t[j].key /\ t[i].age >= t[j].age
  <2>1. i \in 1 .. Len(r) BY <1>6, <1>7, <1>13
  <2>2. CASE j = Len(r) + 1
    <3>1. r[i].age \in Ages /\ r[i].age >= 0 BY <1>1, <1>11, <2>1 DEF Ages
    <3> QED BY <1>7, <1>9, <1>11, <2>1, <2>2, <3>1
  <2>3. CASE j # Len(r) + 1
    <3>1. j \in 1 .. Len(r) BY <1>6, <1>7, <2>3
    <3> QED BY <1>5, <1>7, <1>13, <2>1, <3>1 DEF Ordered
  <2> QED BY <2>2, <2>3
<1>14. Ordered(t, sent2) BY <1>12, <1>13 DEF Ordered
<1>15. ASSUME NEW j \in Keys, j = k \/ Holds(s, j) PROVE Holds(t, j)
  <2>1. CASE j = k
    <3>1. Len(r) + 1 \in 1 .. Len(t) BY <1>6, <1>7
    <3> QED BY <1>7, <1>9, <2>1, <3>1 DEF Holds
  <2>2. CASE j # k
    <3>1. Holds(r, j) BY <1>2, <1>15, <2>2
    <3>2. PICK i \in 1 .. Len(r) : r[i].key = j BY <3>1 DEF Holds
    <3>3. i \in 1 .. Len(t) BY <1>6, <1>7
    <3> QED BY <1>7, <3>2, <3>3 DEF Holds
  <2> QED BY <2>1, <2>2
<1> QED BY <1>3, <1>7, <1>8, <1>14, <1>15 DEF t, sent2
\* A tick makes every entry and every send older by the same rule.
Aged(s) == [i \in DOMAIN s |-> [s[i] EXCEPT !.age = Older(@)]]

\* Ages stay in their range and keep their order.
LEMMA OlderIs ==
    /\ \A a \in Ages : Older(a) \in Ages /\ a <= Older(a)
    /\ \A a, b \in Ages : a >= b => Older(a) >= Older(b)
    /\ \A a \in Ages : Older(a) \in 0 .. Ttl => a \in 0 .. Ttl /\ Older(a) = a + 1
    /\ Older(None) = None
<1>1. Ttl \in Nat /\ None \notin Ages BY SinkAssumption DEF Ages
<1>2. \A a \in Ages : Older(a) = IF a > Ttl THEN a ELSE a + 1 BY <1>1 DEF Older
<1>3. \A a \in Ages : a \in Int /\ 0 <= a /\ a <= Ttl + 1 BY <1>1 DEF Ages
<1>4. ASSUME NEW a \in Ages PROVE Older(a) \in Ages /\ a <= Older(a)
  <2>1. Older(a) \in 0 .. Ttl + 1 /\ a <= Older(a) BY <1>1, <1>2, <1>3
  <2> QED BY <2>1 DEF Ages
<1>5. ASSUME NEW a \in Ages, NEW b \in Ages, a >= b PROVE Older(a) >= Older(b)
  BY <1>1, <1>2, <1>3, <1>5
<1>6. ASSUME NEW a \in Ages, Older(a) \in 0 .. Ttl PROVE a \in 0 .. Ttl /\ Older(a) = a + 1
  BY <1>1, <1>2, <1>3, <1>6
<1>7. Older(None) = None BY DEF Older
<1> QED BY <1>4, <1>5, <1>6, <1>7

\* The table a tick later is the table, with older entries, and in order.
LEMMA AgedIs ==
    ASSUME NEW s \in Seq(Entry), NEW sent \in [Keys -> Ages \cup {None}], Ordered(s, sent)
    PROVE  /\ Aged(s) \in Seq(Entry)
           /\ Len(Aged(s)) = Len(s)
           /\ Ordered(Aged(s), [k \in Keys |-> Older(sent[k])])
           /\ \A k : Holds(Aged(s), k) <=> Holds(s, k)
<1> DEFINE t == Aged(s)
<1>1. Len(s) \in Nat /\ DOMAIN s = 1 .. Len(s) BY LenProperties
<1>2. ASSUME NEW i \in 1 .. Len(s)
      PROVE  /\ t[i].key = s[i].key /\ t[i].age = Older(s[i].age)
             /\ s[i].key \in Keys /\ s[i].age \in Ages
             /\ t[i] \in Entry
  <2>1. s[i] \in Entry BY ElementOfSeq
  <2>2. s[i].key \in Keys /\ s[i].age \in Ages BY EntryTypes
  <2>3. t[i] = [s[i] EXCEPT !.age = Older(s[i].age)] BY <1>1 DEF Aged
  <2>4. Older(s[i].age) \in Ages BY <2>2, OlderIs
  <2> HIDE DEF t
  <2> QED BY <2>1, <2>2, <2>3, <2>4 DEF Entry
<1>3. t \in [1 .. Len(s) -> Entry]
  <2>1. t = [i \in 1 .. Len(s) |-> [s[i] EXCEPT !.age = Older(@)]] BY <1>1 DEF Aged
  <2>2. \A i \in 1 .. Len(s) : t[i] \in Entry BY <1>2
  <2> QED BY <2>1, <2>2
<1> HIDE DEF t
<1>4. t \in Seq(Entry) /\ Len(t) = Len(s) BY <1>1, <1>3
<1>5. ASSUME NEW i \in 1 .. Len(t), NEW j \in 1 .. Len(t)
      PROVE  /\ t[i].age = [k \in Keys |-> Older(sent[k])][t[i].key]
             /\ i < j => t[i].key # t[j].key /\ t[i].age >= t[j].age
  <2>1. i \in 1 .. Len(s) /\ j \in 1 .. Len(s) BY <1>4
  <2>2. s[i].age = sent[s[i].key] BY <2>1 DEF Ordered
  <2>3. i < j => s[i].key # s[j].key /\ s[i].age >= s[j].age BY <2>1 DEF Ordered
  <2> QED BY <1>2, <2>1, <2>2, <2>3, OlderIs
<1>6. Ordered(t, [k \in Keys |-> Older(sent[k])]) BY <1>5 DEF Ordered
<1>7. \A k : Holds(t, k) <=> Holds(s, k) BY <1>2, <1>4 DEF Holds
<1> QED BY <1>4, <1>6, <1>7 DEF t

-----------------------------------------------------------------------------
(* The inductive invariant.                                                 *)

TableInv ==
    /\ Ordered(entries, since)
    /\ Kept(entries, since)

IInv ==
    /\ TypeOK
    /\ TableInv
    /\ AttemptsAreBounded
    /\ Accounting

\* Initially nothing has been sent.
LEMMA InitIInv == Init => IInv
<1> SUFFICES ASSUME Init PROVE IInv OBVIOUS
<1> USE DEF Init
<1>1. TypeOK
  <2>1. Ages \cup {None} # {} /\ since \in [Keys -> Ages \cup {None}] OBVIOUS
  <2>2. entries \in Seq([key : Keys, age : Ages]) /\ Len(entries) = 0
        /\ queue \in Seq(Keys) /\ Len(queue) = 0
    BY EmptySeq
  <2>3. MaxEntries \in Nat /\ QueueCap \in Nat BY SinkAssumption
  <2>4. worker \in [at : {"idle", "posting", "backoff", "stopped"},
                    alert : Keys \cup {None}, attempt : Nat, backoff : Nat,
                    wait : Nat, rings : Nat]
    BY DEF Idle
  <2> QED BY <2>1, <2>2, <2>3, <2>4 DEF TypeOK
<1>2. Len(entries) = 0 /\ 1 .. 0 = {} OBVIOUS
<1>3. Ordered(entries, since) BY <1>2 DEF Ordered
<1>4. Kept(entries, since)
  <2>1. None \notin 0 .. Ttl BY SinkAssumption
  <2> QED BY <2>1 DEF Kept
<1>5. ~Busy BY DEF Busy, Idle
<1>6. Accounting BY <1>5 DEF Accounting, InHand
<1> QED BY <1>1, <1>3, <1>4, <1>5, <1>6 DEF IInv, TableInv, AttemptsAreBounded

\* What a call of send() does to the table, and what the table says before it.
LEMMA SendTable ==
    ASSUME TypeOK, TableInv, NEW k \in Keys, Send(k)
    PROVE  /\ entries' \in Seq(Entry)
           /\ Len(entries') <= MaxEntries + 1
           /\ since' \in [Keys -> Ages \cup {None}]
           /\ TableInv'
           /\ Holds(Evict(entries), k) => since[k] \in 0 .. Ttl
           /\ ~Holds(Evict(entries), k) /\ since[k] \in 0 .. Ttl
                => Cardinality(SentAfter(k)) >= MaxEntries
<1> DEFINE e     == Evict(entries)
           sent2 == [since EXCEPT ![k] = 0]
<1>1. /\ entries \in Seq(Entry) /\ since \in [Keys -> Ages \cup {None}]
      /\ Ordered(entries, since) /\ Kept(entries, since)
  BY DEF TypeOK, TableInv, Entry
<1>2. MaxEntries \in Nat /\ Ttl \in Nat /\ IsFiniteSet(Keys) /\ None \notin Nat BY SinkAssumption
<1>3. /\ Leaves(entries, e)
      /\ Len(e) <= MaxEntries
      /\ \A i \in 1 .. Len(e) : e[i].age <= Ttl
  BY <1>1, EvictIs
<1>4. Kept(e, since) BY <1>1, EvictKeeps
<1>5. entries' = Refreshed(e, k) /\ since' = sent2 BY DEF Send
<1> HIDE DEF e
<1>6. e \in Seq(Entry) /\ Len(e) \in Nat BY <1>3, LenProperties DEF Leaves
<1>7. Ordered(e, since) BY <1>1, <1>3, LeavesOrdered
<1>8. /\ Refreshed(e, k) \in Seq(Entry)
      /\ Len(Refreshed(e, k)) <= Len(e) + 1
      /\ Ordered(Refreshed(e, k), sent2)
      /\ \A j \in Keys : j = k \/ Holds(e, j) => Holds(Refreshed(e, k), j)
  BY <1>1, <1>6, <1>7, RefreshedIs
<1>9. Len(Refreshed(e, k)) \in Nat BY <1>8, LenProperties
<1>10. Len(entries') <= MaxEntries + 1 BY <1>2, <1>3, <1>5, <1>6, <1>8, <1>9
<1>11. sent2 \in [Keys -> Ages \cup {None}] BY <1>1, <1>2 DEF Ages
<1>12. sent2[k] = 0 /\ \A j \in Keys \ {k} : sent2[j] = since[j] BY <1>1
<1>13. Kept(Refreshed(e, k), sent2)
  <2> SUFFICES ASSUME NEW j \in Keys, sent2[j] \in 0 .. Ttl, ~Holds(Refreshed(e, k), j)
               PROVE  Cardinality({i \in Keys \ {j} : sent2[i] \in 0 .. sent2[j]}) >= MaxEntries
    BY DEF Kept
  <2> DEFINE before == {i \in Keys \ {j} : since[i] \in 0 .. since[j]}
             now    == {i \in Keys \ {j} : sent2[i] \in 0 .. sent2[j]}
  <2>1. j # k /\ ~Holds(e, j) BY <1>8
  <2>2. sent2[j] = since[j] BY <1>12, <2>1
  <2>3. Cardinality(before) >= MaxEntries BY <1>4, <2>1, <2>2 DEF Kept
  <2> HIDE DEF sent2
  <2>4. 0 \in 0 .. sent2[j] BY <1>2
  <2>5. before \subseteq now BY <1>12, <2>2, <2>4
  <2>6. IsFiniteSet(now) BY <1>2, FS_Subset
  <2> HIDE DEF before, now
  <2>7. IsFiniteSet(before) /\ Cardinality(before) <= Cardinality(now) BY <2>5, <2>6, FS_Subset
  <2>8. Cardinality(before) \in Nat /\ Cardinality(now) \in Nat BY <2>6, <2>7, FS_CardinalityType
  <2>9. Cardinality(now) >= MaxEntries BY <1>2, <2>3, <2>7, <2>8
  <2> QED BY <2>9 DEF now
<1>14. TableInv' BY <1>5, <1>8, <1>13 DEF TableInv
<1>15. ASSUME Holds(e, k) PROVE since[k] \in 0 .. Ttl
  <2>1. PICK i \in 1 .. Len(e) : e[i].key = k BY <1>15 DEF Holds
  <2>2. e[i].age = since[k] BY <1>7, <2>1 DEF Ordered
  <2>3. e[i].age \in Ages BY <1>6, EntryTypes
  <2> QED BY <1>2, <1>3, <2>2, <2>3 DEF Ages
<1>16. ~Holds(e, k) /\ since[k] \in 0 .. Ttl => Cardinality(SentAfter(k)) >= MaxEntries
  BY <1>4 DEF Kept, SentAfter
<1> QED BY <1>5, <1>8, <1>10, <1>11, <1>14, <1>15, <1>16 DEF e
-----------------------------------------------------------------------------
(* Every step keeps the invariant.                                          *)

\* The numbers of the sink, out of TypeOK.
LEMMA Counts ==
    ASSUME TypeOK
    PROVE  /\ delivered \in Nat /\ failed \in Nat /\ deduped \in Nat
           /\ sends \in Nat /\ abandoned \in Nat
           /\ Len(queue) \in Nat /\ Len(entries) \in Nat
BY LenProperties DEF TypeOK

\* Only sends and ticks touch the table.
LEMMA TableStays ==
    ASSUME TableInv, UNCHANGED <<entries, since>>
    PROVE  TableInv'
BY DEF TableInv

\* send(): the table by SendTable, and one count or one place in the queue more.
LEMMA SendKeeps ==
    ASSUME IInv, NEW k \in Keys, Send(k)
    PROVE  IInv'
<1>1. TypeOK /\ TableInv /\ AttemptsAreBounded /\ Accounting BY DEF IInv
<1>2. /\ entries' \in Seq(Entry) /\ Len(entries') <= MaxEntries + 1
      /\ since' \in [Keys -> Ages \cup {None}]
      /\ TableInv'
  BY <1>1, SendTable
<1>3. /\ sends' = sends + 1
      /\ worker' = worker /\ delivered' = delivered /\ abandoned' = abandoned
      /\ \/ deduped' = deduped + 1 /\ UNCHANGED <<queue, failed>>
         \/ Len(queue) < QueueCap /\ queue' = Append(queue, k) /\ UNCHANGED <<deduped, failed>>
         \/ failed' = failed + 1 /\ UNCHANGED <<queue, deduped>>
  BY DEF Send
<1>4. queue \in Seq(Keys) /\ Len(queue) <= QueueCap BY <1>1 DEF TypeOK
<1>5. /\ Append(queue, k) \in Seq(Keys)
      /\ Len(Append(queue, k)) = Len(queue) + 1
  BY <1>4, AppendProperties
<1>6. /\ QueueCap \in Nat
      /\ delivered \in Nat /\ failed \in Nat /\ deduped \in Nat
      /\ sends \in Nat /\ abandoned \in Nat /\ Len(queue) \in Nat
  BY <1>1, Counts, SinkAssumption
<1>7. queue' \in Seq(Keys) /\ Len(queue') <= QueueCap
  <2>1. CASE queue' = queue BY <1>4, <2>1
  <2>2. CASE Len(queue) < QueueCap /\ queue' = Append(queue, k)
    <3>1. Len(queue) + 1 <= QueueCap BY <1>6, <2>2
    <3> QED BY <1>5, <2>2, <3>1
  <2> QED BY <1>3, <2>1, <2>2
<1>8. TypeOK'
  <2>1. /\ delivered' \in Nat /\ failed' \in Nat /\ deduped' \in Nat
        /\ sends' \in Nat /\ abandoned' \in Nat
    BY <1>1, <1>3, Counts
  <2>2. worker' = worker BY <1>3
  <2> QED BY <1>1, <1>2, <1>7, <2>1, <2>2 DEF TypeOK, Entry
<1>9. AttemptsAreBounded' BY <1>1, <1>3 DEF AttemptsAreBounded, Busy
<1>10. Accounting'
  <2>1. InHand' = InHand /\ InHand \in Nat BY <1>3 DEF InHand, Busy
  <2>2. sends = deduped + failed + delivered + Len(queue) + InHand + abandoned
    BY <1>1 DEF Accounting
  <2>3. sends' = sends + 1 /\ delivered' = delivered /\ abandoned' = abandoned BY <1>3
  <2>4. CASE deduped' = deduped + 1 /\ UNCHANGED <<queue, failed>>
    BY <1>6, <2>1, <2>2, <2>3, <2>4 DEF Accounting
  <2>5. CASE queue' = Append(queue, k) /\ UNCHANGED <<deduped, failed>>
    <3>1. Len(queue') = Len(queue) + 1 BY <1>5, <2>5
    <3> QED BY <1>6, <2>1, <2>2, <2>3, <2>5, <3>1 DEF Accounting
  <2>6. CASE failed' = failed + 1 /\ UNCHANGED <<queue, deduped>>
    BY <1>6, <2>1, <2>2, <2>3, <2>6 DEF Accounting
  <2> QED BY <1>3, <2>4, <2>5, <2>6
<1> QED BY <1>2, <1>8, <1>9, <1>10 DEF IInv

\* queue.get(): the alert goes from the queue into the worker's hands, or fails.
LEMMA TakeKeeps ==
    ASSUME IInv, Take
    PROVE  IInv'
<1>1. TypeOK /\ TableInv /\ Accounting BY DEF IInv
<1> USE DEF Take
<1>2. TableInv' BY <1>1, TableStays
<1>3. /\ Head(queue) \in Keys /\ Tail(queue) \in Seq(Keys)
      /\ Len(Tail(queue)) = Len(queue) - 1
  BY <1>1, HeadTailProperties DEF TypeOK
<1>4. worker.at = "idle" /\ ~Busy BY DEF Busy
<1>5. TypeOK'
  <2>1. QueueCap \in Nat BY SinkAssumption
  <2>2. queue' \in Seq(Keys) /\ Len(queue') <= QueueCap BY <1>1, <1>3, <2>1, Counts DEF TypeOK
  <2>3. worker' \in [at : {"idle", "posting", "backoff", "stopped"},
                     alert : Keys \cup {None}, attempt : Nat, backoff : Nat,
                     wait : Nat, rings : Nat]
    BY <1>1, <1>3 DEF TypeOK
  <2>4. failed' \in Nat BY <1>1, Counts
  <2>5. /\ entries' = entries /\ delivered' = delivered /\ deduped' = deduped
        /\ sends' = sends /\ abandoned' = abandoned /\ since' = since
    OBVIOUS
  <2> QED BY <1>1, <2>2, <2>3, <2>4, <2>5 DEF TypeOK
<1>6. AttemptsAreBounded'
  <2>1. CASE worker' = worker BY <1>4, <2>1 DEF AttemptsAreBounded, Busy
  <2>2. CASE worker' # worker
    <3>1. /\ worker'.at = "posting" /\ worker'.attempt = 1 /\ worker'.rings = 0
          /\ worker'.wait = 0 /\ worker'.backoff = 1 /\ RetryAttempts >= 1
      BY <2>2
    <3> QED BY <3>1, SinkAssumption DEF AttemptsAreBounded, Busy
  <2> QED BY <2>1, <2>2
<1>7. Accounting'
  <2>1. InHand = 0 BY <1>4 DEF InHand
  <2>2. \/ failed' = failed + 1 /\ InHand' = 0
        \/ failed' = failed /\ InHand' = 1
    BY <1>4 DEF InHand, Busy
  <2> QED BY <1>1, <1>3, <2>1, <2>2, Counts DEF Accounting
<1> QED BY <1>2, <1>5, <1>6, <1>7 DEF IInv

\* The end of a POST settles its alert or leads to a backoff within the bounds.
LEMMA PostKeeps ==
    ASSUME IInv, PostSucceeds \/ PostFails \/ PostRaises
    PROVE  IInv'
<1>1. TypeOK /\ TableInv /\ AttemptsAreBounded /\ Accounting BY DEF IInv
<1>2. /\ worker.at = "posting"
      /\ UNCHANGED <<entries, queue, deduped, sends, abandoned, since>>
      /\ \/ worker' = Idle /\ delivered' = delivered + 1 /\ failed' = failed
         \/ worker' = Idle /\ failed' = failed + 1 /\ delivered' = delivered
         \/ /\ worker.attempt < RetryAttempts
            /\ UNCHANGED <<delivered, failed>>
            /\ \E acted \in {0, 1} :
                  worker' = [worker EXCEPT !.at = "backoff", !.wait = worker.backoff,
                                           !.rings = @ + acted]
  BY DEF PostSucceeds, PostFails, PostRaises
<1>3. TableInv' BY <1>1, <1>2, TableStays
<1>4. /\ worker.attempt \in Nat /\ worker.backoff \in Nat /\ worker.wait \in Nat
      /\ worker.rings \in Nat /\ worker.alert \in Keys \cup {None}
  BY <1>1 DEF TypeOK
<1>5. CASE worker' = Idle
  <2>1. TypeOK'
    <3>1. /\ delivered' \in Nat /\ failed' \in Nat BY <1>1, <1>2, Counts
    <3>2. worker' \in [at : {"idle", "posting", "backoff", "stopped"},
                       alert : Keys \cup {None}, attempt : Nat, backoff : Nat,
                       wait : Nat, rings : Nat]
      BY <1>5 DEF Idle
    <3> QED BY <1>1, <1>2, <3>1, <3>2 DEF TypeOK
  <2>2. ~Busy' /\ InHand' = 0 /\ InHand = 1 BY <1>2, <1>5 DEF Busy, InHand, Idle
  <2>3. AttemptsAreBounded' BY <2>2 DEF AttemptsAreBounded
  <2>4. \/ delivered' = delivered + 1 /\ failed' = failed
        \/ failed' = failed + 1 /\ delivered' = delivered
    <3>1. worker'.at = "idle" BY <1>5 DEF Idle
    <3>2. worker \in [at : {"idle", "posting", "backoff", "stopped"},
                      alert : Keys \cup {None}, attempt : Nat, backoff : Nat,
                      wait : Nat, rings : Nat]
      BY <1>1 DEF TypeOK
    <3> QED BY <1>2, <3>1, <3>2
  <2>5. Accounting' BY <1>1, <1>2, <2>2, <2>4, Counts DEF Accounting
  <2> QED BY <1>3, <2>1, <2>3, <2>5 DEF IInv
<1>6. CASE worker' # Idle
  <2>1. PICK acted \in {0, 1} :
           worker' = [worker EXCEPT !.at = "backoff", !.wait = worker.backoff,
                                    !.rings = @ + acted]
    BY <1>2, <1>6
  <2>2. worker.attempt < RetryAttempts /\ UNCHANGED <<delivered, failed>> BY <1>2, <1>6
  <2>3. worker \in [at : {"idle", "posting", "backoff", "stopped"},
                    alert : Keys \cup {None}, attempt : Nat, backoff : Nat,
                    wait : Nat, rings : Nat]
    BY <1>1 DEF TypeOK
  <2>4. /\ worker' \in [at : {"idle", "posting", "backoff", "stopped"},
                        alert : Keys \cup {None}, attempt : Nat, backoff : Nat,
                        wait : Nat, rings : Nat]
        /\ worker'.at = "backoff" /\ worker'.wait = worker.backoff
        /\ worker'.rings = worker.rings + acted
        /\ worker'.attempt = worker.attempt /\ worker'.backoff = worker.backoff
    <3> DEFINE rung == worker.rings + acted
    <3>1. rung \in Nat BY <1>4
    <3>2. worker' = [worker EXCEPT !.at = "backoff", !.wait = worker.backoff, !.rings = rung]
      BY <2>1
    <3> HIDE DEF rung
    <3>3. /\ worker' \in [at : {"idle", "posting", "backoff", "stopped"},
                          alert : Keys \cup {None}, attempt : Nat, backoff : Nat,
                          wait : Nat, rings : Nat]
          /\ worker'.at = "backoff" /\ worker'.wait = worker.backoff
          /\ worker'.rings = rung
          /\ worker'.attempt = worker.attempt /\ worker'.backoff = worker.backoff
      BY <1>4, <2>3, <3>1, <3>2
    <3> QED BY <3>3 DEF rung
  <2>5. TypeOK' BY <1>1, <1>2, <2>2, <2>4 DEF TypeOK
  <2>6. worker.attempt \in 1 .. RetryAttempts /\ worker.rings <= worker.attempt - 1
    BY <1>1, <1>2 DEF AttemptsAreBounded, Busy
  <2>7. worker'.rings <= worker'.attempt BY <1>4, <2>4, <2>6
  <2>8. AttemptsAreBounded' BY <1>4, <2>2, <2>4, <2>6, <2>7 DEF AttemptsAreBounded
  <2>9. InHand' = InHand /\ InHand \in Nat BY <1>2, <2>4 DEF InHand, Busy
  <2>10. Accounting' BY <1>1, <1>2, <2>2, <2>9 DEF Accounting
  <2> QED BY <1>3, <2>5, <2>8, <2>10 DEF IInv
<1> QED BY <1>5, <1>6

\* The next attempt is one of those allowed.
LEMMA RetryKeeps ==
    ASSUME IInv, Retry
    PROVE  IInv'
<1>1. TypeOK /\ TableInv /\ AttemptsAreBounded /\ Accounting BY DEF IInv
<1> USE DEF Retry
<1>2. TableInv' BY <1>1, TableStays
<1>3. worker \in [at : {"idle", "posting", "backoff", "stopped"},
                  alert : Keys \cup {None}, attempt : Nat, backoff : Nat,
                  wait : Nat, rings : Nat]
  BY <1>1 DEF TypeOK
<1>4. /\ worker'.at = "posting" /\ worker'.attempt = worker.attempt + 1
      /\ worker'.backoff = worker.backoff * 2 /\ worker'.wait = worker.wait
      /\ worker'.rings = worker.rings /\ worker'.alert = worker.alert
      /\ DOMAIN worker' = DOMAIN worker
  BY <1>3
<1>5. worker.backoff * 2 \in Nat /\ worker.attempt + 1 \in Nat BY <1>3
<1>6. worker' \in [at : {"idle", "posting", "backoff", "stopped"},
                   alert : Keys \cup {None}, attempt : Nat, backoff : Nat,
                   wait : Nat, rings : Nat]
  <2> DEFINE next  == worker.attempt + 1
             twice == worker.backoff * 2
  <2>1. worker' = [worker EXCEPT !.at = "posting", !.attempt = next, !.backoff = twice]
    OBVIOUS
  <2>2. next \in Nat /\ twice \in Nat BY <1>5
  <2> HIDE DEF next, twice
  <2> HIDE DEF Retry
  <2> QED BY <1>3, <2>1, <2>2
<1>7. TypeOK' BY <1>1, <1>6 DEF TypeOK
<1>8. /\ worker.attempt \in 1 .. RetryAttempts /\ worker.rings <= worker.attempt
      /\ worker.attempt < RetryAttempts
  BY <1>1 DEF AttemptsAreBounded, Busy
<1>9. worker'.attempt \in 1 .. RetryAttempts BY <1>3, <1>4, <1>8, SinkAssumption
<1>10. worker'.rings <= worker'.attempt - 1 BY <1>3, <1>4, <1>8
<1>11. worker.wait = 0 OBVIOUS
<1>12. worker'.wait <= worker'.backoff BY <1>4, <1>5, <1>11
<1>13. AttemptsAreBounded' BY <1>4, <1>9, <1>10, <1>12 DEF AttemptsAreBounded
<1>14. InHand' = InHand BY <1>4 DEF InHand, Busy
<1>15. Accounting' BY <1>1, <1>14 DEF Accounting
<1> QED BY <1>2, <1>7, <1>13, <1>15 DEF IInv

\* stop(): what was in hand is abandoned, what is queued stays there.
LEMMA StopKeeps ==
    ASSUME IInv, Stop
    PROVE  IInv'
<1>1. TypeOK /\ TableInv /\ Accounting BY DEF IInv
<1> USE DEF Stop
<1>2. TableInv' BY <1>1, TableStays
<1>3. InHand \in Nat BY DEF InHand
<1>4. TypeOK'
  <2>1. worker' \in [at : {"idle", "posting", "backoff", "stopped"},
                     alert : Keys \cup {None}, attempt : Nat, backoff : Nat,
                     wait : Nat, rings : Nat]
    BY DEF Stopped
  <2>2. abandoned' \in Nat BY <1>1, <1>3, Counts
  <2> QED BY <1>1, <2>1, <2>2 DEF TypeOK
<1>5. ~Busy' /\ InHand' = 0 BY DEF Busy, InHand, Stopped
<1>6. AttemptsAreBounded' BY <1>5 DEF AttemptsAreBounded
<1>7. Accounting' BY <1>1, <1>3, <1>5, Counts DEF Accounting
<1> QED BY <1>2, <1>4, <1>6, <1>7 DEF IInv

\* Time: ages grow together, so that the order stays and no key becomes fresh; and
\* whatever was sent after a key still was.
LEMMA TickKeeps ==
    ASSUME IInv, Tick
    PROVE  IInv'
<1>1. TypeOK /\ TableInv /\ AttemptsAreBounded /\ Accounting BY DEF IInv
<1>2. entries \in Seq(Entry) /\ since \in [Keys -> Ages \cup {None}]
  BY <1>1 DEF TypeOK, Entry
<1>3. Ttl \in Nat /\ MaxEntries \in Nat /\ IsFiniteSet(Keys) /\ None \notin Nat
  BY SinkAssumption
<1>4. /\ entries' = Aged(entries)
      /\ since' = [k \in Keys |-> Older(since[k])]
      /\ UNCHANGED <<queue, delivered, failed, deduped, sends, abandoned>>
  BY DEF Tick, Aged
<1>5. /\ entries' \in Seq(Entry) /\ Len(entries') = Len(entries)
      /\ Ordered(entries', since')
      /\ \A k : Holds(entries', k) <=> Holds(entries, k)
  BY <1>1, <1>2, <1>4, AgedIs DEF TableInv
<1>6. since' \in [Keys -> Ages \cup {None}]
  <2>1. \A k \in Keys : Older(since[k]) \in Ages \cup {None} BY <1>2, OlderIs
  <2> QED BY <1>4, <2>1
<1>7. Kept(entries', since')
  <2> SUFFICES ASSUME NEW k \in Keys, since'[k] \in 0 .. Ttl, ~Holds(entries', k)
               PROVE  Cardinality({j \in Keys \ {k} : since'[j] \in 0 .. since'[k]}) >= MaxEntries
    BY DEF Kept
  <2> DEFINE before == {j \in Keys \ {k} : since[j] \in 0 .. since[k]}
             now    == {j \in Keys \ {k} : since'[j] \in 0 .. since'[k]}
  <2>1. \A j \in Keys : since'[j] = Older(since[j]) BY <1>4
  <2>2. since[k] \in Ages BY <1>2, <1>3, <2>1, OlderIs
  <2>3. since[k] \in 0 .. Ttl /\ since'[k] = since[k] + 1 BY <2>1, <2>2, OlderIs
  <2>4. Cardinality(before) >= MaxEntries BY <1>1, <1>5, <2>3 DEF TableInv, Kept
  <2>5. ASSUME NEW j \in Keys, since[j] \in 0 .. since[k] PROVE since'[j] \in 0 .. since'[k]
    <3>1. since[j] # None BY <1>3, <2>5
    <3>2. since[j] \in Ages BY <1>2, <3>1
    <3>3. /\ since'[j] \in Ages /\ since[j] <= since'[j] /\ since'[j] <= since'[k]
      BY <2>1, <2>2, <2>3, <2>5, <3>2, OlderIs
    <3> QED BY <1>3, <2>3, <3>3 DEF Ages
  <2>6. before \subseteq now BY <2>5
  <2>7. IsFiniteSet(now) BY <1>3, FS_Subset
  <2> HIDE DEF before, now
  <2>8. IsFiniteSet(before) /\ Cardinality(before) <= Cardinality(now) BY <2>6, <2>7, FS_Subset
  <2>9. Cardinality(before) \in Nat /\ Cardinality(now) \in Nat BY <2>7, <2>8, FS_CardinalityType
  <2>10. Cardinality(now) >= MaxEntries BY <1>3, <2>4, <2>8, <2>9
  <2> QED BY <2>10 DEF now
<1>8. worker \in [at : {"idle", "posting", "backoff", "stopped"},
                  alert : Keys \cup {None}, attempt : Nat, backoff : Nat,
                  wait : Nat, rings : Nat]
  BY <1>1 DEF TypeOK
<1>9. worker' = [worker EXCEPT !.wait = IF worker.wait > 0 THEN worker.wait - 1 ELSE 0]
  BY DEF Tick
<1> DEFINE left == IF worker.wait > 0 THEN worker.wait - 1 ELSE 0
<1>10. left \in Nat /\ left <= worker.wait BY <1>8
<1>11. worker' = [worker EXCEPT !.wait = left] BY <1>9
<1> HIDE DEF left
<1>12. /\ worker' \in [at : {"idle", "posting", "backoff", "stopped"},
                       alert : Keys \cup {None}, attempt : Nat, backoff : Nat,
                       wait : Nat, rings : Nat]
       /\ worker'.at = worker.at /\ worker'.attempt = worker.attempt
       /\ worker'.backoff = worker.backoff /\ worker'.rings = worker.rings
       /\ worker'.wait = left
  BY <1>8, <1>10, <1>11
<1>13. TypeOK'
  <2>1. Len(entries') <= MaxEntries + 1 BY <1>1, <1>5 DEF TypeOK
  <2> QED BY <1>1, <1>4, <1>5, <1>6, <1>12, <2>1 DEF TypeOK, Entry
<1>14. AttemptsAreBounded'
  <2>1. worker.wait \in Nat /\ worker.backoff \in Nat BY <1>8
  <2>2. worker.wait <= worker.backoff => left <= worker.backoff BY <1>10, <2>1
  <2> QED BY <1>1, <1>12, <2>2 DEF AttemptsAreBounded, Busy
<1>15. Accounting'
  <2>1. InHand' = InHand BY <1>12 DEF InHand, Busy
  <2> QED BY <1>1, <1>4, <2>1 DEF Accounting
<1> QED BY <1>5, <1>7, <1>13, <1>14, <1>15 DEF IInv, TableInv

\* Every step of the sink keeps the invariant.
LEMMA NextKeeps == IInv /\ [Next]_vars => IInv'
<1> SUFFICES ASSUME IInv, [Next]_vars PROVE IInv' OBVIOUS
<1>1. CASE UNCHANGED vars
  <2>1. /\ entries' = entries /\ queue' = queue /\ worker' = worker
        /\ delivered' = delivered /\ failed' = failed /\ deduped' = deduped
        /\ sends' = sends /\ abandoned' = abandoned /\ since' = since
    BY <1>1 DEF vars
  <2>2. TypeOK' BY <2>1 DEF IInv, TypeOK
  <2>3. TableInv' BY <2>1, TableStays DEF IInv
  <2>4. Busy' = Busy BY <2>1 DEF Busy
  <2>5. AttemptsAreBounded' BY <2>1 DEF IInv, AttemptsAreBounded, Busy
  <2>6. Accounting' BY <2>1 DEF IInv, Accounting, InHand, Busy
  <2> QED BY <2>2, <2>3, <2>5, <2>6 DEF IInv
<1> QED BY <1>1, SendKeeps, TakeKeeps, PostKeeps, RetryKeeps, StopKeeps, TickKeeps DEF Next

-----------------------------------------------------------------------------
(* Theorems.                                                                *)

\* Whatever the sends, the answers and the time of stop(): the invariant holds.
THEOREM SinkInvariance == Spec => []IInv
<1> QED BY InitIInv, NextKeeps, PTL DEF Spec

\* Every variable keeps its type; the table never exceeds max_entries + 1 entries, nor
\* the queue its capacity (notify/protect.py, notify/dedupe.py).
THEOREM SinkTypes == Spec => []TypeOK
<1>1. IInv => TypeOK BY DEF IInv
<1> QED BY <1>1, SinkInvariance, PTL

\* No alert handed to send() is lost without being counted, unless the worker was
\* cancelled with it in hand.
THEOREM EveryAlertIsAccounted == Spec => []Accounting
<1>1. IInv => Accounting BY DEF IInv
<1> QED BY <1>1, SinkInvariance, PTL

\* _deliver_with_retries never posts, rings or waits more than retry_attempts allows.
THEOREM DeliveryIsBounded == Spec => []AttemptsAreBounded
<1>1. IInv => AttemptsAreBounded BY DEF IInv
<1> QED BY <1>1, SinkInvariance, PTL

\* The dedupe table stays in the order of the latest sends, each key in it once.
THEOREM TableStaysOrdered == Spec => []TableIsOrderedBySend
<1>1. IInv => TableIsOrderedBySend
  BY DEF IInv, TableInv, Ordered, TableIsOrderedBySend
<1> QED BY <1>1, SinkInvariance, PTL

\* seen() answers yes only for a key sent within the TTL.
THEOREM SuppressionsAreRecent == Spec => SuppressionIsRecent
<1>1. IInv /\ [Next]_vars
        => [deduped' # deduped =>
              \E k \in Keys : since[k] \in 0 .. Ttl /\ since' = [since EXCEPT ![k] = 0]]_vars
  <2> SUFFICES ASSUME IInv, Next, deduped' # deduped
               PROVE  \E k \in Keys : since[k] \in 0 .. Ttl /\ since' = [since EXCEPT ![k] = 0]
    OBVIOUS
  <2>1. PICK k \in Keys : Send(k)
    BY DEF Next, Take, PostSucceeds, PostFails, PostRaises, Retry, Stop, Tick
  <2>2. Holds(Evict(entries), k) /\ since' = [since EXCEPT ![k] = 0] BY <2>1 DEF Send
  <2>3. since[k] \in 0 .. Ttl BY <2>1, <2>2, SendTable DEF IInv
  <2> QED BY <2>2, <2>3
<1> QED BY <1>1, SinkInvariance, PTL DEF Spec, SuppressionIsRecent

\* And it answers no for one only if max_entries other keys were sent since.
THEOREM RepetitionsAreSuppressed == Spec => RepetitionIsSuppressed
<1>1. IInv /\ [Next]_vars
        => [\A k \in Keys : Send(k) /\ since[k] \in 0 .. Ttl =>
              deduped' = deduped + 1 \/ Cardinality(SentAfter(k)) >= MaxEntries]_vars
  <2> SUFFICES ASSUME IInv, NEW k \in Keys, Send(k), since[k] \in 0 .. Ttl
               PROVE  deduped' = deduped + 1 \/ Cardinality(SentAfter(k)) >= MaxEntries
    OBVIOUS
  <2>1. CASE Holds(Evict(entries), k) BY <2>1 DEF Send
  <2>2. CASE ~Holds(Evict(entries), k) BY <2>2, SendTable DEF IInv
  <2> QED BY <2>1, <2>2
<1> QED BY <1>1, SinkInvariance, PTL DEF Spec, RepetitionIsSuppressed
=============================================================================
