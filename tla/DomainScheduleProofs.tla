------------------------ MODULE DomainScheduleProofs ------------------------
(***************************************************************************)
(* Proofs about DomainSchedule, for any finite sets of targets and         *)
(* subscriptions, any batch and any number of failures.  Its liveness      *)
(* properties are TLC's; what they rest on is here: a row that waits keeps *)
(* its place, and as long as fewer rows than a batch never move, each list *)
(* holds somebody who can be served and waits no less long.                *)
(***************************************************************************)
EXTENDS DomainSchedule, SequenceTheorems, FiniteSetTheorems, WellFoundedInduction,
        NaturalsInduction, TLAPS

-----------------------------------------------------------------------------
(* Queues as sequences.                                                    *)

\* u is at t's place in the queue or before it.
UpTo(seq, u, t) == \E i, j \in DOMAIN seq : i <= j /\ seq[i] = u /\ seq[j] = t

\* A set of naturals has a least element.
LEMMA Least ==
  ASSUME NEW S \in SUBSET Nat, S # {}
  PROVE  \E x \in S : \A y \in S : x <= y
<1>1. PICK x \in S : \A y \in S : ~(<<y, x>> \in OpToRel(<, Nat))
  BY NatLessThanWellFounded, WFMin
<1>2. \A y \in S : ~(y < x)
  BY <1>1 DEF OpToRel
<1>3. \A y \in S : x <= y
  BY <1>2
<1> QED BY <1>3

\* Without the element at k, the others move up.
LEMMA RemoveAtIs ==
  ASSUME NEW S, NEW seq \in Seq(S), NEW k \in 1 .. Len(seq)
  PROVE  /\ RemoveAt(seq, k) \in Seq(S)
         /\ Len(RemoveAt(seq, k)) = Len(seq) - 1
         /\ \A i \in 1 .. Len(seq) - 1 :
              RemoveAt(seq, k)[i] = IF i < k THEN seq[i] ELSE seq[i + 1]
<1> DEFINE a == SubSeq(seq, 1, k - 1)
           b == SubSeq(seq, k + 1, Len(seq))
<1>1. Len(seq) \in Nat /\ \A i \in 1 .. Len(seq) : seq[i] \in S
  BY ElementOfSeq, LenProperties
<1>2. /\ a \in Seq(S) /\ Len(a) = k - 1
      /\ \A i \in 1 .. k - 1 : a[i] = seq[i]
  <2>1. \A i \in 1 .. k - 1 : seq[i] \in S
    BY <1>1
  <2>2. /\ a \in Seq(S) /\ Len(a) = IF 1 <= k - 1 THEN (k - 1) - 1 + 1 ELSE 0
        /\ \A i \in 1 .. (k - 1) - 1 + 1 : a[i] = seq[1 + i - 1]
    BY <2>1, <1>1, SubSeqProperties
  <2> QED BY <2>2, <1>1
<1>3. /\ b \in Seq(S) /\ Len(b) = Len(seq) - k
      /\ \A i \in 1 .. Len(seq) - k : b[i] = seq[k + i]
  <2>1. \A i \in k + 1 .. Len(seq) : seq[i] \in S
    BY <1>1
  <2>2. /\ b \in Seq(S)
        /\ Len(b) = IF k + 1 <= Len(seq) THEN Len(seq) - (k + 1) + 1 ELSE 0
        /\ \A i \in 1 .. Len(seq) - (k + 1) + 1 : b[i] = seq[(k + 1) + i - 1]
    BY <2>1, <1>1, SubSeqProperties
  <2> QED BY <2>2, <1>1
<1>4. /\ a \o b \in Seq(S) /\ Len(a \o b) = Len(a) + Len(b)
      /\ \A i \in 1 .. Len(a) + Len(b) :
           (a \o b)[i] = IF i <= Len(a) THEN a[i] ELSE b[i - Len(a)]
  BY <1>2, <1>3, ConcatProperties
<1>5. RemoveAt(seq, k) = a \o b
  BY DEF RemoveAt
<1> HIDE DEF a, b
<1>6. ASSUME NEW i \in 1 .. Len(seq) - 1
      PROVE  (a \o b)[i] = IF i < k THEN seq[i] ELSE seq[i + 1]
  <2>1. CASE i < k
    BY <2>1, <1>1, <1>2, <1>3, <1>4
  <2>2. CASE ~(i < k)
    <3>1. i - (k - 1) \in 1 .. Len(seq) - k /\ k + (i - (k - 1)) = i + 1
      BY <2>2, <1>1
    <3>2. (a \o b)[i] = b[i - (k - 1)]
      BY <2>2, <1>1, <1>2, <1>3, <1>4
    <3>3. b[i - (k - 1)] = seq[i + 1]
      BY <3>1, <1>3
    <3> QED BY <2>2, <3>2, <3>3
  <2> QED BY <2>1, <2>2
<1>7. Len(a \o b) = Len(seq) - 1
  BY <1>1, <1>2, <1>3, <1>4
<1> QED BY <1>4, <1>5, <1>6, <1>7

\* With an element put in at k, those behind it move back.
LEMMA InsertAtIs ==
  ASSUME NEW S, NEW seq \in Seq(S), NEW k \in 1 .. Len(seq) + 1, NEW e \in S
  PROVE  /\ InsertAt(seq, k, e) \in Seq(S)
         /\ Len(InsertAt(seq, k, e)) = Len(seq) + 1
         /\ \A i \in 1 .. Len(seq) + 1 :
              InsertAt(seq, k, e)[i] =
                IF i < k THEN seq[i] ELSE IF i = k THEN e ELSE seq[i - 1]
<1> DEFINE a == SubSeq(seq, 1, k - 1)
           b == SubSeq(seq, k, Len(seq))
           c == a \o <<e>>
<1>1. Len(seq) \in Nat /\ \A i \in 1 .. Len(seq) : seq[i] \in S
  BY ElementOfSeq, LenProperties
<1>2. /\ a \in Seq(S) /\ Len(a) = k - 1
      /\ \A i \in 1 .. k - 1 : a[i] = seq[i]
  <2>1. \A i \in 1 .. k - 1 : seq[i] \in S
    BY <1>1
  <2>2. /\ a \in Seq(S) /\ Len(a) = IF 1 <= k - 1 THEN (k - 1) - 1 + 1 ELSE 0
        /\ \A i \in 1 .. (k - 1) - 1 + 1 : a[i] = seq[1 + i - 1]
    BY <2>1, <1>1, SubSeqProperties
  <2> QED BY <2>2, <1>1
<1>3. /\ b \in Seq(S) /\ Len(b) = Len(seq) - k + 1
      /\ \A i \in 1 .. Len(seq) - k + 1 : b[i] = seq[k + i - 1]
  <2>1. \A i \in k .. Len(seq) : seq[i] \in S
    BY <1>1
  <2>2. /\ b \in Seq(S)
        /\ Len(b) = IF k <= Len(seq) THEN Len(seq) - k + 1 ELSE 0
        /\ \A i \in 1 .. Len(seq) - k + 1 : b[i] = seq[k + i - 1]
    BY <2>1, <1>1, SubSeqProperties
  <2> QED BY <2>2, <1>1
<1>4. /\ <<e>> \in Seq(S) /\ Len(<<e>>) = 1 /\ <<e>>[1] = e
  OBVIOUS
<1>5. /\ c \in Seq(S) /\ Len(c) = k
      /\ \A i \in 1 .. k - 1 : c[i] = seq[i]
      /\ c[k] = e
  <2>1. /\ c \in Seq(S) /\ Len(c) = Len(a) + Len(<<e>>)
        /\ \A i \in 1 .. Len(a) + Len(<<e>>) :
             c[i] = IF i <= Len(a) THEN a[i] ELSE <<e>>[i - Len(a)]
    BY <1>2, <1>4, ConcatProperties
  <2> HIDE DEF a, b, c
  <2> QED BY <2>1, <1>1, <1>2, <1>4
<1> HIDE DEF c
<1>6. /\ c \o b \in Seq(S) /\ Len(c \o b) = Len(c) + Len(b)
      /\ \A i \in 1 .. Len(c) + Len(b) :
           (c \o b)[i] = IF i <= Len(c) THEN c[i] ELSE b[i - Len(c)]
  BY <1>3, <1>5, ConcatProperties
<1>7. InsertAt(seq, k, e) = c \o b
  BY DEF InsertAt, c
<1> HIDE DEF a, b
<1>8. ASSUME NEW i \in 1 .. Len(seq) + 1
      PROVE  (c \o b)[i] = IF i < k THEN seq[i] ELSE IF i = k THEN e ELSE seq[i - 1]
  <2>1. CASE i <= k
    BY <2>1, <1>1, <1>3, <1>5, <1>6
  <2>2. CASE ~(i <= k)
    <3>1. i - k \in 1 .. Len(seq) - k + 1 /\ k + (i - k) - 1 = i - 1
      BY <2>2, <1>1
    <3>2. (c \o b)[i] = b[i - k]
      BY <2>2, <1>1, <1>3, <1>5, <1>6
    <3>3. b[i - k] = seq[i - 1]
      BY <3>1, <1>3
    <3> QED BY <2>2, <3>2, <3>3
  <2> QED BY <2>1, <2>2
<1>9. Len(c \o b) = Len(seq) + 1
  BY <1>1, <1>3, <1>5, <1>6
<1> QED BY <1>6, <1>7, <1>8, <1>9

\* A removal overtakes nobody.
LEMMA RemoveAtKeepsOrder ==
  ASSUME NEW S, NEW seq \in Seq(S), NEW k \in 1 .. Len(seq), NEW u, NEW t,
         UpTo(RemoveAt(seq, k), u, t)
  PROVE  UpTo(seq, u, t)
<1> DEFINE rest == RemoveAt(seq, k)
<1>1. /\ rest \in Seq(S) /\ Len(rest) = Len(seq) - 1 /\ Len(seq) \in Nat
      /\ \A i \in 1 .. Len(seq) - 1 : rest[i] = IF i < k THEN seq[i] ELSE seq[i + 1]
  BY RemoveAtIs, LenProperties
<1> HIDE DEF rest
<1>2. PICK i, j \in 1 .. Len(seq) - 1 : i <= j /\ rest[i] = u /\ rest[j] = t
  BY <1>1, LenProperties DEF UpTo, rest
<1> DEFINE up(n) == IF n < k THEN n ELSE n + 1
<1>3. /\ up(i) \in 1 .. Len(seq) /\ up(j) \in 1 .. Len(seq) /\ up(i) <= up(j)
      /\ seq[up(i)] = u /\ seq[up(j)] = t
  BY <1>1, <1>2
<1> HIDE DEF up
<1> QED BY <1>3, LenProperties DEF UpTo

\* What is left of a queue without duplicates after a removal.
LEMMA RemoveFirstIs ==
  ASSUME NEW S, NEW seq \in Seq(S), IsInjective(seq), NEW e
  PROVE  /\ RemoveFirst(seq, e) \in Seq(S \ {e})
         /\ IsInjective(RemoveFirst(seq, e))
         /\ Range(RemoveFirst(seq, e)) = Range(seq) \ {e}
         /\ \A u, t : UpTo(RemoveFirst(seq, e), u, t) => UpTo(seq, u, t)
<1> DEFINE rest == RemoveFirst(seq, e)
<1>1. /\ Len(seq) \in Nat /\ DOMAIN seq = 1 .. Len(seq)
      /\ \A i \in 1 .. Len(seq) : seq[i] \in S
  BY LenProperties, ElementOfSeq
<1>2. CASE \E i \in 1 .. Len(seq) : seq[i] = e
  <2> DEFINE I == {i \in 1 .. Len(seq) : seq[i] = e}
             k == Min(I)
  <2>1. PICK n \in 1 .. Len(seq) : seq[n] = e
    BY <1>2
  <2>2. I = {n}
    BY <2>1, <1>1 DEF IsInjective
  <2>3. k = n
    BY <2>2, <1>1 DEF Min
  <2>4. rest = RemoveAt(seq, n)
    BY <1>2, <2>2, <2>3 DEF RemoveFirst, SelectInSeq
  <2> HIDE DEF I, k, rest
  <2>5. /\ rest \in Seq(S) /\ Len(rest) = Len(seq) - 1
        /\ \A i \in 1 .. Len(seq) - 1 : rest[i] = IF i < n THEN seq[i] ELSE seq[i + 1]
    BY <2>4, RemoveAtIs
  <2>6. DOMAIN rest = 1 .. Len(seq) - 1
    BY <2>5, LenProperties
  <2>7. \A i \in 1 .. Len(seq) - 1 : rest[i] \in S \ {e}
    BY <2>1, <2>5, <1>1 DEF IsInjective
  <2>8. rest \in Seq(S \ {e})
    BY <2>5, <2>6, <2>7, <1>1
  <2>9. IsInjective(rest)
    BY <2>5, <2>6, <1>1 DEF IsInjective
  <2>10. Range(rest) = Range(seq) \ {e}
    <3>1. ASSUME NEW x \in Range(rest) PROVE x \in Range(seq) \ {e}
      BY <2>5, <2>6, <2>7, <1>1 DEF Range
    <3>2. ASSUME NEW x \in Range(seq) \ {e} PROVE x \in Range(rest)
      <4>1. PICK i \in 1 .. Len(seq) : seq[i] = x /\ i /= n
        BY <1>1, <2>1 DEF Range
      <4>2. CASE i < n
        BY <4>1, <4>2, <2>5, <2>6, <1>1 DEF Range
      <4>3. CASE i > n
        <5>1. i - 1 \in 1 .. Len(seq) - 1 /\ rest[i - 1] = x
          BY <4>1, <4>3, <2>5, <1>1
        <5> QED BY <5>1, <2>6 DEF Range
      <4> QED BY <4>1, <4>2, <4>3, <1>1
    <3> QED BY <3>1, <3>2
  <2>11. \A u, t : UpTo(rest, u, t) => UpTo(seq, u, t)
    BY <2>4, RemoveAtKeepsOrder
  <2> QED BY <2>8, <2>9, <2>10, <2>11 DEF rest
<1>3. CASE ~ \E i \in 1 .. Len(seq) : seq[i] = e
  <2>1. rest = seq
    BY <1>3 DEF RemoveFirst
  <2>2. seq \in Seq(S \ {e})
    BY <1>1, <1>3
  <2>3. e \notin Range(seq)
    BY <1>1, <1>3 DEF Range
  <2> QED BY <2>1, <2>2, <2>3
<1> QED BY <1>2, <1>3

\* Who joins at the end is behind everybody.
LEMMA AppendIs ==
  ASSUME NEW S, NEW seq \in Seq(S), IsInjective(seq), NEW e \in S, e \notin Range(seq)
  PROVE  /\ Append(seq, e) \in Seq(S)
         /\ IsInjective(Append(seq, e))
         /\ \A u : \A t \in Range(seq) : UpTo(Append(seq, e), u, t) => UpTo(seq, u, t)
<1> DEFINE more == Append(seq, e)
<1>1. /\ Len(seq) \in Nat /\ DOMAIN seq = 1 .. Len(seq)
      /\ \A i \in 1 .. Len(seq) : seq[i] \in S /\ seq[i] /= e
  BY LenProperties, ElementOfSeq DEF Range
<1>2. /\ more \in Seq(S) /\ Len(more) = Len(seq) + 1
      /\ \A i \in 1 .. Len(seq) : more[i] = seq[i]
      /\ more[Len(seq) + 1] = e
  BY AppendProperties
<1> HIDE DEF more
<1>3. DOMAIN more = 1 .. Len(seq) + 1
  BY <1>2, LenProperties
<1>4. IsInjective(more)
  BY <1>1, <1>2, <1>3 DEF IsInjective
<1>5. ASSUME NEW u, NEW t \in Range(seq), UpTo(more, u, t) PROVE UpTo(seq, u, t)
  <2>1. PICK i, j \in 1 .. Len(seq) + 1 : i <= j /\ more[i] = u /\ more[j] = t
    BY <1>3, <1>5 DEF UpTo
  <2>2. t /= e
    BY <1>1 DEF Range
  <2>3. j \in 1 .. Len(seq) /\ i \in 1 .. Len(seq)
    BY <2>1, <2>2, <1>1, <1>2
  <2> QED BY <2>1, <2>3, <1>1, <1>2 DEF UpTo
<1> QED BY <1>2, <1>4, <1>5 DEF more

\* Who is put in overtakes those behind, and lets nobody else overtake.
LEMMA InsertIs ==
  ASSUME NEW S, NEW seq \in Seq(S), IsInjective(seq), NEW e \in S, e \notin Range(seq),
         NEW k \in 1 .. Len(seq) + 1
  PROVE  /\ InsertAt(seq, k, e) \in Seq(S)
         /\ IsInjective(InsertAt(seq, k, e))
         /\ \A u : \A t \in Range(seq) :
              UpTo(InsertAt(seq, k, e), u, t) => u = e \/ UpTo(seq, u, t)
<1> DEFINE more == InsertAt(seq, k, e)
<1>1. /\ Len(seq) \in Nat /\ DOMAIN seq = 1 .. Len(seq)
      /\ \A i \in 1 .. Len(seq) : seq[i] \in S /\ seq[i] /= e
  BY LenProperties, ElementOfSeq DEF Range
<1>2. /\ more \in Seq(S) /\ Len(more) = Len(seq) + 1
      /\ \A i \in 1 .. Len(seq) + 1 :
           more[i] = IF i < k THEN seq[i] ELSE IF i = k THEN e ELSE seq[i - 1]
  BY InsertAtIs
<1> HIDE DEF more
<1>3. DOMAIN more = 1 .. Len(seq) + 1
  BY <1>2, LenProperties
<1> DEFINE down(n) == IF n < k THEN n ELSE n - 1
<1>4. \A i \in 1 .. Len(seq) + 1 :
        i /= k => down(i) \in 1 .. Len(seq) /\ more[i] = seq[down(i)]
  BY <1>1, <1>2
<1>5. \A i, j \in 1 .. Len(seq) + 1 :
        i /= k /\ j /= k => (i <= j <=> down(i) <= down(j)) /\ (down(i) = down(j) => i = j)
  BY <1>1
<1>6. more[k] = e
  BY <1>1, <1>2
<1> HIDE DEF down
<1>7. IsInjective(more)
  <2> SUFFICES ASSUME NEW i \in 1 .. Len(seq) + 1, NEW j \in 1 .. Len(seq) + 1,
                      more[i] = more[j]
               PROVE  i = j
    BY <1>3 DEF IsInjective
  <2>1. CASE i = k \/ j = k
    BY <2>1, <1>1, <1>4, <1>6
  <2>2. CASE i /= k /\ j /= k
    BY <2>2, <1>1, <1>4, <1>5 DEF IsInjective
  <2> QED BY <2>1, <2>2
<1>8. ASSUME NEW u, NEW t \in Range(seq), UpTo(more, u, t), u /= e PROVE UpTo(seq, u, t)
  <2>1. PICK i, j \in 1 .. Len(seq) + 1 : i <= j /\ more[i] = u /\ more[j] = t
    BY <1>3, <1>8 DEF UpTo
  <2>2. t /= e
    BY <1>1 DEF Range
  <2>3. i /= k /\ j /= k
    BY <2>1, <2>2, <1>6, <1>8
  <2>4. /\ down(i) \in 1 .. Len(seq) /\ down(j) \in 1 .. Len(seq) /\ down(i) <= down(j)
        /\ seq[down(i)] = u /\ seq[down(j)] = t
    BY <2>1, <2>3, <1>4, <1>5
  <2> QED BY <2>4, <1>1 DEF UpTo
<1> QED BY <1>2, <1>7, <1>8 DEF more

-----------------------------------------------------------------------------
(* The rows of monitored_domains.                                          *)

Administered == {t \in Targets : notes[t] = "administrator"}

RowsOK ==
  /\ enabled \subseteq Targets
  /\ notes \in [Targets -> Owners]
  /\ lapsed \in Seq(Administered)
  /\ IsInjective(lapsed)

\* The part of KeepsPlaces that is about them.
RowsKeepPlaces ==
  \A t \in Range(lapsed) \intersect Range(lapsed') : \A u :
    UpTo(lapsed', u, t) => UpTo(lapsed, u, t) \/ notes[u] = "subscription"

\* A scan is queued: its row leaves the queue.
LEMMA RowMarked ==
  ASSUME RowsOK, NEW t, UNCHANGED <<enabled, notes>>, lapsed' = RemoveFirst(lapsed, t)
  PROVE  RowsOK' /\ RowsKeepPlaces
<1>1. /\ lapsed' \in Seq(Administered \ {t}) /\ IsInjective(lapsed')
      /\ \A u, v : UpTo(lapsed', u, v) => UpTo(lapsed, u, v)
  BY RemoveFirstIs DEF RowsOK
<1>2. Administered' = Administered
  BY DEF Administered
<1>3. lapsed' \in Seq(Administered')
  BY <1>1, <1>2, SeqMonotonic
<1> QED BY <1>1, <1>3 DEF RowsOK, RowsKeepPlaces

\* A subscription takes the row over: it leaves the administrator's queue.
LEMMA RowTakenOver ==
  ASSUME RowsOK, NEW s \in Subs, TakeOver(s)
  PROVE  RowsOK' /\ RowsKeepPlaces
<1> DEFINE t == TargetOf[s]
<1>1. t \in Targets
  BY DomainScheduleAssumption
<1>2. /\ enabled' = enabled \union {t} /\ notes' = [notes EXCEPT ![t] = "subscription"]
      /\ lapsed' = RemoveFirst(lapsed, t)
  BY DEF TakeOver, UpsertDomain
<1> HIDE DEF t
<1>3. /\ lapsed' \in Seq(Administered \ {t}) /\ IsInjective(lapsed')
      /\ \A u, v : UpTo(lapsed', u, v) => UpTo(lapsed, u, v)
  BY <1>2, RemoveFirstIs DEF RowsOK
<1>4. Administered \ {t} \subseteq Administered'
  BY <1>1, <1>2 DEF RowsOK, Administered
<1>5. lapsed' \in Seq(Administered')
  BY <1>3, <1>4, SeqMonotonic
<1>6. enabled' \subseteq Targets /\ notes' \in [Targets -> Owners]
  BY <1>1, <1>2 DEF RowsOK, Owners
<1> QED BY <1>3, <1>5, <1>6 DEF RowsOK, RowsKeepPlaces

\* next_scan_at passes.
LEMMA RowFallsDue ==
  ASSUME RowsOK, NEW t \in Targets, ScanFallsDue(t)
  PROVE  RowsOK' /\ RowsKeepPlaces
<1>1. t \in Administered /\ lapsed' = Append(lapsed, t) /\ UNCHANGED <<enabled, notes>>
  BY DEF ScanFallsDue, Administered
<1>2. t \notin Range(lapsed)
  BY LenProperties DEF ScanFallsDue, Contains, Range, RowsOK
<1>3. /\ lapsed' \in Seq(Administered) /\ IsInjective(lapsed')
      /\ \A u : \A v \in Range(lapsed) : UpTo(lapsed', u, v) => UpTo(lapsed, u, v)
  BY <1>1, <1>2, AppendIs DEF RowsOK
<1>4. Administered' = Administered
  BY <1>1 DEF Administered
<1> QED BY <1>1, <1>3, <1>4 DEF RowsOK, RowsKeepPlaces

\* The administrator's request: only a row taken back can come in anywhere.
LEMMA RowSaved ==
  ASSUME RowsOK, NEW t \in Targets, AdministratorSaves(t)
  PROVE  RowsOK' /\ RowsKeepPlaces
<1>1. /\ enabled' = enabled \union {t} /\ notes' = [notes EXCEPT ![t] = "administrator"]
  BY DEF AdministratorSaves, UpsertDomain
<1>2. enabled' \subseteq Targets /\ notes' \in [Targets -> Owners]
  BY <1>1 DEF RowsOK, Owners
<1>3. t \in Administered' /\ Administered \subseteq Administered'
  BY <1>1 DEF RowsOK, Administered
<1>4. lapsed \in Seq(Administered') /\ IsInjective(lapsed)
  BY <1>3, SeqMonotonic DEF RowsOK
<1>5. ASSUME notes[t] /= "administrator" PROVE t \notin Range(lapsed)
  BY <1>5, RangeOfSeq DEF RowsOK, Administered
<1>6. CASE UNCHANGED lapsed
  BY <1>2, <1>4, <1>6 DEF RowsOK, RowsKeepPlaces
<1>7. CASE notes[t] = "none" /\ lapsed' = Append(lapsed, t)
  <2>1. /\ lapsed' \in Seq(Administered') /\ IsInjective(lapsed')
        /\ \A u : \A v \in Range(lapsed) : UpTo(lapsed', u, v) => UpTo(lapsed, u, v)
    BY <1>3, <1>4, <1>5, <1>7, AppendIs
  <2> QED BY <1>2, <2>1 DEF RowsOK, RowsKeepPlaces
<1>8. CASE /\ notes[t] = "subscription"
           /\ \E i \in 1 .. Len(lapsed) + 1 : lapsed' = InsertAt(lapsed, i, t)
  <2>1. PICK i \in 1 .. Len(lapsed) + 1 : lapsed' = InsertAt(lapsed, i, t)
    BY <1>8
  <2>2. /\ lapsed' \in Seq(Administered') /\ IsInjective(lapsed')
        /\ \A u : \A v \in Range(lapsed) :
             UpTo(lapsed', u, v) => u = t \/ UpTo(lapsed, u, v)
    BY <1>3, <1>4, <1>5, <1>8, <2>1, InsertIs
  <2> QED BY <1>2, <1>8, <2>2 DEF RowsOK, RowsKeepPlaces
<1>9. notes[t] \in {"none", "administrator", "subscription"}
  BY DEF RowsOK, Owners
<1> QED BY <1>6, <1>7, <1>8, <1>9 DEF AdministratorSaves

\* A row may be switched off and on again: it keeps its place.
LEMMA RowsStay ==
  ASSUME RowsOK, UNCHANGED <<notes, lapsed>>, enabled' \subseteq Targets
  PROVE  RowsOK' /\ RowsKeepPlaces
<1>1. Administered' = Administered
  BY DEF Administered
<1> QED BY <1>1 DEF RowsOK, RowsKeepPlaces

-----------------------------------------------------------------------------
(* The subscriptions that are due.                                         *)

LateOK ==
  /\ late \in Seq((SUBSET Subs) \ {{}})
  /\ \A i, j \in DOMAIN late : i /= j => late[i] \intersect late[j] = {}

\* m has waited as long as s, or longer.
NoLater(seq, m, s) == \E i, j \in DOMAIN seq : i <= j /\ m \in seq[i] /\ s \in seq[j]

\* The part of KeepsPlaces that is about them.
LateKeepPlaces ==
  \A s \in Late \intersect Late' : \A m : NoLater(late', m, s) => NoLater(late, m, s)

\* A week begins: who comes due now is behind everybody.
LEMMA WeekBegins ==
  ASSUME LateOK, NewWeek
  PROVE  LateOK' /\ LateKeepPlaces
<1> DEFINE new == Subs \ Late
<1>1. late' = Append(late, new) /\ new \in (SUBSET Subs) \ {{}}
  BY DEF NewWeek
<1>2. /\ Len(late) \in Nat /\ DOMAIN late = 1 .. Len(late)
      /\ \A i \in 1 .. Len(late) : late[i] \intersect new = {}
  BY LenProperties DEF LateOK, Late
<1> HIDE DEF new
<1>3. /\ late' \in Seq((SUBSET Subs) \ {{}}) /\ Len(late') = Len(late) + 1
      /\ \A i \in 1 .. Len(late) : late'[i] = late[i]
      /\ late'[Len(late) + 1] = new
  BY <1>1, AppendProperties DEF LateOK
<1>4. DOMAIN late' = 1 .. Len(late) + 1
  BY <1>3, LenProperties
<1>5. LateOK'
  BY <1>2, <1>3, <1>4 DEF LateOK
<1>6. ASSUME NEW s \in Late, NEW m, NoLater(late', m, s) PROVE NoLater(late, m, s)
  <2>1. PICK i, j \in 1 .. Len(late) + 1 : i <= j /\ m \in late'[i] /\ s \in late'[j]
    BY <1>4, <1>6 DEF NoLater
  <2>2. s \notin new
    BY <1>2 DEF Late
  <2>3. i \in 1 .. Len(late) /\ j \in 1 .. Len(late)
    BY <2>1, <2>2, <1>2, <1>3
  <2> QED BY <2>1, <2>3, <1>2, <1>3 DEF NoLater
<1> QED BY <1>5, <1>6 DEF LateKeepPlaces

\* A report was mailed: its subscription leaves its week, and a week that nobody
\* waits for leaves the queue.
LEMMA ReportMarked ==
  ASSUME LateOK, NEW s \in Subs, MarkSent(s)
  PROVE  LateOK' /\ LateKeepPlaces
<1>1. /\ Len(late) \in Nat /\ DOMAIN late = 1 .. Len(late)
      /\ \A i \in 1 .. Len(late) : late[i] \in (SUBSET Subs) \ {{}}
  BY LenProperties, ElementOfSeq DEF LateOK
<1>2. CASE s \notin Late
  BY <1>2 DEF MarkSent, LateOK, LateKeepPlaces
<1>3. CASE s \in Late
  <2> DEFINE w == Week(s)
  <2>1. w \in 1 .. Len(late) /\ s \in late[w]
    BY <1>1, <1>3 DEF Week, Late
  <2>2. CASE late[w] = {s}
    <3>1. late' = RemoveAt(late, w)
      BY <1>3, <2>2 DEF MarkSent
    <3> HIDE DEF w
    <3>2. /\ late' \in Seq((SUBSET Subs) \ {{}}) /\ Len(late') = Len(late) - 1
          /\ \A i \in 1 .. Len(late) - 1 :
               late'[i] = IF i < w THEN late[i] ELSE late[i + 1]
      BY <3>1, <2>1, RemoveAtIs DEF LateOK
    <3>3. DOMAIN late' = 1 .. Len(late) - 1
      BY <3>2, LenProperties
    <3> DEFINE up(n) == IF n < w THEN n ELSE n + 1
    <3>4. \A i \in 1 .. Len(late) - 1 : up(i) \in 1 .. Len(late) /\ late'[i] = late[up(i)]
      BY <3>2, <2>1, <1>1
    <3>5. \A i, j \in 1 .. Len(late) - 1 :
            (i <= j => up(i) <= up(j)) /\ (i /= j => up(i) /= up(j))
      BY <2>1, <1>1
    <3> HIDE DEF up
    <3>6. LateOK'
      BY <3>2, <3>3, <3>4, <3>5, <1>1 DEF LateOK
    <3>7. ASSUME NEW v, NEW m, NoLater(late', m, v) PROVE NoLater(late, m, v)
      BY <3>3, <3>4, <3>5, <3>7, <1>1 DEF NoLater
    <3> QED BY <3>6, <3>7 DEF LateKeepPlaces
  <2>3. CASE late[w] /= {s}
    <3>1. late' = [late EXCEPT ![w] = @ \ {s}]
      BY <1>3, <2>3 DEF MarkSent
    <3> HIDE DEF w
    <3>2. late[w] \ {s} \in (SUBSET Subs) \ {{}}
      BY <1>1, <2>1, <2>3
    <3>3. /\ late' \in Seq((SUBSET Subs) \ {{}}) /\ Len(late') = Len(late)
          /\ \A i \in 1 .. Len(late) : late'[i] = IF i = w THEN late[w] \ {s} ELSE late[i]
      BY <3>1, <3>2, <2>1, ExceptSeq DEF LateOK
    <3>4. DOMAIN late' = 1 .. Len(late)
      BY <3>3, LenProperties
    <3>5. \A i \in 1 .. Len(late) : late'[i] \subseteq late[i]
      BY <3>3
    <3>6. LateOK'
      BY <3>3, <3>4, <3>5, <1>1 DEF LateOK
    <3>7. ASSUME NEW v, NEW m, NoLater(late', m, v) PROVE NoLater(late, m, v)
      BY <3>4, <3>5, <3>7, <1>1 DEF NoLater
    <3> QED BY <3>6, <3>7 DEF LateKeepPlaces
  <2> QED BY <2>2, <2>3
<1> QED BY <1>2, <1>3

-----------------------------------------------------------------------------
(* The lists that a tick reads.                                            *)

Shortest(due, limit) == IF Cardinality(due) < limit THEN Cardinality(due) ELSE limit

\* Those who are not in the list have not waited longer than those who are.
Ordered(seq, n, due, place) ==
  \A i \in 1 .. n, x \in due : place[x] < place[seq[i]] => \E j \in 1 .. (i - 1) : seq[j] = x

LEMMA ListShape ==
  ASSUME NEW due, IsFiniteSet(due), NEW place, NEW limit \in Nat,
         NEW seq \in Lists(due, place, limit)
  PROVE  LET n == Shortest(due, limit)
         IN  /\ n \in Nat /\ n <= limit
             /\ seq \in [1 .. n -> due] /\ seq \in Seq(due) /\ Len(seq) = n
             /\ IsInjective(seq) /\ Ordered(seq, n, due, place)
<1> DEFINE n == Shortest(due, limit)
<1>1. n \in Nat /\ n <= limit
  BY FS_CardinalityType DEF Shortest
<1>2. seq \in [1 .. n -> due] /\ IsInjective(seq) /\ Ordered(seq, n, due, place)
  BY DEF Lists, Shortest, Ordered
<1> HIDE DEF n
<1>3. seq \in Seq(due) /\ Len(seq) = n
  BY <1>1, <1>2
<1> QED BY <1>1, <1>2, <1>3 DEF n

\* When fewer than a batch are no good, the list has a good one who has waited as
\* long as any other good one.
LEMMA ListReaches ==
  ASSUME NEW due, IsFiniteSet(due), NEW place \in [due -> Nat], NEW limit \in Nat,
         NEW seq \in Lists(due, place, limit),
         NEW bad, IsFiniteSet(bad), Cardinality(bad) < limit, NEW t \in due \ bad
  PROVE  \E u \in Range(seq) \ bad : u \in due /\ place[u] <= place[t]
<1> DEFINE n == Shortest(due, limit)
<1>1. /\ n \in Nat /\ seq \in [1 .. n -> due] /\ DOMAIN seq = 1 .. n
      /\ IsInjective(seq) /\ Ordered(seq, n, due, place)
  BY ListShape
<1>2. IsFiniteSet(1 .. n) /\ Cardinality(1 .. n) = n
  BY <1>1, FS_Interval
<1>3. CASE t \in Range(seq)
  BY <1>3
<1>4. CASE t \notin Range(seq)
  <2>1. \A i \in 1 .. n : place[seq[i]] <= place[t]
    <3> SUFFICES ASSUME NEW i \in 1 .. n PROVE place[seq[i]] <= place[t]
      OBVIOUS
    <3>1. ~ (place[t] < place[seq[i]])
      BY <1>1, <1>4 DEF Ordered, Range
    <3>2. place[t] \in Nat /\ place[seq[i]] \in Nat
      BY <1>1
    <3> QED BY <3>1, <3>2
  <2>2. n = limit
    <3> SUFFICES ASSUME n = Cardinality(due) PROVE FALSE
      BY DEF Shortest
    <3>1. seq \in Injection(1 .. n, due)
      BY <1>1 DEF Injection
    <3>2. seq \in Surjection(1 .. n, due)
      BY <1>2, <3>1, FS_Injection
    <3> QED BY <1>1, <1>4, <3>2 DEF Surjection, Range
  <2>3. \E i \in 1 .. n : seq[i] \notin bad
    <3> SUFFICES ASSUME \A i \in 1 .. n : seq[i] \in bad PROVE FALSE
      OBVIOUS
    <3>1. seq \in [1 .. n -> bad]
      BY <1>1
    <3>2. PICK x, y \in 1 .. n : x # y /\ seq[x] = seq[y]
      BY <1>2, <2>2, <3>1, FS_PigeonHole
    <3> QED BY <1>1, <3>2 DEF IsInjective
  <2> QED BY <1>1, <2>1, <2>3 DEF Range
<1> QED BY <1>3, <1>4

\* There is a list, whoever is due.
LEMMA ListExists ==
  ASSUME NEW due, IsFiniteSet(due), NEW place \in [due -> Nat], NEW limit \in Nat
  PROVE  \E seq : seq \in Lists(due, place, limit)
<1> DEFINE N == Shortest(due, limit)
           Good(seq, n) == seq \in [1 .. n -> due] /\ IsInjective(seq)
                             /\ Ordered(seq, n, due, place)
           Missing == {n \in Nat : n <= N /\ ~ \E seq : Good(seq, n)}
<1>1. N \in Nat /\ N <= Cardinality(due) /\ Cardinality(due) \in Nat
  BY FS_CardinalityType DEF Shortest
<1> HIDE DEF N
<1>2. Missing = {}
  <2> SUFFICES ASSUME Missing /= {} PROVE FALSE
    OBVIOUS
  <2>1. PICK n \in Missing : \A k \in Missing : n <= k
    BY Least
  <2>2. n /= 0
    <3>1. Good(<<>>, 0)
      BY DEF IsInjective, Ordered
    <3> QED BY <2>1, <3>1
  <2>3. n \in Nat /\ n - 1 \in Nat /\ n <= N
    BY <2>1, <2>2
  <2>4. PICK seq : Good(seq, n - 1)
    BY <2>1, <2>3, <1>1
  <2> HIDE DEF Missing
  <2> DEFINE rest == due \ Range(seq)
  <2>5. rest /= {}
    <3> SUFFICES ASSUME due \subseteq Range(seq) PROVE FALSE
      OBVIOUS
    <3>1. seq \in Surjection(1 .. n - 1, due)
      BY <2>4 DEF Surjection, Range
    <3>2. IsFiniteSet(1 .. n - 1) /\ Cardinality(1 .. n - 1) = n - 1
      BY <2>3, FS_Interval
    <3>3. Cardinality(due) <= n - 1
      BY <3>1, <3>2, FS_Surjection
    <3> QED BY <3>3, <2>3, <1>1
  <2>6. PICK x \in rest : \A y \in rest : place[x] <= place[y]
    <3> DEFINE P == {place[y] : y \in rest}
    <3>1. P \in SUBSET Nat /\ P # {}
      BY <2>5
    <3>2. PICK p \in P : \A q \in P : p <= q
      BY <3>1, Least
    <3> QED BY <3>2
  <2> DEFINE more == [i \in 1 .. n |-> IF i = n THEN x ELSE seq[i]]
  <2>7. more \in [1 .. n -> due]
    BY <2>3, <2>4, <2>6
  <2>8. IsInjective(more)
    <3> SUFFICES ASSUME NEW i \in 1 .. n, NEW j \in 1 .. n, more[i] = more[j] PROVE i = j
      BY DEF IsInjective
    <3>1. \A k \in 1 .. n - 1 : seq[k] /= x
      BY <2>4, <2>6 DEF Range
    <3>2. i \in 1 .. n - 1 \/ i = n
      BY <2>3
    <3>3. j \in 1 .. n - 1 \/ j = n
      BY <2>3
    <3> QED BY <2>3, <2>4, <3>1, <3>2, <3>3 DEF IsInjective
  <2>9. Ordered(more, n, due, place)
    <3> SUFFICES ASSUME NEW i \in 1 .. n, NEW y \in due, place[y] < place[more[i]]
                 PROVE  \E j \in 1 .. i - 1 : more[j] = y
      BY DEF Ordered
    <3>1. CASE i = n
      <4>1. place[x] \in Nat /\ place[y] \in Nat /\ more[n] = x
        BY <2>3, <2>6
      <4>2. y \notin rest
        BY <3>1, <4>1, <2>6
      <4>3. PICK j \in 1 .. n - 1 : seq[j] = y
        BY <2>4, <4>2 DEF Range
      <4> QED BY <2>3, <3>1, <4>3
    <3>2. CASE i /= n
      <4>1. i \in 1 .. n - 1 /\ more[i] = seq[i]
        BY <2>3, <3>2
      <4>2. PICK j \in 1 .. i - 1 : seq[j] = y
        BY <2>4, <4>1 DEF Ordered
      <4> QED BY <2>3, <4>1, <4>2
    <3> QED BY <3>1, <3>2
  <2>10. Good(more, n)
    BY <2>7, <2>8, <2>9
  <2> QED BY <2>1, <2>10 DEF Missing
<1>3. PICK seq : Good(seq, N)
  BY <1>1, <1>2
<1>4. seq \in Lists(due, place, limit)
  BY <1>3 DEF Lists, Ordered, Shortest, N
<1> QED BY <1>4

-----------------------------------------------------------------------------
(* Types and places.                                                       *)

LockOK == lock \in [Targets -> {"free", "taken"} \union Subs]

TickOK ==
  /\ stage \in {"domains", "subscriptions"}
  /\ todo \in Seq(IF stage = "subscriptions" THEN Subs ELSE Targets)
  /\ Len(todo) <= Batch
  /\ met \subseteq Subscribed

UpsetsOK == upsets \in 0 .. MaxUpsets

LEMMA TypeParts == TypeOK <=> RowsOK /\ LateOK /\ LockOK /\ TickOK /\ UpsetsOK
BY DEF TypeOK, RowsOK, LateOK, LockOK, TickOK, UpsetsOK, Administered

\* Everything a step may not break.
StepOK == TypeOK' /\ RowsKeepPlaces /\ LateKeepPlaces

\* Most steps leave the due subscriptions alone, ...
LEMMA LateStays ==
  ASSUME LateOK, UNCHANGED late
  PROVE  LateOK' /\ LateKeepPlaces
BY DEF LateOK, LateKeepPlaces

\* ... many leave the tick alone, ...
LEMMA TickStays ==
  ASSUME TickOK, UNCHANGED <<stage, todo, met>>
  PROVE  TickOK'
BY DEF TickOK, Subscribed

\* ... others serve the next of the list, ...
LEMMA TickGoesOn ==
  ASSUME TickOK, todo /= <<>>, todo' = Tail(todo), UNCHANGED <<stage, met>>
  PROVE  TickOK' /\ Head(todo) \in (IF stage = "subscriptions" THEN Subs ELSE Targets)
<1> DEFINE S == IF stage = "subscriptions" THEN Subs ELSE Targets
<1>1. /\ Head(todo) \in S /\ Tail(todo) \in Seq(S) /\ Len(Tail(todo)) = Len(todo) - 1
  BY HeadTailProperties DEF TickOK
<1>2. Len(todo) \in Nat /\ Batch \in Nat
  BY LenProperties, DomainScheduleAssumption DEF TickOK
<1> QED BY <1>1, <1>2 DEF TickOK, Subscribed

\* ... or lose its rest.
LEMMA TickEnds ==
  ASSUME TickOK, stage' = "subscriptions", todo' = <<>>, UNCHANGED met
  PROVE  TickOK'
<1>1. <<>> \in Seq(Subs) /\ Len(<<>>) = 0 /\ Batch \in Nat
  BY DomainScheduleAssumption
<1> QED BY <1>1 DEF TickOK, Subscribed

\* The list of a stage is one of those that the database may give.
LEMMA TickReads ==
  ASSUME NEW due, IsFiniteSet(due), NEW place, NEW seq \in Lists(due, place, Batch)
  PROVE  seq \in Seq(due) /\ Len(seq) <= Batch
BY ListShape, DomainScheduleAssumption

LEMMA DueAreFinite ==
  ASSUME RowsOK, LateOK
  PROVE  /\ Waiting \subseteq Targets /\ IsFiniteSet(Waiting)
         /\ Late \subseteq Subs /\ IsFiniteSet(Late)
<1>1. Waiting \subseteq Targets
  BY RangeOfSeq DEF Waiting, RowsOK, Administered
<1>2. Late \subseteq Subs
  BY LenProperties, ElementOfSeq DEF Late, LateOK
<1> QED BY <1>1, <1>2, FS_Subset, DomainScheduleAssumption

LEMMA LockTaken ==
  ASSUME LockOK, NEW t, NEW x \in {"free", "taken"} \union Subs,
         lock' = [lock EXCEPT ![t] = x]
  PROVE  LockOK'
BY DEF LockOK

\* The rows after an attempt to scan a domain or a subscription's target.
LEMMA DomainAttempted ==
  ASSUME RowsOK, LockOK, NEW t, ScheduleDomainScan(t), UNCHANGED <<enabled, notes>>
  PROVE  RowsOK' /\ RowsKeepPlaces /\ LockOK'
<1>1. CASE CanScan(t)
  BY <1>1, RowMarked, LockTaken DEF ScheduleDomainScan
<1>2. CASE ~CanScan(t)
  <2>1. UNCHANGED <<lock, lapsed>>
    BY <1>2 DEF ScheduleDomainScan
  <2> QED BY <2>1, RowsStay DEF RowsOK, LockOK
<1> QED BY <1>1, <1>2

LEMMA SubscriptionAttempted ==
  ASSUME RowsOK, LockOK, NEW s \in Subs, RunSubscription(s)
  PROVE  RowsOK' /\ RowsKeepPlaces /\ LockOK'
<1>1. RowsOK' /\ RowsKeepPlaces
  BY RowTakenOver DEF RunSubscription
<1>2. LockOK'
  BY LockTaken DEF RunSubscription, LockOK
<1> QED BY <1>1, <1>2

LEMMA InitTypes == Init => TypeOK
<1> SUFFICES ASSUME Init PROVE TypeOK
  OBVIOUS
<1>1. \A S : <<>> \in Seq(S) /\ Len(<<>>) = 0 /\ DOMAIN <<>> = {}
  OBVIOUS
<1>2. RowsOK
  BY <1>1, DomainScheduleAssumption DEF Init, RowsOK, Owners, IsInjective
<1>3. LateOK
  BY <1>1 DEF Init, LateOK
<1>4. LockOK /\ TickOK /\ UpsetsOK
  BY <1>1, DomainScheduleAssumption DEF Init, LockOK, TickOK, UpsetsOK
<1> QED BY <1>2, <1>3, <1>4, TypeParts

\* Every step: one case for each action.
LEMMA StepKeeps ==
  ASSUME TypeOK, [Next]_vars
  PROVE  StepOK
<1>0. RowsOK /\ LateOK /\ LockOK /\ TickOK /\ UpsetsOK
  BY TypeParts
<1> SUFFICES /\ RowsOK' /\ RowsKeepPlaces /\ LateOK' /\ LateKeepPlaces
             /\ LockOK' /\ TickOK' /\ UpsetsOK'
  <2>1. TypeOK' <=> RowsOK' /\ LateOK' /\ LockOK' /\ TickOK' /\ UpsetsOK'
    BY TypeParts, PTL
  <2> QED BY <2>1 DEF StepOK
<1> USE <1>0
<1>a. UNCHANGED rows => RowsOK' /\ RowsKeepPlaces
  BY RowsStay DEF rows, RowsOK
<1>b. UNCHANGED late => LateOK' /\ LateKeepPlaces
  BY LateStays
<1>c. UNCHANGED <<stage, todo, met>> => TickOK'
  BY TickStays
<1>d. UNCHANGED lock => LockOK'
  BY DEF LockOK
<1>e. UNCHANGED upsets \/ Upset => UpsetsOK'
  BY DomainScheduleAssumption DEF Upset, UpsetsOK
<1>1. CASE StartTick
  <2>1. /\ stage' = "domains" /\ todo' \in Lists(Waiting, [t \in Waiting |-> Place(t)], Batch)
        /\ met' \subseteq Subscribed
    BY <1>1 DEF StartTick, DueDomains, TickOK
  <2>2. todo' \in Seq(Waiting) /\ Len(todo') <= Batch
    BY <2>1, DueAreFinite, TickReads
  <2>3. todo' \in Seq(Targets)
    BY <2>2, DueAreFinite, SeqMonotonic
  <2>4. TickOK'
    BY <2>1, <2>2, <2>3 DEF TickOK, Subscribed
  <2> QED BY <1>1, <1>a, <1>b, <1>d, <1>e, <2>4 DEF StartTick
<1>2. CASE ServeDomain
  <2>1. RowsOK' /\ RowsKeepPlaces /\ LockOK'
    BY <1>2, DomainAttempted DEF ServeDomain
  <2>2. TickOK'
    BY <1>2, TickGoesOn DEF ServeDomain
  <2> QED BY <1>2, <1>b, <1>e, <2>1, <2>2 DEF ServeDomain
<1>3. CASE ReadDue
  <2>1. /\ stage' = "subscriptions" /\ todo' \in Lists(Late, [s \in Late |-> Week(s)], Batch)
        /\ met' = met
    BY <1>3 DEF ReadDue, Due
  <2>2. todo' \in Seq(Late) /\ Len(todo') <= Batch
    BY <2>1, DueAreFinite, TickReads
  <2>3. todo' \in Seq(Subs)
    BY <2>2, DueAreFinite, SeqMonotonic
  <2>4. TickOK'
    BY <2>1, <2>2, <2>3 DEF TickOK, Subscribed
  <2> QED BY <1>3, <1>a, <1>b, <1>d, <1>e, <2>4 DEF ReadDue
<1>4. CASE ServeSubscription
  <2>1. TickOK' /\ Head(todo) \in Subs
    BY <1>4, TickGoesOn DEF ServeSubscription
  <2>2. RowsOK' /\ RowsKeepPlaces /\ LockOK'
    BY <1>4, <2>1, SubscriptionAttempted DEF ServeSubscription
  <2> QED BY <1>4, <1>b, <1>e, <2>1, <2>2 DEF ServeSubscription
<1>5. CASE NewWeek
  <2>1. TickOK'
    BY <1>5 DEF NewWeek, TickOK, Subscribed
  <2> QED BY <1>5, <1>a, <1>d, <1>e, <2>1, WeekBegins DEF NewWeek
<1>6. CASE PushFails
  <2>1. TickOK' /\ Head(todo) \in (IF stage = "subscriptions" THEN Subs ELSE Targets)
    BY <1>6, TickGoesOn DEF PushFails
  <2>2. RowsOK' /\ RowsKeepPlaces
    <3>1. CASE stage = "domains"
      BY <1>6, <1>a, <3>1 DEF PushFails
    <3>2. CASE stage /= "domains"
      BY <1>6, <2>1, <3>2, RowTakenOver DEF PushFails, TickOK
    <3> QED BY <3>1, <3>2
  <2> QED BY <1>6, <1>b, <1>d, <1>e, <2>1, <2>2 DEF PushFails
<1>7. CASE TickFails
  BY <1>7, <1>a, <1>b, <1>d, <1>e, TickEnds DEF TickFails
<1>8. CASE MarkFails
  <2>1. TickOK'
    BY <1>8, TickEnds DEF MarkFails
  <2>2. todo /= <<>> => Head(todo) \in (IF stage = "subscriptions" THEN Subs ELSE Targets)
    BY HeadTailProperties DEF TickOK
  <2>3. RowsOK' /\ RowsKeepPlaces /\ LockOK'
    <3>1. CASE stage = "domains"
      BY <1>8, <1>a, <3>1, LockTaken DEF MarkFails
    <3>2. CASE stage /= "domains"
      BY <1>8, <2>2, <3>2, SubscriptionAttempted DEF MarkFails, TickOK
    <3> QED BY <3>1, <3>2
  <2> QED BY <1>8, <1>b, <1>e, <2>1, <2>3 DEF MarkFails
<1>9. ASSUME NEW t \in Targets, ReportedScanEnds(t)
      PROVE  /\ RowsOK' /\ RowsKeepPlaces /\ LateOK' /\ LateKeepPlaces
             /\ LockOK' /\ TickOK' /\ UpsetsOK'
  <2>1. LateOK' /\ LateKeepPlaces
    <3>1. CASE lock[t] \in Undeliverable
      BY <1>9, <1>b, <3>1 DEF ReportedScanEnds
    <3>2. CASE lock[t] \notin Undeliverable
      BY <1>9, <3>2, ReportMarked DEF ReportedScanEnds
    <3> QED BY <3>1, <3>2
  <2>2. LockOK'
    BY <1>9, LockTaken DEF ReportedScanEnds
  <2> QED BY <1>9, <1>a, <1>c, <1>e, <2>1, <2>2 DEF ReportedScanEnds, tick
<1>10. ASSUME NEW t \in Targets,
              TargetFreed(t) \/ ScanFails(t) \/ WorkerLost(t) \/ VisitorScans(t)
       PROVE  /\ RowsOK' /\ RowsKeepPlaces /\ LateOK' /\ LateKeepPlaces
              /\ LockOK' /\ TickOK' /\ UpsetsOK'
  <2>1. LockOK'
    BY <1>10, LockTaken DEF TargetFreed, ScanFails, WorkerLost, VisitorScans
  <2>2. UNCHANGED <<rows, late, tick>> /\ (UNCHANGED upsets \/ Upset)
    BY <1>10 DEF TargetFreed, ScanFails, WorkerLost, VisitorScans
  <2> QED BY <1>a, <1>b, <1>c, <1>e, <2>1, <2>2 DEF tick
<1>11. ASSUME NEW t \in Targets, ScanFallsDue(t)
       PROVE  /\ RowsOK' /\ RowsKeepPlaces /\ LateOK' /\ LateKeepPlaces
              /\ LockOK' /\ TickOK' /\ UpsetsOK'
  BY <1>11, <1>b, <1>c, <1>d, <1>e, RowFallsDue DEF ScanFallsDue, tick
<1>12. ASSUME NEW t \in Targets, AdministratorSaves(t)
       PROVE  /\ RowsOK' /\ RowsKeepPlaces /\ LateOK' /\ LateKeepPlaces
              /\ LockOK' /\ TickOK' /\ UpsetsOK'
  BY <1>12, <1>b, <1>c, <1>d, <1>e, RowSaved DEF AdministratorSaves, tick
<1>13. ASSUME NEW t \in Targets, AdministratorDisables(t)
       PROVE  /\ RowsOK' /\ RowsKeepPlaces /\ LateOK' /\ LateKeepPlaces
              /\ LockOK' /\ TickOK' /\ UpsetsOK'
  <2>1. RowsOK' /\ RowsKeepPlaces
    BY <1>13, RowsStay DEF AdministratorDisables, RowsOK
  <2> QED BY <1>13, <1>b, <1>c, <1>d, <1>e, <2>1 DEF AdministratorDisables, tick
<1>14. ASSUME NEW t \in Targets, AdministratorScansNow(t)
       PROVE  /\ RowsOK' /\ RowsKeepPlaces /\ LateOK' /\ LateKeepPlaces
              /\ LockOK' /\ TickOK' /\ UpsetsOK'
  BY <1>14, <1>b, <1>c, <1>e, DomainAttempted DEF AdministratorScansNow, tick
<1>15. ASSUME NEW s \in Subs, RunSubscriptionNow(s)
       PROVE  /\ RowsOK' /\ RowsKeepPlaces /\ LateOK' /\ LateKeepPlaces
              /\ LockOK' /\ TickOK' /\ UpsetsOK'
  BY <1>15, <1>b, <1>c, <1>e, SubscriptionAttempted DEF RunSubscriptionNow, tick
<1>16. CASE UNCHANGED vars
  BY <1>16, <1>a, <1>b, <1>c, <1>d, <1>e DEF vars, rows
<1> QED
  BY <1>1, <1>2, <1>3, <1>4, <1>5, <1>6, <1>7, <1>8, <1>9, <1>10, <1>11, <1>12,
     <1>13, <1>14, <1>15, <1>16 DEF Next, SchedulerStep, TargetStep

\* Every variable keeps its type: no list is longer than a batch, the queues have
\* no duplicates, and no row waits in the administrator's queue that is not its own.
THEOREM ScheduleTypes == Spec => []TypeOK
<1>1. TypeOK /\ [Next]_vars => TypeOK'
  BY StepKeeps DEF StepOK
<1> QED BY <1>1, InitTypes, PTL DEF Spec

-----------------------------------------------------------------------------
(* Nobody overtakes.                                                       *)

\* The places of a queue without duplicates are its order.
LEMMA PlacesAreOrder ==
  ASSUME NEW S, NEW seq \in Seq(S), IsInjective(seq), NEW u \in Range(seq), NEW t \in Range(seq)
  PROVE  LET p(x) == CHOOSE i \in DOMAIN seq : seq[i] = x
         IN  p(u) \in Nat /\ p(t) \in Nat /\ (p(u) <= p(t) <=> UpTo(seq, u, t))
<1> DEFINE p(x) == CHOOSE i \in DOMAIN seq : seq[i] = x
<1>1. DOMAIN seq = 1 .. Len(seq) /\ Len(seq) \in Nat
  BY LenProperties
<1>2. p(u) \in DOMAIN seq /\ seq[p(u)] = u /\ p(t) \in DOMAIN seq /\ seq[p(t)] = t
  BY DEF Range
<1>3. \A i \in DOMAIN seq : (seq[i] = u => i = p(u)) /\ (seq[i] = t => i = p(t))
  BY <1>2 DEF IsInjective
<1> HIDE DEF p
<1>4. p(u) <= p(t) <=> UpTo(seq, u, t)
  BY <1>2, <1>3 DEF UpTo
<1>5. p(u) \in Nat /\ p(t) \in Nat
  BY <1>1, <1>2
<1> QED BY <1>4, <1>5 DEF p

\* ... and the weeks are those of the due subscriptions.
LEMMA WeeksAreOrder ==
  ASSUME NEW seq \in Seq((SUBSET Subs) \ {{}}),
         \A i, j \in DOMAIN seq : i /= j => seq[i] \intersect seq[j] = {},
         NEW m, NEW s, \E i \in DOMAIN seq : m \in seq[i], \E i \in DOMAIN seq : s \in seq[i]
  PROVE  LET w(x) == CHOOSE i \in DOMAIN seq : x \in seq[i]
         IN  w(m) \in Nat /\ w(s) \in Nat /\ (w(m) <= w(s) <=> NoLater(seq, m, s))
<1> DEFINE w(x) == CHOOSE i \in DOMAIN seq : x \in seq[i]
<1>1. DOMAIN seq = 1 .. Len(seq) /\ Len(seq) \in Nat
  BY LenProperties
<1>2. w(m) \in DOMAIN seq /\ m \in seq[w(m)] /\ w(s) \in DOMAIN seq /\ s \in seq[w(s)]
  OBVIOUS
<1>3. \A i \in DOMAIN seq : (m \in seq[i] => i = w(m)) /\ (s \in seq[i] => i = w(s))
  BY <1>2
<1> HIDE DEF w
<1>4. w(m) <= w(s) <=> NoLater(seq, m, s)
  BY <1>2, <1>3 DEF NoLater
<1>5. w(m) \in Nat /\ w(s) \in Nat
  BY <1>1, <1>2
<1> QED BY <1>4, <1>5 DEF w

\* Those who are served no later are those before in the queue.
Order ==
  /\ \A t, u \in Range(lapsed) : u \in UpToDomain(t) <=> UpTo(lapsed, u, t)
  /\ \A s, m \in Late : m \in UpToSub(s) <=> NoLater(late, m, s)

LEMMA UpToIsOrder == TypeOK => Order
<1> SUFFICES ASSUME TypeOK PROVE Order
  OBVIOUS
<1>1. RowsOK /\ LateOK
  BY TypeParts
<1>2. ASSUME NEW t \in Range(lapsed), NEW u \in Range(lapsed)
      PROVE  u \in UpToDomain(t) <=> UpTo(lapsed, u, t)
  BY <1>1, PlacesAreOrder DEF UpToDomain, Place, RowsOK
<1>3. ASSUME NEW s \in Late, NEW m \in Late
      PROVE  m \in UpToSub(s) <=> NoLater(late, m, s)
  <2>1. (\E i \in DOMAIN late : m \in late[i]) /\ (\E i \in DOMAIN late : s \in late[i])
    BY DEF Late
  <2> QED BY <1>1, <2>1, WeeksAreOrder DEF UpToSub, Week, LateOK
<1> QED BY <1>2, <1>3 DEF Order

\* Every step keeps the places.
LEMMA StepKeepsPlaces ==
  ASSUME TypeOK, [Next]_vars
  PROVE  KeepsPlaces
<1>1. TypeOK' /\ RowsKeepPlaces /\ LateKeepPlaces
  BY StepKeeps DEF StepOK
<1>2. Order
  BY UpToIsOrder
<1>3. TypeOK' => Order'
  BY UpToIsOrder, PTL
<1>4. Order'
  BY <1>1, <1>3
<1>5. ASSUME NEW t \in Range(lapsed) \intersect Range(lapsed'),
             NEW u \in UpToDomain(t)' \ UpToDomain(t)
      PROVE  notes[u] = "subscription"
  <2>1. u \in Range(lapsed')
    BY DEF UpToDomain
  <2>2. UpTo(lapsed', u, t)
    BY <1>4, <1>5, <2>1 DEF Order
  <2>3. CASE UpTo(lapsed, u, t)
    <3>1. u \in Range(lapsed)
      BY <2>3 DEF UpTo, Range
    <3> QED BY <1>2, <1>5, <2>3, <3>1 DEF Order
  <2> QED BY <1>1, <2>2, <2>3 DEF RowsKeepPlaces
<1>6. ASSUME NEW s \in Late \intersect Late', NEW m \in UpToSub(s)'
      PROVE  m \in UpToSub(s)
  <2>1. m \in Late'
    BY DEF UpToSub
  <2>2. NoLater(late', m, s)
    BY <1>4, <1>6, <2>1 DEF Order
  <2>3. NoLater(late, m, s)
    BY <1>1, <2>2 DEF LateKeepPlaces
  <2>4. m \in Late
    BY <2>3 DEF NoLater, Late
  <2> QED BY <1>2, <2>3, <2>4 DEF Order
<1> QED BY <1>5, <1>6 DEF KeepsPlaces

\* Each list reaches somebody who can be served, if one waits.
LEMMA ListsReachTheLive ==
  ASSUME TypeOK
  PROVE  ReachesTheLive
<1>1. RowsOK /\ LateOK
  BY TypeParts
<1>2. /\ Waiting \subseteq Targets /\ IsFiniteSet(Waiting)
      /\ Late \subseteq Subs /\ IsFiniteSet(Late)
  BY <1>1, DueAreFinite
<1>3. IsFiniteSet(Dead) /\ IsFiniteSet(Stuck) /\ Batch \in Nat
  <2>1. Stuck \subseteq Subs
    BY DomainScheduleAssumption DEF Stuck
  <2> QED BY <2>1, FS_Subset, DomainScheduleAssumption
<1>4. ASSUME StartTick, Cardinality(Dead) < Batch, NEW t \in Waiting \ Dead
      PROVE  \E u \in Range(todo') \ Dead : Place(u) <= Place(t)
  <2> DEFINE place == [u \in Waiting |-> Place(u)]
  <2>1. todo' \in Lists(Waiting, place, Batch)
    BY <1>4 DEF StartTick, DueDomains
  <2>2. \A u \in Waiting : Place(u) \in Nat
    BY <1>1, PlacesAreOrder DEF Waiting, Place, RowsOK
  <2>3. place \in [Waiting -> Nat]
    BY <2>2
  <2>4. \A u \in Waiting : place[u] = Place(u)
    OBVIOUS
  <2> HIDE DEF place
  <2>5. \E u \in Range(todo') \ Dead : u \in Waiting /\ place[u] <= place[t]
    BY <1>2, <1>3, <1>4, <2>1, <2>3, ListReaches
  <2> QED BY <2>4, <2>5
<1>5. ASSUME ReadDue, Cardinality(Stuck) < Batch, NEW s \in Late \ Stuck
      PROVE  \E m \in Range(todo') \ Stuck : Week(m) <= Week(s)
  <2> DEFINE place == [m \in Late |-> Week(m)]
  <2>1. todo' \in Lists(Late, place, Batch)
    BY <1>5 DEF ReadDue, Due
  <2>2. ASSUME NEW m \in Late PROVE Week(m) \in Nat
    <3>1. \E i \in DOMAIN late : m \in late[i]
      BY DEF Late
    <3> QED BY <1>1, <3>1, WeeksAreOrder DEF Week, LateOK
  <2>3. place \in [Late -> Nat]
    BY <2>2
  <2>4. \A m \in Late : place[m] = Week(m)
    OBVIOUS
  <2> HIDE DEF place
  <2>5. \E m \in Range(todo') \ Stuck : m \in Late /\ place[m] <= place[s]
    BY <1>2, <1>3, <1>5, <2>1, <2>3, ListReaches
  <2> QED BY <2>4, <2>5
<1> QED BY <1>4, <1>5 DEF ReachesTheLive

\* Nobody starves for want of a place: a row that waits loses no ground but to one
\* that the administrator takes back, and each list holds somebody who can be
\* served and waits no less long.
THEOREM NobodyOvertakesTheorem == Spec => NobodyOvertakes
<1>1. TypeOK /\ [Next]_vars => KeepsPlaces /\ ReachesTheLive
  BY StepKeepsPlaces, ListsReachTheLive
<1> QED BY <1>1, ScheduleTypes, PTL DEF Spec, NobodyOvertakes

\* A tick is never without a list that it may read, whoever is due: neither stage
\* of the scheduler can stop at its query.
TicksCanRead == (\E seq : seq \in DueDomains) /\ (\E seq : seq \in Due)

THEOREM TicksCanReadTheorem == Spec => []TicksCanRead
<1>1. TypeOK => TicksCanRead
  <2> SUFFICES ASSUME TypeOK PROVE TicksCanRead
    OBVIOUS
  <2>1. RowsOK /\ LateOK
    BY TypeParts
  <2>2. IsFiniteSet(Waiting) /\ IsFiniteSet(Late) /\ Batch \in Nat
    BY <2>1, DueAreFinite, DomainScheduleAssumption
  <2>3. [t \in Waiting |-> Place(t)] \in [Waiting -> Nat]
    <3>1. \A t \in Waiting : Place(t) \in Nat
      BY <2>1, PlacesAreOrder DEF Waiting, Place, RowsOK
    <3> QED BY <3>1
  <2>4. [s \in Late |-> Week(s)] \in [Late -> Nat]
    <3>1. ASSUME NEW s \in Late PROVE Week(s) \in Nat
      <4>1. \E i \in DOMAIN late : s \in late[i]
        BY DEF Late
      <4> QED BY <2>1, <4>1, WeeksAreOrder DEF Week, LateOK
    <3> QED BY <3>1
  <2>5. \E seq : seq \in DueDomains
    BY <2>2, <2>3, ListExists DEF DueDomains
  <2>6. \E seq : seq \in Due
    BY <2>2, <2>4, ListExists DEF Due
  <2> QED BY <2>5, <2>6 DEF TicksCanRead
<1> QED BY <1>1, ScheduleTypes, PTL

=============================================================================
