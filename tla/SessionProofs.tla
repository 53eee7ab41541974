----------------------------- MODULE SessionProofs -----------------------------
(***************************************************************************)
(* What holds of runs, sessions, session logs, calls and of the limiter in *)
(* every reachable state, for all constants.  The limiter: what a bucket   *)
(* forgot of the admissions is out of every window that may still be asked *)
(* about.  The logs: whoever has read a line numbers above it, and a store *)
(* gives each number once.  The calls: a step that is still to be done     *)
(* names what exists, so none of it is out of range.                       *)
(***************************************************************************)
EXTENDS PlaneProofs, SequenceTheorems, WellFoundedInduction

-------------------------------------------------------------------------------
(* The rate limiter *)

\* What a bucket b keeps of the admissions s of a client: all but the first n, which are
\* out of any window that ends at t or later.
Remembers(b, s, n, t) ==
    /\ n \in 0..Len(s) /\ Len(b) = Len(s) - n
    /\ \A k \in 1..Len(b) : b[k] = s[n + k]
    /\ \A k \in 1..n : s[k] < t - Window

Rising(s, t) ==
    /\ \A i \in 1..Len(s) : s[i] <= t
    /\ \A i, j \in 1..Len(s) : i <= j => s[i] <= s[j]

\* The limiter's variables; a thread at the limiter has a client.
LimiterTyped ==
    /\ entered \in Nat /\ swept \in Nat /\ now \in Nat /\ late \in BOOLEAN
    /\ handler \in [Handlers -> HandlerSet]
    /\ \A h \in Handlers : handler[h].at = "limit" => handler[h].client \in Clients
    /\ bucket \in [Clients -> Seq(Nat)] /\ passed \in [Clients -> Seq(Nat)]
    /\ \A c \in Clients : Len(bucket[c]) <= Limit

\* As long as every thread entered with the newest time, admissions are in order of time
\* and what a bucket forgot of them is past.
InOrder ==
    late \/ \A c \in Clients : /\ Rising(passed[c], entered)
                               /\ \E n : Remembers(bucket[c], passed[c], n, entered)

Limiter == LimiterTyped /\ InOrder /\ LimitKept

\* So many numbers, and so many up to the last.
LEMMA SoMany ==
    ASSUME NEW a \in Int, NEW n \in Nat, a <= n + 1
    PROVE  /\ IsFiniteSet(a..n) /\ Cardinality(a..n) = n - a + 1
           /\ IsFiniteSet(1..n) /\ Cardinality(1..n) = n
<1>1. IsFiniteSet(a..n) /\ Cardinality(a..n) = IF a > n THEN 0 ELSE n - a + 1 BY FS_Interval
<1>2. IsFiniteSet(1..n) /\ Cardinality(1..n) = IF 1 > n THEN 0 ELSE n - 1 + 1 BY FS_Interval
<1> QED BY <1>1, <1>2

\* Recent drops times in front, all of them too old.
LEMMA RecentIsEnd ==
    ASSUME NEW b \in Seq(Nat), NEW cutoff \in Int
    PROVE  \E m \in 0..Len(b) : /\ Recent(b, cutoff) = SubSeq(b, m + 1, Len(b))
                                /\ \A k \in 1..m : b[k] < cutoff
<1> DEFINE kept == {i \in 1..Len(b) : \E k \in 1..i : b[k] >= cutoff}
<1> DEFINE q == Cardinality(kept)
<1> DEFINE m == Len(b) - q
<1>1. IsFiniteSet(1..Len(b)) /\ Cardinality(1..Len(b)) = Len(b) /\ Len(b) \in Nat
  <2>1. Len(b) \in Nat OBVIOUS
  <2> QED BY <2>1, SoMany
<1>2. IsFiniteSet(kept) /\ q \in Nat /\ q <= Len(b)
  BY <1>1, FS_Subset, FS_CardinalityType
<1>3. ASSUME NEW i \in kept PROVE i > m
  <2>1. i..Len(b) \subseteq kept BY <1>1
  <2>2. Cardinality(i..Len(b)) = Len(b) - i + 1 BY <1>1, SoMany
  <2>3. Cardinality(i..Len(b)) <= Cardinality(kept) BY <1>2, <2>1, FS_Subset
  <2> QED BY <1>1, <1>2, <2>2, <2>3
<1>4. m \in 0..Len(b) BY <1>1, <1>2
<1>5. ASSUME NEW k \in 1..m PROVE b[k] < cutoff
  <2>1. k \notin kept BY <1>3, <1>4
  <2>2. k \in 1..Len(b) /\ k \in 1..k BY <1>1, <1>4
  <2> QED BY <2>1, <2>2
<1>6. Recent(b, cutoff) = SubSeq(b, m + 1, Len(b)) BY DEF Recent
<1> QED BY <1>4, <1>5, <1>6

\* The end of a sequence.
LEMMA TheEnd ==
    ASSUME NEW b \in Seq(Nat), NEW m \in 0..Len(b)
    PROVE  LET e == SubSeq(b, m + 1, Len(b)) IN
           /\ e \in Seq(Nat) /\ Len(e) = Len(b) - m
           /\ \A k \in 1..Len(e) : e[k] = b[m + k]
<1> DEFINE e == SubSeq(b, m + 1, Len(b))
<1>1. Len(b) \in Nat /\ \A i \in (m + 1)..Len(b) : b[i] \in Nat OBVIOUS
<1>2. /\ e \in Seq(Nat) /\ Len(e) = IF m + 1 <= Len(b) THEN Len(b) - (m + 1) + 1 ELSE 0
      /\ \A k \in 1..Len(b) - (m + 1) + 1 : e[k] = b[(m + 1) + k - 1]
  BY <1>1, SubSeqProperties
<1> HIDE DEF e
<1>3. Len(e) = Len(b) - m BY <1>1, <1>2
<1>4. ASSUME NEW k \in 1..Len(e) PROVE e[k] = b[m + k]
  <2>1. k \in 1..Len(b) - (m + 1) + 1 /\ (m + 1) + k - 1 = m + k BY <1>1, <1>3
  <2> QED BY <1>2, <2>1
<1> QED BY <1>2, <1>3, <1>4 DEF e

\* A bucket in the window that ends at t is the end of what the limiter kept.
LEMMA InWindow ==
    ASSUME NEW b \in Seq(Nat), NEW s \in Seq(Nat), NEW u \in Nat, NEW t \in Nat, u <= t,
           NEW n, Remembers(b, s, n, u)
    PROVE  /\ Recent(b, t - Window) \in Seq(Nat) /\ Len(Recent(b, t - Window)) <= Len(b)
           /\ \E l : Remembers(Recent(b, t - Window), s, l, t)
<1>0. Window \in Nat BY IngressAssumption
<1>1. PICK m \in 0..Len(b) : /\ Recent(b, t - Window) = SubSeq(b, m + 1, Len(b))
                             /\ \A k \in 1..m : b[k] < t - Window
  <2>1. t - Window \in Int BY <1>0
  <2> QED BY <2>1, RecentIsEnd
<1> DEFINE e == SubSeq(b, m + 1, Len(b))
<1>2. /\ e \in Seq(Nat) /\ Len(e) = Len(b) - m
      /\ \A k \in 1..Len(e) : e[k] = b[m + k]
  BY TheEnd
<1>3. /\ n \in Nat /\ Len(s) \in Nat /\ n <= Len(s) /\ Len(b) = Len(s) - n
      /\ \A k \in 1..Len(b) : b[k] = s[n + k]
      /\ \A k \in 1..n : s[k] < u - Window
  BY DEF Remembers
<1> HIDE DEF e
<1>4. n + m \in 0..Len(s) /\ Len(e) = Len(s) - (n + m) BY <1>2, <1>3
<1>5. ASSUME NEW k \in 1..Len(e) PROVE e[k] = s[(n + m) + k]
  <2>1. m + k \in 1..Len(b) /\ n + (m + k) = (n + m) + k BY <1>2, <1>3
  <2> QED BY <1>2, <1>3, <2>1
<1>6. ASSUME NEW k \in 1..(n + m) PROVE s[k] < t - Window
  <2>1. CASE k <= n
    <3>1. k \in 1..n /\ s[k] \in Nat BY <1>3, <2>1
    <3> QED BY <1>0, <1>3, <3>1
  <2>2. CASE k > n
    <3>1. k - n \in 1..m /\ k - n \in 1..Len(b) /\ n + (k - n) = k BY <1>3, <2>2
    <3> QED BY <1>1, <1>3, <3>1
  <2> QED BY <1>3, <2>1, <2>2
<1>7. Remembers(e, s, n + m, t) BY <1>4, <1>5, <1>6 DEF Remembers
<1>8. Recent(b, t - Window) = e BY <1>1 DEF e
<1> QED BY <1>2, <1>3, <1>7, <1>8

\* A bucket that is swept as stale forgets only what is past.
LEMMA SweptForgets ==
    ASSUME NEW b \in Seq(Nat), NEW s \in Seq(Nat), NEW u \in Nat, NEW t \in Nat, u <= t,
           NEW n, Remembers(b, s, n, u), Rising(s, u), Stale(b, t - Window)
    PROVE  Remembers(<<>>, s, Len(s), t)
<1>0. Window \in Nat BY IngressAssumption
<1>1. /\ n \in Nat /\ Len(s) \in Nat /\ n <= Len(s) /\ Len(b) = Len(s) - n
      /\ \A k \in 1..Len(b) : b[k] = s[n + k]
      /\ \A k \in 1..n : s[k] < u - Window
  BY DEF Remembers
<1>2. ASSUME NEW k \in 1..Len(s) PROVE s[k] < t - Window
  <2>0. s[k] \in Nat OBVIOUS
  <2>1. CASE k <= n
    <3>1. k \in 1..n BY <1>1, <2>1
    <3> QED BY <1>0, <1>1, <2>0, <3>1
  <2>2. CASE k > n
    <3>1. Len(b) \in 1..Len(b) /\ b # <<>> /\ n + Len(b) = Len(s) BY <1>1, <2>2
    <3>2. b[Len(b)] = s[Len(s)] /\ b[Len(b)] < t - Window BY <1>1, <3>1 DEF Stale
    <3>3. Len(s) \in 1..Len(s) /\ k <= Len(s) BY <1>1, <2>2
    <3>4. s[k] <= s[Len(s)] /\ s[Len(s)] \in Nat BY <3>3 DEF Rising
    <3>5. b[Len(b)] \in Nat BY <3>2, <3>4
    <3> QED BY <1>0, <2>0, <3>2, <3>4, <3>5
  <2> QED BY <1>1, <2>1, <2>2
<1> QED BY <1>1, <1>2 DEF Remembers

\* Later, a bucket remembers no less.
LEMMA LaterToo ==
    ASSUME NEW b, NEW s \in Seq(Nat), NEW u \in Nat, NEW t \in Nat, u <= t, NEW n,
           Remembers(b, s, n, u)
    PROVE  Remembers(b, s, n, t)
<1>0. Window \in Nat BY IngressAssumption
<1>1. n \in Nat /\ Len(s) \in Nat /\ n <= Len(s) BY DEF Remembers
<1>2. ASSUME NEW k \in 1..n PROVE s[k] < t - Window
  <2>1. s[k] \in Nat /\ s[k] < u - Window BY <1>1 DEF Remembers
  <2> QED BY <1>0, <2>1
<1> QED BY <1>2 DEF Remembers

\* An admission at t, in order, joins both.
LEMMA Joins ==
    ASSUME NEW b \in Seq(Nat), NEW s \in Seq(Nat), NEW t \in Nat, NEW n,
           Remembers(b, s, n, t), Rising(s, t)
    PROVE  Remembers(Append(b, t), Append(s, t), n, t) /\ Rising(Append(s, t), t)
<1>0. Window \in Nat BY IngressAssumption
<1>1. /\ n \in Nat /\ Len(s) \in Nat /\ n <= Len(s) /\ Len(b) = Len(s) - n
      /\ \A k \in 1..Len(b) : b[k] = s[n + k]
      /\ \A k \in 1..n : s[k] < t - Window
  BY DEF Remembers
<1> DEFINE c == Append(b, t)
<1> DEFINE p == Append(s, t)
<1>2. /\ Len(c) = Len(b) + 1 /\ c[Len(b) + 1] = t /\ \A k \in 1..Len(b) : c[k] = b[k]
      /\ Len(p) = Len(s) + 1 /\ p[Len(s) + 1] = t /\ \A k \in 1..Len(s) : p[k] = s[k]
  OBVIOUS
<1> HIDE DEF c, p
<1>3. \A k \in 1..Len(c) : c[k] = p[n + k]
  <2> TAKE k \in 1..Len(c)
  <2>1. CASE k = Len(b) + 1
    <3>1. n + k = Len(s) + 1 BY <1>1, <2>1
    <3> QED BY <1>2, <2>1, <3>1
  <2>2. CASE k # Len(b) + 1
    <3>1. k \in 1..Len(b) /\ n + k \in 1..Len(s) BY <1>1, <1>2, <2>2
    <3> QED BY <1>1, <1>2, <3>1
  <2> QED BY <2>1, <2>2
<1>4. Remembers(c, p, n, t)
  <2>1. n \in 0..Len(p) /\ Len(c) = Len(p) - n BY <1>1, <1>2
  <2>2. ASSUME NEW k \in 1..n PROVE p[k] < t - Window
    <3>1. k \in 1..Len(s) BY <1>1
    <3> QED BY <1>1, <1>2, <3>1
  <2> QED BY <1>3, <2>1, <2>2 DEF Remembers
<1>5. Rising(p, t)
  <2>1. \A i \in 1..Len(p) : i \in 1..Len(s) \/ i = Len(s) + 1 BY <1>1, <1>2
  <2>2. \A i \in 1..Len(p) : p[i] <= t
    <3>1. \A i \in 1..Len(s) : p[i] <= t BY <1>2 DEF Rising
    <3>2. p[Len(s) + 1] <= t BY <1>2
    <3> QED BY <2>1, <3>1, <3>2
  <2>3. \A i, j \in 1..Len(p) : i <= j => p[i] <= p[j]
    <3> TAKE i, j \in 1..Len(p)
    <3> HAVE i <= j
    <3>1. CASE j = Len(s) + 1 BY <1>2, <2>2, <3>1
    <3>2. CASE j # Len(s) + 1
      <4>1. j \in 1..Len(s) /\ i \in 1..Len(s) BY <1>1, <1>2, <2>1, <3>2
      <4> QED BY <1>2, <4>1 DEF Rising
    <3> QED BY <3>1, <3>2
  <2> QED BY <2>2, <2>3 DEF Rising
<1> QED BY <1>4, <1>5 DEF c, p

Within(s, i) == Cardinality({k \in 1..i : s[k] >= s[i] - Window}) <= Limit

\* The admissions in the window of the last one are those its bucket remembers.
LEMMA FewEnough ==
    ASSUME NEW b \in Seq(Nat), NEW s \in Seq(Nat), s # <<>>, NEW n,
           Remembers(b, s, n, s[Len(s)]), Len(b) <= Limit
    PROVE  Within(s, Len(s))
<1>0. Window \in Nat /\ Limit \in Nat BY IngressAssumption
<1>1. /\ n \in Nat /\ Len(s) \in Nat \ {0} /\ n <= Len(s) /\ Len(b) = Len(s) - n
      /\ \A k \in 1..n : s[k] < s[Len(s)] - Window
  BY DEF Remembers
<1> DEFINE K == {k \in 1..Len(s) : s[k] >= s[Len(s)] - Window}
<1>2. s[Len(s)] \in Nat /\ \A k \in 1..Len(s) : s[k] \in Nat BY <1>1
<1>3. K \subseteq (n + 1)..Len(s)
  <2> SUFFICES ASSUME NEW k \in K PROVE k > n
    BY <1>1
  <2>1. CASE k <= n
    <3>1. k \in 1..n /\ k \in 1..Len(s) BY <1>1, <2>1
    <3>2. s[k] < s[Len(s)] - Window /\ s[k] >= s[Len(s)] - Window BY <1>1, <3>1
    <3> QED BY <1>0, <1>2, <3>1, <3>2
  <2> QED BY <1>1, <2>1
<1>4. /\ IsFiniteSet((n + 1)..Len(s))
      /\ Cardinality((n + 1)..Len(s)) = Len(s) - n
  BY <1>1, SoMany
<1>5. Cardinality(K) <= Len(s) - n /\ Cardinality(K) \in Nat
  <2>1. IsFiniteSet(K) /\ Cardinality(K) <= Cardinality((n + 1)..Len(s))
    BY <1>3, <1>4, FS_Subset
  <2>2. Cardinality(K) \in Nat BY <2>1, FS_CardinalityType
  <2> QED BY <1>4, <2>1, <2>2
<1> QED BY <1>0, <1>1, <1>5 DEF Within

\* An earlier admission's window is as it was.
LEMMA AsBefore ==
    ASSUME NEW s \in Seq(Nat), NEW t \in Nat, NEW i \in 1..Len(s), Within(s, i)
    PROVE  Within(Append(s, t), i)
<1>1. \A k \in 1..Len(s) : Append(s, t)[k] = s[k] OBVIOUS
<1>2. Len(s) \in Nat /\ 1..i \subseteq 1..Len(s) OBVIOUS
<1>3. {k \in 1..i : Append(s, t)[k] >= Append(s, t)[i] - Window}
        = {k \in 1..i : s[k] >= s[i] - Window}
  BY <1>1, <1>2
<1> QED BY <1>3 DEF Within

\* A thread passes the limiter.
LEMMA GuardLimits ==
    ASSUME Limiter, NEW h \in Handlers, Guard(h), handler' \in [Handlers -> HandlerSet]
    PROVE  Limiter'
<1> DEFINE t == handler[h].time
<1> DEFINE c == handler[h].client
<1> DEFINE b == Recent(Swept(t)[c], t - Window)
<1> DEFINE admitted == Admits(b)
<1>0. Window \in Nat /\ Limit \in Nat BY IngressAssumption
<1>1. /\ t \in Nat /\ c \in Clients
      /\ handler[h].at = "limit"
      /\ swept' = IF t >= swept + Window THEN t ELSE swept
      /\ bucket' = [Swept(t) EXCEPT ![c] = IF admitted THEN Append(b, t) ELSE b]
      /\ passed' = IF admitted THEN [passed EXCEPT ![c] = Append(@, t)] ELSE passed
      /\ late' = (late \/ t < entered)
      /\ entered' = IF t > entered THEN t ELSE entered
      /\ now' = now
  BY DEF Guard, Limiter, LimiterTyped, HandlerSet
<1>2. \A g \in Handlers : handler'[g].at = "limit" => handler'[g].client \in Clients
  <2>1. PICK ok, text :
          handler' = [handler EXCEPT ![h].at = "audit", ![h].ok = ok, ![h].text = text]
    BY DEF Guard
  <2>2. handler[h] \in HandlerSet /\ handler \in [Handlers -> HandlerSet]
    BY DEF Limiter, LimiterTyped
  <2>3. handler'[h].at = "audit" BY <2>1, <2>2 DEF HandlerSet
  <2>4. \A g \in Handlers \ {h} : handler'[g] = handler[g] BY <2>1, <2>2
  <2> QED BY <2>3, <2>4 DEF Limiter, LimiterTyped
<1>3. /\ bucket \in [Clients -> Seq(Nat)] /\ passed \in [Clients -> Seq(Nat)]
      /\ entered \in Nat /\ swept \in Nat /\ late \in BOOLEAN /\ now \in Nat
      /\ \A d \in Clients : Len(bucket[d]) <= Limit
  BY DEF Limiter, LimiterTyped
<1>4. /\ Swept(t) \in [Clients -> Seq(Nat)]
      /\ \A d \in Clients : Len(Swept(t)[d]) <= Limit
      /\ \A d \in Clients : Swept(t)[d] = bucket[d]
                            \/ (Swept(t)[d] = <<>> /\ Stale(bucket[d], t - Window))
  <2>1. <<>> \in Seq(Nat) /\ Len(<<>>) = 0 OBVIOUS
  <2> QED BY <1>0, <1>3, <2>1 DEF Swept
<1> HIDE DEF t, c
<1>5. b \in Seq(Nat) /\ Len(b) <= Limit /\ (admitted => Len(b) + 1 <= Limit)
  <2>1. Swept(t)[c] \in Seq(Nat) /\ t - Window \in Int BY <1>0, <1>1, <1>4
  <2>2. PICK m \in 0..Len(Swept(t)[c]) : b = SubSeq(Swept(t)[c], m + 1, Len(Swept(t)[c]))
    BY <2>1, RecentIsEnd
  <2>3. b \in Seq(Nat) /\ Len(b) = Len(Swept(t)[c]) - m BY <2>1, <2>2, TheEnd
  <2>4. Len(Swept(t)[c]) <= Limit /\ Len(b) \in Nat /\ Len(Swept(t)[c]) \in Nat
    BY <1>1, <1>4, <2>1, <2>3
  <2> QED BY <1>0, <2>3, <2>4 DEF Admits
<1>6. Append(b, t) \in Seq(Nat) /\ Len(Append(b, t)) = Len(b) + 1 BY <1>1, <1>5
<1> HIDE DEF b, admitted
<1>7. /\ \A d \in Clients \ {c} : bucket'[d] = Swept(t)[d] /\ passed'[d] = passed[d]
      /\ bucket'[c] = (IF admitted THEN Append(b, t) ELSE b)
      /\ passed'[c] = (IF admitted THEN Append(passed[c], t) ELSE passed[c])
  BY <1>1, <1>3, <1>4
<1>8. LimiterTyped'
  <2>1. bucket' \in [Clients -> Seq(Nat)] BY <1>1, <1>4, <1>5, <1>6
  <2>2. passed' \in [Clients -> Seq(Nat)]
    <3>1. Append(passed[c], t) \in Seq(Nat) BY <1>1, <1>3
    <3> QED BY <1>1, <1>3, <3>1
  <2>3. \A d \in Clients : Len(bucket'[d]) <= Limit BY <1>4, <1>5, <1>6, <1>7
  <2>4. late' \in BOOLEAN /\ entered' \in Nat /\ swept' \in Nat BY <1>1, <1>3
  <2> QED BY <1>1, <1>2, <1>3, <2>1, <2>2, <2>3, <2>4 DEF LimiterTyped
<1>9. CASE late' BY <1>8, <1>9 DEF Limiter, InOrder, LimitKept
<1>10. CASE ~late'
  <2>0. ~late /\ ~(t < entered) BY <1>1, <1>10
  <2>1. ~late /\ entered <= t /\ entered' = t BY <1>1, <1>3, <2>0
  <2>2. ASSUME NEW d \in Clients
        PROVE  /\ Rising(passed[d], t)
               /\ \E n : Remembers(Swept(t)[d], passed[d], n, t)
    <3>1. Rising(passed[d], entered) /\ \E n : Remembers(bucket[d], passed[d], n, entered)
      BY <2>1 DEF Limiter, InOrder
    <3>2. PICK n : Remembers(bucket[d], passed[d], n, entered) BY <3>1
    <3>3. passed[d] \in Seq(Nat) /\ bucket[d] \in Seq(Nat) BY <1>3
    <3>4. Rising(passed[d], t)
      <4>1. \A i \in 1..Len(passed[d]) : passed[d][i] \in Nat BY <3>3
      <4> QED BY <1>1, <1>3, <2>1, <3>1, <4>1 DEF Rising
    <3>5. CASE Swept(t)[d] = bucket[d]
      <4>1. Remembers(bucket[d], passed[d], n, t) BY <1>1, <1>3, <2>1, <3>2, <3>3, LaterToo
      <4> QED BY <3>4, <3>5, <4>1
    <3>6. CASE Swept(t)[d] = <<>> /\ Stale(bucket[d], t - Window)
      <4>1. Remembers(<<>>, passed[d], Len(passed[d]), t)
        BY <1>1, <1>3, <2>1, <3>1, <3>2, <3>3, <3>6, SweptForgets
      <4> QED BY <3>4, <3>6, <4>1
    <3> QED BY <1>4, <3>5, <3>6
  <2>3. PICK n : Remembers(b, passed[c], n, t)
    <3>1. PICK l : Remembers(Swept(t)[c], passed[c], l, t) BY <1>1, <2>2
    <3>2. Swept(t)[c] \in Seq(Nat) /\ passed[c] \in Seq(Nat) BY <1>1, <1>3, <1>4
    <3>3. \E n : Remembers(Recent(Swept(t)[c], t - Window), passed[c], n, t)
      BY <1>1, <3>1, <3>2, InWindow
    <3> QED BY <3>3 DEF b
  <2>4. passed[c] \in Seq(Nat) /\ Rising(passed[c], t) BY <1>1, <1>3, <2>2
  <2>5. Rising(passed'[c], t) /\ Remembers(bucket'[c], passed'[c], n, t)
    BY <1>1, <1>5, <1>7, <2>3, <2>4, Joins
  <2>6. InOrder'
    <3> SUFFICES ASSUME NEW d \in Clients
                 PROVE  /\ Rising(passed'[d], entered')
                        /\ \E l : Remembers(bucket'[d], passed'[d], l, entered')
      BY DEF InOrder
    <3>1. CASE d = c BY <2>1, <2>5, <3>1
    <3>2. CASE d # c BY <1>7, <2>1, <2>2, <3>2
    <3> QED BY <3>1, <3>2
  <2>7. LimitKept'
    <3>1. \A d \in Clients : \A i \in 1..Len(passed[d]) : Within(passed[d], i)
      BY <2>1 DEF Limiter, LimitKept, Within
    <3> SUFFICES ASSUME NEW d \in Clients, NEW i \in 1..Len(passed'[d])
                 PROVE  Within(passed'[d], i)
      BY DEF LimitKept, Within
    <3>2. CASE d # c \/ ~admitted
      <4>1. passed'[d] = passed[d] BY <1>7, <3>2
      <4> QED BY <3>1, <4>1
    <3>3. CASE d = c /\ admitted
      <4>0. LET p == Append(passed[c], t) IN
              p \in Seq(Nat) /\ Len(p) = Len(passed[c]) + 1 /\ p[Len(p)] = t /\ p # <<>>
        BY <1>1, <2>4
      <4>1. /\ passed'[c] = Append(passed[c], t) /\ bucket'[c] = Append(b, t)
            /\ Len(passed'[c]) = Len(passed[c]) + 1 /\ passed'[c][Len(passed[c]) + 1] = t
            /\ passed'[c] \in Seq(Nat) /\ bucket'[c] \in Seq(Nat) /\ passed'[c] # <<>>
            /\ Len(bucket'[c]) <= Limit
        BY <1>5, <1>6, <1>7, <3>3, <4>0
      <4>2. CASE i = Len(passed[c]) + 1
        <5>1. Remembers(bucket'[c], passed'[c], n, passed'[c][Len(passed'[c])])
          BY <2>5, <4>1
        <5>2. Within(passed'[c], Len(passed'[c])) BY <4>1, <5>1, FewEnough
        <5> QED BY <3>3, <4>1, <4>2, <5>2
      <4>3. CASE i # Len(passed[c]) + 1
        <5>1. i \in 1..Len(passed[c]) BY <2>4, <3>3, <4>1, <4>3
        <5>2. Within(passed[c], i) BY <1>1, <3>1, <5>1
        <5> QED BY <1>1, <2>4, <3>3, <4>1, <5>1, <5>2, AsBefore
      <4> QED BY <4>2, <4>3
    <3> QED BY <3>2, <3>3
  <2> QED BY <1>8, <2>6, <2>7 DEF Limiter
<1> QED BY <1>9, <1>10

\* The limiter is not asked.
LEMMA LimiterRests ==
    ASSUME Limiter, UNCHANGED <<bucket, swept, passed, entered, late>>, now' \in Nat,
           handler' \in [Handlers -> HandlerSet],
           \A h \in Handlers : handler'[h].at = "limit" => handler'[h].client \in Clients
    PROVE  Limiter'
BY DEF Limiter, LimiterTyped, InOrder, LimitKept

\* An empty limiter has admitted nobody.
LEMMA Nobody ==
    /\ <<>> \in Seq(Nat) /\ Len(<<>>) = 0 /\ Len(<<>>) <= Limit
    /\ Remembers(<<>>, <<>>, 0, 0) /\ Rising(<<>>, 0)
    /\ AtRest \in HandlerSet /\ AtRest.at = "idle"
<1>1. Limit \in Nat BY IngressAssumption
<1>2. <<>> \in Seq(Nat) /\ Len(<<>>) = 0 OBVIOUS
<1>3. AtRest \in HandlerSet /\ AtRest.at = "idle" BY DEF AtRest, HandlerSet, Methods, Texts, Refs
<1>4. Remembers(<<>>, <<>>, 0, 0) /\ Rising(<<>>, 0) BY <1>2 DEF Remembers, Rising
<1> QED BY <1>1, <1>2, <1>3, <1>4

\* The A2A server starts over with an empty limiter.
LEMMA LimiterStops == ASSUME Limiter, IngressDies PROVE Limiter'
<1>1. /\ bucket' = [c \in Clients |-> <<>>] /\ passed' = [c \in Clients |-> <<>>]
      /\ swept' = 0 /\ entered' = 0 /\ late' = FALSE /\ handler' = [h \in Handlers |-> AtRest]
      /\ now' = now
  BY DEF IngressDies
<1>2. \A c \in Clients : bucket'[c] = <<>> /\ passed'[c] = <<>> BY <1>1
<1>3. \A h \in Handlers : handler'[h] = AtRest BY <1>1
<1>4. LimiterTyped' BY <1>1, <1>2, <1>3, Nobody DEF LimiterTyped, Limiter
<1>5. InOrder' BY <1>1, <1>2, Nobody DEF InOrder
<1>6. LimitKept' BY <1>2, Nobody DEF LimitKept
<1> QED BY <1>4, <1>5, <1>6 DEF Limiter

\* And it begins so.
LEMMA InitLimiter == Init => Limiter
<1> SUFFICES ASSUME Init PROVE Limiter
  OBVIOUS
<1>1. /\ bucket = [c \in Clients |-> <<>>] /\ passed = [c \in Clients |-> <<>>]
      /\ swept = 0 /\ entered = 0 /\ late = FALSE /\ handler = [h \in Handlers |-> AtRest]
      /\ now = 0
  BY DEF Init, IngressInit
<1>2. \A c \in Clients : bucket[c] = <<>> /\ passed[c] = <<>> BY <1>1
<1>3. \A h \in Handlers : handler[h] = AtRest BY <1>1
<1>4. LimiterTyped BY <1>1, <1>2, <1>3, Nobody DEF LimiterTyped
<1>5. InOrder BY <1>1, <1>2, Nobody DEF InOrder
<1>6. LimitKept BY <1>2, Nobody DEF LimitKept
<1> QED BY <1>4, <1>5, <1>6 DEF Limiter

\* Every step keeps the limit; what threads hold is Orderly2's.
LEMMA NextLimiter == Limiter /\ Orderly2' /\ [Next]_vars => Limiter'
<1> SUFFICES ASSUME Limiter, Orderly2', [Next]_vars PROVE Limiter'
  OBVIOUS
<1>1. handler' \in [Handlers -> HandlerSet] /\ now' \in Nat BY DEF Orderly2, Threads
<1>2. CASE UNCHANGED ingressVars
  BY <1>1, <1>2, LimiterRests DEF ingressVars, Limiter, LimiterTyped
<1>3. ASSUME NEW h \in Handlers, Post(h) PROVE Limiter'
  <2>1. /\ UNCHANGED <<bucket, swept, passed, entered, late>>
        /\ \E c \in Clients : \E x \in HandlerSet :
             handler' = [handler EXCEPT ![h] = x] /\ (x.at = "limit" => x.client = c)
    <3>1. PICK c \in Clients, m \in Methods, t \in Texts, f \in Refs, v \in BOOLEAN :
            Arrive(h, c, m, t, f, v)
      BY <1>3 DEF Post
    <3>2. handler'[h] \in HandlerSet BY <1>1
    <3>3. handler' = [handler EXCEPT ![h] = handler'[h]] /\ handler'[h].at = "limit" =>
            handler'[h].client = c
      BY <3>1 DEF Arrive, AtRest, Limiter, LimiterTyped
    <3> QED BY <3>1, <3>2, <3>3 DEF Arrive, AtRest, Limiter, LimiterTyped
  <2> QED BY <1>1, <2>1, LimiterRests DEF Limiter, LimiterTyped
<1>4. ASSUME NEW h \in Handlers, Handle(h) PROVE Limiter'
  <2>1. CASE Guard(h) BY <1>1, <2>1, GuardLimits
  <2>2. CASE ~Guard(h)
    <3>1. CASE UNCHANGED ingressVars
      BY <1>1, <2>2, <3>1, LimiterRests DEF ingressVars, Limiter, LimiterTyped
    <3>2. ASSUME (\E b \in BOOLEAN : Audit(h, b)) \/ Refuse(h) \/ Sent(h) \/ GetResults(h)
                 \/ (\E i \in Requests : GetStatus(h, i))
                 \/ (\E s \in 1..Len(sessions), p \in Policies : Send(h, s, TRUE, p))
          PROVE  Limiter'
      <4>1. UNCHANGED <<bucket, swept, passed, entered, late>>
        BY <3>2 DEF Audit, Refuse, Sent, GetResults, GetStatus, Send, Answer
      <4>2. handler[h] \in HandlerSet /\ handler \in [Handlers -> HandlerSet]
        BY DEF Limiter, LimiterTyped
      <4>3. (\A g \in Handlers \ {h} : handler'[g] = handler[g]) /\ handler'[h].at # "limit"
        <5>1. CASE (\E b \in BOOLEAN : Audit(h, b)) \/ Refuse(h) \/ Sent(h) \/ GetResults(h)
          <6>1. \/ handler' = [handler EXCEPT ![h] = AtRest]
                \/ handler' = [handler EXCEPT ![h].at = "dispatch"]
            BY <5>1 DEF Audit, Refuse, Sent, GetResults, Answer
          <6>2. CASE handler' = [handler EXCEPT ![h] = AtRest]
            <7>1. handler'[h] = AtRest /\ \A g \in Handlers \ {h} : handler'[g] = handler[g]
              BY <4>2, <6>2
            <7> QED BY <7>1, Nobody
          <6>3. CASE handler' = [handler EXCEPT ![h].at = "dispatch"]
            BY <4>2, <6>3 DEF HandlerSet
          <6> QED BY <6>1, <6>2, <6>3
        <5>2. ASSUME NEW i \in Requests, GetStatus(h, i)
              PROVE  /\ \A g \in Handlers \ {h} : handler'[g] = handler[g]
                     /\ handler'[h].at # "limit"
          BY <4>2, <5>2 DEF GetStatus, HandlerSet
        <5>3. ASSUME NEW s, NEW p, Send(h, s, TRUE, p)
              PROVE  /\ \A g \in Handlers \ {h} : handler'[g] = handler[g]
                     /\ handler'[h].at # "limit"
          BY <4>2, <5>3 DEF Send, HandlerSet
        <5> QED BY <3>2, <5>1, <5>2, <5>3
      <4> QED BY <1>1, <4>1, <4>3, LimiterRests DEF Limiter, LimiterTyped
    <3> QED BY <1>4, <2>2, <3>1, <3>2 DEF Handle
  <2> QED BY <2>1, <2>2
<1>5. CASE ClockTicks BY <1>1, <1>5, LimiterRests DEF ClockTicks, Tick, Limiter, LimiterTyped
<1>6. CASE IngressDies BY <1>6, LimiterStops
<1>7. Next => \/ UNCHANGED ingressVars \/ ClockTicks \/ IngressDies
              \/ \E h \in Handlers : Post(h) \/ Handle(h)
  BY DEF Next, RegisterRun, AckReview, Resume, Escalate, AskClarification, Work, Answers,
         LaunchRun, SaveFinal, ReapRuns, WriteEvent, WriteNote, SkipLine, Append1, ParkOrphan,
         Lands, CreateTask, IngestResult, AckItem, GuestWorks, GuestComes, DaemonDies,
         DaemonStarts
<1> QED BY <1>2, <1>3, <1>4, <1>5, <1>6, <1>7 DEF vars

\* No client is admitted more often in a window than the limit says, as long as threads
\* enter the limiter in the order in which they read the clock (RateLimiter.check).
THEOREM LimitHolds == Spec => []LimitKept
<1>2. Limiter => LimitKept BY DEF Limiter
<1> QED BY <1>2, InitOrderly2, NextOrderly2, InitLimiter, NextLimiter, PTL DEF Spec
-------------------------------------------------------------------------------
(* The session log of one run: stores st, lines lg, numbers drawn wr *)

StoreSet == [count : Nat, seen : Nat, reread : BOOLEAN]
LineSet == [seq : Nat, store : Nat, read : Nat]
WriteSet == [by : Writers, run : Runs, store : Nat, seq : Nat \ {0}, read : Nat]

Rises(lg) == \A a, b \in 1..Len(lg) : a < b => lg[a].seq <= lg[b].seq
LastOf(lg) == IF lg = <<>> THEN 0 ELSE lg[Len(lg)].seq

\* There is room for what is drawn; lines are of stores that exist, and nobody has read
\* more than there is.
Filled(st, lg, wr) ==
    /\ st \in Seq(StoreSet) /\ lg \in Seq(LineSet)
    /\ wr \subseteq WriteSet /\ IsFiniteSet(wr)
    /\ Len(lg) + Cardinality(wr) <= MaxLines
    /\ \A i \in 1..Len(st) : st[i].seen <= Len(lg)
    /\ \A a \in 1..Len(lg) : lg[a].store \in 0..Len(st) /\ lg[a].read < a
    /\ \A w \in wr : w.store \in 0..Len(st) /\ w.read <= Len(lg)

\* A store whose counter was never set back gave each number once.
Once1(st, lg, wr, s) ==
    /\ \A a \in 1..Len(lg) : lg[a].store = s => lg[a].seq <= st[s].count
    /\ \A a, b \in 1..Len(lg) : lg[a].store = s /\ lg[b].store = s /\ a < b =>
         lg[a].seq # lg[b].seq
    /\ \A w \in wr : w.store = s =>
         /\ w.seq <= st[s].count
         /\ \A a \in 1..Len(lg) : lg[a].store = s => lg[a].seq # w.seq
    /\ \A v, w \in wr : v.store = s /\ w.store = s /\ v.seq = w.seq => v = w

\* Whoever has read a line numbers above it: a store, what is drawn, what is written.
Above(st, lg, wr) ==
    /\ \A t \in 1..Len(st) : \A a \in 1..st[t].seen : lg[a].seq <= st[t].count
    /\ \A w \in wr : \A a \in 1..w.read : lg[a].seq < w.seq
    /\ \A b \in 1..Len(lg) : \A a \in 1..lg[b].read : lg[a].seq < lg[b].seq

Numbered(st, lg, wr) ==
    /\ Filled(st, lg, wr)
    /\ \A s \in 1..Len(st) : ~st[s].reread => Once1(st, lg, wr, s)
    /\ Rises(lg) => Above(st, lg, wr)

\* The last line of a log whose numbers rise has the highest.
LEMMA LastIsHighest ==
    ASSUME NEW lg \in Seq(LineSet)
    PROVE  /\ LastOf(lg) \in Nat
           /\ Rises(lg) => \A a \in 1..Len(lg) : lg[a].seq <= LastOf(lg)
<1>1. Len(lg) \in Nat /\ \A a \in 1..Len(lg) : lg[a].seq \in Nat
  <2>1. \A a \in 1..Len(lg) : lg[a] \in LineSet BY At
  <2> QED BY <2>1 DEF LineSet
<1>2. lg # <<>> => Len(lg) \in 1..Len(lg) BY <1>1
<1>3. LastOf(lg) \in Nat BY <1>1, <1>2 DEF LastOf
<1>4. ASSUME Rises(lg), NEW a \in 1..Len(lg) PROVE lg[a].seq <= LastOf(lg)
  <2>1. lg # <<>> /\ Len(lg) \in 1..Len(lg) BY <1>1, <1>4
  <2>2. CASE a = Len(lg) BY <1>1, <2>1, <2>2 DEF LastOf
  <2>3. CASE a < Len(lg) BY <1>4, <2>1, <2>3 DEF LastOf, Rises
  <2> QED BY <1>1, <2>2, <2>3
<1> QED BY <1>3, <1>4

\* What the parts of a log are made of.
LEMMA Made ==
    ASSUME NEW st, NEW lg, NEW wr, Numbered(st, lg, wr)
    PROVE  /\ st \in Seq(StoreSet) /\ Len(st) \in Nat /\ lg \in Seq(LineSet) /\ Len(lg) \in Nat
           /\ \A i \in 1..Len(st) : /\ st[i] \in StoreSet /\ st[i].count \in Nat
                                    /\ st[i].seen \in 0..Len(lg)
           /\ \A a \in 1..Len(lg) : /\ lg[a].store \in 0..Len(st) /\ lg[a].seq \in Nat
                                    /\ lg[a].read \in 0..(a - 1)
           /\ \A w \in wr : /\ w.store \in 0..Len(st) /\ w.seq \in Nat \ {0}
                            /\ w.read \in 0..Len(lg)
           /\ LastOf(lg) \in Nat
           /\ Rises(lg) => \A a \in 1..Len(lg) : lg[a].seq <= LastOf(lg)
<1>1. /\ st \in Seq(StoreSet) /\ Len(st) \in Nat /\ lg \in Seq(LineSet) /\ Len(lg) \in Nat
      /\ wr \subseteq WriteSet
  BY DEF Numbered, Filled
<1>2. (\A i \in 1..Len(st) : st[i] \in StoreSet) /\ \A a \in 1..Len(lg) : lg[a] \in LineSet
  BY <1>1, At
<1>3. /\ \A i \in 1..Len(st) : st[i].count \in Nat /\ st[i].seen \in Nat
      /\ \A a \in 1..Len(lg) : lg[a].seq \in Nat /\ lg[a].read \in Nat
      /\ \A w \in wr : w.seq \in Nat \ {0} /\ w.read \in Nat
  BY <1>1, <1>2 DEF StoreSet, LineSet, WriteSet
<1>4. /\ \A i \in 1..Len(st) : st[i].seen <= Len(lg)
      /\ \A a \in 1..Len(lg) : lg[a].store \in 0..Len(st) /\ lg[a].read < a
      /\ \A w \in wr : w.store \in 0..Len(st) /\ w.read <= Len(lg)
  BY DEF Numbered, Filled
<1>5. \A i \in 1..Len(st) : st[i].seen \in 0..Len(lg) BY <1>1, <1>3, <1>4
<1>6. \A a \in 1..Len(lg) : lg[a].read \in 0..(a - 1)
  <2> SUFFICES ASSUME NEW a \in 1..Len(lg) PROVE lg[a].read \in 0..(a - 1)
    OBVIOUS
  <2>1. a \in Nat /\ lg[a].read \in Nat /\ lg[a].read < a BY <1>1, <1>3, <1>4
  <2> QED BY <2>1
<1>7. \A w \in wr : w.read \in 0..Len(lg) BY <1>1, <1>3, <1>4
<1>8. LastOf(lg) \in Nat /\ (Rises(lg) => \A a \in 1..Len(lg) : lg[a].seq <= LastOf(lg))
  BY <1>1, LastIsHighest
<1> QED BY <1>1, <1>2, <1>3, <1>4, <1>5, <1>6, <1>7, <1>8

\* A store that has just read the whole log.
HasRead(lg, again) == [count |-> LastOf(lg), seen |-> Len(lg), reread |-> again]

\* A store is opened, its counter at the last number of the log.
LEMMA Opens ==
    ASSUME NEW st, NEW lg, NEW wr, Numbered(st, lg, wr)
    PROVE  Numbered(Append(st, HasRead(lg, FALSE)), lg, wr)
<1> DEFINE new == HasRead(lg, FALSE)
<1> DEFINE n == Len(st) + 1
<1> DEFINE ss == Append(st, new)
<1>0. /\ st \in Seq(StoreSet) /\ Len(st) \in Nat /\ Len(lg) \in Nat /\ LastOf(lg) \in Nat
      /\ Rises(lg) => \A a \in 1..Len(lg) : lg[a].seq <= LastOf(lg)
      /\ \A a \in 1..Len(lg) : lg[a].store \in 0..Len(st)
      /\ \A w \in wr : w.store \in 0..Len(st)
  BY Made
<1>1. new \in StoreSet /\ new.count = LastOf(lg) /\ new.seen = Len(lg) /\ ~new.reread
  BY <1>0 DEF StoreSet, HasRead
<1> HIDE DEF new
<1>2. /\ ss \in Seq(StoreSet) /\ Len(ss) = n /\ ss[n] = new
      /\ \A i \in 1..Len(st) : ss[i] = st[i]
  BY <1>0, <1>1
<1> HIDE DEF ss
<1>3. \A i \in 1..Len(ss) : i = n \/ (i \in 1..Len(st) /\ ss[i] = st[i]) BY <1>0, <1>2
<1>4. Filled(ss, lg, wr)
  <2>1. \A i \in 1..Len(ss) : ss[i].seen <= Len(lg)
    BY <1>0, <1>1, <1>2, <1>3 DEF Numbered, Filled
  <2>2. /\ \A a \in 1..Len(lg) : lg[a].store \in 0..Len(ss)
        /\ \A w \in wr : w.store \in 0..Len(ss)
    BY <1>0, <1>2
  <2> QED BY <1>2, <2>1, <2>2 DEF Numbered, Filled
<1>5. ASSUME NEW s \in 1..Len(ss), ~ss[s].reread PROVE Once1(ss, lg, wr, s)
  <2>1. CASE s = n
    <3>1. \A a \in 1..Len(lg) : lg[a].store # s BY <1>0, <2>1
    <3>2. \A w \in wr : w.store # s BY <1>0, <2>1
    <3> QED BY <3>1, <3>2 DEF Once1
  <2>2. CASE s # n
    <3>1. s \in 1..Len(st) /\ ss[s] = st[s] BY <1>3, <2>2
    <3>2. Once1(st, lg, wr, s) BY <1>5, <3>1 DEF Numbered
    <3> QED BY <3>1, <3>2 DEF Once1
  <2> QED BY <2>1, <2>2
<1>6. ASSUME Rises(lg) PROVE Above(ss, lg, wr)
  <2>1. Above(st, lg, wr) BY <1>6 DEF Numbered
  <2>2. ASSUME NEW t \in 1..Len(ss), NEW a \in 1..ss[t].seen PROVE lg[a].seq <= ss[t].count
    <3>1. CASE t = n BY <1>0, <1>1, <1>2, <1>6, <2>2, <3>1
    <3>2. CASE t # n
      <4>1. t \in 1..Len(st) /\ ss[t] = st[t] BY <1>3, <3>2
      <4> QED BY <2>1, <2>2, <4>1 DEF Above
    <3> QED BY <3>1, <3>2
  <2> QED BY <2>1, <2>2 DEF Above
<1>7. Numbered(ss, lg, wr) BY <1>4, <1>5, <1>6 DEF Numbered
<1> QED BY <1>7 DEF ss, new

\* Fewer numbers are left to write: those of a process that dies are never written.
LEMMA Drops ==
    ASSUME NEW st, NEW lg, NEW wr, Numbered(st, lg, wr), NEW some \in SUBSET wr
    PROVE  Numbered(st, lg, some)
<1>1. Filled(st, lg, some)
  <2>1. IsFiniteSet(wr) /\ Len(lg) + Cardinality(wr) <= MaxLines BY DEF Numbered, Filled
  <2>2. IsFiniteSet(some) /\ Cardinality(some) <= Cardinality(wr) BY <2>1, FS_Subset
  <2>3. /\ Cardinality(wr) \in Nat /\ Cardinality(some) \in Nat /\ Len(lg) \in Nat
        /\ MaxLines \in Nat
    BY <2>1, <2>2, FS_CardinalityType, RunSessionsAssumption DEF Numbered, Filled
  <2>4. Len(lg) + Cardinality(some) <= MaxLines BY <2>1, <2>2, <2>3
  <2> QED BY <2>2, <2>4 DEF Numbered, Filled
<1>2. \A s : Once1(st, lg, wr, s) => Once1(st, lg, some, s) BY DEF Once1
<1>3. Above(st, lg, wr) => Above(st, lg, some) BY DEF Above
<1> QED BY <1>1, <1>2, <1>3 DEF Numbered

\* A number is drawn through store s, or through none.
LEMMA Draws ==
    ASSUME NEW st, NEW lg, NEW wr, Numbered(st, lg, wr), NEW s \in 0..Len(st),
           Len(lg) + Cardinality(wr) < MaxLines,
           NEW by \in Writers, NEW r \in Runs
    PROVE  LET n == IF s = NoStore THEN LastOf(lg) + 1 ELSE st[s].count + 1 IN
           LET k == IF s = NoStore THEN Len(lg) ELSE st[s].seen IN
           Numbered(IF s = NoStore THEN st ELSE [st EXCEPT ![s].count = n], lg,
                    wr \cup {[by |-> by, run |-> r, store |-> s, seq |-> n, read |-> k]})
<1> DEFINE n == IF s = NoStore THEN LastOf(lg) + 1 ELSE st[s].count + 1
<1> DEFINE k == IF s = NoStore THEN Len(lg) ELSE st[s].seen
<1> DEFINE new == [by |-> by, run |-> r, store |-> s, seq |-> n, read |-> k]
<1> DEFINE ss == IF s = NoStore THEN st ELSE [st EXCEPT ![s].count = n]
<1> DEFINE more == wr \cup {new}
<1>0. /\ st \in Seq(StoreSet) /\ Len(st) \in Nat /\ Len(lg) \in Nat /\ LastOf(lg) \in Nat
      /\ Rises(lg) => \A a \in 1..Len(lg) : lg[a].seq <= LastOf(lg)
      /\ \A i \in 1..Len(st) : /\ st[i] \in StoreSet /\ st[i].count \in Nat
                                /\ st[i].seen \in 0..Len(lg)
  BY Made
<1>1. /\ \A a \in 1..Len(lg) : lg[a].store \in 0..Len(st) /\ lg[a].seq \in Nat
      /\ \A w \in wr : w.store \in 0..Len(st) /\ w.seq \in Nat
  BY Made
<1>2. /\ n \in Nat \ {0} /\ k \in 0..Len(lg)
      /\ s # NoStore => n = st[s].count + 1 /\ k = st[s].seen /\ s \in 1..Len(st)
      /\ s = NoStore => n = LastOf(lg) + 1 /\ k = Len(lg)
  BY <1>0 DEF NoStore
<1> HIDE DEF n, k
<1>3. new.store = s /\ new.seq = n /\ new.read = k /\ new \in WriteSet
  BY <1>0, <1>2 DEF WriteSet
<1> HIDE DEF new
<1>4. /\ ss \in Seq(StoreSet) /\ Len(ss) = Len(st)
      /\ \A i \in 1..Len(st) : /\ ss[i].seen = st[i].seen /\ ss[i].reread = st[i].reread
                                /\ ss[i].count = IF i = s THEN n ELSE st[i].count
  <2>1. CASE s = NoStore BY <1>0, <2>1 DEF NoStore
  <2>2. CASE s # NoStore
    <3>1. s \in 1..Len(st) /\ st[s] \in StoreSet BY <1>0, <1>2, <2>2
    <3>2. [st[s] EXCEPT !.count = n] \in StoreSet BY <1>2, <3>1 DEF StoreSet
    <3>3. ss = [st EXCEPT ![s] = [st[s] EXCEPT !.count = n]] BY <2>2
    <3>4. /\ [st[s] EXCEPT !.count = n].seen = st[s].seen
          /\ [st[s] EXCEPT !.count = n].reread = st[s].reread
          /\ [st[s] EXCEPT !.count = n].count = n
      BY <3>1 DEF StoreSet
    <3> HIDE DEF ss
    <3>5. /\ ss \in Seq(StoreSet) /\ Len(ss) = Len(st)
          /\ ss[s] = [st[s] EXCEPT !.count = n]
          /\ \A i \in 1..Len(st) \ {s} : ss[i] = st[i]
      BY <1>0, <3>1, <3>2, <3>3, Replaced
    <3> QED BY <1>0, <3>1, <3>4, <3>5
  <2> QED BY <2>1, <2>2
<1> HIDE DEF ss
<1>5. Filled(ss, lg, more)
  <2>1. IsFiniteSet(more) /\ Cardinality(more) <= Cardinality(wr) + 1 /\ Cardinality(wr) \in Nat
        /\ Cardinality(more) \in Nat
    <3>1. IsFiniteSet(wr) BY DEF Numbered, Filled
    <3>2. /\ IsFiniteSet(more)
          /\ Cardinality(more) = IF new \in wr THEN Cardinality(wr) ELSE Cardinality(wr) + 1
      BY <3>1, FS_AddElement
    <3>3. Cardinality(wr) \in Nat BY <3>1, FS_CardinalityType
    <3> QED BY <3>2, <3>3
  <2>2. Len(lg) + Cardinality(more) <= MaxLines BY <1>0, <2>1, RunSessionsAssumption
  <2>3. \A w \in more : w.store \in 0..Len(ss) /\ w.read <= Len(lg)
    BY <1>0, <1>2, <1>3, <1>4 DEF Numbered, Filled
  <2>4. more \subseteq WriteSet BY <1>3 DEF Numbered, Filled
  <2>5. /\ \A i \in 1..Len(ss) : ss[i].seen <= Len(lg)
        /\ \A a \in 1..Len(lg) : lg[a].store \in 0..Len(ss) /\ lg[a].read < a
    BY <1>4 DEF Numbered, Filled
  <2> QED BY <1>4, <2>1, <2>2, <2>3, <2>4, <2>5 DEF Numbered, Filled
<1>6. ASSUME NEW i \in 1..Len(ss), ~ss[i].reread PROVE Once1(ss, lg, more, i)
  <2>1. i \in 1..Len(st) /\ Once1(st, lg, wr, i) BY <1>4, <1>6 DEF Numbered
  <2>2. CASE i # s
    <3>1. ss[i].count = st[i].count BY <1>4, <2>1, <2>2
    <3> QED BY <1>3, <2>1, <2>2, <3>1 DEF Once1
  <2>3. CASE i = s
    <3>1. ss[i].count = n /\ n = st[i].count + 1 /\ st[i].count \in Nat
      BY <1>0, <1>2, <1>4, <2>1, <2>3 DEF NoStore
    <3>2. \A a \in 1..Len(lg) : lg[a].store = i => lg[a].seq < n BY <1>1, <2>1, <3>1 DEF Once1
    <3>3. \A w \in wr : w.store = i => w.seq < n BY <1>1, <2>1, <3>1 DEF Once1
    <3>4. \A a \in 1..Len(lg) : lg[a].store = i => lg[a].seq <= n BY <1>1, <1>2, <3>2
    <3>5. ASSUME NEW w \in more, w.store = i
          PROVE  w.seq <= n /\ \A a \in 1..Len(lg) : lg[a].store = i => lg[a].seq # w.seq
      <4>1. CASE w = new BY <1>1, <1>2, <1>3, <3>2, <4>1
      <4>2. CASE w \in wr BY <1>1, <1>2, <2>1, <3>3, <3>5, <4>2 DEF Once1
      <4> QED BY <4>1, <4>2
    <3>6. ASSUME NEW v \in more, NEW w \in more, v.store = i, w.store = i, v.seq = w.seq
          PROVE  v = w
      <4>1. v = new \/ (v \in wr /\ v.seq < n) BY <3>3, <3>6
      <4>2. w = new \/ (w \in wr /\ w.seq < n) BY <3>3, <3>6
      <4>3. v = w \/ (v \in wr /\ w \in wr) BY <1>1, <1>2, <1>3, <3>6, <4>1, <4>2
      <4> QED BY <2>1, <3>6, <4>3 DEF Once1
    <3>7. \A a, b \in 1..Len(lg) : lg[a].store = i /\ lg[b].store = i /\ a < b =>
            lg[a].seq # lg[b].seq
      BY <2>1 DEF Once1
    <3> QED BY <3>1, <3>4, <3>5, <3>6, <3>7 DEF Once1
  <2> QED BY <2>2, <2>3
<1>7. ASSUME Rises(lg) PROVE Above(ss, lg, more)
  <2>1. Above(st, lg, wr) BY <1>7 DEF Numbered
  <2>2. ASSUME NEW t \in 1..Len(ss), NEW a \in 1..ss[t].seen PROVE lg[a].seq <= ss[t].count
    <3>1. t \in 1..Len(st) /\ a \in 1..st[t].seen BY <1>4, <2>2
    <3>2. lg[a].seq <= st[t].count /\ a \in 1..Len(lg) BY <1>0, <2>1, <3>1 DEF Above
    <3>3. lg[a].seq \in Nat /\ st[t].count \in Nat BY <1>0, <1>1, <3>1, <3>2
    <3> QED BY <1>2, <1>4, <3>1, <3>2, <3>3 DEF NoStore
  <2>3. ASSUME NEW a \in 1..k PROVE lg[a].seq < n
    <3>1. a \in 1..Len(lg) /\ lg[a].seq \in Nat BY <1>0, <1>1, <1>2, <2>3
    <3>2. CASE s = NoStore BY <1>0, <1>2, <1>7, <3>1, <3>2
    <3>3. CASE s # NoStore
      <4>1. a \in 1..st[s].seen /\ s \in 1..Len(st) BY <1>2, <2>3, <3>3
      <4>2. lg[a].seq <= st[s].count /\ st[s].count \in Nat BY <1>0, <2>1, <4>1 DEF Above
      <4> QED BY <1>2, <3>1, <3>3, <4>2
    <3> QED BY <3>2, <3>3
  <2> QED BY <1>3, <2>1, <2>2, <2>3 DEF Above
<1>8. Numbered(ss, lg, more) BY <1>5, <1>6, <1>7 DEF Numbered
<1> QED BY <1>8 DEF ss, new, n, k

\* The line of a number.
LineOf(w) == [seq |-> w.seq, store |-> w.store, read |-> w.read]

\* A line whose number was drawn is written.
LEMMA Landed ==
    ASSUME NEW st, NEW lg, NEW wr, Numbered(st, lg, wr), NEW w \in wr
    PROVE  Numbered(st, Append(lg, LineOf(w)), wr \ {w})
<1> DEFINE new == LineOf(w)
<1> DEFINE n == Len(lg) + 1
<1> DEFINE more == Append(lg, new)
<1> DEFINE rest == wr \ {w}
<1>1. /\ w.store \in 0..Len(st) /\ w.seq \in Nat /\ w.read \in 0..Len(lg)
      /\ Len(st) \in Nat /\ lg \in Seq(LineSet) /\ Len(lg) \in Nat
      /\ \A i \in 1..Len(st) : st[i].seen \in 0..Len(lg)
      /\ \A a \in 1..Len(lg) : lg[a].store \in 0..Len(st) /\ lg[a].read \in 0..(a - 1)
      /\ \A v \in wr : v.read \in 0..Len(lg)
  BY Made
<1>2. new \in LineSet /\ new.seq = w.seq /\ new.store = w.store /\ new.read = w.read
  BY <1>1 DEF LineSet, LineOf
<1> HIDE DEF new
<1>3. /\ more \in Seq(LineSet) /\ Len(more) = n
      /\ more[n] = new /\ \A a \in 1..Len(lg) : more[a] = lg[a]
  BY <1>1, <1>2
<1> HIDE DEF more
<1>4. \A a \in 1..Len(more) : a = n \/ (a \in 1..Len(lg) /\ more[a] = lg[a])
  BY <1>1, <1>3
<1>5. Filled(st, more, rest)
  <2>1. IsFiniteSet(wr) /\ Cardinality(wr) \in Nat BY FS_CardinalityType DEF Numbered, Filled
  <2>2. IsFiniteSet(rest) /\ Cardinality(rest) = Cardinality(wr) - 1 BY <2>1, FS_RemoveElement
  <2>3. Len(lg) + Cardinality(wr) <= MaxLines /\ MaxLines \in Nat
    BY RunSessionsAssumption DEF Numbered, Filled
  <2>4. Len(more) + Cardinality(rest) <= MaxLines BY <1>1, <1>3, <2>1, <2>2, <2>3
  <2>5. \A a \in 1..Len(more) : more[a].store \in 0..Len(st) /\ more[a].read < a
    BY <1>1, <1>2, <1>3, <1>4
  <2>6. /\ \A i \in 1..Len(st) : st[i].seen <= Len(more)
        /\ \A v \in rest : v.read <= Len(more)
    BY <1>1, <1>3
  <2> QED BY <1>3, <2>2, <2>4, <2>5, <2>6 DEF Numbered, Filled
<1>6. ASSUME NEW s \in 1..Len(st), ~st[s].reread PROVE Once1(st, more, rest, s)
  <2>1. Once1(st, lg, wr, s) BY <1>6 DEF Numbered
  <2>2. w.store = s => /\ w.seq <= st[s].count
                       /\ \A a \in 1..Len(lg) : lg[a].store = s => lg[a].seq # w.seq
                       /\ \A v \in rest : v.store = s => v.seq # w.seq
    BY <2>1 DEF Once1
  <2>3. \A a \in 1..Len(more) : more[a].store = s => more[a].seq <= st[s].count
    BY <1>2, <1>3, <1>4, <2>1, <2>2 DEF Once1
  <2>4. ASSUME NEW a \in 1..Len(more), NEW b \in 1..Len(more), more[a].store = s,
               more[b].store = s, a < b
        PROVE  more[a].seq # more[b].seq
    <3>1. a \in 1..Len(lg) /\ more[a] = lg[a] BY <1>1, <1>3, <1>4, <2>4
    <3>2. CASE b = n BY <1>2, <1>3, <2>2, <2>4, <3>1, <3>2
    <3>3. CASE b # n
      <4>1. b \in 1..Len(lg) /\ more[b] = lg[b] BY <1>4, <3>3
      <4> QED BY <2>1, <2>4, <3>1, <4>1 DEF Once1
    <3> QED BY <3>2, <3>3
  <2>5. \A v \in rest : v.store = s =>
          v.seq <= st[s].count /\ \A a \in 1..Len(more) : more[a].store = s => more[a].seq # v.seq
    BY <1>2, <1>3, <1>4, <2>1, <2>2 DEF Once1
  <2>6. \A u, v \in rest : u.store = s /\ v.store = s /\ u.seq = v.seq => u = v
    BY <2>1 DEF Once1
  <2> QED BY <2>3, <2>4, <2>5, <2>6 DEF Once1
<1>7. ASSUME Rises(more) PROVE Above(st, more, rest)
  <2>1. Rises(lg)
    <3> SUFFICES ASSUME NEW a \in 1..Len(lg), NEW b \in 1..Len(lg), a < b
                 PROVE  lg[a].seq <= lg[b].seq
      BY DEF Rises
    <3>1. a \in 1..Len(more) /\ b \in 1..Len(more) BY <1>1, <1>3
    <3>2. more[a].seq <= more[b].seq BY <1>7, <3>1 DEF Rises
    <3> QED BY <1>3, <3>2
  <2>2. Above(st, lg, wr) BY <2>1 DEF Numbered
  <2>3. \A t \in 1..Len(st) : \A a \in 1..st[t].seen : more[a].seq <= st[t].count
    <3> SUFFICES ASSUME NEW t \in 1..Len(st), NEW a \in 1..st[t].seen
                 PROVE  more[a].seq <= st[t].count
      OBVIOUS
    <3>1. a \in 1..Len(lg) BY <1>1
    <3> QED BY <1>3, <2>2, <3>1 DEF Above
  <2>4. \A v \in rest : \A a \in 1..v.read : more[a].seq < v.seq
    <3> SUFFICES ASSUME NEW v \in rest, NEW a \in 1..v.read PROVE more[a].seq < v.seq
      OBVIOUS
    <3>1. a \in 1..Len(lg) BY <1>1
    <3> QED BY <1>3, <2>2, <3>1 DEF Above
  <2>5. ASSUME NEW b \in 1..Len(more), NEW a \in 1..more[b].read PROVE more[a].seq < more[b].seq
    <3>1. CASE b = n
      <4>1. a \in 1..w.read /\ a \in 1..Len(lg) BY <1>1, <1>2, <1>3, <2>5, <3>1
      <4>2. lg[a].seq < w.seq BY <2>2, <4>1 DEF Above
      <4> QED BY <1>2, <1>3, <3>1, <4>1, <4>2
    <3>2. CASE b # n
      <4>1. b \in 1..Len(lg) /\ more[b] = lg[b] BY <1>4, <3>2
      <4>2. a \in 1..lg[b].read /\ a \in 1..Len(lg) BY <1>1, <2>5, <4>1
      <4> QED BY <1>3, <2>2, <4>1, <4>2 DEF Above
    <3> QED BY <3>1, <3>2
  <2> QED BY <2>3, <2>4, <2>5 DEF Above
<1>8. Numbered(st, more, rest) BY <1>5, <1>6, <1>7 DEF Numbered
<1> QED BY <1>8 DEF more, new

\* A store reads the log a second time.
LEMMA SetsBack ==
    ASSUME NEW st, NEW lg, NEW wr, Numbered(st, lg, wr), NEW s
    PROVE  Numbered([st EXCEPT ![s] = HasRead(lg, TRUE)], lg, wr)
<1> DEFINE v == HasRead(lg, TRUE)
<1> DEFINE ss == [st EXCEPT ![s] = v]
<1>0. /\ st \in Seq(StoreSet) /\ Len(st) \in Nat /\ Len(lg) \in Nat /\ LastOf(lg) \in Nat
      /\ Rises(lg) => \A a \in 1..Len(lg) : lg[a].seq <= LastOf(lg)
      /\ \A i \in 1..Len(st) : st[i].seen \in 0..Len(lg)
  BY Made
<1>1. CASE s \notin 1..Len(st)
  <2> HIDE DEF v
  <2>1. ss = st BY <1>0, <1>1
  <2> QED BY <2>1 DEF v
<1>2. CASE s \in 1..Len(st)
  <2>1. v \in StoreSet /\ v.count = LastOf(lg) /\ v.seen = Len(lg) /\ v.reread
    BY <1>0 DEF StoreSet, HasRead
  <2> HIDE DEF v
  <2>2. /\ ss \in Seq(StoreSet) /\ Len(ss) = Len(st) /\ ss[s] = v
        /\ \A i \in 1..Len(st) \ {s} : ss[i] = st[i]
    BY <1>0, <1>2, <2>1, Replaced
  <2> HIDE DEF ss
  <2>3. Filled(ss, lg, wr)
    <3>1. \A i \in 1..Len(ss) : ss[i].seen <= Len(lg) BY <1>0, <2>1, <2>2
    <3>2. /\ \A a \in 1..Len(lg) : lg[a].store \in 0..Len(ss)
          /\ \A w \in wr : w.store \in 0..Len(ss)
      BY <2>2 DEF Numbered, Filled
    <3> QED BY <2>2, <3>1, <3>2 DEF Numbered, Filled
  <2>4. ASSUME NEW i \in 1..Len(ss), ~ss[i].reread PROVE Once1(ss, lg, wr, i)
    <3>1. i \in 1..Len(st) /\ ss[i] = st[i] BY <2>1, <2>2, <2>4
    <3>2. Once1(st, lg, wr, i) BY <2>4, <3>1 DEF Numbered
    <3> QED BY <3>1, <3>2 DEF Once1
  <2>5. ASSUME Rises(lg) PROVE Above(ss, lg, wr)
    <3>1. Above(st, lg, wr) BY <2>5 DEF Numbered
    <3>2. ASSUME NEW t \in 1..Len(ss), NEW a \in 1..ss[t].seen PROVE lg[a].seq <= ss[t].count
      <4>1. CASE t = s
        <5>1. ss[t].seen = Len(lg) /\ ss[t].count = LastOf(lg) BY <2>1, <2>2, <4>1
        <5> QED BY <1>0, <2>5, <3>2, <5>1
      <4>2. CASE t # s
        <5>1. t \in 1..Len(st) /\ ss[t] = st[t] BY <2>2, <4>2
        <5> QED BY <3>1, <3>2, <5>1 DEF Above
      <4> QED BY <4>1, <4>2
    <3> QED BY <3>1, <3>2 DEF Above
  <2>6. Numbered(ss, lg, wr) BY <2>3, <2>4, <2>5 DEF Numbered
  <2> QED BY <2>6 DEF ss, v
<1> QED BY <1>1, <1>2
-------------------------------------------------------------------------------
(* The runs, their sessions and their logs, the guests *)

RunSet ==
    [where : {"nowhere", "live", "ended", "left"}, top : TopState,
     mode : {"daemon", "foreground"}, session : Nat, entry : Nat, cached : Nat, job : 0..2,
     jobStore : Nat]

GuestSet ==
    [as : {"nobody", "foreground", "recovery", "job"}, run : Runs \cup {NoRun}, store : Nat,
     due : 0..2]

Kept ==
    /\ sessions \in Seq({"active", "closed"}) /\ run \in [Runs -> RunSet]
    /\ stores \in [Runs -> Seq(StoreSet)] /\ log \in [Runs -> Seq(LineSet)]
    /\ writing \subseteq WriteSet /\ guest \in [Guests -> GuestSet]
    /\ up \in BOOLEAN /\ life \in Nat \ {0}

\* What is held of a run exists.
Usable(st, s) == s \in 0..Len(st)
Placed(v, st, n) ==
    /\ v.session \in 0..n
    /\ \A s \in {v.entry, v.cached, v.jobStore} : Usable(st, s)
    /\ v.where # "nowhere" => v.session # 0 /\ st # <<>>
Hosted(g) ==
    guest[g] = Away \/ /\ guest[g].as # "nobody" /\ guest[g].run \in Runs
                       /\ Usable(stores[guest[g].run], guest[g].store)

LinesOf(r) == {w \in writing : w.run = r}

\* A daemon that is down holds nothing; its guests may.
Quiet ==
    up \/ /\ Registered = {} /\ \A w \in writing : w.by \in Guests
          /\ \A r \in Runs : /\ run[r].entry = NoStore /\ run[r].cached = NoStore
                             /\ run[r].job = 0 /\ run[r].jobStore = NoStore

Settled1(r) == Placed(run[r], stores[r], Len(sessions))
Sound1(r) == Numbered(stores[r], log[r], LinesOf(r))

Housed ==
    /\ Kept /\ Quiet /\ FreshRunHasOpenSession
    /\ \A r \in Runs : Settled1(r) /\ Sound1(r)
    /\ \A g \in Guests : Hosted(g)

\* What exists stays.
Stay ==
    /\ Len(sessions') >= Len(sessions)
    /\ \A r \in Runs : Len(stores'[r]) >= Len(stores[r]) /\ (OnDisk(r) => OnDisk(r)')

\* Whoever comes, goes or works on is placed.
Received == guest' \in [Guests -> GuestSet] /\ \A g \in Guests : guest'[g] = guest[g] \/ Hosted(g)'

\* A step that concerns one run; of others at most numbers are dropped.
LEMMA RunMoves ==
    ASSUME Housed, NEW r \in Runs, Quiet', UNCHANGED life, Kept', Received,
           \A q \in Runs \ {r} : /\ run'[q] = run[q] /\ stores'[q] = stores[q]
                                 /\ log'[q] = log[q] /\ LinesOf(q)' \in SUBSET LinesOf(q),
           Len(sessions') >= Len(sessions),
           \A i \in 1..Len(sessions) : sessions'[i] = sessions[i],
           Settled1(r)', Sound1(r)', OnDisk(r) => OnDisk(r)',
           Len(stores'[r]) >= Len(stores[r]),
           r \in Registered' /\ run'[r].entry = 1 => sessions'[run'[r].session] = "active"
    PROVE  Housed' /\ Stay
<1>2. \A q \in Runs \ {r} : Settled1(q)'
  <2>1. Len(sessions) \in Nat /\ Len(sessions') \in Nat BY DEF Housed, Kept
  <2> SUFFICES ASSUME NEW q \in Runs \ {r} PROVE Settled1(q)'
    OBVIOUS
  <2>2. Placed(run[q], stores[q], Len(sessions)) BY DEF Housed, Settled1
  <2>3. run[q].session \in 0..Len(sessions') BY <2>1, <2>2 DEF Placed
  <2>4. Placed(run[q], stores[q], Len(sessions')) BY <2>2, <2>3 DEF Placed
  <2> QED BY <2>4 DEF Settled1
<1>3. \A q \in Runs \ {r} : Sound1(q)'
  <2> SUFFICES ASSUME NEW q \in Runs \ {r} PROVE Sound1(q)'
    OBVIOUS
  <2>1. Numbered(stores[q], log[q], LinesOf(q)) BY DEF Housed, Sound1
  <2>2. Numbered(stores[q], log[q], LinesOf(q)') BY <2>1, Drops
  <2> QED BY <2>2 DEF Sound1
<1>4. FreshRunHasOpenSession'
  <2> SUFFICES ASSUME NEW q \in Registered', run'[q].entry = 1
               PROVE  sessions'[run'[q].session] = "active"
    BY DEF FreshRunHasOpenSession
  <2>1. CASE q = r BY <2>1
  <2>2. CASE q # r
    <3>1. q \in Registered /\ run[q].entry = 1 /\ run'[q] = run[q] /\ q \in Runs
      BY <2>2 DEF Registered
    <3>2. sessions[run[q].session] = "active" BY <3>1 DEF Housed, FreshRunHasOpenSession
    <3>3. run[q].session \in 1..Len(sessions)
      <4>1. run[q].session \in 0..Len(sessions) /\ run[q].session # 0 /\ Len(sessions) \in Nat
        BY <3>1 DEF Housed, Settled1, Placed, Registered, Kept
      <4> QED BY <4>1
    <3> QED BY <3>1, <3>2, <3>3
  <2> QED BY <2>1, <2>2
<1>5. Stay
  <2>1. \A q \in Runs : Len(stores[q]) \in Nat BY DEF Housed, Kept
  <2>2. \A q \in Runs \ {r} : OnDisk(q) => OnDisk(q)' BY DEF OnDisk
  <2> QED BY <2>1, <2>2 DEF Stay
<1>6. ASSUME NEW g \in Guests PROVE Hosted(g)'
  <2>1. CASE guest'[g] = guest[g]
    <3>1. \A q \in Runs : Len(stores[q]) \in Nat /\ Len(stores'[q]) \in Nat BY DEF Housed, Kept
    <3>2. \A q \in Runs : \A s : Usable(stores[q], s) => Usable(stores'[q], s)
      BY <1>5, <3>1 DEF Stay, Usable
    <3>3. Hosted(g) BY DEF Housed
    <3> QED BY <2>1, <3>2, <3>3 DEF Hosted
  <2> QED BY <2>1 DEF Received
<1> QED BY <1>2, <1>3, <1>4, <1>5, <1>6 DEF Housed

\* Nobody comes or goes.
LEMMA NobodyComes == ASSUME Housed, UNCHANGED guest PROVE Received
BY DEF Housed, Kept, Received

\* A step that changes only what is kept of a run itself.
LEMMA RunChanges ==
    ASSUME Housed, NEW r \in Runs, Quiet', NEW v \in RunSet, run' = [run EXCEPT ![r] = v],
           UNCHANGED <<sessions, stores, log, writing, up, life>>, Received,
           v.session = run[r].session, v.where = "nowhere" <=> run[r].where = "nowhere",
           Usable(stores[r], v.entry), v.cached = run[r].cached,
           Usable(stores[r], v.jobStore),
           v.where \in {"live", "ended"} /\ v.entry = 1 =>
             run[r].entry = 1 /\ r \in Registered
    PROVE  Housed' /\ Stay
<1>1. Kept' BY DEF Housed, Kept, Received
<1>2. run'[r] = v /\ \A q \in Runs \ {r} : run'[q] = run[q] BY DEF Housed, Kept
<1>3. \A q : LinesOf(q)' = LinesOf(q) BY DEF LinesOf
<1>4. Placed(run[r], stores[r], Len(sessions)) /\ Sound1(r) BY DEF Housed, Settled1
<1>5. Settled1(r)' BY <1>2, <1>4 DEF Settled1, Placed
<1>6. Sound1(r)' BY <1>3, <1>4 DEF Sound1
<1>7. OnDisk(r) => OnDisk(r)' BY <1>2 DEF OnDisk
<1>8. r \in Registered' /\ run'[r].entry = 1 => sessions'[run'[r].session] = "active"
  BY <1>2 DEF Housed, FreshRunHasOpenSession, Registered
<1>9. Len(stores[r]) \in Nat /\ Len(sessions) \in Nat BY DEF Housed, Kept
<1>10. \A q \in Runs \ {r} : /\ run'[q] = run[q] /\ stores'[q] = stores[q]
                             /\ log'[q] = log[q] /\ LinesOf(q)' \in SUBSET LinesOf(q)
  BY <1>2, <1>3
<1> QED BY <1>1, <1>5, <1>6, <1>7, <1>8, <1>9, <1>10, RunMoves

\* A run's thread is started, or ends; its state is saved, or a job asked for.
LEMMA Launches ==
    ASSUME Housed, NEW r \in Runs, NEW s, Launch(r, s), up, OnDisk(r), s # 1,
           Usable(stores[r], s)
    PROVE  Housed' /\ Stay
<1>1. run[r] \in RunSet /\ Placed(run[r], stores[r], Len(sessions))
  BY DEF Housed, Kept, Settled1
<1> DEFINE v == [run[r] EXCEPT !.where = "live", !.top = "RUNNING", !.entry = s,
                               !.mode = "daemon"]
<1>2. s \in Nat
  <2>1. Len(stores[r]) \in Nat BY DEF Housed, Kept
  <2> QED BY <2>1 DEF Usable
<1>3. v \in RunSet BY <1>1, <1>2 DEF RunSet, TopState
<1>4. /\ v.where = "live" /\ v.entry = s /\ v.session = run[r].session
      /\ v.cached = run[r].cached /\ v.jobStore = run[r].jobStore
  BY <1>1 DEF RunSet
<1>5. run' = [run EXCEPT ![r] = v] BY <1>1 DEF Launch, Housed, Kept, RunSet
<1> HIDE DEF v
<1>6. /\ UNCHANGED <<sessions, stores, log, writing, up, life>> /\ Quiet' /\ Received
      /\ run[r].where # "nowhere"
  BY NobodyComes DEF Launch, Quiet, OnDisk
<1> QED BY <1>1, <1>3, <1>4, <1>5, <1>6, RunChanges DEF Placed

\* The state of a run is saved by the daemon, or by whoever has it in hand.
LEMMA Saved ==
    ASSUME Housed, NEW r \in Runs, NEW top \in TopState, NEW mode \in {"daemon", "foreground"},
           run' = [run EXCEPT ![r].top = top, ![r].mode = mode],
           UNCHANGED <<sessions, stores, log, writing, up, life>>, Received
    PROVE  Housed' /\ Stay
<1>1. run[r] \in RunSet /\ Placed(run[r], stores[r], Len(sessions))
  BY DEF Housed, Kept, Settled1
<1> DEFINE v == [run[r] EXCEPT !.top = top, !.mode = mode]
<1>2. v \in RunSet BY <1>1 DEF RunSet
<1>3. /\ v.where = run[r].where /\ v.entry = run[r].entry /\ v.session = run[r].session
      /\ v.cached = run[r].cached /\ v.jobStore = run[r].jobStore /\ v.job = run[r].job
  BY <1>1 DEF RunSet
<1>4. run' = [run EXCEPT ![r] = v] BY <1>1 DEF Housed, Kept, RunSet
<1> HIDE DEF v
<1>5. run'[r] = v /\ \A q \in Runs \ {r} : run'[q] = run[q] BY <1>4 DEF Housed, Kept
<1>6. Quiet'
  <2>1. \A q \in Runs : /\ run'[q].where = run[q].where /\ run'[q].entry = run[q].entry
                        /\ run'[q].cached = run[q].cached /\ run'[q].job = run[q].job
                        /\ run'[q].jobStore = run[q].jobStore
    BY <1>3, <1>5
  <2>2. Registered' = Registered BY <2>1 DEF Registered
  <2> QED BY <2>1, <2>2 DEF Housed, Quiet
<1>7. Usable(stores[r], v.entry) /\ Usable(stores[r], v.jobStore) BY <1>1, <1>3 DEF Placed
<1>8. v.where \in {"live", "ended"} /\ v.entry = 1 => run[r].entry = 1 /\ r \in Registered
  BY <1>3 DEF Registered
<1> QED BY <1>2, <1>3, <1>4, <1>6, <1>7, <1>8, RunChanges

\* The mode a run is in is one it may be saved with, and so is its top state.
LEMMA AsItIs ==
    ASSUME Housed, NEW r \in Runs
    PROVE  /\ run[r].top \in TopState /\ run[r].mode \in {"daemon", "foreground"}
           /\ \A t, m : [run EXCEPT ![r].top = t] =
                          [run EXCEPT ![r].top = t, ![r].mode = run[r].mode]
           /\ \A t, m : [run EXCEPT ![r].mode = m] =
                          [run EXCEPT ![r].top = run[r].top, ![r].mode = m]
           /\ run = [run EXCEPT ![r].top = run[r].top, ![r].mode = run[r].mode]
BY DEF Housed, Kept, RunSet

\* The daemon saves a run with another top state.
LEMMA Saves ==
    ASSUME Housed, NEW r \in Runs, NEW top \in TopState, SaveTop(r, top)
    PROVE  Housed' /\ Stay
<1>1. run' = [run EXCEPT ![r].top = top, ![r].mode = run[r].mode] BY AsItIs DEF SaveTop
<1>2. Received /\ UNCHANGED <<sessions, stores, log, writing, up, life>>
  BY NobodyComes DEF SaveTop
<1> QED BY <1>1, <1>2, AsItIs, Saved

\* The thread of a run saves it.
LEMMA ThreadsSave ==
    ASSUME Housed, NEW r \in Runs, NEW mode \in {"daemon", "foreground"}, ThreadSaves(r, mode)
    PROVE  Housed' /\ Stay
<1>1. Received /\ UNCHANGED <<sessions, stores, log, writing, up, life>>
      /\ run' = [run EXCEPT ![r].top = "RUNNING", ![r].mode = mode]
  BY NobodyComes DEF ThreadSaves
<1>2. "RUNNING" \in TopState BY DEF TopState
<1> QED BY <1>1, <1>2, Saved

\* A worker's thread ends.
LEMMA Ends ==
    ASSUME Housed, NEW r \in Runs, NEW top \in TopState, WorkerEnds(r, top), up
    PROVE  Housed' /\ Stay
<1>1. run[r] \in RunSet /\ Placed(run[r], stores[r], Len(sessions))
  BY DEF Housed, Kept, Settled1
<1> DEFINE v == [run[r] EXCEPT !.where = "ended", !.top = top]
<1>3. v \in RunSet BY <1>1 DEF RunSet
<1>4. /\ v.where = "ended" /\ v.entry = run[r].entry /\ v.session = run[r].session
      /\ v.cached = run[r].cached /\ v.jobStore = run[r].jobStore
  BY <1>1 DEF RunSet
<1>5. run' = [run EXCEPT ![r] = v] BY <1>1 DEF WorkerEnds, Housed, Kept, RunSet
<1> HIDE DEF v
<1>6. /\ UNCHANGED <<sessions, stores, log, writing, up, life>> /\ Quiet' /\ Received
      /\ run[r].where = "live"
  BY NobodyComes DEF WorkerEnds, Quiet
<1>7. Usable(stores[r], v.entry) /\ Usable(stores[r], v.jobStore) BY <1>1, <1>4 DEF Placed
<1> QED BY <1>3, <1>4, <1>5, <1>6, <1>7, RunChanges DEF Registered

\* A clarification keeps the store it found.
LEMMA Clarifies ==
    ASSUME Housed, NEW r \in Runs, Clarify(r), up PROVE Housed' /\ Stay
<1>1. run[r] \in RunSet /\ Placed(run[r], stores[r], Len(sessions))
  BY DEF Housed, Kept, Settled1
<1> DEFINE v == [run[r] EXCEPT !.job = 2, !.jobStore = run[r].entry]
<1>2. run[r].entry \in Nat /\ 2 \in 0..2 BY <1>1 DEF RunSet
<1>3. v \in RunSet BY <1>1, <1>2 DEF RunSet
<1>4. /\ v.where = run[r].where /\ v.entry = run[r].entry /\ v.session = run[r].session
      /\ v.cached = run[r].cached /\ v.jobStore = run[r].entry
  BY <1>1 DEF RunSet
<1>5. run' = [run EXCEPT ![r] = v] BY <1>1 DEF Clarify, Housed, Kept, RunSet
<1> HIDE DEF v
<1>6. UNCHANGED <<sessions, stores, log, writing, up, life>> /\ Quiet' /\ Received
  BY NobodyComes DEF Clarify, Quiet
<1>7. Usable(stores[r], v.entry) /\ Usable(stores[r], v.jobStore) BY <1>1, <1>4 DEF Placed
<1> QED BY <1>3, <1>4, <1>5, <1>6, <1>7, RunChanges DEF Registered

\* A store that is opened has not been used yet.
LEMMA Fresh ==
    ASSUME Housed, NEW r \in Runs
    PROVE  /\ Opened(r) \in Seq(StoreSet) /\ Len(Opened(r)) = NextStore(r)
           /\ NextStore(r) \in Nat \ {0} /\ NextStore(r) >= Len(stores[r])
           /\ Numbered(Opened(r), log[r], LinesOf(r))
           /\ \A s : Usable(stores[r], s) => Usable(Opened(r), s)
           /\ Usable(Opened(r), NextStore(r)) /\ Usable(Opened(r), NoStore)
           /\ Opened(r) # <<>>
<1> DEFINE new == HasRead(log[r], FALSE)
<1>1. Opened(r) = Append(stores[r], new) BY DEF Opened, Aligned, LastSeq, LastOf, HasRead
<1>2. stores[r] \in Seq(StoreSet) /\ Len(stores[r]) \in Nat
      /\ Numbered(stores[r], log[r], LinesOf(r))
  BY DEF Housed, Kept, Sound1
<1>3. Numbered(Opened(r), log[r], LinesOf(r)) BY <1>1, <1>2, Opens
<1> HIDE DEF new
<1>4. Opened(r) \in Seq(StoreSet) BY <1>3 DEF Numbered, Filled
<1>5. Len(Opened(r)) = NextStore(r) /\ NextStore(r) \in Nat \ {0}
      /\ NextStore(r) >= Len(stores[r])
  <2>1. new \in StoreSet
    <3>1. LastOf(log[r]) \in Nat /\ Len(log[r]) \in Nat BY <1>2, Made
    <3> QED BY <3>1 DEF new, StoreSet, HasRead
  <2>2. Len(Append(stores[r], new)) = Len(stores[r]) + 1 BY <1>2, <2>1
  <2> QED BY <1>1, <1>2, <2>2 DEF NextStore
<1>6. /\ \A s : Usable(stores[r], s) => Usable(Opened(r), s)
      /\ Usable(Opened(r), NextStore(r)) /\ Usable(Opened(r), NoStore)
  BY <1>2, <1>5 DEF Usable, NoStore
<1>7. Opened(r) # <<>>
  <2>1. Opened(r) = <<>> => Len(Opened(r)) = 0 OBVIOUS
  <2> QED BY <1>5, <2>1
<1> QED BY <1>3, <1>4, <1>5, <1>6, <1>7

\* What is opened, or read again, of one run that stays where it was.
LEMMA StoresMove ==
    ASSUME Housed, NEW r \in Runs, Quiet', NEW ss \in Seq(StoreSet),
           stores' = [stores EXCEPT ![r] = ss], Received,
           UNCHANGED <<sessions, log, writing, up, life>>,
           NEW v \in RunSet, run' = [run EXCEPT ![r] = v],
           v.where = run[r].where, v.session = run[r].session, v.entry = run[r].entry,
           v.cached = run[r].cached, v.jobStore = run[r].jobStore,
           Numbered(ss, log[r], LinesOf(r)), Len(ss) >= Len(stores[r])
    PROVE  Housed' /\ Stay
<1>1. /\ stores' \in [Runs -> Seq(StoreSet)] /\ stores'[r] = ss
      /\ \A q \in Runs \ {r} : stores'[q] = stores[q]
      /\ run' \in [Runs -> RunSet] /\ run'[r] = v /\ \A q \in Runs \ {r} : run'[q] = run[q]
  BY DEF Housed, Kept
<1>2. Kept' BY <1>1 DEF Housed, Kept, Received
<1>3. \A q : LinesOf(q)' = LinesOf(q) BY DEF LinesOf
<1>4. /\ Len(stores[r]) \in Nat /\ Len(ss) \in Nat /\ Len(sessions) \in Nat
      /\ stores[r] # <<>> => ss # <<>>
  BY DEF Housed, Kept
<1>5. Placed(run[r], stores[r], Len(sessions)) BY DEF Housed, Settled1
<1>6. \A s : Usable(stores[r], s) => Usable(ss, s) BY <1>4 DEF Usable
<1>7. Placed(v, ss, Len(sessions)) BY <1>4, <1>5, <1>6 DEF Placed
<1>8. Settled1(r)' BY <1>1, <1>7 DEF Settled1
<1>9. Sound1(r)' BY <1>1, <1>3 DEF Sound1
<1>10. OnDisk(r) => OnDisk(r)' BY <1>1 DEF OnDisk
<1>11. r \in Registered' /\ run'[r].entry = 1 => sessions'[run'[r].session] = "active"
  BY <1>1 DEF Housed, FreshRunHasOpenSession, Registered
<1>12. \A q \in Runs \ {r} : log'[q] = log[q] /\ LinesOf(q)' \in SUBSET LinesOf(q) BY <1>3
<1>13. Len(sessions') >= Len(sessions) BY <1>4
<1> QED BY <1>1, <1>2, <1>8, <1>9, <1>10, <1>11, <1>12, <1>13, RunMoves

\* A store of its own is opened on a run.
LEMMA OpensOne ==
    ASSUME Housed, NEW r \in Runs, stores' = [stores EXCEPT ![r] = Opened(r)], Quiet', Received,
           UNCHANGED <<sessions, run, log, writing, up, life>>
    PROVE  Housed' /\ Stay
<1>1. run[r] \in RunSet /\ run' = [run EXCEPT ![r] = run[r]] BY DEF Housed, Kept
<1>2. Opened(r) \in Seq(StoreSet) /\ Numbered(Opened(r), log[r], LinesOf(r))
      /\ Len(Opened(r)) >= Len(stores[r])
  BY Fresh
<1> QED BY <1>1, <1>2, StoresMove

\* An acknowledgement opens a store, or has that of the registered run read again.
LEMMA Acknowledges == ASSUME Housed, NEW r \in Runs, up, LoadAgain(r) PROVE Housed' /\ Stay
<1>0. Len(stores[r]) \in Nat /\ stores[r] \in Seq(StoreSet) /\ run[r] \in RunSet
  BY DEF Housed, Kept
<1> DEFINE v == [run[r] EXCEPT !.mode = "daemon"]
<1>1. /\ v \in RunSet /\ v.where = run[r].where /\ v.session = run[r].session
      /\ v.entry = run[r].entry /\ v.cached = run[r].cached /\ v.jobStore = run[r].jobStore
  BY <1>0 DEF RunSet
<1>2. /\ run' = [run EXCEPT ![r] = v] /\ UNCHANGED <<sessions, log, writing, up, life>>
      /\ Received /\ Quiet'
  BY NobodyComes DEF LoadAgain, Quiet
<1> HIDE DEF v
<1>3. CASE run[r].where = "left"
  <2>1. stores' = [stores EXCEPT ![r] = Opened(r)] BY <1>3 DEF LoadAgain
  <2>2. Opened(r) \in Seq(StoreSet) /\ Numbered(Opened(r), log[r], LinesOf(r))
        /\ Len(Opened(r)) >= Len(stores[r])
    BY Fresh
  <2> QED BY <1>1, <1>2, <2>1, <2>2, StoresMove
<1>4. CASE run[r].where # "left"
  <2> DEFINE s == run[r].entry
  <2> DEFINE new == HasRead(log[r], TRUE)
  <2> DEFINE ss == [stores[r] EXCEPT ![s] = new]
  <2>1. stores' = [stores EXCEPT ![r] = ss]
    BY <1>4 DEF LoadAgain, Aligned, LastSeq, LastOf, HasRead
  <2>2. Numbered(ss, log[r], LinesOf(r)) BY SetsBack DEF Housed, Sound1
  <2> HIDE DEF new, s
  <2>3. ss \in Seq(StoreSet) BY <2>2 DEF Numbered, Filled
  <2>4. Len(ss) = Len(stores[r]) BY <1>0
  <2> HIDE DEF ss
  <2>5. Len(ss) >= Len(stores[r]) BY <1>0, <2>4
  <2> QED BY <1>1, <1>2, <2>1, <2>2, <2>3, <2>5, StoresMove
<1> QED BY <1>3, <1>4

\* A number of r is drawn, by a writer whose hold on the run changes at most in its
\* cached store and its job.
LEMMA DrawMoves ==
    ASSUME Housed, NEW by \in Writers, NEW r \in Runs, Quiet', Room(r), NEW s, NEW ss,
           Draw(by, r, s, ss), UNCHANGED <<sessions, log, up, life>>, Received,
           ss = stores[r] \/ ss = Opened(r), Usable(ss, s),
           NEW v \in RunSet, run' = [run EXCEPT ![r] = v],
           v.where = run[r].where, v.session = run[r].session, v.entry = run[r].entry,
           v.jobStore = run[r].jobStore, Usable(ss, v.cached)
    PROVE  Housed' /\ Stay
<1> DEFINE n == IF s = NoStore THEN LastOf(log[r]) + 1 ELSE ss[s].count + 1
<1> DEFINE k == IF s = NoStore THEN Len(log[r]) ELSE ss[s].seen
<1> DEFINE w == [by |-> by, run |-> r, store |-> s, seq |-> n, read |-> k]
<1> DEFINE st == IF s = NoStore THEN ss ELSE [ss EXCEPT ![s].count = n]
<1>0. /\ Len(stores[r]) \in Nat /\ stores[r] \in Seq(StoreSet) /\ Len(sessions) \in Nat
      /\ Placed(run[r], stores[r], Len(sessions))
  BY DEF Housed, Kept, Settled1
<1>1. /\ ss \in Seq(StoreSet) /\ Len(ss) >= Len(stores[r]) /\ Len(ss) \in Nat
      /\ Numbered(ss, log[r], LinesOf(r))
      /\ \A t : Usable(stores[r], t) => Usable(ss, t)
  <2>1. CASE ss = stores[r] BY <1>0, <2>1 DEF Housed, Sound1
  <2>2. CASE ss = Opened(r) BY <2>2, Fresh
  <2> QED BY <2>1, <2>2
<1>2. writing' = writing \cup {w} /\ stores' = [stores EXCEPT ![r] = st]
  BY DEF Draw, LastSeq, LastOf
<1>3. w.run = r /\ w.by = by /\ w.store = s /\ w.seq = n OBVIOUS
<1>4. Len(log[r]) + Cardinality(LinesOf(r)) < MaxLines BY DEF Room, LinesOf
<1>5. s \in 0..Len(ss) BY DEF Usable
<1>6. Numbered(st, log[r], LinesOf(r) \cup {w}) BY <1>1, <1>4, <1>5, Draws
<1>7. st \in Seq(StoreSet) /\ w \in WriteSet BY <1>6 DEF Numbered, Filled
<1>8. Len(st) = Len(ss)
  <2>1. CASE s = NoStore BY <2>1
  <2>2. CASE s # NoStore
    <3>1. s \in 1..Len(ss) BY <1>1, <1>5, <2>2 DEF NoStore
    <3> QED BY <1>1, <2>2, <3>1
  <2> QED BY <2>1, <2>2
<1> HIDE DEF st, w, n, k
<1>9. /\ stores' \in [Runs -> Seq(StoreSet)] /\ stores'[r] = st
      /\ \A q \in Runs \ {r} : stores'[q] = stores[q]
      /\ run' \in [Runs -> RunSet] /\ run'[r] = v /\ \A q \in Runs \ {r} : run'[q] = run[q]
  BY <1>2, <1>7 DEF Housed, Kept
<1>10. Kept' BY <1>2, <1>7, <1>9 DEF Housed, Kept, Received
<1>11. LinesOf(r)' = LinesOf(r) \cup {w} /\ \A q \in Runs \ {r} : LinesOf(q)' = LinesOf(q)
  BY <1>2, <1>3 DEF LinesOf
<1>12. Sound1(r)' BY <1>6, <1>9, <1>11 DEF Sound1
<1>13. \A t : Usable(ss, t) => Usable(st, t)
  BY <1>1, <1>8 DEF Usable
<1>14. stores[r] # <<>> => st # <<>>
  <2>1. stores[r] # <<>> => Len(stores[r]) > 0 BY <1>0
  <2>2. st = <<>> => Len(st) = 0 OBVIOUS
  <2> QED BY <1>0, <1>1, <1>8, <2>1, <2>2
<1>15. Settled1(r)'
  <2>1. Placed(v, st, Len(sessions)) BY <1>0, <1>1, <1>13, <1>14 DEF Placed
  <2> QED BY <1>9, <2>1 DEF Settled1
<1>16. OnDisk(r) => OnDisk(r)' BY <1>9 DEF OnDisk
<1>17. r \in Registered' /\ run'[r].entry = 1 => sessions'[run'[r].session] = "active"
  BY <1>9 DEF Housed, FreshRunHasOpenSession, Registered
<1>18. Len(stores'[r]) >= Len(stores[r]) BY <1>0, <1>1, <1>8, <1>9
<1>19. \A q \in Runs \ {r} : log'[q] = log[q] /\ LinesOf(q)' \in SUBSET LinesOf(q)
  BY <1>11
<1>20. Len(sessions') >= Len(sessions) BY <1>0
<1> QED BY <1>9, <1>10, <1>11, <1>12, <1>15, <1>16, <1>17, <1>18, <1>19, <1>20, RunMoves

\* A worker draws from its entry's store.
LEMMA WorkerDraws ==
    ASSUME Housed, NEW r \in Runs, WorkerWrites(r), up PROVE Housed' /\ Stay
<1>1. run[r] \in RunSet /\ Placed(run[r], stores[r], Len(sessions))
  BY DEF Housed, Kept, Settled1
<1>2. run' = [run EXCEPT ![r] = run[r]] BY DEF WorkerWrites, Housed, Kept
<1>3. Draw("worker", r, run[r].entry, stores[r]) /\ Room(r) /\ "worker" \in Writers
      /\ UNCHANGED <<sessions, log, up, life>> /\ Quiet' /\ Received
  BY NobodyComes DEF WorkerWrites, Writers, DaemonThreads, Quiet
<1>4. Usable(stores[r], run[r].entry) /\ Usable(stores[r], run[r].cached)
  BY <1>1 DEF Placed
<1> QED BY <1>1, <1>2, <1>3, <1>4, DrawMoves

\* A job draws from the store it was given.
LEMMA JobDraws ==
    ASSUME Housed, NEW r \in Runs, JobWrites(r) PROVE Housed' /\ Stay
<1>1. run[r] \in RunSet /\ Placed(run[r], stores[r], Len(sessions))
  BY DEF Housed, Kept, Settled1
<1>2. run[r].job \in 0..2 /\ run[r].job > 0 BY <1>1 DEF RunSet, JobWrites
<1>3. up BY <1>2 DEF Housed, Quiet
<1> DEFINE v == [run[r] EXCEPT !.job = run[r].job - 1]
<1>4. run[r].job - 1 \in 0..2 BY <1>2
<1>5. v \in RunSet BY <1>1, <1>4 DEF RunSet
<1>6. /\ v.where = run[r].where /\ v.entry = run[r].entry /\ v.session = run[r].session
      /\ v.cached = run[r].cached /\ v.jobStore = run[r].jobStore
  BY <1>1 DEF RunSet
<1>7. run' = [run EXCEPT ![r] = v] BY DEF JobWrites
<1>8. Draw("job", r, run[r].jobStore, stores[r]) /\ Room(r) /\ "job" \in Writers
      /\ UNCHANGED <<sessions, log, up, life>> /\ Quiet' /\ Received
  BY <1>3, NobodyComes DEF JobWrites, Writers, DaemonThreads, Quiet
<1>9. Usable(stores[r], run[r].jobStore) /\ Usable(stores[r], v.cached)
  BY <1>1, <1>6 DEF Placed
<1> HIDE DEF v
<1> QED BY <1>3, <1>5, <1>6, <1>7, <1>8, <1>9, DrawMoves

\* The server thread draws from a store its call names.
LEMMA ServerDraws ==
    ASSUME Housed, NEW r \in Runs, NEW s, ServerWrites1(r, s), up, Room(r),
           Usable(stores[r], s)
    PROVE  Housed' /\ Stay
<1>1. run[r] \in RunSet /\ Placed(run[r], stores[r], Len(sessions))
  BY DEF Housed, Kept, Settled1
<1>2. run' = [run EXCEPT ![r] = run[r]] BY DEF ServerWrites1, Housed, Kept
<1>3. Draw("server", r, s, stores[r]) /\ "server" \in Writers
      /\ UNCHANGED <<sessions, log, up, life>> /\ Quiet' /\ Received
  BY NobodyComes DEF ServerWrites1, Writers, DaemonThreads, Quiet
<1>4. Usable(stores[r], run[r].cached) BY <1>1 DEF Placed
<1> QED BY <1>1, <1>2, <1>3, <1>4, DrawMoves

\* The server thread draws for a note, from a store it may open for that.
LEMMA NoteDraws ==
    ASSUME Housed, NEW r \in Runs, ServerNotes(r), up, Room(r) PROVE Housed' /\ Stay
<1> DEFINE opens == run[r].where = "left" /\ run[r].cached = NoStore
<1> DEFINE s == IF opens THEN NextStore(r)
                ELSE IF run[r].where = "left" THEN run[r].cached ELSE run[r].entry
<1> DEFINE ss == IF opens THEN Opened(r) ELSE stores[r]
<1> DEFINE c == IF opens THEN s ELSE run[r].cached
<1> DEFINE v == [run[r] EXCEPT !.cached = c]
<1>1. run[r] \in RunSet /\ Placed(run[r], stores[r], Len(sessions))
  BY DEF Housed, Kept, Settled1
<1>2. /\ Draw("server", r, s, ss) /\ run' = [run EXCEPT ![r] = v]
      /\ "server" \in Writers /\ UNCHANGED <<sessions, log, up, life>> /\ Quiet' /\ Received
  BY NobodyComes DEF ServerNotes, Writers, DaemonThreads, Quiet
<1>3. /\ NextStore(r) \in Nat /\ Usable(Opened(r), NextStore(r))
      /\ \A t : Usable(stores[r], t) => Usable(Opened(r), t)
  BY Fresh
<1>4. /\ Usable(stores[r], run[r].entry) /\ Usable(stores[r], run[r].cached)
      /\ run[r].cached \in Nat /\ run[r].entry \in Nat
  BY <1>1 DEF Placed, RunSet
<1>5. Usable(ss, s) /\ Usable(ss, c) /\ c \in Nat BY <1>3, <1>4
<1>6. ss = stores[r] \/ ss = Opened(r) OBVIOUS
<1> HIDE DEF s, ss, c
<1>7. v \in RunSet BY <1>1, <1>5 DEF RunSet
<1>8. /\ v.where = run[r].where /\ v.entry = run[r].entry /\ v.session = run[r].session
      /\ v.cached = c /\ v.jobStore = run[r].jobStore
  BY <1>1 DEF RunSet
<1> HIDE DEF v
<1> QED BY <1>2, <1>5, <1>6, <1>7, <1>8, DrawMoves

\* The line of a number that was drawn is written.
LEMMA LandMoves == ASSUME Housed, NEW w \in writing, Land(w) PROVE Housed' /\ Stay
<1> DEFINE r == w.run
<1> DEFINE lg == Append(log[r], LineOf(w))
<1>1. w \in WriteSet /\ r \in Runs /\ w \in LinesOf(r)
  BY DEF Housed, Kept, WriteSet, LinesOf
<1>2. /\ log' = [log EXCEPT ![r] = lg] /\ writing' = writing \ {w}
      /\ UNCHANGED <<sessions, run, stores, guest, up, life>>
  BY DEF Land, LineOf
<1>3. Numbered(stores[r], lg, LinesOf(r) \ {w}) BY <1>1, Landed DEF Housed, Sound1
<1>4. lg \in Seq(LineSet) BY <1>3 DEF Numbered, Filled
<1> HIDE DEF lg
<1>5. /\ log' \in [Runs -> Seq(LineSet)] /\ log'[r] = lg
      /\ \A q \in Runs \ {r} : log'[q] = log[q]
  BY <1>1, <1>2, <1>4 DEF Housed, Kept
<1>6. Kept' /\ Received BY <1>2, <1>5, NobodyComes DEF Housed, Kept
<1>7. LinesOf(r)' = LinesOf(r) \ {w} /\ \A q \in Runs \ {r} : LinesOf(q)' = LinesOf(q)
  BY <1>2 DEF LinesOf
<1> HIDE DEF r
<1>8. Sound1(r)' BY <1>2, <1>3, <1>5, <1>7 DEF Sound1
<1>9. Placed(run[r], stores[r], Len(sessions)) BY <1>1 DEF Housed, Settled1
<1>10. Settled1(r)' BY <1>2, <1>9 DEF Settled1
<1>11. r \in Registered' /\ run'[r].entry = 1 => sessions'[run'[r].session] = "active"
  BY <1>2 DEF Housed, FreshRunHasOpenSession, Registered
<1>12. Len(stores[r]) \in Nat /\ Len(sessions) \in Nat BY <1>1 DEF Housed, Kept
<1>13. OnDisk(r) => OnDisk(r)' BY <1>2 DEF OnDisk
<1>14. Quiet' BY <1>2 DEF Housed, Quiet, Registered
<1>15. \A q \in Runs \ {r} : /\ run'[q] = run[q] /\ stores'[q] = stores[q]
                             /\ log'[q] = log[q] /\ LinesOf(q)' \in SUBSET LinesOf(q)
  BY <1>2, <1>5, <1>7
<1>16. /\ \A i \in 1..Len(sessions) : sessions'[i] = sessions[i]
       /\ Len(sessions') >= Len(sessions) /\ Len(stores'[r]) >= Len(stores[r])
  BY <1>2, <1>12
<1> QED BY <1>1, <1>2, <1>6, <1>8, <1>10, <1>11, <1>13, <1>14, <1>15, <1>16, RunMoves

\* A set of numbers has a least one.
LEMMA Least == ASSUME NEW T \in SUBSET Nat, T # {} PROVE \E x \in T : \A y \in T : x <= y
<1> DEFINE R == OpToRel(<, Nat)
<1>1. PICK x \in T : \A y \in T : ~(<<y, x>> \in R)
  <2>1. IsWellFoundedOn(R, Nat) BY NatLessThanWellFounded
  <2> HIDE DEF R
  <2> QED BY <2>1, WFMin
<1> HIDE DEF R
<1>2. ASSUME NEW y \in T PROVE x <= y
  <2>1. x \in Nat /\ y \in Nat OBVIOUS
  <2>2. <<y, x>> \in Nat \X Nat BY <2>1
  <2>3. <<y, x>>[1] = y /\ <<y, x>>[2] = x OBVIOUS
  <2>4. y < x => <<y, x>> \in {ss \in Nat \X Nat : ss[1] < ss[2]} BY <2>2, <2>3
  <2>5. y < x => <<y, x>> \in R BY <2>4 DEF OpToRel, R
  <2> QED BY <1>1, <2>1, <2>5
<1> QED BY <1>2

\* A new run gets an open session, one that is there or a new one.
LEMMA NewRuns ==
    ASSUME Housed, NEW r \in Runs, NEW v, NewRunAt(r, v), Quiet', Received,
           v \in RunSet, v.session = Adopted, v.where # "nowhere",
           v.entry \in {NextStore(r), NoStore}, v.cached = NoStore, v.jobStore = NoStore
    PROVE  Housed' /\ Stay
<1> DEFINE s == Adopted
<1>1. /\ ~OnDisk(r) /\ run' = [run EXCEPT ![r] = v]
      /\ stores' = [stores EXCEPT ![r] = Opened(r)]
      /\ sessions' = IF Open # {} THEN sessions ELSE Append(sessions, "active")
      /\ UNCHANGED <<log, writing, up, life>>
  BY DEF NewRunAt
<1>2. sessions \in Seq({"active", "closed"}) /\ Len(sessions) \in Nat /\ Len(stores[r]) \in Nat
  BY DEF Housed, Kept
<1>3. /\ s \in 1..Len(sessions') /\ Len(sessions') \in Nat /\ sessions'[s] = "active"
      /\ sessions' \in Seq({"active", "closed"})
      /\ Len(sessions') >= Len(sessions)
      /\ \A i \in 1..Len(sessions) : sessions'[i] = sessions[i]
  <2>1. CASE Open # {}
    <3>1. Open \in SUBSET Nat BY <1>2 DEF Open
    <3>2. \E i \in Open : \A j \in Open : i <= j BY <2>1, <3>1, Least
    <3>3. s \in Open BY <2>1, <3>2 DEF Adopted
    <3> HIDE DEF s
    <3> QED BY <1>1, <1>2, <2>1, <3>3 DEF Open
  <2>2. CASE Open = {}
    <3>1. sessions' = Append(sessions, "active") /\ s = Len(sessions) + 1
      BY <1>1, <2>2 DEF Adopted
    <3> HIDE DEF s
    <3> QED BY <1>2, <3>1
  <2> QED BY <2>1, <2>2
<1>4. s = v.session OBVIOUS
<1> HIDE DEF s
<1>5. /\ NextStore(r) \in Nat \ {0} /\ NextStore(r) >= Len(stores[r])
      /\ Usable(Opened(r), NextStore(r)) /\ Usable(Opened(r), NoStore)
      /\ Opened(r) \in Seq(StoreSet) /\ Len(Opened(r)) = NextStore(r)
      /\ Numbered(Opened(r), log[r], LinesOf(r)) /\ Opened(r) # <<>>
  BY Fresh
<1>6. /\ run' \in [Runs -> RunSet] /\ run'[r] = v /\ \A q \in Runs \ {r} : run'[q] = run[q]
      /\ stores' \in [Runs -> Seq(StoreSet)] /\ stores'[r] = Opened(r)
      /\ \A q \in Runs \ {r} : stores'[q] = stores[q]
  BY <1>1, <1>5 DEF Housed, Kept
<1>7. Kept' BY <1>1, <1>3, <1>6 DEF Housed, Kept, Received
<1>8. \A q : LinesOf(q)' = LinesOf(q) BY <1>1 DEF LinesOf
<1>9. Settled1(r)'
  <2>1. v.session \in 0..Len(sessions') /\ v.session # 0 BY <1>3, <1>4
  <2>2. Placed(v, Opened(r), Len(sessions')) BY <1>5, <2>1 DEF Placed
  <2> QED BY <1>6, <2>2 DEF Settled1
<1>10. Sound1(r)' BY <1>1, <1>5, <1>6, <1>8 DEF Sound1
<1>11. sessions'[run'[r].session] = "active" BY <1>3, <1>4, <1>6
<1>12. Len(stores'[r]) >= Len(stores[r]) BY <1>5, <1>6
<1>13. OnDisk(r) => OnDisk(r)' BY <1>1
<1>14. \A q \in Runs \ {r} : log'[q] = log[q] /\ LinesOf(q)' \in SUBSET LinesOf(q)
  BY <1>1, <1>8
<1> QED BY <1>1, <1>3, <1>6, <1>7, <1>9, <1>10, <1>11, <1>12, <1>13, <1>14, RunMoves

\* The session a new run is given is a number.
LEMMA Adopts == ASSUME Housed PROVE Adopted \in Nat
<1>1. Len(sessions) \in Nat BY DEF Housed, Kept
<1>2. CASE Open # {}
  <2>1. Open \in SUBSET Nat BY <1>1 DEF Open
  <2>2. \E i \in Open : \A j \in Open : i <= j BY <1>2, <2>1, Least
  <2> QED BY <1>2, <2>1, <2>2 DEF Adopted
<1> QED BY <1>1, <1>2 DEF Adopted

\* A run is registered.
LEMMA Registers ==
    ASSUME Housed, NEW r \in Runs, NEW started \in BOOLEAN, Register(r, started), up
    PROVE  Housed' /\ Stay
<1> DEFINE v == [Unborn EXCEPT !.where = IF started THEN "live" ELSE "left",
                               !.top = IF started THEN "RUNNING" ELSE "READY",
                               !.session = Adopted,
                               !.entry = IF started THEN NextStore(r) ELSE NoStore]
<1>1. NewRunAt(r, v) /\ UNCHANGED guest BY DEF Register
<1>2. Adopted \in Nat /\ NextStore(r) \in Nat /\ 0 \in 0..2 BY Adopts, Fresh
<1>3. /\ v \in RunSet /\ v.where # "nowhere" /\ v.session = Adopted
      /\ v.entry \in {NextStore(r), NoStore} /\ v.cached = NoStore /\ v.jobStore = NoStore
  <2>1. CASE started BY <1>2, <2>1 DEF RunSet, Unborn, TopState, NoStore
  <2>2. CASE ~started BY <1>2, <2>2 DEF RunSet, Unborn, TopState, NoStore
  <2> QED BY <2>1, <2>2
<1> HIDE DEF v
<1>4. Received /\ Quiet' BY <1>1, NobodyComes DEF NewRunAt, Quiet
<1> QED BY <1>1, <1>3, <1>4, NewRuns

\* Runs that ended leave the registry; no session is closed that another run is in.
LEMMA Reaps == ASSUME Housed, Reap, up PROVE Housed' /\ Stay
<1> DEFINE gone == {r \in Registered : run[r].where = "ended"}
<1> DEFINE caches == {r \in gone : run[r].cached = NoStore}
<1> DEFINE c(r) == IF r \in caches THEN NextStore(r) ELSE run[r].cached
<1> DEFINE v(r) == [run[r] EXCEPT !.where = "left", !.entry = NoStore, !.cached = c(r)]
<1> DEFINE ss(r) == IF r \in caches THEN Opened(r) ELSE stores[r]
<1>1. /\ run' = [r \in Runs |-> IF r \notin gone THEN run[r] ELSE v(r)]
      /\ stores' = [r \in Runs |-> ss(r)]
      /\ sessions' = [i \in 1..Len(sessions) |->
                        IF i \in Closable(gone) THEN "closed" ELSE sessions[i]]
      /\ UNCHANGED <<log, writing, guest, up, life>>
  <2>1. run' = [r \in Runs |-> IF r \notin gone THEN run[r]
                  ELSE [run[r] EXCEPT !.where = "left", !.entry = NoStore,
                          !.cached = IF r \in caches THEN NextStore(r) ELSE @]]
    BY DEF Reap
  <2>2. \A r \in Runs : run[r] \in RunSet BY DEF Housed, Kept
  <2>3. run' = [r \in Runs |-> IF r \notin gone THEN run[r] ELSE v(r)]
    BY <2>1, <2>2 DEF RunSet
  <2> QED BY <2>3 DEF Reap
<1>2. /\ sessions' \in Seq({"active", "closed"}) /\ Len(sessions') = Len(sessions)
      /\ Len(sessions) \in Nat
  <2> DEFINE T == {"active", "closed"}
  <2> DEFINE e(i) == IF i \in Closable(gone) THEN "closed" ELSE sessions[i]
  <2>1. sessions \in Seq(T) /\ Len(sessions) \in Nat BY DEF Housed, Kept
  <2>2. \A i \in 1..Len(sessions) : sessions[i] \in T BY <2>1, At
  <2>3. \A i \in 1..Len(sessions) : e(i) \in T BY <2>2
  <2>4. sessions' = [i \in 1..Len(sessions) |-> e(i)] BY <1>1
  <2> HIDE DEF e, T
  <2>5. sessions' \in Seq(T) /\ Len(sessions') = Len(sessions) BY <2>1, <2>3, <2>4
  <2> QED BY <2>1, <2>5 DEF T
<1>3. ASSUME NEW r \in Runs
      PROVE  /\ run[r] \in RunSet /\ Placed(run[r], stores[r], Len(sessions))
             /\ stores[r] \in Seq(StoreSet) /\ Len(stores[r]) \in Nat
             /\ ss(r) \in Seq(StoreSet) /\ Len(ss(r)) >= Len(stores[r]) /\ Len(ss(r)) \in Nat
             /\ Numbered(ss(r), log[r], LinesOf(r))
             /\ \A s : Usable(stores[r], s) => Usable(ss(r), s)
             /\ c(r) \in Nat /\ Usable(ss(r), c(r))
             /\ stores[r] # <<>> => ss(r) # <<>>
  <2>1. /\ run[r] \in RunSet /\ Placed(run[r], stores[r], Len(sessions))
        /\ stores[r] \in Seq(StoreSet) /\ Len(stores[r]) \in Nat
        /\ Numbered(stores[r], log[r], LinesOf(r))
    BY DEF Housed, Kept, Settled1, Sound1
  <2>2. run[r].cached \in Nat /\ Usable(stores[r], run[r].cached)
    BY <2>1 DEF RunSet, Placed
  <2>3. CASE r \in caches
    <3>1. ss(r) = Opened(r) /\ c(r) = NextStore(r) BY <2>3
    <3>2. NextStore(r) >= Len(stores[r]) /\ NextStore(r) # 0 BY <2>1 DEF NextStore
    <3>3. /\ Opened(r) \in Seq(StoreSet) /\ Len(Opened(r)) = NextStore(r)
          /\ NextStore(r) \in Nat
          /\ Numbered(Opened(r), log[r], LinesOf(r))
          /\ \A s : Usable(stores[r], s) => Usable(Opened(r), s)
          /\ Usable(Opened(r), NextStore(r))
      BY Fresh
    <3>4. Opened(r) # <<>>
      <4>1. Opened(r) = <<>> => Len(Opened(r)) = 0 OBVIOUS
      <4> QED BY <3>2, <3>3, <4>1
    <3> HIDE DEF ss, c
    <3> QED BY <2>1, <3>1, <3>2, <3>3, <3>4
  <2>4. CASE r \notin caches
    <3>1. ss(r) = stores[r] /\ c(r) = run[r].cached BY <2>4
    <3> HIDE DEF ss, c
    <3> QED BY <2>1, <2>2, <3>1
  <2> QED BY <2>3, <2>4
<1> HIDE DEF ss, c
<1>4. ASSUME NEW r \in Runs
      PROVE  /\ v(r) \in RunSet /\ v(r).where = "left" /\ v(r).entry = NoStore
             /\ v(r).cached = c(r) /\ v(r).session = run[r].session
             /\ v(r).jobStore = run[r].jobStore
  BY <1>3 DEF RunSet, NoStore
<1> HIDE DEF v, caches
<1>5. Kept' BY <1>1, <1>2, <1>3, <1>4 DEF Housed, Kept
<1>6. \A q : LinesOf(q)' = LinesOf(q) BY <1>1 DEF LinesOf
<1>7. ASSUME NEW r \in Runs PROVE Settled1(r)' /\ Sound1(r)'
  <2>0. run'[r] = (IF r \notin gone THEN run[r] ELSE v(r)) /\ stores'[r] = ss(r) BY <1>1
  <2>1. Sound1(r)' BY <1>1, <1>3, <1>6, <2>0 DEF Sound1
  <2>2. Usable(ss(r), NoStore) BY <1>3 DEF Usable, NoStore
  <2>3. Placed(run[r], ss(r), Len(sessions)) BY <1>3 DEF Placed
  <2>4. r \in gone => run[r].where # "nowhere" OBVIOUS
  <2>5. r \in gone => Placed(v(r), ss(r), Len(sessions))
    BY <1>3, <1>4, <2>2, <2>3, <2>4 DEF Placed
  <2>6. Placed(run'[r], ss(r), Len(sessions)) BY <2>0, <2>3, <2>5
  <2> QED BY <1>1, <1>2, <2>0, <2>1, <2>6 DEF Settled1
<1>8. FreshRunHasOpenSession'
  <2> SUFFICES ASSUME NEW r \in Registered', run'[r].entry = 1
               PROVE  sessions'[run'[r].session] = "active"
    BY DEF FreshRunHasOpenSession
  <2>1. r \in Runs /\ run'[r].where \in {"live", "ended"} BY DEF Registered
  <2>2. r \notin gone
    <3>1. r \in gone => run'[r].where = "left" BY <1>1, <1>4, <2>1
    <3> QED BY <2>1, <3>1
  <2>3. run'[r] = run[r] /\ r \in Registered BY <1>1, <2>1, <2>2 DEF Registered
  <2>4. sessions[run[r].session] = "active" BY <2>3 DEF Housed, FreshRunHasOpenSession
  <2>5. run[r].session \in 1..Len(sessions)
    <3>1. run[r].session \in 0..Len(sessions) /\ run[r].session # 0
      BY <1>3, <2>1, <2>3 DEF Placed, Registered
    <3> QED BY <1>2, <3>1
  <2>6. run[r].session \notin Closable(gone) BY <2>2, <2>3 DEF Closable
  <2> QED BY <1>1, <2>3, <2>4, <2>5, <2>6
<1>9. Stay
  <2>1. \A r \in Runs : OnDisk(r) => OnDisk(r)' BY <1>1, <1>4 DEF OnDisk
  <2>2. \A r \in Runs : stores'[r] = ss(r) BY <1>1
  <2> QED BY <1>2, <1>3, <2>1, <2>2 DEF Stay
<1>10. Quiet' BY <1>1 DEF Quiet
<1>11. ASSUME NEW g \in Guests PROVE Hosted(g)'
  <2>1. Hosted(g) /\ guest'[g] = guest[g] BY <1>1 DEF Housed
  <2>2. \A r \in Runs : \A s : Usable(stores[r], s) => Usable(stores'[r], s) BY <1>1, <1>3
  <2> QED BY <2>1, <2>2 DEF Hosted
<1> QED BY <1>5, <1>7, <1>8, <1>9, <1>10, <1>11 DEF Housed

\* A daemon that dies holds nothing, and no run is registered.
LEMMA DieMoves == ASSUME Housed, Die PROVE Housed' /\ Stay
<1> DEFINE v(r) == [run[r] EXCEPT !.where = IF r \in Registered THEN "left" ELSE run[r].where,
                       !.entry = NoStore, !.cached = NoStore, !.job = 0, !.jobStore = NoStore]
<1>1. \A r \in Runs : run[r] \in RunSet BY DEF Housed, Kept
<1>2. /\ run' = [r \in Runs |-> v(r)] /\ up' = FALSE
      /\ writing' = {w \in writing : w.by \in Guests}
      /\ UNCHANGED <<sessions, stores, log, guest, life>>
  BY <1>1 DEF Die, RunSet
<1>3. ASSUME NEW r \in Runs
      PROVE  /\ v(r) \in RunSet /\ v(r).where = (IF r \in Registered THEN "left" ELSE run[r].where)
             /\ v(r).entry = NoStore /\ v(r).cached = NoStore /\ v(r).session = run[r].session
             /\ v(r).jobStore = NoStore /\ v(r).job = 0
  <2>1. 0 \in 0..2 /\ NoStore \in Nat /\ NoStore = 0 BY DEF NoStore
  <2>2. CASE r \in Registered BY <1>1, <2>1, <2>2 DEF RunSet
  <2>3. CASE r \notin Registered BY <1>1, <2>1, <2>3 DEF RunSet
  <2> QED BY <2>2, <2>3
<1> HIDE DEF v
<1>4. Kept' BY <1>2, <1>3 DEF Housed, Kept
<1>5. \A r \in Runs : run'[r].where \notin {"live", "ended"} BY <1>2, <1>3 DEF Registered
<1>6. Registered' = {} BY <1>5 DEF Registered
<1>7. Quiet' BY <1>2, <1>3, <1>6 DEF Quiet
<1>8. ASSUME NEW r \in Runs PROVE Settled1(r)' /\ Sound1(r)'
  <2>1. /\ Placed(run[r], stores[r], Len(sessions))
        /\ Numbered(stores[r], log[r], LinesOf(r))
    BY DEF Housed, Settled1, Sound1
  <2>2. LinesOf(r)' \in SUBSET LinesOf(r) BY <1>2 DEF LinesOf
  <2>3. Numbered(stores[r], log[r], LinesOf(r)') BY <2>1, <2>2, Drops
  <2>4. Sound1(r)' BY <1>2, <2>3 DEF Sound1
  <2>5. Usable(stores[r], NoStore)
    <3>1. Len(stores[r]) \in Nat BY DEF Housed, Kept
    <3> QED BY <3>1 DEF Usable, NoStore
  <2>6. v(r).where # "nowhere" => run[r].where # "nowhere" BY <1>3 DEF Registered
  <2>7. Placed(v(r), stores[r], Len(sessions)) BY <1>3, <2>1, <2>5, <2>6 DEF Placed
  <2> QED BY <1>2, <2>4, <2>7 DEF Settled1
<1>9. FreshRunHasOpenSession' BY <1>6 DEF FreshRunHasOpenSession
<1>10. Stay
  <2>1. \A r \in Runs : OnDisk(r) => OnDisk(r)' BY <1>2, <1>3 DEF OnDisk
  <2>2. Len(sessions) \in Nat /\ \A r \in Runs : Len(stores[r]) \in Nat BY DEF Housed, Kept
  <2> QED BY <1>2, <2>1, <2>2 DEF Stay
<1>11. \A g \in Guests : Hosted(g)' BY <1>2 DEF Housed, Hosted
<1> QED BY <1>4, <1>7, <1>8, <1>9, <1>10, <1>11 DEF Housed

\* The next daemon opens a store on every orphan.
LEMMA RestartMoves ==
    ASSUME Housed, Restart
    PROVE  /\ Housed' /\ Stay
           /\ \A r \in Orphans : /\ Len(stores'[r]) = NextStore(r)
                                 /\ Usable(stores'[r], NextStore(r))
<1> DEFINE ss(r) == IF r \in Orphans THEN Opened(r) ELSE stores[r]
<1>1. /\ ~up /\ up' = TRUE /\ life' = life + 1 /\ stores' = [r \in Runs |-> ss(r)]
      /\ UNCHANGED <<sessions, run, log, writing, guest>>
  BY DEF Restart
<1>2. Registered = {} /\ life \in Nat \ {0} /\ life + 1 \in Nat \ {0}
  BY <1>1 DEF Housed, Quiet, Kept
<1>3. ASSUME NEW r \in Runs
      PROVE  /\ ss(r) \in Seq(StoreSet) /\ Numbered(ss(r), log[r], LinesOf(r))
             /\ Len(ss(r)) >= Len(stores[r])
             /\ \A s : Usable(stores[r], s) => Usable(ss(r), s)
             /\ r \in Orphans => Len(ss(r)) = NextStore(r) /\ Usable(ss(r), NextStore(r))
             /\ stores[r] # <<>> => ss(r) # <<>>
  <2>1. CASE r \in Orphans
    <3>1. ss(r) = Opened(r) BY <2>1
    <3> HIDE DEF ss
    <3> QED BY <3>1, Fresh
  <2>2. CASE r \notin Orphans
    <3>1. ss(r) = stores[r] BY <2>2
    <3>2. stores[r] \in Seq(StoreSet) /\ Len(stores[r]) \in Nat
          /\ Numbered(stores[r], log[r], LinesOf(r))
      BY DEF Housed, Kept, Sound1
    <3> HIDE DEF ss
    <3> QED BY <2>2, <3>1, <3>2
  <2> QED BY <2>1, <2>2
<1> HIDE DEF ss
<1>4. Kept' BY <1>1, <1>2, <1>3 DEF Housed, Kept
<1>5. Quiet' BY <1>1 DEF Quiet
<1>6. FreshRunHasOpenSession' BY <1>1, <1>2 DEF FreshRunHasOpenSession, Registered
<1>7. ASSUME NEW r \in Runs PROVE Settled1(r)' /\ Sound1(r)'
  <2>1. stores'[r] = ss(r) /\ LinesOf(r)' = LinesOf(r) BY <1>1 DEF LinesOf
  <2>2. Sound1(r)' BY <1>1, <1>3, <2>1 DEF Sound1
  <2>3. Placed(run[r], stores[r], Len(sessions)) BY DEF Housed, Settled1
  <2>4. Placed(run[r], ss(r), Len(sessions)) BY <1>3, <2>3 DEF Placed
  <2> QED BY <1>1, <2>1, <2>2, <2>4 DEF Settled1
<1>8. Stay
  <2>1. \A r \in Runs : (OnDisk(r) => OnDisk(r)') /\ stores'[r] = ss(r) BY <1>1 DEF OnDisk
  <2>2. Len(sessions) \in Nat BY DEF Housed, Kept
  <2> QED BY <1>1, <1>3, <2>1, <2>2 DEF Stay
<1>9. \A r \in Orphans : Len(stores'[r]) = NextStore(r) /\ Usable(stores'[r], NextStore(r))
  <2>1. \A r \in Orphans : r \in Runs /\ stores'[r] = ss(r) BY <1>1 DEF Orphans
  <2> QED BY <1>3, <2>1
<1>10. ASSUME NEW g \in Guests PROVE Hosted(g)'
  <2>1. Hosted(g) /\ guest'[g] = guest[g] BY <1>1 DEF Housed
  <2>2. \A r \in Runs : \A s : Usable(stores[r], s) => Usable(stores'[r], s) BY <1>1, <1>3
  <2> QED BY <2>1, <2>2 DEF Hosted
<1> QED BY <1>4, <1>5, <1>6, <1>7, <1>8, <1>9, <1>10 DEF Housed

\* A guest that comes is placed, where it works on a run and a store that are there.
LEMMA GuestIn ==
    ASSUME Housed, NEW g \in Guests, NEW as \in {"foreground", "recovery", "job"},
           NEW r \in Runs, NEW s \in Nat, NEW due \in 0..2, Comes1(g, as, r, s, due),
           Usable(stores'[r], s)
    PROVE  Received
<1> DEFINE v == [as |-> as, run |-> r, store |-> s, due |-> due]
<1>1. v \in GuestSet BY DEF GuestSet
<1>2. v.as = as /\ v.run = r /\ v.store = s OBVIOUS
<1>3. guest' = [guest EXCEPT ![g] = v] BY DEF Comes1
<1> HIDE DEF v
<1>4. /\ guest' \in [Guests -> GuestSet] /\ guest'[g] = v
      /\ \A h \in Guests \ {g} : guest'[h] = guest[h]
  BY <1>1, <1>3 DEF Housed, Kept
<1>5. Hosted(g)' BY <1>2, <1>4 DEF Hosted
<1> QED BY <1>4, <1>5 DEF Received

\* A guest that goes on, its due aside, or goes, is placed.
LEMMA GuestOn ==
    ASSUME Housed, NEW g \in Guests, NEW v \in GuestSet, guest' = [guest EXCEPT ![g] = v],
           \/ v = Away
           \/ /\ v.as = guest[g].as /\ v.run = guest[g].run /\ v.store = guest[g].store
              /\ guest[g].as # "nobody" /\ v.run \in Runs
              /\ Len(stores'[v.run]) >= Len(stores[v.run]) /\ Len(stores'[v.run]) \in Nat
    PROVE  Received
<1>1. /\ guest' \in [Guests -> GuestSet] /\ guest'[g] = v
      /\ \A h \in Guests \ {g} : guest'[h] = guest[h]
  BY DEF Housed, Kept
<1>2. Hosted(g)'
  <2>1. CASE v = Away BY <1>1, <2>1 DEF Hosted
  <2>2. CASE v # Away
    <3>1. Hosted(g) /\ guest[g] # Away BY <2>2 DEF Housed, Away
    <3>2. v.run \in Runs /\ v.store \in 0..Len(stores[v.run]) BY <2>2, <3>1 DEF Hosted, Usable
    <3>3. Len(stores[v.run]) \in Nat BY <3>2 DEF Housed, Kept
    <3>4. Usable(stores'[v.run], v.store) BY <2>2, <3>2, <3>3 DEF Usable
    <3> QED BY <1>1, <2>2, <3>2, <3>4 DEF Hosted
  <2> QED BY <2>1, <2>2
<1> QED BY <1>1, <1>2 DEF Received

\* A guest that is there works on a run.
LEMMA GuestThere ==
    ASSUME Housed, NEW g \in Guests, guest[g].as # "nobody"
    PROVE  /\ guest[g].run \in Runs /\ guest[g] \in GuestSet
           /\ guest[g].store \in Nat /\ Usable(stores[guest[g].run], guest[g].store)
           /\ Away \in GuestSet
BY DEF Housed, Kept, Hosted, Away, GuestSet, NoRun, NoStore

\* A foreground run begins.
LEMMA ForegroundComes ==
    ASSUME Housed, NEW g \in Guests, NEW r \in Runs, StartsForeground(g, r)
    PROVE  Housed' /\ Stay
<1> DEFINE v == [Unborn EXCEPT !.where = "left", !.top = "RUNNING",
                               !.mode = "foreground", !.session = Adopted]
<1>1. NewRunAt(r, v) /\ Comes1(g, "foreground", r, NextStore(r), 0) BY DEF StartsForeground
<1>2. Adopted \in Nat /\ NextStore(r) \in Nat /\ 0 \in 0..2 BY Adopts, Fresh
<1>3. /\ v \in RunSet /\ v.where = "left" /\ v.session = Adopted
      /\ v.entry = NoStore /\ v.cached = NoStore /\ v.jobStore = NoStore /\ v.job = 0
  BY <1>2 DEF RunSet, Unborn, TopState, NoStore
<1> HIDE DEF v
<1>4. /\ run' = [run EXCEPT ![r] = v] /\ stores' = [stores EXCEPT ![r] = Opened(r)]
      /\ UNCHANGED <<writing, up>>
  BY <1>1 DEF NewRunAt
<1>5. stores'[r] = Opened(r) /\ run'[r] = v /\ \A q \in Runs \ {r} : run'[q] = run[q]
  BY <1>4 DEF Housed, Kept
<1>6. Received BY <1>1, <1>2, <1>5, Fresh, GuestIn
<1>7. Quiet'
  <2>1. \A q \in Runs : q \in Registered' => q \in Registered BY <1>3, <1>5 DEF Registered
  <2>2. Registered' \subseteq Registered BY <2>1 DEF Registered
  <2> QED BY <1>3, <1>4, <1>5, <2>2 DEF Housed, Quiet
<1> QED BY <1>1, <1>3, <1>6, <1>7, NewRuns

\* A second daemon opens a store on what it takes for an orphan.
LEMMA RecoveryComes ==
    ASSUME Housed, NEW g \in Guests, NEW r \in Runs, StartsRecovery(g, r)
    PROVE  Housed' /\ Stay
<1>1. /\ Comes1(g, "recovery", r, NextStore(r), 2)
      /\ stores' = [stores EXCEPT ![r] = Opened(r)]
      /\ UNCHANGED <<sessions, run, log, writing, up, life>>
  BY DEF StartsRecovery
<1>2. stores'[r] = Opened(r) /\ NextStore(r) \in Nat /\ 2 \in 0..2
  BY <1>1, Fresh DEF Housed, Kept
<1>3. Received BY <1>1, <1>2, Fresh, GuestIn
<1>4. Quiet' BY <1>1 DEF Housed, Quiet, Registered
<1> QED BY <1>1, <1>3, <1>4, OpensOne

\* A step that changes nothing but the guests.
LEMMA OnlyGuests ==
    ASSUME Housed, UNCHANGED <<sessions, run, stores, log, writing, up, life>>, Received,
           NEW r \in Runs
    PROVE  Housed' /\ Stay
<1> DEFINE top == run[r].top
<1> DEFINE mode == run[r].mode
<1>1. run' = [run EXCEPT ![r].top = top, ![r].mode = mode] BY AsItIs
<1>2. top \in TopState /\ mode \in {"daemon", "foreground"} BY AsItIs
<1>3. UNCHANGED <<sessions, stores, log, writing, up, life>> OBVIOUS
<1> HIDE DEF top, mode
<1> QED BY <1>1, <1>2, <1>3, Saved

\* A clarification is asked for past the daemon.
LEMMA JobComes ==
    ASSUME Housed, NEW g \in Guests, NEW r \in Runs, StartsJob(g, r)
    PROVE  Housed' /\ Stay
<1>1. /\ Comes1(g, "job", r, NoStore, 2)
      /\ UNCHANGED <<sessions, run, stores, log, writing, up, life>>
  BY DEF StartsJob
<1>2. Usable(stores'[r], NoStore) /\ NoStore \in Nat /\ 2 \in 0..2
  <2>1. Len(stores[r]) \in Nat BY DEF Housed, Kept
  <2> QED BY <1>1, <2>1 DEF Usable, NoStore
<1>3. Received BY <1>1, <1>2, GuestIn
<1> QED BY <1>1, <1>3, OnlyGuests

\* A guest draws a number.
LEMMA GuestDraws ==
    ASSUME Housed, NEW g \in Guests, GuestWrites(g) PROVE Housed' /\ Stay
<1> DEFINE r == guest[g].run
<1> DEFINE s == guest[g].store
<1> DEFINE v == [guest[g] EXCEPT !.due = IF guest[g].due = 0 THEN 0 ELSE guest[g].due - 1]
<1>1. guest[g].as # "nobody"
  <2>1. guest[g] = Away => guest[g].as # "foreground" /\ ~(guest[g].due > 0) BY DEF Away
  <2>2. guest[g] # Away BY <2>1 DEF GuestWrites
  <2> QED BY <2>2 DEF Housed, Hosted
<1>2. r \in Runs /\ guest[g] \in GuestSet /\ s \in Nat /\ Usable(stores[r], s)
  BY <1>1, GuestThere
<1>3. guest[g].due \in 0..2 BY <1>2 DEF GuestSet
<1>4. v \in GuestSet /\ v.as = guest[g].as /\ v.run = r /\ v.store = s
  <2>1. (IF guest[g].due = 0 THEN 0 ELSE guest[g].due - 1) \in 0..2 BY <1>3
  <2> QED BY <1>2, <2>1 DEF GuestSet
<1>5. /\ Draw(g, r, s, stores[r]) /\ Room(r) /\ guest' = [guest EXCEPT ![g] = v]
      /\ UNCHANGED <<sessions, run, log, up, life>>
  BY DEF GuestWrites
<1>11. r = guest[g].run /\ s = guest[g].store OBVIOUS
<1> HIDE DEF v, r, s
<1>6. Len(stores'[r]) = Len(stores[r]) /\ Len(stores'[r]) \in Nat
  <2>1. stores[r] \in Seq(StoreSet) /\ stores \in [Runs -> Seq(StoreSet)] BY <1>2 DEF Housed, Kept
  <2>2. \E n : stores'[r] = IF s = NoStore THEN stores[r] ELSE [stores[r] EXCEPT ![s].count = n]
    BY <1>2, <1>5, <2>1 DEF Draw
  <2> QED BY <2>1, <2>2
<1>7. Received
  <2>1. /\ v.as = guest[g].as /\ v.run = guest[g].run /\ v.store = guest[g].store
        /\ guest[g].as # "nobody" /\ v.run \in Runs
        /\ v \in GuestSet /\ guest' = [guest EXCEPT ![g] = v]
    BY <1>1, <1>2, <1>4, <1>5, <1>11
  <2>2. Len(stores'[v.run]) >= Len(stores[v.run]) /\ Len(stores'[v.run]) \in Nat
    BY <1>4, <1>6
  <2> QED BY <2>1, <2>2, GuestOn
<1>8. Quiet'
  <2>1. \A w \in writing' : w \in writing \/ w.by = g BY <1>5 DEF Draw
  <2> QED BY <1>5, <2>1 DEF Housed, Quiet, Registered
<1>9. run[r] \in RunSet /\ run' = [run EXCEPT ![r] = run[r]] /\ g \in Writers
      /\ Placed(run[r], stores[r], Len(sessions))
  BY <1>2, <1>5 DEF Housed, Kept, Writers, Settled1
<1>10. Usable(stores[r], run[r].cached) BY <1>9 DEF Placed
<1> QED BY <1>2, <1>5, <1>7, <1>8, <1>9, <1>10, DrawMoves

\* A guest leaves, the run as it has it.
LEMMA GuestGoes ==
    ASSUME Housed, NEW g \in Guests, NEW top \in TopState, GuestLeaves(g, top)
    PROVE  Housed' /\ Stay
<1> DEFINE r == guest[g].run
<1>1. r \in Runs /\ Away \in GuestSet BY GuestThere DEF GuestLeaves
<1>2. guest' = [guest EXCEPT ![g] = Away] /\ UNCHANGED <<sessions, stores, log, writing, up, life>>
  BY DEF GuestLeaves
<1>3. Received BY <1>1, <1>2, GuestOn
<1>4. CASE guest[g].as = "foreground"
  <2>1. run' = [run EXCEPT ![r].top = top, ![r].mode = "foreground"] BY <1>4 DEF GuestLeaves
  <2> HIDE DEF r
  <2> QED BY <1>1, <1>2, <1>3, <2>1, Saved
<1>5. CASE guest[g].as = "recovery"
  <2>1. run' = [run EXCEPT ![r].top = top, ![r].mode = "daemon"] BY <1>5 DEF GuestLeaves
  <2> HIDE DEF r
  <2> QED BY <1>1, <1>2, <1>3, <2>1, Saved
<1>6. CASE guest[g].as \notin {"foreground", "recovery"}
  <2>1. UNCHANGED run BY <1>6 DEF GuestLeaves
  <2> HIDE DEF r
  <2> QED BY <1>1, <1>2, <1>3, <2>1, OnlyGuests
<1> QED BY <1>4, <1>5, <1>6

\* A guest's process dies, and what it drew is never written.
LEMMA GuestGone ==
    ASSUME Housed, NEW g \in Guests, GuestDies(g) PROVE Housed' /\ Stay
<1>1. /\ guest' = [guest EXCEPT ![g] = Away] /\ writing' = {w \in writing : w.by # g}
      /\ UNCHANGED <<sessions, run, stores, log, up, life>>
  BY DEF GuestDies
<1>2. Away \in GuestSet /\ guest[g].run \in Runs BY GuestThere DEF GuestDies
<1>3. Received BY <1>1, <1>2, GuestOn
<1>4. Kept' BY <1>1, <1>3 DEF Housed, Kept, Received
<1>5. Quiet' BY <1>1 DEF Housed, Quiet, Registered
<1>6. \A q : LinesOf(q)' \in SUBSET LinesOf(q) BY <1>1 DEF LinesOf
<1>7. ASSUME NEW q \in Runs PROVE Settled1(q)' /\ Sound1(q)'
  <2>1. Numbered(stores[q], log[q], LinesOf(q)) /\ Placed(run[q], stores[q], Len(sessions))
    BY DEF Housed, Sound1, Settled1
  <2>2. Numbered(stores[q], log[q], LinesOf(q)') BY <1>6, <2>1, Drops
  <2> QED BY <1>1, <2>1, <2>2 DEF Sound1, Settled1
<1>8. Len(sessions) \in Nat /\ \A q \in Runs : Len(stores[q]) \in Nat BY DEF Housed, Kept
<1>9. Stay BY <1>1, <1>8 DEF Stay, OnDisk
<1>10. \A h \in Guests : Hosted(h)' BY <1>1, <1>3 DEF Housed, Received, Hosted
<1>11. FreshRunHasOpenSession' BY <1>1 DEF Housed, FreshRunHasOpenSession, Registered
<1> QED BY <1>4, <1>5, <1>7, <1>9, <1>10, <1>11 DEF Housed

\* At first there is no run; a session may be there, of one before.
LEMMA InitHoused == Init => Housed
<1> SUFFICES ASSUME Init PROVE Housed
  OBVIOUS
<1>1. /\ run = [r \in Runs |-> Unborn] /\ stores = [r \in Runs |-> <<>>]
      /\ log = [r \in Runs |-> <<>>] /\ writing = {} /\ up = TRUE /\ life = 1
      /\ guest = [g \in Guests |-> Away]
      /\ sessions = <<"closed">> \/ sessions = <<>>
  BY DEF Init, SessionsInit
<1>2. /\ Unborn \in RunSet /\ Unborn.where = "nowhere" /\ Unborn.session = 0
      /\ Unborn.entry = NoStore /\ Unborn.cached = NoStore /\ Unborn.jobStore = NoStore
  BY DEF Unborn, RunSet, TopState, NoStore
<1>3. Kept
  <2>1. sessions \in Seq({"active", "closed"})
    <3>1. "closed" \in {"active", "closed"} OBVIOUS
    <3>2. <<"closed">> \in Seq({"active", "closed"}) /\ <<>> \in Seq({"active", "closed"}) BY <3>1
    <3> QED BY <1>1, <3>2
  <2>2. <<>> \in Seq(StoreSet) /\ <<>> \in Seq(LineSet) OBVIOUS
  <2>3. Away \in GuestSet BY DEF Away, GuestSet, NoRun, NoStore
  <2> QED BY <1>1, <1>2, <2>1, <2>2, <2>3 DEF Kept
<1>4. Quiet BY <1>1 DEF Quiet
<1>5. \A r \in Runs : run[r] = Unborn /\ stores[r] = <<>> /\ log[r] = <<>> /\ LinesOf(r) = {}
  BY <1>1 DEF LinesOf
<1>6. Registered = {} BY <1>2, <1>5 DEF Registered
<1>7. Placed(Unborn, <<>>, Len(sessions))
  <2>1. Len(sessions) \in Nat /\ Len(<<>>) = 0 BY <1>3 DEF Kept
  <2> QED BY <1>2, <2>1 DEF Placed, Usable, NoStore
<1>8. Numbered(<<>>, <<>>, {})
  <2>1. Len(<<>>) = 0 /\ IsFiniteSet({}) /\ Cardinality({}) = 0 BY FS_EmptySet
  <2>2. <<>> \in Seq(StoreSet) /\ <<>> \in Seq(LineSet) OBVIOUS
  <2>3. \A i \in 1..Len(<<>>) : FALSE BY <2>1
  <2>4. 0 + 0 <= MaxLines BY RunSessionsAssumption
  <2>5. Filled(<<>>, <<>>, {}) BY <2>1, <2>2, <2>3, <2>4 DEF Filled
  <2>6. Above(<<>>, <<>>, {}) BY <2>3 DEF Above
  <2> QED BY <2>3, <2>5, <2>6 DEF Numbered
<1>9. \A r \in Runs : Settled1(r) /\ Sound1(r)
  BY <1>1, <1>5, <1>7, <1>8 DEF Settled1, Sound1
<1>10. FreshRunHasOpenSession BY <1>6 DEF FreshRunHasOpenSession
<1>11. \A g \in Guests : Hosted(g) BY <1>1 DEF Hosted
<1> QED BY <1>3, <1>4, <1>9, <1>10, <1>11 DEF Housed
-------------------------------------------------------------------------------
(* The calls and the files *)

\* A step still to be done is about a run, a store, a request or an item that exists.
Possible(x) ==
    /\ x.do \in {"event", "note", "launch", "final", "park"} => x.run \in Runs
    /\ x.do \in {"event", "launch"} => Usable(stores[x.run], x.n)
    /\ x.do = "launch" => x.n >= 2 /\ OnDisk(x.run)
    /\ x.do \in {"wait", "settle", "complete", "item"} => x.n \in Requests
    /\ x.do \in {"result", "wake"} => x.n \in 1..Len(items)
Ready == {x \in StepSet : Possible(x)}
ThreadReady == {x \in Ready : x.do \in {"wait", "item"}}
Doable ==
    /\ todo \in [Callers -> Seq(Ready)] /\ \A h \in Handlers : todo[h] \in Seq(ThreadReady)

\* Requests are of sessions that exist, results and items of such requests.
Filed ==
    /\ \A i \in Requests : /\ requests[i].session \in 1..Len(sessions)
                           /\ requests[i].run \in Runs \cup {NoRun}
                           /\ requests[i].policy \in Policies
    /\ \A j \in 1..Len(items) : items[j].req \in Requests
    /\ \A x \in results : x.req \in Requests /\ x.item \in 1..Len(items)

Working == Orderly /\ Housed /\ Filed /\ Doable

\* Nothing is taken out of a file.
FilesStay ==
    /\ Requests \subseteq Requests' /\ ItemsKept
    /\ \A i \in Requests : /\ requests'[i].session = requests[i].session
                           /\ requests'[i].run = requests[i].run
                           /\ requests'[i].policy = requests[i].policy

\* The files are sequences.
LEMMA Lengths ==
    ASSUME Working
    PROVE  /\ Len(requests) \in Nat /\ Len(items) \in Nat /\ Len(sessions) \in Nat
           /\ \A r \in Runs : Len(stores[r]) \in Nat
BY DEF Working, Orderly, Records, Housed, Kept

\* What writes to no file takes nothing out of one.
LEMMA Unfiled ==
    ASSUME Working, UNCHANGED <<requests, items>> PROVE FilesStay
BY Lengths DEF FilesStay, ItemsKept, Requests

\* What can be done can be done later.
LEMMA ReadyStays ==
    ASSUME Working, Stay, FilesStay, Orderly', Housed'
    PROVE  Ready \subseteq Ready' /\ ThreadReady \subseteq ThreadReady'
<1>1. /\ Len(items) \in Nat /\ Len(items') \in Nat /\ Len(items') >= Len(items)
      /\ Requests \subseteq Requests'
      /\ \A r \in Runs : /\ Len(stores[r]) \in Nat /\ Len(stores'[r]) \in Nat
                         /\ Len(stores'[r]) >= Len(stores[r])
  BY Lengths DEF Orderly, Records, Housed, Kept, FilesStay, ItemsKept, Stay
<1>2. ASSUME NEW x \in Ready PROVE x \in Ready'
  <2>1. x \in StepSet /\ Possible(x) BY DEF Ready
  <2>2. x.do \in {"event", "launch"} => Usable(stores'[x.run], x.n)
    <3> SUFFICES ASSUME x.do \in {"event", "launch"}
                 PROVE  Usable(stores'[x.run], x.n)
      OBVIOUS
    <3>1. x.run \in Runs /\ Usable(stores[x.run], x.n) BY <2>1 DEF Possible
    <3> QED BY <1>1, <3>1 DEF Usable
  <2>3. x.do = "launch" => x.n >= 2 /\ OnDisk(x.run)' BY <2>1 DEF Possible, Stay
  <2>4. Possible(x)' BY <1>1, <2>1, <2>2, <2>3 DEF Possible
  <2> QED BY <2>1, <2>4 DEF Ready
<1>3. ASSUME NEW x \in ThreadReady PROVE x \in ThreadReady'
  <2>1. x \in StepSet /\ Possible(x) /\ x.do \in {"wait", "item"} BY DEF ThreadReady, Ready
  <2>2. Possible(x)' BY <1>1, <2>1 DEF Possible
  <2> QED BY <2>1, <2>2 DEF ThreadReady, Ready
<1> QED BY <1>2, <1>3

\* A new call of the daemon.
LEMMA NewSteps ==
    ASSUME Working, Stay, FilesStay, Orderly', Housed', NEW ss, ss \in Seq(Ready'),
           Steps("daemon", ss)
    PROVE  Doable'
<1>1. /\ todo \in [Callers -> Seq(Ready)] /\ "daemon" \in Callers
      /\ \A h \in Handlers : h \in Callers /\ h # "daemon" /\ todo[h] \in Seq(ThreadReady)
      /\ \A p \in Callers : p = "daemon" \/ p \in Handlers
  BY EventPlaneAssumption DEF Working, Doable, Callers
<1>2. ThreadReady \subseteq ThreadReady' /\ ThreadReady' \subseteq Ready'
  BY ReadyStays DEF ThreadReady
<1>3. \A h \in Handlers : todo[h] \in Seq(ThreadReady') /\ todo[h] \in Seq(Ready')
  <2>1. \A h \in Handlers : todo[h] \in Seq(ThreadReady') BY <1>1, <1>2, Wider
  <2> QED BY <1>2, <2>1, Wider
<1>4. /\ todo'["daemon"] = ss /\ \A h \in Handlers : todo'[h] = todo[h]
      /\ todo' = [todo EXCEPT !["daemon"] = ss]
  BY <1>1 DEF Steps
<1>5. todo' \in [Callers -> Seq(Ready')] BY <1>1, <1>3, <1>4
<1> QED BY <1>3, <1>4, <1>5 DEF Doable

\* A call goes on.
LEMMA StepDone ==
    ASSUME Working, Stay, FilesStay, Orderly', Housed', life' = life, NEW p \in Callers,
           todo[p] # <<>>, Done(p)
    PROVE  Doable'
<1>1. /\ todo \in [Callers -> Seq(Ready)]
      /\ \A h \in Handlers : h \in Callers /\ todo[h] \in Seq(ThreadReady)
  BY DEF Working, Doable, Callers
<1>2. Ready \subseteq Ready' /\ ThreadReady \subseteq ThreadReady' BY ReadyStays
<1>3. /\ \A q \in Callers : todo[q] \in Seq(Ready')
      /\ \A h \in Handlers : todo[h] \in Seq(ThreadReady')
  BY <1>1, <1>2, Wider
<1>4. todo' = [todo EXCEPT ![p] = Tail(todo[p])] BY DEF Done
<1>5. Tail(todo[p]) \in Seq(Ready') BY <1>3
<1>6. todo' \in [Callers -> Seq(Ready')] BY <1>1, <1>3, <1>4, <1>5
<1>7. ASSUME NEW h \in Handlers PROVE todo'[h] \in Seq(ThreadReady')
  <2>1. CASE h = p
    <3>1. Tail(todo[h]) \in Seq(ThreadReady') BY <1>3, <2>1
    <3> QED BY <1>1, <1>4, <2>1, <3>1
  <2>2. CASE h # p BY <1>1, <1>3, <1>4, <2>2
  <2> QED BY <2>1, <2>2
<1> QED BY <1>6, <1>7 DEF Doable

\* No call goes on.
LEMMA NoStep ==
    ASSUME Working, Stay, FilesStay, Orderly', Housed', life' = life, UNCHANGED todo
    PROVE  Doable'
<1>1. Ready \subseteq Ready' /\ ThreadReady \subseteq ThreadReady' BY ReadyStays
<1>2. \A q \in Callers : todo[q] \in Seq(Ready') BY <1>1, Wider DEF Working, Doable
<1>3. \A h \in Handlers : todo[h] \in Seq(ThreadReady') BY <1>1, Wider DEF Working, Doable
<1> QED BY <1>2, <1>3 DEF Working, Doable

\* The files stay in order, with what is new in them.
LEMMA FiledStays ==
    ASSUME Working, Stay, FilesStay, Orderly', Housed',
           \A i \in Requests' \ Requests : /\ requests'[i].session \in 1..Len(sessions')
                                           /\ requests'[i].run \in Runs \cup {NoRun}
                                           /\ requests'[i].policy \in Policies,
           \A j \in 1..Len(items') : j \in 1..Len(items) \/ items'[j].req \in Requests',
           \A x \in results' \ results : x.req \in Requests' /\ x.item \in 1..Len(items')
    PROVE  Filed'
<1>1. /\ Len(items) \in Nat /\ Len(items') \in Nat /\ Len(items') >= Len(items)
      /\ Len(sessions) \in Nat /\ Len(sessions') \in Nat /\ Len(sessions') >= Len(sessions)
      /\ Requests \subseteq Requests'
  BY Lengths DEF Orderly, Records, Housed, Kept, FilesStay, ItemsKept, Stay
<1>2. ASSUME NEW i \in Requests'
      PROVE  /\ requests'[i].session \in 1..Len(sessions')
             /\ requests'[i].run \in Runs \cup {NoRun} /\ requests'[i].policy \in Policies
  <2>1. CASE i \in Requests
    <3>1. /\ requests[i].session \in 1..Len(sessions)
          /\ requests[i].run \in Runs \cup {NoRun} /\ requests[i].policy \in Policies
      BY <2>1 DEF Working, Filed
    <3>2. requests'[i].session \in 1..Len(sessions') BY <1>1, <2>1, <3>1 DEF FilesStay
    <3> QED BY <2>1, <3>1, <3>2 DEF FilesStay
  <2>2. CASE i \notin Requests BY <2>2
  <2> QED BY <2>1, <2>2
<1>3. ASSUME NEW j \in 1..Len(items') PROVE items'[j].req \in Requests'
  <2>1. j \in 1..Len(items) => items'[j].req = items[j].req /\ items[j].req \in Requests
    BY DEF Working, Filed, FilesStay, ItemsKept
  <2> QED BY <1>1, <2>1
<1>4. ASSUME NEW x \in results' PROVE x.req \in Requests' /\ x.item \in 1..Len(items')
  <2>1. x \in results => x.req \in Requests /\ x.item \in 1..Len(items) BY DEF Working, Filed
  <2> QED BY <1>1, <2>1
<1> QED BY <1>2, <1>3, <1>4 DEF Filed

\* What writes to no file leaves all of them in order.
LEMMA FilesRest ==
    ASSUME Working, Stay, Orderly', Housed', UNCHANGED <<requests, items, results>>
    PROVE  FilesStay /\ Filed'
<1>1. FilesStay BY Unfiled
<1>2. Requests' = Requests BY DEF Requests
<1> QED BY <1>1, <1>2, FiledStays

-------------------------------------------------------------------------------
(* Every step keeps the runs, their sessions and their logs *)

\* The daemon's next step is one that can be done.
LEMMA NextReady ==
    ASSUME Working, todo["daemon"] # <<>>
    PROVE  LET x == Head(todo["daemon"]) IN x \in StepSet /\ Possible(x)
<1>1. todo["daemon"] \in Seq(Ready) BY DEF Working, Doable, Callers
<1>2. Head(todo["daemon"]) \in Ready BY <1>1
<1> QED BY <1>2 DEF Ready

\* What changes neither runs nor logs keeps them in order.
LEMMA HousedRests == ASSUME Housed, UNCHANGED sessionVars PROVE Housed' /\ Stay
<1>1. UNCHANGED <<sessions, run, stores, log, writing, guest, up, life>> BY DEF sessionVars
<1>2. \A r : LinesOf(r)' = LinesOf(r) BY <1>1 DEF LinesOf
<1>3. Kept' /\ Quiet' /\ FreshRunHasOpenSession'
  BY <1>1 DEF Housed, Kept, Quiet, FreshRunHasOpenSession, Registered
<1>4. ASSUME NEW r \in Runs PROVE Settled1(r)' /\ Sound1(r)'
  <2>1. Placed(run[r], stores[r], Len(sessions))
        /\ Numbered(stores[r], log[r], LinesOf(r))
    BY DEF Housed, Settled1, Sound1
  <2> QED BY <1>1, <1>2, <2>1 DEF Settled1, Sound1
<1>5. Stay
  <2>1. Len(sessions) \in Nat /\ \A r \in Runs : Len(stores[r]) \in Nat BY DEF Housed, Kept
  <2> QED BY <1>1, <2>1 DEF Stay, OnDisk
<1>6. \A g \in Guests : Hosted(g)' BY <1>1 DEF Housed, Hosted
<1> QED BY <1>3, <1>4, <1>5, <1>6 DEF Housed

\* What the server thread does next to a run.
LEMMA ServerMoves ==
    ASSUME Working, LaunchRun \/ SaveFinal \/ ParkOrphan \/ WriteEvent \/ WriteNote
    PROVE  Housed' /\ Stay
<1> DEFINE x == Head(todo["daemon"])
<1>1. up /\ todo["daemon"] # <<>>
  BY DEF LaunchRun, SaveFinal, ParkOrphan, WriteEvent, WriteNote, NextDue, Due
<1>2. x \in StepSet /\ Possible(x) /\ Housed BY <1>1, NextReady DEF Working
<1>3. CASE LaunchRun
  <2>1. Launch(x.run, x.n) /\ x.do = "launch" BY <1>3 DEF LaunchRun, NextDue, Due, Its
  <2> HIDE DEF x
  <2>2. /\ x.run \in Runs /\ Usable(stores[x.run], x.n) /\ OnDisk(x.run)
        /\ x.n >= 2 /\ x.n \in Nat
    BY <1>2, <2>1 DEF Possible, StepSet
  <2>3. x.n # 1 BY <2>2
  <2> QED BY <1>1, <1>2, <2>1, <2>2, <2>3, Launches
<1>4. CASE SaveFinal
  <2>1. SaveTop(x.run, "COMPLETED") /\ x.do = "final" BY <1>4 DEF SaveFinal, NextDue, Due
  <2> HIDE DEF x
  <2>2. x.run \in Runs /\ "COMPLETED" \in TopState
    BY <1>2, <2>1 DEF Possible, TopState, FinalStates
  <2> QED BY <1>1, <1>2, <2>1, <2>2, Saves
<1>5. CASE ParkOrphan
  <2>1. SaveTop(x.run, "PAUSED_FOR_HUMAN") /\ x.do = "park" BY <1>5 DEF ParkOrphan, NextDue, Due
  <2> HIDE DEF x
  <2>2. x.run \in Runs /\ "PAUSED_FOR_HUMAN" \in TopState
    BY <1>2, <2>1 DEF Possible, TopState, FinalStates
  <2> QED BY <1>1, <1>2, <2>1, <2>2, Saves
<1>6. CASE WriteEvent
  <2>1. ServerWrites1(x.run, x.n) /\ Room(x.run) /\ x.do = "event"
    BY <1>6 DEF WriteEvent, NextDue, Due, Its
  <2> HIDE DEF x
  <2>2. x.run \in Runs /\ Usable(stores[x.run], x.n) BY <1>2, <2>1 DEF Possible
  <2> QED BY <1>1, <1>2, <2>1, <2>2, ServerDraws
<1>7. CASE WriteNote
  <2>1. ServerNotes(x.run) /\ Room(x.run) /\ x.do = "note"
    BY <1>7 DEF WriteNote, NextDue, Due
  <2> HIDE DEF x
  <2>2. x.run \in Runs BY <1>2, <2>1 DEF Possible
  <2> QED BY <1>1, <1>2, <2>1, <2>2, NoteDraws
<1> QED BY <1>3, <1>4, <1>5, <1>6, <1>7

\* What a call, a worker or a job does to one run.
LEMMA RunsMove ==
    ASSUME Working, NEW r \in Runs,
           \/ \E b \in BOOLEAN : RegisterRun(r, b) \/ AckReview(r, b)
           \/ Resume(r) \/ AskClarification(r) \/ Work(r) \/ Answers(r)
    PROVE  Housed' /\ Stay
<1>0. Housed BY DEF Working
<1>1. ASSUME NEW b \in BOOLEAN, RegisterRun(r, b) PROVE Housed' /\ Stay
  BY <1>0, <1>1, Registers DEF RegisterRun, Serving
<1>2. ASSUME NEW b \in BOOLEAN, AckReview(r, b) PROVE Housed' /\ Stay
  BY <1>0, <1>2, Acknowledges DEF AckReview, Serving
<1>3. CASE Resume(r)
  <2>1. /\ stores' = [stores EXCEPT ![r] = Opened(r)] /\ up
        /\ UNCHANGED <<sessions, run, log, writing, guest, up, life>>
    BY <1>3 DEF Resume, Serving, OpenStore
  <2>2. Quiet' /\ Received BY <1>0, <2>1, NobodyComes DEF Quiet
  <2> QED BY <1>0, <2>1, <2>2, OpensOne
<1>4. CASE AskClarification(r) BY <1>0, <1>4, Clarifies DEF AskClarification, Serving
<1>5. CASE Work(r)
  <2>1. CASE WorkerWrites(r) BY <1>0, <1>5, <2>1, WorkerDraws DEF Work
  <2>2. ASSUME NEW t \in {"PAUSED_FOR_HUMAN", "COMPLETED"}, WorkerEnds(r, t)
        PROVE  Housed' /\ Stay
    <3>1. t \in TopState BY DEF TopState, FinalStates
    <3> QED BY <1>0, <1>5, <2>2, <3>1, Ends DEF Work
  <2>3. CASE WorkerSaves(r) BY <1>0, <2>3, ThreadsSave DEF WorkerSaves
  <2> QED BY <1>5, <2>1, <2>2, <2>3 DEF Work
<1>6. CASE Answers(r) BY <1>0, <1>6, JobDraws DEF Answers
<1> QED BY <1>1, <1>2, <1>3, <1>4, <1>5, <1>6

\* What a guest does, from its coming to its going.
LEMMA GuestsMove ==
    ASSUME Working, NEW g \in Guests, GuestWorks(g) \/ \E r \in Runs : GuestComes(g, r)
    PROVE  Housed' /\ Stay
<1>0. Housed BY DEF Working
<1>1. ASSUME NEW r \in Runs, GuestComes(g, r) PROVE Housed' /\ Stay
  BY <1>0, <1>1, ForegroundComes, RecoveryComes, JobComes DEF GuestComes
<1>2. CASE GuestWrites(g) BY <1>0, <1>2, GuestDraws
<1>3. CASE GuestSaves(g)
  <2> DEFINE r == guest[g].run
  <2>1. guest[g].as # "nobody" /\ ThreadSaves(r, "foreground") BY <1>3 DEF GuestSaves
  <2>2. r \in Runs BY <1>0, <2>1, GuestThere
  <2> HIDE DEF r
  <2> QED BY <1>0, <2>1, <2>2, ThreadsSave
<1>4. ASSUME NEW top \in TopState, GuestLeaves(g, top) PROVE Housed' /\ Stay
  BY <1>0, <1>4, GuestGoes
<1>5. CASE GuestDies(g) BY <1>0, <1>5, GuestGone
<1> QED BY <1>1, <1>2, <1>3, <1>4, <1>5 DEF GuestWorks

\* Every step keeps runs, sessions and logs in order, and what exists stays.
LEMMA NextHoused == ASSUME Working, [Next]_vars PROVE Housed' /\ Stay
<1>0. Housed BY DEF Working
<1>1. CASE UNCHANGED sessionVars BY <1>0, <1>1, HousedRests
<1>2. ASSUME NEW r \in Runs, NEW b \in BOOLEAN, RegisterRun(r, b) \/ AckReview(r, b)
      PROVE  Housed' /\ Stay
  BY <1>2, RunsMove
<1>3. ASSUME NEW r \in Runs,
             Resume(r) \/ Escalate(r) \/ AskClarification(r) \/ Work(r) \/ Answers(r)
      PROVE  Housed' /\ Stay
  BY <1>1, <1>3, RunsMove DEF Escalate
<1>4. CASE LaunchRun \/ SaveFinal \/ WriteEvent \/ WriteNote \/ ParkOrphan
  BY <1>4, ServerMoves
<1>5. CASE ReapRuns BY <1>0, <1>5, Reaps DEF ReapRuns, Serving
<1>6. CASE Lands BY <1>0, <1>6, LandMoves DEF Lands
<1>7. CASE SkipLine \/ Append1 \/ ClockTicks \/ IngressDies
  <2>1. UNCHANGED sessionVars BY <1>7 DEF SkipLine, Append1, ClockTicks, IngressDies
  <2> QED BY <1>1, <2>1
<1>8. ASSUME NEW r, NEW s, NEW p, CreateTask(r, s, p) PROVE Housed' /\ Stay
  BY <1>1, <1>8 DEF CreateTask
<1>9. ASSUME NEW i, NEW k, IngestResult(i, k) PROVE Housed' /\ Stay
  BY <1>1, <1>9 DEF IngestResult
<1>10. ASSUME NEW j, AckItem(j) PROVE Housed' /\ Stay BY <1>1, <1>10 DEF AckItem
<1>11. ASSUME NEW h, Post(h) \/ Handle(h) PROVE Housed' /\ Stay
  BY <1>1, <1>11 DEF Post, Handle
<1>12. CASE DaemonDies BY <1>0, <1>12, DieMoves DEF DaemonDies
<1>13. CASE DaemonStarts BY <1>0, <1>13, RestartMoves DEF DaemonStarts
<1>14. CASE UNCHANGED vars BY <1>1, <1>14 DEF vars
<1>15. ASSUME NEW g \in Guests, GuestWorks(g) \/ \E r \in Runs : GuestComes(g, r)
       PROVE  Housed' /\ Stay
  BY <1>15, GuestsMove
<1> QED BY <1>2, <1>3, <1>4, <1>5, <1>6, <1>7, <1>8, <1>9, <1>10, <1>11, <1>12, <1>13, <1>14,
           <1>15
        DEF Next

-------------------------------------------------------------------------------
(* Every step keeps the calls and the files *)

\* A step made now, that can be done next.
LEMMA MakesEvent ==
    ASSUME Working, Housed', NEW r \in Runs, NEW s, Usable(stores'[r], s)
    PROVE  Event(r, s) \in Ready'
<1> DEFINE x == Step("event", s, r)
<1>1. x.do = "event" /\ x.n = s /\ x.run = r BY DEF Step
<1>2. s \in Nat
  <2>1. Len(stores'[r]) \in Nat BY DEF Housed, Kept
  <2> QED BY <2>1 DEF Usable
<1>3. x \in StepSet BY <1>2 DEF Step, StepSet
<1> HIDE DEF x
<1>4. Possible(x)' BY <1>1 DEF Possible
<1>5. x \in Ready' BY <1>3, <1>4 DEF Ready
<1> QED BY <1>5 DEF Event, x

\* A step about a run that names no store.
LEMMA MakesOther ==
    ASSUME NEW do \in {"note", "final", "park"}, NEW r \in Runs PROVE Step(do, 0, r) \in Ready'
<1> DEFINE x == Step(do, 0, r)
<1>1. x.do = do /\ x.run = r BY DEF Step
<1>2. x \in StepSet BY DEF Step, StepSet
<1> HIDE DEF x
<1>3. Possible(x)' BY <1>1 DEF Possible
<1>4. x \in Ready' BY <1>2, <1>3 DEF Ready
<1> QED BY <1>4 DEF x

\* The launch of a run on disk, with a store of this daemon.
LEMMA MakesLaunch ==
    ASSUME Working, Housed', NEW r \in Runs, NEW s, Usable(stores'[r], s), s >= 2,
           OnDisk(r)'
    PROVE  Step("launch", s, r) \in Ready'
<1> DEFINE x == Step("launch", s, r)
<1>1. x.do = "launch" /\ x.n = s /\ x.run = r BY DEF Step
<1>2. s \in Nat
  <2>1. Len(stores'[r]) \in Nat BY DEF Housed, Kept
  <2> QED BY <2>1 DEF Usable
<1>3. x \in StepSet BY <1>2 DEF Step, StepSet
<1> HIDE DEF x
<1>4. Possible(x)' BY <1>1 DEF Possible
<1>5. x \in Ready' BY <1>3, <1>4 DEF Ready
<1> QED BY <1>5 DEF x

\* A step about a request that is filed.
LEMMA MakesRequestStep ==
    ASSUME NEW do \in {"wait", "settle", "complete", "item"}, NEW n \in Requests', n \in Nat,
           NEW r \in Runs \cup {NoRun, NoWake}
    PROVE  Step(do, n, r) \in Ready'
<1> DEFINE x == Step(do, n, r)
<1>1. x.do = do /\ x.n = n BY DEF Step
<1>2. x \in StepSet BY DEF Step, StepSet
<1> HIDE DEF x
<1>3. Possible(x)' BY <1>1 DEF Possible
<1>4. x \in Ready' BY <1>2, <1>3 DEF Ready
<1> QED BY <1>4 DEF x

\* A step about an item that is filed.
LEMMA MakesItemStep ==
    ASSUME NEW do \in {"result", "wake"}, NEW n \in 1..Len(items'), n \in Nat,
           NEW r \in Runs \cup {NoRun, NoWake}
    PROVE  Step(do, n, r) \in Ready'
<1> DEFINE x == Step(do, n, r)
<1>1. x.do = do /\ x.n = n BY DEF Step
<1>2. x \in StepSet BY DEF Step, StepSet
<1> HIDE DEF x
<1>3. Possible(x)' BY <1>1 DEF Possible
<1>4. x \in Ready' BY <1>2, <1>3 DEF Ready
<1> QED BY <1>4 DEF x

\* Calls are put together of such steps.
LEMMA Single == ASSUME NEW S, NEW x \in S PROVE <<x>> \in Seq(S)
OBVIOUS

\* A call with nothing left.
LEMMA Nothing == ASSUME NEW S PROVE <<>> \in Seq(S)
OBVIOUS

\* Two parts of a call.
LEMMA Joined ==
    ASSUME NEW S, NEW a \in Seq(S), NEW b \in Seq(S) PROVE a \o b \in Seq(S)
OBVIOUS

\* The note of a run, or none.
LEMMA MakesNote ==
    ASSUME NEW r \in Runs \cup {NoRun} PROVE Note(r) \in Seq(Ready')
<1>1. CASE r = NoRun
  <2>1. Note(r) = <<>> BY <1>1 DEF Note
  <2> QED BY <2>1, Nothing
<1>2. CASE r # NoRun
  <2>1. Step("note", 0, r) \in Ready' BY <1>2, MakesOther
  <2>2. Note(r) = <<Step("note", 0, r)>> BY <1>2 DEF Note
  <2> QED BY <2>1, <2>2, Single
<1> QED BY <1>1, <1>2

\* A run that is resumed gets a store of its own, not its first.
LEMMA ResumeCall ==
    ASSUME Working, Housed', Stay, NEW r \in Runs, Resume(r)
    PROVE  \E ss \in Seq(Ready') : Steps("daemon", ss)
<1> DEFINE n == NextStore(r)
<1>1. /\ stores' = [stores EXCEPT ![r] = Opened(r)] /\ run[r].where = "left"
      /\ UNCHANGED life /\ Housed
  BY DEF Resume, OpenStore, Working
<1>2. stores'[r] = Opened(r) BY <1>1 DEF Housed, Kept
<1>3. Usable(stores'[r], n) BY <1>1, <1>2, Fresh
<1>4. OnDisk(r) /\ OnDisk(r)' BY <1>1 DEF OnDisk, Stay
<1>5. n >= 2
  <2>1. stores[r] # <<>> /\ stores[r] \in Seq(StoreSet)
    BY <1>1, <1>4 DEF Housed, Kept, Settled1, Placed, OnDisk
  <2>2. Len(stores[r]) \in Nat \ {0} BY <2>1
  <2> QED BY <2>2 DEF NextStore
<1> DEFINE e == Event(r, n)
<1> DEFINE l == Step("launch", n, r)
<1>6. Steps("daemon", (IF run[r].top = "READY" THEN <<>> ELSE <<e, e>>) \o <<l>>)
  BY DEF Resume
<1> HIDE DEF n
<1>7. e \in Ready' /\ l \in Ready' BY <1>3, <1>4, <1>5, MakesEvent, MakesLaunch
<1> HIDE DEF e, l
<1>8. <<e, e>> \in Seq(Ready') /\ <<>> \in Seq(Ready') /\ <<l>> \in Seq(Ready')
  BY <1>7
<1>9. (IF run[r].top = "READY" THEN <<>> ELSE <<e, e>>) \o <<l>> \in Seq(Ready')
  BY <1>8, Joined
<1> QED BY <1>6, <1>9

\* A review is acknowledged through the entry's store, or one opened now.
LEMMA ReviewCall ==
    ASSUME Working, Housed', Stay, NEW r \in Runs, NEW b \in BOOLEAN, AckReview(r, b)
    PROVE  \E ss \in Seq(Ready') : Steps("daemon", ss)
<1> DEFINE s == IF run[r].where = "ended" THEN run[r].entry ELSE NextStore(r)
<1>1. Housed /\ run[r].where \in {"ended", "left"} /\ LoadAgain(r) BY DEF AckReview, Working
<1>2. Usable(stores'[r], s)
  <2>1. CASE run[r].where = "ended"
    <3>1. Usable(stores[r], run[r].entry) BY <1>1 DEF Housed, Settled1, Placed
    <3>2. /\ Len(stores'[r]) >= Len(stores[r]) /\ Len(stores'[r]) \in Nat
          /\ Len(stores[r]) \in Nat
      BY <1>1 DEF Stay, Housed, Kept
    <3> QED BY <2>1, <3>1, <3>2 DEF Usable
  <2>2. CASE run[r].where = "left"
    <3>1. stores' = [stores EXCEPT ![r] = Opened(r)] BY <1>1, <2>2 DEF LoadAgain
    <3>2. stores'[r] = Opened(r) BY <1>1, <3>1 DEF Housed, Kept
    <3> QED BY <1>1, <2>2, <3>2, Fresh
  <2> QED BY <1>1, <2>1, <2>2
<1> DEFINE e == Event(r, s)
<1> DEFINE f == Step("final", 0, r)
<1>3. Steps("daemon", <<e>> \o (IF b THEN <<e, e, f>> ELSE <<>>)) BY DEF AckReview
<1> HIDE DEF s
<1>4. e \in Ready' /\ f \in Ready' BY <1>2, MakesEvent, MakesOther
<1> HIDE DEF e, f
<1>5. <<e, e, f>> \in Seq(Ready') /\ <<>> \in Seq(Ready') /\ <<e>> \in Seq(Ready') BY <1>4
<1>6. <<e>> \o (IF b THEN <<e, e, f>> ELSE <<>>) \in Seq(Ready') BY <1>5, Joined
<1> QED BY <1>3, <1>6

\* An escalation goes through the entry's store.
LEMMA EscalateCall ==
    ASSUME Working, Housed', NEW r \in Runs, Escalate(r)
    PROVE  \E ss \in Seq(Ready') : Steps("daemon", ss)
<1>1. UNCHANGED <<run, stores>> BY DEF Escalate, sessionVars
<1>2. Usable(stores'[r], run[r].entry)
  BY <1>1 DEF Working, Housed, Settled1, Placed
<1>3. <<Event(r, run[r].entry)>> \in Seq(Ready') BY <1>2, MakesEvent, Single
<1> QED BY <1>3 DEF Escalate

\* The first call of a daemon is about the stores it has opened.
LEMMA StartCall ==
    ASSUME Working, Housed', DaemonStarts
    PROVE  \E ss \in Seq(Ready') : Steps("daemon", ss)
<1>1. PICK order \in SetToSeqs(Orphans) :
        Steps("daemon", [n \in 1..3 * Len(order) |->
                           Recovery(order[(n + 2) \div 3])[((n + 2) % 3) + 1]])
  BY DEF DaemonStarts
<1>2. order \in Seq(Orphans) /\ Len(order) \in Nat
  <2>1. IsFiniteSet(Orphans) BY RunSessionsAssumption, FS_Subset DEF Orphans
  <2>2. Cardinality(Orphans) \in Nat BY <2>1, FS_CardinalityType
  <2>3. order \in [1..Cardinality(Orphans) -> Orphans] BY DEF SetToSeqs
  <2> QED BY <2>2, <2>3
<1> DEFINE g(n) == Recovery(order[(n + 2) \div 3])[((n + 2) % 3) + 1]
<1>3. ASSUME NEW n \in 1..3 * Len(order) PROVE g(n) \in Ready'
  <2> DEFINE r == order[(n + 2) \div 3]
  <2>0. (n + 2) \div 3 \in 1..Len(order) /\ ((n + 2) % 3) + 1 \in {1, 2, 3} BY <1>2
  <2>1. r \in Orphans BY <1>2, <2>0, At
  <2> HIDE DEF r
  <2>2. r \in Runs /\ Usable(stores'[r], NextStore(r))
    BY <2>1, RestartMoves DEF Working, DaemonStarts, Orphans
  <2>3. Event(r, NextStore(r)) \in Ready' /\ Step("park", 0, r) \in Ready'
    BY <2>2, MakesEvent, MakesOther
  <2>4. \A i \in {1, 2, 3} : Recovery(r)[i] \in Ready' BY <2>3 DEF Recovery
  <2> QED BY <2>0, <2>4 DEF r
<1> DEFINE ss == [n \in 1..3 * Len(order) |-> g(n)]
<1> HIDE DEF g
<1>4. 3 * Len(order) \in Nat BY <1>2
<1>5. ss \in Seq(Ready') BY <1>3, <1>4
<1> QED BY <1>1, <1>5 DEF g

\* A call that only appends to runs and their logs leaves the files alone.
LEMMA RunCalls ==
    ASSUME Working, Stay, Orderly', Housed', UNCHANGED <<requests, items, results>>,
           \/ \E ss \in Seq(Ready') : Steps("daemon", ss)
           \/ life' = life /\ todo["daemon"] # <<>> /\ Done("daemon")
           \/ life' = life /\ UNCHANGED todo
    PROVE  Filed' /\ Doable'
<1>1. FilesStay /\ Filed' BY FilesRest
<1>2. "daemon" \in Callers BY DEF Callers
<1> QED BY <1>1, <1>2, NewSteps, StepDone, NoStep

\* Of the calls about runs, none touches a file of the event plane.
LEMMA RunSteps ==
    ASSUME Working, Stay, Orderly', Housed',
           \/ \E r \in Runs : \E b \in BOOLEAN : RegisterRun(r, b) \/ AckReview(r, b)
           \/ \E r \in Runs : \/ Resume(r) \/ Escalate(r) \/ AskClarification(r) \/ Work(r)
                              \/ Answers(r)
           \/ LaunchRun \/ SaveFinal \/ ReapRuns \/ WriteEvent \/ WriteNote \/ SkipLine
           \/ ParkOrphan \/ Lands \/ ClockTicks \/ DaemonDies \/ DaemonStarts
           \/ \E h \in Handlers : Post(h)
           \/ \E g \in Guests : GuestWorks(g) \/ \E r \in Runs : GuestComes(g, r)
           \/ UNCHANGED vars
    PROVE  Filed' /\ Doable'
<1>1. ASSUME NEW r \in Runs, NEW b \in BOOLEAN, AckReview(r, b) PROVE Filed' /\ Doable'
  <2>1. UNCHANGED <<requests, items, results>> BY <1>1 DEF AckReview
  <2> QED BY <1>1, <2>1, ReviewCall, RunCalls
<1>2. ASSUME NEW r \in Runs, Resume(r) \/ Escalate(r) PROVE Filed' /\ Doable'
  <2>1. UNCHANGED <<requests, items, results>> BY <1>2 DEF Resume, Escalate
  <2> QED BY <1>2, <2>1, ResumeCall, EscalateCall, RunCalls
<1>3. ASSUME NEW r \in Runs,
             \/ \E b \in BOOLEAN : RegisterRun(r, b)
             \/ AskClarification(r) \/ Work(r) \/ Answers(r)
      PROVE  Filed' /\ Doable'
  <2>1. UNCHANGED eventVars /\ life' = life
    BY <1>3 DEF RegisterRun, Register, NewRunAt, AskClarification, Clarify, Work, WorkerWrites,
                WorkerSaves, ThreadSaves, WorkerEnds, Answers, JobWrites
  <2> QED BY <2>1, RunCalls DEF eventVars
<1>4. CASE LaunchRun \/ SaveFinal \/ WriteEvent \/ WriteNote \/ SkipLine \/ ParkOrphan
  <2>1. /\ UNCHANGED <<requests, items, results>> /\ life' = life
        /\ todo["daemon"] # <<>> /\ Done("daemon")
    BY <1>4 DEF LaunchRun, Launch, SaveFinal, SaveTop, WriteEvent, ServerWrites1, WriteNote,
                ServerNotes, SkipLine, sessionVars, ParkOrphan, NextDue, Due
  <2> QED BY <2>1, RunCalls
<1>5. CASE ReapRuns \/ Lands \/ ClockTicks \/ UNCHANGED vars
           \/ \E h \in Handlers : Post(h)
  <2>1. UNCHANGED eventVars /\ life' = life
    BY <1>5 DEF ReapRuns, Reap, Lands, Land, ClockTicks, sessionVars, vars, Post
  <2> QED BY <2>1, RunCalls DEF eventVars
<1>6. CASE DaemonDies
  <2>1. UNCHANGED <<requests, items, results>> /\ Steps("daemon", <<>>)
    BY <1>6 DEF DaemonDies
  <2> QED BY <2>1, Nothing, RunCalls
<1>7. CASE DaemonStarts
  <2>1. UNCHANGED <<requests, items, results>> BY <1>7 DEF DaemonStarts
  <2> QED BY <1>7, <2>1, StartCall, RunCalls
<1>8. ASSUME NEW g \in Guests, GuestWorks(g) \/ \E r \in Runs : GuestComes(g, r)
      PROVE  Filed' /\ Doable'
  <2>1. UNCHANGED eventVars /\ life' = life
    BY <1>8 DEF GuestWorks, GuestComes, StartsForeground, NewRunAt, StartsRecovery, StartsJob,
                GuestWrites, GuestSaves, ThreadSaves, GuestLeaves, GuestDies
  <2> QED BY <2>1, RunCalls DEF eventVars
<1> QED BY <1>1, <1>2, <1>3, <1>4, <1>5, <1>6, <1>7, <1>8

\* A request is filed, in a session that exists.
LEMMA FilesRequest ==
    ASSUME Working, Stay, Orderly', Housed', life' = life, NEW p \in Callers,
           NEW s \in 1..Len(sessions'), NEW r \in Runs \cup {NoRun}, NEW policy \in Policies,
           NEW ref, NEW rest, Request(p, s, r, policy, ref, rest),
           Requests' = 1..(Len(requests) + 1) => rest \in Seq(Ready'),
           p # "daemon" =>
             (Requests' = 1..(Len(requests) + 1) => rest \in Seq(ThreadReady'))
    PROVE  Filed' /\ Doable'
<1> DEFINE n == Len(requests) + 1
<1> DEFINE rec == [session |-> s, run |-> r, policy |-> policy, ref |-> ref,
                   status |-> "pending"]
<1> DEFINE w == Step("wait", n, r)
<1>1. /\ requests' = Append(requests, rec) /\ UNCHANGED <<results, items>>
      /\ todo' = [todo EXCEPT ![p] = <<w>> \o rest]
  BY DEF Request, Steps
<1>2. PICK T : requests \in Seq(T) BY DEF Working, Orderly, Records
<1>3. /\ Len(requests') = n /\ requests'[n] = rec /\ Len(requests) \in Nat
      /\ \A i \in 1..Len(requests) : requests'[i] = requests[i]
  <2> HIDE DEF rec
  <2>1. requests \in Seq(T \cup {rec}) BY <1>2, Wider
  <2> QED BY <1>1, <2>1
<1>4. rec.session = s /\ rec.run = r /\ rec.policy = policy OBVIOUS
<1> HIDE DEF rec
<1>5. Requests' = 1..n /\ n \in Nat BY <1>3 DEF Requests
<1>6. FilesStay BY <1>1, <1>3, <1>5, Lengths DEF FilesStay, ItemsKept, Requests
<1>7. Filed'
  <2>1. \A i \in Requests' \ Requests : i = n BY <1>3, <1>5 DEF Requests
  <2>2. \A i \in Requests' \ Requests : /\ requests'[i].session \in 1..Len(sessions')
                                        /\ requests'[i].run \in Runs \cup {NoRun}
                                        /\ requests'[i].policy \in Policies
    BY <1>3, <1>4, <2>1
  <2> QED BY <1>1, <1>6, <2>2, FiledStays
<1>8. w \in Ready' /\ w \in ThreadReady'
  <2>1. w \in Ready' BY <1>3, <1>5, MakesRequestStep
  <2>2. w.do = "wait" BY DEF Step
  <2> QED BY <2>1, <2>2 DEF ThreadReady
<1> HIDE DEF w
<1>9. <<w>> \in Seq(Ready') /\ <<w>> \in Seq(ThreadReady') BY <1>8, Single
<1>10. <<w>> \o rest \in Seq(Ready') BY <1>5, <1>9, Joined
<1>11. ASSUME p = "daemon" PROVE Doable'
  <2> DEFINE ss == <<w>> \o rest
  <2>1. Steps("daemon", ss) BY <1>1, <1>11 DEF Steps
  <2>2. ss \in Seq(Ready') BY <1>10
  <2> HIDE DEF ss
  <2> QED BY <1>6, <2>1, <2>2, NewSteps
<1>12. ASSUME p # "daemon" PROVE Doable'
  <2>1. <<w>> \o rest \in Seq(ThreadReady') BY <1>5, <1>9, <1>12, Joined
  <2>2. Ready \subseteq Ready' /\ ThreadReady \subseteq ThreadReady' BY <1>6, ReadyStays
  <2>3. /\ \A q \in Callers : todo[q] \in Seq(Ready')
        /\ \A h \in Handlers : todo[h] \in Seq(ThreadReady')
        /\ todo \in [Callers -> Seq(Ready)] /\ \A h \in Handlers : h \in Callers
    BY <2>2, Wider DEF Working, Doable, Callers
  <2>4. todo' \in [Callers -> Seq(Ready')] BY <1>1, <1>10, <2>3
  <2>5. \A h \in Handlers : todo'[h] \in Seq(ThreadReady') BY <1>1, <2>1, <2>3
  <2> QED BY <2>4, <2>5 DEF Doable
<1> QED BY <1>7, <1>11, <1>12

\* What a caller does next can be done, and what is taken of it is in its file.
LEMMA NextPossible ==
    ASSUME Working, NEW p \in Callers, todo[p] # <<>>
    PROVE  Possible(Head(todo[p]))
<1>1. todo[p] \in Seq(Ready) BY DEF Working, Doable
<1>2. Head(todo[p]) \in Ready BY <1>1
<1> QED BY <1>2 DEF Ready

\* A wait is entered or ended.
LEMMA WaitFiled ==
    ASSUME Working, Stay, Orderly', Housed', life' = life, NEW p \in Callers,
           EnterWait(p) \/ SettleWait(p)
    PROVE  Filed' /\ Doable'
<1>1. todo[p] # <<>> /\ Done(p) /\ UNCHANGED <<requests, items, results>>
  BY DEF EnterWait, SettleWait, Due
<1>2. FilesStay /\ Filed' BY <1>1, FilesRest
<1> QED BY <1>1, <1>2, StepDone

\* A result is recorded for the request of an item that is there.
LEMMA ResultFiled ==
    ASSUME Working, Stay, Orderly', Housed', life' = life, NEW p \in Callers, RecordResult(p)
    PROVE  Filed' /\ Doable'
<1> DEFINE n == Head(todo[p]).n
<1> DEFINE x == [req |-> items[n].req, key |-> items[n].key, item |-> n]
<1>1. /\ todo[p] # <<>> /\ Head(todo[p]).do = "result" /\ Done(p)
      /\ results' = results \cup {x} /\ UNCHANGED <<requests, waits, items>>
  BY DEF RecordResult, Due, Its
<1>2. n \in 1..Len(items) BY <1>1, NextPossible DEF Possible
<1>3. items[n].req \in Requests BY <1>2 DEF Working, Filed
<1>4. x.req = items[n].req /\ x.item = n OBVIOUS
<1>5. FilesStay /\ Requests' = Requests BY <1>1, Unfiled DEF Requests
<1> HIDE DEF x, n
<1>6. \A y \in results' \ results : y.req \in Requests' /\ y.item \in 1..Len(items')
  BY <1>1, <1>2, <1>3, <1>4, <1>5
<1>7. Filed' BY <1>1, <1>5, <1>6, FiledStays
<1> QED BY <1>1, <1>5, <1>7, StepDone

\* A request is completed, and is of the same session and run.
LEMMA CompleteFiled ==
    ASSUME Working, Stay, Orderly', Housed', life' = life, NEW p \in Callers, Complete(p)
    PROVE  Filed' /\ Doable'
<1> DEFINE n == Its(p)
<1>1. /\ todo[p] # <<>> /\ Done(p) /\ UNCHANGED <<items, results>>
      /\ requests' = [requests EXCEPT ![n] = [requests[n] EXCEPT !.status = "completed"]]
  BY DEF Complete, Due
<1> HIDE DEF n
<1>2. PICK T : requests \in Seq([session : T, run : T, policy : T, ref : T,
                                 status : {"pending", "completed"}])
  BY DEF Working, Orderly, Records
<1>3. /\ Len(requests') = Len(requests)
      /\ \A i \in 1..Len(requests) : /\ requests'[i].session = requests[i].session
                                     /\ requests'[i].run = requests[i].run
                                     /\ requests'[i].policy = requests[i].policy
  <2> DEFINE R == [session : T, run : T, policy : T, ref : T,
                   status : {"pending", "completed"}]
  <2> DEFINE v == [requests[n] EXCEPT !.status = "completed"]
  <2>1. \A i \in 1..Len(requests) : requests[i] \in R
    <3>1. requests \in Seq(R) BY <1>2
    <3> HIDE DEF R
    <3> QED BY <3>1, At
  <2>2. n \in 1..Len(requests) =>
          /\ v \in R /\ v.session = requests[n].session /\ v.run = requests[n].run
          /\ v.policy = requests[n].policy
    BY <2>1
  <2>3. requests \in Seq(R) BY <1>2
  <2> HIDE DEF v, R
  <2>4. requests' = [requests EXCEPT ![n] = v] BY <1>1 DEF v
  <2> QED BY <2>2, <2>3, <2>4, Replaced
<1>4. FilesStay /\ Requests' = Requests
  BY <1>1, <1>3, Lengths DEF FilesStay, ItemsKept, Requests
<1>5. Filed' BY <1>1, <1>4, FiledStays
<1> QED BY <1>1, <1>4, <1>5, StepDone

\* A field of an item is written.
LEMMA ItemFiled ==
    ASSUME Working, Stay, Orderly', Housed', NEW j, NEW it, UNCHANGED <<requests, waits, results>>,
           items' = [items EXCEPT ![j] = it],
           \E v : it \in {[items[j] EXCEPT !.wake = v], [items[j] EXCEPT !.status = v]}
    PROVE  FilesStay /\ Filed'
<1>0. Orderly BY DEF Working
<1>1. ItemsKept BY <1>0, ItemFields, ItemChanged
<1>2. Requests' = Requests /\ Len(items') = Len(items) BY Lengths DEF Requests
<1>3. FilesStay BY <1>1, <1>2 DEF FilesStay
<1> QED BY <1>2, <1>3, FiledStays

\* A wake decision changes one field of an item.
LEMMA DecideFiled ==
    ASSUME Working, Stay, Orderly', Housed', life' = life, NEW p \in Callers, NEW top,
           Decide(p, top)
    PROVE  Filed' /\ Doable'
<1> DEFINE j == Its(p)
<1> DEFINE v == WakeDecision(requests[items[j].req].policy, top)
<1> DEFINE it == [items[j] EXCEPT !.wake = v]
<1>1. /\ todo[p] # <<>> /\ Done(p) /\ items' = [items EXCEPT ![j] = it]
      /\ UNCHANGED <<requests, waits, results>>
  BY DEF Decide, Due
<1>2. it \in {[items[j] EXCEPT !.wake = v], [items[j] EXCEPT !.status = v]} OBVIOUS
<1> HIDE DEF it, v, j
<1>3. FilesStay /\ Filed' BY <1>1, <1>2, ItemFiled
<1> QED BY <1>1, <1>3, StepDone

\* An acknowledgement changes one field of an item.
LEMMA AckFiled ==
    ASSUME Working, Stay, Orderly', Housed', life' = life, NEW j, Ack(j)
    PROVE  Filed' /\ Doable'
<1> DEFINE it == [items[j] EXCEPT !.status = "acknowledged"]
<1>1. /\ items' = [items EXCEPT ![j] = it] /\ UNCHANGED <<requests, waits, results, todo>>
  BY DEF Ack
<1>2. it \in {[items[j] EXCEPT !.wake = "acknowledged"],
              [items[j] EXCEPT !.status = "acknowledged"]}
  OBVIOUS
<1> HIDE DEF it
<1>3. FilesStay /\ Filed' BY <1>1, <1>2, ItemFiled
<1> QED BY <1>1, <1>3, NoStep

\* An item is appended, of a request that is there.
LEMMA FilesItem ==
    ASSUME Working, Stay, Orderly', Housed', NEW i \in Requests, NEW it, it.req = i,
           items' = Append(items, it), UNCHANGED <<requests, results>>
    PROVE  /\ FilesStay /\ Filed' /\ Len(items') = Len(items) + 1
           /\ Requests' = Requests
<1>1. PICK T : items \in Seq(T) BY DEF Working, Orderly, Records
<1>2. /\ Len(items) \in Nat /\ Len(items') = Len(items) + 1
      /\ items'[Len(items) + 1] = it /\ \A j \in 1..Len(items) : items'[j] = items[j]
  <2>1. items \in Seq(T \cup {it}) BY <1>1, Wider
  <2> QED BY <2>1
<1>3. Requests' = Requests BY DEF Requests
<1>4. FilesStay BY <1>2, <1>3 DEF FilesStay, ItemsKept
<1>5. \A j \in 1..Len(items') : j \in 1..Len(items) \/ items'[j].req \in Requests'
  <2>1. \A j \in 1..Len(items') : j \in 1..Len(items) \/ j = Len(items) + 1 BY <1>2
  <2> QED BY <1>2, <1>3, <2>1
<1>6. Filed' BY <1>3, <1>4, <1>5, FiledStays
<1> QED BY <1>2, <1>3, <1>4, <1>6

\* A request thread posts the item of its task.
LEMMA SeedFiled ==
    ASSUME Working, Stay, Orderly', Housed', life' = life, NEW h \in Handlers, NEW text,
           SeedItem(h, text)
    PROVE  Filed' /\ Doable'
<1> DEFINE i == Head(todo[h]).n
<1> DEFINE it == Item(i, "a2a", NoKey, text, requests[i].ref, 0)
<1>1. /\ todo[h] # <<>> /\ Head(todo[h]).do = "item" /\ Done(h)
      /\ items' = Append(items, it) /\ UNCHANGED <<requests, waits, results>>
  BY DEF SeedItem, Due, Its
<1>2. h \in Callers BY DEF Callers
<1>3. i \in Requests BY <1>1, <1>2, NextPossible DEF Possible
<1>4. it.req = i BY DEF Item
<1> HIDE DEF i, it
<1>5. FilesStay /\ Filed' BY <1>1, <1>3, <1>4, FilesItem
<1> QED BY <1>1, <1>2, <1>5, StepDone

\* A result is taken in: its item is there, and so is the request.
LEMMA IngestFiled ==
    ASSUME Working, Stay, Orderly', Housed', life' = life, NEW i, NEW key, IngestResult(i, key)
    PROVE  Filed' /\ Doable'
<1> DEFINE j == Len(items) + 1
<1> DEFINE it == Item(i, "daemon", key, "result", "", life)
<1> DEFINE r == requests[i].run
<1>1. /\ i \in Requests /\ items' = Append(items, it) /\ UNCHANGED <<requests, waits, results>>
      /\ Steps("daemon", Ingestion(i, j) \o WakeOf(i, j))
  BY DEF IngestResult, Ingest
<1>2. it.req = i BY DEF Item
<1> HIDE DEF it
<1>3. FilesStay /\ Filed' /\ Len(items') = j /\ Requests' = Requests
  BY <1>1, <1>2, FilesItem
<1>4. i \in Nat /\ j \in Nat /\ j \in 1..Len(items') /\ r \in Runs \cup {NoRun}
      /\ i \in Requests'
  <2>1. Len(requests) \in Nat /\ Len(items) \in Nat BY Lengths
  <2>2. r \in Runs \cup {NoRun} BY <1>1 DEF Working, Filed
  <2> QED BY <1>1, <1>3, <2>1, <2>2 DEF Requests
<1> HIDE DEF j
<1>5. /\ Step("result", j, NoWake) \in Ready' /\ Step("settle", i, NoWake) \in Ready'
      /\ Step("complete", i, NoWake) \in Ready' /\ Step("wake", j, r) \in Ready'
  BY <1>4, MakesItemStep, MakesRequestStep
<1>6. Note(r) \in Seq(Ready') BY <1>4, MakesNote
<1>7. Ingestion(i, j) \in Seq(Ready')
  <2> DEFINE x == Step("result", j, NoWake)
  <2> DEFINE y == Step("settle", i, NoWake)
  <2> DEFINE z == Step("complete", i, NoWake)
  <2>1. Ingestion(i, j) = <<x, y, z>> BY DEF Ingestion
  <2> HIDE DEF x, y, z
  <2>2. <<x, y, z>> \in Seq(Ready') BY <1>5 DEF x, y, z
  <2> QED BY <2>1, <2>2
<1>8. WakeOf(i, j) \in Seq(Ready')
  <2>1. <<Step("wake", j, r)>> \in Seq(Ready') BY <1>5, Single
  <2>2. WakeOf(i, j) = Note(r) \o <<Step("wake", j, r)>> \o Note(r) BY DEF WakeOf
  <2> HIDE DEF r
  <2>3. Note(r) \o <<Step("wake", j, r)>> \in Seq(Ready') BY <1>6, <2>1, Joined
  <2>4. (Note(r) \o <<Step("wake", j, r)>>) \o Note(r) \in Seq(Ready') BY <1>6, <2>3, Joined
  <2> QED BY <2>2, <2>4
<1>9. Ingestion(i, j) \o WakeOf(i, j) \in Seq(Ready') BY <1>7, <1>8, Joined
<1> QED BY <1>1, <1>3, <1>9, NewSteps

\* A task of the daemon: its run, if it has one, gets a note.
LEMMA CreateFiled ==
    ASSUME Working, Stay, Orderly', Housed', life' = life, NEW r \in Runs \cup {NoRun},
           NEW s \in 1..Len(sessions), NEW policy \in Policies, CreateTask(r, s, policy)
    PROVE  Filed' /\ Doable'
<1>1. Request("daemon", s, r, policy, "plain", Note(r)) /\ UNCHANGED sessions
  BY DEF CreateTask, sessionVars
<1>2. Note(r) \in Seq(Ready') /\ "daemon" \in Callers BY MakesNote DEF Callers
<1>3. s \in 1..Len(sessions') BY <1>1
<1> QED BY <1>1, <1>2, <1>3, FilesRequest

\* A task of a request thread, its item to be posted after the wait.
LEMMA SendFiled ==
    ASSUME Working, Stay, Orderly', Housed', life' = life, UNCHANGED sessions, NEW h \in Handlers,
           NEW s \in 1..Len(sessions), NEW policy \in Policies, Send(h, s, TRUE, policy)
    PROVE  Filed' /\ Doable'
<1> DEFINE n == Len(requests) + 1
<1> DEFINE x == Step("item", n, "none")
<1>1. Request(h, s, "none", policy, handler[h].ref, <<x>>) /\ x.do = "item" BY DEF Send, Step
<1>2. n \in Nat BY Lengths
<1>3. Requests' = 1..n => x \in Ready'
  <2>1. n \in 1..n /\ "none" \in Runs \cup {NoRun, NoWake} BY <1>2 DEF NoRun
  <2> HIDE DEF n
  <2> QED BY <1>2, <2>1, MakesRequestStep
<1> HIDE DEF x
<1>4. Requests' = 1..n => <<x>> \in Seq(Ready') /\ <<x>> \in Seq(ThreadReady')
  <2>1. Requests' = 1..n => x \in ThreadReady' BY <1>1, <1>3 DEF ThreadReady
  <2> QED BY <1>3, <2>1, Single
<1>5. h \in Callers /\ "none" \in Runs \cup {NoRun} /\ s \in 1..Len(sessions')
  BY DEF Callers, NoRun
<1> QED BY <1>1, <1>4, <1>5, FilesRequest

\* A request thread goes on with its post.
LEMMA HandleFiled ==
    ASSUME Working, Stay, Orderly', Housed', NEW h \in Handlers, Handle(h)
    PROVE  Filed' /\ Doable'
<1>1. UNCHANGED sessionVars /\ life' = life /\ UNCHANGED sessions
  BY DEF Handle, sessionVars
<1>2. h \in Callers BY DEF Callers
<1>3. CASE UNCHANGED eventVars BY <1>1, <1>3, RunCalls DEF eventVars
<1>4. ASSUME NEW s \in 1..Len(sessions), NEW p \in Policies, Send(h, s, TRUE, p)
      PROVE  Filed' /\ Doable'
  BY <1>1, <1>4, SendFiled
<1>5. CASE EnterWait(h) BY <1>1, <1>2, <1>5, WaitFiled
<1>6. CASE SeedItem(h, handler[h].text) BY <1>1, <1>6, SeedFiled
<1> QED BY <1>3, <1>4, <1>5, <1>6 DEF Handle

\* The A2A server ends with what its threads had to do.
LEMMA IngressFiled ==
    ASSUME Working, Stay, Orderly', Housed', IngressDies PROVE Filed' /\ Doable'
<1>1. /\ todo' = [p \in Callers |-> IF p = "daemon" THEN todo[p] ELSE <<>>]
      /\ life' = life /\ UNCHANGED <<requests, items, results>>
  BY DEF IngressDies, sessionVars
<1>2. FilesStay /\ Filed' BY <1>1, FilesRest
<1>3. Ready \subseteq Ready' BY <1>1, <1>2, ReadyStays
<1>4. "daemon" \in Callers /\ \A h \in Handlers : h \in Callers /\ h # "daemon"
  BY EventPlaneAssumption DEF Callers
<1>5. todo["daemon"] \in Seq(Ready') BY <1>3, <1>4, Wider DEF Working, Doable
<1>6. \A h \in Handlers : todo'[h] \in Seq(ThreadReady') BY <1>1, <1>4, Nothing
<1>7. todo' \in [Callers -> Seq(Ready')] BY <1>1, <1>5, Nothing
<1> QED BY <1>2, <1>6, <1>7 DEF Doable

\* The server thread's appends to the event plane.
LEMMA AppendFiled ==
    ASSUME Working, Stay, Orderly', Housed', Append1 PROVE Filed' /\ Doable'
<1>1. life' = life /\ "daemon" \in Callers BY DEF Append1, sessionVars, Callers
<1> QED BY <1>1, WaitFiled, ResultFiled, CompleteFiled, DecideFiled DEF Append1

\* Every step keeps the invariant.
LEMMA NextWorking == Working /\ [Next]_vars => Working'
<1> SUFFICES ASSUME Working, [Next]_vars PROVE Working'
  OBVIOUS
<1>1. Orderly' BY NextOrderly DEF Working
<1>2. Housed' /\ Stay BY NextHoused
<1>3. ASSUME NEW r \in Runs \cup {NoRun}, NEW s \in 1..Len(sessions), NEW p \in Policies,
             CreateTask(r, s, p)
      PROVE  Filed' /\ Doable'
  <2>1. life' = life BY <1>3 DEF CreateTask, sessionVars
  <2> QED BY <1>1, <1>2, <1>3, <2>1, CreateFiled
<1>4. ASSUME NEW i, NEW k, IngestResult(i, k) PROVE Filed' /\ Doable'
  <2>1. life' = life BY <1>4 DEF IngestResult, sessionVars
  <2> QED BY <1>1, <1>2, <1>4, <2>1, IngestFiled
<1>5. ASSUME NEW j, AckItem(j) PROVE Filed' /\ Doable'
  <2>1. life' = life /\ Ack(j) BY <1>5 DEF AckItem, sessionVars
  <2> QED BY <1>1, <1>2, <2>1, AckFiled
<1>6. ASSUME Append1 PROVE Filed' /\ Doable' BY <1>1, <1>2, <1>6, AppendFiled
<1>7. ASSUME NEW h \in Handlers, Handle(h) PROVE Filed' /\ Doable'
  BY <1>1, <1>2, <1>7, HandleFiled
<1>8. ASSUME IngressDies PROVE Filed' /\ Doable' BY <1>1, <1>2, <1>8, IngressFiled
<1>9. \/ Filed' /\ Doable'
      \/ \E r \in Runs : \E b \in BOOLEAN : RegisterRun(r, b) \/ AckReview(r, b)
      \/ \E r \in Runs : \/ Resume(r) \/ Escalate(r) \/ AskClarification(r) \/ Work(r)
                         \/ Answers(r)
      \/ LaunchRun \/ SaveFinal \/ ReapRuns \/ WriteEvent \/ WriteNote \/ SkipLine
      \/ ParkOrphan \/ Lands \/ ClockTicks \/ DaemonDies \/ DaemonStarts
      \/ \E h \in Handlers : Post(h)
      \/ \E g \in Guests : GuestWorks(g) \/ \E r \in Runs : GuestComes(g, r)
      \/ UNCHANGED vars
  BY <1>3, <1>4, <1>5, <1>6, <1>7, <1>8 DEF Next
<1>10. Filed' /\ Doable' BY <1>1, <1>2, <1>9, RunSteps
<1> QED BY <1>1, <1>2, <1>10 DEF Working

\* At first there are no runs and no tasks.
LEMMA InitWorking == Init => Working
<1> SUFFICES ASSUME Init PROVE Working
  OBVIOUS
<1>1. /\ requests = <<>> /\ items = <<>> /\ results = {} /\ todo = [p \in Callers |-> <<>>]
  BY DEF Init, EventInit
<1>2. Requests = {} BY <1>1 DEF Requests
<1>3. Filed BY <1>1, <1>2 DEF Filed
<1>4. Doable
  <2>1. <<>> \in Seq(Ready) /\ <<>> \in Seq(ThreadReady) BY Nothing
  <2>2. \A h \in Handlers : todo[h] = <<>> BY <1>1 DEF Callers
  <2> QED BY <1>1, <2>1, <2>2 DEF Doable
<1> QED BY <1>3, <1>4, InitOrderly, InitHoused DEF Working

-------------------------------------------------------------------------------
(* The theorems *)

\* What the bounds of a check still allow, and the clock.
Bounded == left \in [Kinds -> Nat] /\ now \in 0..MaxTime

\* The clock starts at zero.
LEMMA InitBounded == Init => Bounded
BY PlaneAssumption, IngressAssumption DEF Init, IngressInit, Bounded

\* A call comes only while one may; the clock stops at its bound.
LEMMA NextBounded == Bounded /\ [Next]_vars => Bounded'
<1> SUFFICES ASSUME Bounded, [Next]_vars PROVE Bounded'
  OBVIOUS
<1>1. ASSUME NEW kind \in Kinds, Comes(kind) PROVE left' \in [Kinds -> Nat]
  <2>1. left[kind] \in Nat /\ left[kind] > 0 /\ left' = [left EXCEPT ![kind] = left[kind] - 1]
    BY <1>1 DEF Bounded, Comes
  <2>2. left[kind] - 1 \in Nat BY <2>1
  <2> QED BY <2>1, <2>2 DEF Bounded
<1>2. Kinds = {"run", "line", "task", "post", "death", "guest"} BY DEF Kinds
<1>3. left' \in [Kinds -> Nat]
  <2>1. \/ UNCHANGED left \/ Comes("run") \/ Comes("line") \/ Comes("task") \/ Comes("post")
        \/ Comes("death") \/ Comes("guest")
    BY DEF Next, RegisterRun, AckReview, Resume, Escalate, AskClarification, Work, Answers,
           LaunchRun, SaveFinal, ReapRuns, WriteEvent, WriteNote, SkipLine, Append1, ParkOrphan,
           Lands, GuestComes, GuestWorks, CreateTask, IngestResult, AckItem, Post, Handle,
           ClockTicks, DaemonDies, DaemonStarts, IngressDies, vars
  <2>2. UNCHANGED left => left' \in [Kinds -> Nat] BY DEF Bounded
  <2> QED BY <1>1, <1>2, <2>1, <2>2
<1>4. now' \in 0..MaxTime
  <2>1. UNCHANGED now \/ Tick
    BY DEF Next, RegisterRun, AckReview, Resume, Escalate, AskClarification, Work, Answers,
           LaunchRun, SaveFinal, ReapRuns, WriteEvent, WriteNote, SkipLine, Append1, ParkOrphan,
           Lands, GuestComes, GuestWorks, CreateTask, IngestResult, AckItem, Post, Arrive,
           Handle, ClockTicks, DaemonDies, DaemonStarts, IngressDies, vars, ingressVars, Guard,
           Audit, Refuse, Sent, GetResults, GetStatus, Send, Answer
  <2>2. Tick => now' \in 0..MaxTime BY IngressAssumption DEF Bounded, Tick
  <2> QED BY <2>1, <2>2 DEF Bounded
<1> QED BY <1>3, <1>4 DEF Bounded

\* What is read of a run, its stores and its log.
LEMMA RunsTyped ==
    ASSUME Working, NEW r \in Runs
    PROVE  /\ run[r].where \in {"nowhere", "live", "ended", "left"}
           /\ run[r].top \in TopState /\ run[r].session \in 0..Len(sessions)
           /\ {run[r].entry, run[r].cached, run[r].jobStore} \subseteq 0..Len(stores[r])
           /\ run[r].job \in 0..2
           /\ Len(log[r]) <= MaxLines
           /\ run[r].mode \in {"daemon", "foreground"}
           /\ \A i \in 1..Len(stores[r]) : stores[r][i].seen \in 0..Len(log[r])
<1>1. Kept /\ Settled1(r) /\ Sound1(r) BY DEF Working, Housed
<1>2. run[r] \in RunSet BY <1>1 DEF Kept
<1>3. /\ run[r].where \in {"nowhere", "live", "ended", "left"}
      /\ run[r].top \in TopState /\ run[r].job \in 0..2
      /\ run[r].mode \in {"daemon", "foreground"}
  BY <1>2 DEF RunSet
<1>4. /\ run[r].session \in 0..Len(sessions)
      /\ {run[r].entry, run[r].cached, run[r].jobStore} \subseteq 0..Len(stores[r])
  BY <1>1 DEF Settled1, Placed, Usable
<1>5. Filled(stores[r], log[r], LinesOf(r)) BY <1>1 DEF Sound1, Numbered
<1>7. \A i \in 1..Len(stores[r]) : stores[r][i].seen \in 0..Len(log[r])
  BY <1>1, Made DEF Sound1
<1>6. Len(log[r]) <= MaxLines
  <2>1. Cardinality(LinesOf(r)) \in Nat BY <1>5, FS_CardinalityType DEF Filled
  <2>2. Len(log[r]) \in Nat /\ MaxLines \in Nat BY <1>1, RunSessionsAssumption DEF Kept
  <2>3. Len(log[r]) + Cardinality(LinesOf(r)) <= MaxLines BY <1>5 DEF Filled
  <2> HIDE DEF LinesOf
  <2> QED BY <2>1, <2>2, <2>3
<1> QED BY <1>3, <1>4, <1>6, <1>7

\* A guest that is there works on a run and a store that are.
LEMMA GuestsTyped ==
    ASSUME Working, NEW g \in Guests
    PROVE  \/ guest[g] = Away
           \/ /\ guest[g].run \in Runs /\ guest[g].as \in {"foreground", "recovery", "job"}
              /\ guest[g].store \in 0..Len(stores[guest[g].run]) /\ guest[g].due \in 0..2
<1>1. guest[g] \in GuestSet /\ Hosted(g) BY DEF Working, Housed, Kept
<1> QED BY <1>1 DEF GuestSet, Hosted, Usable

\* A number still to be written is of a store that exists.
LEMMA WritesTyped ==
    ASSUME Working, NEW w \in writing
    PROVE  w.by \in Writers /\ w.run \in Runs /\ w.seq \in Nat \ {0}
           /\ w.store \in 0..Len(stores[w.run])
<1>1. w \in WriteSet BY DEF Working, Housed, Kept
<1>2. w.by \in Writers /\ w.run \in Runs /\ w.seq \in Nat \ {0} BY <1>1 DEF WriteSet
<1>3. w \in LinesOf(w.run) BY DEF LinesOf
<1>4. Filled(stores[w.run], log[w.run], LinesOf(w.run))
  BY <1>2 DEF Working, Housed, Sound1, Numbered
<1> QED BY <1>2, <1>3, <1>4 DEF Filled

\* The files of the event plane and what is left of the calls.
LEMMA FilesTyped ==
    ASSUME Working
    PROVE  /\ \A i \in Requests :
                /\ requests[i].session \in 1..Len(sessions) /\ requests[i].policy \in Policies
                /\ requests[i].status \in {"pending", "completed"}
                /\ waits[i] \in {"none", "waiting", "satisfied"}
           /\ \A x \in results : x.req \in Requests /\ x.item \in 1..Len(items)
           /\ \A j \in 1..Len(items) : items[j].req \in Requests
           /\ \A p \in Callers : todo[p] \in Seq(StepSet)
<1>1. \A i \in Requests : /\ requests[i].status \in {"pending", "completed"}
                          /\ waits[i] \in {"none", "waiting", "satisfied"}
  <2> SUFFICES ASSUME NEW i \in 1..Len(requests)
               PROVE  /\ requests[i].status \in {"pending", "completed"}
                      /\ waits[i] \in {"none", "waiting", "satisfied"}
    BY DEF Requests
  <2>1. PICK S : requests \in Seq([session : S, run : S, policy : S, ref : S,
                                   status : {"pending", "completed"}])
    BY DEF Working, Orderly, Records
  <2>2. waits \in Seq({"none", "waiting", "satisfied"}) /\ Len(waits) = Len(requests)
    BY DEF Working, Orderly, Records
  <2>3. requests[i] \in [session : S, run : S, policy : S, ref : S,
                         status : {"pending", "completed"}]
    BY <2>1, At
  <2> QED BY <2>2, <2>3
<1>2. \A p \in Callers : todo[p] \in Seq(StepSet)
  <2>1. Ready \subseteq StepSet BY DEF Ready
  <2> QED BY <2>1, Wider DEF Working, Doable
<1> QED BY <1>1, <1>2 DEF Working, Filed

\* The invariants say of every variable what it may hold.
LEMMA AllTyped == Working /\ Limiter /\ Bounded => TypeOK
<1> SUFFICES ASSUME Working, Limiter, Bounded PROVE TypeOK
  OBVIOUS
<1>1. sessions \in Seq({"active", "closed"}) BY DEF Working, Housed, Kept
<1>2. \A c \in Clients : Len(bucket[c]) <= Limit BY DEF Limiter, LimiterTyped
<1> QED BY <1>1, <1>2, RunsTyped, WritesTyped, GuestsTyped, FilesTyped DEF TypeOK, Bounded

\* Every variable holds what it may: a run's store, a request's session, a result's item
\* and a call's next step exist, no log outgrows its bound and no bucket its limit
\* (state.json, sessions.jsonl, the event-plane files, the limiter's buckets).
THEOREM TypesHold == Spec => []TypeOK
<1> QED BY InitOrderly2, NextOrderly2, InitLimiter, NextLimiter, InitBounded, NextBounded,
           InitWorking, NextWorking, AllTyped, PTL DEF Spec

\* A run that was never resumed works in an open session, whoever finished meanwhile
\* (_maybe_close_session_for, _resolve_session_id).
THEOREM FreshHolds == Spec => []FreshRunHasOpenSession
<1>1. Working => FreshRunHasOpenSession BY DEF Working, Housed
<1> QED BY <1>1, InitWorking, NextWorking, PTL DEF Spec

\* Of a log in order, a number given twice was not read by who gave it again.
LEMMA TwiceIsUnread ==
    ASSUME NEW st, NEW lg, NEW wr, Numbered(st, lg, wr), Rises(lg),
           NEW a \in 1..Len(lg), NEW b \in 1..Len(lg), a < b, lg[a].seq = lg[b].seq
    PROVE  /\ a > lg[b].read
           /\ lg[a].store = lg[b].store /\ lg[a].store # NoStore => st[lg[a].store].reread
<1> DEFINE s == lg[a].store
<1>1. /\ s \in 0..Len(st) /\ Len(st) \in Nat /\ Len(lg) \in Nat
      /\ lg[a].seq \in Nat /\ lg[b].read \in 0..(b - 1)
  BY Made
<1>2. a > lg[b].read
  <2>1. \A c \in 1..lg[b].read : lg[c].seq < lg[b].seq BY DEF Numbered, Above
  <2>2. a \notin 1..lg[b].read BY <1>1, <2>1
  <2> QED BY <1>1, <2>2
<1>3. ASSUME s = lg[b].store, s # NoStore PROVE st[s].reread
  <2>1. s \in 1..Len(st) BY <1>1, <1>3 DEF NoStore
  <2>2. ~Once1(st, lg, wr, s) BY <1>3 DEF Once1
  <2> QED BY <2>1, <2>2 DEF Numbered
<1> QED BY <1>2, <1>3

\* In a log in order nobody gives a number he has read, and no store one it gave before
\* unless its counter was set back: not a thread of the daemon, a daemon after it, a
\* foreground run, a second daemon that recovers the run, nor an operator without one
\* (append_session_event, load_or_init, _find_store_for_run, _recover_orphaned_runs,
\* append_timeline_event).
THEOREM RepeatHolds == Spec => []RepeatNotRead
<1>1. Working => RepeatNotRead
  <2> SUFFICES ASSUME Working, NEW r \in Runs, NEW a \in 1..Len(log[r]),
                      NEW b \in 1..Len(log[r]), Repeated(r, a, b), ~OutOfOrder(r)
               PROVE  /\ a > log[r][b].read
                      /\ log[r][a].store = log[r][b].store /\ log[r][a].store # NoStore =>
                           stores[r][log[r][a].store].reread
    BY DEF RepeatNotRead
  <2>1. Numbered(stores[r], log[r], LinesOf(r)) BY DEF Working, Housed, Sound1
  <2>2. \A i \in 1..Len(log[r]) : log[r][i].seq \in Nat BY <2>1, Made
  <2>3. Rises(log[r]) BY <2>2 DEF OutOfOrder, Rises
  <2>4. a < b /\ log[r][a].seq = log[r][b].seq BY DEF Repeated
  <2> QED BY <2>1, <2>3, <2>4, TwiceIsUnread
<1> QED BY <1>1, InitWorking, NextWorking, PTL DEF Spec
===============================================================================
