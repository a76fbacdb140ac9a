------------------------- MODULE RateLimiterProofs --------------------------
(***************************************************************************)
(* The limiter's bounds, for every limit, window, run of the clock and      *)
(* number of restarts.                                                     *)
(***************************************************************************)
EXTENDS RateLimiter, SequenceTheorems, FiniteSetTheorems, TLAPS

LEMMA TimesElements ==
  ASSUME NEW b \in Times, NEW i \in 1..Len(b)
  PROVE  b[i] \in 0..MaxTime /\ b[i] \in Int
<1>1. b[i] \in 0..MaxTime
  BY ElementOfSeq DEF Times
<1> QED
  BY <1>1

\* The deque after n pops: the same times, n places earlier.
LEMMA RestFacts ==
  ASSUME NEW b \in Times, NEW n \in 0..Len(b)
  PROVE  /\ Rest(b, n) \in Times
         /\ Len(Rest(b, n)) = Len(b) - n
         /\ \A i \in 1..(Len(b) - n) : Rest(b, n)[i] = b[n + i]
<1>1. b \in Seq(0..MaxTime) /\ Len(b) \in Nat /\ n + 1 \in 1..(Len(b) + 1)
  BY DEF Times
<1>a. \A i \in (n + 1)..Len(b) : b[i] \in 0..MaxTime
  BY <1>1, TimesElements
<1>2. Rest(b, n) \in Seq(0..MaxTime)
  BY <1>1, <1>a, SubSeqProperties DEF Rest
<1>3. Len(Rest(b, n)) = Len(b) - n
  BY <1>1 DEF Rest
<1>4. \A i \in 1..(Len(b) - n) : Rest(b, n)[i] = b[n + i]
  BY <1>1 DEF Rest
<1> QED
  BY <1>2, <1>3, <1>4 DEF Times

LEMMA AppendFacts ==
  ASSUME NEW b \in Times, NEW t \in 0..MaxTime
  PROVE  /\ Append(b, t) \in Times
         /\ Len(Append(b, t)) = Len(b) + 1
         /\ \A i \in 1..Len(b) : Append(b, t)[i] = b[i]
         /\ Append(b, t)[Len(b) + 1] = t
  BY DEF Times

\* What DequeIsRecentLog says of one key.
Recent(bucket, log, t) ==
  LET dropped == Len(log) - Len(bucket)
  IN /\ dropped >= 0
     /\ \A i \in 1..Len(bucket) : bucket[i] = log[dropped + i]
     /\ \A i \in 1..dropped : log[i] + window <= t

\* Popping what has left the window keeps the deque the recent end of the log.
LEMMA PopsKeepRecent ==
  ASSUME NEW b \in Times, NEW log \in Times, now \in 0..MaxTime, Recent(b, log, now),
         NEW n \in 0..Len(b), Pops(b, n)
  PROVE  Recent(Rest(b, n), log, now)
<1> DEFINE dropped == Len(log) - Len(b)
<1>1. /\ Rest(b, n) \in Times /\ Len(Rest(b, n)) = Len(b) - n
      /\ \A i \in 1..(Len(b) - n) : Rest(b, n)[i] = b[n + i]
  BY RestFacts
<1>2. Len(b) \in Nat /\ Len(log) \in Nat /\ dropped \in Nat
  BY DEF Times, Recent
<1>3. Len(log) - Len(Rest(b, n)) = dropped + n
  BY <1>1, <1>2
<1>4. ASSUME NEW i \in 1..Len(Rest(b, n))
      PROVE  Rest(b, n)[i] = log[(dropped + n) + i]
  <2>1. n + i \in 1..Len(b) /\ Rest(b, n)[i] = b[n + i]
    BY <1>1, <1>2
  <2>2. b[n + i] = log[dropped + (n + i)]
    BY <2>1 DEF Recent
  <2>3. dropped + (n + i) = (dropped + n) + i
    BY <1>2
  <2> QED
    BY <2>1, <2>2, <2>3
<1>5. ASSUME NEW i \in 1..(dropped + n)
      PROVE  log[i] + window <= now
  <2>1. CASE i <= dropped
    BY <1>2, <2>1 DEF Recent
  <2>2. CASE i > dropped
    <3>1. i - dropped \in 1..n /\ i - dropped \in 1..Len(b) /\ dropped + (i - dropped) = i
      BY <1>2, <2>2
    <3>2. b[i - dropped] <= now - window /\ b[i - dropped] = log[i]
      BY <3>1 DEF Pops, Recent
    <3>3. b[i - dropped] \in Int
      BY <3>1, TimesElements
    <3> QED
      BY <3>2, <3>3, LimiterAssumption
  <2> QED
    BY <1>2, <2>1, <2>2
<1>6. dropped + n >= 0
  BY <1>2
<1> HIDE DEF dropped
<1> QED
  BY <1>3, <1>4, <1>5, <1>6 DEF Recent

\* A hit appended to both keeps it, and, when the deque has room, keeps the log
\* sparse: the entry `limit` places back is one the deque has dropped.
LEMMA AdmitKeepsRecent ==
  ASSUME NEW b \in Times, NEW log \in Times, now \in 0..MaxTime, Recent(b, log, now),
         Len(b) < limit, Sparse(log)
  PROVE  Recent(Append(b, now), Append(log, now), now) /\ Sparse(Append(log, now))
<1> DEFINE dropped == Len(log) - Len(b)
           log2 == Append(log, now)
           b2 == Append(b, now)
<1>1. Len(b) \in Nat /\ Len(log) \in Nat /\ dropped \in Nat
  BY DEF Times, Recent
<1>2. /\ Len(b2) = Len(b) + 1 /\ Len(log2) = Len(log) + 1
      /\ \A i \in 1..Len(b) : b2[i] = b[i]
      /\ \A i \in 1..Len(log) : log2[i] = log[i]
      /\ b2[Len(b) + 1] = now /\ log2[Len(log) + 1] = now
  BY AppendFacts
<1>3. \A i \in 1..dropped : log2[i] + window <= now
  BY <1>1, <1>2 DEF Recent
<1>4. ASSUME NEW i \in 1..Len(b2)
      PROVE  b2[i] = log2[dropped + i]
  <2>1. CASE i \in 1..Len(b)
    BY <1>1, <1>2, <2>1 DEF Recent
  <2>2. CASE i = Len(b) + 1
    BY <1>1, <1>2, <2>2
  <2> QED
    BY <1>1, <1>2, <2>1, <2>2
<1>5. Recent(b2, log2, now)
  <2>1. Len(log2) - Len(b2) = dropped /\ dropped >= 0
    BY <1>1, <1>2
  <2> HIDE DEF dropped, b2, log2
  <2> QED
    BY <1>3, <1>4, <2>1 DEF Recent
<1>6. ASSUME NEW i \in 1..Len(log2), i + limit <= Len(log2)
      PROVE  log2[i + limit] - log2[i] >= window
  <2>1. CASE i + limit <= Len(log)
    <3>1. i \in 1..Len(log) /\ i + limit \in 1..Len(log)
      BY <1>1, <2>1, LimiterAssumption
    <3> QED
      BY <1>2, <2>1, <3>1 DEF Sparse
  <2>2. CASE i + limit = Len(log) + 1
    <3>1. i \in 1..dropped /\ i \in 1..Len(log)
      BY <1>1, <1>2, <2>2, LimiterAssumption
    <3>2. log2[i] + window <= now /\ log2[i + limit] = now
      BY <1>2, <1>3, <2>2, <3>1
    <3>3. log2[i] \in Int
      BY <1>2, <3>1, TimesElements
    <3> HIDE DEF log2
    <3> QED
      BY <3>2, <3>3, LimiterAssumption
  <2> QED
    BY <1>1, <1>2, <1>6, <2>1, <2>2, LimiterAssumption
<1> QED
  BY <1>5, <1>6 DEF Sparse

-----------------------------------------------------------------------------
KeyInv(k) ==
  Len(hits[k]) <= limit /\ Recent(hits[k], admitted[k], now) /\ Sparse(admitted[k])

Shapes ==
  /\ now \in 0..MaxTime
  /\ hits \in [Keys -> Times]
  /\ admitted \in [Keys -> Times]
  /\ earlier \in [Keys -> Times]
  /\ last \in [Keys -> [at : 0..MaxTime, passed : BOOLEAN]]
  /\ boots \in 0..MaxBoots

CoreInv == TypeOK /\ DequeIsRecentLog /\ WindowBound

LEMMA CoreInvByKey == CoreInv <=> Shapes /\ \A k \in Keys : KeyInv(k)
  BY DEF CoreInv, TypeOK, DequeIsRecentLog, WindowBound, Shapes, KeyInv, Recent

LEMMA EmptyFacts == <<>> \in Times /\ Len(<<>>) = 0 /\ Recent(<<>>, <<>>, 0) /\ Sparse(<<>>)
  BY DEF Times, Recent, Sparse

LEMMA InitCoreInv == Init => CoreInv
<1> SUFFICES ASSUME Init PROVE Shapes /\ \A k \in Keys : KeyInv(k)
  BY CoreInvByKey
<1>1. Shapes
  BY EmptyFacts, LimiterAssumption DEF Init, Shapes
<1>2. \A k \in Keys : KeyInv(k)
  BY EmptyFacts, LimiterAssumption DEF Init, KeyInv
<1> QED
  BY <1>1, <1>2

LEMMA StepCoreInv == CoreInv /\ [Next]_vars => CoreInv'
<1>a. CoreInv' <=> Shapes' /\ \A k \in Keys : KeyInv(k)'
  BY DEF CoreInv, TypeOK, DequeIsRecentLog, WindowBound, Shapes, KeyInv, Recent
<1> SUFFICES ASSUME Shapes, \A k \in Keys : KeyInv(k), [Next]_vars
             PROVE  Shapes' /\ \A k \in Keys : KeyInv(k)'
  BY <1>a, CoreInvByKey
<1>1. CASE Tick
  <2>1. now' = now + 1 /\ now' \in 0..MaxTime /\ now \in Nat
    <3>1. now \in 0..MaxTime /\ now < MaxTime /\ now' = now + 1
      BY <1>1 DEF Tick, Shapes
    <3> QED
      BY <3>1, LimiterAssumption
  <2>2. Shapes'
    BY <1>1, <2>1 DEF Tick, Shapes
  <2>3. ASSUME NEW k \in Keys PROVE KeyInv(k)'
    <3>1. \A i \in 1..Len(admitted[k]) : admitted[k][i] \in Int
      BY TimesElements DEF Shapes
    <3>2. Len(hits[k]) \in Nat /\ Len(admitted[k]) \in Nat
      BY DEF Shapes, Times
    <3>3. ASSUME NEW i \in 1..(Len(admitted[k]) - Len(hits[k]))
          PROVE  admitted[k][i] + window <= now'
      <4>a. i \in 1..Len(admitted[k])
        BY <3>2
      <4>1. admitted[k][i] + window <= now
        BY DEF KeyInv, Recent
      <4>2. admitted[k][i] \in Int
        BY <3>1, <4>a
      <4> QED
        BY <2>1, <4>1, <4>2, LimiterAssumption
    <3>4. Recent(hits[k], admitted[k], now')
      BY <3>3 DEF KeyInv, Recent
    <3> QED
      BY <1>1, <3>4 DEF Tick, KeyInv
  <2> QED
    BY <2>2, <2>3
<1>2. ASSUME NEW k \in Keys, Admit(k)
      PROVE  Shapes' /\ \A j \in Keys : KeyInv(j)'
  <2>1. PICK n \in 0..Len(hits[k]) :
          /\ Pops(hits[k], n) /\ Len(Rest(hits[k], n)) < limit
          /\ hits' = [hits EXCEPT ![k] = Append(Rest(hits[k], n), now)]
          /\ admitted' = [admitted EXCEPT ![k] = Append(admitted[k], now)]
          /\ earlier' = [earlier EXCEPT ![k] = Append(earlier[k], now)]
          /\ last' = [last EXCEPT ![k] = [at |-> now, passed |-> TRUE]]
          /\ UNCHANGED <<now, boots>>
    BY <1>2 DEF Admit
  <2> DEFINE b == Rest(hits[k], n)
  <2>2. hits[k] \in Times /\ admitted[k] \in Times /\ earlier[k] \in Times /\ now \in 0..MaxTime
    BY DEF Shapes
  <2>3. b \in Times /\ Recent(b, admitted[k], now)
    BY <2>1, <2>2, RestFacts, PopsKeepRecent DEF KeyInv
  <2>4. /\ Append(b, now) \in Times /\ Append(admitted[k], now) \in Times
        /\ Append(earlier[k], now) \in Times
        /\ Len(Append(b, now)) = Len(b) + 1
    BY <2>2, <2>3, AppendFacts
  <2>5. Recent(Append(b, now), Append(admitted[k], now), now) /\ Sparse(Append(admitted[k], now))
    BY <2>1, <2>2, <2>3, AdmitKeepsRecent DEF KeyInv
  <2>6. Shapes'
    BY <2>1, <2>2, <2>4 DEF Shapes
  <2>7. Len(b) \in Nat /\ Len(b) + 1 <= limit
    BY <2>1, <2>3, LimiterAssumption DEF Times
  <2>8. ASSUME NEW j \in Keys PROVE KeyInv(j)'
    <3>1. CASE j = k
      BY <2>1, <2>4, <2>5, <2>7, <3>1 DEF Shapes, KeyInv
    <3>2. CASE j # k
      BY <2>1, <3>2 DEF Shapes, KeyInv
    <3> QED
      BY <3>1, <3>2
  <2> QED
    BY <2>6, <2>8
<1>3. ASSUME NEW k \in Keys, Refuse(k)
      PROVE  Shapes' /\ \A j \in Keys : KeyInv(j)'
  <2>1. PICK n \in 0..Len(hits[k]) :
          /\ Pops(hits[k], n)
          /\ hits' = [hits EXCEPT ![k] = Rest(hits[k], n)]
          /\ last' = [last EXCEPT ![k] = [at |-> now, passed |-> FALSE]]
          /\ UNCHANGED <<now, admitted, earlier, boots>>
    BY <1>3 DEF Refuse
  <2> DEFINE b == Rest(hits[k], n)
  <2>2. hits[k] \in Times /\ admitted[k] \in Times /\ now \in 0..MaxTime
    BY DEF Shapes
  <2>3. b \in Times /\ Len(b) = Len(hits[k]) - n /\ Recent(b, admitted[k], now)
    BY <2>1, <2>2, RestFacts, PopsKeepRecent DEF KeyInv
  <2>4. Len(b) <= limit
    BY <2>2, <2>3, LimiterAssumption DEF KeyInv, Times
  <2>5. Shapes'
    BY <2>1, <2>2, <2>3 DEF Shapes
  <2>6. ASSUME NEW j \in Keys PROVE KeyInv(j)'
    <3>1. CASE j = k
      BY <2>1, <2>3, <2>4, <3>1 DEF Shapes, KeyInv
    <3>2. CASE j # k
      BY <2>1, <3>2 DEF Shapes, KeyInv
    <3> QED
      BY <3>1, <3>2
  <2> QED
    BY <2>5, <2>6
<1>4. CASE Restart
  <2>1. boots' \in 0..MaxBoots
    BY <1>4, LimiterAssumption DEF Restart, Shapes
  <2>2. Shapes'
    BY <1>4, <2>1, EmptyFacts DEF Restart, Shapes
  <2>3. ASSUME NEW k \in Keys PROVE KeyInv(k)'
    <3>1. hits'[k] = <<>> /\ admitted'[k] = <<>>
      BY <1>4 DEF Restart
    <3>2. Recent(<<>>, <<>>, now') /\ Sparse(<<>>) /\ Len(<<>>) <= limit
      BY LimiterAssumption DEF Recent, Sparse
    <3> QED
      BY <3>1, <3>2 DEF KeyInv
  <2> QED
    BY <2>2, <2>3
<1>5. CASE UNCHANGED vars
  BY <1>5 DEF vars, Shapes, KeyInv
<1> QED
  BY <1>1, <1>2, <1>3, <1>4, <1>5 DEF Next, check

-----------------------------------------------------------------------------
(* The whole log, and the refusals.                                        *)

LEMMA AppendContinues ==
  ASSUME NEW own \in Times, NEW log \in Times, NEW t \in 0..MaxTime, NEW m \in Nat,
         Continues(own, log, m, t)
  PROVE  Continues(Append(own, t), Append(log, t), m, t)
<1> DEFINE past == Len(log) - Len(own)
           own2 == Append(own, t)
           log2 == Append(log, t)
<1>1. Len(own) \in Nat /\ Len(log) \in Nat /\ past \in Nat
  BY DEF Times, Continues
<1>2. /\ Len(own2) = Len(own) + 1 /\ Len(log2) = Len(log) + 1
      /\ \A i \in 1..Len(own) : own2[i] = own[i]
      /\ \A i \in 1..Len(log) : log2[i] = log[i]
      /\ own2[Len(own) + 1] = t /\ log2[Len(log) + 1] = t
  BY AppendFacts
<1>3. Len(log2) - Len(own2) = past
  BY <1>1, <1>2
<1>4. ASSUME NEW i \in 1..Len(own2) PROVE own2[i] = log2[past + i]
  <2>1. CASE i \in 1..Len(own)
    BY <1>1, <1>2, <2>1 DEF Continues
  <2>2. CASE i = Len(own) + 1
    BY <1>1, <1>2, <2>2
  <2> QED
    BY <1>1, <1>2, <2>1, <2>2
<1>5. ASSUME NEW i \in 1..Len(log2)
      PROVE  log2[i] <= t /\ \A j \in i..Len(log2) : log2[i] <= log2[j]
  <2>1. \A j \in 1..Len(log) : log2[j] = log[j] /\ log[j] <= t
    BY <1>2 DEF Continues
  <2>2. \A j \in 1..Len(log2) : j \in 1..Len(log) \/ (j = Len(log) + 1 /\ log2[j] = t)
    BY <1>1, <1>2
  <2>3. CASE i \in 1..Len(log)
    <3>1. \A j \in i..Len(log) : log[i] <= log[j]
      BY <2>3 DEF Continues
    <3>2. \A j \in i..Len(log2) : j \in 1..Len(log2) /\ (j \in 1..Len(log) => j \in i..Len(log))
      BY <1>1
    <3> HIDE DEF log2
    <3> QED
      BY <2>1, <2>2, <2>3, <3>1, <3>2
  <2>4. CASE i = Len(log) + 1
    <3>1. \A j \in i..Len(log2) : j = i
      BY <1>1, <1>2, <2>4
    <3> QED
      BY <1>2, <2>4, <3>1
  <2> QED
    BY <2>2, <2>3, <2>4
<1>6. ASSUME NEW i \in 1..past, i + m <= past PROVE log2[i + m] - log2[i] >= window
  <2>1. i \in 1..Len(log) /\ i + m \in 1..Len(log)
    BY <1>1, <1>6
  <2>2. log[i + m] - log[i] >= window
    BY <1>6 DEF Continues
  <2> HIDE DEF log2
  <2> QED
    BY <1>2, <2>1, <2>2
<1>7. Continues(own2, log2, m, t)
  <2> DEFINE skip == Len(log2) - Len(own2)
  <2>1. skip = past
    BY <1>3
  <2>2. skip >= 0
    BY <1>1, <2>1
  <2>3. \A i \in 1..Len(own2) : own2[i] = log2[skip + i]
    BY <1>4, <2>1
  <2>4. \A i \in 1..skip : i + m <= skip => log2[i + m] - log2[i] >= window
    BY <1>6, <2>1
  <2> HIDE DEF past, own2, log2
  <2> QED
    BY <1>5, <2>2, <2>3, <2>4 DEF Continues
<1> QED
  BY <1>7

LEMMA LaterContinues ==
  ASSUME NEW own \in Times, NEW log \in Times, NEW t \in Nat, NEW m \in Nat,
         Continues(own, log, m, t)
  PROVE  Continues(own, log, m, t + 1)
<1>1. \A i \in 1..Len(log) : log[i] \in Int
  BY TimesElements
<1> QED
  BY <1>1 DEF Continues

LEMMA Above ==
  \A x, y, z \in Int : x > z /\ x <= y => y > z
OBVIOUS

LEMMA Wider ==
  \A x, y, z \in Int, w \in Nat :
    x <= y /\ y <= z /\ (y - x >= w \/ z - y >= w) => z - x >= w
OBVIOUS

\* One more process, one more time `limit`: between two admissions m + limit
\* places apart, either its own or the earlier processes' bound applies.
LEMMA OneMoreProcess ==
  ASSUME NEW own \in Times, NEW log \in Times, NEW t \in Nat, NEW m \in Nat,
         Continues(own, log, m, t), Sparse(own)
  PROVE  \A i \in 1..Len(log) :
           i + (m + limit) <= Len(log) => log[i + (m + limit)] - log[i] >= window
<1> DEFINE past == Len(log) - Len(own)
<1>1. Len(own) \in Nat /\ Len(log) \in Nat /\ past \in Nat /\ limit \in Nat /\ window \in Nat
  BY LimiterAssumption DEF Times, Continues
<1> SUFFICES ASSUME NEW i \in 1..Len(log), i + (m + limit) <= Len(log)
             PROVE  log[i + (m + limit)] - log[i] >= window
  OBVIOUS
<1>2. \A j \in 1..Len(log) : log[j] \in Int
  BY TimesElements
<1>3. \A a \in 1..Len(log) : \A b \in a..Len(log) : log[a] <= log[b]
  BY DEF Continues
<1>4. CASE i + m <= past
  <2>1. log[i + m] - log[i] >= window
    <3>1. i \in 1..past
      BY <1>1, <1>4
    <3> QED
      BY <1>4, <3>1 DEF Continues
  <2>2. /\ i + m \in 1..Len(log) /\ i + (m + limit) \in 1..Len(log)
        /\ i + (m + limit) \in (i + m)..Len(log)
    BY <1>1, <1>4
  <2>3. log[i + m] <= log[i + (m + limit)]
    BY <1>3, <2>2
  <2>4. log[i] \in Int /\ log[i + m] \in Int /\ log[i + (m + limit)] \in Int /\ window \in Nat
    BY <1>1, <1>2, <2>2
  <2> QED
    BY <2>1, <2>3, <2>4, Wider
<1>5. CASE i + m > past
  <2> DEFINE a == i + m - past
  <2>1. /\ a \in 1..Len(own) /\ a + limit \in 1..Len(own)
        /\ past + a = i + m /\ past + (a + limit) = i + (m + limit)
        /\ i + m \in 1..Len(log) /\ i + (m + limit) \in 1..Len(log) /\ i + m \in i..Len(log)
    BY <1>1, <1>5
  <2>2. own[a] = log[i + m] /\ own[a + limit] = log[i + (m + limit)]
    BY <2>1 DEF Continues
  <2>3. own[a + limit] - own[a] >= window
    BY <2>1 DEF Sparse
  <2>4. log[i] <= log[i + m]
    BY <1>3, <2>1
  <2>5. log[i] \in Int /\ log[i + m] \in Int /\ log[i + (m + limit)] \in Int
    BY <1>2, <2>1
  <2>6. log[i + (m + limit)] - log[i + m] >= window
    BY <2>2, <2>3
  <2>7. window \in Nat
    BY <1>1
  <2> QED
    BY <2>4, <2>5, <2>6, <2>7, Wider
<1> QED
  BY <1>1, <1>4, <1>5

LEMMA RestartContinues ==
  ASSUME NEW own \in Times, NEW log \in Times, NEW t \in Nat, NEW m \in Nat,
         Continues(own, log, m, t), Sparse(own)
  PROVE  Continues(<<>>, log, m + limit, t)
<1>1. Len(<<>>) = 0 /\ Len(log) \in Nat /\ Len(log) - Len(<<>>) = Len(log)
  BY DEF Times
<1>2. \A i \in 1..Len(log) : log[i] <= t /\ \A j \in i..Len(log) : log[i] <= log[j]
  BY DEF Continues
<1>3. \A i \in 1..Len(log) :
        i + (m + limit) <= Len(log) => log[i + (m + limit)] - log[i] >= window
  BY OneMoreProcess
<1>4. \A i \in 1..Len(<<>>) : FALSE
  BY <1>1
<1> QED
  BY <1>1, <1>2, <1>3, <1>4 DEF Continues

\* A full deque is `limit` admissions inside the window that ends now.
LEMMA FullDeque ==
  ASSUME NEW b \in Times, NEW log \in Times, now \in 0..MaxTime, Recent(b, log, now),
         \A i \in 1..Len(log) : log[i] <= now /\ \A j \in i..Len(log) : log[i] <= log[j],
         NEW n \in 0..Len(b), Pops(b, n), Len(Rest(b, n)) >= limit
  PROVE  Cardinality({i \in 1..Len(log) : log[i] > now - window /\ log[i] <= now}) >= limit
<1> DEFINE start == Len(log) - Len(b) + n
           inside == {i \in 1..Len(log) : log[i] > now - window /\ log[i] <= now}
<1>1. Len(b) \in Nat /\ Len(log) \in Nat /\ start \in Nat /\ Len(log) - start >= limit
      /\ limit \in Nat /\ window \in Nat /\ now \in Int
  <2>1. Len(Rest(b, n)) = Len(b) - n
    BY RestFacts
  <2> QED
    BY <2>1, LimiterAssumption DEF Times, Recent
<1>2. ASSUME NEW i \in (start + 1)..Len(log) PROVE i \in inside
  <2>1. /\ n + 1 \in 1..Len(b) /\ n < Len(b) /\ start + 1 = (Len(log) - Len(b)) + (n + 1)
        /\ start + 1 \in 1..Len(log) /\ i \in 1..Len(log)
    BY <1>1, <1>2
  <2>2. b[n + 1] > now - window /\ b[n + 1] = log[start + 1]
    BY <2>1 DEF Pops, Recent
  <2>3. log[start + 1] <= log[i] /\ log[i] <= now
    BY <2>1
  <2>4. log[start + 1] \in Int /\ log[i] \in Int
    BY <2>1, TimesElements
  <2>5. log[i] > now - window /\ log[i] <= now
    <3> HIDE DEF start
    <3>1. log[start + 1] > now - window
      BY <2>2
    <3>2. now - window \in Int
      BY <1>1
    <3> QED
      BY <2>3, <2>4, <3>1, <3>2, Above
  <2> QED
    BY <2>1, <2>5
<1>3. IsFiniteSet(inside)
  <2>1. IsFiniteSet(1..Len(log))
    BY <1>1, FS_Interval
  <2> QED
    BY <2>1, FS_Subset
<1>4. Cardinality((start + 1)..Len(log)) >= limit
  <2> HIDE DEF start
  <2>1. start + 1 \in Int /\ Len(log) \in Int
    BY <1>1
  <2>2. Cardinality((start + 1)..Len(log)) =
          IF start + 1 > Len(log) THEN 0 ELSE Len(log) - (start + 1) + 1
    BY <2>1, FS_Interval
  <2> QED
    BY <1>1, <2>2
<1>5. Cardinality((start + 1)..Len(log)) <= Cardinality(inside)
  BY <1>2, <1>3, FS_Subset
<1>6. Cardinality((start + 1)..Len(log)) \in Nat /\ Cardinality(inside) \in Nat
  <2>1. (start + 1)..Len(log) \subseteq inside
    BY <1>2
  <2> HIDE DEF start, inside
  <2>2. IsFiniteSet((start + 1)..Len(log))
    BY <1>3, <2>1, FS_Subset
  <2> QED
    BY <1>3, <2>2, FS_CardinalityType
<1> QED
  BY <1>1, <1>4, <1>5, <1>6

RefusedFor(k) ==
  ~last[k].passed =>
    Cardinality({i \in 1..Len(admitted[k]) :
                   admitted[k][i] > last[k].at - window /\ admitted[k][i] <= last[k].at})
      >= limit

LogInv(k) == Continues(admitted[k], earlier[k], limit * boots, now) /\ RefusedFor(k)

LEMMA LogStep ==
  ASSUME Shapes, \A k \in Keys : KeyInv(k), \A k \in Keys : LogInv(k), [Next]_vars
  PROVE  \A k \in Keys : LogInv(k)'
<1>a. now \in Nat /\ boots \in Nat /\ limit \in Nat /\ limit * boots \in Nat
  BY LimiterAssumption DEF Shapes
<1>b. \A k \in Keys : admitted[k] \in Times /\ earlier[k] \in Times /\ hits[k] \in Times
  BY DEF Shapes
<1>1. CASE Tick
  <2>1. now' = now + 1 /\ UNCHANGED <<admitted, earlier, last, boots>>
    BY <1>1 DEF Tick
  <2>2. \A k \in Keys : Continues(admitted[k], earlier[k], limit * boots, now + 1)
    BY <1>a, <1>b, LaterContinues DEF LogInv
  <2> QED
    BY <2>1, <2>2 DEF LogInv, RefusedFor
<1>2. ASSUME NEW k \in Keys, Admit(k) PROVE \A j \in Keys : LogInv(j)'
  <2>1. /\ admitted' = [admitted EXCEPT ![k] = Append(admitted[k], now)]
        /\ earlier' = [earlier EXCEPT ![k] = Append(earlier[k], now)]
        /\ last' = [last EXCEPT ![k] = [at |-> now, passed |-> TRUE]]
        /\ UNCHANGED <<now, boots>>
    BY <1>2 DEF Admit
  <2>2. Continues(Append(admitted[k], now), Append(earlier[k], now), limit * boots, now)
    BY <1>a, <1>b, AppendContinues DEF LogInv, Shapes
  <2>3. LogInv(k)'
    BY <2>1, <2>2 DEF LogInv, RefusedFor, Shapes
  <2>4. \A j \in Keys \ {k} : LogInv(j)'
    BY <2>1 DEF LogInv, RefusedFor, Shapes
  <2> QED
    BY <2>3, <2>4
<1>3. ASSUME NEW k \in Keys, Refuse(k) PROVE \A j \in Keys : LogInv(j)'
  <2>1. PICK n \in 0..Len(hits[k]) :
          /\ Pops(hits[k], n) /\ Len(Rest(hits[k], n)) >= limit
          /\ last' = [last EXCEPT ![k] = [at |-> now, passed |-> FALSE]]
          /\ UNCHANGED <<now, admitted, earlier, boots>>
    BY <1>3 DEF Refuse
  <2>2. Recent(hits[k], admitted[k], now)
    BY DEF KeyInv
  <2>3. ASSUME NEW i \in 1..Len(admitted[k])
        PROVE  /\ admitted[k][i] <= now
               /\ \A j \in i..Len(admitted[k]) : admitted[k][i] <= admitted[k][j]
    <3> DEFINE past == Len(earlier[k]) - Len(admitted[k])
    <3>a. past >= 0
      BY DEF LogInv, Continues
    <3>b. Len(earlier[k]) \in Nat /\ Len(admitted[k]) \in Nat
      BY <1>b DEF Times
    <3>1. past \in Nat /\ past + Len(admitted[k]) = Len(earlier[k])
      BY <3>a, <3>b
    <3>2. \A j \in i..Len(admitted[k]) :
            /\ j \in 1..Len(admitted[k])
            /\ past + i \in 1..Len(earlier[k]) /\ past + j \in (past + i)..Len(earlier[k])
      <4> HIDE DEF past
      <4> QED
        BY <3>b, <3>1
    <3>3. \A j \in 1..Len(admitted[k]) : admitted[k][j] = earlier[k][past + j]
      BY DEF LogInv, Continues
    <3>4. \A a \in 1..Len(earlier[k]) :
            earlier[k][a] <= now /\ \A b \in a..Len(earlier[k]) : earlier[k][a] <= earlier[k][b]
      BY DEF LogInv, Continues
    <3>5. i \in i..Len(admitted[k])
      BY <3>b
    <3> HIDE DEF past
    <3> QED
      BY <3>2, <3>3, <3>4, <3>5
  <2>4. Cardinality({i \in 1..Len(admitted[k]) :
                       admitted[k][i] > now - window /\ admitted[k][i] <= now}) >= limit
    BY <1>b, <2>1, <2>2, <2>3, FullDeque DEF Shapes
  <2>5. LogInv(k)'
    BY <2>1, <2>4 DEF LogInv, RefusedFor, Shapes
  <2>6. \A j \in Keys \ {k} : LogInv(j)'
    BY <2>1 DEF LogInv, RefusedFor, Shapes
  <2> QED
    BY <2>5, <2>6
<1>4. CASE Restart
  <2>1. /\ boots' = boots + 1 /\ UNCHANGED <<now, earlier>>
        /\ \A k \in Keys : admitted'[k] = <<>> /\ last'[k].passed
    BY <1>4 DEF Restart
  <2>2. limit * (boots + 1) = limit * boots + limit
    BY <1>a
  <2>3. \A k \in Keys : Continues(<<>>, earlier[k], limit * boots + limit, now)
    BY <1>a, <1>b, RestartContinues DEF LogInv, KeyInv
  <2> QED
    BY <2>1, <2>2, <2>3 DEF LogInv, RefusedFor
<1>5. CASE UNCHANGED vars
  BY <1>5 DEF vars, LogInv, RefusedFor
<1> QED
  BY <1>1, <1>2, <1>3, <1>4, <1>5 DEF Next, check

LEMMA IndInvParts == IndInv <=> CoreInv /\ \A k \in Keys : LogInv(k)
  BY DEF IndInv, CoreInv, LogInv, RefusedFor, LogsContinue, RefusedAtLimitOnly

LEMMA InitIndInv == Init => IndInv
<1> SUFFICES ASSUME Init, NEW k \in Keys PROVE LogInv(k)
  BY InitCoreInv, IndInvParts
<1>1. admitted[k] = <<>> /\ earlier[k] = <<>> /\ last[k].passed
  BY DEF Init
<1>2. Continues(<<>>, <<>>, limit * boots, now)
  BY DEF Continues
<1> QED
  BY <1>1, <1>2 DEF LogInv, RefusedFor

LEMMA StepIndInv == IndInv /\ [Next]_vars => IndInv'
<1> SUFFICES ASSUME IndInv, [Next]_vars PROVE IndInv'
  OBVIOUS
<1>1. CoreInv' /\ \A k \in Keys : LogInv(k)'
  BY StepCoreInv, LogStep, IndInvParts, CoreInvByKey
<1> QED
  BY <1>1 DEF IndInv, CoreInv, LogInv, RefusedFor, LogsContinue, RefusedAtLimitOnly

\* The deque is the end of the log that still counts, whatever the clock does.
THEOREM Invariance == Spec => []IndInv
  BY InitIndInv, StepIndInv, PTL DEF Spec

\* One process never lets a user through more than `limit` times in a window.
THEOREM NeverOverTheLimit == Spec => []WindowBound
<1>1. IndInv => WindowBound
  BY DEF IndInv
<1> QED
  BY <1>1, Invariance, PTL

\* Nobody is refused with fewer than `limit` admissions in the last window,
\* however the deque was popped and the process restarted before.
THEOREM RefusedOnlyAtLimit == Spec => []RefusedAtLimitOnly
<1>1. IndInv => RefusedAtLimitOnly
  BY DEF IndInv
<1> QED
  BY <1>1, Invariance, PTL

\* Each restart gives a user `limit` more admissions in a window, and no more.
THEOREM RestartsAddOneLimitEach == Spec => []WindowBoundAcrossRestarts
<1>1. ASSUME IndInv, NEW k \in Keys, NEW i \in 1..Len(earlier[k])
      PROVE  i + limit * (boots + 1) <= Len(earlier[k]) =>
               earlier[k][i + limit * (boots + 1)] - earlier[k][i] >= window
  <2>1. /\ now \in Nat /\ boots \in Nat /\ limit \in Nat /\ limit * boots \in Nat
        /\ admitted[k] \in Times /\ earlier[k] \in Times
    BY <1>1, LimiterAssumption DEF IndInv, TypeOK
  <2>2. Continues(admitted[k], earlier[k], limit * boots, now) /\ Sparse(admitted[k])
    BY <1>1 DEF IndInv, LogsContinue, WindowBound
  <2>3. limit * (boots + 1) = limit * boots + limit
    BY <2>1
  <2> QED
    BY <2>1, <2>2, <2>3, OneMoreProcess
<1>2. IndInv => WindowBoundAcrossRestarts
  BY <1>1 DEF WindowBoundAcrossRestarts
<1> QED
  BY <1>2, Invariance, PTL

=============================================================================
