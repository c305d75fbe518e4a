------------------------------ MODULE WaitsProofs ------------------------------
(***************************************************************************)
(* Proofs about the components in which somebody waits (module MCWaits).   *)
(* RemoteHistory: the daemon's log loses its oldest events only, for any   *)
(* caps and any number of events, saves, crashes and clears: what a crash  *)
(* takes was not in the file, and what is read back is the end of it.      *)
(* KubeWatch: no forward is warned about before a namespace is picked.     *)
(* All of them: every variable keeps its type.                             *)
(***************************************************************************)
EXTENDS MCWaits, ListProofs

\* A log of events there have been, in their order.
IsLog(s) == s \in Seq(1..recorded) /\ Ordered(s)

LogInv ==
  /\ recorded \in 0..LastEvent /\ aged \in Nat /\ IsLog(log) /\ IsLog(logFile)
  /\ OldestLostFirst

-----------------------------------------------------------------------------
LEMMA InToSet ==
  ASSUME NEW S, NEW s \in Seq(S), NEW e
  PROVE  e \in ToSet(s) <=> \E i \in 1..Len(s) : s[i] = e
  BY DEF ToSet

\* t is what is left of s when the first `gone` are dropped.
Left(t, s, gone) ==
  Len(s) = Len(t) + gone /\ \A i \in 1..Len(t) : t[i] = s[i + gone]

\* What a deque keeps: all, or the last n.
LEMMA NewestIs ==
  ASSUME NEW r \in Nat, NEW s \in Seq(1..r), NEW n \in Nat
  PROVE  /\ Newest(s, n) \in Seq(1..r)
         /\ \E gone \in Nat :
              Left(Newest(s, n), s, gone) /\ (gone > 0 => Len(Newest(s, n)) = n)
<1> DEFINE t == Newest(s, n)
<1>1. CASE Len(s) <= n
  <2>1. t = s /\ Len(s) \in Nat
    BY <1>1 DEF Newest
  <2>2. Left(s, s, 0)
    BY <2>1 DEF Left
  <2> QED
    BY <2>1, <2>2
<1>2. CASE ~(Len(s) <= n)
  <2> DEFINE gone == Len(s) - n
  <2>1. Len(s) \in Nat /\ gone \in Nat /\ t = SubSeq(s, gone + 1, Len(s))
    BY <1>2 DEF Newest
  <2>2. \A i \in gone + 1..Len(s) : s[i] \in 1..r
    BY <2>1, LenProperties
  <2>3. /\ t \in Seq(1..r)
        /\ Len(t) = IF gone + 1 <= Len(s) THEN Len(s) - (gone + 1) + 1 ELSE 0
        /\ \A i \in 1..Len(s) - (gone + 1) + 1 : t[i] = s[gone + 1 + i - 1]
    BY <2>1, <2>2, SubSeqProperties
  <2>4. Len(t) = n /\ Len(s) = n + gone
    BY <1>2, <2>1, <2>3
  <2>5. ASSUME NEW i \in 1..n PROVE t[i] = s[i + gone]
    <3>1. i \in 1..Len(s) - (gone + 1) + 1 /\ gone + 1 + i - 1 = i + gone
      BY <2>1
    <3> QED
      BY <2>3, <3>1
  <2>6. Left(t, s, gone)
    BY <2>4, <2>5 DEF Left
  <2> QED
    BY <2>1, <2>3, <2>4, <2>6
<1> QED
  BY <1>1, <1>2

LEMMA NewestKeepsOrder ==
  ASSUME NEW r \in Nat, NEW s \in Seq(1..r), NEW n \in Nat, Ordered(s)
  PROVE  /\ Newest(s, n) \in Seq(1..r)
         /\ Ordered(Newest(s, n))
         /\ ToSet(Newest(s, n)) \subseteq ToSet(s)
         /\ \A e \in ToSet(s) \ ToSet(Newest(s, n)) :
              /\ Len(Newest(s, n)) = n
              /\ \A f \in ToSet(Newest(s, n)) : e < f
<1> DEFINE t == Newest(s, n)
<1>1. t \in Seq(1..r) /\ Len(s) \in Nat /\ Len(t) \in Nat
  <2>1. t \in Seq(1..r)
    BY NewestIs
  <2> QED
    BY <2>1, LenProperties
<1>2. PICK gone \in Nat : Left(t, s, gone) /\ (gone > 0 => Len(t) = n)
  BY NewestIs
<1> HIDE DEF t
<1>3. \A i \in 1..Len(t) : i + gone \in 1..Len(s) /\ t[i] = s[i + gone]
  BY <1>1, <1>2 DEF Left
<1>4. \A i, j \in 1..Len(s) : i < j => s[i] < s[j]
  BY DEF Ordered
<1>5. Ordered(t)
  <2> SUFFICES ASSUME NEW i \in 1..Len(t), NEW j \in 1..Len(t), i < j PROVE t[i] < t[j]
    BY <1>1 DEF Ordered
  <2>1. i + gone < j + gone
    OBVIOUS
  <2>2. i + gone \in 1..Len(s) /\ j + gone \in 1..Len(s)
    BY <1>3
  <2>3. s[i + gone] < s[j + gone]
    BY <1>4, <2>1, <2>2
  <2> QED
    BY <1>3, <2>3
<1>6. ToSet(t) \subseteq ToSet(s)
  <2> SUFFICES ASSUME NEW f \in ToSet(t) PROVE f \in ToSet(s)
    OBVIOUS
  <2>1. PICK j \in 1..Len(t) : t[j] = f
    BY <1>1, InToSet
  <2>2. s[j + gone] = f /\ j + gone \in 1..Len(s)
    BY <1>3, <2>1
  <2> QED
    BY <2>2, InToSet
<1>7. ASSUME NEW e \in ToSet(s) \ ToSet(t)
      PROVE  Len(t) = n /\ \A f \in ToSet(t) : e < f
  <2>1. PICK i \in 1..Len(s) : s[i] = e
    BY InToSet
  <2>2. i <= gone
    <3> SUFFICES ASSUME i > gone PROVE FALSE
      BY <1>2
    <3>1. PICK j \in Nat : i = j + gone
      BY <1>2
    <3>2. j \in 1..Len(t)
      BY <1>1, <1>2, <3>1 DEF Left
    <3>3. t[j] = e
      BY <1>3, <2>1, <3>1, <3>2
    <3> QED
      BY <1>1, <3>2, <3>3, InToSet
  <2>3. Len(t) = n
    BY <1>2, <2>1, <2>2
  <2>4. ASSUME NEW f \in ToSet(t) PROVE e < f
    <3>1. PICK j \in 1..Len(t) : t[j] = f
      BY <1>1, InToSet
    <3>2. f = s[j + gone] /\ j + gone \in 1..Len(s)
      BY <1>3, <3>1
    <3>3. i < j + gone
      BY <1>1, <2>2, <3>1
    <3> QED
      BY <1>4, <2>1, <3>2, <3>3
  <2> QED
    BY <2>3, <2>4
<1> QED
  BY <1>1, <1>5, <1>6, <1>7 DEF t

\* Events that happen go to the end.
LEMMA AddedInOrder ==
  ASSUME NEW r \in Nat, NEW s \in Seq(1..r), Ordered(s), NEW n \in Nat
  PROVE  /\ s \o [i \in 1..n |-> r + i] \in Seq(1..(r + n))
         /\ Ordered(s \o [i \in 1..n |-> r + i])
         /\ ToSet(s \o [i \in 1..n |-> r + i]) = ToSet(s) \cup ((r + 1)..(r + n))
<1> DEFINE w == [i \in 1..n |-> r + i]
           u == s \o w
<1>1. w \in Seq(1..(r + n)) /\ Len(w) = n
  OBVIOUS
<1>2. s \in Seq(1..(r + n)) /\ Len(s) \in Nat
  <2>1. Len(s) \in Nat /\ s \in [1..Len(s) -> 1..r]
    BY LenProperties
  <2>2. s \in [1..Len(s) -> 1..(r + n)]
    BY <2>1
  <2> QED
    BY <2>1, <2>2
<1> HIDE DEF w
<1>3. /\ u \in Seq(1..(r + n)) /\ Len(u) = Len(s) + n
      /\ \A i \in 1..(Len(s) + n) : u[i] = IF i <= Len(s) THEN s[i] ELSE w[i - Len(s)]
  BY <1>1, <1>2, ConcatProperties
<1> HIDE DEF u
<1>4. \A i \in 1..Len(s) : u[i] = s[i] /\ u[i] \in 1..r
  BY <1>2, <1>3
<1>5. \A i \in 1..n : u[Len(s) + i] = r + i
  <2> SUFFICES ASSUME NEW i \in 1..n PROVE u[Len(s) + i] = r + i
    OBVIOUS
  <2>1. Len(s) + i \in 1..(Len(s) + n) /\ ~(Len(s) + i <= Len(s)) /\ Len(s) + i - Len(s) = i
    BY <1>2
  <2>2. u[Len(s) + i] = w[i]
    BY <1>3, <2>1, SMTT(60)
  <2> QED
    BY <2>2 DEF w
<1>6. \A i \in 1..Len(u) : i \in 1..Len(s) \/ \E k \in 1..n : i = Len(s) + k
  <2> SUFFICES ASSUME NEW i \in 1..Len(u), i \notin 1..Len(s) PROVE \E k \in 1..n : i = Len(s) + k
    OBVIOUS
  <2>1. i - Len(s) \in 1..n /\ i = Len(s) + (i - Len(s))
    BY <1>2, <1>3
  <2> QED
    BY <2>1
<1>7. Ordered(u)
  <2> SUFFICES ASSUME NEW i \in 1..Len(u), NEW j \in 1..Len(u), i < j PROVE u[i] < u[j]
    BY <1>3 DEF Ordered
  <2>1. CASE i \in 1..Len(s) /\ j \in 1..Len(s)
    <3>1. DOMAIN s = 1..Len(s)
      BY LenProperties
    <3>2. s[i] < s[j]
      BY <2>1, <3>1 DEF Ordered
    <3> QED
      BY <1>4, <2>1, <3>2
  <2>2. CASE \E k \in 1..n : j = Len(s) + k
    <3>1. PICK k \in 1..n : j = Len(s) + k
      BY <2>2
    <3>2. CASE i \in 1..Len(s)
      <4>1. u[i] \in 1..r /\ u[j] = r + k
        BY <1>4, <1>5, <3>1, <3>2
      <4> QED
        BY <4>1
    <3>3. CASE i \notin 1..Len(s)
      <4>1. PICK m \in 1..n : i = Len(s) + m
        BY <1>6, <3>3
      <4> QED
        BY <1>2, <1>5, <3>1, <4>1, SMTT(60)
    <3> QED
      BY <3>2, <3>3
  <2>3. CASE j \in 1..Len(s)
    <3>1. i \in 1..Len(s)
      BY <1>2, <2>3
    <3> QED
      BY <2>1, <2>3, <3>1
  <2> QED
    BY <1>6, <2>2, <2>3
<1>8. ToSet(u) = ToSet(s) \cup ((r + 1)..(r + n))
  <2>1. ASSUME NEW e \in ToSet(u) PROVE e \in ToSet(s) \cup ((r + 1)..(r + n))
    <3>1. PICK i \in 1..Len(u) : u[i] = e
      BY <1>3, InToSet
    <3>2. CASE i \in 1..Len(s)
      BY <1>4, <3>1, <3>2, InToSet
    <3>3. CASE \E k \in 1..n : i = Len(s) + k
      <4>1. PICK k \in 1..n : i = Len(s) + k
        BY <3>3
      <4>2. e = r + k
        BY <1>5, <3>1, <4>1
      <4> QED
        BY <4>2
    <3> QED
      BY <1>6, <3>2, <3>3
  <2>2. ASSUME NEW e \in ToSet(s) PROVE e \in ToSet(u)
    <3>1. PICK i \in 1..Len(s) : s[i] = e
      BY InToSet
    <3>2. i \in 1..Len(u) /\ u[i] = e
      BY <1>2, <1>3, <1>4, <3>1
    <3> QED
      BY <1>3, <3>2, InToSet
  <2>3. ASSUME NEW e \in (r + 1)..(r + n) PROVE e \in ToSet(u)
    <3>1. PICK k \in 1..n : e = r + k
      <4>1. e - r \in 1..n /\ e = r + (e - r)
        OBVIOUS
      <4> QED
        BY <4>1
    <3>2. u[Len(s) + k] = e
      BY <1>5, <3>1
    <3>3. Len(s) + k \in 1..Len(u)
      BY <1>2, <1>3
    <3> QED
      BY <1>3, <3>2, <3>3, InToSet
  <2> QED
    BY <2>1, <2>2, <2>3
<1> QED
  BY <1>3, <1>7, <1>8 DEF u, w

\* Of a log in its order some events are read back, in their order; all of them, when all are.
LEMMA OnlyKeepsOrder ==
  ASSUME NEW r \in Nat, NEW s \in Seq(1..r), Ordered(s), NEW kept
  PROVE  /\ Only(s, kept) \in Seq(1..r) /\ Ordered(Only(s, kept))
         /\ \A e : e \in ToSet(Only(s, kept)) <=> e \in ToSet(s) /\ e \in kept
         /\ ToSet(s) \subseteq kept => Len(Only(s, kept)) >= Len(s)
<1>1. PICK t : t = Only(s, kept)
  OBVIOUS
<1>2. PICK h : Picks(h, t, s, kept, Len(s))
  BY <1>1, OnlyPicks
<1>3. /\ t \in Seq(1..r) /\ Len(t) \in Nat /\ Len(s) \in Nat
      /\ \A e : (\E j \in 1..Len(t) : t[j] = e)
                  <=> (e \in kept /\ \E i \in 1..Len(s) : s[i] = e)
  <2>1. /\ t \in Seq(1..r)
        /\ \A e : (\E j \in 1..Len(t) : t[j] = e)
                    <=> (e \in kept /\ \E i \in 1..Len(s) : s[i] = e)
    BY <1>1, OnlyIs
  <2> QED
    BY <2>1, LenProperties, Zenon
<1>4. \A e : e \in ToSet(t) <=> e \in ToSet(s) /\ e \in kept
  <2>1. \A e : e \in ToSet(t) <=> \E j \in 1..Len(t) : t[j] = e
    BY <1>3, InToSet
  <2>2. \A e : e \in ToSet(s) <=> \E i \in 1..Len(s) : s[i] = e
    BY InToSet
  <2> QED
    BY <1>3, <2>1, <2>2, Zenon
<1>5. Ordered(t)
  <2> SUFFICES ASSUME NEW i \in 1..Len(t), NEW j \in 1..Len(t), i < j PROVE t[i] < t[j]
    BY <1>3 DEF Ordered
  <2>1. h[i] < h[j] /\ h[i] \in 1..Len(s) /\ h[j] \in 1..Len(s)
    BY <1>2 DEF Picks
  <2>2. DOMAIN s = 1..Len(s)
    BY LenProperties, Zenon
  <2>3. s[h[i]] < s[h[j]]
    BY <2>1, <2>2, Zenon DEF Ordered
  <2> QED
    BY <1>2, <2>3 DEF Picks
<1>6. ASSUME ToSet(s) \subseteq kept PROVE Len(t) >= Len(s)
  <2>1. \A i \in 1..Len(s) : s[i] \in kept
    BY <1>6, InToSet
  <2>2. \A i \in 1..Len(s) : \E j \in 1..Len(t) : h[j] = i
    BY <1>2, <2>1 DEF Picks
  <2> DEFINE g == [i \in 1..Len(s) |-> CHOOSE j \in 1..Len(t) : h[j] = i]
  <2>3. \A i \in 1..Len(s) : g[i] \in 1..Len(t) /\ h[g[i]] = i
    BY <2>2
  <2>4. g \in [1..Len(s) -> 1..Len(t)]
    BY <2>3
  <2> HIDE DEF g
  <2>5. ASSUME NEW i \in 1..Len(s), NEW j \in 1..Len(s), i < j PROVE g[i] < g[j]
    <3>1. PICK a \in 1..Len(t), b \in 1..Len(t) : a = g[i] /\ b = g[j]
      BY <2>3
    <3>2. h[a] = i /\ h[b] = j
      BY <2>3, <3>1
    <3>3. b < a => h[b] < h[a]
      BY <1>2 DEF Picks
    <3> QED
      BY <2>5, <3>1, <3>2, <3>3
  <2> QED
    BY <1>3, <2>4, <2>5, GrowingFits
<1> QED
  BY <1>1, <1>3, <1>4, <1>5, <1>6

-----------------------------------------------------------------------------
\* n events are recorded: the log gets them and drops its oldest.
LEMMA RecordKeepsLogInv ==
  ASSUME LogInv, NEW n \in Nat, recorded' = recorded + n, recorded' <= LastEvent,
         log' = Newest(log \o New(n), LogCap), UNCHANGED <<logFile, cleared, crashed, aged>>
  PROVE  LogInv'
<1> USE CapsAssumption
<1> DEFINE u == log \o New(n)
<1>1. /\ recorded \in Nat /\ recorded' \in Nat /\ recorded' \in 0..LastEvent /\ LogCap \in Nat /\ ReloadedCap \in Nat
      /\ aged \in Nat /\ aged' = aged /\ ReloadedCap <= LogCap
  BY DEF LogInv
<1>2. log \in Seq(1..recorded) /\ Ordered(log)
  BY DEF LogInv, IsLog
<1>3. /\ u \in Seq(1..recorded') /\ Ordered(u)
      /\ ToSet(u) = ToSet(log) \cup ((recorded + 1)..recorded')
  BY <1>1, <1>2, AddedInOrder DEF New
<1>4. Len(u) = Len(log) + n /\ Len(log) \in Nat
  <2>1. New(n) \in Seq(Nat) /\ Len(New(n)) = n
    BY <1>1 DEF New
  <2>2. log \in Seq(Nat) /\ Len(log) \in Nat
    <3>1. log \in [1..Len(log) -> 1..recorded] /\ Len(log) \in Nat
      BY <1>2, LenProperties
    <3>2. log \in [1..Len(log) -> Nat]
      BY <1>1, <3>1
    <3> QED
      BY <3>1, <3>2
  <2> QED
    BY <2>1, <2>2, ConcatProperties
<1> HIDE DEF u
<1>5. /\ log' \in Seq(1..recorded') /\ Ordered(log') /\ ToSet(log') \subseteq ToSet(u)
      /\ \A e \in ToSet(u) \ ToSet(log') : Len(log') = LogCap /\ \A f \in ToSet(log') : e < f
  BY <1>1, <1>3, NewestKeepsOrder DEF u
<1>6. PICK gone \in Nat : Left(log', u, gone) /\ (gone > 0 => Len(log') = LogCap)
  BY <1>1, <1>3, NewestIs DEF u
<1>7. Len(log') \in Nat
  BY <1>5, LenProperties
<1>8. Len(log) >= ReloadedCap => Len(log') >= ReloadedCap
  BY <1>1, <1>4, <1>6, <1>7 DEF Left
<1>9. IsLog(logFile)'
  <2>1. Len(logFile) \in Nat /\ logFile \in [1..Len(logFile) -> 1..recorded]
    BY LenProperties DEF LogInv, IsLog
  <2>2. logFile \in [1..Len(logFile) -> 1..recorded']
    BY <1>1, <2>1
  <2>3. logFile \in Seq(1..recorded')
    BY <2>1, <2>2
  <2> QED
    BY <2>3 DEF LogInv, IsLog, Ordered
<1>10. OldestLostFirst'
  <2> SUFFICES ASSUME NEW e \in 1..recorded', e \notin ToSet(log') \cup cleared \cup crashed
               PROVE  /\ \A f \in ToSet(log') : e < f
                      /\ e <= aged' \/ Len(log') >= ReloadedCap
    BY <1>5 DEF OldestLostFirst
  <2>1. CASE e \in ToSet(u)
    BY <1>1, <1>5, <2>1
  <2>2. CASE e \notin ToSet(u)
    <3>1. e \in 1..recorded /\ e \notin ToSet(log)
      BY <1>1, <1>3, <2>2
    <3>2. (\A f \in ToSet(log) : e < f) /\ (e <= aged' \/ Len(log) >= ReloadedCap)
      BY <1>1, <3>1 DEF LogInv, OldestLostFirst
    <3>3. ASSUME NEW f \in ToSet(log') PROVE e < f
      <4>1. f \in ToSet(log) \/ f \in (recorded + 1)..recorded'
        BY <1>3, <1>5
      <4> QED
        BY <1>1, <3>1, <3>2, <4>1
    <3> QED
      BY <1>8, <3>2, <3>3
  <2> QED
    BY <2>1, <2>2
<1> QED
  BY <1>1, <1>5, <1>9, <1>10 DEF LogInv, IsLog

\* The newest events of the log are saved.
LEMMA SaveKeepsLogInv ==
  ASSUME LogInv, SaveLog
  PROVE  LogInv'
<1>1. recorded \in Nat /\ SavedCap \in Nat /\ log \in Seq(1..recorded) /\ Ordered(log)
  BY CapsAssumption DEF LogInv, IsLog
<1>2. IsLog(logFile')
  BY <1>1, NewestKeepsOrder DEF SaveLog, IsLog
<1> QED
  BY <1>2 DEF SaveLog, LogInv, IsLog, OldestLostFirst

\* What is read back of a file is its end, less what is past the retention.
LEMMA ReloadedIs ==
  ASSUME NEW m \in 0..LastEvent, NEW s \in Seq(1..m), Ordered(s), NEW old \in Nat
  PROVE  /\ Reloaded(s, old) \in Seq(1..m) /\ Ordered(Reloaded(s, old))
         /\ \A e \in ToSet(s) \ ToSet(Reloaded(s, old)) :
              /\ \A f \in ToSet(Reloaded(s, old)) : e < f
              /\ e <= old \/ Len(Reloaded(s, old)) >= ReloadedCap
<1> DEFINE kept == (old + 1)..LastEvent
<1>1. PICK end, t : end = Newest(s, ReloadedCap) /\ t = Only(end, kept) /\ t = Reloaded(s, old)
  BY DEF Reloaded, Within
<1>2. m \in Nat /\ LastEvent \in Nat /\ ReloadedCap \in Nat
  BY CapsAssumption
<1>3. /\ end \in Seq(1..m) /\ Ordered(end)
      /\ \A e \in ToSet(s) \ ToSet(end) :
           Len(end) = ReloadedCap /\ \A f \in ToSet(end) : e < f
  BY <1>1, <1>2, NewestKeepsOrder
<1> HIDE DEF kept
<1>4. /\ t \in Seq(1..m) /\ Ordered(t)
      /\ \A e : e \in ToSet(t) <=> e \in ToSet(end) /\ e \in kept
      /\ ToSet(end) \subseteq kept => Len(t) >= Len(end)
  <2>1. m \in Nat /\ end \in Seq(1..m) /\ Ordered(end)
    BY <1>2, <1>3
  <2>2. \A k : /\ Only(end, k) \in Seq(1..m) /\ Ordered(Only(end, k))
               /\ \A e : e \in ToSet(Only(end, k)) <=> e \in ToSet(end) /\ e \in k
               /\ ToSet(end) \subseteq k => Len(Only(end, k)) >= Len(end)
    BY <2>1, OnlyKeepsOrder, Zenon
  <2> QED
    <3>1. /\ Only(end, kept) \in Seq(1..m) /\ Ordered(Only(end, kept))
          /\ \A e : e \in ToSet(Only(end, kept)) <=> e \in ToSet(end) /\ e \in kept
          /\ ToSet(end) \subseteq kept => Len(Only(end, kept)) >= Len(end)
      BY <2>2
    <3>2. t = Only(end, kept)
      BY <1>1
    <3> QED
      BY <3>1, <3>2, Zenon
<1>5. ToSet(end) \subseteq 1..m /\ ToSet(s) \subseteq 1..m
  <2>1. \A u \in Seq(1..m) : \A e : e \in ToSet(u) => e \in 1..m
    <3> SUFFICES ASSUME NEW u \in Seq(1..m), NEW e \in ToSet(u) PROVE e \in 1..m
      OBVIOUS
    <3>1. PICK i \in 1..Len(u) : u[i] = e
      BY InToSet
    <3> QED
      BY <3>1, LenProperties
  <2> QED
    BY <1>3, <2>1
<1>6. \A e \in 1..m : e \in kept <=> e > old
  BY <1>2 DEF kept
<1>7. ASSUME NEW e \in ToSet(s) \ ToSet(t)
      PROVE  (\A f \in ToSet(t) : e < f) /\ (e <= old \/ Len(t) >= ReloadedCap)
  <2>1. e \in 1..m /\ m \in Nat
    BY <1>2, <1>5
  <2>2. CASE e <= old
    <3>1. \A f \in ToSet(t) : f \in 1..m /\ f > old
      BY <1>4, <1>5, <1>6
    <3> QED
      BY <2>1, <2>2, <3>1
  <2>3. CASE ~(e <= old)
    <3>1. e \notin ToSet(end)
      BY <1>4, <1>6, <2>1, <2>3
    <3>2. Len(end) = ReloadedCap /\ \A f \in ToSet(end) : e < f
      BY <1>3, <3>1
    <3>3. \A f \in ToSet(end) : f \in 1..m /\ f > old
      BY <1>5, <2>1, <2>3, <3>2
    <3>4. ToSet(end) \subseteq kept
      BY <1>6, <3>3
    <3>5. \A f \in ToSet(t) : e < f
      BY <1>4, <3>2
    <3>6. Len(t) >= ReloadedCap
      BY <1>4, <3>2, <3>4
    <3> QED
      BY <3>5, <3>6
  <2> QED
    BY <2>2, <2>3
<1> QED
  BY <1>1, <1>4, <1>7

\* What the file did not hold is the crash's; of the rest the end is read back.
LEMMA RestartKeepsLogInv ==
  ASSUME LogInv, RestartDaemon
  PROVE  LogInv'
<1>1. recorded \in 0..LastEvent /\ logFile \in Seq(1..recorded) /\ Ordered(logFile)
  BY DEF LogInv, IsLog
<1>2. PICK old \in Nat : aged' = old /\ log' = Reloaded(logFile, old)
  <2>1. aged' \in Nat
    BY DEF RestartDaemon, LogInv
  <2> QED
    BY <2>1 DEF RestartDaemon
<1>3. /\ log' \in Seq(1..recorded) /\ Ordered(log')
      /\ \A e \in ToSet(logFile) \ ToSet(log') :
           (\A f \in ToSet(log') : e < f) /\ (e <= aged' \/ Len(log') >= ReloadedCap)
  BY <1>1, <1>2, ReloadedIs
<1>4. UNCHANGED <<recorded, logFile, cleared>>
  BY DEF RestartDaemon
<1>5. OldestLostFirst'
  <2>1. \A e \in 1..recorded : e \notin crashed' => e \in ToSet(logFile)
    BY DEF RestartDaemon
  <2> QED
    BY <1>3, <1>4, <2>1 DEF OldestLostFirst
<1> QED
  BY <1>1, <1>2, <1>3, <1>4, <1>5 DEF LogInv, IsLog, Ordered

-----------------------------------------------------------------------------
LEMMA InitLogInv == RemoteInit => LogInv
<1> SUFFICES ASSUME RemoteInit PROVE LogInv
  OBVIOUS
<1>1. IsLog(<<>>)
  BY DEF RemoteInit, IsLog, Ordered
<1> QED
  BY <1>1, CapsAssumption DEF RemoteInit, LogInv, IsLog, OldestLostFirst

\* A dashboard notes or clears; its other calls leave the daemon's log alone.
LEMMA NoteKeepsLogInv ==
  ASSUME LogInv, NEW c, NEW answered, NoteCall(c, answered)
  PROVE  LogInv'
<1>1. recorded \in Nat /\ recorded' = recorded + 1 /\ recorded' <= LastEvent
  BY CapsAssumption DEF NoteCall, LogInv
<1>2. Append(log, recorded') = log \o New(1)
  <2>1. New(1) = <<recorded'>>
    BY <1>1 DEF New
  <2>2. log \in Seq(1..recorded) /\ Len(log) \in Nat
    BY LenProperties DEF LogInv, IsLog
  <2>3. log \in [1..Len(log) -> 1..recorded']
    BY <1>1, <2>2, LenProperties
  <2>4. log \in Seq(1..recorded') /\ recorded' \in 1..recorded'
    BY <1>1, <2>2, <2>3
  <2>5. Append(log, recorded') = log \o <<recorded'>>
    BY <2>4, AppendIsConcat
  <2> QED
    BY <2>1, <2>5
<1> QED
  BY <1>1, <1>2, RecordKeepsLogInv DEF NoteCall

LEMMA ClearKeepsLogInv ==
  ASSUME LogInv, NEW c, NEW answered, ClearCall(c, answered)
  PROVE  LogInv'
<1>1. IsLog(<<>>)
  BY DEF IsLog, Ordered
<1> QED
  BY <1>1 DEF ClearCall, LogInv, IsLog, Ordered, OldestLostFirst

LEMMA StepKeepsLogInv == LogInv /\ [RemoteNext]_remoteVars => LogInv'
<1> SUFFICES ASSUME LogInv, [RemoteNext]_remoteVars PROVE LogInv'
  OBVIOUS
<1>1. UNCHANGED <<daemonLog, cleared>> => LogInv'
  BY DEF daemonLog, LogInv, IsLog, Ordered, OldestLostFirst
<1>2. ASSUME NEW n \in 0..2, RefreshLog(n) PROVE LogInv'
  BY <1>2, RecordKeepsLogInv DEF RefreshLog
<1>3. ASSUME NEW c \in Dashboards,
             AskFrame(c) \/ AnswerFrame(c) \/ ApplyFrame(c) \/ LoseCall(c)
      PROVE  LogInv'
  BY <1>1, <1>3 DEF AskFrame, AnswerFrame, ApplyFrame, LoseCall
<1>4. CASE UNCHANGED remoteVars
  BY <1>1, <1>4 DEF remoteVars
<1> QED
  BY <1>2, <1>3, <1>4, SaveKeepsLogInv, RestartKeepsLogInv, NoteKeepsLogInv, ClearKeepsLogInv
     DEF RemoteNext

\* Over refreshes, notes, saves, crashes and reloads the daemon's log stays in order and loses
\* its oldest events only: one that nobody cleared and no crash cost is missing only when it
\* was past the retention at a start, or when as many newer ones are there as are read back
\* (history_store.py, load and update).
THEOREM LogLosesOldest == RemoteSpec => []OldestLostFirst
<1>1. LogInv => OldestLostFirst
  BY DEF LogInv
<1> QED
  BY InitLogInv, StepKeepsLogInv, <1>1, PTL DEF RemoteSpec

-----------------------------------------------------------------------------
\* A log or a copy of it: at most LogCap events.
Logs == {s \in Seq(Ids) : Len(s) <= LogCap}
FrameCall == [step : {"none", "asked", "answered"}, all : BOOLEAN, shown : Seq(Ids), events : Logs]

RemoteTyped ==
  /\ recorded \in 0..LastEvent /\ aged \in 0..recorded
  /\ log \in Logs /\ logFile \in Seq(Ids) /\ Len(logFile) <= SavedCap
  /\ published \in Seq(Ids) /\ Len(published) <= ShownCap
  /\ copy \in [Dashboards -> Logs] /\ loaded \in [Dashboards -> BOOLEAN]
  /\ call \in [Dashboards -> FrameCall]

LEMMA TypedIsTypeOK == RemoteTyped => RemoteTypeOK
<1> SUFFICES ASSUME RemoteTyped PROVE RemoteTypeOK
  OBVIOUS
<1>1. \A s \in Seq(Ids) : ToSet(s) \subseteq Ids
  BY InToSet
<1>2. \A c \in Dashboards : copy[c] \in Logs /\ loaded[c] \in BOOLEAN /\ call[c] \in FrameCall
  BY DEF RemoteTyped
<1> QED
  BY <1>1, <1>2 DEF RemoteTyped, RemoteTypeOK, Logs, FrameCall

LEMMA NewestFits ==
  ASSUME NEW s \in Seq(Ids), NEW n \in Nat
  PROVE  Newest(s, n) \in Seq(Ids) /\ Len(Newest(s, n)) <= n
<1>1. LastEvent \in Nat
  BY CapsAssumption
<1>2. PICK t : t = Newest(s, n)
  OBVIOUS
<1>3. t \in Seq(Ids) /\ \E gone \in Nat : Left(t, s, gone) /\ (gone > 0 => Len(t) = n)
  BY <1>1, <1>2, NewestIs DEF Ids
<1>4. PICK gone \in Nat : Left(t, s, gone) /\ (gone > 0 => Len(t) = n)
  BY <1>3
<1>5. Len(t) <= n
  <2>1. CASE Len(s) <= n
    BY <1>2, <2>1 DEF Newest
  <2>2. CASE ~(Len(s) <= n)
    <3>1. gone = 0 => Len(t) = Len(s)
      BY <1>4, <1>3, LenProperties DEF Left
    <3>2. Len(t) = n \/ gone = 0
      BY <1>4
    <3>3. Newest(s, n) = SubSeq(s, Len(s) - n + 1, Len(s)) /\ Len(s) \in Nat
      BY <2>2, LenProperties DEF Newest
    <3>4. Len(SubSeq(s, Len(s) - n + 1, Len(s))) = n
      BY <2>2, <3>3, LenProperties
    <3> QED
      BY <1>2, <3>3, <3>4
  <2> QED
    BY <2>1, <2>2
<1> QED
  BY <1>2, <1>3, <1>5

LEMMA RemoteTypedStarts == RemoteInit => RemoteTyped
<1> SUFFICES ASSUME RemoteInit PROVE RemoteTyped
  OBVIOUS
<1>1. <<>> \in Seq(Ids) /\ Len(<<>>) = 0 /\ <<>> \in Logs
  BY CapsAssumption DEF Logs
<1>2. NoCall \in FrameCall
  BY <1>1 DEF NoCall, FrameCall
<1> HIDE DEF NoCall
<1> QED
  BY <1>1, <1>2, CapsAssumption DEF RemoteInit, RemoteTyped

\* n events more.
LEMMA MoreEvents ==
  ASSUME NEW s \in Seq(Ids), NEW n \in Nat, recorded \in 0..LastEvent, recorded + n <= LastEvent
  PROVE  Newest(s \o New(n), LogCap) \in Logs
<1>1. New(n) \in Seq(Ids)
  BY CapsAssumption DEF New, Ids
<1>2. s \o New(n) \in Seq(Ids)
  BY <1>1, ConcatProperties
<1> QED
  BY <1>2, NewestFits, CapsAssumption DEF Logs

LEMMA OneMoreEvent ==
  ASSUME NEW s \in Seq(Ids), recorded \in 0..LastEvent, recorded < LastEvent
  PROVE  Newest(Append(s, recorded + 1), LogCap) \in Logs
<1>1. recorded + 1 \in Ids
  BY CapsAssumption DEF Ids
<1>2. Append(s, recorded + 1) \in Seq(Ids)
  BY <1>1, AppendProperties
<1> QED
  BY <1>2, NewestFits, CapsAssumption DEF Logs

\* What a frame brings that the copy does not have.
LEMMA MergeFits ==
  ASSUME RemoteTyped, NEW c \in Dashboards
  PROVE  Merge(c) \in Logs
<1>1. copy[c] \in Seq(Ids) /\ call[c].shown \in Seq(Ids)
  BY DEF RemoteTyped, Logs, FrameCall
<1> DEFINE more == Only(call[c].shown, ToSet(call[c].shown) \ ToSet(copy[c]))
<1>2. more \in Seq(Ids)
  BY <1>1, OnlyIs
<1> HIDE DEF more
<1>3. copy[c] \o more \in Seq(Ids)
  BY <1>1, <1>2, ConcatProperties
<1> QED
  BY <1>3, NewestFits, CapsAssumption DEF Merge, Logs, more

LEMMA RemoteTypedKept == RemoteTyped /\ [RemoteNext]_remoteVars => RemoteTyped'
<1> SUFFICES ASSUME RemoteTyped, [RemoteNext]_remoteVars PROVE RemoteTyped'
  OBVIOUS
<1> USE CapsAssumption
<1>0. /\ log \in Seq(Ids) /\ <<>> \in Seq(Ids) /\ Len(<<>>) = 0 /\ <<>> \in Logs
      /\ \A c \in Dashboards : copy[c] \in Seq(Ids)
  BY DEF RemoteTyped, Logs
<1>1. ASSUME NEW n \in 0..2, RefreshLog(n) PROVE RemoteTyped'
  <2>1. log' \in Logs
    BY <1>0, <1>1, MoreEvents DEF RefreshLog, RemoteTyped
  <2>2. published' \in Seq(Ids) /\ Len(published') <= ShownCap
    BY <1>1, <2>1, NewestFits DEF RefreshLog, Logs
  <2> QED
    BY <1>1, <2>1, <2>2 DEF RefreshLog, RemoteTyped
<1>2. CASE SaveLog
  <2>1. logFile' \in Seq(Ids) /\ Len(logFile') <= SavedCap
    BY <1>0, <1>2, NewestFits DEF SaveLog
  <2> QED
    BY <1>2, <2>1 DEF SaveLog, RemoteTyped
<1>3. CASE RestartDaemon
  <2> DEFINE end == Newest(logFile, ReloadedCap)
  <2>0. end \in Seq(Ids) /\ Len(end) <= ReloadedCap
    BY NewestFits DEF RemoteTyped
  <2> HIDE DEF end
  <2>1. log' \in Logs
    <3>1. log' = Only(end, (aged' + 1)..LastEvent)
      BY <1>3 DEF RestartDaemon, Reloaded, Within, end
    <3>2. log' \in Seq(Ids) /\ Len(log') \in 0..Len(end)
      BY <2>0, <3>1, OnlyIs
    <3>3. Len(log') <= LogCap
      BY <2>0, <3>2, LenProperties
    <3> QED
      BY <3>2, <3>3 DEF Logs
  <2>2. NoCall \in FrameCall
    BY <1>0 DEF NoCall, FrameCall
  <2>3. call' \in [Dashboards -> FrameCall]
    BY <1>3, <2>2 DEF RestartDaemon
  <2> QED
    BY <1>0, <1>3, <2>1, <2>3 DEF RestartDaemon, RemoteTyped
<1>4. ASSUME NEW c \in Dashboards, NEW answered \in BOOLEAN, NoteCall(c, answered) PROVE RemoteTyped'
  <2>1. recorded' = recorded + 1 /\ recorded < LastEvent /\ log' = Newest(Append(log, recorded + 1), LogCap)
    BY <1>4 DEF NoteCall
  <2>2. log' \in Logs /\ Newest(Append(copy[c], recorded + 1), LogCap) \in Logs
    BY <1>0, <2>1, OneMoreEvent DEF RemoteTyped
  <2>3. copy' = [copy EXCEPT ![c] = Newest(Append(copy[c], recorded + 1), LogCap)] \/ copy' = copy
    BY <1>4, <2>1 DEF NoteCall
  <2>4. copy' \in [Dashboards -> Logs]
    BY <2>2, <2>3 DEF RemoteTyped
  <2> QED
    BY <1>4, <2>1, <2>2, <2>4 DEF NoteCall, RemoteTyped
<1>5. ASSUME NEW c \in Dashboards, NEW answered \in BOOLEAN, ClearCall(c, answered) PROVE RemoteTyped'
  <2>1. copy' \in [Dashboards -> Logs]
    BY <1>0, <1>5 DEF ClearCall, RemoteTyped
  <2> QED
    BY <1>0, <1>5, <2>1 DEF ClearCall, RemoteTyped
<1>6. ASSUME NEW c \in Dashboards, AskFrame(c) PROVE RemoteTyped'
  <2>1. [NoCall EXCEPT !.step = "asked", !.all = ~loaded[c]] \in FrameCall
    BY <1>0 DEF NoCall, FrameCall, RemoteTyped
  <2> QED
    BY <1>6, <2>1 DEF AskFrame, RemoteTyped, daemonLog
<1>7. ASSUME NEW c \in Dashboards, AnswerFrame(c) PROVE RemoteTyped'
  <2>1. FrameOf(call[c].all) \in FrameCall
    BY <1>0 DEF FrameOf, FrameCall, RemoteTyped
  <2> QED
    BY <1>7, <2>1 DEF AnswerFrame, RemoteTyped, daemonLog
<1>8. ASSUME NEW c \in Dashboards, ApplyFrame(c) PROVE RemoteTyped'
  <2>1. NoCall \in FrameCall
    BY <1>0 DEF NoCall, FrameCall
  <2>2. call[c].events \in Logs
    BY DEF RemoteTyped, FrameCall
  <2>3. copy' \in [Dashboards -> Logs]
    BY <1>8, <2>2, MergeFits DEF ApplyFrame, RemoteTyped
  <2>4. loaded' \in [Dashboards -> BOOLEAN]
    BY <1>8, Zenon DEF ApplyFrame, RemoteTyped
  <2> QED
    BY <1>8, <2>1, <2>3, <2>4 DEF ApplyFrame, RemoteTyped, daemonLog
<1>9. ASSUME NEW c \in Dashboards, LoseCall(c) PROVE RemoteTyped'
  <2>1. NoCall \in FrameCall
    BY <1>0 DEF NoCall, FrameCall
  <2> QED
    BY <1>9, <2>1 DEF LoseCall, RemoteTyped, daemonLog
<1>10. CASE UNCHANGED remoteVars
  BY <1>10 DEF remoteVars, daemonLog, RemoteTyped
<1> QED
  BY <1>1, <1>2, <1>3, <1>4, <1>5, <1>6, <1>7, <1>8, <1>9, <1>10 DEF RemoteNext

\* The daemon's log, its file, its frame and every copy stay within their caps and hold
\* events there have been (history_store.py, remote.py).
THEOREM RemoteTypeCorrect == RemoteSpec => []RemoteTypeOK
  BY RemoteTypedStarts, RemoteTypedKept, TypedIsTypeOK, PTL DEF RemoteSpec

-----------------------------------------------------------------------------
(* What the Kubernetes screen waits for. *)

\* The scopes a call may list, and what a fetch knows.
Scopes == Namespaces \cup {"all", "default"}
Spaces == Namespaces \cup {"none", "default"}
Fetches == [at : {"idle", "begin", "get", "clear", "wait", "ended", "off"}, ns : Spaces,
            scopes : Seq(Scopes)]

OfDefault(f) == f.ns \in {"none", "default"} /\ \A i \in DOMAIN f.scopes : f.scopes[i] = "default"

KubeTyped ==
  /\ wanted \in Namespaces \cup {"unset", "all"} /\ picks \in 0..LastPick
  /\ thread \in [Threads -> Fetches] /\ {wake, stopping} \subseteq BOOLEAN
  /\ snap \in [ok : BOOLEAN, ns : Spaces, scopes : Seq(Scopes)]
  /\ snap.ok => Len(snap.scopes) = 2

\* Until somebody picks, every fetch lists the default namespace.
KubeInv ==
  /\ KubeTyped
  /\ picks = 0 => /\ wanted = "unset" /\ OfDefault(snap)
                  /\ \A t \in Threads : OfDefault(thread[t])

LEMMA KubeInvTypes == KubeInv => KubeTypeOK
<1> SUFFICES ASSUME KubeInv PROVE KubeTypeOK
  OBVIOUS
<1>1. \A t \in Threads : thread[t].at \in {"idle", "begin", "get", "clear", "wait", "ended", "off"}
  BY DEF KubeInv, KubeTyped, Fetches
<1>2. picks = 0 => ~TunnelMissing("default")
  <2> SUFFICES ASSUME picks = 0, snap.ok, NEW i \in 1..2, snap.scopes[i] # "default" PROVE FALSE
    BY DEF TunnelMissing, JudgesTunnelIn
  <2>1. DOMAIN snap.scopes = 1..2
    BY DEF KubeInv, KubeTyped
  <2> QED
    BY <2>1 DEF KubeInv, OfDefault
<1> QED
  BY <1>1, <1>2 DEF KubeInv, KubeTyped, KubeTypeOK, OfDefault

LEMMA KubeStarts == KubeInit => KubeInv
<1> SUFFICES ASSUME KubeInit PROVE KubeInv
  OBVIOUS
<1>1. <<>> \in Seq(Scopes) /\ DOMAIN <<>> = {}
  OBVIOUS
<1>0. PICK at \in {"begin", "off"} :
        thread = [t \in Threads |-> IF t = "loop" THEN [NoFetch EXCEPT !.at = at] ELSE NoFetch]
  BY DEF KubeInit
<1> DEFINE begins == [NoFetch EXCEPT !.at = at]
<1>2. /\ NoFetch \in Fetches /\ OfDefault(NoFetch) /\ begins \in Fetches /\ OfDefault(begins)
      /\ NoState \in [ok : BOOLEAN, ns : Spaces, scopes : Seq(Scopes)]
      /\ OfDefault(NoState) /\ ~NoState.ok
  BY <1>1 DEF NoFetch, NoState, Fetches, Spaces, OfDefault
<1>3. thread = [t \in Threads |-> IF t = "loop" THEN begins ELSE NoFetch]
  BY <1>0
<1> HIDE DEF begins
<1>4. thread \in [Threads -> Fetches] /\ \A t \in Threads : OfDefault(thread[t])
  BY <1>2, <1>3
<1>5. snap = NoState /\ wanted = "unset" /\ picks = 0 /\ wake = FALSE /\ stopping = FALSE
  BY DEF KubeInit
<1>6. picks \in 0..LastPick
  BY <1>5, KubeAssumption
<1>7. {wake, stopping} \subseteq BOOLEAN
  BY <1>5
<1> QED
  BY <1>2, <1>4, <1>5, <1>6, <1>7 DEF KubeInv, KubeTyped

\* A fetch that is over leaves the screen's thread idle, the loop about to wait.
LEMMA OverIsFetch == \A t : FetchOver(t) \in Fetches /\ OfDefault(FetchOver(t))
<1>1. <<>> \in Seq(Scopes) /\ DOMAIN <<>> = {}
  OBVIOUS
<1> QED
  BY <1>1 DEF FetchOver, NoFetch, Fetches, Spaces, OfDefault

LEMMA StoreKeeps ==
  ASSUME KubeInv, NEW t \in Threads, NEW state \in [ok : BOOLEAN, ns : Spaces, scopes : Seq(Scopes)],
         StoreState(t, state), state.ok => Len(state.scopes) = 2, picks = 0 => OfDefault(state),
         UNCHANGED <<wanted, picks, wake, stopping>>
  PROVE  KubeInv'
<1>1. snap' = state /\ thread' = [thread EXCEPT ![t] = FetchOver(t)]
  BY DEF StoreState
<1>2. thread' \in [Threads -> Fetches]
      /\ \A u \in Threads : thread'[u] = IF u = t THEN FetchOver(t) ELSE thread[u]
  BY <1>1, OverIsFetch DEF KubeInv, KubeTyped
<1> QED
  BY <1>1, <1>2, OverIsFetch DEF KubeInv, KubeTyped, OfDefault

LEMMA BeginFetchKeeps ==
  ASSUME KubeInv, NEW t \in Threads, BeginFetch(t)
  PROVE  KubeInv'
<1>1. <<>> \in Seq(Scopes) /\ DOMAIN <<>> = {}
  OBVIOUS
<1>2. CASE StoreState(t, NoState)
  <2>1. NoState \in [ok : BOOLEAN, ns : Spaces, scopes : Seq(Scopes)] /\ ~NoState.ok
        /\ OfDefault(NoState)
    BY <1>1 DEF NoState, Spaces, OfDefault
  <2>2. UNCHANGED <<wanted, picks, wake, stopping>>
    BY DEF BeginFetch
  <2> QED
    BY <1>2, <2>1, <2>2, StoreKeeps
<1>3. CASE ~StoreState(t, NoState)
  <2>1. PICK ns \in CurrentNamespace :
          thread' = [thread EXCEPT ![t] = [at |-> "get", ns |-> ns, scopes |-> <<>>]]
    BY <1>3 DEF BeginFetch
  <2> DEFINE f == [at |-> "get", ns |-> ns, scopes |-> <<>>]
  <2>2. ns \in Spaces /\ (wanted = "unset" => ns \in {"none", "default"})
    BY KubeAssumption DEF CurrentNamespace, Spaces, KubeInv, KubeTyped
  <2>3. f \in Fetches /\ (wanted = "unset" => OfDefault(f))
    BY <1>1, <2>2 DEF Fetches, OfDefault
  <2> HIDE DEF f
  <2>4. thread' \in [Threads -> Fetches]
        /\ \A u \in Threads : thread'[u] = IF u = t THEN f ELSE thread[u]
    BY <2>1, <2>3 DEF KubeInv, KubeTyped, f
  <2> QED
    BY <1>3, <2>3, <2>4 DEF BeginFetch, KubeInv, KubeTyped, OfDefault
<1> QED
  BY <1>2, <1>3

LEMMA GetKindKeeps ==
  ASSUME KubeInv, NEW t \in Threads, GetKind(t)
  PROVE  KubeInv'
<1> DEFINE f == thread[t]
           scopes == Append(f.scopes, ScopeOf(f.ns))
           g == [f EXCEPT !.scopes = scopes]
<1>1. f \in Fetches /\ (picks = 0 => OfDefault(f) /\ wanted = "unset")
  BY DEF KubeInv, KubeTyped
<1>2. ScopeOf(f.ns) \in Scopes /\ (picks = 0 => ScopeOf(f.ns) = "default")
  BY <1>1, KubeAssumption DEF ScopeOf, Scopes, Spaces, Fetches, OfDefault
<1>3. scopes \in Seq(Scopes) /\ Len(scopes) = Len(f.scopes) + 1
  BY <1>1, <1>2 DEF Fetches
<1>4. picks = 0 => \A i \in DOMAIN scopes : scopes[i] = "default"
  BY <1>1, <1>2 DEF OfDefault, Fetches
<1>5. g \in Fetches /\ (picks = 0 => OfDefault(g))
  BY <1>1, <1>3, <1>4 DEF Fetches, OfDefault
<1> HIDE DEF scopes
<1>6. UNCHANGED <<wanted, picks, wake, stopping>>
  BY DEF GetKind
<1>7. CASE StoreState(t, [ok |-> FALSE, ns |-> f.ns, scopes |-> f.scopes])
  BY <1>1, <1>6, <1>7, StoreKeeps DEF Fetches, OfDefault
<1>8. CASE Len(scopes) = 2 /\ StoreState(t, [ok |-> TRUE, ns |-> f.ns, scopes |-> scopes])
  BY <1>1, <1>3, <1>4, <1>6, <1>8, StoreKeeps DEF Fetches, OfDefault
<1>9. CASE thread' = [thread EXCEPT ![t].scopes = scopes] /\ UNCHANGED snap
  <2>1. thread' \in [Threads -> Fetches]
        /\ \A u \in Threads : thread'[u] = IF u = t THEN g ELSE thread[u]
    BY <1>5, <1>9 DEF KubeInv, KubeTyped
  <2> QED
    BY <1>5, <1>6, <1>9, <2>1 DEF KubeInv, KubeTyped, OfDefault
<1> QED
  BY <1>7, <1>8, <1>9 DEF GetKind, scopes

\* A thread's step only changes where its fetch is.
LEMMA MoveKeeps ==
  ASSUME KubeInv, NEW t \in Threads, NEW at \in {"begin", "wait", "ended"},
         thread' = [thread EXCEPT ![t].at = at], UNCHANGED snap,
         wake' \in BOOLEAN, stopping' = stopping,
         picks' \in 0..LastPick, wanted' \in Namespaces \cup {"unset", "all"},
         picks' = 0 => picks = 0 /\ wanted' = wanted
  PROVE  KubeInv'
<1> DEFINE g == [thread[t] EXCEPT !.at = at]
<1>1. thread[t] \in Fetches
  BY DEF KubeInv, KubeTyped
<1>2. g \in Fetches /\ (OfDefault(thread[t]) => OfDefault(g))
  BY <1>1 DEF Fetches, OfDefault
<1>3. thread' \in [Threads -> Fetches]
      /\ \A u \in Threads : thread'[u] = IF u = t THEN g ELSE thread[u]
  BY <1>2 DEF KubeInv, KubeTyped
<1> QED
  BY <1>2, <1>3 DEF KubeInv, KubeTyped, OfDefault

LEMMA KubeStepKeeps == KubeInv /\ [KubeNext]_kubeVars => KubeInv'
<1> SUFFICES ASSUME KubeInv, [KubeNext]_kubeVars PROVE KubeInv'
  OBVIOUS
<1>1. "loop" \in Threads /\ Workers \subseteq Threads /\ wake \in BOOLEAN /\ picks \in 0..LastPick
      /\ wanted \in Namespaces \cup {"unset", "all"} /\ LastPick \in Nat
  BY KubeAssumption DEF Threads, KubeInv, KubeTyped
<1>2. CASE ClearWake
  BY <1>1, <1>2, MoveKeeps DEF ClearWake
<1>3. CASE LoopAgain
  <2>1. thread' = [thread EXCEPT !["loop"].at = "ended"] \/ thread' = [thread EXCEPT !["loop"].at = "begin"]
    BY <1>3 DEF LoopAgain
  <2> QED
    BY <1>1, <1>3, <2>1, MoveKeeps DEF LoopAgain
<1>8. CASE StartWatching
  <2>1. thread' = [thread EXCEPT !["loop"].at = "ended"] \/ thread' = [thread EXCEPT !["loop"].at = "begin"]
    BY <1>8 DEF StartWatching
  <2> QED
    BY <1>1, <1>8, <2>1, MoveKeeps DEF StartWatching
<1>4. CASE StopWatching
  BY <1>4 DEF StopWatching, KubeInv, KubeTyped, OfDefault
<1>5. ASSUME NEW t \in Workers, ActionReload(t) \/ RunKubeAction(t) PROVE KubeInv'
  BY <1>1, <1>5, MoveKeeps DEF ActionReload, RunKubeAction, ReloadInBackground
<1>6. ASSUME NEW t \in Workers, NEW choice \in Namespaces \cup {"all"}, ActionNamespace(t, choice)
      PROVE  KubeInv'
  <2>1. picks' \in 0..LastPick /\ picks' # 0
    BY <1>1, <1>6 DEF ActionNamespace
  <2> QED
    BY <1>1, <1>6, <2>1, MoveKeeps DEF ActionNamespace, ReloadInBackground
<1>7. CASE UNCHANGED kubeVars
  BY <1>7 DEF kubeVars, KubeInv, KubeTyped, OfDefault
<1> QED
  BY <1>2, <1>3, <1>4, <1>5, <1>6, <1>7, <1>8, BeginFetchKeeps, GetKindKeeps DEF KubeNext

\* Every fetch keeps its type, and as long as nobody picked a namespace no forward to the
\* default one is warned about, whatever kubectl fails at (collectors/kube.py, _loop and
\* fetch; engine/enrichment.py, _check_tunnels).
THEOREM KubeTypeCorrect == KubeInit /\ [][KubeNext]_kubeVars => []KubeTypeOK
  BY KubeStarts, KubeStepKeeps, KubeInvTypes, PTL

-----------------------------------------------------------------------------
(* The daemon as a login service. *)

ServiceFlags == homebrew \in BOOLEAN /\ session \in BOOLEAN /\ file \in BOOLEAN
                /\ enabled \in BOOLEAN /\ startDue \in BOOLEAN /\ stopped \in BOOLEAN
ServiceRest ==
  /\ manager \in Managers
  /\ unit \in {"unknown", "loaded", "failed"} /\ failures \in 0 .. StartLimit
  /\ daemon \in {"none", "service", "foreground"}

LEMMA ServiceParts == ServiceTypeOK <=> ServiceFlags /\ ServiceRest
  BY Zenon DEF ServiceTypeOK, ServiceFlags, ServiceRest

LEMMA ServiceStarts == ServiceInit => ServiceTypeOK
<1> SUFFICES ASSUME ServiceInit PROVE ServiceTypeOK
  OBVIOUS
<1>1. ServiceFlags
  BY Zenon DEF ServiceInit, ServiceFlags
<1>2. ServiceRest
  BY ServiceAssumption DEF ServiceInit, ServiceRest
<1> QED
  BY <1>1, <1>2, ServiceParts

LEMMA ServiceFlagsKept == ServiceFlags /\ [ServiceNext]_serviceVars => ServiceFlags'
<1> SUFFICES ASSUME ServiceFlags, [ServiceNext]_serviceVars PROVE ServiceFlags'
  OBVIOUS
<1> USE DEF ServiceFlags
<1>1. ASSUME NEW ok \in BOOLEAN, Install(ok) PROVE ServiceFlags'
  BY <1>1, Zenon DEF Install
<1>2. ASSUME NEW heeded \in BOOLEAN, NEW ok \in BOOLEAN, Uninstall(heeded, ok) PROVE ServiceFlags'
  BY <1>2, Zenon DEF Uninstall
<1>3. CASE StartCommand
  BY <1>3, Zenon DEF StartCommand
<1>4. CASE StopCommand
  BY <1>4, Zenon DEF StopCommand
<1>5. CASE Foreground \/ EndForeground
  BY <1>5, Zenon DEF Foreground, EndForeground
<1>6. CASE ManagerStarts
  BY <1>6, Zenon DEF ManagerStarts
<1>7. CASE Dies
  BY <1>7, Zenon DEF Dies
<1>8. CASE Login
  BY <1>8, Zenon DEF Login
<1>9. CASE Logout
  BY <1>9, Zenon DEF Logout
<1>10. CASE UNCHANGED serviceVars
  BY <1>10, Zenon DEF serviceVars
<1> QED
  BY <1>1, <1>2, <1>3, <1>4, <1>5, <1>6, <1>7, <1>8, <1>9, <1>10, Zenon DEF ServiceNext

LEMMA ServiceRestKept == ServiceRest /\ [ServiceNext]_serviceVars => ServiceRest'
<1> SUFFICES ASSUME ServiceRest, [ServiceNext]_serviceVars PROVE ServiceRest'
  OBVIOUS
<1> USE ServiceAssumption DEF ServiceRest
<1>1. ASSUME NEW ok \in BOOLEAN, Install(ok) PROVE ServiceRest'
  <2>1. /\ failures' = 0 \/ failures' = failures
        /\ unit' = "loaded" \/ unit' = unit
        /\ manager' = manager /\ daemon' = daemon
    BY <1>1, Zenon DEF Install
  <2> QED
    BY <2>1
<1>2. ASSUME NEW heeded \in BOOLEAN, NEW ok \in BOOLEAN, Uninstall(heeded, ok) PROVE ServiceRest'
  <2>1. /\ failures' = 0 \/ failures' = failures
        /\ unit' = "unknown" \/ unit' = unit
        /\ daemon' = "none" \/ daemon' = daemon
        /\ manager' = manager
    BY <1>2, Zenon DEF Uninstall
  <2> QED
    BY <2>1
<1>3. CASE StartCommand
  BY <1>3 DEF StartCommand
<1>4. CASE StopCommand
  BY <1>4, Zenon DEF StopCommand
<1>5. CASE Foreground \/ EndForeground
  BY <1>5 DEF Foreground, EndForeground
<1>6. CASE ManagerStarts
  <2>1. failures' = 0 \/ failures' = IF failures < StartLimit THEN failures + 1 ELSE failures
    BY <1>6, Zenon DEF ManagerStarts
  <2>2. failures' \in 0 .. StartLimit
    BY <2>1
  <2>3. daemon' \in {"service", daemon} /\ unit' \in {unit, "failed"} /\ manager' = manager
    BY <1>6, Zenon DEF ManagerStarts
  <2>4. /\ manager' \in Managers /\ unit' \in {"unknown", "loaded", "failed"}
        /\ daemon' \in {"none", "service", "foreground"}
    BY <2>3, Zenon
  <2> QED
    BY <2>2, <2>4, Zenon
<1>7. CASE Dies \/ Logout
  BY <1>7, Zenon DEF Dies, Logout
<1>8. CASE Login
  <2>1. failures' = 0 /\ manager' = manager /\ daemon' = daemon /\ unit' \in {"loaded", "unknown"}
    BY <1>8, Zenon DEF Login
  <2> QED
    BY <2>1
<1>10. CASE UNCHANGED serviceVars
  BY <1>10 DEF serviceVars
<1> QED
  BY <1>1, <1>2, <1>3, <1>4, <1>5, <1>6, <1>7, <1>8, <1>10 DEF ServiceNext

\* The service, its file and its manager keep their types (daemon_install.py).
THEOREM ServiceTypeCorrect == ServiceSpec => []ServiceTypeOK
<1>1. ServiceTypeOK /\ [ServiceNext]_serviceVars => ServiceTypeOK'
  <2>1. ServiceTypeOK' <=> ServiceFlags' /\ ServiceRest'
    BY Zenon DEF ServiceTypeOK, ServiceFlags, ServiceRest
  <2> QED
    BY <2>1, ServiceParts, ServiceFlagsKept, ServiceRestKept
<1> QED
  BY <1>1, ServiceStarts, PTL DEF ServiceSpec

-----------------------------------------------------------------------------
(* The calls of an agent. *)

\* What a call may be: which tool, where it stands, whether it said that the port is free.
McpCall == [tool : {"none", "who", "list", "free_port", "fix", "restart"},
            at : {"idle", "called", "pulling", "shared", "fresh", "answered"}, free : BOOLEAN]
Cycle(n) == [on : BOOLEAN, saw : 0 .. n]
FrameAt(n, t) == [row : {"no frame", "none", "live", "stopped"}, of : 0 .. n, rows : BOOLEAN,
                  taken : 0 .. t]

\* The type invariant keeps itself: what moves it are the clock, who holds the port, the
\* frame, the refreshes and the calls, each with a lemma.
McpPlain ==
  /\ engineKind \in {"standalone", "daemon", "client"}
  /\ {allowed, pretend, mcpUp, ready} \subseteq BOOLEAN
McpHeld ==
  /\ clock \in 1 .. LastMcpTime
  /\ started \in 0 .. LastHolder /\ holder \in 0 .. started /\ lastHeld \in 0 .. clock
McpFrames == frame \in FrameAt(started, clock)
McpCycles == cycles \in [Actors -> Cycle(started)]
McpCalls == calls \in [Callers -> McpCall]

LEMMA McpParts ==
  McpTypeOK <=> McpPlain /\ McpHeld /\ McpFrames /\ McpCycles /\ McpCalls
  BY Zenon DEF McpTypeOK, McpPlain, McpHeld, McpFrames, McpCycles, McpCalls, McpCall, Cycle,
         FrameAt

LEMMA McpStarts == McpInit => McpTypeOK
<1> SUFFICES ASSUME McpInit PROVE McpTypeOK
  OBVIOUS
<1>1. McpPlain
  BY DEF McpInit, McpPlain, EngineOf
<1>2. McpHeld
  BY McpAssumption DEF McpInit, McpHeld
<1>3. McpFrames
  <2>1. clock = 1 /\ started = 0 /\ frame = [row |-> "no frame", of |-> 0, rows |-> FALSE, taken |-> 0]
    BY Zenon DEF McpInit, NoFrame
  <2>2. [row |-> "no frame", of |-> 0, rows |-> FALSE, taken |-> 0] \in FrameAt(0, 1)
    BY DEF FrameAt
  <2> QED
    BY <2>1, <2>2, Zenon DEF McpFrames
<1>4. McpCycles
  BY DEF McpInit, McpCycles, Cycle, NotRefreshing
<1>5. McpCalls
  BY DEF McpInit, McpCalls, McpCall, Idle
<1> QED
  BY <1>1, <1>2, <1>3, <1>4, <1>5, McpParts

LEMMA CallsKept ==
  ASSUME McpCalls, NEW c \in Callers, NEW asked \in McpCall, calls' = [calls EXCEPT ![c] = asked]
  PROVE  McpCalls'
  BY DEF McpCalls

LEMMA IdleWith ==
  /\ \A tool \in {"none", "who", "list", "free_port", "fix", "restart"}, free \in BOOLEAN :
       /\ [Idle EXCEPT !.tool = tool, !.at = "called"] \in McpCall
       /\ [Idle EXCEPT !.tool = tool, !.at = "answered", !.free = free] \in McpCall
  /\ [Idle EXCEPT !.at = "answered"] \in McpCall
  BY DEF Idle, McpCall

LEMMA CallMoved ==
  ASSUME McpCalls, NEW c \in Callers,
         NEW at \in {"idle", "called", "pulling", "shared", "fresh", "answered"},
         calls' = [calls EXCEPT ![c].at = at]
  PROVE  McpCalls'
  BY DEF McpCalls, McpCall

\* More processes and a later clock widen what the rest may hold.
LEMMA Wider ==
  ASSUME McpHeld, McpHeld', started <= started', clock <= clock', UNCHANGED <<frame, cycles>>,
         McpFrames, McpCycles
  PROVE  McpFrames' /\ McpCycles'
<1>1. 0..started \subseteq 0..started' /\ 0..clock \subseteq 0..clock'
  BY McpAssumption DEF McpHeld
<1>2. FrameAt(started, clock) \subseteq FrameAt(started', clock')
  BY <1>1 DEF FrameAt
<1>3. Cycle(started) \subseteq Cycle(started')
  BY <1>1 DEF Cycle
<1> QED
  BY <1>2, <1>3 DEF McpFrames, McpCycles

\* What a refresh ends with is the frame of the moment.
LEMMA FrameIsOne ==
  ASSUME McpHeld, NEW saw \in 0 .. started, NEW others \in BOOLEAN
  PROVE  McpFrame(saw, others) \in FrameAt(started, clock)
<1>1. RowOf(saw) \in {"none", "live", "stopped"}
  BY DEF RowOf
<1>2. clock \in 0 .. clock
  BY McpAssumption DEF McpHeld
<1> DEFINE rows == others \/ RowOf(saw) # "none"
<1>3. rows \in BOOLEAN
  BY Zenon
<1> HIDE DEF rows
<1>4. [row |-> RowOf(saw), of |-> saw, rows |-> rows, taken |-> clock] \in FrameAt(started, clock)
  BY <1>1, <1>2, <1>3 DEF FrameAt
<1> QED
  BY <1>4, Zenon DEF McpFrame, rows

LEMMA SeenIsPast == McpHeld => {0, lastHeld, clock} \subseteq 0 .. clock
  BY McpAssumption DEF McpHeld

\* The refreshes: one begins with who holds the port, one ends.
LEMMA CyclesMoved ==
  ASSUME McpCycles, McpHeld, NEW a \in Actors, UNCHANGED started,
         \/ cycles' = [cycles EXCEPT ![a] = [on |-> TRUE, saw |-> holder]]
         \/ cycles' = [cycles EXCEPT ![a] = NotRefreshing]
  PROVE  McpCycles'
<1>1. [on |-> TRUE, saw |-> holder] \in Cycle(started) /\ NotRefreshing \in Cycle(started)
  BY McpAssumption DEF McpHeld, Cycle, NotRefreshing
<1> QED
  BY <1>1 DEF McpCycles

LEMMA ReleasedIsCalls == ASSUME McpCalls, NEW a PROVE Released(a) \in [Callers -> McpCall]
<1>1. \A c \in Callers : [calls[c] EXCEPT !.at = "fresh"] \in McpCall /\ calls[c] \in McpCall
  BY DEF McpCalls, McpCall
<1> QED
  BY <1>1 DEF Released

\* The rest of the state, when only the calls move.
LEMMA OnlyCalls ==
  ASSUME McpTypeOK, McpCalls',
         UNCHANGED <<engineKind, allowed, pretend, mcpUp, clock, holder, started, lastHeld, frame,
                     ready, cycles>>
  PROVE  McpTypeOK'
  BY Zenon DEF McpTypeOK, McpCalls, McpCall

LEMMA RefreshKeeps ==
  ASSUME McpTypeOK, NEW a \in Actors, NEW well \in BOOLEAN, EndRefresh(a, well)
  PROVE  McpTypeOK'
<1>0. McpPlain /\ McpHeld /\ McpFrames /\ McpCycles /\ McpCalls
  BY McpParts
<1>1. UNCHANGED <<engineKind, allowed, pretend, mcpUp, clock, holder, started>>
  BY Zenon DEF EndRefresh
<1>2. ready' \in BOOLEAN
  BY <1>0, Zenon DEF EndRefresh, ReadyAfter, McpPlain
<1>3. McpPlain'
  BY <1>0, <1>1, <1>2, Zenon DEF McpPlain
<1>4. cycles[a].saw \in 0 .. started
  BY <1>0 DEF McpCycles, Cycle
<1>5. \/ /\ \E others \in BOOLEAN : frame' = McpFrame(cycles[a].saw, others)
         /\ lastHeld' \in {clock, lastHeld}
      \/ UNCHANGED <<frame, lastHeld>>
  BY Zenon DEF EndRefresh, TakeFrame
<1>6. lastHeld' \in 0 .. clock
  BY <1>0, <1>5, SeenIsPast, Zenon
<1>7. McpHeld'
  BY <1>0, <1>1, <1>6, Zenon DEF McpHeld
<1>8. McpFrames'
  BY <1>0, <1>1, <1>4, <1>5, FrameIsOne, Zenon DEF McpFrames
<1>9. McpCycles'
  BY <1>0, <1>1, CyclesMoved DEF EndRefresh
<1>10. McpCalls'
  BY <1>0, ReleasedIsCalls DEF EndRefresh, McpCalls
<1> QED
  BY <1>0, <1>1, <1>3, <1>7, <1>8, <1>9, <1>10, Zenon DEF McpTypeOK, McpPlain, McpHeld, McpFrames,
     McpCycles, McpCalls, McpCall, Cycle, FrameAt

LEMMA CallsStep ==
  ASSUME McpTypeOK, NEW c \in Callers,
         Pull(c) \/ Answer(c) \/ \E tool \in McpTools : Call(c, tool)
  PROVE  McpTypeOK'
<1>0. McpPlain /\ McpHeld /\ McpFrames /\ McpCycles /\ McpCalls
  BY McpParts
<1>1. ASSUME NEW tool \in McpTools, Call(c, tool) PROVE McpTypeOK'
  <2>1. tool \in {"none", "who", "list", "free_port", "fix", "restart"}
    BY DEF McpTools
  <2>2. calls' = [calls EXCEPT ![c] = [Idle EXCEPT !.tool = tool, !.at = "called"]]
    BY <1>1, Zenon DEF Call
  <2>3. McpCalls'
    BY <1>0, <2>1, <2>2, CallsKept, IdleWith, Zenon
  <2> QED
    BY <1>1, <2>3, OnlyCalls DEF Call
<1>2. CASE Pull(c)
  <2>1. /\ UNCHANGED <<engineKind, allowed, pretend, mcpUp, clock, holder, started, lastHeld, frame,
                       ready>>
        /\ \/ cycles' = [cycles EXCEPT ![c] = [on |-> TRUE, saw |-> holder]]
           \/ UNCHANGED cycles
        /\ calls' = [calls EXCEPT ![c].at = "pulling"] \/ calls' = [calls EXCEPT ![c].at = "shared"]
    BY <1>2, Zenon DEF Pull, BeginRefresh
  <2>2. McpCalls'
    BY <1>0, <2>1, CallMoved
  <2>3. c \in Actors
    BY DEF Actors
  <2>4. McpCycles'
    BY <1>0, <2>1, <2>3, CyclesMoved DEF McpCycles
  <2> QED
    BY <1>0, <2>1, <2>2, <2>4, Zenon DEF McpTypeOK, McpCalls, McpCall, McpCycles, Cycle
<1>3. CASE ListAnswer(c)
  <2>1. calls' = [calls EXCEPT ![c] = [Idle EXCEPT !.at = "answered"]]
    BY <1>3, Zenon DEF ListAnswer, Answered
  <2>2. McpCalls'
    BY <1>0, <2>1, CallsKept, IdleWith, Zenon
  <2> QED
    BY <1>3, <2>2, OnlyCalls DEF ListAnswer
<1>4. CASE WhoAnswer(c)
  <2> DEFINE free == frame.row \in {"no frame", "none"}
  <2>1. calls' = [calls EXCEPT ![c] = [Idle EXCEPT !.tool = "who", !.at = "answered", !.free = free]]
    BY <1>4, Zenon DEF WhoAnswer
  <2>2. free \in BOOLEAN
    OBVIOUS
  <2> HIDE DEF free
  <2>3. McpCalls'
    BY <1>0, <2>1, <2>2, CallsKept, IdleWith, Zenon
  <2> QED
    BY <1>4, <2>3, OnlyCalls DEF WhoAnswer
<1>5. CASE FreeAnswer(c)
  <2>1. calls' = [calls EXCEPT ![c] = [Idle EXCEPT !.at = "answered"]]
    BY <1>5, Zenon DEF FreeAnswer, Answered
  <2>2. McpCalls'
    BY <1>0, <2>1, CallsKept, IdleWith, Zenon
  <2>3. holder' \in {0, holder}
    BY <1>5, Zenon DEF FreeAnswer, StopHolder
  <2>4. UNCHANGED <<engineKind, allowed, pretend, mcpUp, clock, started, lastHeld, frame, ready,
                    cycles>>
    BY <1>5, Zenon DEF FreeAnswer
  <2>5. holder' \in 0 .. started
    BY <1>0, <2>3, McpAssumption DEF McpHeld
  <2> QED
    BY <2>2, <2>4, <2>5, Zenon DEF McpTypeOK, McpCalls, McpCall
<1>6. CASE RestartAnswer(c)
  <2>1. calls' = [calls EXCEPT ![c] = [Idle EXCEPT !.at = "answered"]]
    BY <1>6, Zenon DEF RestartAnswer, Answered
  <2>2. McpCalls'
    BY <1>0, <2>1, CallsKept, IdleWith, Zenon
  <2>3. /\ \/ UNCHANGED <<holder, started>>
           \/ started < LastHolder /\ started' = started + 1 /\ holder' = started'
        /\ UNCHANGED <<engineKind, allowed, pretend, mcpUp, clock, lastHeld, frame, ready, cycles>>
    BY <1>6, Zenon DEF RestartAnswer
  <2>4. McpHeld' /\ started <= started' /\ clock <= clock'
    BY <1>0, <2>3, McpAssumption DEF McpHeld
  <2>5. McpFrames' /\ McpCycles'
    BY <1>0, <2>3, <2>4, Wider
  <2> QED
    BY <2>2, <2>3, <2>4, <2>5, Zenon DEF McpTypeOK, McpHeld, McpFrames, McpCycles, McpCalls, McpCall,
       Cycle, FrameAt
<1> QED
  BY <1>1, <1>2, <1>3, <1>4, <1>5, <1>6 DEF Answer

\* The commands, and the machine.
LEMMA CommandStep ==
  ASSUME McpTypeOK, WhoCommand \/ \E confirmed \in BOOLEAN : FreeCommand(confirmed)
  PROVE  McpTypeOK'
<1>0. McpPlain /\ McpHeld /\ McpFrames /\ McpCycles /\ McpCalls
  BY McpParts
<1>1. /\ UNCHANGED <<engineKind, allowed, pretend, mcpUp, clock, started, frame, ready, cycles, calls>>
      /\ lastHeld' \in {clock, lastHeld} /\ holder' \in {0, holder}
  BY Zenon DEF WhoCommand, FreeCommand, Saw, StopHolder
<1>3. lastHeld' \in 0 .. clock
  BY <1>0, <1>1, SeenIsPast, Zenon
<1>4. holder' \in 0 .. started
  BY <1>0, <1>1, McpAssumption DEF McpHeld
<1> QED
  BY <1>1, <1>3, <1>4, Zenon DEF McpTypeOK

LEMMA MachineStep ==
  ASSUME McpTypeOK, Listen \/ Leave \/ McpTick
  PROVE  McpTypeOK'
<1>0. McpPlain /\ McpHeld /\ McpFrames /\ McpCycles /\ McpCalls
  BY McpParts
<1>1. /\ UNCHANGED <<engineKind, allowed, pretend, mcpUp, lastHeld, frame, ready, cycles, calls>>
      /\ \/ started < LastHolder /\ started' = started + 1 /\ holder' = started' /\ clock' = clock
         \/ holder' = 0 /\ UNCHANGED <<started, clock>>
         \/ clock < LastMcpTime /\ clock' = clock + 1 /\ UNCHANGED <<holder, started>>
  BY Zenon DEF Listen, Leave, McpTick
<1>2. McpHeld' /\ started <= started' /\ clock <= clock'
  BY <1>0, <1>1, McpAssumption DEF McpHeld
<1>3. McpFrames' /\ McpCycles'
  BY <1>0, <1>1, <1>2, Wider
<1> QED
  BY <1>1, <1>2, <1>3, Zenon DEF McpTypeOK, McpHeld, McpFrames, McpCycles, Cycle, FrameAt

LEMMA McpStepKeeps == McpTypeOK /\ [McpNext]_mcpVars => McpTypeOK'
<1> SUFFICES ASSUME McpTypeOK, [McpNext]_mcpVars PROVE McpTypeOK'
  OBVIOUS
<1>0. McpPlain /\ McpHeld /\ McpFrames /\ McpCycles /\ McpCalls
  BY McpParts
<1>1. CASE Start
  BY <1>1, Zenon DEF Start, McpTypeOK
<1>2. CASE Stop
  <2>1. /\ UNCHANGED <<engineKind, allowed, pretend, clock, holder, started, lastHeld>>
        /\ mcpUp' = FALSE /\ ready' = FALSE /\ frame' = NoFrame
        /\ calls' = [c \in Callers |-> Idle] /\ cycles' = [a \in Actors |-> NotRefreshing]
    BY <1>2, Zenon DEF Stop
  <2>2. NoFrame \in FrameAt(started, clock)
    BY <1>0, McpAssumption DEF McpHeld, NoFrame, FrameAt
  <2>3. McpCycles'
    BY <1>0, <2>1, McpAssumption DEF McpHeld, McpCycles, NotRefreshing, Cycle
  <2>4. McpCalls'
    BY <2>1 DEF McpCalls, Idle, McpCall
  <2> QED
    BY <2>1, <2>2, <2>3, <2>4, Zenon DEF McpTypeOK, FrameAt, McpCycles, Cycle, McpCalls, McpCall
<1>3. CASE LoopRefresh
  <2>1. /\ UNCHANGED <<engineKind, allowed, pretend, mcpUp, clock, holder, started, lastHeld, frame,
                       ready, calls>>
        /\ cycles' = [cycles EXCEPT !["loop"] = [on |-> TRUE, saw |-> holder]]
    BY <1>3, Zenon DEF LoopRefresh, BeginRefresh
  <2>2. McpCycles'
    BY <1>0, <2>1, CyclesMoved DEF Actors
  <2> QED
    BY <2>1, <2>2, Zenon DEF McpTypeOK, McpCycles, Cycle
<1>4. ASSUME NEW a \in Actors, EndOf(a) PROVE McpTypeOK'
  BY <1>4, RefreshKeeps, Zenon DEF EndOf
<1>5. CASE UNCHANGED mcpVars
  BY <1>5, Zenon DEF mcpVars, McpTypeOK
<1> QED
  BY <1>1, <1>2, <1>3, <1>4, <1>5, CallsStep, CommandStep, MachineStep, Zenon DEF McpNext

\* Whatever the refreshes, the calls and the commands do, the frame is of a process there
\* was and no later than the clock, and a call is in one place (mcp_server.py).
THEOREM McpTypeCorrect == McpSpec => []McpTypeOK
  BY McpStarts, McpStepKeeps, PTL DEF McpSpec

-----------------------------------------------------------------------------
(* All of them, as the run checks them. *)

\* A step of the instance is a step of each component, or leaves it alone.
LEMMA WaitsStepIs ==
  [WaitsNext]_waitsVars =>
    /\ [RemoteNext]_remoteVars /\ [KubeNext]_kubeVars
    /\ [ServiceNext]_serviceVars /\ [McpNext]_mcpVars
<1> SUFFICES ASSUME [WaitsNext]_waitsVars
             PROVE  /\ [RemoteNext]_remoteVars /\ [KubeNext]_kubeVars
                    /\ [ServiceNext]_serviceVars /\ [McpNext]_mcpVars
  OBVIOUS
<1>1. CASE RemoteNext /\ Resting("mirror")
  BY <1>1, Zenon DEF Resting
<1>2. CASE KubeNext /\ Resting("kube")
  BY <1>2, Zenon DEF Resting
<1>3. CASE ServiceNext /\ Resting("manager")
  BY <1>3, Zenon DEF Resting
<1>4. CASE McpNext /\ Resting("mcp")
  BY <1>4, Zenon DEF Resting
<1>5. CASE UNCHANGED waitsVars
  BY <1>5, Zenon DEF waitsVars
<1> QED
  BY <1>1, <1>2, <1>3, <1>4, <1>5, Zenon DEF WaitsNext

\* What the run checks holds for every value of the constants: types, the daemon's log,
\* the warnings about forwards.
THEOREM WaitsSafe == WaitsSpec => []WaitsInvariant
<1>1. WaitsSpec => /\ RemoteSpec /\ KubeInit /\ [][KubeNext]_kubeVars
                   /\ ServiceSpec /\ McpSpec
  <2>1. WaitsInit => RemoteInit /\ KubeInit /\ ServiceInit /\ McpInit
    BY Zenon DEF WaitsInit
  <2> QED
    BY <2>1, WaitsStepIs, PTL DEF WaitsSpec, RemoteSpec, ServiceSpec, McpSpec
<1>2. RemoteTypeOK /\ OldestLostFirst /\ KubeTypeOK /\ ServiceTypeOK /\ McpTypeOK
        => WaitsInvariant
  BY Zenon DEF WaitsInvariant
<1> QED
  BY <1>1, <1>2, RemoteTypeCorrect, LogLosesOldest, KubeTypeCorrect, ServiceTypeCorrect,
     McpTypeCorrect, PTL
================================================================================
