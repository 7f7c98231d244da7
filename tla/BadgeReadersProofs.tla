------------------------- MODULE BadgeReadersProofs -------------------------
(***************************************************************************)
(* Theorems about BadgeReaders: a shared page shows nothing that had ended *)
(* before it was asked for, the public page hides what its ranges hide,    *)
(* the limiter holds its window, and a badge never lowers a score.         *)
(***************************************************************************)
EXTENDS BadgeReaders, FiniteSetTheorems, WellFoundedInduction, TLAPS

-----------------------------------------------------------------------------
(* Least and greatest elements, and induction by the least counterexample. *)

LEMMA Least ==
    ASSUME NEW T \in SUBSET Nat, T # {}
    PROVE  \E n \in T : \A m \in T : n <= m
<1>1. PICK x \in T : \A y \in T : ~(<<y, x>> \in OpToRel(<, Nat))
  BY NatLessThanWellFounded, WFMin
<1>2. ASSUME NEW y \in T, y < x
      PROVE  <<y, x>> \in OpToRel(<, Nat)
  <2>1. <<y, x>> \in {ss \in Nat \X Nat : ss[1] < ss[2]}
    BY <1>2
  <2> QED
    BY <2>1, Zenon DEF OpToRel
<1>3. \A y \in T : ~(y < x)
  BY <1>1, <1>2, Zenon
<1> QED
  BY <1>3

LEMMA Greatest ==
    ASSUME NEW T \in SUBSET Nat, T # {}, NEW top \in Nat, \A n \in T : n <= top
    PROVE  \E n \in T : \A m \in T : n >= m
<1> DEFINE D == {top - n : n \in T}
<1>1. D \in SUBSET Nat /\ D # {}
  <2>1. \A n \in T : top - n \in Nat
    OBVIOUS
  <2> QED
    BY <2>1
<1>2. PICK d \in D : \A e \in D : d <= e
  BY <1>1, Least
<1>3. PICK n \in T : d = top - n
  OBVIOUS
<1>4. ASSUME NEW m \in T
      PROVE  n >= m
  <2>1. top - n <= top - m
    BY <1>2, <1>3
  <2> QED
    BY <2>1
<1> QED
  BY <1>4

LEMMA MinIs ==
    ASSUME NEW T \in SUBSET Nat, T # {}
    PROVE  Min(T) \in T /\ \A m \in T : Min(T) <= m
BY Least DEF Min

LEMMA MaxIs ==
    ASSUME NEW T \in SUBSET Nat, T # {}, NEW top \in Nat, \A n \in T : n <= top
    PROVE  Max(T) \in T /\ \A m \in T : Max(T) >= m
BY Greatest DEF Max

(* A property of the naturals that 0 has and that passes from n to n + 1,  *)
(* given as the set of the numbers up to top that have it.                 *)
LEMMA UpTo ==
    ASSUME NEW top \in Nat, NEW P \in SUBSET (0..top), 0 \in P,
           \A n \in P : n < top => n + 1 \in P
    PROVE  P = 0..top
<1> SUFFICES ASSUME P # 0..top
             PROVE  FALSE
  OBVIOUS
<1>1. (0..top) \ P \in SUBSET Nat /\ (0..top) \ P # {}
  <2>1. PICK e \in 0..top : e \notin P
    OBVIOUS
  <2>2. \A n \in 0..top : n \in Nat
    OBVIOUS
  <2> QED
    BY <2>1, <2>2, Zenon
<1>2. PICK n \in (0..top) \ P : \A m \in (0..top) \ P : n <= m
  BY <1>1, Least
<1>3. n # 0 /\ n - 1 \in 0..top
  BY <1>2
<1>4. n - 1 \in P
  BY <1>2, <1>3
<1> QED
  BY <1>3, <1>4

(* A recursive function on 0..top exists: its value at i is step at i and  *)
(* its value at i - 1.                                                     *)
Unfolds(g, top, v0, step) == g[0] = v0 /\ \A i \in 1..top : g[i] = step[<<i, g[i - 1]>>]

LEMMA Recursion ==
    ASSUME NEW top \in Nat, NEW V, NEW v0 \in V, NEW step \in [Nat \X V -> V]
    PROVE  \E g \in [0..top -> V] : Unfolds(g, top, v0, step)
<1> DEFINE Good(n, g) == g[0] = v0 /\ \A i \in 1..n : g[i] = step[<<i, g[i - 1]>>]
           P == {n \in 0..top : \E g \in [0..top -> V] : Good(n, g)}
<1>1. 0 \in P
  <2>1. [i \in 0..top |-> v0] \in [0..top -> V]
    OBVIOUS
  <2>2. Good(0, [i \in 0..top |-> v0])
    OBVIOUS
  <2>3. 0 \in 0..top
    OBVIOUS
  <2> HIDE DEF Good
  <2> QED
    BY <2>1, <2>2, <2>3
<1>2. ASSUME NEW n \in P, n < top
      PROVE  n + 1 \in P
  <2>1. PICK g \in [0..top -> V] : Good(n, g)
    OBVIOUS
  <2> DEFINE h == [g EXCEPT ![n + 1] = step[<<n + 1, g[n]>>]]
  <2>2. n \in Nat /\ n + 1 \in 0..top /\ <<n + 1, g[n]>> \in Nat \X V
    BY <1>2
  <2>3. step[<<n + 1, g[n]>>] \in V
    BY <2>2
  <2>4. h \in [0..top -> V]
    BY <2>2, <2>3
  <2>5. \A i \in 0..n : h[i] = g[i]
    BY <2>2
  <2>6. h[n + 1] = step[<<n + 1, h[n]>>]
    <3>1. h[n] = g[n]
      BY <2>2, <2>5
    <3>2. h[n + 1] = step[<<n + 1, g[n]>>]
      BY <2>2
    <3> QED
      BY <3>1, <3>2, Zenon
  <2>7. ASSUME NEW i \in 1..n
        PROVE  h[i] = step[<<i, h[i - 1]>>]
    <3>1. i \in 0..n /\ i - 1 \in 0..n
      BY <2>2
    <3> QED
      BY <3>1, <2>1, <2>5
  <2>8. \A i \in 1..(n + 1) : i \in 1..n \/ i = n + 1
    BY <2>2
  <2>9. h[0] = v0
    BY <2>1, <2>2, <2>5
  <2>10. Good(n + 1, h)
    <3>1. (n + 1) - 1 = n
      BY <2>2
    <3>2. ASSUME NEW i \in 1..(n + 1)
          PROVE  h[i] = step[<<i, h[i - 1]>>]
      <4> HIDE DEF h
      <4>1. CASE i = n + 1
        BY <4>1, <3>1, <2>6, Zenon
      <4>2. CASE i \in 1..n
        BY <4>2, <2>7
      <4> QED
        BY <4>1, <4>2, <2>8
    <3> HIDE DEF h
    <3> QED
      BY <3>2, <2>9
  <2> HIDE DEF Good, h
  <2> QED
    BY <2>2, <2>4, <2>10
<1>3. P = 0..top
  <2>1. P \in SUBSET (0..top)
    OBVIOUS
  <2>2. \A n \in P : n < top => n + 1 \in P
    BY <1>2
  <2> HIDE DEF P
  <2> QED
    BY <1>1, <2>1, <2>2, UpTo
<1> QED
  <2>1. top \in P
    <3> HIDE DEF P
    <3> QED
      BY <1>3
  <2>2. PICK g \in [0..top -> V] : Good(top, g)
    BY <2>1
  <2> QED
    BY <2>2 DEF Unfolds

-----------------------------------------------------------------------------
(* The limiter: what is live is the end of the list, and the list kept for *)
(* a client is the end of the times it was let through.                    *)

LEMMA LiveHitsRec ==
    ASSUME RateConstants, NEW list \in Seq(Nat), NEW now \in Nat
    PROVE  \E g \in [0..Len(list) -> Seq(Nat)] :
              /\ g[0] = <<>>
              /\ \A i \in 1..Len(list) :
                    g[i] = IF list[i] + Window > now THEN Append(g[i - 1], list[i]) ELSE g[i - 1]
              /\ LiveHits(list, now) = g[Len(list)]
<1> DEFINE step == [p \in Nat \X Seq(Nat) |->
                      IF p[1] \in 1..Len(list) /\ list[p[1]] + Window > now
                      THEN Append(p[2], list[p[1]]) ELSE p[2]]
           body(f) == [i \in 0..Len(list) |->
                         IF i = 0 THEN <<>>
                         ELSE IF list[i] + Window > now THEN Append(f[i - 1], list[i])
                         ELSE f[i - 1]]
           live == CHOOSE f : f = body(f)
<1>1. step \in [Nat \X Seq(Nat) -> Seq(Nat)]
  OBVIOUS
<1>2. Len(list) \in Nat /\ <<>> \in Seq(Nat)
  OBVIOUS
<1>3. PICK g \in [0..Len(list) -> Seq(Nat)] : Unfolds(g, Len(list), <<>>, step)
  <2> HIDE DEF step
  <2> QED
    BY <1>1, <1>2, Recursion
<1>4. \A i \in 1..Len(list) :
        g[i] = IF list[i] + Window > now THEN Append(g[i - 1], list[i]) ELSE g[i - 1]
  <2> SUFFICES ASSUME NEW i \in 1..Len(list)
               PROVE  g[i] = IF list[i] + Window > now THEN Append(g[i - 1], list[i]) ELSE g[i - 1]
    OBVIOUS
  <2>1. i \in Nat /\ i - 1 \in 0..Len(list)
    BY <1>2
  <2>2. step[<<i, g[i - 1]>>] =
          IF list[i] + Window > now THEN Append(g[i - 1], list[i]) ELSE g[i - 1]
    <3>1. g[i - 1] \in Seq(Nat)
      BY <1>3, <2>1, Zenon
    <3> QED
      BY <2>1, <3>1
  <2> QED
    BY <1>3, <2>2, Zenon DEF Unfolds
<1>5. g = body(g)
  <2>1. g = [i \in 0..Len(list) |-> g[i]]
    OBVIOUS
  <2>2. ASSUME NEW i \in 0..Len(list)
        PROVE  g[i] = IF i = 0 THEN <<>>
                      ELSE IF list[i] + Window > now THEN Append(g[i - 1], list[i])
                      ELSE g[i - 1]
    <3>1. i = 0 \/ i \in 1..Len(list)
      BY <1>2
    <3> QED
      BY <3>1, <1>3, <1>4 DEF Unfolds
  <2> QED
    BY <2>1, <2>2, Zenon
<1>6. live = body(live)
  <2> HIDE DEF body
  <2> QED
    BY <1>5
<1>7. LiveHits(list, now) = live[Len(list)]
  BY DEF LiveHits
<1>8. ASSUME NEW i \in 0..Len(list)
      PROVE  live[i] = IF i = 0 THEN <<>>
                       ELSE IF list[i] + Window > now THEN Append(live[i - 1], list[i])
                       ELSE live[i - 1]
  <2> HIDE DEF live
  <2> QED
    BY <1>6
<1>9. live \in [0..Len(list) -> Seq(Nat)]
  <2> HIDE DEF live
  <2> DEFINE P == {i \in 0..Len(list) : live[i] = g[i]}
  <2>1. 0 \in P
    BY <1>2, <1>3, <1>8 DEF Unfolds
  <2>2. ASSUME NEW i \in P, i < Len(list)
        PROVE  i + 1 \in P
    <3>1. i + 1 \in 0..Len(list) /\ i + 1 \in 1..Len(list) /\ i + 1 # 0 /\ (i + 1) - 1 = i
      BY <1>2, <2>2
    <3> QED
      BY <3>1, <1>4, <1>8
  <2>3. P = 0..Len(list)
    <3>1. P \in SUBSET (0..Len(list)) /\ \A i \in P : i < Len(list) => i + 1 \in P
      BY <2>2
    <3> HIDE DEF P
    <3> QED
      BY <1>2, <2>1, <3>1, UpTo
  <2>4. \A i \in 0..Len(list) : live[i] \in Seq(Nat)
    <3> SUFFICES ASSUME NEW i \in 0..Len(list)
                 PROVE  live[i] \in Seq(Nat)
      OBVIOUS
    <3>1. i \in P
      <4> HIDE DEF P
      <4> QED
        BY <2>3
    <3>2. live[i] = g[i]
      BY <3>1
    <3> QED
      BY <1>3, <3>2
  <2>5. live = [i \in 0..Len(list) |-> live[i]]
    BY <1>6, Zenon DEF live
  <2> QED
    BY <2>4, <2>5
<1> QED
  <2> HIDE DEF live
  <2>1. live[0] = <<>> /\ \A i \in 1..Len(list) :
          live[i] = IF list[i] + Window > now THEN Append(live[i - 1], list[i]) ELSE live[i - 1]
    <3>1. 0 \in 0..Len(list)
      BY <1>2
    <3>2. live[0] = <<>>
      BY <3>1, <1>8, Zenon
    <3>3. ASSUME NEW i \in 1..Len(list)
          PROVE  live[i] = IF list[i] + Window > now THEN Append(live[i - 1], list[i]) ELSE live[i - 1]
      <4>1. i \in 0..Len(list) /\ i # 0
        BY <1>2
      <4> QED
        BY <4>1, <1>8, Zenon
    <3> QED
      BY <3>2, <3>3, Zenon
  <2> QED
    BY <1>7, <1>9, <2>1, Zenon

Ascending(list) == \A i, j \in 1..Len(list) : i <= j => list[i] <= list[j]

(* The first k entries of list are gone from end.                          *)
EndOf(end, list, k) ==
    /\ end \in Seq(Nat) /\ Len(end) = Len(list) - k
    /\ \A i \in 1..Len(end) : end[i] = list[i + k]

LEMMA FirstLive ==
    ASSUME RateConstants, NEW list \in Seq(Nat), Ascending(list), NEW now \in Nat
    PROVE  \E k \in 0..Len(list) :
              /\ \A i \in 1..k : list[i] + Window <= now
              /\ \A i \in (k + 1)..Len(list) : list[i] + Window > now
<1> DEFINE D == {n \in 0..Len(list) : n < Len(list) => list[n + 1] + Window > now}
<1>1. Len(list) \in Nat /\ Window \in Nat /\ \A i \in 1..Len(list) : list[i] \in Nat
  BY DEF RateConstants
<1>2. D \in SUBSET Nat /\ Len(list) \in D
  BY <1>1
<1>3. PICK k \in D : \A n \in D : k <= n
  <2> HIDE DEF D
  <2> QED
    BY <1>2, Least
<1>4. k \in 0..Len(list) /\ (k < Len(list) => list[k + 1] + Window > now)
  BY <1>3
<1>5. ASSUME NEW i \in 1..k
      PROVE  list[i] + Window <= now
  <2>1. i - 1 \in 0..Len(list) /\ i - 1 < Len(list) /\ i - 1 < k /\ (i - 1) + 1 = i
    BY <1>1, <1>4
  <2>2. i - 1 \notin D
    BY <1>3, <2>1
  <2>3. ~(list[i] + Window > now)
    BY <2>1, <2>2
  <2>4. list[i] \in Nat
    BY <1>1, <2>1
  <2> QED
    BY <1>1, <2>3, <2>4
<1>6. ASSUME NEW i \in (k + 1)..Len(list)
      PROVE  list[i] + Window > now
  <2>1. k + 1 \in 1..Len(list) /\ i \in 1..Len(list) /\ k + 1 <= i /\ k < Len(list)
    BY <1>1, <1>4
  <2>2. list[k + 1] <= list[i]
    BY <2>1 DEF Ascending
  <2>3. list[k + 1] \in Nat /\ list[i] \in Nat
    BY <1>1, <2>1
  <2> QED
    BY <1>1, <1>4, <2>1, <2>2, <2>3, SMTT(30)
<1> QED
  <2> HIDE DEF D
  <2> QED
    BY <1>4, <1>5, <1>6

LEMMA LiveIsEnd ==
    ASSUME RateConstants, NEW list \in Seq(Nat), Ascending(list), NEW now \in Nat
    PROVE  \E k \in 0..Len(list) :
              /\ EndOf(LiveHits(list, now), list, k)
              /\ \A i \in 1..k : list[i] + Window <= now
              /\ \A i \in (k + 1)..Len(list) : list[i] + Window > now
<1>1. PICK g \in [0..Len(list) -> Seq(Nat)] :
         /\ g[0] = <<>>
         /\ \A i \in 1..Len(list) :
               g[i] = IF list[i] + Window > now THEN Append(g[i - 1], list[i]) ELSE g[i - 1]
         /\ LiveHits(list, now) = g[Len(list)]
  BY LiveHitsRec
<1>2. PICK k \in 0..Len(list) :
         /\ \A i \in 1..k : list[i] + Window <= now
         /\ \A i \in (k + 1)..Len(list) : list[i] + Window > now
  BY FirstLive
<1>3. Len(list) \in Nat /\ Window \in Nat /\ k \in Nat /\ k <= Len(list)
      /\ \A i \in 1..Len(list) : list[i] \in Nat
  BY <1>2 DEF RateConstants
<1> DEFINE size(n) == IF n <= k THEN 0 ELSE n - k
           Good(n) == Len(g[n]) = size(n) /\ \A i \in 1..size(n) : g[n][i] = list[i + k]
           P == {n \in 0..Len(list) : Good(n)}
<1>4. 0 \in P
  BY <1>1, <1>3
<1>5. ASSUME NEW n \in P, n < Len(list)
      PROVE  n + 1 \in P
  <2>1. n \in 0..Len(list) /\ n + 1 \in 0..Len(list) /\ n + 1 \in 1..Len(list)
        /\ (n + 1) - 1 = n /\ Good(n) /\ n \in Nat
    BY <1>3, <1>5
  <2>2. g[n] \in Seq(Nat) /\ list[n + 1] \in Nat
    BY <1>3, <2>1
  <2>0. g[n + 1] = IF list[n + 1] + Window > now THEN Append(g[n], list[n + 1]) ELSE g[n]
    <3>1. g[n + 1] = IF list[n + 1] + Window > now
                     THEN Append(g[(n + 1) - 1], list[n + 1]) ELSE g[(n + 1) - 1]
      BY <1>1, <2>1, Zenon
    <3> QED
      BY <2>1, <3>1, Zenon
  <2>3. CASE n < k
    <3>1. n + 1 \in 1..k
      BY <2>1, <2>3, <1>3
    <3>2. ~(list[n + 1] + Window > now)
      <4>1. list[n + 1] + Window <= now
        BY <3>1, <1>2, Zenon
      <4>2. Window \in Nat
        BY <1>3
      <4> QED
        BY <4>1, <4>2, <2>2
    <3>3. g[n + 1] = g[n]
      BY <2>0, <3>2, Zenon
    <3>4. size(n + 1) = 0 /\ size(n) = 0
      BY <2>1, <2>3, <1>3
    <3>5. Good(n + 1)
      BY <3>3, <3>4, <2>1
    <3> QED
      BY <2>1, <3>5
  <2>4. CASE ~(n < k)
    <3>1. n + 1 \in (k + 1)..Len(list)
      BY <2>1, <2>4, <1>3
    <3>2. list[n + 1] + Window > now
      BY <3>1, <1>2
    <3>3. g[n + 1] = Append(g[n], list[n + 1])
      BY <2>0, <3>2, Zenon
    <3>4. size(n + 1) = size(n) + 1 /\ size(n) = n - k /\ size(n) \in Nat
      BY <2>1, <2>4, <1>3
    <3>5. Len(g[n]) = n - k /\ \A i \in 1..(n - k) : g[n][i] = list[i + k]
      BY <2>1, <3>4
    <3>6. Len(g[n + 1]) = (n - k) + 1
      BY <3>3, <3>5, <2>2
    <3>7. ASSUME NEW i \in 1..((n - k) + 1)
          PROVE  g[n + 1][i] = list[i + k]
      <4>1. CASE i \in 1..(n - k)
        BY <4>1, <3>3, <3>5, <2>2
      <4>2. CASE i = (n - k) + 1
        <5>1. i + k = n + 1
          BY <4>2, <2>1, <1>3
        <5>2. i = Len(g[n]) + 1
          BY <4>2, <3>5
        <5>3. Append(g[n], list[n + 1])[Len(g[n]) + 1] = list[n + 1]
          BY <2>2
        <5> QED
          BY <5>1, <5>2, <5>3, <3>3, Zenon
      <4> QED
        BY <4>1, <4>2, <3>4
    <3>8. Good(n + 1)
      BY <3>4, <3>6, <3>7
    <3> QED
      BY <2>1, <3>8
  <2> QED
    BY <2>3, <2>4
<1>6. P = 0..Len(list)
  <2>1. P \in SUBSET (0..Len(list)) /\ \A n \in P : n < Len(list) => n + 1 \in P
    BY <1>5
  <2> HIDE DEF P
  <2> QED
    BY <1>3, <1>4, <2>1, UpTo
<1>7. Good(Len(list))
  <2>1. Len(list) \in P
    <3> HIDE DEF P
    <3> QED
      BY <1>3, <1>6
  <2> QED
    BY <2>1
<1>8. size(Len(list)) = Len(list) - k
  BY <1>3
<1>9. EndOf(LiveHits(list, now), list, k)
  <2>1. LiveHits(list, now) \in Seq(Nat)
    BY <1>1, <1>3
  <2> HIDE DEF size
  <2> QED
    BY <1>1, <1>7, <1>8, <2>1 DEF EndOf
<1> QED
  BY <1>2, <1>9

KeptIn(h, c) == IF c \in DOMAIN h THEN h[c] ELSE <<>>

(* kept is the end of list, and what it leaves out is out of the window.   *)
Stored(list, kept, now) ==
    \E k \in 0..Len(list) :
        EndOf(kept, list, k) /\ \A i \in 1..k : list[i] + Window <= now

BucketOK(k) ==
    /\ Ascending(allowedAt[k])
    /\ \A i \in 1..Len(allowedAt[k]) : allowedAt[k][i] <= time
    /\ Stored(allowedAt[k], KeptIn(hits, k), time)

RateTyped ==
    /\ time \in Nat /\ allowedAt \in [Buckets -> Seq(Nat)]
    /\ DOMAIN hits \subseteq Buckets

WithinLimit ==
    \A k \in Buckets : \A i \in DOMAIN allowedAt[k] :
        Cardinality({j \in DOMAIN allowedAt[k] :
                       j >= i /\ allowedAt[k][j] < allowedAt[k][i] + Window}) <= MaxHits

BucketsInv == RateTyped /\ (\A k \in Buckets : BucketOK(k)) /\ WithinLimit

(* The bucket of all requests of a client, in a deployment that is to be   *)
(* trusted.                                                                *)
OwnBucket(c) ==
    IF deploy.header \/ (deploy.hops > 0 /\ deploy.hops = deploy.proxies) THEN c
    ELSE IF deploy.hops > 0 THEN Proxy ELSE "unknown"

RateInv ==
    /\ BucketsInv
    /\ deploy \in Deployments
    /\ Trusted => \A p \in passed : p[2] = OwnBucket(p[1])

LEMMA Repeated ==
    ASSUME NEW A, NEW a \in A, NEW n \in Nat
    PROVE  /\ [i \in 1..n |-> a] \in Seq(A) /\ Len([i \in 1..n |-> a]) = n
           /\ \A j \in 1..n : [i \in 1..n |-> a][j] = a
OBVIOUS

LEMMA OwnEntry ==
    ASSUME NEW A, NEW c \in A, NEW f \in Seq(A), NEW own \in Seq(A)
    PROVE  /\ Len(f \o <<c>> \o own) = Len(f) + 1 + Len(own)
           /\ (f \o <<c>> \o own)[Len(f) + 1] = c
           /\ f \o <<c>> \o own \in Seq(A)
           /\ \A i \in 1..Len(own) : (f \o <<c>> \o own)[Len(f) + 1 + i] = own[i]
<1>1. f \o <<c>> \in Seq(A) /\ Len(f \o <<c>>) = Len(f) + 1 /\ (f \o <<c>>)[Len(f) + 1] = c
  OBVIOUS
<1> QED
  BY <1>1

LEMMA XffIs ==
    ASSUME RateConstants, deploy \in Deployments, NEW c \in Clients, NEW f \in Forged
    PROVE  LET xff == XForwardedFor(c, f) IN
           /\ xff \in Seq(Addresses) /\ f \in Seq(Addresses)
           /\ deploy.proxies \in Nat /\ deploy.hops \in Nat /\ deploy.header \in BOOLEAN
           /\ deploy.proxies > 0 =>
                /\ Len(xff) = Len(f) + deploy.proxies
                /\ xff[Len(f) + 1] = c
                /\ \A i \in (Len(f) + 2)..Len(xff) : xff[i] = Proxy
<1> DEFINE n == deploy.proxies
           own == [i \in 1..(n - 1) |-> Proxy]
           xff == f \o <<c>> \o own
<1>1. f \in Seq(Addresses) /\ c \in Addresses /\ Proxy \in Addresses
  BY Zenon DEF RateConstants
<1>2. n \in Nat /\ deploy.hops \in Nat /\ deploy.header \in BOOLEAN
  <2>1. deploy \in [header : BOOLEAN, hops : Nat, edge : BOOLEAN, proxies : Nat]
    BY Zenon DEF RateConstants
  <2> QED
    BY <2>1
<1> HIDE DEF n
<1>3. CASE n = 0
  <2>1. XForwardedFor(c, f) = f
    BY <1>3 DEF XForwardedFor, n
  <2> QED
    BY <1>1, <1>2, <1>3, <2>1 DEF n
<1>4. CASE n # 0
  <2>1. n - 1 \in Nat
    BY <1>2, <1>4
  <2>2. own \in Seq(Addresses) /\ Len(own) = n - 1 /\ \A i \in 1..(n - 1) : own[i] = Proxy
    BY <2>1, <1>1, Repeated
  <2> HIDE DEF own
  <2>3. /\ Len(xff) = Len(f) + 1 + Len(own) /\ xff[Len(f) + 1] = c /\ xff \in Seq(Addresses)
        /\ \A i \in 1..Len(own) : xff[Len(f) + 1 + i] = own[i]
    <3> DEFINE A == Addresses
    <3>1. f \in Seq(A) /\ c \in A /\ own \in Seq(A)
      BY <1>1, <2>2
    <3> HIDE DEF A
    <3>2. Len(xff) = Len(f) + 1 + Len(own)
      BY <3>1, OwnEntry
    <3>3. xff[Len(f) + 1] = c
      BY <3>1, OwnEntry
    <3>4. xff \in Seq(A)
      BY <3>1, OwnEntry
    <3>5. \A i \in 1..Len(own) : xff[Len(f) + 1 + i] = own[i]
      BY <3>1, OwnEntry
    <3> QED
      BY <3>2, <3>3, <3>4, <3>5 DEF A
  <2>4. XForwardedFor(c, f) = xff
    BY <1>4 DEF XForwardedFor, own, n
  <2> HIDE DEF xff
  <2>5. Len(f) \in Nat
    BY <1>1
  <2>6. Len(xff) = Len(f) + n
    BY <2>1, <2>2, <2>3, <2>5, <1>2
  <2>7. ASSUME NEW i \in (Len(f) + 2)..Len(xff)
        PROVE  xff[i] = Proxy
    <3>1. i - (Len(f) + 1) \in 1..(n - 1) /\ Len(f) + 1 + (i - (Len(f) + 1)) = i
      BY <2>5, <2>6, <1>2
    <3>2. xff[Len(f) + 1 + (i - (Len(f) + 1))] = own[i - (Len(f) + 1)]
      BY <3>1, <2>2, <2>3
    <3> QED
      BY <3>1, <3>2, <2>2
  <2> QED
    BY <1>1, <1>2, <2>3, <2>4, <2>6, <2>7 DEF n
<1> QED
  BY <1>3, <1>4

LEMMA MaxOfTwo ==
    ASSUME NEW n \in Int
    PROVE  Max({1, n}) = IF n > 1 THEN n ELSE 1
<1> DEFINE m == IF n > 1 THEN n ELSE 1
<1>1. m \in {1, n} /\ \A x \in {1, n} : m >= x
  OBVIOUS
<1>2. \A x \in {1, n} : (\A y \in {1, n} : x >= y) => x = m
  OBVIOUS
<1>3. Max({1, n}) \in {1, n} /\ \A y \in {1, n} : Max({1, n}) >= y
  <2> DEFINE T == {1, n}
  <2>1. \E x \in T : \A y \in T : x >= y
    BY <1>1
  <2> HIDE DEF T
  <2>2. Max(T) \in T /\ \A y \in T : Max(T) >= y
    BY <2>1 DEF Max
  <2> QED
    BY <2>2 DEF T
<1> QED
  BY <1>2, <1>3

(* The entry looked up is one of the list.                                 *)
LEMMA EntryIn ==
    ASSUME NEW xff \in Seq(Addresses), xff # <<>>, NEW hops \in Nat, hops > 0
    PROVE  /\ Max({1, Len(xff) - hops + 1}) =
                IF Len(xff) - hops + 1 > 1 THEN Len(xff) - hops + 1 ELSE 1
           /\ xff[Max({1, Len(xff) - hops + 1})] \in Addresses
<1>1. Len(xff) \in Nat /\ Len(xff) > 0
  OBVIOUS
<1>2. Len(xff) - hops + 1 \in Int
  BY <1>1
<1>3. Max({1, Len(xff) - hops + 1}) = IF Len(xff) - hops + 1 > 1 THEN Len(xff) - hops + 1 ELSE 1
  BY <1>2, MaxOfTwo
<1>4. Max({1, Len(xff) - hops + 1}) \in 1..Len(xff)
  BY <1>1, <1>3
<1> QED
  BY <1>3, <1>4

LEMMA KeyTyped ==
    ASSUME RateConstants, deploy \in Deployments,
           NEW c \in Clients, NEW h \in Headers, NEW f \in Forged
    PROVE  clientIpFrom(TrustedHeader(c, h), XForwardedFor(c, f)) \in Buckets
<1> DEFINE xff == XForwardedFor(c, f)
           value == TrustedHeader(c, h)
<1>1. xff \in Seq(Addresses) /\ deploy.hops \in Nat
  BY XffIs
<1>2. value \in Addresses \cup {Absent}
  BY DEF TrustedHeader, RateConstants
<1> HIDE DEF xff, value
<1>3. CASE deploy.header /\ value # Absent
  <2>1. clientIpFrom(value, xff) = value
    BY <1>3, Zenon DEF clientIpFrom
  <2> QED
    BY <1>2, <1>3, <2>1, Zenon DEF Buckets, xff, value
<1>4. CASE ~(deploy.header /\ value # Absent) /\ deploy.hops > 0 /\ xff # <<>>
  <2>1. xff[Max({1, Len(xff) - deploy.hops + 1})] \in Addresses
    BY <1>1, <1>4, EntryIn
  <2>2. clientIpFrom(value, xff) = xff[Max({1, Len(xff) - deploy.hops + 1})]
    BY <1>4, Zenon DEF clientIpFrom
  <2> QED
    BY <2>1, <2>2, Zenon DEF Buckets, xff, value
<1>5. CASE ~(deploy.header /\ value # Absent) /\ ~(deploy.hops > 0 /\ xff # <<>>)
  <2>1. clientIpFrom(value, xff) = "unknown"
    BY <1>5, Zenon DEF clientIpFrom
  <2> QED
    BY <2>1, Zenon DEF Buckets, xff, value
<1> QED
  BY <1>3, <1>4, <1>5, Zenon

(* Where the deployment keeps the contract, the bucket of a request is a   *)
(* function of the address it comes from, whatever the client sends.       *)
LEMMA TrustedKey ==
    ASSUME RateConstants, deploy \in Deployments, Trusted,
           NEW c \in Clients, NEW h \in Headers, NEW f \in Forged
    PROVE  clientIpFrom(TrustedHeader(c, h), XForwardedFor(c, f)) = OwnBucket(c)
<1> DEFINE xff == XForwardedFor(c, f)
           n == deploy.proxies
           k == deploy.hops
<1>1. /\ xff \in Seq(Addresses) /\ f \in Seq(Addresses) /\ n \in Nat /\ k \in Nat
      /\ n > 0 => /\ Len(xff) = Len(f) + n
                  /\ xff[Len(f) + 1] = c
                  /\ \A i \in (Len(f) + 2)..Len(xff) : xff[i] = Proxy
  BY XffIs
<1>2. CASE deploy.header
  <2>1. TrustedHeader(c, h) = c /\ c # Absent
    BY <1>2 DEF Trusted, TrustedHeader, RateConstants
  <2> QED
    BY <1>2, <2>1 DEF clientIpFrom, OwnBucket
<1>3. CASE ~deploy.header /\ ~(k > 0)
  BY <1>3 DEF clientIpFrom, OwnBucket
<1>4. CASE ~deploy.header /\ k > 0
  <2>1. k <= n /\ n > 0
    BY <1>1, <1>4 DEF Trusted
  <2>2. Len(f) \in Nat
    BY <1>1
  <2>3. Len(xff) = Len(f) + n /\ xff # <<>>
    BY <1>1, <2>1, <2>2
  <2>4. clientIpFrom(TrustedHeader(c, h), xff) = xff[Max({1, Len(xff) - k + 1})]
    BY <1>4, <2>3 DEF clientIpFrom
  <2> HIDE DEF xff, n, k
  <2>5. Max({1, Len(xff) - k + 1}) = IF Len(xff) - k + 1 > 1 THEN Len(xff) - k + 1 ELSE 1
    BY <1>1, <1>4, <2>3, EntryIn
  <2>6. Max({1, Len(xff) - k + 1}) = Len(f) + 1 + (n - k)
    BY <1>1, <1>4, <2>1, <2>2, <2>3, <2>5
  <2>7. CASE k = n
    <3>1. Len(f) + 1 + (n - k) = Len(f) + 1
      BY <2>7, <1>1, <2>2
    <3> QED
      BY <3>1, <1>1, <1>4, <2>1, <2>4, <2>6, <2>7 DEF OwnBucket, xff, n, k
  <2>8. CASE k # n
    <3>1. Len(f) + 1 + (n - k) \in (Len(f) + 2)..Len(xff)
      BY <2>8, <1>1, <1>4, <2>1, <2>2, <2>3
    <3>2. xff[Len(f) + 1 + (n - k)] = Proxy
      BY <1>1, <2>1, <3>1
    <3> QED
      BY <3>2, <1>4, <2>4, <2>6, <2>8 DEF OwnBucket, xff, n, k
  <2> QED
    BY <2>7, <2>8
<1> QED
  BY <1>2, <1>3, <1>4

LEMMA LiveStored ==
    ASSUME RateConstants, NEW list \in Seq(Nat), Ascending(list), NEW now \in Nat,
           NEW kept, Stored(list, kept, now)
    PROVE  Stored(list, LiveHits(kept, now), now)
<1>1. PICK k \in 0..Len(list) :
         EndOf(kept, list, k) /\ \A i \in 1..k : list[i] + Window <= now
  BY DEF Stored
<1>2. kept \in Seq(Nat) /\ Len(kept) = Len(list) - k
      /\ \A i \in 1..Len(kept) : kept[i] = list[i + k]
  BY <1>1 DEF EndOf
<1>3. Len(list) \in Nat /\ k \in Nat /\ k <= Len(list) /\ Len(kept) \in Nat
  BY <1>1, <1>2
<1>4. Ascending(kept)
  <2> SUFFICES ASSUME NEW i \in 1..Len(kept), NEW j \in 1..Len(kept), i <= j
               PROVE  kept[i] <= kept[j]
    BY DEF Ascending
  <2>1. i + k \in 1..Len(list) /\ j + k \in 1..Len(list) /\ i + k <= j + k
    BY <1>2, <1>3, SMTT(60)
  <2>2. list[i + k] <= list[j + k]
    BY <2>1 DEF Ascending
  <2> QED
    BY <2>2, <1>2
<1>5. PICK m \in 0..Len(kept) :
         EndOf(LiveHits(kept, now), kept, m) /\ \A i \in 1..m : kept[i] + Window <= now
  BY <1>2, <1>4, LiveIsEnd
<1> DEFINE live == LiveHits(kept, now)
<1>6. live \in Seq(Nat) /\ Len(live) = Len(kept) - m /\ \A i \in 1..Len(live) : live[i] = kept[i + m]
  BY <1>5 DEF EndOf
<1> HIDE DEF live
<1>7. k + m \in 0..Len(list) /\ m \in Nat /\ m <= Len(kept) /\ Len(live) \in Nat
      /\ Len(live) = Len(list) - (k + m)
  BY <1>2, <1>3, <1>5, <1>6
<1>8. ASSUME NEW i \in 1..Len(live)
      PROVE  live[i] = list[i + (k + m)]
  <2>1. i + m \in 1..Len(kept) /\ (i + m) + k = i + (k + m)
    BY <1>2, <1>3, <1>6, <1>7
  <2> QED
    BY <2>1, <1>2, <1>6
<1>9. ASSUME NEW i \in 1..(k + m)
      PROVE  list[i] + Window <= now
  <2>1. CASE i \in 1..k
    BY <2>1, <1>1
  <2>2. CASE i \notin 1..k
    <3>1. i - k \in 1..m /\ i - k \in 1..Len(kept) /\ (i - k) + k = i
      BY <2>2, <1>3, <1>7
    <3> QED
      BY <3>1, <1>2, <1>5
  <2> QED
    BY <2>1, <2>2
<1>10. EndOf(live, list, k + m)
  BY <1>6, <1>7, <1>8 DEF EndOf
<1> QED
  BY <1>7, <1>9, <1>10 DEF Stored, live

LEMMA SweepKeeps ==
    ASSUME RateConstants, BucketsInv
    PROVE  /\ DOMAIN sweep(hits, time) \subseteq Buckets
           /\ \A d \in Buckets : Stored(allowedAt[d], KeptIn(sweep(hits, time), d), time)
<1> DEFINE swept == sweep(hits, time)
<1>1. DOMAIN swept \subseteq DOMAIN hits
  BY DEF sweep
<1>2. ASSUME NEW d \in Buckets
      PROVE  Stored(allowedAt[d], KeptIn(swept, d), time)
  <2>1. /\ allowedAt[d] \in Seq(Nat) /\ time \in Nat /\ Ascending(allowedAt[d])
        /\ Stored(allowedAt[d], KeptIn(hits, d), time)
    BY DEF BucketsInv, RateTyped, BucketOK
  <2>2. CASE d \in DOMAIN hits
    <3>1. KeptIn(hits, d) = hits[d]
      BY <2>2 DEF KeptIn
    <3>2. KeptIn(swept, d) = LiveHits(hits[d], time)
      BY <2>2 DEF KeptIn, sweep
    <3> QED
      BY <2>1, <3>1, <3>2, LiveStored
  <2>3. CASE d \notin DOMAIN hits
    <3>1. KeptIn(hits, d) = <<>> /\ KeptIn(swept, d) = <<>>
      BY <2>3, <1>1 DEF KeptIn
    <3> QED
      BY <2>1, <3>1
  <2> QED
    BY <2>2, <2>3
<1> QED
  BY <1>1, <1>2 DEF BucketsInv, RateTyped

LEMMA MoreTime ==
    ASSUME RateConstants, NEW list \in Seq(Nat), NEW kept, NEW now \in Nat,
           Stored(list, kept, now)
    PROVE  Stored(list, kept, now + 1)
<1>1. PICK k \in 0..Len(list) :
         EndOf(kept, list, k) /\ \A i \in 1..k : list[i] + Window <= now
  BY DEF Stored
<1>2. Len(list) \in Nat /\ Window \in Nat /\ \A i \in 1..Len(list) : list[i] \in Nat
  BY DEF RateConstants
<1>3. \A i \in 1..k : list[i] + Window <= now + 1
  BY <1>1, <1>2
<1> QED
  BY <1>1, <1>3 DEF Stored

LEMMA StoredPushed ==
    ASSUME RateConstants, NEW list \in Seq(Nat), NEW live, NEW now \in Nat,
           Stored(list, live, now)
    PROVE  Stored(Append(list, now), Append(live, now), now)
<1>1. PICK k \in 0..Len(list) :
         EndOf(live, list, k) /\ \A i \in 1..k : list[i] + Window <= now
  BY DEF Stored
<1>2. live \in Seq(Nat) /\ Len(live) = Len(list) - k
      /\ \A i \in 1..Len(live) : live[i] = list[i + k]
  BY <1>1 DEF EndOf
<1>3. Len(list) \in Nat /\ k \in Nat /\ k <= Len(list) /\ Len(live) \in Nat
  BY <1>1, <1>2
<1> DEFINE longer == Append(list, now)
           end == Append(live, now)
<1>4. /\ longer \in Seq(Nat) /\ Len(longer) = Len(list) + 1 /\ longer[Len(list) + 1] = now
      /\ \A i \in 1..Len(list) : longer[i] = list[i]
  OBVIOUS
<1>5. /\ end \in Seq(Nat) /\ Len(end) = Len(live) + 1 /\ end[Len(live) + 1] = now
      /\ \A i \in 1..Len(live) : end[i] = live[i]
  BY <1>2
<1> HIDE DEF longer, end
<1>6. ASSUME NEW i \in 1..Len(end)
      PROVE  end[i] = longer[i + k]
  <2>1. CASE i \in 1..Len(live)
    <3>1. i + k \in 1..Len(list)
      BY <2>1, <1>2, <1>3, SMTT(30)
    <3> QED
      BY <2>1, <3>1, <1>2, <1>4, <1>5
  <2>2. CASE i = Len(live) + 1
    <3>1. i + k = Len(list) + 1
      BY <2>2, <1>2, <1>3
    <3> QED
      BY <2>2, <3>1, <1>4, <1>5
  <2> QED
    BY <2>1, <2>2, <1>3, <1>5
<1>7. \A i \in 1..k : longer[i] + Window <= now
  <2>1. \A i \in 1..k : i \in 1..Len(list)
    BY <1>3
  <2> QED
    BY <2>1, <1>1, <1>4
<1>8. k \in 0..Len(longer) /\ Len(end) = Len(longer) - k
  BY <1>2, <1>3, <1>4, <1>5
<1>9. EndOf(end, longer, k)
  BY <1>5, <1>6, <1>8 DEF EndOf
<1> QED
  BY <1>7, <1>8, <1>9 DEF Stored, longer, end

(* Fewer than max live hits leave room for one more within the window.     *)
LEMMA RoomForOne ==
    ASSUME RateConstants, NEW list \in Seq(Nat), NEW live, NEW now \in Nat,
           Stored(list, live, now), Len(live) < MaxHits,
           \A i \in 1..Len(list) : list[i] <= now,
           \A i \in DOMAIN list :
              Cardinality({j \in DOMAIN list : j >= i /\ list[j] < list[i] + Window}) <= MaxHits,
           NEW i \in DOMAIN Append(list, now)
    PROVE  Cardinality({j \in DOMAIN Append(list, now) :
              j >= i /\ Append(list, now)[j] < Append(list, now)[i] + Window}) <= MaxHits
<1>1. PICK k \in 0..Len(list) :
         EndOf(live, list, k) /\ \A j \in 1..k : list[j] + Window <= now
  BY DEF Stored
<1>2. /\ Len(live) = Len(list) - k /\ Len(list) \in Nat /\ k \in Nat /\ k <= Len(list)
      /\ MaxHits \in Nat /\ Window \in Nat /\ \A j \in 1..Len(list) : list[j] \in Nat
      /\ DOMAIN list = 1..Len(list)
  BY <1>1 DEF EndOf, RateConstants
<1> DEFINE longer == Append(list, now)
           n == Len(list) + 1
           S == {j \in DOMAIN longer : j >= i /\ longer[j] < longer[i] + Window}
<1> SUFFICES Cardinality(S) <= MaxHits
  OBVIOUS
<1>3. /\ DOMAIN longer = 1..n /\ longer[n] = now
      /\ \A j \in 1..Len(list) : longer[j] = list[j]
  OBVIOUS
<1>4. i \in 1..n /\ n \in Nat
  BY <1>2
<1> HIDE DEF longer
<1>5. CASE n \in S
  <2>1. i > k
    <3>1. longer[n] < longer[i] + Window
      BY <1>5
    <3>2. CASE i = n
      BY <3>2, <1>2
    <3>3. CASE i \in 1..Len(list)
      <4>1. now < list[i] + Window /\ list[i] \in Nat
        BY <3>1, <3>3, <1>2, <1>3
      <4>2. ASSUME i \in 1..k
            PROVE  FALSE
        <5>1. list[i] + Window <= now
          BY <4>2, <1>1
        <5> QED
          BY <5>1, <4>1, <1>2
      <4> QED
        BY <4>2, <3>3, <1>2
    <3> QED
      BY <3>2, <3>3, <1>4, <1>2
  <2>2. S \subseteq (k + 1)..n
    BY <2>1, <1>2, <1>3, <1>4
  <2>3. IsFiniteSet((k + 1)..n) /\ Cardinality((k + 1)..n) = n - k
    <3>1. k + 1 \in Int /\ n \in Int /\ ~(k + 1 > n) /\ n - (k + 1) + 1 = n - k
      BY <1>2
    <3> HIDE DEF n
    <3> QED
      BY <3>1, FS_Interval
  <2>4. Cardinality(S) <= n - k /\ Cardinality(S) \in Nat
    BY <2>2, <2>3, FS_Subset, FS_CardinalityType
  <2>5. n - k \in Nat /\ n - k <= MaxHits
    BY <1>2
  <2> HIDE DEF S, n
  <2> QED
    BY <2>4, <2>5, <1>2
<1>6. CASE n \notin S
  <2> DEFINE T == {j \in DOMAIN list : j >= i /\ list[j] < list[i] + Window}
  <2>1. CASE i = n
    <3>1. S = {}
      <4>1. \A j \in 1..n : j >= n => j = n
        BY <1>2
      <4> HIDE DEF n
      <4> QED
        BY <4>1, <2>1, <1>3, <1>6
    <3>2. Cardinality(S) = 0
      BY <3>1, FS_EmptySet
    <3> HIDE DEF S
    <3> QED
      BY <3>2, <1>2
  <2>2. CASE i \in 1..Len(list)
    <3>1. S = T
      <4>1. \A j \in S : j \in 1..Len(list)
        BY <1>2, <1>3, <1>6, SMTT(60)
      <4>2. \A j \in 1..Len(list) : j \in 1..n
        BY <1>2
      <4> QED
        BY <2>2, <4>1, <4>2, <1>2, <1>3, SMTT(30)
    <3>2. Cardinality(T) <= MaxHits
      BY <2>2, <1>2
    <3> HIDE DEF S, T
    <3> QED
      BY <3>1, <3>2
  <2>3. i = n \/ i \in 1..Len(list)
    BY <1>2, <1>4
  <2> QED
    BY <2>1, <2>2, <2>3
<1> QED
  BY <1>5, <1>6

LEMMA Pushed ==
    ASSUME NEW list \in Seq(Nat), NEW now \in Nat
    PROVE  /\ Append(list, now) \in Seq(Nat) /\ Len(list) \in Nat
           /\ Len(Append(list, now)) = Len(list) + 1
           /\ Append(list, now)[Len(list) + 1] = now
           /\ \A i \in 1..Len(list) : list[i] \in Nat /\ Append(list, now)[i] = list[i]
OBVIOUS

LEMMA AscendingPushed ==
    ASSUME NEW list \in Seq(Nat), NEW now \in Nat, Ascending(list),
           \A i \in 1..Len(list) : list[i] <= now
    PROVE  /\ Ascending(Append(list, now))
           /\ \A i \in 1..Len(Append(list, now)) : Append(list, now)[i] <= now
<1> DEFINE new == Append(list, now)
<1>1. /\ Len(new) = Len(list) + 1 /\ new[Len(list) + 1] = now /\ Len(list) \in Nat
      /\ \A i \in 1..Len(list) : list[i] \in Nat /\ new[i] = list[i]
  BY Pushed
<1> HIDE DEF new
<1>2. \A i \in 1..Len(new) : i \in 1..Len(list) \/ i = Len(list) + 1
  BY <1>1
<1>3. \A i \in 1..Len(new) : new[i] <= now
  BY <1>1, <1>2
<1>4. ASSUME NEW i \in 1..Len(new), NEW j \in 1..Len(new), i <= j
      PROVE  new[i] <= new[j]
  <2>1. CASE j = Len(list) + 1
    BY <2>1, <1>1, <1>3
  <2>2. CASE j \in 1..Len(list)
    <3>1. i \in 1..Len(list)
      BY <2>2, <1>1, <1>4
    <3>2. list[i] <= list[j]
      BY <2>2, <3>1, <1>4 DEF Ascending
    <3> QED
      BY <2>2, <3>1, <3>2, <1>1
  <2> QED
    BY <2>1, <2>2, <1>2
<1> QED
  BY <1>3, <1>4 DEF Ascending, new

LEMMA StillBefore ==
    ASSUME NEW list \in Seq(Nat), NEW now \in Nat, \A i \in 1..Len(list) : list[i] <= now
    PROVE  \A i \in 1..Len(list) : list[i] <= now + 1
<1>1. \A i \in 1..Len(list) : list[i] \in Nat
  OBVIOUS
<1> QED
  BY <1>1

LEMMA BucketStep ==
    ASSUME RateConstants, BucketsInv, NEW k \in Buckets, time' = time,
           NEW swept, swept = IF Cardinality(DOMAIN hits) > SweepThreshold
                              THEN sweep(hits, time) ELSE hits,
           NEW live, live = IF k \in DOMAIN swept THEN LiveHits(swept[k], time) ELSE <<>>,
           \/ Len(live) >= MaxHits /\ hits' = With(swept, k, live) /\ allowedAt' = allowedAt
           \/ /\ ~(Len(live) >= MaxHits) /\ hits' = With(swept, k, Append(live, time))
              /\ allowedAt' = [allowedAt EXCEPT ![k] = Append(@, time)]
    PROVE  BucketsInv'
<1>1. /\ DOMAIN swept \subseteq Buckets
      /\ \A d \in Buckets : Stored(allowedAt[d], KeptIn(swept, d), time)
  <2>1. CASE swept = sweep(hits, time)
    BY <2>1, SweepKeeps
  <2>2. CASE swept = hits
    BY <2>2 DEF BucketsInv, RateTyped, BucketOK
  <2> QED
    BY <2>1, <2>2, Zenon
<1>2. /\ time \in Nat /\ allowedAt \in [Buckets -> Seq(Nat)]
      /\ \A d \in Buckets : /\ allowedAt[d] \in Seq(Nat) /\ Ascending(allowedAt[d])
                         /\ \A i \in 1..Len(allowedAt[d]) : allowedAt[d][i] <= time
      /\ WithinLimit
  BY DEF BucketsInv, RateTyped, BucketOK
<1>3. Stored(allowedAt[k], live, time)
  <2>1. CASE k \in DOMAIN swept
    <3>1. KeptIn(swept, k) = swept[k] /\ live = LiveHits(swept[k], time)
      BY <2>1 DEF KeptIn
    <3>2. Stored(allowedAt[k], swept[k], time)
      BY <3>1, <1>1
    <3> QED
      BY <3>1, <3>2, <1>2, LiveStored
  <2>2. CASE k \notin DOMAIN swept
    BY <2>2, <1>1 DEF KeptIn
  <2> QED
    BY <2>1, <2>2
<1>4. Len(live) \in Nat /\ live \in Seq(Nat) /\ MaxHits \in Nat
  BY <1>3 DEF Stored, EndOf, RateConstants
<1>5. CASE Len(live) >= MaxHits /\ hits' = With(swept, k, live) /\ allowedAt' = allowedAt
  <2>1. DOMAIN hits' \subseteq Buckets
    BY <1>5, <1>1 DEF With
  <2>2. ASSUME NEW d \in Buckets
        PROVE  KeptIn(hits', d) = IF d = k THEN live ELSE KeptIn(swept, d)
    BY <1>5 DEF With, KeptIn
  <2>3. \A d \in Buckets : Stored(allowedAt[d], KeptIn(hits', d), time)
    BY <2>2, <1>1, <1>3
  <2> QED
    BY <2>1, <2>3, <1>2, <1>5 DEF BucketsInv, RateTyped, BucketOK, WithinLimit
<1>6. CASE /\ ~(Len(live) >= MaxHits) /\ hits' = With(swept, k, Append(live, time))
           /\ allowedAt' = [allowedAt EXCEPT ![k] = Append(@, time)]
  <2> DEFINE old == allowedAt[k]
             new == Append(allowedAt[k], time)
  <2>1. DOMAIN hits' \subseteq Buckets
    BY <1>6, <1>1 DEF With
  <2>2. new \in Seq(Nat)
    BY <1>2, Pushed
  <2>3. allowedAt' \in [Buckets -> Seq(Nat)] /\ allowedAt'[k] = new
        /\ \A d \in Buckets \ {k} : allowedAt'[d] = allowedAt[d]
    BY <1>2, <1>6, <2>2
  <2>4. Ascending(new) /\ \A i \in 1..Len(new) : new[i] <= time
    BY <1>2, AscendingPushed
  <2>5. Stored(new, Append(live, time), time)
    BY <1>2, <1>3, StoredPushed
  <2>6. ASSUME NEW d \in Buckets
        PROVE  KeptIn(hits', d) = IF d = k THEN Append(live, time) ELSE KeptIn(swept, d)
    BY <1>6 DEF With, KeptIn
  <2>7. ASSUME NEW d \in Buckets
        PROVE  BucketOK(d)'
    <3>1. CASE d = k
      <4> HIDE DEF new
      <4>1. KeptIn(hits', k) = Append(live, time)
        BY <2>6
      <4> QED
        BY <3>1, <4>1, <2>3, <2>4, <2>5 DEF BucketOK
    <3>2. CASE d # k
      <4>1. KeptIn(hits', d) = KeptIn(swept, d) /\ allowedAt'[d] = allowedAt[d]
        BY <3>2, <2>3, <2>6
      <4> QED
        BY <4>1, <1>1, <1>2 DEF BucketOK
    <3> QED
      BY <3>1, <3>2
  <2>8. WithinLimit'
    <3> SUFFICES ASSUME NEW d \in Buckets, NEW i \in DOMAIN (allowedAt'[d])
                 PROVE  Cardinality({j \in DOMAIN (allowedAt'[d]) :
                           j >= i /\ allowedAt'[d][j] < allowedAt'[d][i] + Window}) <= MaxHits
      BY DEF WithinLimit
    <3>1. CASE d = k
      <4>1. \A h \in DOMAIN old :
              Cardinality({j \in DOMAIN old : j >= h /\ old[j] < old[h] + Window}) <= MaxHits
        BY <1>2 DEF WithinLimit
      <4>2. Len(live) < MaxHits
        BY <1>4, <1>6
      <4>3. \A h \in DOMAIN new :
              Cardinality({j \in DOMAIN new : j >= h /\ new[j] < new[h] + Window}) <= MaxHits
        <5>1. /\ old \in Seq(Nat) /\ time \in Nat /\ \A i_1 \in 1..Len(old) : old[i_1] <= time
              /\ Stored(old, live, time)
          BY <1>2, <1>3
        <5>2. new = Append(old, time)
          OBVIOUS
        <5> HIDE DEF old, new
        <5>3. ASSUME NEW h \in DOMAIN new
              PROVE  Cardinality({j \in DOMAIN new : j >= h /\ new[j] < new[h] + Window}) <= MaxHits
          <6>1. h \in DOMAIN Append(old, time)
            BY <5>2
          <6>2. Cardinality({j \in DOMAIN Append(old, time) :
                   j >= h /\ Append(old, time)[j] < Append(old, time)[h] + Window}) <= MaxHits
            BY <4>1, <4>2, <5>1, <6>1, RoomForOne, ZenonT(60)
          <6> QED
            BY <5>2, <6>2, Zenon
        <5> QED
          BY <5>3
      <4> HIDE DEF new
      <4> QED
        BY <3>1, <4>3, <2>3
    <3>2. CASE d # k
      BY <3>2, <2>3, <1>2 DEF WithinLimit
    <3> QED
      BY <3>1, <3>2
  <2> QED
    BY <2>1, <2>3, <2>7, <2>8, <1>2 DEF BucketsInv, RateTyped
<1> QED
  BY <1>5, <1>6

LEMMA CheckStep ==
    ASSUME RateConstants, RateInv, NEW c \in Clients, NEW h \in Headers, NEW f \in Forged,
           Check(c, h, f)
    PROVE  RateInv'
<1> DEFINE key == clientIpFrom(TrustedHeader(c, h), XForwardedFor(c, f))
           swept == IF Cardinality(DOMAIN hits) > SweepThreshold THEN sweep(hits, time) ELSE hits
           live == IF key \in DOMAIN swept THEN LiveHits(swept[key], time) ELSE <<>>
<1>1. key \in Buckets
  BY KeyTyped DEF RateInv
<1>2. time' = time /\ deploy' = deploy
  BY DEF Check
<1>3. \/ /\ Len(live) >= MaxHits /\ hits' = With(swept, key, live)
         /\ allowedAt' = allowedAt /\ passed' = passed
      \/ /\ ~(Len(live) >= MaxHits) /\ hits' = With(swept, key, Append(live, time))
         /\ allowedAt' = [allowedAt EXCEPT ![key] = Append(@, time)]
         /\ passed' = passed \cup {<<c, key>>}
  BY DEF Check
<1>4. Trusted => key = OwnBucket(c)
  BY TrustedKey DEF RateInv
<1> HIDE DEF key, swept, live
<1>5. BucketsInv'
  <2>1. BucketsInv
    BY DEF RateInv
  <2> QED
    BY <2>1, <1>1, <1>2, <1>3, BucketStep DEF swept, live
<1>6. Trusted' = Trusted /\ \A d : OwnBucket(d)' = OwnBucket(d)
  BY <1>2 DEF Trusted, OwnBucket
<1>7. ASSUME Trusted', NEW p \in passed'
      PROVE  p[2] = OwnBucket(p[1])'
  <2>1. Trusted
    BY <1>6, <1>7
  <2>2. CASE p \in passed
    <3>1. p[2] = OwnBucket(p[1])
      BY <2>1, <2>2 DEF RateInv
    <3> QED
      BY <3>1, <1>2 DEF OwnBucket
  <2>3. CASE p = <<c, key>>
    <3>1. p[1] = c /\ p[2] = key
      BY <2>3
    <3> QED
      BY <3>1, <2>1, <1>2, <1>4 DEF OwnBucket
  <2> QED
    BY <1>3, <1>7, <2>2, <2>3
<1> QED
  BY <1>2, <1>5, <1>7 DEF RateInv

LEMMA RateStep ==
    ASSUME RateConstants, RateInv, RateNext \/ UNCHANGED rateVars
    PROVE  RateInv'
<1>1. ASSUME NEW c \in Clients, NEW h \in Headers, NEW f \in Forged, Check(c, h, f)
      PROVE  RateInv'
  BY <1>1, CheckStep
<1>2. CASE Tick
  <2>1. /\ time \in Nat /\ time' = time + 1 /\ hits' = hits /\ allowedAt' = allowedAt
        /\ passed' = passed /\ deploy' = deploy
    BY <1>2 DEF Tick, RateInv, BucketsInv, RateTyped
  <2>2. ASSUME NEW k \in Buckets
        PROVE  BucketOK(k)'
    <3>1. /\ allowedAt[k] \in Seq(Nat) /\ Ascending(allowedAt[k])
          /\ \A i \in 1..Len(allowedAt[k]) : allowedAt[k][i] <= time
          /\ Stored(allowedAt[k], KeptIn(hits, k), time)
      BY DEF RateInv, BucketsInv, RateTyped, BucketOK
    <3>2. Stored(allowedAt[k], KeptIn(hits, k), time + 1)
      BY <2>1, <3>1, MoreTime
    <3>3. \A i \in 1..Len(allowedAt[k]) : allowedAt[k][i] <= time + 1
      BY <2>1, <3>1, StillBefore
    <3> QED
      BY <2>1, <3>1, <3>2, <3>3 DEF BucketOK
  <2>3. WithinLimit'
    BY <2>1 DEF RateInv, BucketsInv, WithinLimit
  <2>4. RateTyped'
    <3>1. RateTyped
      BY DEF RateInv, BucketsInv
    <3>2. time + 1 \in Nat
      BY <2>1
    <3> QED
      BY <2>1, <3>1, <3>2, Zenon DEF RateTyped
  <2>5. BucketsInv'
    BY <2>2, <2>3, <2>4 DEF BucketsInv
  <2> QED
    BY <2>1, <2>5 DEF RateInv, Trusted, OwnBucket
<1>3. CASE UNCHANGED rateVars
  <2>1. BucketsInv'
    BY <1>3 DEF rateVars, RateInv, BucketsInv, RateTyped, BucketOK, WithinLimit
  <2> QED
    BY <1>3, <2>1 DEF rateVars, RateInv, Trusted, OwnBucket
<1> QED
  BY <1>1, <1>2, <1>3 DEF RateNext

LEMMA RateInitOK ==
    ASSUME RateConstants, RateInit
    PROVE  RateInv
<1>1. /\ hits = <<>> /\ time = 0 /\ allowedAt = [k \in Buckets |-> <<>>]
      /\ deploy \in Deployments /\ passed = {}
  BY DEF RateInit
<1>2. <<>> \in Seq(Nat) /\ Len(<<>>) = 0 /\ DOMAIN <<>> = {}
  OBVIOUS
<1>3. RateTyped
  BY <1>1, <1>2 DEF RateTyped
<1>4. ASSUME NEW k \in Buckets
      PROVE  BucketOK(k)
  <2>1. allowedAt[k] = <<>> /\ KeptIn(hits, k) = <<>>
    BY <1>1, <1>2 DEF KeptIn
  <2>2. EndOf(<<>>, <<>>, 0) /\ 0 \in 0..Len(<<>>)
    BY <1>2 DEF EndOf
  <2>3. Stored(<<>>, <<>>, time)
    BY <2>2, <1>2 DEF Stored
  <2> QED
    BY <2>1, <2>3, <1>2 DEF BucketOK, Ascending
<1>5. WithinLimit
  BY <1>1, <1>2 DEF WithinLimit
<1> QED
  BY <1>1, <1>3, <1>4, <1>5 DEF RateInv, BucketsInv

(* No bucket lets more than max requests through within a window, whenever *)
(* the map is swept, and where the deployment keeps the contract a client  *)
(* has one bucket, whatever it writes into the trusted header and into     *)
(* X-Forwarded-For, for every limit, window, environment and chain of      *)
(* proxies (createRateLimiter and clientIpFrom in lib/rate-limit.ts).      *)
THEOREM LimiterHolds == Spec => []WindowHonoured
<1>1. Init => RateInv
  BY RateConstants, RateInitOK DEF Init
<1>2. RateInv /\ [Next]_vars => RateInv'
  <2> SUFFICES ASSUME RateInv, [Next]_vars
               PROVE  RateInv'
    OBVIOUS
  <2>1. RateNext \/ UNCHANGED rateVars
    BY DEF Next, vars, TableStep, ScorerStep, StatisticsStep, ShareStep, LimiterStep
  <2> QED
    BY <2>1, RateConstants, RateStep
<1>3. RateInv => WindowHonoured
  <2> SUFFICES ASSUME RateInv
               PROVE  WindowHonoured
    OBVIOUS
  <2>1. ASSUME Trusted, NEW p \in passed, NEW q \in passed, p[1] = q[1]
        PROVE  p[2] = q[2]
    BY <2>1 DEF RateInv
  <2> QED
    BY <2>1 DEF RateInv, BucketsInv, WithinLimit, WindowHonoured
<1> QED
  BY <1>1, <1>2, <1>3, PTL DEF Spec

-----------------------------------------------------------------------------
(* Share links.  A row that a view has read differs from the link's row in *)
(* nothing but revoked.                                                    *)

SameLink(row, r) ==
    /\ row.owner = r.owner /\ row.badges = r.badges
    /\ row.expiresAt = r.expiresAt /\ row.gated = r.gated

BadgeTyped == clock \in Nat /\ issuedAt \in [BadgeIds -> Nat]

Past == [revoked : BOOLEAN, deleted : SUBSET BadgeIds, at : Nat]

(* What had ended when a request came in has still ended.                  *)
EndedStays(l, before) ==
    /\ before \in Past
    /\ before.at <= clock
    /\ \A b \in before.deleted : status[b] = "deleted"
    /\ before.revoked => link[l].revoked

(* Nothing that a view has read had ended when its request came in.        *)
ReadsOK(row, before) == ~before.revoked /\ before.at <= row.expiresAt
BadgeOK(row, before, b) ==
    /\ b \in row.badges \ before.deleted
    /\ OwnerOf[b] = row.owner /\ TypeOf[b] \notin RevocableTypes

ViewOK(v) ==
    LET view == viewing[v] IN
    view = NoView \/
        /\ view.link \in LinkIds /\ link[view.link] \in LinkRows
        /\ EndedStays(view.link, view.before)
        /\ view.pc # "link" =>
             /\ view.row \in LinkRows /\ SameLink(view.row, link[view.link])
             /\ ReadsOK(view.row, view.before)
        /\ view.pc = "mint" => \A b \in view.badges : BadgeOK(view.row, view.before, b)

ShownOK(s) ==
    /\ s.link \in LinkIds /\ link[s.link] \in LinkRows
    /\ ReadsOK(link[s.link], s.before)
    /\ \A b \in s.badges : BadgeOK(link[s.link], s.before, b)
    /\ <<s.link, SessionOf[s.to]>> \in linkView
    /\ link[s.link].gated => SessionOf[s.to] # Null

ShareTyped ==
    /\ link \in [LinkIds -> LinkRows \cup {Null}]
    /\ viewing = [v \in Viewers |-> viewing[v]]

ShareInv ==
    /\ BadgeTyped
    /\ ShareTyped
    /\ \A v \in Viewers : ViewOK(v)
    /\ \A s \in shown : ShownOK(s)

LEMMA BadgeTypedStep ==
    ASSUME BadgeConstants, BadgeTyped, BadgeNext
    PROVE  BadgeTyped'
<1>1. ASSUME NEW b \in BadgeIds, IssueBadge(b)
      PROVE  BadgeTyped'
  BY <1>1 DEF BadgeTyped, IssueBadge
<1>2. ASSUME NEW b \in BadgeIds, DeleteBadge(b)
      PROVE  BadgeTyped'
  BY <1>2 DEF BadgeTyped, DeleteBadge
<1>3. CASE ClockTick
  BY <1>3 DEF BadgeTyped, ClockTick
<1> QED
  BY <1>1, <1>2, <1>3 DEF BadgeNext

(* Time passes and badges are not undeleted.                               *)
Onward ==
    /\ clock' \in Nat /\ clock' >= clock
    /\ \A b \in BadgeIds : status[b] = "deleted" => status'[b] = "deleted"

LEMMA BadgesOnward ==
    ASSUME BadgeConstants, BadgeTyped, BadgeNext
    PROVE  Onward
<1>1. ASSUME NEW b \in BadgeIds, IssueBadge(b)
      PROVE  Onward
  BY <1>1 DEF BadgeTyped, IssueBadge, Onward
<1>2. ASSUME NEW b \in BadgeIds, DeleteBadge(b)
      PROVE  Onward
  BY <1>2 DEF BadgeTyped, DeleteBadge, Onward
<1>3. CASE ClockTick
  BY <1>3 DEF BadgeTyped, ClockTick, Onward
<1> QED
  BY <1>1, <1>2, <1>3 DEF BadgeNext

(* Rows that stay the same, or are only revoked, keep views and pages.     *)
LEMMA LinksKept ==
    ASSUME ShareInv, viewing' = viewing, shown' = shown, linkView' = linkView,
           ShareTyped', BadgeTyped', Onward,
           \A l \in LinkIds : link[l] \in LinkRows =>
              /\ link'[l] \in LinkRows /\ SameLink(link[l], link'[l])
              /\ link[l].revoked => link'[l].revoked
    PROVE  ShareInv'
<1>1. ASSUME NEW v \in Viewers
      PROVE  ViewOK(v)'
  <2>1. ViewOK(v) /\ BadgeTyped
    BY DEF ShareInv
  <2>2. CASE viewing[v] = NoView
    BY <2>2 DEF ViewOK
  <2>3. CASE viewing[v] # NoView
    <3> DEFINE view == viewing[v]
    <3>1. /\ view.link \in LinkIds /\ link[view.link] \in LinkRows
          /\ EndedStays(view.link, view.before)
          /\ view.pc # "link" =>
               /\ view.row \in LinkRows /\ SameLink(view.row, link[view.link])
               /\ ReadsOK(view.row, view.before)
          /\ view.pc = "mint" => \A b \in view.badges : BadgeOK(view.row, view.before, b)
      BY <2>1, <2>3, Zenon DEF ViewOK
    <3> HIDE DEF view
    <3>2. /\ link'[view.link] \in LinkRows /\ SameLink(link[view.link], link'[view.link])
          /\ EndedStays(view.link, view.before)'
      <4>1. link[view.link].revoked => link'[view.link].revoked
        BY <3>1
      <4>2. EndedStays(view.link, view.before)'
        <5> DEFINE l == view.link
                   w == view.before
        <5>1. l \in LinkIds /\ EndedStays(l, w) /\ (link[l].revoked => link'[l].revoked)
          BY <3>1, <4>1
        <5>2. view' = view
          BY DEF view
        <5> HIDE DEF l, w
        <5>3. /\ w \in Past /\ w.at <= clock /\ w.at \in Nat /\ w.deleted \subseteq BadgeIds
              /\ \A b \in w.deleted : status[b] = "deleted"
              /\ w.revoked => link[l].revoked
          BY <5>1 DEF EndedStays, Past
        <5>4. w.at <= clock' /\ (\A b \in w.deleted : status'[b] = "deleted")
              /\ (w.revoked => link'[l].revoked)
          BY <2>1, <5>1, <5>3 DEF Onward, BadgeTyped
        <5> QED
          BY <5>2, <5>3, <5>4 DEF EndedStays, l, w
      <4> QED
        BY <3>1, <4>2
    <3>3. view.pc # "link" => SameLink(view.row, link'[view.link])
      BY <3>1, <3>2 DEF SameLink
    <3>4. viewing'[v] = view
      BY DEF view
    <3> QED
      BY <3>1, <3>2, <3>3, <3>4 DEF ViewOK, view, ReadsOK, BadgeOK
  <2> QED
    BY <2>2, <2>3
<1>2. ASSUME NEW s \in shown
      PROVE  ShownOK(s)'
  <2>1. ShownOK(s)
    BY DEF ShareInv
  <2> QED
    BY <2>1 DEF ShownOK, SameLink, ReadsOK, BadgeOK
<1> QED
  BY <1>1, <1>2 DEF ShareInv

LEMMA Unmoved ==
    ASSUME BadgeTyped, UNCHANGED badgeVars
    PROVE  Onward /\ BadgeTyped'
BY DEF Onward, BadgeTyped, badgeVars

LEMMA CreateLinkStep ==
    ASSUME ShareConstants, ShareInv, NEW l \in LinkIds, NEW u \in Users,
           NEW B \in SUBSET BadgeIds, NEW ttl \in Ttls, NEW gated \in BOOLEAN,
           createShareLink(l, u, B, ttl, gated)
    PROVE  ShareInv'
<1> DEFINE row == [owner |-> u, badges |-> B, expiresAt |-> clock + ttl,
                   gated |-> gated, revoked |-> FALSE]
<1>1. clock + ttl \in Nat
  BY DEF ShareConstants, ShareInv, BadgeTyped
<1>2. row \in LinkRows
  BY <1>1 DEF LinkRows
<1>3. /\ link[l] = Null /\ link' = [link EXCEPT ![l] = row]
      /\ UNCHANGED <<badgeVars, viewing, linkView, shown>>
  BY DEF createShareLink
<1>4. link \in [LinkIds -> LinkRows \cup {Null}] /\ Null \notin LinkRows
  BY DEF ShareInv, ShareTyped, ShareConstants
<1> HIDE DEF row
<1>5. ShareTyped'
  BY <1>2, <1>3, <1>4 DEF ShareInv, ShareTyped
<1>6. BadgeTyped' /\ Onward
  BY <1>3, Unmoved DEF ShareInv
<1>7. \A k \in LinkIds : link[k] \in LinkRows => link'[k] = link[k]
  BY <1>3, <1>4
<1> QED
  BY <1>3, <1>5, <1>6, <1>7, LinksKept DEF SameLink

LEMMA RevokeLinkStep ==
    ASSUME ShareInv, NEW l \in LinkIds, revokeShareLink(l)
    PROVE  ShareInv'
<1>1. /\ link[l] # Null /\ link' = [link EXCEPT ![l].revoked = TRUE]
      /\ UNCHANGED <<badgeVars, viewing, linkView, shown>>
  BY DEF revokeShareLink
<1>2. link \in [LinkIds -> LinkRows \cup {Null}]
  BY DEF ShareInv, ShareTyped
<1>3. link[l] \in LinkRows
  BY <1>1, <1>2
<1>4. [link[l] EXCEPT !.revoked = TRUE] \in LinkRows
      /\ SameLink(link[l], [link[l] EXCEPT !.revoked = TRUE])
      /\ [link[l] EXCEPT !.revoked = TRUE].revoked
  BY <1>3 DEF LinkRows, SameLink
<1>5. link' = [link EXCEPT ![l] = [link[l] EXCEPT !.revoked = TRUE]]
  BY <1>1, <1>2
<1>6. ShareTyped'
  BY <1>1, <1>2, <1>4, <1>5 DEF ShareInv, ShareTyped
<1>7. BadgeTyped' /\ Onward
  BY <1>1, Unmoved DEF ShareInv
<1>8. ASSUME NEW k \in LinkIds, link[k] \in LinkRows
      PROVE  /\ link'[k] \in LinkRows /\ SameLink(link[k], link'[k])
             /\ link[k].revoked => link'[k].revoked
  <2>1. CASE k = l
    BY <2>1, <1>2, <1>4, <1>5
  <2>2. CASE k # l
    BY <2>2, <1>2, <1>5, <1>8 DEF SameLink
  <2> QED
    BY <2>1, <2>2
<1> QED
  BY <1>1, <1>6, <1>7, <1>8, LinksKept

(* A view moves on, and nothing is shown.                                  *)
LEMMA ViewStep ==
    ASSUME ShareInv, NEW v \in Viewers, NEW view,
           UNCHANGED <<badgeVars, link, linkView, shown>>,
           viewing' = [viewing EXCEPT ![v] = view],
           viewing'[v] = view => ViewOK(v)'
    PROVE  ShareInv'
<1>1. viewing'[v] = view /\ \A w \in Viewers \ {v} : viewing'[w] = viewing[w]
  BY DEF ShareInv, ShareTyped
<1>2. \A w \in Viewers : ViewOK(w)'
  <2>1. \A w \in Viewers \ {v} : ViewOK(w)
    BY DEF ShareInv
  <2> QED
    BY <1>1, <2>1 DEF ViewOK, SameLink, EndedStays, ReadsOK, BadgeOK, badgeVars
<1>3. ShareTyped'
  BY DEF ShareInv, ShareTyped
<1>4. BadgeTyped'
  BY Unmoved DEF ShareInv
<1>5. \A s \in shown' : ShownOK(s)'
  BY DEF ShareInv, ShownOK, ReadsOK, BadgeOK
<1> QED
  BY <1>2, <1>3, <1>4, <1>5 DEF ShareInv

LEMMA RequestPageStep ==
    ASSUME ShareConstants, ShareInv, NEW v \in Viewers, NEW l \in LinkIds, RequestPage(v, l)
    PROVE  ShareInv'
<1> DEFINE view == [pc |-> "link", link |-> l, before |-> Ended(l)]
<1>1. /\ link[l] # Null /\ viewing' = [viewing EXCEPT ![v] = view]
      /\ UNCHANGED <<badgeVars, link, linkView, shown>>
  BY DEF RequestPage
<1>2. link[l] \in LinkRows /\ clock \in Nat
  BY <1>1 DEF ShareInv, ShareTyped, BadgeTyped
<1>3. Ended(l) \in Past /\ EndedStays(l, Ended(l))
  <2>1. link[l].revoked \in BOOLEAN
    BY <1>2 DEF LinkRows
  <2> QED
    BY <1>2, <2>1 DEF EndedStays, Ended, Past
<1>4. EndedStays(l, Ended(l))'
  BY <1>1, <1>3 DEF EndedStays, Ended, badgeVars
<1>5. ASSUME viewing'[v] = view
      PROVE  ViewOK(v)'
  <2>1. view.pc = "link" /\ view.link = l /\ view.before = Ended(l)
    OBVIOUS
  <2>2. EndedStays(l, view.before)'
    BY <1>1, <1>3 DEF EndedStays, Ended, badgeVars
  <2> HIDE DEF view
  <2> QED
    BY <1>1, <1>2, <1>3, <1>5, <2>1 DEF ViewOK, EndedStays, badgeVars
<1> HIDE DEF view
<1> QED
  BY <1>1, <1>5, ViewStep

LEMMA ViewFacts ==
    ASSUME ShareInv, NEW v \in Viewers, viewing[v].pc \in {"link", "badges", "mint"}
    PROVE  /\ viewing[v].link \in LinkIds /\ link[viewing[v].link] \in LinkRows
           /\ EndedStays(viewing[v].link, viewing[v].before)
           /\ viewing[v].pc # "link" =>
                /\ viewing[v].row \in LinkRows
                /\ SameLink(viewing[v].row, link[viewing[v].link])
                /\ ReadsOK(viewing[v].row, viewing[v].before)
           /\ viewing[v].pc = "mint" =>
                \A b \in viewing[v].badges : BadgeOK(viewing[v].row, viewing[v].before, b)
BY DEF ShareInv, ViewOK, NoView

LEMMA OpenLinkStep ==
    ASSUME ShareConstants, ShareInv, NEW v \in Viewers, OpenLink(v)
    PROVE  ShareInv'
<1> DEFINE old == viewing[v]
           row == link[old.link]
           read == [pc |-> "badges", link |-> old.link, before |-> old.before, row |-> row]
           view == IF Usable(row) THEN read ELSE NoView
<1>1. /\ old.pc = "link" /\ viewing' = [viewing EXCEPT ![v] = view]
      /\ UNCHANGED <<badgeVars, link, linkView, shown>>
  BY DEF OpenLink, ShareInv, ShareTyped
<1>2. old.link \in LinkIds /\ row \in LinkRows /\ EndedStays(old.link, old.before)
  BY <1>1, ViewFacts
<1>3. ASSUME viewing'[v] = view
      PROVE  ViewOK(v)'
  <2>1. CASE Usable(row)
    <3>1. row.expiresAt \in Nat /\ clock \in Nat /\ old.before.at \in Nat
          /\ old.before.at <= clock /\ (old.before.revoked => row.revoked)
      BY <1>2 DEF EndedStays, Past, LinkRows, ShareInv, BadgeTyped
    <3>2. ReadsOK(row, old.before)
      BY <2>1, <3>1 DEF Usable, ReadsOK
    <3>3. view = read
      BY <2>1
    <3>4. /\ read.pc = "badges" /\ read.link = old.link /\ read.before = old.before
          /\ read.row = row
      OBVIOUS
    <3> HIDE DEF read, view, row
    <3>5. viewing'[v] = read
      BY <1>3, <3>3
    <3>6. row = link[old.link]
      BY DEF row
    <3> HIDE DEF old
    <3> QED
      BY <1>1, <1>2, <3>2, <3>4, <3>5, <3>6
         DEF ViewOK, SameLink, EndedStays, ReadsOK, badgeVars
  <2>2. CASE ~Usable(row)
    BY <1>3, <2>2 DEF ViewOK
  <2> QED
    BY <2>1, <2>2
<1> HIDE DEF view
<1> QED
  BY <1>1, <1>3, ViewStep

LEMMA ReadBadgesStep ==
    ASSUME BadgeConstants, ShareInv, NEW v \in Viewers, ReadBadges(v)
    PROVE  ShareInv'
<1> DEFINE old == viewing[v]
           B == {b \in old.row.badges \cap Held(old.row.owner) : TypeOf[b] \notin RevocableTypes}
           view == [pc |-> "mint", link |-> old.link, before |-> old.before,
                    row |-> old.row, badges |-> B]
<1>1. old.pc = "badges" /\ viewing' = [viewing EXCEPT ![v] = view]
      /\ UNCHANGED <<badgeVars, link, linkView, shown>>
  BY DEF ReadBadges, ShareInv, ShareTyped
<1>2. /\ old.link \in LinkIds /\ link[old.link] \in LinkRows
      /\ EndedStays(old.link, old.before)
      /\ old.row \in LinkRows /\ SameLink(old.row, link[old.link])
      /\ ReadsOK(old.row, old.before)
  BY <1>1, ViewFacts
<1>3. ASSUME NEW b \in B
      PROVE  BadgeOK(old.row, old.before, b)
  <2>1. /\ b \in old.row.badges /\ status[b] = "held" /\ OwnerOf[b] = old.row.owner
        /\ TypeOf[b] \notin RevocableTypes
    BY DEF Held
  <2>2. b \notin old.before.deleted
    BY <2>1, <1>2 DEF EndedStays
  <2> QED
    BY <2>1, <2>2 DEF BadgeOK
<1>4. ASSUME viewing'[v] = view
      PROVE  ViewOK(v)'
  <2>1. /\ view.pc = "mint" /\ view.link = old.link /\ view.row = old.row
        /\ view.before = old.before /\ view.badges = B
    OBVIOUS
  <2> HIDE DEF view, B, old
  <2> QED
    BY <1>1, <1>2, <1>3, <1>4, <2>1
       DEF ViewOK, SameLink, EndedStays, ReadsOK, BadgeOK, badgeVars
<1> HIDE DEF view
<1> QED
  BY <1>1, <1>4, ViewStep

LEMMA ViewFailsStep ==
    ASSUME ShareInv, NEW v \in Viewers, ViewFails(v)
    PROVE  ShareInv'
<1>1. /\ viewing' = [viewing EXCEPT ![v] = NoView]
      /\ UNCHANGED <<badgeVars, link, linkView, shown>>
  BY DEF ViewFails
<1>2. viewing'[v] = NoView => ViewOK(v)'
  BY DEF ViewOK
<1> QED
  BY <1>1, <1>2, ViewStep

LEMMA RenderLinkStep ==
    ASSUME ShareInv, NEW v \in Viewers, RenderLink(v)
    PROVE  ShareInv'
<1> DEFINE old == viewing[v]
           page(B) == [link |-> old.link, badges |-> B, to |-> v, before |-> old.before]
<1>1. /\ old.pc = "mint" /\ viewing' = [viewing EXCEPT ![v] = NoView]
      /\ linkView' = linkView \cup {<<old.link, SessionOf[v]>>}
      /\ UNCHANGED <<badgeVars, link>>
  BY DEF RenderLink
<1>2. PICK B \in SUBSET old.badges :
         shown' = IF old.row.gated /\ SessionOf[v] = Null THEN shown
                  ELSE shown \cup {page(B)}
  BY DEF RenderLink, Reminted
<1>3. /\ old.link \in LinkIds /\ link[old.link] \in LinkRows
      /\ old.row \in LinkRows /\ SameLink(old.row, link[old.link])
      /\ ReadsOK(old.row, old.before)
      /\ \A b \in old.badges : BadgeOK(old.row, old.before, b)
  BY <1>1, ViewFacts
<1>4. \A s \in shown : ShownOK(s)'
  BY <1>1 DEF ShareInv, ShownOK, ReadsOK, BadgeOK
<1>5. ASSUME NEW s, s = page(B), ~(old.row.gated /\ SessionOf[v] = Null)
      PROVE  ShownOK(s)'
  <2>1. s.link = old.link /\ s.badges = B /\ s.to = v /\ s.before = old.before
    BY <1>5
  <2>2. link' = link
    BY <1>1
  <2>3. /\ s.link \in LinkIds /\ link[s.link] \in LinkRows
        /\ SameLink(old.row, link[s.link])
        /\ ReadsOK(old.row, s.before) /\ \A b \in s.badges : BadgeOK(old.row, s.before, b)
        /\ <<s.link, SessionOf[s.to]>> \in linkView'
        /\ old.row.gated => SessionOf[s.to] # Null
    BY <1>1, <1>2, <1>3, <1>5, <2>1
  <2> QED
    BY <2>2, <2>3 DEF ShownOK, SameLink, ReadsOK, BadgeOK
<1>6. \A s \in shown' : ShownOK(s)'
  BY <1>2, <1>4, <1>5
<1>7. viewing'[v] = NoView /\ \A w \in Viewers \ {v} : viewing'[w] = viewing[w]
  BY <1>1 DEF ShareInv, ShareTyped
<1>8. \A w \in Viewers : ViewOK(w)'
  BY <1>1, <1>7 DEF ShareInv, ViewOK, SameLink, EndedStays, ReadsOK, BadgeOK, badgeVars
<1>9. ShareTyped' /\ BadgeTyped'
  BY <1>1, Unmoved DEF ShareInv, ShareTyped
<1> QED
  BY <1>6, <1>8, <1>9 DEF ShareInv

LEMMA ShareStepOK ==
    ASSUME BadgeConstants, ShareConstants, ShareInv,
           \/ ShareNext
           \/ UNCHANGED shareVars /\ (BadgeNext \/ UNCHANGED badgeVars)
    PROVE  ShareInv'
<1>1. CASE ShareNext
  BY <1>1, CreateLinkStep, RevokeLinkStep, RequestPageStep, OpenLinkStep, ReadBadgesStep,
     RenderLinkStep, ViewFailsStep DEF ShareNext
<1>2. CASE UNCHANGED shareVars /\ (BadgeNext \/ UNCHANGED badgeVars)
  <2>1. BadgeTyped' /\ Onward
    <3>1. BadgeTyped
      BY DEF ShareInv
    <3>2. CASE BadgeNext
      BY <3>1, <3>2, BadgeTypedStep, BadgesOnward
    <3>3. CASE UNCHANGED badgeVars
      BY <3>1, <3>3, Unmoved
    <3> QED
      BY <1>2, <3>2, <3>3
  <2>2. link' = link /\ viewing' = viewing /\ shown' = shown /\ linkView' = linkView
    BY <1>2 DEF shareVars
  <2>3. ShareTyped'
    BY <2>2 DEF ShareInv, ShareTyped
  <2> QED
    BY <2>1, <2>2, <2>3, LinksKept DEF SameLink
<1> QED
  BY <1>1, <1>2

(* However long a view takes and whatever happens to the link and to the   *)
(* badges meanwhile, the page shows nothing that had ended when it was     *)
(* asked for, only badges of the link and of its owner, and only after the *)
(* view was recorded and the account gate passed (loadShareLinkByToken,    *)
(* SharePage).                                                             *)
THEOREM PagesAreCurrent == Spec => []NoStalePage
<1>1. Init => ShareInv
  <2> SUFFICES ASSUME Init
               PROVE  ShareInv
    OBVIOUS
  <2>1. /\ link = [l \in LinkIds |-> Null] /\ viewing = [v \in Viewers |-> NoView] /\ shown = {}
        /\ clock = 0 /\ issuedAt = [b \in BadgeIds |-> 0]
    BY DEF Init, ShareInit, BadgeInit
  <2>2. ShareTyped /\ BadgeTyped
    BY <2>1 DEF ShareTyped, BadgeTyped
  <2>3. \A v \in Viewers : ViewOK(v)
    BY <2>1 DEF ViewOK
  <2> QED
    BY <2>1, <2>2, <2>3 DEF ShareInv
<1>2. ShareInv /\ [Next]_vars => ShareInv'
  <2> SUFFICES ASSUME ShareInv, [Next]_vars
               PROVE  ShareInv'
    OBVIOUS
  <2>1. \/ ShareNext
        \/ UNCHANGED shareVars /\ (BadgeNext \/ UNCHANGED badgeVars)
    <3>1. CASE TableStep
      BY <3>1 DEF TableStep
    <3>2. CASE ScorerStep
      BY <3>2 DEF ScorerStep, SybilNext, updateSybilWeight, updateSybilCategoryCap,
                  saveBucketCutoffs, loadSybilScoringConfig
    <3>3. CASE StatisticsStep
      BY <3>3 DEF StatisticsStep, StatsNext, Start, ReadTotals, ReadValues, ReadCohort,
                  ReadBuckets, Commit, Stamp, Deploy, loadSybilScoringConfig
    <3>4. CASE ShareStep
      BY <3>4 DEF ShareStep
    <3>5. CASE LimiterStep \/ UNCHANGED vars
      BY <3>5 DEF LimiterStep, vars
    <3> QED
      BY <3>1, <3>2, <3>3, <3>4, <3>5 DEF Next
  <2> QED
    BY <2>1, BadgeConstants, ShareConstants, ShareStepOK
<1>3. ShareInv => NoStalePage
  BY DEF ShareInv, ShownOK, ReadsOK, BadgeOK, NoStalePage
<1> QED
  BY <1>1, <1>2, <1>3, PTL DEF Spec

-----------------------------------------------------------------------------
(* The transparency page.  Order and percentage are functions of what is   *)
(* printed; for the percentage, counts must be natural numbers.            *)

CountsOK(k) == k = Null \/ (k.num \in Nat /\ k.den \in Nat)

JobOK ==
    job.pc \in {"totals", "values", "cohort", "buckets", "commit"} =>
        /\ job = [pc |-> job.pc, manual |-> job.manual, now |-> job.now, rows |-> job.rows,
                  cohort |-> job.cohort, buckets |-> job.buckets]
        /\ CountsOK(job.cohort)

StatsInv == CountsOK(cohortStat) /\ JobOK

LEMMA SideCounts ==
    ASSUME BadgeConstants, NEW filter, NEW now
    PROVE  countCohortSide(filter, now) \in Nat
<1> DEFINE S == {u \in Users : \A c \in filter :
                   \E b \in Unexpired(now) \cap Held(u) :
                       TypeOf[b] = c.type /\ AttrOf[b] \in c.values}
<1>1. IsFiniteSet(S)
  <2>1. S \subseteq Users /\ IsFiniteSet(Users)
    BY DEF BadgeConstants
  <2> HIDE DEF S
  <2> QED
    BY <2>1, FS_Subset
<1>2. countCohortSide(filter, now) = Cardinality(S)
  BY DEF countCohortSide
<1> HIDE DEF S
<1> QED
  BY <1>1, <1>2, FS_CardinalityType

LEMMA StatsStepOK ==
    ASSUME BadgeConstants, StatsInv, StatsNext \/ UNCHANGED statsVars
    PROVE  StatsInv'
<1>1. ASSUME NEW manual \in BOOLEAN, Start(manual)
      PROVE  StatsInv'
  BY <1>1 DEF Start, StatsInv, JobOK, CountsOK
<1>2. CASE ReadTotals
  BY <1>2 DEF ReadTotals, StatsInv, JobOK, CountsOK
<1>3. CASE ReadValues
  BY <1>3 DEF ReadValues, StatsInv, JobOK, CountsOK
<1>4. CASE ReadCohort
  <2> DEFINE counted == [num |-> countCohortSide(CohortNum, job.now),
                         den |-> countCohortSide(CohortDen, job.now)]
             valid == ValidFilter(CohortNum) /\ ValidFilter(CohortDen)
  <2>1. CountsOK(counted)
    BY SideCounts DEF CountsOK
  <2>2. /\ job.pc = "cohort" /\ cohortStat' = cohortStat
        /\ job' = [job EXCEPT !.pc = "buckets", !.cohort = IF valid THEN counted ELSE @]
    BY <1>4 DEF ReadCohort
  <2> HIDE DEF counted, valid
  <2>3. CountsOK(IF valid THEN counted ELSE job.cohort)
    BY <2>1, <2>2 DEF StatsInv, JobOK
  <2> QED
    BY <2>2, <2>3 DEF StatsInv, JobOK
<1>5. CASE ReadBuckets
  BY <1>5 DEF ReadBuckets, StatsInv, JobOK, CountsOK
<1>6. CASE Commit
  BY <1>6 DEF Commit, StatsInv, JobOK, CountsOK, NoJob
<1>7. CASE Stamp
  BY <1>7 DEF Stamp, StatsInv, JobOK, CountsOK, NoJob
<1>8. ASSUME NEW a \in Allowlists, Deploy(a)
      PROVE  StatsInv'
  BY <1>8 DEF Deploy, StatsInv, JobOK, CountsOK, NoJob
<1>9. CASE UNCHANGED statsVars
  BY <1>9 DEF statsVars, StatsInv, JobOK, CountsOK
<1> QED
  BY <1>1, <1>2, <1>3, <1>4, <1>5, <1>6, <1>7, <1>8, <1>9 DEF StatsNext

LEMMA LowerBoundIs ==
    ASSUME StatsConstants, NEW n \in Nat
    PROVE  /\ publicCountLowerBound(n) \in Nat /\ publicCountLowerBound(n) <= n
           /\ n >= SuppressionK <=> publicCountLowerBound(n) >= SuppressionK
<1> DEFINE T == {l \in RangeLowers : l <= n}
<1>1. T \in SUBSET Nat /\ 0 \in T /\ SuppressionK \in Nat
      /\ (n >= SuppressionK => SuppressionK \in T) /\ \A l \in T : l <= n
  <2>1. \A l \in RangeLowers : l \in Nat
    BY DEF StatsConstants
  <2>2. 0 \in RangeLowers /\ SuppressionK \in RangeLowers
    BY DEF StatsConstants
  <2>3. 0 <= n
    OBVIOUS
  <2>4. T \in SUBSET Nat /\ \A l \in T : l <= n
    BY <2>1
  <2>5. SuppressionK \in Nat /\ (n >= SuppressionK => SuppressionK <= n)
    BY <2>1, <2>2
  <2> QED
    BY <2>2, <2>3, <2>4, <2>5
<1>2. publicCountLowerBound(n) = Max(T)
  BY DEF publicCountLowerBound
<1> HIDE DEF T
<1>3. Max(T) \in T /\ \A l \in T : Max(T) >= l
  BY <1>1, MaxIs
<1>4. Max(T) \in Nat /\ Max(T) <= n
  BY <1>1, <1>3
<1>5. n >= SuppressionK => Max(T) >= SuppressionK
  BY <1>1, <1>3
<1>6. Max(T) >= SuppressionK => n >= SuppressionK
  BY <1>1, <1>4
<1> QED
  BY <1>2, <1>4, <1>5, <1>6

PercentOf(n, d) ==
    IF n >= SuppressionK /\ d >= SuppressionK /\ d > 0
    THEN 5 * ((40 * n + d) \div (2 * d)) ELSE Null

LEMMA PercentFollows ==
    ASSUME StatsConstants, NEW num \in Nat, NEW den \in Nat
    PROVE  Percent(num, den) = PercentOf(publicCountLowerBound(num), publicCountLowerBound(den))
BY LowerBoundIs, Zenon DEF Percent, PercentOf

TypeOrder(totals) ==
    {<<p[1][1], p[2][1]>> : p \in {q \in totals \X totals : q[1][2] > q[2][2]}}

ValueOrder(values) ==
    {<<p[1].type, p[1].value, p[2].value>> :
       p \in {q \in values \X values : q[1].type = q[2].type /\ q[1].display > q[2].display}}

LEMMA TypeOrderFollows == Order.types = TypeOrder(Printed.totals)
<1> DEFINE show(r) == <<r.type, publicCountLowerBound(r.total)>>
           totals == {show(r) : r \in PublicTypes}
           order == {<<p[1].type, p[2].type>> : p \in
                       {q \in PublicTypes \X PublicTypes :
                          publicCountLowerBound(q[1].total) > publicCountLowerBound(q[2].total)}}
<1>1. Order.types = order
  BY DEF Order, publicSortKey
<1>2. Printed.totals = totals
  BY DEF Printed, publicCountDisplay
<1>3. ASSUME NEW x \in order
      PROVE  x \in TypeOrder(totals)
  <2>1. PICK r \in PublicTypes, s \in PublicTypes :
           publicCountLowerBound(r.total) > publicCountLowerBound(s.total) /\ x = <<r.type, s.type>>
    OBVIOUS
  <2>2. show(r) \in totals /\ show(s) \in totals /\ show(r)[2] > show(s)[2]
    BY <2>1
  <2>3. <<show(r), show(s)>> \in {q \in totals \X totals : q[1][2] > q[2][2]}
    BY <2>2
  <2>4. x = <<<<show(r), show(s)>>[1][1], <<show(r), show(s)>>[2][1]>>
    BY <2>1
  <2> HIDE DEF totals, show
  <2> QED
    BY <2>3, <2>4 DEF TypeOrder
<1>4. ASSUME NEW x \in TypeOrder(totals)
      PROVE  x \in order
  <2>1. PICK a \in totals, b \in totals : a[2] > b[2] /\ x = <<a[1], b[1]>>
    BY DEF TypeOrder
  <2>2. PICK r \in PublicTypes : a = show(r)
    OBVIOUS
  <2>3. PICK s \in PublicTypes : b = show(s)
    OBVIOUS
  <2>4. publicCountLowerBound(r.total) > publicCountLowerBound(s.total) /\ x = <<r.type, s.type>>
    BY <2>1, <2>2, <2>3
  <2>5. <<r, s>> \in {q \in PublicTypes \X PublicTypes :
                        publicCountLowerBound(q[1].total) > publicCountLowerBound(q[2].total)}
    BY <2>4
  <2> QED
    BY <2>4, <2>5
<1> HIDE DEF order, totals
<1> QED
  BY <1>1, <1>2, <1>3, <1>4

LEMMA ValueOrderFollows == Order.values = ValueOrder(Printed.values)
<1> DEFINE base == {q \in Table : q.value # Null /\ Shown(q)}
           show(r) == [type |-> r.type, value |-> r.value, display |-> publicCountLowerBound(r.count)]
           values == {show(r) : r \in base}
           order == {<<p[1].type, p[1].value, p[2].value>> : p \in
                       {q \in base \X base :
                          /\ q[1].type = q[2].type
                          /\ publicCountLowerBound(q[1].count) > publicCountLowerBound(q[2].count)}}
<1>1. Order.values = order
  BY DEF Order, publicSortKey
<1>2. Printed.values = values
  BY DEF Printed, PublicValues, publicCountDisplay
<1> HIDE DEF base
<1>3. ASSUME NEW x \in order
      PROVE  x \in ValueOrder(values)
  <2>1. PICK r \in base, s \in base :
           /\ r.type = s.type /\ publicCountLowerBound(r.count) > publicCountLowerBound(s.count)
           /\ x = <<r.type, r.value, s.value>>
    OBVIOUS
  <2>2. /\ show(r) \in values /\ show(s) \in values /\ show(r).display > show(s).display
        /\ show(r).type = show(s).type /\ x = <<show(r).type, show(r).value, show(s).value>>
    BY <2>1
  <2> HIDE DEF values, show
  <2>3. <<show(r), show(s)>> \in
          {q \in values \X values : q[1].type = q[2].type /\ q[1].display > q[2].display}
    BY <2>2
  <2>4. x = <<<<show(r), show(s)>>[1].type, <<show(r), show(s)>>[1].value,
              <<show(r), show(s)>>[2].value>>
    BY <2>2
  <2> QED
    BY <2>3, <2>4 DEF ValueOrder
<1>4. ASSUME NEW x \in ValueOrder(values)
      PROVE  x \in order
  <2>1. PICK a \in values, b \in values :
           a.type = b.type /\ a.display > b.display /\ x = <<a.type, a.value, b.value>>
    BY DEF ValueOrder
  <2>2. PICK r \in base : a = show(r)
    OBVIOUS
  <2>3. PICK s \in base : b = show(s)
    OBVIOUS
  <2>4. /\ r.type = s.type /\ publicCountLowerBound(r.count) > publicCountLowerBound(s.count)
        /\ x = <<r.type, r.value, s.value>>
    BY <2>1, <2>2, <2>3
  <2>5. <<r, s>> \in {q \in base \X base :
                        /\ q[1].type = q[2].type
                        /\ publicCountLowerBound(q[1].count) > publicCountLowerBound(q[2].count)}
    BY <2>4
  <2> QED
    BY <2>4, <2>5
<1> HIDE DEF order, values
<1> QED
  BY <1>1, <1>2, <1>3, <1>4

LEMMA OrderFollows ==
    Order = [types |-> TypeOrder(Printed.totals), values |-> ValueOrder(Printed.values)]
BY TypeOrderFollows, ValueOrderFollows DEF Order

LEMMA CohortPercent ==
    ASSUME StatsConstants, StatsInv
    PROVE  Percent(Cohort.num, Cohort.den) = PercentOf(Printed.cohort[1], Printed.cohort[2])
<1>1. Cohort.num \in Nat /\ Cohort.den \in Nat
  BY DEF StatsInv, CountsOK, Cohort
<1>2. /\ Printed.cohort[1] = publicCountLowerBound(Cohort.num)
      /\ Printed.cohort[2] = publicCountLowerBound(Cohort.den)
  BY DEF Printed, publicCountDisplay
<1> QED
  BY <1>1, <1>2, PercentFollows

(* Nobody who watches the public page learns of a change that stays within *)
(* the printed ranges: order and percentage follow from what is printed,   *)
(* for every set of ranges that has the suppression limit among its lower  *)
(* bounds (publicSortKey, buildPublicCohortRow).                           *)
THEOREM RangesHide == Spec => PublicHides
<1> DEFINE Page == PublicPage = [printed |-> Printed,
                     order |-> [types |-> TypeOrder(Printed.totals), values |-> ValueOrder(Printed.values)],
                     percent |-> PercentOf(Printed.cohort[1], Printed.cohort[2])]
<1>1. Init => StatsInv
  BY DEF Init, StatsInit, StatsInv, CountsOK, JobOK, NoJob
<1>2. StatsInv /\ [Next]_vars => StatsInv'
  <2> SUFFICES ASSUME StatsInv, [Next]_vars
               PROVE  StatsInv'
    OBVIOUS
  <2>1. StatsNext \/ UNCHANGED statsVars
    BY DEF Next, vars, TableStep, ScorerStep, StatisticsStep, ShareStep, LimiterStep
  <2> QED
    BY <2>1, BadgeConstants, StatsStepOK
<1>3. StatsInv => Page
  BY StatsConstants, OrderFollows, CohortPercent DEF PublicPage
<1>4. Page /\ Page' => (Printed' = Printed => PublicPage' = PublicPage)
  <2> HIDE DEF Page
  <2> SUFFICES ASSUME Page, Page', Printed' = Printed
               PROVE  PublicPage' = PublicPage
    OBVIOUS
  <2> QED
    BY Zenon DEF Page
<1> HIDE DEF Page
<1> QED
  BY <1>1, <1>2, <1>3, <1>4, PTL DEF Spec, PublicHides

-----------------------------------------------------------------------------
(* The scorer.  Induction over finite sets, given as the set of the sets   *)
(* that have the property.                                                 *)

LEMMA SetInduction ==
    ASSUME NEW U, IsFiniteSet(U), NEW P \in SUBSET (SUBSET U), {} \in P,
           \A S \in SUBSET U : S # {} /\ (\A x \in S : S \ {x} \in P) => S \in P
    PROVE  P = SUBSET U
<1> SUFFICES ASSUME NEW A \in SUBSET U, A \notin P
             PROVE  FALSE
  OBVIOUS
<1> DEFINE Bad == (SUBSET U) \ P
           T == {Cardinality(S) : S \in Bad}
<1>1. ASSUME NEW S \in SUBSET U
      PROVE  IsFiniteSet(S) /\ Cardinality(S) \in Nat
  BY FS_Subset, FS_CardinalityType
<1>2. T \in SUBSET Nat /\ T # {}
  <2>1. A \in Bad
    OBVIOUS
  <2>2. \A S \in Bad : Cardinality(S) \in Nat
    BY <1>1
  <2> QED
    BY <2>1, <2>2
<1>3. PICK n \in T : \A m \in T : n <= m
  <2> HIDE DEF T
  <2> QED
    BY <1>2, Least
<1>4. PICK S \in Bad : n = Cardinality(S)
  OBVIOUS
<1>5. S # {}
  OBVIOUS
<1>6. ASSUME NEW x \in S
      PROVE  S \ {x} \in P
  <2> SUFFICES ASSUME S \ {x} \notin P
               PROVE  FALSE
    OBVIOUS
  <2>1. S \ {x} \in Bad
    OBVIOUS
  <2>2. n <= Cardinality(S \ {x})
    BY <2>1, <1>3
  <2>3. Cardinality(S \ {x}) = Cardinality(S) - 1 /\ Cardinality(S) \in Nat
    BY <1>1, FS_RemoveElement
  <2> QED
    BY <2>2, <2>3, <1>4
<1> QED
  BY <1>5, <1>6

LEMMA FiniteMax ==
    ASSUME NEW U \in SUBSET Nat, IsFiniteSet(U), U # {}
    PROVE  Max(U) \in U /\ \A m \in U : Max(U) >= m
<1> DEFINE Top(S) == \E n \in S : \A m \in S : n >= m
           P == {S \in SUBSET U : S = {} \/ Top(S)}
<1>1. ASSUME NEW S \in SUBSET U, S # {}, \A x \in S : S \ {x} \in P
      PROVE  S \in P
  <2>1. PICK x \in S : TRUE
    BY <1>1
  <2>2. S \ {x} \in P
    BY <1>1
  <2>3. CASE S \ {x} = {}
    <3>1. \A m \in S : m = x
      BY <2>3
    <3>2. x \in Nat
      OBVIOUS
    <3>3. Top(S)
      BY <3>1, <3>2
    <3> QED
      BY <3>3
  <2>4. CASE Top(S \ {x})
    <3>1. PICK n \in S \ {x} : \A m \in S \ {x} : n >= m
      BY <2>4
    <3>2. n \in Nat /\ x \in Nat
      OBVIOUS
    <3>3. CASE n >= x
      <4>1. \A m \in S : n >= m
        BY <3>1, <3>3
      <4> QED
        BY <4>1
    <3>4. CASE x >= n
      <4>1. \A m \in S : x >= m
        <5>1. ASSUME NEW m \in S PROVE x >= m
          <6>1. m \in Nat /\ (m = x \/ n >= m)
            BY <3>1
          <6> QED
            BY <6>1, <3>2, <3>4
        <5> QED
          BY <5>1
      <4> QED
        BY <4>1
    <3> QED
      BY <3>2, <3>3, <3>4
  <2> QED
    BY <2>2, <2>3, <2>4
<1>2. P = SUBSET U
  <2>1. P \in SUBSET (SUBSET U) /\ {} \in P
    OBVIOUS
  <2> HIDE DEF P
  <2> QED
    BY <1>1, <2>1, SetInduction
<1>3. Top(U)
  <2>1. U \in P
    <3> HIDE DEF P
    <3> QED
      BY <1>2
  <2> QED
    BY <2>1
<1> QED
  BY <1>3 DEF Max

(* A finite family of weights can be listed largest first.                 *)
Descends(w, o) == \A i, j \in DOMAIN o : i < j => w[o[i]] >= w[o[j]]

ListsAll(o, S) ==
    /\ o \in [1..Cardinality(S) -> S]
    /\ \A i, j \in 1..Cardinality(S) : o[i] = o[j] => i = j
    /\ \A k \in S : \E i \in 1..Cardinality(S) : o[i] = k

LEMMA SmallestKey ==
    ASSUME NEW K, NEW w \in [K -> Nat], NEW S \in SUBSET K, S # {}
    PROVE  \E m \in S : \A k \in S : w[m] <= w[k]
<1> DEFINE T == {w[k] : k \in S}
<1>1. T \in SUBSET Nat /\ T # {}
  OBVIOUS
<1>2. PICK n \in T : \A m \in T : n <= m
  <2> HIDE DEF T
  <2> QED
    BY <1>1, Least
<1> QED
  BY <1>2

LEMMA ListedLast ==
    ASSUME NEW K, NEW w \in [K -> Nat], NEW S \in SUBSET K, IsFiniteSet(S), NEW m \in S,
           \A k \in S : w[m] <= w[k],
           NEW o, ListsAll(o, S \ {m}), Descends(w, o)
    PROVE  \E p : ListsAll(p, S) /\ Descends(w, p)
<1> DEFINE n == Cardinality(S)
           p == [i \in 1..n |-> IF i = n THEN m ELSE o[i]]
<1>1. Cardinality(S \ {m}) = n - 1 /\ n \in Nat /\ n >= 1
  <2>1. Cardinality(S \ {m}) = n - 1 /\ n \in Nat
    BY FS_RemoveElement, FS_CardinalityType
  <2>2. n # 0
    BY FS_EmptySet
  <2> HIDE DEF n
  <2> QED
    BY <2>1, <2>2
<1>2. /\ o \in [1..(n - 1) -> S \ {m}]
      /\ \A i, j \in 1..(n - 1) : o[i] = o[j] => i = j
      /\ \A k \in S \ {m} : \E i \in 1..(n - 1) : o[i] = k
  BY <1>1 DEF ListsAll
<1>3. \A i \in 1..n : i = n \/ i \in 1..(n - 1)
  <2> HIDE DEF n
  <2> QED
    BY <1>1
<1>4. n \in 1..n /\ n \notin 1..(n - 1) /\ \A i \in 1..(n - 1) : i \in 1..n /\ i # n
  <2> HIDE DEF n
  <2> QED
    BY <1>1
<1>5. DOMAIN o = 1..(n - 1)
  BY <1>2
<1> HIDE DEF n
<1>6. p[n] = m /\ \A i \in 1..(n - 1) : p[i] = o[i] /\ o[i] \in S /\ o[i] # m
  BY <1>2, <1>4
<1>7. p \in [1..n -> S]
  BY <1>2, <1>3
<1>8. DOMAIN p = 1..n
  OBVIOUS
<1> HIDE DEF p
<1>9. \A i, j \in 1..n : p[i] = p[j] => i = j
  BY <1>2, <1>3, <1>6
<1>10. \A k \in S : \E i \in 1..n : p[i] = k
  BY <1>2, <1>4, <1>6
<1>11. ASSUME NEW i \in 1..n, NEW j \in 1..n, i < j
       PROVE  w[p[i]] >= w[p[j]]
  <2>1. p[i] \in S /\ w[p[i]] \in Nat /\ w[m] \in Nat
    BY <1>7
  <2>2. i \in 1..(n - 1)
    BY <1>1, <1>3, <1>11
  <2>3. CASE j = n
    <3>1. w[m] <= w[p[i]]
      BY <2>1
    <3> QED
      BY <3>1, <2>1, <2>3, <1>6
  <2>4. CASE j \in 1..(n - 1)
    BY <2>2, <2>4, <1>5, <1>6, <1>11 DEF Descends
  <2> QED
    BY <2>3, <2>4, <1>3
<1>12. ListsAll(p, S)
  BY <1>7, <1>9, <1>10 DEF ListsAll, n
<1>13. Descends(w, p)
  BY <1>8, <1>11 DEF Descends
<1> QED
  BY <1>12, <1>13

LEMMA ListingExists ==
    ASSUME NEW K, IsFiniteSet(K), NEW w \in [K -> Nat]
    PROVE  \E o : ListsAll(o, K) /\ Descends(w, o)
<1> DEFINE Listed(S) == \E o : ListsAll(o, S) /\ Descends(w, o)
           P == {S \in SUBSET K : Listed(S)}
<1>1. {} \in P
  <2>1. Cardinality({}) = 0
    BY FS_EmptySet
  <2>2. <<>> \in [1..0 -> {}] /\ DOMAIN <<>> = {} /\ 1..0 = {}
    OBVIOUS
  <2>3. ListsAll(<<>>, {}) /\ Descends(w, <<>>)
    BY <2>1, <2>2 DEF ListsAll, Descends
  <2> QED
    BY <2>3
<1>2. ASSUME NEW S \in SUBSET K, S # {}, \A x \in S : S \ {x} \in P
      PROVE  S \in P
  <2>1. PICK m \in S : \A k \in S : w[m] <= w[k]
    BY <1>2, SmallestKey
  <2>2. PICK o : ListsAll(o, S \ {m}) /\ Descends(w, o)
    BY <1>2
  <2>3. IsFiniteSet(S)
    BY FS_Subset
  <2> QED
    BY <2>1, <2>2, <2>3, ListedLast
<1>3. P = SUBSET K
  <2>1. P \in SUBSET (SUBSET K)
    OBVIOUS
  <2> HIDE DEF P
  <2> QED
    BY <1>1, <1>2, <2>1, SetInduction
<1>4. K \in P
  <2> HIDE DEF P
  <2> QED
    BY <1>3
<1> QED
  BY <1>4

(* memberWeights lists every family once, largest weight first.            *)
LEMMA MembersListed ==
    ASSUME NEW K, IsFiniteSet(K), NEW w \in [K -> Nat]
    PROVE  \E o : /\ ListsAll(o, K) /\ Descends(w, o)
                  /\ memberWeights(w) = [i \in 1..Cardinality(K) |-> w[o[i]]]
<1> DEFINE n == Cardinality(K)
           o == CHOOSE q \in Listings(w) :
                  \A i, j \in DOMAIN q : i < j => w[q[i]] >= w[q[j]]
<1>1. DOMAIN w = K
  OBVIOUS
<1>2. ASSUME NEW q
      PROVE  q \in Listings(w) <=> ListsAll(q, K)
  BY <1>1 DEF Listings, Bijection, Injection, Surjection, IsInjective, ListsAll
<1>3. PICK q : ListsAll(q, K) /\ Descends(w, q)
  BY ListingExists
<1>4. \E r \in Listings(w) : \A i, j \in DOMAIN r : i < j => w[r[i]] >= w[r[j]]
  BY <1>2, <1>3 DEF Descends
<1>5. o \in Listings(w) /\ Descends(w, o)
  BY <1>4 DEF Descends
<1>6. memberWeights(w) = [i \in DOMAIN o |-> w[o[i]]]
  BY DEF memberWeights
<1> HIDE DEF o
<1>7. ListsAll(o, K) /\ DOMAIN o = 1..n
  BY <1>2, <1>5 DEF ListsAll
<1> QED
  BY <1>5, <1>6, <1>7

(* Of two families of weights, the larger one has the larger weight at     *)
(* each place of its list.                                                 *)
LEMMA PlaceByPlace ==
    ASSUME NEW K, IsFiniteSet(K), NEW L \in SUBSET K,
           NEW v \in [L -> Nat], NEW w \in [K -> Nat], \A k \in L : v[k] <= w[k],
           NEW p, ListsAll(p, L), Descends(v, p),
           NEW q, ListsAll(q, K), Descends(w, q),
           NEW i \in 1..Cardinality(L), i \in 1..Cardinality(K)
    PROVE  v[p[i]] <= w[q[i]]
<1>1. /\ p \in [1..Cardinality(L) -> L] /\ q \in [1..Cardinality(K) -> K]
      /\ \A a, b \in 1..Cardinality(L) : p[a] = p[b] => a = b
      /\ \A k \in K : \E a \in 1..Cardinality(K) : q[a] = k
      /\ DOMAIN p = 1..Cardinality(L) /\ DOMAIN q = 1..Cardinality(K)
  BY DEF ListsAll
<1>2. IsFiniteSet(L) /\ Cardinality(L) \in Nat /\ Cardinality(K) \in Nat
  BY FS_Subset, FS_CardinalityType
<1>3. i \in Nat /\ i >= 1 /\ v[p[i]] \in Nat /\ w[q[i]] \in Nat
  <2>1. i \in Nat /\ i >= 1 /\ i <= Cardinality(L)
    BY <1>2
  <2>2. p[i] \in L /\ q[i] \in K
    BY <1>1
  <2> QED
    BY <2>1, <2>2
<1> SUFFICES ASSUME w[q[i]] < v[p[i]]
             PROVE  FALSE
  BY <1>3
<1> DEFINE place(k) == CHOOSE a \in 1..Cardinality(K) : q[a] = k
           f == [a \in 1..i |-> place(p[a])]
<1>4. ASSUME NEW a \in 1..i
      PROVE  place(p[a]) \in 1..(i - 1) /\ q[place(p[a])] = p[a]
  <2>1. a \in 1..Cardinality(L) /\ p[a] \in L /\ p[a] \in K
    <3>1. a \in 1..Cardinality(L)
      BY <1>2, <1>3
    <3> QED
      BY <3>1, <1>1
  <2>2. place(p[a]) \in 1..Cardinality(K) /\ q[place(p[a])] = p[a]
    BY <2>1, <1>1
  <2>3. v[p[a]] >= v[p[i]]
    <3>1. CASE a = i
      BY <3>1, <1>3
    <3>2. CASE a < i
      BY <3>2, <2>1, <1>1 DEF Descends
    <3> QED
      BY <3>1, <3>2, <1>3
  <2>4. v[p[a]] \in Nat /\ w[p[a]] \in Nat /\ v[p[a]] <= w[p[a]]
    BY <2>1
  <2>5. w[p[a]] > w[q[i]]
    BY <2>3, <2>4, <1>3
  <2> HIDE DEF place
  <2>6. ~(i < place(p[a])) /\ place(p[a]) # i
    <3>1. ASSUME i < place(p[a])
          PROVE  FALSE
      <4>1. w[q[i]] >= w[q[place(p[a])]]
        BY <3>1, <2>2, <1>1 DEF Descends
      <4> QED
        BY <4>1, <2>2, <2>4, <2>5, <1>3
    <3>2. place(p[a]) # i
      BY <2>2, <2>4, <2>5, <1>3
    <3> QED
      BY <3>1, <3>2
  <2>7. place(p[a]) \in Nat /\ place(p[a]) >= 1
    BY <2>2, <1>2
  <2>8. place(p[a]) <= i - 1
    BY <2>6, <2>7, <1>3
  <2> QED
    BY <2>2, <2>7, <2>8, <1>3
<1>5. f \in [1..i -> 1..(i - 1)]
  <2> HIDE DEF place
  <2> QED
    BY <1>4
<1>6. /\ IsFiniteSet(1..i) /\ Cardinality(1..i) = i
      /\ IsFiniteSet(1..(i - 1)) /\ Cardinality(1..(i - 1)) = i - 1
  <2>1. 1 \in Int /\ i \in Int /\ i - 1 \in Int /\ ~(1 > i)
        /\ i - 1 + 1 = i /\ (IF 1 > i - 1 THEN 0 ELSE (i - 1) - 1 + 1) = i - 1
    BY <1>3
  <2>2. IsFiniteSet(1..i) /\ Cardinality(1..i) = IF 1 > i THEN 0 ELSE i - 1 + 1
    BY <2>1, FS_Interval
  <2>3. IsFiniteSet(1..(i - 1))
        /\ Cardinality(1..(i - 1)) = IF 1 > i - 1 THEN 0 ELSE (i - 1) - 1 + 1
    BY <2>1, FS_Interval
  <2> QED
    BY <2>1, <2>2, <2>3
<1>7. \E a, b \in 1..i : a # b /\ f[a] = f[b]
  <2>1. Cardinality(1..(i - 1)) < Cardinality(1..i)
    BY <1>3, <1>6
  <2> HIDE DEF f
  <2> QED
    BY <2>1, <1>5, <1>6, FS_PigeonHole
<1>8. PICK a \in 1..i, b \in 1..i : a # b /\ f[a] = f[b]
  BY <1>7
<1>9. p[a] = p[b]
  <2>1. place(p[a]) = place(p[b])
    BY <1>8
  <2> HIDE DEF place
  <2> QED
    BY <2>1, <1>4
<1>10. a \in 1..Cardinality(L) /\ b \in 1..Cardinality(L)
  BY <1>2, <1>3
<1> QED
  BY <1>1, <1>8, <1>9, <1>10

LEMMA TwoToPositive ==
    ASSUME NEW n \in Nat
    PROVE  TwoTo(n) \in Nat \ {0}
<1> DEFINE V == Nat \ {0}
           step == [p \in Nat \X V |-> 2 * p[2]]
           body(f) == [i \in 0..n |-> IF i = 0 THEN 1 ELSE 2 * f[i - 1]]
           power == CHOOSE f : f = body(f)
<1>1. step \in [Nat \X V -> V] /\ 1 \in V
  OBVIOUS
<1>2. PICK g \in [0..n -> V] : Unfolds(g, n, 1, step)
  <2> HIDE DEF step, V
  <2> QED
    BY <1>1, Recursion
<1>3. ASSUME NEW i \in 0..n
      PROVE  g[i] = IF i = 0 THEN 1 ELSE 2 * g[i - 1]
  <2>1. CASE i = 0
    BY <2>1, <1>2 DEF Unfolds
  <2>2. CASE i \in 1..n
    <3>1. i \in Nat /\ i - 1 \in 0..n /\ i # 0
      BY <2>2
    <3>2. g[i - 1] \in V
      <4> HIDE DEF V
      <4> QED
        BY <3>1
    <3>3. g[i] = step[<<i, g[i - 1]>>]
      BY <2>2, <1>2 DEF Unfolds
    <3> QED
      BY <3>1, <3>2, <3>3
  <2> QED
    BY <2>1, <2>2
<1>4. g = body(g)
  <2>1. g = [i \in 0..n |-> g[i]]
    OBVIOUS
  <2> QED
    BY <2>1, <1>3, Zenon
<1>5. power = body(power)
  <2> HIDE DEF body
  <2> QED
    BY <1>4
<1>6. TwoTo(n) = power[n]
  BY DEF TwoTo
<1> HIDE DEF power
<1>7. ASSUME NEW i \in 0..n
      PROVE  power[i] = IF i = 0 THEN 1 ELSE 2 * power[i - 1]
  BY <1>5
<1> DEFINE P == {i \in 0..n : power[i] \in V}
<1>8. 0 \in P
  BY <1>7
<1>9. ASSUME NEW i \in P, i < n
      PROVE  i + 1 \in P
  <2>1. i + 1 \in 0..n /\ i + 1 # 0 /\ (i + 1) - 1 = i /\ power[i] \in V
    BY <1>9
  <2> QED
    BY <2>1, <1>7, SMTT(30)
<1>10. P = 0..n
  <2>1. P \in SUBSET (0..n)
    OBVIOUS
  <2> HIDE DEF P
  <2> QED
    BY <1>8, <1>9, <2>1, UpTo
<1>11. n \in P
  <2> HIDE DEF P
  <2> QED
    BY <1>10
<1> QED
  BY <1>6, <1>11

LEMMA DecayedRec ==
    ASSUME NEW list \in Seq(Nat)
    PROVE  \E s \in [0..Len(list) -> Nat] :
              /\ s[0] = 0
              /\ \A i \in 1..Len(list) :
                    s[i] = s[i - 1] + list[i] \div TwoTo(i - 1)
              /\ Decayed(list) = s[Len(list)]
<1> DEFINE n == Len(list)
           term == [i \in 1..n |-> list[i] \div TwoTo(i - 1)]
           step == [p \in Nat \X Nat |-> IF p[1] \in 1..n THEN p[2] + term[p[1]] ELSE p[2]]
           body(f) == [i \in 0..n |-> IF i = 0 THEN 0 ELSE f[i - 1] + list[i] \div TwoTo(i - 1)]
           sum == CHOOSE f : f = body(f)
<1>1. n \in Nat
  OBVIOUS
<1>2. ASSUME NEW i \in 1..n
      PROVE  term[i] \in Nat /\ term[i] = list[i] \div TwoTo(i - 1)
  <2>1. list[i] \in Nat /\ i - 1 \in Nat
    OBVIOUS
  <2>2. TwoTo(i - 1) \in Nat \ {0}
    BY <2>1, TwoToPositive
  <2>3. list[i] \div TwoTo(i - 1) \in Nat
    BY <2>1, <2>2, SMTT(30)
  <2> QED
    BY <2>3
<1> HIDE DEF n, term
<1>3. step \in [Nat \X Nat -> Nat]
  BY <1>2
<1>4. PICK g \in [0..n -> Nat] : Unfolds(g, n, 0, step)
  <2> HIDE DEF step
  <2> QED
    BY <1>1, <1>3, Recursion
<1>5. ASSUME NEW i \in 1..n
      PROVE  g[i] = g[i - 1] + list[i] \div TwoTo(i - 1)
  <2>1. i \in Nat /\ i - 1 \in 0..n
    BY <1>1
  <2>2. g[i - 1] \in Nat
    BY <2>1
  <2>3. g[i] = step[<<i, g[i - 1]>>]
    BY <1>4 DEF Unfolds
  <2>4. g[i] = g[i - 1] + term[i]
    BY <2>1, <2>2, <2>3
  <2> QED
    BY <2>4, <1>2
<1>6. g = body(g)
  <2>1. g = [i \in 0..n |-> g[i]]
    OBVIOUS
  <2>2. ASSUME NEW i \in 0..n
        PROVE  g[i] = IF i = 0 THEN 0 ELSE g[i - 1] + list[i] \div TwoTo(i - 1)
    <3>1. CASE i = 0
      BY <3>1, <1>4 DEF Unfolds
    <3>2. CASE i \in 1..n
      <4>1. i # 0
        BY <3>2, <1>1
      <4> QED
        BY <4>1, <3>2, <1>5
    <3> QED
      BY <3>1, <3>2, <1>1
  <2> QED
    BY <2>1, <2>2, Zenon
<1>7. sum = body(sum)
  <2> HIDE DEF body
  <2> QED
    BY <1>6
<1>8. Decayed(list) = sum[n]
  BY DEF Decayed, n
<1> HIDE DEF sum
<1>9. ASSUME NEW i \in 0..n
      PROVE  sum[i] = IF i = 0 THEN 0 ELSE sum[i - 1] + list[i] \div TwoTo(i - 1)
  BY <1>7
<1> DEFINE P == {i \in 0..n : sum[i] = g[i]}
<1>10. 0 \in P
  <2>1. 0 \in 0..n
    BY <1>1
  <2> QED
    BY <2>1, <1>9, <1>4 DEF Unfolds
<1>11. ASSUME NEW i \in P, i < n
       PROVE  i + 1 \in P
  <2>1. i + 1 \in 0..n /\ i + 1 \in 1..n /\ i + 1 # 0 /\ (i + 1) - 1 = i /\ sum[i] = g[i]
    BY <1>1, <1>11
  <2> QED
    BY <2>1, <1>5, <1>9
<1>12. P = 0..n
  <2>1. P \in SUBSET (0..n)
    OBVIOUS
  <2> HIDE DEF P
  <2> QED
    BY <1>1, <1>10, <1>11, <2>1, UpTo
<1>13. n \in P
  <2> HIDE DEF P
  <2> QED
    BY <1>1, <1>12
<1>14. Decayed(list) = g[n]
  BY <1>8, <1>13
<1>15. g[0] = 0
  BY <1>4 DEF Unfolds
<1> QED
  BY <1>5, <1>14, <1>15 DEF n

LEMMA Quotients ==
    ASSUME NEW a \in Nat, NEW b \in Nat, a <= b, NEW d \in Nat \ {0}
    PROVE  a \div d \in Nat /\ b \div d \in Nat /\ a \div d <= b \div d
<1>1. a \div d \in Nat /\ b \div d \in Nat
  OBVIOUS
<1>2. a \div d <= b \div d
  OBVIOUS
<1> QED
  BY <1>1, <1>2

(* A longer list with larger weights decays to a larger sum.               *)
LEMMA DecayedMonotone ==
    ASSUME NEW a \in Seq(Nat), NEW b \in Seq(Nat), Len(a) <= Len(b),
           \A i \in 1..Len(a) : a[i] <= b[i]
    PROVE  Decayed(a) \in Nat /\ Decayed(b) \in Nat /\ Decayed(a) <= Decayed(b)
<1> DEFINE m == Len(a)
           n == Len(b)
<1>1. PICK s \in [0..m -> Nat] :
         /\ s[0] = 0 /\ Decayed(a) = s[m]
         /\ \A i \in 1..m : s[i] = s[i - 1] + a[i] \div TwoTo(i - 1)
  BY DecayedRec
<1>2. PICK t \in [0..n -> Nat] :
         /\ t[0] = 0 /\ Decayed(b) = t[n]
         /\ \A i \in 1..n : t[i] = t[i - 1] + b[i] \div TwoTo(i - 1)
  BY DecayedRec
<1>3. m \in Nat /\ n \in Nat /\ m <= n
      /\ (\A i \in 1..m : a[i] \in Nat /\ a[i] <= b[i]) /\ \A i \in 1..n : b[i] \in Nat
  OBVIOUS
<1> HIDE DEF m, n
<1> DEFINE at(i) == IF i <= m THEN i ELSE m
           P == {i \in 0..n : s[at(i)] <= t[i]}
<1>4. 0 \in P
  BY <1>1, <1>2, <1>3
<1>5. ASSUME NEW i \in P, i < n
      PROVE  i + 1 \in P
  <2>1. i \in Nat /\ i + 1 \in 0..n /\ i + 1 \in 1..n /\ (i + 1) - 1 = i /\ s[at(i)] <= t[i]
        /\ i \in 0..n
    BY <1>3, <1>5
  <2>2. TwoTo(i) \in Nat \ {0} /\ b[i + 1] \in Nat /\ t[i] \in Nat
    BY <2>1, <1>3, TwoToPositive
  <2>3. t[i + 1] = t[i] + b[i + 1] \div TwoTo(i) /\ b[i + 1] \div TwoTo(i) \in Nat
    <3>1. b[i + 1] <= b[i + 1]
      BY <2>2
    <3> QED
      BY <2>1, <2>2, <3>1, <1>2, Quotients, Zenon
  <2>4. CASE i < m
    <3>1. i + 1 \in 1..m /\ at(i) = i /\ at(i + 1) = i + 1 /\ i \in 0..m
      BY <2>1, <2>4, <1>3
    <3>2. a[i + 1] \in Nat /\ a[i + 1] <= b[i + 1] /\ s[i] \in Nat
      BY <3>1, <1>3
    <3>3. s[i + 1] = s[i] + a[i + 1] \div TwoTo(i)
      BY <3>1, <2>1, <1>1, Zenon
    <3>4. /\ a[i + 1] \div TwoTo(i) \in Nat
          /\ a[i + 1] \div TwoTo(i) <= b[i + 1] \div TwoTo(i)
      BY <3>2, <2>2, Quotients, Zenon
    <3>5. s[i + 1] <= t[i + 1]
      <4>1. s[i] <= t[i]
        BY <2>1, <3>1
      <4> QED
        BY <4>1, <3>2, <3>3, <3>4, <2>2, <2>3, SMTT(30)
    <3> QED
      BY <3>1, <3>5, <2>1
  <2>5. CASE ~(i < m)
    <3>1. at(i) = m /\ at(i + 1) = m /\ s[m] \in Nat
      BY <2>1, <2>5, <1>3
    <3>2. s[m] <= t[i + 1]
      BY <3>1, <2>1, <2>2, <2>3, SMTT(30)
    <3> QED
      BY <3>1, <3>2, <2>1
  <2> QED
    BY <2>4, <2>5
<1>6. P = 0..n
  <2>1. P \in SUBSET (0..n)
    OBVIOUS
  <2> HIDE DEF P
  <2> QED
    BY <1>3, <1>4, <1>5, <2>1, UpTo
<1>7. n \in P
  <2> HIDE DEF P
  <2> QED
    BY <1>3, <1>6
<1>8. at(n) = m /\ m \in 0..m /\ n \in 0..n
  BY <1>3
<1>9. s[m] \in Nat /\ t[n] \in Nat /\ s[m] <= t[n]
  BY <1>7, <1>8
<1> QED
  BY <1>1, <1>2, <1>9

(* The sum of a function over a finite set, as MapThenSumSet computes it.  *)
SumOver(f, S) == MapThenSumSet(LAMBDA c : f[c], S)

Picked(s) == CHOOSE x \in s : TRUE

SumsUp(g, f, S) ==
    \A s \in SUBSET S :
        g[s] = IF s = {} THEN 0 ELSE f[Picked(s)] + g[s \ {Picked(s)}]

LEMMA SumExists ==
    ASSUME NEW S, IsFiniteSet(S), NEW f \in [S -> Nat]
    PROVE  \E g \in [SUBSET S -> Nat] : SumsUp(g, f, S)
<1> DEFINE N == Cardinality(S)
           next(g) == [s \in SUBSET S |-> IF s = {} THEN 0 ELSE f[Picked(s)] + g[s \ {Picked(s)}]]
           Good(n, g) == \A s \in SUBSET S : Cardinality(s) <= n => g[s] = next(g)[s]
           P == {n \in 0..N : \E g \in [SUBSET S -> Nat] : Good(n, g)}
<1>1. N \in Nat
  BY FS_CardinalityType
<1>2. ASSUME NEW s \in SUBSET S
      PROVE  IsFiniteSet(s) /\ Cardinality(s) \in Nat /\ Cardinality(s) <= N
  BY FS_Subset, FS_CardinalityType
<1>3. ASSUME NEW s \in SUBSET S, s # {}
      PROVE  /\ Picked(s) \in s /\ Picked(s) \in S /\ s \ {Picked(s)} \in SUBSET S
             /\ Cardinality(s \ {Picked(s)}) = Cardinality(s) - 1
  <2>1. Picked(s) \in s
    BY <1>3 DEF Picked
  <2> QED
    BY <2>1, <1>2, FS_RemoveElement
<1> HIDE DEF N
<1>4. ASSUME NEW g \in [SUBSET S -> Nat]
      PROVE  next(g) \in [SUBSET S -> Nat]
  BY <1>3
<1>5. 0 \in P
  <2> DEFINE g == [s \in SUBSET S |-> 0]
  <2>1. g \in [SUBSET S -> Nat]
    OBVIOUS
  <2>2. ASSUME NEW s \in SUBSET S, Cardinality(s) <= 0
        PROVE  g[s] = next(g)[s]
    <3>1. Cardinality(s) = 0
      BY <1>2, <2>2
    <3>2. s = {}
      BY <1>2, <3>1, FS_EmptySet
    <3> QED
      BY <3>2
  <2>3. Good(0, g)
    BY <2>2
  <2> HIDE DEF g, Good
  <2> QED
    BY <2>1, <2>3, <1>1
<1>6. ASSUME NEW n \in P, n < N
      PROVE  n + 1 \in P
  <2>1. PICK g \in [SUBSET S -> Nat] : Good(n, g)
    OBVIOUS
  <2> DEFINE h == next(g)
  <2>2. h \in [SUBSET S -> Nat] /\ n \in Nat /\ n + 1 \in 0..N
    <3>1. h \in [SUBSET S -> Nat]
      <4> HIDE DEF next
      <4> QED
        BY <1>4
    <3>2. n \in 0..N
      OBVIOUS
    <3> HIDE DEF h, P
    <3> QED
      BY <3>1, <3>2, <1>1, <1>6
  <2>3. ASSUME NEW s \in SUBSET S, Cardinality(s) <= n + 1
        PROVE  h[s] = next(h)[s]
    <3>1. CASE s = {}
      BY <3>1
    <3>2. CASE s # {}
      <4>1. s \ {Picked(s)} \in SUBSET S /\ Cardinality(s \ {Picked(s)}) <= n
        <5>1. Cardinality(s \ {Picked(s)}) = Cardinality(s) - 1 /\ s \ {Picked(s)} \in SUBSET S
          BY <1>3, <3>2
        <5> QED
          BY <5>1, <1>2, <2>2, <2>3
      <4>2. g[s \ {Picked(s)}] = h[s \ {Picked(s)}]
        <5> HIDE DEF next
        <5> QED
          BY <2>1, <4>1
      <4>3. h[s] = f[Picked(s)] + g[s \ {Picked(s)}]
        BY <3>2
      <4> HIDE DEF h
      <4>4. next(h)[s] = f[Picked(s)] + h[s \ {Picked(s)}]
        BY <3>2
      <4> QED
        BY <4>2, <4>3, <4>4
    <3> QED
      BY <3>1, <3>2
  <2>4. Good(n + 1, h)
    <3> HIDE DEF h, next
    <3> QED
      BY <2>3
  <2> HIDE DEF h, Good
  <2> QED
    BY <2>2, <2>4
<1>7. P = 0..N
  <2>1. P \in SUBSET (0..N)
    OBVIOUS
  <2> HIDE DEF P
  <2> QED
    BY <1>1, <1>5, <1>6, <2>1, UpTo
<1>8. N \in P
  <2> HIDE DEF P
  <2> QED
    BY <1>1, <1>7
<1>9. PICK g \in [SUBSET S -> Nat] : Good(N, g)
  BY <1>8
<1>10. ASSUME NEW s \in SUBSET S
       PROVE  g[s] = IF s = {} THEN 0 ELSE f[Picked(s)] + g[s \ {Picked(s)}]
  <2>1. g[s] = next(g)[s]
    <3> HIDE DEF next
    <3> QED
      BY <1>2, <1>9
  <2> QED
    BY <2>1
<1> QED
  BY <1>10 DEF SumsUp

LEMMA SumIs ==
    ASSUME NEW S, IsFiniteSet(S), NEW f \in [S -> Nat]
    PROVE  \E g : SumsUp(g, f, S) /\ SumOver(f, S) = g[S] /\ g = [s \in SUBSET S |-> g[s]]
<1> DEFINE body(g) == [s \in SUBSET S |->
                         IF s = {} THEN 0
                         ELSE f[CHOOSE x \in s : TRUE] + g[s \ {CHOOSE x \in s : TRUE}]]
           iter == CHOOSE g : g = body(g)
<1>1. PICK g \in [SUBSET S -> Nat] : SumsUp(g, f, S)
  BY SumExists
<1>2. g = body(g)
  <2>1. g = [s \in SUBSET S |-> g[s]]
    OBVIOUS
  <2> QED
    BY <2>1, <1>1, Zenon DEF SumsUp, Picked
<1>3. iter = body(iter)
  <2> HIDE DEF body
  <2> QED
    BY <1>2
<1>4. SumOver(f, S) = iter[S]
  BY DEF SumOver, MapThenSumSet, MapThenFoldSet
<1> HIDE DEF iter
<1>5. SumsUp(iter, f, S)
  BY <1>3, Zenon DEF SumsUp, Picked
<1>6. iter = [s \in SUBSET S |-> iter[s]]
  BY <1>3
<1> QED
  BY <1>4, <1>5, <1>6

LEMMA SumMonotone ==
    ASSUME NEW S, IsFiniteSet(S), NEW f \in [S -> Nat], NEW h \in [S -> Nat],
           \A x \in S : f[x] <= h[x]
    PROVE  SumOver(f, S) \in Nat /\ SumOver(h, S) \in Nat /\ SumOver(f, S) <= SumOver(h, S)
<1>1. PICK g : SumsUp(g, f, S) /\ SumOver(f, S) = g[S]
  BY SumIs
<1>2. PICK e : SumsUp(e, h, S) /\ SumOver(h, S) = e[S]
  BY SumIs
<1> DEFINE P == {s \in SUBSET S : g[s] \in Nat /\ e[s] \in Nat /\ g[s] <= e[s]}
<1>3. {} \in P
  <2>1. g[{}] = 0 /\ e[{}] = 0 /\ {} \in SUBSET S
    BY <1>1, <1>2, Zenon DEF SumsUp
  <2> QED
    BY <2>1
<1>4. ASSUME NEW s \in SUBSET S, s # {}, \A x \in s : s \ {x} \in P
      PROVE  s \in P
  <2> DEFINE x == Picked(s)
             r == s \ {x}
  <2>1. x \in s /\ x \in S
    BY <1>4 DEF Picked
  <2>2. g[s] = f[x] + g[r] /\ e[s] = h[x] + e[r]
    BY <1>1, <1>2, <1>4 DEF SumsUp
  <2>3. r \in P
    BY <1>4, <2>1
  <2> HIDE DEF x
  <2>4. f[x] \in Nat /\ h[x] \in Nat /\ f[x] <= h[x]
    BY <2>1
  <2>5. g[r] \in Nat /\ e[r] \in Nat /\ g[r] <= e[r]
    BY <2>3
  <2> HIDE DEF r
  <2> QED
    BY <2>2, <2>4, <2>5
<1>5. P = SUBSET S
  <2>1. P \in SUBSET (SUBSET S)
    OBVIOUS
  <2> HIDE DEF P
  <2> QED
    BY <1>3, <1>4, <2>1, SetInduction
<1>6. S \in P
  <2> HIDE DEF P
  <2> QED
    BY <1>5
<1> QED
  BY <1>1, <1>2, <1>6

(* What the score of a set of badges reads of a configuration.             *)
GoodConfig(cfg) ==
    /\ cfg.weights \in [WeightRows -> Nat]
    /\ cfg.caps \in [Categories -> Nat]
    /\ cfg.cutoffs.b1 \in Nat /\ cfg.cutoffs.b2 \in Nat /\ cfg.cutoffs.b3 \in Nat
    /\ cfg.cutoffs.b4 \in Nat /\ cfg.cutoffs.b3Cats \in Nat /\ cfg.cutoffs.b4Cats \in Nat

LEMMA WeightIsNat ==
    ASSUME NEW cfg, GoodConfig(cfg), NEW b
    PROVE  weightFor(cfg, b) \in Nat
<1> DEFINE chain == qualifierChain(b)
           found == {i \in DOMAIN chain : <<TypeOf[b], chain[i]>> \in WeightRows}
<1>1. weightFor(cfg, b) = IF found = {} THEN 0 ELSE cfg.weights[<<TypeOf[b], chain[Min(found)]>>]
  BY DEF weightFor
<1>2. found \in SUBSET Nat
  BY DEF qualifierChain
<1>3. CASE found # {}
  <2>1. Min(found) \in found
    <3> HIDE DEF found
    <3> QED
      BY <1>2, <1>3, MinIs
  <2>2. <<TypeOf[b], chain[Min(found)]>> \in WeightRows
    BY <2>1
  <2> HIDE DEF found, chain
  <2> QED
    BY <1>1, <1>3, <2>2 DEF GoodConfig
<1> HIDE DEF found
<1> QED
  BY <1>1, <1>3

(* The badges that count for a category, and the families they fall in.    *)
Keys(cfg, B, c) == {familyKey(b) : b \in Counted(cfg, B, c)}
WeightsOf(cfg, B, c, k) ==
    {weightFor(cfg, b) : b \in {d \in Counted(cfg, B, c) : familyKey(d) = k}}

LEMMA CountedGrows ==
    ASSUME NEW cfg, NEW B, NEW A \in SUBSET B, NEW c
    PROVE  Counted(cfg, A, c) \in SUBSET Counted(cfg, B, c) /\ Counted(cfg, B, c) \in SUBSET B
BY DEF Counted

(* The image of a finite set under a function is finite.                   *)
LEMMA ImageFinite ==
    ASSUME NEW S, IsFiniteSet(S), NEW f, f = [x \in S |-> f[x]]
    PROVE  IsFiniteSet({f[x] : x \in S})
<1>1. f \in Surjection(S, {f[x] : x \in S})
  BY DEF Surjection
<1> QED
  BY <1>1, FS_Surjection

LEMMA KeysFinite ==
    ASSUME NEW cfg, NEW B, IsFiniteSet(B), NEW c
    PROVE  IsFiniteSet(Keys(cfg, B, c))
<1> DEFINE S == Counted(cfg, B, c)
           f == [b \in S |-> familyKey(b)]
<1>1. S \in SUBSET B
  BY CountedGrows
<1>2. IsFiniteSet(S)
  <2> HIDE DEF S
  <2> QED
    BY <1>1, FS_Subset
<1>3. Keys(cfg, B, c) = {f[b] : b \in S}
  BY DEF Keys
<1>4. f = [b \in S |-> f[b]]
  OBVIOUS
<1> HIDE DEF S, f
<1> QED
  BY <1>2, <1>3, <1>4, ImageFinite

LEMMA WeightsFinite ==
    ASSUME NEW cfg, GoodConfig(cfg), NEW B, IsFiniteSet(B), NEW c, NEW k \in Keys(cfg, B, c)
    PROVE  /\ WeightsOf(cfg, B, c, k) \in SUBSET Nat
           /\ IsFiniteSet(WeightsOf(cfg, B, c, k)) /\ WeightsOf(cfg, B, c, k) # {}
<1> DEFINE S == {d \in Counted(cfg, B, c) : familyKey(d) = k}
           f == [b \in S |-> weightFor(cfg, b)]
<1>1. S \in SUBSET B
  BY CountedGrows
<1>2. IsFiniteSet(S)
  <2> HIDE DEF S
  <2> QED
    BY <1>1, FS_Subset
<1>3. WeightsOf(cfg, B, c, k) = {f[b] : b \in S}
  BY DEF WeightsOf
<1>4. f = [b \in S |-> f[b]]
  OBVIOUS
<1>5. S # {}
  BY DEF Keys
<1>6. WeightsOf(cfg, B, c, k) \in SUBSET Nat
  BY WeightIsNat DEF WeightsOf
<1> HIDE DEF S, f
<1> QED
  BY <1>2, <1>3, <1>4, <1>5, <1>6, ImageFinite

LEMMA FamilyWeightsAre ==
    ASSUME NEW cfg, NEW B, NEW c
    PROVE  FamilyWeights(cfg, B, c) = [k \in Keys(cfg, B, c) |-> Max(WeightsOf(cfg, B, c, k))]
BY Zenon DEF FamilyWeights, Keys, WeightsOf

LEMMA FamilyWeightsTyped ==
    ASSUME NEW cfg, GoodConfig(cfg), NEW B, IsFiniteSet(B), NEW c
    PROVE  FamilyWeights(cfg, B, c) \in [Keys(cfg, B, c) -> Nat]
<1>1. ASSUME NEW k \in Keys(cfg, B, c)
      PROVE  Max(WeightsOf(cfg, B, c, k)) \in Nat
  BY WeightsFinite, FiniteMax
<1> QED
  BY <1>1, FamilyWeightsAre

(* A family never loses weight by another badge.                           *)
LEMMA FamiliesGrow ==
    ASSUME NEW cfg, GoodConfig(cfg), NEW B, IsFiniteSet(B), NEW A \in SUBSET B, NEW c
    PROVE  /\ Keys(cfg, A, c) \in SUBSET Keys(cfg, B, c)
           /\ \A k \in Keys(cfg, A, c) :
                FamilyWeights(cfg, A, c)[k] <= FamilyWeights(cfg, B, c)[k]
<1>1. Counted(cfg, A, c) \in SUBSET Counted(cfg, B, c)
  BY CountedGrows
<1>2. Keys(cfg, A, c) \in SUBSET Keys(cfg, B, c)
  BY <1>1 DEF Keys
<1>3. IsFiniteSet(A)
  BY FS_Subset
<1>4. ASSUME NEW k \in Keys(cfg, A, c)
      PROVE  FamilyWeights(cfg, A, c)[k] <= FamilyWeights(cfg, B, c)[k]
  <2>1. WeightsOf(cfg, A, c, k) \in SUBSET WeightsOf(cfg, B, c, k)
    BY <1>1 DEF WeightsOf
  <2>2. Max(WeightsOf(cfg, A, c, k)) \in WeightsOf(cfg, A, c, k)
    BY <1>3, WeightsFinite, FiniteMax
  <2>3. k \in Keys(cfg, B, c)
    BY <1>2
  <2>4. \A m \in WeightsOf(cfg, B, c, k) : Max(WeightsOf(cfg, B, c, k)) >= m
    BY <2>3, WeightsFinite, FiniteMax
  <2>5. Max(WeightsOf(cfg, B, c, k)) >= Max(WeightsOf(cfg, A, c, k))
    BY <2>1, <2>2, <2>4
  <2>6. Max(WeightsOf(cfg, A, c, k)) \in Nat /\ Max(WeightsOf(cfg, B, c, k)) \in Nat
    BY <1>3, <2>3, WeightsFinite, FiniteMax
  <2>7. /\ FamilyWeights(cfg, A, c)[k] = Max(WeightsOf(cfg, A, c, k))
        /\ FamilyWeights(cfg, B, c)[k] = Max(WeightsOf(cfg, B, c, k))
    BY <2>3, FamilyWeightsAre
  <2> QED
    BY <2>5, <2>6, <2>7
<1> QED
  BY <1>2, <1>4

LEMMA ContributionGrows ==
    ASSUME NEW cfg, GoodConfig(cfg), NEW B, IsFiniteSet(B), NEW A \in SUBSET B,
           NEW c \in Categories
    PROVE  /\ Contribution(cfg, A, c) \in Nat /\ Contribution(cfg, B, c) \in Nat
           /\ Contribution(cfg, A, c) <= Contribution(cfg, B, c)
<1> DEFINE L == Keys(cfg, A, c)
           K == Keys(cfg, B, c)
           v == FamilyWeights(cfg, A, c)
           w == FamilyWeights(cfg, B, c)
           ll == memberWeights(v)
           kk == memberWeights(w)
<1>1. IsFiniteSet(A) /\ IsFiniteSet(L) /\ IsFiniteSet(K)
  <2>1. IsFiniteSet(A)
    BY FS_Subset
  <2> QED
    BY <2>1, KeysFinite
<1>2. L \in SUBSET K /\ \A k \in L : v[k] <= w[k]
  BY FamiliesGrow
<1>3. v \in [L -> Nat] /\ w \in [K -> Nat]
  BY <1>1, FamilyWeightsTyped
<1>4. cfg.caps[c] \in Nat
  BY DEF GoodConfig
<1>5. /\ Contribution(cfg, A, c) = IF Decayed(ll) < cfg.caps[c] THEN Decayed(ll) ELSE cfg.caps[c]
      /\ Contribution(cfg, B, c) = IF Decayed(kk) < cfg.caps[c] THEN Decayed(kk) ELSE cfg.caps[c]
  BY DEF Contribution
<1> HIDE DEF L, K, v, w
<1>6. PICK p : ListsAll(p, L) /\ Descends(v, p) /\ ll = [i \in 1..Cardinality(L) |-> v[p[i]]]
  BY <1>1, <1>3, MembersListed
<1>7. PICK q : ListsAll(q, K) /\ Descends(w, q) /\ kk = [i \in 1..Cardinality(K) |-> w[q[i]]]
  BY <1>1, <1>3, MembersListed
<1>8. Cardinality(L) \in Nat /\ Cardinality(K) \in Nat /\ Cardinality(L) <= Cardinality(K)
  BY <1>1, <1>2, FS_Subset, FS_CardinalityType
<1>9. p \in [1..Cardinality(L) -> L] /\ q \in [1..Cardinality(K) -> K]
  BY <1>6, <1>7 DEF ListsAll
<1> HIDE DEF ll, kk
<1>10. ll \in Seq(Nat) /\ kk \in Seq(Nat) /\ Len(ll) = Cardinality(L) /\ Len(kk) = Cardinality(K)
  <2>1. ll \in [1..Cardinality(L) -> Nat] /\ kk \in [1..Cardinality(K) -> Nat]
    BY <1>3, <1>6, <1>7, <1>9
  <2> QED
    BY <2>1, <1>8
<1>11. ASSUME NEW i \in 1..Len(ll)
       PROVE  ll[i] <= kk[i]
  <2>1. i \in 1..Cardinality(L) /\ i \in 1..Cardinality(K)
    BY <1>8, <1>10
  <2>2. v[p[i]] <= w[q[i]]
    BY <2>1, <1>1, <1>2, <1>3, <1>6, <1>7, PlaceByPlace
  <2> QED
    BY <2>1, <2>2, <1>6, <1>7
<1>12. Len(ll) <= Len(kk)
  BY <1>8, <1>10
<1>13. Decayed(ll) \in Nat /\ Decayed(kk) \in Nat /\ Decayed(ll) <= Decayed(kk)
  BY <1>10, <1>11, <1>12, DecayedMonotone
<1> QED
  BY <1>4, <1>5, <1>13

(* The score of a set, and of one that contains it.                        *)
BucketOf(k, raw, cats) ==
    IF raw >= k.b4 /\ cats >= k.b4Cats THEN 4
    ELSE IF raw >= k.b3 /\ cats >= k.b3Cats THEN 3
    ELSE IF raw >= k.b2 THEN 2
    ELSE IF raw >= k.b1 THEN 1
    ELSE 0

LEMMA ScoreGrows ==
    ASSUME NEW cfg, GoodConfig(cfg), NEW B, IsFiniteSet(B), NEW A \in SUBSET B
    PROVE  /\ sybilScore(cfg, A).raw <= sybilScore(cfg, B).raw
           /\ sybilScore(cfg, A).bucket <= sybilScore(cfg, B).bucket
<1> DEFINE f == [c \in Categories |-> Contribution(cfg, A, c)]
           h == [c \in Categories |-> Contribution(cfg, B, c)]
           Q == {c \in Categories : f[c] >= QualifyAt}
           R == {c \in Categories : h[c] >= QualifyAt}
           rawA == SumOver(f, Categories)
           rawB == SumOver(h, Categories)
           k == cfg.cutoffs
<1>1. f \in [Categories -> Nat] /\ h \in [Categories -> Nat] /\ \A c \in Categories : f[c] <= h[c]
  BY ContributionGrows
<1>2. /\ sybilScore(cfg, A) = [raw |-> rawA, cats |-> Cardinality(Q),
                               bucket |-> BucketOf(k, rawA, Cardinality(Q))]
      /\ sybilScore(cfg, B) = [raw |-> rawB, cats |-> Cardinality(R),
                               bucket |-> BucketOf(k, rawB, Cardinality(R))]
  BY DEF sybilScore, SumOver, BucketOf
<1> HIDE DEF f, h
<1>3. rawA \in Nat /\ rawB \in Nat /\ rawA <= rawB
  BY <1>1, SybilConstants, SumMonotone
<1>4. QualifyAt \in Nat /\ IsFiniteSet(Categories)
  BY SybilConstants
<1>5. Q \in SUBSET R /\ R \in SUBSET Categories
  BY <1>1, <1>4
<1> HIDE DEF Q, R, rawA, rawB
<1>6. Cardinality(Q) \in Nat /\ Cardinality(R) \in Nat /\ Cardinality(Q) <= Cardinality(R)
  BY <1>4, <1>5, FS_Subset, FS_CardinalityType
<1>7. BucketOf(k, rawA, Cardinality(Q)) <= BucketOf(k, rawB, Cardinality(R))
  BY <1>3, <1>6 DEF BucketOf, GoodConfig
<1> QED
  BY <1>2, <1>3, <1>7

(* What holds of the rows the admin edits and of the cached copy.          *)
SybilInv ==
    /\ rows = [k \in WeightRows |-> rows[k]] /\ \A k \in WeightRows : rows[k].weight \in Nat
    /\ caps \in [Categories -> Nat]
    /\ cutoffs \in CutoffChoices
    /\ config.known => GoodConfig(config)

LEMMA SybilInitOK == SybilInit => SybilInv
<1> SUFFICES ASSUME SybilInit
             PROVE  SybilInv
  OBVIOUS
<1>1. \A k \in WeightRows : InitialWeight[k] \in Nat
  BY SybilConstants
<1>2. rows = [k \in WeightRows |-> rows[k]] /\ \A k \in WeightRows : rows[k].weight \in Nat
  BY <1>1 DEF SybilInit
<1>3. Max(CapChoices) \in Nat
  BY SybilConstants DEF Max
<1>4. caps \in [Categories -> Nat]
  BY <1>3 DEF SybilInit
<1>5. cutoffs \in CutoffChoices
  BY SybilConstants DEF SybilInit
<1>6. config.known => GoodConfig(config)
  BY DEF SybilInit, NoConfig
<1> QED
  BY <1>2, <1>4, <1>5, <1>6 DEF SybilInv

LEMMA LoadStep ==
    ASSUME SybilInv, loadSybilScoringConfig
    PROVE  SybilInv'
<1>1. PICK category : config' = buildSybilScoringConfig(category)
  BY DEF loadSybilScoringConfig
<1>2. UNCHANGED <<rows, caps, cutoffs>>
  BY DEF loadSybilScoringConfig
<1>3. /\ config'.weights = [k \in WeightRows |-> rows[k].weight]
      /\ config'.caps = caps /\ config'.cutoffs = cutoffs
  BY <1>1 DEF buildSybilScoringConfig
<1>4. cutoffs \in [b1 : Nat, b2 : Nat, b3 : Nat, b4 : Nat, b3Cats : Nat, b4Cats : Nat]
  BY SybilConstants DEF SybilInv
<1>5. GoodConfig(config')
  BY <1>3, <1>4 DEF SybilInv, GoodConfig
<1> QED
  BY <1>2, <1>5 DEF SybilInv, GoodConfig

LEMMA SybilStepOK ==
    ASSUME SybilInv, [Next]_vars
    PROVE  SybilInv'
<1>1. ASSUME UNCHANGED sybilVars
      PROVE  SybilInv'
  BY <1>1 DEF SybilInv, sybilVars, GoodConfig
<1>2. CASE ScorerStep
  <2>1. ASSUME NEW k \in WeightRows, NEW w \in WeightChoices, NEW c \in Categories,
               updateSybilWeight(k, w, c)
        PROVE  SybilInv'
    <3>1. w \in Nat
      BY SybilConstants
    <3>2. rows' = [rows EXCEPT ![k] = [weight |-> w, category |-> c]]
      BY <2>1 DEF updateSybilWeight
    <3>3. rows' = [j \in WeightRows |-> rows'[j]] /\ \A j \in WeightRows : rows'[j].weight \in Nat
      BY <3>1, <3>2 DEF SybilInv
    <3>4. UNCHANGED <<caps, cutoffs, config>>
      BY <2>1 DEF updateSybilWeight
    <3> QED
      BY <3>3, <3>4 DEF SybilInv, GoodConfig
  <2>2. ASSUME NEW c \in Categories, NEW cap \in CapChoices, updateSybilCategoryCap(c, cap)
        PROVE  SybilInv'
    <3>1. cap \in Nat
      BY SybilConstants
    <3> QED
      BY <2>2, <3>1 DEF SybilInv, updateSybilCategoryCap, GoodConfig
  <2>3. ASSUME NEW c \in CutoffChoices, saveBucketCutoffs(c)
        PROVE  SybilInv'
    BY <2>3 DEF SybilInv, saveBucketCutoffs, GoodConfig
  <2>4. CASE loadSybilScoringConfig
    BY <2>4, LoadStep
  <2> QED
    BY <1>2, <2>1, <2>2, <2>3, <2>4 DEF ScorerStep, SybilNext
<1>3. CASE StatisticsStep
  <2>1. CASE loadSybilScoringConfig
    BY <2>1, LoadStep
  <2>2. CASE ~loadSybilScoringConfig
    <3>1. ASSUME NEW manual \in BOOLEAN, Start(manual)
          PROVE  UNCHANGED sybilVars
      BY <3>1 DEF Start
    <3>2. ASSUME ReadTotals \/ ReadValues \/ ReadCohort \/ Commit \/ Stamp
          PROVE  UNCHANGED sybilVars
      BY <3>2, Zenon DEF ReadTotals, ReadValues, ReadCohort, Commit, Stamp
    <3>3. ASSUME ReadBuckets
          PROVE  UNCHANGED sybilVars
      BY <2>2, <3>3, Zenon DEF ReadBuckets
    <3>4. ASSUME NEW a \in Allowlists, Deploy(a)
          PROVE  SybilInv'
      <4>1. UNCHANGED <<rows, caps, cutoffs>> /\ (config' = config \/ config' = NoConfig)
        BY <3>4, Zenon DEF Deploy
      <4>2. config' = NoConfig => ~config'.known
        BY DEF NoConfig
      <4> QED
        BY <4>1, <4>2, <1>1 DEF SybilInv, sybilVars
    <3> QED
      BY <1>1, <1>3, <3>1, <3>2, <3>3, <3>4 DEF StatisticsStep, StatsNext
  <2> QED
    BY <2>1, <2>2
<1>4. CASE TableStep \/ ShareStep \/ LimiterStep \/ UNCHANGED vars
  <2>1. UNCHANGED sybilVars
    BY <1>4 DEF TableStep, ShareStep, LimiterStep, vars
  <2> QED
    BY <2>1, <1>1
<1> QED
  BY <1>2, <1>3, <1>4 DEF Next

(* A badge never lowers its holder's score, whatever rows the admin has    *)
(* set and the scorer has cached: the scorer's families, its decay, its    *)
(* caps and its breadth floors are all monotone.                           *)
THEOREM NeverLowers == Spec => []MoreBadgesNeverLower
<1>1. Init => SybilInv
  BY SybilInitOK DEF Init
<1>2. SybilInv /\ [Next]_vars => SybilInv'
  BY SybilStepOK
<1>3. SybilInv => MoreBadgesNeverLower
  <2> SUFFICES ASSUME SybilInv, config.known, NEW u \in Users, NEW b \in Held(u)
               PROVE  /\ sybilScore(config, Held(u) \ {b}).raw <= sybilScore(config, Held(u)).raw
                      /\ sybilScore(config, Held(u) \ {b}).bucket
                           <= sybilScore(config, Held(u)).bucket
    BY Zenon DEF MoreBadgesNeverLower
  <2>1. IsFiniteSet(Held(u))
    <3>1. Held(u) \in SUBSET BadgeIds
      BY DEF Held
    <3> QED
      BY <3>1, BadgeConstants, FS_Subset
  <2>2. GoodConfig(config)
    BY DEF SybilInv
  <2>3. Held(u) \ {b} \in SUBSET Held(u)
    OBVIOUS
  <2> QED
    BY <2>1, <2>2, <2>3, ScoreGrows
<1> QED
  BY <1>1, <1>2, <1>3, PTL DEF Spec
=============================================================================
