---------------------------- MODULE RunQueueProofs ----------------------------
(***************************************************************************)
(* enqueue and schedule of ex51 keep a ring of any number of tasks, linked *)
(* both ways, through every pointer write and in every order of creations  *)
(* and yields; and the ring is the queue of ReadyQueue.                    *)
(***************************************************************************)
EXTENDS RunQueue, SequenceTheorems, WellFoundedInduction, TLAPS

\* q runs through tasks 0 to n - 1, each once, from the head along nx and back
\* along pv.
IsRing(q, n, head, nx, pv) ==
  /\ q \in [1 .. n -> 0 .. (n - 1)]
  /\ \A i, j \in 1 .. n : q[i] = q[j] => i = j
  /\ \A t \in 0 .. (n - 1) : \E i \in 1 .. n : q[i] = t
  /\ q[1] = head
  /\ \A i \in 1 .. (n - 1) : nx[q[i]] = q[i + 1] /\ pv[q[i + 1]] = q[i]
  /\ nx[q[n]] = q[1] /\ pv[q[1]] = q[n]

RingInv == nr_threads > 0 => IsRing(Ring, nr_threads, run_queue, next, prev)

IInv == TypeOK /\ RingInv

-----------------------------------------------------------------------------
(* The walk along next *)

\* A non-empty set of numbers has a least one.
LEMMA LeastNat ==
  ASSUME NEW T \in SUBSET Nat, T # {}
  PROVE  \E n \in T : \A m \in T : n <= m
<1> DEFINE R == OpToRel(<, Nat)
<1>1. IsWellFoundedOn(R, Nat)
  BY NatLessThanWellFounded
<1>2. \A m, n \in Nat : m < n => <<m, n>> \in R
  BY DEF OpToRel
<1> HIDE DEF R
<1>3. PICK n \in T : \A m \in T : ~ (<<m, n>> \in R)
  BY <1>1, WFMin
<1>4. \A m \in T : ~ (m < n)
  BY <1>2, <1>3
<1> QED BY <1>3, <1>4

\* Following nx from the head gives the ring, step by step.
LEMMA WalkIsRing ==
  ASSUME NEW n \in Nat \ {0}, NEW q, NEW head, NEW nx, NEW pv,
         IsRing(q, n, head, nx, pv)
  PROVE  LET walk[i \in 1 .. n] == IF i = 1 THEN head ELSE nx[walk[i - 1]]
         IN  walk = q
<1> DEFINE Step(w) == [i \in 1 .. n |-> IF i = 1 THEN head ELSE nx[w[i - 1]]]
           walk == CHOOSE w : w = Step(w)
<1>1. /\ q = [i \in 1 .. n |-> q[i]] /\ q[1] = head
      /\ \A i \in 1 .. (n - 1) : nx[q[i]] = q[i + 1]
  BY DEF IsRing
<1>2. q = Step(q)
  <2>1. ASSUME NEW i \in 1 .. n PROVE q[i] = IF i = 1 THEN head ELSE nx[q[i - 1]]
    <3>1. CASE i = 1
      BY <1>1, <3>1
    <3>2. CASE i # 1
      <4>1. i - 1 \in 1 .. (n - 1) /\ (i - 1) + 1 = i
        BY <2>1, <3>2
      <4>2. nx[q[i - 1]] = q[(i - 1) + 1]
        BY <1>1, <4>1
      <4> QED BY <3>2, <4>1, <4>2
    <3> QED BY <3>1, <3>2
  <2> QED BY <1>1, <2>1
<1>3. walk = Step(walk)
  BY <1>2
<1> HIDE DEF walk
<1>4. \A i \in 1 .. n : walk[i] = IF i = 1 THEN head ELSE nx[walk[i - 1]]
  BY <1>3
<1>5. ASSUME NEW i \in 1 .. n PROVE walk[i] = q[i]
  <2> DEFINE Wrong == {j \in 1 .. n : walk[j] # q[j]}
  <2> SUFFICES ASSUME Wrong # {} PROVE FALSE
    BY <1>5
  <2>1. Wrong \in SUBSET Nat
    OBVIOUS
  <2>2. PICK j \in Wrong : \A m \in Wrong : j <= m
    BY <2>1, LeastNat
  <2>3. j # 1
    BY <1>1, <1>4, <2>2
  <2>4. j - 1 \in 1 .. (n - 1) /\ j - 1 \in 1 .. n /\ (j - 1) + 1 = j /\ j \in 1 .. n
    BY <2>2, <2>3
  <2>5. walk[j - 1] = q[j - 1]
    BY <2>2, <2>4
  <2>6. walk[j] = nx[q[j - 1]]
    BY <1>4, <2>3, <2>4, <2>5
  <2>7. nx[q[j - 1]] = q[(j - 1) + 1]
    BY <1>1, <2>4
  <2> QED BY <2>2, <2>4, <2>6, <2>7
<1>6. walk = [i \in 1 .. n |-> walk[i]]
  BY <1>3
<1>7. walk = q
  BY <1>1, <1>5, <1>6
<1> QED BY <1>7 DEF walk

\* The ring of a state is the only one there is.
LEMMA RingIs ==
  ASSUME nr_threads \in Nat \ {0}, NEW q,
         IsRing(q, nr_threads, run_queue, next, prev)
  PROVE  Ring = q
BY WalkIsRing DEF Ring, RingFrom

-----------------------------------------------------------------------------
(* What the pointer writes make of a ring *)

\* enqueue of the first task: a ring of one.
LEMMA FirstTask ==
  ASSUME NEW D, 0 \in D, NEW nx, NEW pv, DOMAIN nx = D, DOMAIN pv = D
  PROVE  IsRing([i \in 1 .. 1 |-> 0], 1, 0, [nx EXCEPT ![0] = 0], [pv EXCEPT ![0] = 0])
BY DEF IsRing

\* enqueue of a further one: it comes in front, between the tail and the head.
LEMMA NewHead ==
  ASSUME NEW n \in Nat \ {0}, NEW q, NEW head, NEW nx, NEW pv,
         IsRing(q, n, head, nx, pv),
         NEW D, 0 .. n \subseteq D, DOMAIN nx = D, DOMAIN pv = D
  PROVE  IsRing([i \in 1 .. (n + 1) |-> IF i = 1 THEN n ELSE q[i - 1]], n + 1, n,
                [nx EXCEPT ![n] = head, ![pv[head]] = n],
                [pv EXCEPT ![n] = pv[head], ![head] = n])
<1> DEFINE r  == [i \in 1 .. (n + 1) |-> IF i = 1 THEN n ELSE q[i - 1]]
           nn == [nx EXCEPT ![n] = head, ![pv[head]] = n]
           np == [pv EXCEPT ![n] = pv[head], ![head] = n]
<1>1. /\ \A i \in 1 .. n : q[i] \in 0 .. (n - 1) /\ q[i] # n /\ q[i] \in D
      /\ \A i, j \in 1 .. n : q[i] = q[j] => i = j
      /\ q[1] = head /\ pv[head] = q[n] /\ n \in D /\ 1 \in 1 .. n /\ n \in 1 .. n
  BY DEF IsRing
<1>2. /\ nn[n] = q[1] /\ nn[q[n]] = n
      /\ \A i \in 1 .. (n - 1) : nn[q[i]] = q[i + 1]
  <2>1. \A i \in 1 .. (n - 1) : q[i] # q[n] /\ q[i] # n /\ nx[q[i]] = q[i + 1] /\ q[i] \in D
    BY <1>1 DEF IsRing
  <2> QED BY <1>1, <2>1
<1>3. /\ np[n] = q[n] /\ np[q[1]] = n
      /\ \A i \in 1 .. (n - 1) : np[q[i + 1]] = q[i]
  <2>1. \A i \in 1 .. (n - 1) : q[i + 1] # q[1] /\ q[i + 1] # n /\ pv[q[i + 1]] = q[i]
                                 /\ q[i + 1] \in D
    BY <1>1 DEF IsRing
  <2> QED BY <1>1, <2>1
<1> HIDE DEF nn, np
<1>4. /\ r \in [1 .. (n + 1) -> 0 .. ((n + 1) - 1)] /\ r[1] = n /\ r[n + 1] = q[n]
      /\ \A i \in 1 .. n : r[i + 1] = q[i]
      /\ \A i \in 2 .. (n + 1) : i - 1 \in 1 .. n /\ r[i] = q[i - 1]
  BY <1>1
<1> HIDE DEF r
<1>5. \A i, j \in 1 .. (n + 1) : r[i] = r[j] => i = j
  <2> SUFFICES ASSUME NEW i \in 1 .. (n + 1), NEW j \in 1 .. (n + 1), r[i] = r[j]
               PROVE  i = j
    OBVIOUS
  <2>1. CASE i = 1 \/ j = 1
    BY <1>1, <1>4, <2>1
  <2>2. CASE i # 1 /\ j # 1
    <3>1. i \in 2 .. (n + 1) /\ j \in 2 .. (n + 1)
      BY <2>2
    <3>2. q[i - 1] = q[j - 1] /\ i - 1 \in 1 .. n /\ j - 1 \in 1 .. n
      BY <1>4, <3>1
    <3>3. i - 1 = j - 1
      BY <1>1, <3>2
    <3> QED BY <3>3
  <2> QED BY <2>1, <2>2
<1>6. \A t \in 0 .. ((n + 1) - 1) : \E i \in 1 .. (n + 1) : r[i] = t
  <2> SUFFICES ASSUME NEW t \in 0 .. n PROVE \E i \in 1 .. (n + 1) : r[i] = t
    OBVIOUS
  <2>1. CASE t = n
    BY <1>4, <2>1
  <2>2. CASE t \in 0 .. (n - 1)
    <3>1. PICK i \in 1 .. n : q[i] = t
      BY <2>2 DEF IsRing
    <3>2. i + 1 \in 1 .. (n + 1) /\ r[i + 1] = t
      BY <1>4, <3>1
    <3> QED BY <3>2
  <2> QED BY <2>1, <2>2
<1>7. \A i \in 1 .. ((n + 1) - 1) : nn[r[i]] = r[i + 1] /\ np[r[i + 1]] = r[i]
  <2> SUFFICES ASSUME NEW i \in 1 .. n PROVE nn[r[i]] = r[i + 1] /\ np[r[i + 1]] = r[i]
    OBVIOUS
  <2>1. CASE i = 1
    BY <1>1, <1>2, <1>3, <1>4, <2>1
  <2>2. CASE i # 1
    <3>1. i - 1 \in 1 .. (n - 1) /\ (i - 1) + 1 = i /\ i \in 2 .. (n + 1)
      BY <2>2
    <3>2. r[i] = q[i - 1] /\ r[i + 1] = q[i]
      BY <1>4, <3>1
    <3>3. nn[q[i - 1]] = q[(i - 1) + 1] /\ np[q[(i - 1) + 1]] = q[i - 1]
      BY <1>2, <1>3, <3>1
    <3> QED BY <3>1, <3>2, <3>3
  <2> QED BY <2>1, <2>2
<1>8. nn[r[n + 1]] = r[1] /\ np[r[1]] = r[n + 1]
  BY <1>2, <1>3, <1>4
<1> QED BY <1>4, <1>5, <1>6, <1>7, <1>8 DEF IsRing, r, nn, np

\* The head yields: the ring is the same, entered one task further on.
LEMMA TurnedRing ==
  ASSUME NEW n \in Nat \ {0}, NEW q, NEW head, NEW nx, NEW pv,
         IsRing(q, n, head, nx, pv)
  PROVE  IsRing([i \in 1 .. n |-> IF i = n THEN q[1] ELSE q[i + 1]], n, nx[head], nx, pv)
<1> DEFINE r == [i \in 1 .. n |-> IF i = n THEN q[1] ELSE q[i + 1]]
<1>1. /\ \A i \in 1 .. n : q[i] \in 0 .. (n - 1)
      /\ \A i, j \in 1 .. n : q[i] = q[j] => i = j
      /\ q[1] = head /\ pv[head] = q[n] /\ 1 \in 1 .. n /\ n \in 1 .. n /\ nx[q[n]] = head
      /\ \A i \in 1 .. (n - 1) : nx[q[i]] = q[i + 1] /\ pv[q[i + 1]] = q[i]
  BY DEF IsRing
<1>2. /\ r \in [1 .. n -> 0 .. (n - 1)] /\ r[n] = q[1]
      /\ \A i \in 1 .. (n - 1) : r[i] = q[i + 1] /\ i + 1 \in 1 .. n
  BY <1>1
<1> HIDE DEF r
<1>3. r[1] = nx[head]
  <2>1. CASE n = 1
    BY <1>1, <1>2, <2>1
  <2>2. CASE n # 1
    <3>1. 1 \in 1 .. (n - 1)
      BY <2>2
    <3> QED BY <1>1, <1>2, <3>1
  <2> QED BY <2>1, <2>2
<1>4. \A i, j \in 1 .. n : r[i] = r[j] => i = j
  <2> SUFFICES ASSUME NEW i \in 1 .. n, NEW j \in 1 .. n, r[i] = r[j] PROVE i = j
    OBVIOUS
  <2>1. CASE i = n /\ j # n
    <3> DEFINE b == j + 1
    <3>1. r[j] = q[b] /\ b \in 1 .. n /\ r[i] = q[1] /\ b # 1
      BY <1>2, <2>1
    <3> HIDE DEF b
    <3>2. q[b] = q[1] /\ 1 \in 1 .. n
      BY <1>1, <3>1
    <3> QED BY <1>1, <3>1, <3>2
  <2>2. CASE j = n /\ i # n
    <3> DEFINE a == i + 1
    <3>1. r[i] = q[a] /\ a \in 1 .. n /\ r[j] = q[1] /\ a # 1
      BY <1>2, <2>2
    <3> HIDE DEF a
    <3>2. q[a] = q[1] /\ 1 \in 1 .. n
      BY <1>1, <3>1
    <3> QED BY <1>1, <3>1, <3>2
  <2>3. CASE i # n /\ j # n
    <3>1. r[i] = q[i + 1] /\ i + 1 \in 1 .. n /\ r[j] = q[j + 1] /\ j + 1 \in 1 .. n
      BY <1>2, <2>3
    <3> DEFINE a == i + 1
               b == j + 1
    <3>2. q[a] = q[b] /\ a \in 1 .. n /\ b \in 1 .. n
      BY <3>1
    <3> HIDE DEF a, b
    <3>3. a = b
      BY <1>1, <3>2
    <3> QED BY <3>3 DEF a, b
  <2> QED BY <2>1, <2>2, <2>3
<1>5. \A t \in 0 .. (n - 1) : \E i \in 1 .. n : r[i] = t
  <2> SUFFICES ASSUME NEW t \in 0 .. (n - 1) PROVE \E i \in 1 .. n : r[i] = t
    OBVIOUS
  <2>1. PICK i \in 1 .. n : q[i] = t
    BY DEF IsRing
  <2>2. CASE i = 1
    BY <1>1, <1>2, <2>1, <2>2
  <2>3. CASE i # 1
    <3>1. i - 1 \in 1 .. (n - 1) /\ (i - 1) + 1 = i /\ i - 1 \in 1 .. n
      BY <2>3
    <3>2. r[i - 1] = t
      BY <1>2, <2>1, <3>1
    <3> QED BY <3>1, <3>2
  <2> QED BY <2>2, <2>3
<1>6. \A i \in 1 .. (n - 1) : nx[r[i]] = r[i + 1] /\ pv[r[i + 1]] = r[i]
  <2> SUFFICES ASSUME NEW i \in 1 .. (n - 1)
               PROVE  nx[r[i]] = r[i + 1] /\ pv[r[i + 1]] = r[i]
    OBVIOUS
  <2>1. r[i] = q[i + 1]
    BY <1>2
  <2>2. CASE i + 1 = n
    BY <1>1, <1>2, <2>1, <2>2
  <2>3. CASE i + 1 # n
    <3>1. i + 1 \in 1 .. (n - 1)
      BY <2>3
    <3>2. r[i + 1] = q[(i + 1) + 1]
      BY <1>2, <3>1
    <3>3. nx[q[i + 1]] = q[(i + 1) + 1] /\ pv[q[(i + 1) + 1]] = q[i + 1]
      BY <1>1, <3>1
    <3> QED BY <2>1, <3>2, <3>3
  <2> QED BY <2>2, <2>3
<1>7. nx[r[n]] = r[1] /\ pv[r[1]] = r[n]
  <2>1. CASE n = 1
    BY <1>1, <1>2, <1>3, <2>1
  <2>2. CASE n # 1
    <3>1. 1 \in 1 .. (n - 1)
      BY <2>2
    <3>2. nx[q[1]] = q[1 + 1] /\ pv[q[1 + 1]] = q[1] /\ r[1] = q[1 + 1]
      BY <1>1, <1>2, <3>1
    <3> QED BY <1>2, <3>2
  <2> QED BY <2>1, <2>2
<1> QED BY <1>2, <1>3, <1>4, <1>5, <1>6, <1>7 DEF IsRing, r

\* A task further back yields: it is unlinked and linked in again behind the
\* tail, four writes of which the later ones read what the earlier ones wrote.
LEMMA MovedRing ==
  ASSUME NEW n \in Nat \ {0}, NEW q, NEW head, NEW nx, NEW pv,
         IsRing(q, n, head, nx, pv),
         NEW D, 0 .. (n - 1) \subseteq D, DOMAIN nx = D, DOMAIN pv = D,
         NEW m \in 2 .. n
  PROVE  LET t    == q[m]
             p    == [pv EXCEPT ![nx[t]] = pv[t]]
             tail == p[head]
         IN  IsRing([i \in 1 .. n |-> IF i < m THEN q[i] ELSE IF i < n THEN q[i + 1] ELSE q[m]],
                    n, head,
                    [[nx EXCEPT ![pv[t]] = nx[t]] EXCEPT ![t] = head, ![tail] = t],
                    [p EXCEPT ![t] = tail, ![head] = t])
<1> DEFINE t    == q[m]
           p    == [pv EXCEPT ![nx[t]] = pv[t]]
           u    == [nx EXCEPT ![pv[t]] = nx[t]]
           tail == p[head]
           nn   == [u EXCEPT ![t] = head, ![tail] = t]
           np   == [p EXCEPT ![t] = tail, ![head] = t]
           r    == [i \in 1 .. n |-> IF i < m THEN q[i] ELSE IF i < n THEN q[i + 1] ELSE q[m]]
<1>1. /\ \A i \in 1 .. n : q[i] \in 0 .. (n - 1) /\ q[i] \in D
      /\ \A i, j \in 1 .. n : q[i] = q[j] => i = j
      /\ \A s \in 0 .. (n - 1) : \E i \in 1 .. n : q[i] = s
      /\ q[1] = head /\ nx[q[n]] = q[1] /\ pv[q[1]] = q[n]
      /\ \A i \in 1 .. (n - 1) : nx[q[i]] = q[i + 1] /\ pv[q[i + 1]] = q[i]
      /\ q = [i \in 1 .. n |-> q[i]]
  BY DEF IsRing
<1>2. /\ m - 1 \in 1 .. (n - 1) /\ (m - 1) + 1 = m /\ m \in 1 .. n /\ m - 1 \in 1 .. n
      /\ 1 \in 1 .. n /\ n \in 1 .. n /\ n - 1 \in 1 .. n /\ m # 1 /\ m - 1 # m
  OBVIOUS
<1>3. pv[t] = q[m - 1] /\ t \in D /\ t # head /\ q[m - 1] # t /\ q[m - 1] \in D
  BY <1>1, <1>2
<1>4. CASE m = n
  <2>1. nx[t] = head /\ head \in D
    BY <1>1, <1>2, <1>4
  <2>2. tail = q[n - 1] /\ t = q[n]
    BY <1>1, <1>3, <1>4, <2>1
  <2> HIDE DEF t
  <2>3. nn[t] = head /\ nn[q[n - 1]] = t /\ np[t] = q[n - 1] /\ np[head] = t
    BY <1>1, <1>2, <1>3, <1>4, <2>1, <2>2
  <2>4. ASSUME NEW i \in 1 .. (n - 1) PROVE nn[q[i]] = q[i + 1] /\ np[q[i + 1]] = q[i]
    <3>0. nx[q[i]] = q[i + 1] /\ pv[q[i + 1]] = q[i] /\ i \in 1 .. n /\ i + 1 \in 1 .. n
      <4>1. i \in 1 .. n /\ i + 1 \in 1 .. n
        OBVIOUS
      <4> QED BY <1>1, <4>1
    <3>1. CASE i = n - 1
      <4>1. i + 1 = n
        BY <3>1
      <4> QED BY <2>2, <2>3, <3>1, <4>1
    <3>2. CASE i # n - 1
      <4>1. i + 1 # n /\ i # n /\ i + 1 # 1
        BY <3>2
      <4>2. q[i] # t /\ q[i] # q[n - 1] /\ q[i + 1] # t /\ q[i + 1] # head
        BY <1>1, <1>2, <2>2, <3>0, <3>2, <4>1
      <4>3. u[q[i]] = nx[q[i]] /\ p[q[i + 1]] = pv[q[i + 1]]
        BY <1>1, <1>3, <1>4, <2>1, <3>0, <4>2
      <4>4. nn[q[i]] = u[q[i]] /\ np[q[i + 1]] = p[q[i + 1]]
        BY <1>1, <2>2, <3>0, <4>2
      <4> QED BY <3>0, <4>3, <4>4
    <3> QED BY <3>1, <3>2
  <2>5. r = q
    <3>1. \A i \in 1 .. n : ~ (i < m) => i = n
      BY <1>4
    <3>2. \A i \in 1 .. n : r[i] = q[i]
      BY <1>4, <3>1
    <3> QED BY <1>1, <3>2
  <2> HIDE DEF nn, np, r
  <2>6. IsRing(q, n, head, nn, np)
    <3>1. /\ nn[q[n]] = q[1] /\ np[q[1]] = q[n]
          /\ \A i \in 1 .. (n - 1) : nn[q[i]] = q[i + 1] /\ np[q[i + 1]] = q[i]
      BY <1>1, <2>2, <2>3, <2>4
    <3>2. /\ q \in [1 .. n -> 0 .. (n - 1)] /\ q[1] = head
          /\ \A i, j \in 1 .. n : q[i] = q[j] => i = j
          /\ \A s \in 0 .. (n - 1) : \E i \in 1 .. n : q[i] = s
      BY DEF IsRing
    <3> QED BY <3>1, <3>2 DEF IsRing
  <2> QED BY <2>5, <2>6 DEF nn, np, r, t
<1>5. CASE m # n
  <2>1. m \in 1 .. (n - 1) /\ m + 1 \in 1 .. n /\ m + 1 # 1 /\ m + 1 # m /\ n # 1 /\ m # n
    BY <1>2, <1>5
  <2>2. nx[t] = q[m + 1] /\ q[m + 1] \in D
    BY <1>1, <2>1
  <2>3. tail = q[n]
    <3>1. q[m + 1] # head
      BY <1>1, <1>2, <2>1
    <3>2. head \in D
      BY <1>1, <1>2
    <3> QED BY <1>1, <2>2, <3>1, <3>2
  <2>4. q[n] # t /\ q[n] # q[m - 1] /\ q[m + 1] # t /\ q[m + 1] # head /\ q[n] \in D /\ head \in D
    <3>1. m - 1 # n
      BY <1>5
    <3> QED BY <1>1, <1>2, <2>1, <3>1
  <2> HIDE DEF t
  <2>5. nn[t] = head /\ nn[q[n]] = t /\ np[t] = q[n] /\ np[head] = t
    BY <1>1, <1>3, <2>3, <2>4
  <2>6. nn[q[m - 1]] = q[m + 1] /\ np[q[m + 1]] = q[m - 1]
    <3>1. u[q[m - 1]] = q[m + 1] /\ p[q[m + 1]] = q[m - 1]
      BY <1>3, <2>2
    <3>2. nn[q[m - 1]] = u[q[m - 1]] /\ np[q[m + 1]] = p[q[m + 1]]
      BY <1>3, <2>2, <2>3, <2>4
    <3> QED BY <3>1, <3>2
  <2>7. ASSUME NEW i \in 1 .. (n - 1), i # m - 1, i # m
        PROVE  nn[q[i]] = q[i + 1] /\ np[q[i + 1]] = q[i]
    <3>1. /\ nx[q[i]] = q[i + 1] /\ pv[q[i + 1]] = q[i] /\ i \in 1 .. n /\ i + 1 \in 1 .. n
          /\ i # n /\ i + 1 # 1 /\ i + 1 # m /\ i + 1 # m + 1
      <4>1. /\ i \in 1 .. n /\ i + 1 \in 1 .. n
            /\ i # n /\ i + 1 # 1 /\ i + 1 # m /\ i + 1 # m + 1
        BY <2>7
      <4> QED BY <1>1, <4>1
    <3>2. q[i] # t /\ q[i] # q[n] /\ q[i] # q[m - 1]
      BY <1>1, <1>2, <2>7, <3>1 DEF t
    <3>3. q[i + 1] # t /\ q[i + 1] # head
      BY <1>1, <1>2, <3>1 DEF t
    <3>4. q[i + 1] # q[m + 1]
      <4> DEFINE a == i + 1
                 b == m + 1
      <4>1. a # b /\ a \in 1 .. n /\ b \in 1 .. n
        BY <2>1, <3>1
      <4> HIDE DEF a, b
      <4>2. q[a] # q[b]
        BY <1>1, <4>1
      <4> QED BY <4>2 DEF a, b
    <3>5. u[q[i]] = nx[q[i]] /\ p[q[i + 1]] = pv[q[i + 1]]
      BY <1>1, <1>3, <2>2, <3>1, <3>2, <3>4
    <3>6. nn[q[i]] = u[q[i]] /\ np[q[i + 1]] = p[q[i + 1]]
      BY <1>1, <2>3, <3>1, <3>2, <3>3
    <3> QED BY <3>1, <3>5, <3>6
  <2> HIDE DEF nn, np
  <2>8. /\ r \in [1 .. n -> 0 .. (n - 1)] /\ r[1] = head /\ r[n] = t
        /\ \A i \in 1 .. (m - 1) : r[i] = q[i] /\ i \in 1 .. n
        /\ \A i \in m .. (n - 1) : r[i] = q[i + 1] /\ i + 1 \in 1 .. n /\ i \in 1 .. n
    <3>1. \A i \in 1 .. n : i < n => i + 1 \in 1 .. n
      OBVIOUS
    <3>2. r \in [1 .. n -> 0 .. (n - 1)]
      BY <1>1, <1>2, <3>1
    <3>3. r[1] = head /\ r[n] = t
      BY <1>1, <1>2, <2>1 DEF t
    <3>4. \A i \in 1 .. (m - 1) : i < m /\ i \in 1 .. n
      BY <1>2
    <3>5. \A i \in m .. (n - 1) : ~ (i < m) /\ i < n /\ i \in 1 .. n
      BY <1>2
    <3> QED BY <3>1, <3>2, <3>3, <3>4, <3>5
  <2> HIDE DEF r
  <2>9. \A s \in 0 .. (n - 1) : \E i \in 1 .. n : r[i] = s
    <3> SUFFICES ASSUME NEW s \in 0 .. (n - 1) PROVE \E i \in 1 .. n : r[i] = s
      OBVIOUS
    <3>1. PICK i \in 1 .. n : q[i] = s
      BY <1>1
    <3>2. CASE i < m
      BY <2>8, <3>1, <3>2
    <3>3. CASE i = m
      BY <1>2, <2>8, <3>1, <3>3 DEF t
    <3>4. CASE i > m
      <4>1. i - 1 \in m .. (n - 1) /\ (i - 1) + 1 = i
        BY <3>4
      <4>2. r[i - 1] = s /\ i - 1 \in 1 .. n
        BY <2>8, <3>1, <4>1
      <4> QED BY <4>2
    <3> QED BY <3>2, <3>3, <3>4
  <2>10. \A i, j \in 1 .. n : r[i] = r[j] => i = j
    <3> DEFINE old(i) == IF i < m THEN i ELSE IF i < n THEN i + 1 ELSE m
    <3>1. \A i \in 1 .. n : old(i) \in 1 .. n /\ r[i] = q[old(i)]
      BY <1>2 DEF r
    <3>2. \A i, j \in 1 .. n : old(i) = old(j) => i = j
      BY <1>2
    <3> HIDE DEF old
    <3>3. ASSUME NEW i \in 1 .. n, NEW j \in 1 .. n, r[i] = r[j] PROVE i = j
      <4>1. q[old(i)] = q[old(j)] /\ old(i) \in 1 .. n /\ old(j) \in 1 .. n
        BY <3>1, <3>3
      <4>2. old(i) = old(j)
        BY <1>1, <4>1
      <4> QED BY <3>2, <4>2
    <3> QED BY <3>3
  <2>11. ASSUME NEW i \in 1 .. (n - 1) PROVE nn[r[i]] = r[i + 1] /\ np[r[i + 1]] = r[i]
    <3>1. CASE i < m - 1
      <4>1. i \in 1 .. (m - 1) /\ i + 1 \in 1 .. (m - 1) /\ i # m - 1 /\ i # m
        BY <3>1
      <4>2. r[i] = q[i] /\ r[i + 1] = q[i + 1]
        BY <2>8, <4>1
      <4> QED BY <2>7, <4>1, <4>2
    <3>2. CASE i = m - 1
      <4>1. i \in 1 .. (m - 1) /\ i + 1 = m /\ m \in m .. (n - 1)
        BY <1>2, <2>1, <3>2
      <4>2. r[i] = q[m - 1] /\ r[i + 1] = q[m + 1]
        BY <2>8, <3>2, <4>1
      <4> QED BY <2>6, <4>2
    <3>3. CASE i >= m /\ i < n - 1
      <4>1. i \in m .. (n - 1) /\ i + 1 \in m .. (n - 1) /\ i + 1 \in 1 .. (n - 1)
            /\ i + 1 # m - 1 /\ i + 1 # m
        BY <3>3
      <4>2. r[i] = q[i + 1] /\ r[i + 1] = q[(i + 1) + 1]
        BY <2>8, <4>1
      <4> QED BY <2>7, <4>1, <4>2
    <3>4. CASE i >= m /\ i = n - 1
      <4>1. i \in m .. (n - 1) /\ i + 1 = n
        BY <3>4
      <4>2. r[i] = q[n] /\ r[i + 1] = t
        BY <2>8, <4>1
      <4> QED BY <2>5, <4>2
    <3> QED BY <1>2, <3>1, <3>2, <3>3, <3>4
  <2>12. nn[r[n]] = r[1] /\ np[r[1]] = r[n]
    BY <2>5, <2>8
  <2>13. IsRing(r, n, head, nn, np)
    BY <2>8, <2>9, <2>10, <2>11, <2>12 DEF IsRing
  <2> QED BY <2>13 DEF nn, np, r, t
<1> QED BY <1>4, <1>5

-----------------------------------------------------------------------------
(* The ring as a sequence *)

\* Before the first creation the ring is empty.
LEMMA NoRing ==
  ASSUME nr_threads = 0
  PROVE  Ring = << >>
<1> DEFINE Step(w) == [i \in 1 .. nr_threads |-> IF i = 1 THEN run_queue ELSE next[w[i - 1]]]
           walk == CHOOSE w : w = Step(w)
<1>1. ASSUME NEW w PROVE Step(w) = << >>
  <2>1. 1 .. nr_threads = {}
    OBVIOUS
  <2>2. << >> = [i \in {} |-> IF i = 1 THEN run_queue ELSE next[w[i - 1]]]
    OBVIOUS
  <2> QED BY <2>1, <2>2
<1>2. walk = Step(walk)
  BY <1>1
<1>3. walk = << >>
  BY <1>1, <1>2
<1> QED BY <1>3 DEF Ring, RingFrom

\* A ring's sequence.
LEMMA RingSeq ==
  ASSUME NEW n \in Nat \ {0}, NEW q, NEW head, NEW nx, NEW pv,
         IsRing(q, n, head, nx, pv)
  PROVE  q \in Seq(0 .. (n - 1)) /\ Len(q) = n /\ DOMAIN q = 1 .. n
<1>1. q \in [1 .. n -> 0 .. (n - 1)]
  BY DEF IsRing
<1>2. q \in Seq(0 .. (n - 1))
  BY <1>1, SeqDef
<1> QED BY <1>1, <1>2, LenProperties

\* A new head in front of a sequence, ...
LEMMA InFront ==
  ASSUME NEW S, NEW q \in Seq(S), NEW x \in S
  PROVE  [i \in 1 .. (Len(q) + 1) |-> IF i = 1 THEN x ELSE q[i - 1]] = <<x>> \o q
<1> DEFINE r == [i \in 1 .. (Len(q) + 1) |-> IF i = 1 THEN x ELSE q[i - 1]]
<1>1. /\ Len(q) \in Nat /\ <<x>> \in Seq(S) /\ Len(<<x>>) = 1
      /\ \A i \in 1 .. Len(q) : q[i] \in S
  BY LenProperties, ElementOfSeq
<1>2. /\ <<x>> \o q \in Seq(S) /\ Len(<<x>> \o q) = Len(q) + 1
      /\ \A i \in 1 .. (Len(q) + 1) : (<<x>> \o q)[i] = IF i = 1 THEN x ELSE q[i - 1]
  BY <1>1, ConcatProperties
<1>3. r \in Seq(S) /\ Len(r) = Len(q) + 1
  <2>1. \A i \in 1 .. (Len(q) + 1) : i = 1 \/ i - 1 \in 1 .. Len(q)
    BY <1>1
  <2>2. r \in [1 .. (Len(q) + 1) -> S]
    BY <1>1, <2>1
  <2> QED BY <1>1, <2>2, IsASeq, LenProperties
<1>4. \A i \in 1 .. Len(r) : r[i] = (<<x>> \o q)[i]
  BY <1>2, <1>3
<1> HIDE DEF r
<1>5. r = <<x>> \o q
  BY <1>2, <1>3, <1>4, SeqEqual
<1> QED BY <1>5 DEF r

\* ... and one of its elements moved to the end.
LEMMA ToTheEnd ==
  ASSUME NEW S, NEW q \in Seq(S), NEW m \in 1 .. Len(q), NEW r \in Seq(S),
         Len(r) = Len(q),
         \A i \in 1 .. Len(q) :
           r[i] = IF i < m THEN q[i] ELSE IF i < Len(q) THEN q[i + 1] ELSE q[m]
  PROVE  r = (SubSeq(q, 1, m - 1) \o SubSeq(q, m + 1, Len(q))) \o <<q[m]>>
<1> DEFINE n == Len(q)
           a == SubSeq(q, 1, m - 1)
           b == SubSeq(q, m + 1, n)
           c == (a \o b) \o <<q[m]>>
<1>1. n \in Nat /\ m \in 1 .. n /\ \A i \in 1 .. n : q[i] \in S
  BY LenProperties, ElementOfSeq
<1>2. a \in Seq(S) /\ Len(a) = m - 1 /\ \A i \in 1 .. (m - 1) : a[i] = q[i]
  <2>1. \A i \in 1 .. (m - 1) : q[i] \in S
    BY <1>1
  <2> QED BY <1>1, <2>1, SubSeqProperties
<1>3. b \in Seq(S) /\ Len(b) = n - m /\ \A i \in 1 .. (n - m) : b[i] = q[m + i]
  <2>1. \A i \in (m + 1) .. n : q[i] \in S
    BY <1>1
  <2> QED BY <1>1, <2>1, SubSeqProperties
<1> HIDE DEF a, b
<1>4. /\ a \o b \in Seq(S) /\ Len(a \o b) = n - 1
      /\ \A i \in 1 .. (n - 1) : (a \o b)[i] = IF i <= m - 1 THEN a[i] ELSE b[i - (m - 1)]
  BY <1>1, <1>2, <1>3, ConcatProperties
<1>5. \A i \in 1 .. (n - 1) : (a \o b)[i] = IF i < m THEN q[i] ELSE q[i + 1]
  <2> SUFFICES ASSUME NEW i \in 1 .. (n - 1)
               PROVE  (a \o b)[i] = IF i < m THEN q[i] ELSE q[i + 1]
    OBVIOUS
  <2>1. CASE i < m
    <3>1. i \in 1 .. (m - 1) /\ i <= m - 1
      BY <1>1, <2>1
    <3> QED BY <1>2, <1>4, <2>1, <3>1
  <2>2. CASE ~ (i < m)
    <3>1. i - (m - 1) \in 1 .. (n - m) /\ ~ (i <= m - 1) /\ m + (i - (m - 1)) = i + 1
      BY <1>1, <2>2
    <3> QED BY <1>3, <1>4, <2>2, <3>1
  <2> QED BY <2>1, <2>2
<1> DEFINE ab == a \o b
<1>6. ab \in Seq(S) /\ Len(ab) = n - 1 /\ q[m] \in S
  BY <1>1, <1>4
<1> HIDE DEF ab
<1>7. /\ c \in Seq(S) /\ Len(c) = n
      /\ \A i \in 1 .. n : c[i] = IF i <= n - 1 THEN ab[i] ELSE q[m]
  <2>1. <<q[m]>> \in Seq(S) /\ Len(<<q[m]>>) = 1 /\ <<q[m]>>[1] = q[m]
    BY <1>6
  <2>2. /\ ab \o <<q[m]>> \in Seq(S) /\ Len(ab \o <<q[m]>>) = (n - 1) + 1
        /\ \A i \in 1 .. ((n - 1) + 1) :
             (ab \o <<q[m]>>)[i] = IF i <= n - 1 THEN ab[i] ELSE <<q[m]>>[i - (n - 1)]
    BY <1>6, <2>1, ConcatProperties
  <2>3. c = ab \o <<q[m]>>
    BY DEF ab
  <2>4. (n - 1) + 1 = n
    BY <1>1
  <2>5. ASSUME NEW i \in 1 .. n PROVE c[i] = IF i <= n - 1 THEN ab[i] ELSE q[m]
    <3>1. CASE i <= n - 1
      BY <2>2, <2>3, <2>4, <3>1
    <3>2. CASE ~ (i <= n - 1)
      <4>1. i - (n - 1) = 1
        BY <1>1, <3>2
      <4> QED BY <2>1, <2>2, <2>3, <2>4, <3>2, <4>1
    <3> QED BY <3>1, <3>2
  <2> QED BY <2>2, <2>3, <2>4, <2>5
<1> HIDE DEF c
<1>8. \A i \in 1 .. n : r[i] = c[i]
  <2> SUFFICES ASSUME NEW i \in 1 .. n PROVE r[i] = c[i]
    OBVIOUS
  <2>1. CASE i <= n - 1
    <3>1. i \in 1 .. (n - 1) /\ i < n
      BY <1>1, <2>1
    <3> QED BY <1>5, <1>7, <2>1, <3>1 DEF ab
  <2>2. CASE ~ (i <= n - 1)
    <3>1. i = n /\ ~ (i < m) /\ ~ (i < n)
      BY <1>1, <2>2
    <3> QED BY <1>7, <2>2, <3>1
  <2> QED BY <2>1, <2>2
<1>9. r = c
  BY <1>7, <1>8, SeqEqual
<1> QED BY <1>9 DEF c, a, b

-----------------------------------------------------------------------------
(* Steps *)

\* kthread_create puts the new task in front of the ring.
LEMMA CreateStep ==
  ASSUME IInv, Create
  PROVE  /\ IInv'
         /\ nr_threads \in Tasks /\ Ring \in Seq(Created)
         /\ Ring' = <<nr_threads>> \o Ring
<1> DEFINE n == nr_threads
<1>1. /\ n < NUM_TASKS /\ n' = n + 1 /\ tp' = IF tp = NULL THEN n ELSE tp
      /\ Enqueue(n)
  BY DEF Create
<1>2. /\ n \in Nat /\ n \in Tasks /\ NUM_TASKS \in Nat /\ NULL \notin Tasks
      /\ 0 .. n \subseteq Tasks /\ 0 \in Tasks /\ n \in Created' /\ Created \subseteq Created'
      /\ n' # 0 /\ n' \in 0 .. NUM_TASKS
      /\ DOMAIN next = Tasks /\ DOMAIN prev = Tasks
  BY <1>1, TasksAssumption DEF IInv, TypeOK, Tasks, Created
<1>3. CASE n = 0
  <2>1. run_queue = NULL /\ tp = NULL
    BY <1>3 DEF IInv, TypeOK
  <2>2. /\ run_queue' = 0 /\ tp' = 0
        /\ next' = [next EXCEPT ![0] = 0] /\ prev' = [prev EXCEPT ![0] = 0]
    BY <1>1, <1>2, <1>3, <2>1 DEF Enqueue
  <2> DEFINE r == [i \in 1 .. 1 |-> 0]
  <2>3. IsRing(r, 1, 0, next', prev')
    BY <1>2, <2>2, FirstTask
  <2>4. n' = 1
    BY <1>1, <1>3
  <2>5. Ring' = r
    BY <2>2, <2>3, <2>4, WalkIsRing DEF Ring, RingFrom
  <2>6. RingInv'
    <3> HIDE DEF r
    <3> QED BY <2>2, <2>3, <2>4, <2>5 DEF RingInv
  <2>7. TypeOK'
    BY <1>2, <1>3, <2>2, <2>4 DEF IInv, TypeOK, Created
  <2>8. Ring = << >> /\ Ring' = <<0>>
    <3>1. r = <<0>>
      OBVIOUS
    <3> QED BY <1>3, <2>5, <3>1, NoRing
  <2>9. << >> \in Seq(Created) /\ <<0>> = <<0>> \o << >>
    <3>1. <<0>> \in Seq({0})
      OBVIOUS
    <3> QED BY <3>1, EmptySeq, ConcatEmptySeq
  <2> QED BY <1>2, <1>3, <2>6, <2>7, <2>8, <2>9 DEF IInv
<1>4. CASE n # 0
  <2> DEFINE q == Ring
             r == [i \in 1 .. (n + 1) |-> IF i = 1 THEN n ELSE q[i - 1]]
  <2>1. n \in Nat \ {0} /\ IsRing(q, n, run_queue, next, prev)
    BY <1>2, <1>4 DEF IInv, RingInv
  <2>2. run_queue \in Created /\ tp \in Created /\ run_queue # NULL /\ tp # NULL
    BY <1>2, <1>4 DEF IInv, TypeOK, Created, Tasks
  <2>3. Link(n) /\ tp' = tp
    BY <1>1, <2>2 DEF Enqueue
  <2>4. /\ run_queue' = n
        /\ next' = [next EXCEPT ![n] = run_queue, ![prev[run_queue]] = n]
        /\ prev' = [prev EXCEPT ![n] = prev[run_queue], ![run_queue] = n]
    BY <2>3 DEF Link
  <2>5. IsRing(r, n + 1, n, next', prev')
    <3> HIDE DEF q
    <3> QED BY <1>2, <2>1, <2>4, NewHead
  <2>6. Ring' = r
    <3> HIDE DEF r
    <3>1. nr_threads' \in Nat \ {0} /\ IsRing(r, nr_threads', run_queue', next', prev')
      BY <1>1, <1>2, <2>4, <2>5
    <3> HIDE DEF n
    <3> QED BY <3>1, WalkIsRing DEF Ring, RingFrom
  <2>7. RingInv'
    <3> HIDE DEF r, q
    <3> QED BY <1>1, <2>4, <2>5, <2>6 DEF RingInv
  <2>8. TypeOK'
    <3>1. {run_queue', tp'} \subseteq Created'
      BY <1>2, <2>2, <2>3, <2>4
    <3>2. Created \subseteq Tasks /\ prev[run_queue] \in Tasks \cup {NULL}
      BY <1>2, <2>2 DEF Created, Tasks, IInv, TypeOK
    <3>3. next' \in [Tasks -> Tasks \cup {NULL}] /\ prev' \in [Tasks -> Tasks \cup {NULL}]
      BY <1>2, <2>2, <2>4, <3>2 DEF IInv, TypeOK
    <3> QED BY <1>2, <3>1, <3>3 DEF TypeOK
  <2>9. q \in Seq(Created) /\ Len(q) = n
    BY <2>1, RingSeq DEF Created
  <2>10. r = <<n>> \o q
    <3>1. Created \subseteq Nat /\ n \in Nat
      BY <1>2 DEF Created
    <3>2. q \in Seq(Nat)
      BY <2>9, <3>1, SeqMonotonic
    <3> HIDE DEF q
    <3>3. [i \in 1 .. (Len(q) + 1) |-> IF i = 1 THEN n ELSE q[i - 1]] = <<n>> \o q
      BY <3>1, <3>2, InFront
    <3> QED BY <2>9, <3>3
  <2> QED BY <1>2, <2>6, <2>7, <2>8, <2>9, <2>10 DEF IInv
<1> QED BY <1>3, <1>4

\* schedule takes the running task out, puts it at the end and runs the front.
LEMMA ScheduleStep ==
  ASSUME IInv, Schedule
  PROVE  /\ IInv'
         /\ tp # NULL /\ tp' = Head(Ring')
         /\ \E m \in DOMAIN Ring :
              /\ Ring[m] = tp
              /\ Ring' = (SubSeq(Ring, 1, m - 1) \o SubSeq(Ring, m + 1, Len(Ring))) \o <<tp>>
<1> DEFINE n == nr_threads
           q == Ring
<1>1. tp # NULL /\ n' = n /\ tp' = run_queue' /\ ScheduleRing
  BY DEF Schedule
<1>2. /\ n \in Nat \ {0} /\ NUM_TASKS \in Nat /\ NULL \notin Tasks
      /\ tp \in Created /\ run_queue \in Created /\ Created \subseteq Tasks
      /\ Created' = Created
  BY <1>1, TasksAssumption DEF IInv, TypeOK, Tasks, Created
<1>3. IsRing(q, n, run_queue, next, prev)
  BY <1>2 DEF IInv, RingInv
<1>4. /\ q \in Seq(0 .. (n - 1)) /\ Len(q) = n /\ DOMAIN q = 1 .. n
      /\ q[1] = run_queue /\ \A i, j \in 1 .. n : q[i] = q[j] => i = j
  <2> HIDE DEF q, n
  <2>1. q \in Seq(0 .. (n - 1)) /\ Len(q) = n /\ DOMAIN q = 1 .. n
    BY <1>2, <1>3, RingSeq
  <2>2. q[1] = run_queue /\ \A i, j \in 1 .. n : q[i] = q[j] => i = j
    BY <1>3 DEF IsRing
  <2> QED BY <2>1, <2>2
<1>5. PICK m \in 1 .. n : q[m] = tp
  BY <1>2, <1>3 DEF IsRing, Created
<1> HIDE DEF q
<1>6. ASSUME NEW r, IsRing(r, n, run_queue', next', prev'),
             \A i \in 1 .. n : r[i] = IF i < m THEN q[i] ELSE IF i < n THEN q[i + 1] ELSE q[m],
             next' \in [Tasks -> Tasks \cup {NULL}], prev' \in [Tasks -> Tasks \cup {NULL}]
      PROVE  /\ IInv' /\ tp' = Head(Ring')
             /\ Ring' = (SubSeq(q, 1, m - 1) \o SubSeq(q, m + 1, Len(q))) \o <<tp>>
  <2>1. Ring' = r
    BY <1>1, <1>2, <1>6, WalkIsRing DEF Ring, RingFrom
  <2>2. r \in Seq(0 .. (n - 1)) /\ Len(r) = n /\ r[1] = run_queue' /\ run_queue' \in Created
    <3>1. r \in Seq(0 .. (n - 1)) /\ Len(r) = n
      BY <1>2, <1>6, RingSeq
    <3>2. r[1] = run_queue'
      BY <1>6 DEF IsRing
    <3>3. r[1] \in 0 .. (n - 1)
      BY <1>2, <3>1, ElementOfSeq
    <3> QED BY <3>1, <3>2, <3>3 DEF Created
  <2>3. RingInv'
    BY <1>1, <1>2, <1>6, <2>1 DEF RingInv
  <2>4. TypeOK'
    BY <1>1, <1>2, <1>6, <2>2 DEF IInv, TypeOK
  <2>5. tp' = Head(Ring')
    BY <1>1, <2>1, <2>2
  <2>6. r = (SubSeq(q, 1, m - 1) \o SubSeq(q, m + 1, Len(q))) \o <<q[m]>>
    <3>1. m \in 1 .. Len(q) /\ Len(r) = Len(q)
      BY <1>4, <1>5, <2>2
    <3>2. \A i \in 1 .. Len(q) :
            r[i] = IF i < m THEN q[i] ELSE IF i < Len(q) THEN q[i + 1] ELSE q[m]
      BY <1>4, <1>6
    <3> QED BY <1>4, <2>2, <3>1, <3>2, ToTheEnd
  <2> QED BY <1>5, <2>1, <2>3, <2>4, <2>5, <2>6 DEF IInv
<1>7. CASE tp = run_queue
  <2>1. run_queue' = next[run_queue] /\ next' = next /\ prev' = prev
    BY <1>1, <1>7 DEF ScheduleRing, Rotate
  <2>2. m = 1
    BY <1>2, <1>4, <1>5, <1>7
  <2> DEFINE r == [i \in 1 .. n |-> IF i = n THEN q[1] ELSE q[i + 1]]
  <2>3. IsRing(r, n, run_queue', next', prev')
    BY <1>2, <1>3, <2>1, TurnedRing
  <2>4. \A i \in 1 .. n : r[i] = IF i < m THEN q[i] ELSE IF i < n THEN q[i + 1] ELSE q[m]
    BY <1>2, <2>2
  <2> HIDE DEF r
  <2>5. next' \in [Tasks -> Tasks \cup {NULL}] /\ prev' \in [Tasks -> Tasks \cup {NULL}]
    BY <2>1 DEF IInv, TypeOK
  <2> QED BY <1>1, <1>4, <1>5, <1>6, <2>3, <2>4, <2>5 DEF q
<1>8. CASE tp # run_queue
  <2>1. MoveToTail(tp)
    BY <1>1, <1>8 DEF ScheduleRing
  <2> DEFINE r == [i \in 1 .. n |-> IF i < m THEN q[i] ELSE IF i < n THEN q[i + 1] ELSE q[m]]
             p == [prev EXCEPT ![next[tp]] = prev[tp]]
             u == [next EXCEPT ![prev[tp]] = next[tp]]
  <2>2. /\ next' = [u EXCEPT ![tp] = run_queue, ![p[run_queue]] = tp]
        /\ prev' = [p EXCEPT ![tp] = p[run_queue], ![run_queue] = tp]
        /\ run_queue' = run_queue
    BY <2>1 DEF MoveToTail, Unlinked_prev, Unlinked_next
  <2>3. m \in 2 .. n
    BY <1>2, <1>4, <1>5, <1>8
  <2>4. /\ next \in [Tasks -> Tasks \cup {NULL}] /\ prev \in [Tasks -> Tasks \cup {NULL}]
        /\ 0 .. (n - 1) \subseteq Tasks
    BY <1>2 DEF IInv, TypeOK, Created
  <2>5. IsRing(r, n, run_queue', next', prev')
    <3>1. DOMAIN next = Tasks /\ DOMAIN prev = Tasks
      BY <2>4
    <3> QED BY <1>2, <1>3, <1>5, <2>2, <2>3, <2>4, <3>1, MovedRing
  <2>6. \A i \in 1 .. n : r[i] = IF i < m THEN q[i] ELSE IF i < n THEN q[i + 1] ELSE q[m]
    OBVIOUS
  <2> HIDE DEF r
  <2>7. next' \in [Tasks -> Tasks \cup {NULL}] /\ prev' \in [Tasks -> Tasks \cup {NULL}]
    <3>1. tp \in Tasks /\ run_queue \in Tasks /\ next[tp] \in Tasks \cup {NULL}
          /\ prev[tp] \in Tasks \cup {NULL}
      BY <1>2, <2>4
    <3>2. u \in [Tasks -> Tasks \cup {NULL}] /\ p \in [Tasks -> Tasks \cup {NULL}]
      BY <2>4, <3>1
    <3> HIDE DEF u, p
    <3>3. p[run_queue] \in Tasks \cup {NULL}
      BY <3>1, <3>2
    <3> QED BY <2>2, <3>1, <3>2, <3>3
  <2> QED BY <1>1, <1>4, <1>5, <1>6, <2>5, <2>6, <2>7 DEF q
<1> QED BY <1>7, <1>8

\* Nothing the invariant speaks of changes.
LEMMA StutterStep ==
  ASSUME IInv, UNCHANGED queueVars
  PROVE  IInv' /\ Ring' = Ring
<1>1. /\ next' = next /\ prev' = prev /\ run_queue' = run_queue
      /\ nr_threads' = nr_threads /\ tp' = tp
  BY DEF queueVars, ringVars
<1>2. Ring' = Ring
  BY <1>1 DEF Ring, RingFrom
<1> QED BY <1>1, <1>2 DEF IInv, TypeOK, RingInv, Created

\* Nothing has been created.
LEMMA InitSound == Init => IInv
BY TasksAssumption DEF Init, InitQueue, IInv, TypeOK, RingInv

-----------------------------------------------------------------------------
(* Theorems *)

\* Every enqueue and every schedule leaves a ring.
THEOREM Inductive == Spec => []IInv
<1>1. IInv /\ [Next]_queueVars => IInv'
  BY CreateStep, ScheduleStep, StutterStep DEF Next
<1> QED BY <1>1, InitSound, PTL DEF Spec

\* The pointers keep their types, and tp and run_queue are tasks as soon as
\* there is one.
THEOREM TypeCorrect == Spec => []TypeOK
<1>1. IInv => TypeOK
  BY DEF IInv
<1> QED BY <1>1, Inductive, PTL

\* For any number of tasks the ring passes each one once and prev is the way
\* back.
THEOREM RingAlwaysSound == Spec => []RingSound
<1>1. IInv => RingSound
  <2> SUFFICES ASSUME IInv, nr_threads > 0
               PROVE  /\ {Ring[i] : i \in 1 .. nr_threads} = Created
                      /\ next[Ring[nr_threads]] = run_queue
                      /\ \A t \in Created : next[prev[t]] = t /\ prev[next[t]] = t
    BY DEF RingSound
  <2> DEFINE n == nr_threads
             q == Ring
  <2>1. n \in Nat \ {0} /\ IsRing(q, n, run_queue, next, prev)
    BY TasksAssumption DEF IInv, TypeOK, RingInv
  <2> HIDE DEF n, q
  <2>2. {q[i] : i \in 1 .. n} = 0 .. (n - 1)
    BY <2>1 DEF IsRing
  <2>3. next[q[n]] = run_queue
    BY <2>1 DEF IsRing
  <2>4. ASSUME NEW t \in 0 .. (n - 1) PROVE next[prev[t]] = t /\ prev[next[t]] = t
    <3>1. PICK i \in 1 .. n : q[i] = t
      BY <2>1 DEF IsRing
    <3>2. next[prev[t]] = t
      <4>1. CASE i = 1
        BY <2>1, <3>1, <4>1 DEF IsRing
      <4>2. CASE i # 1
        <5>1. i - 1 \in 1 .. (n - 1) /\ (i - 1) + 1 = i
          BY <2>1, <4>2
        <5>2. next[q[i - 1]] = q[(i - 1) + 1] /\ prev[q[(i - 1) + 1]] = q[i - 1]
          BY <2>1, <5>1 DEF IsRing
        <5> QED BY <3>1, <5>1, <5>2
      <4> QED BY <4>1, <4>2
    <3>3. prev[next[t]] = t
      <4>1. CASE i = n
        BY <2>1, <3>1, <4>1 DEF IsRing
      <4>2. CASE i # n
        <5>1. i \in 1 .. (n - 1)
          BY <2>1, <4>2
        <5>2. next[q[i]] = q[i + 1] /\ prev[q[i + 1]] = q[i]
          BY <2>1, <5>1 DEF IsRing
        <5> QED BY <3>1, <5>2
      <4> QED BY <4>1, <4>2
    <3> QED BY <3>2, <3>3
  <2> QED BY <2>2, <2>3, <2>4 DEF n, q, Created
<1> QED BY <1>1, Inductive, PTL

\* enqueue is the queue's Create and schedule its Yield: a new task runs next,
\* the one that yields runs last, and the rest keep their places.
THEOREM ImplementsQueue == Spec => ImplementsReadyQueue
<1>1. Init => Abstract!Init
  BY NoRing DEF Init, InitQueue, Abstract!Init
<1>2. IInv /\ [Next]_queueVars => [Abstract!Next]_(Abstract!vars)
  <2> SUFFICES ASSUME IInv, [Next]_queueVars PROVE [Abstract!Next]_(Abstract!vars)
    OBVIOUS
  <2>1. CASE Create
    <3>1. /\ nr_threads \in Tasks /\ Ring \in Seq(Created)
          /\ Ring' = <<nr_threads>> \o Ring
      BY <2>1, CreateStep
    <3>2. nr_threads \notin Abstract!ToSet(Ring)
      <4> SUFFICES ASSUME NEW i \in DOMAIN Ring PROVE Ring[i] # nr_threads
        BY DEF Abstract!ToSet
      <4>1. Ring[i] \in Created /\ nr_threads \in Nat
        BY <3>1, ElementOfSeq, LenProperties DEF Tasks
      <4> QED BY <4>1 DEF Created
    <3>3. tp' = IF tp = NULL THEN nr_threads ELSE tp
      BY <2>1 DEF Create
    <3> QED BY <3>1, <3>2, <3>3 DEF Abstract!Next, Abstract!Create
  <2>2. CASE Schedule
    <3>1. Abstract!Yield
      BY <2>2, ScheduleStep DEF Abstract!Yield, Abstract!RemoveAt
    <3> QED BY <3>1 DEF Abstract!Next
  <2>3. CASE UNCHANGED queueVars
    <3>1. Ring' = Ring /\ tp' = tp
      BY <2>3, StutterStep DEF queueVars
    <3> QED BY <3>1 DEF Abstract!vars
  <2> QED BY <2>1, <2>2, <2>3 DEF Next
<1> QED BY <1>1, <1>2, Inductive, PTL DEF Spec, ImplementsReadyQueue, Abstract!Spec
=============================================================================
