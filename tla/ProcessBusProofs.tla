-------------------------- MODULE ProcessBusProofs --------------------------
(***************************************************************************)
(* Proofs about ProcessBus.                                                *)
(***************************************************************************)
EXTENDS ProcessBus, SequenceTheorems, FiniteSetTheorems, WellFoundedInduction,
        TLAPS

----------------------------------------------------------------------------
(* Recursive functions                                                     *)

(***************************************************************************)
(* What holds at 0 and is kept from n to n + 1 holds up to N: induction    *)
(* over a set, for the recursive functions of the model.                   *)
(***************************************************************************)
LEMMA UpTo ==
  ASSUME NEW N \in Nat, NEW T, 0 \in T,
         \A n \in 0 .. N - 1 : n \in T => n + 1 \in T
  PROVE  \A n \in 0 .. N : n \in T
<1> DEFINE Out == {n \in 0 .. N : n \notin T}
           R == OpToRel(<, Nat)
<1> SUFFICES ASSUME Out # {} PROVE FALSE
  OBVIOUS
<1>1. Out \subseteq Nat
  OBVIOUS
<1>2. PICK n \in Out : \A k \in Out : <<k, n>> \notin R
  BY <1>1, WFMin, NatLessThanWellFounded
<1>3. n - 1 \notin Out
  <2> SUFFICES ASSUME n - 1 \in Out PROVE FALSE
    OBVIOUS
  <2>1. n - 1 \in Nat /\ n \in Nat /\ n - 1 < n
    BY <1>1
  <2>2. <<n - 1, n>> \in R
    BY <2>1 DEF OpToRel
  <2> QED
    BY <2>2, <1>2
<1> QED
  BY <1>3

(***************************************************************************)
(* A recursion from 0 to N has a solution, of the type of its start and of *)
(* its steps.                                                              *)
(***************************************************************************)
Solves(f, N, S, a, G) ==
    f \in [0 .. N -> S] /\ f[0] = a /\ \A n \in 1 .. N : f[n] = G[n][f[n-1]]

LEMMA Recursion ==
  ASSUME NEW N \in Nat, NEW S, NEW a \in S, NEW G \in [1 .. N -> [S -> S]]
  PROVE  \E f : Solves(f, N, S, a, G)
<1> DEFINE T == {m \in 0 .. N : \E f : Solves(f, m, S, a, G)}
<1>1. 0 \in T
  <2>1. Solves([n \in 0 .. 0 |-> a], 0, S, a, G)
    BY DEF Solves
  <2> QED
    BY <2>1
<1>2. \A m \in 0 .. N - 1 : m \in T => m + 1 \in T
  <2> SUFFICES ASSUME NEW m \in 0 .. N - 1, m \in T PROVE m + 1 \in T
    OBVIOUS
  <2>1. PICK f : Solves(f, m, S, a, G)
    OBVIOUS
  <2> DEFINE g == [n \in 0 .. m + 1 |-> IF n = m + 1 THEN G[m+1][f[m]] ELSE f[n]]
  <2>2. f[m] \in S
    BY <2>1 DEF Solves
  <2>3. G[m+1][f[m]] \in S
    BY <2>2
  <2>4. Solves(g, m + 1, S, a, G)
    BY <2>1, <2>3 DEF Solves
  <2> HIDE DEF g
  <2> QED
    BY <2>4
<1>3. \A n \in 0 .. N : n \in T
  <2> HIDE DEF T
  <2> QED
    BY <1>1, <1>2, UpTo
<1> QED
  BY <1>3

(***************************************************************************)
(* A solution of such a recursion has the type of its start and its step.  *)
(***************************************************************************)
LEMMA RecursionType ==
  ASSUME NEW N \in Nat, NEW S, NEW g, DOMAIN g = 0 .. N, g = [n \in 0 .. N |-> g[n]],
         g[0] \in S, \A n \in 1 .. N : g[n-1] \in S => g[n] \in S
  PROVE  g \in [0 .. N -> S]
<1> DEFINE T == {n \in 0 .. N : g[n] \in S}
<1>1. 0 \in T
  OBVIOUS
<1>2. \A n \in 0 .. N - 1 : n \in T => n + 1 \in T
  <2> SUFFICES ASSUME NEW n \in 0 .. N - 1, n \in T PROVE n + 1 \in T
    OBVIOUS
  <2>1. n + 1 \in 1 .. N /\ (n + 1) - 1 = n
    OBVIOUS
  <2> QED
    BY <2>1
<1>3. \A n \in 0 .. N : n \in T
  <2> HIDE DEF T
  <2> QED
    BY <1>1, <1>2, UpTo
<1> QED
  BY <1>3

----------------------------------------------------------------------------
(* The ring                                                                *)

Captured == [k : Nat, at : Nat, own : BOOLEAN]
Others == {frame \in Captured : ~frame.own}

(***************************************************************************)
(* The frames of others in a block, taken one after the other.             *)
(***************************************************************************)
LEMMA ForeignRecursion ==
  ASSUME NEW s \in Seq(Captured)
  PROVE  \E f \in [0 .. Len(s) -> Seq(Others)] :
            /\ f[0] = <<>>
            /\ \A n \in 1 .. Len(s) :
                  f[n] = IF s[n].own THEN f[n-1] ELSE Append(f[n-1], s[n])
            /\ Foreign(s) = f[Len(s)]
<1> DEFINE S == Seq(Others)
           Is(f) == f = [n \in 0 .. Len(s) |->
                            IF n = 0 THEN <<>>
                            ELSE IF s[n].own THEN f[n-1] ELSE Append(f[n-1], s[n])]
           Steps(f) == /\ f[0] = <<>>
                       /\ \A n \in 1 .. Len(s) :
                             f[n] = IF s[n].own THEN f[n-1] ELSE Append(f[n-1], s[n])
           g == CHOOSE f : Is(f)
<1>1. Len(s) \in Nat /\ <<>> \in S
  BY LenProperties, EmptySeq
<1>2. \A n \in 1 .. Len(s) : \A x \in S :
         (IF s[n].own THEN x ELSE Append(x, s[n])) \in S
  <2>1. \A n \in 1 .. Len(s) : s[n] \in Captured /\ (~s[n].own => s[n] \in Others)
    BY DEF Others
  <2> QED
    BY <2>1, AppendProperties
<1>3. \E f \in [0 .. Len(s) -> S] : Steps(f)
  <2> DEFINE G == [n \in 1 .. Len(s) |->
                      [x \in S |-> IF s[n].own THEN x ELSE Append(x, s[n])]]
  <2>1. G \in [1 .. Len(s) -> [S -> S]]
    BY <1>2
  <2>2. PICK f \in [0 .. Len(s) -> S] :
           f[0] = <<>> /\ \A n \in 1 .. Len(s) : f[n] = G[n][f[n-1]]
    <3> DEFINE a == <<>>
               N == Len(s)
    <3>1. N \in Nat /\ a \in S /\ G \in [1 .. N -> [S -> S]]
      BY <1>1, <2>1
    <3> HIDE DEF G, S, a, N
    <3>2. PICK f : Solves(f, N, S, a, G)
      BY <3>1, Recursion
    <3> QED
      BY <3>2 DEF a, N, Solves
  <2>3. \A n \in 1 .. Len(s) : f[n-1] \in S
    BY <1>1
  <2>4. \A n \in 1 .. Len(s) :
           G[n][f[n-1]] = IF s[n].own THEN f[n-1] ELSE Append(f[n-1], s[n])
    BY <2>3
  <2>5. Steps(f)
    <3> HIDE DEF G
    <3> QED
      BY <2>2, <2>4
  <2> HIDE DEF Steps
  <2> QED
    BY <2>5
<1>a. \A n \in 0 .. Len(s) : n = 0 \/ n \in 1 .. Len(s)
  BY <1>1
<1>b. 0 \in 0 .. Len(s) /\ \A n \in 1 .. Len(s) : n \in 0 .. Len(s) /\ n # 0
  BY <1>1
<1>4. Is(g)
  <2>1. PICK f \in [0 .. Len(s) -> S] : Steps(f)
    BY <1>3
  <2>2. \A n \in 0 .. Len(s) :
           f[n] = IF n = 0 THEN <<>>
                  ELSE IF s[n].own THEN f[n-1] ELSE Append(f[n-1], s[n])
    BY <1>a, <2>1, Zenon
  <2>3. Is(f)
    BY <2>2, Zenon
  <2> HIDE DEF Is
  <2> QED
    BY <2>3
<1>5. Foreign(s) = g[Len(s)]
  BY DEF Foreign
<1> HIDE DEF g
<1>6. DOMAIN g = 0 .. Len(s) /\ g = [n \in 0 .. Len(s) |-> g[n]] /\ Steps(g)
  <2>1. DOMAIN g = 0 .. Len(s) /\ g = [n \in 0 .. Len(s) |-> g[n]]
    BY <1>4, Zenon
  <2>2. Steps(g)
    BY <1>4, <1>b, Zenon
  <2> QED
    BY <2>1, <2>2
<1>7. g \in [0 .. Len(s) -> S]
  <2> HIDE DEF Is
  <2>1. g[0] \in S /\ \A n \in 1 .. Len(s) : g[n-1] \in S => g[n] \in S
    BY <1>1, <1>2, <1>6
  <2> HIDE DEF S, Steps
  <2> QED
    BY <1>1, <1>6, <2>1, RecursionType
<1> QED
  BY <1>5, <1>6, <1>7

(***************************************************************************)
(* One frame more in a block is one frame more for the reader, unless this *)
(* host sent it.                                                           *)
(***************************************************************************)
LEMMA ForeignFacts ==
  ASSUME NEW s \in Seq(Captured)
  PROVE  /\ Foreign(s) \in Seq(Others)
         /\ s = <<>> => Foreign(s) = <<>>
         /\ \A e \in Captured :
               Foreign(Append(s, e)) = IF e.own THEN Foreign(s)
                                       ELSE Append(Foreign(s), e)
<1>1. PICK f \in [0 .. Len(s) -> Seq(Others)] :
         /\ f[0] = <<>>
         /\ \A n \in 1 .. Len(s) :
               f[n] = IF s[n].own THEN f[n-1] ELSE Append(f[n-1], s[n])
         /\ Foreign(s) = f[Len(s)]
  BY ForeignRecursion
<1>2. Len(s) \in Nat
  BY LenProperties
<1>3. ASSUME NEW e \in Captured
      PROVE  Foreign(Append(s, e)) = IF e.own THEN Foreign(s)
                                     ELSE Append(Foreign(s), e)
  <2> DEFINE t == Append(s, e)
             N == Len(s)
  <2>1. /\ t \in Seq(Captured) /\ Len(t) = N + 1 /\ t[N + 1] = e
        /\ \A n \in 1 .. N : t[n] = s[n]
    BY AppendProperties, LenProperties
  <2> HIDE DEF t
  <2>2. PICK g \in [0 .. Len(t) -> Seq(Others)] :
           /\ g[0] = <<>>
           /\ \A n \in 1 .. Len(t) :
                 g[n] = IF t[n].own THEN g[n-1] ELSE Append(g[n-1], t[n])
           /\ Foreign(t) = g[Len(t)]
    BY <2>1, ForeignRecursion
  <2> DEFINE T == {n \in 0 .. N : g[n] = f[n]}
  <2>3. \A n \in 0 .. N : n \in T
    <3>1. 0 \in T
      BY <1>1, <1>2, <2>2
    <3>2. \A n \in 0 .. N - 1 : n \in T => n + 1 \in T
      <4> SUFFICES ASSUME NEW n \in 0 .. N - 1, n \in T PROVE n + 1 \in T
        OBVIOUS
      <4>1. /\ n + 1 \in 1 .. N /\ n + 1 \in 1 .. Len(t) /\ n + 1 \in 0 .. N
            /\ (n + 1) - 1 = n
        BY <1>2, <2>1
      <4>2. t[n + 1] = s[n + 1] /\ g[n] = f[n]
        BY <2>1, <4>1
      <4>3. f[n + 1] = IF s[n + 1].own THEN f[n] ELSE Append(f[n], s[n + 1])
        BY <1>1, <4>1
      <4>4. g[n + 1] = IF t[n + 1].own THEN g[n] ELSE Append(g[n], t[n + 1])
        BY <2>2, <4>1
      <4> QED
        BY <4>1, <4>2, <4>3, <4>4
    <3> HIDE DEF T
    <3> QED
      BY <1>2, <3>1, <3>2, UpTo
  <2>4. g[N] = f[N] /\ N + 1 \in 1 .. Len(t) /\ (N + 1) - 1 = N
    BY <1>2, <2>1, <2>3
  <2>5. Foreign(t) = IF e.own THEN f[N] ELSE Append(f[N], e)
    BY <2>1, <2>2, <2>4
  <2> QED
    BY <1>1, <2>5 DEF t
<1> QED
  BY <1>1, <1>2, <1>3, EmptySeq

(***************************************************************************)
(* Places in the ring: what is n blocks after a block.                     *)
(***************************************************************************)
Place(b, n) == (b + n) % Blocks

LEMMA PlaceIs ==
  ASSUME NEW b \in Places, NEW n \in 0 .. Blocks
  PROVE  /\ Place(b, n) \in Places
         /\ Place(b, n) = IF b + n < Blocks THEN b + n ELSE b + n - Blocks
<1>1. Blocks \in Nat /\ Blocks > 1 /\ b \in Nat /\ b < Blocks /\ n \in Nat /\ n <= Blocks
  BY CaptureAssumption DEF Places
<1>2. b + n \in Nat /\ b + n < 2 * Blocks
  BY <1>1
<1>3. Place(b, n) = IF b + n < Blocks THEN b + n ELSE b + n - Blocks
  BY <1>1, <1>2 DEF Place
<1> QED
  BY <1>1, <1>3 DEF Places

LEMMA PlaceFacts ==
  ASSUME NEW b \in Places
  PROVE  /\ Place(b, 0) = b /\ Place(b, Blocks) = b
         /\ \A n \in 0 .. Blocks : Place(b, n) \in Places
         /\ \A n, m \in 0 .. Blocks - 1 : Place(b, n) = Place(b, m) => n = m
         /\ \A n \in 0 .. Blocks - 1 :
               After(Place(b, n)) = Place(b, n + 1)
         /\ After(b) \in Places
         /\ \A n \in 0 .. Blocks - 1 :
               Place(After(b), n) = Place(b, n + 1)
<1>1. Blocks \in Nat /\ Blocks > 1 /\ b \in Nat /\ b < Blocks
  BY CaptureAssumption DEF Places
<1>2. \A a \in Places : \A n \in 0 .. Blocks :
         /\ Place(a, n) \in Places
         /\ Place(a, n) = IF a + n < Blocks THEN a + n ELSE a + n - Blocks
  BY PlaceIs
<1>3. \A a \in Places : After(a) = Place(a, 1) /\ a \in Nat /\ a < Blocks
  BY <1>1 DEF After, Place, Places
<1>4. \A a \in Places : After(a) \in Places /\ After(a) = IF a + 1 < Blocks THEN a + 1 ELSE 0
  <2> SUFFICES ASSUME NEW a \in Places
               PROVE  /\ After(a) \in Places
                      /\ After(a) = IF a + 1 < Blocks THEN a + 1 ELSE 0
    OBVIOUS
  <2>1. 1 \in 0 .. Blocks
    BY <1>1
  <2>2. /\ Place(a, 1) \in Places
        /\ Place(a, 1) = IF a + 1 < Blocks THEN a + 1 ELSE a + 1 - Blocks
    BY <1>2, <2>1
  <2> QED
    BY <1>1, <1>3, <2>2
<1>5. Place(b, 0) = b /\ Place(b, Blocks) = b
  <2>1. 0 \in 0 .. Blocks /\ Blocks \in 0 .. Blocks
    BY <1>1
  <2> QED
    BY <1>1, <1>2, <2>1
<1>6. \A n, m \in 0 .. Blocks - 1 : Place(b, n) = Place(b, m) => n = m
  <2> SUFFICES ASSUME NEW n \in 0 .. Blocks - 1, NEW m \in 0 .. Blocks - 1,
                      Place(b, n) = Place(b, m)
               PROVE  n = m
    OBVIOUS
  <2>1. n \in 0 .. Blocks /\ m \in 0 .. Blocks
    BY <1>1
  <2>2. /\ Place(b, n) = IF b + n < Blocks THEN b + n ELSE b + n - Blocks
        /\ Place(b, m) = IF b + m < Blocks THEN b + m ELSE b + m - Blocks
    BY <1>2, <2>1
  <2>3. (IF b + n < Blocks THEN b + n ELSE b + n - Blocks)
           = (IF b + m < Blocks THEN b + m ELSE b + m - Blocks)
    BY <2>2, Zenon
  <2> QED
    BY <1>1, <2>3
<1>7. ASSUME NEW n \in 0 .. Blocks - 1
      PROVE  After(Place(b, n)) = Place(b, n + 1) /\ Place(After(b), n) = Place(b, n + 1)
  <2>1. n \in 0 .. Blocks /\ n + 1 \in 0 .. Blocks
    BY <1>1
  <2>2. /\ Place(b, n) \in Places
        /\ Place(b, n) = IF b + n < Blocks THEN b + n ELSE b + n - Blocks
        /\ Place(b, n + 1) = IF b + (n + 1) < Blocks THEN b + (n + 1)
                             ELSE b + (n + 1) - Blocks
    BY <1>2, <2>1
  <2>3. After(Place(b, n)) = IF Place(b, n) + 1 < Blocks THEN Place(b, n) + 1 ELSE 0
    BY <1>4, <2>2
  <2>4. /\ After(b) \in Places /\ After(b) = IF b + 1 < Blocks THEN b + 1 ELSE 0
        /\ Place(After(b), n) = IF After(b) + n < Blocks THEN After(b) + n
                                ELSE After(b) + n - Blocks
    BY <1>2, <1>4, <2>1
  <2>5. Place(b, n) \in Nat /\ After(b) \in Nat
    BY <1>3, <2>2, <2>4
  <2> QED
    BY <1>1, <2>2, <2>3, <2>4, <2>5
<1> QED
  BY <1>2, <1>4, <1>5, <1>6, <1>7

(***************************************************************************)
(* A ring whose first m blocks, from the reader's on, are handed over, and *)
(* whose frames are all in them and in the one being filled.               *)
(***************************************************************************)
Ring ==
    [lowLatency : BOOLEAN, block : [Places -> Seq(Captured)],
     user : [Places -> BOOLEAN], fill : Places, next : Places, pending : Seq(Others)]

HandedUpTo(c, m) ==
    /\ c.fill = Place(c.next, m)
    /\ \A n \in 0 .. Blocks - 1 : c.user[Place(c.next, n)] <=> n < m
    /\ \A n \in m + 1 .. Blocks - 1 : c.block[Place(c.next, n)] = <<>>

RingOK(c) == c \in Ring /\ \E m \in 0 .. Blocks : HandedUpTo(c, m)

LEMMA WaitingRecursion ==
  ASSUME NEW c \in Ring
  PROVE  \E f \in [0 .. Blocks -> Seq(Others)] :
            /\ f[0] = c.pending
            /\ \A n \in 1 .. Blocks :
                  f[n] = f[n-1] \o Foreign(c.block[(c.next + n - 1) % Blocks])
            /\ WaitingIn(c) = f[Blocks]
<1> DEFINE S == Seq(Others)
           In(n) == Foreign(c.block[(c.next + n - 1) % Blocks])
           Is(f) == f = [n \in 0 .. Blocks |->
                            IF n = 0 THEN c.pending ELSE f[n-1] \o In(n)]
           Steps(f) == f[0] = c.pending /\ \A n \in 1 .. Blocks : f[n] = f[n-1] \o In(n)
           g == CHOOSE f : Is(f)
<1>1. Blocks \in Nat /\ c.pending \in S
  BY CaptureAssumption DEF Ring
<1>2. \A n \in 1 .. Blocks : In(n) \in S
  <2> SUFFICES ASSUME NEW n \in 1 .. Blocks PROVE In(n) \in S
    OBVIOUS
  <2>1. n - 1 \in 0 .. Blocks /\ c.next \in Places /\ c.next + n - 1 = c.next + (n - 1)
    BY <1>1 DEF Ring, Places
  <2>2. Place(c.next, n - 1) \in Places
    BY <2>1, PlaceFacts
  <2>3. c.block[(c.next + n - 1) % Blocks] \in Seq(Captured)
    BY <2>1, <2>2 DEF Ring, Place
  <2> QED
    BY <2>3, ForeignFacts
<1>3. \A n \in 1 .. Blocks : \A x \in S : x \o In(n) \in S
  BY <1>2, ConcatProperties
<1>4. \E f \in [0 .. Blocks -> S] : Steps(f)
  <2> DEFINE G == [n \in 1 .. Blocks |-> [x \in S |-> x \o In(n)]]
             a == c.pending
  <2>1. G \in [1 .. Blocks -> [S -> S]]
    BY <1>3
  <2>2. PICK f : Solves(f, Blocks, S, a, G)
    <3> HIDE DEF G, S, a
    <3> QED
      BY <1>1, <2>1, Recursion DEF a
  <2>3. \A n \in 1 .. Blocks : f[n-1] \in S
    BY <1>1, <2>2 DEF Solves
  <2>4. \A n \in 1 .. Blocks : G[n][f[n-1]] = f[n-1] \o In(n)
    BY <2>3
  <2>5. f \in [0 .. Blocks -> S] /\ Steps(f)
    <3> HIDE DEF G, In, S
    <3> QED
      BY <2>2, <2>4 DEF Solves
  <2> HIDE DEF Steps
  <2> QED
    BY <2>5
<1>a. \A n \in 0 .. Blocks : n = 0 \/ n \in 1 .. Blocks
  BY <1>1
<1>b. 0 \in 0 .. Blocks /\ \A n \in 1 .. Blocks : n \in 0 .. Blocks /\ n # 0
  BY <1>1
<1>5. Is(g)
  <2>1. PICK f \in [0 .. Blocks -> S] : Steps(f)
    BY <1>4
  <2>2. \A n \in 0 .. Blocks : f[n] = IF n = 0 THEN c.pending ELSE f[n-1] \o In(n)
    BY <1>a, <2>1, Zenon
  <2>3. Is(f)
    BY <2>2, Zenon
  <2> HIDE DEF Is
  <2> QED
    BY <2>3
<1>6. WaitingIn(c) = g[Blocks]
  BY DEF WaitingIn
<1> HIDE DEF g
<1>7. DOMAIN g = 0 .. Blocks /\ g = [n \in 0 .. Blocks |-> g[n]] /\ Steps(g)
  <2>1. DOMAIN g = 0 .. Blocks /\ g = [n \in 0 .. Blocks |-> g[n]]
    BY <1>5, Zenon
  <2>2. Steps(g)
    BY <1>5, <1>b, Zenon
  <2> QED
    BY <2>1, <2>2
<1>8. g \in [0 .. Blocks -> S]
  <2> HIDE DEF Is
  <2>1. g[0] \in S /\ \A n \in 1 .. Blocks : g[n-1] \in S => g[n] \in S
    BY <1>1, <1>3, <1>7
  <2> HIDE DEF S, Steps
  <2> QED
    BY <1>1, <1>7, <2>1, RecursionType
<1> QED
  BY <1>6, <1>7, <1>8

\* f[n] is what the reader finds until the n-th block from its own on.
Gathers(f, c) ==
    /\ f \in [0 .. Blocks -> Seq(Others)]
    /\ f[0] = c.pending
    /\ \A n \in 0 .. Blocks - 1 :
          f[n+1] = f[n] \o Foreign(c.block[Place(c.next, n)])
    /\ WaitingIn(c) = f[Blocks]

LEMMA WaitingGathered ==
  ASSUME NEW c \in Ring
  PROVE  (\E f : Gathers(f, c)) /\ WaitingIn(c) \in Seq(Others)
<1>1. Blocks \in Nat
  BY CaptureAssumption
<1>2. PICK f \in [0 .. Blocks -> Seq(Others)] :
         /\ f[0] = c.pending
         /\ \A n \in 1 .. Blocks :
               f[n] = f[n-1] \o Foreign(c.block[(c.next + n - 1) % Blocks])
         /\ WaitingIn(c) = f[Blocks]
  BY WaitingRecursion
<1>3. \A n \in 0 .. Blocks - 1 :
         f[n+1] = f[n] \o Foreign(c.block[Place(c.next, n)])
  <2> SUFFICES ASSUME NEW n \in 0 .. Blocks - 1
               PROVE  f[n+1] = f[n] \o Foreign(c.block[Place(c.next, n)])
    OBVIOUS
  <2>1. c.next \in Nat
    BY <1>1 DEF Ring, Places
  <2>2. /\ n + 1 \in 1 .. Blocks /\ (n + 1) - 1 = n
        /\ c.next + (n + 1) - 1 = c.next + n
    BY <1>1, <2>1
  <2> QED
    BY <1>2, <2>2 DEF Place
<1>4. Gathers(f, c)
  BY <1>2, <1>3 DEF Gathers
<1>5. f[Blocks] \in Seq(Others)
  BY <1>1, <1>2
<1> QED
  BY <1>2, <1>4, <1>5

(***************************************************************************)
(* The fields of a ring, and what is before a place and beyond it.         *)
(***************************************************************************)
LEMMA RingFields ==
  ASSUME NEW c \in Ring
  PROVE  /\ c.lowLatency \in BOOLEAN /\ c.fill \in Places /\ c.next \in Places
         /\ c.pending \in Seq(Others)
         /\ c.block \in [Places -> Seq(Captured)] /\ c.user \in [Places -> BOOLEAN]
         /\ \A n \in 0 .. Blocks : /\ Place(c.next, n) \in Places
                                   /\ c.block[Place(c.next, n)] \in Seq(Captured)
                                   /\ c.user[Place(c.next, n)] \in BOOLEAN
<1>1. c.next \in Places
  BY DEF Ring
<1>2. \A n \in 0 .. Blocks : Place(c.next, n) \in Places
  BY <1>1, PlaceFacts
<1> QED
  BY <1>1, <1>2 DEF Ring

LEMMA ConcatAppend ==
  ASSUME NEW s \in Seq(Others), NEW t \in Seq(Others), NEW e \in Others
  PROVE  s \o Append(t, e) = Append(s \o t, e)
<1>1. <<e>> \in Seq(Others) /\ s \o t \in Seq(Others)
  BY ConcatProperties
<1>2. (s \o t) \o <<e>> = s \o (t \o <<e>>)
  BY <1>1, ConcatAssociative
<1>3. Append(t, e) = t \o <<e>> /\ Append(s \o t, e) = (s \o t) \o <<e>>
  BY <1>1, AppendIsConcat
<1> QED
  BY <1>2, <1>3

(***************************************************************************)
(* Two rings with the same frames from the reader's block on.              *)
(***************************************************************************)
LEMMA WaitingSame ==
  ASSUME NEW c \in Ring, NEW d \in Ring,
         d.pending = c.pending, d.block = c.block, d.next = c.next
  PROVE  WaitingIn(d) = WaitingIn(c)
BY DEF WaitingIn

(***************************************************************************)
(* A block handed over is the next of the reader's, its frames are still   *)
(* to be read, and the one after it is empty or not given back.            *)
(***************************************************************************)
LEMMA HandOverFacts ==
  ASSUME NEW c, RingOK(c), ~c.user[c.fill]
  PROVE  /\ RingOK(HandOver(c)) /\ WaitingIn(HandOver(c)) = WaitingIn(c)
         /\ HandOver(c).block = c.block /\ HandOver(c).user[c.fill]
<1> DEFINE d == HandOver(c)
<1>1. c \in Ring
  BY DEF RingOK
<1>2. PICK m \in 0 .. Blocks : HandedUpTo(c, m)
  BY DEF RingOK
<1>3. /\ Blocks \in Nat /\ Blocks > 1 /\ c.next \in Places /\ c.fill \in Places
      /\ c.fill = Place(c.next, m)
  BY <1>1, <1>2, CaptureAssumption DEF Ring, HandedUpTo
<1>4. m < Blocks
  <2> SUFFICES ASSUME m = Blocks PROVE FALSE
    BY <1>3
  <2>1. Place(c.next, Blocks) = c.next /\ Place(c.next, 0) = c.next
    BY <1>3, PlaceFacts
  <2>2. c.user[Place(c.next, 0)]
    BY <1>2, <1>3 DEF HandedUpTo
  <2> QED
    BY <1>3, <2>1, <2>2
<1>5. /\ d \in Ring /\ d.pending = c.pending /\ d.block = c.block /\ d.next = c.next
      /\ d.fill = After(c.fill) /\ d.user = [c.user EXCEPT ![c.fill] = TRUE]
  <2>1. After(c.fill) \in Places
    BY <1>3, PlaceFacts
  <2> QED
    BY <1>1, <2>1 DEF HandOver, Ring
<1>6. HandedUpTo(d, m + 1)
  <2>1. d.fill = Place(c.next, m + 1)
    <3>1. After(Place(c.next, m)) = Place(c.next, m + 1)
      BY <1>3, <1>4, PlaceFacts
    <3> QED
      BY <1>3, <1>5, <3>1
  <2>2. \A n \in 0 .. Blocks - 1 : d.user[Place(c.next, n)] <=> n < m + 1
    <3> SUFFICES ASSUME NEW n \in 0 .. Blocks - 1
                 PROVE  d.user[Place(c.next, n)] <=> n < m + 1
      OBVIOUS
    <3>1. /\ Place(c.next, n) \in Places
          /\ Place(c.next, n) = c.fill => n = m
      BY <1>3, <1>4, PlaceFacts
    <3>2. c.user[Place(c.next, n)] <=> n < m
      BY <1>2 DEF HandedUpTo
    <3>3. d.user[Place(c.next, n)] = IF Place(c.next, n) = c.fill THEN TRUE
                                     ELSE c.user[Place(c.next, n)]
      BY <1>1, <1>5, <3>1 DEF Ring
    <3>4. Place(c.next, n) = c.fill <=> n = m
      BY <1>3, <3>1
    <3>5. CASE n = m
      BY <1>3, <3>3, <3>4, <3>5
    <3>6. CASE n # m
      <4>1. d.user[Place(c.next, n)] = c.user[Place(c.next, n)]
        BY <3>3, <3>4, <3>6
      <4> QED
        BY <1>3, <3>2, <3>6, <4>1
    <3> QED
      BY <3>5, <3>6
  <2>3. \A n \in (m + 1) + 1 .. Blocks - 1 : c.block[Place(c.next, n)] = <<>>
    BY <1>2, <1>3, <1>4 DEF HandedUpTo
  <2> QED
    BY <1>5, <2>1, <2>2, <2>3 DEF HandedUpTo
<1>7. m + 1 \in 0 .. Blocks
  BY <1>3, <1>4
<1>8. RingOK(d)
  BY <1>5, <1>6, <1>7 DEF RingOK
<1>9. WaitingIn(d) = WaitingIn(c)
  BY <1>1, <1>5, WaitingSame
<1>10. d.user[c.fill]
  BY <1>1, <1>3, <1>5 DEF Ring
<1> QED
  BY <1>5, <1>8, <1>9, <1>10

(***************************************************************************)
(* A frame stored in the block being filled is the last the reader will    *)
(* find.                                                                   *)
(***************************************************************************)
Stored(c, frame) == [c EXCEPT !.block[c.fill] = Append(@, frame)]

LEMMA StoredFacts ==
  ASSUME NEW c, RingOK(c), ~c.user[c.fill], NEW frame \in Captured
  PROVE  LET d == Stored(c, frame)
         IN  /\ RingOK(d) /\ d.user = c.user /\ d.fill = c.fill
             /\ d.lowLatency = c.lowLatency
             /\ d.block[c.fill] = Append(c.block[c.fill], frame)
             /\ d.block[c.fill] # c.block[c.fill]
             /\ WaitingIn(d) = IF frame.own THEN WaitingIn(c)
                               ELSE Append(WaitingIn(c), frame)
<1> DEFINE d == Stored(c, frame)
<1>1. c \in Ring
  BY DEF RingOK
<1>2. PICK m \in 0 .. Blocks : HandedUpTo(c, m)
  BY DEF RingOK
<1>3. /\ Blocks \in Nat /\ Blocks > 1 /\ c.next \in Places /\ c.fill \in Places
      /\ c.fill = Place(c.next, m) /\ c.block \in [Places -> Seq(Captured)]
  BY <1>1, <1>2, CaptureAssumption DEF Ring, HandedUpTo
<1>4. m < Blocks
  <2> SUFFICES ASSUME m = Blocks PROVE FALSE
    BY <1>3
  <2>1. Place(c.next, Blocks) = c.next /\ Place(c.next, 0) = c.next
    BY <1>3, PlaceFacts
  <2>2. c.user[Place(c.next, 0)]
    BY <1>2, <1>3 DEF HandedUpTo
  <2> QED
    BY <1>3, <2>1, <2>2
<1> DEFINE s == c.block[c.fill]
<1>5. /\ s \in Seq(Captured) /\ Append(s, frame) \in Seq(Captured)
      /\ Append(s, frame) # s
  <2>1. s \in Seq(Captured)
    BY <1>3
  <2>2. Append(s, frame) \in Seq(Captured) /\ Len(Append(s, frame)) = Len(s) + 1
        /\ Len(s) \in Nat
    BY <2>1, AppendProperties, LenProperties
  <2>3. Len(s) + 1 # Len(s)
    BY <2>2
  <2> QED
    BY <2>1, <2>2, <2>3
<1>6. /\ d.block = [c.block EXCEPT ![c.fill] = Append(s, frame)]
      /\ d.pending = c.pending /\ d.next = c.next /\ d.fill = c.fill
      /\ d.user = c.user /\ d.lowLatency = c.lowLatency
  BY <1>1 DEF Stored, Ring
<1>7. d.block \in [Places -> Seq(Captured)]
  BY <1>3, <1>5, <1>6
<1>8. d \in Ring
  BY <1>1, <1>7 DEF Stored, Ring
<1>9. \A n \in 0 .. Blocks - 1 :
         d.block[Place(c.next, n)] = IF n = m THEN Append(s, frame)
                                     ELSE c.block[Place(c.next, n)]
  <2> SUFFICES ASSUME NEW n \in 0 .. Blocks - 1
               PROVE  d.block[Place(c.next, n)] = IF n = m THEN Append(s, frame)
                                                  ELSE c.block[Place(c.next, n)]
    OBVIOUS
  <2>0. m \in 0 .. Blocks - 1 /\ n \in 0 .. Blocks
    BY <1>3, <1>4
  <2>1. Place(c.next, n) \in Places /\ (Place(c.next, n) = Place(c.next, m) => n = m)
    <3>1. c.next \in Places /\ n \in 0 .. Blocks - 1
      BY <1>3
    <3>2. \A x, y \in 0 .. Blocks - 1 : Place(c.next, x) = Place(c.next, y) => x = y
      BY <3>1, PlaceFacts
    <3>3. Place(c.next, n) \in Places
      BY <2>0, <3>1, PlaceFacts
    <3> QED
      BY <2>0, <3>2, <3>3
  <2>2. Place(c.next, n) = c.fill <=> n = m
    BY <1>3, <2>1
  <2> QED
    BY <1>3, <1>6, <2>1, <2>2
<1> HIDE DEF d, s
<1>10. RingOK(d)
  <2>1. \A n \in 0 .. Blocks - 1 : d.user[Place(d.next, n)] <=> n < m
    BY <1>2, <1>6 DEF HandedUpTo
  <2>2. \A n \in m + 1 .. Blocks - 1 : d.block[Place(d.next, n)] = <<>>
    <3> SUFFICES ASSUME NEW n \in m + 1 .. Blocks - 1
                 PROVE  d.block[Place(c.next, n)] = <<>>
      BY <1>6
    <3>1. n \in 0 .. Blocks - 1 /\ n # m
      BY <1>3
    <3>2. c.block[Place(c.next, n)] = <<>>
      BY <1>2 DEF HandedUpTo
    <3> QED
      BY <1>9, <3>1, <3>2
  <2>3. HandedUpTo(d, m)
    BY <1>3, <1>6, <2>1, <2>2 DEF HandedUpTo
  <2> QED
    BY <1>8, <2>3 DEF RingOK
<1>11. WaitingIn(d) = IF frame.own THEN WaitingIn(c) ELSE Append(WaitingIn(c), frame)
  <2>1. PICK f : Gathers(f, c)
    BY <1>1, WaitingGathered
  <2>2. PICK g : Gathers(g, d)
    BY <1>8, WaitingGathered
  <2> DEFINE More(n) == n > m /\ ~frame.own
             T == {n \in 0 .. Blocks : g[n] = IF More(n) THEN Append(f[n], frame)
                                              ELSE f[n]}
  <2>3. 0 \in T
    BY <1>3, <1>6, <2>1, <2>2 DEF Gathers
  <2>4. \A n \in 0 .. Blocks - 1 : n \in T => n + 1 \in T
    <3> SUFFICES ASSUME NEW n \in 0 .. Blocks - 1, n \in T
                 PROVE  g[n+1] = IF More(n + 1) THEN Append(f[n+1], frame) ELSE f[n+1]
      BY SMTT(20), <1>3
    <3> DEFINE b == c.block[Place(c.next, n)]
               b1 == d.block[Place(c.next, n)]
    <3>0. n \in 0 .. Blocks /\ n + 1 \in 0 .. Blocks
      BY <1>3
    <3>1. /\ f[n+1] = f[n] \o Foreign(b) /\ g[n+1] = g[n] \o Foreign(b1)
          /\ f[n] \in Seq(Others) /\ g[n] \in Seq(Others) /\ f[n+1] \in Seq(Others)
          /\ g[n] = IF More(n) THEN Append(f[n], frame) ELSE f[n]
      BY <1>6, <2>1, <2>2, <3>0 DEF Gathers
    <3>2. b \in Seq(Captured) /\ b1 = IF n = m THEN Append(s, frame) ELSE b
      BY <1>1, <1>9, RingFields
    <3>3. Foreign(b) \in Seq(Others) /\ (~frame.own => frame \in Others)
      BY <3>2, ForeignFacts DEF Others
    <3> HIDE DEF b, b1
    <3>4. CASE n < m
      <4>1. ~More(n) /\ ~More(n + 1) /\ b1 = b
        BY <1>3, <3>2, <3>4
      <4> QED
        BY <3>1, <4>1
    <3>5. CASE n = m
      <4>1. ~More(n) /\ (More(n + 1) <=> ~frame.own) /\ b1 = Append(s, frame)
        BY <1>3, <3>2, <3>5
      <4>2. b = s
        BY <1>3, <3>5 DEF b, s
      <4>3. Foreign(b1) = IF frame.own THEN Foreign(b) ELSE Append(Foreign(b), frame)
        BY <3>2, <4>1, <4>2, ForeignFacts
      <4>4. CASE frame.own
        BY <3>1, <4>1, <4>3, <4>4
      <4>5. CASE ~frame.own
        <5>1. f[n] \o Append(Foreign(b), frame) = Append(f[n] \o Foreign(b), frame)
          <6>1. f[n] \in Seq(Others) /\ Foreign(b) \in Seq(Others) /\ frame \in Others
            BY <3>1, <3>3, <4>5
          <6> QED
            BY <6>1, ConcatAppend
        <5>2. g[n] = f[n] /\ Foreign(b1) = Append(Foreign(b), frame) /\ More(n + 1)
          BY <3>1, <4>1, <4>3, <4>5
        <5> HIDE DEF More
        <5> QED
          BY <3>1, <5>1, <5>2
      <4> QED
        BY <4>4, <4>5
    <3>6. CASE n > m
      <4>1. (More(n) <=> ~frame.own) /\ (More(n + 1) <=> ~frame.own) /\ b1 = b
        BY <1>3, <3>2, <3>6
      <4>2. b = <<>>
        BY <1>2, <1>3, <3>6 DEF HandedUpTo, b
      <4>3. Foreign(b) = <<>>
        BY <3>2, <4>2, ForeignFacts
      <4>4. f[n+1] = f[n] /\ g[n+1] = g[n]
        BY <3>1, <4>1, <4>3, ConcatEmptySeq
      <4> QED
        BY <3>1, <4>1, <4>4
    <3> QED
      BY <1>3, <3>4, <3>5, <3>6
  <2>5. \A n \in 0 .. Blocks : n \in T
    <3> HIDE DEF T
    <3> QED
      BY <1>3, <2>3, <2>4, UpTo
  <2>6. g[Blocks] = IF frame.own THEN f[Blocks] ELSE Append(f[Blocks], frame)
    BY <1>3, <1>4, <2>5
  <2> QED
    BY <2>1, <2>2, <2>6 DEF Gathers
<1>12. d.block[c.fill] = Append(s, frame)
  BY <1>3, <1>6
<1> QED
  BY <1>5, <1>6, <1>10, <1>11, <1>12 DEF d, s

LEMMA QueuedFacts ==
  ASSUME NEW c, RingOK(c), NEW frame \in Captured
  PROVE  LET d == Queued(c, frame)
         IN  /\ RingOK(d) /\ (d = c <=> c.user[c.fill])
             /\ WaitingIn(d) = IF c.user[c.fill] \/ frame.own THEN WaitingIn(c)
                               ELSE Append(WaitingIn(c), frame)
<1> DEFINE c1 == Stored(c, frame)
           d == Queued(c, frame)
<1>1. CASE c.user[c.fill]
  BY <1>1 DEF Queued
<1>2. CASE ~c.user[c.fill]
  <2>1. /\ RingOK(c1) /\ ~c1.user[c1.fill] /\ c1.fill = c.fill
        /\ c1.block[c.fill] # c.block[c.fill]
        /\ WaitingIn(c1) = IF frame.own THEN WaitingIn(c)
                           ELSE Append(WaitingIn(c), frame)
    BY <1>2, StoredFacts
  <2>2. /\ RingOK(HandOver(c1)) /\ WaitingIn(HandOver(c1)) = WaitingIn(c1)
        /\ HandOver(c1).block = c1.block
    BY <2>1, HandOverFacts
  <2>3. d = c1 \/ d = HandOver(c1)
    BY <1>2 DEF Queued, Stored
  <2>4. d.block = c1.block /\ RingOK(d) /\ WaitingIn(d) = WaitingIn(c1)
    BY <2>1, <2>2, <2>3
  <2>5. d # c
    BY <2>1, <2>4
  <2> QED
    BY <1>2, <2>1, <2>4, <2>5
<1> QED
  BY <1>1, <1>2

(***************************************************************************)
(* A block read and given back: its frames are before those of the next    *)
(* block, and it is the last the kernel will fill.                         *)
(***************************************************************************)
LEMMA ReadFacts ==
  ASSUME NEW c, RingOK(c), c.user[c.next]
  PROVE  RingOK(Read(c)) /\ WaitingIn(Read(c)) = WaitingIn(c)
<1> DEFINE d == Read(c)
           b0 == c.block[c.next]
<1>1. c \in Ring
  BY DEF RingOK
<1>2. PICK m \in 0 .. Blocks : HandedUpTo(c, m)
  BY DEF RingOK
<1>3. /\ Blocks \in Nat /\ Blocks > 1 /\ c.next \in Places /\ c.fill \in Places
      /\ c.fill = Place(c.next, m) /\ After(c.next) \in Places
      /\ c.block \in [Places -> Seq(Captured)] /\ c.user \in [Places -> BOOLEAN]
      /\ c.pending \in Seq(Others)
  BY <1>1, <1>2, CaptureAssumption, PlaceFacts DEF Ring, HandedUpTo
<1>4. m > 0
  <2>1. Place(c.next, 0) = c.next /\ 0 \in 0 .. Blocks - 1
    BY <1>3, PlaceFacts
  <2>2. 0 < m
    BY <1>2, <2>1 DEF HandedUpTo
  <2> QED
    BY <2>2
<1>5. b0 \in Seq(Captured) /\ Foreign(b0) \in Seq(Others)
  BY <1>3, ForeignFacts
<1>6. c.pending \o Foreign(b0) \in Seq(Others)
  BY <1>3, <1>5, ConcatProperties
<1>7. /\ d.lowLatency = c.lowLatency /\ d.fill = c.fill /\ d.next = After(c.next)
      /\ d.block = [c.block EXCEPT ![c.next] = <<>>]
      /\ d.user = [c.user EXCEPT ![c.next] = FALSE]
      /\ d.pending = c.pending \o Foreign(b0)
  BY <1>1 DEF Read, GiveBack, Ring
<1>8. <<>> \in Seq(Captured)
  BY EmptySeq
<1>9. d.block \in [Places -> Seq(Captured)] /\ d.user \in [Places -> BOOLEAN]
  BY <1>3, <1>7, <1>8
<1>10. d \in Ring
  <2>1. d = [c EXCEPT !.block = d.block, !.user = d.user, !.next = d.next,
                      !.pending = d.pending]
    BY <1>1 DEF Read, GiveBack, Ring
  <2> HIDE DEF d
  <2> QED
    BY <1>1, <1>3, <1>6, <1>7, <1>9, <2>1 DEF Ring
<1>11. ASSUME NEW n \in 0 .. Blocks - 1
       PROVE  /\ Place(d.next, n) = Place(c.next, n + 1)
              /\ Place(c.next, n + 1) \in Places
              /\ Place(c.next, n + 1) = c.next <=> n + 1 = Blocks
              /\ d.block[Place(d.next, n)] =
                    IF n + 1 = Blocks THEN <<>> ELSE c.block[Place(c.next, n + 1)]
              /\ d.user[Place(d.next, n)] <=>
                    n + 1 # Blocks /\ c.user[Place(c.next, n + 1)]
  <2>0. n + 1 \in 0 .. Blocks /\ 0 \in 0 .. Blocks - 1 /\ n + 1 # 0
    BY <1>3
  <2>1. Place(After(c.next), n) = Place(c.next, n + 1) /\ Place(c.next, n + 1) \in Places
    BY <1>3, <2>0, PlaceFacts
  <2>2. Place(c.next, 0) = c.next /\ Place(c.next, Blocks) = c.next
    BY <1>3, PlaceFacts
  <2>3. n + 1 # Blocks => n + 1 \in 0 .. Blocks - 1
    BY <1>3
  <2>4. n + 1 # Blocks => Place(c.next, n + 1) # Place(c.next, 0)
    BY <1>3, <2>0, <2>3, PlaceFacts
  <2>5. Place(c.next, n + 1) = c.next <=> n + 1 = Blocks
    BY <2>2, <2>4
  <2>6. d.block[Place(c.next, n + 1)] =
           IF n + 1 = Blocks THEN <<>> ELSE c.block[Place(c.next, n + 1)]
    BY <1>3, <1>7, <2>1, <2>5
  <2>7. d.user[Place(c.next, n + 1)] <=> n + 1 # Blocks /\ c.user[Place(c.next, n + 1)]
    BY <1>3, <1>7, <2>1, <2>5
  <2> QED
    BY <1>7, <2>1, <2>5, <2>6, <2>7
<1> HIDE DEF d, b0
<1>12. RingOK(d)
  <2>1. d.fill = Place(d.next, m - 1)
    <3>1. m - 1 \in 0 .. Blocks - 1 /\ (m - 1) + 1 = m
      BY <1>3, <1>4
    <3>2. Place(d.next, m - 1) = Place(c.next, (m - 1) + 1)
      BY <1>11, <3>1
    <3> QED
      BY <1>3, <1>7, <3>1, <3>2
  <2>2. \A n \in 0 .. Blocks - 1 : d.user[Place(d.next, n)] <=> n < m - 1
    <3> SUFFICES ASSUME NEW n \in 0 .. Blocks - 1
                 PROVE  d.user[Place(d.next, n)] <=> n < m - 1
      OBVIOUS
    <3>1. d.user[Place(d.next, n)] <=> n + 1 # Blocks /\ c.user[Place(c.next, n + 1)]
      BY <1>11
    <3>2. CASE n + 1 = Blocks
      <4>1. ~(n < m - 1)
        BY <1>3, <3>2
      <4> QED
        BY <3>1, <3>2, <4>1
    <3>3. CASE n + 1 # Blocks
      <4>1. n + 1 \in 0 .. Blocks - 1
        BY <1>3, <3>3
      <4>2. c.user[Place(c.next, n + 1)] <=> n + 1 < m
        BY <1>2, <4>1 DEF HandedUpTo
      <4>3. n + 1 < m <=> n < m - 1
        BY <1>3
      <4> QED
        BY <3>1, <3>3, <4>2, <4>3
    <3> QED
      BY <3>2, <3>3
  <2>3. \A n \in (m - 1) + 1 .. Blocks - 1 : d.block[Place(d.next, n)] = <<>>
    <3> SUFFICES ASSUME NEW n \in (m - 1) + 1 .. Blocks - 1
                 PROVE  d.block[Place(d.next, n)] = <<>>
      OBVIOUS
    <3>1. n \in 0 .. Blocks - 1 /\ (n + 1 # Blocks => n + 1 \in m + 1 .. Blocks - 1)
      BY <1>3, <1>4
    <3>2. n + 1 # Blocks => c.block[Place(c.next, n + 1)] = <<>>
      BY <1>2, <3>1 DEF HandedUpTo
    <3> QED
      BY <1>11, <3>1, <3>2
  <2>4. m - 1 \in 0 .. Blocks
    BY <1>3, <1>4
  <2> QED
    BY <1>10, <2>1, <2>2, <2>3, <2>4 DEF RingOK, HandedUpTo
<1>13. WaitingIn(d) = WaitingIn(c)
  <2>1. PICK f : Gathers(f, c)
    BY <1>1, WaitingGathered
  <2>2. PICK g : Gathers(g, d)
    BY <1>10, WaitingGathered
  <2> DEFINE T == {n \in 0 .. Blocks - 1 : g[n] = f[n+1]}
  <2>3. 0 \in T
    <3>1. 0 \in 0 .. Blocks - 1 /\ 0 + 1 = 1
      BY <1>3
    <3>2. f[0+1] = f[0] \o Foreign(c.block[Place(c.next, 0)])
      BY <2>1, <3>1 DEF Gathers
    <3>3. f[0] = c.pending /\ g[0] = c.pending \o Foreign(b0)
      BY <1>7, <2>1, <2>2 DEF Gathers
    <3>4. c.block[Place(c.next, 0)] = b0
      BY <1>3, PlaceFacts DEF b0
    <3> QED
      BY <3>1, <3>2, <3>3, <3>4
  <2>4. \A n \in 0 .. (Blocks - 1) - 1 : n \in T => n + 1 \in T
    <3> SUFFICES ASSUME NEW n \in 0 .. (Blocks - 1) - 1, n \in T
                 PROVE  g[n+1] = f[(n+1)+1]
      BY <1>3
    <3>1. n \in 0 .. Blocks - 1 /\ n + 1 \in 0 .. Blocks - 1 /\ n + 1 # Blocks
      BY <1>3
    <3>2. g[n+1] = g[n] \o Foreign(d.block[Place(d.next, n)])
      BY <2>2, <3>1 DEF Gathers
    <3>3. f[(n+1)+1] = f[n+1] \o Foreign(c.block[Place(c.next, n + 1)])
      BY <2>1, <3>1 DEF Gathers
    <3>4. d.block[Place(d.next, n)] = c.block[Place(c.next, n + 1)]
      BY <1>11, <3>1
    <3> QED
      BY <3>2, <3>3, <3>4
  <2>5. \A n \in 0 .. Blocks - 1 : n \in T
    <3>1. Blocks - 1 \in Nat
      BY <1>3
    <3> HIDE DEF T
    <3> QED
      BY <2>3, <2>4, <3>1, UpTo
  <2>6. /\ Blocks - 1 \in 0 .. Blocks - 1 /\ (Blocks - 1) + 1 = Blocks
        /\ Blocks - 1 \in 0 .. Blocks
    BY <1>3
  <2>7. g[(Blocks-1)+1] = g[Blocks-1] \o Foreign(d.block[Place(d.next, Blocks - 1)])
    BY <2>2, <2>6 DEF Gathers
  <2>8. d.block[Place(d.next, Blocks - 1)] = <<>>
    BY <1>11, <2>6
  <2>9. Foreign(<<>>) = <<>>
    BY <1>8, ForeignFacts
  <2>10. g[Blocks-1] \in Seq(Others)
    BY <2>2, <2>6 DEF Gathers
  <2>11. g[Blocks-1] \o <<>> = g[Blocks-1]
    BY <2>10, ConcatEmptySeq
  <2>12. g[Blocks-1] = f[(Blocks-1)+1]
    BY <2>5, <2>6
  <2>13. g[Blocks] = f[Blocks]
    BY <2>6, <2>7, <2>8, <2>9, <2>11, <2>12
  <2> QED
    BY <2>1, <2>2, <2>13 DEF Gathers
<1> QED
  BY <1>12, <1>13 DEF d

(***************************************************************************)
(* All that is ready, read block after block, is still to be received in   *)
(* the order it was.                                                       *)
(***************************************************************************)
LEMMA ReadReadyFacts ==
  ASSUME NEW c, RingOK(c)
  PROVE  RingOK(ReadReady(c)) /\ WaitingIn(ReadReady(c)) = WaitingIn(c)
<1> DEFINE S == {x \in Ring : RingOK(x) /\ WaitingIn(x) = WaitingIn(c)}
           Next1(x) == IF Ready(x) THEN Read(x) ELSE x
           Is(f) == f = [n \in 0 .. Blocks |-> IF n = 0 THEN c ELSE Next1(f[n-1])]
           Steps(f) == f[0] = c /\ \A n \in 1 .. Blocks : f[n] = Next1(f[n-1])
           g == CHOOSE f : Is(f)
<1>1. Blocks \in Nat /\ c \in S
  BY CaptureAssumption DEF RingOK
<1>2. \A x \in S : Next1(x) \in S
  <2> SUFFICES ASSUME NEW x \in S PROVE Next1(x) \in S
    OBVIOUS
  <2>1. CASE Ready(x)
    <3>1. RingOK(Read(x)) /\ WaitingIn(Read(x)) = WaitingIn(x)
      BY <2>1, ReadFacts DEF Ready
    <3>2. Read(x) \in Ring
      BY <3>1 DEF RingOK
    <3> QED
      BY <2>1, <3>1, <3>2
  <2>2. CASE ~Ready(x)
    BY <2>2
  <2> QED
    BY <2>1, <2>2
<1>4. \E f \in [0 .. Blocks -> S] : Steps(f)
  <2> DEFINE G == [n \in 1 .. Blocks |-> [x \in S |-> Next1(x)]]
  <2>1. G \in [1 .. Blocks -> [S -> S]]
    <3> HIDE DEF S, Next1
    <3> QED
      BY <1>2
  <2>2. PICK f : Solves(f, Blocks, S, c, G)
    <3> HIDE DEF G, S
    <3> QED
      BY <1>1, <2>1, Recursion
  <2>3. \A n \in 1 .. Blocks : f[n-1] \in S
    <3> HIDE DEF S
    <3> QED
      BY <1>1, <2>2 DEF Solves
  <2>4. \A n \in 1 .. Blocks : G[n][f[n-1]] = Next1(f[n-1])
    <3> HIDE DEF S, Next1
    <3> QED
      BY <2>3
  <2>5. f \in [0 .. Blocks -> S] /\ Steps(f)
    <3> HIDE DEF G, S, Next1
    <3> QED
      BY <2>2, <2>4 DEF Solves
  <2> HIDE DEF Steps
  <2> QED
    BY <2>5
<1>a. \A n \in 0 .. Blocks : n = 0 \/ n \in 1 .. Blocks
  BY <1>1
<1>b. 0 \in 0 .. Blocks /\ \A n \in 1 .. Blocks : n \in 0 .. Blocks /\ n # 0
  BY <1>1
<1>5. Is(g)
  <2>1. PICK f \in [0 .. Blocks -> S] : Steps(f)
    BY <1>4
  <2>2. \A n \in 0 .. Blocks : f[n] = IF n = 0 THEN c ELSE Next1(f[n-1])
    BY <1>a, <2>1, Zenon
  <2>3. Is(f)
    BY <2>2, Zenon
  <2> HIDE DEF Is
  <2> QED
    BY <2>3
<1>6. ReadReady(c) = g[Blocks]
  BY DEF ReadReady
<1> HIDE DEF g
<1>7. DOMAIN g = 0 .. Blocks /\ g = [n \in 0 .. Blocks |-> g[n]] /\ Steps(g)
  <2>1. DOMAIN g = 0 .. Blocks /\ g = [n \in 0 .. Blocks |-> g[n]]
    BY <1>5, Zenon
  <2>2. Steps(g)
    BY <1>5, <1>b, Zenon
  <2> QED
    BY <2>1, <2>2
<1>8. g \in [0 .. Blocks -> S]
  <2> HIDE DEF Is
  <2>1. g[0] \in S /\ \A n \in 1 .. Blocks : g[n-1] \in S => g[n] \in S
    <3> HIDE DEF S, Next1
    <3> QED
      BY <1>1, <1>2, <1>7
  <2> HIDE DEF S, Steps
  <2> QED
    BY <1>1, <1>7, <2>1, RecursionType
<1>9. g[Blocks] \in S
  <2> HIDE DEF S
  <2> QED
    BY <1>1, <1>8
<1> QED
  BY <1>6, <1>9

LEMMA ConcatHeadTail ==
  ASSUME NEW s \in Seq(Others), NEW t \in Seq(Others), s # <<>>
  PROVE  /\ s \o t # <<>> /\ Head(s \o t) = Head(s)
         /\ Tail(s \o t) = Tail(s) \o t
<1>1. Len(s) \in Nat /\ Len(s) > 0 /\ Len(t) \in Nat
  BY EmptySeq, LenProperties
<1> DEFINE u == s \o t
<1>2. /\ u \in Seq(Others) /\ Len(u) = Len(s) + Len(t)
      /\ \A i \in 1 .. Len(s) + Len(t) :
            u[i] = IF i <= Len(s) THEN s[i] ELSE t[i - Len(s)]
  BY ConcatProperties
<1> HIDE DEF u
<1>3. u # <<>>
  BY <1>1, <1>2, EmptySeq
<1>4. /\ Head(s) = s[1] /\ Tail(s) \in Seq(Others) /\ Len(Tail(s)) = Len(s) - 1
      /\ \A i \in 1 .. Len(Tail(s)) : Tail(s)[i] = s[i+1]
  BY <1>1, HeadTailProperties
<1>5. /\ Head(u) = u[1] /\ Tail(u) \in Seq(Others) /\ Len(Tail(u)) = Len(u) - 1
      /\ \A i \in 1 .. Len(Tail(u)) : Tail(u)[i] = u[i+1]
  BY <1>1, <1>2, <1>3, HeadTailProperties
<1>6. Head(u) = Head(s)
  BY <1>1, <1>2, <1>4, <1>5
<1> DEFINE v == Tail(s) \o t
<1>7. /\ v \in Seq(Others) /\ Len(v) = Len(Tail(s)) + Len(t)
      /\ \A i \in 1 .. Len(Tail(s)) + Len(t) :
            v[i] = IF i <= Len(Tail(s)) THEN Tail(s)[i] ELSE t[i - Len(Tail(s))]
  BY <1>4, ConcatProperties
<1> HIDE DEF v
<1>8. Len(Tail(u)) = Len(v)
  BY <1>1, <1>2, <1>4, <1>5, <1>7
<1>9. \A i \in 1 .. Len(v) : Tail(u)[i] = v[i]
  <2> SUFFICES ASSUME NEW i \in 1 .. Len(v) PROVE Tail(u)[i] = v[i]
    OBVIOUS
  <2>1. /\ i \in 1 .. Len(Tail(u)) /\ i + 1 \in 1 .. Len(s) + Len(t)
        /\ i \in 1 .. Len(Tail(s)) + Len(t)
    BY <1>1, <1>2, <1>4, <1>7, <1>8
  <2>2. Tail(u)[i] = IF i + 1 <= Len(s) THEN s[i+1] ELSE t[(i + 1) - Len(s)]
    BY <1>2, <1>5, <2>1
  <2>3. v[i] = IF i <= Len(Tail(s)) THEN Tail(s)[i] ELSE t[i - Len(Tail(s))]
    BY <1>7, <2>1
  <2>4. CASE i + 1 <= Len(s)
    <3>1. i <= Len(Tail(s)) /\ i \in 1 .. Len(Tail(s))
      BY <1>1, <1>4, <2>1, <2>4
    <3> QED
      BY <1>4, <2>2, <2>3, <2>4, <3>1
  <2>5. CASE ~(i + 1 <= Len(s))
    <3>1. ~(i <= Len(Tail(s))) /\ (i + 1) - Len(s) = i - Len(Tail(s))
      BY <1>1, <1>4, <2>1, <2>5
    <3> QED
      BY <2>2, <2>3, <2>5, <3>1
  <2> QED
    BY <2>4, <2>5
<1>10. Tail(u) = v
  BY <1>5, <1>7, <1>8, <1>9, SeqEqual
<1> QED
  BY <1>3, <1>6, <1>10 DEF u, v

(***************************************************************************)
(* What recv() chooses from, and what it takes.                            *)
(***************************************************************************)
LEMMA CollectedFacts ==
  ASSUME RingOK(capture)
  PROVE  /\ RingOK(Collected) /\ WaitingIn(Collected) = Waiting
         /\ Waiting \in Seq(Others)
         /\ Collected.pending # <<>> =>
               LET d == [Collected EXCEPT !.pending = Tail(@)]
               IN  /\ RingOK(d) /\ Waiting # <<>> /\ Received = Head(Waiting)
                   /\ WaitingIn(d) = Tail(Waiting)
<1> DEFINE c == Collected
           d == [c EXCEPT !.pending = Tail(@)]
<1>1. RingOK(c) /\ WaitingIn(c) = Waiting
  BY ReadReadyFacts DEF Collected, Waiting
<1>2. c \in Ring
  BY <1>1 DEF RingOK
<1>3. Waiting \in Seq(Others) /\ c.pending \in Seq(Others)
  BY <1>1, <1>2, WaitingGathered DEF Ring
<1> HIDE DEF c
<1>4. ASSUME c.pending # <<>>
      PROVE  /\ RingOK(d) /\ Waiting # <<>> /\ Head(c.pending) = Head(Waiting)
             /\ WaitingIn(d) = Tail(Waiting)
  <2>1. Tail(c.pending) \in Seq(Others) /\ Head(c.pending) \in Others
    BY <1>3, <1>4, HeadTailProperties
  <2>2. /\ d \in Ring /\ d.pending = Tail(c.pending) /\ d.block = c.block
        /\ d.user = c.user /\ d.fill = c.fill /\ d.next = c.next
    BY <1>2, <2>1 DEF Ring
  <2> HIDE DEF d
  <2>3. RingOK(d)
    BY <1>1, <2>2 DEF RingOK, HandedUpTo
  <2>4. PICK f : Gathers(f, c)
    BY <1>2, WaitingGathered
  <2>5. PICK g : Gathers(g, d)
    BY <2>2, WaitingGathered
  <2> DEFINE Short(n) == f[n] # <<>> /\ Head(f[n]) = Head(c.pending) /\ g[n] = Tail(f[n])
             T == {n \in 0 .. Blocks : Short(n)}
  <2>6. Blocks \in Nat
    BY CaptureAssumption
  <2>7. 0 \in T
    BY SMTT(20), <1>4, <2>2, <2>4, <2>5, <2>6 DEF Gathers
  <2>8. \A n \in 0 .. Blocks - 1 : n \in T => n + 1 \in T
    <3> SUFFICES ASSUME NEW n \in 0 .. Blocks - 1, Short(n) PROVE Short(n + 1)
      BY <2>6
    <3> DEFINE t == Foreign(c.block[Place(c.next, n)])
    <3>1. n \in 0 .. Blocks /\ f[n] \in Seq(Others) /\ g[n] \in Seq(Others)
      BY <2>4, <2>5, <2>6 DEF Gathers
    <3>2. t \in Seq(Others)
      BY <1>2, <3>1, RingFields, ForeignFacts
    <3>3. f[n+1] = f[n] \o t /\ g[n+1] = g[n] \o t
      BY <2>2, <2>4, <2>5 DEF Gathers
    <3> HIDE DEF t
    <3>4. f[n] \o t # <<>> /\ Head(f[n] \o t) = Head(f[n]) /\ Tail(f[n] \o t) = Tail(f[n]) \o t
      BY <3>1, <3>2, ConcatHeadTail
    <3> QED
      BY <3>3, <3>4
  <2>9. \A n \in 0 .. Blocks : n \in T
    <3> HIDE DEF T
    <3> QED
      BY <2>6, <2>7, <2>8, UpTo
  <2>10. Short(Blocks)
    BY <2>6, <2>9
  <2> QED
    BY <1>1, <2>3, <2>4, <2>5, <2>10 DEF Gathers
<1> QED
  BY <1>1, <1>3, <1>4 DEF c, Received

----------------------------------------------------------------------------
(* Types                                                                   *)

Sources == {"row", "fault", "waves"} \X Nat
Sample == [smp : 0 .. Rate - 1, from : Sources]

LEMMA RateFacts ==
  /\ Rate \in Nat /\ Rate > 0 /\ Asdus \in Nat /\ Asdus > 0
  /\ PerSecond \in Nat /\ PerSecond > 0 /\ Rate = PerSecond * Asdus
  /\ StartSecond \in Nat /\ Rows \in Nat /\ PlaySmp \in Nat /\ Repeat \in Nat
<1>1. /\ Rate \in Nat /\ Rate > 0 /\ Asdus \in Nat /\ Asdus > 0 /\ Rate % Asdus = 0
      /\ StartSecond \in Nat /\ Rows \in Nat /\ PlaySmp \in Nat /\ Repeat \in Nat
  BY PublisherAssumption
<1>2. /\ Rate \div Asdus \in Int
      /\ Rate = Asdus * (Rate \div Asdus) + (Rate % Asdus)
  BY <1>1
<1> DEFINE q == Rate \div Asdus
<1>3. q \in Int /\ Rate = Asdus * q
  BY <1>1, <1>2
<1> HIDE DEF q
<1>4. q > 0
  BY <1>1, <1>3
<1>5. Rate = q * Asdus
  BY <1>1, <1>3
<1> QED
  BY <1>1, <1>3, <1>4, <1>5 DEF q, PerSecond

(***************************************************************************)
(* The samples of the k-th frame: their counts, and where they are in the  *)
(* stream.                                                                 *)
(***************************************************************************)
First(k) == (k % PerSecond) * Asdus

LEMMA FirstFacts ==
  ASSUME NEW k \in Nat
  PROVE  /\ k % PerSecond \in 0 .. PerSecond - 1 /\ k \div PerSecond \in Nat
         /\ First(k) \in Nat /\ First(k) + Asdus <= Rate
         /\ k = PerSecond * (k \div PerSecond) + (k % PerSecond)
<1>1. /\ PerSecond \in Nat /\ PerSecond > 0 /\ Asdus \in Nat /\ Asdus > 0
      /\ Rate = PerSecond * Asdus
  BY RateFacts
<1>2. /\ k % PerSecond \in 0 .. PerSecond - 1 /\ k \div PerSecond \in Nat
      /\ k = PerSecond * (k \div PerSecond) + (k % PerSecond)
  BY <1>1
<1> DEFINE x == k % PerSecond
<1>3. x \in Nat /\ x + 1 <= PerSecond
  BY <1>1, <1>2
<1> HIDE DEF x
<1>4. x * Asdus \in Nat /\ (x + 1) * Asdus = x * Asdus + Asdus
  BY <1>1, <1>3
<1>5. (x + 1) * Asdus <= PerSecond * Asdus
  BY <1>1, <1>3
<1>6. x * Asdus + Asdus <= Rate
  BY <1>1, <1>4, <1>5
<1> QED
  BY <1>2, <1>4, <1>6 DEF x, First

LEMMA SourceType ==
  ASSUME NEW second \in Nat, NEW smp \in Nat
  PROVE  Source(second, smp) \in Sources
<1>1. CASE PlayedRow(second, smp) # {}
  <2>1. PlayedRow(second, smp) \subseteq Nat
    BY RateFacts DEF PlayedRow
  <2>2. (CHOOSE row \in PlayedRow(second, smp) : TRUE) \in Nat
    BY <1>1, <2>1
  <2> QED
    BY <1>1, <2>2 DEF Source, Sources
<1>2. CASE PlayedRow(second, smp) = {}
  BY <1>2 DEF Source, Sources
<1> QED
  BY <1>1, <1>2

LEMMA SamplesFacts ==
  ASSUME NEW k \in Nat
  PROVE  /\ Samples(k) \in Seq(Sample) /\ Len(Samples(k)) = Asdus
         /\ \A i \in 1 .. Asdus :
               /\ Samples(k)[i].smp = First(k) + i - 1
               /\ Samples(k)[i].from =
                     Source(StartSecond + (k \div PerSecond), First(k) + i - 1)
<1>1. /\ PerSecond \in Nat /\ PerSecond > 0 /\ Asdus \in Nat /\ Asdus > 0
      /\ Rate \in Nat /\ Rate > 0 /\ StartSecond \in Nat
      /\ First(k) \in Nat /\ First(k) + Asdus <= Rate /\ k \div PerSecond \in Nat
  BY RateFacts, FirstFacts
<1> DEFINE At(n) == [smp |-> n % Rate,
                     from |-> Source(StartSecond + (k \div PerSecond) + n \div Rate, n % Rate)]
<1>2. Samples(k) = [i \in 1 .. Asdus |-> At(First(k) + i - 1)]
  BY DEF Samples, First, PerSecond
<1>3. ASSUME NEW i \in 1 .. Asdus
      PROVE  /\ At(First(k) + i - 1) \in Sample
             /\ At(First(k) + i - 1).smp = First(k) + i - 1
             /\ At(First(k) + i - 1).from =
                   Source(StartSecond + (k \div PerSecond), First(k) + i - 1)
  <2> DEFINE n == First(k) + i - 1
  <2>1. n \in 0 .. Rate - 1
    BY <1>1
  <2> HIDE DEF n
  <2>2. n % Rate = n /\ n \div Rate = 0
    BY <1>1, <2>1
  <2>3. StartSecond + (k \div PerSecond) + 0 = StartSecond + (k \div PerSecond)
        /\ StartSecond + (k \div PerSecond) \in Nat /\ n \in Nat
    BY <1>1, <2>1
  <2>4. Source(StartSecond + (k \div PerSecond), n) \in Sources
    BY <2>3, SourceType
  <2>5. At(n) = [smp |-> n, from |-> Source(StartSecond + (k \div PerSecond), n)]
    BY <2>2, <2>3
  <2>6. At(n) \in Sample /\ At(n).smp = n
        /\ At(n).from = Source(StartSecond + (k \div PerSecond), n)
    BY <2>1, <2>4, <2>5 DEF Sample
  <2> QED
    BY <2>6 DEF n
<1> HIDE DEF At
<1>4. Samples(k) \in [1 .. Asdus -> Sample]
  BY <1>2, <1>3
<1>5. Samples(k) \in Seq(Sample) /\ Len(Samples(k)) = Asdus
  BY <1>1, <1>4, LenProperties
<1> QED
  BY <1>2, <1>3, <1>5

----------------------------------------------------------------------------
(* What the supervision makes of a sample                                  *)

Kinds == {"new", "gap", "duplicate", "out of order", "restart", "timeout", "resumed"}

LEMMA StreamFields ==
  ASSUME NEW s \in SvStreamState
  PROVE  /\ s.rate \in Nat /\ s.known \in BOOLEAN /\ s.smp \in Nat
         /\ s.maxSeen \in Nat /\ s.wrapped \in BOOLEAN /\ s.missed \in Nat
         /\ s.timedOut \in BOOLEAN /\ s.lastSeen \in Nat /\ s.recent \in Seq(Nat)
         /\ s.events \in SUBSET Kinds
BY DEF SvStreamState, Kinds

\* All of a stream but the events, the count missed and the counters accepted.
SameBut(r, s) ==
    /\ r.rate = s.rate /\ r.known = s.known /\ r.smp = s.smp
    /\ r.maxSeen = s.maxSeen /\ r.wrapped = s.wrapped
    /\ r.timedOut = s.timedOut /\ r.lastSeen = s.lastSeen

LEMMA Emits ==
  ASSUME NEW s \in SvStreamState, NEW kind \in Kinds
  PROVE  LET r == Emit(s, kind)
         IN  /\ r \in SvStreamState /\ SameBut(r, s) /\ r.missed = s.missed
             /\ r.recent = s.recent /\ r.events = s.events \cup {kind}
BY DEF Emit, SvStreamState, Kinds, SameBut

LEMMA EmitsIf ==
  ASSUME NEW s \in SvStreamState, NEW kind \in Kinds, NEW condition \in BOOLEAN
  PROVE  LET r == EmitIf(s, condition, kind)
         IN  /\ r \in SvStreamState /\ SameBut(r, s) /\ r.missed = s.missed
             /\ r.recent = s.recent
             /\ r.events = IF condition THEN s.events \cup {kind} ELSE s.events
BY Emits DEF EmitIf, SameBut

\* The counters accepted last, after n.
Pushed(recent, n) ==
    IF Len(recent) < Window THEN Append(recent, n) ELSE Append(Tail(recent), n)

LEMMA PushedType ==
  ASSUME NEW recent \in Seq(Nat), NEW n \in Nat
  PROVE  Pushed(recent, n) \in Seq(Nat)
<1>1. CASE Len(recent) < Window
  BY <1>1, AppendProperties DEF Pushed
<1>2. CASE ~(Len(recent) < Window)
  <2>1. recent # <<>>
    BY <1>2, WindowAssumption, EmptySeq
  <2>2. Tail(recent) \in Seq(Nat)
    BY <2>1, HeadTailProperties
  <2> QED
    BY <1>2, <2>2, AppendProperties DEF Pushed
<1> QED
  BY <1>1, <1>2

LEMMA Remembers ==
  ASSUME NEW s \in SvStreamState, NEW n \in Nat
  PROVE  LET r == Remember(s, n)
         IN  /\ r \in SvStreamState /\ SameBut(r, s) /\ r.missed = s.missed
             /\ r.recent = Pushed(s.recent, n) /\ r.events = s.events
<1>1. s.recent \in Seq(Nat) /\ Pushed(s.recent, n) \in Seq(Nat)
  BY StreamFields, PushedType
<1>2. Remember(s, n) = [s EXCEPT !.recent = Pushed(s.recent, n)]
  BY DEF Remember, Pushed, SvStreamState
<1> QED
  BY <1>1, <1>2 DEF SvStreamState, SameBut

LEMMA LateFacts ==
  ASSUME NEW s \in SvStreamState, NEW n \in Nat
  PROVE  LET r == Late(s, n)
         IN  /\ r \in SvStreamState /\ SameBut(r, s)
             /\ n \in Range(s.recent) =>
                   r.missed = s.missed /\ r.recent = s.recent
             /\ n \notin Range(s.recent) =>
                   /\ r.missed = IF s.missed = 0 THEN 0 ELSE s.missed - 1
                   /\ r.recent = Pushed(s.recent, n)
<1>1. CASE n \in Range(s.recent)
  BY <1>1, Emits DEF Late, Kinds
<1>2. CASE n \notin Range(s.recent)
  <2> DEFINE e == Emit(s, "out of order")
             q == Remember(e, n)
             m == IF s.missed = 0 THEN 0 ELSE s.missed - 1
  <2>1. e \in SvStreamState /\ SameBut(e, s) /\ e.missed = s.missed /\ e.recent = s.recent
    BY Emits DEF Kinds
  <2> HIDE DEF e
  <2>a. q \in SvStreamState /\ SameBut(q, e) /\ q.missed = e.missed
        /\ q.recent = Pushed(e.recent, n)
    BY <2>1, Remembers
  <2> HIDE DEF q
  <2>2. q \in SvStreamState /\ SameBut(q, s) /\ q.missed = s.missed
        /\ q.recent = Pushed(s.recent, n)
    BY <2>1, <2>a DEF SameBut
  <2>3. m \in Nat
    BY StreamFields
  <2>4. Late(s, n) = [q EXCEPT !.missed = m]
    BY <1>2, <2>2 DEF Late, e, q, SvStreamState
  <2> HIDE DEF m
  <2>5. LET r == [q EXCEPT !.missed = m]
        IN  r \in SvStreamState /\ SameBut(r, s) /\ r.missed = m /\ r.recent = q.recent
    BY <2>2, <2>3 DEF SvStreamState, SameBut
  <2> QED
    BY <1>2, <2>2, <2>4, <2>5 DEF m
<1> QED
  BY <1>1, <1>2

LEMMA Accepts ==
  ASSUME NEW s \in SvStreamState, NEW smp \in Nat
  PROVE  LET r == AcceptSample(s, smp)
         IN  /\ r \in SvStreamState /\ r.rate = s.rate /\ r.known = s.known
             /\ r.smp = smp /\ r.maxSeen = (IF smp > s.maxSeen THEN smp ELSE s.maxSeen)
             /\ r.wrapped = s.wrapped /\ r.timedOut = s.timedOut
             /\ r.lastSeen = s.lastSeen /\ r.missed = s.missed
             /\ r.recent = Pushed(s.recent, smp) /\ r.events = s.events
<1> DEFINE q == Remember(s, smp)
           m == IF smp > s.maxSeen THEN smp ELSE s.maxSeen
<1>1. /\ q \in SvStreamState /\ SameBut(q, s) /\ q.missed = s.missed
      /\ q.recent = Pushed(s.recent, smp) /\ q.events = s.events
  BY Remembers
<1> HIDE DEF q
<1>2. m \in Nat
  BY StreamFields
<1>3. AcceptSample(s, smp) = [q EXCEPT !.smp = smp, !.maxSeen = m]
  BY <1>1 DEF AcceptSample, q, SvStreamState, SameBut
<1> HIDE DEF m
<1>4. LET r == [q EXCEPT !.smp = smp, !.maxSeen = m]
      IN  /\ r \in SvStreamState /\ r.rate = s.rate /\ r.known = s.known
          /\ r.smp = smp /\ r.maxSeen = m /\ r.wrapped = s.wrapped
          /\ r.timedOut = s.timedOut /\ r.lastSeen = s.lastSeen
          /\ r.missed = s.missed /\ r.recent = q.recent /\ r.events = q.events
  BY <1>1, <1>2 DEF SvStreamState, SameBut
<1> QED
  BY <1>1, <1>3, <1>4 DEF m

(***************************************************************************)
(* What _follow compares a sample with: the stream that is heard again,    *)
(* which may have learnt its rate.                                         *)
(***************************************************************************)
Reference(s, smp, t) ==
    Learn(EmitIf([s EXCEPT !.known = TRUE, !.lastSeen = t, !.timedOut = FALSE],
                 s.timedOut, "resumed"), smp)

\* What b is that a stream s becomes so.
Hears(b, s, smp, t) ==
    /\ b \in SvStreamState /\ b.known /\ ~b.timedOut /\ b.lastSeen = t
    /\ b.rate = s.rate /\ b.smp = s.smp /\ b.maxSeen = s.maxSeen
    /\ b.missed = s.missed /\ b.recent = s.recent
    /\ b.wrapped <=> (s.wrapped \/ (WrapsAt(s) = 0 /\ s.smp - smp > Window))
    /\ b.events = IF s.timedOut THEN s.events \cup {"resumed"} ELSE s.events

LEMMA ReferenceFacts ==
  ASSUME NEW s \in SvStreamState, NEW smp \in Nat, NEW t \in Nat
  PROVE  Hears(Reference(s, smp, t), s, smp, t)
<1> DEFINE b == Reference(s, smp, t)
<1> DEFINE h == [s EXCEPT !.known = TRUE, !.lastSeen = t, !.timedOut = FALSE]
           e == EmitIf(h, s.timedOut, "resumed")
           w == s.wrapped \/ (WrapsAt(s) = 0 /\ s.smp - smp > Window)
<1>1. /\ h \in SvStreamState /\ h.known /\ ~h.timedOut /\ h.lastSeen = t
      /\ h.rate = s.rate /\ h.smp = s.smp /\ h.maxSeen = s.maxSeen
      /\ h.missed = s.missed /\ h.recent = s.recent /\ h.wrapped = s.wrapped
      /\ h.events = s.events /\ s.timedOut \in BOOLEAN
  BY DEF SvStreamState
<1> HIDE DEF h
<1>2. /\ e \in SvStreamState /\ SameBut(e, h) /\ e.missed = h.missed
      /\ e.recent = h.recent
      /\ e.events = IF s.timedOut THEN h.events \cup {"resumed"} ELSE h.events
  <2>1. CASE s.timedOut
    <3>1. e = Emit(h, "resumed")
      BY <2>1 DEF EmitIf
    <3>2. "resumed" \in Kinds
      BY DEF Kinds
    <3> HIDE DEF e
    <3> QED
      BY <1>1, <2>1, <3>1, <3>2, Emits
  <2>2. CASE ~s.timedOut
    <3>1. e = h
      BY <2>2 DEF EmitIf
    <3> HIDE DEF e
    <3> QED
      BY <1>1, <2>2, <3>1 DEF SameBut
  <2> QED
    BY <2>1, <2>2
<1> HIDE DEF e
<1>3. /\ e.wrapped = s.wrapped /\ e.smp = s.smp /\ e.rate = s.rate
      /\ e.maxSeen = s.maxSeen /\ WrapsAt(e) = WrapsAt(s) /\ s.wrapped \in BOOLEAN
  BY <1>1, <1>2 DEF SameBut, WrapsAt, SvStreamState
<1>4. Reference(s, smp, t) = [e EXCEPT !.wrapped = w]
  BY <1>2, <1>3 DEF Reference, Learn, e, h, SvStreamState
<1>5. w \in BOOLEAN
  BY <1>3
<1> HIDE DEF w
<1>6.     /\ b \in SvStreamState /\ b.known = e.known /\ b.timedOut = e.timedOut
          /\ b.lastSeen = e.lastSeen /\ b.rate = e.rate /\ b.smp = e.smp
          /\ b.maxSeen = e.maxSeen /\ b.missed = e.missed /\ b.recent = e.recent
          /\ b.wrapped = w /\ b.events = e.events
  BY <1>2, <1>4, <1>5 DEF SvStreamState
<1> QED
  BY <1>1, <1>2, <1>3, <1>6 DEF w, SameBut, Hears

LEMMA AheadType ==
  ASSUME NEW s \in SvStreamState, NEW smp \in Nat
  PROVE  Ahead(s, smp) \in Int /\ WrapsAt(s) \in Nat
<1>1. s.smp \in Nat /\ s.rate \in Nat /\ s.maxSeen \in Nat
  BY StreamFields
<1>2. WrapsAt(s) \in Nat
  BY <1>1 DEF WrapsAt
<1> DEFINE w == WrapsAt(s)
           x == smp - s.smp
<1> HIDE DEF w
<1>3. x \in Int /\ w \in Nat
  BY <1>1, <1>2 DEF w
<1> HIDE DEF x
<1>4. w # 0 => x % w \in Int
  BY <1>3
<1>5. Ahead(s, smp) \in Int
  <2>1. CASE w = 0
    BY <1>3, <2>1 DEF Ahead, w, x
  <2>2. CASE w # 0
    BY <1>3, <1>4, <2>2 DEF Ahead, w, x
  <2> QED
    BY <2>1, <2>2
<1> QED
  BY <1>2, <1>5

(***************************************************************************)
(* A sample after the first of a stream: ahead, late or after a restart.   *)
(***************************************************************************)
FollowsFrom(r, s, b, a, smp, t) ==
    /\ a \in Int /\ r \in SvStreamState /\ r.known /\ r.lastSeen = t
    /\ ~r.timedOut
    /\ r.rate = s.rate /\ r.wrapped = b.wrapped
    /\ a > 0 => /\ r.smp = smp /\ r.missed = s.missed + (a - 1)
                /\ r.maxSeen = (IF smp > s.maxSeen THEN smp ELSE s.maxSeen)
                /\ r.recent = Pushed(s.recent, smp)
                /\ r.events = IF a > 1 THEN b.events \cup {"gap"} ELSE b.events
    /\ a <= 0 /\ a + Window >= 0 =>
          /\ r.smp = s.smp /\ r.maxSeen = s.maxSeen
          /\ smp \in Range(s.recent) => r.missed = s.missed /\ r.recent = s.recent
          /\ smp \notin Range(s.recent) =>
                /\ r.missed = IF s.missed = 0 THEN 0 ELSE s.missed - 1
                /\ r.recent = Pushed(s.recent, smp)

Followed(r, s, smp, t) ==
    LET b == Reference(s, smp, t) IN FollowsFrom(r, s, b, Ahead(b, smp), smp, t)

LEMMA FollowFacts ==
  ASSUME NEW s \in SvStreamState, s.known, NEW smp \in Nat, NEW t \in Nat
  PROVE  Followed(FeedSample(s, smp, t), s, smp, t)
<1> DEFINE b == Reference(s, smp, t)
<1>0. b = Reference(s, smp, t)
  OBVIOUS
<1> HIDE DEF b
<1>1. /\ b \in SvStreamState /\ b.known /\ ~b.timedOut /\ b.lastSeen = t
      /\ b.rate = s.rate /\ b.smp = s.smp /\ b.maxSeen = s.maxSeen
      /\ b.missed = s.missed /\ b.recent = s.recent
  <2>1. Hears(b, s, smp, t)
    BY <1>0, ReferenceFacts
  <2> QED
    BY <2>1 DEF Hears
<1> DEFINE r == FeedSample(s, smp, t)
           a == Ahead(b, smp)
<1>2. r = FollowSample(b, smp)
  BY DEF FeedSample, Reference, b
<1> HIDE DEF b, r
<1>3. a \in Int /\ b.missed \in Nat
  BY <1>1, AheadType, StreamFields
<1>w. Window \in Nat /\ Window > 0
  BY WindowAssumption
<1>4. ASSUME a > 0 PROVE FollowsFrom(r, s, b, a, smp, t)
  <2> DEFINE e == EmitIf(b, a > 1, "gap")
             q == [e EXCEPT !.missed = @ + (a - 1)]
  <2>1. ~(a <= 0)
    BY <1>3, <1>4
  <2>2. r = AcceptSample(q, smp)
    BY <1>2, <2>1 DEF FollowSample
  <2>3. /\ e \in SvStreamState /\ SameBut(e, b) /\ e.missed = b.missed
        /\ e.recent = b.recent
        /\ e.events = IF a > 1 THEN b.events \cup {"gap"} ELSE b.events
    <3> HIDE DEF a
    <3>1. CASE a > 1
      <4>1. e = Emit(b, "gap")
        BY <3>1 DEF EmitIf
      <4>2. "gap" \in Kinds
        BY DEF Kinds
      <4> HIDE DEF e
      <4> QED
        BY <1>1, <3>1, <4>1, <4>2, Emits
    <3>2. CASE ~(a > 1)
      <4>1. e = b
        BY <3>2 DEF EmitIf
      <4> HIDE DEF e
      <4> QED
        BY <1>1, <3>2, <4>1 DEF SameBut
    <3> QED
      BY <3>1, <3>2
  <2> HIDE DEF e, a
  <2>4. e.missed + (a - 1) \in Nat
    BY <1>3, <1>4, <2>3
  <2>5. /\ q \in SvStreamState /\ SameBut(q, b) /\ q.missed = b.missed + (a - 1)
        /\ q.recent = b.recent /\ q.events = e.events
    BY <2>3, <2>4 DEF SvStreamState, SameBut
  <2> HIDE DEF q
  <2>6. /\ r \in SvStreamState /\ r.rate = q.rate /\ r.known = q.known
        /\ r.smp = smp /\ r.maxSeen = (IF smp > q.maxSeen THEN smp ELSE q.maxSeen)
        /\ r.wrapped = q.wrapped /\ r.lastSeen = q.lastSeen /\ r.missed = q.missed
        /\ r.timedOut = q.timedOut
        /\ r.recent = Pushed(q.recent, smp) /\ r.events = q.events
    BY <2>2, <2>5, Accepts
  <2> QED
    BY <1>1, <1>3, <1>4, <2>1, <2>3, <2>5, <2>6 DEF SameBut, FollowsFrom, r, a
<1>5. ASSUME a <= 0, a + Window >= 0 PROVE FollowsFrom(r, s, b, a, smp, t)
  <2>1. r = Late(b, smp)
    BY <1>2, <1>5 DEF FollowSample
  <2>2. /\ r \in SvStreamState /\ SameBut(r, b)
        /\ smp \in Range(b.recent) => r.missed = b.missed /\ r.recent = b.recent
        /\ smp \notin Range(b.recent) =>
              /\ r.missed = IF b.missed = 0 THEN 0 ELSE b.missed - 1
              /\ r.recent = Pushed(b.recent, smp)
    BY <1>1, <2>1, LateFacts
  <2>3. ~(a > 0)
    BY <1>3, <1>5
  <2> HIDE DEF a
  <2> QED
    BY <1>1, <1>3, <2>2, <2>3 DEF SameBut, FollowsFrom, r, a
<1>6. ASSUME a <= 0, ~(a + Window >= 0) PROVE FollowsFrom(r, s, b, a, smp, t)
  <2> DEFINE e == Emit(b, "restart")
             q == [e EXCEPT !.recent = <<>>]
  <2>1. ~(a > 0)
    BY <1>3, <1>6
  <2>2. r = AcceptSample(q, smp)
    BY <1>2, <1>6 DEF FollowSample
  <2>3. e \in SvStreamState /\ SameBut(e, b)
    BY <1>1, Emits DEF Kinds
  <2> HIDE DEF e
  <2>4. q \in SvStreamState /\ SameBut(q, b)
    <3>1. <<>> \in Seq(Nat)
      BY EmptySeq
    <3> QED
      BY <2>3, <3>1 DEF SvStreamState, SameBut
  <2> HIDE DEF q
  <2>5. /\ r \in SvStreamState /\ r.rate = q.rate /\ r.known = q.known
        /\ r.wrapped = q.wrapped /\ r.lastSeen = q.lastSeen /\ r.timedOut = q.timedOut
    BY <2>2, <2>4, Accepts
  <2> HIDE DEF a
  <2> QED
    BY <1>1, <1>3, <1>6, <2>1, <2>4, <2>5 DEF SameBut, FollowsFrom, r, a
<1> QED
  <2>1. FollowsFrom(r, s, b, a, smp, t)
    BY <1>3, <1>4, <1>5, <1>6, <1>w
  <2> QED
    BY <2>1 DEF Followed, b, r

\* What the first sample makes of a stream.
NewStream(r, s, smp, t) ==
    /\ r \in SvStreamState /\ r.known /\ r.lastSeen = t /\ ~r.timedOut
    /\ r.rate = s.rate /\ r.wrapped = s.wrapped /\ r.smp = smp
    /\ r.maxSeen = (IF smp > s.maxSeen THEN smp ELSE s.maxSeen)
    /\ r.missed = s.missed /\ r.recent = Pushed(s.recent, smp)
    /\ r.events = s.events \cup {"new"}

LEMMA NewFacts ==
  ASSUME NEW s \in SvStreamState, ~s.known, NEW smp \in Nat, NEW t \in Nat
  PROVE  NewStream(FeedSample(s, smp, t), s, smp, t)
<1> DEFINE h == [s EXCEPT !.known = TRUE, !.lastSeen = t, !.timedOut = FALSE]
           e == Emit(h, "new")
<1>1. /\ h \in SvStreamState /\ h.known /\ h.lastSeen = t /\ ~h.timedOut
      /\ h.rate = s.rate /\ h.maxSeen = s.maxSeen
      /\ h.missed = s.missed /\ h.recent = s.recent /\ h.wrapped = s.wrapped
      /\ h.events = s.events
  BY DEF SvStreamState
<1> HIDE DEF h
<1>2. /\ e \in SvStreamState /\ SameBut(e, h) /\ e.missed = h.missed
      /\ e.recent = h.recent /\ e.events = h.events \cup {"new"}
  BY <1>1, Emits DEF Kinds
<1> HIDE DEF e
<1>3. FeedSample(s, smp, t) = AcceptSample(e, smp)
  BY DEF FeedSample, e, h
<1>4. LET r == AcceptSample(e, smp)
      IN  /\ r \in SvStreamState /\ r.rate = e.rate /\ r.known = e.known
          /\ r.smp = smp /\ r.maxSeen = (IF smp > e.maxSeen THEN smp ELSE e.maxSeen)
          /\ r.wrapped = e.wrapped /\ r.lastSeen = e.lastSeen
          /\ r.timedOut = e.timedOut
          /\ r.missed = e.missed /\ r.recent = Pushed(e.recent, smp)
          /\ r.events = e.events
  BY <1>2, Accepts
<1> QED
  BY <1>1, <1>2, <1>3, <1>4 DEF SameBut, NewStream

LEMMA CheckFacts ==
  ASSUME NEW s \in SvStreamState, NEW t \in Nat
  PROVE  LET r == SvCheck(s, t)
         IN  /\ r \in SvStreamState /\ r.rate = s.rate /\ r.known = s.known
             /\ r.smp = s.smp /\ r.maxSeen = s.maxSeen /\ r.wrapped = s.wrapped
             /\ r.missed = s.missed /\ r.lastSeen = s.lastSeen /\ r.recent = s.recent
             /\ r.events \subseteq s.events \cup {"timeout"}
             /\ (s.known => t <= s.lastSeen + Timeout) =>
                   r.timedOut = s.timedOut /\ r.events = s.events
<1>1. CASE s.known /\ ~s.timedOut /\ t > s.lastSeen + Timeout
  <2> DEFINE e == Emit(s, "timeout")
  <2>1. /\ e \in SvStreamState /\ SameBut(e, s) /\ e.missed = s.missed
        /\ e.recent = s.recent /\ e.events = s.events \cup {"timeout"}
    BY Emits DEF Kinds
  <2>2. SvCheck(s, t) = [e EXCEPT !.timedOut = TRUE]
    BY <1>1 DEF SvCheck
  <2> HIDE DEF e
  <2>3. ~(t <= s.lastSeen + Timeout)
    BY <1>1, StreamFields, SupervisorAssumption
  <2> QED
    BY <1>1, <2>1, <2>2, <2>3 DEF SvStreamState, SameBut
<1>2. CASE ~(s.known /\ ~s.timedOut /\ t > s.lastSeen + Timeout)
  BY <1>2 DEF SvCheck
<1> QED
  BY <1>1, <1>2

LEMMA FeedSampleType ==
  ASSUME NEW s \in SvStreamState, NEW smp \in Nat, NEW t \in Nat
  PROVE  FeedSample(s, smp, t) \in SvStreamState
<1>1. CASE s.known
  BY <1>1, FollowFacts DEF Followed, FollowsFrom
<1>2. CASE ~s.known
  BY <1>2, NewFacts DEF NewStream
<1> QED
  BY <1>1, <1>2

(***************************************************************************)
(* The samples of a frame are followed one after the other.                *)
(***************************************************************************)
FeedSteps(f, s, samples, t) ==
    /\ f \in [0 .. Len(samples) -> SvStreamState] /\ f[0] = s
    /\ \A n \in 1 .. Len(samples) : f[n] = FeedSample(f[n-1], samples[n].smp, t)
    /\ FeedSamples(s, samples, t) = f[Len(samples)]

LEMMA FeedRecursion ==
  ASSUME NEW s \in SvStreamState, NEW samples \in Seq(Sample), NEW t \in Nat
  PROVE  \E f : FeedSteps(f, s, samples, t)
<1> DEFINE N == Len(samples)
           S == SvStreamState
           Step(n, x) == FeedSample(x, samples[n].smp, t)
           Is(f) == f = [n \in 0 .. N |-> IF n = 0 THEN s ELSE Step(n, f[n-1])]
           Steps(f) == f[0] = s /\ \A n \in 1 .. N : f[n] = Step(n, f[n-1])
           g == CHOOSE f : Is(f)
<1>6. FeedSamples(s, samples, t) = g[N]
  BY DEF FeedSamples
<1>1. N \in Nat /\ s \in S
  BY LenProperties
<1>2. \A n \in 1 .. N : \A x \in S : Step(n, x) \in S
  <2> SUFFICES ASSUME NEW n \in 1 .. N, NEW x \in S PROVE Step(n, x) \in S
    OBVIOUS
  <2>1. samples[n] \in Sample
    BY ElementOfSeq
  <2>2. samples[n].smp \in Nat
    BY <2>1, RateFacts DEF Sample
  <2> QED
    BY <2>2, FeedSampleType
<1> HIDE DEF S
<1>4. \E f \in [0 .. N -> S] : Steps(f)
  <2> DEFINE G == [n \in 1 .. N |-> [x \in S |-> Step(n, x)]]
  <2>1. G \in [1 .. N -> [S -> S]]
    <3> HIDE DEF Step, N
    <3> QED
      BY <1>2
  <2>2. PICK f : Solves(f, N, S, s, G)
    <3> HIDE DEF G, N
    <3> QED
      BY <1>1, <2>1, Recursion
  <2>3. \A n \in 1 .. N : f[n-1] \in S
    <3> HIDE DEF N
    <3> QED
      BY <1>1, <2>2 DEF Solves
  <2>4. \A n \in 1 .. N : G[n][f[n-1]] = Step(n, f[n-1])
    <3> HIDE DEF Step, N
    <3> QED
      BY <2>3
  <2>5. f \in [0 .. N -> S] /\ Steps(f)
    <3> HIDE DEF G, Step, N
    <3> QED
      BY <2>2, <2>4 DEF Solves
  <2> HIDE DEF Steps
  <2> QED
    BY <2>5
<1>a. \A n \in 0 .. N : n = 0 \/ n \in 1 .. N
  BY <1>1
<1>b. 0 \in 0 .. N /\ \A n \in 1 .. N : n \in 0 .. N /\ n # 0
  BY <1>1
<1>5. Is(g)
  <2>1. PICK f \in [0 .. N -> S] : Steps(f)
    BY <1>4
  <2>2. \A n \in 0 .. N : f[n] = IF n = 0 THEN s ELSE Step(n, f[n-1])
    BY <1>a, <2>1, Zenon
  <2>3. Is(f)
    BY <2>2, Zenon
  <2> HIDE DEF Is
  <2> QED
    BY <2>3
<1> HIDE DEF g
<1>7. DOMAIN g = 0 .. N /\ g = [n \in 0 .. N |-> g[n]] /\ Steps(g)
  <2>1. DOMAIN g = 0 .. N /\ g = [n \in 0 .. N |-> g[n]]
    BY <1>5, Zenon
  <2>2. Steps(g)
    BY <1>5, <1>b, Zenon
  <2> QED
    BY <2>1, <2>2
<1>8. g \in [0 .. N -> S]
  <2> HIDE DEF Is, N, Step
  <2>1. g[0] \in S /\ \A n \in 1 .. N : g[n-1] \in S => g[n] \in S
    BY <1>1, <1>2, <1>7
  <2> HIDE DEF Steps
  <2> QED
    BY <1>1, <1>7, <2>1, RecursionType
<1> QED
  BY <1>6, <1>7, <1>8 DEF FeedSteps, S

----------------------------------------------------------------------------
(* What from_sv_frames takes of a frame                                    *)

Recorded == [recent : Seq(Nat), tail : Seq(Sources)]

LEMMA TakeSampleType ==
  ASSUME NEW r \in Recorded, NEW sample \in Sample
  PROVE  TakeSample(r, sample) \in Recorded
<1> DEFINE recent == Append(r.recent, sample.smp)
           tail == Append(r.tail, sample.from)
<1>1. /\ r.recent \in Seq(Nat) /\ r.tail \in Seq(Sources)
      /\ sample.smp \in Nat /\ sample.from \in Sources
  BY RateFacts DEF Recorded, Sample
<1>2. /\ recent \in Seq(Nat) /\ recent # <<>> /\ tail \in Seq(Sources) /\ tail # <<>>
  BY <1>1, AppendProperties
<1>3. /\ Tail(recent) \in Seq(Nat) /\ Tail(tail) \in Seq(Sources)
  BY <1>2, HeadTailProperties
<1>4. TakeSample(r, sample) =
         IF \E i \in DOMAIN r.recent : r.recent[i] = sample.smp THEN r
         ELSE [recent |-> IF Len(recent) > Remembered THEN Tail(recent) ELSE recent,
               tail |-> IF Len(tail) > Asdus + 1 THEN Tail(tail) ELSE tail]
  BY DEF TakeSample
<1> HIDE DEF recent, tail
<1> QED
  BY <1>2, <1>3, <1>4 DEF Recorded

RecordSteps(f, r, samples) ==
    /\ f \in [0 .. Len(samples) -> Recorded] /\ f[0] = r
    /\ \A n \in 1 .. Len(samples) : f[n] = TakeSample(f[n-1], samples[n])
    /\ Record(r, samples) = f[Len(samples)]

LEMMA RecordRecursion ==
  ASSUME NEW r \in Recorded, NEW samples \in Seq(Sample)
  PROVE  \E f : RecordSteps(f, r, samples)
<1> DEFINE N == Len(samples)
           S == Recorded
           Step(n, x) == TakeSample(x, samples[n])
           Is(f) == f = [n \in 0 .. N |-> IF n = 0 THEN r ELSE Step(n, f[n-1])]
           Steps(f) == f[0] = r /\ \A n \in 1 .. N : f[n] = Step(n, f[n-1])
           g == CHOOSE f : Is(f)
<1>6. Record(r, samples) = g[N]
  BY DEF Record
<1>1. N \in Nat /\ r \in S
  BY LenProperties
<1>2. \A n \in 1 .. N : \A x \in S : Step(n, x) \in S
  BY ElementOfSeq, TakeSampleType
<1> HIDE DEF S
<1>4. \E f \in [0 .. N -> S] : Steps(f)
  <2> DEFINE G == [n \in 1 .. N |-> [x \in S |-> Step(n, x)]]
  <2>1. G \in [1 .. N -> [S -> S]]
    <3> HIDE DEF Step, N
    <3> QED
      BY <1>2
  <2>2. PICK f : Solves(f, N, S, r, G)
    <3> HIDE DEF G, N
    <3> QED
      BY <1>1, <2>1, Recursion
  <2>3. \A n \in 1 .. N : f[n-1] \in S
    <3> HIDE DEF N
    <3> QED
      BY <1>1, <2>2 DEF Solves
  <2>4. \A n \in 1 .. N : G[n][f[n-1]] = Step(n, f[n-1])
    <3> HIDE DEF Step, N
    <3> QED
      BY <2>3
  <2>5. f \in [0 .. N -> S] /\ Steps(f)
    <3> HIDE DEF G, Step, N
    <3> QED
      BY <2>2, <2>4 DEF Solves
  <2> HIDE DEF Steps
  <2> QED
    BY <2>5
<1>a. \A n \in 0 .. N : n = 0 \/ n \in 1 .. N
  BY <1>1
<1>b. 0 \in 0 .. N /\ \A n \in 1 .. N : n \in 0 .. N /\ n # 0
  BY <1>1
<1>5. Is(g)
  <2>1. PICK f \in [0 .. N -> S] : Steps(f)
    BY <1>4
  <2>2. \A n \in 0 .. N : f[n] = IF n = 0 THEN r ELSE Step(n, f[n-1])
    BY <1>a, <2>1, Zenon
  <2>3. Is(f)
    BY <2>2, Zenon
  <2> HIDE DEF Is
  <2> QED
    BY <2>3
<1> HIDE DEF g
<1>7. DOMAIN g = 0 .. N /\ g = [n \in 0 .. N |-> g[n]] /\ Steps(g)
  <2>1. DOMAIN g = 0 .. N /\ g = [n \in 0 .. N |-> g[n]]
    BY <1>5, Zenon
  <2>2. Steps(g)
    BY <1>5, <1>b, Zenon
  <2> QED
    BY <2>1, <2>2
<1>8. g \in [0 .. N -> S]
  <2> HIDE DEF Is, N, Step
  <2>1. g[0] \in S /\ \A n \in 1 .. N : g[n-1] \in S => g[n] \in S
    BY <1>1, <1>2, <1>7
  <2> HIDE DEF Steps
  <2> QED
    BY <1>1, <1>7, <2>1, RecursionType
<1> QED
  BY <1>6, <1>7, <1>8 DEF RecordSteps, S

----------------------------------------------------------------------------
(* The frames on their way                                                 *)

(***************************************************************************)
(* A sequence without its i-th element.                                    *)
(***************************************************************************)
Without(s, i) == SubSeq(s, 1, i - 1) \o SubSeq(s, i + 1, Len(s))

LEMMA WithoutFacts ==
  ASSUME NEW s \in Seq(Nat), NEW i \in DOMAIN s
  PROVE  /\ Without(s, i) \in Seq(Nat) /\ Len(Without(s, i)) = Len(s) - 1
         /\ \A n \in 1 .. Len(s) - 1 :
               Without(s, i)[n] = IF n < i THEN s[n] ELSE s[n+1]
<1>1. Len(s) \in Nat /\ i \in 1 .. Len(s)
  BY LenProperties
<1> DEFINE a == SubSeq(s, 1, i - 1)
           b == SubSeq(s, i + 1, Len(s))
<1>2. /\ a \in Seq(Nat) /\ Len(a) = i - 1 /\ \A n \in 1 .. i - 1 : a[n] = s[n]
  <2>1. \A n \in 1 .. i - 1 : s[n] \in Nat
    BY <1>1, ElementOfSeq
  <2> QED
    BY <1>1, <2>1, SubSeqProperties
<1>3. /\ b \in Seq(Nat) /\ Len(b) = Len(s) - i
      /\ \A n \in 1 .. Len(s) - i : b[n] = s[i + n]
  <2> DEFINE k == i + 1
             z == Len(s)
  <2>1. k \in Int /\ z \in Int /\ b = SubSeq(s, k, z)
    BY <1>1
  <2>2. \A n \in k .. z : s[n] \in Nat
    BY <1>1, ElementOfSeq
  <2> HIDE DEF b, k, z
  <2>3. /\ b \in Seq(Nat) /\ Len(b) = IF k <= z THEN z - k + 1 ELSE 0
        /\ \A n \in 1 .. z - k + 1 : b[n] = s[k + n - 1]
    BY <2>1, <2>2, SubSeqProperties
  <2>4. z - k + 1 = Len(s) - i /\ (k <= z \/ Len(s) - i = 0)
    BY <1>1 DEF k, z
  <2>5. \A n \in 1 .. Len(s) - i : k + n - 1 = i + n
    BY <1>1 DEF k
  <2> QED
    BY <2>3, <2>4, <2>5
<1> HIDE DEF a, b
<1>4. /\ a \o b \in Seq(Nat) /\ Len(a \o b) = Len(a) + Len(b)
      /\ \A n \in 1 .. Len(a) + Len(b) :
            (a \o b)[n] = IF n <= Len(a) THEN a[n] ELSE b[n - Len(a)]
  BY <1>2, <1>3, ConcatProperties
<1>5. ASSUME NEW n \in 1 .. Len(s) - 1
      PROVE  (a \o b)[n] = IF n < i THEN s[n] ELSE s[n+1]
  <2>1. n \in 1 .. Len(a) + Len(b)
    BY <1>1, <1>2, <1>3
  <2>2. CASE n < i
    <3>1. n \in 1 .. i - 1 /\ n <= Len(a)
      BY <1>1, <1>2, <2>2
    <3> QED
      BY <1>2, <1>4, <2>1, <2>2, <3>1
  <2>3. CASE ~(n < i)
    <3>1. ~(n <= Len(a)) /\ n - Len(a) \in 1 .. Len(s) - i /\ i + (n - Len(a)) = n + 1
      BY SMTT(20), <1>1, <1>2, <2>3
    <3> QED
      BY <1>3, <1>4, <2>1, <2>3, <3>1
  <2> QED
    BY <2>2, <2>3
<1>6. Len(a \o b) = Len(s) - 1
  BY <1>1, <1>2, <1>3, <1>4
<1> QED
  BY <1>4, <1>5, <1>6 DEF Without, a, b

(***************************************************************************)
(* What the kernel and the reader do to the frames waiting.                *)
(***************************************************************************)
LEMMA QueuedWaiting ==
  ASSUME RingOK(capture), NEW frame \in Captured, capture' = Queued(capture, frame)
  PROVE  /\ RingOK(capture')
         /\ capture' = capture \/ frame.own => Waiting' = Waiting
         /\ capture' # capture /\ ~frame.own => Waiting' = Append(Waiting, frame)
<1>1. /\ RingOK(capture') /\ (capture' = capture <=> capture.user[capture.fill])
      /\ WaitingIn(capture') = IF capture.user[capture.fill] \/ frame.own
                               THEN WaitingIn(capture)
                               ELSE Append(WaitingIn(capture), frame)
  BY QueuedFacts
<1>2. Waiting' = WaitingIn(capture') /\ Waiting = WaitingIn(capture)
  BY DEF Waiting
<1> QED
  BY <1>1, <1>2

LEMMA RetireWaiting ==
  ASSUME RingOK(capture), Retire
  PROVE  RingOK(capture') /\ Waiting' = Waiting
<1>1. ~capture.user[capture.fill] /\ capture' = HandOver(capture)
  BY DEF Retire
<1>2. RingOK(capture') /\ WaitingIn(capture') = WaitingIn(capture)
  BY <1>1, HandOverFacts
<1> QED
  BY <1>2 DEF Waiting

LEMMA RecvWaiting ==
  ASSUME RingOK(capture), Recv
  PROVE  /\ RingOK(capture') /\ Waiting # <<>> /\ Received = Head(Waiting)
         /\ Waiting' = Tail(Waiting)
<1>1. Collected.pending # <<>> /\ capture' = [Collected EXCEPT !.pending = Tail(@)]
  BY DEF Recv
<1>2. /\ RingOK(capture') /\ Waiting # <<>> /\ Received = Head(Waiting)
      /\ WaitingIn(capture') = Tail(Waiting)
  BY <1>1, CollectedFacts
<1> QED
  BY <1>2 DEF Waiting

LEMMA NothingWaiting ==
  ASSUME RingOK(capture), Nothing
  PROVE  RingOK(capture') /\ Waiting' = Waiting
<1>1. capture' = Collected
  BY DEF Nothing
<1>2. RingOK(capture') /\ WaitingIn(capture') = Waiting
  BY <1>1, CollectedFacts
<1> QED
  BY <1>2 DEF Waiting

----------------------------------------------------------------------------
(* The steps, as the invariants below see them                             *)

EngineOK ==
    /\ engine \in Engine /\ engine.k <= MaxFrames
    /\ engine.thread = "none" => engine.k = 0
    /\ engine.thread = "ended" => engine.stop

(***************************************************************************)
(* start, stop and the thread of a publisher: no frame has a number before *)
(* the thread has begun, and the thread ends only once stop() was called.  *)
(***************************************************************************)
THEOREM EngineTheorem == Spec => []EngineOK
<1>1. Init => EngineOK
  BY BusAssumption DEF Init, PublisherInit, EngineOK, Engine
<1>2. EngineOK /\ [Next]_vars => EngineOK'
  <2> SUFFICES ASSUME EngineOK, [Next]_vars PROVE EngineOK'
    OBVIOUS
  <2> USE BusAssumption DEF EngineOK, Engine
  <2>0. ASSUME NEW sent, Send(sent), engine'.k <= MaxFrames PROVE EngineOK'
    <3>1. /\ engine.thread = "running"
          /\ engine' = [engine EXCEPT !.k = @ + 1,
                                      !.thread = IF engine.stop THEN "ended" ELSE @]
      BY <2>0 DEF Send
    <3> DEFINE ends == IF engine.stop THEN "ended" ELSE "running"
    <3>2. /\ engine.k + 1 \in Nat /\ ends \in {"none", "running", "ended"}
          /\ ends # "none" /\ (ends = "ended" => engine.stop)
      OBVIOUS
    <3>3. engine' = [engine EXCEPT !.k = @ + 1, !.thread = ends]
      BY <3>1
    <3> HIDE DEF ends
    <3>4. /\ engine' \in Engine /\ engine'.thread = ends
          /\ engine'.stop = engine.stop
      BY <3>2, <3>3
    <3> QED
      BY <2>0, <3>2, <3>4
  <2>1. CASE Published
    <3>1. CASE Start
      BY <2>1, <3>1 DEF Published, Start
    <3>2. CASE Send(TRUE)
      BY <2>0, <2>1, <3>2 DEF Published
    <3>3. CASE Stop
      BY <2>1, <3>3 DEF Published, Stop
    <3>4. CASE End
      BY <2>1, <3>4 DEF Published, End
    <3> QED
      BY <2>1, <3>1, <3>2, <3>3, <3>4 DEF Published, PublisherNext
  <2>2. CASE SendError
    BY <2>0, <2>2 DEF SendError
  <2>3. CASE Next /\ ~Published /\ ~SendError
    <3>1. engine' = engine
      BY <2>3 DEF Next, Lose, Arrive, SendOwn, HandedOver, TakeFrame, TakeNothing, Tick
    <3> QED
      BY <3>1
  <2>4. CASE UNCHANGED vars
    BY <2>4 DEF vars
  <2> QED
    BY <2>1, <2>2, <2>3, <2>4
<1> QED
  BY <1>1, <1>2, PTL DEF Spec

\* Nothing but the ring and the runner.
Idle ==
    /\ engine'.k = engine.k /\ (engine.stop => engine'.stop)
    /\ UNCHANGED <<wire, now, Waiting, sv, recorded, lost, fed, repeated,
                   overtaken, late>>

Sent(sent) ==
    /\ engine.thread = "running" /\ Due
    /\ engine'.k = engine.k + 1 /\ engine'.stop = engine.stop
    /\ wire' = IF sent THEN Append(wire, engine.k) ELSE wire
    /\ lost' = IF sent THEN lost ELSE lost \cup {engine.k}
    /\ UNCHANGED <<now, Waiting, sv, recorded, fed, repeated, overtaken, late>>

Dropped ==
    /\ wire # <<>> /\ wire' = Tail(wire) /\ lost' = lost \cup {Head(wire)}
    /\ UNCHANGED <<engine, now, Waiting, sv, recorded, fed, repeated,
                   overtaken, late>>

\* kept: the ring was not full.
Arrived(i, again, kept) ==
    /\ again => repeated = {}
    /\ i > 1 => i = 2 /\ overtaken = {}
    /\ repeated' = repeated \cup {x \in {wire[i]} : again}
    /\ overtaken' = overtaken \cup {x \in {wire[1]} : i > 1}
    /\ wire' = IF again THEN wire ELSE Without(wire, i)
    /\ lost' = IF kept THEN lost ELSE lost \cup {wire[i]}
    /\ Waiting' = IF kept THEN Append(Waiting, [k |-> wire[i], at |-> now, own |-> FALSE])
                  ELSE Waiting
    /\ UNCHANGED <<engine, now, sv, recorded, fed, late>>

Taken ==
    /\ Waiting # <<>> /\ Waiting' = Tail(Waiting)
    /\ sv' = FeedSamples(SvCheck(sv, Head(Waiting).at), Samples(Head(Waiting).k),
                         Head(Waiting).at)
    /\ recorded' = Record(recorded, Samples(Head(Waiting).k))
    /\ fed' = fed \cup {Head(Waiting).k}
    /\ UNCHANGED <<engine, wire, now, lost, repeated, overtaken, late>>

Checked ==
    /\ sv' = SvCheck(sv, now)
    /\ UNCHANGED <<engine, wire, now, Waiting, recorded, lost, fed, repeated,
                   overtaken, late>>

Ticked ==
    /\ now' = now + 1 /\ (late => late')
    /\ ~late' => /\ wire = <<>> /\ Waiting = <<>>
                 /\ ~(engine.thread = "running" /\ Due)
    /\ UNCHANGED <<engine, wire, Waiting, sv, recorded, lost, fed, repeated,
                   overtaken>>

Steps ==
    \/ Idle \/ (\E sent \in BOOLEAN : Sent(sent)) \/ Dropped
    \/ \E i \in DOMAIN wire, again, kept \in BOOLEAN : Arrived(i, again, kept)
    \/ Taken \/ Checked \/ Ticked

LEMMA StepsFacts ==
  ASSUME RingOK(capture), wire \in Seq(Nat), now \in Nat, engine \in Engine,
         [Next]_vars
  PROVE  RingOK(capture') /\ Steps
<1>1. ASSUME Published PROVE RingOK(capture') /\ Steps
  <2>1. RingOK(capture') /\ Waiting' = Waiting
    BY <1>1 DEF Published, Waiting
  <2>2. UNCHANGED <<sv, recorded, lost, fed, repeated, overtaken, late>>
    BY <1>1 DEF Published, reader, history
  <2>3. CASE Send(TRUE)
    <3>1. Sent(TRUE)
      BY <2>1, <2>2, <2>3 DEF Send, Sent, Engine
    <3> QED
      BY <2>1, <3>1 DEF Steps
  <2>4. CASE Start \/ Stop \/ End
    <3>1. Idle
      BY <2>1, <2>2, <2>4 DEF Start, Stop, End, Idle, Engine
    <3> QED
      BY <2>1, <3>1 DEF Steps
  <2> QED
    BY <1>1, <2>3, <2>4 DEF Published, PublisherNext
<1>2. ASSUME SendError PROVE RingOK(capture') /\ Steps
  <2>1. RingOK(capture') /\ Waiting' = Waiting
    BY <1>2 DEF SendError, Waiting
  <2>2. Sent(FALSE)
    BY <1>2, <2>1 DEF SendError, Send, Drop, Sent, Engine, reader
  <2> QED
    BY <2>1, <2>2 DEF Steps
<1>3. ASSUME Lose PROVE RingOK(capture') /\ Steps
  <2>1. RingOK(capture') /\ Waiting' = Waiting
    BY <1>3 DEF Lose, Waiting
  <2>2. Dropped
    BY <1>3, <2>1 DEF Lose, Drop, Dropped, reader
  <2> QED
    BY <2>1, <2>2 DEF Steps
<1>4. ASSUME NEW i \in DOMAIN wire, NEW again \in BOOLEAN, Arrive(i, again)
      PROVE  RingOK(capture') /\ Steps
  <2> DEFINE frame == [k |-> wire[i], at |-> now, own |-> FALSE]
  <2>1. frame \in Captured /\ ~frame.own
    BY LenProperties, ElementOfSeq DEF Captured
  <2>2. capture' = Queued(capture, frame)
    BY <1>4 DEF Arrive
  <2>3. /\ again => repeated = {}
        /\ i > 1 => i = 2 /\ overtaken = {}
        /\ repeated' = repeated \cup {x \in {wire[i]} : again}
        /\ overtaken' = overtaken \cup {x \in {wire[1]} : i > 1}
        /\ wire' = IF again THEN wire ELSE Without(wire, i)
        /\ UNCHANGED <<engine, now, sv, recorded, fed, late>>
    BY <1>4 DEF Arrive, Without, reader
  <2>4. lost' = IF capture' = capture THEN lost \cup {wire[i]} ELSE lost
    BY <1>4 DEF Arrive, Drop
  <2>5. /\ RingOK(capture')
        /\ Waiting' = IF capture' = capture THEN Waiting ELSE Append(Waiting, frame)
    <3> HIDE DEF frame
    <3> QED
      BY <2>1, <2>2, QueuedWaiting
  <2>6. CASE capture' = capture
    <3>1. Arrived(i, again, FALSE)
      BY <2>3, <2>4, <2>5, <2>6 DEF Arrived
    <3> QED
      BY <2>5, <3>1 DEF Steps
  <2>7. CASE capture' # capture
    <3>1. Arrived(i, again, TRUE)
      BY <2>3, <2>4, <2>5, <2>7 DEF Arrived
    <3> QED
      BY <2>5, <3>1 DEF Steps
  <2> QED
    BY <2>6, <2>7
<1>5. ASSUME SendOwn PROVE RingOK(capture') /\ Steps
  <2> DEFINE frame == [k |-> 0, at |-> now, own |-> TRUE]
  <2>1. frame \in Captured /\ frame.own
    BY DEF Captured
  <2>2. capture' = Queued(capture, frame)
    BY <1>5 DEF SendOwn
  <2>3. RingOK(capture') /\ Waiting' = Waiting
    <3> HIDE DEF frame
    <3> QED
      BY <2>1, <2>2, QueuedWaiting
  <2>4. Idle
    BY <1>5, <2>3 DEF SendOwn, Idle, reader
  <2> QED
    BY <2>3, <2>4 DEF Steps
<1>6. ASSUME HandedOver PROVE RingOK(capture') /\ Steps
  <2>1. RingOK(capture') /\ Waiting' = Waiting
    BY <1>6, RetireWaiting DEF HandedOver
  <2>2. Idle
    BY <1>6, <2>1 DEF HandedOver, Idle, reader, history
  <2> QED
    BY <2>1, <2>2 DEF Steps
<1>7. ASSUME TakeFrame PROVE RingOK(capture') /\ Steps
  <2>1. /\ RingOK(capture') /\ Waiting # <<>> /\ Received = Head(Waiting)
        /\ Waiting' = Tail(Waiting)
    BY <1>7, RecvWaiting DEF TakeFrame
  <2>2. /\ sv' = FeedSamples(SvCheck(sv, Received.at), Samples(Received.k), Received.at)
        /\ recorded' = Record(recorded, Samples(Received.k))
        /\ fed' = fed \cup {Received.k}
        /\ UNCHANGED <<engine, wire, now, late, lost, repeated, overtaken>>
    BY <1>7 DEF TakeFrame
  <2>3. Taken
    BY <2>1, <2>2 DEF Taken
  <2> QED
    BY <2>1, <2>3 DEF Steps
<1>8. ASSUME TakeNothing PROVE RingOK(capture') /\ Steps
  <2>1. RingOK(capture') /\ Waiting' = Waiting
    BY <1>8, NothingWaiting DEF TakeNothing
  <2>2. Checked
    BY <1>8, <2>1 DEF TakeNothing, Checked, history
  <2> QED
    BY <2>1, <2>2 DEF Steps
<1>9. ASSUME Tick PROVE RingOK(capture') /\ Steps
  <2>1. RingOK(capture') /\ Waiting' = Waiting
    BY <1>9 DEF Tick, Waiting
  <2>2. wire \o Waiting = <<>> => wire = <<>> /\ Waiting = <<>>
    <3> DEFINE S == Nat \cup Others
    <3>1. wire \in Seq(S) /\ Waiting \in Seq(S)
      <4>1. Waiting \in Seq(Others)
        BY CollectedFacts
      <4>2. Nat \subseteq S /\ Others \subseteq S
        OBVIOUS
      <4> HIDE DEF S
      <4> QED
        BY <4>1, <4>2, SeqMonotonic
    <3> HIDE DEF S
    <3> QED
      BY <3>1, ConcatEqualIffEmpty
  <2>3. Ticked
    BY <1>9, <2>1, <2>2 DEF Tick, Ticked, reader, history
  <2> QED
    BY <2>1, <2>3 DEF Steps
<1>10. ASSUME UNCHANGED vars PROVE RingOK(capture') /\ Steps
  <2>1. RingOK(capture') /\ Waiting' = Waiting
    BY <1>10 DEF vars, Waiting
  <2>2. Idle
    BY <1>10, <2>1 DEF vars, Idle
  <2> QED
    BY <2>1, <2>2 DEF Steps
<1> QED
  BY <1>1, <1>2, <1>3, <1>4, <1>5, <1>6, <1>7, <1>8, <1>9, <1>10 DEF Next

----------------------------------------------------------------------------
(* What always holds                                                       *)

LEMMA FeedFacts ==
  ASSUME NEW s \in SvStreamState, NEW k \in Nat, NEW t \in Nat
  PROVE  LET r == FeedSamples(s, Samples(k), t)
         IN  /\ r \in SvStreamState /\ r.known /\ r.rate = s.rate
             /\ r.lastSeen = t /\ ~r.timedOut
<1>1. Samples(k) \in Seq(Sample) /\ Len(Samples(k)) = Asdus
  BY SamplesFacts
<1>2. PICK f : FeedSteps(f, s, Samples(k), t)
  BY <1>1, FeedRecursion
<1>3. /\ f \in [0 .. Asdus -> SvStreamState] /\ f[0] = s
      /\ \A n \in 1 .. Asdus : f[n] = FeedSample(f[n-1], Samples(k)[n].smp, t)
      /\ FeedSamples(s, Samples(k), t) = f[Asdus]
  BY <1>1, <1>2 DEF FeedSteps
<1>4. Asdus \in Nat /\ Asdus > 0
  BY RateFacts
<1> DEFINE Heard(r) == r.known /\ r.lastSeen = t /\ ~r.timedOut
           T == {n \in 0 .. Asdus : f[n].rate = s.rate /\ (n > 0 => Heard(f[n]))}
<1>5. 0 \in T
  BY <1>3, <1>4
<1>6. \A n \in 0 .. Asdus - 1 : n \in T => n + 1 \in T
  <2> SUFFICES ASSUME NEW n \in 0 .. Asdus - 1, f[n].rate = s.rate
               PROVE  f[n+1].rate = s.rate /\ Heard(f[n+1])
    BY <1>4
  <2>1. n + 1 \in 1 .. Asdus /\ (n + 1) - 1 = n /\ n \in 0 .. Asdus
    BY <1>4
  <2> DEFINE smp == Samples(k)[n+1].smp
  <2>2. f[n+1] = FeedSample(f[n], smp, t) /\ f[n] \in SvStreamState
    BY <1>3, <2>1
  <2>3. smp \in Nat
    <3>1. Samples(k)[n+1] \in Sample
      BY <1>1, <2>1, ElementOfSeq
    <3> QED
      BY <3>1, RateFacts DEF Sample
  <2> HIDE DEF smp
  <2>4. CASE f[n].known
    <3>1. Followed(f[n+1], f[n], smp, t)
      BY <2>2, <2>3, <2>4, FollowFacts
    <3> QED
      BY <3>1 DEF Followed, FollowsFrom
  <2>5. CASE ~f[n].known
    <3>1. NewStream(f[n+1], f[n], smp, t)
      BY <2>2, <2>3, <2>5, NewFacts
    <3> QED
      BY <3>1 DEF NewStream
  <2> QED
    BY <2>4, <2>5
<1>7. \A n \in 0 .. Asdus : n \in T
  <2> HIDE DEF T
  <2> QED
    BY <1>4, <1>5, <1>6, UpTo
<1>8. Asdus \in T /\ f[Asdus] \in SvStreamState
  BY <1>3, <1>4, <1>7
<1> QED
  BY <1>3, <1>4, <1>8

LEMMA RecordType ==
  ASSUME NEW r \in Recorded, NEW k \in Nat
  PROVE  Record(r, Samples(k)) \in Recorded
<1>1. Samples(k) \in Seq(Sample) /\ Len(Samples(k)) = Asdus
  BY SamplesFacts
<1>2. PICK f : RecordSteps(f, r, Samples(k))
  BY <1>1, RecordRecursion
<1> QED
  BY <1>1, <1>2, RateFacts DEF RecordSteps

WireOK ==
    wire \in Seq(Nat) /\ \A n \in 1 .. Len(wire) : wire[n] < engine.k /\ wire[n] < now

WaitingOK ==
    /\ Waiting \in Seq(Others)
    /\ \A n \in 1 .. Len(Waiting) :
          /\ Waiting[n].k < engine.k /\ Waiting[n].k < Waiting[n].at
          /\ Waiting[n].at <= now /\ (~late => Waiting[n].at = now)

HistoryOK ==
    /\ lost \subseteq 0 .. engine.k - 1 /\ fed \subseteq 0 .. engine.k - 1
    /\ repeated \subseteq 0 .. engine.k - 1 /\ overtaken \subseteq 0 .. engine.k - 1

ReaderOK ==
    /\ sv \in SvStreamState /\ recorded \in Recorded
    /\ sv.known <=> fed # {}
    /\ sv.rate \in {0, Rate}

BaseInv ==
    /\ EngineOK /\ RingOK(capture) /\ now \in Nat
    /\ WireOK /\ WaitingOK /\ HistoryOK /\ ReaderOK

LEMMA WireStep ==
  ASSUME EngineOK, EngineOK', now \in Nat, WireOK, Steps
  PROVE  WireOK' /\ now' \in Nat /\ engine'.k >= engine.k
<1> USE DEF WireOK
<1>1. engine.k \in Nat /\ engine'.k \in Nat /\ Len(wire) \in Nat
  BY LenProperties DEF EngineOK, Engine
<1>2. CASE Idle
  BY <1>1, <1>2 DEF Idle
<1>3. ASSUME NEW sent \in BOOLEAN, Sent(sent)
      PROVE  WireOK' /\ now' \in Nat /\ engine'.k >= engine.k
  <2>1. engine'.k = engine.k + 1 /\ engine.k < now /\ now' = now
    BY <1>1, <1>3 DEF Sent, Due
  <2>2. /\ Append(wire, engine.k) \in Seq(Nat)
        /\ Len(Append(wire, engine.k)) = Len(wire) + 1
        /\ \A n \in 1 .. Len(wire) : Append(wire, engine.k)[n] = wire[n]
        /\ Append(wire, engine.k)[Len(wire) + 1] = engine.k
    BY <1>1, AppendProperties
  <2>3. wire' = Append(wire, engine.k) \/ wire' = wire
    BY <1>3 DEF Sent
  <2>4. CASE wire' = wire
    BY <1>1, <2>1, <2>4, ElementOfSeq
  <2>5. CASE wire' = Append(wire, engine.k)
    <3>1. ASSUME NEW n \in 1 .. Len(wire) + 1
          PROVE  wire'[n] < engine.k + 1 /\ wire'[n] < now
      <4>1. n = Len(wire) + 1 \/ n \in 1 .. Len(wire)
        BY <1>1
      <4> QED
        BY <1>1, <2>1, <2>2, <2>5, <4>1, ElementOfSeq
    <3> QED
      BY <1>1, <2>1, <2>2, <2>5, <3>1
  <2> QED
    BY <2>3, <2>4, <2>5
<1>4. CASE Dropped
  <2>1. /\ wire # <<>> /\ wire' = Tail(wire) /\ engine' = engine /\ now' = now
    BY <1>4 DEF Dropped
  <2>2. /\ Tail(wire) \in Seq(Nat) /\ Len(Tail(wire)) = Len(wire) - 1
        /\ \A n \in 1 .. Len(Tail(wire)) : Tail(wire)[n] = wire[n+1]
    BY <2>1, HeadTailProperties
  <2> QED
    BY <1>1, <2>1, <2>2
<1>5. ASSUME NEW i \in DOMAIN wire, NEW again \in BOOLEAN, NEW kept \in BOOLEAN,
             Arrived(i, again, kept)
      PROVE  WireOK' /\ now' \in Nat /\ engine'.k >= engine.k
  <2>1. (wire' = wire \/ wire' = Without(wire, i)) /\ engine' = engine /\ now' = now
    BY <1>5 DEF Arrived
  <2>2. /\ Without(wire, i) \in Seq(Nat) /\ Len(Without(wire, i)) = Len(wire) - 1
        /\ \A n \in 1 .. Len(wire) - 1 :
              Without(wire, i)[n] = IF n < i THEN wire[n] ELSE wire[n+1]
    BY WithoutFacts
  <2>3. CASE wire' = wire
    BY <1>1, <2>1, <2>3
  <2>4. CASE wire' = Without(wire, i)
    <3>1. ASSUME NEW n \in 1 .. Len(wire) - 1
          PROVE  wire'[n] < engine.k /\ wire'[n] < now
      <4>1. n \in 1 .. Len(wire) /\ n + 1 \in 1 .. Len(wire)
        BY <1>1
      <4>2. wire'[n] = wire[n] \/ wire'[n] = wire[n+1]
        BY <2>2, <2>4
      <4> QED
        BY <4>1, <4>2
    <3> QED
      BY <1>1, <2>1, <2>2, <2>4, <3>1
  <2> QED
    BY <2>1, <2>3, <2>4
<1>6. CASE Taken \/ Checked
  BY <1>1, <1>6 DEF Taken, Checked
<1>7. CASE Ticked
  <2>1. wire' = wire /\ engine' = engine /\ now' = now + 1
    BY <1>7 DEF Ticked
  <2>2. \A n \in 1 .. Len(wire) : wire[n] \in Nat
    BY ElementOfSeq
  <2> QED
    BY <1>1, <2>1, <2>2
<1> QED
  BY <1>2, <1>3, <1>4, <1>5, <1>6, <1>7 DEF Steps

\* The frame that arrives at the ring, from the i-th place of the wire.
Frame(i) == [k |-> wire[i], at |-> now, own |-> FALSE]

LEMMA FrameFacts ==
  ASSUME wire \in Seq(Nat), now \in Nat, NEW i \in DOMAIN wire
  PROVE  /\ i \in 1 .. Len(wire) /\ wire[i] \in Nat
         /\ Frame(i) \in Others /\ Frame(i).k = wire[i] /\ Frame(i).at = now
<1>1. i \in 1 .. Len(wire)
  BY LenProperties
<1>2. wire[i] \in Nat
  BY <1>1, ElementOfSeq
<1> QED
  BY <1>1, <1>2 DEF Frame, Others, Captured

LEMMA WaitingStep ==
  ASSUME EngineOK, EngineOK', now \in Nat, WireOK, WaitingOK, Steps
  PROVE  WaitingOK'
<1>1. engine.k \in Nat /\ engine'.k \in Nat /\ Len(Waiting) \in Nat
  BY LenProperties DEF EngineOK, Engine, WaitingOK
<1>2. /\ Waiting \in Seq(Others)
      /\ \A n \in 1 .. Len(Waiting) :
            /\ Waiting[n] \in Others /\ Waiting[n].k \in Nat /\ Waiting[n].at \in Nat
            /\ Waiting[n].k < engine.k /\ Waiting[n].k < Waiting[n].at
            /\ Waiting[n].at <= now /\ (~late => Waiting[n].at = now)
  BY ElementOfSeq DEF WaitingOK, Others, Captured
<1>3. ASSUME Waiting' = Waiting, now' = now, late' = late, engine'.k >= engine.k
      PROVE  WaitingOK'
  BY <1>1, <1>2, <1>3 DEF WaitingOK
<1>4. CASE Idle
  BY <1>1, <1>3, <1>4 DEF Idle
<1>5. ASSUME NEW sent \in BOOLEAN, Sent(sent) PROVE WaitingOK'
  BY <1>1, <1>3, <1>5 DEF Sent
<1>6. CASE Dropped
  BY <1>1, <1>3, <1>6 DEF Dropped
<1>7. ASSUME NEW i \in DOMAIN wire, NEW again \in BOOLEAN, NEW kept \in BOOLEAN,
             Arrived(i, again, kept)
      PROVE  WaitingOK'
  <2>1. engine' = engine /\ now' = now /\ late' = late
    BY <1>7 DEF Arrived
  <2>2. Waiting' = Waiting \/ Waiting' = Append(Waiting, Frame(i))
    BY <1>7 DEF Arrived, Frame
  <2>3. CASE Waiting' = Waiting
    BY <1>1, <1>3, <2>1, <2>3
  <2>4. CASE Waiting' = Append(Waiting, Frame(i))
    <3>1. /\ Frame(i) \in Others /\ Frame(i).k < engine.k /\ Frame(i).k < now
          /\ Frame(i).at = now
      BY FrameFacts DEF WireOK
    <3>2. /\ Waiting' \in Seq(Others) /\ Len(Waiting') = Len(Waiting) + 1
          /\ \A n \in 1 .. Len(Waiting) : Waiting'[n] = Waiting[n]
          /\ Waiting'[Len(Waiting) + 1] = Frame(i)
      BY <1>2, <2>4, <3>1, AppendProperties
    <3>3. ASSUME NEW n \in 1 .. Len(Waiting')
          PROVE  /\ Waiting'[n].k < engine.k /\ Waiting'[n].k < Waiting'[n].at
                 /\ Waiting'[n].at <= now /\ (~late => Waiting'[n].at = now)
      <4>1. n = Len(Waiting) + 1 \/ n \in 1 .. Len(Waiting)
        BY <1>1, <3>2
      <4>2. CASE n = Len(Waiting) + 1
        BY <3>1, <3>2, <4>2
      <4>3. CASE n \in 1 .. Len(Waiting)
        BY <1>2, <3>2, <4>3
      <4> QED
        BY <4>1, <4>2, <4>3
    <3> QED
      BY <2>1, <3>2, <3>3 DEF WaitingOK
  <2> QED
    BY <2>2, <2>3, <2>4
<1>8. CASE Taken
  <2>1. /\ Waiting # <<>> /\ Waiting' = Tail(Waiting)
        /\ engine' = engine /\ now' = now /\ late' = late
    BY <1>8 DEF Taken
  <2>2. /\ Waiting' \in Seq(Others) /\ Len(Waiting') = Len(Waiting) - 1
        /\ \A n \in 1 .. Len(Waiting') : Waiting'[n] = Waiting[n+1]
    BY <1>2, <2>1, HeadTailProperties
  <2>3. ASSUME NEW n \in 1 .. Len(Waiting')
        PROVE  /\ Waiting'[n].k < engine.k /\ Waiting'[n].k < Waiting'[n].at
               /\ Waiting'[n].at <= now /\ (~late => Waiting'[n].at = now)
    <3>1. n + 1 \in 1 .. Len(Waiting)
      BY <1>1, <2>2
    <3> QED
      BY <1>2, <2>2, <3>1
  <2> QED
    BY <2>1, <2>2, <2>3 DEF WaitingOK
<1>9. CASE Checked
  BY <1>1, <1>3, <1>9 DEF Checked
<1>10. CASE Ticked
  <2>1. /\ Waiting' = Waiting /\ engine' = engine /\ now' = now + 1
        /\ (~late' => Waiting = <<>>)
    BY <1>10 DEF Ticked
  <2>2. Waiting = <<>> => Len(Waiting) = 0
    BY EmptySeq
  <2> QED
    BY <1>1, <1>2, <2>1, <2>2 DEF WaitingOK
<1> QED
  BY <1>4, <1>5, <1>6, <1>7, <1>8, <1>9, <1>10 DEF Steps

LEMMA HistoryStep ==
  ASSUME EngineOK, EngineOK', WireOK, WaitingOK, now \in Nat, HistoryOK, Steps
  PROVE  HistoryOK'
<1>1. engine.k \in Nat /\ engine'.k \in Nat
  BY DEF EngineOK, Engine
<1>2. \A n \in 1 .. Len(wire) : wire[n] \in 0 .. engine.k - 1
  BY <1>1, ElementOfSeq DEF WireOK
<1>3. CASE Idle
  BY <1>1, <1>3 DEF Idle, HistoryOK
<1>4. ASSUME NEW sent \in BOOLEAN, Sent(sent) PROVE HistoryOK'
  <2>1. /\ engine'.k = engine.k + 1 /\ lost' \subseteq lost \cup {engine.k}
        /\ UNCHANGED <<fed, repeated, overtaken>>
    BY <1>4 DEF Sent
  <2> QED
    BY <1>1, <2>1 DEF HistoryOK
<1>5. CASE Dropped
  <2>1. /\ wire # <<>> /\ lost' = lost \cup {Head(wire)}
        /\ UNCHANGED <<engine, fed, repeated, overtaken>>
    BY <1>5 DEF Dropped
  <2>2. 1 \in 1 .. Len(wire) /\ Head(wire) = wire[1]
    BY <2>1, EmptySeq DEF WireOK
  <2> QED
    BY <1>2, <2>1, <2>2 DEF HistoryOK
<1>6. ASSUME NEW i \in DOMAIN wire, NEW again \in BOOLEAN, NEW kept \in BOOLEAN,
             Arrived(i, again, kept)
      PROVE  HistoryOK'
  <2>1. i \in 1 .. Len(wire) /\ 1 \in 1 .. Len(wire)
    <3>1. Len(wire) \in Nat /\ i \in 1 .. Len(wire)
      BY FrameFacts, LenProperties DEF WireOK
    <3> QED
      BY <3>1
  <2>2. /\ lost' \subseteq lost \cup {wire[i]} /\ fed' = fed /\ engine' = engine
        /\ repeated' \subseteq repeated \cup {wire[i]}
        /\ overtaken' \subseteq overtaken \cup {wire[1]}
    BY <1>6 DEF Arrived
  <2> QED
    BY <1>2, <2>1, <2>2 DEF HistoryOK
<1>7. CASE Taken
  <2>1. /\ Waiting # <<>> /\ fed' = fed \cup {Head(Waiting).k}
        /\ UNCHANGED <<engine, lost, repeated, overtaken>>
    BY <1>7 DEF Taken
  <2>2. 1 \in 1 .. Len(Waiting) /\ Head(Waiting) = Waiting[1]
    BY <2>1, EmptySeq DEF WaitingOK
  <2>3. Waiting[1] \in Others /\ Waiting[1].k < engine.k
    BY <2>2, ElementOfSeq DEF WaitingOK
  <2>4. Head(Waiting).k \in 0 .. engine.k - 1
    BY <1>1, <2>2, <2>3 DEF Others, Captured
  <2> QED
    BY <2>1, <2>4 DEF HistoryOK
<1>8. CASE Checked
  BY <1>8 DEF Checked, HistoryOK
<1>9. CASE Ticked
  BY <1>9 DEF Ticked, HistoryOK
<1> QED
  BY <1>3, <1>4, <1>5, <1>6, <1>7, <1>8, <1>9 DEF Steps

LEMMA TakenFacts ==
  ASSUME WaitingOK, Waiting # <<>>
  PROVE  /\ 1 \in 1 .. Len(Waiting) /\ Head(Waiting) = Waiting[1]
         /\ Head(Waiting).k \in Nat /\ Head(Waiting).at \in Nat
<1>1. 1 \in 1 .. Len(Waiting) /\ Head(Waiting) = Waiting[1]
  BY EmptySeq DEF WaitingOK
<1>2. Waiting[1] \in Others
  BY <1>1, ElementOfSeq DEF WaitingOK
<1> QED
  BY <1>1, <1>2 DEF Others, Captured

LEMMA ReaderStep ==
  ASSUME WaitingOK, now \in Nat, ReaderOK, Steps
  PROVE  ReaderOK'
<1>1. CASE sv' = sv /\ recorded' = recorded /\ fed' = fed
  BY <1>1 DEF ReaderOK
<1>2. CASE Taken
  <2> DEFINE k == Head(Waiting).k
             t == Head(Waiting).at
             s == SvCheck(sv, t)
  <2>1. /\ Waiting # <<>> /\ sv' = FeedSamples(s, Samples(k), t)
        /\ recorded' = Record(recorded, Samples(k)) /\ fed' = fed \cup {k}
    BY <1>2 DEF Taken
  <2>2. k \in Nat /\ t \in Nat
    BY <2>1, TakenFacts
  <2> HIDE DEF k, t
  <2>3. s \in SvStreamState /\ s.rate = sv.rate
    BY <2>2, CheckFacts DEF ReaderOK
  <2> HIDE DEF s
  <2>4. sv' \in SvStreamState /\ sv'.known /\ sv'.rate = sv.rate
    BY <2>1, <2>2, <2>3, FeedFacts
  <2>5. recorded' \in Recorded
    BY <2>1, <2>2, RecordType DEF ReaderOK
  <2>6. fed' # {}
    BY <2>1
  <2> QED
    BY <2>4, <2>5, <2>6 DEF ReaderOK
<1>3. CASE Checked
  <2>1. sv' = SvCheck(sv, now) /\ recorded' = recorded /\ fed' = fed
    BY <1>3 DEF Checked
  <2>2. sv' \in SvStreamState /\ sv'.rate = sv.rate /\ sv'.known = sv.known
    BY <2>1, CheckFacts DEF ReaderOK
  <2> QED
    BY <2>1, <2>2 DEF ReaderOK
<1> QED
  BY <1>1, <1>2, <1>3 DEF Steps, Idle, Sent, Dropped, Arrived, Ticked

(***************************************************************************)
(* An empty ring: nothing is waiting.                                      *)
(***************************************************************************)
LEMMA EmptyRing ==
  ASSUME NEW c \in Ring, c.fill = 0, c.next = 0, c.pending = <<>>,
         \A b \in Places : c.block[b] = <<>> /\ ~c.user[b]
  PROVE  RingOK(c) /\ WaitingIn(c) = <<>>
<1>1. Blocks \in Nat /\ Blocks > 1 /\ 0 \in Places
  BY CaptureAssumption DEF Places
<1>2. \A n \in 0 .. Blocks : Place(0, n) \in Places
  BY <1>1, PlaceFacts
<1>3. RingOK(c)
  <2>1. Place(0, 0) = 0
    BY <1>1, PlaceFacts
  <2>2. \A n \in 0 .. Blocks - 1 : n \in 0 .. Blocks /\ ~(n < 0)
    BY <1>1
  <2>3. \A n \in 0 + 1 .. Blocks - 1 : n \in 0 .. Blocks
    BY <1>1
  <2>4. HandedUpTo(c, 0)
    BY <1>2, <2>1, <2>2, <2>3 DEF HandedUpTo
  <2> QED
    BY <1>1, <2>4 DEF RingOK
<1>4. PICK f : Gathers(f, c)
  BY WaitingGathered
<1> DEFINE T == {n \in 0 .. Blocks : f[n] = <<>>}
<1>5. 0 \in T
  BY <1>1, <1>4 DEF Gathers
<1>6. \A n \in 0 .. Blocks - 1 : n \in T => n + 1 \in T
  <2> SUFFICES ASSUME NEW n \in 0 .. Blocks - 1, f[n] = <<>> PROVE f[n+1] = <<>>
    BY <1>1
  <2>1. c.block[Place(0, n)] = <<>>
    BY <1>1, <1>2
  <2>2. f[n+1] = f[n] \o Foreign(c.block[Place(0, n)])
    BY <1>4 DEF Gathers
  <2>3. <<>> \in Seq(Captured)
    BY EmptySeq
  <2>4. Foreign(<<>>) = <<>>
    BY <2>3, ForeignFacts
  <2>5. <<>> \o <<>> = <<>>
    BY <2>3, ConcatEmptySeq
  <2> QED
    BY <2>1, <2>2, <2>4, <2>5
<1>7. \A n \in 0 .. Blocks : n \in T
  <2> HIDE DEF T
  <2> QED
    BY <1>1, <1>5, <1>6, UpTo
<1>8. WaitingIn(c) = <<>>
  BY <1>1, <1>4, <1>7 DEF Gathers
<1> QED
  BY <1>3, <1>8

LEMMA InitFacts ==
  ASSUME Init
  PROVE  /\ EngineOK /\ RingOK(capture) /\ Waiting = <<>> /\ wire = <<>> /\ now = 0
         /\ engine.k = 0 /\ fed = {} /\ lost = {} /\ repeated = {} /\ overtaken = {}
         /\ ReaderOK /\ ~sv.known /\ ~sv.wrapped /\ sv.maxSeen = 0 /\ sv.missed = 0
         /\ ~sv.timedOut /\ sv.events = {} /\ sv.recent = <<>>
         /\ recorded.recent = <<>> /\ recorded.tail = <<>>
<1>1. /\ engine.k = 0 /\ wire = <<>> /\ now = 0
      /\ fed = {} /\ lost = {} /\ repeated = {} /\ overtaken = {}
  BY DEF Init, PublisherInit
<1>2. EngineOK
  BY BusAssumption DEF Init, PublisherInit, EngineOK, Engine
<1>3. RingOK(capture) /\ Waiting = <<>>
  <2>1. PICK lowLatency \in BOOLEAN :
           capture = [lowLatency |-> lowLatency, block |-> [b \in Places |-> <<>>],
                      user |-> [b \in Places |-> FALSE],
                      fill |-> 0, next |-> 0, pending |-> <<>>]
    BY DEF Init, CaptureInit
  <2>2. 0 \in Places
    BY CaptureAssumption DEF Places
  <2>3. <<>> \in Seq(Captured) /\ <<>> \in Seq(Others)
    BY EmptySeq
  <2>4. [b \in Places |-> <<>>] \in [Places -> Seq(Captured)]
    BY <2>3
  <2>5. capture \in Ring
    BY <2>1, <2>2, <2>3, <2>4 DEF Ring
  <2>6. /\ capture.fill = 0 /\ capture.next = 0 /\ capture.pending = <<>>
        /\ \A b \in Places : capture.block[b] = <<>> /\ ~capture.user[b]
    BY <2>1
  <2> QED
    BY <2>5, <2>6, EmptyRing DEF Waiting
<1>4. PICK rate \in {0, Rate} : sv = SvUnknown(rate)
  BY DEF Init
<1>5. <<>> \in Seq(Nat) /\ <<>> \in Seq(Sources) /\ rate \in Nat
  BY EmptySeq, RateFacts
<1>6. /\ sv \in SvStreamState /\ ~sv.known /\ ~sv.wrapped /\ sv.maxSeen = 0
      /\ sv.missed = 0 /\ ~sv.timedOut /\ sv.events = {} /\ sv.recent = <<>>
      /\ sv.rate = rate
  BY <1>4, <1>5 DEF SvUnknown, SvStreamState
<1>7. /\ recorded \in Recorded /\ recorded.recent = <<>> /\ recorded.tail = <<>>
  <2>1. recorded = [recent |-> <<>>, tail |-> <<>>]
    BY DEF Init
  <2> QED
    BY <1>5, <2>1 DEF Recorded
<1>8. ReaderOK
  BY <1>1, <1>4, <1>6, <1>7 DEF ReaderOK
<1> QED
  BY <1>1, <1>2, <1>3, <1>6, <1>7, <1>8

(***************************************************************************)
(* The publisher, its frames, the ring and the readers are what they should *)
(* be.                                                                     *)
(***************************************************************************)
LEMMA BaseStep ==
  ASSUME BaseInv, EngineOK', [Next]_vars
  PROVE  BaseInv' /\ Steps
<1> USE DEF BaseInv
<1>1. wire \in Seq(Nat) /\ engine \in Engine
  BY DEF WireOK, EngineOK
<1>2. RingOK(capture') /\ Steps
  BY <1>1, StepsFacts
<1>3. RingOK(capture)'
  BY <1>2 DEF RingOK
<1>4. WireOK' /\ now' \in Nat
  BY <1>2, WireStep
<1>5. WaitingOK'
  BY <1>2, WaitingStep
<1>6. HistoryOK'
  BY <1>2, HistoryStep
<1>7. ReaderOK'
  BY <1>2, ReaderStep
<1> QED
  BY <1>2, <1>3, <1>4, <1>5, <1>6, <1>7

LEMMA BaseInit == Init => BaseInv
<1> SUFFICES ASSUME Init PROVE BaseInv
  OBVIOUS
<1>1. wire = <<>> /\ Waiting = <<>> /\ now = 0
  BY InitFacts
<1>2. /\ <<>> \in Seq(Nat) /\ <<>> \in Seq(Others) /\ Len(<<>>) = 0
  BY EmptySeq
<1>3. WireOK /\ WaitingOK
  BY <1>1, <1>2 DEF WireOK, WaitingOK
<1>4. HistoryOK
  BY InitFacts DEF HistoryOK
<1> QED
  BY <1>1, <1>3, <1>4, InitFacts DEF BaseInv

(***************************************************************************)
(* PacketCapture's pointers, the frames in its ring and the streams that   *)
(* are followed and recorded are of their types, and every frame received, *)
(* lost, repeated or overtaken is one that the publisher has sent.         *)
(***************************************************************************)
THEOREM BaseTheorem == Spec => []BaseInv
<1>1. BaseInv /\ EngineOK' /\ [Next]_vars => BaseInv'
  BY BaseStep
<1> QED
  BY <1>1, BaseInit, EngineTheorem, PTL DEF Spec

(***************************************************************************)
(* Types, of the readers too.                                              *)
(***************************************************************************)
THEOREM BusTypes == Spec => []TypeOK
<1>1. BaseInv => TypeOK
  BY DEF BaseInv, EngineOK, WireOK, ReaderOK, RingOK, Ring, TypeOK
<1> QED
  BY <1>1, BaseTheorem, PTL

(***************************************************************************)
(* The ring is a queue: what the kernel accepts is received once and in    *)
(* its turn, whatever is handed over, dropped or of this host.             *)
(***************************************************************************)
THEOREM RingTheorem == Spec => RingIsQueue
<1> DEFINE Queue == \/ Waiting' = Waiting
                    \/ Waiting # <<>> /\ Waiting' = Tail(Waiting)
                    \/ \E k \in 0 .. MaxFrames :
                          Waiting' = Append(Waiting, [k |-> k, at |-> now, own |-> FALSE])
<1>1. BaseInv /\ EngineOK' /\ [Next]_vars => [Queue]_vars
  <2> SUFFICES ASSUME BaseInv, EngineOK', [Next]_vars PROVE Queue
    OBVIOUS
  <2>1. Steps
    BY BaseStep
  <2>2. ASSUME NEW i \in DOMAIN wire, NEW again \in BOOLEAN, NEW kept \in BOOLEAN,
               Arrived(i, again, kept)
        PROVE  Queue
    <3>1. wire[i] \in 0 .. MaxFrames
      <4>1. wire \in Seq(Nat) /\ now \in Nat
        BY DEF BaseInv, WireOK
      <4>2. i \in 1 .. Len(wire) /\ wire[i] \in Nat
        BY <4>1, FrameFacts
      <4>3. wire[i] < engine.k /\ engine.k <= MaxFrames /\ engine.k \in Nat
        BY <4>2 DEF BaseInv, WireOK, EngineOK, Engine
      <4> QED
        BY <4>2, <4>3, BusAssumption
    <3>2. Waiting' = Waiting
          \/ Waiting' = Append(Waiting, [k |-> wire[i], at |-> now, own |-> FALSE])
      BY <2>2 DEF Arrived
    <3> QED
      BY <3>1, <3>2
  <2>3. CASE Idle \/ (\E sent \in BOOLEAN : Sent(sent)) \/ Dropped \/ Checked \/ Ticked
    BY <2>3 DEF Idle, Sent, Dropped, Checked, Ticked
  <2>4. CASE Taken
    BY <2>4 DEF Taken
  <2> QED
    BY <2>1, <2>2, <2>3, <2>4 DEF Steps
<1> QED
  BY <1>1, BaseTheorem, EngineTheorem, PTL DEF Spec, RingIsQueue

----------------------------------------------------------------------------
(* Order                                                                   *)

\* Frames are never the same twice until one is repeated.
Before(a, b) == a <= b /\ (repeated = {} => a < b)

(***************************************************************************)
(* While no frame is overtaken, those received, those waiting and those on *)
(* the wire are in the order they were sent in.                            *)
(***************************************************************************)
Ordered ==
    /\ \A n, m \in 1 .. Len(wire) : n < m => wire[n] < wire[m]
    /\ \A n, m \in 1 .. Len(Waiting) : n < m => Before(Waiting[n].k, Waiting[m].k)
    /\ \A n \in 1 .. Len(Waiting), m \in 1 .. Len(wire) : Before(Waiting[n].k, wire[m])
    /\ \A a \in fed : /\ \A n \in 1 .. Len(Waiting) : Before(a, Waiting[n].k)
                      /\ \A m \in 1 .. Len(wire) : Before(a, wire[m])

InOrder == overtaken = {} => Ordered

\* What was sent is received, lost, waiting or on the wire.
Somewhere(n) ==
    \/ n \in fed \/ n \in lost
    \/ \E i \in 1 .. Len(Waiting) : Waiting[i].k = n
    \/ \E i \in 1 .. Len(wire) : wire[i] = n

Covered == \A n \in 0 .. engine.k - 1 : Somewhere(n)

\* The numbers of the frames, on the wire and in the ring.
LEMMA Numbers ==
  ASSUME BaseInv
  PROVE  /\ engine.k \in Nat /\ Len(wire) \in Nat /\ Len(Waiting) \in Nat
         /\ wire \in Seq(Nat) /\ Waiting \in Seq(Others)
         /\ \A n \in 1 .. Len(wire) : wire[n] \in Nat /\ wire[n] < engine.k
         /\ \A n \in 1 .. Len(Waiting) :
               Waiting[n].k \in Nat /\ Waiting[n].k < engine.k
         /\ \A a \in fed : a \in Nat /\ a < engine.k
<1>1. engine.k \in Nat
  BY DEF BaseInv, EngineOK, Engine
<1>2. wire \in Seq(Nat) /\ Waiting \in Seq(Others)
  BY DEF BaseInv, WireOK, WaitingOK
<1>3. \A n \in 1 .. Len(Waiting) : Waiting[n].k \in Nat
  BY <1>2, ElementOfSeq DEF Others, Captured
<1>4. Len(wire) \in Nat /\ Len(Waiting) \in Nat
  BY <1>2, LenProperties
<1>5. \A n \in 1 .. Len(wire) : wire[n] \in Nat
  BY <1>2, ElementOfSeq
<1>6. /\ \A n \in 1 .. Len(wire) : wire[n] < engine.k
      /\ \A n \in 1 .. Len(Waiting) : Waiting[n].k < engine.k
  BY DEF BaseInv, WireOK, WaitingOK
<1>7. fed \subseteq 0 .. engine.k - 1
  BY DEF BaseInv, HistoryOK
<1>8. \A a \in fed : a \in Nat /\ a < engine.k
  BY <1>1, <1>7
<1> QED
  BY <1>1, <1>2, <1>3, <1>4, <1>5, <1>6, <1>8

LEMMA OrderStep ==
  ASSUME BaseInv, BaseInv', Steps, InOrder
  PROVE  InOrder'
<1>1. /\ engine.k \in Nat /\ Len(wire) \in Nat /\ Len(Waiting) \in Nat
      /\ wire \in Seq(Nat) /\ Waiting \in Seq(Others)
      /\ \A n \in 1 .. Len(wire) : wire[n] \in Nat /\ wire[n] < engine.k
      /\ \A n \in 1 .. Len(Waiting) : Waiting[n].k \in Nat /\ Waiting[n].k < engine.k
      /\ \A a \in fed : a \in Nat /\ a < engine.k
  BY Numbers
<1>2. ASSUME UNCHANGED <<wire, Waiting, fed, repeated, overtaken>> PROVE InOrder'
  BY <1>2 DEF InOrder, Ordered, Before
<1>3. ASSUME NEW sent \in BOOLEAN, Sent(sent) PROVE InOrder'
  <2>1. UNCHANGED <<Waiting, fed, repeated, overtaken>>
        /\ (wire' = wire \/ wire' = Append(wire, engine.k))
    BY <1>3 DEF Sent
  <2>2. CASE wire' = Append(wire, engine.k)
    <3>1. /\ Len(wire') = Len(wire) + 1 /\ wire'[Len(wire) + 1] = engine.k
          /\ \A n \in 1 .. Len(wire) : wire'[n] = wire[n]
      BY <1>1, <2>2, AppendProperties
    <3>2. \A n \in 1 .. Len(wire') :
             n \in 1 .. Len(wire) \/ n = Len(wire) + 1
      BY <1>1, <3>1
    <3> SUFFICES ASSUME overtaken = {} PROVE Ordered'
      BY <2>1 DEF InOrder
    <3>3. Ordered
      BY DEF InOrder
    <3>4. \A n, m \in 1 .. Len(wire') : n < m => wire'[n] < wire'[m]
      <4> SUFFICES ASSUME NEW n \in 1 .. Len(wire'), NEW m \in 1 .. Len(wire'), n < m
                   PROVE  wire'[n] < wire'[m]
        OBVIOUS
      <4>1. n \in 1 .. Len(wire)
        BY <1>1, <3>1
      <4>2. CASE m \in 1 .. Len(wire)
        BY <3>1, <3>3, <4>1, <4>2 DEF Ordered
      <4>3. CASE m = Len(wire) + 1
        BY <1>1, <3>1, <4>1, <4>3
      <4> QED
        BY <3>2, <4>2, <4>3
    <3>5. ASSUME NEW a \in Nat, a < engine.k,
                 \A m \in 1 .. Len(wire) : Before(a, wire[m]),
                 NEW m \in 1 .. Len(wire')
          PROVE  Before(a, wire'[m])
      <4>1. CASE m \in 1 .. Len(wire)
        BY <3>1, <3>5, <4>1
      <4>2. CASE m = Len(wire) + 1
        BY <1>1, <3>1, <3>5, <4>2 DEF Before
      <4> QED
        BY <3>2, <4>1, <4>2
    <3> QED
      BY <1>1, <2>1, <3>3, <3>4, <3>5 DEF Ordered, Before
  <2> QED
    BY <1>2, <2>1, <2>2
<1>4. ASSUME wire # <<>>, UNCHANGED <<Waiting, fed, repeated, overtaken>>,
             wire' = Tail(wire)
      PROVE  InOrder'
  <2>1. /\ Len(wire') = Len(wire) - 1
        /\ \A n \in 1 .. Len(wire') : wire'[n] = wire[n+1]
    BY <1>1, <1>4, HeadTailProperties
  <2>2. \A n \in 1 .. Len(wire') : n + 1 \in 1 .. Len(wire)
    BY <1>1, <2>1
  <2>3. \A n, m \in 1 .. Len(wire') : n < m => n + 1 < m + 1
    OBVIOUS
  <2> QED
    BY <1>4, <2>1, <2>2, <2>3 DEF InOrder, Ordered, Before
<1>5. CASE Dropped
  BY <1>4, <1>5 DEF Dropped
<1>6. ASSUME NEW i \in DOMAIN wire, NEW again \in BOOLEAN, NEW kept \in BOOLEAN,
             Arrived(i, again, kept)
      PROVE  InOrder'
  <2> SUFFICES ASSUME overtaken' = {} PROVE Ordered'
    BY DEF InOrder
  <2>0. i \in 1 .. Len(wire) /\ wire[i] \in Nat /\ now \in Nat
    BY <1>1, FrameFacts DEF BaseInv
  <2>1. i = 1 /\ overtaken = {}
    <3>1. overtaken' = overtaken \cup {x \in {wire[1]} : i > 1}
      BY <1>6 DEF Arrived
    <3>2. ~(i > 1) /\ overtaken = {}
      BY <3>1
    <3> QED
      BY <1>1, <2>0, <3>2
  <2>2. Ordered
    BY <2>1 DEF InOrder
  <2>3. /\ fed' = fed /\ repeated \subseteq repeated' /\ (again => repeated' # {})
        /\ wire' = IF again THEN wire ELSE Without(wire, 1)
        /\ Waiting' = IF kept THEN Append(Waiting, Frame(1)) ELSE Waiting
    BY <1>6, <2>1 DEF Arrived, Frame
  <2> DEFINE Later(a, b) == a <= b /\ (repeated' = {} => a < b)
             was(n) == IF again THEN n ELSE n + 1
  <2>4. \A a, b : Before(a, b) => Later(a, b)
    BY <2>3 DEF Before
  <2>5. /\ Without(wire, 1) \in Seq(Nat) /\ Len(Without(wire, 1)) = Len(wire) - 1
        /\ \A n \in 1 .. Len(wire) - 1 : Without(wire, 1)[n] = wire[n+1]
    <3>1. \A n \in 1 .. Len(wire) - 1 : ~(n < 1)
      BY <1>1
    <3>2. 1 \in DOMAIN wire
      BY <2>1
    <3> QED
      BY <1>1, <3>1, <3>2, WithoutFacts
  <2>6. \A n \in 1 .. Len(wire') :
           /\ wire'[n] = wire[was(n)] /\ was(n) \in 1 .. Len(wire)
           /\ (~again => was(n) > 1)
    BY SMTT(20), <1>1, <2>3, <2>5
  <2>7. /\ \A n, m \in 1 .. Len(wire') : n < m => was(n) < was(m)
        /\ 1 \in 1 .. Len(wire)
    BY <2>0, <2>1
  <2> HIDE DEF was
  <2>8. \A n, m \in 1 .. Len(wire') : n < m => wire'[n] < wire'[m]
    BY <2>2, <2>6, <2>7 DEF Ordered
  <2>9. ASSUME NEW m \in 1 .. Len(wire')
        PROVE  /\ Later(wire[1], wire'[m])
               /\ \A a \in fed : Later(a, wire'[m])
               /\ \A n \in 1 .. Len(Waiting) : Later(Waiting[n].k, wire'[m])
    <3>1. wire'[m] = wire[was(m)] /\ was(m) \in 1 .. Len(wire) /\ (~again => was(m) > 1)
      BY <2>6
    <3>2. Later(wire[1], wire[was(m)])
      <4>1. CASE was(m) > 1
        <5>1. wire[1] < wire[was(m)]
          BY <2>2, <2>7, <3>1, <4>1 DEF Ordered
        <5> QED
          BY <1>1, <2>7, <3>1, <5>1
      <4>2. CASE was(m) = 1
        BY <1>1, <2>3, <2>7, <3>1, <4>2
      <4> QED
        BY <3>1, <4>1, <4>2
    <3> HIDE DEF Later
    <3> QED
      BY <2>2, <2>4, <3>1, <3>2 DEF Ordered
  <2>10. /\ Waiting' = Waiting \/ Waiting' = Append(Waiting, Frame(1))
         /\ Frame(1) \in Others /\ Frame(1).k = wire[1]
    BY <1>1, <2>0, <2>1, <2>3, FrameFacts
  <2>11. \A n \in 1 .. Len(Waiting') :
            \/ n \in 1 .. Len(Waiting) /\ Waiting'[n] = Waiting[n]
            \/ n = Len(Waiting) + 1 /\ Waiting'[n].k = wire[1]
    <3>1. CASE Waiting' = Waiting
      BY <3>1
    <3>2. CASE Waiting' = Append(Waiting, Frame(1))
      <4>1. /\ Len(Waiting') = Len(Waiting) + 1
            /\ \A n \in 1 .. Len(Waiting) : Waiting'[n] = Waiting[n]
            /\ Waiting'[Len(Waiting) + 1] = Frame(1)
        BY <1>1, <2>10, <3>2, AppendProperties
      <4> QED
        BY <1>1, <2>10, <4>1
    <3> QED
      BY <2>10, <3>1, <3>2
  <2>12. ASSUME NEW n \in 1 .. Len(Waiting'), NEW m \in 1 .. Len(Waiting'), n < m
         PROVE  Later(Waiting'[n].k, Waiting'[m].k)
    <3>1. n \in 1 .. Len(Waiting) /\ Waiting'[n] = Waiting[n]
      <4>1. m \in 1 .. Len(Waiting) \/ m = Len(Waiting) + 1
        BY <2>11
      <4>2. n # Len(Waiting) + 1
        BY <1>1, <2>12, <4>1
      <4> QED
        BY <2>11, <4>2
    <3>2. CASE m \in 1 .. Len(Waiting) /\ Waiting'[m] = Waiting[m]
      <4> HIDE DEF Later
      <4> QED
        BY <2>2, <2>4, <2>12, <3>1, <3>2 DEF Ordered
    <3>3. CASE Waiting'[m].k = wire[1]
      <4> HIDE DEF Later
      <4> QED
        BY <2>2, <2>4, <2>7, <3>1, <3>3 DEF Ordered
    <3> QED
      BY <2>11, <3>2, <3>3
  <2>13. ASSUME NEW n \in 1 .. Len(Waiting')
         PROVE  /\ \A m \in 1 .. Len(wire') : Later(Waiting'[n].k, wire'[m])
                /\ \A a \in fed : Later(a, Waiting'[n].k)
    <3> HIDE DEF Later
    <3>1. CASE n \in 1 .. Len(Waiting) /\ Waiting'[n] = Waiting[n]
      BY <2>2, <2>4, <2>9, <3>1 DEF Ordered
    <3>2. CASE Waiting'[n].k = wire[1]
      BY <2>2, <2>4, <2>7, <2>9, <3>2 DEF Ordered
    <3> QED
      BY <2>11, <3>1, <3>2
  <2> QED
    BY <2>3, <2>8, <2>9, <2>12, <2>13 DEF Ordered, Before
<1>7. CASE Taken
  <2>1. /\ Waiting # <<>> /\ Waiting' = Tail(Waiting) /\ fed' = fed \cup {Head(Waiting).k}
        /\ UNCHANGED <<wire, repeated, overtaken>>
    BY <1>7 DEF Taken
  <2>2. 1 \in 1 .. Len(Waiting) /\ Head(Waiting) = Waiting[1]
    BY <2>1, TakenFacts DEF BaseInv
  <2>3. /\ Len(Waiting') = Len(Waiting) - 1
        /\ \A n \in 1 .. Len(Waiting') : Waiting'[n] = Waiting[n+1]
    BY <1>1, <2>1, HeadTailProperties
  <2>4. /\ \A n \in 1 .. Len(Waiting') : n + 1 \in 1 .. Len(Waiting) /\ 1 < n + 1
        /\ \A n, m \in 1 .. Len(Waiting') : n < m => n + 1 < m + 1
    BY <1>1, <2>3
  <2> SUFFICES ASSUME overtaken = {} PROVE Ordered'
    BY <2>1 DEF InOrder
  <2>5. Ordered
    BY DEF InOrder
  <2>6. \A n, m \in 1 .. Len(Waiting') : n < m => Before(Waiting'[n].k, Waiting'[m].k)
    BY <2>3, <2>4, <2>5 DEF Ordered
  <2>7. ASSUME NEW a \in fed'
        PROVE  /\ \A n \in 1 .. Len(Waiting') : Before(a, Waiting'[n].k)
               /\ \A m \in 1 .. Len(wire) : Before(a, wire[m])
    <3>1. CASE a \in fed
      BY <2>3, <2>4, <2>5, <3>1 DEF Ordered
    <3>2. CASE a = Waiting[1].k
      BY <2>2, <2>3, <2>4, <2>5, <3>2 DEF Ordered
    <3> QED
      BY <2>1, <2>2, <3>1, <3>2
  <2>8. \A n \in 1 .. Len(Waiting'), m \in 1 .. Len(wire) : Before(Waiting'[n].k, wire[m])
    BY <2>3, <2>4, <2>5 DEF Ordered
  <2> QED
    BY <2>1, <2>5, <2>6, <2>7, <2>8 DEF Ordered, Before
<1>8. CASE Idle \/ Checked \/ Ticked
  BY <1>2, <1>8 DEF Idle, Checked, Ticked
<1> QED
  BY <1>3, <1>5, <1>6, <1>7, <1>8 DEF Steps

LEMMA CoverStep ==
  ASSUME BaseInv, BaseInv', Steps, Covered
  PROVE  Covered'
<1>1. /\ engine.k \in Nat /\ Len(wire) \in Nat /\ Len(Waiting) \in Nat
      /\ wire \in Seq(Nat) /\ Waiting \in Seq(Others)
  BY Numbers
<1>2. ASSUME UNCHANGED <<wire, Waiting, fed, lost>>, engine'.k = engine.k PROVE Covered'
  BY <1>2 DEF Covered, Somewhere
<1>3. ASSUME NEW sent \in BOOLEAN, Sent(sent) PROVE Covered'
  <2> SUFFICES ASSUME NEW n \in 0 .. engine'.k - 1 PROVE Somewhere(n)'
    BY DEF Covered
  <2>1. /\ engine'.k = engine.k + 1 /\ UNCHANGED <<Waiting, fed>>
        /\ wire' = IF sent THEN Append(wire, engine.k) ELSE wire
        /\ lost' = IF sent THEN lost ELSE lost \cup {engine.k}
    BY <1>3 DEF Sent
  <2>2. /\ Len(Append(wire, engine.k)) = Len(wire) + 1
        /\ Append(wire, engine.k)[Len(wire) + 1] = engine.k
        /\ \A i \in 1 .. Len(wire) : Append(wire, engine.k)[i] = wire[i]
    BY <1>1, AppendProperties
  <2>3. \A i \in 1 .. Len(wire) : i \in 1 .. Len(wire') /\ wire'[i] = wire[i]
    BY <1>1, <2>1, <2>2
  <2>4. CASE n = engine.k
    <3>1. CASE sent
      <4>1. Len(wire) + 1 \in 1 .. Len(wire') /\ wire'[Len(wire) + 1] = n
        BY <1>1, <2>1, <2>2, <2>4, <3>1
      <4> QED
        BY <4>1 DEF Somewhere
    <3>2. CASE ~sent
      BY <2>1, <2>4, <3>2 DEF Somewhere
    <3> QED
      BY <3>1, <3>2
  <2>5. CASE n # engine.k
    <3>1. n \in 0 .. engine.k - 1
      BY <1>1, <2>1, <2>5
    <3>2. Somewhere(n) /\ lost \subseteq lost'
      BY <2>1, <3>1 DEF Covered
    <3> QED
      BY <2>1, <2>3, <3>2 DEF Somewhere
  <2> QED
    BY <2>4, <2>5
<1>4. CASE Dropped
  <2>1. /\ wire # <<>> /\ wire' = Tail(wire) /\ lost' = lost \cup {Head(wire)}
        /\ UNCHANGED <<engine, Waiting, fed>>
    BY <1>4 DEF Dropped
  <2>2. /\ Head(wire) = wire[1] /\ Len(wire') = Len(wire) - 1
        /\ \A i \in 1 .. Len(wire') : wire'[i] = wire[i+1]
    BY <1>1, <2>1, HeadTailProperties
  <2>3. \A i \in 1 .. Len(wire) :
           i = 1 \/ (i - 1 \in 1 .. Len(wire') /\ wire'[i-1] = wire[i])
    <3> SUFFICES ASSUME NEW i \in 1 .. Len(wire), i # 1
                 PROVE  i - 1 \in 1 .. Len(wire') /\ wire'[i-1] = wire[i]
      OBVIOUS
    <3>1. i - 1 \in 1 .. Len(wire') /\ (i - 1) + 1 = i
      BY <1>1, <2>2
    <3> QED
      BY <2>2, <3>1
  <2> SUFFICES ASSUME NEW n, Somewhere(n) PROVE Somewhere(n)'
    BY <2>1 DEF Covered
  <2> QED
    BY <2>1, <2>2, <2>3 DEF Somewhere
<1>5. ASSUME NEW i \in DOMAIN wire, NEW again \in BOOLEAN, NEW kept \in BOOLEAN,
             Arrived(i, again, kept)
      PROVE  Covered'
  <2>1. /\ engine' = engine /\ fed' = fed
        /\ wire' = IF again THEN wire ELSE Without(wire, i)
        /\ Waiting' = IF kept THEN Append(Waiting, Frame(i)) ELSE Waiting
        /\ lost' = IF kept THEN lost ELSE lost \cup {wire[i]}
    BY <1>5 DEF Arrived, Frame
  <2>2. i \in 1 .. Len(wire) /\ Frame(i) \in Others /\ Frame(i).k = wire[i]
    BY <1>1, FrameFacts DEF BaseInv
  <2>3. /\ Len(Without(wire, i)) = Len(wire) - 1
        /\ \A n \in 1 .. Len(wire) - 1 :
              Without(wire, i)[n] = IF n < i THEN wire[n] ELSE wire[n+1]
    BY <1>1, WithoutFacts
  <2>4. /\ Len(Append(Waiting, Frame(i))) = Len(Waiting) + 1
        /\ Append(Waiting, Frame(i))[Len(Waiting) + 1] = Frame(i)
        /\ \A n \in 1 .. Len(Waiting) : Append(Waiting, Frame(i))[n] = Waiting[n]
    BY <1>1, <2>2, AppendProperties
  <2>5. \A n \in 1 .. Len(Waiting) : n \in 1 .. Len(Waiting') /\ Waiting'[n] = Waiting[n]
    BY <1>1, <2>1, <2>4
  <2>6. wire[i] \in lost' \/ \E n \in 1 .. Len(Waiting') : Waiting'[n].k = wire[i]
    <3>1. CASE kept
      <4>1. /\ Len(Waiting) + 1 \in 1 .. Len(Waiting')
            /\ Waiting'[Len(Waiting) + 1].k = wire[i]
        BY <1>1, <2>1, <2>2, <2>4, <3>1
      <4> QED
        BY <4>1
    <3>2. CASE ~kept
      BY <2>1, <3>2
    <3> QED
      BY <3>1, <3>2
  <2>7. \A n \in 1 .. Len(wire) :
           n = i \/ \E m \in 1 .. Len(wire') : wire'[m] = wire[n]
    <3> SUFFICES ASSUME NEW n \in 1 .. Len(wire), n # i
                 PROVE  \E m \in 1 .. Len(wire') : wire'[m] = wire[n]
      OBVIOUS
    <3>1. CASE again
      BY <2>1, <3>1
    <3>2. CASE ~again /\ n < i
      <4>1. n \in 1 .. Len(wire')
        BY <1>1, <2>1, <2>2, <2>3, <3>2
      <4> QED
        BY <2>1, <2>3, <3>2, <4>1
    <3>3. CASE ~again /\ ~(n < i)
      <4>1. n - 1 \in 1 .. Len(wire') /\ (n - 1) + 1 = n /\ ~(n - 1 < i)
        BY SMTT(20), <1>1, <2>1, <2>2, <2>3, <3>3
      <4> QED
        BY <2>1, <2>3, <3>3, <4>1
    <3> QED
      BY <3>1, <3>2, <3>3
  <2> SUFFICES ASSUME NEW n, Somewhere(n) PROVE Somewhere(n)'
    BY <2>1 DEF Covered
  <2>8. lost \subseteq lost'
    BY <2>1
  <2> QED
    BY <2>1, <2>5, <2>6, <2>7, <2>8 DEF Somewhere
<1>6. CASE Taken
  <2>1. /\ Waiting # <<>> /\ Waiting' = Tail(Waiting) /\ fed' = fed \cup {Head(Waiting).k}
        /\ UNCHANGED <<engine, wire, lost>>
    BY <1>6 DEF Taken
  <2>2. /\ Head(Waiting) = Waiting[1] /\ Len(Waiting') = Len(Waiting) - 1
        /\ \A i \in 1 .. Len(Waiting') : Waiting'[i] = Waiting[i+1]
    BY <1>1, <2>1, HeadTailProperties
  <2>3. \A i \in 1 .. Len(Waiting) :
           i = 1 \/ (i - 1 \in 1 .. Len(Waiting') /\ Waiting'[i-1] = Waiting[i])
    <3> SUFFICES ASSUME NEW i \in 1 .. Len(Waiting), i # 1
                 PROVE  i - 1 \in 1 .. Len(Waiting') /\ Waiting'[i-1] = Waiting[i]
      OBVIOUS
    <3>1. i - 1 \in 1 .. Len(Waiting') /\ (i - 1) + 1 = i
      BY <1>1, <2>2
    <3> QED
      BY <2>2, <3>1
  <2> SUFFICES ASSUME NEW n, Somewhere(n) PROVE Somewhere(n)'
    BY <2>1 DEF Covered
  <2> QED
    BY <2>1, <2>2, <2>3 DEF Somewhere
<1>7. CASE Idle \/ Checked \/ Ticked
  BY <1>2, <1>7 DEF Idle, Checked, Ticked
<1> QED
  BY <1>3, <1>4, <1>5, <1>6, <1>7 DEF Steps

(***************************************************************************)
(* What is received next, of a stream in order: after the last received    *)
(* all is lost until it.                                                   *)
(***************************************************************************)
Latest(j) == j \in fed /\ \A a \in fed : a <= j

LEMMA NextReceived ==
  ASSUME BaseInv, Ordered, Covered, Waiting # <<>>
  PROVE  LET r == Head(Waiting).k
         IN  /\ r \in Nat /\ r < engine.k
             /\ \A a \in fed : a <= r /\ (repeated = {} => a < r)
             /\ \A n \in Nat : n < r /\ (\A a \in fed : a < n) => n \in lost
<1> DEFINE r == Head(Waiting).k
<1>1. 1 \in 1 .. Len(Waiting) /\ Head(Waiting) = Waiting[1]
  BY TakenFacts DEF BaseInv
<1>2. /\ r \in Nat /\ r < engine.k /\ engine.k \in Nat
  BY <1>1, Numbers
<1>3. \A a \in fed : a <= r /\ (repeated = {} => a < r)
  BY <1>1 DEF Ordered, Before
<1>4. ASSUME NEW n \in Nat, n < r, \A a \in fed : a < n PROVE n \in lost
  <2>1. n \in 0 .. engine.k - 1
    BY <1>2, <1>4
  <2>2. n \notin fed
    BY <1>4
  <2>3. \A i \in 1 .. Len(Waiting) : r <= Waiting[i].k
    <3> SUFFICES ASSUME NEW i \in 1 .. Len(Waiting) PROVE r <= Waiting[i].k
      OBVIOUS
    <3>1. CASE i = 1
      BY <1>1, <1>2, <3>1
    <3>2. CASE i # 1
      <4>1. 1 < i
        BY <3>2, Numbers
      <4> QED
        BY <1>1, <4>1 DEF Ordered, Before
    <3> QED
      BY <3>1, <3>2
  <2>4. \A i \in 1 .. Len(wire) : r <= wire[i]
    BY <1>1 DEF Ordered, Before
  <2>5. \A x \in Nat : r <= x => x # n
    BY <1>2, <1>4
  <2>6. \A i \in 1 .. Len(Waiting) : Waiting[i].k # n
    BY <2>3, <2>5, Numbers
  <2>7. \A i \in 1 .. Len(wire) : wire[i] # n
    BY <2>4, <2>5, Numbers
  <2> QED
    BY <2>1, <2>2, <2>6, <2>7 DEF Covered, Somewhere
<1> QED
  BY <1>2, <1>3, <1>4

----------------------------------------------------------------------------
(* A stream whose samples follow each other                                *)

\* p and d further, as smpCnt counts.
Wrapped(p, d) == IF p + d < Rate THEN p + d ELSE p + d - Rate

LEMMA AheadIs ==
  ASSUME NEW s \in SvStreamState, NEW p \in 0 .. Rate - 1, NEW d \in Nat,
         s.smp = p, 0 < d, d < Rate \div 2, WrapsAt(s) = Rate
  PROVE  Ahead(s, Wrapped(p, d)) = d
<1>1. Rate \in Nat /\ Rate > 0
  BY RateFacts
<1> DEFINE h == Rate \div 2
           q == Wrapped(p, d)
           x == q - p
<1>2. h \in Nat /\ 2 * h <= Rate /\ d < h
  BY <1>1
<1> HIDE DEF h
<1>3. q \in 0 .. Rate - 1 /\ (x = d \/ x = d - Rate)
  BY <1>1, <1>2 DEF Wrapped
<1> HIDE DEF q
<1>4. x % Rate = d
  <2>1. x \in Int /\ 0 <= d /\ d < Rate
    BY <1>1, <1>2, <1>3
  <2>2. CASE x = d
    BY <1>1, <2>1, <2>2
  <2>3. CASE x = d - Rate
    BY <1>1, <2>1, <2>3
  <2> HIDE DEF x
  <2> QED
    BY <1>3, <2>2, <2>3
<1> DEFINE y == x % Rate
<1>5. y = d
  BY <1>4
<1>6. Ahead(s, q) = IF y >= h THEN y - Rate ELSE y
  BY <1>1, <1>3 DEF Ahead, h
<1> HIDE DEF y
<1> QED
  BY <1>2, <1>5, <1>6 DEF q

\* The stream s is at the sample smp; learnt: it has seen the wrap.
SampleAt(s, learnt, smp) ==
    /\ s.smp = smp
    /\ s.rate = 0 => /\ s.wrapped <=> learnt
                     /\ s.maxSeen = IF learnt THEN Rate - 1 ELSE smp

Advanced(r, s, smp, d, learnt, t) ==
    /\ r \in SvStreamState /\ r.known /\ r.lastSeen = t /\ ~r.timedOut
    /\ r.rate = s.rate /\ SampleAt(r, learnt, smp) /\ r.missed = s.missed + (d - 1)
    /\ r.recent = Pushed(s.recent, smp)
    /\ r.events \subseteq s.events \cup (IF s.timedOut THEN {"resumed"} ELSE {})
                                   \cup (IF d > 1 THEN {"gap"} ELSE {})

(***************************************************************************)
(* A sample d ahead of the last is taken as such, across the wrap of       *)
(* smpCnt too, known or just being learnt.                                 *)
(***************************************************************************)
LEMMA Advance ==
  ASSUME NEW s \in SvStreamState, s.known, s.rate \in {0, Rate},
         NEW p \in 0 .. Rate - 1, NEW learnt \in BOOLEAN, SampleAt(s, learnt, p),
         NEW d \in Nat, 0 < d, d < Rate \div 2,
         s.rate = 0 /\ ~learnt => d = 1, NEW t \in Nat
  PROVE  Advanced(FeedSample(s, Wrapped(p, d), t), s, Wrapped(p, d), d,
                  learnt \/ p + d >= Rate, t)
<1>1. /\ Rate \in Nat /\ Rate > 0 /\ Window \in Nat /\ Window > 0 /\ Window + 1 < Rate
      /\ d \in Nat /\ d < Rate
  <2>1. Rate \div 2 <= Rate /\ Rate \div 2 \in Int
    BY RateFacts
  <2> QED
    BY <2>1, RateFacts, WindowAssumption, BusAssumption
<1> DEFINE q == Wrapped(p, d)
           r == FeedSample(s, q, t)
           b == Reference(s, q, t)
           a == Ahead(b, q)
           learnt1 == learnt \/ p + d >= Rate
<1>2. /\ q \in 0 .. Rate - 1 /\ q \in Nat
      /\ (p + d >= Rate => q = p + d - Rate) /\ (p + d < Rate => q = p + d)
  BY <1>1 DEF Wrapped
<1> HIDE DEF q
<1>3. Hears(b, s, q, t)
  BY <1>2, ReferenceFacts
<1>4. Followed(r, s, q, t)
  BY <1>2, FollowFacts
<1>5. FollowsFrom(r, s, b, a, q, t)
  BY <1>4 DEF Followed, b, a
<1>6. /\ b \in SvStreamState /\ b.rate = s.rate /\ b.smp = p /\ b.maxSeen = s.maxSeen
      /\ b.wrapped <=> (s.wrapped \/ (WrapsAt(s) = 0 /\ p - q > Window))
      /\ b.events = IF s.timedOut THEN s.events \cup {"resumed"} ELSE s.events
  BY <1>3 DEF Hears, SampleAt
<1> HIDE DEF b, r
<1>7. CASE s.rate = Rate
  <2>1. WrapsAt(b) = Rate
    BY <1>1, <1>6, <1>7 DEF WrapsAt
  <2>2. a = d
    BY <1>6, <2>1, AheadIs DEF q
  <2> HIDE DEF a
  <2>3. /\ r.smp = q /\ r.missed = s.missed + (d - 1) /\ r.recent = Pushed(s.recent, q)
        /\ r.events = IF d > 1 THEN b.events \cup {"gap"} ELSE b.events
    BY <1>5, <2>2 DEF FollowsFrom
  <2>4. SampleAt(r, learnt1, q)
    BY <1>1, <1>5, <1>7, <2>3 DEF SampleAt, FollowsFrom
  <2> QED
    BY <1>5, <1>6, <2>3, <2>4 DEF Advanced, FollowsFrom, r, q
<1>8. CASE s.rate = 0 /\ learnt
  <2>1. s.wrapped /\ s.maxSeen = Rate - 1
    BY <1>8 DEF SampleAt
  <2>2. WrapsAt(b) = Rate
    BY <1>1, <1>6, <1>8, <2>1 DEF WrapsAt
  <2>3. a = d
    BY <1>6, <2>2, AheadIs DEF q
  <2> HIDE DEF a
  <2>4. /\ r.smp = q /\ r.missed = s.missed + (d - 1) /\ r.wrapped
        /\ r.recent = Pushed(s.recent, q)
        /\ r.maxSeen = (IF q > s.maxSeen THEN q ELSE s.maxSeen)
        /\ r.events = IF d > 1 THEN b.events \cup {"gap"} ELSE b.events
    BY <1>5, <1>6, <2>1, <2>3 DEF FollowsFrom
  <2>5. r.maxSeen = Rate - 1
    BY <1>1, <1>2, <2>1, <2>4
  <2>6. SampleAt(r, learnt1, q)
    BY <1>8, <2>4, <2>5 DEF SampleAt
  <2> QED
    BY <1>5, <1>6, <2>4, <2>6 DEF Advanced, FollowsFrom, r, q
<1>9. CASE s.rate = 0 /\ ~learnt
  <2>1. ~s.wrapped /\ s.maxSeen = p /\ WrapsAt(s) = 0 /\ d = 1
    BY <1>9 DEF SampleAt, WrapsAt
  <2>2. CASE p + 1 < Rate
    <3>1. ~b.wrapped /\ q = p + 1 /\ ~learnt1
      BY <1>1, <1>2, <1>6, <1>9, <2>1, <2>2
    <3>2. WrapsAt(b) = 0
      BY <1>6, <1>9, <3>1 DEF WrapsAt
    <3>3. a = 1
      BY <1>6, <3>1, <3>2 DEF Ahead
    <3> HIDE DEF a, learnt1
    <3>4. /\ r.smp = q /\ r.missed = s.missed + (d - 1) /\ ~r.wrapped
          /\ r.recent = Pushed(s.recent, q)
          /\ r.maxSeen = (IF q > s.maxSeen THEN q ELSE s.maxSeen)
          /\ r.events = b.events
      BY <1>5, <2>1, <3>1, <3>3 DEF FollowsFrom
    <3>5. r.maxSeen = q
      BY <1>2, <2>1, <3>1, <3>4
    <3>6. SampleAt(r, learnt1, q)
      BY <1>9, <3>1, <3>4, <3>5 DEF SampleAt
    <3> QED
      BY <1>5, <1>6, <2>1, <3>4, <3>6 DEF Advanced, FollowsFrom, r, q, learnt1
  <2>3. CASE ~(p + 1 < Rate)
    <3>1. p = Rate - 1 /\ q = 0 /\ learnt1 /\ p - q > Window
      BY <1>1, <1>2, <2>1, <2>3
    <3>2. b.wrapped /\ b.maxSeen = Rate - 1
      BY <1>6, <2>1, <3>1
    <3>3. WrapsAt(b) = Rate
      BY <1>1, <1>6, <1>9, <3>2 DEF WrapsAt
    <3>4. a = d
      BY <1>6, <3>3, AheadIs DEF q
    <3> HIDE DEF a, learnt1
    <3>5. /\ r.smp = q /\ r.missed = s.missed + (d - 1) /\ r.wrapped
          /\ r.recent = Pushed(s.recent, q)
          /\ r.maxSeen = (IF q > s.maxSeen THEN q ELSE s.maxSeen)
          /\ r.events = b.events
      BY <1>5, <2>1, <3>2, <3>4 DEF FollowsFrom
    <3>6. r.maxSeen = Rate - 1
      BY <1>1, <2>1, <3>1, <3>5
    <3>7. SampleAt(r, learnt1, q)
      BY <1>9, <3>1, <3>5, <3>6 DEF SampleAt
    <3> QED
      BY <1>5, <1>6, <2>1, <3>5, <3>7 DEF Advanced, FollowsFrom, r, q, learnt1
  <2> QED
    BY <2>2, <2>3
<1> QED
  BY <1>7, <1>8, <1>9

LEMMA HalfFacts ==
  1 < Rate \div 2 /\ Asdus + 1 < Rate \div 2 /\ Rate \div 2 \in Int
  /\ Rate > 0 /\ Rate \in Nat /\ Asdus \in Nat /\ Asdus > 0
<1>1. Rate \in Nat /\ Asdus \in Nat /\ Asdus > 0 /\ Rate > 0 /\ Rate \div 2 \in Int
  BY RateFacts
<1> QED
  BY <1>1, BusAssumption

\* g[i]: the counters accepted last when i samples of the frame k are.
Pushes(g, before, after, k) ==
    /\ g[0] = before /\ g[Asdus] = after
    /\ \A i \in 1 .. Asdus : g[i] = Pushed(g[i-1], First(k) + i - 1)

\* A frame taken when its first sample was: the others follow.
FrameTaken(r, s, learnt, k) ==
    /\ SampleAt(r, learnt, First(k) + Asdus - 1) /\ r.rate = s.rate
    /\ r.missed = s.missed /\ r.events \subseteq s.events

LEMMA RestOfFrame ==
  ASSUME NEW s \in SvStreamState, NEW k \in Nat, NEW t \in Nat, NEW f,
         FeedSteps(f, s, Samples(k), t), f[1].known, ~f[1].timedOut,
         f[1].rate \in {0, Rate}, NEW learnt \in BOOLEAN,
         SampleAt(f[1], learnt, First(k)), f[1].recent = Pushed(s.recent, First(k))
  PROVE  /\ FrameTaken(FeedSamples(s, Samples(k), t), f[1], learnt, k)
         /\ \E g : Pushes(g, s.recent, FeedSamples(s, Samples(k), t).recent, k)
<1>1. /\ Len(Samples(k)) = Asdus
      /\ \A i \in 1 .. Asdus : Samples(k)[i].smp = First(k) + i - 1
  BY SamplesFacts
<1>2. /\ f \in [0 .. Asdus -> SvStreamState]
      /\ \A n \in 1 .. Asdus : f[n] = FeedSample(f[n-1], First(k) + n - 1, t)
      /\ FeedSamples(s, Samples(k), t) = f[Asdus]
      /\ f[0] = s
  BY <1>1 DEF FeedSteps
<1>3. /\ Asdus \in Nat /\ Asdus > 0 /\ Rate \in Nat /\ First(k) \in Nat
      /\ First(k) + Asdus <= Rate /\ 1 < Rate \div 2 /\ Asdus - 1 \in Nat
  BY HalfFacts, FirstFacts
<1> DEFINE Good(n) == /\ f[n+1].known /\ ~f[n+1].timedOut /\ f[n+1].rate = f[1].rate
                      /\ SampleAt(f[n+1], learnt, First(k) + n)
                      /\ f[n+1].missed = f[1].missed /\ f[n+1].events \subseteq f[1].events
                      /\ f[n+1].recent = Pushed(f[n].recent, First(k) + n)
           T == {n \in 0 .. Asdus - 1 : Good(n)}
<1>4. 0 \in T
  BY <1>2, <1>3
<1>5. \A n \in 0 .. (Asdus - 1) - 1 : n \in T => n + 1 \in T
  <2> SUFFICES ASSUME NEW n \in 0 .. (Asdus - 1) - 1, Good(n) PROVE Good(n + 1)
    BY <1>3
  <2>1. /\ n + 2 \in 1 .. Asdus /\ (n + 2) - 1 = n + 1 /\ (n + 1) + 1 = n + 2
        /\ n + 1 \in 0 .. Asdus /\ First(k) + (n + 2) - 1 = First(k) + (n + 1)
    BY <1>3
  <2> DEFINE p == First(k) + n
             g == f[n+1]
  <2>2. p \in 0 .. Rate - 1 /\ Wrapped(p, 1) = First(k) + (n + 1) /\ ~(p + 1 >= Rate)
    BY <1>3 DEF Wrapped
  <2> HIDE DEF p
  <2>3. /\ g \in SvStreamState /\ g.known /\ ~g.timedOut /\ g.rate \in {0, Rate}
        /\ SampleAt(g, learnt, p)
    BY <1>2, <2>1 DEF p
  <2>4. Advanced(FeedSample(g, Wrapped(p, 1), t), g, Wrapped(p, 1), 1,
                 learnt \/ p + 1 >= Rate, t)
    BY <1>3, <2>2, <2>3, Advance
  <2>5. f[(n+1)+1] = FeedSample(g, Wrapped(p, 1), t)
    BY <1>2, <2>1, <2>2
  <2>6. (learnt \/ p + 1 >= Rate) <=> learnt
    BY <2>2
  <2> DEFINE r == f[(n+1)+1]
             learnt1 == learnt \/ p + 1 >= Rate
  <2>7. Advanced(r, g, First(k) + (n + 1), 1, learnt1, t)
    BY <2>2, <2>4, <2>5
  <2>8. SampleAt(r, learnt, First(k) + (n + 1))
    BY <2>6, <2>7 DEF Advanced, SampleAt
  <2>9. g.missed \in Nat
    BY <2>3, StreamFields
  <2> HIDE DEF r, g, learnt1
  <2>10. /\ r.known /\ ~r.timedOut /\ r.rate = g.rate /\ r.missed = g.missed
         /\ r.events \subseteq g.events
         /\ r.recent = Pushed(g.recent, First(k) + (n + 1))
    BY <2>3, <2>7, <2>9 DEF Advanced
  <2> QED
    BY <2>8, <2>10 DEF r, g
<1>6. \A n \in 0 .. Asdus - 1 : n \in T
  <2> HIDE DEF T
  <2> QED
    BY <1>3, <1>4, <1>5, UpTo
<1>7. Good(Asdus - 1) /\ (Asdus - 1) + 1 = Asdus /\ First(k) + (Asdus - 1) = First(k) + Asdus - 1
  BY <1>3, <1>6
<1>8. FrameTaken(FeedSamples(s, Samples(k), t), f[1], learnt, k)
  BY <1>2, <1>7 DEF FrameTaken
<1> DEFINE g == [i \in 0 .. Asdus |-> f[i].recent]
<1>9. Pushes(g, s.recent, FeedSamples(s, Samples(k), t).recent, k)
  <2>1. g[0] = s.recent /\ g[Asdus] = FeedSamples(s, Samples(k), t).recent
    BY <1>2, <1>3
  <2>2. ASSUME NEW i \in 1 .. Asdus PROVE g[i] = Pushed(g[i-1], First(k) + i - 1)
    <3>1. /\ i - 1 \in 0 .. Asdus - 1 /\ (i - 1) + 1 = i /\ i \in 0 .. Asdus
          /\ i - 1 \in 0 .. Asdus /\ First(k) + (i - 1) = First(k) + i - 1
      BY <1>3
    <3>2. f[(i-1)+1].recent = Pushed(f[i-1].recent, First(k) + (i-1))
      BY <1>6, <3>1
    <3> QED
      BY <3>1, <3>2
  <2> HIDE DEF g
  <2> QED
    BY <2>1, <2>2 DEF Pushes
<1> QED
  BY <1>8, <1>9

(***************************************************************************)
(* A frame received after another, d samples after its last, and the first *)
(* frame of a stream.                                                      *)
(***************************************************************************)
LEMMA NextFrame ==
  ASSUME NEW s \in SvStreamState, s.known, s.rate \in {0, Rate},
         NEW p \in 0 .. Rate - 1, NEW learnt \in BOOLEAN, SampleAt(s, learnt, p),
         NEW d \in Nat, 0 < d, d < Rate \div 2, s.rate = 0 /\ ~learnt => d = 1,
         NEW k \in Nat, First(k) = Wrapped(p, d), NEW t \in Nat
  PROVE  LET r == FeedSamples(s, Samples(k), t)
         IN  /\ SampleAt(r, learnt \/ p + d >= Rate, First(k) + Asdus - 1)
             /\ r.missed = s.missed + (d - 1)
             /\ r.events \subseteq s.events \cup (IF s.timedOut THEN {"resumed"} ELSE {})
                                            \cup (IF d > 1 THEN {"gap"} ELSE {})
             /\ \E g : Pushes(g, s.recent, r.recent, k)
<1> DEFINE learnt1 == learnt \/ p + d >= Rate
<1>1. Samples(k) \in Seq(Sample) /\ Len(Samples(k)) = Asdus
      /\ \A i \in 1 .. Asdus : Samples(k)[i].smp = First(k) + i - 1
  BY SamplesFacts
<1>2. PICK f : FeedSteps(f, s, Samples(k), t)
  BY <1>1, FeedRecursion
<1>3. 1 \in 1 .. Asdus /\ First(k) \in Nat /\ First(k) + 1 - 1 = First(k)
  BY RateFacts, FirstFacts
<1>4. f[1] = FeedSample(s, Wrapped(p, d), t)
  BY <1>1, <1>2, <1>3 DEF FeedSteps
<1>5. Advanced(f[1], s, First(k), d, learnt1, t)
  BY <1>4, Advance
<1>6. learnt1 \in BOOLEAN
  OBVIOUS
<1> HIDE DEF learnt1
<1>7. /\ FrameTaken(FeedSamples(s, Samples(k), t), f[1], learnt1, k)
      /\ \E g : Pushes(g, s.recent, FeedSamples(s, Samples(k), t).recent, k)
  <2>1. f[1].known /\ ~f[1].timedOut /\ f[1].rate \in {0, Rate}
        /\ SampleAt(f[1], learnt1, First(k)) /\ f[1].recent = Pushed(s.recent, First(k))
    BY <1>5 DEF Advanced
  <2> QED
    BY <1>2, <1>6, <2>1, RestOfFrame
<1> QED
  BY <1>5, <1>7 DEF Advanced, FrameTaken, learnt1

LEMMA FirstFrame ==
  ASSUME NEW s \in SvStreamState, ~s.known, s.rate \in {0, Rate}, ~s.wrapped,
         s.maxSeen = 0, NEW k \in Nat, NEW t \in Nat
  PROVE  LET r == FeedSamples(s, Samples(k), t)
         IN  /\ SampleAt(r, FALSE, First(k) + Asdus - 1)
             /\ r.missed = s.missed /\ r.events \subseteq s.events \cup {"new"}
             /\ \E g : Pushes(g, s.recent, r.recent, k)
<1>1. Samples(k) \in Seq(Sample) /\ Len(Samples(k)) = Asdus
      /\ \A i \in 1 .. Asdus : Samples(k)[i].smp = First(k) + i - 1
  BY SamplesFacts
<1>2. PICK f : FeedSteps(f, s, Samples(k), t)
  BY <1>1, FeedRecursion
<1>3. 1 \in 1 .. Asdus /\ First(k) \in Nat /\ First(k) + 1 - 1 = First(k)
  BY RateFacts, FirstFacts
<1>4. f[1] = FeedSample(s, First(k), t)
  BY <1>1, <1>2, <1>3 DEF FeedSteps
<1>5. NewStream(f[1], s, First(k), t)
  BY <1>3, <1>4, NewFacts
<1>6. SampleAt(f[1], FALSE, First(k))
  BY <1>3, <1>5 DEF NewStream, SampleAt
<1>7. /\ FrameTaken(FeedSamples(s, Samples(k), t), f[1], FALSE, k)
      /\ \E g : Pushes(g, s.recent, FeedSamples(s, Samples(k), t).recent, k)
  <2>1. /\ f[1].known /\ ~f[1].timedOut /\ f[1].rate \in {0, Rate}
        /\ f[1].recent = Pushed(s.recent, First(k))
    BY <1>5 DEF NewStream
  <2> QED
    BY <1>2, <1>6, <2>1, RestOfFrame
<1> QED
  BY <1>5, <1>7 DEF NewStream, FrameTaken

(***************************************************************************)
(* What a division leaves is what is left of it.                           *)
(***************************************************************************)
LEMMA NoMultiple ==
  ASSUME NEW B \in Nat, NEW p \in Int, NEW q \in Int, NEW x \in Int, NEW y \in Int,
         0 <= x, 0 <= y, y < B, B * p + x = B * q + y
  PROVE  p <= q
<1>1. SUFFICES ASSUME q < p PROVE FALSE
  OBVIOUS
<1> DEFINE c == p - q - 1
<1>2. c \in Nat /\ p = q + 1 + c
  BY <1>1
<1> HIDE DEF c
<1>3. B * p = B * q + B + B * c
  BY <1>2
<1>4. B * c \in Nat /\ B * q \in Int
  BY <1>2
<1> QED
  BY <1>3, <1>4

LEMMA Division ==
  ASSUME NEW B \in Nat, B > 0, NEW q \in Int, NEW y \in Nat, y < B, NEW n \in Int,
         n = B * q + y
  PROVE  n % B = y /\ n \div B = q
<1> DEFINE x == n % B
           p == n \div B
<1>1. /\ x \in Nat /\ x < B /\ p \in Int /\ n = B * p + x
  OBVIOUS
<1> HIDE DEF x, p
<1>2. p <= q /\ q <= p
  BY <1>1, NoMultiple
<1>3. p = q
  BY <1>1, <1>2
<1>4. B * p = B * q /\ B * q \in Int
  BY <1>3
<1>5. x = y
  BY <1>1, <1>4
<1> QED
  BY <1>3, <1>5 DEF x, p

LEMMA Remainders ==
  ASSUME NEW B \in Nat, B > 0, NEW n \in Int
  PROVE  /\ n % B \in 0 .. B - 1 /\ n \div B \in Int
         /\ (n % B) + 1 < B => (n + 1) % B = (n % B) + 1 /\ (n + 1) \div B = n \div B
         /\ (n % B) + 1 >= B => (n + 1) % B = 0 /\ (n + 1) \div B = n \div B + 1
<1> DEFINE x == n % B
           p == n \div B
<1>1. /\ x \in Nat /\ x < B /\ p \in Int /\ n = B * p + x
  OBVIOUS
<1> HIDE DEF x, p
<1>2. n + 1 \in Int /\ x + 1 \in Nat /\ p + 1 \in Int /\ 0 \in Nat
  BY <1>1
<1>3. CASE x + 1 < B
  <2>1. n + 1 = B * p + (x + 1)
    BY <1>1
  <2> HIDE <1>1
  <2>2. (n + 1) % B = x + 1 /\ (n + 1) \div B = p
    BY <1>1, <1>2, <1>3, <2>1, Division
  <2> QED
    BY <1>1, <1>3, <2>2 DEF x, p
<1>4. CASE x + 1 >= B
  <2>1. x + 1 = B /\ B * (p + 1) = B * p + B
    BY <1>1, <1>4
  <2>2. n + 1 = B * (p + 1) + 0
    BY <1>1, <2>1
  <2>3. (n + 1) % B = 0 /\ (n + 1) \div B = p + 1
    BY <1>2, <2>2, Division
  <2> QED
    BY <1>1, <1>4, <2>3 DEF x, p
<1> QED
  BY <1>1, <1>3, <1>4

(***************************************************************************)
(* The counts of the next frame, and of the one after it.                  *)
(***************************************************************************)
LEMMA FirstOfNext ==
  ASSUME NEW j \in Nat
  PROVE  /\ First(j + 1) = IF First(j) + Asdus < Rate THEN First(j) + Asdus ELSE 0
         /\ First(j) + Asdus <= Rate /\ First(j) \in Nat
         /\ j < PerSecond => (First(j) + Asdus >= Rate <=> j + 1 >= PerSecond)
<1>1. /\ PerSecond \in Nat /\ PerSecond > 0 /\ Asdus \in Nat /\ Asdus > 0
      /\ Rate = PerSecond * Asdus /\ Rate \in Nat
  BY RateFacts
<1> DEFINE x == j % PerSecond
           y == (j + 1) % PerSecond
<1>2. x \in 0 .. PerSecond - 1 /\ y = IF x + 1 < PerSecond THEN x + 1 ELSE 0
  <2>1. /\ j % PerSecond \in 0 .. PerSecond - 1
        /\ (j % PerSecond) + 1 < PerSecond => (j + 1) % PerSecond = (j % PerSecond) + 1
        /\ (j % PerSecond) + 1 >= PerSecond => (j + 1) % PerSecond = 0
    <3> HIDE DEF PerSecond
    <3> QED
      BY <1>1, Remainders
  <2>2. j % PerSecond \in Int /\ (j + 1) % PerSecond \in Int
    BY <1>1
  <2> HIDE DEF PerSecond
  <2> QED
    BY <1>1, <2>1, <2>2
<1>3. j < PerSecond => x = j
  BY <1>1
<1>4. First(j) = x * Asdus /\ First(j + 1) = y * Asdus
  BY DEF First
<1>5. First(j) + Asdus <= Rate /\ First(j) \in Nat
  BY FirstFacts
<1> HIDE DEF x, y
<1>6. CASE x + 1 < PerSecond
  <2>1. (x + 1) * Asdus = x * Asdus + Asdus /\ (x + 1) * Asdus < PerSecond * Asdus
    <3>1. /\ (x + 1) * Asdus = x * Asdus + Asdus
          /\ (x + 2) * Asdus = x * Asdus + Asdus + Asdus
      BY <1>1, <1>2
    <3>2. (x + 2) * Asdus <= PerSecond * Asdus
      BY <1>1, <1>2, <1>6
    <3>3. x * Asdus \in Nat
      BY <1>1, <1>2
    <3> QED
      BY <1>1, <3>1, <3>2, <3>3
  <2>2. y = x + 1
    BY <1>2, <1>6
  <2>3. First(j) + Asdus < Rate /\ First(j + 1) = First(j) + Asdus
    BY <1>1, <1>4, <2>1, <2>2
  <2> QED
    BY <1>1, <1>3, <1>5, <1>6, <2>3
<1>7. CASE ~(x + 1 < PerSecond)
  <2>1. x + 1 = PerSecond /\ y = 0
    BY <1>1, <1>2, <1>7
  <2>2. (x + 1) * Asdus = x * Asdus + Asdus /\ 0 * Asdus = 0
    BY <1>1, <1>2
  <2>3. First(j) + Asdus = Rate /\ First(j + 1) = 0
    BY <1>1, <1>4, <2>1, <2>2
  <2> QED
    BY <1>1, <1>3, <1>5, <2>1, <2>3
<1> QED
  BY <1>6, <1>7

LEMMA NextCounts ==
  ASSUME NEW j \in Nat
  PROVE  /\ First(j) + Asdus - 1 \in 0 .. Rate - 1
         /\ First(j + 1) = Wrapped(First(j) + Asdus - 1, 1)
         /\ First(j + 2) = Wrapped(First(j) + Asdus - 1, Asdus + 1)
<1>1. Rate \in Nat /\ Asdus \in Nat /\ Asdus > 0 /\ Asdus < Rate
  <2>1. Rate \div 2 <= Rate /\ Rate \div 2 \in Int
    BY RateFacts
  <2> QED
    BY <2>1, HalfFacts
<1>2. /\ First(j + 1) = IF First(j) + Asdus < Rate THEN First(j) + Asdus ELSE 0
      /\ First(j) + Asdus <= Rate /\ First(j) \in Nat
  BY FirstOfNext
<1>3. (j + 1) + 1 = j + 2 /\ j + 1 \in Nat
  OBVIOUS
<1>4. /\ First(j + 2) = IF First(j + 1) + Asdus < Rate THEN First(j + 1) + Asdus ELSE 0
      /\ First(j + 1) + Asdus <= Rate /\ First(j + 1) \in Nat
  BY <1>3, FirstOfNext
<1>5. Wrapped(First(j) + Asdus - 1, 1) =
         IF First(j) + Asdus < Rate THEN First(j) + Asdus ELSE First(j) + Asdus - Rate
  BY <1>1, <1>2 DEF Wrapped
<1>6. Wrapped(First(j) + Asdus - 1, Asdus + 1) =
         IF First(j) + Asdus + Asdus < Rate THEN First(j) + Asdus + Asdus
         ELSE First(j) + Asdus + Asdus - Rate
  BY <1>1, <1>2 DEF Wrapped
<1>7. First(j) + Asdus - 1 \in 0 .. Rate - 1
  BY <1>1, <1>2
<1> HIDE DEF First
<1> QED
  BY <1>1, <1>2, <1>4, <1>5, <1>6, <1>7

(***************************************************************************)
(* The counts of a frame after a gap of L frames.                          *)
(***************************************************************************)
LEMMA LaterCounts ==
  ASSUME NEW j \in Nat, NEW L \in Nat, L * Asdus + 1 < Rate
  PROVE  /\ First(j + 1 + L) = Wrapped(First(j) + Asdus - 1, L * Asdus + 1)
         /\ j < PerSecond => (First(j) + Asdus + L * Asdus >= Rate <=> j + 1 + L >= PerSecond)
<1>1. /\ PerSecond \in Nat /\ PerSecond > 0 /\ Asdus \in Nat /\ Asdus > 0
      /\ Rate = PerSecond * Asdus /\ Rate \in Nat /\ L * Asdus \in Nat
  BY RateFacts
<1> DEFINE x == j % PerSecond
           q == j \div PerSecond
<1>2. /\ x \in 0 .. PerSecond - 1 /\ q \in Nat /\ j = PerSecond * q + x
      /\ First(j) = x * Asdus /\ First(j) \in Nat
  BY FirstFacts DEF First
<1>3. j < PerSecond => x = j
  BY <1>1
<1> HIDE DEF x, q, PerSecond
<1>4. L < PerSecond
  <2>1. ASSUME L >= PerSecond PROVE FALSE
    <3>1. L * Asdus >= PerSecond * Asdus
      BY <1>1, <2>1
    <3> QED
      BY <1>1, <3>1
  <2> QED
    BY <1>1, <2>1
<1>5. /\ (x + 1 + L) * Asdus = x * Asdus + Asdus + L * Asdus
      /\ (x + 1 + L - PerSecond) * Asdus = (x + 1 + L) * Asdus - PerSecond * Asdus
  BY <1>1, <1>2
<1>6. x + 1 + L < PerSecond <=> (x + 1 + L) * Asdus < PerSecond * Asdus
  <2>1. x + 1 + L \in Nat
    BY <1>2
  <2> DEFINE y == x + 1 + L
  <2> HIDE DEF y
  <2>2. y < PerSecond => y * Asdus < PerSecond * Asdus
    BY <1>1, <2>1 DEF y
  <2>3. y >= PerSecond => y * Asdus >= PerSecond * Asdus
    BY <1>1, <2>1 DEF y
  <2> QED
    BY <1>1, <2>1, <2>2, <2>3 DEF y
<1>7. First(j + 1 + L) = (IF x + 1 + L < PerSecond THEN x + 1 + L
                          ELSE x + 1 + L - PerSecond) * Asdus
  <2>1. First(j + 1 + L) = ((j + 1 + L) % PerSecond) * Asdus
    BY DEF First, PerSecond
  <2>2. CASE x + 1 + L < PerSecond
    <3>1. j + 1 + L = PerSecond * q + (x + 1 + L) /\ x + 1 + L \in 0 .. PerSecond - 1
      BY <1>1, <1>2, <2>2
    <3>0. j + 1 + L \in Int /\ x + 1 + L \in Nat /\ x + 1 + L < PerSecond /\ q \in Int
      BY <1>1, <1>2, <2>2
    <3>2. (j + 1 + L) % PerSecond = x + 1 + L
      BY <1>1, <1>2, <3>0, <3>1, Division
    <3> QED
      BY <2>1, <2>2, <3>2
  <2>3. CASE ~(x + 1 + L < PerSecond)
    <3>1. x + 1 + L - PerSecond \in 0 .. PerSecond - 1
      BY <1>1, <1>2, <1>4, <2>3
    <3>2. PerSecond * (q + 1) = PerSecond * q + PerSecond /\ q + 1 \in Nat
          /\ PerSecond * q \in Nat
      BY <1>1, <1>2
    <3>3. j + 1 + L = PerSecond * (q + 1) + (x + 1 + L - PerSecond)
      BY <1>1, <1>2, <3>2
    <3>0. /\ j + 1 + L \in Int /\ x + 1 + L - PerSecond \in Nat /\ q + 1 \in Int
          /\ x + 1 + L - PerSecond < PerSecond
      BY <1>1, <1>2, <3>1
    <3>4. (j + 1 + L) % PerSecond = x + 1 + L - PerSecond
      <4> DEFINE p == q + 1
                 y == x + 1 + L - PerSecond
      <4>1. /\ p \in Int /\ y \in Nat /\ y < PerSecond /\ j + 1 + L \in Int
            /\ j + 1 + L = PerSecond * p + y
        BY <3>0, <3>3
      <4> HIDE DEF p, y
      <4>2. (j + 1 + L) % PerSecond = y
        BY <1>1, <4>1, Division
      <4> QED
        BY <4>2 DEF y
    <3> QED
      BY <2>1, <2>3, <3>4
  <2> QED
    BY <2>2, <2>3
<1>8. j < PerSecond => (First(j) + Asdus + L * Asdus >= Rate <=> j + 1 + L >= PerSecond)
  <2> DEFINE z == L * Asdus
             w == (x + 1 + L) * Asdus
  <2>1. w = First(j) + Asdus + z /\ w \in Nat /\ z \in Nat
    BY <1>1, <1>2, <1>5
  <2>2. x + 1 + L < PerSecond <=> w < Rate
    BY <1>1, <1>6
  <2> HIDE DEF z, w
  <2>3. j < PerSecond => (First(j) + Asdus + z >= Rate <=> j + 1 + L >= PerSecond)
    BY <1>1, <1>2, <1>3, <2>1, <2>2
  <2> QED
    BY <2>3 DEF z
<1>9. First(j + 1 + L) = Wrapped(First(j) + Asdus - 1, L * Asdus + 1)
  <2> DEFINE z == L * Asdus
             w == (x + 1 + L) * Asdus
             v == (x + 1 + L - PerSecond) * Asdus
  <2>1. w = First(j) + Asdus + z /\ w \in Nat /\ z \in Nat /\ v = w - Rate
    BY <1>1, <1>2, <1>5
  <2>2. x + 1 + L < PerSecond <=> w < Rate
    BY <1>1, <1>6
  <2>3. First(j + 1 + L) = IF x + 1 + L < PerSecond THEN w ELSE v
    BY <1>7
  <2> HIDE DEF z, w, v
  <2>4. First(j + 1 + L) = Wrapped(First(j) + Asdus - 1, z + 1)
    BY <1>1, <1>2, <2>1, <2>2, <2>3 DEF Wrapped
  <2> QED
    BY <2>4 DEF z
<1> QED
  BY <1>8, <1>9

----------------------------------------------------------------------------
(* What is counted and said of a stream in order                           *)

Counted == repeated = {} /\ overtaken = {} /\ RateLearnt /\ ShortGaps

\* The stream is at the last sample of the latest frame received.
AtLatest ==
    \E j \in fed : Latest(j) /\ SampleAt(sv, j >= PerSecond, First(j) + Asdus - 1)

CountedRight == Counted =>
    /\ fed # {} => AtLatest
    /\ sv.missed = Asdus * Cardinality(LostBetween)

Fresh == fed = {} =>
    /\ ~sv.wrapped /\ sv.maxSeen = 0 /\ sv.missed = 0 /\ ~sv.timedOut /\ sv.events = {}

LEMMA FreshStep ==
  ASSUME BaseInv, Steps, Fresh
  PROVE  Fresh'
<1>1. CASE fed' = fed /\ sv' = sv
  BY <1>1 DEF Fresh
<1>2. CASE Taken
  <2>1. fed' # {}
    BY <1>2 DEF Taken
  <2> QED
    BY <2>1 DEF Fresh
<1>3. CASE Checked
  <2>1. fed' = fed /\ sv' = SvCheck(sv, now)
    BY <1>3 DEF Checked
  <2>2. sv \in SvStreamState /\ now \in Nat /\ (fed = {} => ~sv.known)
    BY DEF BaseInv, ReaderOK
  <2>3. fed = {} => /\ sv'.wrapped = sv.wrapped /\ sv'.maxSeen = sv.maxSeen
                    /\ sv'.missed = sv.missed /\ sv'.timedOut = sv.timedOut
                    /\ sv'.events = sv.events
    BY <2>1, <2>2, CheckFacts
  <2> QED
    BY <2>1, <2>3 DEF Fresh
<1> QED
  BY <1>1, <1>2, <1>3 DEF Steps, Idle, Sent, Dropped, Arrived, Ticked

(***************************************************************************)
(* What is lost is not among those received, or on their way.              *)
(***************************************************************************)
Apart == repeated = {} /\ overtaken = {} =>
    \A n \in lost : /\ n \notin fed
                    /\ \A i \in 1 .. Len(Waiting) : Waiting[i].k # n
                    /\ \A i \in 1 .. Len(wire) : wire[i] # n

\* A step but Taken loses a frame that is after those received, if any.
LEMMA LostLater ==
  ASSUME BaseInv, Ordered, Steps
  PROVE  /\ lost \subseteq lost' /\ repeated \subseteq repeated'
         /\ overtaken \subseteq overtaken' /\ sv'.rate = sv.rate
         /\ \A n \in lost' \ lost : n \in Nat /\ \A a \in fed : a <= n
<1>1. /\ sv \in SvStreamState /\ now \in Nat /\ engine.k \in Nat
      /\ \A n \in 1 .. Len(wire) : wire[n] \in Nat
      /\ Len(wire) \in Nat
      /\ \A a \in fed : a \in Nat /\ a < engine.k
  BY Numbers DEF BaseInv, ReaderOK
<1>2. \A a \in fed, m \in 1 .. Len(wire) : a <= wire[m]
  BY DEF Ordered, Before
<1>3. CASE Idle \/ Ticked
  BY <1>3 DEF Idle, Ticked
<1>4. CASE Checked
  <2>1. sv'.rate = sv.rate
    BY <1>1, <1>4, CheckFacts DEF Checked
  <2> QED
    BY <1>4, <2>1 DEF Checked
<1>5. CASE Taken
  <2>1. Head(Waiting).k \in Nat /\ Head(Waiting).at \in Nat
    BY <1>5, TakenFacts DEF Taken, BaseInv
  <2>2. SvCheck(sv, Head(Waiting).at) \in SvStreamState
        /\ SvCheck(sv, Head(Waiting).at).rate = sv.rate
    BY <1>1, <2>1, CheckFacts
  <2>3. sv'.rate = sv.rate
    BY <1>5, <2>1, <2>2, FeedFacts DEF Taken
  <2> QED
    BY <1>5, <2>3 DEF Taken
<1>6. CASE Dropped
  <2>1. Head(wire) = wire[1] /\ 1 \in 1 .. Len(wire)
    <3>1. wire \in Seq(Nat) /\ wire # <<>>
      BY <1>6 DEF Dropped, BaseInv, WireOK
    <3> QED
      BY <3>1
  <2> QED
    BY <1>1, <1>2, <1>6, <2>1 DEF Dropped
<1>7. ASSUME NEW sent \in BOOLEAN, Sent(sent)
      PROVE  /\ lost \subseteq lost' /\ repeated \subseteq repeated'
             /\ overtaken \subseteq overtaken' /\ sv'.rate = sv.rate
             /\ \A n \in lost' \ lost : n \in Nat /\ \A a \in fed : a <= n
  BY <1>1, <1>7 DEF Sent
<1>8. ASSUME NEW i \in DOMAIN wire, NEW again \in BOOLEAN, NEW kept \in BOOLEAN,
             Arrived(i, again, kept)
      PROVE  /\ lost \subseteq lost' /\ repeated \subseteq repeated'
             /\ overtaken \subseteq overtaken' /\ sv'.rate = sv.rate
             /\ \A n \in lost' \ lost : n \in Nat /\ \A a \in fed : a <= n
  <2>1. i \in 1 .. Len(wire)
    BY LenProperties DEF BaseInv, WireOK
  <2> QED
    BY <1>1, <1>2, <1>8, <2>1 DEF Arrived
<1> QED
  BY <1>3, <1>4, <1>5, <1>6, <1>7, <1>8 DEF Steps

LEMMA ApartStep ==
  ASSUME BaseInv, BaseInv', Steps, InOrder, Apart
  PROVE  Apart'
<1>1. SUFFICES ASSUME repeated' = {}, overtaken' = {}
               PROVE  \A n \in lost' :
                         /\ n \notin fed'
                         /\ \A i \in 1 .. Len(Waiting') : Waiting'[i].k # n
                         /\ \A i \in 1 .. Len(wire') : wire'[i] # n
  BY DEF Apart
<1>2. repeated = {} /\ overtaken = {}
  BY <1>1 DEF Steps, Idle, Sent, Dropped, Arrived, Taken, Checked, Ticked
<1>3. Ordered /\ \A n \in lost :
         /\ n \notin fed
         /\ \A i \in 1 .. Len(Waiting) : Waiting[i].k # n
         /\ \A i \in 1 .. Len(wire) : wire[i] # n
  BY <1>2 DEF InOrder, Apart
<1>4. /\ \A n, m \in 1 .. Len(wire) : n < m => wire[n] < wire[m]
      /\ \A n \in 1 .. Len(Waiting), m \in 1 .. Len(wire) : Waiting[n].k < wire[m]
      /\ \A a \in fed, m \in 1 .. Len(wire) : a < wire[m]
  BY <1>2, <1>3 DEF Ordered, Before
<1>5. /\ engine.k \in Nat /\ Len(wire) \in Nat /\ Len(Waiting) \in Nat
      /\ wire \in Seq(Nat) /\ Waiting \in Seq(Others)
      /\ \A n \in 1 .. Len(wire) : wire[n] \in Nat /\ wire[n] < engine.k
      /\ \A n \in 1 .. Len(Waiting) :
            Waiting[n].k \in Nat /\ Waiting[n].k < engine.k
      /\ \A a \in fed : a \in Nat /\ a < engine.k
      /\ \A a \in lost : a \in Nat /\ a < engine.k
  <2>1. lost \subseteq 0 .. engine.k - 1 /\ engine.k \in Nat
    BY Numbers DEF BaseInv, HistoryOK
  <2> QED
    BY <2>1, Numbers
<1>6. CASE Idle \/ Ticked \/ Checked
  BY <1>3, <1>6 DEF Idle, Ticked, Checked
<1>7. CASE Taken
  <2>1. 1 \in 1 .. Len(Waiting) /\ Head(Waiting) = Waiting[1]
    BY <1>7, TakenFacts DEF Taken, BaseInv
  <2>2. /\ Len(Waiting') = Len(Waiting) - 1
        /\ \A i \in 1 .. Len(Waiting) - 1 : Waiting'[i] = Waiting[i+1]
    BY <1>5, <1>7 DEF Taken
  <2>3. lost' = lost /\ wire' = wire /\ fed' = fed \cup {Waiting[1].k}
    BY <1>7, <2>1 DEF Taken
  <2>4. \A i \in 1 .. Len(Waiting') : i + 1 \in 1 .. Len(Waiting) /\ Waiting'[i] = Waiting[i+1]
    BY <1>5, <2>2
  <2> QED
    BY <1>3, <2>1, <2>3, <2>4
<1>8. CASE Dropped
  <2>1. /\ Head(wire) = wire[1] /\ 1 \in 1 .. Len(wire)
        /\ Len(wire') = Len(wire) - 1
        /\ \A i \in 1 .. Len(wire) - 1 : wire'[i] = wire[i+1]
    BY <1>5, <1>8 DEF Dropped
  <2>2. lost' = lost \cup {wire[1]} /\ Waiting' = Waiting /\ fed' = fed
    BY <1>8, <2>1 DEF Dropped
  <2>3. \A i \in 1 .. Len(wire') : /\ i + 1 \in 1 .. Len(wire) /\ wire'[i] = wire[i+1]
                                   /\ 1 < i + 1
    BY <1>5, <2>1
  <2>4. \A i \in 1 .. Len(wire') : wire[1] < wire'[i] /\ wire'[i] \in Nat
    BY <1>4, <1>5, <2>1, <2>3
  <2>5. wire[1] \in Nat
    BY <1>5, <2>1
  <2> QED
    BY <1>3, <1>4, <1>5, <2>1, <2>2, <2>3, <2>4, <2>5
<1>9. ASSUME NEW sent \in BOOLEAN, Sent(sent)
      PROVE  \A n \in lost' :
                         /\ n \notin fed'
                         /\ \A i \in 1 .. Len(Waiting') : Waiting'[i].k # n
                         /\ \A i \in 1 .. Len(wire') : wire'[i] # n
  <2>1. Waiting' = Waiting /\ fed' = fed
    BY <1>9 DEF Sent
  <2>2. CASE sent
    <3>1. lost' = lost /\ wire' = Append(wire, engine.k)
      BY <1>9, <2>2 DEF Sent
    <3>2. \A i \in 1 .. Len(wire') : \/ i \in 1 .. Len(wire) /\ wire'[i] = wire[i]
                                     \/ wire'[i] = engine.k
      BY <1>5, <3>1
    <3> QED
      BY <1>3, <1>5, <2>1, <3>1, <3>2
  <2>3. CASE ~sent
    <3>1. lost' = lost \cup {engine.k} /\ wire' = wire
      BY <1>9, <2>3 DEF Sent
    <3> QED
      BY <1>3, <1>5, <2>1, <3>1
  <2> QED
    BY <2>2, <2>3
<1>10. ASSUME NEW i \in DOMAIN wire, NEW again \in BOOLEAN, NEW kept \in BOOLEAN,
              Arrived(i, again, kept)
       PROVE  \A n \in lost' :
                         /\ n \notin fed'
                         /\ \A m \in 1 .. Len(Waiting') : Waiting'[m].k # n
                         /\ \A m \in 1 .. Len(wire') : wire'[m] # n
  <2>1. ~again /\ i = 1 /\ 1 \in 1 .. Len(wire)
    <3>1. repeated' = repeated \cup {x \in {wire[i]} : again}
          /\ overtaken' = overtaken \cup {x \in {wire[1]} : i > 1}
      BY <1>10 DEF Arrived
    <3>2. i \in 1 .. Len(wire)
      BY <1>5, LenProperties
    <3>3. ~again
      BY <1>1, <3>1
    <3>4. ~(i > 1)
      BY <1>1, <3>1
    <3> QED
      BY <1>5, <3>2, <3>3, <3>4
  <2>2. wire' = Without(wire, 1) /\ fed' = fed
    BY <1>10, <2>1 DEF Arrived
  <2>3. /\ Len(wire') = Len(wire) - 1
        /\ \A m \in 1 .. Len(wire) - 1 : wire'[m] = IF m < 1 THEN wire[m] ELSE wire[m+1]
    <3>1. 1 \in DOMAIN wire
      BY <1>5, <2>1, LenProperties
    <3>2. /\ Len(Without(wire, 1)) = Len(wire) - 1
          /\ \A m \in 1 .. Len(wire) - 1 :
                Without(wire, 1)[m] = IF m < 1 THEN wire[m] ELSE wire[m+1]
      <4> HIDE DEF Without
      <4> QED
        BY <1>5, <3>1, WithoutFacts
    <3> QED
      BY <2>2, <3>2, Zenon
  <2>4. \A m \in 1 .. Len(wire') : /\ m + 1 \in 1 .. Len(wire) /\ wire'[m] = wire[m+1]
                                   /\ 1 < m + 1
    <3> SUFFICES ASSUME NEW m \in 1 .. Len(wire')
                 PROVE  m + 1 \in 1 .. Len(wire) /\ wire'[m] = wire[m+1] /\ 1 < m + 1
      OBVIOUS
    <3>1. m \in 1 .. Len(wire) - 1 /\ m + 1 \in 1 .. Len(wire) /\ ~(m < 1) /\ 1 < m + 1
      BY <1>5, <2>3
    <3> QED
      BY <2>3, <3>1
  <2>5. \A m \in 1 .. Len(wire') : wire[1] < wire'[m] /\ wire'[m] \in Nat
    BY <1>4, <1>5, <2>1, <2>4
  <2>6. wire[1] \in Nat
    BY <1>5, <2>1
  <2>7. CASE kept
    <3>1. lost' = lost /\ Waiting' = Append(Waiting, Frame(1))
      BY <1>10, <2>1, <2>7 DEF Arrived, Frame
    <3>2. Frame(1).k = wire[1] /\ Frame(1) \in Others
      BY <1>10, <2>1, FrameFacts, <1>5 DEF BaseInv
    <3>3. \A m \in 1 .. Len(Waiting') : \/ m \in 1 .. Len(Waiting) /\ Waiting'[m] = Waiting[m]
                                        \/ Waiting'[m] = Frame(1)
      BY <1>5, <3>1, <3>2
    <3> QED
      BY SMTT(20), <1>3, <2>1, <2>2, <2>4, <3>1, <3>2, <3>3
  <2>8. CASE ~kept
    <3>1. lost' = lost \cup {wire[1]} /\ Waiting' = Waiting
      BY <1>10, <2>1, <2>8 DEF Arrived
    <3>2. /\ \A m \in 1 .. Len(Waiting) : Waiting[m].k # wire[1]
          /\ \A m \in 1 .. Len(wire') : wire'[m] # wire[1]
          /\ wire[1] \notin fed
      BY <1>4, <1>5, <2>1, <2>5, <2>6
    <3>3. \A n \in lost : \A m \in 1 .. Len(wire') : wire'[m] # n
      BY <1>3, <2>4
    <3> QED
      BY <1>3, <2>2, <3>1, <3>2, <3>3
  <2> QED
    BY <2>7, <2>8
<1> QED
  BY <1>6, <1>7, <1>8, <1>9, <1>10 DEF Steps

(***************************************************************************)
(* A frame received, after those received before it and what was lost      *)
(* between them: the first of a stream, the next, or one after a gap.      *)
(***************************************************************************)
LEMMA CountedTaken ==
  ASSUME BaseInv, Ordered, Covered, Fresh, Apart, CountedRight, Counted, Taken
  PROVE  AtLatest' /\ sv'.missed = Asdus * Cardinality(LostBetween')
<1> DEFINE r == Head(Waiting).k
           t == Head(Waiting).at
           s == SvCheck(sv, t)
           u == FeedSamples(s, Samples(r), t)
<1>1. /\ repeated = {} /\ overtaken = {} /\ RateLearnt /\ ShortGaps
      /\ \A n \in lost : n \notin fed
  BY DEF Counted, Apart
<1>2. /\ r \in Nat /\ t \in Nat /\ r < engine.k /\ Waiting # <<>>
      /\ \A a \in fed : a < r
      /\ \A n \in Nat : n < r /\ (\A a \in fed : a < n) => n \in lost
  <2>1. Waiting # <<>>
    BY DEF Taken
  <2>2. t \in Nat
    BY <2>1, TakenFacts DEF BaseInv
  <2> QED
    BY <1>1, <2>1, <2>2, NextReceived
<1>3. /\ sv' = u /\ fed' = fed \cup {r} /\ lost' = lost /\ engine'.k = engine.k
  BY DEF Taken
<1>4. /\ sv \in SvStreamState /\ (sv.known <=> fed # {}) /\ sv.rate \in {0, Rate}
      /\ engine.k \in Nat /\ lost \subseteq 0 .. engine.k - 1
      /\ \A a \in fed : a \in Nat /\ a < engine.k
  BY Numbers DEF BaseInv, ReaderOK, HistoryOK
<1> HIDE DEF r, t
<1>5. /\ s \in SvStreamState /\ s.rate = sv.rate /\ s.known = sv.known /\ s.smp = sv.smp
      /\ s.maxSeen = sv.maxSeen /\ s.wrapped = sv.wrapped /\ s.missed = sv.missed
  BY <1>2, <1>4, CheckFacts
<1> HIDE DEF s
<1>6. u.rate = sv.rate
  BY <1>2, <1>5, FeedFacts
<1> HIDE DEF u
<1>7. r \in fed' /\ \A a \in fed' : a <= r
  BY <1>2, <1>3, <1>4
<1>8. SUFFICES /\ SampleAt(u, r >= PerSecond, First(r) + Asdus - 1)
               /\ u.missed = Asdus * Cardinality(LostBetween')
  <2>1. SUFFICES ASSUME SampleAt(sv', r >= PerSecond, First(r) + Asdus - 1)
                 PROVE  AtLatest'
    BY <1>3
  <2>2. AtLatest' <=> \E j \in fed' : /\ j \in fed' /\ \A a \in fed' : a <= j
                                     /\ SampleAt(sv', j >= PerSecond, First(j) + Asdus - 1)
    <3> HIDE DEF PerSecond, First
    <3> QED
      BY DEF AtLatest, Latest, SampleAt
  <2> HIDE DEF SampleAt
  <2> QED
    BY <1>7, <2>1, <2>2
<1>9. CASE fed = {}
  <2>1. u.missed = s.missed /\ SampleAt(u, FALSE, First(r) + Asdus - 1)
    BY <1>2, <1>4, <1>5, <1>9, FirstFrame DEF u, Fresh
  <2>2. sv.rate = 0 => ~(r >= PerSecond)
    <3>1. ASSUME sv.rate = 0, r # 0 PROVE FALSE
      <4>1. 0 \in lost
        BY <1>2, <1>9, <3>1
      <4>2. 0 > PerSecond
        BY <1>1, <3>1, <4>1 DEF RateLearnt
      <4> QED
        BY <4>2, RateFacts
    <3> QED
      BY <3>1, RateFacts
  <2>3. SampleAt(u, r >= PerSecond, First(r) + Asdus - 1)
    BY <1>6, <2>1, <2>2 DEF SampleAt
  <2>4. LostBetween' = {}
    <3>1. fed' = {r}
      BY <1>3, <1>9
    <3>2. \A n \in lost : ~(r < n /\ n < r)
      BY <1>2, <1>4
    <3>3. LostBetween' = {n \in lost : (\E a \in fed' : a < n) /\ (\E b \in fed' : n < b)}
      BY <1>3 DEF LostBetween
    <3> QED
      BY <3>1, <3>2, <3>3
  <2>5. u.missed = 0 /\ Asdus * 0 = 0
    BY <1>5, <1>9, <2>1, RateFacts DEF Fresh
  <2> QED
    BY <2>3, <2>4, <2>5, FS_EmptySet
<1>10. CASE fed # {}
  <2>1. PICK j \in fed : /\ Latest(j)
                         /\ SampleAt(sv, j >= PerSecond, First(j) + Asdus - 1)
    BY <1>10 DEF CountedRight, AtLatest
  <2>2. /\ j \in Nat /\ j < r /\ (\A a \in fed : a <= j) /\ j \notin lost
        /\ \A n \in Nat : n < r /\ j < n => n \in lost
    BY <1>1, <1>2, <1>4, <2>1 DEF Latest
  <2> DEFINE L == r - j - 1
             gap == j + 1 .. r - 1
  <2>3. /\ L \in Nat /\ r = j + 1 + L /\ L * Asdus \in Nat
        /\ 0 < L * Asdus + 1 /\ L * Asdus + 1 < Rate \div 2
    <3>1. L \in Nat /\ r = j + 1 + L /\ L * Asdus \in Nat
      BY <1>2, <2>2, RateFacts
    <3>2. CASE L = 0
      BY <3>1, <3>2, HalfFacts
    <3>3. CASE L > 0
      <4>1. j + 1 \in lost /\ r - 1 \in lost
        BY <1>2, <2>2, <3>1, <3>3
      <4>2. gap \subseteq lost
        BY <1>2, <2>2
      <4>3. ((r - 1) - (j + 1) + 1) * Asdus + 1 < Rate \div 2
        BY <1>1, <4>1, <4>2 DEF ShortGaps
      <4>4. (r - 1) - (j + 1) + 1 = L
        BY <1>2, <2>2
      <4> QED
        BY <3>1, <4>3, <4>4
    <3> HIDE DEF L, gap
    <3> QED
      BY <3>1, <3>2, <3>3
  <2>4. sv.missed = Asdus * Cardinality(LostBetween)
    BY <1>10 DEF CountedRight
  <2>5. IsFiniteSet(LostBetween)
    <3>1. LostBetween \subseteq 0 .. engine.k - 1
      BY <1>4 DEF LostBetween
    <3>2. IsFiniteSet(0 .. engine.k - 1)
      BY <1>4, FS_Interval
    <3> QED
      BY <3>1, <3>2, FS_Subset
  <2>6. Cardinality(LostBetween) \in Nat
    BY <2>5, FS_CardinalityType
  <2> DEFINE p == First(j) + Asdus - 1
             learnt == j >= PerSecond
  <2>7. s.known /\ s.rate \in {0, Rate} /\ SampleAt(s, learnt, p) /\ learnt \in BOOLEAN
    <3>1. learnt \in BOOLEAN
      BY <2>2, RateFacts
    <3> QED
      BY <1>4, <1>5, <1>10, <2>1, <3>1 DEF SampleAt
  <2>8. /\ p \in 0 .. Rate - 1 /\ First(j) + Asdus - 1 = p
        /\ First(r) = Wrapped(p, L * Asdus + 1)
    <3>1. Rate \div 2 <= Rate /\ Rate \div 2 \in Int /\ Rate \in Nat
      BY RateFacts
    <3>2. L * Asdus + 1 < Rate
      BY <2>3, <3>1
    <3> QED
      BY <2>2, <2>3, <3>2, NextCounts, LaterCounts
  <2>9. s.rate = 0 => (learnt \/ p + (L * Asdus + 1) >= Rate <=> r >= PerSecond)
    <3>1. CASE L = 0
      <4>1. j < PerSecond => (First(j) + Asdus >= Rate <=> j + 1 >= PerSecond)
        BY <2>2, FirstOfNext
      <4>2. First(j) \in Nat /\ Asdus \in Nat /\ PerSecond \in Nat /\ Rate \in Nat
            /\ p + (L * Asdus + 1) = First(j) + Asdus /\ r = j + 1
        <5>1. First(j) \in Nat /\ Asdus \in Nat /\ PerSecond \in Nat /\ Rate \in Nat
          BY <2>2, FirstFacts, RateFacts
        <5>2. L * Asdus = 0 /\ r = j + 1
          BY <2>2, <2>3, <3>1, <5>1
        <5> HIDE DEF L, First, PerSecond
        <5> QED
          BY <5>1, <5>2
      <4> HIDE DEF PerSecond, First, p, L
      <4> QED
        BY <2>2, <4>1, <4>2
    <3>2. CASE L > 0
      <4>1. j + 1 \in lost
        BY <1>2, <2>2, <2>3, <3>2
      <4>2. s.rate = 0 => j + 1 > PerSecond
        BY <1>1, <1>5, <4>1 DEF RateLearnt
      <4> QED
        BY <1>2, <2>2, <4>2, RateFacts
    <3> HIDE DEF L, p, learnt, PerSecond
    <3> QED
      BY <2>3, <3>1, <3>2
  <2>10. s.rate = 0 /\ ~learnt => L * Asdus + 1 = 1
    <3>1. CASE L > 0
      <4>1. j + 1 \in lost
        BY <1>2, <2>2, <2>3, <3>1
      <4>2. s.rate = 0 => j + 1 > PerSecond
        BY <1>1, <1>5, <4>1 DEF RateLearnt
      <4> QED
        BY <2>2, <4>2, RateFacts
    <3> QED
      BY <2>3, <3>1, RateFacts
  <2> HIDE DEF p, learnt, L, PerSecond, First
  <2>11. /\ SampleAt(u, learnt \/ p + (L * Asdus + 1) >= Rate, First(r) + Asdus - 1)
         /\ u.missed = s.missed + ((L * Asdus + 1) - 1)
    <3>1. L * Asdus + 1 \in Nat
      BY <2>3
    <3> HIDE DEF SampleAt
    <3> QED
      BY <1>2, <1>5, <2>3, <2>7, <2>8, <2>10, <3>1, NextFrame DEF u
  <2>12. SampleAt(u, r >= PerSecond, First(r) + Asdus - 1)
    BY <1>5, <1>6, <2>9, <2>11 DEF SampleAt
  <2>13. LostBetween' = LostBetween \cup gap /\ LostBetween \cap gap = {}
    <3>1. gap \subseteq lost /\ gap \subseteq Nat
      BY <1>2, <2>2
    <3>2. ASSUME NEW n \in lost, n \notin gap
          PROVE  (\E a \in fed' : a < n) /\ (\E b \in fed' : n < b)
                              <=> (\E a \in fed : a < n) /\ (\E b \in fed : n < b)
      <4>1. n \in Nat /\ n # j
        BY <1>4, <2>2
      <4>2. ASSUME \E a \in fed' : a < n, \E b \in fed' : n < b
            PROVE  (\E a \in fed : a < n) /\ (\E b \in fed : n < b)
        <5>1. n < r
          BY <1>2, <1>3, <1>4, <4>1, <4>2
        <5>2. n < j
          BY <1>2, <2>2, <3>2, <4>1, <5>1
        <5>3. \E a \in fed : a < n
          BY <1>3, <4>1, <4>2, <5>1, <1>2
        <5> QED
          BY <2>1, <5>2, <5>3
      <4> QED
        BY <1>3, <4>2
    <3>3. ASSUME NEW n \in gap
          PROVE  /\ (\E a \in fed' : a < n) /\ (\E b \in fed' : n < b)
                 /\ ~ (\E b \in fed : n < b)
      <4>1. j < n /\ n < r /\ n \in Nat
        BY <1>2, <2>2
      <4> QED
        <5>1. j \in fed' /\ r \in fed'
          BY <1>3
        <5>2. \A b \in fed : b \in Nat /\ b <= j /\ j \in Nat
          BY <1>4, <2>2
        <5> QED
          BY <4>1, <5>1, <5>2
    <3>4. LostBetween' = {n \in lost : (\E a \in fed' : a < n) /\ (\E b \in fed' : n < b)}
      BY <1>3 DEF LostBetween
    <3> HIDE DEF gap
    <3> QED
      BY <3>1, <3>2, <3>3, <3>4 DEF LostBetween
  <2>14. IsFiniteSet(gap) /\ Cardinality(gap) = L
    <3>1. /\ IsFiniteSet(gap)
          /\ Cardinality(gap) = IF j + 1 > r - 1 THEN 0 ELSE (r - 1) - (j + 1) + 1
      <4>1. j + 1 \in Int /\ r - 1 \in Int
        BY <1>2, <2>2
      <4> QED
        BY <4>1, FS_Interval
    <3> HIDE DEF gap
    <3> QED
      BY <1>2, <2>2, <2>3, <3>1
  <2> HIDE DEF gap
  <2>15. Cardinality(LostBetween') = Cardinality(LostBetween) + L
    <3>1. Cardinality(LostBetween \cap gap) = 0
      BY <2>13, FS_EmptySet
    <3>2. Cardinality(LostBetween \cup gap) =
             Cardinality(LostBetween) + Cardinality(gap) - Cardinality(LostBetween \cap gap)
      BY <2>5, <2>14, FS_Union
    <3> QED
      BY <2>3, <2>6, <2>13, <2>14, <3>1, <3>2
  <2>16. /\ Asdus * (Cardinality(LostBetween) + L)
                = Asdus * Cardinality(LostBetween) + L * Asdus
         /\ Asdus * Cardinality(LostBetween) \in Nat
    BY <2>3, <2>6, RateFacts
  <2>17. u.missed = sv.missed + L * Asdus
    <3>1. sv.missed \in Nat
      BY <1>4, StreamFields
    <3> QED
      BY <1>5, <2>3, <2>11, <3>1
  <2> QED
    BY <2>4, <2>12, <2>15, <2>16, <2>17
<1> QED
  BY <1>9, <1>10

LEMMA CountedStep ==
  ASSUME BaseInv, BaseInv', Steps, InOrder, Covered, Fresh, Apart, CountedRight
  PROVE  CountedRight'
<1>1. SUFFICES ASSUME Counted'
               PROVE  (fed' # {} => AtLatest') /\ sv'.missed = Asdus * Cardinality(LostBetween')
  BY DEF CountedRight
<1>2. overtaken = {} /\ Ordered
  <2>1. overtaken \subseteq overtaken'
    BY DEF Steps, Idle, Sent, Dropped, Arrived, Taken, Checked, Ticked
  <2> QED
    BY <1>1, <2>1 DEF Counted, InOrder
<1>3. /\ lost \subseteq lost' /\ repeated \subseteq repeated'
      /\ overtaken \subseteq overtaken' /\ sv'.rate = sv.rate
      /\ \A n \in lost' \ lost : n \in Nat /\ \A a \in fed : a <= n
  BY <1>2, LostLater
<1>4. Counted
  <2>1. RateLearnt' => RateLearnt
    BY <1>3 DEF RateLearnt, PerSecond
  <2>2. ShortGaps' => ShortGaps
    BY <1>3 DEF ShortGaps
  <2> QED
    BY <1>1, <1>3, <2>1, <2>2 DEF Counted
<1>5. CASE Taken
  BY <1>2, <1>4, <1>5, CountedTaken
<1>6. CASE ~Taken
  <2>1. /\ sv \in SvStreamState /\ now \in Nat
        /\ \A a \in fed : a \in Nat /\ a < engine.k
        /\ lost \subseteq 0 .. engine.k - 1 /\ engine.k \in Nat
    BY Numbers DEF BaseInv, ReaderOK, HistoryOK
  <2>2. fed' = fed /\ (sv' = sv \/ sv' = SvCheck(sv, now))
    BY <1>6 DEF Steps, Idle, Sent, Dropped, Arrived, Checked, Ticked
  <2>3. sv'.missed = sv.missed /\ sv'.smp = sv.smp /\ sv'.wrapped = sv.wrapped
        /\ sv'.maxSeen = sv.maxSeen
    BY <2>1, <2>2, CheckFacts
  <2>4. LostBetween' = LostBetween
    <3>1. \A n \in lost' \ lost : ~(\E b \in fed : n < b)
      BY <1>3, <2>1
    <3>2. LostBetween' = {n \in lost' : (\E a \in fed : a < n) /\ (\E b \in fed : n < b)}
      BY <2>2 DEF LostBetween
    <3> QED
      BY <1>3, <3>1, <3>2 DEF LostBetween
  <2>5. fed # {} => AtLatest'
    <3>1. ASSUME NEW j \in fed, Latest(j),
                 SampleAt(sv, j >= PerSecond, First(j) + Asdus - 1)
          PROVE  /\ \A a \in fed : a <= j
                 /\ SampleAt(sv', j >= PerSecond, First(j) + Asdus - 1)
      BY <1>3, <2>3, <3>1 DEF SampleAt, Latest
    <3>2. AtLatest' <=> \E j \in fed : /\ j \in fed /\ \A a \in fed : a <= j
                                       /\ SampleAt(sv', j >= PerSecond, First(j) + Asdus - 1)
      <4> HIDE DEF PerSecond, First
      <4> QED
        BY <2>2 DEF AtLatest, Latest, SampleAt
    <3>3. fed # {} => AtLatest
      BY <1>4 DEF CountedRight
    <3> HIDE DEF SampleAt
    <3> QED
      BY <3>1, <3>2, <3>3 DEF AtLatest
  <2>6. sv.missed = Asdus * Cardinality(LostBetween)
    BY <1>4 DEF CountedRight
  <2> QED
    BY <2>2, <2>3, <2>4, <2>5, <2>6
<1> QED
  BY <1>5, <1>6

\* The stream, its frames in order, and what is counted of them.
FlowInv == BaseInv /\ InOrder /\ Covered /\ Fresh /\ Apart /\ CountedRight

LEMMA FlowInit == Init => FlowInv
<1> SUFFICES ASSUME Init PROVE FlowInv
  OBVIOUS
<1>1. /\ Waiting = <<>> /\ wire = <<>> /\ engine.k = 0 /\ fed = {} /\ lost = {}
      /\ ~sv.wrapped /\ sv.maxSeen = 0 /\ sv.missed = 0 /\ ~sv.timedOut /\ sv.events = {}
  BY InitFacts
<1>2. BaseInv
  BY BaseInit
<1>3. InOrder
  BY <1>1 DEF InOrder, Ordered
<1>4. Covered /\ Fresh /\ Apart
  BY <1>1 DEF Covered, Fresh, Apart
<1>5. CountedRight
  <2>1. LostBetween = {}
    BY <1>1 DEF LostBetween
  <2>2. Asdus * 0 = 0
    BY RateFacts
  <2> QED
    BY <1>1, <2>1, <2>2, FS_EmptySet DEF CountedRight
<1> QED
  BY <1>2, <1>3, <1>4, <1>5 DEF FlowInv

LEMMA FlowStep ==
  ASSUME FlowInv, EngineOK', [Next]_vars
  PROVE  FlowInv' /\ Steps
<1>1. BaseInv /\ InOrder /\ Covered /\ Fresh /\ Apart /\ CountedRight
  BY DEF FlowInv
<1>2. BaseInv' /\ Steps
  BY <1>1, BaseStep
<1>3. InOrder' /\ Covered' /\ Fresh' /\ Apart' /\ CountedRight'
  BY <1>1, <1>2, OrderStep, CoverStep, FreshStep, ApartStep, CountedStep
<1> QED
  BY <1>2, <1>3 DEF FlowInv

(***************************************************************************)
(* publisher, network, capture and supervision: the frames received and    *)
(* those on their way are in the order they were sent in, none of them is  *)
(* unaccounted for, and the stream is at the last of those received.       *)
(***************************************************************************)
THEOREM FlowTheorem == Spec => []FlowInv
<1>1. FlowInv /\ [][Next]_vars /\ []EngineOK => []FlowInv
  <2>1. FlowInv /\ EngineOK' /\ [Next]_vars => FlowInv'
    BY FlowStep
  <2> QED
    BY <2>1, PTL
<1>2. Spec => []EngineOK
  BY EngineTheorem
<1> QED
  BY <1>1, <1>2, FlowInit, PTL DEF Spec

----------------------------------------------------------------------------
(* A stream that arrives whole and in order                                *)

Whole == lost = {} /\ repeated = {} /\ overtaken = {}

Troubled == late \/ engine.stop

(***************************************************************************)
(* Such a stream is only new; it is never long silent while publisher,     *)
(* network and reader are in time.                                         *)
(***************************************************************************)
Quiet == Whole =>
    /\ sv.events \subseteq {"new"} \cup (IF Troubled THEN {"timeout", "resumed"} ELSE {})
    /\ \A j \in fed : j < sv.lastSeen
    /\ ~Troubled => ~sv.timedOut /\ (fed # {} => now <= sv.lastSeen + 1)

LEMMA QuietTaken ==
  ASSUME BaseInv, Ordered, Covered, Fresh, CountedRight, Whole, Quiet, Taken
  PROVE  /\ sv'.events \subseteq
               {"new"} \cup (IF Troubled THEN {"timeout", "resumed"} ELSE {})
         /\ \A j \in fed' : j < sv'.lastSeen
         /\ ~sv'.timedOut /\ (~Troubled => now <= sv'.lastSeen + 1)
<1> DEFINE r == Head(Waiting).k
           t == Head(Waiting).at
           s == SvCheck(sv, t)
           u == FeedSamples(s, Samples(r), t)
<1>1. lost = {} /\ repeated = {} /\ overtaken = {}
  BY DEF Whole
<1>2. /\ r \in Nat /\ t \in Nat /\ r < engine.k /\ Waiting # <<>>
      /\ \A a \in fed : a < r
      /\ \A n \in Nat : n < r /\ (\A a \in fed : a < n) => n \in lost
  <2>1. Waiting # <<>>
    BY DEF Taken
  <2>2. t \in Nat
    BY <2>1, TakenFacts DEF BaseInv
  <2> QED
    BY <1>1, <2>1, <2>2, NextReceived
<1>3. r < t /\ t <= now /\ (~late => t = now)
  BY <1>2, TakenFacts DEF BaseInv, WaitingOK
<1>4. sv' = u /\ fed' = fed \cup {r}
  BY DEF Taken
<1>5. /\ sv \in SvStreamState /\ (sv.known <=> fed # {}) /\ sv.rate \in {0, Rate}
      /\ \A a \in fed : a \in Nat /\ a < engine.k
      /\ engine.k \in Nat /\ now \in Nat
  BY Numbers DEF BaseInv, ReaderOK
<1> HIDE DEF r, t
<1>6. /\ s \in SvStreamState /\ s.rate = sv.rate /\ s.known = sv.known /\ s.smp = sv.smp
      /\ s.maxSeen = sv.maxSeen /\ s.wrapped = sv.wrapped
      /\ s.events \subseteq sv.events \cup {"timeout"}
      /\ (sv.known => t <= sv.lastSeen + Timeout) =>
                    s.timedOut = sv.timedOut /\ s.events = sv.events
  BY <1>2, <1>5, CheckFacts
<1> HIDE DEF s
<1>7. u.lastSeen = t /\ ~u.timedOut
  BY <1>2, <1>6, FeedFacts
<1>8. u.events \subseteq s.events \cup {"new"}
                         \cup (IF s.timedOut THEN {"resumed"} ELSE {})
  <2>1. CASE fed = {}
    <3>1. u.events \subseteq s.events \cup {"new"}
      BY <1>2, <1>5, <1>6, <2>1, FirstFrame DEF u, Fresh
    <3> QED
      BY <3>1
  <2>2. CASE fed # {}
    <3>1. PICK j \in fed : /\ Latest(j)
                           /\ SampleAt(sv, j >= PerSecond, First(j) + Asdus - 1)
      BY <1>1, <2>2 DEF CountedRight, Counted, RateLearnt, ShortGaps, AtLatest
    <3>2. r = j + 1 /\ j \in Nat
      <4>1. j \in Nat /\ j < r /\ \A a \in fed : a <= j
        BY <1>2, <1>5, <3>1 DEF Latest
      <4>2. j + 1 \in Nat /\ \A a \in fed : a < j + 1
        BY <1>5, <4>1
      <4>3. ~(j + 1 < r)
        BY <1>1, <1>2, <4>2
      <4> QED
        BY <1>2, <4>1, <4>3
    <3> DEFINE p == First(j) + Asdus - 1
               learnt == j >= PerSecond
    <3>3. s.known /\ s.rate \in {0, Rate} /\ SampleAt(s, learnt, p) /\ learnt \in BOOLEAN
      <4>1. learnt \in BOOLEAN
        BY <3>2, RateFacts
      <4> QED
        BY <1>5, <1>6, <2>2, <3>1, <4>1 DEF SampleAt
    <3>4. p \in 0 .. Rate - 1 /\ First(r) = Wrapped(p, 1)
      BY <3>2, NextCounts
    <3>5. 1 < Rate \div 2 /\ Rate \div 2 \in Int /\ 1 \in Nat /\ 0 < 1
      BY HalfFacts
    <3>6. s.rate = 0 /\ ~learnt => 1 = 1
      OBVIOUS
    <3> HIDE DEF p, learnt
    <3>7. u.events \subseteq s.events \cup (IF s.timedOut THEN {"resumed"} ELSE {})
                                      \cup (IF 1 > 1 THEN {"gap"} ELSE {})
      <4> HIDE DEF SampleAt, First
      <4> QED
        BY <1>2, <1>6, <3>3, <3>4, <3>5, <3>6, NextFrame DEF u
    <3> QED
      BY <3>7
  <2> QED
    BY <2>1, <2>2
<1> HIDE DEF u
<1>9. ~Troubled => ~s.timedOut /\ s.events = sv.events
  <2> SUFFICES ASSUME ~Troubled PROVE ~s.timedOut /\ s.events = sv.events
    OBVIOUS
  <2>1. t = now /\ ~sv.timedOut /\ (fed # {} => now <= sv.lastSeen + 1)
    BY <1>3 DEF Troubled, Quiet
  <2>2. sv.lastSeen \in Nat /\ Timeout \in Nat /\ Timeout > 0
    BY <1>5, StreamFields, SupervisorAssumption
  <2>3. sv.known => t <= sv.lastSeen + Timeout
    BY <1>2, <1>5, <2>1, <2>2
  <2> QED
    BY <1>6, <2>1, <2>3
<1>10. sv'.events \subseteq {"new"} \cup (IF Troubled THEN {"timeout", "resumed"} ELSE {})
  <2>1. sv.events \subseteq {"new"} \cup (IF Troubled THEN {"timeout", "resumed"} ELSE {})
    BY DEF Quiet
  <2> QED
    BY <1>4, <1>6, <1>8, <1>9, <2>1
<1>11. \A j \in fed' : j < sv'.lastSeen
  BY <1>2, <1>3, <1>4, <1>5, <1>7
<1>12. ~Troubled => now <= sv'.lastSeen + 1
  BY <1>3, <1>4, <1>5, <1>7 DEF Troubled
<1> QED
  BY <1>4, <1>7, <1>10, <1>11, <1>12

LEMMA QuietStep ==
  ASSUME FlowInv, BaseInv', Steps, Quiet
  PROVE  Quiet'
<1>1. SUFFICES ASSUME Whole'
               PROVE  /\ sv'.events \subseteq
                            {"new"} \cup (IF Troubled' THEN {"timeout", "resumed"} ELSE {})
                      /\ \A j \in fed' : j < sv'.lastSeen
                      /\ ~Troubled' => /\ ~sv'.timedOut
                                       /\ fed' # {} => now' <= sv'.lastSeen + 1
  BY DEF Quiet
<1>2. Whole
  BY <1>1 DEF Whole, Steps, Idle, Sent, Dropped, Arrived, Taken, Checked, Ticked
<1>3. /\ sv.events \subseteq {"new"} \cup (IF Troubled THEN {"timeout", "resumed"} ELSE {})
      /\ \A j \in fed : j < sv.lastSeen
      /\ ~Troubled => ~sv.timedOut /\ (fed # {} => now <= sv.lastSeen + 1)
  BY <1>2 DEF Quiet
<1>4. Troubled => Troubled'
  BY DEF Troubled, Steps, Idle, Sent, Dropped, Arrived, Taken, Checked, Ticked
<1>5. /\ sv \in SvStreamState /\ (sv.known <=> fed # {})
      /\ now \in Nat /\ engine.k \in Nat /\ engine \in Engine
      /\ \A a \in fed : a \in Nat /\ a < engine.k
      /\ sv.lastSeen \in Nat /\ Timeout \in Nat /\ Timeout > 0
  BY Numbers, StreamFields, SupervisorAssumption DEF FlowInv, BaseInv, ReaderOK, EngineOK
<1>6. CASE Taken
  <2>1. (Troubled' <=> Troubled) /\ now' = now
    BY <1>6 DEF Taken, Troubled
  <2>2. Ordered
    BY <1>2 DEF FlowInv, InOrder, Whole
  <2>3. /\ sv'.events \subseteq
               {"new"} \cup (IF Troubled THEN {"timeout", "resumed"} ELSE {})
        /\ \A j \in fed' : j < sv'.lastSeen
        /\ ~sv'.timedOut /\ (~Troubled => now <= sv'.lastSeen + 1)
    BY <1>2, <1>6, <2>2, QuietTaken DEF FlowInv
  <2> QED
    BY <2>1, <2>3
<1>7. CASE Checked
  <2>1. (Troubled' <=> Troubled) /\ now' = now /\ fed' = fed /\ sv' = SvCheck(sv, now)
    BY <1>7 DEF Checked, Troubled
  <2>2. /\ sv'.lastSeen = sv.lastSeen /\ sv'.events \subseteq sv.events \cup {"timeout"}
        /\ (sv.known => now <= sv.lastSeen + Timeout) =>
               sv'.timedOut = sv.timedOut /\ sv'.events = sv.events
    BY <1>5, <2>1, CheckFacts
  <2>3. ~Troubled => (sv.known => now <= sv.lastSeen + Timeout)
    BY <1>3, <1>5
  <2> QED
    BY <1>3, <2>1, <2>2, <2>3
<1>8. CASE Ticked
  <2>1. /\ now' = now + 1 /\ fed' = fed /\ sv' = sv /\ lost = {}
        /\ ~Troubled' => wire = <<>> /\ Waiting = <<>>
        /\ ~Troubled' => ~engine.stop /\ ~(engine.thread = "running" /\ Due)
    BY <1>2, <1>8 DEF Ticked, Troubled, Whole
  <2>2. ~Troubled' /\ fed # {} => now + 1 <= sv.lastSeen + 1
    <3> SUFFICES ASSUME ~Troubled', fed # {} PROVE now + 1 <= sv.lastSeen + 1
      OBVIOUS
    <3>1. engine.k > 0
      BY <1>5
    <3>2. engine.k - 1 \in 0 .. engine.k - 1 /\ Len(wire) = 0 /\ Len(Waiting) = 0
      BY <1>5, <2>1, <3>1
    <3>3. engine.k - 1 \in fed
      <4>1. Somewhere(engine.k - 1)
        BY <3>2 DEF FlowInv, Covered
      <4> QED
        BY <2>1, <3>2, <4>1 DEF Somewhere
    <3>4. engine.thread = "running"
      BY <2>1, <3>1, <1>5 DEF FlowInv, BaseInv, EngineOK, Engine
    <3>5. ~(now >= engine.k + 1)
      BY <2>1, <3>4 DEF Due
    <3>6. engine.k - 1 < sv.lastSeen
      BY <1>3, <3>3
    <3> QED
      BY <1>5, <3>5, <3>6
  <2> QED
    BY <1>3, <1>4, <1>5, <2>1, <2>2
<1>9. CASE ~Taken /\ ~Checked /\ ~Ticked
  <2>1. now' = now /\ fed' = fed /\ sv' = sv
    BY <1>9 DEF Steps, Idle, Sent, Dropped, Arrived
  <2> QED
    BY <1>3, <1>4, <2>1
<1> QED
  BY <1>6, <1>7, <1>8, <1>9

(***************************************************************************)
(* SvStream.feed and check: a stream whole and in order is only new.  No   *)
(* gap is found at the wrap of smpCnt, whether the rate is known or learnt *)
(* from it, and no timeout between two frames sent, carried and read in    *)
(* time.                                                                   *)
(***************************************************************************)
THEOREM QuietTheorem == Spec => []NoFalseAlarm
<1>1. Init => Quiet
  <2> SUFFICES ASSUME Init PROVE Quiet
    OBVIOUS
  <2>1. fed = {} /\ ~sv.timedOut /\ sv.events = {}
    BY InitFacts
  <2> QED
    BY <2>1 DEF Quiet
<1>2. FlowInv /\ BaseInv' /\ EngineOK' /\ Quiet /\ [Next]_vars => Quiet'
  BY FlowStep, QuietStep
<1>3. FlowInv => BaseInv /\ EngineOK
  BY DEF FlowInv, BaseInv
<1>4. Quiet => NoFalseAlarm
  BY DEF Quiet, NoFalseAlarm, Whole, Troubled
<1> QED
  BY <1>1, <1>2, <1>3, <1>4, FlowTheorem, PTL DEF Spec

----------------------------------------------------------------------------
(* What is recorded of a stream in order                                   *)

\* Where the n-th sample of the stream comes from.
SourceAt(n) == Source(StartSecond + (n \div Rate), n % Rate)

LEMMA SampleNumber ==
  ASSUME NEW k \in Nat, NEW i \in 1 .. Asdus
  PROVE  /\ k * Asdus + i - 1 \in Nat
         /\ Samples(k)[i].smp = (k * Asdus + i - 1) % Rate
         /\ Samples(k)[i].from = SourceAt(k * Asdus + i - 1)
<1> DEFINE x == k % PerSecond
           q == k \div PerSecond
           n == k * Asdus + i - 1
<1>1. /\ PerSecond \in Nat /\ Asdus \in Nat /\ Rate \in Nat /\ Rate > 0
      /\ Rate = PerSecond * Asdus
  BY RateFacts
<1>2. /\ x \in Nat /\ q \in Nat /\ k = PerSecond * q + x
      /\ First(k) = x * Asdus /\ First(k) \in Nat /\ First(k) + Asdus <= Rate
  <2>1. x \in 0 .. PerSecond - 1
    BY FirstFacts
  <2>2. First(k) = x * Asdus
    BY DEF First
  <2> QED
    BY SMTT(20), <1>1, <2>1, <2>2, FirstFacts
<1>3. /\ Samples(k)[i].smp = First(k) + i - 1
      /\ Samples(k)[i].from = Source(StartSecond + q, First(k) + i - 1)
  BY SamplesFacts
<1> HIDE DEF x, q, First, PerSecond
<1>4. k * Asdus = Rate * q + First(k)
  <2>1. (PerSecond * q + x) * Asdus = (PerSecond * q) * Asdus + x * Asdus
    BY <1>1, <1>2
  <2>2. (PerSecond * q) * Asdus = (PerSecond * Asdus) * q
    BY <1>1, <1>2
  <2> QED
    BY <1>1, <1>2, <2>1, <2>2
<1>5. /\ Rate * q \in Nat /\ First(k) + i - 1 \in Nat /\ First(k) + i - 1 < Rate
      /\ n \in Nat /\ n = Rate * q + (First(k) + i - 1)
  <2>1. Rate * q \in Nat
    BY <1>1, <1>2
  <2> QED
    BY <1>1, <1>2, <1>4, <2>1
<1> HIDE DEF n
<1>6. n % Rate = First(k) + i - 1 /\ n \div Rate = q
  <2> DEFINE y == First(k) + i - 1
  <2>1. q \in Int /\ n \in Int /\ y \in Nat /\ y < Rate /\ n = Rate * q + y
    BY <1>2, <1>5
  <2> HIDE DEF y
  <2>2. n % Rate = y /\ n \div Rate = q
    BY <1>1, <2>1, Division
  <2> QED
    BY <2>2 DEF y
<1>7. Samples(k)[i].smp = n % Rate /\ Samples(k)[i].from = SourceAt(n)
  BY <1>3, <1>6 DEF SourceAt
<1> QED
  BY <1>5, <1>7 DEF n

\* The row played at the n-th sample.
Played(n) == IF Repeat = 0 THEN n - PlaySmp ELSE (n - PlaySmp) % (Repeat * Rate)

LEMMA SourceIs ==
  ASSUME NEW n \in Nat
  PROVE  /\ Played(n) \in Int
         /\ Played(n) \in 0 .. Rows - 1 => SourceAt(n) = <<"row", Played(n)>>
         /\ Played(n) \notin 0 .. Rows - 1 => SourceAt(n)[1] # "row"
<1> DEFINE x == n % Rate
           q == n \div Rate
<1>1. /\ Rate \in Nat /\ Rate > 0 /\ StartSecond \in Nat /\ Rows \in Nat
      /\ PlaySmp \in Nat /\ Repeat \in Nat
  BY RateFacts
<1>2. x \in Nat /\ q \in Nat /\ n = Rate * q + x
  BY <1>1
<1> HIDE DEF x, q
<1>3. (StartSecond + q) * Rate + x - (StartSecond * Rate + PlaySmp) = n - PlaySmp
  <2>1. (StartSecond + q) * Rate = StartSecond * Rate + Rate * q /\ Rate * q \in Nat
        /\ StartSecond * Rate \in Nat
    BY <1>1, <1>2
  <2> QED
    BY <1>1, <1>2, <2>1
<1>4. PlayedRow(StartSecond + q, x) = {row \in 0 .. Rows - 1 : row = Played(n)}
  BY <1>3 DEF PlayedRow, Played
<1>5. Played(n) \in Int
  <2>1. CASE Repeat = 0
    BY <1>1, <2>1 DEF Played
  <2>2. CASE Repeat # 0
    <3> DEFINE M == Repeat * Rate
    <3>1. M \in Nat /\ M > 0 /\ n - PlaySmp \in Int
      BY <1>1, <2>2
    <3> HIDE DEF M
    <3>2. (n - PlaySmp) % M \in Int
      BY <3>1
    <3> QED
      BY <2>2, <3>2 DEF Played, M
  <2> QED
    BY <2>1, <2>2
<1>6. SourceAt(n) = Source(StartSecond + q, x)
  BY DEF SourceAt, x, q
<1>7. CASE Played(n) \in 0 .. Rows - 1
  <2>1. PlayedRow(StartSecond + q, x) = {Played(n)}
    BY <1>4, <1>7
  <2>2. (CHOOSE row \in {Played(n)} : TRUE) = Played(n)
    OBVIOUS
  <2>3. SourceAt(n) = <<"row", Played(n)>>
    BY <1>6, <2>1, <2>2 DEF Source
  <2> QED
    BY <1>5, <1>7, <2>3
<1>8. CASE Played(n) \notin 0 .. Rows - 1
  <2>1. PlayedRow(StartSecond + q, x) = {}
    BY <1>4, <1>8
  <2>2. SourceAt(n)[1] # "row"
    BY <1>6, <2>1 DEF Source
  <2> QED
    BY <1>5, <1>8, <2>2
<1> QED
  BY <1>7, <1>8

(***************************************************************************)
(* The rows of a playback follow each other from sample to sample.         *)
(***************************************************************************)
LEMMA SourcesFollow ==
  ASSUME NEW n \in Nat
  PROVE  Follows(SourceAt(n), SourceAt(n + 1))
<1> DEFINE a == SourceAt(n)
           b == SourceAt(n + 1)
           x == Played(n)
           y == Played(n + 1)
           M == Repeat * Rate
<1>1. Rate \in Nat /\ Rate > 0 /\ Rows \in Nat /\ PlaySmp \in Nat /\ Repeat \in Nat
  BY RateFacts
<1>2. /\ x \in Int /\ (x \in 0 .. Rows - 1 => a = <<"row", x>>)
      /\ x \notin 0 .. Rows - 1 => a[1] # "row"
  BY SourceIs
<1>3. /\ y \in Int /\ (y \in 0 .. Rows - 1 => b = <<"row", y>>)
      /\ y \notin 0 .. Rows - 1 => b[1] # "row"
  BY SourceIs
<1> DEFINE next == IF Repeat = 0 THEN x + 1 ELSE (x + 1) % M
<1>4. y = next /\ (y > 0 => y = x + 1) /\ (x >= 0 => y >= 0 /\ y <= x + 1)
  <2>1. CASE Repeat = 0
    <3>1. x = n - PlaySmp /\ y = (n + 1) - PlaySmp
      BY <2>1 DEF Played
    <3> QED
      BY <1>1, <2>1, <3>1
  <2>2. CASE Repeat # 0
    <3>1. M \in Nat /\ M > 0
      BY <1>1, <2>2
    <3>2. x = (n - PlaySmp) % M /\ y = ((n - PlaySmp) + 1) % M
      <4>1. (n + 1) - PlaySmp = (n - PlaySmp) + 1
        BY <1>1
      <4> QED
        BY <2>2, <4>1 DEF Played
    <3> HIDE DEF M, x, y
    <3>3. /\ x \in 0 .. M - 1
          /\ x + 1 < M => y = x + 1
          /\ x + 1 >= M => y = 0
      <4>1. n - PlaySmp \in Int
        BY <1>1
      <4> QED
        BY <3>1, <3>2, <4>1, Remainders
    <3>4. (x + 1) % M = IF x + 1 < M THEN x + 1 ELSE 0
      <4>1. x % M = x
        <5>1. x = M * 0 + x
          BY <3>1, <3>3
        <5>2. 0 \in Int /\ x \in Nat /\ x < M /\ x \in Int
          BY <3>1, <3>3
        <5> QED
          BY <3>1, <5>1, <5>2, Division
      <4>2. x \in Int
        BY <3>1, <3>3
      <4> QED
        BY <3>1, <3>3, <4>1, <4>2, Remainders
    <3> QED
      BY <2>2, <3>1, <3>3, <3>4
  <2> QED
    BY <2>1, <2>2
<1> HIDE DEF a, b, x, y
<1>5. ASSUME b[1] = "row", b[2] > 0 PROVE a = <<"row", b[2] - 1>>
  <2>1. y \in 0 .. Rows - 1 /\ b = <<"row", y>>
    BY <1>3, <1>5
  <2>2. b[2] = y
    BY <2>1
  <2>3. x = y - 1 /\ x \in 0 .. Rows - 1
    BY <1>1, <1>2, <1>3, <1>4, <1>5, <2>1, <2>2
  <2> QED
    BY <1>2, <2>2, <2>3
<1>6. ASSUME a[1] = "row", a[2] < Rows - 1 
      PROVE  b = <<"row", (IF Repeat = 0 THEN a[2] + 1 ELSE (a[2] + 1) % M)>>
  <2>1. x \in 0 .. Rows - 1 /\ a = <<"row", x>>
    BY <1>2, <1>6
  <2>2. a[2] = x
    BY <2>1
  <2>3. y \in 0 .. Rows - 1
    BY <1>1, <1>2, <1>3, <1>4, <1>6, <2>1, <2>2
  <2> QED
    BY <1>3, <1>4, <2>2, <2>3
<1>7. Follows(a, b)
  BY <1>5, <1>6 DEF Follows
<1> QED
  BY <1>7 DEF a, b

LEMMA DifferentCounts ==
  ASSUME NEW a \in Nat, NEW b \in Nat, a < b, b < a + Rate
  PROVE  a % Rate # b % Rate
<1> DEFINE x == a % Rate
           p == a \div Rate
           q == b \div Rate
<1>1. Rate \in Nat /\ Rate > 0
  BY RateFacts
<1>2. x \in Nat /\ p \in Int /\ q \in Int /\ a = Rate * p + x /\ b = Rate * q + (b % Rate)
  BY <1>1
<1>3. SUFFICES ASSUME b % Rate = x PROVE FALSE
  BY DEF x
<1> DEFINE m == b - a
<1>4. m \in Nat /\ 0 < m /\ m < Rate
  BY <1>1
<1> HIDE DEF x, p, q
<1>5. Rate * p \in Int /\ Rate * q \in Int
  BY <1>1, <1>2
<1>6. Rate * p + m = Rate * q + 0
  BY <1>2, <1>3, <1>5
<1> HIDE DEF m
<1>7. p <= q
  BY <1>1, <1>2, <1>4, <1>6, NoMultiple
<1>8. Rate * q + 0 = Rate * p + m
  BY <1>6
<1>9. q <= p
  BY <1>1, <1>2, <1>4, <1>8, NoMultiple
<1>10. p = q
  BY <1>2, <1>7, <1>9
<1> QED
  BY <1>4, <1>5, <1>6, <1>10

\* s is the last of the first N values of g, limit of them at most.
LastOf(s, limit, N, g) ==
    /\ Len(s) = IF N < limit THEN N ELSE limit
    /\ \A i \in 1 .. Len(s) : s[i] = g[N - Len(s) + i - 1]

LEMMA LastPushed ==
  ASSUME NEW S, NEW s \in Seq(S), NEW e \in S, NEW limit \in Nat, limit > 0,
         NEW N \in Nat, NEW g, LastOf(s, limit, N, g), e = g[N]
  PROVE  LastOf(IF Len(Append(s, e)) > limit THEN Tail(Append(s, e)) ELSE Append(s, e),
                limit, N + 1, g)
<1> DEFINE p == Append(s, e)
<1>1. /\ Len(s) \in Nat /\ Len(s) = IF N < limit THEN N ELSE limit
      /\ \A i \in 1 .. Len(s) : s[i] = g[N - Len(s) + i - 1]
  BY LenProperties DEF LastOf
<1>2. /\ p \in Seq(S) /\ p # <<>> /\ Len(p) = Len(s) + 1 /\ p[Len(s) + 1] = e
      /\ \A i \in 1 .. Len(s) : p[i] = s[i]
  BY AppendProperties
<1>3. /\ Len(Tail(p)) = Len(p) - 1 /\ Tail(p) \in Seq(S)
      /\ \A i \in 1 .. Len(Tail(p)) : Tail(p)[i] = p[i + 1]
  BY <1>2, HeadTailProperties
<1> HIDE DEF p
<1>4. \A i \in 1 .. Len(p) : p[i] = g[N - Len(s) + i - 1]
  <2> SUFFICES ASSUME NEW i \in 1 .. Len(p) PROVE p[i] = g[N - Len(s) + i - 1]
    OBVIOUS
  <2>1. CASE i \in 1 .. Len(s)
    BY <1>1, <1>2, <2>1
  <2>2. CASE i = Len(s) + 1
    <3>1. N - Len(s) + i - 1 = N
      BY <1>1, <2>2
    <3> QED
      BY <1>2, <2>2, <3>1
  <2> QED
    BY <1>1, <1>2, <2>1, <2>2
<1>5. CASE Len(p) > limit
  <2>1. Len(Tail(p)) = limit /\ Len(s) = limit /\ ~(N + 1 < limit)
    BY <1>1, <1>2, <1>3, <1>5
  <2>2. \A i \in 1 .. Len(Tail(p)) : Tail(p)[i] = g[(N + 1) - Len(Tail(p)) + i - 1]
    <3> SUFFICES ASSUME NEW i \in 1 .. Len(Tail(p))
                 PROVE  Tail(p)[i] = g[(N + 1) - Len(Tail(p)) + i - 1]
      OBVIOUS
    <3>1. i + 1 \in 1 .. Len(p)
      BY <1>2, <2>1
    <3>2. N - Len(s) + (i + 1) - 1 = (N + 1) - Len(Tail(p)) + i - 1
      <4>1. i \in Int
        BY <2>1
      <4>2. N - limit + (i + 1) - 1 = (N + 1) - limit + i - 1
        BY <4>1
      <4> QED
        BY <2>1, <4>2, Zenon
    <3> QED
      BY <1>3, <1>4, <3>1, <3>2
  <2> QED
    BY <1>5, <2>1, <2>2 DEF LastOf, p
<1>6. CASE ~(Len(p) > limit)
  <2>1. Len(p) = N + 1 /\ Len(s) = N /\ (N + 1 < limit \/ N + 1 = limit)
    BY <1>1, <1>2, <1>6
  <2>2. \A i \in 1 .. Len(p) : N - Len(s) + i - 1 = (N + 1) - Len(p) + i - 1
    BY <2>1
  <2> QED
    BY <1>4, <1>6, <2>1, <2>2 DEF LastOf, p
<1> QED
  BY <1>5, <1>6

Counts == [n \in Nat |-> n % Rate]
Origins == [n \in Nat |-> SourceAt(n)]

\* What is recorded when the first N samples have been taken, in order.
RecordedTo(r, N) ==
    LastOf(r.recent, Remembered, N, Counts) /\ LastOf(r.tail, Asdus + 1, N, Origins)

LEMMA RememberedFacts ==
  /\ Remembered \in Nat /\ Remembered > 0 /\ Remembered >= Asdus /\ Remembered < Rate
  /\ Asdus + 1 \in Nat /\ Asdus + 1 > 0
<1>1. Remembered \in Asdus .. Rate - 1
  BY BusAssumption
<1> QED
  BY <1>1, RateFacts

LEMMA TakeNew ==
  ASSUME NEW r \in Recorded, NEW N \in Nat, RecordedTo(r, N), NEW sample \in Sample,
         sample.smp = N % Rate, sample.from = SourceAt(N)
  PROVE  RecordedTo(TakeSample(r, sample), N + 1)
<1>1. /\ r.recent \in Seq(Nat) /\ r.tail \in Seq(Sources)
      /\ sample.smp \in Nat /\ sample.from \in Sources
  BY RateFacts DEF Recorded, Sample
<1>2. /\ LastOf(r.recent, Remembered, N, Counts) /\ LastOf(r.tail, Asdus + 1, N, Origins)
  BY DEF RecordedTo
<1>3. sample.smp = Counts[N] /\ sample.from = Origins[N]
  BY DEF Counts, Origins
<1>4. ~ \E i \in DOMAIN r.recent : r.recent[i] = sample.smp
  <2> SUFFICES ASSUME NEW i \in 1 .. Len(r.recent) PROVE r.recent[i] # sample.smp
    BY <1>1, LenProperties
  <2> DEFINE a == N - Len(r.recent) + i - 1
  <2>1. Len(r.recent) \in Nat /\ Len(r.recent) = IF N < Remembered THEN N ELSE Remembered
    BY <1>1, <1>2, LenProperties DEF LastOf
  <2>2. r.recent[i] = Counts[a]
    BY <1>2 DEF LastOf
  <2>3. a \in Nat /\ a < N /\ N < a + Rate
    BY <2>1, RememberedFacts, RateFacts
  <2> HIDE DEF a
  <2>4. a % Rate # N % Rate
    BY <2>3, DifferentCounts
  <2> QED
    BY <2>2, <2>3, <2>4 DEF Counts
<1> DEFINE recent == Append(r.recent, sample.smp)
           tail == Append(r.tail, sample.from)
           p == IF Len(recent) > Remembered THEN Tail(recent) ELSE recent
           q == IF Len(tail) > Asdus + 1 THEN Tail(tail) ELSE tail
<1>5. TakeSample(r, sample) = [recent |-> p, tail |-> q]
  BY <1>4 DEF TakeSample
<1> HIDE DEF LastOf, Counts, Origins
<1>6. LastOf(p, Remembered, N + 1, Counts)
  BY <1>1, <1>2, <1>3, RememberedFacts, LastPushed
<1>7. LastOf(q, Asdus + 1, N + 1, Origins)
  BY <1>1, <1>2, <1>3, RememberedFacts, LastPushed
<1> HIDE DEF p, q
<1> QED
  BY <1>5, <1>6, <1>7 DEF RecordedTo

LEMMA TakeOld ==
  ASSUME NEW r \in Recorded, NEW N \in Nat, RecordedTo(r, N), NEW sample \in Sample,
         NEW n \in Nat, n < N, N <= n + Asdus, sample.smp = n % Rate
  PROVE  TakeSample(r, sample) = r
<1> DEFINE i == n - N + Len(r.recent) + 1
<1>1. r.recent \in Seq(Nat)
  BY DEF Recorded
<1>2. /\ Len(r.recent) \in Nat /\ Len(r.recent) = IF N < Remembered THEN N ELSE Remembered
      /\ \A m \in 1 .. Len(r.recent) : r.recent[m] = Counts[N - Len(r.recent) + m - 1]
  BY <1>1, LenProperties DEF LastOf, RecordedTo
<1>3. i \in 1 .. Len(r.recent) /\ N - Len(r.recent) + i - 1 = n
  BY <1>2, RememberedFacts, RateFacts
<1>4. r.recent[i] = n % Rate
  BY <1>2, <1>3 DEF Counts
<1>5. i \in DOMAIN r.recent
  BY <1>1, <1>3, LenProperties
<1> QED
  BY <1>4, <1>5 DEF TakeSample

(***************************************************************************)
(* A frame is recorded whole when it is the next, and not at all when it   *)
(* was the last.                                                           *)
(***************************************************************************)
LEMMA FrameRecorded ==
  ASSUME NEW r \in Recorded, NEW k \in Nat
  PROVE  /\ RecordedTo(r, k * Asdus) => RecordedTo(Record(r, Samples(k)), (k + 1) * Asdus)
         /\ RecordedTo(r, (k + 1) * Asdus) => Record(r, Samples(k)) = r
<1> DEFINE N == k * Asdus
<1>1. Asdus \in Nat /\ N \in Nat /\ (k + 1) * Asdus = N + Asdus
  BY RateFacts
<1>2. Samples(k) \in Seq(Sample) /\ Len(Samples(k)) = Asdus
  BY SamplesFacts
<1>3. PICK f : RecordSteps(f, r, Samples(k))
  BY <1>2, RecordRecursion
<1>4. /\ f \in [0 .. Asdus -> Recorded] /\ f[0] = r /\ Record(r, Samples(k)) = f[Asdus]
      /\ \A i \in 1 .. Asdus : f[i] = TakeSample(f[i-1], Samples(k)[i])
  BY <1>2, <1>3 DEF RecordSteps
<1>5. \A i \in 1 .. Asdus : /\ Samples(k)[i] \in Sample
                            /\ Samples(k)[i].smp = (N + (i - 1)) % Rate
                            /\ Samples(k)[i].from = SourceAt(N + (i - 1))
  <2> SUFFICES ASSUME NEW i \in 1 .. Asdus
               PROVE  /\ Samples(k)[i] \in Sample
                      /\ Samples(k)[i].smp = (N + (i - 1)) % Rate
                      /\ Samples(k)[i].from = SourceAt(N + (i - 1))
    OBVIOUS
  <2>1. Samples(k)[i] \in Sample
    BY <1>2, ElementOfSeq
  <2>2. N + i - 1 = N + (i - 1)
    BY <1>1
  <2>3. /\ Samples(k)[i].smp = (N + i - 1) % Rate
        /\ Samples(k)[i].from = SourceAt(N + i - 1)
    BY SampleNumber
  <2> QED
    BY <2>1, <2>2, <2>3
<1>6. \A i \in 0 .. Asdus - 1 : /\ i + 1 \in 1 .. Asdus /\ (i + 1) - 1 = i
                                /\ i \in 0 .. Asdus /\ f[i] \in Recorded /\ N + i \in Nat
  BY <1>1, <1>4
<1> HIDE DEF N
<1>7. ASSUME RecordedTo(r, N) PROVE RecordedTo(f[Asdus], N + Asdus)
  <2> DEFINE T == {i \in 0 .. Asdus : RecordedTo(f[i], N + i)}
  <2>1. 0 \in T
    BY <1>1, <1>4, <1>7
  <2>2. ASSUME NEW i \in 0 .. Asdus - 1, i \in T PROVE i + 1 \in T
    <3>1. /\ i + 1 \in 1 .. Asdus /\ (i + 1) - 1 = i /\ f[i] \in Recorded /\ N + i \in Nat
          /\ RecordedTo(f[i], N + i) /\ i + 1 \in 0 .. Asdus
      BY <1>6, <2>2
    <3>2. /\ Samples(k)[i+1] \in Sample /\ Samples(k)[i+1].smp = (N + i) % Rate
          /\ Samples(k)[i+1].from = SourceAt(N + i) /\ f[i+1] = TakeSample(f[i], Samples(k)[i+1])
      BY <1>4, <1>5, <3>1
    <3>3. RecordedTo(f[i+1], (N + i) + 1)
      BY <3>1, <3>2, TakeNew
    <3>4. (N + i) + 1 = N + (i + 1)
      BY <1>1
    <3> QED
      BY <3>1, <3>3, <3>4
  <2> HIDE DEF T
  <2>3. \A i \in 0 .. Asdus : i \in T
    BY <1>1, <2>1, <2>2, UpTo
  <2> QED
    BY <1>1, <2>3 DEF T
<1>8. ASSUME RecordedTo(r, N + Asdus) PROVE f[Asdus] = r
  <2> DEFINE T == {i \in 0 .. Asdus : f[i] = r}
  <2>1. 0 \in T
    BY <1>1, <1>4
  <2>2. ASSUME NEW i \in 0 .. Asdus - 1, i \in T PROVE i + 1 \in T
    <3>1. /\ i + 1 \in 1 .. Asdus /\ (i + 1) - 1 = i /\ f[i] = r /\ N + i \in Nat
          /\ i + 1 \in 0 .. Asdus
      BY <1>6, <2>2
    <3>2. /\ Samples(k)[i+1] \in Sample /\ Samples(k)[i+1].smp = (N + i) % Rate
          /\ f[i+1] = TakeSample(r, Samples(k)[i+1])
      BY <1>4, <1>5, <3>1
    <3>3. N + Asdus \in Nat /\ N + i < N + Asdus /\ N + Asdus <= (N + i) + Asdus
      BY <1>1
    <3>4. f[i+1] = r
      BY <1>8, <3>1, <3>2, <3>3, TakeOld
    <3> QED
      BY <3>1, <3>4
  <2> HIDE DEF T
  <2>3. \A i \in 0 .. Asdus : i \in T
    BY <1>1, <2>1, <2>2, UpTo
  <2> QED
    BY <1>1, <2>3 DEF T
<1> QED
  BY <1>1, <1>4, <1>7, <1>8 DEF N

\* Whatever is repeated, the samples recorded are those up to the latest frame.
RecordedRight == lost = {} /\ overtaken = {} =>
    /\ fed = {} => RecordedTo(recorded, 0)
    /\ fed # {} => \E j \in fed : Latest(j) /\ RecordedTo(recorded, (j + 1) * Asdus)

LEMMA RecordedTaken ==
  ASSUME BaseInv, Ordered, Covered, lost = {}, overtaken = {}, RecordedRight, Taken
  PROVE  \E j \in fed' : /\ \A a \in fed' : a <= j
                         /\ RecordedTo(recorded', (j + 1) * Asdus)
<1> DEFINE r == Head(Waiting).k
<1>1. /\ r \in Nat /\ \A a \in fed : a <= r
      /\ \A n \in Nat : n < r /\ (\A a \in fed : a < n) => n \in lost
  BY NextReceived DEF Taken
<1>2. /\ recorded' = Record(recorded, Samples(r)) /\ fed' = fed \cup {r}
  BY DEF Taken
<1>3. recorded \in Recorded /\ \A a \in fed : a \in Nat
  BY Numbers DEF BaseInv, ReaderOK
<1> HIDE DEF r
<1>4. /\ RecordedTo(recorded, r * Asdus) => RecordedTo(recorded', (r + 1) * Asdus)
      /\ RecordedTo(recorded, (r + 1) * Asdus) => recorded' = recorded
  BY <1>1, <1>2, <1>3, FrameRecorded
<1> HIDE DEF RecordedTo
<1>5. RecordedTo(recorded', (r + 1) * Asdus)
  <2>1. CASE fed = {}
    <3>1. ~(0 < r)
      BY <1>1, <2>1
    <3>2. r = 0 /\ 0 * Asdus = 0
      BY <1>1, <3>1, RateFacts
    <3> QED
      BY <1>4, <2>1, <3>2 DEF RecordedRight
  <2>2. CASE fed # {}
    <3>1. PICK j \in fed : Latest(j) /\ RecordedTo(recorded, (j + 1) * Asdus)
      BY <2>2 DEF RecordedRight
    <3>2. j \in Nat /\ j <= r /\ \A a \in fed : a <= j
      BY <1>1, <1>3, <3>1 DEF Latest
    <3>3. j + 1 \in Nat /\ \A a \in fed : a < j + 1
      BY <1>3, <3>2
    <3>4. ~(j + 1 < r)
      BY <1>1, <3>3
    <3>5. r = j \/ r = j + 1
      BY <1>1, <3>2, <3>4
    <3> QED
      BY <1>4, <3>1, <3>5
  <2> QED
    BY <2>1, <2>2
<1>6. r \in fed' /\ \A a \in fed' : a <= r
  BY <1>1, <1>2
<1> QED
  BY <1>5, <1>6

LEMMA RecordedStep ==
  ASSUME FlowInv, Steps, RecordedRight
  PROVE  RecordedRight'
<1>1. SUFFICES ASSUME lost' = {}, overtaken' = {}
               PROVE  /\ fed' = {} => RecordedTo(recorded, 0)'
                      /\ fed' # {} => \E j \in fed' :
                            Latest(j)' /\ RecordedTo(recorded, (j + 1) * Asdus)'
  BY DEF RecordedRight
<1>2. lost = {} /\ overtaken = {}
  BY <1>1 DEF Steps, Idle, Sent, Dropped, Arrived, Taken, Checked, Ticked
<1>3. CASE Taken
  <2>1. Ordered /\ BaseInv /\ Covered
    BY <1>2 DEF FlowInv, InOrder
  <2>2. \E j \in fed' : /\ \A a \in fed' : a <= j
                        /\ RecordedTo(recorded', (j + 1) * Asdus)
    BY <1>2, <1>3, <2>1, RecordedTaken
  <2>3. \A j \in fed' : RecordedTo(recorded', (j + 1) * Asdus) <=>
                        RecordedTo(recorded, (j + 1) * Asdus)'
    BY DEF RecordedTo, LastOf
  <2>4. \A j \in fed' : Latest(j)' <=> \A a \in fed' : a <= j
    BY DEF Latest
  <2>5. fed' # {}
    BY <1>3 DEF Taken
  <2> HIDE DEF RecordedTo, Latest
  <2> QED
    BY <2>2, <2>3, <2>4, <2>5
<1>4. CASE ~Taken
  <2>1. fed' = fed /\ recorded' = recorded
    BY <1>4 DEF Steps, Idle, Sent, Dropped, Arrived, Checked, Ticked
  <2>2. /\ fed = {} => RecordedTo(recorded, 0)
        /\ fed # {} => \E j \in fed : Latest(j) /\ RecordedTo(recorded, (j + 1) * Asdus)
    BY <1>2 DEF RecordedRight
  <2>3. RecordedTo(recorded, 0)' <=> RecordedTo(recorded, 0)
    BY <2>1 DEF RecordedTo, LastOf
  <2>4. \A j : RecordedTo(recorded, (j + 1) * Asdus)' <=>
               RecordedTo(recorded, (j + 1) * Asdus)
    BY <2>1 DEF RecordedTo, LastOf
  <2>5. \A j : Latest(j)' <=> Latest(j)
    BY <2>1 DEF Latest
  <2> HIDE DEF RecordedTo, Latest
  <2> QED
    BY <2>1, <2>2, <2>3, <2>4, <2>5
<1> QED
  BY <1>3, <1>4

(***************************************************************************)
(* Playback.from_sv_frames, the samples a Publisher sends and the network  *)
(* between them: a stream that lost nothing, repeated or not, is recorded  *)
(* as it was to be sent, sample after sample, across the second and where  *)
(* a playback starts again.                                                *)
(***************************************************************************)
THEOREM RecordingTheorem == Spec => []RecordedInOrder
<1>1. Init => RecordedRight
  <2> SUFFICES ASSUME Init PROVE RecordedRight
    OBVIOUS
  <2>1. fed = {} /\ recorded.recent = <<>> /\ recorded.tail = <<>>
    BY InitFacts
  <2>2. RecordedTo(recorded, 0)
    BY <2>1, RememberedFacts DEF RecordedTo, LastOf
  <2> QED
    BY <2>1, <2>2 DEF RecordedRight
<1>2. FlowInv /\ EngineOK' /\ RecordedRight /\ [Next]_vars => RecordedRight'
  BY FlowStep, RecordedStep
<1>3. FlowInv /\ RecordedRight => RecordedInOrder
  <2> SUFFICES ASSUME FlowInv, RecordedRight, lost = {}, overtaken = {},
                      NEW i \in 1 .. Len(recorded.tail) - 1
               PROVE  Follows(recorded.tail[i], recorded.tail[i + 1])
    BY DEF RecordedInOrder
  <2>1. PICK N \in Nat : RecordedTo(recorded, N)
    <3>1. CASE fed = {}
      BY <3>1 DEF RecordedRight
    <3>2. CASE fed # {}
      <4>1. PICK j \in fed : RecordedTo(recorded, (j + 1) * Asdus)
        BY <3>2 DEF RecordedRight
      <4>2. j \in Nat /\ Asdus \in Nat
        BY Numbers, RateFacts DEF FlowInv
      <4>3. (j + 1) * Asdus \in Nat
        BY <4>2
      <4> QED
        BY <4>1, <4>3
    <3> QED
      BY <3>1, <3>2
  <2> DEFINE L == Len(recorded.tail)
             n == N - L + i - 1
  <2>2. /\ L = (IF N < Asdus + 1 THEN N ELSE Asdus + 1)
        /\ \A m \in 1 .. L : recorded.tail[m] = Origins[N - L + m - 1]
    BY <2>1 DEF RecordedTo, LastOf
  <2>3. L \in Nat /\ L <= N
    BY <2>2, RateFacts
  <2>4. /\ n \in Nat /\ i \in 1 .. L /\ i + 1 \in 1 .. L
        /\ N - L + (i + 1) - 1 = n + 1
    BY <2>3
  <2>5. recorded.tail[i] = Origins[n] /\ recorded.tail[i + 1] = Origins[n + 1]
    BY <2>2, <2>4
  <2> HIDE DEF n, L
  <2>6. recorded.tail[i] = SourceAt(n) /\ recorded.tail[i + 1] = SourceAt(n + 1)
    BY <2>4, <2>5 DEF Origins
  <2> QED
    BY <2>4, <2>6, SourcesFollow
<1>4. FlowInv => EngineOK
  BY DEF FlowInv, BaseInv
<1> QED
  BY <1>1, <1>2, <1>3, <1>4, FlowTheorem, PTL DEF Spec

----------------------------------------------------------------------------
(* What is counted once all that was overtaken has come                    *)

(***************************************************************************)
(* How a frame r comes after the frames S, when none is lost: it is the    *)
(* next one, or comes again (R: those repeated), or comes before or after  *)
(* its time (O: those overtaken).                                          *)
(***************************************************************************)
Arrives(r, S, R, O) ==
    \/ S = 0 .. r - 1
    \/ S = 0 .. r /\ r \in R
    \/ r > 0 /\ S = 0 .. r - 2 /\ r - 1 \in O
    \/ r > 0 /\ S = (0 .. r - 2) \cup {r} /\ r - 1 \in O /\ r \in R
    \/ S = (0 .. r - 1) \cup {r + 1} /\ r \in O
    \/ S = 0 .. r + 1 /\ r \in O /\ r \in R

Earlier(line, i) == {line[n] : n \in 1 .. i - 1}

\* The frames of a line of N, each after those before it and those of F.
Close(line, N, F, R, O) ==
    \A i \in 1 .. N : /\ line[i] \in Nat
                      /\ Arrives(line[i], F \cup Earlier(line, i), R, O)

LEMMA CloseGrows ==
  ASSUME NEW line, NEW N \in Nat, NEW F, NEW R, NEW O, Close(line, N, F, R, O),
         NEW R1, R \subseteq R1, NEW O1, O \subseteq O1
  PROVE  Close(line, N, F, R1, O1)
<1>1. ASSUME NEW i \in 1 .. N
      PROVE  line[i] \in Nat /\ Arrives(line[i], F \cup Earlier(line, i), R1, O1)
  <2>1. line[i] \in Nat /\ Arrives(line[i], F \cup Earlier(line, i), R, O)
    BY DEF Close
  <2> QED
    BY <2>1 DEF Arrives
<1> QED
  BY <1>1 DEF Close

LEMMA CloseTaken ==
  ASSUME NEW line, NEW N \in Nat, NEW F, NEW R, NEW O, Close(line, N, F, R, O), N > 0,
         NEW next, \A i \in 1 .. N - 1 : next[i] = line[i + 1]
  PROVE  Close(next, N - 1, F \cup {line[1]}, R, O)
<1>1. ASSUME NEW i \in 1 .. N - 1
      PROVE  /\ next[i] \in Nat
             /\ Arrives(next[i], (F \cup {line[1]}) \cup Earlier(next, i), R, O)
  <2>1. i + 1 \in 1 .. N /\ next[i] = line[i + 1]
    OBVIOUS
  <2>2. line[i+1] \in Nat /\ Arrives(line[i+1], F \cup Earlier(line, i+1), R, O)
    BY <2>1 DEF Close
  <2>3. Earlier(line, i + 1) = {line[1]} \cup Earlier(next, i)
    <3>1. ASSUME NEW n \in 1 .. (i + 1) - 1 PROVE line[n] \in {line[1]} \cup Earlier(next, i)
      <4>1. CASE n = 1
        BY <4>1
      <4>2. CASE n # 1
        <5>1. n - 1 \in 1 .. i - 1 /\ n - 1 \in 1 .. N - 1 /\ (n - 1) + 1 = n
          BY <4>2
        <5> QED
          BY <5>1 DEF Earlier
      <4> QED
        BY <4>1, <4>2
    <3>2. ASSUME NEW n \in 1 .. i - 1 PROVE next[n] \in Earlier(line, i + 1)
      <4>1. n + 1 \in 1 .. (i + 1) - 1 /\ n \in 1 .. N - 1
        OBVIOUS
      <4> QED
        BY <4>1 DEF Earlier
    <3>3. line[1] \in Earlier(line, i + 1)
      <4>1. 1 \in 1 .. (i + 1) - 1
        OBVIOUS
      <4> QED
        BY <4>1 DEF Earlier
    <3> QED
      BY <3>1, <3>2, <3>3 DEF Earlier
  <2>4. (F \cup {line[1]}) \cup Earlier(next, i) = F \cup Earlier(line, i + 1)
    BY <2>3
  <2> QED
    BY <2>1, <2>2, <2>4
<1> QED
  BY <1>1 DEF Close

\* Two lines that begin alike.
LEMMA SameEarlier ==
  ASSUME NEW line, NEW next, NEW p \in Nat, \A n \in 1 .. p - 1 : next[n] = line[n],
         NEW i \in 1 .. p
  PROVE  Earlier(next, i) = Earlier(line, i)
<1>1. \A n \in 1 .. i - 1 : next[n] = line[n]
  OBVIOUS
<1> QED
  BY <1>1 DEF Earlier

LEMMA CloseAppended ==
  ASSUME NEW line, NEW N \in Nat, NEW F, NEW R, NEW O, Close(line, N, F, R, O),
         NEW next, \A n \in 1 .. N : next[n] = line[n], next[N + 1] \in Nat,
         F \cup Earlier(line, N + 1) = 0 .. next[N + 1] - 1
  PROVE  Close(next, N + 1, F, R, O)
<1>1. ASSUME NEW i \in 1 .. N + 1
      PROVE  next[i] \in Nat /\ Arrives(next[i], F \cup Earlier(next, i), R, O)
  <2>1. Earlier(next, i) = Earlier(line, i)
    <3>1. \A n \in 1 .. (N + 1) - 1 : next[n] = line[n]
      OBVIOUS
    <3> QED
      BY <3>1, SameEarlier
  <2>2. CASE i = N + 1
    BY <2>1, <2>2 DEF Arrives
  <2>3. CASE i # N + 1
    <3>1. i \in 1 .. N
      BY <2>3
    <3> QED
      BY <2>1, <3>1 DEF Close
  <2> QED
    BY <2>2, <2>3
<1> QED
  BY <1>1 DEF Close

LEMMA SameFrames ==
  ASSUME NEW line, NEW next, NEW i, NEW k,
         \A n \in 1 .. i - 1 : \E m \in 1 .. k - 1 : next[n] = line[m],
         \A m \in 1 .. k - 1 : \E n \in 1 .. i - 1 : next[n] = line[m]
  PROVE  Earlier(next, i) = Earlier(line, k)
  BY DEF Earlier

\* After r: what a frame that comes twice finds the second time.
LEMMA ArrivesAgain ==
  ASSUME NEW r \in Nat, NEW S, NEW O, Arrives(r, S, {}, O)
  PROVE  Arrives(r, S \cup {r}, {r}, O)
<1>1. CASE S = 0 .. r - 1
  <2>1. S \cup {r} = 0 .. r
    BY <1>1
  <2> QED
    BY <2>1 DEF Arrives
<1>2. CASE r > 0 /\ S = 0 .. r - 2 /\ r - 1 \in O
  BY <1>2 DEF Arrives
<1>3. CASE S = (0 .. r - 1) \cup {r + 1} /\ r \in O
  <2>1. S \cup {r} = 0 .. r + 1
    BY <1>3
  <2> QED
    BY <1>3, <2>1 DEF Arrives
<1> QED
  BY <1>1, <1>2, <1>3 DEF Arrives

(***************************************************************************)
(* The p-th frame of a line comes twice.                                   *)
(***************************************************************************)
LEMMA CloseAgain ==
  ASSUME NEW line, NEW N \in Nat, NEW F, NEW O, Close(line, N, F, {}, O),
         NEW p \in 1 .. N, NEW next,
         \A n \in 1 .. N + 1 : next[n] = IF n <= p THEN line[n] ELSE line[n - 1]
  PROVE  Close(next, N + 1, F, {line[p]}, O)
<1>0. Close(line, N, F, {line[p]}, O)
  BY CloseGrows
<1>1. ASSUME NEW i \in 1 .. N + 1
      PROVE  next[i] \in Nat /\ Arrives(next[i], F \cup Earlier(next, i), {line[p]}, O)
  <2>1. CASE i <= p
    <3>1. Earlier(next, i) = Earlier(line, i)
      <4>1. p \in Nat /\ i \in 1 .. p /\ \A n \in 1 .. p - 1 : next[n] = line[n]
        BY <2>1
      <4> QED
        BY <4>1, SameEarlier
    <3>2. i \in 1 .. N /\ next[i] = line[i]
      BY <2>1
    <3> QED
      BY <1>0, <3>1, <3>2 DEF Close
  <2>2. CASE i = p + 1
    <3>1. next[i] = line[p] /\ line[p] \in Nat /\ Arrives(line[p], F \cup Earlier(line, p), {}, O)
      BY <2>2 DEF Close
    <3>2. Earlier(next, i) = Earlier(line, p) \cup {line[p]}
      <4>1. ASSUME NEW n \in 1 .. i - 1 PROVE next[n] \in Earlier(line, p) \cup {line[p]}
        <5>1. next[n] = line[n] /\ (n = p \/ n \in 1 .. p - 1)
          BY <2>2
        <5> QED
          BY <5>1 DEF Earlier
      <4>2. ASSUME NEW n \in 1 .. p PROVE line[n] \in Earlier(next, i)
        <5>1. n \in 1 .. i - 1 /\ next[n] = line[n]
          BY <2>2
        <5> QED
          BY <5>1 DEF Earlier
      <4> QED
        BY <4>1, <4>2 DEF Earlier
    <3>3. F \cup Earlier(next, i) = (F \cup Earlier(line, p)) \cup {line[p]}
      BY <3>2
    <3> QED
      BY <3>1, <3>3, ArrivesAgain
  <2>3. CASE i > p + 1
    <3>1. i - 1 \in 1 .. N /\ next[i] = line[i - 1]
      BY <2>3
    <3>2. Earlier(next, i) = Earlier(line, i - 1)
      <4>1. ASSUME NEW n \in 1 .. i - 1
            PROVE  \E m \in 1 .. (i - 1) - 1 : next[n] = line[m]
        <5>1. CASE n <= p
          <6>1. n \in 1 .. (i - 1) - 1 /\ next[n] = line[n]
            BY <2>3, <5>1
          <6> QED
            BY <6>1
        <5>2. CASE ~(n <= p)
          <6>1. n - 1 \in 1 .. (i - 1) - 1 /\ next[n] = line[n - 1]
            BY <2>3, <5>2
          <6> QED
            BY <6>1
        <5> QED
          BY <5>1, <5>2
      <4>2. ASSUME NEW m \in 1 .. (i - 1) - 1
            PROVE  \E n \in 1 .. i - 1 : next[n] = line[m]
        <5>1. CASE m <= p
          <6>1. m \in 1 .. i - 1 /\ next[m] = line[m]
            BY <2>3, <5>1
          <6> QED
            BY <6>1
        <5>2. CASE ~(m <= p)
          <6>1. m + 1 \in 1 .. i - 1 /\ next[m + 1] = line[m]
            BY <2>3, <5>2
          <6> QED
            BY <6>1
        <5> QED
          BY <5>1, <5>2
      <4> QED
        BY <4>1, <4>2, SameFrames
    <3> QED
      BY <1>0, <3>1, <3>2 DEF Close
  <2> QED
    BY <2>1, <2>2, <2>3
<1> QED
  BY <1>1 DEF Close

(***************************************************************************)
(* Until a frame is overtaken, a line rises one by one where it rises.     *)
(***************************************************************************)
LEMMA CloseRises ==
  ASSUME NEW line, NEW N \in Nat, NEW F, NEW R, Close(line, N, F, R, {}),
         NEW p \in 1 .. N - 1, line[p] < line[p + 1]
  PROVE  LET S == F \cup Earlier(line, p)
         IN  /\ line[p] \in Nat /\ line[p + 1] = line[p] + 1
             /\ S = 0 .. line[p] - 1 \/ (S = 0 .. line[p] /\ line[p] \in R)
<1> DEFINE a == line[p]
           b == line[p + 1]
           S == F \cup Earlier(line, p)
           U == F \cup Earlier(line, p + 1)
<1>1. p \in 1 .. N /\ p + 1 \in 1 .. N
  OBVIOUS
<1>2. a \in Nat /\ b \in Nat /\ Arrives(a, S, R, {}) /\ Arrives(b, U, R, {})
  BY <1>1 DEF Close
<1>3. U = S \cup {a}
  <2>1. \A n \in 1 .. p : n = p \/ n \in 1 .. p - 1
    OBVIOUS
  <2>2. Earlier(line, p + 1) = Earlier(line, p) \cup {a}
    BY <1>1, <2>1 DEF Earlier
  <2> QED
    BY <2>2
<1>4. S = 0 .. a - 1 \/ (S = 0 .. a /\ a \in R)
  BY <1>2 DEF Arrives
<1>5. U = 0 .. b - 1 \/ U = 0 .. b
  BY <1>2 DEF Arrives
<1> HIDE DEF S, U, a, b
<1>6. a < b
  BY DEF a, b
<1>7. U = 0 .. a
  BY <1>2, <1>3, <1>4
<1>8. b = a + 1
  <2>1. b \notin U
    BY <1>2, <1>6, <1>7
  <2>2. b \in 0 .. b /\ b - 1 \in 0 .. b - 1
    BY <1>2, <1>6
  <2>3. U = 0 .. b - 1
    BY <1>5, <2>1, <2>2
  <2>4. b - 1 \in U
    BY <2>2, <2>3
  <2> QED
    BY <1>2, <1>6, <1>7, <2>4
<1> QED
  BY <1>2, <1>4, <1>8 DEF S, a, b

(***************************************************************************)
(* The p-th frame of a line is overtaken by the next one.                  *)
(***************************************************************************)
LEMMA CloseOvertaken ==
  ASSUME NEW line, NEW N \in Nat, NEW F, NEW R, Close(line, N, F, R, {}),
         NEW p \in 1 .. N - 1, line[p] < line[p + 1],
         NEW next, \A n \in 1 .. N : next[n] = IF n = p THEN line[p + 1]
                                               ELSE IF n = p + 1 THEN line[p]
                                               ELSE line[n]
  PROVE  Close(next, N, F, R, {line[p]})
<1>0. Close(line, N, F, R, {line[p]})
  BY CloseGrows
<1> DEFINE a == line[p]
           S == F \cup Earlier(line, p)
<1>1. /\ a \in Nat /\ line[p + 1] = a + 1
      /\ S = 0 .. a - 1 \/ (S = 0 .. a /\ a \in R)
  BY CloseRises
<1>2. p \in 1 .. N /\ p + 1 \in 1 .. N /\ next[p] = a + 1 /\ next[p + 1] = a
  BY <1>1
<1>3. ASSUME NEW i \in 1 .. p PROVE Earlier(next, i) = Earlier(line, i)
  <2>1. p \in Nat /\ \A n \in 1 .. p - 1 : next[n] = line[n]
    OBVIOUS
  <2> QED
    BY <2>1, SameEarlier
<1>4. ASSUME NEW i \in 1 .. N
      PROVE  next[i] \in Nat /\ Arrives(next[i], F \cup Earlier(next, i), R, {a})
  <2>1. CASE i < p
    <3>1. next[i] = line[i] /\ Earlier(next, i) = Earlier(line, i)
      BY <1>3, <2>1
    <3> QED
      BY <1>0, <3>1 DEF Close
  <2>2. CASE i = p
    <3>1. F \cup Earlier(next, i) = S
      BY <1>3, <2>2
    <3> HIDE DEF S, a
    <3>2. Arrives(a + 1, S, R, {a})
      <4>1. CASE S = 0 .. a - 1
        <5>1. S = 0 .. (a + 1) - 2 /\ (a + 1) - 1 = a /\ a + 1 > 0
          BY <1>1, <4>1
        <5> QED
          BY <5>1 DEF Arrives
      <4>2. CASE S = 0 .. a
        <5>1. S = 0 .. (a + 1) - 1
          BY <1>1, <4>2
        <5> QED
          BY <5>1 DEF Arrives
      <4> QED
        BY <1>1, <4>1, <4>2
    <3>3. next[i] = a + 1 /\ a + 1 \in Nat
      BY <1>1, <1>2, <2>2
    <3> QED
      BY <3>1, <3>2, <3>3
  <2>3. CASE i = p + 1
    <3>1. F \cup Earlier(next, i) = S \cup {a + 1}
      <4>1. \A n \in 1 .. i - 1 : n = p \/ n \in 1 .. p - 1
        BY <2>3
      <4>2. p \in 1 .. i - 1 /\ \A n \in 1 .. p - 1 : n \in 1 .. i - 1
        BY <2>3
      <4>3. Earlier(next, i) = Earlier(next, p) \cup {next[p]}
        BY <4>1, <4>2 DEF Earlier
      <4>4. Earlier(next, p) = Earlier(line, p)
        BY <1>3
      <4> QED
        BY <1>2, <4>3, <4>4
    <3> HIDE DEF S, a
    <3>2. Arrives(a, S \cup {a + 1}, R, {a})
      <4>1. CASE S = 0 .. a - 1
        BY <4>1 DEF Arrives
      <4>2. CASE S = 0 .. a /\ a \in R
        <5>1. S \cup {a + 1} = 0 .. a + 1
          BY <1>1, <4>2
        <5> QED
          BY <4>2, <5>1 DEF Arrives
      <4> QED
        BY <1>1, <4>1, <4>2
    <3> QED
      BY <1>1, <1>2, <2>3, <3>1, <3>2
  <2>4. CASE i > p + 1
    <3>1. next[i] = line[i]
      BY <2>4
    <3>2. Earlier(next, i) = Earlier(line, i)
      <4>1. ASSUME NEW n \in 1 .. i - 1
            PROVE  \E m \in 1 .. i - 1 : next[n] = line[m]
        <5>1. p \in 1 .. i - 1 /\ p + 1 \in 1 .. i - 1
          BY <2>4
        <5>2. CASE n = p
          BY <5>1, <5>2
        <5>3. CASE n = p + 1
          BY <5>1, <5>3
        <5>4. CASE n # p /\ n # p + 1
          BY <5>4
        <5> QED
          BY <5>2, <5>3, <5>4
      <4>2. ASSUME NEW m \in 1 .. i - 1
            PROVE  \E n \in 1 .. i - 1 : next[n] = line[m]
        <5>1. p \in 1 .. i - 1 /\ p + 1 \in 1 .. i - 1
          BY <2>4
        <5>2. CASE m = p
          BY <5>1, <5>2
        <5>3. CASE m = p + 1
          BY <5>1, <5>3
        <5>4. CASE m # p /\ m # p + 1
          BY <5>4
        <5> QED
          BY <5>2, <5>3, <5>4
      <4> QED
        BY <4>1, <4>2, SameFrames
    <3> QED
      BY <1>0, <3>1, <3>2 DEF Close
  <2> QED
    BY <2>1, <2>2, <2>3, <2>4
<1> QED
  BY <1>4 DEF Close

(***************************************************************************)
(* It is, and the one that overtakes it comes again after it: the line of  *)
(* CloseAgain, overtaken.                                                  *)
(***************************************************************************)
LEMMA CloseBoth ==
  ASSUME NEW line, NEW N \in Nat, NEW F, Close(line, N, F, {}, {}),
         NEW p \in 1 .. N - 1, line[p] < line[p + 1],
         NEW next, \A n \in 1 .. N + 1 : next[n] = IF n < p THEN line[n]
                                                   ELSE IF n = p THEN line[p + 1]
                                                   ELSE line[n - 1]
  PROVE  Close(next, N + 1, F, {line[p + 1]}, {line[p]})
<1> DEFINE twice == [n \in 1 .. N + 1 |-> IF n <= p + 1 THEN line[n] ELSE line[n - 1]]
<1>1. Close(twice, N + 1, F, {line[p + 1]}, {})
  <2>1. p + 1 \in 1 .. N
    OBVIOUS
  <2>2. \A n \in 1 .. N + 1 : twice[n] = IF n <= p + 1 THEN line[n] ELSE line[n - 1]
    OBVIOUS
  <2> HIDE DEF twice
  <2> QED
    BY <2>1, <2>2, CloseAgain
<1>2. twice[p] = line[p] /\ twice[p + 1] = line[p + 1]
  OBVIOUS
<1>3. \A n \in 1 .. N + 1 : next[n] = IF n = p THEN twice[p + 1]
                                      ELSE IF n = p + 1 THEN twice[p] ELSE twice[n]
  <2> TAKE n \in 1 .. N + 1
  <2>1. CASE n = p
    BY <1>2, <2>1
  <2>2. CASE n = p + 1
    <3>1. next[n] = line[n - 1] /\ n - 1 = p
      BY <2>2
    <3> QED
      BY <1>2, <2>2, <3>1
  <2>3. CASE n < p
    BY <2>3
  <2>4. CASE n > p + 1
    BY <2>4
  <2> QED
    BY <2>1, <2>2, <2>3, <2>4
<1> HIDE DEF twice
<1>4. N + 1 \in Nat /\ p \in 1 .. (N + 1) - 1
  OBVIOUS
<1>5. twice[p] < twice[p + 1]
  BY <1>2
<1>6. Close(next, N + 1, F, {line[p + 1]}, {twice[p]})
  BY <1>1, <1>3, <1>4, <1>5, CloseOvertaken
<1> QED
  BY <1>2, <1>6

\* The frames waiting in a ring, and those of a wire.
LineOf(waiting, wires) ==
    [i \in 1 .. Len(waiting) + Len(wires) |->
        IF i <= Len(waiting) THEN waiting[i].k ELSE wires[i - Len(waiting)]]

LEMMA LineOfFacts ==
  ASSUME NEW w \in Seq(Others), NEW v \in Seq(Nat)
  PROVE  /\ Len(w) \in Nat /\ Len(v) \in Nat
         /\ \A i \in 1 .. Len(w) : LineOf(w, v)[i] = w[i].k
         /\ \A i \in 1 .. Len(v) : LineOf(w, v)[Len(w) + i] = v[i]
<1>1. Len(w) \in Nat /\ Len(v) \in Nat
  BY LenProperties
<1>2. ASSUME NEW i \in 1 .. Len(w) PROVE LineOf(w, v)[i] = w[i].k
  <2>1. i \in 1 .. Len(w) + Len(v) /\ i <= Len(w)
    BY <1>1
  <2> QED
    BY <2>1 DEF LineOf
<1>3. ASSUME NEW i \in 1 .. Len(v) PROVE LineOf(w, v)[Len(w) + i] = v[i]
  <2>1. /\ Len(w) + i \in 1 .. Len(w) + Len(v)
        /\ ~(Len(w) + i <= Len(w)) /\ (Len(w) + i) - Len(w) = i
    BY <1>1
  <2> QED
    BY <2>1 DEF LineOf
<1> QED
  BY <1>1, <1>2, <1>3

Line == LineOf(Waiting, wire)
LineLength == Len(Waiting) + Len(wire)

(***************************************************************************)
(* Nothing lost, one frame is repeated at most, and one overtaken, by the  *)
(* next one.                                                               *)
(***************************************************************************)
InLine == lost = {} => Close(Line, LineLength, fed, repeated, overtaken)

LEMMA LineFacts ==
  ASSUME BaseInv
  PROVE  /\ Len(Waiting) \in Nat /\ Len(wire) \in Nat /\ LineLength \in Nat
         /\ LineLength = Len(Waiting) + Len(wire)
         /\ \A i \in 1 .. Len(Waiting) : Line[i] = Waiting[i].k
         /\ \A i \in 1 .. Len(wire) : Line[Len(Waiting) + i] = wire[i]
<1>1. Waiting \in Seq(Others) /\ wire \in Seq(Nat)
  BY Numbers
<1> QED
  BY <1>1, LineOfFacts DEF Line, LineLength

\* When a frame is received, or on its way, or lost, and none is.
LEMMA AllInLine ==
  ASSUME BaseInv, Covered, lost = {}
  PROVE  fed \cup Earlier(Line, LineLength + 1) = 0 .. engine.k - 1
<1>1. /\ Len(Waiting) \in Nat /\ Len(wire) \in Nat
      /\ LineLength = Len(Waiting) + Len(wire)
      /\ \A i \in 1 .. Len(Waiting) : Line[i] = Waiting[i].k
      /\ \A i \in 1 .. Len(wire) : Line[Len(Waiting) + i] = wire[i]
  BY LineFacts
<1>2. /\ engine.k \in Nat
      /\ \A n \in 1 .. Len(wire) : wire[n] \in Nat /\ wire[n] < engine.k
      /\ \A n \in 1 .. Len(Waiting) : Waiting[n].k \in Nat /\ Waiting[n].k < engine.k
      /\ \A a \in fed : a \in Nat /\ a < engine.k
  BY Numbers
<1>3. ASSUME NEW n \in 1 .. (LineLength + 1) - 1 PROVE Line[n] \in 0 .. engine.k - 1
  <2>1. CASE n <= Len(Waiting)
    <3>1. n \in 1 .. Len(Waiting)
      BY <1>1, <2>1
    <3> QED
      BY <1>1, <1>2, <3>1
  <2>2. CASE ~(n <= Len(Waiting))
    <3>1. n - Len(Waiting) \in 1 .. Len(wire) /\ Len(Waiting) + (n - Len(Waiting)) = n
      BY <1>1, <2>2
    <3>2. Line[n] = wire[n - Len(Waiting)]
      BY <1>1, <3>1
    <3> QED
      BY <1>2, <3>1, <3>2
  <2> QED
    BY <2>1, <2>2
<1>4. ASSUME NEW a \in 0 .. engine.k - 1, a \notin fed PROVE a \in Earlier(Line, LineLength + 1)
  <2>1. \/ \E i \in 1 .. Len(Waiting) : Waiting[i].k = a
        \/ \E i \in 1 .. Len(wire) : wire[i] = a
    BY <1>4 DEF Covered, Somewhere
  <2>2. \E i \in 1 .. (LineLength + 1) - 1 : Line[i] = a
    <3>1. CASE \E i \in 1 .. Len(Waiting) : Waiting[i].k = a
      <4>1. PICK i \in 1 .. Len(Waiting) : Waiting[i].k = a
        BY <3>1
      <4>2. i \in 1 .. (LineLength + 1) - 1
        BY <1>1
      <4> QED
        BY <1>1, <4>1, <4>2
    <3>2. CASE \E i \in 1 .. Len(wire) : wire[i] = a
      <4>1. PICK i \in 1 .. Len(wire) : wire[i] = a
        BY <3>2
      <4>2. Len(Waiting) + i \in 1 .. (LineLength + 1) - 1
        BY <1>1
      <4> QED
        BY <1>1, <4>1, <4>2
    <3> QED
      BY <2>1, <3>1, <3>2
  <2> QED
    BY <2>2 DEF Earlier
<1>5. fed \subseteq 0 .. engine.k - 1
  BY <1>2
<1> QED
  BY <1>3, <1>4, <1>5 DEF Earlier

\* One more frame on a wire, and the first of a ring taken.
LEMMA LineSent ==
  ASSUME NEW w \in Seq(Others), NEW v \in Seq(Nat), NEW r \in Nat
  PROVE  /\ Len(Append(v, r)) = Len(v) + 1
         /\ \A n \in 1 .. Len(w) + Len(v) : LineOf(w, Append(v, r))[n] = LineOf(w, v)[n]
         /\ LineOf(w, Append(v, r))[Len(w) + Len(v) + 1] = r
<1> DEFINE u == Append(v, r)
<1>1. Len(w) \in Nat /\ Len(v) \in Nat
  BY LenProperties
<1>2. u \in Seq(Nat) /\ Len(u) = Len(v) + 1 /\ u[Len(v) + 1] = r
      /\ \A i \in 1 .. Len(v) : u[i] = v[i]
  BY <1>1, AppendProperties
<1> HIDE DEF u
<1>3. ASSUME NEW n \in 1 .. Len(w) + Len(v) PROVE LineOf(w, u)[n] = LineOf(w, v)[n]
  <2>1. CASE n <= Len(w)
    <3>1. n \in 1 .. Len(w)
      BY <1>1, <2>1
    <3> QED
      BY <1>2, <3>1, LineOfFacts
  <2>2. CASE ~(n <= Len(w))
    <3>1. n - Len(w) \in 1 .. Len(v) /\ n - Len(w) \in 1 .. Len(u) /\ Len(w) + (n - Len(w)) = n
      BY <1>1, <1>2, <2>2
    <3>2. LineOf(w, u)[n] = u[n - Len(w)] /\ LineOf(w, v)[n] = v[n - Len(w)]
      <4> DEFINE m == n - Len(w)
      <4>1. m \in 1 .. Len(v) /\ m \in 1 .. Len(u) /\ Len(w) + m = n
        BY <3>1
      <4> HIDE DEF m
      <4>2. LineOf(w, u)[Len(w) + m] = u[m] /\ LineOf(w, v)[Len(w) + m] = v[m]
        BY <1>2, <4>1, LineOfFacts
      <4> QED
        BY <4>1, <4>2 DEF m
    <3> QED
      BY <1>2, <3>1, <3>2
  <2> QED
    BY <2>1, <2>2
<1>4. LineOf(w, u)[Len(w) + Len(v) + 1] = r
  <2> DEFINE m == Len(v) + 1
  <2>1. m \in 1 .. Len(u) /\ Len(w) + m = Len(w) + Len(v) + 1
    BY <1>1, <1>2
  <2>2. LineOf(w, u)[Len(w) + m] = u[m]
    <3> HIDE DEF m
    <3> QED
      BY <1>2, <2>1, LineOfFacts
  <2> QED
    BY <1>2, <2>1, <2>2
<1> QED
  BY <1>2, <1>3, <1>4 DEF u

LEMMA LineTaken ==
  ASSUME NEW w \in Seq(Others), w # <<>>, NEW v \in Seq(Nat)
  PROVE  /\ Len(Tail(w)) = Len(w) - 1 /\ Len(w) > 0 /\ LineOf(w, v)[1] = Head(w).k
         /\ \A n \in 1 .. (Len(w) + Len(v)) - 1 :
               LineOf(Tail(w), v)[n] = LineOf(w, v)[n + 1]
<1> DEFINE u == Tail(w)
<1>1. Len(w) \in Nat /\ Len(v) \in Nat
  BY LenProperties
<1>2. /\ Len(w) > 0 /\ Head(w) = w[1] /\ u \in Seq(Others) /\ Len(u) = Len(w) - 1
      /\ \A i \in 1 .. Len(u) : u[i] = w[i + 1]
  BY <1>1, EmptySeq, HeadTailProperties
<1> HIDE DEF u
<1>3. ASSUME NEW n \in 1 .. (Len(w) + Len(v)) - 1 PROVE LineOf(u, v)[n] = LineOf(w, v)[n+1]
  <2>1. CASE n <= Len(u)
    <3> DEFINE m == n + 1
    <3>1. n \in 1 .. Len(u) /\ m \in 1 .. Len(w)
      BY <1>1, <1>2, <2>1
    <3>2. LineOf(u, v)[n] = u[n].k /\ u[n] = w[m]
      BY <1>2, <3>1, LineOfFacts
    <3>3. LineOf(w, v)[m] = w[m].k
      <4> HIDE DEF m
      <4> QED
        BY <3>1, LineOfFacts
    <3> QED
      BY <3>2, <3>3
  <2>2. CASE ~(n <= Len(u))
    <3> DEFINE m == n - Len(u)
    <3>1. m \in 1 .. Len(v) /\ Len(u) + m = n /\ Len(w) + m = n + 1
      BY <1>1, <1>2, <2>2
    <3> HIDE DEF m
    <3>2. LineOf(u, v)[Len(u) + m] = v[m] /\ LineOf(w, v)[Len(w) + m] = v[m]
      BY <1>2, <3>1, LineOfFacts
    <3> QED
      BY <3>1, <3>2
  <2> QED
    BY <2>1, <2>2
<1>4. LineOf(w, v)[1] = Head(w).k
  <2>1. 1 \in 1 .. Len(w)
    BY <1>1, <1>2
  <2> QED
    BY <1>2, <2>1, LineOfFacts
<1> QED
  BY <1>2, <1>3, <1>4 DEF u

\* The frame e reaches the ring; v1 is what is left of its wire.
LineJoined(w, v, e, v1) ==
    /\ Len(Append(w, e)) = Len(w) + 1
    /\ \A n \in 1 .. Len(w) : LineOf(Append(w, e), v1)[n] = LineOf(w, v)[n]
    /\ LineOf(Append(w, e), v1)[Len(w) + 1] = e.k
    /\ \A n \in 1 .. Len(v1) : LineOf(Append(w, e), v1)[Len(w) + 1 + n] = v1[n]
    /\ \A n \in 1 .. Len(v) : LineOf(w, v)[Len(w) + n] = v[n]

LEMMA LineArrived ==
  ASSUME NEW w \in Seq(Others), NEW v \in Seq(Nat), NEW e \in Others, NEW v1 \in Seq(Nat)
  PROVE  LineJoined(w, v, e, v1)
<1> DEFINE u == Append(w, e)
<1>1. Len(w) \in Nat /\ Len(v) \in Nat
  BY LenProperties
<1>2. u \in Seq(Others) /\ Len(u) = Len(w) + 1 /\ u[Len(w) + 1] = e
      /\ \A i \in 1 .. Len(w) : u[i] = w[i]
  BY <1>1, AppendProperties
<1> HIDE DEF u
<1>3. /\ \A n \in 1 .. Len(u) : LineOf(u, v1)[n] = u[n].k
      /\ \A n \in 1 .. Len(v1) : LineOf(u, v1)[Len(u) + n] = v1[n]
      /\ \A n \in 1 .. Len(w) : LineOf(w, v)[n] = w[n].k
      /\ \A n \in 1 .. Len(v) : LineOf(w, v)[Len(w) + n] = v[n]
  BY <1>2, LineOfFacts
<1>4. \A n \in 1 .. Len(w) : n \in 1 .. Len(u)
  BY <1>1, <1>2
<1>5. Len(w) + 1 \in 1 .. Len(u)
  BY <1>1, <1>2
<1>6. \A n \in 1 .. Len(w) : LineOf(u, v1)[n] = LineOf(w, v)[n]
  BY <1>2, <1>3, <1>4
<1>7. LineOf(u, v1)[Len(w) + 1] = e.k
  BY <1>2, <1>3, <1>5
<1> QED
  BY <1>2, <1>3, <1>6, <1>7 DEF LineJoined, u

\* In a line of N the frame at p comes, and again.
ComesFirst(next, length, line, N, p, again) ==
    /\ length = IF again THEN N + 1 ELSE N
    /\ again => \A n \in 1 .. N + 1 : next[n] = IF n <= p THEN line[n] ELSE line[n - 1]
    /\ ~again => \A n \in 1 .. N : next[n] = line[n]

LEMMA LineFirst ==
  ASSUME NEW w \in Seq(Others), NEW v \in Seq(Nat), NEW e \in Others,
         1 \in DOMAIN v, e.k = v[1], NEW again \in BOOLEAN,
         NEW v1, v1 = IF again THEN v ELSE Without(v, 1)
  PROVE  /\ Len(w) + 1 \in 1 .. Len(w) + Len(v) /\ LineOf(w, v)[Len(w) + 1] = v[1]
         /\ ComesFirst(LineOf(Append(w, e), v1), Len(Append(w, e)) + Len(v1),
                       LineOf(w, v), Len(w) + Len(v), Len(w) + 1, again)
<1> DEFINE L == Len(w)
           M == Len(v)
           line == LineOf(w, v)
           next == LineOf(Append(w, e), v1)
<1>1. L \in Nat /\ M \in Nat /\ 1 \in 1 .. M
  BY LenProperties
<1>2. /\ v1 \in Seq(Nat)
      /\ again => v1 = v /\ Len(v1) = M
      /\ ~again => Len(v1) = M - 1 /\ \A n \in 1 .. M - 1 : v1[n] = v[n + 1]
  <2>1. \A n \in 1 .. M - 1 : ~(n < 1)
    BY <1>1
  <2>2. /\ Without(v, 1) \in Seq(Nat) /\ Len(Without(v, 1)) = M - 1
        /\ \A n \in 1 .. M - 1 : Without(v, 1)[n] = IF n < 1 THEN v[n] ELSE v[n + 1]
    BY WithoutFacts
  <2> QED
    BY <2>1, <2>2
<1>3. /\ Len(Append(w, e)) = L + 1
      /\ \A n \in 1 .. L : next[n] = line[n]
      /\ next[L + 1] = v[1]
      /\ \A n \in 1 .. Len(v1) : next[L + 1 + n] = v1[n]
      /\ \A n \in 1 .. M : line[L + n] = v[n]
  <2>1. v1 \in Seq(Nat)
    BY <1>2
  <2>2. e.k = v[1]
    OBVIOUS
  <2>3. LineJoined(w, v, e, v1)
    BY <2>1, LineArrived
  <2> QED
    BY <2>2, <2>3 DEF LineJoined
<1> HIDE DEF L, M, line, next
<1>4. line[L + 1] = v[1]
  BY <1>1, <1>3
<1>5. ASSUME again, NEW n \in 1 .. L + M + 1
      PROVE  next[n] = IF n <= L + 1 THEN line[n] ELSE line[n - 1]
  <2>1. CASE n <= L
    <3>1. n \in 1 .. L
      BY <1>1, <2>1
    <3> QED
      BY <1>1, <1>3, <2>1, <3>1
  <2>2. CASE n = L + 1
    BY <1>1, <1>3, <1>4, <2>2
  <2>3. CASE n > L + 1
    <3> DEFINE m == n - (L + 1)
    <3>1. m \in 1 .. M /\ L + 1 + m = n /\ L + m = n - 1 /\ ~(n <= L + 1)
      BY <1>1, <2>3
    <3> HIDE DEF m
    <3>2. next[L + 1 + m] = v1[m] /\ line[L + m] = v[m] /\ v1 = v
      BY <1>2, <1>3, <1>5, <3>1
    <3> QED
      BY <3>1, <3>2
  <2> QED
    BY <1>1, <2>1, <2>2, <2>3
<1>6. ASSUME ~again, NEW n \in 1 .. L + M PROVE next[n] = line[n]
  <2>1. CASE n <= L
    <3>1. n \in 1 .. L
      BY <1>1, <2>1
    <3> QED
      BY <1>1, <1>3, <2>1, <3>1
  <2>2. CASE n = L + 1
    BY <1>1, <1>3, <1>4, <2>2
  <2>3. CASE n > L + 1
    <3> DEFINE m == n - (L + 1)
    <3>1. /\ m \in 1 .. M - 1 /\ m + 1 \in 1 .. M
          /\ L + 1 + m = n /\ L + (m + 1) = n
      BY <1>1, <2>3
    <3> HIDE DEF m
    <3>2. next[L + 1 + m] = v1[m] /\ line[L + (m + 1)] = v[m + 1] /\ v1[m] = v[m + 1]
      BY <1>2, <1>3, <1>6, <3>1
    <3> QED
      BY <3>1, <3>2
  <2> QED
    BY <1>1, <2>1, <2>2, <2>3
<1>7. L + 1 \in 1 .. L + M
  BY <1>1
<1>8. Len(Append(w, e)) + Len(v1) = IF again THEN L + M + 1 ELSE L + M
  <2> DEFINE y == Len(Append(w, e))
             z == Len(v1)
  <2>1. y = L + 1 /\ (again => z = M) /\ (~again => z = M - 1)
    BY <1>2, <1>3
  <2> HIDE DEF y, z
  <2>2. again => y + z = L + M + 1
    BY <1>1, <2>1
  <2>3. ~again => y + z = L + M
    BY <1>1, <2>1
  <2> QED
    BY <2>2, <2>3 DEF y, z
<1>9. ComesFirst(next, Len(Append(w, e)) + Len(v1), line, L + M, L + 1, again)
  BY <1>5, <1>6, <1>8 DEF ComesFirst
<1> QED
  BY <1>4, <1>7, <1>9 DEF L, M, line, next

\* In a line of N the frame at p + 1 comes before the one at p, and again.
PassesFirst(next, length, line, N, p, again) ==
    /\ length = IF again THEN N + 1 ELSE N
    /\ again => \A n \in 1 .. N + 1 :
                   next[n] = IF n < p THEN line[n]
                             ELSE IF n = p THEN line[p + 1] ELSE line[n - 1]
    /\ ~again => \A n \in 1 .. N :
                    next[n] = IF n = p THEN line[p + 1]
                              ELSE IF n = p + 1 THEN line[p] ELSE line[n]

LEMMA LineSecond ==
  ASSUME NEW w \in Seq(Others), NEW v \in Seq(Nat), NEW e \in Others,
         2 \in DOMAIN v, e.k = v[2], NEW again \in BOOLEAN,
         NEW v1, v1 = IF again THEN v ELSE Without(v, 2)
  PROVE  /\ Len(w) + 1 \in 1 .. Len(w) + Len(v) - 1
         /\ LineOf(w, v)[Len(w) + 1] = v[1] /\ LineOf(w, v)[(Len(w) + 1) + 1] = v[2]
         /\ PassesFirst(LineOf(Append(w, e), v1), Len(Append(w, e)) + Len(v1),
                        LineOf(w, v), Len(w) + Len(v), Len(w) + 1, again)
<1> DEFINE L == Len(w)
           M == Len(v)
           line == LineOf(w, v)
           next == LineOf(Append(w, e), v1)
<1>1. L \in Nat /\ M \in Nat /\ 1 \in 1 .. M /\ 2 \in 1 .. M
  BY LenProperties
<1>2. /\ v1 \in Seq(Nat)
      /\ again => v1 = v /\ Len(v1) = M
      /\ ~again => /\ Len(v1) = M - 1
                   /\ \A n \in 1 .. M - 1 : v1[n] = IF n < 2 THEN v[n] ELSE v[n + 1]
  <2>1. /\ Without(v, 2) \in Seq(Nat) /\ Len(Without(v, 2)) = M - 1
        /\ \A n \in 1 .. M - 1 : Without(v, 2)[n] = IF n < 2 THEN v[n] ELSE v[n + 1]
    BY WithoutFacts
  <2> QED
    BY <2>1
<1>3. /\ Len(Append(w, e)) = L + 1
      /\ \A n \in 1 .. L : next[n] = line[n]
      /\ next[L + 1] = v[2]
      /\ \A n \in 1 .. Len(v1) : next[L + 1 + n] = v1[n]
      /\ \A n \in 1 .. M : line[L + n] = v[n]
  <2>1. v1 \in Seq(Nat)
    BY <1>2
  <2>2. e.k = v[2]
    OBVIOUS
  <2>3. LineJoined(w, v, e, v1)
    BY <2>1, LineArrived
  <2> QED
    BY <2>2, <2>3 DEF LineJoined
<1> HIDE DEF L, M, line, next
<1>4. line[L + 1] = v[1] /\ line[(L + 1) + 1] = v[2]
  <2>1. L + 2 = (L + 1) + 1
    BY <1>1
  <2> QED
    BY <1>1, <1>3, <2>1
<1>5. ASSUME again, NEW n \in 1 .. L + M + 1
      PROVE  next[n] = IF n < L + 1 THEN line[n]
                       ELSE IF n = L + 1 THEN line[(L + 1) + 1] ELSE line[n - 1]
  <2>1. CASE n <= L
    <3>1. n \in 1 .. L /\ n < L + 1
      BY <1>1, <2>1
    <3> QED
      BY <1>3, <3>1
  <2>2. CASE n = L + 1
    <3>1. ~(n < L + 1)
      BY <1>1, <2>2
    <3> QED
      BY <1>3, <1>4, <2>2, <3>1
  <2>3. CASE n > L + 1
    <3> DEFINE m == n - (L + 1)
    <3>1. m \in 1 .. M /\ L + 1 + m = n /\ L + m = n - 1 /\ ~(n < L + 1) /\ n # L + 1
      BY <1>1, <2>3
    <3> HIDE DEF m
    <3>2. next[L + 1 + m] = v1[m] /\ line[L + m] = v[m] /\ v1 = v
      BY <1>2, <1>3, <1>5, <3>1
    <3> QED
      BY <3>1, <3>2
  <2> QED
    BY <1>1, <2>1, <2>2, <2>3
<1>6. ASSUME ~again, NEW n \in 1 .. L + M
      PROVE  next[n] = IF n = L + 1 THEN line[(L + 1) + 1]
                       ELSE IF n = (L + 1) + 1 THEN line[L + 1] ELSE line[n]
  <2>1. CASE n <= L
    <3>1. n \in 1 .. L /\ n # L + 1 /\ n # (L + 1) + 1
      BY <1>1, <2>1
    <3> QED
      BY <1>3, <3>1
  <2>2. CASE n = L + 1
    BY <1>3, <1>4, <2>2
  <2>3. CASE n = (L + 1) + 1
    <3>1. 1 \in 1 .. M - 1 /\ 1 < 2 /\ (L + 1) + 1 # L + 1
      BY <1>1
    <3>2. next[L + 1 + 1] = v1[1] /\ v1[1] = v[1]
      BY <1>2, <1>3, <1>6, <3>1
    <3> QED
      BY <1>4, <2>3, <3>1, <3>2
  <2>4. CASE n > (L + 1) + 1
    <3> DEFINE m == n - (L + 1)
    <3>1. /\ m \in 1 .. M - 1 /\ m + 1 \in 1 .. M /\ ~(m < 2)
          /\ L + 1 + m = n /\ L + (m + 1) = n /\ n # L + 1 /\ n # (L + 1) + 1
      BY <1>1, <2>4
    <3> HIDE DEF m
    <3>2. next[L + 1 + m] = v1[m] /\ line[L + (m + 1)] = v[m + 1] /\ v1[m] = v[m + 1]
      BY <1>2, <1>3, <1>6, <3>1
    <3> QED
      BY <3>1, <3>2
  <2> QED
    BY <1>1, <2>1, <2>2, <2>3, <2>4
<1>7. L + 1 \in 1 .. L + M - 1
  BY <1>1
<1>9. Len(Append(w, e)) + Len(v1) = IF again THEN L + M + 1 ELSE L + M
  <2> DEFINE y == Len(Append(w, e))
             z == Len(v1)
  <2>1. y = L + 1 /\ (again => z = M) /\ (~again => z = M - 1)
    BY <1>2, <1>3
  <2> HIDE DEF y, z
  <2>2. again => y + z = L + M + 1
    BY <1>1, <2>1
  <2>3. ~again => y + z = L + M
    BY <1>1, <2>1
  <2> QED
    BY <2>2, <2>3 DEF y, z
<1>8. PassesFirst(next, Len(Append(w, e)) + Len(v1), line, L + M, L + 1, again)
  BY <1>5, <1>6, <1>9 DEF PassesFirst
<1> QED
  BY <1>4, <1>7, <1>8 DEF L, M, line, next

LEMMA CloseSame ==
  ASSUME NEW line, NEW N \in Nat, NEW F, NEW R, NEW O, Close(line, N, F, R, O),
         NEW next, \A n \in 1 .. N : next[n] = line[n]
  PROVE  Close(next, N, F, R, O)
<1>1. ASSUME NEW i \in 1 .. N
      PROVE  next[i] \in Nat /\ Arrives(next[i], F \cup Earlier(next, i), R, O)
  <2>1. Earlier(next, i) = Earlier(line, i)
    <3>1. \A n \in 1 .. N - 1 : next[n] = line[n]
      OBVIOUS
    <3> QED
      BY <3>1, SameEarlier
  <2> QED
    BY <2>1 DEF Close
<1> QED
  BY <1>1 DEF Close

LEMMA LineStep ==
  ASSUME BaseInv, BaseInv', Steps, InOrder, Covered, InLine
  PROVE  InLine'
<1> SUFFICES ASSUME lost' = {} PROVE Close(Line, LineLength, fed, repeated, overtaken)'
  BY DEF InLine
<1>1. /\ Waiting \in Seq(Others) /\ wire \in Seq(Nat) /\ engine.k \in Nat
      /\ Len(Waiting) \in Nat /\ Len(wire) \in Nat /\ LineLength \in Nat
  BY Numbers, LineFacts
<1>2. /\ Line = LineOf(Waiting, wire) /\ LineLength = Len(Waiting) + Len(wire)
      /\ Line' = LineOf(Waiting', wire') /\ LineLength' = Len(Waiting') + Len(wire')
  BY DEF Line, LineLength
<1>4. Close(Line, LineLength, fed, repeated, overtaken)'
        <=> Close(Line', LineLength', fed', repeated', overtaken')
  BY DEF Close, Arrives, Earlier
<1> SUFFICES Close(Line', LineLength', fed', repeated', overtaken')
  BY <1>4
<1>5. lost = {} => Close(Line, LineLength, fed, repeated, overtaken)
  BY DEF InLine
<1>6. ASSUME UNCHANGED <<Waiting, wire, lost, fed, repeated, overtaken>>
      PROVE  Close(Line', LineLength', fed', repeated', overtaken')
  <2>1. Line' = Line /\ LineLength' = LineLength
    BY <1>2, <1>6
  <2> QED
    BY <1>5, <1>6, <2>1
<1>7. CASE Idle \/ Checked \/ Ticked
  BY <1>6, <1>7 DEF Idle, Checked, Ticked
<1>8. ASSUME NEW sent \in BOOLEAN, Sent(sent)
      PROVE  Close(Line', LineLength', fed', repeated', overtaken')
  <2>1. sent
    BY <1>8 DEF Sent
  <2>2. /\ lost = {} /\ wire' = Append(wire, engine.k) /\ Waiting' = Waiting
        /\ fed' = fed /\ repeated' = repeated /\ overtaken' = overtaken
    BY <1>8, <2>1 DEF Sent
  <2>3. fed \cup Earlier(Line, LineLength + 1) = 0 .. engine.k - 1
    BY <2>2, AllInLine
  <2>4. /\ Len(wire') = Len(wire) + 1
        /\ \A n \in 1 .. LineLength : Line'[n] = Line[n]
        /\ Line'[LineLength + 1] = engine.k
    BY <1>1, <1>2, <2>2, LineSent
  <2>5. LineLength' = LineLength + 1
    BY <1>1, <1>2, <2>2, <2>4
  <2> HIDE DEF Line, LineLength
  <2> DEFINE next == Line'
  <2>6. /\ \A n \in 1 .. LineLength : next[n] = Line[n]
        /\ Close(Line, LineLength, fed, repeated, overtaken)
    BY <1>5, <2>2, <2>4
  <2>7. next[LineLength + 1] = engine.k
    BY <2>4
  <2> HIDE DEF next
  <2>8. Close(next, LineLength + 1, fed, repeated, overtaken)
    BY <1>1, <2>3, <2>6, <2>7, CloseAppended
  <2> QED
    BY <2>2, <2>5, <2>8 DEF next
<1>9. ASSUME Dropped PROVE FALSE
  BY <1>9 DEF Dropped
<1>10. ASSUME NEW i \in DOMAIN wire, NEW again \in BOOLEAN, NEW kept \in BOOLEAN,
              Arrived(i, again, kept)
       PROVE  Close(Line', LineLength', fed', repeated', overtaken')
  <2>1. kept
    BY <1>10 DEF Arrived
  <2> DEFINE e == [k |-> wire[i], at |-> now, own |-> FALSE]
  <2>2. /\ lost = {} /\ fed' = fed
        /\ again => repeated = {}
        /\ i > 1 => i = 2 /\ overtaken = {}
        /\ repeated' = repeated \cup {x \in {wire[i]} : again}
        /\ overtaken' = overtaken \cup {x \in {wire[1]} : i > 1}
        /\ wire' = IF again THEN wire ELSE Without(wire, i)
        /\ Waiting' = Append(Waiting, e)
    BY <1>10, <2>1 DEF Arrived
  <2>3. e \in Others /\ e.k = wire[i] /\ i \in 1 .. Len(wire)
    <3>1. now \in Nat /\ wire \in Seq(Nat)
      BY <1>1 DEF BaseInv
    <3>2. i \in 1 .. Len(wire) /\ Frame(i) \in Others /\ Frame(i).k = wire[i]
      BY <3>1, FrameFacts
    <3> QED
      BY <3>2 DEF Frame
  <2>4. Close(Line, LineLength, fed, repeated, overtaken)
    BY <1>5, <2>2
  <2> HIDE DEF e
  <2> DEFINE p == Len(Waiting) + 1
             next == Line'
  <2>5. CASE i = 1
    <3>1. repeated' = repeated \cup {x \in {wire[1]} : again} /\ overtaken' = overtaken
      BY <2>2, <2>5
    <3>2. /\ p \in 1 .. LineLength /\ Line[p] = wire[1]
          /\ ComesFirst(next, LineLength', Line, LineLength, p, again)
      <4> DEFINE v1 == wire'
      <4>1. v1 = (IF again THEN wire ELSE Without(wire, 1)) /\ 1 \in DOMAIN wire /\ e.k = wire[1]
        BY <2>2, <2>3, <2>5
      <4>2. Line' = LineOf(Append(Waiting, e), v1) /\ LineLength' = Len(Append(Waiting, e)) + Len(v1)
        BY <1>2, <2>2
      <4> HIDE DEF v1
      <4>3. /\ Len(Waiting) + 1 \in 1 .. Len(Waiting) + Len(wire)
            /\ LineOf(Waiting, wire)[Len(Waiting) + 1] = wire[1]
            /\ ComesFirst(LineOf(Append(Waiting, e), v1), Len(Append(Waiting, e)) + Len(v1),
                           LineOf(Waiting, wire), Len(Waiting) + Len(wire),
                           Len(Waiting) + 1, again)
        BY <1>1, <2>3, <4>1, LineFirst
      <4> QED
        BY <1>2, <4>2, <4>3 DEF p, next
    <3>3. CASE again
      <4>1. repeated = {} /\ repeated' = {Line[p]} /\ LineLength' = LineLength + 1
        BY <2>2, <3>1, <3>2, <3>3 DEF ComesFirst
      <4>2. \A n \in 1 .. LineLength + 1 : next[n] = IF n <= p THEN Line[n] ELSE Line[n - 1]
        BY <3>2, <3>3 DEF ComesFirst
      <4> HIDE DEF next, p, Line, LineLength
      <4>3. Close(Line, LineLength, fed, {}, overtaken)
        BY <2>4, <4>1
      <4>4. Close(next, LineLength + 1, fed, {Line[p]}, overtaken)
        BY <1>1, <3>2, <4>2, <4>3, CloseAgain
      <4> QED
        BY <2>2, <3>1, <4>1, <4>4 DEF next
    <3>4. CASE ~again
      <4>1. repeated' = repeated /\ LineLength' = LineLength
            /\ \A n \in 1 .. LineLength : next[n] = Line[n]
        BY <3>1, <3>2, <3>4 DEF ComesFirst
      <4> HIDE DEF Line, LineLength, next
      <4>2. Close(next, LineLength, fed, repeated, overtaken)
        BY <2>4, <4>1, <1>1, CloseSame
      <4> QED
        BY <2>2, <3>1, <4>1, <4>2 DEF next
    <3> QED
      BY <3>3, <3>4
  <2>6. CASE i # 1
    <3>1. /\ i = 2 /\ overtaken = {} /\ 2 \in DOMAIN wire /\ 1 \in 1 .. Len(wire)
          /\ overtaken' = {wire[1]} /\ repeated' = repeated \cup {x \in {wire[2]} : again}
          /\ e.k = wire[2] /\ wire' = IF again THEN wire ELSE Without(wire, 2)
      BY <1>1, <2>2, <2>3, <2>6
    <3>2. /\ p \in 1 .. LineLength - 1 /\ Line[p] = wire[1] /\ Line[p + 1] = wire[2]
          /\ PassesFirst(next, LineLength', Line, LineLength, p, again)
      <4> DEFINE v1 == wire'
      <4>1. v1 = (IF again THEN wire ELSE Without(wire, 2)) /\ 2 \in DOMAIN wire /\ e.k = wire[2]
        BY <3>1
      <4>2. Line' = LineOf(Append(Waiting, e), v1) /\ LineLength' = Len(Append(Waiting, e)) + Len(v1)
        BY <1>2, <2>2
      <4> HIDE DEF v1
      <4>3. /\ Len(Waiting) + 1 \in 1 .. Len(Waiting) + Len(wire) - 1
            /\ LineOf(Waiting, wire)[Len(Waiting) + 1] = wire[1]
            /\ LineOf(Waiting, wire)[(Len(Waiting) + 1) + 1] = wire[2]
            /\ PassesFirst(LineOf(Append(Waiting, e), v1), Len(Append(Waiting, e)) + Len(v1),
                           LineOf(Waiting, wire), Len(Waiting) + Len(wire),
                           Len(Waiting) + 1, again)
        BY <1>1, <2>3, <4>1, LineSecond
      <4> QED
        BY <1>2, <4>2, <4>3 DEF p, next
    <3>3. Line[p] < Line[p + 1]
      <4>1. Ordered /\ 2 \in 1 .. Len(wire)
        BY <1>1, <3>1 DEF InOrder
      <4>2. wire[1] < wire[2]
        BY <3>1, <4>1 DEF Ordered
      <4> QED
        BY <3>2, <4>2
    <3>4. CASE again
      <4>1. repeated = {} /\ repeated' = {Line[p + 1]} /\ LineLength' = LineLength + 1
            /\ overtaken' = {Line[p]}
        BY <2>2, <3>1, <3>2, <3>4 DEF PassesFirst
      <4>2. \A n \in 1 .. LineLength + 1 :
               next[n] = IF n < p THEN Line[n] ELSE IF n = p THEN Line[p + 1] ELSE Line[n - 1]
        BY <3>2, <3>4 DEF PassesFirst
      <4> HIDE DEF next, p, Line, LineLength
      <4>3. Close(Line, LineLength, fed, {}, {})
        BY <2>4, <3>1, <4>1
      <4>4. Close(next, LineLength + 1, fed, {Line[p + 1]}, {Line[p]})
        BY <1>1, <3>2, <3>3, <4>2, <4>3, CloseBoth
      <4> QED
        BY <2>2, <4>1, <4>4 DEF next
    <3>5. CASE ~again
      <4>1. repeated' = repeated /\ LineLength' = LineLength /\ overtaken' = {Line[p]}
        BY <2>2, <3>1, <3>2, <3>5 DEF PassesFirst
      <4>2. \A n \in 1 .. LineLength :
               next[n] = IF n = p THEN Line[p + 1] ELSE IF n = p + 1 THEN Line[p] ELSE Line[n]
        BY <3>2, <3>5 DEF PassesFirst
      <4> HIDE DEF next, p, Line, LineLength
      <4>3. Close(Line, LineLength, fed, repeated, {})
        BY <2>4, <3>1
      <4>4. Close(next, LineLength, fed, repeated, {Line[p]})
        BY <1>1, <3>2, <3>3, <4>2, <4>3, CloseOvertaken
      <4> QED
        BY <2>2, <4>1, <4>4 DEF next
    <3> QED
      BY <3>4, <3>5
  <2> QED
    BY <2>5, <2>6
<1>11. CASE Taken
  <2>1. /\ Waiting # <<>> /\ Waiting' = Tail(Waiting) /\ wire' = wire /\ lost = {}
        /\ fed' = fed \cup {Head(Waiting).k} /\ repeated' = repeated /\ overtaken' = overtaken
    BY <1>11 DEF Taken
  <2>2. /\ Len(Waiting') = Len(Waiting) - 1 /\ Len(Waiting) > 0 /\ Line[1] = Head(Waiting).k
        /\ \A n \in 1 .. LineLength - 1 : Line'[n] = Line[n + 1]
    BY <1>1, <1>2, <2>1, LineTaken
  <2>3. LineLength' = LineLength - 1 /\ LineLength > 0
    BY <1>1, <1>2, <2>1, <2>2
  <2> DEFINE next == Line'
  <2>4. \A n \in 1 .. LineLength - 1 : next[n] = Line[n + 1]
    BY <2>2
  <2>5. Close(Line, LineLength, fed, repeated, overtaken)
    BY <1>5, <2>1
  <2> HIDE DEF next, Line, LineLength
  <2>6. Close(next, LineLength - 1, fed \cup {Line[1]}, repeated, overtaken)
    BY <1>1, <2>3, <2>4, <2>5, CloseTaken
  <2> QED
    BY <2>1, <2>2, <2>3, <2>6 DEF next
<1> QED
  BY <1>7, <1>8, <1>9, <1>10, <1>11 DEF Steps

(***************************************************************************)
(* The counters q accepted last are those of samples in K, by number, none *)
(* after the one T: the last of q at most D before it, the one before at   *)
(* most D + 1, and so on.                                                  *)
(***************************************************************************)
CountedAt(c, n) == c = n % Rate

Near(q, T, D, K) ==
    /\ q \in Seq(Nat) /\ Len(q) <= Window
    /\ \A i \in 1 .. Len(q) :
          \E n \in K : n <= T /\ n + D + (Len(q) - i) >= T /\ CountedAt(q[i], n)

LEMMA NearEmpty ==
  ASSUME NEW T, NEW D, NEW K
  PROVE  Near(<<>>, T, D, K)
<1>1. <<>> \in Seq(Nat) /\ Len(<<>>) = 0
  OBVIOUS
<1> QED
  BY <1>1, WindowAssumption DEF Near

LEMMA NearLater ==
  ASSUME NEW q, NEW T \in Int, NEW D \in Int, NEW K \in SUBSET Nat, Near(q, T, D, K),
         NEW T1 \in Int, T <= T1, NEW D1 \in Int, T1 + D <= T + D1, NEW K1 \in SUBSET Nat,
         \A n \in K : n <= T => n \in K1
  PROVE  Near(q, T1, D1, K1)
<1>1. q \in Seq(Nat) /\ Len(q) <= Window /\ Len(q) \in Nat
  BY LenProperties DEF Near
<1>2. ASSUME NEW i \in 1 .. Len(q)
      PROVE  \E n \in K1 : n <= T1 /\ n + D1 + (Len(q) - i) >= T1 /\ CountedAt(q[i], n)
  <2>1. PICK n \in K : n <= T /\ n + D + (Len(q) - i) >= T /\ CountedAt(q[i], n)
    BY <1>2 DEF Near
  <2>2. n \in K1 /\ n \in Nat
    BY <2>1
  <2>3. n <= T1 /\ n + D1 + (Len(q) - i) >= T1
    BY <1>1, <2>1, <2>2
  <2> QED
    BY <2>1, <2>2, <2>3
<1> QED
  BY <1>1, <1>2 DEF Near

LEMMA PushedIs ==
  ASSUME NEW q \in Seq(Nat), Len(q) <= Window, NEW c \in Nat
  PROVE  LET r == Pushed(q, c)
             z == IF Len(q) < Window THEN 0 ELSE 1
         IN  /\ r \in Seq(Nat) /\ Len(r) = Len(q) + 1 - z /\ r[Len(r)] = c
             /\ \A i \in 1 .. Len(r) - 1 : r[i] = q[i + z]
<1>1. Len(q) \in Nat /\ Window \in Nat /\ Window > 0
  BY LenProperties, WindowAssumption
<1>2. CASE Len(q) < Window
  <2> DEFINE r == Append(q, c)
  <2>1. r \in Seq(Nat) /\ Len(r) = Len(q) + 1 /\ r[Len(q) + 1] = c
        /\ \A i \in 1 .. Len(q) : r[i] = q[i]
    BY AppendProperties
  <2>2. Pushed(q, c) = r
    BY <1>2 DEF Pushed
  <2> HIDE DEF r
  <2> QED
    BY <1>1, <1>2, <2>1, <2>2
<1>3. CASE ~(Len(q) < Window)
  <2> DEFINE u == Tail(q)
             r == Append(u, c)
  <2>1. q # <<>>
    BY <1>1, <1>3, EmptySeq
  <2>2. u \in Seq(Nat) /\ Len(u) = Len(q) - 1 /\ \A i \in 1 .. Len(u) : u[i] = q[i + 1]
    BY <2>1, HeadTailProperties
  <2> HIDE DEF u
  <2>3. r \in Seq(Nat) /\ Len(r) = Len(u) + 1 /\ r[Len(u) + 1] = c
        /\ \A i \in 1 .. Len(u) : r[i] = u[i]
    BY <2>2, AppendProperties
  <2>4. Pushed(q, c) = r
    BY <1>3 DEF Pushed, u
  <2> HIDE DEF r
  <2>5. Len(r) = Len(q) /\ Len(u) = Len(r) - 1
    BY <1>1, <2>2, <2>3
  <2> QED
    BY <1>1, <1>3, <2>2, <2>3, <2>4, <2>5
<1> QED
  BY <1>2, <1>3

LEMMA PushedNear ==
  ASSUME NEW q, NEW T \in Int, NEW D \in Int, NEW K \in SUBSET Nat, Near(q, T, D, K),
         NEW T1 \in Int, T <= T1, NEW D1 \in Int, T1 + D <= T + D1 + 1,
         NEW K1 \in SUBSET Nat, K \subseteq K1, NEW n \in K1, n <= T1, n + D1 >= T1,
         NEW c \in Nat, CountedAt(c, n)
  PROVE  Near(Pushed(q, c), T1, D1, K1)
<1> DEFINE r == Pushed(q, c)
           z == IF Len(q) < Window THEN 0 ELSE 1
<1>1. q \in Seq(Nat) /\ Len(q) <= Window /\ Len(q) \in Nat /\ Window \in Nat
  BY LenProperties, WindowAssumption DEF Near
<1>2. /\ r \in Seq(Nat) /\ Len(r) = Len(q) + 1 - z /\ r[Len(r)] = c
      /\ \A i \in 1 .. Len(r) - 1 : r[i] = q[i + z]
  BY <1>1, PushedIs
<1>3. z \in {0, 1} /\ Len(q) + 1 - z <= Window
  BY <1>1
<1> HIDE DEF r, z
<1>4. ASSUME NEW i \in 1 .. Len(r)
      PROVE  \E m \in K1 : m <= T1 /\ m + D1 + (Len(r) - i) >= T1 /\ CountedAt(r[i], m)
  <2>1. CASE i = Len(r)
    BY <1>1, <1>2, <1>3, <2>1
  <2>2. CASE i # Len(r)
    <3> DEFINE l == Len(r)
               w == Len(q)
    <3>0. l \in Nat /\ w \in Nat /\ l = w + 1 - z /\ i \in 1 .. l /\ i # l /\ z \in Nat
      BY <1>1, <1>2, <1>3, <2>2
    <3> HIDE DEF l, w
    <3>1. i \in 1 .. l - 1 /\ i + z \in 1 .. w
      BY <3>0
    <3>2. PICK m \in K : m <= T /\ m + D + (w - (i + z)) >= T /\ CountedAt(q[i + z], m)
      BY <3>1 DEF Near, w
    <3>3. m \in K1 /\ m \in Nat /\ r[i] = q[i + z]
      BY <1>2, <3>1, <3>2 DEF l
    <3>4. m <= T1 /\ m + D1 + (l - i) >= T1
      <4>1. w - (i + z) + 1 = l - i /\ w - (i + z) \in Int /\ l - i \in Int
        BY <3>0
      <4> QED
        BY <3>2, <3>3, <4>1
    <3> QED
      BY <3>2, <3>3, <3>4 DEF l
  <2> QED
    BY <2>1, <2>2
<1> QED
  BY <1>2, <1>3, <1>4 DEF Near, r

\* The counter of a sample not in K, late, is not among them.
LEMMA NotNear ==
  ASSUME NEW q, NEW T \in Int, NEW D \in Int, NEW K \in SUBSET Nat, Near(q, T, D, K),
         NEW m \in Nat, m \notin K, T < m + Rate, m + D + Window <= T + Rate
  PROVE  m % Rate \notin Range(q)
<1>1. q \in Seq(Nat) /\ Len(q) <= Window /\ Len(q) \in Nat /\ Window \in Nat /\ Rate \in Nat
  BY LenProperties, WindowAssumption, RateFacts DEF Near
<1>2. SUFFICES ASSUME NEW i \in 1 .. Len(q), q[i] = m % Rate PROVE FALSE
  <2>1. DOMAIN q = 1 .. Len(q)
    BY <1>1, LenProperties
  <2> QED
    BY <2>1 DEF Range
<1>3. PICK n \in K : n <= T /\ n + D + (Len(q) - i) >= T /\ CountedAt(q[i], n)
  BY DEF Near
<1>4. n \in Nat /\ n # m /\ n % Rate = m % Rate
  BY <1>2, <1>3 DEF CountedAt
<1>5. n < m + Rate /\ m < n + Rate
  BY <1>1, <1>3, <1>4
<1>6. CASE n < m
  BY <1>4, <1>5, <1>6, DifferentCounts
<1>7. CASE m < n
  BY <1>4, <1>5, <1>7, DifferentCounts
<1> QED
  BY <1>4, <1>6, <1>7

\* A second is long against two frames and the window.
LEMMA SecondFacts ==
  /\ Rate \in Nat /\ Rate > 0 /\ Asdus \in Nat /\ Asdus > 0 /\ Window \in Nat
  /\ Window + 2 * Asdus <= Rate /\ Rate \div 2 \in Int
  /\ Rate = 2 * (Rate \div 2) \/ Rate = 2 * (Rate \div 2) + 1
<1>1. Rate \in Nat /\ Rate > 0 /\ Asdus \in Nat /\ Asdus > 0 /\ Window \in Nat
      /\ Window + 2 * Asdus <= Rate
  BY RateFacts, WindowAssumption, BusAssumption
<1> QED
  BY <1>1

\* The stream s has the sample T, and knows where smpCnt wraps.
AtSample(s, T) == s.known /\ WrapsAt(s) = Rate /\ s.smp = T % Rate

\* A sample e before the last is that much behind, across the wrap of smpCnt.
LEMMA BehindIs ==
  ASSUME NEW s, NEW T \in Nat, WrapsAt(s) = Rate, s.smp = T % Rate,
         NEW m \in Nat, m <= T, T < m + 2 * Asdus, 2 * Asdus <= Window + 1
  PROVE  Ahead(s, m % Rate) = m - T
<1>1. /\ Rate \in Nat /\ Rate > 0 /\ Asdus \in Nat /\ Asdus > 0 /\ Window \in Nat
      /\ Window + 2 * Asdus <= Rate /\ Rate \div 2 \in Int
      /\ Rate = 2 * (Rate \div 2) \/ Rate = 2 * (Rate \div 2) + 1
  BY SecondFacts
<1> DEFINE e == T - m
           h == Rate \div 2
           x == m % Rate
           y == T % Rate
           p == m \div Rate
           q == T \div Rate
<1>2. e \in Nat /\ 2 * e < Rate
  BY <1>1
<1>3. x \in 0 .. Rate - 1 /\ y \in 0 .. Rate - 1 /\ p \in Int /\ q \in Int
      /\ m = Rate * p + x /\ T = Rate * q + y
  BY <1>1
<1> DEFINE v == q - p
           d == x - y
           a == Rate * p
           b == Rate * q
<1>4. a \in Int /\ b \in Int /\ Rate * v = b - a /\ Rate * (v - 1) = b - a - Rate
      /\ v \in Int /\ v - 1 \in Int
  BY <1>1, <1>3
<1>5. d = Rate * v - e /\ d \in Int /\ m - T = 0 - e /\ Rate * (v - 1) = Rate * v - Rate
  <2>1. m = a + x /\ T = b + y
    BY <1>3
  <2> HIDE DEF a, b, x, y, v
  <2> QED
    BY <1>1, <1>3, <1>4, <2>1
<1>6. ~(s.smp >= WrapsAt(s)) /\ ~(x >= WrapsAt(s)) /\ WrapsAt(s) # 0
  BY <1>1, <1>3
<1>7. Ahead(s, x) = IF (x - s.smp) % Rate >= Rate \div 2 THEN ((x - s.smp) % Rate) - Rate
                    ELSE (x - s.smp) % Rate
  <2> HIDE DEF x
  <2> QED
    BY <1>6 DEF Ahead
<1>8. Ahead(s, x) = IF d % Rate >= h THEN (d % Rate) - Rate ELSE d % Rate
  BY <1>7
<1> HIDE DEF x, y, p, q, v, d, a, b, h, e
<1>9. CASE e = 0
  <2>1. d % Rate = 0
    <3>1. d = Rate * v + 0
      BY <1>5, <1>9, <1>1, <1>4
    <3> QED
      BY <1>1, <1>4, <1>5, <3>1, Division
  <2>2. ~(0 >= h)
    BY <1>1 DEF h
  <2>3. Ahead(s, x) = 0
    BY <1>8, <2>1, <2>2
  <2> QED
    BY <1>5, <1>9, <2>3 DEF x
<1>10. CASE e # 0
  <2> DEFINE f == Rate - e
  <2>1. f \in Nat /\ f < Rate /\ f >= h /\ f - Rate = 0 - e
    BY <1>1, <1>2, <1>10 DEF h
  <2>2. d = Rate * (v - 1) + f
    <3> DEFINE g == Rate * v
    <3>1. g \in Int
      BY <1>4, <1>1, <1>5
    <3>2. Rate * (v - 1) = g - Rate /\ d = g - e
      BY <1>5
    <3> HIDE DEF g
    <3> QED
      BY <1>1, <1>2, <3>1, <3>2
  <2> DEFINE w == v - 1
  <2>3. w \in Int /\ d = Rate * w + f
    BY <1>4, <2>2
  <2> HIDE DEF f, w
  <2>5. d % Rate = f
    <3>1. Rate \in Nat /\ Rate > 0 /\ d \in Int /\ f \in Nat /\ f < Rate
      BY <1>1, <1>5, <2>1
    <3> QED
      BY <2>3, <3>1, Division
  <2>4. Ahead(s, x) = 0 - e
    BY <1>8, <2>1, <2>5
  <2> QED
    BY <1>5, <2>4 DEF x
<1> QED
  BY <1>9, <1>10

\* All of a stream but what it makes of a sample behind its last.
Behind(r, s) ==
    /\ r \in SvStreamState /\ r.known /\ r.rate = s.rate /\ r.smp = s.smp
    /\ r.maxSeen = s.maxSeen /\ (r.wrapped <=> s.wrapped)

LEMMA OldSample ==
  ASSUME NEW s \in SvStreamState, NEW T \in Nat, AtSample(s, T), NEW t \in Nat,
         NEW m \in Nat, m <= T, T < m + 2 * Asdus, 2 * Asdus <= Window + 1,
         NEW c, c = m % Rate
  PROVE  LET r == FeedSample(s, c, t)
         IN  /\ Behind(r, s) /\ AtSample(r, T)
             /\ c \in Range(s.recent) => r.missed = s.missed /\ r.recent = s.recent
             /\ c \notin Range(s.recent) =>
                   /\ r.missed = IF s.missed = 0 THEN 0 ELSE s.missed - 1
                   /\ r.recent = Pushed(s.recent, c)
<1> DEFINE r == FeedSample(s, c, t)
           b == Reference(s, c, t)
           a == Ahead(b, c)
<1>1. c \in Nat /\ Rate # 0 /\ Asdus \in Nat /\ Window \in Nat
  BY SecondFacts
<1>2. s.known /\ WrapsAt(s) = Rate /\ s.smp = T % Rate
  BY DEF AtSample
<1>3. Hears(b, s, c, t)
  BY <1>1, ReferenceFacts
<1>4. Followed(r, s, c, t)
  BY <1>1, <1>2, FollowFacts
<1>5. FollowsFrom(r, s, b, a, c, t)
  BY <1>4 DEF Followed
<1> HIDE DEF b, r
<1>6. /\ b.rate = s.rate /\ b.smp = s.smp /\ b.maxSeen = s.maxSeen
      /\ (b.wrapped <=> s.wrapped)
  BY <1>1, <1>2, <1>3 DEF Hears
<1>7. WrapsAt(b) = Rate /\ b.smp = T % Rate
  BY <1>2, <1>6 DEF WrapsAt
<1>8. a = m - T
  BY <1>7, BehindIs
<1> HIDE DEF a
<1>9. a <= 0 /\ a + Window >= 0
  BY <1>1, <1>8
<1>10. /\ r \in SvStreamState /\ r.known /\ r.rate = s.rate /\ r.wrapped = b.wrapped
       /\ r.smp = s.smp /\ r.maxSeen = s.maxSeen
       /\ c \in Range(s.recent) => r.missed = s.missed /\ r.recent = s.recent
       /\ c \notin Range(s.recent) =>
             /\ r.missed = IF s.missed = 0 THEN 0 ELSE s.missed - 1
             /\ r.recent = Pushed(s.recent, c)
  BY <1>5, <1>9 DEF FollowsFrom
<1>11. Behind(r, s)
  BY <1>6, <1>10 DEF Behind
<1>12. WrapsAt(r) = Rate
  BY <1>2, <1>11 DEF WrapsAt, Behind
<1>13. AtSample(r, T)
  BY <1>2, <1>10, <1>12 DEF AtSample
<1> QED
  BY <1>10, <1>11, <1>13 DEF r


\* Its samples are numbered, from the first one of the stream.
Numbered(f, s, k, t, B) ==
    /\ f \in [0 .. Asdus -> SvStreamState]
    /\ f[0] = s /\ f[Asdus] = FeedSamples(s, Samples(k), t)
    /\ \A n \in 1 .. Asdus : f[n] = FeedSample(f[n-1], (B + n - 1) % Rate, t)

LEMMA NumberedSteps ==
  ASSUME NEW s \in SvStreamState, NEW k \in Nat, NEW t \in Nat, NEW B, B = k * Asdus
  PROVE  \E f : Numbered(f, s, k, t, B)
<1>1. Samples(k) \in Seq(Sample) /\ Len(Samples(k)) = Asdus
  BY SamplesFacts
<1>2. PICK f : FeedSteps(f, s, Samples(k), t)
  BY <1>1, FeedRecursion
<1>3. /\ f \in [0 .. Asdus -> SvStreamState] /\ f[0] = s
      /\ \A n \in 1 .. Asdus : f[n] = FeedSample(f[n-1], Samples(k)[n].smp, t)
      /\ FeedSamples(s, Samples(k), t) = f[Asdus]
  BY <1>1, <1>2 DEF FeedSteps
<1>4. ASSUME NEW n \in 1 .. Asdus PROVE Samples(k)[n].smp = (B + n - 1) % Rate
  BY SampleNumber
<1> QED
  BY <1>3, <1>4 DEF Numbered

\* A stream s, still at the sample T when one of its frames came late.
Keeps(r, s, T, D, K, limit) ==
    /\ Behind(r, s) /\ AtSample(r, T) /\ Near(r.recent, T, D, K)
    /\ r.missed <= limit

LEMMA KeepsFirst ==
  ASSUME NEW s \in SvStreamState, NEW T, AtSample(s, T), NEW D, NEW K,
         Near(s.recent, T, D, K), NEW limit \in Nat, s.missed <= limit
  PROVE  Keeps(s, s, T, D, K, limit)
BY DEF Keeps, Behind, AtSample

(***************************************************************************)
(* A frame whose samples were received all, once more: those no longer     *)
(* remembered are taken for late.                                          *)
(***************************************************************************)
LEMMA AgainFrame ==
  ASSUME NEW s \in SvStreamState, NEW T \in Nat, AtSample(s, T), NEW t \in Nat,
         NEW k \in Nat, NEW B \in Nat, B = k * Asdus, 2 * Asdus <= Window + 1,
         B + Asdus <= T + 1, T < B + 2 * Asdus,
         NEW K \in SUBSET Nat, \A n \in Nat : B <= n /\ n < B + Asdus => n \in K,
         NEW D \in Nat, D >= 2 * Asdus, Near(s.recent, T, D, K)
  PROVE  Keeps(FeedSamples(s, Samples(k), t), s, T, D, K, s.missed)
<1>1. /\ Rate \in Nat /\ Rate > 0 /\ Asdus \in Nat /\ Asdus > 0 /\ s.missed \in Nat
  BY SecondFacts, StreamFields
<1>0. PICK f : Numbered(f, s, k, t, B)
  BY NumberedSteps
<1>2. /\ f \in [0 .. Asdus -> SvStreamState]
      /\ f[0] = s /\ f[Asdus] = FeedSamples(s, Samples(k), t)
      /\ \A n \in 1 .. Asdus : f[n] = FeedSample(f[n-1], (B + n - 1) % Rate, t)
  BY <1>0 DEF Numbered
<1> DEFINE G == {n \in 0 .. Asdus : Keeps(f[n], s, T, D, K, s.missed)}
<1>3. 0 \in G
  <2>1. Keeps(s, s, T, D, K, s.missed)
    BY <1>1, KeepsFirst
  <2> QED
    BY <1>1, <1>2, <2>1
<1>4. \A n \in 0 .. Asdus - 1 : n \in G => n + 1 \in G
  <2> SUFFICES ASSUME NEW n \in 0 .. Asdus - 1, Keeps(f[n], s, T, D, K, s.missed)
               PROVE  Keeps(f[n+1], s, T, D, K, s.missed)
    BY <1>1
  <2> DEFINE m == B + n
             c == m % Rate
             u == f[n]
             v == f[n+1]
  <2>1. /\ n + 1 \in 1 .. Asdus /\ (n + 1) - 1 = n /\ B + (n + 1) - 1 = m
        /\ n \in 0 .. Asdus /\ n + 1 \in 0 .. Asdus
    BY <1>1
  <2>2. v = FeedSample(u, c, t) /\ u \in SvStreamState /\ v \in SvStreamState
    BY <1>2, <2>1
  <2>3. Behind(u, s) /\ AtSample(u, T) /\ Near(u.recent, T, D, K) /\ u.missed <= s.missed
    BY DEF Keeps
  <2>4. m \in Nat /\ m <= T /\ T < m + 2 * Asdus /\ m \in K /\ m + D >= T
    BY <1>1
  <2>5. c \in Nat /\ u.missed \in Nat
    BY <1>1, <2>2, <2>4, StreamFields
  <2> HIDE DEF u, v, m
  <2>6. /\ Behind(v, u) /\ AtSample(v, T)
        /\ c \in Range(u.recent) => v.missed = u.missed /\ v.recent = u.recent
        /\ c \notin Range(u.recent) =>
              /\ v.missed = IF u.missed = 0 THEN 0 ELSE u.missed - 1
              /\ v.recent = Pushed(u.recent, c)
    BY <2>2, <2>3, <2>4, OldSample
  <2>7. Near(v.recent, T, D, K)
    <3>1. CASE c \in Range(u.recent)
      BY <2>3, <2>6, <3>1
    <3>2. CASE c \notin Range(u.recent)
      <4>1. CountedAt(c, m)
        BY DEF CountedAt
      <4>2. Near(Pushed(u.recent, c), T, D, K)
        <5> HIDE DEF c
        <5>1. T <= T /\ T + D <= T + D + 1 /\ K \subseteq K /\ T \in Int /\ D \in Int
          BY <1>1
        <5> QED
          BY <2>3, <2>4, <2>5, <4>1, <5>1, PushedNear
      <4> QED
        BY <2>6, <3>2, <4>2
    <3> QED
      BY <3>1, <3>2
  <2>8. v.missed <= s.missed
    <3> HIDE DEF c
    <3> QED
      BY <1>1, <2>3, <2>5, <2>6
  <2>9. Behind(v, s)
    BY <2>3, <2>6 DEF Behind
  <2> QED
    BY <2>6, <2>7, <2>8, <2>9 DEF Keeps, v
<1>5. \A n \in 0 .. Asdus : n \in G
  <2> HIDE DEF G
  <2> QED
    BY <1>1, <1>3, <1>4, UpTo
<1>6. Asdus \in G
  BY <1>1, <1>5
<1> QED
  BY <1>2, <1>6

(***************************************************************************)
(* The one frame missing, overtaken by the next, comes: each of its        *)
(* samples is one the less to be missed.                                   *)
(***************************************************************************)
LEMMA FillFrame ==
  ASSUME NEW s \in SvStreamState, NEW T \in Nat, AtSample(s, T), NEW t \in Nat,
         NEW k \in Nat, NEW B \in Nat, B = k * Asdus, 2 * Asdus <= Window + 1,
         T = B + 2 * Asdus - 1, s.missed <= Asdus,
         NEW K \in SUBSET Nat, \A n \in K : n < B \/ B + Asdus <= n,
         Near(s.recent, T, 3 * Asdus, K)
  PROVE  Keeps(FeedSamples(s, Samples(k), t), s, T, 2 * Asdus, Nat, 0)
<1>1. /\ Rate \in Nat /\ Rate > 0 /\ Asdus \in Nat /\ Asdus > 0 /\ s.missed \in Nat
      /\ Window \in Nat /\ Window + 2 * Asdus <= Rate
  BY SecondFacts, StreamFields
<1>0. PICK f : Numbered(f, s, k, t, B)
  BY NumberedSteps
<1>2. /\ f \in [0 .. Asdus -> SvStreamState]
      /\ f[0] = s /\ f[Asdus] = FeedSamples(s, Samples(k), t)
      /\ \A n \in 1 .. Asdus : f[n] = FeedSample(f[n-1], (B + n - 1) % Rate, t)
  BY <1>0 DEF Numbered
<1> DEFINE L(n) == {x \in Nat : x \in K \/ (B <= x /\ x < B + n)}
           Good(n) == Keeps(f[n], s, T, 3 * Asdus - n, L(n), Asdus - n)
           G == {n \in 0 .. Asdus : Good(n)}
<1>3. 0 \in G
  <2>1. L(0) \in SUBSET Nat /\ \A n \in K : n \in L(0)
    OBVIOUS
  <2>2. Near(s.recent, T, 3 * Asdus - 0, L(0))
    <3> HIDE DEF L
    <3>1. /\ T \in Int /\ 3 * Asdus \in Int /\ 3 * Asdus - 0 \in Int /\ T <= T
          /\ T + 3 * Asdus <= T + (3 * Asdus - 0)
      BY <1>1
    <3> QED
      BY <2>1, <3>1, NearLater
  <2>3. Asdus - 0 \in Nat /\ s.missed <= Asdus - 0
    BY <1>1
  <2>4. Keeps(s, s, T, 3 * Asdus - 0, L(0), Asdus - 0)
    <3> HIDE DEF L
    <3> QED
      BY <2>2, <2>3, KeepsFirst
  <2> QED
    BY <1>1, <1>2, <2>4
<1> HIDE DEF Good
<1>4. \A n \in 0 .. Asdus - 1 : n \in G => n + 1 \in G
  <2> SUFFICES ASSUME NEW n \in 0 .. Asdus - 1, Good(n) PROVE Good(n + 1)
    BY <1>1
  <2> DEFINE m == B + n
             c == m % Rate
             u == f[n]
             v == f[n+1]
             Kn == L(n)
             Ku == L(n+1)
             D == 3 * Asdus - n
             Du == 3 * Asdus - (n + 1)
  <2>1. /\ n + 1 \in 1 .. Asdus /\ (n + 1) - 1 = n /\ B + (n + 1) - 1 = m
        /\ n \in 0 .. Asdus /\ n + 1 \in 0 .. Asdus
    BY <1>1
  <2>2. v = FeedSample(u, c, t) /\ u \in SvStreamState /\ v \in SvStreamState
    BY <1>2, <2>1
  <2>3. Behind(u, s) /\ AtSample(u, T) /\ Near(u.recent, T, D, Kn) /\ u.missed <= Asdus - n
    BY DEF Good, Keeps
  <2>4. /\ m \in Nat /\ m <= T /\ T < m + 2 * Asdus /\ T < m + Rate
        /\ m + Du >= T /\ m + D + Window <= T + Rate /\ D \in Int /\ Du \in Int /\ T \in Int
        /\ T <= T /\ T + D <= T + Du + 1 /\ B <= m /\ m < B + Asdus
    BY <1>1
  <2>5. c \in Nat /\ u.missed \in Nat
    <3>1. u.missed \in Nat
      BY <2>2, StreamFields
    <3>2. m \in Nat /\ Rate \in Nat /\ Rate > 0
      BY <1>1, <2>4
    <3> HIDE DEF m
    <3> QED
      BY <3>1, <3>2
  <2>6. Kn \in SUBSET Nat /\ Ku \in SUBSET Nat /\ Kn \subseteq Ku /\ m \in Ku /\ m \notin Kn
    <3>1. m \notin Kn
      BY <1>1, <2>4
    <3>2. m \in Ku
      BY <1>1, <2>4
    <3> QED
      BY <1>1, <3>1, <3>2
  <2> HIDE DEF u, v, m, D, Du, Kn, Ku, L
  <2>7. c \notin Range(u.recent)
    BY <2>3, <2>4, <2>6, NotNear
  <2>8. /\ Behind(v, u) /\ AtSample(v, T)
        /\ c \notin Range(u.recent) =>
              /\ v.missed = IF u.missed = 0 THEN 0 ELSE u.missed - 1
              /\ v.recent = Pushed(u.recent, c)
    BY <2>2, <2>3, <2>4, OldSample
  <2>9. Near(v.recent, T, Du, Ku)
    <3>1. CountedAt(c, m)
      BY DEF CountedAt
    <3> HIDE DEF c
    <3>2. Near(Pushed(u.recent, c), T, Du, Ku)
      BY <2>3, <2>4, <2>5, <2>6, <3>1, PushedNear
    <3> QED
      BY <2>7, <2>8, <3>2
  <2>10. v.missed <= Asdus - (n + 1)
    <3> HIDE DEF c
    <3> QED
      BY <1>1, <2>1, <2>3, <2>5, <2>7, <2>8
  <2>11. Behind(v, s)
    BY <2>3, <2>8 DEF Behind
  <2> QED
    BY <2>8, <2>9, <2>10, <2>11 DEF Good, Keeps, v, Du, Ku
<1>5. \A n \in 0 .. Asdus : n \in G
  <2> HIDE DEF G
  <2> QED
    BY <1>1, <1>3, <1>4, UpTo
<1>6. Good(Asdus)
  BY <1>1, <1>5
<1> DEFINE r == f[Asdus]
<1>7. /\ Behind(r, s) /\ AtSample(r, T) /\ Near(r.recent, T, 3 * Asdus - Asdus, L(Asdus))
      /\ r.missed <= Asdus - Asdus
  BY <1>6 DEF Good, Keeps
<1>8. L(Asdus) \in SUBSET Nat /\ \A n \in L(Asdus) : n \in Nat
  OBVIOUS
<1> HIDE DEF L, r
<1>9. Near(r.recent, T, 2 * Asdus, Nat)
  <2>1. /\ T \in Int /\ 3 * Asdus - Asdus \in Int /\ 2 * Asdus \in Int /\ T <= T
        /\ T + (3 * Asdus - Asdus) <= T + 2 * Asdus /\ Nat \in SUBSET Nat
    BY <1>1
  <2> QED
    BY <1>7, <1>8, <2>1, NearLater
<1>10. r.missed <= 0
  BY <1>1, <1>7
<1> QED
  BY <1>2, <1>7, <1>9, <1>10 DEF Keeps, r

\* The frame after the sample T, its samples accepted all.
LEMMA FrameNear ==
  ASSUME NEW k \in Nat, NEW B \in Nat, B = k * Asdus,
         NEW K \in SUBSET Nat, \A n \in Nat : B <= n /\ n < B + Asdus => n \in K,
         NEW D \in Nat, NEW before, Near(before, B - 1, D, K),
         NEW after, \E g : Pushes(g, before, after, k)
  PROVE  Near(after, B + Asdus - 1, D, K)
<1>1. Rate \in Nat /\ Rate > 0 /\ Asdus \in Nat /\ Asdus > 0
  BY SecondFacts
<1>2. PICK g : /\ g[0] = before /\ g[Asdus] = after
               /\ \A i \in 1 .. Asdus : g[i] = Pushed(g[i-1], First(k) + i - 1)
  BY DEF Pushes
<1>3. ASSUME NEW i \in 1 .. Asdus PROVE CountedAt(First(k) + i - 1, B + i - 1)
  <2>1. Samples(k)[i].smp = First(k) + i - 1
    BY SamplesFacts
  <2>2. Samples(k)[i].smp = (k * Asdus + i - 1) % Rate
    BY SampleNumber
  <2> QED
    BY <2>1, <2>2 DEF CountedAt
<1> DEFINE Good(n) == Near(g[n], B + n - 1, D, K)
           G == {n \in 0 .. Asdus : Good(n)}
<1>4. 0 \in G
  <2>1. B + 0 - 1 = B - 1
    OBVIOUS
  <2> QED
    BY <1>1, <1>2, <2>1
<1> HIDE DEF Good
<1>5. \A n \in 0 .. Asdus - 1 : n \in G => n + 1 \in G
  <2> SUFFICES ASSUME NEW n \in 0 .. Asdus - 1, Good(n) PROVE Good(n + 1)
    BY <1>1
  <2> DEFINE m == B + n
             c == First(k) + n
             T == B + n - 1
             T1 == B + (n + 1) - 1
  <2>1. /\ n + 1 \in 1 .. Asdus /\ (n + 1) - 1 = n /\ B + (n + 1) - 1 = m
        /\ First(k) + (n + 1) - 1 = c /\ c \in Nat
    BY <1>1, FirstFacts
  <2>2. g[n+1] = Pushed(g[n], c) /\ CountedAt(c, m)
    BY <1>2, <1>3, <2>1
  <2>3. Near(g[n], T, D, K)
    BY DEF Good
  <2>4. /\ m \in K /\ T \in Int /\ T1 \in Int /\ D \in Int /\ T <= T1 /\ m <= T1
        /\ T1 + D <= T1 + D /\ T1 + D <= T + D + 1 /\ m + D >= T1 /\ T1 = T + 1
    BY <1>1
  <2> HIDE DEF m, c, T, T1
  <2>5. Near(Pushed(g[n], c), T1, D, K)
    BY <2>1, <2>2, <2>3, <2>4, PushedNear
  <2> QED
    BY <2>2, <2>5 DEF Good, T1
<1>6. \A n \in 0 .. Asdus : n \in G
  <2> HIDE DEF G
  <2> QED
    BY <1>1, <1>4, <1>5, UpTo
<1>7. Good(Asdus)
  BY <1>1, <1>6
<1> QED
  BY <1>2, <1>7 DEF Good

\* The stream has the frame j, its last sample that numbered EndOf(j).
EndOf(j) == j * Asdus + Asdus - 1
StartOf(j) == j * Asdus

StreamAt(s, j) ==
    /\ s \in SvStreamState /\ s.known /\ s.rate \in {0, Rate}
    /\ SampleAt(s, j >= PerSecond, First(j) + Asdus - 1)

LEMMA EndFacts ==
  ASSUME NEW j \in Nat
  PROVE  /\ EndOf(j) \in Nat /\ StartOf(j) \in Nat /\ EndOf(j) = StartOf(j) + Asdus - 1
         /\ StartOf(j + 1) = StartOf(j) + Asdus /\ StartOf(j + 2) = StartOf(j) + 2 * Asdus
         /\ EndOf(j + 1) = StartOf(j) + 2 * Asdus - 1
         /\ EndOf(j) % Rate = First(j) + Asdus - 1
<1>1. Asdus \in Nat /\ Asdus > 0 /\ j * Asdus \in Nat
  BY SecondFacts
<1>2. (j + 1) * Asdus = j * Asdus + Asdus /\ (j + 2) * Asdus = j * Asdus + 2 * Asdus
  BY <1>1
<1>3. Asdus \in 1 .. Asdus
  BY <1>1
<1>4. Samples(j)[Asdus].smp = First(j) + Asdus - 1
  BY <1>3, SamplesFacts
<1>5. Samples(j)[Asdus].smp = (j * Asdus + Asdus - 1) % Rate
  BY <1>3, SampleNumber
<1> QED
  BY <1>1, <1>2, <1>4, <1>5 DEF EndOf, StartOf

LEMMA KnowsWrap ==
  ASSUME NEW s, NEW j \in Nat, StreamAt(s, j), s.rate # 0 \/ j >= PerSecond
  PROVE  AtSample(s, EndOf(j))
<1>1. s.known /\ s.smp = EndOf(j) % Rate
  BY EndFacts DEF StreamAt, SampleAt
<1>2. Rate \in Nat /\ Rate > 0
  BY SecondFacts
<1>3. WrapsAt(s) = Rate
  <2>1. CASE s.rate # 0
    BY <1>2, <2>1 DEF WrapsAt, StreamAt
  <2>2. CASE s.rate = 0
    <3>1. s.wrapped /\ s.maxSeen = Rate - 1
      BY <2>2 DEF StreamAt, SampleAt
    <3> QED
      BY <1>2, <2>2, <3>1 DEF WrapsAt
  <2> QED
    BY <2>1, <2>2
<1> QED
  BY <1>1, <1>3 DEF AtSample

LEMMA BehindAt ==
  ASSUME NEW s, NEW r, NEW j \in Nat, StreamAt(s, j), Behind(r, s)
  PROVE  StreamAt(r, j)
BY DEF StreamAt, SampleAt, Behind

\* All its frames are received, up to the frame j; all but the frame before.
UpToFrame(s, j) ==
    /\ StreamAt(s, j) /\ s.missed = 0
    /\ Near(s.recent, EndOf(j), 2 * Asdus, Nat)

AllBut(k) == {n \in Nat : n < StartOf(k) \/ StartOf(k) + Asdus <= n}

ButOne(s, j) ==
    /\ StreamAt(s, j) /\ s.missed <= Asdus
    /\ Near(s.recent, EndOf(j), 3 * Asdus, AllBut(j - 1))

LEMMA TakesAgain ==
  ASSUME 2 * Asdus <= Window + 1, NEW s, NEW j \in Nat, UpToFrame(s, j),
         NEW k \in Nat, k = j \/ k + 1 = j, s.rate # 0 \/ j >= PerSecond, NEW t \in Nat
  PROVE  UpToFrame(FeedSamples(s, Samples(k), t), j)
<1> DEFINE r == FeedSamples(s, Samples(k), t)
           T == EndOf(j)
           B == StartOf(k)
           D == 2 * Asdus
<1>1. Asdus \in Nat /\ Asdus > 0
  BY SecondFacts
<1>2. /\ s \in SvStreamState /\ AtSample(s, T) /\ StreamAt(s, j) /\ s.missed = 0
      /\ Near(s.recent, T, D, Nat)
  BY KnowsWrap DEF UpToFrame, StreamAt
<1>3. /\ T \in Nat /\ B \in Nat /\ B = k * Asdus /\ B + Asdus <= T + 1 /\ T < B + 2 * Asdus
      /\ D \in Nat /\ D >= 2 * Asdus
  <2>1. /\ T \in Nat /\ B \in Nat /\ EndOf(k) = B + Asdus - 1
        /\ EndOf(k + 1) = B + 2 * Asdus - 1
    BY EndFacts
  <2>2. B = k * Asdus
    BY DEF StartOf
  <2>3. T = EndOf(k) \/ T = EndOf(k + 1)
    OBVIOUS
  <2> HIDE DEF T, B
  <2> QED
    BY <1>1, <2>1, <2>2, <2>3
<1> HIDE DEF T, B, D
<1>4. Nat \in SUBSET Nat /\ \A n \in Nat : B <= n /\ n < B + Asdus => n \in Nat
  OBVIOUS
<1>5. Keeps(r, s, T, D, Nat, s.missed)
  BY <1>2, <1>3, <1>4, AgainFrame
<1> HIDE DEF r
<1>6. StreamAt(r, j) /\ Near(r.recent, T, D, Nat) /\ r.missed <= 0 /\ r.missed \in Nat
  <2>1. Behind(r, s) /\ Near(r.recent, T, D, Nat) /\ r.missed <= 0
    BY <1>2, <1>5 DEF Keeps
  <2>2. r.missed \in Nat
    BY <2>1, StreamFields DEF Behind
  <2> QED
    BY <1>2, <2>1, <2>2, BehindAt
<1> QED
  BY <1>6 DEF UpToFrame, T, D, r

LEMMA TakesLatestAgain ==
  ASSUME 2 * Asdus <= Window + 1, NEW s, NEW j \in Nat, j > 0, ButOne(s, j),
         s.rate # 0 \/ j >= PerSecond, NEW t \in Nat
  PROVE  ButOne(FeedSamples(s, Samples(j), t), j)
<1> DEFINE r == FeedSamples(s, Samples(j), t)
           T == EndOf(j)
           B == StartOf(j)
           D == 3 * Asdus
           K == AllBut(j - 1)
<1>1. Asdus \in Nat /\ Asdus > 0 /\ j - 1 \in Nat /\ (j - 1) + 1 = j
  BY SecondFacts
<1>2. /\ s \in SvStreamState /\ AtSample(s, T) /\ StreamAt(s, j) /\ s.missed <= Asdus
      /\ Near(s.recent, T, D, K)
  BY KnowsWrap DEF ButOne, StreamAt
<1>3. /\ T \in Nat /\ B \in Nat /\ B = j * Asdus /\ B + Asdus <= T + 1 /\ T < B + 2 * Asdus
      /\ D \in Nat /\ D >= 2 * Asdus
  <2>1. T \in Nat /\ B \in Nat /\ T = B + Asdus - 1
    BY EndFacts
  <2>2. B = j * Asdus
    BY DEF StartOf
  <2> HIDE DEF T, B
  <2> QED
    BY <1>1, <2>1, <2>2
<1>4. K \in SUBSET Nat /\ \A n \in Nat : B <= n /\ n < B + Asdus => n \in K
  <2>1. B = StartOf(j - 1) + Asdus /\ StartOf(j - 1) \in Nat
    BY <1>1, EndFacts
  <2> HIDE DEF B
  <2> QED
    BY <1>1, <1>3, <2>1 DEF AllBut
<1> HIDE DEF T, B, D, K
<1>5. Keeps(r, s, T, D, K, s.missed)
  BY <1>2, <1>3, <1>4, AgainFrame
<1> HIDE DEF r
<1>6. StreamAt(r, j) /\ Near(r.recent, T, D, K) /\ r.missed <= Asdus
  <2>1. Behind(r, s) /\ Near(r.recent, T, D, K) /\ r.missed <= s.missed
    BY <1>2, <1>5 DEF Keeps
  <2>2. r.missed \in Nat /\ s.missed \in Nat
    BY <1>2, <2>1, StreamFields DEF Behind
  <2>3. r.missed <= Asdus
    BY <1>1, <1>2, <2>1, <2>2
  <2> QED
    BY <1>2, <2>1, <2>3, BehindAt
<1> QED
  BY <1>6 DEF ButOne, T, D, K, r

LEMMA TakesMissing ==
  ASSUME 2 * Asdus <= Window + 1, NEW s, NEW j \in Nat, ButOne(s, j + 1),
         s.rate # 0 \/ j + 1 >= PerSecond, NEW t \in Nat
  PROVE  UpToFrame(FeedSamples(s, Samples(j), t), j + 1)
<1> DEFINE r == FeedSamples(s, Samples(j), t)
           T == EndOf(j + 1)
           B == StartOf(j)
           D == 3 * Asdus
           K == AllBut(j)
<1>1. Asdus \in Nat /\ Asdus > 0 /\ j + 1 \in Nat /\ (j + 1) - 1 = j
  BY SecondFacts
<1>2. /\ s \in SvStreamState /\ AtSample(s, T) /\ StreamAt(s, j + 1) /\ s.missed <= Asdus
      /\ Near(s.recent, T, D, K)
  BY <1>1, KnowsWrap DEF ButOne, StreamAt
<1>3. /\ T \in Nat /\ B \in Nat /\ B = j * Asdus /\ T = B + 2 * Asdus - 1
  BY <1>1, EndFacts DEF StartOf
<1>4. K \in SUBSET Nat /\ \A n \in K : n < B \/ B + Asdus <= n
  BY DEF AllBut
<1> HIDE DEF T, B, K
<1>5. Keeps(r, s, T, 2 * Asdus, Nat, 0)
  BY <1>2, <1>3, <1>4, FillFrame
<1> HIDE DEF r, D
<1>6. StreamAt(r, j + 1) /\ Near(r.recent, T, 2 * Asdus, Nat) /\ r.missed = 0
  <2>1. Behind(r, s) /\ Near(r.recent, T, 2 * Asdus, Nat) /\ r.missed <= 0
    BY <1>5 DEF Keeps
  <2>2. r.missed \in Nat
    BY <2>1, StreamFields DEF Behind
  <2>3. r.missed = 0
    BY <2>1, <2>2
  <2>4. StreamAt(r, j + 1)
    BY <1>1, <1>2, <2>1, BehindAt
  <2> QED
    BY <2>1, <2>3, <2>4
<1> QED
  BY <1>6 DEF UpToFrame, T, r

LEMMA AllButFacts ==
  ASSUME NEW k \in Nat
  PROVE  /\ AllBut(k) \in SUBSET Nat
         /\ \A n \in Nat : n < StartOf(k) => n \in AllBut(k)
         /\ \A n \in Nat : StartOf(k + 1) <= n => n \in AllBut(k)
BY EndFacts DEF AllBut

LEMMA TakesNext ==
  ASSUME NEW s, NEW j \in Nat, UpToFrame(s, j), NEW t \in Nat
  PROVE  UpToFrame(FeedSamples(s, Samples(j + 1), t), j + 1)
<1> DEFINE r == FeedSamples(s, Samples(j + 1), t)
           p == First(j) + Asdus - 1
           learnt == j >= PerSecond
           learnt1 == learnt \/ p + 1 >= Rate
           k == j + 1
<1>1. /\ Asdus \in Nat /\ Asdus > 0 /\ Rate \in Nat /\ PerSecond \in Nat /\ k \in Nat
      /\ 1 < Rate \div 2 /\ Rate \div 2 \in Int
  BY SecondFacts, RateFacts, HalfFacts
<1>2. /\ s \in SvStreamState /\ s.known /\ s.rate \in {0, Rate} /\ SampleAt(s, learnt, p)
      /\ s.missed = 0 /\ Near(s.recent, EndOf(j), 2 * Asdus, Nat)
  BY DEF UpToFrame, StreamAt
<1>3. p \in 0 .. Rate - 1 /\ First(k) = Wrapped(p, 1)
  BY NextCounts
<1>4. learnt1 <=> k >= PerSecond
  <2>1. First(j) \in Nat /\ (j < PerSecond => (First(j) + Asdus >= Rate <=> k >= PerSecond))
    BY FirstOfNext
  <2>2. p + 1 = First(j) + Asdus
    BY <1>1, <2>1
  <2> HIDE DEF p
  <2> QED
    BY <1>1, <2>1, <2>2
<1> HIDE DEF p, k
<1>5. learnt \in BOOLEAN /\ 0 < 1 /\ (s.rate = 0 /\ ~learnt => 1 = 1)
  OBVIOUS
<1> HIDE DEF learnt
<1>6. /\ SampleAt(FeedSamples(s, Samples(k), t), learnt \/ p + 1 >= Rate,
                  First(k) + Asdus - 1)
      /\ FeedSamples(s, Samples(k), t).missed = s.missed + (1 - 1)
      /\ \E g : Pushes(g, s.recent, FeedSamples(s, Samples(k), t).recent, k)
  BY <1>1, <1>2, <1>3, <1>5, NextFrame
<1>7. r = FeedSamples(s, Samples(k), t)
  BY DEF k
<1>8. r \in SvStreamState /\ r.known /\ r.rate = s.rate
  BY <1>1, <1>2, <1>7, FeedFacts
<1> HIDE DEF r
<1>9. SampleAt(r, k >= PerSecond, First(k) + Asdus - 1)
  <2>1. SampleAt(r, learnt1, First(k) + Asdus - 1)
    BY <1>6, <1>7
  <2> HIDE DEF learnt1
  <2> QED
    BY <1>4, <2>1 DEF SampleAt
<1>10. r.missed = 0
  BY <1>2, <1>6, <1>7
<1>11. Near(r.recent, EndOf(k), 2 * Asdus, Nat)
  <2> DEFINE B == StartOf(k)
             D == 2 * Asdus
  <2>1. /\ B \in Nat /\ EndOf(j) = B - 1 /\ EndOf(k) = B + Asdus - 1 /\ B = k * Asdus
        /\ D \in Nat
    <3>1. EndOf(j) = StartOf(j) + Asdus - 1 /\ StartOf(j) \in Nat /\ B = StartOf(j) + Asdus
      BY EndFacts DEF k
    <3>2. EndOf(k) = StartOf(k) + Asdus - 1
      BY <1>1, EndFacts
    <3>3. B = k * Asdus
      BY DEF StartOf
    <3> HIDE DEF B
    <3> QED
      BY <1>1, <3>1, <3>2, <3>3 DEF B
  <2>2. Near(s.recent, B - 1, D, Nat)
    BY <1>2, <2>1
  <2>3. \E g : Pushes(g, s.recent, r.recent, k)
    BY <1>6, <1>7
  <2>4. Nat \in SUBSET Nat /\ \A n \in Nat : B <= n /\ n < B + Asdus => n \in Nat
    OBVIOUS
  <2> HIDE DEF B, D
  <2>5. Near(r.recent, B + Asdus - 1, D, Nat)
    BY <1>1, <2>1, <2>2, <2>3, <2>4, FrameNear
  <2> QED
    BY <2>1, <2>5 DEF D
<1>12. StreamAt(r, k)
  BY <1>2, <1>8, <1>9 DEF StreamAt
<1> QED
  BY <1>10, <1>11, <1>12 DEF UpToFrame, r, k

LEMMA TakesSecond ==
  ASSUME NEW s, NEW j \in Nat, UpToFrame(s, j), s.rate # 0 \/ j >= PerSecond, NEW t \in Nat
  PROVE  ButOne(FeedSamples(s, Samples(j + 2), t), j + 2)
<1> DEFINE r == FeedSamples(s, Samples(j + 2), t)
           p == First(j) + Asdus - 1
           d == Asdus + 1
           learnt == j >= PerSecond
           k == j + 2
<1>1. /\ Asdus \in Nat /\ Asdus > 0 /\ Rate \in Nat /\ PerSecond \in Nat /\ k \in Nat
      /\ d \in Nat /\ 0 < d /\ d < Rate \div 2
  BY SecondFacts, RateFacts, HalfFacts
<1>2. /\ s \in SvStreamState /\ s.known /\ s.rate \in {0, Rate} /\ SampleAt(s, learnt, p)
      /\ s.missed = 0 /\ Near(s.recent, EndOf(j), 2 * Asdus, Nat)
  BY DEF UpToFrame, StreamAt
<1>3. p \in 0 .. Rate - 1 /\ First(k) = Wrapped(p, d)
  BY NextCounts
<1>4. s.rate # 0 \/ (learnt /\ k >= PerSecond)
  BY <1>1
<1> HIDE DEF p, k, d
<1>5. learnt \in BOOLEAN /\ (s.rate = 0 /\ ~learnt => d = 1)
  BY <1>4
<1> HIDE DEF learnt
<1>6. /\ SampleAt(FeedSamples(s, Samples(k), t), learnt \/ p + d >= Rate,
                  First(k) + Asdus - 1)
      /\ FeedSamples(s, Samples(k), t).missed = s.missed + (d - 1)
      /\ \E g : Pushes(g, s.recent, FeedSamples(s, Samples(k), t).recent, k)
  BY <1>1, <1>2, <1>3, <1>5, NextFrame
<1>7. r = FeedSamples(s, Samples(k), t)
  BY DEF k
<1>8. r \in SvStreamState /\ r.known /\ r.rate = s.rate
  BY <1>1, <1>2, <1>7, FeedFacts
<1> HIDE DEF r
<1>9. SampleAt(r, k >= PerSecond, First(k) + Asdus - 1)
  <2> DEFINE learnt1 == learnt \/ p + d >= Rate
  <2>1. SampleAt(r, learnt1, First(k) + Asdus - 1)
    BY <1>6, <1>7
  <2>2. r.rate = 0 => (learnt1 <=> k >= PerSecond)
    BY <1>4, <1>8
  <2> HIDE DEF learnt1
  <2> QED
    BY <2>1, <2>2 DEF SampleAt
<1>10. r.missed <= Asdus
  BY <1>1, <1>2, <1>6, <1>7 DEF d
<1>11. Near(r.recent, EndOf(k), 3 * Asdus, AllBut(k - 1))
  <2> DEFINE B == StartOf(k)
             D == 3 * Asdus
             E == 2 * Asdus
             T == EndOf(j)
             K == AllBut(j + 1)
  <2>1. /\ B \in Nat /\ T = B - Asdus - 1 /\ EndOf(k) = B + Asdus - 1 /\ B = k * Asdus
        /\ D \in Nat /\ T \in Nat /\ StartOf(j + 1) = T + 1 /\ StartOf((j + 1) + 1) = B
        /\ k - 1 = j + 1
    <3>1. /\ T = StartOf(j) + Asdus - 1 /\ StartOf(j) \in Nat /\ T \in Nat
          /\ B = StartOf(j) + 2 * Asdus /\ StartOf(j + 1) = StartOf(j) + Asdus
      BY EndFacts DEF k
    <3>2. EndOf(k) = B + Asdus - 1 /\ B \in Nat
      BY <1>1, EndFacts
    <3>3. B = k * Asdus
      BY DEF StartOf
    <3>4. StartOf((j + 1) + 1) = B /\ k - 1 = j + 1
      <4>1. (j + 1) + 1 = k
        BY DEF k
      <4> QED
        BY <4>1
    <3>5. D \in Nat
      BY <1>1
    <3> DEFINE x == StartOf(j)
               y == StartOf(j + 1)
    <3> HIDE DEF B, T, D, x, y
    <3>6. T = B - Asdus - 1 /\ y = T + 1
      <4>1. x \in Nat /\ T = x + Asdus - 1 /\ B = x + 2 * Asdus /\ y = x + Asdus
        BY <3>1 DEF x, y
      <4> QED
        BY <1>1, <4>1
    <3> QED
      BY <3>1, <3>2, <3>3, <3>4, <3>5, <3>6 DEF y
  <2>2. K \in SUBSET Nat /\ \A n \in Nat : n <= T => n \in K
    <3>1. /\ AllBut(j + 1) \in SUBSET Nat
          /\ \A n \in Nat : n < StartOf(j + 1) => n \in AllBut(j + 1)
      BY AllButFacts
    <3> HIDE DEF T
    <3> QED
      BY <2>1, <3>1
  <2>3. \A n \in Nat : B <= n /\ n < B + Asdus => n \in K
    BY <2>1, AllButFacts
  <2>4. \E g : Pushes(g, s.recent, r.recent, k)
    BY <1>6, <1>7
  <2> HIDE DEF K
  <2>5. Near(s.recent, B - 1, D, K)
    <3>1. Near(s.recent, T, E, Nat)
      BY <1>2
    <3> DEFINE T1 == B - 1
    <3>2. /\ T \in Int /\ E \in Int /\ T1 \in Int /\ T <= T1 /\ D \in Int
          /\ T1 + E <= T + D /\ Nat \in SUBSET Nat
      <4> HIDE DEF T, B
      <4> QED
        BY <1>1, <2>1
    <3> HIDE DEF T, E, T1, D
    <3>3. Near(s.recent, T1, D, K)
      BY <2>2, <3>1, <3>2, NearLater
    <3> QED
      BY <3>3 DEF T1
  <2> HIDE DEF B, D, T
  <2>6. Near(r.recent, B + Asdus - 1, D, K)
    BY <1>1, <2>1, <2>2, <2>3, <2>4, <2>5, FrameNear
  <2> QED
    BY <2>1, <2>6 DEF D, K
<1>12. StreamAt(r, k)
  BY <1>2, <1>8, <1>9 DEF StreamAt
<1> QED
  BY <1>10, <1>11, <1>12 DEF ButOne, r, k

\* A stream that knows nothing yet.
Unheard(s) ==
    ~s.known /\ ~s.wrapped /\ s.maxSeen = 0 /\ s.missed = 0 /\ s.recent = <<>>

LEMMA TakesFirst ==
  ASSUME NEW s \in SvStreamState, Unheard(s), s.rate \in {0, Rate}, NEW t \in Nat
  PROVE  /\ UpToFrame(FeedSamples(s, Samples(0), t), 0)
         /\ s.rate # 0 => ButOne(FeedSamples(s, Samples(1), t), 1)
<1>1. /\ Asdus \in Nat /\ Asdus > 0 /\ PerSecond \in Nat /\ PerSecond > 0
      /\ ~s.known /\ ~s.wrapped /\ s.maxSeen = 0 /\ s.missed = 0 /\ s.recent = <<>>
  BY SecondFacts, RateFacts DEF Unheard
<1>2. ASSUME NEW k \in Nat, NEW D \in Nat, NEW K \in SUBSET Nat,
             \A n \in Nat : StartOf(k) <= n /\ n < StartOf(k) + Asdus => n \in K,
             s.rate # 0 \/ k = 0
      PROVE  LET r == FeedSamples(s, Samples(k), t)
             IN  StreamAt(r, k) /\ r.missed = 0 /\ Near(r.recent, EndOf(k), D, K)
  <2> DEFINE r == FeedSamples(s, Samples(k), t)
             B == StartOf(k)
  <2>1. /\ SampleAt(r, FALSE, First(k) + Asdus - 1) /\ r.missed = s.missed
        /\ \E g : Pushes(g, s.recent, r.recent, k)
    BY <1>1, FirstFrame
  <2>2. r \in SvStreamState /\ r.known /\ r.rate = s.rate
    BY FeedFacts
  <2> HIDE DEF r
  <2>3. SampleAt(r, k >= PerSecond, First(k) + Asdus - 1)
    <3>1. r.rate = 0 => ~(k >= PerSecond)
      BY <1>1, <1>2, <2>2
    <3> DEFINE learnt == k >= PerSecond
    <3>2. r.rate = 0 => (learnt <=> FALSE)
      BY <3>1
    <3> HIDE DEF learnt
    <3>3. SampleAt(r, learnt, First(k) + Asdus - 1)
      BY <2>1, <3>2 DEF SampleAt
    <3> QED
      BY <3>3 DEF learnt
  <2>4. StreamAt(r, k)
    BY <2>2, <2>3 DEF StreamAt
  <2>5. EndOf(k) = B + Asdus - 1 /\ B \in Nat /\ B = k * Asdus
    BY EndFacts DEF StartOf
  <2>6. Near(<<>>, B - 1, D, K)
    BY NearEmpty
  <2>7. \E g : Pushes(g, <<>>, r.recent, k)
    BY <1>1, <2>1
  <2>8. \A n \in Nat : B <= n /\ n < B + Asdus => n \in K
    BY <1>2
  <2> HIDE DEF B
  <2>9. Near(r.recent, B + Asdus - 1, D, K)
    BY <2>5, <2>6, <2>7, <2>8, FrameNear
  <2> QED
    BY <1>1, <2>1, <2>4, <2>5, <2>9 DEF r
<1>3. UpToFrame(FeedSamples(s, Samples(0), t), 0)
  <2> DEFINE r == FeedSamples(s, Samples(0), t)
             D == 2 * Asdus
  <2>1. D \in Nat /\ Nat \in SUBSET Nat /\ 0 \in Nat
        /\ \A n \in Nat : StartOf(0) <= n /\ n < StartOf(0) + Asdus => n \in Nat
    BY <1>1
  <2> HIDE DEF D
  <2>2. StreamAt(r, 0) /\ r.missed = 0 /\ Near(r.recent, EndOf(0), D, Nat)
    BY <1>2, <2>1
  <2> QED
    BY <2>2 DEF UpToFrame, D
<1>4. ASSUME s.rate # 0 PROVE ButOne(FeedSamples(s, Samples(1), t), 1)
  <2> DEFINE r == FeedSamples(s, Samples(1), t)
             D == 3 * Asdus
             K == AllBut(0)
  <2>1. D \in Nat /\ 1 \in Nat
    BY <1>1
  <2>2. /\ K \in SUBSET Nat
        /\ \A n \in Nat : StartOf(1) <= n /\ n < StartOf(1) + Asdus => n \in K
    <3>1. 0 + 1 = 1
      OBVIOUS
    <3>2. AllBut(0) \in SUBSET Nat /\ \A n \in Nat : StartOf(0 + 1) <= n => n \in AllBut(0)
      BY AllButFacts
    <3> QED
      BY <3>1, <3>2
  <2> HIDE DEF D, K
  <2>3. StreamAt(r, 1) /\ r.missed = 0 /\ Near(r.recent, EndOf(1), D, K)
    BY <1>2, <1>4, <2>1, <2>2
  <2>4. 1 - 1 = 0 /\ 0 <= Asdus
    BY <1>1
  <2> QED
    BY <2>3, <2>4 DEF ButOne, D, K
<1> QED
  BY <1>3, <1>4

\* The frames F are received, the latest one at the sample s is at.
Following(s, F, O) ==
    \/ F = {}
    \/ \E j \in Nat : F = 0 .. j /\ UpToFrame(s, j)
    \/ \E j \in Nat : j > 0 /\ F = (0 .. j - 2) \cup {j} /\ j - 1 \in O /\ ButOne(s, j)

(***************************************************************************)
(* Nothing lost, at most one frame overtaken, by one other, and at most    *)
(* one repeated: whatever comes next, nothing is missed once all that was  *)
(* overtaken has come.                                                     *)
(***************************************************************************)
LEMMA TakesFrame ==
  ASSUME 2 * Asdus <= Window + 1, NEW s \in SvStreamState, s.rate \in {0, Rate},
         NEW F, NEW R, NEW O, F = {} => Unheard(s), Following(s, F, O),
         NEW r \in Nat, Arrives(r, F, R, O),
         s.rate # 0 \/ \A k \in R \cup O : k > PerSecond, NEW t \in Nat
  PROVE  Following(FeedSamples(s, Samples(r), t), F \cup {r}, O)
<1> DEFINE u == FeedSamples(s, Samples(r), t)
<1>1. PerSecond \in Nat
  BY RateFacts
<1>2. CASE F = {}
  <2>1. r = 0 \/ (r = 1 /\ 0 \in O)
    <3>1. CASE F = 0 .. r - 1
      BY <1>2, <3>1
    <3>2. CASE r > 0 /\ F = 0 .. r - 2 /\ r - 1 \in O
      <4>1. ~(r - 2 >= 0)
        <5> SUFFICES ASSUME r - 2 >= 0 PROVE FALSE
          OBVIOUS
        <5>1. 0 \in 0 .. r - 2
          OBVIOUS
        <5> QED
          BY <1>2, <3>2, <5>1
      <4> QED
        BY <3>2, <4>1
    <3>3. r \notin F /\ r + 1 \notin F
      BY <1>2
    <3>4. F # (0 .. r) /\ F # (0 .. r - 2) \cup {r} /\ F # (0 .. r - 1) \cup {r + 1}
          /\ F # 0 .. r + 1
      BY <3>3
    <3> QED
      BY <3>1, <3>2, <3>4 DEF Arrives
  <2>2. CASE r = 0
    <3>1. UpToFrame(u, 0) /\ F \cup {r} = 0 .. 0 /\ 0 \in Nat
      BY <1>2, <2>2, TakesFirst
    <3> HIDE DEF u
    <3> QED
      BY <3>1 DEF Following, u
  <2>3. CASE r = 1 /\ 0 \in O
    <3>1. s.rate # 0
      BY <1>1, <2>3
    <3>2. ButOne(u, 1)
      BY <1>2, <2>3, <3>1, TakesFirst
    <3>3. 1 \in Nat /\ 1 > 0 /\ F \cup {r} = (0 .. 1 - 2) \cup {1} /\ 1 - 1 \in O
      BY <1>2, <2>3
    <3> HIDE DEF u
    <3> QED
      BY <3>2, <3>3 DEF Following, u
  <2> QED
    BY <2>1, <2>2, <2>3
<1>3. ASSUME NEW j \in Nat, F = 0 .. j, UpToFrame(s, j)
      PROVE  Following(u, F \cup {r}, O)
  <2>1. CASE F = 0 .. r - 1
    <3>1. r = j + 1
      BY <1>3, <2>1
    <3>2. UpToFrame(u, j + 1)
      BY <1>3, <3>1, TakesNext
    <3>3. F \cup {r} = 0 .. j + 1 /\ j + 1 \in Nat
      BY <1>3, <3>1
    <3> HIDE DEF u
    <3> QED
      BY <3>2, <3>3 DEF Following, u
  <2>2. CASE (F = 0 .. r /\ r \in R) \/ (F = 0 .. r + 1 /\ r \in O)
    <3>1. r = j \/ r + 1 = j
      BY <1>3, <2>2
    <3>2. s.rate # 0 \/ j >= PerSecond
      BY <1>1, <2>2, <3>1
    <3>3. UpToFrame(u, j)
      BY <1>3, <3>1, <3>2, TakesAgain
    <3>4. F \cup {r} = 0 .. j
      BY <1>3, <3>1
    <3> HIDE DEF u
    <3> QED
      BY <3>3, <3>4 DEF Following, u
  <2>3. CASE r > 0 /\ F = 0 .. r - 2 /\ r - 1 \in O
    <3>1. r = j + 2
      BY <1>3, <2>3
    <3>2. s.rate # 0 \/ j >= PerSecond
      BY <1>1, <2>3, <3>1
    <3>3. ButOne(u, j + 2)
      BY <1>3, <3>1, <3>2, TakesSecond
    <3>4. ButOne(u, r) /\ F \cup {r} = (0 .. r - 2) \cup {r}
      BY <2>3, <3>1, <3>3
    <3> HIDE DEF u
    <3> QED
      BY <2>3, <3>4 DEF Following, u
  <2>4. ~(r > 0 /\ F = (0 .. r - 2) \cup {r})
    <3> SUFFICES ASSUME r > 0, F = (0 .. r - 2) \cup {r} PROVE FALSE
      OBVIOUS
    <3>1. r \in F /\ r - 1 \notin F
      OBVIOUS
    <3>2. r \in 0 .. j /\ r - 1 \notin 0 .. j
      BY <1>3, <3>1
    <3> QED
      BY <3>2
  <2>5. F # (0 .. r - 1) \cup {r + 1}
    <3> SUFFICES ASSUME F = (0 .. r - 1) \cup {r + 1} PROVE FALSE
      OBVIOUS
    <3>1. r + 1 \in F /\ r \notin F
      OBVIOUS
    <3>2. r + 1 \in 0 .. j /\ r \notin 0 .. j
      BY <1>3, <3>1
    <3> QED
      BY <3>2
  <2> QED
    BY <2>1, <2>2, <2>3, <2>4, <2>5 DEF Arrives
<1>4. ASSUME NEW j \in Nat, j > 0, F = (0 .. j - 2) \cup {j}, j - 1 \in O, ButOne(s, j)
      PROVE  Following(u, F \cup {r}, O)
  <2>1. j \in F /\ j - 1 \notin F /\ j - 1 \in Nat
    BY <1>4
  <2>2. ASSUME NEW n \in Int PROVE F # 0 .. n
    <3> SUFFICES ASSUME F = 0 .. n PROVE FALSE
      OBVIOUS
    <3>1. j \in 0 .. n /\ j - 1 \notin 0 .. n
      BY <2>1
    <3> QED
      BY <2>1, <3>1
  <2>3. F # 0 .. r - 1 /\ F # 0 .. r /\ F # 0 .. r - 2 /\ F # 0 .. r + 1
    BY <2>2
  <2>4. CASE r > 0 /\ F = (0 .. r - 2) \cup {r} /\ r - 1 \in O /\ r \in R
    <3>1. r = j
      <4>1. j \in (0 .. r - 2) \cup {r} /\ j - 1 \notin (0 .. r - 2) \cup {r}
        BY <2>1, <2>4
      <4> QED
        BY <2>1, <4>1
    <3>2. s.rate # 0 \/ j >= PerSecond
      BY <1>1, <2>4, <3>1
    <3>3. ButOne(u, j)
      BY <1>4, <3>1, <3>2, TakesLatestAgain
    <3>4. F \cup {r} = (0 .. j - 2) \cup {j}
      BY <1>4, <3>1
    <3> HIDE DEF u
    <3> QED
      BY <1>4, <3>3, <3>4 DEF Following, u
  <2>5. CASE F = (0 .. r - 1) \cup {r + 1} /\ r \in O
    <3>1. j = r + 1
      <4>1. j \in (0 .. r - 1) \cup {r + 1} /\ j - 1 \notin (0 .. r - 1) \cup {r + 1}
        BY <2>1, <2>5
      <4> QED
        BY <2>1, <4>1
    <3>2. s.rate # 0 \/ r + 1 >= PerSecond
      BY <1>1, <2>5
    <3>3. UpToFrame(u, r + 1)
      BY <1>4, <3>1, <3>2, TakesMissing
    <3>4. F \cup {r} = 0 .. r + 1 /\ r + 1 \in Nat
      BY <2>5
    <3> HIDE DEF u
    <3> QED
      BY <3>3, <3>4 DEF Following, u
  <2> QED
    BY <2>3, <2>4, <2>5 DEF Arrives
<1> QED
  BY <1>2, <1>3, <1>4 DEF Following, u

LEMMA FollowingSame ==
  ASSUME NEW s, NEW F, NEW O, Following(s, F, O), NEW O1, O \subseteq O1,
         NEW r \in SvStreamState, r.rate = s.rate, r.known = s.known, r.smp = s.smp,
         r.maxSeen = s.maxSeen, r.wrapped = s.wrapped, r.missed = s.missed,
         r.recent = s.recent
  PROVE  Following(r, F, O1)
<1>1. ASSUME NEW j \in Nat, StreamAt(s, j) PROVE StreamAt(r, j)
  <2> HIDE DEF PerSecond, First
  <2> QED
    BY <1>1 DEF StreamAt, SampleAt
<1>2. CASE F = {}
  BY <1>2 DEF Following
<1>3. ASSUME NEW j \in Nat, F = 0 .. j, UpToFrame(s, j) PROVE Following(r, F, O1)
  <2>1. UpToFrame(r, j)
    BY <1>1, <1>3 DEF UpToFrame
  <2> QED
    BY <1>3, <2>1 DEF Following
<1>4. ASSUME NEW j \in Nat, j > 0, F = (0 .. j - 2) \cup {j}, j - 1 \in O, ButOne(s, j)
      PROVE  Following(r, F, O1)
  <2>1. ButOne(r, j)
    BY <1>1, <1>4 DEF ButOne
  <2>2. j - 1 \in O1
    BY <1>4
  <2> QED
    BY <1>4, <2>1, <2>2 DEF Following
<1> QED
  BY <1>2, <1>3, <1>4 DEF Following

\* The histories only grow, and a step but two leaves the stream alone.
LEMMA Grows ==
  ASSUME BaseInv, Steps
  PROVE  /\ lost \subseteq lost' /\ repeated \subseteq repeated'
         /\ overtaken \subseteq overtaken' /\ sv'.rate = sv.rate
         /\ ~Taken => /\ fed' = fed /\ sv'.known = sv.known /\ sv'.smp = sv.smp
                      /\ sv'.maxSeen = sv.maxSeen /\ sv'.wrapped = sv.wrapped
                      /\ sv'.missed = sv.missed /\ sv'.recent = sv.recent
<1>1. sv \in SvStreamState /\ now \in Nat
  BY DEF BaseInv, ReaderOK
<1>2. CASE Idle \/ Ticked
  BY <1>2 DEF Idle, Ticked
<1>3. CASE Checked
  <2>1. /\ sv'.rate = sv.rate /\ sv'.known = sv.known /\ sv'.smp = sv.smp
        /\ sv'.maxSeen = sv.maxSeen /\ sv'.wrapped = sv.wrapped
        /\ sv'.missed = sv.missed /\ sv'.recent = sv.recent
    BY <1>1, <1>3, CheckFacts DEF Checked
  <2> QED
    BY <1>3, <2>1 DEF Checked
<1>4. CASE Taken
  <2>1. Head(Waiting).k \in Nat /\ Head(Waiting).at \in Nat
    BY <1>4, TakenFacts DEF Taken, BaseInv
  <2>2. SvCheck(sv, Head(Waiting).at) \in SvStreamState
        /\ SvCheck(sv, Head(Waiting).at).rate = sv.rate
    BY <1>1, <2>1, CheckFacts
  <2>3. sv'.rate = sv.rate
    BY <1>4, <2>1, <2>2, FeedFacts DEF Taken
  <2> QED
    BY <1>4, <2>3 DEF Taken
<1>5. CASE Dropped
  BY <1>5 DEF Dropped
<1>6. ASSUME NEW sent \in BOOLEAN, Sent(sent)
      PROVE  /\ lost \subseteq lost' /\ repeated' = repeated
             /\ overtaken' = overtaken /\ sv' = sv /\ fed' = fed
  BY <1>6 DEF Sent
<1>7. ASSUME NEW i \in DOMAIN wire, NEW again \in BOOLEAN, NEW kept \in BOOLEAN,
             Arrived(i, again, kept)
      PROVE  /\ lost \subseteq lost' /\ repeated \subseteq repeated'
             /\ overtaken \subseteq overtaken' /\ sv' = sv /\ fed' = fed
  BY <1>7 DEF Arrived
<1> QED
  BY <1>2, <1>3, <1>4, <1>5, <1>6, <1>7 DEF Steps

(***************************************************************************)
(* The stream followed when no frame is lost: nothing is missed of it but  *)
(* a frame overtaken that has not come yet.                                *)
(***************************************************************************)
Followable == lost = {} /\ RateLearnt

StreamRight ==
    /\ fed = {} => sv.recent = <<>>
    /\ Followable => Following(sv, fed, overtaken)

LEMMA StreamTaken ==
  ASSUME 2 * Asdus <= Window + 1, BaseInv, Fresh, InLine, StreamRight, Followable, Taken
  PROVE  Following(sv', fed', overtaken)
<1> DEFINE r == Head(Waiting).k
           t == Head(Waiting).at
           s == SvCheck(sv, t)
<1>1. Waiting # <<>> /\ lost = {} /\ Followable
  BY DEF Taken, Followable
<1>2. r \in Nat /\ t \in Nat /\ 1 \in 1 .. Len(Waiting) /\ r = Waiting[1].k
  BY <1>1, TakenFacts DEF BaseInv
<1>3. Arrives(r, fed, repeated, overtaken)
  <2>1. Close(Line, LineLength, fed, repeated, overtaken)
    BY <1>1 DEF InLine
  <2>2. 1 \in 1 .. LineLength /\ Line[1] = r
    BY <1>2, LineFacts
  <2>3. Earlier(Line, 1) = {}
    BY DEF Earlier
  <2> HIDE DEF r, Line, LineLength
  <2>4. Arrives(Line[1], fed \cup Earlier(Line, 1), repeated, overtaken)
    BY <2>1, <2>2 DEF Close
  <2>5. fed \cup Earlier(Line, 1) = fed
    BY <2>3
  <2> QED
    BY <2>2, <2>4, <2>5
<1>4. sv' = FeedSamples(s, Samples(r), t) /\ fed' = fed \cup {r}
  BY DEF Taken
<1> HIDE DEF r, t
<1>5. sv \in SvStreamState /\ (sv.known <=> fed # {}) /\ sv.rate \in {0, Rate}
  BY DEF BaseInv, ReaderOK
<1>6. /\ s \in SvStreamState /\ s.rate = sv.rate /\ s.known = sv.known /\ s.smp = sv.smp
      /\ s.maxSeen = sv.maxSeen /\ s.wrapped = sv.wrapped /\ s.missed = sv.missed
      /\ s.recent = sv.recent
  BY <1>2, <1>5, CheckFacts
<1> HIDE DEF s
<1>7. fed = {} => Unheard(s)
  BY <1>5, <1>6 DEF Fresh, StreamRight, Unheard
<1>8. Following(s, fed, overtaken)
  <2>1. Following(sv, fed, overtaken) /\ overtaken \subseteq overtaken
    BY <1>1 DEF StreamRight
  <2> QED
    BY <1>6, <2>1, FollowingSame
<1>9. s.rate # 0 \/ \A k \in repeated \cup overtaken : k > PerSecond
  BY <1>1, <1>6 DEF Followable, RateLearnt
<1>10. Following(FeedSamples(s, Samples(r), t), fed \cup {r}, overtaken)
  <2> HIDE DEF PerSecond
  <2> QED
    BY <1>2, <1>3, <1>5, <1>6, <1>7, <1>8, <1>9, TakesFrame
<1> QED
  BY <1>4, <1>10

LEMMA StreamStep ==
  ASSUME 2 * Asdus <= Window + 1, BaseInv, BaseInv', Steps, Fresh, InLine, StreamRight
  PROVE  StreamRight'
<1>1. /\ lost \subseteq lost' /\ repeated \subseteq repeated'
      /\ overtaken \subseteq overtaken' /\ sv'.rate = sv.rate
      /\ ~Taken => /\ fed' = fed /\ sv'.known = sv.known /\ sv'.smp = sv.smp
                   /\ sv'.maxSeen = sv.maxSeen /\ sv'.wrapped = sv.wrapped
                   /\ sv'.missed = sv.missed /\ sv'.recent = sv.recent
  BY Grows
<1>2. Followable' => Followable
  BY <1>1 DEF Followable, RateLearnt
<1>3. sv' \in SvStreamState
  BY DEF BaseInv, ReaderOK
<1>4. CASE Taken
  <2>1. fed' # {} /\ overtaken' = overtaken
    BY <1>4 DEF Taken
  <2>2. ASSUME Followable' PROVE Following(sv', fed', overtaken')
    BY <1>2, <1>4, <2>1, <2>2, StreamTaken
  <2> QED
    BY <2>1, <2>2 DEF StreamRight, Following, UpToFrame, ButOne, StreamAt, SampleAt, Near
<1>5. CASE ~Taken
  <2>1. fed' = {} => sv'.recent = <<>>
    BY <1>1, <1>5 DEF StreamRight
  <2>2. ASSUME Followable' PROVE Following(sv', fed', overtaken')
    <3>1. Following(sv, fed, overtaken)
      BY <1>2, <2>2 DEF StreamRight
    <3> DEFINE r == sv'
               F == fed
               O1 == overtaken'
    <3>2. /\ r \in SvStreamState /\ r.rate = sv.rate /\ r.known = sv.known
          /\ r.smp = sv.smp /\ r.maxSeen = sv.maxSeen /\ r.wrapped = sv.wrapped
          /\ r.missed = sv.missed /\ r.recent = sv.recent /\ overtaken \subseteq O1
          /\ fed' = F
      BY <1>1, <1>3, <1>5
    <3> HIDE DEF r, F, O1
    <3>3. Following(r, F, O1)
      BY <3>1, <3>2, FollowingSame DEF F
    <3> QED
      BY <3>2, <3>3 DEF r, O1
  <2> QED
    BY <2>1, <2>2 DEF StreamRight, Following, UpToFrame, ButOne, StreamAt, SampleAt, Near
<1> QED
  BY <1>4, <1>5

(***************************************************************************)
(* _follow: what it counts as missed is what was lost, in gaps of any      *)
(* length short of half a second, across the wrap of smpCnt and whatever   *)
(* was learnt of the rate; and nothing is missed once all has come,        *)
(* repeated or overtaken.  Two frames are no longer than the counters      *)
(* remembered and one: a sample late by more is taken for the first of a   *)
(* stream that starts again.                                               *)
(***************************************************************************)
THEOREM StreamTheorem ==
  ASSUME 2 * Asdus <= Window + 1
  PROVE  Spec => []StreamSound
<1> DEFINE StreamInv == FlowInv /\ InLine /\ StreamRight
<1>1. Init => InLine /\ StreamRight
  <2> SUFFICES ASSUME Init PROVE InLine /\ StreamRight
    OBVIOUS
  <2>1. Waiting = <<>> /\ wire = <<>> /\ fed = {} /\ sv.recent = <<>>
    BY InitFacts
  <2>2. LineLength = 0
    BY <2>1 DEF LineLength
  <2> QED
    BY <2>1, <2>2 DEF InLine, Close, StreamRight, Following
<1>2. FlowInv /\ InLine /\ StreamRight /\ EngineOK' /\ [Next]_vars
         => InLine' /\ StreamRight'
  <2> SUFFICES ASSUME FlowInv, InLine, StreamRight, EngineOK', [Next]_vars
               PROVE  InLine' /\ StreamRight'
    OBVIOUS
  <2>1. FlowInv' /\ Steps
    BY FlowStep
  <2>2. BaseInv /\ BaseInv' /\ InOrder /\ Covered /\ Fresh
    BY <2>1 DEF FlowInv
  <2>3. InLine'
    BY <2>1, <2>2, LineStep
  <2>4. StreamRight'
    BY <2>1, <2>2, StreamStep
  <2> QED
    BY <2>3, <2>4
<1>3. FlowInv /\ StreamRight => MissedIsLost
  <2> SUFFICES ASSUME FlowInv, StreamRight PROVE MissedIsLost
    OBVIOUS
  <2>1. Fresh /\ CountedRight
    BY DEF FlowInv
  <2>2. Counted => sv.missed = Asdus * Cardinality(LostBetween)
    BY <2>1 DEF CountedRight
  <2>3. ASSUME Followable, fed = 0 .. engine.k - 1 PROVE sv.missed = 0
    <3>1. Following(sv, fed, overtaken)
      BY <2>3 DEF StreamRight
    <3>2. CASE fed = {}
      BY <2>1, <3>2 DEF Fresh
    <3>3. ASSUME NEW j \in Nat, j > 0, fed = (0 .. j - 2) \cup {j} PROVE FALSE
      <4>1. engine.k \in Nat
        BY Numbers DEF FlowInv
      <4>2. j \in fed /\ j - 1 \notin fed /\ j - 1 >= 0
        BY <3>3
      <4>3. j \in 0 .. engine.k - 1 /\ j - 1 \notin 0 .. engine.k - 1
        BY <2>3, <4>2
      <4> QED
        BY <3>3, <4>1, <4>2, <4>3
    <3> QED
      BY <3>1, <3>2, <3>3 DEF Following, UpToFrame
  <2> QED
    BY <2>2, <2>3 DEF MissedIsLost, Counted, Followable
<1>4. FlowInv => EngineOK /\ TypeOK
  BY DEF FlowInv, BaseInv, EngineOK, WireOK, ReaderOK, RingOK, Ring, TypeOK
<1>5. FlowInv /\ StreamRight => StreamSound
  BY <1>3, <1>4 DEF StreamSound
<1> QED
  BY <1>1, <1>2, <1>4, <1>5, FlowTheorem, PTL DEF Spec
=============================================================================
