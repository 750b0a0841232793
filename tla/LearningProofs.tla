----------------------------- MODULE LearningProofs -----------------------------
(***************************************************************************)
(* What the system keeps to learn from, and what it concludes: the agent's *)
(* memory, users' feedback, the record of the router's retraining, and     *)
(* the facts of a neurosymbolic run.                                       *)
(*                                                                         *)
(* Memory: for any number of memories, faults and entries, only faults     *)
(* lose memories.  What the process holds, and what the file holds,        *)
(* differs from what was stored by at most one memory for each fault,      *)
(* above a number below which memories were given up because there are     *)
(* enough.                                                                 *)
(*                                                                         *)
(* Feedback: the overrides are the tally of the corrections among the      *)
(* feedback, so the programs that count them separately count the same.    *)
(* Convergence: the loop over the last epochs counts the standstill.       *)
(*                                                                         *)
(* Rules: what is known follows from what was given, and everything that   *)
(* follows is known after a round that derives nothing.                    *)
(***************************************************************************)
EXTENDS MCStores, TLAPS, FiniteSetTheorems, WellFoundedInduction

-----------------------------------------------------------------------------
(* Sets that hardly differ *)

Positive == Nat \ {0}

\* The numbers above f that only one of the two holds.
Differ(X, S, f) == {i \in X \cup S : i > f /\ ~(i \in X /\ i \in S)}

\* X holds numbers above f, enough of them or from the first one on, and they are
\* those of S but for k.
Above(X, S, k, f) ==
  /\ \A i \in X : i > f
  /\ f = 0 \/ Cardinality(X) >= MemorySize
  /\ Cardinality(Differ(X, S, f)) <= k
Close(X, S, k) == \E f \in Nat : Above(X, S, k, f)

Numbered(X, S) == IsFiniteSet(X) /\ IsFiniteSet(S) /\ X \subseteq Positive /\ S \subseteq Positive

LEMMA DifferFinite ==
  ASSUME NEW X, NEW S, Numbered(X, S), NEW f \in Nat
  PROVE  IsFiniteSet(Differ(X, S, f)) /\ Cardinality(Differ(X, S, f)) \in Nat
<1>1. IsFiniteSet(X \cup S)
  BY FS_Union DEF Numbered
<1>2. Differ(X, S, f) \subseteq X \cup S
  BY DEF Differ
<1> QED BY <1>1, <1>2, FS_Subset, FS_CardinalityType

\* Sets at most as different.
LEMMA CloseSub ==
  ASSUME NEW X, NEW S, Numbered(X, S), NEW k \in Int, NEW f \in Nat, Above(X, S, k, f),
         NEW Y, NEW T, Numbered(Y, T), NEW g \in Nat,
         \A i \in Y : i > g, g = 0 \/ Cardinality(Y) >= MemorySize,
         Differ(Y, T, g) \subseteq Differ(X, S, f)
  PROVE  Close(Y, T, k)
<1>1. /\ Cardinality(Differ(Y, T, g)) <= Cardinality(Differ(X, S, f))
      /\ Cardinality(Differ(Y, T, g)) \in Nat /\ Cardinality(Differ(X, S, f)) \in Nat
  BY DifferFinite, FS_Subset
<1> QED BY <1>1 DEF Close, Above

\* Sets with one more difference.
LEMMA CloseMore ==
  ASSUME NEW X, NEW S, Numbered(X, S), NEW k \in Int, NEW f \in Nat, Above(X, S, k, f),
         NEW Y, NEW T, Numbered(Y, T), NEW m,
         \A i \in Y : i > f, f = 0 \/ Cardinality(Y) >= MemorySize,
         Differ(Y, T, f) \subseteq Differ(X, S, f) \cup {m}
  PROVE  Close(Y, T, k + 1)
<1>1. /\ IsFiniteSet(Differ(X, S, f)) /\ Cardinality(Differ(X, S, f)) \in Nat
      /\ Cardinality(Differ(Y, T, f)) \in Nat
  BY DifferFinite
<1>2. /\ IsFiniteSet(Differ(X, S, f) \cup {m})
      /\ Cardinality(Differ(X, S, f) \cup {m}) \in {Cardinality(Differ(X, S, f)), Cardinality(Differ(X, S, f)) + 1}
  BY <1>1, FS_AddElement
<1>3. Cardinality(Differ(Y, T, f)) <= Cardinality(Differ(X, S, f) \cup {m})
  BY <1>2, FS_Subset
<1> QED BY <1>1, <1>2, <1>3 DEF Close, Above

LEMMA CloseWeaker ==
  ASSUME NEW X, NEW S, Numbered(X, S), NEW k \in Int, NEW l \in Int, k <= l, Close(X, S, k)
  PROVE  Close(X, S, l)
BY DifferFinite DEF Close, Above

\* The number below is below every new one, too.
LEMMA BelowNew ==
  ASSUME NEW X, NEW S, Numbered(X, S), NEW k \in Int, NEW f \in Nat, Above(X, S, k, f),
         NEW m \in Positive, \A i \in X : i < m
  PROVE  m > f
<1>1. CASE f = 0
  BY <1>1 DEF Positive
<1>2. CASE f # 0
  <2>1. Cardinality(X) >= 1
    BY <1>2, StoresAssumption, FS_CardinalityType DEF Above, Numbered
  <2>2. X # {}
    BY <2>1, FS_EmptySet
  <2>3. PICK i \in X : i > f
    BY <2>2 DEF Above
  <2> QED BY <2>3 DEF Numbered, Positive
<1> QED BY <1>1, <1>2

\* A number that both get makes no difference.
LEMMA CloseBoth ==
  ASSUME NEW X, NEW S, Numbered(X, S), NEW k \in Int, Close(X, S, k),
         NEW m \in Positive, \A i \in X : i < m
  PROVE  Close(X \cup {m}, S \cup {m}, k) /\ Numbered(X \cup {m}, S \cup {m})
<1>1. PICK f \in Nat : Above(X, S, k, f)
  BY DEF Close
<1>2. Numbered(X \cup {m}, S \cup {m}) /\ Cardinality(X \cup {m}) >= Cardinality(X)
  <2>1. IsFiniteSet(X) /\ IsFiniteSet(S) /\ Cardinality(X) \in Nat
    BY FS_CardinalityType DEF Numbered
  <2>2. IsFiniteSet(X \cup {m}) /\ IsFiniteSet(S \cup {m})
        /\ Cardinality(X \cup {m}) \in {Cardinality(X), Cardinality(X) + 1}
    BY <2>1, FS_AddElement
  <2> QED BY <2>1, <2>2 DEF Numbered
<1>3. \A i \in X \cup {m} : i > f
  BY <1>1, BelowNew DEF Above
<1>4. Differ(X \cup {m}, S \cup {m}, f) \subseteq Differ(X, S, f)
  BY DEF Differ
<1>5. f = 0 \/ Cardinality(X \cup {m}) >= MemorySize
  <2>1. Cardinality(X) \in Nat /\ Cardinality(X \cup {m}) \in Nat
    BY <1>2, FS_CardinalityType DEF Numbered
  <2> QED BY <1>1, <1>2, <2>1, StoresAssumption DEF Above
<1> QED BY <1>1, <1>2, <1>3, <1>4, <1>5, CloseSub

\* One that S alone gets is one difference more.
LEMMA CloseMissing ==
  ASSUME NEW X, NEW S, Numbered(X, S), NEW k \in Int, Close(X, S, k), NEW m \in Positive
  PROVE  Close(X, S \cup {m}, k + 1) /\ Numbered(X, S \cup {m})
<1>1. PICK f \in Nat : Above(X, S, k, f)
  BY DEF Close
<1>2. Numbered(X, S \cup {m})
  BY FS_AddElement DEF Numbered
<1>3. Differ(X, S \cup {m}, f) \subseteq Differ(X, S, f) \cup {m}
  BY DEF Differ
<1> QED BY <1>1, <1>2, <1>3, CloseMore DEF Above

\* So is one that X alone gets.
LEMMA CloseExtra ==
  ASSUME NEW X, NEW S, Numbered(X, S), NEW k \in Int, Close(X, S, k),
         NEW m \in Positive, \A i \in X : i < m
  PROVE  Close(X \cup {m}, S, k + 1) /\ Numbered(X \cup {m}, S)
<1>1. PICK f \in Nat : Above(X, S, k, f)
  BY DEF Close
<1>2. Numbered(X \cup {m}, S)
  BY FS_AddElement DEF Numbered
<1>3. Differ(X \cup {m}, S, f) \subseteq Differ(X, S, f) \cup {m}
  BY DEF Differ
<1>4. \A i \in X \cup {m} : i > f
  BY <1>1, BelowNew DEF Above
<1>5. f = 0 \/ Cardinality(X \cup {m}) >= MemorySize
  <2>1. Cardinality(X) \in Nat /\ Cardinality(X \cup {m}) \in Nat /\ Cardinality(X \cup {m}) >= Cardinality(X)
    <3>1. IsFiniteSet(X) /\ X \subseteq X \cup {m} /\ IsFiniteSet(X \cup {m})
      BY <1>2 DEF Numbered
    <3> QED BY <3>1, FS_Subset, FS_CardinalityType
  <2> QED BY <1>1, <2>1, StoresAssumption DEF Above
<1> QED BY <1>1, <1>2, <1>3, <1>4, <1>5, CloseMore

\* Of the largest MemorySize of S, all but k are in a set that is close to it.
LEMMA CloseCovers ==
  ASSUME NEW X, NEW S, Numbered(X, S), NEW k \in Int, Close(X, S, k),
         NEW L \in SUBSET S, Cardinality(L) <= MemorySize, \A i \in L, j \in S : i < j => j \in L
  PROVE  Cardinality(L \ X) <= k
<1>1. PICK f \in Nat : Above(X, S, k, f)
  BY DEF Close
<1>2. IsFiniteSet(L) /\ IsFiniteSet(L \ X) /\ IsFiniteSet(L \cap X) /\ IsFiniteSet(X) /\ IsFiniteSet(X \ L)
  BY FS_Subset DEF Numbered
<1>3. IsFiniteSet(Differ(X, S, f)) /\ Cardinality(Differ(X, S, f)) \in Nat
  BY DifferFinite
<1>4. CASE \A i \in L : i > f
  <2>1. L \ X \subseteq Differ(X, S, f)
    BY <1>4 DEF Differ
  <2> QED BY <1>1, <1>2, <1>3, <2>1, FS_Subset, FS_CardinalityType DEF Above
<1>5. CASE \E i \in L : ~(i > f)
  <2>1. PICK i \in L : ~(i > f)
    BY <1>5
  <2>2. f # 0 /\ Cardinality(X) >= MemorySize
    BY <1>1, <2>1 DEF Above, Numbered, Positive
  <2>3. \A j \in S : j > f => j \in L
    BY <2>1 DEF Numbered, Positive
  <2>4. X \ L \subseteq Differ(X, S, f)
    BY <1>1, <2>3 DEF Differ, Above
  <2>5. Cardinality(L \ X) = Cardinality(L) - Cardinality(L \cap X)
        /\ Cardinality(X \ L) = Cardinality(X) - Cardinality(L \cap X)
    <3>1. L \cap X = X \cap L
      OBVIOUS
    <3> QED BY <1>2, <3>1, FS_Difference
  <2>6. Cardinality(L) \in Nat /\ Cardinality(X) \in Nat /\ Cardinality(L \cap X) \in Nat
        /\ Cardinality(X \ L) <= Cardinality(Differ(X, S, f))
    BY <1>2, <1>3, <2>4, FS_Subset, FS_CardinalityType
  <2> QED BY <1>1, <1>3, <2>2, <2>5, <2>6, StoresAssumption DEF Above
<1> QED BY <1>4, <1>5

-----------------------------------------------------------------------------
(* Sequences that grow *)

Increasing(s) == \A i, j \in 1..Len(s) : i < j => s[i] < s[j]

LEMMA IdsFinite ==
  ASSUME NEW s \in Seq(Nat)
  PROVE  /\ IsFiniteSet(Memory!Ids(s)) /\ Cardinality(Memory!Ids(s)) <= Len(s)
         /\ Increasing(s) => Cardinality(Memory!Ids(s)) = Len(s)
<1> DEFINE h == [i \in 1..Len(s) |-> s[i]]
<1>0. DOMAIN s = 1..Len(s) /\ Len(s) \in Nat
  OBVIOUS
<1>1. h \in Surjection(1..Len(s), Memory!Ids(s))
  <2>1. Memory!Ids(s) = {s[i] : i \in 1..Len(s)}
    BY <1>0 DEF Memory!Ids
  <2>2. h \in [1..Len(s) -> Memory!Ids(s)]
    BY <2>1
  <2>3. \A x \in Memory!Ids(s) : \E i \in 1..Len(s) : h[i] = x
    BY <2>1
  <2> QED BY <2>2, <2>3 DEF Surjection
<1>2. IsFiniteSet(1..Len(s)) /\ Cardinality(1..Len(s)) = Len(s)
  <2> DEFINE n == Len(s)
  <2>1. n \in Nat /\ n - 1 + 1 = n
    BY <1>0
  <2> HIDE DEF n
  <2>2. IsFiniteSet(1..n) /\ Cardinality(1..n) = n
    BY <2>1, FS_Interval
  <2> QED BY <2>2 DEF n
<1>3. ASSUME Increasing(s) PROVE h \in Injection(1..Len(s), Memory!Ids(s))
  <2>1. \A i, j \in 1..Len(s) : s[i] = s[j] => i = j
    BY <1>3 DEF Increasing
  <2> QED BY <1>1, <2>1 DEF Injection, Surjection, IsInjective
<1> HIDE DEF h
<1>4. /\ IsFiniteSet(Memory!Ids(s)) /\ Cardinality(Memory!Ids(s)) <= Cardinality(1..Len(s))
      /\ Cardinality(Memory!Ids(s)) = Cardinality(1..Len(s)) <=> h \in Injection(1..Len(s), Memory!Ids(s))
  BY <1>1, <1>2, FS_Surjection
<1> QED BY <1>2, <1>3, <1>4

\* The end of a sequence that grows holds its numbers above one of them.
LEMMA LastHolds ==
  ASSUME NEW s \in Seq(Nat), Increasing(s), \A i \in 1..Len(s) : s[i] > 0
  PROVE  LET t == Memory!Last(s, MemorySize) IN
         /\ t \in Seq(Nat) /\ Increasing(t) /\ Len(t) <= MemorySize
         /\ \E g \in Nat : /\ Memory!Ids(t) = {i \in Memory!Ids(s) : i > g}
                           /\ g = 0 \/ Cardinality(Memory!Ids(t)) = MemorySize
<1>1. CASE Len(s) <= MemorySize
  <2>1. Memory!Last(s, MemorySize) = s
    <3>1. SubSeq(s, 1, Len(s)) = s
      OBVIOUS
    <3>2. ~(Len(s) > MemorySize)
      BY <1>1, StoresAssumption
    <3> QED BY <3>1, <3>2 DEF Memory!Last
  <2>2. Memory!Ids(s) = {i \in Memory!Ids(s) : i > 0}
    BY DEF Memory!Ids
  <2> QED BY <1>1, <2>1, <2>2
<1>2. CASE Len(s) > MemorySize
  <2> DEFINE a == Len(s) - MemorySize
             t == Memory!Last(s, MemorySize)
  <2>1. a \in 1..Len(s) /\ MemorySize \in Nat
    BY <1>2, StoresAssumption
  <2>2. t = SubSeq(s, a + 1, Len(s))
    BY <1>2, StoresAssumption DEF Memory!Last
  <2> HIDE DEF t
  <2>3. t \in Seq(Nat) /\ Len(t) = MemorySize /\ \A i \in 1..MemorySize : t[i] = s[a + i]
    BY <2>1, <2>2
  <2>4. Increasing(t)
    <3> SUFFICES ASSUME NEW i \in 1..MemorySize, NEW j \in 1..MemorySize, i < j
                 PROVE  t[i] < t[j]
      BY <2>3 DEF Increasing
    <3>1. a + i \in 1..Len(s) /\ a + j \in 1..Len(s) /\ a + i < a + j
      BY <2>1
    <3> HIDE DEF a
    <3> QED BY <3>1, <2>3 DEF Increasing
  <2>5. s[a] \in Nat
    BY <2>1
  <2>6. Memory!Ids(t) = {i \in Memory!Ids(s) : i > s[a]}
    <3>1. ASSUME NEW i \in 1..MemorySize
          PROVE  t[i] \in Memory!Ids(s) /\ t[i] > s[a]
      <4>1. a + i \in 1..Len(s) /\ a < a + i
        BY <2>1
      <4> HIDE DEF a
      <4>2. t[i] = s[a + i] /\ s[a] < s[a + i] /\ s[a] \in Nat /\ s[a + i] \in Nat
        BY <4>1, <2>1, <2>3 DEF Increasing
      <4> QED BY <4>1, <4>2 DEF Memory!Ids
    <3>2. ASSUME NEW j \in 1..Len(s), s[j] > s[a]
          PROVE  s[j] \in Memory!Ids(t)
      <4>1. j > a
        BY <3>2, <2>1 DEF Increasing
      <4>2. j - a \in 1..MemorySize /\ a + (j - a) = j
        BY <4>1, <2>1
      <4>3. t[j - a] = s[j]
        BY <4>2, <2>3
      <4> QED BY <4>2, <4>3, <2>3 DEF Memory!Ids
    <3>3. Memory!Ids(t) = {t[i] : i \in 1..MemorySize} /\ Memory!Ids(s) = {s[i] : i \in 1..Len(s)}
      BY <2>3 DEF Memory!Ids
    <3> HIDE DEF a
    <3> QED BY <3>1, <3>2, <3>3
  <2>7. Cardinality(Memory!Ids(t)) = MemorySize
    BY <2>3, <2>4, IdsFinite
  <2>8. Len(t) <= MemorySize
    BY <2>1, <2>3
  <2> HIDE DEF a
  <2>9. \E g \in Nat : Memory!Ids(t) = {i \in Memory!Ids(s) : i > g}
                      /\ (g = 0 \/ Cardinality(Memory!Ids(t)) = MemorySize)
    BY <2>5, <2>6, <2>7
  <2> QED BY <2>3, <2>4, <2>8, <2>9 DEF t
<1> QED BY <1>1, <1>2, StoresAssumption

-----------------------------------------------------------------------------
(* What the process holds *)

\* Memories 1 to c came, those of s were stored, and e are those remembered.
Stored(s, c) == s \in Seq(Nat) /\ Increasing(s) /\ \A i \in 1..Len(s) : s[i] \in 1..c

Remembered(e, s, c, k) ==
  /\ Stored(e, c) /\ Len(e) <= MemorySize
  /\ Close(Memory!Ids(e), Memory!Ids(s), k)

LEMMA StoredNumbered ==
  ASSUME NEW c \in Nat, NEW s, Stored(s, c), NEW e, Stored(e, c)
  PROVE  Numbered(Memory!Ids(e), Memory!Ids(s))
<1>1. Memory!Ids(s) \subseteq Positive /\ Memory!Ids(e) \subseteq Positive
  BY DEF Memory!Ids, Stored, Positive
<1> QED BY <1>1, IdsFinite DEF Numbered, Stored

\* The next memory.
LEMMA StoredNext ==
  ASSUME NEW c \in Nat, NEW s, Stored(s, c)
  PROVE  /\ Stored(Append(s, c + 1), c + 1) /\ Stored(s, c + 1)
         /\ Memory!Ids(Append(s, c + 1)) = Memory!Ids(s) \cup {c + 1}
         /\ \A i \in Memory!Ids(s) : i < c + 1
<1> DEFINE t == Append(s, c + 1)
<1>1. t \in Seq(Nat) /\ Len(t) = Len(s) + 1 /\ t[Len(s) + 1] = c + 1 /\ \A i \in 1..Len(s) : t[i] = s[i]
  BY DEF Stored
<1> HIDE DEF t
<1>2. s \in Seq(Nat) /\ Len(s) \in Nat /\ \A i \in 1..Len(s) : s[i] \in 1..c
  BY DEF Stored
<1>3. Stored(t, c + 1)
  <2>1. \A i \in 1..Len(t) : t[i] \in 1..c + 1
    BY <1>1, <1>2
  <2>2. Increasing(t)
    <3> SUFFICES ASSUME NEW i \in 1..Len(t), NEW j \in 1..Len(t), i < j PROVE t[i] < t[j]
      BY DEF Increasing
    <3>1. i \in 1..Len(s) /\ t[i] = s[i] /\ s[i] \in 1..c
      BY <1>1, <1>2
    <3>2. CASE j \in 1..Len(s)
      BY <3>1, <3>2, <1>1 DEF Stored, Increasing
    <3>3. CASE j = Len(s) + 1
      BY <3>1, <3>3, <1>1
    <3> QED BY <3>2, <3>3, <1>1
  <2> QED BY <1>1, <2>1, <2>2 DEF Stored
<1>4. Stored(s, c + 1)
  BY DEF Stored
<1>5. Memory!Ids(t) = Memory!Ids(s) \cup {c + 1}
  <2>1. Memory!Ids(t) = {t[i] : i \in 1..Len(s) + 1} /\ Memory!Ids(s) = {s[i] : i \in 1..Len(s)}
    BY <1>1, <1>2 DEF Memory!Ids
  <2> QED BY <1>1, <1>2, <2>1
<1>6. \A i \in Memory!Ids(s) : i < c + 1
  BY <1>2 DEF Memory!Ids
<1> QED BY <1>3, <1>4, <1>5, <1>6 DEF t

\* Of a sequence that is close the end is close.
LEMMA LastRemembered ==
  ASSUME NEW c \in Nat, NEW s, Stored(s, c), NEW e, Stored(e, c), NEW k \in Int,
         Close(Memory!Ids(e), Memory!Ids(s), k)
  PROVE  Remembered(Memory!Last(e, MemorySize), s, c, k)
<1> DEFINE t == Memory!Last(e, MemorySize)
           X == Memory!Ids(e)
           Y == Memory!Ids(t)
           S == Memory!Ids(s)
<1>0. e \in Seq(Nat) /\ Increasing(e) /\ \A i \in 1..Len(e) : e[i] > 0
  BY DEF Stored
<1>1. PICK g \in Nat : Y = {i \in X : i > g} /\ (g = 0 \/ Cardinality(Y) = MemorySize)
  BY <1>0, LastHolds
<1>2. t \in Seq(Nat) /\ Increasing(t) /\ Len(t) <= MemorySize
  BY <1>0, LastHolds
<1>3. Stored(t, c)
  <2>1. \A i \in 1..Len(t) : t[i] \in X
    <3> HIDE DEF X, t
    <3> SUFFICES ASSUME NEW i \in 1..Len(t) PROVE t[i] \in Memory!Ids(t)
      BY <1>1
    <3> QED BY <1>2 DEF Memory!Ids
  <2>2. \A i \in X : i \in 1..c
    BY DEF Memory!Ids, Stored
  <2> HIDE DEF t, X
  <2> QED BY <1>2, <2>1, <2>2 DEF Stored
<1>4. Numbered(X, S) /\ Numbered(Y, S)
  BY <1>3, StoredNumbered
<1>5. PICK f \in Nat : Above(X, S, k, f)
  BY DEF Close
<1>a. \A i \in X \cup S : i \in Nat
  BY <1>4 DEF Numbered, Positive
<1> HIDE DEF t, X, Y, S
<1>6. CASE f >= g
  <2>1. Y = X
    <3>1. \A i \in X : i > f /\ i \in Nat
      BY <1>5, <1>a DEF Above
    <3>2. \A i \in X : i > g
      BY <3>1, <1>6
    <3> QED BY <1>1, <3>2
  <2>2. Close(Y, S, k)
    BY <1>5, <2>1 DEF Close
  <2> QED BY <1>2, <1>3, <2>2 DEF Remembered, t, Y, S
<1>7. CASE ~(f >= g)
  <2>1. Differ(Y, S, g) \subseteq Differ(X, S, f)
    <3>1. \A i \in X \cup S : i > g => i > f
      BY <1>7, <1>a
    <3>2. \A i : i \in Y <=> i \in X /\ i > g
      BY <1>1
    <3> QED BY <3>1, <3>2 DEF Differ
  <2>2. g = 0 \/ Cardinality(Y) >= MemorySize
    BY <1>1, StoresAssumption
  <2>3. \A i \in Y : i > g
    BY <1>1
  <2>4. Close(Y, S, k)
    BY <1>4, <1>5, <2>1, <2>2, <2>3, CloseSub
  <2> QED BY <1>2, <1>3, <2>4 DEF Remembered, t, Y, S
<1> QED BY <1>6, <1>7

\* A memory that is stored and remembered keeps the two as close as they were.
LEMMA RememberNext ==
  ASSUME NEW c \in Nat, NEW s, Stored(s, c), NEW k \in Int, NEW e, Remembered(e, s, c, k)
  PROVE  Remembered(Memory!Last(Append(e, c + 1), MemorySize), Append(s, c + 1), c + 1, k)
<1>1. /\ Stored(e, c) /\ Close(Memory!Ids(e), Memory!Ids(s), k)
      /\ Stored(Append(e, c + 1), c + 1) /\ Stored(Append(s, c + 1), c + 1)
      /\ Memory!Ids(Append(e, c + 1)) = Memory!Ids(e) \cup {c + 1}
      /\ Memory!Ids(Append(s, c + 1)) = Memory!Ids(s) \cup {c + 1}
      /\ \A i \in Memory!Ids(e) : i < c + 1
  BY StoredNext DEF Remembered
<1>2. Numbered(Memory!Ids(e), Memory!Ids(s)) /\ c + 1 \in Positive
  BY <1>1, StoredNumbered DEF Positive
<1>3. Close(Memory!Ids(Append(e, c + 1)), Memory!Ids(Append(s, c + 1)), k)
  BY <1>1, <1>2, CloseBoth
<1> QED BY <1>1, <1>3, LastRemembered

\* More may be forgotten than is.
LEMMA FewerForgotten ==
  ASSUME NEW c, c \in Nat, NEW s, Stored(s, c), NEW k \in Int, NEW e, Remembered(e, s, c, k),
         NEW l \in Int, k <= l
  PROVE  Remembered(e, s, c, l)
<1>1. Numbered(Memory!Ids(e), Memory!Ids(s))
  BY StoredNumbered DEF Remembered
<1> QED BY <1>1, CloseWeaker DEF Remembered

-----------------------------------------------------------------------------
(* What the file holds.  Its last line is loose, and so is worth nothing, when it  *)
(* has no newline: the next line that is written spoils it and itself.             *)

Firm(d, n) == {d[i] : i \in 1..n} \ {0}

Lines(d, c) ==
  /\ d \in Seq(Nat) /\ \A i \in 1..Len(d) : d[i] <= c
  /\ \A i, j \in 1..Len(d) : i < j /\ d[i] > 0 /\ d[j] > 0 => d[i] < d[j]

OnFile(d, l, s, c, k) ==
  /\ Lines(d, c) /\ l <= Len(d) /\ l <= k
  /\ Close(Firm(d, Len(d) - l), Memory!Ids(s), k - l)

After(d, l, line) == IF l = 0 THEN Append(d, line) ELSE [d EXCEPT ![Len(d)] = 0]

LEMMA FirmNumbered ==
  ASSUME NEW c \in Nat, NEW s, Stored(s, c), NEW d, Lines(d, c), NEW n \in 0..Len(d)
  PROVE  /\ Numbered(Firm(d, n), Memory!Ids(s)) /\ \A i \in Firm(d, n) : i \in 1..c
<1>1. SubSeq(d, 1, n) \in Seq(Nat) /\ Len(SubSeq(d, 1, n)) = n
      /\ \A i \in 1..n : SubSeq(d, 1, n)[i] = d[i] /\ d[i] \in Nat /\ d[i] <= c
  BY DEF Lines
<1>2. Firm(d, n) \subseteq Memory!Ids(SubSeq(d, 1, n))
  <2> DEFINE t == SubSeq(d, 1, n)
  <2>1. DOMAIN t = 1..n /\ \A i \in 1..n : t[i] = d[i]
    BY <1>1
  <2> HIDE DEF t
  <2> QED BY <2>1 DEF Firm, Memory!Ids, t
<1>3. IsFiniteSet(Firm(d, n))
  BY <1>1, <1>2, IdsFinite, FS_Subset
<1>4. \A i \in Firm(d, n) : i \in 1..c
  BY <1>1 DEF Firm
<1>5. IsFiniteSet(Memory!Ids(s)) /\ Memory!Ids(s) \subseteq Positive
  BY StoredNumbered DEF Numbered
<1> QED BY <1>3, <1>4, <1>5 DEF Numbered, Positive

\* The lines after one more was written, and what is firm if it was torn or not.
LEMMA AfterLines ==
  ASSUME NEW c \in Nat, NEW d, Lines(d, c), NEW l \in {0, 1}, l <= Len(d),
         NEW line \in Nat, line = 0 \/ line = c + 1
  PROVE  LET a == After(d, l, line) IN
         /\ Lines(a, c + 1) /\ Len(a) >= 1
         /\ Firm(a, Len(a) - 1) = Firm(d, Len(d) - l)
         /\ Firm(a, Len(a)) = Firm(d, Len(d) - l) \cup (IF l = 0 THEN {line} \ {0} ELSE {})
<1> DEFINE a == After(d, l, line)
<1>0. d \in Seq(Nat) /\ Len(d) \in Nat /\ \A i \in 1..Len(d) : d[i] \in Nat /\ d[i] <= c
  BY DEF Lines
<1>1. CASE l = 0
  <2>1. a \in Seq(Nat) /\ Len(a) = Len(d) + 1 /\ a[Len(d) + 1] = line /\ \A i \in 1..Len(d) : a[i] = d[i]
    BY <1>0, <1>1 DEF After
  <2> HIDE DEF a
  <2>2. Lines(a, c + 1)
    <3>1. \A i \in 1..Len(a) : a[i] <= c + 1
      BY <1>0, <2>1
    <3>2. ASSUME NEW i \in 1..Len(a), NEW j \in 1..Len(a), i < j, a[i] > 0, a[j] > 0
          PROVE  a[i] < a[j]
      <4>1. i \in 1..Len(d) /\ a[i] = d[i] /\ d[i] <= c /\ d[i] \in Nat
        BY <3>2, <1>0, <2>1
      <4>2. CASE j \in 1..Len(d)
        BY <3>2, <4>1, <4>2, <2>1 DEF Lines
      <4>3. CASE j = Len(d) + 1
        BY <3>2, <4>1, <4>3, <2>1
      <4> QED BY <4>2, <4>3, <2>1
    <3> QED BY <2>1, <3>1, <3>2 DEF Lines
  <2>3. Firm(a, Len(a) - 1) = Firm(d, Len(d) - l)
    <3>1. Len(a) - 1 = Len(d) /\ Len(d) - l = Len(d)
      BY <1>0, <1>1, <2>1
    <3> QED BY <2>1, <3>1 DEF Firm
  <2>4. Firm(a, Len(a)) = Firm(d, Len(d)) \cup ({line} \ {0})
    <3>1. 1..Len(a) = 1..Len(d) \cup {Len(d) + 1}
      BY <1>0, <2>1
    <3> QED BY <2>1, <3>1 DEF Firm
  <2>5. Len(d) - l = Len(d) /\ Len(a) >= 1
    BY <1>0, <1>1, <2>1
  <2> QED BY <1>1, <2>2, <2>3, <2>4, <2>5 DEF a
<1>2. CASE l = 1
  <2>1. a \in Seq(Nat) /\ Len(a) = Len(d) /\ Len(d) >= 1 /\ a[Len(d)] = 0
        /\ \A i \in 1..Len(d) - 1 : a[i] = d[i]
    BY <1>0, <1>2 DEF After
  <2> HIDE DEF a
  <2>2. Lines(a, c + 1)
    <3>1. ASSUME NEW i \in 1..Len(a) PROVE a[i] <= c + 1
      <4>1. CASE i = Len(d)
        BY <4>1, <2>1
      <4>2. CASE i \in 1..Len(d) - 1
        BY <4>2, <1>0, <2>1
      <4> QED BY <4>1, <4>2, <2>1
    <3>2. ASSUME NEW i \in 1..Len(a), NEW j \in 1..Len(a), i < j, a[i] > 0, a[j] > 0
          PROVE  a[i] < a[j]
      <4>1. i \in 1..Len(d) - 1 /\ j \in 1..Len(d) - 1
        BY <3>2, <1>0, <2>1
      <4> QED BY <4>1, <3>2, <2>1 DEF Lines
    <3> QED BY <2>1, <3>1, <3>2 DEF Lines
  <2>3. Firm(a, Len(a) - 1) = Firm(d, Len(d) - 1)
    BY <2>1 DEF Firm
  <2>4. Firm(a, Len(a)) = Firm(d, Len(d) - 1)
    <3>1. 1..Len(a) = (1..Len(d) - 1) \cup {Len(d)}
      BY <1>0, <2>1
    <3>2. {a[i] : i \in 1..Len(a)} = {a[i] : i \in 1..Len(d) - 1} \cup {0}
      BY <2>1, <3>1
    <3>3. {a[i] : i \in 1..Len(d) - 1} = {d[i] : i \in 1..Len(d) - 1}
      BY <2>1
    <3> QED BY <3>2, <3>3 DEF Firm
  <2> QED BY <1>2, <2>1, <2>2, <2>3, <2>4 DEF a
<1> QED BY <1>1, <1>2

\* A line that reached the file whole.
LEMMA LineWritten ==
  ASSUME NEW c \in Nat, NEW s, Stored(s, c), NEW k \in Int, NEW l \in {0, 1}, NEW d, OnFile(d, l, s, c, k)
  PROVE  OnFile(After(d, l, c + 1), 0, Append(s, c + 1), c + 1, k)
<1> DEFINE a == After(d, l, c + 1)
           X == Firm(d, Len(d) - l)
           S == Memory!Ids(s)
<1>1. Lines(d, c) /\ l <= Len(d) /\ l <= k /\ Close(X, S, k - l) /\ Len(d) \in Nat
  BY DEF OnFile, Lines
<1>2. /\ Lines(a, c + 1) /\ Len(a) >= 1 /\ Len(a) \in Nat
      /\ Firm(a, Len(a)) = X \cup (IF l = 0 THEN {c + 1} \ {0} ELSE {})
  <2>1. /\ Lines(a, c + 1) /\ Len(a) >= 1
        /\ Firm(a, Len(a)) = X \cup (IF l = 0 THEN {c + 1} \ {0} ELSE {})
    <3>1. ASSUME NEW line \in Nat, line = c + 1
          PROVE  /\ Lines(After(d, l, line), c + 1) /\ Len(After(d, l, line)) >= 1
                 /\ Firm(After(d, l, line), Len(After(d, l, line)))
                      = X \cup (IF l = 0 THEN {line} \ {0} ELSE {})
      BY <1>1, <3>1, AfterLines
    <3>2. c + 1 \in Nat
      OBVIOUS
    <3> QED BY <3>1, <3>2, Zenon
  <2> HIDE DEF a
  <2>2. Len(a) \in Nat
    BY <2>1 DEF Lines
  <2> QED BY <2>1, <2>2
<1>3. Memory!Ids(Append(s, c + 1)) = S \cup {c + 1} /\ c + 1 \in Positive
  BY StoredNext DEF Positive
<1>4. Numbered(X, S) /\ \A i \in X : i < c + 1
  <2>1. Len(d) - l \in 0..Len(d)
    BY <1>1
  <2> HIDE DEF X, S
  <2>2. Numbered(Firm(d, Len(d) - l), Memory!Ids(s)) /\ \A i \in Firm(d, Len(d) - l) : i \in 1..c
    BY <1>1, <2>1, FirmNumbered
  <2> QED BY <2>2 DEF X, S
<1> HIDE DEF a, X, S
<1>5. Close(Firm(a, Len(a)), S \cup {c + 1}, k)
  <2>1. CASE l = 0
    <3>1. Firm(a, Len(a)) = X \cup {c + 1}
      BY <1>2, <1>3, <2>1 DEF Positive
    <3>2. k - l = k
      BY <2>1
    <3>3. Close(X, S, k)
      BY <1>1, <3>2, Zenon
    <3>4. Close(X \cup {c + 1}, S \cup {c + 1}, k)
      BY <1>3, <1>4, <3>3, CloseBoth
    <3> QED BY <3>1, <3>4, Zenon
  <2>2. CASE l = 1
    <3>1. Firm(a, Len(a)) = X
      BY <1>2, <2>2
    <3>2. k - l + 1 = k /\ k - l \in Int
      BY <2>2
    <3>3. Close(X, S \cup {c + 1}, k - l + 1)
      BY <1>1, <1>3, <1>4, <3>2, CloseMissing
    <3>4. Close(X, S \cup {c + 1}, k)
      BY <3>2, <3>3, Zenon
    <3> QED BY <3>1, <3>4, Zenon
  <2> QED BY <2>1, <2>2
<1>6. Len(a) - 0 = Len(a) /\ k - 0 = k /\ 0 <= Len(a) /\ 0 <= k
  BY <1>1, <1>2
<1> QED BY <1>2, <1>3, <1>5, <1>6 DEF OnFile, a

\* A memory that does not reach the file, as something or as nothing.
LEMMA LineMissing ==
  ASSUME NEW c \in Nat, NEW s, Stored(s, c), NEW k \in Int, NEW l \in {0, 1}, NEW d, OnFile(d, l, s, c, k)
  PROVE  /\ OnFile(d, l, Append(s, c + 1), c + 1, k + 1)
         /\ OnFile(After(d, l, 0), 1, Append(s, c + 1), c + 1, k + 2)
<1> DEFINE a == After(d, l, 0)
           X == Firm(d, Len(d) - l)
           S == Memory!Ids(s)
<1>1. Lines(d, c) /\ l <= Len(d) /\ l <= k /\ Close(X, S, k - l) /\ Len(d) \in Nat /\ k - l \in Int
  BY DEF OnFile, Lines
<1>2. Lines(a, c + 1) /\ Len(a) >= 1 /\ Len(a) \in Nat /\ Firm(a, Len(a) - 1) = X
  <2>1. Lines(a, c + 1) /\ Len(a) >= 1 /\ Firm(a, Len(a) - 1) = X
    BY <1>1, AfterLines
  <2> HIDE DEF a
  <2>2. Len(a) \in Nat
    BY <2>1 DEF Lines
  <2> QED BY <2>1, <2>2
<1>3. Memory!Ids(Append(s, c + 1)) = S \cup {c + 1} /\ c + 1 \in Positive
  BY StoredNext DEF Positive
<1>4. Numbered(X, S)
  <2>1. Len(d) - l \in 0..Len(d)
    BY <1>1
  <2> QED BY <1>1, <2>1, FirmNumbered
<1>5. Lines(d, c + 1)
  BY <1>1 DEF Lines
<1> HIDE DEF a, S
<1>6. Close(X, S \cup {c + 1}, k - l + 1) /\ Numbered(X, S \cup {c + 1})
  <2> HIDE DEF X
  <2> QED BY <1>1, <1>3, <1>4, CloseMissing
<1>7. OnFile(d, l, Append(s, c + 1), c + 1, k + 1)
  <2>1. k - l + 1 = k + 1 - l /\ l <= k + 1
    BY <1>1
  <2>2. Close(X, Memory!Ids(Append(s, c + 1)), k + 1 - l)
    BY <1>3, <1>6, <2>1, Zenon
  <2> QED BY <1>1, <1>5, <2>1, <2>2 DEF OnFile
<1>8. OnFile(a, 1, Append(s, c + 1), c + 1, k + 2)
  <2>1. k + 2 - 1 \in Int /\ k - l + 1 \in Int /\ k - l + 1 <= k + 2 - 1 /\ 1 <= k + 2
    BY <1>1
  <2> HIDE DEF X
  <2>2. Close(X, S \cup {c + 1}, k + 2 - 1)
    BY <1>6, <2>1, CloseWeaker
  <2>3. Close(Firm(a, Len(a) - 1), Memory!Ids(Append(s, c + 1)), k + 2 - 1)
    BY <1>2, <1>3, <2>2, Zenon
  <2> QED BY <1>2, <2>1, <2>3 DEF OnFile
<1> QED BY <1>7, <1>8 DEF a

\* A line that a crash tore is not stored, but spoils the next one.
LEMMA LineTorn ==
  ASSUME NEW c \in Nat, NEW s, Stored(s, c), NEW k \in Int, NEW l \in {0, 1}, NEW d, OnFile(d, l, s, c, k),
         NEW line \in Nat, line = 0 \/ line = c + 1
  PROVE  OnFile(After(d, l, line), 1, s, c + 1, k + 1)
<1> DEFINE a == After(d, l, line)
           X == Firm(d, Len(d) - l)
           S == Memory!Ids(s)
<1>1. Lines(d, c) /\ l <= Len(d) /\ l <= k /\ Close(X, S, k - l) /\ Len(d) \in Nat /\ k - l \in Int
  BY DEF OnFile, Lines
<1>2. Lines(a, c + 1) /\ Len(a) >= 1 /\ Len(a) \in Nat /\ Firm(a, Len(a) - 1) = X
  <2>1. Lines(a, c + 1) /\ Len(a) >= 1 /\ Firm(a, Len(a) - 1) = X
    BY <1>1, AfterLines
  <2> HIDE DEF a
  <2>2. Len(a) \in Nat
    BY <2>1 DEF Lines
  <2> QED BY <2>1, <2>2
<1>4. Numbered(X, S)
  <2>1. Len(d) - l \in 0..Len(d)
    BY <1>1
  <2> QED BY <1>1, <2>1, FirmNumbered
<1> HIDE DEF a, X, S
<1>5. k + 1 - 1 \in Int /\ k - l <= k + 1 - 1 /\ 1 <= k + 1
  BY <1>1
<1>6. Close(X, S, k + 1 - 1)
  BY <1>1, <1>4, <1>5, CloseWeaker
<1> QED BY <1>2, <1>5, <1>6 DEF OnFile, a, S

\* A compaction that ran to its end, and what a process remembers, may be written down.
LEMMA RememberedOnFile ==
  ASSUME NEW c \in Nat, NEW s, Stored(s, c), NEW k \in Nat, NEW e, Remembered(e, s, c, k)
  PROVE  OnFile(e, 0, s, c, k)
<1>1. e \in Seq(Nat) /\ Len(e) \in Nat /\ Increasing(e) /\ \A i \in 1..Len(e) : e[i] \in 1..c
  BY DEF Remembered, Stored
<1>2. Lines(e, c)
  BY <1>1 DEF Lines, Increasing
<1>3. Firm(e, Len(e)) = Memory!Ids(e)
  <2>1. Memory!Ids(e) = {e[i] : i \in 1..Len(e)}
    BY <1>1 DEF Memory!Ids
  <2>2. 0 \notin {e[i] : i \in 1..Len(e)}
    BY <1>1
  <2> QED BY <2>1, <2>2 DEF Firm
<1>4. Len(e) - 0 = Len(e) /\ k - 0 = k /\ 0 <= Len(e) /\ 0 <= k
  BY <1>1
<1> QED BY <1>2, <1>3, <1>4 DEF OnFile, Remembered

-----------------------------------------------------------------------------
(* Reading the file *)

\* A set of numbers that holds 0 and, with each, the next one holds them all: of the
\* initial intervals that end at a missing number, inclusion would have a least one.
LEMMA Counting ==
  ASSUME NEW T, 0 \in T, \A n \in Nat : n \in T => n + 1 \in T
  PROVE  Nat \subseteq T
<1> SUFFICES ASSUME NEW k \in Nat, k \notin T PROVE FALSE
  OBVIOUS
<1> DEFINE missing == Nat \ T
           upTo(n) == 1..n
           intervals == {upTo(n) : n \in missing}
<1>1. intervals # {} /\ intervals \subseteq FiniteSubsetsOf(Nat)
  <2>1. \A n \in missing : IsFiniteSet(upTo(n)) /\ upTo(n) \subseteq Nat
    BY FS_Interval
  <2> QED
    BY <2>1, Zenon DEF FiniteSubsetsOf
<1>2. PICK I \in intervals : \A J \in intervals : <<J, I>> \notin StrictSubsetOrdering(Nat)
  BY <1>1, FS_StrictSubsetOrderingWellFounded, WFMin, Zenon
<1>3. PICK n \in missing : I = upTo(n)
  OBVIOUS
<1>4. n \in Nat /\ n - 1 \in Nat /\ n - 1 + 1 = n
  OBVIOUS
<1>5. n - 1 \in missing
  BY <1>4
<1>6. upTo(n - 1) \in intervals /\ upTo(n - 1) \subseteq upTo(n) /\ n \in upTo(n) \ upTo(n - 1)
  BY <1>4, <1>5
<1>7. <<upTo(n - 1), I>> \in StrictSubsetOrdering(Nat)
  BY <1>3, <1>6 DEF StrictSubsetOrdering
<1> QED
  BY <1>2, <1>6, <1>7

\* The memories of the first n lines.
IsParse(w, d, n) ==
  w = [i \in 0..n |-> IF i = 0 THEN <<>>
                      ELSE IF d[i] > 0 THEN Append(w[i - 1], d[i]) ELSE w[i - 1]]

LEMMA ParseExists ==
  ASSUME NEW d
  PROVE  \A n \in Nat : \E w : IsParse(w, d, n)
<1> DEFINE T == {n \in Nat : \E w : IsParse(w, d, n)}
<1>1. 0 \in T
  <2>1. IsParse([i \in {0} |-> <<>>], d, 0)
    BY DEF IsParse
  <2> QED BY <2>1
<1>2. ASSUME NEW n \in Nat, n \in T PROVE n + 1 \in T
  <2>1. PICK g : IsParse(g, d, n)
    BY <1>2
  <2> DEFINE Next1(v, x) == IF x > 0 THEN Append(v, x) ELSE v
             h == [i \in 0..n + 1 |-> IF i <= n THEN g[i] ELSE Next1(g[n], d[n + 1])]
  <2>2. \A i \in 0..n : g[i] = IF i = 0 THEN <<>> ELSE Next1(g[i - 1], d[i])
    BY <2>1 DEF IsParse
  <2> HIDE DEF Next1
  <2>3. ASSUME NEW i \in 0..n + 1
        PROVE  h[i] = IF i = 0 THEN <<>> ELSE Next1(h[i - 1], d[i])
    <3>1. CASE i = 0
      BY <2>2, <3>1
    <3>2. CASE i # 0 /\ i <= n
      <4>1. h[i] = g[i] /\ h[i - 1] = g[i - 1] /\ i \in 0..n
        BY <3>2
      <4> QED BY <2>2, <3>2, <4>1
    <3>3. CASE i = n + 1
      <4>1. i # 0 /\ ~(i <= n) /\ i - 1 = n /\ n <= n /\ n \in 0..n + 1
        BY <3>3
      <4>2. h[i - 1] = g[n]
        BY <4>1
      <4> QED BY <3>3, <4>1, <4>2
    <3> QED BY <3>1, <3>2, <3>3
  <2>4. PICK w : w = h
    OBVIOUS
  <2>5. w = [i \in 0..n + 1 |-> IF i = 0 THEN <<>> ELSE Next1(w[i - 1], d[i])]
    BY <2>3, <2>4
  <2>6. IsParse(w, d, n + 1)
    BY <2>5 DEF IsParse, Next1
  <2> QED BY <2>6
<1>3. \A n \in Nat : n \in T => n + 1 \in T
  BY <1>2
<1> HIDE DEF T
<1>4. Nat \subseteq T
  BY <1>1, <1>3, Counting
<1> QED BY <1>4 DEF T

\* The memories of a file are those of its lines, in their order; of a file without
\* garbage they are its lines.
LEMMA MemoriesAreLines ==
  ASSUME NEW c \in Nat, NEW d, Lines(d, c)
  PROVE  /\ Stored(Memory!Memories(d), c)
         /\ Memory!Ids(Memory!Memories(d)) = Firm(d, Len(d))
         /\ (\A i \in 1..Len(d) : d[i] > 0) => Memory!Memories(d) = d
<1> DEFINE w == CHOOSE v : IsParse(v, d, Len(d))
<1>1. d \in Seq(Nat) /\ Len(d) \in Nat /\ \A i \in 1..Len(d) : d[i] \in 0..c
  BY DEF Lines
<1>2. IsParse(w, d, Len(d)) /\ Memory!Memories(d) = w[Len(d)]
  <2>1. \E v : IsParse(v, d, Len(d))
    BY <1>1, ParseExists
  <2>2. IsParse(w, d, Len(d))
    BY <2>1, Zenon
  <2>3. Memory!Memories(d) = w[Len(d)]
    BY DEF Memory!Memories, IsParse
  <2> QED BY <2>2, <2>3
<1> HIDE DEF w
<1>3. w[0] = <<>> /\ \A n \in Nat : n + 1 \in 1..Len(d) =>
        w[n + 1] = IF d[n + 1] > 0 THEN Append(w[n], d[n + 1]) ELSE w[n]
  <2>1. \A i \in 0..Len(d) : w[i] = IF i = 0 THEN <<>>
          ELSE IF d[i] > 0 THEN Append(w[i - 1], d[i]) ELSE w[i - 1]
    BY <1>2 DEF IsParse
  <2>2. w[0] = <<>>
    BY <1>1, <2>1
  <2>3. ASSUME NEW n \in Nat, n + 1 \in 1..Len(d)
        PROVE  w[n + 1] = IF d[n + 1] > 0 THEN Append(w[n], d[n + 1]) ELSE w[n]
    <3>1. n + 1 \in 0..Len(d) /\ n + 1 # 0 /\ n + 1 - 1 = n
      BY <1>1, <2>3
    <3> QED BY <2>1, <3>1
  <2> QED BY <2>2, <2>3
<1>4. \A n \in 0..Len(d) : /\ Stored(w[n], c) /\ Memory!Ids(w[n]) = Firm(d, n)
                           /\ (\A i \in 1..Len(d) : d[i] > 0) => w[n] = SubSeq(d, 1, n)
  <2> DEFINE Good(n) == /\ Stored(w[n], c) /\ Memory!Ids(w[n]) = Firm(d, n)
                        /\ (\A i \in 1..Len(d) : d[i] > 0) => w[n] = SubSeq(d, 1, n)
             T == {n \in Nat : n \in 0..Len(d) => Good(n)}
  <2>1. 0 \in T
    <3>1. w[0] \in Seq(Nat) /\ Len(w[0]) = 0 /\ SubSeq(d, 1, 0) = <<>>
      BY <1>1, <1>3
    <3>2. Stored(w[0], c)
      BY <3>1 DEF Stored, Increasing
    <3>3. Memory!Ids(w[0]) = {} /\ Firm(d, 0) = {}
      BY <1>3 DEF Memory!Ids, Firm
    <3> QED BY <1>3, <3>1, <3>2, <3>3
  <2>2. ASSUME NEW n \in Nat, n \in T PROVE n + 1 \in T
    <3> SUFFICES ASSUME n + 1 \in 0..Len(d) PROVE Good(n + 1)
      OBVIOUS
    <3>1. n \in 0..Len(d) /\ n + 1 \in 1..Len(d) /\ Good(n)
      BY <1>1, <2>2
    <3> DEFINE v == w[n]
               m == d[n + 1]
    <3>2. Stored(v, c) /\ Memory!Ids(v) = Firm(d, n) /\ m \in 0..c
          /\ w[n + 1] = IF m > 0 THEN Append(v, m) ELSE v
      BY <1>1, <1>3, <3>1
    <3>3. \A i \in 1..n : d[i] \in Nat /\ (d[i] > 0 /\ m > 0 => d[i] < m)
      <4>1. \A i \in 1..n : i \in 1..Len(d) /\ i < n + 1
        BY <3>1, <1>1
      <4> QED BY <1>1, <3>1, <4>1 DEF Lines
    <3>4. \A i \in Memory!Ids(v) : m > 0 => i < m
      <4>1. \A x \in Firm(d, n) : m > 0 => x < m
        <5> SUFFICES ASSUME NEW x \in Firm(d, n), m > 0 PROVE x < m
          OBVIOUS
        <5>1. PICK i \in 1..n : x = d[i] /\ x # 0
          BY DEF Firm
        <5>2. d[i] \in Nat /\ (d[i] > 0 /\ m > 0 => d[i] < m)
          BY <3>3
        <5>3. d[i] > 0
          BY <5>1, <5>2
        <5> HIDE DEF m
        <5> QED BY <5>1, <5>2, <5>3
      <4> QED BY <3>2, <4>1
    <3>5. Firm(d, n + 1) = Firm(d, n) \cup ({m} \ {0})
      <4>1. 1..n + 1 = 1..n \cup {n + 1}
        OBVIOUS
      <4>2. {d[i] : i \in 1..n + 1} = {d[i] : i \in 1..n} \cup {m}
        BY <4>1
      <4> QED BY <4>2 DEF Firm
    <3>6. SubSeq(d, 1, n + 1) = Append(SubSeq(d, 1, n), m)
      BY <1>1, <3>1
    <3>7. (\A i \in 1..Len(d) : d[i] > 0) => m > 0 /\ v = SubSeq(d, 1, n)
      BY <3>1
    <3> HIDE DEF v, m
    <3>8. CASE m > 0
      <4>1. w[n + 1] = Append(v, m) /\ Firm(d, n + 1) = Memory!Ids(v) \cup {m}
        BY <3>2, <3>5, <3>8
      <4>2. Stored(Append(v, m), c) /\ Memory!Ids(Append(v, m)) = Memory!Ids(v) \cup {m}
        <5> DEFINE t == Append(v, m)
        <5>0. v \in Seq(Nat) /\ Len(v) \in Nat /\ \A i \in 1..Len(v) : v[i] \in 1..c /\ v[i] \in Memory!Ids(v)
          BY <3>2 DEF Stored, Memory!Ids
        <5>1. t \in Seq(Nat) /\ Len(t) = Len(v) + 1 /\ t[Len(v) + 1] = m /\ \A i \in 1..Len(v) : t[i] = v[i]
          BY <3>2, <5>0
        <5> HIDE DEF t
        <5>2. \A i \in 1..Len(t) : t[i] \in 1..c
          <6>1. m \in 1..c
            BY <3>2, <3>8
          <6>2. \A i \in 1..Len(t) : i \in 1..Len(v) \/ i = Len(v) + 1
            BY <5>0, <5>1
          <6> QED BY <5>0, <5>1, <6>1, <6>2
        <5>3. ASSUME NEW i \in 1..Len(t), NEW j \in 1..Len(t), i < j PROVE t[i] < t[j]
          <6>1. i \in 1..Len(v) /\ t[i] = v[i]
            BY <5>0, <5>1, <5>3
          <6>2. CASE j \in 1..Len(v)
            BY <5>1, <5>3, <6>1, <6>2, <3>2 DEF Stored, Increasing
          <6>3. CASE j = Len(v) + 1
            BY <5>0, <5>1, <6>1, <6>3, <3>4, <3>8
          <6> QED BY <5>0, <5>1, <6>2, <6>3
        <5>4. Memory!Ids(t) = Memory!Ids(v) \cup {m}
          <6>1. DOMAIN t = 1..Len(v) \cup {Len(v) + 1} /\ DOMAIN v = 1..Len(v)
            BY <5>0, <5>1
          <6> QED BY <5>1, <6>1 DEF Memory!Ids
        <5>5. Stored(t, c)
          BY <5>1, <5>2, <5>3 DEF Stored, Increasing
        <5> QED BY <5>4, <5>5 DEF t
      <4>3. (\A i \in 1..Len(d) : d[i] > 0) => w[n + 1] = SubSeq(d, 1, n + 1)
        BY <3>6, <3>7, <4>1
      <4> QED BY <4>1, <4>2, <4>3, Zenon
    <3>9. CASE ~(m > 0)
      <4>1. m = 0
        BY <3>2, <3>9
      <4>2. w[n + 1] = v /\ Firm(d, n + 1) = Firm(d, n)
        BY <3>2, <3>5, <3>9, <4>1
      <4> QED BY <3>2, <3>7, <3>9, <4>2
    <3> QED BY <3>8, <3>9
  <2>3. \A n \in Nat : n \in T => n + 1 \in T
    BY <2>2
  <2> HIDE DEF T
  <2>4. Nat \subseteq T
    BY <2>1, <2>3, Counting
  <2> QED BY <2>4, <1>1 DEF T
<1>5. SubSeq(d, 1, Len(d)) = d
  BY <1>1
<1>6. Len(d) \in 0..Len(d)
  BY <1>1
<1> QED BY <1>2, <1>4, <1>5, <1>6
\* What a restart reads is as close as the file was.
LEMMA Reloaded ==
  ASSUME NEW c \in Nat, NEW s, Stored(s, c), NEW k \in Int, NEW l \in {0, 1}, NEW d, OnFile(d, l, s, c, k)
  PROVE  Remembered(Memory!Last(Memory!Memories(d), MemorySize), s, c, k)
<1> DEFINE X == Firm(d, Len(d) - l)
           Y == Firm(d, Len(d))
           S == Memory!Ids(s)
<1>1. Lines(d, c) /\ l <= Len(d) /\ l <= k /\ Close(X, S, k - l) /\ Len(d) \in Nat /\ k - l \in Int
  BY DEF OnFile, Lines
<1>2. Stored(Memory!Memories(d), c) /\ Memory!Ids(Memory!Memories(d)) = Y
  BY <1>1, MemoriesAreLines
<1>3. Numbered(X, S) /\ \A i \in X : i \in 1..c
  <2>1. Len(d) - l \in 0..Len(d)
    BY <1>1
  <2> QED BY <1>1, <2>1, FirmNumbered
<1>4. Close(Y, S, k)
  <2>1. CASE l = 0
    <3>1. Len(d) - l = Len(d) /\ k - l = k
      BY <1>1, <2>1
    <3> QED BY <1>1, <3>1, Zenon
  <2>2. CASE l = 1
    <3> DEFINE m == d[Len(d)]
    <3>1. m \in 0..c /\ Len(d) \in 1..Len(d) /\ d \in Seq(Nat)
      BY <1>1, <2>2 DEF Lines
    <3>2. Y = X \cup ({m} \ {0})
      <4>1. 1..Len(d) = (1..Len(d) - l) \cup {Len(d)}
        BY <1>1, <2>2
      <4> QED BY <4>1 DEF Firm
    <3>3. m > 0 => \A i \in X : i < m
      <4> SUFFICES ASSUME m > 0, NEW i \in X PROVE i < m
        OBVIOUS
      <4>1. PICK j \in 1..Len(d) - l : i = d[j] /\ i # 0
        BY DEF Firm
      <4>2. j \in 1..Len(d) /\ j < Len(d)
        BY <1>1, <2>2
      <4>3. d[j] > 0
        BY <3>1, <4>1, <4>2
      <4> QED BY <1>1, <3>1, <4>1, <4>2, <4>3 DEF Lines
    <3>4. k - l + 1 = k /\ k - l <= k /\ k \in Int
      BY <2>2
    <3> HIDE DEF X, Y, S, m
    <3>5. CASE m = 0
      <4>1. Y = X
        BY <3>2, <3>5
      <4>2. Close(X, S, k)
        BY <1>1, <1>3, <3>4, CloseWeaker
      <4> QED BY <4>1, <4>2
    <3>6. CASE m # 0
      <4>1. Y = X \cup {m} /\ m \in Positive /\ \A i \in X : i < m
        BY <3>1, <3>2, <3>3, <3>6 DEF Positive
      <4>2. Close(X \cup {m}, S, k - l + 1)
        BY <1>1, <1>3, <4>1, CloseExtra
      <4> QED BY <3>4, <4>1, <4>2, Zenon
    <3> QED BY <3>5, <3>6
  <2> QED BY <2>1, <2>2
<1> HIDE DEF X, Y
<1> QED BY <1>2, <1>4, LastRemembered, Zenon

-----------------------------------------------------------------------------
(* Without faults *)

LEMMA LastIsEnd ==
  ASSUME NEW s \in Seq(Nat)
  PROVE  LET t == Memory!Last(s, MemorySize)
             n == IF Len(s) > MemorySize THEN MemorySize ELSE Len(s) IN
         t \in Seq(Nat) /\ Len(t) = n /\ \A i \in 1..n : t[i] = s[Len(s) - n + i]
<1>1. Len(s) \in Nat /\ MemorySize \in Nat \ {0}
  BY StoresAssumption
<1>2. CASE Len(s) > MemorySize
  <2>1. Memory!Last(s, MemorySize) = SubSeq(s, Len(s) - MemorySize + 1, Len(s))
    BY <1>2 DEF Memory!Last
  <2> QED BY <1>1, <1>2, <2>1
<1>3. CASE ~(Len(s) > MemorySize)
  <2>1. Memory!Last(s, MemorySize) = SubSeq(s, 1, Len(s)) /\ SubSeq(s, 1, Len(s)) = s
    BY <1>1, <1>3 DEF Memory!Last
  <2> QED BY <1>1, <1>3, <2>1
<1> QED BY <1>2, <1>3

\* The latest of the latest are the latest.
LEMMA LastOfLast ==
  ASSUME NEW s \in Seq(Nat)
  PROVE  Memory!Last(Memory!Last(s, MemorySize), MemorySize) = Memory!Last(s, MemorySize)
<1> DEFINE t == Memory!Last(s, MemorySize)
<1> HIDE DEF t
<1>1. t \in Seq(Nat) /\ Len(t) \in Nat /\ MemorySize \in Nat /\ ~(Len(t) > MemorySize)
  <2>1. t \in Seq(Nat) /\ Len(t) = IF Len(s) > MemorySize THEN MemorySize ELSE Len(s)
    BY LastIsEnd DEF t
  <2>2. MemorySize \in Nat /\ Len(s) \in Nat
    BY StoresAssumption
  <2> QED BY <2>1, <2>2
<1>2. SubSeq(t, 1, Len(t)) = t
  BY <1>1
<1>3. Memory!Last(t, MemorySize) = t
  BY <1>1, <1>2 DEF Memory!Last
<1> QED BY <1>3 DEF t

\* Sequences that end alike do so with one more.
LEMMA LastOfMore ==
  ASSUME NEW s \in Seq(Nat), NEW t \in Seq(Nat), NEW m \in Nat,
         Memory!Last(s, MemorySize) = Memory!Last(t, MemorySize)
  PROVE  Memory!Last(Append(s, m), MemorySize) = Memory!Last(Append(t, m), MemorySize)
<1> DEFINE ends(q) == IF Len(q) > MemorySize THEN MemorySize ELSE Len(q)
           u == Append(s, m)
           v == Append(t, m)
           x == Memory!Last(s, MemorySize)
           y == Memory!Last(u, MemorySize)
           z == Memory!Last(v, MemorySize)
<1>1. Len(s) \in Nat /\ Len(t) \in Nat /\ MemorySize \in Nat \ {0}
  BY StoresAssumption
<1>2. /\ u \in Seq(Nat) /\ Len(u) = Len(s) + 1 /\ u[Len(s) + 1] = m /\ \A i \in 1..Len(s) : u[i] = s[i]
      /\ v \in Seq(Nat) /\ Len(v) = Len(t) + 1 /\ v[Len(t) + 1] = m /\ \A i \in 1..Len(t) : v[i] = t[i]
  OBVIOUS
<1>3. /\ Len(x) = ends(s) /\ \A i \in 1..ends(s) : x[i] = s[Len(s) - ends(s) + i]
      /\ Len(x) = ends(t) /\ \A i \in 1..ends(t) : x[i] = t[Len(t) - ends(t) + i]
  BY LastIsEnd
<1>4. /\ y \in Seq(Nat) /\ Len(y) = ends(u) /\ \A i \in 1..ends(u) : y[i] = u[Len(u) - ends(u) + i]
      /\ z \in Seq(Nat) /\ Len(z) = ends(v) /\ \A i \in 1..ends(v) : z[i] = v[Len(v) - ends(v) + i]
  BY <1>2, LastIsEnd
<1> HIDE DEF u, v, x, y, z
<1> DEFINE e == ends(s)
           n == ends(u)
<1>5. /\ e \in Nat /\ e <= Len(s) /\ e <= Len(t) /\ (e = MemorySize \/ (e = Len(s) /\ e = Len(t)))
      /\ ends(s) = e /\ ends(t) = e /\ e <= MemorySize
  BY <1>1, <1>3
<1>6. /\ n \in Nat /\ ends(u) = n /\ ends(v) = n /\ 1 <= n /\ n <= e + 1
      /\ n - 1 <= Len(s) /\ n - 1 <= Len(t)
  <2> HIDE DEF n, e
  <2>1. CASE e = MemorySize
    <3>1. Len(u) > MemorySize /\ Len(v) > MemorySize
      <4>1. MemorySize <= Len(s) /\ MemorySize <= Len(t)
        BY <1>5, <2>1, Zenon
      <4>2. Len(u) = Len(s) + 1 /\ Len(v) = Len(t) + 1
        BY <1>2, Zenon
      <4> DEFINE a == Len(s)
                 b == Len(t)
      <4>3. a \in Nat /\ b \in Nat /\ MemorySize \in Nat /\ MemorySize <= a /\ MemorySize <= b
            /\ Len(u) = a + 1 /\ Len(v) = b + 1
        BY <1>1, <4>1, <4>2
      <4> HIDE DEF ends, a, b
      <4> QED BY <4>3
    <3>2. ends(u) = MemorySize /\ ends(v) = MemorySize
      BY <3>1
    <3>3. n = MemorySize
      BY <3>2 DEF n
    <3> HIDE DEF ends
    <3> QED BY <1>1, <1>5, <2>1, <3>2, <3>3
  <2>2. CASE e = Len(s) /\ e = Len(t)
    <3>1. Len(u) = e + 1 /\ Len(v) = e + 1
      BY <1>1, <1>2, <2>2
    <3>2. ends(u) = IF e + 1 > MemorySize THEN MemorySize ELSE e + 1
      BY <3>1
    <3>3. ends(v) = IF e + 1 > MemorySize THEN MemorySize ELSE e + 1
      BY <3>1
    <3>4. n = ends(u)
      BY DEF n
    <3> HIDE DEF ends
    <3> QED BY <1>1, <1>5, <2>2, <3>2, <3>3, <3>4
  <2> QED BY <1>5, <2>1, <2>2
<1> HIDE DEF n, e, ends
<1>7. Len(y) = n /\ Len(z) = n /\ \A i \in 1..n : y[i] = u[Len(u) - n + i] /\ z[i] = v[Len(v) - n + i]
  BY <1>4, <1>6
<1>8. \A i \in 1..e : x[i] = s[Len(s) - e + i] /\ x[i] = t[Len(t) - e + i]
  BY <1>3, <1>5
<1>9. ASSUME NEW i \in 1..n PROVE y[i] = z[i]
  <2>1. CASE i = n
    <3>1. Len(u) - n + i = Len(s) + 1 /\ Len(v) - n + i = Len(t) + 1
      BY <1>1, <1>2, <1>6, <2>1
    <3> QED BY <1>2, <1>7, <3>1
  <2>2. CASE i # n
    <3> DEFINE a == Len(u) - n + i
               b == Len(v) - n + i
               j == e + 1 - n + i
    <3>0. a = Len(s) + 1 - n + i /\ b = Len(t) + 1 - n + i /\ i \in Nat /\ i < n /\ 1 <= i
      BY <1>1, <1>2, <1>6, <2>2
    <3>1. a \in 1..Len(s) /\ b \in 1..Len(t)
      <4>1. Len(s) + 1 - n + i \in Int /\ Len(s) + 1 - n + i >= 1 /\ Len(s) + 1 - n + i <= Len(s)
        BY <1>1, <1>6, <3>0
      <4>2. Len(t) + 1 - n + i \in Int /\ Len(t) + 1 - n + i >= 1 /\ Len(t) + 1 - n + i <= Len(t)
        BY <1>1, <1>6, <3>0
      <4> HIDE DEF a, b
      <4> QED BY <3>0, <4>1, <4>2
    <3>2. j \in 1..e /\ a = Len(s) - e + j /\ b = Len(t) - e + j
      BY <1>1, <1>2, <1>5, <1>6, <2>2
    <3>3. y[i] = u[a] /\ z[i] = v[b]
      BY <1>7
    <3> HIDE DEF a, b, j
    <3>4. u[a] = s[a] /\ v[b] = t[b]
      BY <1>2, <3>1
    <3>5. x[j] = s[a] /\ x[j] = t[b]
      BY <1>8, <3>2
    <3> QED BY <3>3, <3>4, <3>5
  <2> QED BY <2>1, <2>2
<1>10. y = z
  BY <1>4, <1>7, <1>9
<1> QED BY <1>10 DEF u, v, y, z
-----------------------------------------------------------------------------
(* The invariant and the actions *)

Loose == IF torn THEN 1 ELSE 0

\* Without faults both hold exactly what was stored.
Latest(s) == Memory!Last(s, MemorySize)
Exact == ~torn /\ (\A i \in 1..Len(memoryFile) : memoryFile[i] > 0) /\ Latest(memoryFile) = Latest(stored)

MemoryTypes ==
  /\ count \in Nat /\ tears \in Nat /\ failures \in Nat /\ torn \in BOOLEAN
  /\ phase \in {"idle", "compacting", "down"}
  /\ Stored(stored, count)

ProcessHolds ==
  /\ Remembered(entries, stored, count, Memory!Faults)
  /\ Memory!Faults = 0 => entries = Latest(stored)

FileHolds ==
  /\ OnFile(memoryFile, Loose, stored, count, Memory!Faults)
  /\ Memory!Faults = 0 => Exact

\* A compaction has written some of the entries and has the rest to write.
Rewriting == ~torn /\ memoryFile \in Seq(Nat) /\ rest \in Seq(Nat) /\ memoryFile \o rest = entries

MemoryHolds ==
  /\ MemoryTypes
  /\ phase # "down" => ProcessHolds
  /\ phase # "compacting" => FileHolds
  /\ phase = "compacting" => Rewriting

MemoryInv == cut \/ MemoryHolds

LEMMA FaultsCount ==
  ASSUME MemoryTypes
  PROVE  Memory!Faults \in Nat /\ Loose \in {0, 1}
BY DEF MemoryTypes, Memory!Faults, Loose

\* What is written at the end of the file.
LEMMA WrittenAfter ==
  ASSUME MemoryTypes, FileHolds, NEW line \in Nat
  PROVE  Memory!Written(line) = After(memoryFile, Loose, line)
<1>1. memoryFile \in Seq(Nat) /\ Loose <= Len(memoryFile)
  BY DEF FileHolds, OnFile, Lines
<1>2. CASE ~torn
  BY <1>2 DEF Memory!Written, After, Loose
<1>3. CASE torn
  <2>1. Loose = 1 /\ Len(memoryFile) \in 1..Len(memoryFile)
    BY <1>1, <1>3 DEF Loose
  <2>2. Memory!Undecodable \notin {line, memoryFile[Len(memoryFile)]}
    BY <1>1, <2>1 DEF Memory!Undecodable
  <2>3. Memory!Written(line) = [memoryFile EXCEPT ![Len(memoryFile)] = 0]
    BY <1>3, <2>2 DEF Memory!Written, Memory!Garbage
  <2> QED BY <2>1, <2>3 DEF After
<1> QED BY <1>2, <1>3

\* A line that is written whole, and its memory, make the file what it must be.
LEMMA AppendKeeps ==
  ASSUME MemoryTypes, FileHolds, Memory!AppendLine(count + 1),
         count' = count + 1, stored' = Append(stored, count + 1), Memory!Faults' = Memory!Faults
  PROVE  FileHolds'
<1>1. count \in Nat /\ Stored(stored, count) /\ count + 1 \in Nat /\ stored \in Seq(Nat)
      /\ Memory!Faults \in Nat /\ Loose \in {0, 1}
  BY FaultsCount DEF MemoryTypes, Stored
<1>2. memoryFile' = After(memoryFile, Loose, count + 1) /\ torn' = FALSE /\ Loose' = 0
  BY <1>1, WrittenAfter DEF Memory!AppendLine, Loose
<1>3. OnFile(After(memoryFile, Loose, count + 1), 0, Append(stored, count + 1), count + 1, Memory!Faults)
  BY <1>1, LineWritten DEF FileHolds
<1>4. OnFile(memoryFile', Loose', stored', count', Memory!Faults')
  BY <1>2, <1>3, Zenon
<1>5. ASSUME Memory!Faults' = 0 PROVE Exact'
  <2>1. Exact /\ Loose = 0 /\ memoryFile \in Seq(Nat)
    BY <1>5 DEF FileHolds, OnFile, Lines, Exact, Loose
  <2>2. memoryFile' = Append(memoryFile, count + 1)
    BY <1>2, <2>1 DEF After
  <2>3. \A i \in 1..Len(memoryFile') : memoryFile'[i] > 0
    BY <1>1, <2>1, <2>2 DEF Exact
  <2>4. Latest(memoryFile') = Latest(stored')
    BY <1>1, <2>1, <2>2, LastOfMore DEF Exact, Latest
  <2> QED BY <1>2, <2>3, <2>4 DEF Exact
<1> QED BY <1>4, <1>5 DEF FileHolds

LEMMA StoreKeeps ==
  ASSUME MemoryHolds, Memory!Store
  PROVE  MemoryHolds'
<1>1. /\ MemoryTypes /\ ProcessHolds /\ FileHolds /\ phase = "idle" /\ phase' = "idle" /\ count' = count + 1
      /\ entries' = Latest(Append(entries, count + 1)) /\ stored' = Append(stored, count + 1)
  BY DEF MemoryHolds, Memory!Store, Memory!Remember, Latest
<1>2. /\ count \in Nat /\ Stored(stored, count) /\ Memory!Faults \in Nat /\ Loose \in {0, 1}
      /\ tears \in Nat /\ failures \in Nat /\ OnFile(memoryFile, Loose, stored, count, Memory!Faults)
      /\ stored \in Seq(Nat)
  BY <1>1, FaultsCount DEF MemoryTypes, FileHolds, Stored
<1>3. Stored(stored', count') /\ count' \in Nat
  BY <1>1, <1>2, StoredNext
<1>4. Remembered(entries', stored', count', Memory!Faults)
  BY <1>1, <1>2, RememberNext DEF ProcessHolds, Latest
<1>5. \/ Memory!AppendLine(count + 1) /\ failures' = failures /\ tears' = tears
      \/ failures' = failures + 1 /\ memoryFile' = memoryFile /\ torn' = torn /\ tears' = tears
      \/ failures' = failures + 1 /\ tears' = tears + 1 /\ memoryFile' = Memory!Written(0) /\ torn' = TRUE
  BY <1>1 DEF Memory!Store, Memory!Tear, Memory!Fragments, Memory!Garbage, Memory!file
<1>6. CASE Memory!AppendLine(count + 1) /\ failures' = failures /\ tears' = tears
  <2>1. Memory!Faults' = Memory!Faults
    BY <1>6 DEF Memory!Faults
  <2>2. FileHolds'
    BY <1>1, <1>6, <2>1, AppendKeeps
  <2>3. MemoryTypes'
    <3>1. torn' = FALSE /\ tears' = tears /\ failures' = failures /\ phase' = "idle"
      BY <1>1, <1>6 DEF Memory!AppendLine
    <3> QED BY <1>2, <1>3, <3>1 DEF MemoryTypes
  <2>4. ASSUME Memory!Faults = 0 PROVE entries' = Latest(stored')
    <3>1. entries = Latest(stored) /\ entries \in Seq(Nat)
      BY <1>1, <2>4 DEF ProcessHolds, Remembered, Stored
    <3>2. Latest(entries) = Latest(stored)
      BY <1>2, <3>1, LastOfLast DEF Latest
    <3> QED BY <1>1, <1>2, <3>1, <3>2, LastOfMore DEF Latest
  <2>5. ProcessHolds'
    BY <1>4, <2>1, <2>4 DEF ProcessHolds
  <2> QED BY <1>1, <2>2, <2>3, <2>5 DEF MemoryHolds
<1>7. CASE failures' = failures + 1 /\ memoryFile' = memoryFile /\ torn' = torn /\ tears' = tears
  <2>1. Memory!Faults' = Memory!Faults + 1 /\ Loose' = Loose /\ Memory!Faults' # 0
    BY <1>2, <1>7 DEF Memory!Faults, Loose
  <2>2. OnFile(memoryFile, Loose, Append(stored, count + 1), count + 1, Memory!Faults + 1)
    BY <1>2, LineMissing
  <2>3. OnFile(memoryFile', Loose', stored', count', Memory!Faults')
    BY <1>1, <1>7, <2>1, <2>2, Zenon
  <2>4. MemoryTypes'
    BY <1>1, <1>2, <1>3, <1>7 DEF MemoryTypes
  <2>5. Remembered(entries', stored', count', Memory!Faults')
    <3>1. Memory!Faults' \in Int /\ Memory!Faults <= Memory!Faults'
      BY <1>2, <2>1
    <3> QED BY <1>2, <1>3, <1>4, <3>1, FewerForgotten
  <2> QED BY <1>1, <2>1, <2>3, <2>4, <2>5 DEF MemoryHolds, ProcessHolds, FileHolds
<1>8. CASE failures' = failures + 1 /\ tears' = tears + 1 /\ memoryFile' = Memory!Written(0) /\ torn' = TRUE
  <2>1. Memory!Faults' = Memory!Faults + 2 /\ Loose' = 1 /\ Memory!Faults' # 0
    BY <1>2, <1>8 DEF Memory!Faults, Loose
  <2>2. memoryFile' = After(memoryFile, Loose, 0)
    BY <1>1, <1>8, WrittenAfter
  <2>3. OnFile(After(memoryFile, Loose, 0), 1, Append(stored, count + 1), count + 1, Memory!Faults + 2)
    BY <1>2, LineMissing
  <2>4. OnFile(memoryFile', Loose', stored', count', Memory!Faults')
    BY <1>1, <2>1, <2>2, <2>3, Zenon
  <2>5. MemoryTypes'
    BY <1>1, <1>2, <1>3, <1>8 DEF MemoryTypes
  <2>6. Remembered(entries', stored', count', Memory!Faults')
    <3>1. Memory!Faults' \in Int /\ Memory!Faults <= Memory!Faults'
      BY <1>2, <2>1
    <3> QED BY <1>2, <1>3, <1>4, <3>1, FewerForgotten
  <2> QED BY <1>1, <2>1, <2>4, <2>5, <2>6 DEF MemoryHolds, ProcessHolds, FileHolds
<1> QED BY <1>5, <1>6, <1>7, <1>8
\* A step that leaves the memories, the process and the file alone.
LEMMA NothingWritten ==
  ASSUME MemoryTypes, UNCHANGED <<count, stored, tears, failures, torn, memoryFile>>,
         phase' \in {"idle", "compacting", "down"}
  PROVE  /\ MemoryTypes' /\ Memory!Faults' = Memory!Faults
         /\ FileHolds => FileHolds'
         /\ entries' = entries /\ ProcessHolds => ProcessHolds'
<1>1. MemoryTypes' /\ Memory!Faults' = Memory!Faults /\ Loose' = Loose
  BY DEF MemoryTypes, Memory!Faults, Loose
<1>2. ASSUME FileHolds PROVE FileHolds'
  <2>1. OnFile(memoryFile', Loose', stored', count', Memory!Faults')
    BY <1>1, <1>2, Zenon DEF FileHolds
  <2>2. Exact => Exact'
    BY DEF Exact
  <2> QED BY <1>1, <1>2, <2>1, <2>2 DEF FileHolds
<1>3. ASSUME entries' = entries, ProcessHolds PROVE ProcessHolds'
  <2>1. Remembered(entries', stored', count', Memory!Faults')
    BY <1>1, <1>3, Zenon DEF ProcessHolds
  <2> QED BY <1>1, <1>3, <2>1 DEF ProcessHolds
<1> QED BY <1>1, <1>2, <1>3

\* The entries, once they are all written, are a file.
LEMMA EntriesAreFile ==
  ASSUME MemoryTypes, ProcessHolds, Rewriting, rest = <<>>
  PROVE  FileHolds
<1>1. memoryFile = entries /\ Loose = 0 /\ ~torn
  <2>1. memoryFile \o <<>> = memoryFile
    BY DEF Rewriting
  <2> QED BY <2>1 DEF Rewriting, Loose
<1>2. count \in Nat /\ Stored(stored, count) /\ Memory!Faults \in Nat
      /\ Remembered(entries, stored, count, Memory!Faults)
  BY FaultsCount DEF MemoryTypes, ProcessHolds
<1>3. OnFile(entries, 0, stored, count, Memory!Faults)
  BY <1>2, RememberedOnFile
<1>4. ASSUME Memory!Faults = 0 PROVE Exact
  <2>1. Latest(memoryFile) = Latest(stored)
    <3>1. entries = Latest(stored) /\ stored \in Seq(Nat)
      BY <1>2, <1>4 DEF ProcessHolds, Stored
    <3> QED BY <1>1, <3>1, LastOfLast DEF Latest
  <2>2. \A i \in 1..Len(memoryFile) : memoryFile[i] > 0
    <3>1. \A i \in 1..Len(entries) : entries[i] \in 1..count
      BY <1>2 DEF Remembered, Stored
    <3> QED BY <1>1, <1>2, <3>1
  <2> QED BY <1>1, <2>1, <2>2 DEF Exact
<1>5. OnFile(memoryFile, Loose, stored, count, Memory!Faults)
  BY <1>1, <1>3, Zenon
<1> QED BY <1>4, <1>5 DEF FileHolds

LEMMA CompactionKeeps ==
  ASSUME MemoryHolds,
         Memory!Recall \/ Memory!Compact \/ Memory!CompactWrites \/ Memory!CompactReturns
  PROVE  MemoryHolds'
<1>0. MemoryTypes
  BY DEF MemoryHolds
<1>1. CASE Memory!Recall
  <2>1. /\ UNCHANGED <<count, stored, tears, failures, torn, memoryFile>> /\ entries' = entries
        /\ phase' = "idle" /\ ProcessHolds /\ FileHolds
    BY <1>1 DEF Memory!Recall, Memory!ghosts, Memory!file, MemoryHolds
  <2> QED BY <1>0, <2>1, NothingWritten DEF MemoryHolds
<1>2. CASE Memory!Compact
  <2>1. /\ UNCHANGED <<count, stored, tears, failures>> /\ entries' = entries
        /\ phase' = "compacting" /\ ProcessHolds
        /\ memoryFile' = <<>> /\ torn' = FALSE /\ rest' = entries
    BY <1>2 DEF Memory!Compact, Memory!ghosts, Memory!process, MemoryHolds
  <2>2. MemoryTypes' /\ Memory!Faults' = Memory!Faults
    BY <1>0, <2>1 DEF MemoryTypes, Memory!Faults
  <2>3. ProcessHolds'
    <3>1. Remembered(entries', stored', count', Memory!Faults')
      BY <2>1, <2>2, Zenon DEF ProcessHolds
    <3> QED BY <2>1, <2>2, <3>1 DEF ProcessHolds
  <2>4. Rewriting'
    <3>1. entries \in Seq(Nat)
      BY <2>1 DEF ProcessHolds, Remembered, Stored
    <3>2. <<>> \in Seq(Nat) /\ <<>> \o entries = entries
      BY <3>1
    <3> QED BY <2>1, <3>1, <3>2 DEF Rewriting
  <2> QED BY <2>1, <2>2, <2>3, <2>4 DEF MemoryHolds
<1>3. CASE Memory!CompactWrites
  <2>1. /\ UNCHANGED <<count, stored, tears, failures, torn>> /\ entries' = entries
        /\ phase' = "compacting" /\ ProcessHolds /\ Rewriting /\ rest # <<>>
        /\ memoryFile' = Append(memoryFile, Head(rest)) /\ rest' = Tail(rest)
    BY <1>3 DEF Memory!CompactWrites, Memory!ghosts, Memory!process, MemoryHolds
  <2>2. MemoryTypes' /\ Memory!Faults' = Memory!Faults
    BY <1>0, <2>1 DEF MemoryTypes, Memory!Faults
  <2>3. ProcessHolds'
    <3>1. Remembered(entries', stored', count', Memory!Faults')
      BY <2>1, <2>2, Zenon DEF ProcessHolds
    <3> QED BY <2>1, <2>2, <3>1 DEF ProcessHolds
  <2>4. Rewriting'
    <3>1. ASSUME NEW a \in Seq(Nat), NEW r \in Seq(Nat), r # <<>>
          PROVE  Append(a, Head(r)) \in Seq(Nat) /\ Tail(r) \in Seq(Nat) /\ Append(a, Head(r)) \o Tail(r) = a \o r
      BY <3>1
    <3>2. /\ Append(memoryFile, Head(rest)) \in Seq(Nat) /\ Tail(rest) \in Seq(Nat)
          /\ Append(memoryFile, Head(rest)) \o Tail(rest) = memoryFile \o rest
      BY <2>1, <3>1 DEF Rewriting
    <3> QED BY <2>1, <3>2, Zenon DEF Rewriting
  <2> QED BY <2>1, <2>2, <2>3, <2>4 DEF MemoryHolds
<1>4. CASE Memory!CompactReturns
  <2>1. /\ UNCHANGED <<count, stored, tears, failures, torn, memoryFile>> /\ entries' = entries
        /\ phase' = "idle" /\ ProcessHolds /\ Rewriting /\ rest = <<>>
    BY <1>4 DEF Memory!CompactReturns, Memory!ghosts, Memory!process, Memory!file, MemoryHolds
  <2>2. FileHolds
    BY <1>0, <2>1, EntriesAreFile
  <2> QED BY <1>0, <2>1, <2>2, NothingWritten DEF MemoryHolds
<1> QED BY <1>1, <1>2, <1>3, <1>4

LEMMA CrashKeeps ==
  ASSUME MemoryHolds, Memory!Crash
  PROVE  cut' \/ MemoryHolds'
<1>1. /\ MemoryTypes /\ UNCHANGED <<count, stored, tears, failures, torn, memoryFile>>
      /\ phase \in {"idle", "compacting"} /\ phase' = "down"
      /\ cut' = (cut \/ (phase = "compacting" /\ rest # <<>>))
  BY DEF Memory!Crash, Memory!file, MemoryHolds, MemoryTypes
<1>2. CASE phase = "idle"
  <2>1. FileHolds
    BY <1>2 DEF MemoryHolds
  <2> QED BY <1>1, <2>1, NothingWritten DEF MemoryHolds
<1>3. CASE phase = "compacting" /\ rest = <<>>
  <2>1. FileHolds
    BY <1>1, <1>3, EntriesAreFile DEF MemoryHolds
  <2> QED BY <1>1, <2>1, NothingWritten DEF MemoryHolds
<1>4. CASE phase = "compacting" /\ rest # <<>>
  BY <1>1, <1>4
<1> QED BY <1>1, <1>2, <1>3, <1>4

LEMMA CrashInStoreKeeps ==
  ASSUME MemoryHolds, Memory!CrashInStore
  PROVE  MemoryHolds'
<1>1. /\ MemoryTypes /\ FileHolds /\ phase = "idle" /\ phase' = "down" /\ count' = count + 1 /\ failures' = failures
      /\ \/ tears' = tears + 1 /\ Memory!Tear(Memory!Fragments \cup {count + 1}) /\ stored' = stored
         \/ Memory!AppendLine(count + 1) /\ stored' = Append(stored, count + 1) /\ tears' = tears
  BY DEF MemoryHolds, Memory!CrashInStore
<1>2. /\ count \in Nat /\ count + 1 \in Nat /\ Stored(stored, count) /\ Memory!Faults \in Nat /\ Loose \in {0, 1}
      /\ tears \in Nat /\ failures \in Nat /\ OnFile(memoryFile, Loose, stored, count, Memory!Faults)
  BY <1>1, FaultsCount DEF MemoryTypes, FileHolds
<1>3. CASE tears' = tears + 1 /\ Memory!Tear(Memory!Fragments \cup {count + 1}) /\ stored' = stored
  <2>1. PICK line \in {0, count + 1} : memoryFile' = Memory!Written(line) /\ torn' = TRUE
    BY <1>3 DEF Memory!Tear, Memory!Fragments, Memory!Garbage
  <2>2. line \in Nat /\ (line = 0 \/ line = count + 1)
    BY <1>2
  <2>3. Memory!Faults' = Memory!Faults + 1 /\ Loose' = 1 /\ Memory!Faults' # 0
    BY <1>1, <1>2, <1>3, <2>1 DEF Memory!Faults, Loose
  <2>4. memoryFile' = After(memoryFile, Loose, line)
    BY <1>1, <2>1, <2>2, WrittenAfter
  <2>5. OnFile(After(memoryFile, Loose, line), 1, stored, count + 1, Memory!Faults + 1)
    BY <1>2, <2>2, LineTorn
  <2>6. OnFile(memoryFile', Loose', stored', count', Memory!Faults')
    BY <1>1, <1>3, <2>3, <2>4, <2>5, Zenon
  <2>7. MemoryTypes'
    <3>1. Stored(stored', count')
      BY <1>1, <1>2, <1>3, StoredNext
    <3> QED BY <1>1, <1>2, <1>3, <2>1, <3>1 DEF MemoryTypes
  <2> QED BY <1>1, <2>3, <2>6, <2>7 DEF MemoryHolds, FileHolds
<1>4. CASE Memory!AppendLine(count + 1) /\ stored' = Append(stored, count + 1) /\ tears' = tears
  <2>1. Memory!Faults' = Memory!Faults
    BY <1>1, <1>4 DEF Memory!Faults
  <2>2. FileHolds'
    BY <1>1, <1>4, <2>1, AppendKeeps
  <2>3. MemoryTypes'
    <3>1. Stored(stored', count')
      BY <1>1, <1>2, <1>4, StoredNext
    <3>2. torn' = FALSE
      BY <1>4 DEF Memory!AppendLine
    <3> QED BY <1>1, <1>2, <1>4, <3>1, <3>2 DEF MemoryTypes
  <2> QED BY <1>1, <2>2, <2>3 DEF MemoryHolds
<1> QED BY <1>1, <1>3, <1>4

LEMMA RestartKeeps ==
  ASSUME MemoryHolds, Memory!Restart
  PROVE  MemoryHolds'
<1>1. /\ MemoryTypes /\ FileHolds /\ phase' = "idle"
      /\ UNCHANGED <<count, stored, tears, failures, torn, memoryFile>>
  BY DEF MemoryHolds, Memory!Restart, Memory!file, Memory!ghosts
<1>2. /\ count \in Nat /\ Stored(stored, count) /\ Memory!Faults \in Nat /\ Loose \in {0, 1}
      /\ OnFile(memoryFile, Loose, stored, count, Memory!Faults) /\ Lines(memoryFile, count)
  BY <1>1, FaultsCount DEF MemoryTypes, FileHolds, OnFile
<1>3. entries' = Latest(Memory!Memories(memoryFile))
  <2>1. \A i \in DOMAIN memoryFile : memoryFile[i] # Memory!Undecodable
    BY <1>2 DEF Lines, Memory!Undecodable
  <2>2. Memory!FirstUndecodable = 0
    BY <2>1 DEF Memory!FirstUndecodable
  <2> QED BY <2>2 DEF Memory!Restart, Memory!Loaded, Latest
<1>4. MemoryTypes' /\ Memory!Faults' = Memory!Faults /\ FileHolds'
  BY <1>1, NothingWritten
<1>5. Remembered(Latest(Memory!Memories(memoryFile)), stored, count, Memory!Faults)
  BY <1>2, Reloaded DEF Latest
<1>6. Remembered(entries', stored', count', Memory!Faults')
  BY <1>1, <1>3, <1>4, <1>5, Zenon
<1>7. ASSUME Memory!Faults = 0 PROVE entries' = Latest(stored')
  <2>1. Exact
    BY <1>1, <1>7 DEF FileHolds
  <2>2. Memory!Memories(memoryFile) = memoryFile
    BY <1>2, <2>1, MemoriesAreLines DEF Exact
  <2> QED BY <1>1, <1>3, <2>1, <2>2 DEF Exact
<1> QED BY <1>1, <1>4, <1>6, <1>7 DEF MemoryHolds, ProcessHolds
LEMMA MemoryKeeps ==
  ASSUME MemoryInv, Memory!Next
  PROVE  MemoryInv'
<1>1. CASE cut
  <2>1. cut'
    BY <1>1 DEF Memory!Next, Memory!Store, Memory!Recall, Memory!Compact, Memory!CompactWrites,
       Memory!CompactReturns, Memory!CompactFails, Memory!Crash, Memory!CrashInStore, Memory!CrashInCompact,
       Memory!Restart, Memory!ghosts
  <2> QED BY <2>1 DEF MemoryInv
<1>2. CASE MemoryHolds
  <2>1. CASE Memory!CompactFails \/ Memory!CrashInCompact
    BY <2>1 DEF Memory!CompactFails, Memory!CrashInCompact, MemoryInv
  <2> QED
    BY <1>2, <2>1, StoreKeeps, CompactionKeeps, CrashKeeps, CrashInStoreKeeps, RestartKeeps
    DEF Memory!Next, MemoryInv
<1> QED BY <1>1, <1>2 DEF MemoryInv

LEMMA MemoryInitially ==
  ASSUME Memory!Init
  PROVE  MemoryInv
<1>1. /\ entries = <<>> /\ memoryFile = <<>> /\ stored = <<>> /\ torn = FALSE /\ count = 0
      /\ tears = 0 /\ failures = 0 /\ phase = "idle"
  BY DEF Memory!Init
<1>2. Memory!Faults = 0 /\ Loose = 0
  BY <1>1 DEF Memory!Faults, Loose
<1>3. Stored(<<>>, 0) /\ Memory!Ids(<<>>) = {}
  BY DEF Stored, Increasing, Memory!Ids
<1>4. Close({}, {}, 0)
  <2>1. Differ({}, {}, 0) = {}
    BY DEF Differ
  <2>2. Above({}, {}, 0, 0)
    BY <2>1, FS_EmptySet DEF Above
  <2> QED BY <2>2 DEF Close
<1>5. Remembered(<<>>, <<>>, 0, 0)
  <2>1. Len(<<>>) = 0 /\ 0 <= MemorySize
    BY StoresAssumption
  <2> QED BY <1>3, <1>4, <2>1 DEF Remembered
<1>6. OnFile(<<>>, 0, <<>>, 0, 0)
  BY <1>3, <1>5, RememberedOnFile
<1>7. Latest(<<>>) = <<>>
  <2>1. Len(<<>>) = 0 /\ <<>> \in Seq(Nat)
    OBVIOUS
  <2>2. ~(0 > MemorySize)
    BY StoresAssumption
  <2>3. SubSeq(<<>>, 1, 0) = <<>>
    OBVIOUS
  <2> QED BY <2>1, <2>2, <2>3 DEF Latest, Memory!Last
<1>8. MemoryTypes
  BY <1>1, <1>3 DEF MemoryTypes
<1>9. ProcessHolds
  BY <1>1, <1>2, <1>5, <1>7 DEF ProcessHolds
<1>10. FileHolds
  <2>1. OnFile(memoryFile, Loose, stored, count, Memory!Faults)
    BY <1>1, <1>2, <1>6, Zenon
  <2> QED BY <1>1, <2>1 DEF FileHolds, Exact
<1> QED BY <1>1, <1>8, <1>9, <1>10 DEF MemoryHolds, MemoryInv

\* Of the latest memories a file that is close lacks no more than there were faults.
LEMMA LatestAreOnFile ==
  ASSUME MemoryTypes, FileHolds
  PROVE  Cardinality(Memory!Ids(Latest(stored)) \ Memory!Ids(memoryFile)) <= Memory!Faults
<1> DEFINE L == Memory!Ids(Latest(stored))
           X == Firm(memoryFile, Len(memoryFile) - Loose)
           S == Memory!Ids(stored)
           k == Memory!Faults
<1>1. /\ count \in Nat /\ Stored(stored, count) /\ k \in Nat /\ Loose \in {0, 1}
      /\ stored \in Seq(Nat) /\ Increasing(stored) /\ \A i \in 1..Len(stored) : stored[i] > 0
  BY FaultsCount DEF MemoryTypes, Stored
<1>2. /\ Lines(memoryFile, count) /\ memoryFile \in Seq(Nat) /\ Loose <= Len(memoryFile) /\ Loose <= k
      /\ Close(X, S, k - Loose) /\ Len(memoryFile) - Loose \in 0..Len(memoryFile)
  BY <1>1 DEF FileHolds, OnFile, Lines
<1>3. Numbered(X, S)
  <2> HIDE DEF k
  <2> QED BY <1>1, <1>2, FirmNumbered
<1>4. PICK g \in Nat : L = {i \in S : i > g}
  BY <1>1, LastHolds DEF Latest
<1>5. Cardinality(L) <= MemorySize
  <2>1. Latest(stored) \in Seq(Nat) /\ Len(Latest(stored)) <= MemorySize
    BY <1>1, LastHolds DEF Latest
  <2>2. Cardinality(L) <= Len(Latest(stored)) /\ IsFiniteSet(L)
    BY <2>1, IdsFinite
  <2>3. Cardinality(L) \in Nat /\ Len(Latest(stored)) \in Nat /\ MemorySize \in Nat
    BY <2>1, <2>2, FS_CardinalityType, StoresAssumption
  <2> HIDE DEF L
  <2> QED BY <2>1, <2>2, <2>3
<1>6. X \subseteq Memory!Ids(memoryFile)
  <2>1. DOMAIN memoryFile = 1..Len(memoryFile)
    BY <1>2
  <2>2. \A i \in 1..Len(memoryFile) - Loose : i \in 1..Len(memoryFile)
    BY <1>1, <1>2
  <2> QED BY <2>1, <2>2 DEF Firm, Memory!Ids
<1> HIDE DEF L, X, k
<1>7. Cardinality(L \ X) <= k - Loose
  <2>1. L \in SUBSET S /\ \A i \in L, j \in S : i < j => j \in L
    <3>1. \A i \in S : i \in Nat
      BY <1>3 DEF Numbered, Positive
    <3> HIDE DEF S
    <3> QED BY <1>4, <3>1
  <2>2. k - Loose \in Int
    BY <1>1
  <2> HIDE DEF S
  <2> QED BY <1>2, <1>3, <1>5, <2>1, <2>2, CloseCovers
<1>8. IsFiniteSet(L \ X) /\ L \ Memory!Ids(memoryFile) \subseteq L \ X
  <2>1. IsFiniteSet(S)
    BY <1>3 DEF Numbered
  <2>2. L \ X \subseteq S
    BY <1>4
  <2> QED BY <1>6, <2>1, <2>2, FS_Subset
<1>9. /\ Cardinality(L \ Memory!Ids(memoryFile)) \in Nat /\ Cardinality(L \ X) \in Nat
      /\ Cardinality(L \ Memory!Ids(memoryFile)) <= Cardinality(L \ X)
  BY <1>8, FS_Subset, FS_CardinalityType
<1>10. Cardinality(L \ Memory!Ids(memoryFile)) <= k
  BY <1>1, <1>7, <1>9
<1> QED BY <1>10 DEF L, k

\* Only faults lose memories: whatever compactions, crashes and restarts there are
\* between them, and however many memories and faults, a process that is not down
\* holds exactly the latest ones as long as nothing was torn or failed, and of the
\* latest ones the file lacks at most one for each fault.
THEOREM MemoriesAreLostToFaults == StoresSpec => []OnlyFaultsLose
<1> DEFINE Inv == store = "memory" => MemoryInv
<1>1. StoresInit => Inv
  BY MemoryInitially DEF StoresInit
<1>2. Inv /\ [StoresNext]_storeVars => Inv'
  <2> SUFFICES ASSUME Inv, [StoresNext]_storeVars, store' = "memory" PROVE MemoryInv'
    OBVIOUS
  <2>1. CASE StoresNext
    <3>1. store = "memory" /\ Memory!Next
      BY <2>1 DEF StoresNext, OthersRest, ResultsStep, PosteriorsStep, MemoryStep, OracleStep, WorldStep,
         RagStep, ExperienceStep, DataStep, CausalStep, RulesStep, ReportsStep, FeedbackStep,
         ConvergenceStep, LogsStep, RouterStep
    <3> QED BY <3>1, MemoryKeeps
  <2>2. CASE UNCHANGED storeVars
    <3>1. store = "memory" /\ UNCHANGED memoryVars
      BY <2>2 DEF storeVars
    <3>2. UNCHANGED <<cut, phase, rest, count, stored, tears, failures, torn, memoryFile, entries>>
      BY <3>1 DEF memoryVars
    <3>3. CASE cut
      BY <3>2, <3>3 DEF MemoryInv
    <3>4. CASE MemoryHolds
      <4>1. Rewriting => Rewriting'
        BY <3>2 DEF Rewriting
      <4> QED BY <3>2, <3>4, <4>1, NothingWritten DEF MemoryHolds, MemoryInv, MemoryTypes
    <3> QED BY <3>1, <3>3, <3>4 DEF MemoryInv
  <2> QED BY <2>1, <2>2
<1>3. Inv => OnlyFaultsLose
  <2>1. \A S : Memory!Cardinality(S) = Cardinality(S)
    BY Zenon DEF Cardinality, Memory!Cardinality
  <2> SUFFICES ASSUME MemoryHolds
               PROVE  /\ phase # "down" /\ Memory!Faults = 0 => entries = Latest(stored)
                      /\ phase # "compacting" =>
                           Cardinality(Memory!Ids(Latest(stored)) \ Memory!Ids(memoryFile)) <= Memory!Faults
    BY <2>1 DEF OnlyFaultsLose, Memory!OnlyFaultsLose, MemoryInv, Latest
  <2> QED BY LatestAreOnFile DEF MemoryHolds, ProcessHolds
<1> QED BY <1>1, <1>2, <1>3, PTL DEF StoresSpec

-----------------------------------------------------------------------------
(* Bags *)

ABag(b) == b = [x \in DOMAIN b |-> b[x]] /\ IsFiniteSet(DOMAIN b) /\ \A x \in DOMAIN b : b[x] \in Nat \ {0}

LEMMA CountingIsCounting == \A S : Corrections!Cardinality(S) = Cardinality(S)
BY Zenon DEF Cardinality, Corrections!Cardinality

\* One more of x.
LEMMA BagAdds ==
  ASSUME NEW b, ABag(b), NEW x
  PROVE  LET a == Corrections!BagAdd(b, x) IN
         /\ ABag(a) /\ DOMAIN a = DOMAIN b \cup {x}
         /\ a[x] = IF x \in DOMAIN b THEN b[x] + 1 ELSE 1
         /\ \A y \in DOMAIN b \ {x} : a[y] = b[y]
<1> DEFINE a == Corrections!BagAdd(b, x)
<1>1. IsFiniteSet(DOMAIN b \cup {x})
  BY FS_AddElement DEF ABag
<1>2. a = [y \in DOMAIN b \cup {x} |-> (IF y \in DOMAIN b THEN b[y] ELSE 0) + (IF y = x THEN 1 ELSE 0)]
  BY DEF Corrections!BagAdd
<1> HIDE DEF a
<1>3. DOMAIN a = DOMAIN b \cup {x} /\ a = [y \in DOMAIN a |-> a[y]]
  BY <1>2
<1>4. a[x] = IF x \in DOMAIN b THEN b[x] + 1 ELSE 1
  BY <1>2 DEF ABag
<1>5. \A y \in DOMAIN b \ {x} : a[y] = b[y]
  BY <1>2 DEF ABag
<1>6. ABag(a)
  <2>1. \A y \in DOMAIN a : a[y] \in Nat \ {0}
    BY <1>3, <1>4, <1>5 DEF ABag
  <2> QED BY <1>1, <1>3, <2>1 DEF ABag
<1> QED BY <1>3, <1>4, <1>5, <1>6 DEF a

LEMMA CopiesFinite ==
  ASSUME NEW b, ABag(b)
  PROVE  IsFiniteSet(Corrections!Copies(b)) /\ Corrections!Total(b) = Cardinality(Corrections!Copies(b))
         /\ Corrections!Total(b) \in Nat
<1> DEFINE sets == {{x} \X (1..b[x]) : x \in DOMAIN b}
<1>1. IsFiniteSet(sets)
  <2> DEFINE h == [x \in DOMAIN b |-> {x} \X (1..b[x])]
  <2>1. h \in Surjection(DOMAIN b, sets)
    BY DEF Surjection
  <2> HIDE DEF h, sets
  <2> QED BY <2>1, FS_Surjection DEF ABag
<1>2. \A S \in sets : IsFiniteSet(S)
  <2> SUFFICES ASSUME NEW x \in DOMAIN b PROVE IsFiniteSet({x} \X (1..b[x]))
    OBVIOUS
  <2> DEFINE n == b[x]
  <2>1. n \in Nat /\ IsFiniteSet({x})
    BY FS_Singleton DEF ABag
  <2> HIDE DEF n
  <2>2. IsFiniteSet(1..n)
    BY <2>1, FS_Interval
  <2>3. IsFiniteSet({x} \X (1..n))
    BY <2>1, <2>2, FS_Product
  <2> QED BY <2>3 DEF n
<1> HIDE DEF sets
<1>3. IsFiniteSet(UNION sets)
  BY <1>1, <1>2, FS_UNION
<1>4. IsFiniteSet(Corrections!Copies(b))
  BY <1>3 DEF Corrections!Copies, sets
<1>5. Corrections!Total(b) = Cardinality(Corrections!Copies(b))
  BY CountingIsCounting, Zenon DEF Corrections!Total
<1> QED BY <1>4, <1>5, FS_CardinalityType

LEMMA TotalAdds ==
  ASSUME NEW b, ABag(b), NEW x
  PROVE  Corrections!Total(Corrections!BagAdd(b, x)) = Corrections!Total(b) + 1
<1> DEFINE a == Corrections!BagAdd(b, x)
           n == IF x \in DOMAIN b THEN b[x] + 1 ELSE 1
           A == Corrections!Copies(a)
           B == Corrections!Copies(b)
<1>1. /\ ABag(a) /\ DOMAIN a = DOMAIN b \cup {x} /\ a[x] = n
      /\ \A y \in DOMAIN b \ {x} : a[y] = b[y]
  BY BagAdds
<1> HIDE DEF a
<1>2. \A p : p \in B <=> \E y \in DOMAIN b : \E i \in 1..b[y] : p = <<y, i>>
  BY DEF Corrections!Copies
<1>3. \A p : p \in A <=> \E y \in DOMAIN a : \E i \in 1..a[y] : p = <<y, i>>
  BY DEF Corrections!Copies
<1> HIDE DEF A, B
<1>4. <<x, n>> \notin B
  BY <1>2 DEF ABag
<1>5. A = B \cup {<<x, n>>}
  <2>1. ASSUME NEW p \in A PROVE p \in B \cup {<<x, n>>}
    <3>0. PICK y \in DOMAIN a : \E i \in 1..a[y] : p = <<y, i>>
      BY <1>3
    <3>1. PICK i \in 1..a[y] : p = <<y, i>>
      BY <3>0
    <3>2. CASE y # x
      BY <1>1, <1>2, <3>1, <3>2
    <3>3. CASE y = x
      <4>1. CASE x \in DOMAIN b
        <5>1. b[x] \in Nat /\ i \in 1..b[x] + 1
          BY <1>1, <3>1, <3>3, <4>1 DEF ABag
        <5>2. CASE i = b[x] + 1
          BY <3>1, <3>3, <4>1, <5>2
        <5>3. CASE i \in 1..b[x]
          BY <1>2, <3>1, <3>3, <4>1, <5>3
        <5> QED BY <5>1, <5>2, <5>3
      <4>2. CASE x \notin DOMAIN b
        BY <1>1, <3>1, <3>3, <4>2
      <4> QED BY <4>1, <4>2
    <3> QED BY <3>2, <3>3
  <2>2. ASSUME NEW p \in B PROVE p \in A
    <3>0. PICK y \in DOMAIN b : \E i \in 1..b[y] : p = <<y, i>>
      BY <1>2
    <3>1. PICK i \in 1..b[y] : p = <<y, i>>
      BY <3>0
    <3>2. b[y] \in Nat /\ y \in DOMAIN a /\ (a[y] = b[y] \/ a[y] = b[y] + 1)
      BY <1>1 DEF ABag
    <3>3. i \in 1..a[y]
      BY <3>2
    <3> QED BY <1>3, <3>1, <3>2, <3>3
  <2>3. <<x, n>> \in A
    <3>1. n \in 1..a[x] /\ x \in DOMAIN a
      BY <1>1 DEF ABag
    <3> QED BY <1>3, <3>1
  <2> QED BY <2>1, <2>2, <2>3
<1>6. IsFiniteSet(B) /\ Corrections!Total(b) = Cardinality(B) /\ Corrections!Total(a) = Cardinality(A)
  BY <1>1, CopiesFinite DEF A, B
<1> HIDE DEF n
<1>7. Cardinality(A) = Cardinality(B) + 1
  BY <1>4, <1>5, <1>6, FS_AddElement
<1> QED BY <1>6, <1>7 DEF a
LEMMA PartIsBag ==
  ASSUME NEW b, ABag(b), NEW S \in SUBSET DOMAIN b
  PROVE  ABag(Corrections!Restrict(b, S)) /\ DOMAIN Corrections!Restrict(b, S) = S
         /\ \A x \in S : Corrections!Restrict(b, S)[x] = b[x]
<1> DEFINE a == Corrections!Restrict(b, S)
<1>1. a = [x \in S |-> b[x]]
  BY DEF Corrections!Restrict
<1> HIDE DEF a
<1>2. DOMAIN a = S /\ \A x \in S : a[x] = b[x]
  BY <1>1
<1>3. IsFiniteSet(S)
  BY FS_Subset DEF ABag
<1>4. a = [x \in DOMAIN a |-> a[x]]
  BY <1>1
<1> QED BY <1>2, <1>3, <1>4 DEF ABag, a

\* A tally counts one more of the value of one more.
LEMMA TallyAdds ==
  ASSUME NEW b, ABag(b), NEW x, NEW f, NEW g, \A y \in DOMAIN b : g[y] = f[y]
  PROVE  Corrections!Tally(g, Corrections!BagAdd(b, x)) = Corrections!BagAdd(Corrections!Tally(f, b), g[x])
<1> DEFINE a == Corrections!BagAdd(b, x)
           v == g[x]
           class(w) == {y \in DOMAIN b : f[y] = w}
           more(w) == {y \in DOMAIN a : g[y] = w}
           part(w) == Corrections!Restrict(b, class(w))
           whole(w) == Corrections!Restrict(a, more(w))
           values == {f[y] : y \in DOMAIN b}
           T == Corrections!Tally(f, b)
<1>1. /\ ABag(a) /\ DOMAIN a = DOMAIN b \cup {x}
      /\ a[x] = IF x \in DOMAIN b THEN b[x] + 1 ELSE 1
      /\ \A y \in DOMAIN b \ {x} : a[y] = b[y]
  BY BagAdds
<1>2. T = [w \in values |-> Corrections!Total(part(w))]
  BY Zenon DEF Corrections!Tally
<1>3. Corrections!Tally(g, a) = [w \in {g[y] : y \in DOMAIN a} |-> Corrections!Total(whole(w))]
  BY Zenon DEF Corrections!Tally
<1> HIDE DEF T, a
<1>4. {g[y] : y \in DOMAIN a} = values \cup {v}
  BY <1>1
<1>5. \A w : /\ ABag(part(w)) /\ DOMAIN part(w) = class(w) /\ \A y \in class(w) : part(w)[y] = b[y]
             /\ ABag(whole(w)) /\ DOMAIN whole(w) = more(w) /\ \A y \in more(w) : whole(w)[y] = a[y]
  <2> SUFFICES ASSUME NEW w
               PROVE  /\ ABag(part(w)) /\ DOMAIN part(w) = class(w) /\ \A y \in class(w) : part(w)[y] = b[y]
                      /\ ABag(whole(w)) /\ DOMAIN whole(w) = more(w) /\ \A y \in more(w) : whole(w)[y] = a[y]
    OBVIOUS
  <2>1. class(w) \in SUBSET DOMAIN b /\ more(w) \in SUBSET DOMAIN a
    OBVIOUS
  <2> HIDE DEF class, more
  <2> QED BY <1>1, <2>1, PartIsBag
<1>6. ASSUME NEW w, w # v PROVE whole(w) = part(w)
  <2>1. class(w) = more(w) /\ x \notin class(w)
    BY <1>1, <1>6
  <2>2. class(w) \subseteq DOMAIN b
    OBVIOUS
  <2> HIDE DEF class, more, part, whole
  <2>3. \A y \in class(w) : part(w)[y] = whole(w)[y]
    BY <1>1, <1>5, <2>1, <2>2
  <2> QED BY <1>5, <2>1, <2>3 DEF ABag
<1>7. whole(v) = Corrections!BagAdd(part(v), x)
  <2> DEFINE c == Corrections!BagAdd(part(v), x)
  <2>1. more(v) = class(v) \cup {x} /\ (x \in class(v) <=> x \in DOMAIN b) /\ class(v) \subseteq DOMAIN b
    BY <1>1
  <2> HIDE DEF class, more, part, whole
  <2>2. /\ ABag(c) /\ DOMAIN c = class(v) \cup {x}
        /\ c[x] = IF x \in class(v) THEN part(v)[x] + 1 ELSE 1
        /\ \A y \in class(v) \ {x} : c[y] = part(v)[y]
    BY <1>5, BagAdds
  <2> HIDE DEF c, v
  <2>3. \A y \in more(v) : c[y] = whole(v)[y]
    <3> SUFFICES ASSUME NEW y \in more(v) PROVE c[y] = whole(v)[y]
      OBVIOUS
    <3>1. whole(v)[y] = a[y]
      BY <1>5
    <3>2. CASE y = x
      BY <1>1, <1>5, <2>1, <2>2, <3>1, <3>2
    <3>3. CASE y # x
      BY <1>1, <1>5, <2>1, <2>2, <3>1, <3>3
    <3> QED BY <3>2, <3>3
  <2>4. DOMAIN whole(v) = more(v) /\ DOMAIN c = more(v)
    BY <1>5, <2>1, <2>2
  <2>5. whole(v) = [y \in DOMAIN whole(v) |-> whole(v)[y]] /\ c = [y \in DOMAIN c |-> c[y]]
    BY <1>5, <2>2, Zenon DEF ABag
  <2>6. whole(v) = c
    BY <2>3, <2>4, <2>5
  <2> QED BY <2>6 DEF c
<1> HIDE DEF whole, part, class, more
<1>8. Corrections!Total(whole(v)) = Corrections!Total(part(v)) + 1
  BY <1>5, <1>7, TotalAdds
<1>9. v \notin values => Corrections!Total(part(v)) = 0
  <2> SUFFICES ASSUME v \notin values PROVE Corrections!Total(part(v)) = 0
    OBVIOUS
  <2>1. DOMAIN part(v) = {}
    BY <1>5 DEF class
  <2>2. Corrections!Copies(part(v)) = {}
    BY <2>1 DEF Corrections!Copies
  <2> QED BY <1>5, <2>2, CopiesFinite, FS_EmptySet
<1>10. \A w \in values : T[w] = Corrections!Total(part(w)) /\ Corrections!Total(part(w)) \in Nat
  BY <1>2, <1>5, CopiesFinite
<1>11. DOMAIN T = values
  BY <1>2
<1> DEFINE U == Corrections!BagAdd(T, v)
           t(w) == Corrections!Total(whole(w))
<1>12. U = [w \in values \cup {v} |-> (IF w \in values THEN T[w] ELSE 0) + (IF w = v THEN 1 ELSE 0)]
  BY <1>11 DEF Corrections!BagAdd
<1> HIDE DEF values, v
<1>13. \A w \in values \cup {v} :
         t(w) = (IF w \in values THEN T[w] ELSE 0) + (IF w = v THEN 1 ELSE 0)
  <2> SUFFICES ASSUME NEW w \in values \cup {v}
               PROVE  t(w) = (IF w \in values THEN T[w] ELSE 0) + (IF w = v THEN 1 ELSE 0)
    OBVIOUS
  <2>1. CASE w # v
    <3>1. t(w) = T[w] /\ w \in values /\ T[w] \in Nat
      BY <1>6, <1>10, <2>1
    <3> HIDE DEF t
    <3> QED BY <2>1, <3>1
  <2>2. CASE w = v /\ w \in values
    <3>1. t(w) = T[w] + 1
      BY <1>8, <1>10, <2>2
    <3> HIDE DEF t
    <3> QED BY <2>2, <3>1
  <2>3. CASE w = v /\ w \notin values
    <3>1. t(w) = 0 + 1
      BY <1>8, <1>9, <2>3
    <3> HIDE DEF t
    <3> QED BY <2>3, <3>1
  <2> QED BY <2>1, <2>2, <2>3
<1>14. Corrections!Tally(g, a) = [w \in values \cup {v} |-> t(w)]
  BY <1>3, <1>4, Zenon
<1> HIDE DEF t, U
<1>15. Corrections!Tally(g, a) = U
  BY <1>12, <1>13, <1>14
<1> QED BY <1>15 DEF U, a, T, v
-----------------------------------------------------------------------------
(* Feedback *)

Labelled(b) == {x \in DOMAIN b : x.type = "domain_override" /\ x.label # Corrections!NoLabel}
Told(x) == [label |-> x.label, query |-> x.query]
Keys1(b) == [x \in Labelled(b) |-> Told(x)]

FeedbackInv ==
  /\ ABag(feedback) /\ ABag(overrides) /\ ABag(thanked) /\ ABag(exported)
  /\ DOMAIN feedback \subseteq Corrections!Items
  /\ Corrections!Within(thanked, feedback)
  /\ overrides = Corrections!Tally(Keys1(feedback), Corrections!Restrict(feedback, Labelled(feedback)))
  /\ Corrections!Within(exported, overrides)
  /\ \A x \in DOMAIN exported : Corrections!Usable(x)

\* With one more a bag still holds what it held, and one more of what it held.
LEMMA WithinMore ==
  ASSUME NEW a, ABag(a), NEW b, ABag(b), Corrections!Within(a, b), NEW x
  PROVE  Corrections!Within(a, Corrections!BagAdd(b, x))
<1> DEFINE c == Corrections!BagAdd(b, x)
<1>1. /\ DOMAIN c = DOMAIN b \cup {x} /\ c[x] = IF x \in DOMAIN b THEN b[x] + 1 ELSE 1
      /\ \A y \in DOMAIN b \ {x} : c[y] = b[y]
  BY BagAdds
<1> HIDE DEF c
<1>2. ASSUME NEW y \in DOMAIN a PROVE y \in DOMAIN c /\ a[y] <= c[y]
  <2>1. y \in DOMAIN b /\ a[y] <= b[y] /\ b[y] \in Nat /\ a[y] \in Int
    BY DEF Corrections!Within, ABag
  <2>2. c[y] \in {b[y], b[y] + 1}
    BY <1>1, <2>1
  <2> QED BY <1>1, <2>1, <2>2
<1> QED BY <1>2 DEF Corrections!Within, c

LEMMA WithinBoth ==
  ASSUME NEW a, ABag(a), NEW b, ABag(b), Corrections!Within(a, b), NEW x
  PROVE  Corrections!Within(Corrections!BagAdd(a, x), Corrections!BagAdd(b, x))
<1> DEFINE c == Corrections!BagAdd(b, x)
           d == Corrections!BagAdd(a, x)
<1>1. /\ DOMAIN c = DOMAIN b \cup {x} /\ c[x] = IF x \in DOMAIN b THEN b[x] + 1 ELSE 1
      /\ \A y \in DOMAIN b \ {x} : c[y] = b[y]
  BY BagAdds
<1>2. /\ DOMAIN d = DOMAIN a \cup {x} /\ d[x] = IF x \in DOMAIN a THEN a[x] + 1 ELSE 1
      /\ \A y \in DOMAIN a \ {x} : d[y] = a[y]
  BY BagAdds
<1> HIDE DEF c, d
<1>3. ASSUME NEW y \in DOMAIN d PROVE y \in DOMAIN c /\ d[y] <= c[y]
  <2>1. CASE y # x
    BY <1>1, <1>2, <2>1 DEF Corrections!Within
  <2>2. CASE y = x /\ x \in DOMAIN a
    <3>1. x \in DOMAIN b /\ a[x] <= b[x] /\ a[x] \in Nat /\ b[x] \in Nat
      BY <2>2 DEF Corrections!Within, ABag
    <3> QED BY <1>1, <1>2, <2>2, <3>1
  <2>3. CASE y = x /\ x \notin DOMAIN a
    <3>1. d[y] = 1 /\ c[y] \in Nat \ {0} /\ y \in DOMAIN c
      BY <1>1, <1>2, <2>3 DEF ABag
    <3> QED BY <3>1
  <2> QED BY <2>1, <2>2, <2>3
<1> QED BY <1>3 DEF Corrections!Within, c, d

\* What is stored of an item goes into the overrides just when it corrects a domain.
LEMMA OverridesFollow ==
  ASSUME NEW b, ABag(b), NEW x
  PROVE  LET a == Corrections!BagAdd(b, x)
             o == Corrections!Tally(Keys1(b), Corrections!Restrict(b, Labelled(b)))
         IN  Corrections!Tally(Keys1(a), Corrections!Restrict(a, Labelled(a)))
               = IF x.type = "domain_override" /\ x.label # Corrections!NoLabel
                 THEN Corrections!BagAdd(o, Told(x)) ELSE o
<1> DEFINE a == Corrections!BagAdd(b, x)
           p == Corrections!Restrict(b, Labelled(b))
           q == Corrections!Restrict(a, Labelled(a))
           corrects == x.type = "domain_override" /\ x.label # Corrections!NoLabel
<1>1. /\ ABag(a) /\ DOMAIN a = DOMAIN b \cup {x}
      /\ a[x] = IF x \in DOMAIN b THEN b[x] + 1 ELSE 1
      /\ \A y \in DOMAIN b \ {x} : a[y] = b[y]
  BY BagAdds
<1> HIDE DEF a
<1>2. /\ ABag(p) /\ DOMAIN p = Labelled(b) /\ \A y \in Labelled(b) : p[y] = b[y]
      /\ ABag(q) /\ DOMAIN q = Labelled(a) /\ \A y \in Labelled(a) : q[y] = a[y]
  <2>1. Labelled(b) \in SUBSET DOMAIN b /\ Labelled(a) \in SUBSET DOMAIN a
    BY DEF Labelled
  <2> QED BY <1>1, <2>1, PartIsBag
<1> HIDE DEF p, q
<1>3. CASE corrects
  <2>1. Labelled(a) = Labelled(b) \cup {x} /\ (x \in Labelled(b) <=> x \in DOMAIN b) /\ Labelled(b) \subseteq DOMAIN b
    <3>1. x \in Labelled(a) /\ (x \in Labelled(b) <=> x \in DOMAIN b) /\ Labelled(b) \subseteq DOMAIN b
      BY <1>1, <1>3 DEF Labelled
    <3>2. \A y : y # x => (y \in Labelled(a) <=> y \in Labelled(b))
      BY <1>1 DEF Labelled
    <3> QED BY <3>1, <3>2, <1>1 DEF Labelled
  <2> DEFINE c == Corrections!BagAdd(p, x)
  <2>2. /\ ABag(c) /\ DOMAIN c = Labelled(b) \cup {x}
        /\ c[x] = IF x \in Labelled(b) THEN p[x] + 1 ELSE 1
        /\ \A y \in Labelled(b) \ {x} : c[y] = p[y]
    <3>1. /\ ABag(c) /\ DOMAIN c = DOMAIN p \cup {x}
          /\ c[x] = IF x \in DOMAIN p THEN p[x] + 1 ELSE 1
          /\ \A y \in DOMAIN p \ {x} : c[y] = p[y]
      BY <1>2, BagAdds
    <3> HIDE DEF c
    <3> QED BY <1>2, <3>1, Zenon
  <2> HIDE DEF c
  <2>3. ASSUME NEW y \in Labelled(a) PROVE c[y] = q[y]
    <3>1. q[y] = a[y]
      BY <1>2
    <3>2. CASE y = x
      BY <1>1, <1>2, <2>1, <2>2, <3>1, <3>2
    <3>3. CASE y # x
      BY <1>1, <1>2, <2>1, <2>2, <3>1, <3>3
    <3> QED BY <3>2, <3>3
  <2>4. q = [y \in DOMAIN q |-> q[y]] /\ c = [y \in DOMAIN c |-> c[y]]
    BY <1>2, <2>2, Zenon DEF ABag
  <2>5. q = c
    BY <1>2, <2>1, <2>2, <2>3, <2>4
  <2>6. \A y \in DOMAIN p : Keys1(a)[y] = Keys1(b)[y]
    BY <1>2, <2>1 DEF Keys1
  <2>7. Corrections!Tally(Keys1(a), c) = Corrections!BagAdd(Corrections!Tally(Keys1(b), p), Keys1(a)[x])
    BY <1>2, <2>6, TallyAdds DEF c
  <2>8. Keys1(a)[x] = Told(x)
    BY <2>1 DEF Keys1
  <2> QED BY <1>3, <2>5, <2>7, <2>8 DEF a, p, q
<1>4. CASE ~corrects
  <2>1. Labelled(a) = Labelled(b) /\ x \notin Labelled(b) /\ Labelled(b) \subseteq DOMAIN b
    BY <1>1, <1>4 DEF Labelled
  <2>2. \A y \in Labelled(b) : p[y] = q[y]
    BY <1>1, <1>2, <2>1
  <2>3. q = [y \in DOMAIN q |-> q[y]] /\ p = [y \in DOMAIN p |-> p[y]]
    BY <1>2, Zenon DEF ABag
  <2>4. q = p
    BY <1>2, <2>1, <2>2, <2>3
  <2>5. Keys1(a) = Keys1(b)
    BY <2>1 DEF Keys1
  <2> QED BY <1>4, <2>4, <2>5 DEF a, p, q
<1> QED BY <1>3, <1>4

LEMMA FeedbackKeeps ==
  ASSUME FeedbackInv, Corrections!Next
  PROVE  FeedbackInv'
<1>1. ASSUME NEW item \in Corrections!Items, NEW fate, Corrections!Submit(item, fate)
      PROVE  FeedbackInv'
  <2>0. exported' = exported
    BY <1>1 DEF Corrections!Submit
  <2>1. CASE fate = "stopped"
    <3>1. feedback' = feedback /\ overrides' = overrides /\ thanked' = thanked
      BY <1>1, <2>1 DEF Corrections!Submit
    <3> QED BY <2>0, <3>1 DEF FeedbackInv
  <2>2. CASE fate # "stopped"
    <3> DEFINE corrects == item.type = "domain_override" /\ item.label # Corrections!NoLabel
    <3>1. /\ feedback' = Corrections!BagAdd(feedback, item)
          /\ overrides' = IF corrects THEN Corrections!BagAdd(overrides, Told(item)) ELSE overrides
          /\ thanked' = Corrections!BagAdd(thanked, item) \/ thanked' = thanked
      BY <1>1, <2>2 DEF Corrections!Submit, Told
    <3>2. ABag(feedback') /\ DOMAIN feedback' \subseteq Corrections!Items
      <4>1. ABag(feedback) /\ DOMAIN feedback \subseteq Corrections!Items
        BY DEF FeedbackInv
      <4> DEFINE f == Corrections!BagAdd(feedback, item)
      <4>2. ABag(f) /\ DOMAIN f = DOMAIN feedback \cup {item}
        BY <4>1, BagAdds
      <4> HIDE DEF f
      <4>3. feedback' = f
        BY <3>1 DEF f
      <4>4. ABag(feedback') /\ DOMAIN feedback' = DOMAIN feedback \cup {item}
        BY <4>2, <4>3, Zenon
      <4> QED BY <1>1, <4>1, <4>4
    <3>3. ABag(overrides') /\ Corrections!Within(exported, overrides')
      <4>1. Corrections!Within(exported, overrides) /\ ABag(overrides) /\ ABag(exported)
        BY DEF FeedbackInv
      <4> QED BY <3>1, <4>1, BagAdds, WithinMore
    <3>4. ABag(thanked') /\ Corrections!Within(thanked', feedback')
      <4>1. Corrections!Within(thanked, feedback) /\ ABag(thanked) /\ ABag(feedback)
        BY DEF FeedbackInv
      <4> DEFINE f == Corrections!BagAdd(feedback, item)
      <4>2. CASE thanked' = Corrections!BagAdd(thanked, item)
        <5>1. ABag(Corrections!BagAdd(thanked, item)) /\ Corrections!Within(Corrections!BagAdd(thanked, item), f)
          BY <4>1, BagAdds, WithinBoth
        <5> HIDE DEF f
        <5> QED BY <3>1, <4>2, <5>1, Zenon DEF f
      <4>3. CASE thanked' = thanked
        <5>1. Corrections!Within(thanked, f)
          BY <4>1, WithinMore
        <5> QED BY <3>1, <4>1, <4>3, <5>1, Zenon
      <4> QED BY <3>1, <4>2, <4>3
    <3>5. overrides' = Corrections!Tally(Keys1(feedback'), Corrections!Restrict(feedback', Labelled(feedback')))
      <4>1. /\ overrides = Corrections!Tally(Keys1(feedback), Corrections!Restrict(feedback, Labelled(feedback)))
            /\ ABag(feedback)
        BY DEF FeedbackInv
      <4> DEFINE a == Corrections!BagAdd(feedback, item)
      <4>2. Corrections!Tally(Keys1(a), Corrections!Restrict(a, Labelled(a)))
              = IF corrects THEN Corrections!BagAdd(overrides, Told(item)) ELSE overrides
        BY <4>1, OverridesFollow
      <4> QED BY <3>1, <4>2
    <3> QED BY <2>0, <3>2, <3>3, <3>4, <3>5 DEF FeedbackInv
  <2> QED BY <2>1, <2>2
<1>2. ASSUME NEW dryRun \in BOOLEAN, Corrections!Export(dryRun)
      PROVE  FeedbackInv'
  <2> DEFINE usable == {x \in DOMAIN overrides : Corrections!Usable(x)}
  <2>1. /\ UNCHANGED <<feedback, overrides, thanked>>
        /\ exported' = exported \/ exported' = Corrections!Restrict(overrides, usable)
    BY <1>2 DEF Corrections!Export, Corrections!TrainingData
  <2>2. CASE exported' = exported
    BY <2>1, <2>2 DEF FeedbackInv
  <2>3. CASE exported' = Corrections!Restrict(overrides, usable)
    <3>1. ABag(overrides) /\ usable \in SUBSET DOMAIN overrides
      BY DEF FeedbackInv
    <3>2. ABag(exported') /\ DOMAIN exported' = usable /\ \A x \in usable : exported'[x] = overrides[x]
      <4> HIDE DEF usable
      <4> QED BY <2>3, <3>1, PartIsBag
    <3>3. Corrections!Within(exported', overrides)
      BY <3>1, <3>2 DEF Corrections!Within, ABag
    <3>4. \A x \in DOMAIN exported' : Corrections!Usable(x)
      BY <3>2
    <3> QED BY <2>1, <3>2, <3>3, <3>4 DEF FeedbackInv
  <2> QED BY <2>1, <2>2, <2>3
<1> QED BY <1>1, <1>2 DEF Corrections!Next

LEMMA FeedbackInitially ==
  ASSUME Corrections!Init
  PROVE  FeedbackInv
<1>1. feedback = <<>> /\ overrides = <<>> /\ thanked = <<>> /\ exported = <<>>
  BY DEF Corrections!Init, Corrections!EmptyBag
<1>2. DOMAIN <<>> = {} /\ \A S : [x \in {} |-> S] = <<>>
  OBVIOUS
<1>3. ABag(<<>>)
  BY <1>2, FS_EmptySet DEF ABag
<1>4. Corrections!Within(<<>>, <<>>)
  BY <1>2 DEF Corrections!Within
<1>5. Corrections!Tally(Keys1(<<>>), Corrections!Restrict(<<>>, Labelled(<<>>))) = <<>>
  <2> DEFINE p == Corrections!Restrict(<<>>, Labelled(<<>>))
  <2>1. DOMAIN p = {}
    BY <1>2 DEF Corrections!Restrict, Labelled
  <2> HIDE DEF p
  <2>2. DOMAIN Corrections!Tally(Keys1(<<>>), p) = {}
        /\ Corrections!Tally(Keys1(<<>>), p) = [x \in {} |-> Corrections!Tally(Keys1(<<>>), p)[x]]
    BY <2>1 DEF Corrections!Tally
  <2> QED BY <2>2 DEF p
<1> QED BY <1>1, <1>2, <1>3, <1>4, <1>5 DEF FeedbackInv

\* No two corrections of one query, all of them usable: the readers agree.
LEMMA ReadersDoAgree ==
  ASSUME FeedbackInv
  PROVE  Corrections!ReadersAgree
<1> SUFFICES ASSUME \A x \in DOMAIN overrides : Corrections!Usable(x), Corrections!Contradictions(overrides) = {}
             PROVE  /\ Corrections!Ready <=> /\ Corrections!Total(overrides) >= ReadyTotal
                                             /\ Corrections!ReportReady(Corrections!TrainingData)
                    /\ DOMAIN Corrections!Hints \subseteq {x.label[1] : x \in DOMAIN Corrections!TrainingData}
                    /\ Corrections!Ready /\ (\A q \in ItemQueries \ {""} : QueryWords[q] # {}) =>
                         DOMAIN Corrections!Hints = {x.label[1] : x \in DOMAIN Corrections!TrainingData}
  BY DEF Corrections!ReadersAgree
<1>1. ABag(overrides) /\ Corrections!Total(overrides) \in Nat
  BY CopiesFinite DEF FeedbackInv
<1>2. Corrections!TrainingData = overrides
  <2>1. Corrections!TrainingData = [x \in DOMAIN overrides |-> overrides[x]]
    BY DEF Corrections!TrainingData, Corrections!Restrict
  <2> QED BY <1>1, <2>1 DEF ABag
<1>0. /\ ReadyTotal \in Nat \ {0} /\ PerDomain \in Nat /\ HintTotal \in Nat
      /\ PerDomain <= ReadyTotal /\ HintTotal <= ReadyTotal
  BY CorrectionsAssumption
<1> DEFINE D == Corrections!Distribution
           even == \A l \in DOMAIN D : D[l] >= PerDomain
           total == Corrections!Total(overrides)
<1>3. Corrections!Ready <=> total >= ReadyTotal /\ even
  <2>1. Corrections!Recommendation =
          CASE total = 0 -> "encourage"
            [] total \in 1..ReadyTotal - 1 -> "collect more"
            [] OTHER -> IF even THEN "ready" ELSE "domains under-represented"
    BY DEF Corrections!Recommendation
  <2> HIDE DEF even, total, D
  <2>2. total \in Nat /\ ReadyTotal \in Nat \ {0}
    BY <1>1, CorrectionsAssumption DEF total
  <2>3. CASE total = 0
    BY <2>1, <2>2, <2>3 DEF Corrections!Ready
  <2>4. CASE total \in 1..ReadyTotal - 1
    <3>1. ~(total = 0) /\ ~(total >= ReadyTotal)
      BY <2>2, <2>4
    <3>2. Corrections!Recommendation = "collect more" \/ Corrections!Recommendation = "encourage"
      BY <2>1, <2>4, <3>1
    <3>3. ~Corrections!Ready
      BY <3>2 DEF Corrections!Ready
    <3> QED BY <3>1, <3>3
  <2>5. CASE total >= ReadyTotal
    <3>1. ~(total = 0) /\ ~(total \in 1..ReadyTotal - 1)
      BY <2>2, <2>5
    <3>2. Corrections!Recommendation = IF even THEN "ready" ELSE "domains under-represented"
      BY <2>1, <3>1, Zenon
    <3>3. Corrections!Ready <=> even
      BY <3>2 DEF Corrections!Ready
    <3> QED BY <2>5, <3>3
  <2> QED BY <2>2, <2>3, <2>4, <2>5
<1>4. total >= ReadyTotal /\ Corrections!ReportReady(overrides) <=> total >= ReadyTotal /\ even
  <2>1. Corrections!ReportReady(overrides) <=> even /\ total >= PerDomain
    BY DEF Corrections!ReportReady, Corrections!Distribution
  <2> HIDE DEF even, total
  <2>2. total >= ReadyTotal => total >= PerDomain
    <3>1. total \in Nat
      BY <1>1 DEF total
    <3> QED BY <1>0, <3>1
  <2> QED BY <2>1, <2>2
<1> DEFINE told == {x \in DOMAIN overrides : x.label[1] # "" /\ x.query # ""}
           words(d) == UNION {QueryWords[x.query] : x \in {y \in told : y.label[1] = d}}
           hinted == {d \in {x.label[1] : x \in told} : words(d) # {}}
<1>5. DOMAIN Corrections!Hints = IF Corrections!MayRetrain THEN hinted ELSE {}
  BY DEF Corrections!Hints
<1>6. hinted \subseteq {x.label[1] : x \in DOMAIN overrides}
  OBVIOUS
<1>7. ASSUME Corrections!Ready, \A q \in ItemQueries \ {""} : QueryWords[q] # {}
      PROVE  Corrections!MayRetrain /\ {x.label[1] : x \in DOMAIN overrides} \subseteq hinted
  <2>1. Corrections!MayRetrain
    <3>1. total \in Nat
      BY <1>1
    <3> HIDE DEF total, even
    <3>2. total >= ReadyTotal
      BY <1>3, <1>7, Zenon
    <3>3. total >= HintTotal
      BY <1>0, <3>1, <3>2
    <3> QED BY <3>3 DEF Corrections!MayRetrain, total
  <2>2. ASSUME NEW x \in DOMAIN overrides PROVE x.label[1] \in hinted
    <3>1. x.query \in ItemQueries
      <4>1. DOMAIN overrides = {Keys1(feedback)[y] : y \in DOMAIN Corrections!Restrict(feedback, Labelled(feedback))}
        BY DEF FeedbackInv, Corrections!Tally
      <4>2. DOMAIN Corrections!Restrict(feedback, Labelled(feedback)) = Labelled(feedback)
        BY DEF Corrections!Restrict
      <4>3. PICK y \in Labelled(feedback) : x = Told(y)
        BY <4>1, <4>2 DEF Keys1
      <4>4. y \in Corrections!Items
        BY DEF Labelled, FeedbackInv
      <4> QED BY <4>3, <4>4 DEF Told, Corrections!Items
    <3>2. x.query # "" /\ x.label[1] # ""
      BY CorrectionsAssumption DEF Corrections!Usable
    <3>3. QueryWords[x.query] # {} /\ x \in told
      BY <1>7, <3>1, <3>2
    <3>4. words(x.label[1]) # {}
      BY <3>3
    <3> HIDE DEF words
    <3> QED BY <3>3, <3>4
  <2> QED BY <2>1, <2>2
<1> HIDE DEF hinted, even, total
<1> QED BY <1>2, <1>3, <1>4, <1>5, <1>6, <1>7 DEF total
-----------------------------------------------------------------------------
(* Convergence *)

Moved(h, i) == Retraining!Size(h[i] - h[i - 1])

\* The last `still` epochs changed little, and the one before them, if it had a
\* predecessor, did not.
ConvergenceInv ==
  /\ history \in Seq(Int) /\ still \in Nat
  /\ still < Len(history) \/ (history = <<>> /\ still = 0)
  /\ \A i \in Len(history) - still + 1 .. Len(history) : Moved(history, i) < Epsilon
  /\ still + 1 < Len(history) => ~(Moved(history, Len(history) - still) < Epsilon)

\* The loop counts the epochs of the standstill, up to MaxPlateau.
LEMMA LoopCountsStandstill ==
  ASSUME ConvergenceInv, history # <<>>
  PROVE  Retraining!PlateauCount(history) = IF still < MaxPlateau THEN still ELSE MaxPlateau
<1> DEFINE c == IF still < MaxPlateau THEN still ELSE MaxPlateau
           m == Len(history)
           calm(n) == \A i \in m - n + 1 .. m : Moved(history, i) < Epsilon
           counts(n) == n < m /\ calm(n) /\ (n < MaxPlateau /\ n + 1 < m => ~calm(n + 1))
<1>1. /\ m \in Nat /\ still \in Nat /\ MaxPlateau \in Nat /\ still < m
      /\ still + 1 < m => ~(Moved(history, m - still) < Epsilon)
  <2>1. MaxPlateau \in Nat
    BY StoresAssumption
  <2>2. history \in Seq(Int) /\ still \in Nat /\ still < m
        /\ (still + 1 < m => ~(Moved(history, m - still) < Epsilon))
    BY DEF ConvergenceInv
  <2>3. m \in Nat
    BY <2>2
  <2> QED BY <2>1, <2>2, <2>3
<1>2. Retraining!PlateauCount(history) = CHOOSE n \in 0..MaxPlateau : counts(n)
  BY DEF Retraining!PlateauCount, Moved
<1>3. calm(still)
  BY DEF ConvergenceInv
<1> HIDE DEF m
<1>4. c \in 0..MaxPlateau /\ c <= still /\ c < m /\ (c < MaxPlateau => c = still)
  BY <1>1
<1> HIDE DEF c
<1>5. \A n \in 0..still : calm(n)
  BY <1>1, <1>3
<1>6. \A n \in Nat : still < n /\ n < m => ~calm(n)
  <2> SUFFICES ASSUME NEW n \in Nat, still < n, n < m, calm(n) PROVE FALSE
    OBVIOUS
  <2>1. m - still \in m - n + 1 .. m /\ still + 1 < m
    BY <1>1
  <2> QED BY <1>1, <2>1
<1> HIDE DEF calm
<1>7. counts(c)
  BY <1>1, <1>4, <1>5, <1>6
<1>8. ASSUME NEW n \in 0..MaxPlateau, counts(n) PROVE n = c
  <2>1. CASE n < c
    BY <1>1, <1>4, <1>5, <1>8, <2>1
  <2>2. CASE n > c
    BY <1>1, <1>4, <1>6, <1>8, <2>2
  <2> QED BY <1>4, <2>1, <2>2
<1> HIDE DEF counts
<1>9. (CHOOSE n \in 0..MaxPlateau : counts(n)) = c
  BY <1>4, <1>7, <1>8
<1> QED BY <1>2, <1>9 DEF c

LEMMA ConvergenceKeeps ==
  ASSUME ConvergenceInv, Retraining!Next
  PROVE  ConvergenceInv'
<1>1. ASSUME NEW a \in Accuracies, Retraining!Record(a) PROVE ConvergenceInv'
  <2> DEFINE m == Len(history)
             last == history[m]
  <2>1. a \in Int /\ history \in Seq(Int) /\ still \in Nat /\ m \in Nat
    <3>1. a \in Int
      BY StoresAssumption
    <3>2. history \in Seq(Int) /\ still \in Nat
      BY DEF ConvergenceInv
    <3> QED BY <3>1, <3>2
  <2>2. /\ history' \in Seq(Int) /\ Len(history') = m + 1
        /\ history'[m + 1] = a /\ \A i \in 1..m : history'[i] = history[i]
    BY <1>1, <2>1 DEF Retraining!Record
  <2>3. still' = IF history # <<>> /\ Retraining!Size(a - last) < Epsilon THEN still + 1 ELSE 0
    BY <1>1 DEF Retraining!Record, Retraining!Last
  <2>4. history = <<>> <=> m = 0
    BY <2>1
  <2>5. /\ still < m \/ (m = 0 /\ still = 0)
        /\ \A i \in m - still + 1 .. m : Moved(history, i) < Epsilon
        /\ still + 1 < m => ~(Moved(history, m - still) < Epsilon)
    BY <2>4 DEF ConvergenceInv
  <2> HIDE DEF m, last
  <2>6. \A i \in 2..m : Moved(history', i) = Moved(history, i)
    BY <2>1, <2>2 DEF Moved
  <2>7. m > 0 => Moved(history', m + 1) = Retraining!Size(a - last)
    BY <2>1, <2>2 DEF Moved, last
  <2>8. CASE m > 0 /\ Retraining!Size(a - last) < Epsilon
    <3>1. still' = still + 1 /\ still < m
      BY <2>1, <2>3, <2>4, <2>5, <2>8
    <3>2. ASSUME NEW i \in (m + 1) - (still + 1) + 1 .. m + 1 PROVE Moved(history', i) < Epsilon
      <4>1. (i \in m - still + 1 .. m /\ i \in 2..m) \/ i = m + 1
        BY <2>1, <3>1
      <4>2. CASE i = m + 1
        BY <2>7, <2>8, <4>2
      <4>3. CASE i \in m - still + 1 .. m /\ i \in 2..m
        BY <2>5, <2>6, <4>3
      <4> QED BY <4>1, <4>2, <4>3
    <3>3. (still + 1) + 1 < m + 1 => ~(Moved(history', (m + 1) - (still + 1)) < Epsilon)
      <4>1. (m + 1) - (still + 1) = m - still
        BY <2>1
      <4>2. still + 1 < m => m - still \in 2..m
        BY <2>1
      <4> QED BY <2>1, <2>5, <2>6, <4>1, <4>2
    <3>4. still' \in Nat /\ still' < Len(history')
      BY <2>1, <2>2, <3>1
    <3> QED BY <2>2, <3>1, <3>2, <3>3, <3>4 DEF ConvergenceInv
  <2>9. CASE ~(m > 0 /\ Retraining!Size(a - last) < Epsilon)
    <3>1. still' = 0
      BY <2>1, <2>3, <2>4, <2>9
    <3>2. \A i \in (m + 1) - 0 + 1 .. m + 1 : Moved(history', i) < Epsilon
      BY <2>1
    <3>3. 0 + 1 < m + 1 => ~(Moved(history', (m + 1) - 0) < Epsilon)
      <4>1. (m + 1) - 0 = m + 1 /\ (0 + 1 < m + 1 => m > 0)
        BY <2>1
      <4> QED BY <2>7, <2>9, <4>1
    <3>4. 0 \in Nat /\ 0 < m + 1
      BY <2>1
    <3> QED BY <2>2, <3>1, <3>2, <3>3, <3>4 DEF ConvergenceInv
  <2> QED BY <2>8, <2>9
<1>2. CASE Retraining!Ask
  BY <1>2 DEF Retraining!Ask, ConvergenceInv, Moved
<1>3. ASSUME history' = <<>>, still' = 0 PROVE ConvergenceInv'
  <2>1. Len(<<>>) = 0 /\ <<>> \in Seq(Int)
    OBVIOUS
  <2> QED BY <1>3, <2>1 DEF ConvergenceInv
<1>4. CASE Retraining!Restart
  BY <1>3, <1>4 DEF Retraining!Restart
<1> QED BY <1>1, <1>2, <1>4 DEF Retraining!Next

LEMMA StandstillIsSeen ==
  ASSUME ConvergenceInv
  PROVE  Retraining!PlateauIsStandstill
<1> SUFFICES ASSUME history # <<>>
             PROVE  Retraining!Verdict(history) = "plateau" <=> still >= MaxPlateau
  BY DEF Retraining!PlateauIsStandstill
<1> DEFINE m == Len(history)
           delta == history[m] - history[m - 1]
           n == Retraining!PlateauCount(history)
           v == Retraining!Verdict(history)
<1>1. MaxPlateau \in Nat \ {0} /\ Epsilon \in Nat
  BY StoresAssumption
<1>2. /\ m \in Nat \ {0} /\ still \in Nat /\ still < m
      /\ \A i \in m - still + 1 .. m : Moved(history, i) < Epsilon
      /\ m >= 2 => delta \in Int
  BY DEF ConvergenceInv
<1>3. n = IF still < MaxPlateau THEN still ELSE MaxPlateau
  BY LoopCountsStandstill
<1>4. v = IF m < 2 THEN "insufficient"
          ELSE CASE delta < -Epsilon -> "regression"
                 [] delta >= -Epsilon /\ n >= MaxPlateau -> "plateau"
                 [] delta >= -Epsilon /\ n < MaxPlateau ->
                      IF delta < Epsilon THEN "marginal" ELSE "improvement"
  BY DEF Retraining!Verdict
<1>5. still >= 1 => Retraining!Size(delta) < Epsilon
  <2>1. still >= 1 => m \in m - still + 1 .. m
    BY <1>2
  <2> QED BY <1>2, <2>1 DEF Moved
<1> HIDE DEF m, delta, n, v
<1>6. CASE m < 2
  <2>1. v = "insufficient"
    BY <1>4, <1>6
  <2>2. ~(still >= MaxPlateau)
    BY <1>1, <1>2, <1>6
  <2> QED BY <2>1, <2>2 DEF v
<1>7. CASE m >= 2
  <2>1. n \in Nat /\ (n >= MaxPlateau <=> still >= MaxPlateau)
    BY <1>1, <1>2, <1>3
  <2>2. still >= 1 => delta >= -Epsilon
    BY <1>1, <1>2, <1>5, <1>7 DEF Retraining!Size
  <2>3. ~(m < 2)
    BY <1>2, <1>7
  <2>4. CASE delta < -Epsilon
    <3>1. ~(delta >= -Epsilon)
      BY <1>1, <1>2, <1>7, <2>4
    <3>2. v = "regression"
      BY <1>4, <2>3, <2>4, <3>1
    <3>3. ~(still >= MaxPlateau)
      BY <1>1, <1>2, <2>2, <3>1
    <3> QED BY <3>2, <3>3 DEF v
  <2>5. CASE delta >= -Epsilon /\ n >= MaxPlateau
    <3>1. ~(delta < -Epsilon) /\ ~(n < MaxPlateau)
      BY <1>1, <1>2, <1>7, <2>1, <2>5
    <3>2. v = "plateau"
      BY <1>4, <2>3, <2>5, <3>1
    <3> QED BY <2>1, <2>5, <3>2 DEF v
  <2>6. CASE delta >= -Epsilon /\ n < MaxPlateau
    <3>1. ~(delta < -Epsilon) /\ ~(n >= MaxPlateau)
      BY <1>1, <1>2, <1>7, <2>1, <2>6
    <3>2. v \in {"marginal", "improvement"}
      BY <1>4, <2>3, <2>6, <3>1
    <3> QED BY <2>1, <3>1, <3>2 DEF v
  <2> QED BY <1>1, <1>2, <1>7, <2>1, <2>4, <2>5, <2>6
<1>8. m < 2 \/ m >= 2
  BY <1>2
<1> QED BY <1>6, <1>7, <1>8, Zenon
-----------------------------------------------------------------------------
\* What the router's retraining is told is true: a correction that was thanked for is
\* among those the readers count, the readers that count separately agree on
\* corrections in order, and a plateau is reported exactly at a standstill, whatever
\* the thresholds and however many items, epochs and restarts.
THEOREM RetrainingIsToldTheTruth == StoresSpec => []RetrainingIsInformed
<1> DEFINE Inv == /\ store = "feedback" => FeedbackInv
                  /\ store = "convergence" => ConvergenceInv
<1>1. StoresInit => Inv
  <2>1. Retraining!Init => ConvergenceInv
    BY Len(<<>>) = 0, <<>> \in Seq(Int) DEF Retraining!Init, ConvergenceInv
  <2> QED BY <2>1, FeedbackInitially DEF StoresInit
<1>2. Inv /\ [StoresNext]_storeVars => Inv'
  <2> SUFFICES ASSUME Inv, [StoresNext]_storeVars PROVE Inv'
    OBVIOUS
  <2>1. CASE StoresNext
    <3>1. /\ store' = store
          /\ store = "feedback" => Corrections!Next
          /\ store = "convergence" => Retraining!Next
      BY <2>1 DEF StoresNext, OthersRest, ResultsStep, PosteriorsStep, MemoryStep, OracleStep, WorldStep,
         RagStep, ExperienceStep, DataStep, CausalStep, RulesStep, ReportsStep, FeedbackStep,
         ConvergenceStep, LogsStep, RouterStep
    <3> QED BY <3>1, FeedbackKeeps, ConvergenceKeeps
  <2>2. CASE UNCHANGED storeVars
    <3>1. UNCHANGED <<store, feedback, overrides, thanked, exported, history, still>>
      BY <2>2 DEF storeVars, feedbackVars, convergenceVars
    <3>2. FeedbackInv => FeedbackInv'
      BY <3>1 DEF FeedbackInv
    <3>3. ConvergenceInv => ConvergenceInv'
      BY <3>1 DEF ConvergenceInv, Moved
    <3> QED BY <3>1, <3>2, <3>3
  <2> QED BY <2>1, <2>2
<1>3. Inv => RetrainingIsInformed
  <2>1. FeedbackInv => Corrections!CorrectionsAreKept
    BY DEF FeedbackInv, Corrections!CorrectionsAreKept, Labelled, Keys1, Told
  <2> QED BY <2>1, ReadersDoAgree, StandstillIsSeen DEF RetrainingIsInformed
<1> QED BY <1>1, <1>2, <1>3, PTL DEF StoresSpec

-----------------------------------------------------------------------------
(* Forward chaining *)

IsList(s) == s \in Seq(Reasoner!ToSet(s))
Pair(f) == <<f.attribute, f.value>>

\* The rules conclude nothing that the pairs lack.
Closed(P) == \A r \in Reasoner!ToSet(Rules) : Reasoner!Holds(r, P) => Pair(r) \in P
Conclusions == {Pair(r) : r \in Reasoner!ToSet(Rules)}

\* The pairs q follow from p: there are at least those of p, and at most what the
\* rules conclude from them.
Follow(q, p) ==
  /\ p \subseteq q /\ q \subseteq p \cup Conclusions
  /\ \A P : Closed(P) /\ p \subseteq P => q \subseteq P

LEMMA FollowersFollow ==
  ASSUME NEW p, NEW q, NEW r, Follow(q, p), Follow(r, q)
  PROVE  Follow(r, p)
BY DEF Follow

LEMMA ListForm ==
  ASSUME NEW s, IsList(s)
  PROVE  /\ Len(s) \in Nat /\ DOMAIN s = 1..Len(s) /\ s = [i \in DOMAIN s |-> s[i]]
         /\ Reasoner!ToSet(s) = {s[i] : i \in DOMAIN s}
<1>1. Reasoner!ToSet(s) = {s[i] : i \in DOMAIN s}
  BY DEF Reasoner!ToSet
<1> DEFINE S == Reasoner!ToSet(s)
<1>2. s \in Seq(S)
  BY DEF IsList
<1> HIDE DEF S
<1> QED BY <1>1, <1>2

LEMMA PairsForm ==
  ASSUME NEW s
  PROVE  Reasoner!Pairs(s) = {Pair(s[i]) : i \in DOMAIN s}
BY DEF Reasoner!Pairs, Reasoner!ToSet, Pair

LEMMA FactAdds ==
  ASSUME NEW s, IsList(s), NEW f
  PROVE  /\ IsList(Reasoner!AddFact(s, f))
         /\ Reasoner!Pairs(Reasoner!AddFact(s, f)) = Reasoner!Pairs(s) \cup {Pair(f)}
<1> DEFINE same == {i \in DOMAIN s : s[i].entity = f.entity /\ s[i].attribute = f.attribute
                                     /\ s[i].value = f.value}
           t == Reasoner!AddFact(s, f)
           n == Len(s)
<1>1. n \in Nat /\ DOMAIN s = 1..n /\ s \in Seq(Reasoner!ToSet(s))
  BY ListForm DEF IsList
<1>2. t = IF same = {} THEN Append(s, f)
          ELSE [i \in DOMAIN s |-> IF i \in same /\ f.confidence > s[i].confidence THEN f ELSE s[i]]
  BY DEF Reasoner!AddFact
<1>3. Reasoner!Pairs(t) = {Pair(t[i]) : i \in DOMAIN t} /\ Reasoner!Pairs(s) = {Pair(s[i]) : i \in DOMAIN s}
  BY PairsForm
<1>4. Reasoner!ToSet(t) = {t[i] : i \in DOMAIN t}
  BY DEF Reasoner!ToSet
<1> HIDE DEF t, n
<1>5. CASE same = {}
  <2>1. t = Append(s, f) /\ Append(s, f) = [i \in 1..n + 1 |-> IF i = n + 1 THEN f ELSE s[i]]
    <3>1. t = Append(s, f)
      BY <1>2, <1>5
    <3>2. Append(s, f) = [i \in 1..n + 1 |-> IF i = n + 1 THEN f ELSE s[i]]
      <4>1. s \in Seq(Reasoner!ToSet(s))
        BY <1>1
      <4> DEFINE S == Reasoner!ToSet(s) \cup {f}
      <4>2. s \in Seq(S) /\ f \in S
        <5> DEFINE R == Reasoner!ToSet(s)
        <5>1. R \subseteq S /\ s \in Seq(R) /\ f \in S
          BY <4>1
        <5> HIDE DEF R, S
        <5>2. Len(s) \in Nat /\ s \in [1..Len(s) -> R]
          BY <5>1
        <5>3. s \in [1..Len(s) -> S]
          BY <5>1, <5>2
        <5> QED BY <5>1, <5>2, <5>3
      <4> HIDE DEF S
      <4> DEFINE a == Append(s, f)
      <4>3. a \in Seq(S) /\ Len(a) = Len(s) + 1 /\ Len(s) \in Nat
        BY <4>2
      <4>4. a[Len(s) + 1] = f /\ \A i \in 1..Len(s) : a[i] = s[i]
        BY <4>2
      <4> HIDE DEF a
      <4>5. a = [i \in 1..Len(s) + 1 |-> a[i]]
        BY <4>3
      <4>6. \A i \in 1..Len(s) + 1 : a[i] = IF i = Len(s) + 1 THEN f ELSE s[i]
        BY <4>3, <4>4
      <4> QED BY <4>5, <4>6 DEF a, n
    <3> QED BY <3>1, <3>2
  <2>2. DOMAIN t = 1..n + 1 /\ t[n + 1] = f /\ \A i \in 1..n : t[i] = s[i]
    BY <1>1, <2>1
  <2>3. IsList(t)
    <3>1. t \in [1..n + 1 -> {t[i] : i \in DOMAIN t}] /\ n + 1 \in Nat
      BY <1>1, <2>1, <2>2
    <3> QED BY <1>4, <3>1 DEF IsList
  <2>4. Reasoner!Pairs(t) = Reasoner!Pairs(s) \cup {Pair(f)}
    BY <1>1, <1>3, <2>2
  <2> QED BY <2>3, <2>4 DEF t
<1>6. CASE same # {}
  <2>1. t = [i \in 1..n |-> IF i \in same /\ f.confidence > s[i].confidence THEN f ELSE s[i]]
    BY <1>1, <1>2, <1>6
  <2>2. DOMAIN t = 1..n /\ \A i \in 1..n : Pair(t[i]) = Pair(s[i])
    BY <1>1, <2>1 DEF Pair
  <2>3. IsList(t)
    <3>1. t \in [1..n -> {t[i] : i \in DOMAIN t}]
      BY <2>1, <2>2
    <3> QED BY <1>1, <1>4, <3>1 DEF IsList
  <2>4. \E i \in DOMAIN s : Pair(s[i]) = Pair(f)
    BY <1>6 DEF Pair
  <2>5. Reasoner!Pairs(t) = Reasoner!Pairs(s)
    BY <1>1, <1>3, <2>2
  <2> QED BY <1>3, <2>3, <2>4, <2>5 DEF t
<1> QED BY <1>5, <1>6

\* Facts that are added add their pairs.
LEMMA FactsAdd ==
  ASSUME NEW s, IsList(s), NEW new, IsList(new)
  PROVE  /\ IsList(Reasoner!AddFacts(s, new))
         /\ Reasoner!Pairs(Reasoner!AddFacts(s, new)) = Reasoner!Pairs(s) \cup Reasoner!Pairs(new)
<1> DEFINE step(x, i) == Reasoner!AddFact(x, new[i])
           Walk(w, n) == w = [i \in 0..n |-> IF i = 0 THEN s ELSE step(w[i - 1], i)]
           after == CHOOSE w : Walk(w, Len(new))
           m == Len(new)
<1>1. Reasoner!AddFacts(s, new) = after[m]
  BY DEF Reasoner!AddFacts
<1>2. m \in Nat /\ DOMAIN new = 1..m
  BY ListForm
<1>3. \A x, i : IsList(x) => IsList(step(x, i)) /\ Reasoner!Pairs(step(x, i)) = Reasoner!Pairs(x) \cup {Pair(new[i])}
  BY FactAdds
<1> HIDE DEF step
<1>4. \A n \in Nat : \E w : Walk(w, n)
  <2> DEFINE T == {n \in Nat : \E w : Walk(w, n)}
  <2>1. 0 \in T
    <3>1. Walk([i \in {0} |-> s], 0)
      OBVIOUS
    <3> QED BY <3>1
  <2>2. ASSUME NEW n \in Nat, n \in T PROVE n + 1 \in T
    <3>1. PICK g : Walk(g, n)
      BY <2>2
    <3> DEFINE h == [i \in 0..n + 1 |-> IF i <= n THEN g[i] ELSE step(g[n], n + 1)]
    <3>2. ASSUME NEW i \in 0..n + 1 PROVE h[i] = IF i = 0 THEN s ELSE step(h[i - 1], i)
      <4>1. CASE i = 0
        BY <3>1, <4>1
      <4>2. CASE i # 0 /\ i <= n
        <5>1. h[i] = g[i] /\ h[i - 1] = g[i - 1] /\ i \in 0..n
          BY <4>2
        <5> QED BY <3>1, <4>2, <5>1
      <4>3. CASE i = n + 1
        <5>1. i # 0 /\ ~(i <= n) /\ i - 1 = n /\ n <= n /\ n \in 0..n + 1
          BY <4>3
        <5>2. h[i - 1] = g[n]
          BY <5>1
        <5> QED BY <4>3, <5>1, <5>2
      <4>4. i = 0 \/ (i # 0 /\ i <= n) \/ i = n + 1
        OBVIOUS
      <4> QED BY <4>1, <4>2, <4>3, <4>4
    <3>3. Walk(h, n + 1)
      BY <3>2
    <3>4. \E w : Walk(w, n + 1)
      BY <3>3, Zenon
    <3>5. n + 1 \in Nat
      OBVIOUS
    <3> QED BY <3>4, <3>5
  <2>3. \A n \in Nat : n \in T => n + 1 \in T
    BY <2>2
  <2> HIDE DEF T
  <2>4. Nat \subseteq T
    BY <2>1, <2>3, Counting
  <2> QED BY <2>4 DEF T
<1>5. Walk(after, m)
  <2>1. \E w : Walk(w, m)
    BY <1>2, <1>4
  <2> QED BY <2>1, Zenon
<1>6. after[0] = s /\ \A n \in 1..m : after[n] = step(after[n - 1], n)
  <2> HIDE DEF after, m
  <2> QED BY <1>2, <1>5
<1> DEFINE told(n) == {Pair(new[i]) : i \in 1..n}
           right(n) == IsList(after[n]) /\ Reasoner!Pairs(after[n]) = Reasoner!Pairs(s) \cup told(n)
<1> HIDE DEF after, m
<1>7. \A n \in Nat : n <= m => right(n)
  <2> DEFINE T == {n \in Nat : n <= m => right(n)}
  <2>1. 0 \in T
    BY <1>6
  <2>2. ASSUME NEW n \in Nat, n \in T PROVE n + 1 \in T
    <3> SUFFICES ASSUME n + 1 <= m PROVE right(n + 1)
      OBVIOUS
    <3>1. n <= m /\ n + 1 \in 1..m /\ (n + 1) - 1 = n
      BY <1>2
    <3>2. right(n) /\ after[n + 1] = step(after[n], n + 1)
      BY <1>6, <2>2, <3>1
    <3>3. told(n + 1) = told(n) \cup {Pair(new[n + 1])}
      <4>1. 1..n + 1 = 1..n \cup {n + 1}
        OBVIOUS
      <4> QED BY <4>1
    <3> HIDE DEF told
    <3> QED BY <1>3, <3>2, <3>3
  <2>3. \A n \in Nat : n \in T => n + 1 \in T
    BY <2>2
  <2> HIDE DEF T
  <2>4. Nat \subseteq T
    BY <2>1, <2>3, Counting
  <2> QED BY <2>4 DEF T
<1>8. right(m) /\ told(m) = Reasoner!Pairs(new)
  <2>1. right(m)
    BY <1>2, <1>7
  <2>2. told(m) = Reasoner!Pairs(new)
    BY <1>2, PairsForm
  <2> QED BY <2>1, <2>2
<1> QED BY <1>1, <1>8

IsChain(st) ==
  /\ st = [facts |-> st.facts, derived |-> st.derived, added |-> st.added, quiet |-> st.quiet]
  /\ IsList(st.facts) /\ st.added \in BOOLEAN /\ st.quiet \in BOOLEAN

\* A rule that fires adds its conclusion; one that changes nothing had nothing to add.
LEMMA FireFollows ==
  ASSUME NEW st, IsChain(st), NEW r \in Reasoner!ToSet(Rules)
  PROVE  LET t == Reasoner!Fire(st, r) IN
         /\ IsChain(t) /\ t.quiet = st.quiet
         /\ Follow(Reasoner!Pairs(t.facts), Reasoner!Pairs(st.facts))
         /\ ~t.added => /\ ~st.added /\ t.facts = st.facts
                        /\ Reasoner!Holds(r, Reasoner!Pairs(st.facts)) => Pair(r) \in Reasoner!Pairs(st.facts)
<1> DEFINE t == Reasoner!Fire(st, r)
           f == [entity |-> Reasoner!About(r, st.facts), attribute |-> r.attribute, value |-> r.value,
                 confidence |-> (95 * r.confidence) \div 100, source |-> "rule"]
           more == Reasoner!AddFact(st.facts, f)
           holds == Reasoner!Holds(r, Reasoner!Pairs(st.facts))
           next == IF holds THEN more ELSE st.facts
           p == Reasoner!Pairs(st.facts)
           q == Reasoner!Pairs(next)
<1>1. t = IF next = st.facts THEN st
          ELSE [st EXCEPT !.facts = next, !.added = TRUE, !.derived = @ + 1]
  BY DEF Reasoner!Fire
<1>2. IsList(st.facts) /\ IsList(more) /\ Reasoner!Pairs(more) = p \cup {Pair(r)}
  <2>1. IsList(st.facts)
    BY DEF IsChain
  <2>2. Pair(f) = Pair(r)
    BY DEF Pair
  <2> HIDE DEF f
  <2> QED BY <2>1, <2>2, FactAdds
<1> HIDE DEF f, more
<1>3. IsList(next) /\ (holds => q = p \cup {Pair(r)}) /\ (~holds => q = p)
  BY <1>2
<1>4. Follow(q, p)
  <2>1. CASE holds
    <3>1. Pair(r) \in Conclusions
      BY DEF Conclusions
    <3>2. ASSUME NEW P, Closed(P), p \subseteq P PROVE Pair(r) \in P
      <4>1. Reasoner!Holds(r, P)
        BY <2>1, <3>2 DEF Reasoner!Holds
      <4> QED BY <3>2, <4>1 DEF Closed
    <3> HIDE DEF p, q, holds
    <3> QED BY <1>3, <2>1, <3>1, <3>2 DEF Follow
  <2>2. CASE ~holds
    <3> HIDE DEF p, q, holds
    <3> QED BY <1>3, <2>2 DEF Follow
  <2> QED BY <2>1, <2>2
<1>5. CASE next = st.facts
  <2>1. t = st
    BY <1>1, <1>5
  <2>2. q = p
    BY <1>5
  <2>3. holds => Pair(r) \in p
    <3> HIDE DEF p, q, holds, next
    <3> QED BY <1>3, <2>2
  <2>4. Follow(p, p)
    BY DEF Follow
  <2> QED BY <2>1, <2>3, <2>4 DEF IsChain, t
<1>6. CASE next # st.facts
  <2>1. t = [st EXCEPT !.facts = next, !.added = TRUE, !.derived = @ + 1]
    BY <1>1, <1>6
  <2> HIDE DEF next, t
  <2>2. t = [facts |-> next, derived |-> st.derived + 1, added |-> TRUE, quiet |-> st.quiet]
    BY <2>1 DEF IsChain
  <2>3. t.facts = next /\ t.added = TRUE /\ t.quiet = st.quiet /\ IsChain(t)
    BY <1>3, <2>2 DEF IsChain
  <2> QED BY <1>4, <2>3 DEF t
<1> QED BY <1>5, <1>6

\* A round adds what follows; a quiet one leaves nothing to conclude.
LEMMA RoundFollows ==
  ASSUME NEW st, IsChain(st), st.quiet => Closed(Reasoner!Pairs(st.facts))
  PROVE  LET t == Reasoner!Round(st) IN
         /\ IsChain(t) /\ Follow(Reasoner!Pairs(t.facts), Reasoner!Pairs(st.facts))
         /\ t.quiet => Closed(Reasoner!Pairs(t.facts))
<1> DEFINE first == [st EXCEPT !.added = FALSE]
           step(x, i) == Reasoner!Fire(x, Rules[i])
           Walk(w, n) == w = [i \in 0..n |-> IF i = 0 THEN first ELSE step(w[i - 1], i)]
           after == CHOOSE w : Walk(w, Len(Rules))
           m == Len(Rules)
           last == after[m]
           p == Reasoner!Pairs(st.facts)
<1>1. Reasoner!Round(st) = IF st.quiet THEN st ELSE [last EXCEPT !.quiet = ~last.added]
  BY DEF Reasoner!Round
<1>2. m \in Nat /\ Reasoner!ToSet(Rules) = {Rules[i] : i \in 1..m}
  <2>1. IsList(Rules)
    BY RulesAssumption DEF IsList
  <2> QED BY <2>1, ListForm
<1>3. IsChain(first) /\ first.facts = st.facts /\ first.quiet = st.quiet
  <2>1. first = [facts |-> st.facts, derived |-> st.derived, added |-> FALSE, quiet |-> st.quiet]
    <3>1. first = [st EXCEPT !.added = FALSE]
      OBVIOUS
    <3> HIDE DEF first
    <3> QED BY <3>1 DEF IsChain
  <2> HIDE DEF first
  <2> QED BY <2>1 DEF IsChain
<1> HIDE DEF first
<1>4. \A n \in Nat : \E w : Walk(w, n)
  <2> HIDE DEF step
  <2> DEFINE T == {n \in Nat : \E w : Walk(w, n)}
  <2>1. 0 \in T
    <3>1. Walk([i \in {0} |-> first], 0)
      OBVIOUS
    <3> QED BY <3>1
  <2>2. ASSUME NEW n \in Nat, n \in T PROVE n + 1 \in T
    <3>1. PICK g : Walk(g, n)
      BY <2>2
    <3> DEFINE h == [i \in 0..n + 1 |-> IF i <= n THEN g[i] ELSE step(g[n], n + 1)]
    <3>2. ASSUME NEW i \in 0..n + 1 PROVE h[i] = IF i = 0 THEN first ELSE step(h[i - 1], i)
      <4>1. CASE i = 0
        BY <3>1, <4>1
      <4>2. CASE i # 0 /\ i <= n
        <5>1. h[i] = g[i] /\ h[i - 1] = g[i - 1] /\ i \in 0..n
          BY <4>2
        <5> QED BY <3>1, <4>2, <5>1
      <4>3. CASE i = n + 1
        <5>1. i # 0 /\ ~(i <= n) /\ i - 1 = n /\ n <= n /\ n \in 0..n + 1
          BY <4>3
        <5>2. h[i - 1] = g[n]
          BY <5>1
        <5> QED BY <4>3, <5>1, <5>2
      <4>4. i = 0 \/ (i # 0 /\ i <= n) \/ i = n + 1
        OBVIOUS
      <4> QED BY <4>1, <4>2, <4>3, <4>4
    <3>3. Walk(h, n + 1)
      BY <3>2
    <3>4. \E w : Walk(w, n + 1)
      BY <3>3, Zenon
    <3>5. n + 1 \in Nat
      OBVIOUS
    <3> QED BY <3>4, <3>5
  <2>3. \A n \in Nat : n \in T => n + 1 \in T
    BY <2>2
  <2> HIDE DEF T
  <2>4. Nat \subseteq T
    BY <2>1, <2>3, Counting
  <2> QED BY <2>4 DEF T
<1>5. Walk(after, m)
  <2>1. \E w : Walk(w, m)
    BY <1>2, <1>4
  <2> QED BY <2>1, Zenon
<1>6. after[0] = first /\ \A n \in 1..m : after[n] = step(after[n - 1], n)
  <2> HIDE DEF after, m, step
  <2> QED BY <1>2, <1>5
<1> DEFINE right(x, n) ==
      /\ IsChain(x) /\ Follow(Reasoner!Pairs(x.facts), p)
      /\ ~x.added => /\ x.facts = st.facts
                     /\ \A i \in 1..n : Reasoner!Holds(Rules[i], p) => Pair(Rules[i]) \in p
<1>7. right(first, 0)
  <2>1. Follow(p, p)
    BY DEF Follow
  <2> QED BY <1>3, <2>1
<1>8. ASSUME NEW n \in Nat, NEW x, right(x, n), n + 1 \in 1..m PROVE right(step(x, n + 1), n + 1)
  <2>1. Rules[n + 1] \in Reasoner!ToSet(Rules)
    BY <1>2, <1>8
  <2> DEFINE y == step(x, n + 1)
             q == Reasoner!Pairs(x.facts)
             r == Rules[n + 1]
  <2>2. /\ IsChain(y) /\ Follow(Reasoner!Pairs(y.facts), q)
        /\ ~y.added => /\ ~x.added /\ y.facts = x.facts
                       /\ Reasoner!Holds(r, q) => Pair(r) \in q
    BY <1>8, <2>1, FireFollows
  <2>3. Follow(Reasoner!Pairs(y.facts), p)
    <3> HIDE DEF y, p, q
    <3> QED BY <1>8, <2>2, FollowersFollow DEF q
  <2>4. ASSUME ~y.added
        PROVE  /\ y.facts = st.facts
               /\ \A i \in 1..n + 1 : Reasoner!Holds(Rules[i], p) => Pair(Rules[i]) \in p
    <3>1. y.facts = st.facts /\ q = p
      BY <1>8, <2>2, <2>4
    <3>2. Reasoner!Holds(r, p) => Pair(r) \in p
      BY <2>2, <2>4, <3>1
    <3>3. \A i \in 1..n : Reasoner!Holds(Rules[i], p) => Pair(Rules[i]) \in p
      BY <1>8, <2>2, <2>4
    <3>4. \A i \in 1..n + 1 : i \in 1..n \/ i = n + 1
      OBVIOUS
    <3> HIDE DEF p
    <3> QED BY <3>1, <3>2, <3>3, <3>4
  <2> HIDE DEF y
  <2> QED BY <2>2, <2>3, <2>4 DEF y
<1> HIDE DEF right, step, after, m
<1>9. \A n \in Nat : n <= m => right(after[n], n)
  <2> DEFINE T == {n \in Nat : n <= m => right(after[n], n)}
  <2>1. 0 \in T
    BY <1>6, <1>7
  <2>2. ASSUME NEW n \in Nat, n \in T PROVE n + 1 \in T
    <3> SUFFICES ASSUME n + 1 <= m PROVE right(after[n + 1], n + 1)
      OBVIOUS
    <3>1. n <= m /\ n + 1 \in 1..m /\ (n + 1) - 1 = n
      BY <1>2
    <3>2. right(after[n], n) /\ after[n + 1] = step(after[n], n + 1)
      BY <1>6, <2>2, <3>1
    <3> QED BY <1>8, <3>1, <3>2
  <2>3. \A n \in Nat : n \in T => n + 1 \in T
    BY <2>2
  <2> HIDE DEF T
  <2>4. Nat \subseteq T
    BY <2>1, <2>3, Counting
  <2> QED BY <2>4 DEF T
<1>10. /\ IsChain(last) /\ Follow(Reasoner!Pairs(last.facts), p)
       /\ ~last.added => last.facts = st.facts /\ Closed(p)
  <2>1. right(last, m)
    BY <1>2, <1>9
  <2> HIDE DEF last, p
  <2> QED BY <1>2, <2>1 DEF right, Closed
<1> HIDE DEF last
<1>11. CASE st.quiet
  <2>1. Reasoner!Round(st) = st
    BY <1>1, <1>11
  <2>2. Follow(p, p)
    BY DEF Follow
  <2> QED BY <1>11, <2>1, <2>2
<1>12. CASE ~st.quiet
  <2> DEFINE t == [facts |-> last.facts, derived |-> last.derived, added |-> last.added, quiet |-> ~last.added]
  <2>1. Reasoner!Round(st) = t
    <3>1. Reasoner!Round(st) = [last EXCEPT !.quiet = ~last.added]
      BY <1>1, <1>12
    <3> QED BY <1>10, <3>1 DEF IsChain
  <2>2. IsChain(t) /\ t.facts = last.facts /\ (t.quiet => ~last.added)
    BY <1>10 DEF IsChain
  <2> HIDE DEF t
  <2> QED BY <1>10, <2>1, <2>2
<1> QED BY <1>11, <1>12

LEMMA ChainFollows ==
  ASSUME NEW s, IsList(s)
  PROVE  LET t == Reasoner!ForwardChain(s) IN
         /\ IsList(t.facts) /\ t.quiet \in BOOLEAN
         /\ Follow(Reasoner!Pairs(t.facts), Reasoner!Pairs(s))
         /\ t.quiet => Closed(Reasoner!Pairs(t.facts))
<1> DEFINE first == [facts |-> s, derived |-> 0, added |-> FALSE, quiet |-> FALSE]
           step(x, i) == Reasoner!Round(x)
           Walk(w, n) == w = [i \in 0..n |-> IF i = 0 THEN first ELSE step(w[i - 1], i)]
           after == CHOOSE w : Walk(w, MaxRounds)
           p == Reasoner!Pairs(s)
           right(x) == /\ IsChain(x) /\ Follow(Reasoner!Pairs(x.facts), p)
                       /\ x.quiet => Closed(Reasoner!Pairs(x.facts))
<1>1. Reasoner!ForwardChain(s) = after[MaxRounds]
  BY DEF Reasoner!ForwardChain
<1>2. right(first) /\ MaxRounds \in Nat
  <2>1. Follow(p, p)
    BY DEF Follow
  <2>2. IsChain(first) /\ first.facts = s /\ ~first.quiet
    BY DEF IsChain
  <2> HIDE DEF first
  <2> QED BY <2>1, <2>2, RulesAssumption
<1> HIDE DEF first
<1>3. \A n \in Nat : \E w : Walk(w, n)
  <2> HIDE DEF step
  <2> DEFINE T == {n \in Nat : \E w : Walk(w, n)}
  <2>1. 0 \in T
    <3>1. Walk([i \in {0} |-> first], 0)
      OBVIOUS
    <3> QED BY <3>1
  <2>2. ASSUME NEW n \in Nat, n \in T PROVE n + 1 \in T
    <3>1. PICK g : Walk(g, n)
      BY <2>2
    <3> DEFINE h == [i \in 0..n + 1 |-> IF i <= n THEN g[i] ELSE step(g[n], n + 1)]
    <3>2. ASSUME NEW i \in 0..n + 1 PROVE h[i] = IF i = 0 THEN first ELSE step(h[i - 1], i)
      <4>1. CASE i = 0
        BY <3>1, <4>1
      <4>2. CASE i # 0 /\ i <= n
        <5>1. h[i] = g[i] /\ h[i - 1] = g[i - 1] /\ i \in 0..n
          BY <4>2
        <5> QED BY <3>1, <4>2, <5>1
      <4>3. CASE i = n + 1
        <5>1. i # 0 /\ ~(i <= n) /\ i - 1 = n /\ n <= n /\ n \in 0..n + 1
          BY <4>3
        <5>2. h[i - 1] = g[n]
          BY <5>1
        <5> QED BY <4>3, <5>1, <5>2
      <4>4. i = 0 \/ (i # 0 /\ i <= n) \/ i = n + 1
        OBVIOUS
      <4> QED BY <4>1, <4>2, <4>3, <4>4
    <3>3. Walk(h, n + 1)
      BY <3>2
    <3>4. \E w : Walk(w, n + 1)
      BY <3>3, Zenon
    <3>5. n + 1 \in Nat
      OBVIOUS
    <3> QED BY <3>4, <3>5
  <2>3. \A n \in Nat : n \in T => n + 1 \in T
    BY <2>2
  <2> HIDE DEF T
  <2>4. Nat \subseteq T
    BY <2>1, <2>3, Counting
  <2> QED BY <2>4 DEF T
<1>4. Walk(after, MaxRounds)
  <2>1. \E w : Walk(w, MaxRounds)
    BY <1>2, <1>3
  <2> QED BY <2>1, Zenon
<1>5. after[0] = first /\ \A n \in 1..MaxRounds : after[n] = step(after[n - 1], n)
  <2> HIDE DEF after, step
  <2> QED BY <1>2, <1>4
<1>6. ASSUME NEW x, NEW n, right(x) PROVE right(step(x, n))
  <2> DEFINE y == step(x, n)
             q == Reasoner!Pairs(x.facts)
             r == Reasoner!Pairs(y.facts)
  <2>1. IsChain(y) /\ Follow(r, q) /\ (y.quiet => Closed(r))
    BY <1>6, RoundFollows
  <2>2. Follow(r, p)
    <3> HIDE DEF r, p, y
    <3> QED BY <1>6, <2>1, FollowersFollow
  <2> QED BY <2>1, <2>2
<1> HIDE DEF right, step, after
<1>7. \A n \in Nat : n <= MaxRounds => right(after[n])
  <2> DEFINE T == {n \in Nat : n <= MaxRounds => right(after[n])}
  <2>1. 0 \in T
    BY <1>2, <1>5
  <2>2. ASSUME NEW n \in Nat, n \in T PROVE n + 1 \in T
    <3> SUFFICES ASSUME n + 1 <= MaxRounds PROVE right(after[n + 1])
      OBVIOUS
    <3>1. n <= MaxRounds /\ n + 1 \in 1..MaxRounds /\ (n + 1) - 1 = n
      BY <1>2
    <3>2. right(after[n]) /\ after[n + 1] = step(after[n], n + 1)
      BY <1>5, <2>2, <3>1
    <3> QED BY <1>6, <3>2
  <2>3. \A n \in Nat : n \in T => n + 1 \in T
    BY <2>2
  <2> HIDE DEF T
  <2>4. Nat \subseteq T
    BY <2>1, <2>3, Counting
  <2> QED BY <2>4 DEF T
<1>8. right(after[MaxRounds])
  BY <1>2, <1>7
<1> QED BY <1>1, <1>8 DEF right, IsChain

-----------------------------------------------------------------------------
(* The run *)

\* What is known follows from what was given, and all of it does once a round derived
\* nothing.
ReasonerInv ==
  /\ IsList(facts) /\ quiet \in BOOLEAN
  /\ Follow(Reasoner!Pairs(facts), given)
  /\ stage \in {"deepening", "correcting", "done"} /\ quiet => Closed(Reasoner!Pairs(facts))
  /\ stage \in {"idle", "extracting", "deepening", "correcting", "done", "validated"}

\* Facts that were given with others, and what followed from them, follow from all.
LEMMA GivenMore ==
  ASSUME NEW p, NEW q, NEW new, Follow(q, p)
  PROVE  Follow(q \cup new, p \cup new)
BY DEF Follow

LEMMA ReasonerKeeps ==
  ASSUME ReasonerInv, Reasoner!Next
  PROVE  ReasonerInv'
<1> USE DEF ReasonerInv
<1>0. IsList(<<>>)
  <2>1. <<>> \in Seq({})
    OBVIOUS
  <2>2. Reasoner!ToSet(<<>>) = {}
    BY DEF Reasoner!ToSet
  <2> QED BY <2>1, <2>2 DEF IsList
<1>1. CASE Reasoner!Reason
  <2>1. PICK found \in GraphFacts \cup {<<>>} :
          facts' = Reasoner!AddFacts(facts, found) /\ given' = given \cup Reasoner!Pairs(found)
    BY <1>1 DEF Reasoner!Reason
  <2>2. IsList(found)
    BY <1>0, RulesAssumption DEF IsList
  <2>3. IsList(facts') /\ Reasoner!Pairs(facts') = Reasoner!Pairs(facts) \cup Reasoner!Pairs(found)
    BY <2>1, <2>2, FactsAdd
  <2>4. Follow(Reasoner!Pairs(facts'), given')
    <3>1. Follow(Reasoner!Pairs(facts), given)
      OBVIOUS
    <3>2. Follow(Reasoner!Pairs(facts) \cup Reasoner!Pairs(found), given \cup Reasoner!Pairs(found))
      BY <3>1, GivenMore
    <3> QED BY <2>1, <2>3, <3>2, Zenon
  <2> QED BY <1>1, <2>3, <2>4 DEF Reasoner!Reason
<1>2. CASE Reasoner!Extract
  <2>1. PICK extracted \in Extractions \cup {<<>>} :
          LET chained == Reasoner!ForwardChain(Reasoner!AddFacts(facts, extracted))
          IN  /\ facts' = chained.facts /\ quiet' = chained.quiet
              /\ given' = given \cup Reasoner!Pairs(extracted)
    BY <1>2 DEF Reasoner!Extract
  <2> DEFINE s == Reasoner!AddFacts(facts, extracted)
  <2>2. IsList(extracted)
    BY <1>0, RulesAssumption DEF IsList
  <2>3. IsList(s) /\ Reasoner!Pairs(s) = Reasoner!Pairs(facts) \cup Reasoner!Pairs(extracted)
    BY <2>2, FactsAdd
  <2>4. Follow(Reasoner!Pairs(s), given')
    <3>1. Follow(Reasoner!Pairs(facts), given)
      OBVIOUS
    <3>2. Follow(Reasoner!Pairs(facts) \cup Reasoner!Pairs(extracted), given \cup Reasoner!Pairs(extracted))
      BY <3>1, GivenMore
    <3> HIDE DEF s
    <3> QED BY <2>1, <2>3, <3>2, Zenon
  <2>5. /\ IsList(facts') /\ quiet' \in BOOLEAN /\ Follow(Reasoner!Pairs(facts'), Reasoner!Pairs(s))
        /\ quiet' => Closed(Reasoner!Pairs(facts'))
    BY <2>1, <2>3, ChainFollows
  <2>6. Follow(Reasoner!Pairs(facts'), given')
    BY <2>4, <2>5, FollowersFollow
  <2> QED BY <1>2, <2>5, <2>6 DEF Reasoner!Extract
<1>3. ASSUME UNCHANGED <<facts, given, quiet>>,
             stage' = stage \/ (stage \in {"deepening", "correcting"} /\ stage' \in {"extracting", "correcting", "done"})
               \/ stage' = "validated"
      PROVE  ReasonerInv'
  <2>1. /\ IsList(facts') /\ quiet' \in BOOLEAN /\ Follow(Reasoner!Pairs(facts'), given')
        /\ Reasoner!Pairs(facts') = Reasoner!Pairs(facts)
    BY <1>3
  <2> QED BY <1>3, <2>1
<1>4. CASE Reasoner!Deepen \/ Reasoner!Correct
  BY <1>3, <1>4 DEF Reasoner!Deepen, Reasoner!Correct, Reasoner!Iterate
<1>5. CASE Reasoner!ValidateClaim
  BY <1>3, <1>5 DEF Reasoner!ValidateClaim
<1> QED BY <1>1, <1>2, <1>4, <1>5 DEF Reasoner!Next

LEMMA KnownIsClosure ==
  ASSUME ReasonerInv
  PROVE  Reasoner!DerivesWhatFollows
<1> DEFINE p == Reasoner!Pairs(facts)
           sets == {given \cup C : C \in SUBSET Conclusions}
           closed == {P \in sets : Closed(P)}
<1>1. Reasoner!Closure = {x \in given \cup Conclusions : \A P \in closed : x \in P}
  BY DEF Reasoner!Closure, Conclusions, Closed, Pair
<1>2. Follow(p, given) /\ (stage \in {"deepening", "correcting", "done"} /\ quiet => Closed(p))
  BY DEF ReasonerInv
<1> HIDE DEF p
<1>3. p \subseteq Reasoner!Closure
  BY <1>1, <1>2 DEF Follow
<1>4. ASSUME Closed(p) PROVE p = Reasoner!Closure
  <2>1. p \in sets
    <3>1. p = given \cup (p \cap Conclusions) /\ p \cap Conclusions \in SUBSET Conclusions
      BY <1>2 DEF Follow
    <3> QED BY <3>1
  <2>2. p \in closed
    BY <1>4, <2>1
  <2> QED BY <1>1, <1>3, <2>2
<1> QED BY <1>2, <1>3, <1>4 DEF Reasoner!DerivesWhatFollows, ReasonerInv, p

\* Forward chaining knows what follows from what it was given, and nothing else, and
\* all of it unless the rounds ran out: for any rules in any order, any facts, and any
\* number of rounds and iterations.
THEOREM ChainingDerivesWhatFollows == StoresSpec => []DerivesWhatFollows
<1> DEFINE Inv == store = "rules" => ReasonerInv
<1>1. StoresInit => Inv
  <2>1. Reasoner!Init => ReasonerInv
    <3>1. /\ Reasoner!ToSet(<<>>) = {} /\ Reasoner!Pairs(<<>>) = {} /\ <<>> \in Seq({})
      BY DEF Reasoner!ToSet, Reasoner!Pairs
    <3> QED BY <3>1 DEF Reasoner!Init, ReasonerInv, IsList, Follow
  <2> QED BY <2>1 DEF StoresInit
<1>2. Inv /\ [StoresNext]_storeVars => Inv'
  <2> SUFFICES ASSUME Inv, [StoresNext]_storeVars, store' = "rules" PROVE ReasonerInv'
    OBVIOUS
  <2>1. CASE StoresNext
    <3>1. store = "rules" /\ Reasoner!Next
      BY <2>1 DEF StoresNext, OthersRest, ResultsStep, PosteriorsStep, MemoryStep, OracleStep, WorldStep,
         RagStep, ExperienceStep, DataStep, CausalStep, RulesStep, ReportsStep, FeedbackStep,
         ConvergenceStep, LogsStep, RouterStep
    <3> QED BY <3>1, ReasonerKeeps
  <2>2. CASE UNCHANGED storeVars
    <3>1. store = "rules" /\ UNCHANGED <<stage, facts, given, quiet>>
      BY <2>2 DEF storeVars, reasonVars
    <3> QED BY <3>1 DEF ReasonerInv
  <2> QED BY <2>1, <2>2
<1>3. Inv => DerivesWhatFollows
  BY KnownIsClosure DEF DerivesWhatFollows
<1> QED BY <1>1, <1>2, <1>3, PTL DEF StoresSpec
===============================================================================
