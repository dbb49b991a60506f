-------------------------- MODULE StateStreamProofs --------------------------
(***************************************************************************)
(* What holds of a client's copy of the daemon's state for any resources,    *)
(* operations, caps and failures: the types, that no change is lost to a     *)
(* client that trusts its copy, and that no copy goes back.                  *)
(***************************************************************************)
EXTENDS StateStream, SequenceTheorems, WellFoundedInduction, TLAPS

-----------------------------------------------------------------------------
(* Sequences. *)

LEMMA Least ==
    ASSUME NEW S, S \subseteq Nat, S # {}
    PROVE  \E i \in S : \A j \in S : i <= j
<1>1. PICK i \in S : \A j \in S : <<j, i>> \notin OpToRel(<, Nat)
  BY NatLessThanWellFounded, WFMin
<1>2. \A j \in S : ~ (j < i)
  BY <1>1 DEF OpToRel
<1> QED
  BY <1>2

(* What a sequence has at its start and takes one step at a time it has at   *)
(* its end: the induction the folds of StateStream need.                     *)
LEMMA UpTo ==
    ASSUME NEW n \in Nat, NEW S, 0 \in S, \A i \in 1..n : i - 1 \in S => i \in S
    PROVE  \A i \in 0..n : i \in S
<1> DEFINE T == {i \in 0..n : i \notin S}
<1> SUFFICES ASSUME T # {} PROVE FALSE
  OBVIOUS
<1>1. T \subseteq Nat
  OBVIOUS
<1>2. PICK i \in T : \A j \in T : i <= j
  <2> HIDE DEF T
  <2> QED
    BY <1>1, Least
<1>3. i # 0 /\ i - 1 \in 0..n /\ ~(i <= i - 1)
  BY <1>2
<1> QED
  BY <1>2, <1>3

(* A state taken forward by steps G: what a fold goes through.               *)
Steps(n, X) == [1..n -> [X -> X]]
FoldOf(n, X, a, G) == \E f \in [0..n -> X] : f[0] = a /\ \A i \in 1..n : f[i] = G[i][f[i - 1]]

LEMMA Fold ==
    ASSUME NEW n \in Nat, NEW X, NEW a \in X, NEW G \in Steps(n, X)
    PROVE  FoldOf(n, X, a, G)
<1> USE DEF Steps, FoldOf
<1> DEFINE T == {k \in 0..n : \E f \in [0..k -> X] :
                    f[0] = a /\ \A i \in 1..k : f[i] = G[i][f[i - 1]]}
<1>1. 0 \in T
  <2> DEFINE f == [i \in 0..0 |-> a]
  <2>1. f \in [0..0 -> X] /\ f[0] = a /\ \A i \in 1..0 : f[i] = G[i][f[i - 1]]
    OBVIOUS
  <2> HIDE DEF f
  <2>2. \E h \in [0..0 -> X] : h[0] = a /\ \A i \in 1..0 : h[i] = G[i][h[i - 1]]
    BY <2>1
  <2>3. 0 \in 0..n
    OBVIOUS
  <2> QED
    BY <2>2, <2>3
<1>2. ASSUME NEW k \in 1..n, k - 1 \in T PROVE k \in T
  <2>1. PICK f \in [0..(k - 1) -> X] : f[0] = a /\ \A i \in 1..(k - 1) : f[i] = G[i][f[i - 1]]
    BY <1>2
  <2> DEFINE g == [i \in 0..k |-> IF i < k THEN f[i] ELSE G[k][f[k - 1]]]
  <2>2. f[k - 1] \in X /\ G[k] \in [X -> X]
    BY <2>1
  <2>3. g \in [0..k -> X] /\ g[0] = a
    BY <2>1, <2>2
  <2>4. ASSUME NEW i \in 1..k PROVE g[i] = G[i][g[i - 1]]
    <3>1. g[i - 1] = f[i - 1]
      OBVIOUS
    <3>2. CASE i = k
      BY <3>1, <3>2
    <3>3. CASE i # k
      <4>1. i \in 1..(k - 1) /\ g[i] = f[i]
        BY <3>3
      <4> QED
        BY <2>1, <3>1, <4>1
    <3> QED
      BY <3>2, <3>3
  <2> HIDE DEF g
  <2>5. \E h \in [0..k -> X] : h[0] = a /\ \A i \in 1..k : h[i] = G[i][h[i - 1]]
    BY <2>3, <2>4
  <2>6. k \in 0..n
    OBVIOUS
  <2> QED
    BY <2>5, <2>6
<1>3. n \in T
  <2>1. n \in 0..n
    OBVIOUS
  <2> HIDE DEF T
  <2> QED
    BY <1>1, <1>2, <2>1, UpTo
<1> QED
  BY <1>3

LEMMA Ranges ==
    /\ \A x : ToSet(<<>>) = {}
    /\ \A S : \A s \in Seq(S) : ToSet(s) \subseteq S
  BY DEF ToSet

LEMMA RangeOfAppend ==
    ASSUME NEW S, NEW s \in Seq(S), NEW e \in S
    PROVE  ToSet(Append(s, e)) = ToSet(s) \cup {e}
<1>1. DOMAIN Append(s, e) = 1..(Len(s) + 1)
  BY AppendProperties
<1>2. \A i \in 1..Len(s) : Append(s, e)[i] = s[i]
  BY AppendProperties
<1>3. Append(s, e)[Len(s) + 1] = e
  BY AppendProperties
<1>4. DOMAIN s = 1..Len(s) /\ Len(s) \in Nat
  OBVIOUS
<1> QED
  BY <1>1, <1>2, <1>3, <1>4 DEF ToSet

LEMMA RangeOfConcat ==
    ASSUME NEW S, NEW s \in Seq(S), NEW t \in Seq(S)
    PROVE  ToSet(s \o t) = ToSet(s) \cup ToSet(t)
<1>1. /\ DOMAIN (s \o t) = 1..(Len(s) + Len(t))
      /\ \A i \in 1..Len(s) : (s \o t)[i] = s[i]
      /\ \A i \in (Len(s) + 1)..(Len(s) + Len(t)) : (s \o t)[i] = t[i - Len(s)]
  BY ConcatProperties
<1>2. \A i \in 1..Len(t) : (s \o t)[i + Len(s)] = t[i]
  BY <1>1
<1>3. DOMAIN s = 1..Len(s) /\ Len(s) \in Nat /\ DOMAIN t = 1..Len(t) /\ Len(t) \in Nat
  OBVIOUS
<1>4. ToSet(s \o t) \subseteq ToSet(s) \cup ToSet(t)
  <2> SUFFICES ASSUME NEW i \in 1..(Len(s) + Len(t))
               PROVE  (s \o t)[i] \in ToSet(s) \cup ToSet(t)
    BY <1>1 DEF ToSet
  <2>1. CASE i <= Len(s)
    BY <1>1, <1>3, <2>1 DEF ToSet
  <2>2. CASE i > Len(s)
    BY <1>1, <1>3, <2>2 DEF ToSet
  <2> QED
    BY <1>3, <2>1, <2>2
<1>5. ToSet(s) \subseteq ToSet(s \o t)
  BY <1>1, <1>3 DEF ToSet
<1>6. ToSet(t) \subseteq ToSet(s \o t)
  <2> SUFFICES ASSUME NEW i \in 1..Len(t) PROVE t[i] \in ToSet(s \o t)
    BY <1>3 DEF ToSet
  <2>1. i + Len(s) \in 1..(Len(s) + Len(t))
    BY <1>3
  <2> QED
    BY <1>1, <1>2, <2>1 DEF ToSet
<1> QED
  BY <1>4, <1>5, <1>6

LEMMA RangeOfTail ==
    ASSUME NEW S, NEW s \in Seq(S), s # <<>>
    PROVE  /\ Tail(s) \in Seq(S) /\ Head(s) \in S
           /\ ToSet(s) = ToSet(Tail(s)) \cup {Head(s)}
<1>1. /\ DOMAIN s = 1..Len(s) /\ Len(s) \in Nat \ {0} /\ Head(s) = s[1]
      /\ DOMAIN Tail(s) = 1..(Len(s) - 1)
      /\ \A i \in 1..(Len(s) - 1) : Tail(s)[i] = s[i + 1]
  BY HeadTailProperties, EmptySeq
<1>2. \A i \in 2..Len(s) : s[i] = Tail(s)[i - 1]
  BY <1>1
<1>3. ToSet(s) \subseteq ToSet(Tail(s)) \cup {Head(s)}
  <2> SUFFICES ASSUME NEW i \in 1..Len(s) PROVE s[i] \in ToSet(Tail(s)) \cup {Head(s)}
    BY <1>1 DEF ToSet
  <2>1. CASE i = 1
    BY <1>1, <2>1
  <2>2. CASE i # 1
    <3>1. i - 1 \in DOMAIN Tail(s) /\ s[i] = Tail(s)[i - 1]
      BY <1>1, <1>2, <2>2
    <3> QED
      BY <3>1 DEF ToSet
  <2> QED
    BY <2>1, <2>2
<1>4. ToSet(Tail(s)) \cup {Head(s)} \subseteq ToSet(s)
  BY <1>1 DEF ToSet
<1> QED
  BY <1>3, <1>4, HeadTailProperties

(* Among keeps the elements of S, in their order.                            *)
Kept(s, S) ==
    CHOOSE f : f = [i \in 0..Len(s) |->
                      IF i = 0 THEN <<>>
                      ELSE IF s[i] \in S THEN Append(f[i - 1], s[i]) ELSE f[i - 1]]

LEMMA KeptExists ==
    ASSUME NEW T, NEW s \in Seq(T), NEW S
    PROVE  /\ Kept(s, S) = [i \in 0..Len(s) |->
                      IF i = 0 THEN <<>>
                      ELSE IF s[i] \in S THEN Append(Kept(s, S)[i - 1], s[i]) ELSE Kept(s, S)[i - 1]]
           /\ Among(s, S) = Kept(s, S)[Len(s)]
<1> DEFINE G == [i \in 1..Len(s) |-> [x \in Seq(T) |-> IF s[i] \in S THEN Append(x, s[i]) ELSE x]]
<1>1. Len(s) \in Nat /\ <<>> \in Seq(T) /\ \A i \in 1..Len(s) : s[i] \in T
  OBVIOUS
<1>2. G \in [1..Len(s) -> [Seq(T) -> Seq(T)]]
  BY <1>1
<1>3. PICK f \in [0..Len(s) -> Seq(T)] :
          f[0] = <<>> /\ \A i \in 1..Len(s) : f[i] = G[i][f[i - 1]]
  <2>1. G \in Steps(Len(s), Seq(T))
    BY <1>2 DEF Steps
  <2> HIDE DEF G
  <2>2. FoldOf(Len(s), Seq(T), <<>>, G)
    BY <1>1, <2>1, Fold
  <2> QED
    BY <2>2 DEF FoldOf
<1>4. ASSUME NEW i \in 1..Len(s)
      PROVE  f[i] = IF s[i] \in S THEN Append(f[i - 1], s[i]) ELSE f[i - 1]
  <2>1. f[i - 1] \in Seq(T) /\ f[i] = G[i][f[i - 1]]
    <3>1. i - 1 \in 0..Len(s)
      BY <1>1
    <3> QED
      BY <1>3, <3>1
  <2>2. G[i] = [x \in Seq(T) |-> IF s[i] \in S THEN Append(x, s[i]) ELSE x]
    OBVIOUS
  <2> QED
    BY <2>1, <2>2
<1> HIDE DEF G
<1>5. f = [i \in 0..Len(s) |-> IF i = 0 THEN <<>>
                      ELSE IF s[i] \in S THEN Append(f[i - 1], s[i]) ELSE f[i - 1]]
  <2> DEFINE g == [i \in 0..Len(s) |-> IF i = 0 THEN <<>>
                      ELSE IF s[i] \in S THEN Append(f[i - 1], s[i]) ELSE f[i - 1]]
  <2>1. f = [i \in 0..Len(s) |-> f[i]]
    OBVIOUS
  <2>2. ASSUME NEW i \in 0..Len(s) PROVE f[i] = g[i]
    <3>1. CASE i = 0
      BY <1>3, <3>1
    <3>2. CASE i # 0
      <4>1. i \in 1..Len(s)
        BY <1>1, <3>2
      <4> QED
        BY <1>4, <3>2, <4>1
    <3> QED
      BY <3>1, <3>2
  <2> QED
    BY <2>1, <2>2
<1>6. Kept(s, S) = [i \in 0..Len(s) |->
                      IF i = 0 THEN <<>>
                      ELSE IF s[i] \in S THEN Append(Kept(s, S)[i - 1], s[i]) ELSE Kept(s, S)[i - 1]]
  BY <1>5 DEF Kept
<1>7. Among(s, S) = Kept(s, S)[Len(s)]
  BY DEF Among, Kept
<1> QED
  BY <1>6, <1>7

LEMMA KeptGoes ==
    ASSUME NEW T, NEW s \in Seq(T), NEW S
    PROVE  /\ Kept(s, S)[0] = <<>> /\ Among(s, S) = Kept(s, S)[Len(s)]
           /\ \A i \in 1..Len(s) :
                 Kept(s, S)[i] = IF s[i] \in S THEN Append(Kept(s, S)[i - 1], s[i])
                                 ELSE Kept(s, S)[i - 1]
<1> DEFINE f == Kept(s, S)
<1>1. f = [i \in 0..Len(s) |-> IF i = 0 THEN <<>>
                      ELSE IF s[i] \in S THEN Append(f[i - 1], s[i]) ELSE f[i - 1]]
  BY KeptExists
<1>2. Among(s, S) = f[Len(s)]
  BY KeptExists
<1> HIDE DEF f
<1>3. 0 \in 0..Len(s) /\ \A i \in 1..Len(s) : i \in 0..Len(s) /\ i # 0
  OBVIOUS
<1>4. /\ f[0] = <<>>
      /\ \A i \in 1..Len(s) : f[i] = IF s[i] \in S THEN Append(f[i - 1], s[i]) ELSE f[i - 1]
  BY <1>1, <1>3
<1> QED
  BY <1>2, <1>4 DEF f

LEMMA AmongIn ==
    ASSUME NEW T, NEW s \in Seq(T), NEW S
    PROVE  /\ Among(s, S) \in Seq(T)
           /\ ToSet(Among(s, S)) = ToSet(s) \cap S
<1> DEFINE f == Kept(s, S)
           First(i) == {s[j] : j \in 1..i}
           N == {i \in 0..Len(s) : f[i] \in Seq(T) /\ ToSet(f[i]) = First(i) \cap S}
<1>1. Len(s) \in Nat /\ DOMAIN s = 1..Len(s)
  OBVIOUS
<1>2. /\ f[0] = <<>> /\ Among(s, S) = f[Len(s)]
      /\ \A i \in 1..Len(s) : f[i] = IF s[i] \in S THEN Append(f[i - 1], s[i]) ELSE f[i - 1]
  BY KeptGoes
<1> HIDE DEF f
<1>3. 0 \in N
  <2>1. First(0) = {} /\ ToSet(f[0]) = {} /\ f[0] \in Seq(T)
    BY <1>2, Ranges
  <2>2. 0 \in 0..Len(s)
    BY <1>1
  <2> QED
    BY <2>1, <2>2
<1>4. ASSUME NEW i \in 1..Len(s), i - 1 \in N PROVE i \in N
  <2>1. First(i) = First(i - 1) \cup {s[i]}
    OBVIOUS
  <2>2. s[i] \in T /\ i \in 0..Len(s) /\ f[i - 1] \in Seq(T)
    BY <1>4
  <2>3. ToSet(Append(f[i - 1], s[i])) = ToSet(f[i - 1]) \cup {s[i]} /\ Append(f[i - 1], s[i]) \in Seq(T)
    BY <2>2, RangeOfAppend
  <2>4. ToSet(f[i - 1]) = First(i - 1) \cap S
    BY <1>4
  <2>5. f[i] \in Seq(T) /\ ToSet(f[i]) = First(i) \cap S
    <3>1. CASE s[i] \in S
      BY <1>2, <2>1, <2>3, <2>4, <3>1
    <3>2. CASE s[i] \notin S
      BY <1>2, <2>1, <2>2, <2>4, <3>2
    <3> QED
      BY <3>1, <3>2
  <2> QED
    BY <2>2, <2>5
<1>5. Len(s) \in N
  <2>1. Len(s) \in 0..Len(s)
    BY <1>1
  <2> HIDE DEF N
  <2> QED
    BY <1>1, <1>3, <1>4, <2>1, UpTo
<1>6. First(Len(s)) = ToSet(s)
  BY <1>1 DEF ToSet
<1> QED
  BY <1>2, <1>5, <1>6

(* Order.  What a sequence of events and notices keeps is that two events of *)
(* one daemon come in the order of their revisions.                          *)
IsChange(x) == x.kind \in {"replace", "remove", "invalidate"}
IsEvent(x) == IsChange(x) \/ x.kind = "finished"

Lower(x, y) == IsEvent(x) /\ IsEvent(y) /\ x.inst = y.inst => x.rev < y.rev
Ordered(s) == \A i, j \in DOMAIN s : i < j => Lower(s[i], s[j])
Before(S, T) == \A x \in S, y \in T : Lower(x, y)

LEMMA OrderedEmpty == Ordered(<<>>)
  BY DEF Ordered

LEMMA OrderedAppend ==
    ASSUME NEW S, NEW s \in Seq(S), NEW e \in S, Ordered(s), Before(ToSet(s), {e})
    PROVE  Ordered(Append(s, e))
<1>1. /\ DOMAIN Append(s, e) = 1..(Len(s) + 1) /\ Append(s, e)[Len(s) + 1] = e
      /\ \A i \in 1..Len(s) : Append(s, e)[i] = s[i]
  BY AppendProperties
<1>2. DOMAIN s = 1..Len(s) /\ Len(s) \in Nat
  OBVIOUS
<1>3. ASSUME NEW i \in 1..(Len(s) + 1), NEW j \in 1..(Len(s) + 1), i < j
      PROVE  Lower(Append(s, e)[i], Append(s, e)[j])
  <2>1. i \in 1..Len(s) /\ Append(s, e)[i] = s[i] /\ s[i] \in ToSet(s)
    BY <1>1, <1>2, <1>3 DEF ToSet
  <2>2. CASE j = Len(s) + 1
    BY <1>1, <2>1, <2>2 DEF Before
  <2>3. CASE j # Len(s) + 1
    <3>1. j \in 1..Len(s) /\ Append(s, e)[j] = s[j]
      BY <1>1, <1>2, <2>3
    <3> QED
      BY <1>2, <1>3, <2>1, <3>1 DEF Ordered
  <2> QED
    BY <2>2, <2>3
<1> QED
  BY <1>1, <1>3 DEF Ordered

LEMMA OrderedTail ==
    ASSUME NEW S, NEW s \in Seq(S), s # <<>>, Ordered(s)
    PROVE  Ordered(Tail(s)) /\ Before({Head(s)}, ToSet(Tail(s)))
<1>1. /\ DOMAIN s = 1..Len(s) /\ Len(s) \in Nat \ {0} /\ Head(s) = s[1]
      /\ DOMAIN Tail(s) = 1..(Len(s) - 1)
      /\ \A i \in 1..(Len(s) - 1) : Tail(s)[i] = s[i + 1]
  BY HeadTailProperties, EmptySeq
<1>2. \A i, j \in 1..(Len(s) - 1) : i < j =>
          i + 1 \in DOMAIN s /\ j + 1 \in DOMAIN s /\ i + 1 < j + 1
  BY <1>1
<1>3. \A j \in 1..(Len(s) - 1) : 1 \in DOMAIN s /\ j + 1 \in DOMAIN s /\ 1 < j + 1
  BY <1>1
<1>4. Ordered(Tail(s))
  BY <1>1, <1>2 DEF Ordered
<1>5. Before({Head(s)}, ToSet(Tail(s)))
  BY <1>1, <1>3 DEF Ordered, Before, ToSet
<1> QED
  BY <1>4, <1>5

LEMMA OrderedConcat ==
    ASSUME NEW S, NEW s \in Seq(S), NEW t \in Seq(S), Ordered(s), Ordered(t),
           Before(ToSet(s), ToSet(t))
    PROVE  Ordered(s \o t)
<1>1. /\ DOMAIN (s \o t) = 1..(Len(s) + Len(t))
      /\ \A i \in 1..Len(s) : (s \o t)[i] = s[i]
      /\ \A i \in (Len(s) + 1)..(Len(s) + Len(t)) : (s \o t)[i] = t[i - Len(s)]
  BY ConcatProperties
<1>2. DOMAIN s = 1..Len(s) /\ Len(s) \in Nat /\ DOMAIN t = 1..Len(t) /\ Len(t) \in Nat
  OBVIOUS
<1>3. ASSUME NEW i \in 1..(Len(s) + Len(t)), NEW j \in 1..(Len(s) + Len(t)), i < j
      PROVE  Lower((s \o t)[i], (s \o t)[j])
  <2>1. CASE j <= Len(s)
    <3>1. i \in DOMAIN s /\ j \in DOMAIN s
      BY <1>2, <1>3, <2>1
    <3> QED
      BY <1>1, <1>2, <1>3, <3>1 DEF Ordered
  <2>2. CASE i > Len(s)
    <3>1. i - Len(s) \in DOMAIN t /\ j - Len(s) \in DOMAIN t /\ i - Len(s) < j - Len(s)
      BY <1>2, <1>3, <2>2
    <3>2. (s \o t)[i] = t[i - Len(s)] /\ (s \o t)[j] = t[j - Len(s)]
      BY <1>1, <1>2, <1>3, <2>2
    <3> QED
      BY <3>1, <3>2 DEF Ordered
  <2>3. CASE i <= Len(s) /\ j > Len(s)
    <3>1. i \in DOMAIN s /\ j - Len(s) \in DOMAIN t
      BY <1>2, <1>3, <2>3
    <3>2. (s \o t)[i] = s[i] /\ (s \o t)[j] = t[j - Len(s)]
      BY <1>1, <1>2, <1>3, <2>3
    <3> QED
      BY <3>1, <3>2 DEF Before, ToSet
  <2> QED
    BY <1>2, <2>1, <2>2, <2>3
<1> QED
  BY <1>1, <1>3 DEF Ordered

LEMMA AmongOrdered ==
    ASSUME NEW T, NEW s \in Seq(T), NEW S, Ordered(s)
    PROVE  Ordered(Among(s, S))
<1> DEFINE f == Kept(s, S)
           First(i) == {s[j] : j \in 1..i}
           N == {i \in 0..Len(s) : f[i] \in Seq(T) /\ ToSet(f[i]) \subseteq First(i) /\ Ordered(f[i])}
<1>1. Len(s) \in Nat /\ DOMAIN s = 1..Len(s)
  OBVIOUS
<1>2. /\ f[0] = <<>> /\ Among(s, S) = f[Len(s)]
      /\ \A i \in 1..Len(s) : f[i] = IF s[i] \in S THEN Append(f[i - 1], s[i]) ELSE f[i - 1]
  BY KeptGoes
<1> HIDE DEF f
<1>3. 0 \in N
  <2>1. ToSet(f[0]) = {} /\ f[0] \in Seq(T) /\ Ordered(f[0])
    BY <1>2, Ranges, OrderedEmpty
  <2>2. 0 \in 0..Len(s)
    BY <1>1
  <2> QED
    BY <2>1, <2>2
<1>4. ASSUME NEW i \in 1..Len(s), i - 1 \in N PROVE i \in N
  <2>1. First(i) = First(i - 1) \cup {s[i]}
    OBVIOUS
  <2>2. /\ s[i] \in T /\ i \in 0..Len(s) /\ f[i - 1] \in Seq(T)
        /\ ToSet(f[i - 1]) \subseteq First(i - 1) /\ Ordered(f[i - 1])
    BY <1>4
  <2>3. ToSet(Append(f[i - 1], s[i])) = ToSet(f[i - 1]) \cup {s[i]} /\ Append(f[i - 1], s[i]) \in Seq(T)
    BY <2>2, RangeOfAppend
  <2>4. Before(ToSet(f[i - 1]), {s[i]})
    <3>1. Before(First(i - 1), {s[i]})
      BY <1>1 DEF Ordered, Before
    <3> QED
      BY <2>2, <3>1 DEF Before
  <2>5. Ordered(Append(f[i - 1], s[i]))
    BY <2>2, <2>4, OrderedAppend
  <2>6. f[i] \in Seq(T) /\ ToSet(f[i]) \subseteq First(i) /\ Ordered(f[i])
    <3>1. CASE s[i] \in S
      BY <1>2, <2>1, <2>2, <2>3, <2>5, <3>1
    <3>2. CASE s[i] \notin S
      BY <1>2, <2>1, <2>2, <3>2
    <3> QED
      BY <3>1, <3>2
  <2> QED
    BY <2>2, <2>6
<1>5. Len(s) \in N
  <2>1. Len(s) \in 0..Len(s)
    BY <1>1
  <2> HIDE DEF N
  <2> QED
    BY <1>1, <1>3, <1>4, <2>1, UpTo
<1> QED
  BY <1>2, <1>5

LEMMA RangeIn ==
    ASSUME NEW S, NEW s \in Seq(S), NEW T, ToSet(s) \subseteq T
    PROVE  s \in Seq(T)
  BY DEF ToSet

(* Merged has the events of both queues, in the order of their revisions.    *)
MergedUpTo(c) ==
    CHOOSE f : f = [i \in 0..Len(c.life) |->
                      IF i = 0 THEN c.domain ELSE Inserted(f[i - 1], c.life[i])]

LEMMA InsertedIn ==
    ASSUME NEW T, NEW s \in Seq(T), NEW e \in T
    PROVE  /\ Inserted(s, e) \in Seq(T)
           /\ ToSet(Inserted(s, e)) = {x \in ToSet(s) : x.rev <= e.rev \/ x.rev > e.rev} \cup {e}
<1> DEFINE a == Among(s, {x \in ToSet(s) : x.rev <= e.rev})
           b == Among(s, {x \in ToSet(s) : x.rev > e.rev})
<1>1. a \in Seq(T) /\ ToSet(a) = ToSet(s) \cap {x \in ToSet(s) : x.rev <= e.rev}
  BY AmongIn
<1>2. b \in Seq(T) /\ ToSet(b) = ToSet(s) \cap {x \in ToSet(s) : x.rev > e.rev}
  BY AmongIn
<1>3. Inserted(s, e) = Append(a, e) \o b
  BY DEF Inserted
<1> HIDE DEF a, b
<1>4. Append(a, e) \in Seq(T) /\ ToSet(Append(a, e)) = ToSet(a) \cup {e}
  BY <1>1, RangeOfAppend
<1>5. Append(a, e) \o b \in Seq(T) /\ ToSet(Append(a, e) \o b) = ToSet(Append(a, e)) \cup ToSet(b)
  <2>1. ToSet(Append(a, e) \o b) = ToSet(Append(a, e)) \cup ToSet(b)
    <3>1. \A u, v \in Seq(T) : ToSet(u \o v) = ToSet(u) \cup ToSet(v)
      BY RangeOfConcat
    <3> QED
      BY <1>2, <1>4, <3>1
  <2>2. Append(a, e) \o b \in Seq(T)
    BY <1>2, <1>4, ConcatProperties
  <2> QED
    BY <2>1, <2>2
<1> QED
  BY <1>1, <1>2, <1>3, <1>4, <1>5

LEMMA InsertedOrdered ==
    ASSUME NEW T, NEW s \in Seq(T), NEW e \in T, Ordered(s),
           \A x \in T : x.rev \in Nat, \A x \in ToSet(s) : x.rev # e.rev
    PROVE  Ordered(Inserted(s, e))
<1> DEFINE a == Among(s, {x \in ToSet(s) : x.rev <= e.rev})
           b == Among(s, {x \in ToSet(s) : x.rev > e.rev})
<1>1. a \in Seq(T) /\ Ordered(a) /\ ToSet(a) = ToSet(s) \cap {x \in ToSet(s) : x.rev <= e.rev}
  BY AmongIn, AmongOrdered
<1>2. b \in Seq(T) /\ Ordered(b) /\ ToSet(b) = ToSet(s) \cap {x \in ToSet(s) : x.rev > e.rev}
  BY AmongIn, AmongOrdered
<1>3. Inserted(s, e) = Append(a, e) \o b
  BY DEF Inserted
<1> HIDE DEF a, b
<1>4. Append(a, e) \in Seq(T) /\ ToSet(Append(a, e)) = ToSet(a) \cup {e}
  BY <1>1, RangeOfAppend
<1>5. Ordered(Append(a, e))
  <2>1. ASSUME NEW x \in ToSet(a) PROVE x.rev < e.rev
    <3>1. x \in T /\ x.rev <= e.rev /\ x.rev # e.rev
      BY <1>1, Ranges
    <3>2. x.rev \in Nat /\ e.rev \in Nat
      BY <3>1
    <3> QED
      BY <3>1, <3>2
  <2>2. Before(ToSet(a), {e})
    BY <2>1 DEF Before, Lower
  <2> QED
    BY <1>1, <2>2, OrderedAppend
<1>6. Before(ToSet(Append(a, e)), ToSet(b))
  <2> SUFFICES ASSUME NEW x \in ToSet(a) \cup {e}, NEW y \in ToSet(b) PROVE x.rev < y.rev
    BY <1>4 DEF Before, Lower
  <2>1. y.rev > e.rev /\ (x = e \/ x.rev <= e.rev)
    BY <1>1, <1>2
  <2>2. x.rev \in Nat /\ y.rev \in Nat /\ e.rev \in Nat
    <3>1. x \in T /\ y \in T
      BY <1>1, <1>2, Ranges
    <3> QED
      BY <3>1
  <2> QED
    BY <2>1, <2>2
<1>7. Ordered(b) /\ b \in Seq(T)
  BY <1>2
<1>8. Ordered(Append(a, e) \o b)
  BY <1>4, <1>5, <1>6, <1>7, OrderedConcat
<1> QED
  BY <1>3, <1>8

LEMMA MergedGoes ==
    ASSUME NEW T, NEW c, c.domain \in Seq(T), c.life \in Seq(T)
    PROVE  /\ MergedUpTo(c)[0] = c.domain /\ Merged(c) = MergedUpTo(c)[Len(c.life)]
           /\ \A i \in 1..Len(c.life) :
                 MergedUpTo(c)[i] = Inserted(MergedUpTo(c)[i - 1], c.life[i])
<1> DEFINE n == Len(c.life)
           G == [i \in 1..n |-> [x \in Seq(T) |-> Inserted(x, c.life[i])]]
<1>1. n \in Nat /\ \A i \in 1..n : c.life[i] \in T
  OBVIOUS
<1>2. G \in Steps(n, Seq(T))
  <2>1. \A i \in 1..n : \A x \in Seq(T) : Inserted(x, c.life[i]) \in Seq(T)
    BY <1>1, InsertedIn
  <2> QED
    BY <2>1 DEF Steps
<1>3. PICK f \in [0..n -> Seq(T)] : f[0] = c.domain /\ \A i \in 1..n : f[i] = G[i][f[i - 1]]
  <2> HIDE DEF n, G
  <2>1. FoldOf(n, Seq(T), c.domain, G)
    BY <1>1, <1>2, Fold
  <2> QED
    BY <2>1 DEF FoldOf
<1>4. ASSUME NEW i \in 1..n PROVE f[i] = Inserted(f[i - 1], c.life[i])
  <2>1. f[i] = G[i][f[i - 1]]
    <3> HIDE DEF n, G
    <3> QED
      BY <1>3
  <2>2. f[i - 1] \in Seq(T)
    <3>1. i - 1 \in 0..n
      BY <1>1
    <3> HIDE DEF n, G
    <3> QED
      BY <1>3, <3>1
  <2>3. G[i] = [x \in Seq(T) |-> Inserted(x, c.life[i])]
    OBVIOUS
  <2> HIDE DEF G
  <2> QED
    BY <2>1, <2>2, <2>3
<1> HIDE DEF G
<1>5. f = [i \in 0..n |-> IF i = 0 THEN c.domain ELSE Inserted(f[i - 1], c.life[i])]
  <2>1. f = [i \in 0..n |-> f[i]]
    OBVIOUS
  <2>2. ASSUME NEW i \in 0..n
        PROVE  f[i] = IF i = 0 THEN c.domain ELSE Inserted(f[i - 1], c.life[i])
    <3>1. CASE i = 0
      BY <1>3, <3>1
    <3>2. CASE i # 0
      <4>1. i \in 1..n
        BY <1>1, <3>2
      <4> QED
        BY <1>4, <3>2, <4>1
    <3> QED
      BY <3>1, <3>2
  <2> QED
    BY <2>1, <2>2
<1>6. MergedUpTo(c) =
        [i \in 0..n |-> IF i = 0 THEN c.domain ELSE Inserted(MergedUpTo(c)[i - 1], c.life[i])]
  BY <1>5 DEF MergedUpTo
<1>7. Merged(c) = MergedUpTo(c)[n]
  BY DEF Merged, MergedUpTo
<1>8. 0 \in 0..n /\ \A i \in 1..n : i \in 0..n /\ i # 0
  BY <1>1
<1>9. MergedUpTo(c)[0] = c.domain
  BY <1>6, <1>8
<1>10. \A i \in 1..n : MergedUpTo(c)[i] = Inserted(MergedUpTo(c)[i - 1], c.life[i])
  BY <1>6, <1>8
<1> QED
  BY <1>7, <1>9, <1>10

LEMMA MergedIn ==
    ASSUME NEW T, NEW c, c.domain \in Seq(T), c.life \in Seq(T)
    PROVE  Merged(c) \in Seq(T) /\ ToSet(Merged(c)) \subseteq ToSet(c.domain) \cup ToSet(c.life)
<1> DEFINE f == MergedUpTo(c)
           n == Len(c.life)
           U == ToSet(c.domain) \cup ToSet(c.life)
           N == {i \in 0..n : f[i] \in Seq(T) /\ ToSet(f[i]) \subseteq U}
<1>1. n \in Nat /\ \A i \in 1..n : c.life[i] \in T /\ c.life[i] \in U
  BY DEF ToSet
<1>2. /\ f[0] = c.domain /\ Merged(c) = f[n]
      /\ \A i \in 1..n : f[i] = Inserted(f[i - 1], c.life[i])
  BY MergedGoes
<1> HIDE DEF f, n
<1>3. 0 \in N
  BY <1>1, <1>2
<1>4. ASSUME NEW i \in 1..n, i - 1 \in N PROVE i \in N
  <2>1. /\ Inserted(f[i - 1], c.life[i]) \in Seq(T)
        /\ ToSet(Inserted(f[i - 1], c.life[i])) \subseteq ToSet(f[i - 1]) \cup {c.life[i]}
    BY <1>1, <1>4, InsertedIn
  <2>2. ToSet(f[i - 1]) \subseteq U /\ c.life[i] \in U /\ i \in 0..n
    BY <1>1, <1>4
  <2> QED
    BY <1>2, <2>1, <2>2
<1>5. n \in N
  <2>1. n \in 0..n
    BY <1>1
  <2> HIDE DEF N
  <2> QED
    BY <1>1, <1>3, <1>4, <2>1, UpTo
<1> QED
  BY <1>2, <1>5

(* A queue of one daemon's events, each with a revision of its own.          *)
Queue(T, k) == \A x \in T : IsEvent(x) /\ x.rev \in Nat /\ x.inst = k

LEMMA MergedOrdered ==
    ASSUME NEW T, NEW k, Queue(T, k), NEW c, c.domain \in Seq(T), c.life \in Seq(T),
           Ordered(c.domain), Ordered(c.life),
           \A x \in ToSet(c.domain), y \in ToSet(c.life) : x.rev # y.rev
    PROVE  Ordered(Merged(c)) /\ ToSet(Merged(c)) = ToSet(c.domain) \cup ToSet(c.life)
<1> DEFINE f == MergedUpTo(c)
           n == Len(c.life)
           First(i) == {c.life[j] : j \in 1..i}
           N == {i \in 0..n : /\ f[i] \in Seq(T) /\ Ordered(f[i])
                              /\ ToSet(f[i]) = ToSet(c.domain) \cup First(i)}
<1>1. n \in Nat /\ DOMAIN c.life = 1..n /\ \A i \in 1..n : c.life[i] \in T /\ c.life[i] \in ToSet(c.life)
  BY DEF ToSet
<1>2. /\ f[0] = c.domain /\ Merged(c) = f[n]
      /\ \A i \in 1..n : f[i] = Inserted(f[i - 1], c.life[i])
  BY MergedGoes
<1>3. \A i, j \in 1..n : i < j => c.life[i].rev < c.life[j].rev
  BY <1>1 DEF Ordered, Lower, Queue
<1> HIDE DEF f, n
<1>4. 0 \in N
  <2>1. First(0) = {}
    OBVIOUS
  <2> QED
    BY <1>1, <1>2, <2>1
<1>5. ASSUME NEW i \in 1..n, i - 1 \in N PROVE i \in N
  <2> DEFINE e == c.life[i]
  <2>1. First(i) = First(i - 1) \cup {e}
    BY <1>1
  <2>2. f[i - 1] \in Seq(T) /\ Ordered(f[i - 1]) /\ e \in T /\ i \in 0..n
    BY <1>1, <1>5
  <2>3. ToSet(f[i - 1]) = ToSet(c.domain) \cup First(i - 1)
    BY <1>5
  <2>4. ASSUME NEW x \in ToSet(f[i - 1]) PROVE x.rev # e.rev /\ (x.rev <= e.rev \/ x.rev > e.rev)
    <3>1. x \in T
      BY <2>2, Ranges
    <3>2. x.rev # e.rev
      <4>1. CASE x \in ToSet(c.domain)
        BY <1>1, <4>1
      <4>2. ASSUME NEW j \in 1..(i - 1), x = c.life[j] PROVE x.rev # e.rev
        <5>1. j \in 1..n /\ j < i
          BY <1>1
        <5>2. c.life[j].rev \in Nat /\ e.rev \in Nat /\ c.life[j].rev < e.rev
          BY <1>1, <1>3, <5>1 DEF Queue
        <5> QED
          BY <4>2, <5>2
      <4> QED
        BY <2>3, <4>1, <4>2
    <3>3. x.rev \in Nat /\ e.rev \in Nat
      BY <2>2, <3>1 DEF Queue
    <3> QED
      BY <3>2, <3>3
  <2>5. /\ Inserted(f[i - 1], e) \in Seq(T) /\ Ordered(Inserted(f[i - 1], e))
        /\ ToSet(Inserted(f[i - 1], e)) =
              {x \in ToSet(f[i - 1]) : x.rev <= e.rev \/ x.rev > e.rev} \cup {e}
    <3>1. \A x \in T : x.rev \in Nat
      BY DEF Queue
    <3> HIDE DEF e
    <3>2. \A x \in ToSet(f[i - 1]) : x.rev # e.rev
      BY <2>4
    <3>3. Ordered(Inserted(f[i - 1], e))
      BY <2>2, <3>1, <3>2, InsertedOrdered
    <3> QED
      BY <2>2, <3>3, InsertedIn
  <2>6. ToSet(Inserted(f[i - 1], e)) = ToSet(c.domain) \cup First(i)
    BY <2>1, <2>3, <2>4, <2>5
  <2> QED
    BY <1>2, <2>2, <2>5, <2>6
<1>6. n \in N
  <2>1. n \in 0..n
    BY <1>1
  <2> HIDE DEF N
  <2> QED
    BY <1>1, <1>4, <1>5, <2>1, UpTo
<1>7. First(n) = ToSet(c.life)
  BY <1>1 DEF ToSet
<1> QED
  BY <1>2, <1>6, <1>7


(* What the queue keeps of what it is offered.                               *)
Events == Change \cup Finish
Queued == Change \cup Finish \cup {Resync}
SameRest(q, p) ==
    /\ p.attached = q.attached /\ p.serving = q.serving /\ p.snap = q.snap
    /\ p.domain = q.domain /\ p.life = q.life /\ p.replies = q.replies /\ p.wire = q.wire
Took(q, p, S) ==
    /\ p \in Connection /\ SameRest(q, p)
    /\ ToSet(p.out) \subseteq ToSet(q.out) \cup S \cup {Resync}
    /\ q.poisoned => p.poisoned
    /\ p.poisoned => q.poisoned \/ Resync \in ToSet(p.out)
    /\ Resync \in ToSet(q.out) => Resync \in ToSet(p.out)

(* A later change of the same resource is there, unless a resync is.         *)
Later(x, S) == \E y \in S : IsChange(y) /\ y.of = x.of /\ (y = x \/ y.rev > x.rev)
InStead(S, T) == \A x \in S : IsChange(x) => Later(x, T)

LEMMA ConnectionFields ==
    ASSUME NEW q \in Connection
    PROVE  /\ q.attached \in BOOLEAN /\ q.serving \in {"loop", "registered", "captured"}
           /\ q.snap \in Snapshot \cup {None}
           /\ q.domain \in Seq(Change) /\ q.life \in Seq(Finish) /\ q.out \in Seq(Queued)
           /\ q.poisoned \in BOOLEAN /\ q.replies \in Seq(Answers)
           /\ q.wire \in Seq(Queued \cup Answers)
  BY DEF Connection, Queued

LEMMA NewOut ==
    ASSUME NEW q \in Connection, NEW o \in Seq(Queued), NEW b \in BOOLEAN
    PROVE  LET p == [q EXCEPT !.poisoned = b, !.out = o]
           IN p \in Connection /\ SameRest(q, p) /\ p.out = o /\ p.poisoned = b
  BY DEF Connection, Queued, SameRest

LEMMA NewOutOnly ==
    ASSUME NEW q \in Connection, NEW o \in Seq(Queued)
    PROVE  LET p == [q EXCEPT !.out = o]
           IN p \in Connection /\ SameRest(q, p) /\ p.out = o /\ p.poisoned = q.poisoned
  BY DEF Connection, Queued, SameRest

LEMMA NoticeIsNoEvent ==
    /\ Resync \in Queued /\ Resync \notin Events /\ ~IsEvent(Resync) /\ Resync.kind = "resync"
    /\ \A e : ~SameKey(Resync, e) \/ e.kind \notin {"replace", "invalidate"}
  BY DEF Queued, Events, Change, Finish, Resync, IsEvent, IsChange, SameKey

LEMMA EventFields ==
    ASSUME NEW e \in Events
    PROVE  IsEvent(e) /\ e.rev \in Nat /\ e.inst \in Nat /\ (IsChange(e) <=> e.kind # "finished")
  BY DEF Events, Change, Finish, IsEvent, IsChange

LEMMA PushTook ==
    ASSUME NEW q \in Connection, NEW e \in Events
    PROVE  /\ Took(q, Push(q, e), {e})
           /\ Ordered(q.out) /\ Before(ToSet(q.out), {e}) => Ordered(Push(q, e).out)
           /\ ~Push(q, e).poisoned =>
                 e \in ToSet(Push(q, e).out)
                 /\ \A x \in ToSet(q.out) : x \in ToSet(Push(q, e).out) \/ SameKey(x, e)
<1> DEFINE p == Push(q, e)
           rest == Among(q.out, {x \in ToSet(q.out) : ~SameKey(x, e)})
           kept == Among(q.out, {x \in ToSet(q.out) : x.kind \in {"resync", "finished"}})
           marked == IF q.poisoned THEN kept ELSE Append(kept, Resync)
           full == IF e.kind = "finished" /\ Fits(kept) THEN Append(marked, e) ELSE marked
<1>1. q.out \in Seq(Queued) /\ q.poisoned \in BOOLEAN /\ e \in Queued /\ Resync \in Queued
  BY ConnectionFields, NoticeIsNoEvent DEF Events, Queued
<1>2. ToSet(q.out) \subseteq Queued
  BY <1>1, Ranges
<1>3. CASE q.poisoned /\ e.kind # "finished"
  <2>1. p = q
    BY <1>3 DEF Push
  <2> QED
    BY <2>1, <1>3 DEF Took, SameRest
<1>4. CASE ~(q.poisoned /\ e.kind # "finished") /\ \E x \in ToSet(q.out) : SameKey(x, e)
  <2>1. p = [q EXCEPT !.out = Append(rest, e)]
    BY <1>4 DEF Push
  <2>2. rest \in Seq(Queued) /\ ToSet(rest) = {x \in ToSet(q.out) : ~SameKey(x, e)}
    BY <1>1, AmongIn
  <2>3. Ordered(q.out) => Ordered(rest)
    BY <1>1, AmongOrdered
  <2> HIDE DEF p, rest
  <2>4. Append(rest, e) \in Seq(Queued) /\ ToSet(Append(rest, e)) = ToSet(rest) \cup {e}
    BY <1>1, <2>2, RangeOfAppend
  <2>5. p \in Connection /\ SameRest(q, p) /\ p.out = Append(rest, e) /\ p.poisoned = q.poisoned
    BY <2>1, <2>4, NewOutOnly
  <2>6. Resync \in ToSet(q.out) => Resync \in ToSet(rest)
    BY <2>2, <1>4, NoticeIsNoEvent DEF SameKey
  <2>7. Ordered(q.out) /\ Before(ToSet(q.out), {e}) => Ordered(p.out)
    <3>1. Before(ToSet(q.out), {e}) => Before(ToSet(rest), {e})
      BY <2>2 DEF Before
    <3> QED
      BY <1>1, <2>2, <2>3, <2>5, <3>1, OrderedAppend
  <2>8. Took(q, p, {e})
    BY <2>2, <2>4, <2>5, <2>6 DEF Took
  <2>9. e \in ToSet(p.out) /\ \A x \in ToSet(q.out) : x \in ToSet(p.out) \/ SameKey(x, e)
    BY <2>2, <2>4, <2>5
  <2> QED
    BY <2>7, <2>8, <2>9 DEF p
<1>5. CASE /\ ~(q.poisoned /\ e.kind # "finished") /\ ~\E x \in ToSet(q.out) : SameKey(x, e)
           /\ Fits(q.out)
  <2>1. p = [q EXCEPT !.out = Append(q.out, e)]
    BY <1>5 DEF Push
  <2> HIDE DEF p
  <2>2. Append(q.out, e) \in Seq(Queued) /\ ToSet(Append(q.out, e)) = ToSet(q.out) \cup {e}
    BY <1>1, RangeOfAppend
  <2>3. p \in Connection /\ SameRest(q, p) /\ p.out = Append(q.out, e) /\ p.poisoned = q.poisoned
    BY <2>1, <2>2, NewOutOnly
  <2>4. Took(q, p, {e}) /\ e \in ToSet(p.out) /\ \A x \in ToSet(q.out) : x \in ToSet(p.out)
    BY <2>2, <2>3 DEF Took
  <2>5. Ordered(q.out) /\ Before(ToSet(q.out), {e}) => Ordered(p.out)
    BY <1>1, <2>3, OrderedAppend
  <2> QED
    BY <2>4, <2>5 DEF p
<1>6. CASE /\ ~(q.poisoned /\ e.kind # "finished") /\ ~\E x \in ToSet(q.out) : SameKey(x, e)
           /\ ~Fits(q.out)
  <2>1. p = [q EXCEPT !.poisoned = TRUE, !.out = full]
    BY <1>6 DEF Push, Overflow
  <2>2. kept \in Seq(Queued) /\ ToSet(kept) = {x \in ToSet(q.out) : x.kind \in {"resync", "finished"}}
    BY <1>1, AmongIn
  <2>3. Ordered(q.out) => Ordered(kept)
    BY <1>1, AmongOrdered
  <2> HIDE DEF p, kept
  <2>4. /\ Append(kept, Resync) \in Seq(Queued)
        /\ ToSet(Append(kept, Resync)) = ToSet(kept) \cup {Resync}
    BY <1>1, <2>2, RangeOfAppend
  <2>5. /\ marked \in Seq(Queued) /\ ToSet(marked) \subseteq ToSet(q.out) \cup {Resync}
        /\ q.poisoned \/ Resync \in ToSet(marked)
        /\ Resync \in ToSet(q.out) => Resync \in ToSet(marked)
    <3>1. Resync \in ToSet(q.out) => Resync \in ToSet(kept)
      BY <2>2, NoticeIsNoEvent
    <3> QED
      BY <2>2, <2>4, <3>1
  <2>6. Ordered(q.out) => Ordered(marked)
    <3>1. Before(ToSet(kept), {Resync})
      BY NoticeIsNoEvent DEF Before, Lower
    <3>2. Ordered(kept) => Ordered(Append(kept, Resync))
      BY <1>1, <2>2, <3>1, OrderedAppend
    <3> QED
      BY <2>3, <3>2
  <2> HIDE DEF marked
  <2>7. Append(marked, e) \in Seq(Queued) /\ ToSet(Append(marked, e)) = ToSet(marked) \cup {e}
    BY <1>1, <2>5, RangeOfAppend
  <2>8. /\ full \in Seq(Queued) /\ ToSet(full) \subseteq ToSet(q.out) \cup {e, Resync}
        /\ q.poisoned \/ Resync \in ToSet(full)
        /\ Resync \in ToSet(q.out) => Resync \in ToSet(full)
    BY <2>5, <2>7
  <2>9. Ordered(q.out) /\ Before(ToSet(q.out), {e}) => Ordered(full)
    <3>1. Before(ToSet(q.out), {e}) => Before(ToSet(marked), {e})
      BY <2>5, NoticeIsNoEvent DEF Before, Lower
    <3>2. Ordered(q.out) /\ Before(ToSet(q.out), {e}) => Ordered(Append(marked, e))
      BY <1>1, <2>5, <2>6, <3>1, OrderedAppend
    <3> QED
      BY <2>6, <3>2
  <2> HIDE DEF full
  <2>10. p \in Connection /\ SameRest(q, p) /\ p.out = full /\ p.poisoned = TRUE
    BY <2>1, <2>8, NewOut
  <2>11. Took(q, p, {e})
    BY <2>8, <2>10 DEF Took
  <2> QED
    BY <2>9, <2>10, <2>11 DEF p
<1> QED
  BY <1>3, <1>4, <1>5, <1>6

LEMMA TookNothing == ASSUME NEW q \in Connection PROVE Took(q, q, {})
  BY DEF Took, SameRest

LEMMA TookBoth ==
    ASSUME NEW q, NEW m, NEW p, NEW S, NEW T, Took(q, m, S), Took(m, p, T)
    PROVE  Took(q, p, S \cup T)
  BY DEF Took, SameRest

(* The queue after each of the events of s. *)
OfferedUpTo(q, s) ==
    CHOOSE f : f = [i \in 0..Len(s) |-> IF i = 0 THEN q ELSE Push(f[i - 1], s[i])]

LEMMA OfferedGoes ==
    ASSUME NEW q \in Connection, NEW s \in Seq(Events)
    PROVE  /\ OfferedUpTo(q, s)[0] = q /\ Offered(q, s) = OfferedUpTo(q, s)[Len(s)]
           /\ \A i \in 1..Len(s) : OfferedUpTo(q, s)[i] = Push(OfferedUpTo(q, s)[i - 1], s[i])
<1> DEFINE n == Len(s)
           G == [i \in 1..n |-> [x \in Connection |-> Push(x, s[i])]]
<1>1. n \in Nat /\ \A i \in 1..n : s[i] \in Events
  OBVIOUS
<1>2. G \in Steps(n, Connection)
  <2>1. \A i \in 1..n : \A x \in Connection : Push(x, s[i]) \in Connection
    BY <1>1, PushTook DEF Took
  <2> QED
    BY <2>1 DEF Steps
<1>3. PICK f \in [0..n -> Connection] : f[0] = q /\ \A i \in 1..n : f[i] = G[i][f[i - 1]]
  <2> HIDE DEF n, G
  <2>1. FoldOf(n, Connection, q, G)
    BY <1>1, <1>2, Fold
  <2> QED
    BY <2>1 DEF FoldOf
<1>4. ASSUME NEW i \in 1..n PROVE f[i] = Push(f[i - 1], s[i])
  <2>1. f[i] = G[i][f[i - 1]]
    <3> HIDE DEF n, G
    <3> QED
      BY <1>3
  <2>2. f[i - 1] \in Connection
    <3>1. i - 1 \in 0..n
      BY <1>1
    <3> HIDE DEF n, G
    <3> QED
      BY <1>3, <3>1
  <2>3. G[i] = [x \in Connection |-> Push(x, s[i])]
    OBVIOUS
  <2> HIDE DEF G
  <2> QED
    BY <2>1, <2>2, <2>3
<1> HIDE DEF G
<1>5. f = [i \in 0..n |-> IF i = 0 THEN q ELSE Push(f[i - 1], s[i])]
  <2>1. f = [i \in 0..n |-> f[i]]
    OBVIOUS
  <2>2. ASSUME NEW i \in 0..n
        PROVE  f[i] = IF i = 0 THEN q ELSE Push(f[i - 1], s[i])
    <3>1. CASE i = 0
      BY <1>3, <3>1
    <3>2. CASE i # 0
      <4>1. i \in 1..n
        BY <1>1, <3>2
      <4> QED
        BY <1>4, <3>2, <4>1
    <3> QED
      BY <3>1, <3>2
  <2> QED
    BY <2>1, <2>2
<1>6. OfferedUpTo(q, s) = [i \in 0..n |-> IF i = 0 THEN q ELSE Push(OfferedUpTo(q, s)[i - 1], s[i])]
  BY <1>5 DEF OfferedUpTo
<1>7. Offered(q, s) = OfferedUpTo(q, s)[n]
  BY DEF Offered, OfferedUpTo
<1>8. 0 \in 0..n /\ \A i \in 1..n : i \in 0..n /\ i # 0
  BY <1>1
<1>9. OfferedUpTo(q, s)[0] = q
  BY <1>6, <1>8
<1>10. \A i \in 1..n : OfferedUpTo(q, s)[i] = Push(OfferedUpTo(q, s)[i - 1], s[i])
  BY <1>6, <1>8
<1> QED
  BY <1>7, <1>9, <1>10

LEMMA OfferedTook ==
    ASSUME NEW q \in Connection, NEW s \in Seq(Events)
    PROVE  Took(q, Offered(q, s), ToSet(s))
<1> DEFINE f == OfferedUpTo(q, s)
           n == Len(s)
           First(i) == {s[j] : j \in 1..i}
           N == {i \in 0..n : Took(q, f[i], First(i))}
<1>1. n \in Nat /\ DOMAIN s = 1..n /\ \A i \in 1..n : s[i] \in Events
  OBVIOUS
<1>2. /\ f[0] = q /\ Offered(q, s) = f[n]
      /\ \A i \in 1..n : f[i] = Push(f[i - 1], s[i])
  BY OfferedGoes
<1> HIDE DEF f, n
<1>3. 0 \in N
  <2>1. First(0) = {}
    OBVIOUS
  <2> HIDE DEF First
  <2>2. Took(q, f[0], First(0))
    BY <1>2, <2>1, TookNothing
  <2>3. 0 \in 0..n
    BY <1>1
  <2> QED
    BY <2>2, <2>3
<1>4. ASSUME NEW i \in 1..n, i - 1 \in N PROVE i \in N
  <2>1. First(i) = First(i - 1) \cup {s[i]} /\ i \in 0..n
    BY <1>1
  <2> HIDE DEF First
  <2>2. Took(q, f[i - 1], First(i - 1)) /\ f[i - 1] \in Connection
    BY <1>4 DEF Took
  <2>3. Took(f[i - 1], f[i], {s[i]})
    BY <1>1, <1>2, <2>2, PushTook
  <2> QED
    BY <2>1, <2>2, <2>3, TookBoth
<1>5. n \in N
  <2>1. n \in 0..n
    BY <1>1
  <2> HIDE DEF N
  <2> QED
    BY <1>1, <1>3, <1>4, <2>1, UpTo
<1>6. First(n) = ToSet(s)
  BY <1>1 DEF ToSet
<1> QED
  BY <1>2, <1>5, <1>6

LEMMA InSteadNext ==
    ASSUME NEW q \in Connection, NEW e \in Events, NEW S, S \subseteq Queued,
           InStead(S, ToSet(q.out)), Before(ToSet(q.out), {e}), NEW k,
           \A x \in S \cup ToSet(q.out) \cup {e} : IsEvent(x) => x.inst = k,
           ~Push(q, e).poisoned
    PROVE  InStead(S \cup {e}, ToSet(Push(q, e).out))
<1> DEFINE p == Push(q, e)
<1>1. e \in ToSet(p.out) /\ \A x \in ToSet(q.out) : x \in ToSet(p.out) \/ SameKey(x, e)
  BY PushTook
<1>2. e.rev \in Nat /\ IsEvent(e)
  BY EventFields
<1> HIDE DEF p
<1>3. IsChange(e) => Later(e, ToSet(p.out))
  BY <1>1, <1>2 DEF Later
<1>4. ASSUME NEW x \in S, IsChange(x) PROVE Later(x, ToSet(p.out))
  <2>1. PICK y \in ToSet(q.out) : IsChange(y) /\ y.of = x.of /\ (y = x \/ y.rev > x.rev)
    BY <1>4 DEF InStead, Later
  <2>2. CASE y \in ToSet(p.out)
    BY <2>1, <2>2 DEF Later
  <2>3. CASE SameKey(y, e)
    <3>1. e.kind \in {"replace", "invalidate"} /\ e.of = x.of /\ IsChange(e)
      BY <2>1, <2>3 DEF SameKey, IsChange
    <3>2. x.rev \in Nat /\ y.rev \in Nat
      <4>1. x \in Queued /\ y \in Queued
        BY <2>1, ConnectionFields, Ranges
      <4>2. x \in Events /\ y \in Events
        BY <4>1, <1>4, <2>1, NoticeIsNoEvent DEF Queued, Events, IsEvent
      <4> QED
        BY <4>2, EventFields
    <3>3. y.rev < e.rev
      BY <2>1, <1>2 DEF Before, Lower, IsEvent
    <3> QED
      BY <1>1, <1>2, <2>1, <3>1, <3>2, <3>3 DEF Later
  <2> QED
    BY <1>1, <2>2, <2>3
<1> QED
  BY <1>3, <1>4 DEF InStead, p

LEMMA OfferedOrdered ==
    ASSUME NEW q \in Connection, NEW s \in Seq(Events), NEW k,
           \A x \in ToSet(q.out) \cup ToSet(s) : IsEvent(x) => x.inst = k,
           Ordered(q.out), Ordered(s), Before(ToSet(q.out), ToSet(s))
    PROVE  /\ Ordered(Offered(q, s).out)
           /\ ~Offered(q, s).poisoned => InStead(ToSet(q.out) \cup ToSet(s), ToSet(Offered(q, s).out))
<1> DEFINE f == OfferedUpTo(q, s)
           n == Len(s)
           First(i) == {s[j] : j \in 1..i}
           N == {i \in 0..n : /\ Took(q, f[i], First(i)) /\ Ordered(f[i].out)
                              /\ ~f[i].poisoned => InStead(ToSet(q.out) \cup First(i), ToSet(f[i].out))}
<1>1. n \in Nat /\ DOMAIN s = 1..n /\ \A i \in 1..n : s[i] \in Events /\ s[i] \in ToSet(s)
  BY DEF ToSet
<1>2. /\ f[0] = q /\ Offered(q, s) = f[n]
      /\ \A i \in 1..n : f[i] = Push(f[i - 1], s[i])
  BY OfferedGoes
<1>3. ToSet(q.out) \subseteq Queued
  BY ConnectionFields, Ranges
<1>4. Events \subseteq Queued /\ Queued = Events \cup {Resync}
  BY DEF Events, Queued
<1> HIDE DEF f, n
<1>5. 0 \in N
  <2>1. First(0) = {}
    OBVIOUS
  <2>2. InStead(ToSet(q.out), ToSet(q.out))
    <3>1. ASSUME NEW x \in ToSet(q.out), IsChange(x) PROVE Later(x, ToSet(q.out))
      <4>1. x \in Events
        BY <1>3, <1>4, <3>1, NoticeIsNoEvent DEF IsEvent
      <4>2. x.rev \in Nat
        BY <4>1, EventFields
      <4> QED
        BY <3>1, <4>2 DEF Later
    <3> QED
      BY <3>1 DEF InStead
  <2> HIDE DEF First
  <2>3. Took(q, f[0], First(0)) /\ f[0] = q /\ ToSet(q.out) \cup First(0) = ToSet(q.out)
    BY <1>2, <2>1, TookNothing
  <2>4. 0 \in 0..n
    BY <1>1
  <2> QED
    BY <2>2, <2>3, <2>4
<1>6. ASSUME NEW i \in 1..n, i - 1 \in N PROVE i \in N
  <2>1. First(i) = First(i - 1) \cup {s[i]} /\ i \in 0..n
    BY <1>1
  <2>2. First(i - 1) \subseteq ToSet(s)
    BY <1>1
  <2>3. Before(ToSet(q.out) \cup First(i - 1) \cup {Resync}, {s[i]})
    <3>1. ASSUME NEW x \in ToSet(q.out) PROVE Lower(x, s[i])
      BY <1>1 DEF Before
    <3>2. ASSUME NEW j \in 1..(i - 1) PROVE Lower(s[j], s[i])
      <4>1. j \in 1..n /\ j < i
        BY <1>1
      <4> QED
        BY <1>1, <4>1 DEF Ordered
    <3>3. Lower(Resync, s[i])
      BY NoticeIsNoEvent DEF Lower
    <3> QED
      BY <3>1, <3>2, <3>3 DEF Before
  <2> HIDE DEF First
  <2>4. Took(q, f[i - 1], First(i - 1)) /\ f[i - 1] \in Connection /\ Ordered(f[i - 1].out)
    BY <1>6 DEF Took
  <2>5. f[i] = Push(f[i - 1], s[i]) /\ s[i] \in Events
    BY <1>1, <1>2
  <2>6. Took(f[i - 1], f[i], {s[i]})
    BY <2>4, <2>5, PushTook
  <2>7. ToSet(f[i - 1].out) \subseteq ToSet(q.out) \cup First(i - 1) \cup {Resync}
    BY <2>4 DEF Took
  <2>8. Before(ToSet(f[i - 1].out), {s[i]})
    BY <2>3, <2>7 DEF Before
  <2>9. Ordered(f[i].out)
    BY <2>4, <2>5, <2>8, PushTook
  <2>10. ASSUME ~f[i].poisoned PROVE InStead(ToSet(q.out) \cup First(i), ToSet(f[i].out))
    <3>1. ~f[i - 1].poisoned
      BY <2>6, <2>10 DEF Took
    <3>2. InStead(ToSet(q.out) \cup First(i - 1), ToSet(f[i - 1].out))
      BY <1>6, <3>1
    <3>3. ToSet(q.out) \cup First(i - 1) \subseteq Queued
      BY <1>3, <1>4, <2>2, Ranges
    <3>4. \A x \in (ToSet(q.out) \cup First(i - 1)) \cup ToSet(f[i - 1].out) \cup {s[i]} :
             IsEvent(x) => x.inst = k
      BY <1>1, <2>2, <2>7, NoticeIsNoEvent
    <3>5. InStead((ToSet(q.out) \cup First(i - 1)) \cup {s[i]}, ToSet(Push(f[i - 1], s[i]).out))
      <4> HIDE DEF InStead, Before
      <4> QED
        BY <2>4, <2>5, <2>8, <2>10, <3>2, <3>3, <3>4, InSteadNext
    <3>6. (ToSet(q.out) \cup First(i - 1)) \cup {s[i]} = ToSet(q.out) \cup First(i)
      BY <2>1
    <3> QED
      BY <2>5, <3>5, <3>6
  <2>11. Took(q, f[i], First(i))
    BY <2>1, <2>4, <2>6, TookBoth
  <2> QED
    BY <2>1, <2>9, <2>10, <2>11
<1>7. n \in N
  <2>1. n \in 0..n
    BY <1>1
  <2> HIDE DEF N
  <2> QED
    BY <1>1, <1>5, <1>6, <2>1, UpTo
<1>8. First(n) = ToSet(s)
  BY <1>1 DEF ToSet
<1> QED
  BY <1>2, <1>7, <1>8

-----------------------------------------------------------------------------
(* The types, with what the session and the wire hold of a call.             *)

(* The client waits for the last call of the line, the first may be the      *)
(* TUI's first bootstrap, and a bootstrap nobody waits for any more is owed   *)
(* again.                                                                     *)
Deaf == IF Tui THEN astray ELSE pc = "boot" \/ NeedsBootstrap
Line ==
    /\ \A i \in DOMAIN calls :
         /\ calls[i].to = "pump" => i = Len(calls) /\ pc = calls[i].m
         /\ calls[i].to = "box" => i = 1 /\ calls[i].m = "boot" /\ Tui /\ ~tracker.known /\ box = <<>>
         /\ calls[i].to = "nobody" /\ calls[i].m = "boot" => Deaf
         /\ calls[i].m # "boot" => calls[i].op \in Operations
    /\ pc \notin {"idle", "query"} => calls # <<>> /\ calls[Len(calls)].to = "pump"
    /\ Len(box) <= 1 /\ (box # <<>> => Tui)

(* At most one call is under way, and its answer is in one place.            *)
Answerless(s) == \A i \in DOMAIN s : s[i].kind \notin AnswerKinds
AnswersTo(x, m) == x \in Answers /\ (x.kind = "snapshot" <=> m = "boot")
OneAnswer(s, m) ==
    \E i \in DOMAIN s : /\ AnswersTo(s[i], m)
                        /\ \A j \in DOMAIN s : j # i => s[j].kind \notin AnswerKinds
Idle(c) == c.serving = "loop" /\ c.replies = <<>> /\ Answerless(c.wire)
Serves(c, m) ==
    \/ c.serving # "loop" /\ m = "boot" /\ c.replies = <<>> /\ Answerless(c.wire)
    \/ /\ c.serving = "loop" /\ Answerless(c.wire)
       /\ Len(c.replies) = 1 /\ AnswersTo(c.replies[1], m)
    \/ c.serving = "loop" /\ c.replies = <<>> /\ OneAnswer(c.wire, m)
UnderWay ==
    /\ sent = "no" /\ conn # None => Idle(conn)
    /\ sent = "lost" => conn = None /\ calls # <<>>
    /\ sent = "served" => conn # None /\ calls # <<>> /\ Serves(conn, Head(calls).m)
    /\ conn # None => (conn.snap # None <=> conn.serving = "captured")

DaemonOK == /\ inst \in Nat /\ rev \in Nat /\ val \in [Resources -> Nat]
            /\ ops \in [Operations -> OpStates] /\ unsaid \subseteq Operations
ConnOK == conn \in Connection \cup {None}
Frames == Change \cup Finish \cup {Resync} \cup Reconnected
SessionOK == /\ calls \in Seq(Calls) /\ sent \in {"no", "served", "lost"}
             /\ channel \in Seq(Frames) /\ box \in Seq(Snapshot)
Trackers == [known : BOOLEAN, inst : Nat, rev : Nat, poisoned : BOOLEAN, changed : BOOLEAN]
ClientOK == /\ pc \in {"idle", "boot", "query", "status", "start"}
            /\ tracker \in Trackers /\ mirror \in [Resources -> Nat] /\ stale \subseteq Resources
            /\ awaited \subseteq Operations /\ todo \subseteq Operations /\ astray \in BOOLEAN
BoundsOK == {changes, losses, timeouts} \subseteq Nat /\ app \in Apps

LEMMA TypeParts == TypeOK <=> DaemonOK /\ ConnOK /\ SessionOK /\ ClientOK /\ BoundsOK
  BY DEF TypeOK, DaemonOK, ConnOK, SessionOK, ClientOK, BoundsOK, Frames, Trackers
LEMMA TypePartsNext == TypeOK' <=> DaemonOK' /\ ConnOK' /\ SessionOK' /\ ClientOK' /\ BoundsOK'
  BY DEF TypeOK, DaemonOK, ConnOK, SessionOK, ClientOK, BoundsOK, Frames, Trackers

LEMMA KeptTypes ==
    /\ DaemonOK /\ UNCHANGED daemon => DaemonOK'
    /\ ConnOK /\ UNCHANGED conn => ConnOK'
    /\ SessionOK /\ UNCHANGED session => SessionOK'
    /\ ClientOK /\ UNCHANGED client => ClientOK'
    /\ BoundsOK /\ UNCHANGED bounds => BoundsOK'
  BY DEF DaemonOK, ConnOK, SessionOK, ClientOK, BoundsOK, daemon, session, client, bounds

LEMMA NewConnTyped == NewConn \in Connection /\ NewConn.snap = None /\ NewConn # None
<1>1. \A S : <<>> \in Seq(S)
  OBVIOUS
<1>2. NewConn \in Connection
  BY <1>1 DEF NewConn, Connection
<1>3. NewConn.snap = None
  BY DEF NewConn
<1> QED
  BY <1>2, <1>3, NoneAssumption

LEMMA InitTyped == Init => TypeOK
<1> SUFFICES ASSUME Init PROVE TypeOK
  OBVIOUS
<1>1. DaemonOK
  BY DEF Init, DaemonOK, OpStates
<1>2. ConnOK
  BY NewConnTyped DEF Init, ConnOK
<1>3. SessionOK
  <2>1. Call("boot", None, IF Tui THEN "box" ELSE "pump") \in Calls
    BY DEF Call, Calls
  <2> QED
    BY <2>1 DEF Init, SessionOK
<1>4. ClientOK
  BY DEF Init, ClientOK, Trackers
<1>5. BoundsOK
  BY DEF Init, BoundsOK
<1> QED
  BY <1>1, <1>2, <1>3, <1>4, <1>5, TypeParts

(* The steps of the daemon. *)
LEMMA DomainTyped ==
    ASSUME NEW q \in Connection, NEW e \in Change
    PROVE  LET p == [q EXCEPT !.domain = Append(@, e)]
           IN /\ p \in Connection /\ p.domain = Append(q.domain, e) /\ p.life = q.life
              /\ p.attached = q.attached /\ p.serving = q.serving /\ p.snap = q.snap
              /\ p.replies = q.replies /\ p.wire = q.wire /\ p.out = q.out
              /\ p.poisoned = q.poisoned
<1>1. q.domain \in Seq(Change)
  BY ConnectionFields
<1>2. Append(q.domain, e) \in Seq(Change)
  BY <1>1
<1> QED
  BY <1>2 DEF Connection
LEMMA LifeTyped ==
    ASSUME NEW q \in Connection, NEW e \in Finish
    PROVE  LET p == [q EXCEPT !.life = Append(@, e)]
           IN /\ p \in Connection /\ p.life = Append(q.life, e) /\ p.domain = q.domain
              /\ p.attached = q.attached /\ p.serving = q.serving /\ p.snap = q.snap
              /\ p.replies = q.replies /\ p.wire = q.wire /\ p.out = q.out
              /\ p.poisoned = q.poisoned
<1>1. q.life \in Seq(Finish)
  BY ConnectionFields
<1>2. Append(q.life, e) \in Seq(Finish)
  BY <1>1
<1> QED
  BY <1>2 DEF Connection

LEMMA CommitTyped ==
    ASSUME TypeOK, NEW r \in Resources, NEW k \in Kinds(r), Commit(r, k)
    PROVE  TypeOK'
<1>1. DaemonOK' /\ BoundsOK' /\ SessionOK' /\ ClientOK'
  <2>1. DaemonOK /\ BoundsOK /\ SessionOK /\ ClientOK
    BY TypeParts
  <2>2. DaemonOK'
    BY <2>1 DEF Commit, DaemonOK
  <2>3. BoundsOK'
    BY <2>1 DEF Commit, BoundsOK
  <2>4. UNCHANGED session /\ UNCHANGED client
    BY DEF Commit
  <2> QED
    BY <2>1, <2>2, <2>3, <2>4, KeptTypes
<1>2. ConnOK'
  <2>1. Event(rev', k, r, val'[r]) \in Change
    <3>1. k \in {"replace", "remove", "invalidate"}
      BY DEF Kinds
    <3>2. rev' \in Nat /\ val'[r] \in Nat /\ inst \in Nat
      BY <1>1, TypeParts DEF DaemonOK
    <3> QED
      BY <3>1, <3>2 DEF Event, Change
  <2>2. conn \in Connection \cup {None} /\ conn' = Fan("domain", Event(rev', k, r, val'[r]))
    BY DEF TypeOK, Commit
  <2> QED
    BY <2>1, <2>2, DomainTyped DEF ConnOK, Fan
<1> QED
  BY <1>1, <1>2, TypePartsNext

LEMMA FinishTyped ==
    ASSUME TypeOK, NEW o \in Operations, FinishOperation(o)
    PROVE  TypeOK'
<1>1. DaemonOK /\ BoundsOK /\ SessionOK /\ ClientOK /\ ConnOK
  BY TypeParts
<1>2. DaemonOK'
  BY <1>1 DEF FinishOperation, DaemonOK, OpStates
<1>3. UNCHANGED <<conn, session, client, bounds>>
  BY DEF FinishOperation
<1> QED
  BY <1>1, <1>2, <1>3, KeptTypes, TypePartsNext

LEMMA PublishTyped ==
    ASSUME TypeOK, NEW o \in Operations, PublishFinish(o)
    PROVE  TypeOK'
<1>1. DaemonOK /\ BoundsOK /\ SessionOK /\ ClientOK /\ ConnOK
  BY TypeParts
<1>2. DaemonOK'
  BY <1>1 DEF PublishFinish, DaemonOK
<1>3. UNCHANGED <<session, client, bounds>>
  BY DEF PublishFinish
<1>4. ConnOK'
  <2>1. Event(rev', "finished", o, 0) \in Finish
    <3>1. rev' \in Nat /\ inst \in Nat
      BY <1>1, <1>2 DEF DaemonOK
    <3> QED
      BY <3>1 DEF Event, Finish
  <2>2. conn \in Connection \cup {None} /\ conn' = Fan("life", Event(rev', "finished", o, 0))
    BY DEF TypeOK, PublishFinish
  <2> QED
    BY <2>1, <2>2, LifeTyped DEF ConnOK, Fan
<1> QED
  BY <1>1, <1>2, <1>3, <1>4, KeptTypes, TypePartsNext

(* The steps of the connection. *)
OnConn == UNCHANGED <<daemon, session, client, bounds>>
LEMMA OnConnTyped == ASSUME TypeOK, OnConn, ConnOK' PROVE TypeOK'
  BY TypeParts, TypePartsNext, KeptTypes DEF OnConn

Emptied(c) == [c EXCEPT !.domain = <<>>, !.life = <<>>]
LEMMA EmptiedTyped ==
    ASSUME NEW c \in Connection
    PROVE  LET p == Emptied(c)
           IN /\ p \in Connection /\ p.domain = <<>> /\ p.life = <<>>
              /\ p.attached = c.attached /\ p.serving = c.serving /\ p.snap = c.snap
              /\ p.replies = c.replies /\ p.wire = c.wire /\ p.out = c.out
              /\ p.poisoned = c.poisoned
<1>1. \A S : <<>> \in Seq(S)
  OBVIOUS
<1> QED
  BY <1>1 DEF Emptied, Connection

LEMMA MergedTyped ==
    ASSUME NEW c \in Connection
    PROVE  /\ Merged(c) \in Seq(Events)
           /\ ToSet(Merged(c)) \subseteq ToSet(c.domain) \cup ToSet(c.life)
           /\ c.domain \in Seq(Events) /\ c.life \in Seq(Events)
<1>1. c.domain \in Seq(Change) /\ c.life \in Seq(Finish)
  BY ConnectionFields
<1>2. c.domain \in Seq(Events) /\ c.life \in Seq(Events)
  BY <1>1 DEF Events
<1> QED
  BY <1>2, MergedIn

LEMMA DrainTyped == ASSUME TypeOK, Drain PROVE TypeOK'
<1>1. conn \in Connection
  BY DEF TypeOK, Drain, Serving
<1>2. conn' = Offered(Emptied(conn), Merged(conn)) /\ OnConn
  BY DEF Drain, Emptied, OnConn
<1>3. conn' \in Connection
  BY <1>1, <1>2, EmptiedTyped, MergedTyped, OfferedTook DEF Took
<1> QED
  BY <1>2, <1>3, OnConnTyped DEF ConnOK

Sends(c) == [c EXCEPT !.out = Tail(@), !.wire = Append(@, Head(c.out))]
Replies(c) == [c EXCEPT !.replies = Tail(@), !.wire = Append(@, Head(c.replies))]
LEMMA SendsTyped ==
    ASSUME NEW c \in Connection, c.out # <<>>
    PROVE  LET p == Sends(c)
           IN /\ p \in Connection /\ p.out = Tail(c.out) /\ p.wire = Append(c.wire, Head(c.out))
              /\ p.domain = c.domain /\ p.life = c.life
              /\ p.attached = c.attached /\ p.serving = c.serving /\ p.snap = c.snap
              /\ p.replies = c.replies /\ p.poisoned = c.poisoned
<1>1. c.out \in Seq(Queued) /\ c.wire \in Seq(Queued \cup Answers)
  BY ConnectionFields
<1>2. Tail(c.out) \in Seq(Queued) /\ Head(c.out) \in Queued
  BY <1>1, RangeOfTail
<1>3. Append(c.wire, Head(c.out)) \in Seq(Queued \cup Answers)
  BY <1>1, <1>2
<1> QED
  BY <1>2, <1>3 DEF Sends, Connection, Queued
LEMMA RepliesTyped ==
    ASSUME NEW c \in Connection, c.replies # <<>>
    PROVE  LET p == Replies(c)
           IN /\ p \in Connection /\ p.replies = Tail(c.replies)
              /\ p.wire = Append(c.wire, Head(c.replies))
              /\ p.domain = c.domain /\ p.life = c.life /\ p.out = c.out
              /\ p.attached = c.attached /\ p.serving = c.serving /\ p.snap = c.snap
              /\ p.poisoned = c.poisoned
<1>1. c.replies \in Seq(Answers) /\ c.wire \in Seq(Queued \cup Answers)
  BY ConnectionFields
<1>2. Tail(c.replies) \in Seq(Answers) /\ Head(c.replies) \in Answers
  BY <1>1, RangeOfTail
<1>3. Append(c.wire, Head(c.replies)) \in Seq(Queued \cup Answers)
  BY <1>1, <1>2
<1> QED
  BY <1>2, <1>3 DEF Replies, Connection, Queued

LEMMA WriteCases ==
    ASSUME TypeOK, Write
    PROVE  /\ conn \in Connection /\ conn.serving = "loop" /\ OnConn
           /\ \/ conn.replies # <<>> /\ conn' = Replies(conn)
              \/ conn.replies = <<>> /\ conn.out # <<>> /\ conn' = Sends(conn)
  BY DEF TypeOK, Write, Serving, OnConn, Sends, Replies

LEMMA WriteTyped == ASSUME TypeOK, Write PROVE TypeOK'
<1>1. conn' \in Connection /\ OnConn
  BY WriteCases, SendsTyped, RepliesTyped
<1> QED
  BY <1>1, OnConnTyped DEF ConnOK

Registered(c) == [c EXCEPT !.serving = "registered", !.attached = TRUE]
LEMMA RegisteredTyped ==
    ASSUME NEW c \in Connection
    PROVE  LET p == Registered(c)
           IN /\ p \in Connection /\ p.serving = "registered" /\ p.attached = TRUE
              /\ p.domain = c.domain /\ p.life = c.life /\ p.out = c.out /\ p.wire = c.wire
              /\ p.snap = c.snap /\ p.replies = c.replies /\ p.poisoned = c.poisoned
  BY DEF Registered, Connection

LEMMA RegisterTyped == ASSUME TypeOK, Register PROVE TypeOK'
<1>1. DaemonOK /\ BoundsOK /\ SessionOK /\ ClientOK /\ ConnOK
  BY TypeParts
<1>2. UNCHANGED <<daemon, client, bounds>>
  BY DEF Register
<1>3. SessionOK'
  BY <1>1 DEF Register, SessionOK
<1>4. ConnOK'
  <2>1. conn \in Connection /\ conn' = Registered(conn)
    BY <1>1 DEF Register, Asked, Serving, ConnOK, Registered
  <2> QED
    BY <2>1, RegisteredTyped DEF ConnOK
<1> QED
  BY <1>1, <1>2, <1>3, <1>4, KeptTypes, TypePartsNext

Captured(c, s) == [c EXCEPT !.serving = "captured", !.snap = s]
LEMMA CapturedTyped ==
    ASSUME NEW c \in Connection, NEW s \in Snapshot
    PROVE  LET p == Captured(c, s)
           IN /\ p \in Connection /\ p.serving = "captured" /\ p.snap = s
              /\ p.domain = c.domain /\ p.life = c.life /\ p.out = c.out /\ p.wire = c.wire
              /\ p.attached = c.attached /\ p.replies = c.replies /\ p.poisoned = c.poisoned
  BY DEF Captured, Connection

Now == [rev |-> rev, inst |-> inst, val |-> val]
LEMMA NowTyped == ASSUME TypeOK PROVE Now \in Snapshot /\ Now # None
  BY NoneAssumption DEF TypeOK, Now, Snapshot

LEMMA CaptureTyped == ASSUME TypeOK, Capture PROVE TypeOK'
<1>1. conn \in Connection /\ conn' = Captured(conn, Now) /\ OnConn
  BY DEF TypeOK, Capture, Serving, Captured, Now, OnConn
<1> QED
  BY <1>1, CapturedTyped, NowTyped, OnConnTyped DEF ConnOK

Fresh(c) == [c EXCEPT !.out = <<>>, !.poisoned = FALSE, !.domain = <<>>, !.life = <<>>,
                      !.serving = "loop", !.snap = None,
                      !.replies = Append(@, [kind |-> "snapshot", snap |-> c.snap])]
Since(c) == Among(Merged(c), {e \in ToSet(Merged(c)) : e.rev > c.snap.rev})
LEMMA FreshTyped ==
    ASSUME NEW c \in Connection, c.snap # None
    PROVE  LET p == Fresh(c)
           IN /\ p \in Connection /\ p.serving = "loop" /\ p.snap = None
              /\ p.domain = <<>> /\ p.life = <<>> /\ p.out = <<>> /\ p.poisoned = FALSE
              /\ p.attached = c.attached /\ p.wire = c.wire
              /\ p.replies = Append(c.replies, [kind |-> "snapshot", snap |-> c.snap])
<1>1. c.snap \in Snapshot /\ c.replies \in Seq(Answers)
  BY ConnectionFields
<1>2. [kind |-> "snapshot", snap |-> c.snap] \in Answers
  BY <1>1 DEF Answers
<1>3. Append(c.replies, [kind |-> "snapshot", snap |-> c.snap]) \in Seq(Answers)
  BY <1>1, <1>2
<1>4. \A S : <<>> \in Seq(S)
  OBVIOUS
<1> QED
  BY <1>3, <1>4 DEF Fresh, Connection
LEMMA SinceTyped ==
    ASSUME NEW c \in Connection
    PROVE  /\ Since(c) \in Seq(Events)
           /\ ToSet(Since(c)) = {e \in ToSet(Merged(c)) : e.rev > c.snap.rev}
<1>1. Merged(c) \in Seq(Events)
  BY MergedTyped
<1> QED
  BY <1>1, AmongIn DEF Since
LEMMA RebootstrappedIs == ASSUME NEW c PROVE Rebootstrapped(c) = Offered(Fresh(c), Since(c))
  BY DEF Rebootstrapped, Fresh, Since

LEMMA RebootstrappedTook ==
    ASSUME NEW c \in Connection, c.snap # None
    PROVE  Took(Fresh(c), Rebootstrapped(c), ToSet(Since(c)))
  BY FreshTyped, SinceTyped, RebootstrappedIs, OfferedTook

LEMMA AnswerBootstrapTyped == ASSUME TypeOK, UnderWay, AnswerBootstrap PROVE TypeOK'
<1>1. conn \in Connection /\ conn.snap # None /\ conn' = Rebootstrapped(conn) /\ OnConn
  BY DEF TypeOK, UnderWay, AnswerBootstrap, Serving, OnConn
<1>2. conn' \in Connection
  BY <1>1, RebootstrappedTook DEF Took
<1> QED
  BY <1>1, <1>2, OnConnTyped DEF ConnOK

Answered(c, s) == [c EXCEPT !.replies = Append(@, [kind |-> "status", state |-> s])]
LEMMA AnsweredTyped ==
    ASSUME NEW c \in Connection, NEW s \in OpStates
    PROVE  LET p == Answered(c, s)
           IN /\ p \in Connection
              /\ p.replies = Append(c.replies, [kind |-> "status", state |-> s])
              /\ p.domain = c.domain /\ p.life = c.life /\ p.out = c.out /\ p.wire = c.wire
              /\ p.attached = c.attached /\ p.serving = c.serving /\ p.snap = c.snap
              /\ p.poisoned = c.poisoned
<1>1. c.replies \in Seq(Answers) /\ [kind |-> "status", state |-> s] \in Answers
  BY ConnectionFields DEF Answers
<1>2. Append(c.replies, [kind |-> "status", state |-> s]) \in Seq(Answers)
  BY <1>1
<1> QED
  BY <1>2 DEF Answered, Connection

(* The first call, when there is one. *)
LEMMA FirstCall ==
    ASSUME TypeOK, Line, calls # <<>>
    PROVE  /\ Head(calls) = calls[1] /\ 1 \in DOMAIN calls /\ Head(calls) \in Calls
           /\ Tail(calls) \in Seq(Calls)
           /\ Head(calls).m # "boot" => Head(calls).op \in Operations
<1>1. calls \in Seq(Calls)
  BY DEF TypeOK
<1>2. Head(calls) = calls[1] /\ 1 \in DOMAIN calls /\ Head(calls) \in Calls /\ Tail(calls) \in Seq(Calls)
  BY <1>1
<1> QED
  BY <1>2 DEF Line

LEMMA AnswerCallTyped == ASSUME TypeOK, Line, AnswerCall PROVE TypeOK'
<1>1. DaemonOK /\ BoundsOK /\ SessionOK /\ ClientOK /\ ConnOK
  BY TypeParts
<1>2. UNCHANGED <<client, bounds>>
  BY DEF AnswerCall
<1>3. SessionOK'
  BY <1>1 DEF AnswerCall, SessionOK
<1> DEFINE o == Head(calls).op
<1>4. calls # <<>> /\ Head(calls).m # "boot" /\ conn \in Connection
  BY <1>1 DEF AnswerCall, Asked, Serving, ConnOK
<1>5. o \in Operations
  BY <1>4, FirstCall
<1>6. /\ ops' = IF Head(calls).m = "start" THEN [ops EXCEPT ![o] = "running"] ELSE ops
      /\ conn' = Answered(conn, ops'[o])
      /\ UNCHANGED <<inst, rev, val, unsaid>>
  BY DEF AnswerCall, Answered
<1> HIDE DEF o
<1>7. DaemonOK' /\ ops'[o] \in OpStates
  BY <1>1, <1>5, <1>6 DEF DaemonOK, OpStates
<1>8. ConnOK'
  BY <1>4, <1>6, <1>7, AnsweredTyped DEF ConnOK
<1> QED
  BY <1>1, <1>2, <1>3, <1>7, <1>8, KeptTypes, TypePartsNext

(* The steps of the session. *)
LEMMA CallAsked ==
    ASSUME TypeOK, NEW m \in {"boot", "status", "start"}, NEW o \in Operations \cup {None}, Ask(m, o)
    PROVE  calls' \in Seq(Calls)
<1>1. Call(m, o, "pump") \in Calls /\ calls \in Seq(Calls)
  BY DEF Call, Calls, TypeOK
<1> QED
  BY <1>1 DEF Ask

Read(c) == [c EXCEPT !.wire = Tail(@)]
LEMMA ReadTyped ==
    ASSUME NEW c \in Connection, c.wire # <<>>
    PROVE  LET p == Read(c)
           IN /\ p \in Connection /\ p.wire = Tail(c.wire)
              /\ p.domain = c.domain /\ p.life = c.life /\ p.out = c.out
              /\ p.attached = c.attached /\ p.serving = c.serving /\ p.snap = c.snap
              /\ p.replies = c.replies /\ p.poisoned = c.poisoned
<1>1. c.wire \in Seq(Queued \cup Answers)
  BY ConnectionFields
<1>2. Tail(c.wire) \in Seq(Queued \cup Answers)
  BY <1>1, RangeOfTail
<1> QED
  BY <1>2 DEF Read, Connection, Queued

LEMMA AnswerOnWire ==
    ASSUME TypeOK, UnderWay, conn # None, conn.wire # <<>>, Head(conn.wire).kind \in AnswerKinds
    PROVE  /\ sent = "served" /\ calls # <<>> /\ conn.serving = "loop" /\ conn.replies = <<>>
           /\ AnswersTo(Head(conn.wire), Head(calls).m) /\ Answerless(Tail(conn.wire))
<1> DEFINE w == conn.wire
<1>1. conn \in Connection
  BY DEF TypeOK
<1>2. w \in Seq(Queued \cup Answers)
  BY <1>1, ConnectionFields
<1> HIDE DEF w
<1>3. w # <<>> /\ Head(w).kind \in AnswerKinds
  BY DEF w
<1>4. /\ 1 \in DOMAIN w /\ Head(w) = w[1] /\ Len(w) \in Nat /\ DOMAIN w = 1..Len(w)
      /\ DOMAIN Tail(w) = 1..(Len(w) - 1) /\ \A j \in 1..(Len(w) - 1) : Tail(w)[j] = w[j + 1]
  BY <1>2, <1>3, HeadTailProperties, EmptySeq
<1>5. ~Answerless(w)
  BY <1>3, <1>4 DEF Answerless
<1>6. sent \in {"no", "served", "lost"}
  BY DEF TypeOK
<1>7. sent = "served" /\ calls # <<>> /\ conn.serving = "loop" /\ conn.replies = <<>>
      /\ OneAnswer(w, Head(calls).m)
  BY <1>5, <1>6 DEF UnderWay, Idle, Serves, w
<1>8. PICK i \in DOMAIN w : /\ AnswersTo(w[i], Head(calls).m)
                            /\ \A j \in DOMAIN w : j # i => w[j].kind \notin AnswerKinds
  BY <1>7 DEF OneAnswer
<1>9. i = 1
  BY <1>3, <1>4, <1>8
<1>10. Answerless(Tail(w))
  <2> SUFFICES ASSUME NEW j \in 1..(Len(w) - 1) PROVE Tail(w)[j].kind \notin AnswerKinds
    BY <1>4 DEF Answerless
  <2>1. j + 1 \in DOMAIN w /\ j + 1 # 1 /\ Tail(w)[j] = w[j + 1]
    BY <1>4
  <2> QED
    BY <1>8, <1>9, <2>1
<1> QED
  BY <1>4, <1>7, <1>8, <1>9, <1>10 DEF w

LEMMA AdoptTyped ==
    ASSUME ClientOK, NEW s \in Snapshot, Adopt(s)
    PROVE  /\ tracker' \in Trackers /\ mirror' \in [Resources -> Nat] /\ stale' \subseteq Resources
           /\ awaited' \subseteq Operations
<1>1. s.rev \in Nat /\ s.inst \in Nat /\ s.val \in [Resources -> Nat]
  BY DEF Snapshot
<1>2. tracker' \in Trackers
  BY <1>1 DEF Adopt, Trackers
<1> QED
  BY <1>1, <1>2 DEF Adopt, ClientOK

LEMMA TakeAnswerTyped ==
    ASSUME ClientOK, NEW c \in Calls, NEW a, TakeAnswer(c, a),
           c.m = "boot" => a.snap \in Snapshot, c.m # "boot" => c.op \in Operations
    PROVE  ClientOK'
<1>1. CASE c.m = "boot" /\ Adopt(a.snap) /\ todo' = awaited' /\ pc' = "query" /\ UNCHANGED astray
  BY <1>1, AdoptTyped DEF ClientOK
<1>2. CASE c.m = "status" /\ awaited' = (IF a.state = "running" THEN awaited ELSE awaited \ {c.op})
           /\ pc' = "query" /\ UNCHANGED <<tracker, mirror, stale, todo, astray>>
  BY <1>2 DEF ClientOK
<1>3. CASE c.m = "start" /\ awaited' = awaited \cup {c.op} /\ pc' = "idle"
           /\ UNCHANGED <<tracker, mirror, stale, todo, astray>>
  BY <1>3 DEF ClientOK
<1> QED
  BY <1>1, <1>2, <1>3 DEF TakeAnswer

LEMMA PoisonTyped ==
    ASSUME NEW t \in Trackers, NEW b \in BOOLEAN
    PROVE  LET u == [t EXCEPT !.poisoned = b]
           IN /\ u \in Trackers /\ u.poisoned = b /\ u.known = t.known /\ u.inst = t.inst
              /\ u.rev = t.rev /\ u.changed = t.changed
  BY DEF Trackers
LEMMA ChangedTyped ==
    ASSUME NEW t \in Trackers, NEW b \in BOOLEAN
    PROVE  LET u == [t EXCEPT !.changed = b]
           IN /\ u \in Trackers /\ u.poisoned = t.poisoned /\ u.known = t.known /\ u.inst = t.inst
              /\ u.rev = t.rev /\ u.changed = b
  BY DEF Trackers
LEMMA RevTyped ==
    ASSUME NEW t \in Trackers, NEW n \in Nat
    PROVE  LET u == [t EXCEPT !.rev = n]
           IN /\ u \in Trackers /\ u.poisoned = t.poisoned /\ u.known = t.known /\ u.inst = t.inst
              /\ u.rev = n /\ u.changed = t.changed
  BY DEF Trackers
LEMMA KnownTyped == ASSUME TypeOK PROVE tracker.known \in BOOLEAN /\ tracker \in Trackers
  BY DEF TypeOK, Trackers

LEMMA TakeFailureTyped ==
    ASSUME TypeOK, NEW c \in Calls, TakeFailure(c)
    PROVE  ClientOK'
<1>1. ClientOK
  BY TypeParts
<1>2. tracker' \in Trackers
  BY KnownTyped, PoisonTyped DEF TakeFailure
<1> QED
  BY <1>1, <1>2 DEF ClientOK, TakeFailure

DeliverNotice ==
    /\ channel' = Append(channel, Head(conn.wire)) /\ Head(conn.wire).kind \notin AnswerKinds
    /\ UNCHANGED <<calls, sent, box, client>>
DeliverAnswer ==
    /\ Head(conn.wire).kind \in AnswerKinds
    /\ calls' = Tail(calls) /\ sent' = "no"
    /\ box' = IF Head(calls).to = "box" THEN Append(box, Head(conn.wire).snap) ELSE box
    /\ IF Head(calls).to = "pump" THEN TakeAnswer(Head(calls), Head(conn.wire))
       ELSE UNCHANGED client
    /\ UNCHANGED channel

LEMMA DeliverCases ==
    ASSUME TypeOK, UnderWay, Line, Deliver
    PROVE  /\ conn \in Connection /\ conn # None /\ conn.wire # <<>> /\ conn' = Read(conn)
           /\ Head(conn.wire) \in Queued \cup Answers /\ UNCHANGED <<daemon, bounds>>
           /\ \/ DeliverNotice /\ Head(conn.wire) \in Queued
              \/ /\ DeliverAnswer /\ sent = "served" /\ calls # <<>> /\ conn.serving = "loop"
                 /\ conn.replies = <<>> /\ Answerless(Tail(conn.wire))
                 /\ Head(calls).m = "boot" => Head(conn.wire).snap \in Snapshot
                                              /\ Head(conn.wire).kind = "snapshot"
<1>1. conn \in Connection /\ conn # None /\ conn.wire # <<>> /\ conn' = Read(conn) /\ UNCHANGED <<daemon, bounds>>
  BY DEF TypeOK, Deliver, Read
<1>2. conn.wire \in Seq(Queued \cup Answers)
  BY <1>1, ConnectionFields
<1>3. Head(conn.wire) \in Queued \cup Answers
  BY <1>1, <1>2, RangeOfTail
<1>4. CASE DeliverNotice
  BY <1>1, <1>3, <1>4 DEF DeliverNotice, Answers, AnswerKinds
<1>5. CASE DeliverAnswer
  <2>1. /\ sent = "served" /\ calls # <<>> /\ conn.serving = "loop" /\ conn.replies = <<>>
        /\ AnswersTo(Head(conn.wire), Head(calls).m) /\ Answerless(Tail(conn.wire))
    BY <1>1, <1>5, AnswerOnWire DEF DeliverAnswer
  <2>2. Head(calls).m = "boot" => Head(conn.wire).snap \in Snapshot /\ Head(conn.wire).kind = "snapshot"
    BY <2>1 DEF AnswersTo, Answers
  <2> QED
    BY <1>1, <1>3, <1>5, <2>1, <2>2
<1> QED
  BY <1>4, <1>5 DEF Deliver, DeliverNotice, DeliverAnswer

LEMMA DeliverTyped == ASSUME TypeOK, UnderWay, Line, Deliver PROVE TypeOK'
<1>1. DaemonOK /\ BoundsOK /\ SessionOK /\ ClientOK /\ ConnOK
  BY TypeParts
<1>2. ConnOK' /\ UNCHANGED <<daemon, bounds>>
  BY DeliverCases, ReadTyped DEF ConnOK
<1>3. CASE DeliverNotice /\ Head(conn.wire) \in Queued
  <2>1. SessionOK'
    <3>1. Head(conn.wire) \in Frames
      BY <1>3 DEF Queued, Frames
    <3>2. Append(channel, Head(conn.wire)) \in Seq(Frames)
      BY <1>1, <3>1 DEF SessionOK
    <3> QED
      BY <1>1, <1>3, <3>2 DEF DeliverNotice, SessionOK
  <2> QED
    BY <1>1, <1>2, <1>3, <2>1, KeptTypes, TypePartsNext DEF DeliverNotice
<1>4. CASE DeliverAnswer /\ calls # <<>> /\ (Head(calls).m = "boot" => Head(conn.wire).snap \in Snapshot)
  <2>1. /\ Head(calls) \in Calls /\ Tail(calls) \in Seq(Calls) /\ Head(calls) = calls[1]
        /\ 1 \in DOMAIN calls /\ (Head(calls).m # "boot" => Head(calls).op \in Operations)
    BY <1>4, FirstCall
  <2>2. SessionOK'
    <3>1. box' \in Seq(Snapshot)
      <4>1. CASE Head(calls).to = "box"
        <5>1. Head(conn.wire).snap \in Snapshot
          BY <1>4, <2>1, <4>1 DEF Line
        <5>2. Append(box, Head(conn.wire).snap) \in Seq(Snapshot)
          BY <1>1, <5>1 DEF SessionOK
        <5> QED
          BY <1>4, <4>1, <5>2 DEF DeliverAnswer
      <4>2. CASE Head(calls).to # "box"
        BY <1>1, <1>4, <4>2 DEF DeliverAnswer, SessionOK
      <4> QED
        BY <4>1, <4>2
    <3> QED
      BY <1>1, <1>4, <2>1, <3>1 DEF DeliverAnswer, SessionOK
  <2>3. ClientOK'
    <3>1. CASE Head(calls).to = "pump"
      BY <1>1, <1>4, <2>1, <3>1, TakeAnswerTyped DEF DeliverAnswer
    <3>2. CASE Head(calls).to # "pump"
      BY <1>1, <1>4, <3>2, KeptTypes DEF DeliverAnswer
    <3> QED
      BY <3>1, <3>2
  <2> QED
    BY <1>1, <1>2, <2>2, <2>3, KeptTypes, TypePartsNext
<1> QED
  BY <1>3, <1>4, DeliverCases

LEMMA RefuseTyped == ASSUME TypeOK, Line, RefuseCall PROVE TypeOK'
<1>1. DaemonOK /\ BoundsOK /\ SessionOK /\ ClientOK /\ ConnOK
  BY TypeParts
<1>2. calls # <<>> /\ Head(calls) \in Calls /\ Tail(calls) \in Seq(Calls)
  BY FirstCall DEF RefuseCall
<1>3. UNCHANGED <<daemon, conn, bounds>>
  BY DEF RefuseCall
<1>4. SessionOK'
  BY <1>1, <1>2 DEF RefuseCall, SessionOK
<1>5. ClientOK'
  BY <1>1, <1>2, KeptTypes, TakeFailureTyped DEF RefuseCall
<1> QED
  BY <1>1, <1>3, <1>4, <1>5, KeptTypes, TypePartsNext

LEMMA GiveUpTyped == ASSUME TypeOK, GiveUp PROVE TypeOK'
<1>1. DaemonOK /\ BoundsOK /\ SessionOK /\ ClientOK /\ ConnOK
  BY TypeParts
<1>2. PICK i \in DOMAIN calls :
         calls[i].to = "pump" /\ calls' = [calls EXCEPT ![i].to = "nobody"] /\ TakeFailure(calls[i])
  BY DEF GiveUp
<1>3. calls \in Seq(Calls) /\ calls[i] \in Calls
  BY <1>1 DEF SessionOK
<1>4. calls' \in Seq(Calls)
  <2>1. [calls[i] EXCEPT !.to = "nobody"] \in Calls
    BY <1>3 DEF Calls
  <2>2. calls' = [calls EXCEPT ![i] = [calls[i] EXCEPT !.to = "nobody"]]
    BY <1>2
  <2> QED
    BY <1>3, <2>1, <2>2, ExceptSeq
<1>5. ClientOK'
  BY <1>2, <1>3, TakeFailureTyped
<1>6. SessionOK'
  BY <1>1, <1>4 DEF GiveUp, SessionOK
<1>7. BoundsOK'
  BY <1>1 DEF GiveUp, BoundsOK
<1>8. UNCHANGED <<daemon, conn>>
  BY DEF GiveUp
<1> QED
  BY <1>1, <1>5, <1>6, <1>7, <1>8, KeptTypes, TypePartsNext

LEMMA LoseTyped == ASSUME TypeOK, Lose PROVE TypeOK'
<1>1. DaemonOK /\ BoundsOK /\ SessionOK /\ ClientOK /\ ConnOK
  BY TypeParts
<1>2. SessionOK'
  BY <1>1 DEF Lose, Cut, SessionOK
<1>3. BoundsOK' /\ ConnOK'
  BY <1>1 DEF Lose, Cut, BoundsOK, ConnOK
<1>4. UNCHANGED <<daemon, client>>
  BY DEF Lose
<1> QED
  BY <1>1, <1>2, <1>3, <1>4, KeptTypes, TypePartsNext

LEMMA RestartTyped == ASSUME TypeOK, Restart PROVE TypeOK'
<1>1. DaemonOK /\ BoundsOK /\ SessionOK /\ ClientOK /\ ConnOK
  BY TypeParts
<1>2. SessionOK'
  BY <1>1 DEF Restart, Cut, SessionOK
<1>3. BoundsOK' /\ ConnOK'
  BY <1>1 DEF Restart, Cut, BoundsOK, ConnOK
<1>4. DaemonOK'
  BY <1>1 DEF Restart, DaemonOK, OpStates
<1>5. UNCHANGED client
  BY DEF Restart
<1> QED
  BY <1>1, <1>2, <1>3, <1>4, <1>5, KeptTypes, TypePartsNext

LEMMA ReopenTyped == ASSUME TypeOK, Reopen PROVE TypeOK'
<1>1. DaemonOK /\ BoundsOK /\ SessionOK /\ ClientOK /\ ConnOK
  BY TypeParts
<1>2. [kind |-> "reconnected", inst |-> inst] \in Frames
  BY <1>1 DEF DaemonOK, Frames, Reconnected
<1>3. Append(channel, [kind |-> "reconnected", inst |-> inst]) \in Seq(Frames)
  BY <1>1, <1>2 DEF SessionOK
<1>4. SessionOK'
  BY <1>1, <1>3 DEF Reopen, SessionOK
<1>5. ConnOK'
  BY NewConnTyped DEF Reopen, ConnOK
<1>6. UNCHANGED <<daemon, client, bounds>>
  BY DEF Reopen
<1> QED
  BY <1>1, <1>4, <1>5, <1>6, KeptTypes, TypePartsNext

(* The steps of the client. *)
OnClient == UNCHANGED <<daemon, conn, bounds>>
LEMMA OnClientTyped == ASSUME TypeOK, OnClient, SessionOK', ClientOK' PROVE TypeOK'
  BY TypeParts, TypePartsNext, KeptTypes DEF OnClient

LEMMA FrameFields ==
    ASSUME NEW e \in Frames
    PROVE  /\ e.kind \in {"resync", "reconnected"} \/ e \in Events
           /\ e.kind \in {"resync", "reconnected"} => ~IsEvent(e)
           /\ e.kind \in {"replace", "remove", "invalidate"} => e.of \in Resources /\ e.ver \in Nat
           /\ e.kind = "finished" => e.of \in Operations
<1>1. CASE e \in Change
  BY <1>1 DEF Change, Events, IsEvent, IsChange
<1>2. CASE e \in Finish
  BY <1>2 DEF Finish, Events, IsEvent, IsChange
<1>3. CASE e \in {Resync} \cup Reconnected
  BY <1>3 DEF Resync, Reconnected, IsEvent, IsChange
<1> QED
  BY <1>1, <1>2, <1>3 DEF Frames

LEMMA HandleCases ==
    ASSUME TypeOK, Handle
    PROVE  /\ pc = "idle" /\ channel # <<>> /\ channel' = Tail(channel) /\ OnClient
           /\ UNCHANGED <<sent, box>> /\ Head(channel) \in Frames /\ Tail(channel) \in Seq(Frames)
           /\ ToSet(channel) = ToSet(Tail(channel)) \cup {Head(channel)}
           /\ \/ Head(channel).kind \in {"resync", "reconnected"} /\ HandleNotice(Head(channel))
              \/ Head(channel) \in Events /\ HandleEvent(Head(channel))
<1>1. pc = "idle" /\ channel # <<>> /\ channel' = Tail(channel) /\ OnClient /\ UNCHANGED <<sent, box>>
  BY DEF Handle, OnClient
<1>2. channel \in Seq(Frames)
  BY DEF TypeOK, Frames
<1>3. /\ Head(channel) \in Frames /\ Tail(channel) \in Seq(Frames)
      /\ ToSet(channel) = ToSet(Tail(channel)) \cup {Head(channel)}
  BY <1>1, <1>2, RangeOfTail
<1> QED
  BY <1>1, <1>3, FrameFields DEF Handle

LEMMA ApplyTyped ==
    ASSUME TypeOK, NEW e \in Events, Apply(e)
    PROVE  ClientOK' /\ calls' \in Seq(Calls)
<1>1. ClientOK /\ e.rev \in Nat /\ tracker \in Trackers
  BY TypeParts, EventFields, KnownTyped
<1>2. tracker' \in Trackers
  BY <1>1, RevTyped DEF Apply
<1>3. /\ e.kind \in {"replace", "remove", "invalidate"} => e.of \in Resources /\ e.ver \in Nat
      /\ e.kind = "finished" => e.of \in Operations
  BY FrameFields DEF Frames, Events
<1> QED
  BY <1>1, <1>2, <1>3 DEF Apply, ClientOK, TypeOK

LEMMA RebootstrapTyped == ASSUME TypeOK, Rebootstrap PROVE calls' \in Seq(Calls) /\ pc' = "boot"
  BY CallAsked DEF Rebootstrap

LEMMA HandleTyped == ASSUME TypeOK, Handle PROVE TypeOK'
<1>1. DaemonOK /\ BoundsOK /\ SessionOK /\ ClientOK /\ ConnOK /\ tracker \in Trackers /\ tracker.known \in BOOLEAN
  BY TypeParts, KnownTyped
<1> DEFINE e == Head(channel)
<1>2. ClientOK' /\ calls' \in Seq(Calls)
  <2> HIDE DEF e
  <2>1. CASE HandleNotice(e)
    <3>1. tracker' \in Trackers
      BY <1>1, <2>1, PoisonTyped DEF HandleNotice
    <3>2. calls' \in Seq(Calls) /\ pc' = "boot"
      BY <2>1, RebootstrapTyped DEF HandleNotice
    <3> QED
      BY <1>1, <2>1, <3>1, <3>2 DEF HandleNotice, ClientOK
  <2>2. ASSUME e \in Events, HandleEvent(e) PROVE ClientOK' /\ calls' \in Seq(Calls)
    <3>1. CASE Apply(e)
      BY <2>2, <3>1, ApplyTyped
    <3>2. CASE UNCHANGED <<client, calls>>
      BY <1>1, <3>2, KeptTypes DEF SessionOK
    <3>3. CASE /\ tracker' = [tracker EXCEPT !.changed = tracker.known /\ Observe(e) = "changed"]
               /\ IF Tui THEN UNCHANGED <<pc, calls>> ELSE Rebootstrap
               /\ astray' = (astray \/ Tui)
               /\ UNCHANGED <<mirror, stale, awaited, todo>>
      <4>1. tracker' \in Trackers
        <5>1. (tracker.known /\ Observe(e) = "changed") \in BOOLEAN
          OBVIOUS
        <5> QED
          BY <1>1, <3>3, <5>1, ChangedTyped
      <4>2. calls' \in Seq(Calls) /\ pc' \in {"idle", "boot", "query", "status", "start"}
        BY <1>1, <3>3, RebootstrapTyped DEF SessionOK, ClientOK
      <4> QED
        BY <1>1, <3>3, <4>1, <4>2 DEF ClientOK
    <3> QED
      BY <2>2, <3>1, <3>2, <3>3 DEF HandleEvent
  <2> QED
    BY <2>1, <2>2, HandleCases DEF e
<1>3. SessionOK'
  BY <1>1, <1>2, HandleCases DEF SessionOK
<1> QED
  BY <1>2, <1>3, HandleCases, OnClientTyped

LEMMA TakeBoxTyped == ASSUME TypeOK, TakeBox PROVE TypeOK'
<1>1. DaemonOK /\ BoundsOK /\ SessionOK /\ ClientOK /\ ConnOK
  BY TypeParts
<1>2. Head(box) \in Snapshot /\ Tail(box) \in Seq(Snapshot)
  BY <1>1, RangeOfTail DEF TakeBox, SessionOK
<1>3. ClientOK'
  BY <1>1, <1>2, AdoptTyped DEF TakeBox, ClientOK
<1>4. SessionOK' /\ OnClient
  BY <1>1, <1>2 DEF TakeBox, SessionOK, OnClient
<1> QED
  BY <1>3, <1>4, OnClientTyped

LEMMA RequeryTyped == ASSUME TypeOK, Requery PROVE TypeOK'
<1>1. SessionOK /\ ClientOK
  BY TypeParts
<1>2. calls' \in Seq(Calls)
  <2>1. CASE UNCHANGED calls
    BY <1>1, <2>1 DEF SessionOK
  <2>2. ASSUME NEW o \in todo, Ask("status", o) PROVE calls' \in Seq(Calls)
    <3>1. o \in Operations \cup {None}
      BY <1>1 DEF ClientOK
    <3> QED
      BY <2>2, <3>1, CallAsked
  <2> QED
    BY <2>1, <2>2 DEF Requery
<1>3. SessionOK' /\ OnClient
  BY <1>1, <1>2 DEF Requery, SessionOK, OnClient
<1>4. ClientOK'
  BY <1>1 DEF Requery, ClientOK
<1> QED
  BY <1>3, <1>4, OnClientTyped

LEMMA RefetchTyped == ASSUME TypeOK, NEW r \in Resources, Refetch(r) PROVE TypeOK'
<1>1. SessionOK /\ ClientOK /\ DaemonOK
  BY TypeParts
<1>2. ClientOK'
  BY <1>1 DEF Refetch, ClientOK, DaemonOK
<1>3. UNCHANGED session /\ OnClient
  BY DEF Refetch, OnClient
<1> QED
  BY <1>1, <1>2, <1>3, KeptTypes, OnClientTyped

LEMMA StartTyped == ASSUME TypeOK, NEW o \in Operations, StartOperation(o) PROVE TypeOK'
<1>1. SessionOK /\ ClientOK
  BY TypeParts
<1>2. calls' \in Seq(Calls)
  BY CallAsked DEF StartOperation
<1>3. SessionOK' /\ OnClient
  BY <1>1, <1>2 DEF StartOperation, SessionOK, OnClient
<1>4. ClientOK'
  BY <1>1 DEF StartOperation, ClientOK
<1> QED
  BY <1>3, <1>4, OnClientTyped

(* The line of calls. *)
LEMMA InitLine == Init => Line
<1> SUFFICES ASSUME Init PROVE Line
  OBVIOUS
<1> DEFINE c == Call("boot", None, IF Tui THEN "box" ELSE "pump")
<1>1. calls = <<c>> /\ c.m = "boot" /\ c.to = IF Tui THEN "box" ELSE "pump"
  BY DEF Init, Call
<1>2. box = <<>> /\ ~tracker.known /\ pc = IF Tui THEN "idle" ELSE "boot"
  BY DEF Init
<1> HIDE DEF c
<1>3. Len(calls) = 1 /\ DOMAIN calls = {1} /\ calls[1] = c /\ calls # <<>>
  BY <1>1
<1> QED
  BY <1>1, <1>2, <1>3 DEF Line

LEMMA LineKept == ASSUME Line, UNCHANGED <<calls, pc, box, tracker, astray, app>> PROVE Line'
  BY DEF Line, Deaf, NeedsBootstrap, Tui

(* With no call of the client's under way. *)
Waits == pc \notin {"idle", "query"}
LEMMA LineFree ==
    ASSUME TypeOK, Line, ~Waits, NEW i \in DOMAIN calls
    PROVE  calls[i].to \in {"box", "nobody"}
<1>1. calls[i] \in Calls
  BY DEF TypeOK
<1>2. calls[i].to \in {"pump", "box", "nobody"} /\ calls[i].m \in {"boot", "status", "start"}
  BY <1>1 DEF Calls
<1> QED
  BY <1>2 DEF Line, Waits

LEMMA LineAsk ==
    ASSUME TypeOK, Line, ~Waits, NEW m \in {"boot", "status", "start"}, NEW o, Ask(m, o), pc' = m,
           m # "boot" => o \in Operations,
           UNCHANGED <<box, app>>, tracker'.known = tracker.known, astray => astray',
           Tui \/ m = "boot" \/ (NeedsBootstrap => NeedsBootstrap')
    PROVE  Line'
<1> DEFINE c == Call(m, o, "pump")
           n == Len(calls)
<1>1. n \in Nat /\ DOMAIN calls = 1..n /\ calls \in Seq(Calls)
  BY DEF TypeOK
<1>2. c.to = "pump" /\ c.m = m /\ c.op = o
  BY DEF Call
<1>3. /\ DOMAIN calls' = 1..(n + 1) /\ Len(calls') = n + 1 /\ calls'[n + 1] = c /\ calls' # <<>>
      /\ \A i \in 1..n : calls'[i] = calls[i]
  BY <1>1, AppendProperties, EmptySeq DEF Ask
<1>4. Deaf => Deaf'
  BY DEF Deaf, Waits, Tui
<1> HIDE DEF c
<1>5. ASSUME NEW i \in DOMAIN calls'
      PROVE /\ calls'[i].to = "pump" => i = Len(calls') /\ pc' = calls'[i].m
            /\ calls'[i].to = "box" => i = 1 /\ calls'[i].m = "boot" /\ Tui' /\ ~tracker'.known /\ box' = <<>>
            /\ calls'[i].to = "nobody" /\ calls'[i].m = "boot" => Deaf'
            /\ calls'[i].m # "boot" => calls'[i].op \in Operations
  <2>1. CASE i = n + 1
    BY <1>2, <1>3, <2>1
  <2>2. CASE i # n + 1
    <3>1. i \in DOMAIN calls /\ calls'[i] = calls[i]
      BY <1>1, <1>3, <2>2
    <3> QED
      BY <1>4, <3>1, LineFree DEF Line, Tui
  <2> QED
    BY <2>1, <2>2
<1> QED
  BY <1>2, <1>3, <1>5 DEF Line, Tui

(* The first call leaves. *)
LEMMA LineNext ==
    ASSUME TypeOK, Line, calls # <<>>, calls' = Tail(calls), UNCHANGED app,
           \/ Head(calls).to = "pump" /\ pc' \in {"idle", "query"} /\ UNCHANGED box
           \/ /\ Head(calls).to # "pump" /\ UNCHANGED <<pc, tracker, astray>>
              /\ \/ UNCHANGED box
                 \/ Head(calls).to = "box" /\ Len(box') <= 1
    PROVE  Line'
<1> DEFINE n == Len(calls)
<1>1. n \in Nat \ {0} /\ DOMAIN calls = 1..n /\ calls \in Seq(Calls) /\ Head(calls) = calls[1]
      /\ 1 \in DOMAIN calls
  BY EmptySeq DEF TypeOK
<1>2. /\ DOMAIN calls' = 1..(n - 1) /\ Len(calls') = n - 1
      /\ \A i \in 1..(n - 1) : calls'[i] = calls[i + 1] /\ i + 1 \in DOMAIN calls /\ i + 1 # 1
  BY <1>1, HeadTailProperties
<1>3. CASE Head(calls).to = "pump" /\ pc' \in {"idle", "query"} /\ UNCHANGED box
  <2>1. n = 1
    BY <1>1, <1>3 DEF Line
  <2>2. DOMAIN calls' = {}
    BY <1>2, <2>1
  <2> QED
    BY <1>3, <2>2 DEF Line, Tui
<1>4. CASE /\ Head(calls).to # "pump" /\ UNCHANGED <<pc, tracker, astray>>
           /\ \/ UNCHANGED box
              \/ Head(calls).to = "box" /\ Len(box') <= 1
  <2>1. Deaf' <=> Deaf
    BY <1>4 DEF Deaf, Tui, NeedsBootstrap
  <2>2. ASSUME NEW i \in 1..(n - 1)
        PROVE /\ calls'[i].to = "pump" => i = n - 1 /\ pc' = calls'[i].m
              /\ calls'[i].to # "box"
              /\ calls'[i].to = "nobody" /\ calls'[i].m = "boot" => Deaf'
              /\ calls'[i].m # "boot" => calls'[i].op \in Operations
    <3>1. calls'[i] = calls[i + 1] /\ i + 1 \in DOMAIN calls /\ i + 1 # 1
      BY <1>2
    <3>2. /\ calls[i + 1].to = "pump" => i + 1 = n /\ pc = calls[i + 1].m
          /\ calls[i + 1].to # "box"
          /\ calls[i + 1].to = "nobody" /\ calls[i + 1].m = "boot" => Deaf
          /\ calls[i + 1].m # "boot" => calls[i + 1].op \in Operations
      BY <3>1 DEF Line
    <3>3. i + 1 = n => i = n - 1
      <4>1. n \in Nat /\ i \in Int
        BY <1>1
      <4> HIDE DEF n
      <4> QED
        BY <4>1
    <3>4. pc' = pc
      BY <1>4
    <3> QED
      BY <2>1, <3>1, <3>2, <3>3, <3>4
  <2>3. pc' \notin {"idle", "query"} => calls' # <<>> /\ calls'[Len(calls')].to = "pump"
    <3> SUFFICES ASSUME pc' \notin {"idle", "query"} PROVE calls' # <<>> /\ calls'[Len(calls')].to = "pump"
      OBVIOUS
    <3>1. calls[n].to = "pump"
      BY <1>4 DEF Line
    <3>2. n # 1
      BY <1>1, <1>4, <3>1
    <3>3. n - 1 \in 1..(n - 1) /\ (n - 1) + 1 = n
      BY <1>1, <3>2
    <3>4. calls'[n - 1] = calls[n]
      BY <1>2, <3>3
    <3>5. calls' # <<>>
      BY <1>2, <3>3
    <3> QED
      BY <1>2, <3>1, <3>4, <3>5
  <2>4. Len(box') <= 1 /\ (box' # <<>> => Tui')
    BY <1>1, <1>4 DEF Line, Tui
  <2> QED
    BY <1>2, <2>2, <2>3, <2>4 DEF Line
<1> QED
  BY <1>3, <1>4

LEMMA FailurePc ==
    ASSUME NEW c, TakeFailure(c)
    PROVE  pc' \in {"idle", "query"}
  BY DEF TakeFailure

LEMMA DeliverLine == ASSUME TypeOK, UnderWay, Line, Deliver PROVE Line'
<1>1. CASE DeliverNotice
  BY <1>1, LineKept, DeliverCases DEF DeliverNotice, client, bounds
<1>2. CASE DeliverAnswer /\ calls # <<>>
  <2>1. Head(calls) = calls[1] /\ 1 \in DOMAIN calls
    BY <1>2, FirstCall
  <2>2. UNCHANGED app /\ calls' = Tail(calls)
    BY <1>2, DeliverCases DEF DeliverAnswer, bounds
  <2>3. CASE Head(calls).to = "pump"
    <3>1. pc' \in {"idle", "query"} /\ UNCHANGED box
      BY <1>2, <2>3 DEF DeliverAnswer, TakeAnswer
    <3> QED
      BY <1>2, <2>2, <2>3, <3>1, LineNext
  <2>4. CASE Head(calls).to = "box"
    <3>1. box = <<>> /\ box' = Append(box, Head(conn.wire).snap)
      BY <1>2, <2>1, <2>4 DEF DeliverAnswer, Line
    <3>2. Len(box') <= 1
      BY <3>1
    <3>3. UNCHANGED <<pc, tracker, astray>>
      BY <1>2, <2>4 DEF DeliverAnswer, client
    <3> QED
      BY <1>2, <2>2, <2>4, <3>2, <3>3, LineNext
  <2>5. CASE Head(calls).to \notin {"pump", "box"}
    <3>1. UNCHANGED <<pc, tracker, astray, box>>
      BY <1>2, <2>5 DEF DeliverAnswer, client
    <3> QED
      BY <1>2, <2>2, <2>5, <3>1, LineNext
  <2> QED
    BY <2>3, <2>4, <2>5
<1> QED
  BY <1>1, <1>2, DeliverCases

LEMMA RefuseLine == ASSUME TypeOK, Line, RefuseCall PROVE Line'
<1>1. calls # <<>> /\ calls' = Tail(calls) /\ UNCHANGED <<app, box>>
  BY DEF RefuseCall, bounds
<1>2. CASE Head(calls).to = "pump"
  BY <1>1, <1>2, FailurePc, LineNext DEF RefuseCall
<1>3. CASE Head(calls).to # "pump"
  <2>1. UNCHANGED <<pc, tracker, astray>>
    BY <1>3 DEF RefuseCall, client
  <2> QED
    BY <1>1, <1>3, <2>1, LineNext
<1> QED
  BY <1>2, <1>3

LEMMA GiveUpCases ==
    ASSUME TypeOK, Line, GiveUp
    PROVE  LET n == Len(calls)
           IN /\ n \in Nat \ {0} /\ DOMAIN calls = 1..n /\ calls[n] \in Calls
              /\ calls[n].to = "pump" /\ pc = calls[n].m
              /\ TakeFailure(calls[n]) /\ UNCHANGED <<app, box, channel, conn, sent, daemon>>
              /\ DOMAIN calls' = 1..n /\ Len(calls') = n
              /\ \A i \in 1..n : i # n => calls'[i] = calls[i] /\ calls[i].to # "pump"
              /\ calls'[n] = [calls[n] EXCEPT !.to = "nobody"]
              /\ calls'[n].m = calls[n].m /\ calls'[n].op = calls[n].op /\ calls'[n].to = "nobody"
<1>1. PICK i \in DOMAIN calls :
         calls[i].to = "pump" /\ calls' = [calls EXCEPT ![i].to = "nobody"] /\ TakeFailure(calls[i])
  BY DEF GiveUp
<1> DEFINE n == Len(calls)
<1>2. n \in Nat /\ DOMAIN calls = 1..n /\ calls \in Seq(Calls)
  BY DEF TypeOK
<1>3. i = n /\ pc = calls[n].m /\ n # 0
  BY <1>1, <1>2 DEF Line
<1>4. calls[n] \in Calls
  BY <1>2, <1>3
<1>5. calls' = [calls EXCEPT ![n] = [calls[n] EXCEPT !.to = "nobody"]]
  BY <1>1, <1>3
<1>6. LET d == [calls[n] EXCEPT !.to = "nobody"]
      IN d \in Calls /\ d.m = calls[n].m /\ d.op = calls[n].op /\ d.to = "nobody"
  BY <1>4 DEF Calls
<1>7. DOMAIN calls' = 1..n /\ Len(calls') = n /\ calls'[n] = [calls[n] EXCEPT !.to = "nobody"]
      /\ \A j \in 1..n : j # n => calls'[j] = calls[j]
  <2>1. calls' \in Seq(Calls) /\ Len(calls') = n
    BY <1>2, <1>3, <1>5, <1>6, ExceptSeq
  <2> QED
    BY <1>2, <1>3, <1>5, <2>1
<1>8. \A j \in 1..n : j # n => calls[j].to # "pump"
  BY <1>2 DEF Line
<1>9. UNCHANGED <<app, box, channel, conn, sent, daemon>>
  BY DEF GiveUp
<1> QED
  BY <1>1, <1>2, <1>3, <1>4, <1>6, <1>7, <1>8, <1>9

LEMMA GiveUpLine == ASSUME TypeOK, Line, GiveUp PROVE Line'
<1> DEFINE n == Len(calls)
<1>1. /\ n \in Nat \ {0} /\ DOMAIN calls = 1..n
      /\ calls[n].to = "pump" /\ pc = calls[n].m
      /\ TakeFailure(calls[n]) /\ UNCHANGED <<app, box>>
      /\ DOMAIN calls' = 1..n /\ Len(calls') = n
      /\ \A i \in 1..n : i # n => calls'[i] = calls[i] /\ calls[i].to # "pump"
      /\ calls'[n].m = calls[n].m /\ calls'[n].op = calls[n].op /\ calls'[n].to = "nobody"
  BY GiveUpCases
<1> HIDE DEF n
<1>2. tracker \in Trackers /\ tracker.known \in BOOLEAN
  BY KnownTyped
<1>3. tracker'.known = tracker.known /\ tracker'.changed = tracker.changed
  BY <1>1, <1>2, PoisonTyped DEF TakeFailure
<1>4. calls[n].m = "boot" /\ ~Tui => tracker'.poisoned = tracker.known
  BY <1>1, <1>2, PoisonTyped DEF TakeFailure
<1>5. calls[n].m # "boot" \/ Tui => tracker' = tracker
  BY <1>1 DEF TakeFailure
<1>6. Deaf => Deaf'
  BY <1>1, <1>2, <1>3, <1>4, <1>5 DEF Deaf, TakeFailure, NeedsBootstrap, Tui
<1>7. calls[n].m = "boot" => Deaf'
  BY <1>1, <1>2, <1>3, <1>4, <1>5 DEF Deaf, TakeFailure, NeedsBootstrap, Tui
<1>8. ASSUME NEW i \in 1..n
      PROVE /\ calls'[i].to # "pump"
            /\ calls'[i].to = "box" => i = 1 /\ calls'[i].m = "boot" /\ Tui' /\ ~tracker'.known /\ box' = <<>>
            /\ calls'[i].to = "nobody" /\ calls'[i].m = "boot" => Deaf'
            /\ calls'[i].m # "boot" => calls'[i].op \in Operations
  BY <1>1, <1>3, <1>6, <1>7 DEF Line, Tui
<1>9. pc' \in {"idle", "query"}
  BY <1>1, FailurePc
<1> QED
  BY <1>1, <1>8, <1>9 DEF Line, Tui

LEMMA HandleLine == ASSUME TypeOK, Line, Handle PROVE Line'
<1> DEFINE e == Head(channel)
<1>1. pc = "idle" /\ UNCHANGED <<sent, box>> /\ UNCHANGED app /\ ~Waits
  BY HandleCases DEF OnClient, bounds, Waits
<1>2. tracker \in Trackers /\ tracker.known \in BOOLEAN
  BY KnownTyped
<1> HIDE DEF e
<1>3. CASE HandleNotice(e)
  <2>1. tracker'.known = tracker.known
    BY <1>2, <1>3, PoisonTyped DEF HandleNotice
  <2> QED
    BY <1>1, <1>3, <2>1, LineAsk DEF HandleNotice, Rebootstrap
<1>4. ASSUME e \in Events, HandleEvent(e) PROVE Line'
  <2>1. CASE tracker.known /\ Observe(e) = "apply" /\ Apply(e)
    <3>1. tracker'.known = tracker.known /\ tracker'.poisoned = tracker.poisoned
          /\ tracker'.changed = tracker.changed
      BY <1>2, <1>4, <2>1, EventFields, RevTyped DEF Apply
    <3>2. UNCHANGED <<calls, pc, box, astray, app>>
      BY <1>1, <2>1 DEF Apply
    <3> QED
      BY <3>1, <3>2 DEF Line, Deaf, NeedsBootstrap, Tui
  <2>2. CASE UNCHANGED <<client, calls>>
    BY <1>1, <2>2, LineKept DEF client
  <2>3. CASE /\ tracker.known => Observe(e) \in {"changed", "gap"}
             /\ tracker' = [tracker EXCEPT !.changed = tracker.known /\ Observe(e) = "changed"]
             /\ IF Tui THEN UNCHANGED <<pc, calls>> ELSE Rebootstrap
             /\ astray' = (astray \/ Tui)
    <3>1. tracker'.known = tracker.known
      <4>1. (tracker.known /\ Observe(e) = "changed") \in BOOLEAN
        OBVIOUS
      <4> QED
        BY <1>2, <2>3, <4>1, ChangedTyped
    <3>2. CASE Tui
      BY <1>1, <2>3, <3>1, <3>2 DEF Line, Deaf, Tui
    <3>3. CASE ~Tui
      BY <1>1, <2>3, <3>1, <3>3, LineAsk DEF Rebootstrap
    <3> QED
      BY <3>2, <3>3
  <2> QED
    BY <1>4, <2>1, <2>2, <2>3 DEF HandleEvent
<1> QED
  BY <1>3, <1>4, HandleCases DEF e

LEMMA TakeBoxLine == ASSUME TypeOK, Line, TakeBox PROVE Line'
<1>1. box # <<>> /\ Tui /\ Tui' /\ UNCHANGED <<calls, pc>> /\ (astray => astray') /\ box' = Tail(box)
  BY DEF TakeBox, Line, Tui, bounds
<1>2. box \in Seq(Snapshot) /\ Len(box) <= 1
  BY DEF TypeOK, Line
<1>3. box' = <<>>
  BY <1>1, <1>2
<1> QED
  BY <1>1, <1>3 DEF Line, Deaf

LEMMA RequeryLine == ASSUME TypeOK, Line, Requery PROVE Line'
<1>1. pc = "query" /\ ~Waits /\ UNCHANGED <<box, app, tracker, astray>>
  BY DEF Requery, Waits, bounds
<1>2. CASE pc' = "idle" /\ UNCHANGED calls
  <2>1. \A i \in DOMAIN calls : calls[i].to # "pump"
    BY <1>1, LineFree
  <2> QED
    BY <1>1, <1>2, <2>1 DEF Line, Deaf, NeedsBootstrap, Tui
<1>3. ASSUME NEW o \in todo, pc' = "status", Ask("status", o) PROVE Line'
  <2>1. o \in Operations
    BY DEF TypeOK
  <2>2. NeedsBootstrap => NeedsBootstrap'
    BY <1>1 DEF NeedsBootstrap
  <2> QED
    BY <1>1, <1>3, <2>1, <2>2, LineAsk
<1> QED
  BY <1>2, <1>3 DEF Requery

LEMMA StartLine == ASSUME TypeOK, Line, NEW o \in Operations, StartOperation(o) PROVE Line'
<1>1. pc = "idle" /\ ~Waits /\ UNCHANGED <<box, app, tracker, astray>> /\ Ask("start", o) /\ pc' = "start"
  BY DEF StartOperation, Waits, bounds
<1>2. NeedsBootstrap => NeedsBootstrap'
  BY <1>1 DEF NeedsBootstrap
<1> QED
  BY <1>1, <1>2, LineAsk

LEMMA RefetchLine == ASSUME TypeOK, Line, NEW r \in Resources, Refetch(r) PROVE Line'
  BY LineKept DEF Refetch, session, bounds

LEMMA OnConnLine == ASSUME Line, OnConn PROVE Line'
  BY LineKept DEF OnConn, session, client, bounds

LEMMA CommitLine == ASSUME Line, NEW r, NEW k, Commit(r, k) PROVE Line'
  BY LineKept DEF Commit, session, client
LEMMA FinishLine == ASSUME Line, NEW o, FinishOperation(o) PROVE Line'
  BY LineKept DEF FinishOperation, session, client, bounds
LEMMA PublishLine == ASSUME Line, NEW o, PublishFinish(o) PROVE Line'
  BY LineKept DEF PublishFinish, session, client, bounds
LEMMA RegisterLine == ASSUME Line, Register PROVE Line'
  BY LineKept DEF Register, client, bounds
LEMMA AnswerCallLine == ASSUME Line, AnswerCall PROVE Line'
  BY LineKept DEF AnswerCall, client, bounds
LEMMA ReopenLine == ASSUME Line, Reopen PROVE Line'
  BY LineKept DEF Reopen, client, bounds
LEMMA LoseLine == ASSUME Line, Lose PROVE Line'
  BY LineKept DEF Lose, client
LEMMA RestartLine == ASSUME Line, Restart PROVE Line'
  BY LineKept DEF Restart, client

(* The call under way and its answer. *)
LEMMA Kinds2 ==
    /\ \A x \in Queued : x.kind \notin AnswerKinds
    /\ \A x \in Answers : x.kind \in AnswerKinds /\ ~IsEvent(x)
    /\ \A x \in Frames : x.kind \notin AnswerKinds
  BY DEF Queued, Change, Finish, Resync, Answers, AnswerKinds, IsEvent, IsChange, Frames, Reconnected

LEMMA AnswerlessMore ==
    ASSUME NEW S, NEW s \in Seq(S), NEW x \in S, x.kind \notin AnswerKinds
    PROVE  /\ Answerless(s) => Answerless(Append(s, x))
           /\ \A m : OneAnswer(s, m) => OneAnswer(Append(s, x), m)
<1>1. /\ DOMAIN Append(s, x) = 1..(Len(s) + 1) /\ Append(s, x)[Len(s) + 1] = x
      /\ \A i \in 1..Len(s) : Append(s, x)[i] = s[i]
      /\ DOMAIN s = 1..Len(s) /\ Len(s) \in Nat
  BY AppendProperties
<1>2. \A j \in DOMAIN Append(s, x) : j \in DOMAIN s \/ j = Len(s) + 1
  BY <1>1
<1>3. Answerless(s) => Answerless(Append(s, x))
  BY <1>1, <1>2 DEF Answerless
<1>4. ASSUME NEW m, OneAnswer(s, m) PROVE OneAnswer(Append(s, x), m)
  <2>1. PICK i \in DOMAIN s : /\ AnswersTo(s[i], m)
                              /\ \A j \in DOMAIN s : j # i => s[j].kind \notin AnswerKinds
    BY <1>4 DEF OneAnswer
  <2>2. i \in DOMAIN Append(s, x) /\ Append(s, x)[i] = s[i]
    BY <1>1
  <2>3. \A j \in DOMAIN Append(s, x) : j # i => Append(s, x)[j].kind \notin AnswerKinds
    BY <1>1, <1>2, <2>1
  <2> QED
    BY <2>1, <2>2, <2>3 DEF OneAnswer
<1> QED
  BY <1>3, <1>4

LEMMA AnswerAdded ==
    ASSUME NEW S, NEW s \in Seq(S), NEW x \in S, NEW m, AnswersTo(x, m), Answerless(s)
    PROVE  OneAnswer(Append(s, x), m)
<1>1. /\ DOMAIN Append(s, x) = 1..(Len(s) + 1) /\ Append(s, x)[Len(s) + 1] = x
      /\ \A i \in 1..Len(s) : Append(s, x)[i] = s[i]
      /\ DOMAIN s = 1..Len(s) /\ Len(s) \in Nat
  BY AppendProperties
<1>2. \A j \in DOMAIN Append(s, x) : j # Len(s) + 1 => Append(s, x)[j].kind \notin AnswerKinds
  BY <1>1 DEF Answerless
<1>3. Len(s) + 1 \in DOMAIN Append(s, x)
  BY <1>1
<1> QED
  BY <1>1, <1>2, <1>3 DEF OneAnswer

LEMMA AnswerlessLess ==
    ASSUME NEW S, NEW s \in Seq(S), s # <<>>, Head(s).kind \notin AnswerKinds
    PROVE  /\ Answerless(s) => Answerless(Tail(s))
           /\ \A m : OneAnswer(s, m) => OneAnswer(Tail(s), m)
<1>1. /\ Head(s) = s[1] /\ Len(s) \in Nat /\ DOMAIN s = 1..Len(s)
      /\ DOMAIN Tail(s) = 1..(Len(s) - 1) /\ \A j \in 1..(Len(s) - 1) : Tail(s)[j] = s[j + 1]
  BY HeadTailProperties, EmptySeq
<1>2. \A j \in DOMAIN Tail(s) : j + 1 \in DOMAIN s /\ Tail(s)[j] = s[j + 1]
  BY <1>1
<1>3. Answerless(s) => Answerless(Tail(s))
  BY <1>2 DEF Answerless
<1>4. ASSUME NEW m, OneAnswer(s, m) PROVE OneAnswer(Tail(s), m)
  <2>1. PICK i \in DOMAIN s : /\ AnswersTo(s[i], m)
                              /\ \A j \in DOMAIN s : j # i => s[j].kind \notin AnswerKinds
    BY <1>4 DEF OneAnswer
  <2>2. i # 1
    BY <1>1, <2>1, Kinds2 DEF AnswersTo
  <2>3. i - 1 \in DOMAIN Tail(s) /\ Tail(s)[i - 1] = s[i] /\ i \in Int
    BY <1>1, <2>1, <2>2
  <2>4. ASSUME NEW j \in DOMAIN Tail(s), j # i - 1 PROVE Tail(s)[j].kind \notin AnswerKinds
    <3>1. j + 1 \in DOMAIN s /\ j + 1 # i
      BY <1>1, <1>2, <2>3, <2>4
    <3> QED
      BY <1>2, <2>1, <3>1
  <2> QED
    BY <2>1, <2>3, <2>4 DEF OneAnswer
<1> QED
  BY <1>3, <1>4

LEMMA InitUnderWay == Init => UnderWay
<1> SUFFICES ASSUME Init PROVE UnderWay
  OBVIOUS
<1>1. sent = "no" /\ conn = NewConn
  BY DEF Init
<1>2. Idle(NewConn) /\ NewConn.snap = None /\ NewConn.serving # "captured"
  BY DEF Idle, NewConn, Answerless
<1> QED
  BY <1>1, <1>2 DEF UnderWay

(* A step that touches neither the call under way nor its answer. *)
SameTalk(c, d) == d.serving = c.serving /\ d.replies = c.replies /\ d.wire = c.wire /\ d.snap = c.snap
LEMMA UnderWayKept ==
    ASSUME UnderWay, UNCHANGED sent, conn' # None <=> conn # None,
           conn # None => SameTalk(conn, conn'),
           calls # <<>> => calls' # <<>> /\ Head(calls').m = Head(calls).m
    PROVE  UnderWay'
  BY DEF UnderWay, SameTalk, Idle, Serves

CommitEvent(k, r) == Event(rev + 1, k, r, val[r] + 1)
LEMMA CommitFan ==
    ASSUME TypeOK, NEW r \in Resources, NEW k \in Kinds(r), Commit(r, k)
    PROVE  /\ CommitEvent(k, r) \in Change
           /\ CommitEvent(k, r) = [kind |-> k, rev |-> rev + 1, of |-> r, ver |-> val[r] + 1, inst |-> inst]
           /\ rev' = rev + 1 /\ val' = [val EXCEPT ![r] = val[r] + 1]
           /\ UNCHANGED <<inst, ops, unsaid, session, client>> /\ UNCHANGED app
           /\ \/ UNCHANGED conn /\ (conn # None => ~conn.attached)
              \/ /\ conn \in Connection /\ conn' \in Connection /\ conn # None /\ conn' # None
                 /\ conn.attached
                 /\ conn' = [conn EXCEPT !.domain = Append(@, CommitEvent(k, r))]
<1>1. rev' = rev + 1 /\ val' = [val EXCEPT ![r] = val[r] + 1]
      /\ UNCHANGED <<inst, ops, unsaid, session, client>> /\ UNCHANGED app
  BY DEF Commit
<1>2. rev \in Nat /\ val[r] \in Nat /\ inst \in Nat /\ val'[r] = val[r] + 1
      /\ k \in {"replace", "remove", "invalidate"}
  BY <1>1 DEF TypeOK, Kinds
<1>3. CommitEvent(k, r) = [kind |-> k, rev |-> rev + 1, of |-> r, ver |-> val[r] + 1, inst |-> inst]
      /\ Event(rev', k, r, val'[r]) = CommitEvent(k, r)
  BY <1>1, <1>2 DEF CommitEvent, Event
<1>4. CommitEvent(k, r) \in Change
  BY <1>2, <1>3 DEF Change
<1>5. conn' = Fan("domain", CommitEvent(k, r)) /\ conn \in Connection \cup {None}
  BY <1>3 DEF Commit, TypeOK
<1>6. CASE conn = None \/ ~conn.attached
  BY <1>1, <1>3, <1>4, <1>5, <1>6 DEF Fan
<1>7. CASE conn # None /\ conn.attached
  <2>1. conn' = [conn EXCEPT !.domain = Append(@, CommitEvent(k, r))] /\ conn \in Connection
    BY <1>5, <1>7 DEF Fan
  <2>2. conn' \in Connection
    BY <1>4, <2>1, DomainTyped
  <2> QED
    BY <1>1, <1>3, <1>4, <1>7, <2>1, <2>2, NoneAssumption
<1> QED
  BY <1>6, <1>7

FinishEvent(o) == Event(rev + 1, "finished", o, 0)
LEMMA PublishFan ==
    ASSUME TypeOK, NEW o \in Operations, PublishFinish(o)
    PROVE  /\ FinishEvent(o) \in Finish
           /\ FinishEvent(o) = [kind |-> "finished", rev |-> rev + 1, of |-> o, ver |-> 0, inst |-> inst]
           /\ rev' = rev + 1 /\ UNCHANGED <<inst, val, ops, session, client>> /\ UNCHANGED app
           /\ \/ UNCHANGED conn /\ (conn # None => ~conn.attached)
              \/ /\ conn \in Connection /\ conn' \in Connection /\ conn # None /\ conn' # None
                 /\ conn.attached
                 /\ conn' = [conn EXCEPT !.life = Append(@, FinishEvent(o))]
<1>1. rev' = rev + 1 /\ UNCHANGED <<inst, val, ops, session, client>> /\ UNCHANGED app
  BY DEF PublishFinish, bounds
<1>2. rev \in Nat /\ inst \in Nat
  BY DEF TypeOK
<1>3. /\ FinishEvent(o) = [kind |-> "finished", rev |-> rev + 1, of |-> o, ver |-> 0, inst |-> inst]
      /\ Event(rev', "finished", o, 0) = FinishEvent(o)
  BY <1>1 DEF FinishEvent, Event
<1>4. FinishEvent(o) \in Finish
  BY <1>2, <1>3 DEF Finish
<1>5. conn' = Fan("life", FinishEvent(o)) /\ conn \in Connection \cup {None}
  BY <1>3 DEF PublishFinish, TypeOK
<1>6. CASE conn = None \/ ~conn.attached
  BY <1>1, <1>3, <1>4, <1>5, <1>6 DEF Fan
<1>7. CASE conn # None /\ conn.attached
  <2>1. conn' = [conn EXCEPT !.life = Append(@, FinishEvent(o))] /\ conn \in Connection
    BY <1>5, <1>7 DEF Fan
  <2>2. conn' \in Connection
    BY <1>4, <2>1, LifeTyped
  <2> QED
    BY <1>1, <1>3, <1>4, <1>7, <2>1, <2>2, NoneAssumption
<1> QED
  BY <1>6, <1>7

LEMMA CommitUnderWay ==
    ASSUME TypeOK, UnderWay, NEW r \in Resources, NEW k \in Kinds(r), Commit(r, k)
    PROVE  UnderWay'
<1>1. UNCHANGED <<sent, calls>>
  BY CommitFan DEF session
<1>2. (conn' # None <=> conn # None) /\ (conn # None => SameTalk(conn, conn'))
  <2>1. CASE UNCHANGED conn
    BY <2>1 DEF SameTalk
  <2>2. CASE /\ conn \in Connection /\ conn # None /\ conn' # None
             /\ conn' = [conn EXCEPT !.domain = Append(@, CommitEvent(k, r))]
    <3>1. CommitEvent(k, r) \in Change
      BY CommitFan
    <3> QED
      BY <2>2, <3>1, DomainTyped DEF SameTalk
  <2> QED
    <3> HIDE DEF SameTalk
    <3> QED
      BY <2>1, <2>2, CommitFan
<1> QED
  BY <1>1, <1>2, UnderWayKept

LEMMA PublishUnderWay ==
    ASSUME TypeOK, UnderWay, NEW o \in Operations, PublishFinish(o)
    PROVE  UnderWay'
<1>1. UNCHANGED <<sent, calls>>
  BY PublishFan DEF session
<1>2. (conn' # None <=> conn # None) /\ (conn # None => SameTalk(conn, conn'))
  <2>1. CASE UNCHANGED conn
    BY <2>1 DEF SameTalk
  <2>2. CASE /\ conn \in Connection /\ conn # None /\ conn' # None
             /\ conn' = [conn EXCEPT !.life = Append(@, FinishEvent(o))]
    <3>1. FinishEvent(o) \in Finish
      BY PublishFan
    <3> QED
      BY <2>2, <3>1, LifeTyped DEF SameTalk
  <2> QED
    <3> HIDE DEF SameTalk
    <3> QED
      BY <2>1, <2>2, PublishFan
<1> QED
  BY <1>1, <1>2, UnderWayKept

LEMMA FinishUnderWay ==
    ASSUME UnderWay, NEW o, FinishOperation(o)
    PROVE  UnderWay'
  BY UnderWayKept DEF FinishOperation, session, SameTalk

LEMMA DrainCases ==
    ASSUME TypeOK, Drain
    PROVE  /\ conn \in Connection /\ conn' \in Connection /\ conn # None /\ conn' # None
           /\ conn.serving = "loop" /\ OnConn
           /\ conn' = Offered(Emptied(conn), Merged(conn))
           /\ Took(Emptied(conn), conn', ToSet(Merged(conn)))
<1>1. conn \in Connection /\ conn # None /\ conn.serving = "loop"
  BY DEF TypeOK, Drain, Serving
<1>2. conn' = Offered(Emptied(conn), Merged(conn)) /\ OnConn
  BY DEF Drain, Emptied, OnConn
<1>3. Took(Emptied(conn), conn', ToSet(Merged(conn)))
  BY <1>1, <1>2, EmptiedTyped, MergedTyped, OfferedTook
<1>4. conn' \in Connection /\ conn' # None
  BY <1>3, NoneAssumption DEF Took
<1> QED
  BY <1>1, <1>2, <1>3, <1>4

LEMMA DrainUnderWay == ASSUME TypeOK, UnderWay, Drain PROVE UnderWay'
<1>1. UNCHANGED <<sent, calls>> /\ conn # None /\ conn' # None
  BY DrainCases DEF OnConn, session
<1>2. SameTalk(conn, conn')
  BY DrainCases, EmptiedTyped DEF Took, SameRest, SameTalk
<1> QED
  BY <1>1, <1>2, UnderWayKept

LEMMA OneFrame ==
    ASSUME NEW S, NEW s \in Seq(S), Len(s) = 1
    PROVE  Tail(s) = <<>> /\ Head(s) = s[1] /\ s[1] \in S
<1>1. s # <<>>
  OBVIOUS
<1>2. Tail(s) \in Seq(S) /\ Len(Tail(s)) = 0 /\ Head(s) = s[1]
  BY <1>1, HeadTailProperties
<1>3. Tail(s) = <<>>
  BY <1>2, EmptySeq
<1> QED
  BY <1>2, <1>3

LEMMA WriteUnderWay == ASSUME TypeOK, UnderWay, Write PROVE UnderWay'
<1>1. UNCHANGED <<sent, calls>> /\ conn \in Connection /\ conn.serving = "loop"
  BY WriteCases DEF OnConn, session
<1>2. conn # None
  BY <1>1, NoneAssumption
<1>3. conn.wire \in Seq(Queued \cup Answers) /\ conn.replies \in Seq(Answers) /\ conn.out \in Seq(Queued)
  BY <1>1, ConnectionFields
<1>4. sent \in {"no", "served", "lost"}
  BY DEF TypeOK
<1>5. CASE conn.replies # <<>> /\ conn' = Replies(conn)
  <2>1. sent = "served" /\ Answerless(conn.wire) /\ Len(conn.replies) = 1
        /\ AnswersTo(conn.replies[1], Head(calls).m) /\ calls # <<>>
    BY <1>1, <1>2, <1>4, <1>5 DEF UnderWay, Idle, Serves
  <2>2. /\ conn' \in Connection /\ conn'.replies = Tail(conn.replies)
        /\ conn'.wire = Append(conn.wire, Head(conn.replies))
        /\ conn'.serving = conn.serving /\ conn'.snap = conn.snap
    BY <1>1, <1>5, RepliesTyped
  <2>3. Tail(conn.replies) = <<>> /\ Head(conn.replies) = conn.replies[1] /\ Head(conn.replies) \in Answers
    BY <1>3, <2>1, OneFrame
  <2>4. OneAnswer(conn'.wire, Head(calls).m)
    BY <1>3, <2>1, <2>2, <2>3, AnswerAdded
  <2>5. Serves(conn', Head(calls').m) /\ calls' # <<>> /\ conn' # None
    BY <1>1, <2>1, <2>2, <2>3, <2>4, NoneAssumption DEF Serves
  <2> QED
    BY <1>1, <1>2, <2>1, <2>2, <2>5 DEF UnderWay
<1>6. CASE conn.replies = <<>> /\ conn.out # <<>> /\ conn' = Sends(conn)
  <2>1. /\ conn' \in Connection /\ conn'.replies = conn.replies
        /\ conn'.wire = Append(conn.wire, Head(conn.out))
        /\ conn'.serving = conn.serving /\ conn'.snap = conn.snap
    BY <1>1, <1>6, SendsTyped
  <2>2. Head(conn.out) \in Queued /\ Head(conn.out).kind \notin AnswerKinds
    BY <1>3, <1>6, RangeOfTail, Kinds2
  <2>3. /\ Answerless(conn.wire) => Answerless(conn'.wire)
        /\ \A m : OneAnswer(conn.wire, m) => OneAnswer(conn'.wire, m)
    BY <1>3, <2>1, <2>2, AnswerlessMore
  <2>4. conn' # None
    BY <2>1, NoneAssumption
  <2>5. sent = "no" => Idle(conn')
    BY <1>2, <2>1, <2>3 DEF UnderWay, Idle
  <2>6. sent = "served" => calls # <<>> /\ Serves(conn', Head(calls).m)
    BY <1>1, <1>2, <2>1, <2>3 DEF UnderWay, Serves
  <2> QED
    BY <1>1, <1>2, <2>1, <2>4, <2>5, <2>6 DEF UnderWay
<1> QED
  BY <1>5, <1>6, WriteCases

LEMMA RegisterUnderWay == ASSUME TypeOK, UnderWay, Register PROVE UnderWay'
<1>1. /\ conn \in Connection /\ conn # None /\ conn.serving = "loop" /\ sent = "no" /\ calls # <<>>
      /\ Head(calls).m = "boot" /\ sent' = "served" /\ UNCHANGED calls /\ conn' = Registered(conn)
  BY DEF Register, Asked, Serving, Registered, TypeOK
<1>2. Idle(conn) /\ conn.snap = None
  BY <1>1 DEF UnderWay
<1>3. /\ conn' \in Connection /\ conn'.serving = "registered" /\ conn'.snap = conn.snap
      /\ conn'.replies = conn.replies /\ conn'.wire = conn.wire /\ conn' # None
  BY <1>1, RegisteredTyped, NoneAssumption
<1> QED
  BY <1>1, <1>2, <1>3 DEF UnderWay, Serves, Idle

LEMMA CaptureCases ==
    ASSUME TypeOK, Capture
    PROVE  /\ conn \in Connection /\ conn # None /\ conn.serving = "registered"
           /\ conn' = Captured(conn, Now) /\ OnConn /\ conn' \in Connection /\ conn' # None
           /\ Now \in Snapshot /\ Now # None
<1>1. conn \in Connection /\ conn # None /\ conn.serving = "registered" /\ OnConn
  BY DEF TypeOK, Capture, Serving, OnConn
<1>2. conn' = Captured(conn, Now)
  BY DEF Capture, Captured, Now
<1>3. Now \in Snapshot /\ Now # None
  BY NowTyped
<1>4. conn' \in Connection /\ conn' # None
  BY <1>1, <1>2, <1>3, CapturedTyped, NoneAssumption
<1> QED
  BY <1>1, <1>2, <1>3, <1>4

LEMMA CaptureUnderWay == ASSUME TypeOK, UnderWay, Capture PROVE UnderWay'
<1>1. conn # None /\ conn' # None /\ conn.serving = "registered" /\ UNCHANGED <<sent, calls>>
  BY CaptureCases DEF OnConn, session
<1>2. /\ conn'.serving = "captured" /\ conn'.snap = Now /\ Now # None
      /\ conn'.replies = conn.replies /\ conn'.wire = conn.wire
  BY CaptureCases, CapturedTyped
<1> QED
  BY <1>1, <1>2 DEF UnderWay, Serves, Idle

LEMMA AnswerBootstrapCases ==
    ASSUME TypeOK, UnderWay, AnswerBootstrap
    PROVE  /\ conn \in Connection /\ conn # None /\ conn.serving = "captured" /\ conn.snap # None
           /\ conn.snap \in Snapshot /\ sent = "served" /\ calls # <<>> /\ Head(calls).m = "boot"
           /\ conn.replies = <<>> /\ Answerless(conn.wire)
           /\ conn' = Rebootstrapped(conn) /\ OnConn /\ conn' \in Connection /\ conn' # None
           /\ Took(Fresh(conn), conn', ToSet(Since(conn)))
<1>1. conn \in Connection /\ conn # None /\ conn.serving = "captured" /\ conn' = Rebootstrapped(conn) /\ OnConn
  BY DEF TypeOK, AnswerBootstrap, Serving, OnConn
<1>2. conn.snap # None
  BY <1>1 DEF UnderWay
<1>3. Took(Fresh(conn), conn', ToSet(Since(conn)))
  BY <1>1, <1>2, RebootstrappedTook
<1>4. conn' \in Connection /\ conn' # None /\ conn.snap \in Snapshot
  BY <1>1, <1>2, <1>3, NoneAssumption, ConnectionFields DEF Took
<1>5. sent \in {"no", "served", "lost"}
  BY DEF TypeOK
<1>6. sent = "served" /\ calls # <<>> /\ Head(calls).m = "boot" /\ conn.replies = <<>> /\ Answerless(conn.wire)
  BY <1>1, <1>5 DEF UnderWay, Idle, Serves
<1> QED
  BY <1>1, <1>2, <1>3, <1>4, <1>6

LEMMA AnswerBootstrapUnderWay == ASSUME TypeOK, UnderWay, AnswerBootstrap PROVE UnderWay'
<1>1. /\ conn \in Connection /\ conn.snap # None /\ conn.snap \in Snapshot /\ sent = "served"
      /\ calls # <<>> /\ Head(calls).m = "boot" /\ conn.replies = <<>> /\ Answerless(conn.wire)
      /\ conn' # None /\ UNCHANGED <<sent, calls>>
  BY AnswerBootstrapCases DEF OnConn, session
<1> DEFINE a == [kind |-> "snapshot", snap |-> conn.snap]
<1>2. conn'.serving = "loop" /\ conn'.snap = None /\ conn'.replies = Append(conn.replies, a)
      /\ conn'.wire = conn.wire
  BY <1>1, FreshTyped, AnswerBootstrapCases DEF Took, SameRest
<1>3. AnswersTo(a, Head(calls).m)
  BY <1>1 DEF AnswersTo, Answers
<1>4. Len(conn'.replies) = 1 /\ conn'.replies[1] = a
  BY <1>1, <1>2
<1> QED
  BY <1>1, <1>2, <1>3, <1>4 DEF UnderWay, Serves

LEMMA AnswerCallCases ==
    ASSUME TypeOK, Line, AnswerCall
    PROVE  /\ conn \in Connection /\ conn # None /\ conn.serving = "loop" /\ sent = "no" /\ sent' = "served"
           /\ calls # <<>> /\ Head(calls).m # "boot"
           /\ UNCHANGED <<calls, channel, box, client, bounds, inst, rev, val, unsaid>>
           /\ \E s \in OpStates : conn' = Answered(conn, s)
<1>1. /\ conn \in Connection /\ conn # None /\ conn.serving = "loop" /\ sent = "no" /\ sent' = "served"
      /\ calls # <<>> /\ Head(calls).m # "boot"
      /\ UNCHANGED <<calls, channel, box, client, bounds, inst, rev, val, unsaid>>
      /\ conn' = Answered(conn, ops'[Head(calls).op])
  BY DEF AnswerCall, Asked, Serving, TypeOK, Answered
<1>2. Head(calls).op \in Operations
  BY <1>1, FirstCall
<1>3. ops' \in [Operations -> OpStates]
  BY AnswerCallTyped DEF TypeOK
<1> QED
  BY <1>1, <1>2, <1>3

LEMMA AnswerCallUnderWay == ASSUME TypeOK, Line, UnderWay, AnswerCall PROVE UnderWay'
<1>1. /\ conn \in Connection /\ conn # None /\ conn.serving = "loop" /\ sent = "no" /\ sent' = "served"
      /\ calls # <<>> /\ Head(calls).m # "boot" /\ UNCHANGED calls
  BY AnswerCallCases
<1>2. PICK s \in OpStates : conn' = Answered(conn, s)
  BY AnswerCallCases
<1> DEFINE a == [kind |-> "status", state |-> s]
<1>3. /\ conn' \in Connection /\ conn'.replies = Append(conn.replies, a) /\ conn'.wire = conn.wire
      /\ conn'.serving = conn.serving /\ conn'.snap = conn.snap
  BY <1>1, <1>2, AnsweredTyped
<1>4. Idle(conn) /\ conn' # None
  BY <1>1, <1>3, NoneAssumption DEF UnderWay
<1>5. AnswersTo(a, Head(calls).m)
  BY <1>1 DEF AnswersTo, Answers
<1>6. Len(conn'.replies) = 1 /\ conn'.replies[1] = a
  BY <1>3, <1>4 DEF Idle
<1> QED
  BY <1>1, <1>3, <1>4, <1>5, <1>6 DEF UnderWay, Serves, Idle

LEMMA DeliverUnderWay == ASSUME TypeOK, Line, UnderWay, Deliver PROVE UnderWay'
<1>1. conn \in Connection /\ conn # None /\ conn.wire # <<>> /\ conn' = Read(conn)
  BY DeliverCases
<1>2. /\ conn' \in Connection /\ conn' # None /\ conn'.wire = Tail(conn.wire)
      /\ conn'.serving = conn.serving /\ conn'.snap = conn.snap /\ conn'.replies = conn.replies
  BY <1>1, ReadTyped, NoneAssumption
<1>3. conn.wire \in Seq(Queued \cup Answers)
  BY <1>1, ConnectionFields
<1>4. CASE DeliverNotice
  <2>1. /\ Answerless(conn.wire) => Answerless(conn'.wire)
        /\ \A m : OneAnswer(conn.wire, m) => OneAnswer(conn'.wire, m)
    BY <1>1, <1>2, <1>3, <1>4, AnswerlessLess DEF DeliverNotice
  <2>2. UNCHANGED <<calls, sent>>
    BY <1>4 DEF DeliverNotice
  <2>3. sent = "no" => Idle(conn')
    BY <1>1, <1>2, <2>1 DEF UnderWay, Idle
  <2>4. sent = "served" => calls # <<>> /\ Serves(conn', Head(calls).m)
    BY <1>1, <1>2, <2>1 DEF UnderWay, Serves
  <2> QED
    BY <1>1, <1>2, <2>2, <2>3, <2>4 DEF UnderWay
<1>5. CASE DeliverAnswer /\ conn.serving = "loop" /\ conn.replies = <<>> /\ Answerless(Tail(conn.wire))
  <2>1. sent' = "no" /\ Idle(conn')
    BY <1>2, <1>5 DEF DeliverAnswer, Idle
  <2> QED
    BY <1>1, <1>2, <2>1 DEF UnderWay
<1> QED
  BY <1>4, <1>5, DeliverCases

LEMMA RefuseUnderWay == ASSUME UnderWay, RefuseCall PROVE UnderWay'
<1>1. conn = None /\ conn' = None /\ sent' = "no"
  BY DEF UnderWay, RefuseCall
<1> QED
  BY <1>1 DEF UnderWay

LEMMA GiveUpUnderWay == ASSUME TypeOK, Line, UnderWay, GiveUp PROVE UnderWay'
<1>1. UNCHANGED <<conn, sent>>
  BY DEF GiveUp
<1> DEFINE n == Len(calls)
<1>2. /\ n \in Nat \ {0} /\ DOMAIN calls' = 1..n /\ Len(calls') = n
      /\ \A i \in 1..n : i # n => calls'[i] = calls[i]
      /\ calls'[n].m = calls[n].m
  BY GiveUpCases
<1>3. calls' # <<>> /\ calls'[1].m = calls[1].m
  <2> HIDE DEF n
  <2>1. 1 \in 1..n
    BY <1>2
  <2> QED
    BY <1>2, <2>1
<1>4. calls' \in Seq(Calls) /\ calls \in Seq(Calls)
  BY GiveUpTyped DEF TypeOK
<1>5. Head(calls').m = Head(calls).m
  BY <1>3
<1> QED
  BY <1>1, <1>3, <1>5, UnderWayKept DEF SameTalk

LEMMA AskUnderWay ==
    ASSUME TypeOK, UnderWay, NEW m, NEW o, Ask(m, o), UNCHANGED <<conn, sent>>
    PROVE  UnderWay'
<1>1. calls \in Seq(Calls)
  BY DEF TypeOK
<1>2. calls # <<>> => calls' # <<>> /\ Head(calls').m = Head(calls).m
  BY <1>1 DEF Ask
<1> QED
  BY <1>2, UnderWayKept DEF SameTalk

LEMMA HandleUnderWay == ASSUME TypeOK, UnderWay, Handle PROVE UnderWay'
<1>1. UNCHANGED <<conn, sent>>
  BY DEF Handle
<1>2. CASE UNCHANGED calls
  BY <1>1, <1>2, UnderWayKept DEF SameTalk
<1>3. CASE Ask("boot", None)
  BY <1>1, <1>3, AskUnderWay
<1> QED
  BY <1>2, <1>3 DEF Handle, HandleNotice, HandleEvent, Rebootstrap, Apply

LEMMA RequeryUnderWay == ASSUME TypeOK, UnderWay, Requery PROVE UnderWay'
<1>1. UNCHANGED <<conn, sent>>
  BY DEF Requery
<1>2. CASE UNCHANGED calls
  BY <1>1, <1>2, UnderWayKept DEF SameTalk
<1> QED
  BY <1>1, <1>2, AskUnderWay DEF Requery

LEMMA StartUnderWay == ASSUME TypeOK, UnderWay, NEW o, StartOperation(o) PROVE UnderWay'
  BY AskUnderWay DEF StartOperation

LEMMA TakeBoxUnderWay == ASSUME UnderWay, TakeBox PROVE UnderWay'
  BY UnderWayKept DEF TakeBox, SameTalk

LEMMA RefetchUnderWay == ASSUME UnderWay, NEW r, Refetch(r) PROVE UnderWay'
  BY UnderWayKept DEF Refetch, SameTalk, session

LEMMA CutUnderWay == ASSUME UnderWay, Cut, UNCHANGED calls PROVE UnderWay'
  BY DEF UnderWay, Cut

LEMMA ReopenUnderWay == ASSUME TypeOK, UnderWay, Reopen PROVE UnderWay'
<1>1. sent \in {"no", "served", "lost"}
  BY DEF TypeOK
<1>2. sent = "no" /\ sent' = "no" /\ conn' = NewConn
  BY <1>1 DEF Reopen, UnderWay
<1>3. Idle(NewConn) /\ NewConn.snap = None /\ NewConn.serving # "captured"
  BY DEF Idle, NewConn, Answerless
<1> QED
  BY <1>2, <1>3 DEF UnderWay

-----------------------------------------------------------------------------
Shape == TypeOK /\ Line /\ UnderWay

(* One case per action of Next. *)
LEMMA NextCases ==
    ASSUME Next
    PROVE  \/ \E r \in Resources : \E k \in Kinds(r) : Commit(r, k)
           \/ \E o \in Operations : FinishOperation(o) \/ PublishFinish(o) \/ StartOperation(o)
           \/ Drain \/ Write \/ Register \/ Capture \/ AnswerBootstrap \/ AnswerCall
           \/ Deliver \/ RefuseCall \/ Reopen
           \/ Handle \/ TakeBox \/ Requery \/ \E r \in Resources : Refetch(r)
           \/ GiveUp \/ Lose \/ Restart
  BY DEF Next, ConnectionStep, SessionStep, ClientStep

LEMMA ShapeInit == Init => Shape
  BY InitTyped, InitLine, InitUnderWay DEF Shape

LEMMA ShapeNext == ASSUME Shape, [Next]_vars PROVE Shape'
<1> USE DEF Shape
<1>1. ASSUME NEW r \in Resources, NEW k \in Kinds(r), Commit(r, k) PROVE Shape'
  BY <1>1, CommitTyped, CommitLine, CommitUnderWay
<1>2. ASSUME NEW o \in Operations, FinishOperation(o) PROVE Shape'
  BY <1>2, FinishTyped, FinishLine, FinishUnderWay
<1>3. ASSUME NEW o \in Operations, PublishFinish(o) PROVE Shape'
  BY <1>3, PublishTyped, PublishLine, PublishUnderWay
<1>4. ASSUME NEW o \in Operations, StartOperation(o) PROVE Shape'
  BY <1>4, StartTyped, StartLine, StartUnderWay
<1>5. CASE Drain
  BY <1>5, DrainTyped, OnConnLine, DrainUnderWay, DrainCases
<1>6. CASE Write
  BY <1>6, WriteTyped, OnConnLine, WriteUnderWay, WriteCases
<1>7. CASE Register
  BY <1>7, RegisterTyped, RegisterLine, RegisterUnderWay
<1>8. CASE Capture
  BY <1>8, CaptureTyped, OnConnLine, CaptureUnderWay, CaptureCases
<1>9. CASE AnswerBootstrap
  BY <1>9, AnswerBootstrapTyped, OnConnLine, AnswerBootstrapUnderWay, AnswerBootstrapCases
<1>10. CASE AnswerCall
  BY <1>10, AnswerCallTyped, AnswerCallLine, AnswerCallUnderWay
<1>11. CASE Deliver
  BY <1>11, DeliverTyped, DeliverLine, DeliverUnderWay
<1>12. CASE RefuseCall
  BY <1>12, RefuseTyped, RefuseLine, RefuseUnderWay
<1>13. CASE Reopen
  BY <1>13, ReopenTyped, ReopenLine, ReopenUnderWay
<1>14. CASE Handle
  BY <1>14, HandleTyped, HandleLine, HandleUnderWay
<1>15. CASE TakeBox
  BY <1>15, TakeBoxTyped, TakeBoxLine, TakeBoxUnderWay
<1>16. CASE Requery
  BY <1>16, RequeryTyped, RequeryLine, RequeryUnderWay
<1>17. ASSUME NEW r \in Resources, Refetch(r) PROVE Shape'
  BY <1>17, RefetchTyped, RefetchLine, RefetchUnderWay
<1>18. CASE GiveUp
  BY <1>18, GiveUpTyped, GiveUpLine, GiveUpUnderWay
<1>19. CASE Lose
  <2>1. Cut /\ UNCHANGED calls
    BY <1>19 DEF Lose
  <2> QED
    BY <1>19, <2>1, LoseTyped, LoseLine, CutUnderWay
<1>20. CASE Restart
  <2>1. Cut /\ UNCHANGED calls
    BY <1>20 DEF Restart
  <2> QED
    BY <1>20, <2>1, RestartTyped, RestartLine, CutUnderWay
<1>21. CASE UNCHANGED vars
  <2>1. UNCHANGED <<daemon, session, client, bounds, conn>>
    BY <1>21 DEF vars, daemon, session, client, bounds
  <2>2. TypeOK'
    BY <2>1, TypeParts, TypePartsNext, KeptTypes
  <2>3. Line'
    BY <2>1, LineKept DEF session, client, bounds
  <2>4. UnderWay'
    BY <2>1, UnderWayKept DEF session, SameTalk
  <2> QED
    BY <2>2, <2>3, <2>4
<1> QED
  BY <1>1, <1>2, <1>3, <1>4, <1>5, <1>6, <1>7, <1>8, <1>9, <1>10, <1>11, <1>12, <1>13, <1>14,
     <1>15, <1>16, <1>17, <1>18, <1>19, <1>20, <1>21, NextCases

LEMMA ShapeAlways == Spec => []Shape
<1> QED
  BY ShapeInit, ShapeNext, PTL DEF Spec

(* Every variable of the stream keeps its type: the queues hold events and    *)
(* notices, a snapshot reaches the caller of a bootstrap only.                *)
THEOREM StreamTyping == Spec => []TypeOK
<1>1. Shape => TypeOK
  BY DEF Shape
<1> QED
  BY <1>1, ShapeAlways, PTL

-----------------------------------------------------------------------------
(* What is on its way, and the copies it is compared with.                   *)

MineOf(c) == ToSet(c.wire) \cup ToSet(c.out) \cup ToSet(c.domain) \cup ToSet(c.life)
Mine == IF conn = None THEN {} ELSE MineOf(conn)

(* The snapshots the connection is about to hand over. *)
SnapsOf(c) ==
    ({c.snap} \ {None})
    \cup {x.snap : x \in {y \in ToSet(c.replies) \cup ToSet(c.wire) : y.kind = "snapshot"}}
Snaps == IF conn = None THEN {} ELSE SnapsOf(conn)

(* Revision n of instance i is no later than now. *)
Past(i, n) == i <= inst /\ (i = inst => n <= rev)

(* Events are of the past, a later one of a resource has a later version. *)
News ==
    /\ \A x \in Coming : IsEvent(x) => Past(x.inst, x.rev)
    /\ \A x \in Coming : IsChange(x) => x.ver <= val[x.of] /\ x.kind \in Kinds(x.of)
    /\ \A x \in Mine : IsEvent(x) => x.inst = inst
    /\ \A x, y \in Coming :
          IsChange(x) /\ IsChange(y) /\ x.inst = y.inst /\ x.of = y.of /\ x.rev < y.rev => x.ver <= y.ver

(* They come in their order, the channel's before the wire's before the      *)
(* queue's before those the fan-out has taken.                               *)
OrderOf(c) ==
    /\ Ordered(c.wire) /\ Ordered(c.out) /\ Ordered(c.domain) /\ Ordered(c.life)
    /\ Before(ToSet(c.wire), ToSet(c.out) \cup ToSet(c.domain) \cup ToSet(c.life))
    /\ Before(ToSet(c.out), ToSet(c.domain) \cup ToSet(c.life))
    /\ \A x \in ToSet(c.domain), y \in ToSet(c.life) : x.rev # y.rev
InOrder ==
    /\ Ordered(channel)
    /\ conn # None => OrderOf(conn) /\ Before(ToSet(channel), MineOf(conn))

(* Copy v, of revision n of instance i, has no version yet to come, and none *)
(* newer than the changes that come after it.                                *)
Copy(i, n, v) ==
    /\ Past(i, n) /\ \A r \in Resources : v[r] <= val[r]
    /\ \A x \in Coming : x.kind \in {"replace", "remove"} /\ x.inst = i /\ x.rev > n => v[x.of] <= x.ver
Copies ==
    /\ \A s \in Snaps : s.inst = inst /\ Copy(s.inst, s.rev, s.val)
    /\ \A s \in ToSet(box) : Copy(s.inst, s.rev, s.val)
    /\ Copy(tracker.inst, tracker.rev, mirror)
    /\ stale \subseteq Counts
    /\ ~tracker.known => stale = {} /\ \A r \in Resources : mirror[r] = 0
    /\ calls # <<>> /\ Head(calls).to = "pump" =>
          \A s \in Snaps : \A r \in Resources : mirror[r] <= s.val[r]

Sound == News /\ InOrder /\ Copies

LEMMA ComingIs ==
    /\ Coming = ToSet(channel) \cup Mine
    /\ Coming' = ToSet(channel') \cup Mine'
  BY DEF Coming, Mine, MineOf

LEMMA MineTyped ==
    ASSUME NEW c \in Connection
    PROVE  /\ MineOf(c) \subseteq Queued \cup Answers
           /\ ToSet(c.wire) \subseteq Queued \cup Answers /\ ToSet(c.out) \subseteq Queued
           /\ ToSet(c.domain) \subseteq Change /\ ToSet(c.life) \subseteq Finish
<1>1. c.domain \in Seq(Change) /\ c.life \in Seq(Finish) /\ c.out \in Seq(Queued)
      /\ c.wire \in Seq(Queued \cup Answers)
  BY ConnectionFields
<1>2. ToSet(c.domain) \subseteq Change /\ ToSet(c.life) \subseteq Finish /\ ToSet(c.out) \subseteq Queued
      /\ ToSet(c.wire) \subseteq Queued \cup Answers
  BY <1>1, Ranges
<1> QED
  BY <1>2 DEF MineOf, Queued

LEMMA ComingTyped ==
    ASSUME TypeOK
    PROVE  /\ Coming \subseteq Frames \cup Answers /\ Mine \subseteq Queued \cup Answers
           /\ \A x \in Coming : /\ IsEvent(x) => x \in Events
                                /\ IsChange(x) => x \in Change
<1>1. Mine \subseteq Queued \cup Answers
  BY MineTyped DEF Mine, TypeOK
<1>2. channel \in Seq(Frames)
  BY DEF TypeOK, Frames
<1>3. ToSet(channel) \subseteq Frames
  BY <1>2, Ranges
<1>4. Coming \subseteq Frames \cup Answers
  BY <1>1, <1>3, ComingIs DEF Frames, Queued
<1>5. ASSUME NEW x \in Coming, IsEvent(x) PROVE x \in Events
  BY <1>4, <1>5, Kinds2, FrameFields DEF IsEvent, IsChange
<1>6. ASSUME NEW x \in Coming, IsChange(x) PROVE x \in Change
  <2>1. x \in Events
    BY <1>5, <1>6 DEF IsEvent
  <2> QED
    BY <1>6, <2>1 DEF Events, IsChange, Finish
<1> QED
  BY <1>1, <1>4, <1>5, <1>6

LEMMA ChangeFields ==
    ASSUME NEW x \in Change
    PROVE  /\ x.rev \in Nat /\ x.inst \in Nat /\ x.ver \in Nat /\ x.of \in Resources /\ IsChange(x)
           /\ IsEvent(x) /\ x.kind # "finished"
  BY DEF Change, IsChange, IsEvent

LEMMA SnapshotFields ==
    ASSUME NEW s \in Snapshot
    PROVE  s.rev \in Nat /\ s.inst \in Nat /\ s.val \in [Resources -> Nat]
  BY DEF Snapshot

LEMMA SnapsTyped ==
    ASSUME TypeOK
    PROVE  Snaps \subseteq Snapshot /\ ToSet(box) \subseteq Snapshot
<1>1. ASSUME NEW c \in Connection PROVE SnapsOf(c) \subseteq Snapshot
  <2>1. c.replies \in Seq(Answers)
    BY ConnectionFields
  <2>2. ToSet(c.replies) \subseteq Answers /\ ToSet(c.wire) \subseteq Queued \cup Answers
    BY <2>1, MineTyped, Ranges
  <2>3. \A x \in Queued \cup Answers : x.kind = "snapshot" => x.snap \in Snapshot
    BY Kinds2 DEF Answers, AnswerKinds
  <2>4. c.snap \in Snapshot \cup {None}
    BY ConnectionFields
  <2> QED
    BY <2>2, <2>3, <2>4 DEF SnapsOf
<1> QED
  BY <1>1, Ranges DEF TypeOK, Snaps

(* With no answer under way there is no snapshot. *)
LEMMA SnapsNone ==
    ASSUME TypeOK, UnderWay, sent # "served"
    PROVE  Snaps = {}
<1>1. conn = None \/ (sent = "no" /\ conn # None)
  BY DEF TypeOK, UnderWay
<1>2. CASE sent = "no" /\ conn # None
  <2>1. conn.snap = None /\ conn.replies = <<>> /\ Answerless(conn.wire)
    BY <1>2 DEF UnderWay, Idle
  <2>2. \A x \in ToSet(conn.wire) : x.kind # "snapshot"
    BY <2>1 DEF Answerless, AnswerKinds, ToSet
  <2>3. ToSet(conn.replies) = {}
    BY <2>1, Ranges
  <2> QED
    BY <2>1, <2>2, <2>3 DEF Snaps, SnapsOf
<1> QED
  BY <1>1, <1>2 DEF Snaps

(* What a step may do to what is on its way: bring no event, bring one newer *)
(* than all, or start another instance.                                      *)
NoNews ==
    /\ UNCHANGED <<inst, rev, val>>
    /\ \A x \in Coming' : IsEvent(x) => x \in Coming
    /\ \A x \in Mine' : IsEvent(x) => x \in Mine
Advance == \A i, n \in Nat : \A v \in [Resources -> Nat] : Copy(i, n, v) => Copy(i, n, v)'

LEMMA NoNewsAdvance == ASSUME TypeOK, News, NoNews PROVE News' /\ Advance
<1>1. News'
  BY DEF News, NoNews, IsEvent, Past
<1>2. Advance
  BY DEF NoNews, Advance, Copy, Past, IsEvent, IsChange
<1> QED
  BY <1>1, <1>2

(* A new event e of the daemon's. *)
OneNew(e) ==
    /\ e \in Events /\ e.rev = rev + 1 /\ e.inst = inst /\ rev' = rev + 1 /\ UNCHANGED inst
    /\ Coming' \subseteq Coming \cup {e} /\ Mine' \subseteq Mine \cup {e}
    /\ val' \in [Resources -> Nat] /\ \A r \in Resources : val[r] <= val'[r]
    /\ IsChange(e) => e.ver = val'[e.of] /\ e.kind \in Kinds(e.of)

LEMMA OneNewAdvance == ASSUME TypeOK, News, NEW e, OneNew(e) PROVE News' /\ Advance
<1>1. rev \in Nat /\ inst \in Nat /\ val \in [Resources -> Nat]
  BY DEF TypeOK
<1>2. /\ \A x \in Coming : IsEvent(x) => x.rev \in Nat /\ x.inst \in Nat
      /\ \A x \in Coming : IsChange(x) => x.ver \in Nat /\ x.of \in Resources
  BY ComingTyped, EventFields, ChangeFields
<1>3. e.rev \in Nat /\ e.inst \in Nat /\ (IsChange(e) => e.of \in Resources)
  BY EventFields, ChangeFields DEF OneNew, Events, IsChange, Finish
<1>4. \A i, n \in Nat : Past(i, n) => Past(i, n)'
  BY <1>1 DEF Past, OneNew
<1>5. Past(e.inst, e.rev)'
  BY <1>1 DEF Past, OneNew
<1>6. ASSUME NEW x \in Coming', IsEvent(x) PROVE Past(x.inst, x.rev)'
  <2>1. CASE x \in Coming
    BY <1>2, <1>4, <1>6, <2>1 DEF News
  <2>2. CASE x = e
    BY <1>5, <2>2
  <2> QED
    BY <2>1, <2>2 DEF OneNew
<1>7. ASSUME NEW x \in Coming', IsChange(x) PROVE x.ver <= val'[x.of] /\ x.kind \in Kinds(x.of)
  <2>1. CASE x \in Coming
    <3>1. x.ver <= val[x.of] /\ x.kind \in Kinds(x.of) /\ x.ver \in Nat /\ x.of \in Resources
      BY <1>2, <1>7, <2>1 DEF News
    <3>2. val[x.of] <= val'[x.of] /\ val[x.of] \in Nat /\ val'[x.of] \in Nat
      BY <1>1, <3>1 DEF OneNew
    <3> QED
      BY <3>1, <3>2
  <2>2. CASE x = e
    BY <1>3, <1>7, <2>2 DEF OneNew
  <2> QED
    BY <2>1, <2>2 DEF OneNew
<1>8. ASSUME NEW x \in Mine', IsEvent(x) PROVE x.inst = inst'
  BY <1>8 DEF OneNew, News
<1>9. ASSUME NEW x \in Coming', NEW y \in Coming', IsChange(x), IsChange(y), x.inst = y.inst, x.of = y.of,
             x.rev < y.rev
      PROVE  x.ver <= y.ver
  <2>1. CASE x \in Coming /\ y \in Coming
    BY <1>9, <2>1 DEF News
  <2>2. CASE y = e
    <3>1. e.ver = val'[x.of]
      BY <1>9, <2>2 DEF OneNew
    <3> QED
      BY <1>7, <1>9, <2>2, <3>1
  <2>3. CASE x = e /\ y \in Coming
    <3>1. Past(y.inst, y.rev) /\ y.rev \in Nat
      BY <1>2, <1>9, <2>3 DEF News, IsEvent
    <3> QED
      BY <1>1, <1>9, <2>3, <3>1 DEF Past, OneNew
  <2> QED
    BY <2>1, <2>2, <2>3 DEF OneNew
<1>10. News'
  BY <1>6, <1>7, <1>8, <1>9 DEF News
<1>11. ASSUME NEW i \in Nat, NEW n \in Nat, NEW v \in [Resources -> Nat], Copy(i, n, v)
       PROVE  Copy(i, n, v)'
  <2>1. \A r \in Resources : v[r] <= val'[r]
    <3> SUFFICES ASSUME NEW r \in Resources PROVE v[r] <= val'[r]
      OBVIOUS
    <3>1. v[r] <= val[r] /\ val[r] <= val'[r] /\ v[r] \in Nat /\ val[r] \in Nat /\ val'[r] \in Nat
      BY <1>1, <1>11 DEF Copy, OneNew
    <3> QED
      BY <3>1
  <2>2. ASSUME NEW x \in Coming', x.kind \in {"replace", "remove"}, x.inst = i, x.rev > n
        PROVE  v[x.of] <= x.ver
    <3>1. CASE x \in Coming
      BY <1>11, <2>2, <3>1 DEF Copy
    <3>2. CASE x = e
      BY <1>3, <2>1, <2>2, <3>2 DEF OneNew, IsChange
    <3> QED
      BY <3>1, <3>2 DEF OneNew
  <2>3. Past(i, n)'
    BY <1>4, <1>11 DEF Copy
  <2> QED
    BY <2>1, <2>2, <2>3 DEF Copy
<1> QED
  BY <1>10, <1>11 DEF Advance

LEMMA RestartAdvance == ASSUME TypeOK, News, Restart PROVE News' /\ Advance
<1>1. inst \in Nat /\ inst' = inst + 1 /\ UNCHANGED <<val, channel>> /\ conn' = None
  BY DEF TypeOK, Restart, Cut
<1>2. Mine' = {} /\ Coming' = ToSet(channel) /\ Coming' \subseteq Coming
  BY <1>1, ComingIs DEF Mine
<1>3. \A i, n \in Nat : Past(i, n) => Past(i, n)'
  BY <1>1 DEF Past
<1>4. \A x \in Coming : IsEvent(x) => x.rev \in Nat /\ x.inst \in Nat
  BY ComingTyped, EventFields
<1>5. News'
  BY <1>1, <1>2, <1>3, <1>4 DEF News
<1>6. Advance
  BY <1>1, <1>2, <1>3 DEF Advance, Copy
<1> QED
  BY <1>5, <1>6

(* The same frames, or fewer. *)
LEMMA NoNewsKept == ASSUME UNCHANGED <<inst, rev, val, channel, conn>> PROVE NoNews
  BY DEF NoNews, Coming, Mine, MineOf

LEMMA NoNewsConn ==
    ASSUME UNCHANGED <<inst, rev, val, channel>>, conn # None, conn' # None,
           \A x \in MineOf(conn') : IsEvent(x) => x \in MineOf(conn)
    PROVE  NoNews
  BY ComingIs DEF NoNews, Mine

(* Order, step by step. *)
LEMMA BeforeLess ==
    ASSUME NEW S, NEW T, NEW U, NEW V, Before(S, T),
           \A x \in U : IsEvent(x) => x \in S, \A x \in V : IsEvent(x) => x \in T
    PROVE  Before(U, V)
  BY DEF Before, Lower

LEMMA InOrderConn ==
    ASSUME InOrder, UNCHANGED channel, conn # None, OrderOf(conn'),
           \A x \in MineOf(conn') : IsEvent(x) => x \in MineOf(conn)
    PROVE  InOrder'
<1>1. Before(ToSet(channel), MineOf(conn'))
  BY BeforeLess DEF InOrder
<1> QED
  BY <1>1 DEF InOrder, OrderOf, MineOf

LEMMA MergedQueue ==
    ASSUME NEW c \in Connection, OrderOf(c), NEW k, \A x \in MineOf(c) : IsEvent(x) => x.inst = k
    PROVE  Ordered(Merged(c)) /\ ToSet(Merged(c)) = ToSet(c.domain) \cup ToSet(c.life)
<1> DEFINE T == ToSet(c.domain) \cup ToSet(c.life)
<1>1. c.domain \in Seq(Change) /\ c.life \in Seq(Finish)
  BY ConnectionFields
<1>2. c.domain \in Seq(T) /\ c.life \in Seq(T)
  BY <1>1, RangeIn
<1>3. T \subseteq Events /\ T \subseteq MineOf(c)
  BY MineTyped DEF Events, MineOf
<1>4. \A x \in T : IsEvent(x) /\ x.rev \in Nat
  BY <1>3, EventFields
<1>5. Queue(T, k)
  BY <1>3, <1>4 DEF Queue
<1> HIDE DEF T
<1> QED
  BY <1>2, <1>5, MergedOrdered DEF OrderOf

LEMMA OfferedOrderly ==
    ASSUME NEW q \in Connection, q.domain = <<>>, q.life = <<>>, NEW s \in Seq(Events), NEW k,
           \A x \in ToSet(q.out) \cup ToSet(s) : IsEvent(x) => x.inst = k,
           Ordered(q.wire), Ordered(q.out), Ordered(s),
           Before(ToSet(q.wire), ToSet(q.out) \cup ToSet(s)), Before(ToSet(q.out), ToSet(s))
    PROVE  LET p == Offered(q, s)
           IN /\ OrderOf(p) /\ MineOf(p) \subseteq MineOf(q) \cup ToSet(s) \cup {Resync}
              /\ SnapsOf(p) = SnapsOf(q)
<1> DEFINE p == Offered(q, s)
<1>1. Took(q, p, ToSet(s))
  BY OfferedTook
<1>2. Ordered(p.out)
  BY OfferedOrdered
<1> HIDE DEF p
<1>3. p.wire = q.wire /\ p.domain = <<>> /\ p.life = <<>> /\ p.replies = q.replies /\ p.snap = q.snap
  BY <1>1 DEF Took, SameRest
<1>4. ToSet(p.out) \subseteq ToSet(q.out) \cup ToSet(s) \cup {Resync}
  BY <1>1 DEF Took
<1>5. \A x \in ToSet(p.out) : IsEvent(x) => x \in ToSet(q.out) \cup ToSet(s)
  BY <1>4, NoticeIsNoEvent
<1>6. Before(ToSet(p.wire), ToSet(p.out))
  BY <1>3, <1>5, BeforeLess
<1>7. ToSet(p.domain) = {} /\ ToSet(p.life) = {}
  BY <1>3, Ranges
<1>8. OrderOf(p)
  BY <1>2, <1>3, <1>6, <1>7, OrderedEmpty DEF OrderOf, Before
<1>9. MineOf(p) \subseteq MineOf(q) \cup ToSet(s) \cup {Resync}
  BY <1>3, <1>4, <1>7 DEF MineOf
<1>10. SnapsOf(p) = SnapsOf(q)
  BY <1>3 DEF SnapsOf
<1> QED
  BY <1>8, <1>9, <1>10 DEF p

(* What each step of the connection does to it. *)
Orderly(c, d) == OrderOf(d) /\ (\A x \in MineOf(d) : IsEvent(x) => x \in MineOf(c))

LEMMA DrainOrderly ==
    ASSUME TypeOK, News, InOrder, Drain
    PROVE  Orderly(conn, conn') /\ SnapsOf(conn') = SnapsOf(conn)
<1> DEFINE q == Emptied(conn)
           s == Merged(conn)
<1>1. conn \in Connection /\ conn # None /\ conn' = Offered(q, s)
  BY DrainCases
<1>2. /\ q \in Connection /\ q.domain = <<>> /\ q.life = <<>>
      /\ q.snap = conn.snap /\ q.replies = conn.replies /\ q.wire = conn.wire /\ q.out = conn.out
  BY <1>1, EmptiedTyped
<1>3. OrderOf(conn)
  BY <1>1 DEF InOrder
<1>4. \A x \in MineOf(conn) : IsEvent(x) => x.inst = inst
  BY <1>1 DEF News, Mine
<1>5. s \in Seq(Events) /\ Ordered(s) /\ ToSet(s) = ToSet(conn.domain) \cup ToSet(conn.life)
  BY <1>1, <1>3, <1>4, MergedTyped, MergedQueue
<1> HIDE DEF q, s
<1>6. \A x \in ToSet(q.out) \cup ToSet(s) : IsEvent(x) => x.inst = inst
  BY <1>2, <1>4, <1>5 DEF MineOf
<1>7. Ordered(q.wire) /\ Ordered(q.out) /\ Before(ToSet(q.wire), ToSet(q.out) \cup ToSet(s))
      /\ Before(ToSet(q.out), ToSet(s))
  BY <1>2, <1>3, <1>5 DEF OrderOf, Before
<1>8. /\ OrderOf(conn') /\ MineOf(conn') \subseteq MineOf(q) \cup ToSet(s) \cup {Resync}
      /\ SnapsOf(conn') = SnapsOf(q)
  BY <1>1, <1>2, <1>5, <1>6, <1>7, OfferedOrderly
<1>9. MineOf(q) \cup ToSet(s) \subseteq MineOf(conn)
  <2>1. ToSet(q.domain) = {} /\ ToSet(q.life) = {}
    BY <1>2, Ranges
  <2> QED
    BY <1>2, <1>5, <2>1 DEF MineOf
<1>10. SnapsOf(q) = SnapsOf(conn)
  BY <1>2 DEF SnapsOf
<1> QED
  BY <1>8, <1>9, <1>10, NoticeIsNoEvent DEF Orderly

LEMMA WriteOrderly ==
    ASSUME TypeOK, InOrder, Write
    PROVE  Orderly(conn, conn') /\ SnapsOf(conn') \subseteq SnapsOf(conn)
<1>1. conn \in Connection /\ conn # None
  BY WriteCases, NoneAssumption
<1>2. /\ conn.wire \in Seq(Queued \cup Answers) /\ conn.out \in Seq(Queued \cup Answers)
      /\ conn.out \in Seq(Queued) /\ conn.replies \in Seq(Answers)
  <2>1. Queued \subseteq Queued \cup Answers
    OBVIOUS
  <2>2. conn.out \in Seq(Queued) /\ conn.wire \in Seq(Queued \cup Answers) /\ conn.replies \in Seq(Answers)
    BY <1>1, ConnectionFields
  <2>3. ToSet(conn.out) \subseteq Queued \cup Answers
    BY <2>2, Ranges
  <2> QED
    BY <2>2, <2>3, RangeIn
<1>3. OrderOf(conn)
  BY <1>1 DEF InOrder
<1>4. CASE conn.replies # <<>> /\ conn' = Replies(conn)
  <2> DEFINE a == Head(conn.replies)
  <2>1. /\ conn'.replies = Tail(conn.replies) /\ conn'.wire = Append(conn.wire, a)
        /\ conn'.domain = conn.domain /\ conn'.life = conn.life /\ conn'.out = conn.out
        /\ conn'.snap = conn.snap
    BY <1>1, <1>4, RepliesTyped
  <2>2. a \in Answers /\ ToSet(conn.replies) = ToSet(Tail(conn.replies)) \cup {a}
    BY <1>2, <1>4, RangeOfTail
  <2>3. ~IsEvent(a)
    BY <2>2, Kinds2
  <2> HIDE DEF a
  <2>4. ToSet(conn'.wire) = ToSet(conn.wire) \cup {a}
    BY <1>2, <2>1, <2>2, RangeOfAppend
  <2>5. Ordered(conn'.wire)
    <3>1. Before(ToSet(conn.wire), {a})
      BY <2>3 DEF Before, Lower
    <3>2. Ordered(conn.wire) /\ a \in Queued \cup Answers
      BY <1>3, <2>2 DEF OrderOf
    <3> QED
      BY <1>2, <2>1, <3>1, <3>2, OrderedAppend
  <2>6. OrderOf(conn')
    BY <1>3, <2>1, <2>3, <2>4, <2>5 DEF OrderOf, Before, Lower
  <2>7. \A x \in MineOf(conn') : IsEvent(x) => x \in MineOf(conn)
    BY <2>1, <2>3, <2>4 DEF MineOf
  <2>8. SnapsOf(conn') \subseteq SnapsOf(conn)
    BY <2>1, <2>2, <2>4 DEF SnapsOf
  <2> QED
    BY <2>6, <2>7, <2>8 DEF Orderly
<1>5. CASE conn.replies = <<>> /\ conn.out # <<>> /\ conn' = Sends(conn)
  <2> DEFINE a == Head(conn.out)
  <2>1. /\ conn'.out = Tail(conn.out) /\ conn'.wire = Append(conn.wire, a)
        /\ conn'.domain = conn.domain /\ conn'.life = conn.life /\ conn'.replies = conn.replies
        /\ conn'.snap = conn.snap
    BY <1>1, <1>5, SendsTyped
  <2>2. a \in Queued /\ ToSet(conn.out) = ToSet(Tail(conn.out)) \cup {a}
    BY <1>2, <1>5, RangeOfTail
  <2>3. Ordered(Tail(conn.out)) /\ Before({a}, ToSet(Tail(conn.out)))
    BY <1>2, <1>3, <1>5, OrderedTail DEF OrderOf
  <2> HIDE DEF a
  <2>4. ToSet(conn'.wire) = ToSet(conn.wire) \cup {a}
    BY <1>2, <2>1, <2>2, RangeOfAppend
  <2>5. Ordered(conn'.wire)
    <3>1. Before(ToSet(conn.wire), {a})
      BY <1>3, <2>2 DEF OrderOf, Before
    <3>2. Ordered(conn.wire) /\ a \in Queued \cup Answers
      BY <1>3, <2>2 DEF OrderOf
    <3> QED
      BY <1>2, <2>1, <3>1, <3>2, OrderedAppend
  <2>6. OrderOf(conn')
    BY <1>3, <2>1, <2>2, <2>3, <2>4, <2>5 DEF OrderOf, Before
  <2>7. MineOf(conn') \subseteq MineOf(conn)
    BY <2>1, <2>2, <2>4 DEF MineOf
  <2>8. SnapsOf(conn') \subseteq SnapsOf(conn)
    <3>1. a.kind # "snapshot"
      BY <2>2, Kinds2 DEF AnswerKinds
    <3> QED
      BY <2>1, <2>4, <3>1 DEF SnapsOf
  <2> QED
    BY <2>6, <2>7, <2>8 DEF Orderly
<1> QED
  BY <1>4, <1>5, WriteCases

LEMMA AnswerBootstrapOrderly ==
    ASSUME TypeOK, UnderWay, News, InOrder, AnswerBootstrap
    PROVE  Orderly(conn, conn') /\ SnapsOf(conn') \subseteq SnapsOf(conn)
<1> DEFINE q == Fresh(conn)
           s == Since(conn)
<1>1. conn \in Connection /\ conn # None /\ conn.snap # None /\ conn' = Offered(q, s)
      /\ conn.snap \in Snapshot /\ conn.replies = <<>>
  BY AnswerBootstrapCases, RebootstrappedIs
<1>2. /\ q \in Connection /\ q.domain = <<>> /\ q.life = <<>> /\ q.out = <<>>
      /\ q.snap = None /\ q.replies = Append(conn.replies, [kind |-> "snapshot", snap |-> conn.snap])
      /\ q.wire = conn.wire
  BY <1>1, FreshTyped
<1>3. OrderOf(conn)
  BY <1>1 DEF InOrder
<1>4. \A x \in MineOf(conn) : IsEvent(x) => x.inst = inst
  BY <1>1 DEF News, Mine
<1>5. s \in Seq(Events) /\ Ordered(s) /\ ToSet(s) \subseteq ToSet(conn.domain) \cup ToSet(conn.life)
  <2>1. Merged(conn) \in Seq(Events) /\ Ordered(Merged(conn))
        /\ ToSet(Merged(conn)) = ToSet(conn.domain) \cup ToSet(conn.life)
    BY <1>1, <1>3, <1>4, MergedTyped, MergedQueue
  <2>2. Ordered(s)
    BY <2>1, AmongOrdered DEF Since
  <2> QED
    BY <1>1, <2>1, <2>2, SinceTyped
<1> HIDE DEF q, s
<1>6. ToSet(q.out) = {}
  BY <1>2, Ranges
<1>7. \A x \in ToSet(q.out) \cup ToSet(s) : IsEvent(x) => x.inst = inst
  BY <1>4, <1>5, <1>6 DEF MineOf
<1>8. Ordered(q.wire) /\ Ordered(q.out) /\ Before(ToSet(q.wire), ToSet(q.out) \cup ToSet(s))
      /\ Before(ToSet(q.out), ToSet(s))
  BY <1>2, <1>3, <1>5, <1>6, OrderedEmpty DEF OrderOf, Before
<1>9. /\ OrderOf(conn') /\ MineOf(conn') \subseteq MineOf(q) \cup ToSet(s) \cup {Resync}
      /\ SnapsOf(conn') = SnapsOf(q)
  BY <1>1, <1>2, <1>5, <1>7, <1>8, OfferedOrderly
<1>10. MineOf(q) \cup ToSet(s) \subseteq MineOf(conn)
  <2>1. ToSet(q.domain) = {} /\ ToSet(q.life) = {}
    BY <1>2, Ranges
  <2> QED
    BY <1>2, <1>5, <1>6, <2>1 DEF MineOf
<1>11. SnapsOf(q) \subseteq SnapsOf(conn)
  <2> DEFINE a == [kind |-> "snapshot", snap |-> conn.snap]
  <2>1. a \in Answers /\ a.snap = conn.snap
    BY <1>1 DEF Answers
  <2>2. conn.replies \in Seq(Answers)
    BY <1>1, ConnectionFields
  <2> HIDE DEF a
  <2>3. ToSet(q.replies) = ToSet(conn.replies) \cup {a}
    BY <1>2, <2>1, <2>2, RangeOfAppend DEF a
  <2> QED
    BY <1>1, <1>2, <2>1, <2>3 DEF SnapsOf
<1> QED
  BY <1>9, <1>10, <1>11, NoticeIsNoEvent DEF Orderly

LEMMA SameFrames ==
    ASSUME NEW c, NEW d, OrderOf(c), d.wire = c.wire, d.out = c.out, d.domain = c.domain, d.life = c.life
    PROVE  Orderly(c, d) /\ MineOf(d) = MineOf(c)
  BY DEF Orderly, OrderOf, MineOf

LEMMA RegisterOrderly ==
    ASSUME TypeOK, InOrder, Register
    PROVE  /\ conn # None /\ conn' # None /\ Orderly(conn, conn') /\ SnapsOf(conn') = SnapsOf(conn)
<1>1. conn \in Connection /\ conn # None /\ conn' = Registered(conn)
  BY DEF Register, Asked, Serving, Registered, TypeOK
<1>2. /\ conn' \in Connection
      /\ conn'.domain = conn.domain /\ conn'.life = conn.life /\ conn'.out = conn.out
      /\ conn'.wire = conn.wire /\ conn'.snap = conn.snap /\ conn'.replies = conn.replies
  BY <1>1, RegisteredTyped
<1> QED
  BY <1>1, <1>2, SameFrames, NoneAssumption DEF InOrder, SnapsOf

LEMMA CaptureOrderly ==
    ASSUME TypeOK, InOrder, Capture
    PROVE  Orderly(conn, conn') /\ SnapsOf(conn') \subseteq SnapsOf(conn) \cup {Now}
<1>1. conn \in Connection /\ conn # None /\ conn' = Captured(conn, Now) /\ Now \in Snapshot
  BY CaptureCases
<1>2. /\ conn'.domain = conn.domain /\ conn'.life = conn.life /\ conn'.out = conn.out
      /\ conn'.wire = conn.wire /\ conn'.snap = Now /\ conn'.replies = conn.replies
  BY <1>1, CapturedTyped
<1> QED
  BY <1>1, <1>2, SameFrames DEF InOrder, SnapsOf

LEMMA AnswerCallOrderly ==
    ASSUME TypeOK, Line, InOrder, AnswerCall
    PROVE  conn # None /\ conn' # None /\ Orderly(conn, conn') /\ SnapsOf(conn') = SnapsOf(conn)
<1>1. conn \in Connection /\ conn # None
  BY AnswerCallCases
<1>2. PICK s \in OpStates : conn' = Answered(conn, s)
  BY AnswerCallCases
<1> DEFINE a == [kind |-> "status", state |-> s]
<1>3. /\ conn' \in Connection /\ conn'.replies = Append(conn.replies, a)
      /\ conn'.domain = conn.domain /\ conn'.life = conn.life /\ conn'.out = conn.out
      /\ conn'.wire = conn.wire /\ conn'.snap = conn.snap
  BY <1>1, <1>2, AnsweredTyped
<1>4. a \in Answers /\ a.kind # "snapshot" /\ conn.replies \in Seq(Answers)
  BY <1>1, ConnectionFields DEF Answers
<1> HIDE DEF a
<1>5. ToSet(conn'.replies) = ToSet(conn.replies) \cup {a}
  BY <1>3, <1>4, RangeOfAppend
<1>6. SnapsOf(conn') = SnapsOf(conn)
  BY <1>3, <1>4, <1>5 DEF SnapsOf
<1> QED
  BY <1>1, <1>3, <1>6, SameFrames, NoneAssumption DEF InOrder

LEMMA DeliverOrderly ==
    ASSUME TypeOK, Line, UnderWay, InOrder, Deliver
    PROVE  /\ InOrder' /\ Coming' \subseteq Coming /\ Mine' \subseteq Mine /\ Snaps' \subseteq Snaps
           /\ DeliverNotice => Coming' = Coming
<1> DEFINE a == Head(conn.wire)
<1>1. /\ conn \in Connection /\ conn # None /\ conn.wire # <<>> /\ conn' = Read(conn)
      /\ a \in Queued \cup Answers
  BY DeliverCases
<1>2. /\ conn' \in Connection /\ conn' # None /\ conn'.wire = Tail(conn.wire)
      /\ conn'.domain = conn.domain /\ conn'.life = conn.life /\ conn'.out = conn.out
      /\ conn'.snap = conn.snap /\ conn'.replies = conn.replies
  BY <1>1, ReadTyped, NoneAssumption
<1>3. conn.wire \in Seq(Queued \cup Answers)
  BY <1>1, ConnectionFields
<1>4. OrderOf(conn) /\ Ordered(channel) /\ Before(ToSet(channel), MineOf(conn))
  BY <1>1 DEF InOrder
<1>5. ToSet(conn.wire) = ToSet(Tail(conn.wire)) \cup {a}
  BY <1>1, <1>3, RangeOfTail
<1>6. Ordered(Tail(conn.wire)) /\ Before({a}, ToSet(Tail(conn.wire)))
  BY <1>1, <1>3, <1>4, OrderedTail DEF OrderOf
<1> HIDE DEF a
<1>7. OrderOf(conn')
  BY <1>2, <1>4, <1>5, <1>6 DEF OrderOf, Before
<1>8. MineOf(conn') \cup {a} = MineOf(conn)
  BY <1>2, <1>5 DEF MineOf
<1>9. Before({a}, MineOf(conn'))
  <2>1. Before({a}, ToSet(conn.out) \cup ToSet(conn.domain) \cup ToSet(conn.life))
    BY <1>4, <1>5 DEF OrderOf, Before
  <2> QED
    BY <1>2, <1>6, <2>1 DEF Before, MineOf
<1>10. Mine' \subseteq Mine /\ Snaps' \subseteq Snaps
  <2>1. Mine' = MineOf(conn') /\ Mine = MineOf(conn) /\ Snaps' = SnapsOf(conn') /\ Snaps = SnapsOf(conn)
    BY <1>1, <1>2 DEF Mine, MineOf, Snaps, SnapsOf
  <2>2. SnapsOf(conn') \subseteq SnapsOf(conn)
    BY <1>2, <1>5 DEF SnapsOf
  <2> QED
    BY <1>8, <2>1, <2>2
<1>11. CASE DeliverNotice
  <2>1. channel' = Append(channel, a) /\ a \in Frames /\ channel \in Seq(Frames)
    <3>1. a \in Queued
      BY <1>1, <1>11, Kinds2 DEF DeliverNotice, a
    <3> QED
      BY <1>11, <3>1 DEF DeliverNotice, Queued, Frames, TypeOK, a
  <2>2. ToSet(channel') = ToSet(channel) \cup {a}
    BY <2>1, RangeOfAppend
  <2>3. Ordered(channel')
    <3>1. Before(ToSet(channel), {a})
      BY <1>4, <1>8 DEF Before
    <3> QED
      BY <1>4, <2>1, <3>1, OrderedAppend
  <2>4. Before(ToSet(channel'), MineOf(conn'))
    BY <1>4, <1>8, <1>9, <2>2 DEF Before
  <2>5. InOrder'
    BY <1>7, <2>3, <2>4 DEF InOrder, OrderOf, MineOf
  <2>6. Coming' = Coming
    <3>1. Mine' = MineOf(conn') /\ Mine = MineOf(conn)
      BY <1>1, <1>2 DEF Mine, MineOf
    <3> QED
      BY <1>8, <2>2, <3>1, ComingIs
  <2> QED
    BY <1>10, <2>5, <2>6
<1>12. CASE UNCHANGED channel /\ ~DeliverNotice
  <2>1. Before(ToSet(channel), MineOf(conn'))
    BY <1>4, <1>8 DEF Before
  <2>2. InOrder'
    BY <1>4, <1>7, <1>12, <2>1 DEF InOrder, OrderOf, MineOf
  <2> QED
    BY <1>10, <1>12, <2>2, ComingIs
<1> QED
  BY <1>11, <1>12, DeliverCases DEF DeliverAnswer

LEMMA CommitOrderly ==
    ASSUME TypeOK, News, InOrder, NEW r \in Resources, NEW k \in Kinds(r), Commit(r, k)
    PROVE  InOrder' /\ OneNew(CommitEvent(k, r)) /\ Snaps' = Snaps
<1> DEFINE e == CommitEvent(k, r)
<1>1. /\ e \in Change /\ e = [kind |-> k, rev |-> rev + 1, of |-> r, ver |-> val[r] + 1, inst |-> inst]
      /\ rev' = rev + 1 /\ val' = [val EXCEPT ![r] = val[r] + 1] /\ UNCHANGED inst /\ UNCHANGED channel
  BY CommitFan DEF session
<1>2. rev \in Nat /\ inst \in Nat /\ val \in [Resources -> Nat]
  BY DEF TypeOK
<1>3. e.rev = rev + 1 /\ e.inst = inst /\ e.of = r /\ e.ver = val'[r] /\ e.kind = k /\ e \in Events
      /\ IsEvent(e)
  BY <1>1, <1>2, ChangeFields DEF Events
<1> HIDE DEF e
<1>4. val' \in [Resources -> Nat] /\ \A x \in Resources : val[x] <= val'[x]
  BY <1>1, <1>2
<1>5. \A x \in Coming : Lower(x, e)
  <2> SUFFICES ASSUME NEW x \in Coming, IsEvent(x), x.inst = inst PROVE x.rev < e.rev
    BY <1>3 DEF Lower
  <2>1. x.rev <= rev /\ x.rev \in Nat
    BY ComingTyped, EventFields DEF News, Past
  <2> QED
    BY <1>2, <1>3, <2>1
<1>6. CASE UNCHANGED conn
  <2>1. Coming' = Coming /\ Mine' = Mine /\ Snaps' = Snaps
    BY <1>1, <1>6 DEF Coming, Mine, MineOf, Snaps, SnapsOf
  <2>2. InOrder'
    BY <1>1, <1>6 DEF InOrder, OrderOf, MineOf
  <2> QED
    BY <1>1, <1>3, <1>4, <2>1, <2>2 DEF OneNew, e
<1>7. CASE /\ conn \in Connection /\ conn' \in Connection /\ conn # None /\ conn' # None
           /\ conn' = [conn EXCEPT !.domain = Append(@, e)]
  <2>1. /\ conn'.domain = Append(conn.domain, e) /\ conn'.life = conn.life
        /\ conn'.snap = conn.snap /\ conn'.replies = conn.replies /\ conn'.wire = conn.wire
        /\ conn'.out = conn.out
    BY <1>1, <1>7, DomainTyped
  <2>2. conn.domain \in Seq(Change) /\ ToSet(conn.life) \subseteq Finish
    BY <1>7, ConnectionFields, MineTyped
  <2>3. ToSet(conn'.domain) = ToSet(conn.domain) \cup {e}
    BY <1>1, <2>1, <2>2, RangeOfAppend
  <2>4. MineOf(conn') = MineOf(conn) \cup {e} /\ Mine = MineOf(conn) /\ Mine' = MineOf(conn')
        /\ Snaps' = Snaps
    BY <1>7, <2>1, <2>3 DEF MineOf, Mine, Snaps, SnapsOf
  <2>5. OrderOf(conn) /\ Before(ToSet(channel), MineOf(conn))
    BY <1>7 DEF InOrder
  <2>6. \A x \in MineOf(conn) : Lower(x, e)
    BY <1>5, <2>4, ComingIs
  <2>7. Ordered(conn'.domain)
    <3>1. Before(ToSet(conn.domain), {e})
      BY <2>6 DEF Before, MineOf
    <3> QED
      BY <1>1, <2>1, <2>2, <2>5, <3>1, OrderedAppend DEF OrderOf
  <2>8. ASSUME NEW y \in ToSet(conn.life) PROVE e.rev # y.rev
    <3>1. y \in Events /\ y \in MineOf(conn)
      BY <2>2 DEF Events, MineOf
    <3>2. IsEvent(y) /\ y.inst = inst /\ y.rev \in Nat
      BY <2>4, <3>1, EventFields DEF News
    <3>3. y.rev < e.rev
      BY <1>3, <2>6, <3>1, <3>2 DEF Lower
    <3> QED
      BY <1>2, <1>3, <3>2, <3>3
  <2>9. OrderOf(conn')
    <3>1. Before(ToSet(conn'.wire), ToSet(conn'.out) \cup ToSet(conn'.domain) \cup ToSet(conn'.life))
      BY <2>1, <2>3, <2>5, <2>6 DEF OrderOf, Before, MineOf
    <3>2. Before(ToSet(conn'.out), ToSet(conn'.domain) \cup ToSet(conn'.life))
      BY <2>1, <2>3, <2>5, <2>6 DEF OrderOf, Before, MineOf
    <3>3. \A x \in ToSet(conn'.domain), y \in ToSet(conn'.life) : x.rev # y.rev
      BY <2>1, <2>3, <2>5, <2>8 DEF OrderOf
    <3> QED
      BY <2>1, <2>5, <2>7, <3>1, <3>2, <3>3 DEF OrderOf
  <2>10. Before(ToSet(channel), MineOf(conn'))
    BY <1>5, <2>4, <2>5, ComingIs DEF Before
  <2>11. InOrder'
    BY <1>1, <2>9, <2>10 DEF InOrder, OrderOf, MineOf
  <2>12. OneNew(e)
    BY <1>1, <1>3, <1>4, <2>4, ComingIs DEF OneNew
  <2> QED
    BY <2>4, <2>11, <2>12 DEF e
<1> QED
  BY <1>6, <1>7, CommitFan DEF e

LEMMA PublishOrderly ==
    ASSUME TypeOK, News, InOrder, NEW o \in Operations, PublishFinish(o)
    PROVE  InOrder' /\ OneNew(FinishEvent(o)) /\ Snaps' = Snaps
<1> DEFINE e == FinishEvent(o)
<1>1. /\ e \in Finish /\ e = [kind |-> "finished", rev |-> rev + 1, of |-> o, ver |-> 0, inst |-> inst]
      /\ rev' = rev + 1 /\ UNCHANGED val /\ UNCHANGED inst /\ UNCHANGED channel
  BY PublishFan DEF session
<1>2. rev \in Nat /\ inst \in Nat /\ val \in [Resources -> Nat]
  BY DEF TypeOK
<1>3. e.rev = rev + 1 /\ e.inst = inst /\ e.kind = "finished" /\ e \in Events /\ IsEvent(e) /\ ~IsChange(e)
  BY <1>1, <1>2, EventFields DEF Events, IsChange
<1> HIDE DEF e
<1>4. val' \in [Resources -> Nat] /\ \A x \in Resources : val[x] <= val'[x]
  BY <1>1, <1>2
<1>5. \A x \in Coming : Lower(x, e)
  <2> SUFFICES ASSUME NEW x \in Coming, IsEvent(x), x.inst = inst PROVE x.rev < e.rev
    BY <1>3 DEF Lower
  <2>1. x.rev <= rev /\ x.rev \in Nat
    BY ComingTyped, EventFields DEF News, Past
  <2> QED
    BY <1>2, <1>3, <2>1
<1>6. CASE UNCHANGED conn
  <2>1. Coming' = Coming /\ Mine' = Mine /\ Snaps' = Snaps
    BY <1>1, <1>6 DEF Coming, Mine, MineOf, Snaps, SnapsOf
  <2>2. InOrder'
    BY <1>1, <1>6 DEF InOrder, OrderOf, MineOf
  <2> QED
    BY <1>1, <1>3, <1>4, <2>1, <2>2 DEF OneNew, e
<1>7. CASE /\ conn \in Connection /\ conn' \in Connection /\ conn # None /\ conn' # None
           /\ conn' = [conn EXCEPT !.life = Append(@, e)]
  <2>1. /\ conn'.life = Append(conn.life, e) /\ conn'.domain = conn.domain
        /\ conn'.snap = conn.snap /\ conn'.replies = conn.replies /\ conn'.wire = conn.wire
        /\ conn'.out = conn.out
    BY <1>1, <1>7, LifeTyped
  <2>2. conn.life \in Seq(Finish) /\ ToSet(conn.domain) \subseteq Change
    BY <1>7, ConnectionFields, MineTyped
  <2>3. ToSet(conn'.life) = ToSet(conn.life) \cup {e}
    BY <1>1, <2>1, <2>2, RangeOfAppend
  <2>4. MineOf(conn') = MineOf(conn) \cup {e} /\ Mine = MineOf(conn) /\ Mine' = MineOf(conn')
        /\ Snaps' = Snaps
    BY <1>7, <2>1, <2>3 DEF MineOf, Mine, Snaps, SnapsOf
  <2>5. OrderOf(conn) /\ Before(ToSet(channel), MineOf(conn))
    BY <1>7 DEF InOrder
  <2>6. \A x \in MineOf(conn) : Lower(x, e)
    BY <1>5, <2>4, ComingIs
  <2>7. Ordered(conn'.life)
    <3>1. Before(ToSet(conn.life), {e})
      BY <2>6 DEF Before, MineOf
    <3> QED
      BY <1>1, <2>1, <2>2, <2>5, <3>1, OrderedAppend DEF OrderOf
  <2>8. ASSUME NEW y \in ToSet(conn.domain) PROVE e.rev # y.rev
    <3>1. y \in Events /\ y \in MineOf(conn)
      BY <2>2 DEF Events, MineOf
    <3>2. IsEvent(y) /\ y.inst = inst /\ y.rev \in Nat
      BY <2>4, <3>1, EventFields DEF News
    <3>3. y.rev < e.rev
      BY <1>3, <2>6, <3>1, <3>2 DEF Lower
    <3> QED
      BY <1>2, <1>3, <3>2, <3>3
  <2>9. OrderOf(conn')
    <3>1. Before(ToSet(conn'.wire), ToSet(conn'.out) \cup ToSet(conn'.domain) \cup ToSet(conn'.life))
      BY <2>1, <2>3, <2>5, <2>6 DEF OrderOf, Before, MineOf
    <3>2. Before(ToSet(conn'.out), ToSet(conn'.domain) \cup ToSet(conn'.life))
      BY <2>1, <2>3, <2>5, <2>6 DEF OrderOf, Before, MineOf
    <3>3. \A x \in ToSet(conn'.domain), y \in ToSet(conn'.life) : x.rev # y.rev
      BY <2>1, <2>3, <2>5, <2>8 DEF OrderOf
    <3> QED
      BY <2>1, <2>5, <2>7, <3>1, <3>2, <3>3 DEF OrderOf
  <2>10. Before(ToSet(channel), MineOf(conn'))
    BY <1>5, <2>4, <2>5, ComingIs DEF Before
  <2>11. InOrder'
    BY <1>1, <2>9, <2>10 DEF InOrder, OrderOf, MineOf
  <2>12. OneNew(e)
    BY <1>1, <1>3, <1>4, <2>4, ComingIs DEF OneNew
  <2> QED
    BY <2>4, <2>11, <2>12 DEF e
<1> QED
  BY <1>6, <1>7, PublishFan DEF e

LEMMA HandleOrderly ==
    ASSUME TypeOK, InOrder, Handle
    PROVE  InOrder' /\ Coming = Coming' \cup {Head(channel)} /\ Mine' = Mine /\ Snaps' = Snaps
<1>1. channel \in Seq(Frames) /\ channel # <<>> /\ channel' = Tail(channel) /\ UNCHANGED conn
  BY HandleCases DEF TypeOK, Frames, OnClient
<1>2. ToSet(channel) = ToSet(channel') \cup {Head(channel)} /\ Ordered(channel')
  BY <1>1, RangeOfTail, OrderedTail DEF InOrder
<1>3. Mine' = Mine /\ Snaps' = Snaps
  BY <1>1 DEF Mine, MineOf, Snaps, SnapsOf
<1>4. conn # None => Before(ToSet(channel'), MineOf(conn))
  BY <1>2 DEF InOrder, Before
<1>5. InOrder'
  BY <1>1, <1>2, <1>4 DEF InOrder, OrderOf, MineOf
<1> QED
  BY <1>2, <1>3, <1>5, ComingIs

LEMMA ReopenOrderly ==
    ASSUME TypeOK, InOrder, Reopen
    PROVE  /\ InOrder' /\ NoNews /\ Snaps' = {} /\ conn = None
           /\ Coming' = Coming \cup {[kind |-> "reconnected", inst |-> inst]}
<1> DEFINE n == [kind |-> "reconnected", inst |-> inst]
<1>1. channel \in Seq(Frames) /\ channel' = Append(channel, n) /\ conn = None /\ conn' = NewConn
      /\ conn' # None /\ UNCHANGED <<inst, rev, val>>
  BY NewConnTyped DEF TypeOK, Frames, Reopen, daemon
<1>2. n \in Frames /\ ~IsEvent(n)
  BY DEF TypeOK, Frames, Reconnected, IsEvent, IsChange
<1> HIDE DEF n
<1>3. ToSet(channel') = ToSet(channel) \cup {n}
  BY <1>1, <1>2, RangeOfAppend
<1>4. Ordered(channel')
  <2>1. Before(ToSet(channel), {n})
    BY <1>2 DEF Before, Lower
  <2> QED
    BY <1>1, <1>2, <2>1, OrderedAppend DEF InOrder
<1>5. MineOf(NewConn) = {} /\ OrderOf(NewConn) /\ SnapsOf(NewConn) = {}
  <2>1. /\ NewConn.wire = <<>> /\ NewConn.out = <<>> /\ NewConn.domain = <<>> /\ NewConn.life = <<>>
        /\ NewConn.replies = <<>> /\ NewConn.snap = None
    BY DEF NewConn
  <2>2. ToSet(<<>>) = {}
    BY Ranges
  <2> QED
    BY <2>1, <2>2, OrderedEmpty DEF MineOf, OrderOf, SnapsOf, Before
<1>6. Mine' = {} /\ Snaps' = {} /\ Mine = {}
  BY <1>1, <1>5 DEF Mine, MineOf, Snaps, SnapsOf
<1>7. InOrder'
  BY <1>1, <1>4, <1>5 DEF InOrder, OrderOf, MineOf, Before
<1>8. Coming' = Coming \cup {n}
  BY <1>3, <1>6, ComingIs
<1> QED
  BY <1>1, <1>2, <1>6, <1>7, <1>8 DEF NoNews, n

LEMMA CutOrderly ==
    ASSUME InOrder, Cut, UNCHANGED channel
    PROVE  InOrder' /\ Mine' = {} /\ Snaps' = {} /\ Coming' \subseteq Coming
<1>1. conn' = None
  BY DEF Cut
<1>2. Mine' = {} /\ Snaps' = {}
  BY <1>1 DEF Mine, Snaps
<1> QED
  BY <1>1, <1>2, ComingIs DEF InOrder

LEMMA QuietOrderly ==
    ASSUME InOrder, UNCHANGED <<conn, channel>>
    PROVE  InOrder' /\ Snaps' = Snaps /\ Coming' = Coming /\ Mine' = Mine
  BY DEF InOrder, OrderOf, MineOf, Snaps, SnapsOf, Coming, Mine

(* A copy that the client keeps, or takes, is one afterwards. *)
LEMMA CopyNext ==
    ASSUME NEW i \in Nat, NEW n \in Nat, NEW v \in [Resources -> Nat], Copy(i, n, v), Advance,
           tracker'.inst = i, tracker'.rev = n, mirror' = v
    PROVE  Copy(tracker.inst, tracker.rev, mirror)'
<1>1. Copy(i, n, v)'
  BY DEF Advance
<1> QED
  BY <1>1 DEF Copy, Past

(* The copies, when the client takes none. *)
LEMMA CopiesKept ==
    ASSUME TypeOK, Copies, Advance, Snaps' \subseteq Snaps, UNCHANGED <<box, mirror, stale>>,
           tracker'.inst = tracker.inst, tracker'.rev = tracker.rev, tracker'.known = tracker.known,
           UNCHANGED inst \/ Snaps' = {},
           calls' # <<>> /\ Head(calls').to = "pump" /\ Snaps' # {} => calls # <<>> /\ Head(calls).to = "pump"
    PROVE  Copies'
<1>1. \A s \in Snaps' : s.inst = inst' /\ Copy(s.inst, s.rev, s.val)'
  <2> SUFFICES ASSUME NEW s \in Snaps' PROVE s.inst = inst' /\ Copy(s.inst, s.rev, s.val)'
    OBVIOUS
  <2>1. s.inst = inst' /\ Copy(s.inst, s.rev, s.val)
    BY DEF Copies
  <2>2. s.inst \in Nat /\ s.rev \in Nat /\ s.val \in [Resources -> Nat]
    BY SnapsTyped, SnapshotFields
  <2> QED
    BY <2>1, <2>2 DEF Advance
<1>2. \A s \in ToSet(box)' : Copy(s.inst, s.rev, s.val)'
  <2> SUFFICES ASSUME NEW s \in ToSet(box)' PROVE Copy(s.inst, s.rev, s.val)'
    OBVIOUS
  <2>1. s \in ToSet(box)
    BY DEF ToSet
  <2>2. s.inst \in Nat /\ s.rev \in Nat /\ s.val \in [Resources -> Nat]
    BY <2>1, SnapsTyped, SnapshotFields
  <2> QED
    BY <2>1, <2>2 DEF Advance, Copies
<1>3. Copy(tracker.inst, tracker.rev, mirror)'
  <2>1. tracker.inst \in Nat /\ tracker.rev \in Nat /\ mirror \in [Resources -> Nat]
    BY DEF TypeOK
  <2>2. Copy(tracker.inst, tracker.rev, mirror)
    BY DEF Copies
  <2> QED
    BY <2>1, <2>2, CopyNext
<1>4. calls' # <<>> /\ Head(calls').to = "pump" => \A s \in Snaps' : \A r \in Resources : mirror'[r] <= s.val[r]
  BY DEF Copies
<1> QED
  BY <1>1, <1>2, <1>3, <1>4 DEF Copies

(* The copies, when the client takes one of those at hand. *)
LEMMA CopiesAdopt ==
    ASSUME TypeOK, Copies, Advance, NEW s \in Snapshot, Copy(s.inst, s.rev, s.val), Adopt(s),
           Snaps' \subseteq Snaps, UNCHANGED inst, ToSet(box') \subseteq ToSet(box),
           calls' # <<>> => Head(calls').to # "pump"
    PROVE  Copies'
<1>1. /\ tracker'.inst = s.inst /\ tracker'.rev = s.rev /\ tracker'.known = TRUE
      /\ mirror' = s.val /\ stale' = {}
  BY DEF Adopt
<1>2. \A t \in Snaps' : t.inst = inst' /\ Copy(t.inst, t.rev, t.val)'
  <2> SUFFICES ASSUME NEW t \in Snaps' PROVE t.inst = inst' /\ Copy(t.inst, t.rev, t.val)'
    OBVIOUS
  <2>1. t.inst = inst' /\ Copy(t.inst, t.rev, t.val)
    BY DEF Copies
  <2>2. t.inst \in Nat /\ t.rev \in Nat /\ t.val \in [Resources -> Nat]
    BY SnapsTyped, SnapshotFields
  <2> QED
    BY <2>1, <2>2 DEF Advance
<1>3. \A t \in ToSet(box') : Copy(t.inst, t.rev, t.val)'
  <2> SUFFICES ASSUME NEW t \in ToSet(box') PROVE Copy(t.inst, t.rev, t.val)'
    OBVIOUS
  <2>2. t.inst \in Nat /\ t.rev \in Nat /\ t.val \in [Resources -> Nat]
    BY SnapsTyped, SnapshotFields
  <2> QED
    BY <2>2 DEF Advance, Copies
<1>4. Copy(tracker.inst, tracker.rev, mirror)'
  <2>1. s.inst \in Nat /\ s.rev \in Nat /\ s.val \in [Resources -> Nat]
    BY SnapshotFields
  <2> QED
    BY <1>1, <2>1, CopyNext
<1>5. ToSet(box)' = ToSet(box')
  BY DEF ToSet
<1> QED
  BY <1>1, <1>2, <1>3, <1>4, <1>5 DEF Copies

(* Another call behind those there are. *)
LEMMA AskFirst ==
    ASSUME TypeOK, UnderWay, NEW m, NEW o, Ask(m, o), Snaps # {}
    PROVE  calls # <<>> /\ Head(calls') = Head(calls)
<1>1. sent = "served" /\ calls # <<>>
  BY SnapsNone DEF UnderWay
<1>2. calls \in Seq(Calls)
  BY DEF TypeOK
<1> QED
  BY <1>1, <1>2 DEF Ask

(* A client that waits for nothing has no call of its own in the line. *)
LEMMA IdleFirst ==
    ASSUME TypeOK, Line, ~Waits, calls # <<>>
    PROVE  Head(calls).to # "pump"
  BY FirstCall, LineFree

(* The steps that hand the client nothing. *)
LEMMA OnConnSound ==
    ASSUME TypeOK, Sound, OnConn, conn # None, conn' # None, Orderly(conn, conn'),
           SnapsOf(conn') \subseteq SnapsOf(conn)
    PROVE  Sound'
<1>1. UNCHANGED <<inst, rev, val, channel, calls, box, mirror, stale, tracker>>
  BY DEF OnConn, daemon, session, client
<1>2. News' /\ Advance
  BY <1>1, NoNewsConn, NoNewsAdvance DEF Sound, Orderly
<1>3. InOrder'
  BY <1>1, InOrderConn DEF Sound, Orderly
<1>4. Snaps' \subseteq Snaps
  <2>1. Snaps' = SnapsOf(conn') /\ Snaps = SnapsOf(conn)
    BY DEF Snaps, SnapsOf
  <2> QED
    BY <2>1
<1>5. Copies'
  BY <1>1, <1>2, <1>4, CopiesKept DEF Sound
<1> QED
  BY <1>2, <1>3, <1>5 DEF Sound

LEMMA CallStepSound ==
    ASSUME TypeOK, Sound, UNCHANGED <<inst, rev, val, channel, calls, box, mirror, stale, tracker>>,
           conn # None, conn' # None, Orderly(conn, conn'), SnapsOf(conn') \subseteq SnapsOf(conn)
    PROVE  Sound'
<1>2. News' /\ Advance
  BY NoNewsConn, NoNewsAdvance DEF Sound, Orderly
<1>3. InOrder'
  BY InOrderConn DEF Sound, Orderly
<1>4. Snaps' \subseteq Snaps
  <2>1. Snaps' = SnapsOf(conn') /\ Snaps = SnapsOf(conn)
    BY DEF Snaps, SnapsOf
  <2> QED
    BY <2>1
<1>5. Copies'
  BY <1>2, <1>4, CopiesKept DEF Sound
<1> QED
  BY <1>2, <1>3, <1>5 DEF Sound

LEMMA CommitSound ==
    ASSUME TypeOK, Sound, NEW r \in Resources, NEW k \in Kinds(r), Commit(r, k)
    PROVE  Sound'
<1>1. InOrder' /\ OneNew(CommitEvent(k, r)) /\ Snaps' = Snaps
  BY CommitOrderly DEF Sound
<1>2. News' /\ Advance
  BY <1>1, OneNewAdvance DEF Sound
<1>3. UNCHANGED <<inst, calls, box, mirror, stale, tracker>>
  BY CommitFan DEF session, client
<1>4. Copies'
  BY <1>1, <1>2, <1>3, CopiesKept DEF Sound
<1> QED
  BY <1>1, <1>2, <1>4 DEF Sound

LEMMA PublishSound ==
    ASSUME TypeOK, Sound, NEW o \in Operations, PublishFinish(o)
    PROVE  Sound'
<1>1. InOrder' /\ OneNew(FinishEvent(o)) /\ Snaps' = Snaps
  BY PublishOrderly DEF Sound
<1>2. News' /\ Advance
  BY <1>1, OneNewAdvance DEF Sound
<1>3. UNCHANGED <<inst, calls, box, mirror, stale, tracker>>
  BY PublishFan DEF session, client
<1>4. Copies'
  BY <1>1, <1>2, <1>3, CopiesKept DEF Sound
<1> QED
  BY <1>1, <1>2, <1>4 DEF Sound

(* Steps that leave the frames where they are, and the client's copy. *)
LEMMA QuietSound ==
    ASSUME TypeOK, Sound, UNCHANGED <<inst, rev, val, conn, channel, box, mirror, stale>>,
           tracker'.inst = tracker.inst, tracker'.rev = tracker.rev, tracker'.known = tracker.known,
           calls' # <<>> /\ Head(calls').to = "pump" /\ Snaps # {} => calls # <<>> /\ Head(calls).to = "pump"
    PROVE  Sound'
<1>1. InOrder' /\ Snaps' = Snaps
  BY QuietOrderly DEF Sound
<1>2. News' /\ Advance
  BY NoNewsKept, NoNewsAdvance DEF Sound
<1>3. Copies'
  BY <1>1, <1>2, CopiesKept DEF Sound
<1> QED
  BY <1>1, <1>2, <1>3 DEF Sound

LEMMA CaptureSound == ASSUME Shape, Sound, Capture PROVE Sound'
<1>1. conn # None /\ conn' # None /\ OnConn /\ Now \in Snapshot /\ Orderly(conn, conn')
      /\ SnapsOf(conn') \subseteq SnapsOf(conn) \cup {Now} /\ TypeOK
  BY CaptureCases, CaptureOrderly DEF Sound, Shape
<1>2. UNCHANGED <<inst, rev, val, channel, calls, box, mirror, stale, tracker>>
  BY <1>1 DEF OnConn, daemon, session, client
<1>3. News' /\ Advance
  BY <1>1, <1>2, NoNewsConn, NoNewsAdvance DEF Sound, Orderly
<1>4. InOrder'
  BY <1>1, <1>2, InOrderConn DEF Sound, Orderly
<1>5. Snaps' \subseteq Snaps \cup {Now}
  <2>1. Snaps' = SnapsOf(conn') /\ Snaps = SnapsOf(conn)
    BY <1>1 DEF Snaps, SnapsOf
  <2> QED
    BY <1>1, <2>1
<1>6. inst \in Nat /\ rev \in Nat /\ val \in [Resources -> Nat] /\ mirror \in [Resources -> Nat]
      /\ tracker.inst \in Nat /\ tracker.rev \in Nat
  BY <1>1 DEF TypeOK
<1>7. Now.inst = inst /\ Now.rev = rev /\ Now.val = val
  BY DEF Now
<1>8. Copy(inst, rev, val)
  <2>1. \A x \in Coming : x.kind \in {"replace", "remove"} /\ x.inst = inst => ~(x.rev > rev)
    <3> SUFFICES ASSUME NEW x \in Coming, x.kind \in {"replace", "remove"}, x.inst = inst
                 PROVE  ~(x.rev > rev)
      OBVIOUS
    <3>1. IsEvent(x)
      BY DEF IsEvent, IsChange
    <3>2. x.rev \in Nat /\ x.rev <= rev
      BY <1>1, <3>1, ComingTyped, EventFields DEF Sound, News, Past
    <3> QED
      BY <1>6, <3>2
  <2> QED
    BY <1>6, <2>1 DEF Copy, Past
<1>9. ASSUME NEW s \in Snaps' PROVE s.inst = inst' /\ Copy(s.inst, s.rev, s.val)'
  <2>1. Copy(s.inst, s.rev, s.val) /\ s.inst = inst
    BY <1>5, <1>7, <1>8 DEF Sound, Copies
  <2>2. s \in Snapshot
    BY <1>1, <1>5, SnapsTyped
  <2>3. s.inst \in Nat /\ s.rev \in Nat /\ s.val \in [Resources -> Nat]
    BY <2>2, SnapshotFields
  <2> QED
    BY <1>2, <1>3, <2>1, <2>3 DEF Advance
<1>10. ASSUME NEW s \in ToSet(box)' PROVE Copy(s.inst, s.rev, s.val)'
  <2>1. s \in ToSet(box) /\ s \in Snapshot
    BY <1>1, <1>2, SnapsTyped DEF ToSet
  <2>2. s.inst \in Nat /\ s.rev \in Nat /\ s.val \in [Resources -> Nat]
    BY <2>1, SnapshotFields
  <2> QED
    BY <1>3, <2>1, <2>2 DEF Advance, Sound, Copies
<1>11. Copy(tracker.inst, tracker.rev, mirror)'
  <2>1. Copy(tracker.inst, tracker.rev, mirror)
    BY DEF Sound, Copies
  <2> QED
    BY <1>2, <1>3, <1>6, <2>1 DEF Advance, Copy, Past
<1>12. calls' # <<>> /\ Head(calls').to = "pump" => \A s \in Snaps' : \A r \in Resources : mirror'[r] <= s.val[r]
  BY <1>2, <1>5, <1>7 DEF Sound, Copies, Copy
<1>13. Copies'
  BY <1>2, <1>9, <1>10, <1>11, <1>12 DEF Sound, Copies
<1> QED
  BY <1>3, <1>4, <1>13 DEF Sound

(* An answer reaches its caller. *)
LEMMA SnapsNoneNow == TypeOK /\ UnderWay /\ sent # "served" => Snaps = {}
  BY SnapsNone

LEMMA SnapsNoneNext == (TypeOK /\ UnderWay /\ sent # "served" => Snaps = {})'
  BY SnapsNoneNow, PTL

LEMMA DeliverSound == ASSUME Shape, Sound, Deliver PROVE Sound'
<1>1. TypeOK /\ Line /\ UnderWay /\ TypeOK' /\ UnderWay'
  BY DeliverTyped, DeliverUnderWay DEF Shape
<1>2. UNCHANGED <<inst, rev, val>> /\ conn \in Connection /\ conn # None /\ conn.wire # <<>>
  BY <1>1, DeliverCases DEF daemon
<1>3. InOrder' /\ Coming' \subseteq Coming /\ Mine' \subseteq Mine /\ Snaps' \subseteq Snaps
  BY <1>1, DeliverOrderly DEF Sound
<1>4. News' /\ Advance
  <2>1. NoNews
    BY <1>2, <1>3 DEF NoNews
  <2> QED
    BY <1>1, <2>1, NoNewsAdvance DEF Sound
<1>5. CASE DeliverNotice
  <2>1. UNCHANGED <<calls, box, mirror, stale, tracker>>
    BY <1>5 DEF DeliverNotice, client
  <2>2. Copies'
    BY <1>1, <1>2, <1>3, <1>4, <2>1, CopiesKept DEF Sound
  <2> QED
    BY <1>3, <1>4, <2>2 DEF Sound
<1>6. CASE /\ DeliverAnswer /\ calls # <<>>
           /\ Head(calls).m = "boot" => Head(conn.wire).snap \in Snapshot
                                        /\ Head(conn.wire).kind = "snapshot"
  <2> DEFINE s == Head(conn.wire).snap
             c == Head(calls)
  <2>1. Snaps' = {}
    BY <1>1, <1>6, SnapsNoneNext DEF DeliverAnswer
  <2>2. c.m = "boot" => s \in Snaps /\ s \in Snapshot
    <3>1. conn.wire \in Seq(Queued \cup Answers)
      BY <1>2, ConnectionFields
    <3>2. Head(conn.wire) \in ToSet(conn.wire)
      BY <1>2, <3>1, RangeOfTail
    <3> QED
      BY <1>2, <1>6, <3>2 DEF Snaps, SnapsOf
  <2>3. c.m = "boot" => Copy(s.inst, s.rev, s.val)
    BY <2>2 DEF Sound, Copies
  <2> HIDE DEF s
  <2>4. CASE c.to = "pump" /\ Adopt(s) /\ c.m = "boot"
    <3>1. UNCHANGED box
      BY <1>6, <2>4 DEF DeliverAnswer
    <3>2. calls' = <<>>
      <4>1. c = calls[1] /\ 1 \in DOMAIN calls
        BY <1>1, <1>6, FirstCall
      <4>2. Len(calls) = 1
        BY <1>1, <2>4, <4>1 DEF Line
      <4> QED
        BY <1>1, <1>6, <4>2, OneFrame DEF DeliverAnswer, TypeOK
    <3>3. Copies'
      BY <1>1, <1>2, <1>4, <2>1, <2>2, <2>3, <2>4, <3>1, <3>2, CopiesAdopt DEF Sound
    <3> QED
      BY <1>3, <1>4, <3>3 DEF Sound
  <2>5. CASE c.to # "box" /\ UNCHANGED <<tracker, mirror, stale>>
    <3>1. UNCHANGED box
      BY <1>6, <2>5 DEF DeliverAnswer
    <3>2. Copies'
      BY <1>1, <1>2, <1>3, <1>4, <2>1, <2>5, <3>1, CopiesKept DEF Sound
    <3> QED
      BY <1>3, <1>4, <3>2 DEF Sound
  <2>6. CASE c.to = "box"
    <3>1. c.m = "boot" /\ box' = Append(box, s) /\ UNCHANGED <<tracker, mirror, stale>>
      <4>1. c = calls[1] /\ 1 \in DOMAIN calls
        BY <1>1, <1>6, FirstCall
      <4>2. c.m = "boot"
        BY <1>1, <2>6, <4>1 DEF Line
      <4> QED
        BY <1>6, <2>6, <4>2 DEF DeliverAnswer, s, client
    <3>2. ToSet(box)' = ToSet(box) \cup {s}
      <4>1. ToSet(Append(box, s)) = ToSet(box) \cup {s}
        <5>1. box \in Seq(Snapshot) /\ s \in Snapshot
          BY <1>1, <2>2, <3>1 DEF TypeOK
        <5> QED
          BY <5>1, RangeOfAppend
      <4> QED
        BY <3>1, <4>1 DEF ToSet
    <3>3. ASSUME NEW t \in ToSet(box)' PROVE Copy(t.inst, t.rev, t.val)'
      <4>1. Copy(t.inst, t.rev, t.val) /\ t \in Snapshot
        BY <1>1, <2>2, <2>3, <3>1, <3>2, SnapsTyped DEF Sound, Copies
      <4>2. t.inst \in Nat /\ t.rev \in Nat /\ t.val \in [Resources -> Nat]
        BY <4>1, SnapshotFields
      <4> QED
        BY <1>4, <4>1, <4>2 DEF Advance
    <3>4. Copy(tracker.inst, tracker.rev, mirror)'
      <4>1. tracker.inst \in Nat /\ tracker.rev \in Nat /\ mirror \in [Resources -> Nat]
        BY <1>1 DEF TypeOK
      <4>2. Copy(tracker.inst, tracker.rev, mirror)
        BY DEF Sound, Copies
      <4> QED
        BY <1>4, <3>1, <4>1, <4>2, CopyNext
    <3>5. Copies'
      BY <2>1, <3>1, <3>3, <3>4 DEF Sound, Copies
    <3> QED
      BY <1>3, <1>4, <3>5 DEF Sound
  <2>7. \/ c.to = "pump" /\ Adopt(s) /\ c.m = "boot"
        \/ c.to # "box" /\ UNCHANGED <<tracker, mirror, stale>>
        \/ c.to = "box"
    BY <1>6 DEF DeliverAnswer, TakeAnswer, client, s
  <2> QED
    BY <2>4, <2>5, <2>6, <2>7
<1> QED
  BY <1>1, <1>5, <1>6, DeliverCases

LEMMA HandleSound == ASSUME Shape, Sound, Handle PROVE Sound'
<1>1. TypeOK /\ Line /\ UnderWay
  BY DEF Shape
<1> DEFINE e == Head(channel)
<1>2. /\ pc = "idle" /\ ~Waits /\ UNCHANGED <<inst, rev, val, conn, box>> /\ e \in Frames
      /\ \/ e.kind \in {"resync", "reconnected"} /\ HandleNotice(e)
         \/ e \in Events /\ HandleEvent(e)
  <2>1. pc = "idle" /\ OnClient /\ UNCHANGED <<sent, box>>
    BY <1>1, HandleCases
  <2>2. UNCHANGED <<inst, rev, val, conn, box>> /\ ~Waits
    BY <2>1 DEF OnClient, daemon, Waits
  <2> QED
    BY <1>1, <2>1, <2>2, HandleCases
<1>3. InOrder' /\ Coming = Coming' \cup {e} /\ Mine' = Mine /\ Snaps' = Snaps
  BY <1>1, HandleOrderly DEF Sound
<1> HIDE DEF e
<1>4. News' /\ Advance
  <2>1. NoNews
    BY <1>2, <1>3 DEF NoNews
  <2> QED
    BY <1>1, <2>1, NoNewsAdvance DEF Sound
<1>5. tracker \in Trackers /\ tracker.known \in BOOLEAN
  BY <1>1, KnownTyped
<1>6. calls # <<>> => Head(calls).to # "pump"
  BY <1>1, <1>2, IdleFirst
<1>7. CASE /\ UNCHANGED <<mirror, stale>> /\ (UNCHANGED calls \/ Ask("boot", None))
           /\ tracker'.inst = tracker.inst /\ tracker'.rev = tracker.rev /\ tracker'.known = tracker.known
  <2>1. Snaps' # {} => calls # <<>> /\ Head(calls') = Head(calls)
    BY <1>1, <1>3, <1>7, AskFirst, SnapsNone DEF UnderWay
  <2>2. Copies'
    BY <1>1, <1>2, <1>3, <1>4, <1>7, <2>1, CopiesKept DEF Sound
  <2> QED
    BY <1>3, <1>4, <2>2 DEF Sound
<1>8. CASE /\ e \in Events /\ Apply(e)
           /\ tracker.known /\ Observe(e) = "apply"
  <2>1. e \in Coming /\ IsEvent(e) /\ e.rev \in Nat /\ e.inst = tracker.inst /\ e.rev > tracker.rev
    BY <1>1, <1>3, <1>5, <1>8, EventFields DEF Observe, Trackers
  <2>2. tracker'.inst = tracker.inst /\ tracker'.rev = e.rev /\ tracker'.known = TRUE
    BY <1>5, <1>8, <2>1, RevTyped DEF Apply
  <2>3. mirror \in [Resources -> Nat] /\ val \in [Resources -> Nat] /\ tracker.inst \in Nat
        /\ tracker.rev \in Nat
    BY <1>1 DEF TypeOK
  <2>4. IsChange(e) => e \in Change /\ e.of \in Resources /\ e.ver \in Nat /\ e.ver <= val[e.of]
                       /\ e.kind \in Kinds(e.of)
    BY <1>1, <2>1, ComingTyped, ChangeFields DEF Sound, News
  <2>5. Copy(tracker.inst, tracker.rev, mirror)
    BY DEF Sound, Copies
  <2>6. Copy(tracker.inst, tracker.rev, mirror)'
    <3>1. Past(e.inst, e.rev)
      BY <2>1 DEF Sound, News
    <3>2. \A r \in Resources : mirror'[r] <= val[r]
      BY <1>8, <2>3, <2>4, <2>5 DEF Apply, Copy, IsChange
    <3>3. ASSUME NEW x \in Coming', x.kind \in {"replace", "remove"}, x.inst = e.inst, x.rev > e.rev
          PROVE  mirror'[x.of] <= x.ver
      <4>1. x \in Coming /\ IsChange(x)
        BY <1>3, <3>3 DEF IsChange
      <4>2. x.rev \in Nat /\ x.of \in Resources
        BY <1>1, <4>1, ComingTyped, ChangeFields
      <4>3. CASE e.kind \in {"replace", "remove"} /\ x.of = e.of
        <5>1. e.ver <= x.ver /\ IsChange(e)
          BY <2>1, <3>3, <4>1, <4>3 DEF Sound, News, IsChange
        <5>2. mirror'[x.of] = e.ver
          BY <1>8, <2>3, <2>4, <4>3, <5>1 DEF Apply
        <5> QED
          BY <5>1, <5>2
      <4>4. CASE ~(e.kind \in {"replace", "remove"} /\ x.of = e.of)
        <5>1. mirror'[x.of] = mirror[x.of]
          BY <1>8, <2>3, <4>2, <4>4 DEF Apply
        <5>2. x.rev > tracker.rev
          BY <2>1, <2>3, <3>3, <4>2
        <5> QED
          BY <2>1, <2>5, <3>3, <4>1, <5>1, <5>2 DEF Copy
      <4> QED
        BY <4>3, <4>4
    <3>4. tracker'.inst = e.inst
      BY <2>1, <2>2
    <3> QED
      BY <1>2, <2>2, <3>1, <3>2, <3>3, <3>4 DEF Copy, Past
  <2>7. stale' \subseteq Counts
    <3>1. e.kind = "invalidate" => e.of \in Counts
      BY <2>4 DEF Kinds, IsChange
    <3> QED
      BY <1>8, <3>1 DEF Sound, Copies, Apply
  <2>8. UNCHANGED calls
    BY <1>8 DEF Apply
  <2>9. ASSUME NEW s \in Snaps' PROVE s.inst = inst' /\ Copy(s.inst, s.rev, s.val)'
    <3>1. s.inst \in Nat /\ s.rev \in Nat /\ s.val \in [Resources -> Nat]
      BY <1>1, <1>3, SnapsTyped, SnapshotFields
    <3> QED
      BY <1>2, <1>3, <1>4, <3>1 DEF Sound, Copies, Advance
  <2>10. ASSUME NEW s \in ToSet(box)' PROVE Copy(s.inst, s.rev, s.val)'
    <3>1. s \in ToSet(box) /\ s \in Snapshot
      BY <1>1, <1>2, SnapsTyped DEF ToSet
    <3>2. s.inst \in Nat /\ s.rev \in Nat /\ s.val \in [Resources -> Nat]
      BY <3>1, SnapshotFields
    <3> QED
      BY <1>4, <3>1, <3>2 DEF Advance, Sound, Copies
  <2>11. Copies'
    BY <1>6, <2>2, <2>6, <2>7, <2>8, <2>9, <2>10 DEF Copies
  <2> QED
    BY <1>3, <1>4, <2>11 DEF Sound
<1>9. HandleNotice(e) =>
          /\ UNCHANGED <<mirror, stale>> /\ (UNCHANGED calls \/ Ask("boot", None))
          /\ tracker'.inst = tracker.inst /\ tracker'.rev = tracker.rev /\ tracker'.known = tracker.known
  BY <1>5, PoisonTyped DEF HandleNotice, Rebootstrap
<1>10. ASSUME HandleEvent(e), ~(tracker.known /\ Observe(e) = "apply" /\ Apply(e))
       PROVE  /\ UNCHANGED <<mirror, stale>> /\ (UNCHANGED calls \/ Ask("boot", None))
              /\ tracker'.inst = tracker.inst /\ tracker'.rev = tracker.rev /\ tracker'.known = tracker.known
  <2>1. CASE UNCHANGED <<client, calls>>
    BY <2>1 DEF client
  <2>2. CASE /\ tracker' = [tracker EXCEPT !.changed = tracker.known /\ Observe(e) = "changed"]
             /\ IF Tui THEN UNCHANGED <<pc, calls>> ELSE Rebootstrap
             /\ UNCHANGED <<mirror, stale, awaited, todo>>
    <3>1. (tracker.known /\ Observe(e) = "changed") \in BOOLEAN
      OBVIOUS
    <3> QED
      BY <1>5, <2>2, <3>1, ChangedTyped DEF Rebootstrap
  <2> QED
    BY <1>10, <2>1, <2>2 DEF HandleEvent
<1> QED
  BY <1>2, <1>7, <1>8, <1>9, <1>10

LEMMA TakeBoxSound == ASSUME Shape, Sound, TakeBox PROVE Sound'
<1>1. TypeOK /\ Line /\ box \in Seq(Snapshot)
  BY DEF Shape, TypeOK
<1>2. pc = "idle" /\ box # <<>> /\ Adopt(Head(box)) /\ box' = Tail(box)
      /\ UNCHANGED <<inst, rev, val, conn, channel, calls>> /\ ~Waits
  BY DEF TakeBox, daemon, Waits
<1>3. Head(box) \in Snapshot /\ ToSet(box) = ToSet(Tail(box)) \cup {Head(box)}
  BY <1>1, <1>2, RangeOfTail
<1>4. Copy(Head(box).inst, Head(box).rev, Head(box).val)
  BY <1>3 DEF Sound, Copies
<1>5. InOrder' /\ Snaps' = Snaps
  BY <1>2, QuietOrderly DEF Sound
<1>6. News' /\ Advance
  BY <1>1, <1>2, NoNewsKept, NoNewsAdvance DEF Sound
<1>7. calls' # <<>> => Head(calls').to # "pump"
  BY <1>1, <1>2, IdleFirst
<1>8. ToSet(box') \subseteq ToSet(box)
  BY <1>2, <1>3
<1>9. Copies'
  BY <1>1, <1>2, <1>3, <1>4, <1>5, <1>6, <1>7, <1>8, CopiesAdopt DEF Sound
<1> QED
  BY <1>5, <1>6, <1>9 DEF Sound

LEMMA RefetchSound == ASSUME Shape, Sound, NEW r \in Resources, Refetch(r) PROVE Sound'
<1>1. TypeOK /\ Line
  BY DEF Shape
<1>2. r \in stale /\ calls = <<>> /\ stale' = stale \ {r} /\ mirror' = [mirror EXCEPT ![r] = val[r]]
      /\ UNCHANGED <<inst, rev, val, conn, channel, calls, box, tracker>>
  BY DEF Refetch, daemon, session
<1>3. InOrder' /\ Snaps' = Snaps /\ Coming' = Coming
  BY <1>2, QuietOrderly DEF Sound
<1>4. News' /\ Advance
  BY <1>1, <1>2, NoNewsKept, NoNewsAdvance DEF Sound
<1>5. mirror \in [Resources -> Nat] /\ val \in [Resources -> Nat] /\ r \in Counts /\ tracker.known
  BY <1>1, <1>2 DEF TypeOK, Sound, Copies
<1>6. Copy(tracker.inst, tracker.rev, mirror)'
  <2>1. Copy(tracker.inst, tracker.rev, mirror)
    BY DEF Sound, Copies
  <2>2. \A q \in Resources : mirror'[q] <= val[q]
    BY <1>2, <1>5, <2>1 DEF Copy
  <2>3. ASSUME NEW x \in Coming, x.kind \in {"replace", "remove"}, x.inst = tracker.inst, x.rev > tracker.rev
        PROVE  mirror'[x.of] <= x.ver
    <3>1. IsChange(x)
      BY <2>3 DEF IsChange
    <3>2. x.kind \in Kinds(x.of) /\ x.of \in Resources
      BY <1>1, <3>1, ComingTyped, ChangeFields DEF Sound, News
    <3>3. x.of # r
      BY <1>5, <2>3, <3>2 DEF Kinds
    <3> QED
      BY <1>2, <1>5, <2>1, <2>3, <3>2, <3>3 DEF Copy
  <2> QED
    BY <1>2, <1>3, <2>1, <2>2, <2>3 DEF Copy, Past
<1>7. ASSUME NEW s \in Snaps' PROVE s.inst = inst' /\ Copy(s.inst, s.rev, s.val)'
  <2>1. s.inst \in Nat /\ s.rev \in Nat /\ s.val \in [Resources -> Nat]
    BY <1>1, <1>3, SnapsTyped, SnapshotFields
  <2> QED
    BY <1>2, <1>3, <1>4, <2>1 DEF Sound, Copies, Advance
<1>8. ASSUME NEW s \in ToSet(box)' PROVE Copy(s.inst, s.rev, s.val)'
  <2>1. s \in ToSet(box) /\ s \in Snapshot
    BY <1>1, <1>2, SnapsTyped DEF ToSet
  <2>2. s.inst \in Nat /\ s.rev \in Nat /\ s.val \in [Resources -> Nat]
    BY <2>1, SnapshotFields
  <2> QED
    BY <1>4, <2>1, <2>2 DEF Advance, Sound, Copies
<1>9. Copies'
  BY <1>2, <1>5, <1>6, <1>7, <1>8 DEF Sound, Copies
<1> QED
  BY <1>3, <1>4, <1>9 DEF Sound

LEMMA CutSound ==
    ASSUME TypeOK, Sound, Lose \/ Restart
    PROVE  Sound'
<1>1. Cut /\ UNCHANGED <<val, channel, calls, box, mirror, stale, tracker>>
  BY DEF Lose, Restart, daemon, client
<1>2. InOrder' /\ Mine' = {} /\ Snaps' = {} /\ Coming' \subseteq Coming
  BY <1>1, CutOrderly DEF Sound
<1>3. News' /\ Advance
  <2>1. CASE Restart
    BY <2>1, RestartAdvance DEF Sound
  <2>2. CASE Lose
    <3>1. NoNews
      BY <1>2, <2>2 DEF NoNews, Lose, daemon
    <3> QED
      BY <3>1, NoNewsAdvance DEF Sound
  <2> QED
    BY <2>1, <2>2
<1>4. Copies'
  BY <1>1, <1>2, <1>3, CopiesKept DEF Sound
<1> QED
  BY <1>2, <1>3, <1>4 DEF Sound

LEMMA ReopenSound ==
    ASSUME TypeOK, Sound, Reopen
    PROVE  Sound'
<1>1. InOrder' /\ NoNews /\ Snaps' = {}
  BY ReopenOrderly DEF Sound
<1>2. UNCHANGED <<calls, box, mirror, stale, tracker>>
  BY DEF Reopen, client
<1>3. News' /\ Advance
  BY <1>1, NoNewsAdvance DEF Sound
<1>4. Copies'
  BY <1>1, <1>2, <1>3, CopiesKept DEF Sound
<1> QED
  BY <1>1, <1>3, <1>4 DEF Sound

LEMMA FailureKeeps ==
    ASSUME TypeOK, NEW c, TakeFailure(c)
    PROVE  /\ UNCHANGED <<mirror, stale>>
           /\ tracker'.inst = tracker.inst /\ tracker'.rev = tracker.rev /\ tracker'.known = tracker.known
  BY KnownTyped, PoisonTyped DEF TakeFailure

LEMMA RefuseSound == ASSUME Shape, Sound, RefuseCall PROVE Sound'
<1>1. TypeOK /\ UnderWay
  BY DEF Shape
<1>2. UNCHANGED <<inst, rev, val, conn, channel, box>>
  BY DEF RefuseCall, daemon
<1>3. conn = None
  BY <1>1 DEF RefuseCall, UnderWay
<1>4. Snaps = {}
  BY <1>3 DEF Snaps
<1>5. /\ UNCHANGED <<mirror, stale>>
      /\ tracker'.inst = tracker.inst /\ tracker'.rev = tracker.rev /\ tracker'.known = tracker.known
  BY <1>1, FailureKeeps DEF RefuseCall, client
<1> QED
  BY <1>1, <1>2, <1>4, <1>5, QuietSound

LEMMA GiveUpSound == ASSUME Shape, Sound, GiveUp PROVE Sound'
<1>1. TypeOK /\ Line
  BY DEF Shape
<1>2. UNCHANGED <<inst, rev, val, conn, channel, box>>
  BY DEF GiveUp, daemon
<1>3. /\ UNCHANGED <<mirror, stale>>
      /\ tracker'.inst = tracker.inst /\ tracker'.rev = tracker.rev /\ tracker'.known = tracker.known
  BY <1>1, GiveUpCases, FailureKeeps
<1> DEFINE n == Len(calls)
<1>4. /\ n \in Nat \ {0} /\ DOMAIN calls' = 1..n
      /\ \A i \in 1..n : i # n => calls'[i] = calls[i] /\ calls[i].to # "pump"
      /\ calls'[n].to = "nobody"
  BY <1>1, GiveUpCases
<1>5. calls'[1].to # "pump"
  <2> HIDE DEF n
  <2>1. 1 \in 1..n
    BY <1>4
  <2> QED
    BY <1>4, <2>1
<1>6. Head(calls').to # "pump"
  BY <1>5
<1> QED
  BY <1>1, <1>2, <1>3, <1>6, QuietSound

LEMMA AskSound ==
    ASSUME Shape, Sound, UNCHANGED <<inst, rev, val, conn, channel, box, mirror, stale, tracker>>,
           NEW m, NEW o, Ask(m, o)
    PROVE  Sound'
<1>1. TypeOK /\ UnderWay
  BY DEF Shape
<1>2. Snaps # {} => calls # <<>> /\ Head(calls') = Head(calls)
  BY <1>1, AskFirst
<1> QED
  BY <1>1, <1>2, QuietSound

LEMMA RequerySound == ASSUME Shape, Sound, Requery PROVE Sound'
<1>1. UNCHANGED <<inst, rev, val, conn, channel, box, mirror, stale, tracker>>
  BY DEF Requery, daemon
<1>2. CASE UNCHANGED calls
  BY <1>1, <1>2, QuietSound DEF Shape
<1> QED
  BY <1>1, <1>2, AskSound DEF Requery

LEMMA StartSound == ASSUME Shape, Sound, NEW o, StartOperation(o) PROVE Sound'
  BY AskSound DEF StartOperation, daemon

LEMMA InitSound == Init => Sound
<1> SUFFICES ASSUME Init PROVE Sound
  OBVIOUS
<1>1. /\ inst = 1 /\ rev = 0 /\ val = [r \in Resources |-> 0] /\ conn = NewConn /\ channel = <<>> /\ box = <<>>
      /\ mirror = val /\ stale = {} /\ tracker.inst = 0 /\ tracker.rev = 0 /\ ~tracker.known
  BY DEF Init
<1>2. /\ NewConn.wire = <<>> /\ NewConn.out = <<>> /\ NewConn.domain = <<>> /\ NewConn.life = <<>>
      /\ NewConn.replies = <<>> /\ NewConn.snap = None
  BY DEF NewConn
<1>3. ToSet(<<>>) = {}
  BY Ranges
<1>4. Mine = {} /\ Snaps = {} /\ Coming = {} /\ OrderOf(conn)
  BY <1>1, <1>2, <1>3, ComingIs, OrderedEmpty DEF Mine, MineOf, Snaps, SnapsOf, OrderOf, Before
<1>5. News
  BY <1>4 DEF News
<1>6. InOrder
  BY <1>1, <1>3, <1>4, OrderedEmpty DEF InOrder, Before
<1>7. Copies
  BY <1>1, <1>3, <1>4 DEF Copies, Copy, Past
<1> QED
  BY <1>5, <1>6, <1>7 DEF Sound

LEMMA SoundNext == ASSUME Shape, Sound, [Next]_vars PROVE Sound'
<1>0. TypeOK /\ Line /\ UnderWay /\ News /\ InOrder
  BY DEF Shape, Sound
<1>1. ASSUME NEW r \in Resources, NEW k \in Kinds(r), Commit(r, k) PROVE Sound'
  BY <1>0, <1>1, CommitSound
<1>2. ASSUME NEW o \in Operations, FinishOperation(o) PROVE Sound'
  BY <1>0, <1>2, QuietSound DEF FinishOperation, session, client
<1>3. ASSUME NEW o \in Operations, PublishFinish(o) PROVE Sound'
  BY <1>0, <1>3, PublishSound
<1>4. ASSUME NEW o \in Operations, StartOperation(o) PROVE Sound'
  BY <1>4, StartSound
<1>5. CASE Drain
  BY <1>0, <1>5, DrainCases, DrainOrderly, OnConnSound
<1>6. CASE Write
  <2>1. conn # None /\ conn' # None
    <3>1. conn \in Connection /\ TypeOK'
      BY <1>0, <1>6, WriteCases, WriteTyped
    <3>2. conn' \in Connection
      BY <1>0, <1>6, <3>1, WriteCases, SendsTyped, RepliesTyped
    <3> QED
      BY <3>1, <3>2, NoneAssumption
  <2> QED
    BY <1>0, <1>6, <2>1, WriteCases, WriteOrderly, OnConnSound
<1>7. CASE Register
  <2>1. UNCHANGED <<inst, rev, val, channel, calls, box, mirror, stale, tracker>>
    BY <1>7 DEF Register, daemon, client
  <2> QED
    BY <1>0, <1>7, <2>1, RegisterOrderly, CallStepSound
<1>8. CASE Capture
  BY <1>8, CaptureSound
<1>9. CASE AnswerBootstrap
  BY <1>0, <1>9, AnswerBootstrapCases, AnswerBootstrapOrderly, OnConnSound
<1>10. CASE AnswerCall
  <2>1. UNCHANGED <<inst, rev, val, channel, calls, box, mirror, stale, tracker>>
    BY <1>0, <1>10, AnswerCallCases DEF client
  <2> QED
    BY <1>0, <1>10, <2>1, AnswerCallOrderly, CallStepSound
<1>11. CASE Deliver
  BY <1>11, DeliverSound
<1>12. CASE RefuseCall
  BY <1>12, RefuseSound
<1>13. CASE Reopen
  BY <1>0, <1>13, ReopenSound
<1>14. CASE Handle
  BY <1>14, HandleSound
<1>15. CASE TakeBox
  BY <1>15, TakeBoxSound
<1>16. CASE Requery
  BY <1>16, RequerySound
<1>17. ASSUME NEW r \in Resources, Refetch(r) PROVE Sound'
  BY <1>17, RefetchSound
<1>18. CASE GiveUp
  BY <1>18, GiveUpSound
<1>19. CASE Lose \/ Restart
  BY <1>0, <1>19, CutSound
<1>20. CASE UNCHANGED vars
  BY <1>0, <1>20, QuietSound DEF vars
<1> QED
  BY <1>1, <1>2, <1>3, <1>4, <1>5, <1>6, <1>7, <1>8, <1>9, <1>10, <1>11, <1>12, <1>13, <1>14,
     <1>15, <1>16, <1>17, <1>18, <1>19, <1>20, NextCases

LEMMA SoundAlways == Spec => []Sound
  BY InitSound, ShapeAlways, SoundNext, PTL DEF Spec

(* No step makes the client's copy of a resource older. *)
LEMMA Forward ==
    ASSUME Shape, Sound, [Next]_vars, ~astray', NEW r \in Resources
    PROVE  mirror'[r] >= mirror[r]
<1>1. TypeOK /\ Line /\ UnderWay /\ mirror \in [Resources -> Nat] /\ val \in [Resources -> Nat]
  BY DEF Shape, TypeOK
<1>2. CASE UNCHANGED mirror
  BY <1>1, <1>2
<1>3. ASSUME Deliver, ~UNCHANGED mirror PROVE mirror'[r] >= mirror[r]
  <2> DEFINE s == Head(conn.wire).snap
  <2>1. Adopt(s) /\ calls # <<>> /\ Head(calls).to = "pump" /\ Head(calls).m = "boot"
    BY <1>1, <1>3, DeliverCases DEF DeliverNotice, DeliverAnswer, TakeAnswer, client
  <2>2. s \in Snapshot /\ Head(conn.wire).kind = "snapshot" /\ conn \in Connection /\ conn # None /\ conn.wire # <<>>
    BY <1>1, <1>3, <2>1, DeliverCases DEF DeliverNotice, client
  <2>3. s \in Snaps
    <3>1. conn.wire \in Seq(Queued \cup Answers)
      BY <2>2, ConnectionFields
    <3>2. Head(conn.wire) \in ToSet(conn.wire)
      BY <2>2, <3>1, RangeOfTail
    <3> QED
      BY <2>2, <3>2 DEF Snaps, SnapsOf
  <2>4. mirror[r] <= s.val[r] /\ mirror' = s.val
    BY <2>1, <2>3 DEF Sound, Copies, Adopt
  <2>5. s.val \in [Resources -> Nat]
    BY <2>2, SnapshotFields
  <2> QED
    BY <1>1, <2>4, <2>5
<1>4. ASSUME Handle, ~UNCHANGED mirror PROVE mirror'[r] >= mirror[r]
  <2> DEFINE e == Head(channel)
  <2>1. e \in Events /\ Apply(e) /\ Observe(e) = "apply" /\ e.kind \in {"replace", "remove"}
    BY <1>1, <1>4, HandleCases DEF HandleNotice, HandleEvent, client, Apply
  <2>2. e \in Coming
    BY <1>1, <1>4, HandleOrderly DEF Sound
  <2>3. e.inst = tracker.inst /\ e.rev > tracker.rev
    BY <1>1, <2>1, EventFields DEF Observe, TypeOK
  <2>4. mirror[e.of] <= e.ver /\ e.of \in Resources /\ e.ver \in Nat
    <3>1. e \in Change
      BY <1>1, <2>1, <2>2, ComingTyped DEF IsChange
    <3> QED
      BY <2>1, <2>2, <2>3, <3>1, ChangeFields DEF Sound, Copies, Copy
  <2>5. mirror' = [mirror EXCEPT ![e.of] = e.ver]
    BY <2>1 DEF Apply
  <2> HIDE DEF e
  <2> QED
    BY <1>1, <2>4, <2>5
<1>5. CASE TakeBox
  <2>1. ~tracker.known /\ Adopt(Head(box)) /\ box # <<>>
    BY <1>5 DEF TakeBox
  <2>2. mirror[r] = 0
    BY <2>1 DEF Sound, Copies
  <2>3. Head(box) \in Snapshot
    BY <1>1, <2>1, RangeOfTail DEF TypeOK
  <2>4. mirror' \in [Resources -> Nat]
    BY <2>1, <2>3, SnapshotFields DEF Adopt
  <2> QED
    BY <2>2, <2>4
<1>6. ASSUME NEW q \in Resources, Refetch(q) PROVE mirror'[r] >= mirror[r]
  <2>1. mirror[q] <= val[q] /\ mirror' = [mirror EXCEPT ![q] = val[q]]
    BY <1>6 DEF Sound, Copies, Copy, Refetch
  <2> QED
    BY <1>1, <2>1
<1>7. ASSUME ~UNCHANGED mirror
      PROVE  Deliver \/ Handle \/ TakeBox \/ \E q \in Resources : Refetch(q)
  <2>1. ~UNCHANGED vars /\ ~UNCHANGED client
    BY <1>7 DEF vars, client
  <2>2. ~RefuseCall /\ ~GiveUp
    BY <1>7 DEF RefuseCall, GiveUp, TakeFailure, client
  <2>3. ~Requery /\ \A o \in Operations : ~StartOperation(o)
    BY <1>7 DEF Requery, StartOperation
  <2>4. /\ ~Drain /\ ~Write /\ ~Register /\ ~Capture /\ ~AnswerBootstrap /\ ~AnswerCall
        /\ ~Reopen /\ ~Lose /\ ~Restart
    BY <2>1 DEF Drain, Write, Register, Capture, AnswerBootstrap, AnswerCall, Reopen, Lose, Restart
  <2>5. /\ \A q \in Resources : \A k \in Kinds(q) : ~Commit(q, k)
        /\ \A o \in Operations : ~FinishOperation(o) /\ ~PublishFinish(o)
    BY <2>1 DEF Commit, FinishOperation, PublishFinish
  <2> QED
    BY <2>1, <2>2, <2>3, <2>4, <2>5, NextCases
<1> QED
  BY <1>2, <1>3, <1>4, <1>5, <1>6, <1>7

(* What the client shows of a resource is never replaced by an older version: *)
(* not by an event that was late, merged or offered again, not by the         *)
(* snapshot of a bootstrap, not by the answer to an invalidate, and not by    *)
(* another daemon's numbers.                                                  *)
THEOREM StreamForward == Spec => NeverBack
<1>1. Shape /\ Sound /\ [Next]_vars => [~astray' => \A r \in Resources : mirror'[r] >= mirror[r]]_vars
  BY Forward
<1> QED
  BY <1>1, ShapeAlways, SoundAlways, PTL DEF Spec, NeverBack

-----------------------------------------------------------------------------
(* What makes the client know of every change, or bootstrap.                 *)

Alarm == \E x \in Coming : x.kind \in {"resync", "reconnected"}

(* The newest change of r is on its way, and later than revision n. *)
Ahead(n, r) ==
    \E x \in Coming : IsChange(x) /\ x.of = r /\ x.inst = inst /\ x.ver = val[r] /\ x.rev > n

(* A client with copy v, of revision n of instance i, that is to read S     *)
(* again, will know of every change, unless it is to bootstrap.              *)
Fed(i, n, v, S) == /\ i = inst /\ conn.attached /\ ~conn.poisoned
                   /\ \A r \in Resources : v[r] = val[r] \/ r \in S \/ Ahead(n, r)
Learns(i, n, v, S) == Alarm \/ Fed(i, n, v, S)

(* Between the capture and the answer, the queue has what changed since.     *)
Capturing ==
    conn # None =>
        /\ conn.serving # "loop" => conn.attached
        /\ conn.serving = "captured" =>
              \A r \in Resources :
                  \/ conn.snap.val[r] = val[r]
                  \/ \E x \in ToSet(conn.domain) : x.of = r /\ x.ver = val[r] /\ x.rev > conn.snap.rev

(* The answer on its way to a client that will take it, the one in the TUI's *)
(* box, and the copy that the client trusts.                                 *)
Taken == Serving("loop") /\ calls # <<>> /\ ~astray /\ Head(calls).to # "nobody"
         /\ (Head(calls).to = "box" => pc # "boot")
Handing == Taken => \A s \in Snaps : Learns(s.inst, s.rev, s.val, {})
Waiting == ~tracker.known /\ pc # "boot" /\ ~astray /\ conn # None
Boxed == Waiting => \A s \in ToSet(box) : Learns(s.inst, s.rev, s.val, {})
Confident == ~NeedsBootstrap /\ pc # "boot" /\ ~astray /\ conn # None
Told == Confident => Learns(tracker.inst, tracker.rev, mirror, stale)

Covered == Capturing /\ Handing /\ Boxed /\ Told

(* A step that loses the client nothing, of a connection or of no change. *)
Onward ==
    /\ UNCHANGED <<inst, val>>
    /\ Alarm => Alarm'
    /\ ~Alarm' /\ ~conn.poisoned =>
          /\ ~conn'.poisoned /\ (conn.attached => conn'.attached)
          /\ \A n \in Nat, r \in Resources : Ahead(n, r) => Ahead(n, r)'

LEMMA OnwardLearns ==
    ASSUME Onward, NEW i, NEW n \in Nat, NEW v, NEW S, Learns(i, n, v, S)
    PROVE  Learns(i, n, v, S)'
<1>1. CASE Alarm'
  BY <1>1 DEF Learns
<1>2. CASE ~Alarm'
  <2>1. Fed(i, n, v, S)
    BY <1>2 DEF Onward, Learns
  <2>2. ~conn.poisoned
    BY <2>1 DEF Fed
  <2>3. /\ ~conn'.poisoned /\ conn'.attached /\ UNCHANGED <<inst, val>>
        /\ \A m \in Nat, r \in Resources : Ahead(m, r) => Ahead(m, r)'
    BY <1>2, <2>1, <2>2 DEF Onward, Fed
  <2>4. Fed(i, n, v, S)'
    <3> SUFFICES ASSUME NEW r \in Resources PROVE v[r] = val'[r] \/ r \in S \/ Ahead(n, r)'
      BY <2>1, <2>3 DEF Fed
    <3>1. v[r] = val[r] \/ r \in S \/ Ahead(n, r)
      BY <2>1 DEF Fed
    <3> QED
      BY <2>3, <3>1
  <2> QED
    BY <2>4 DEF Learns
<1> QED
  BY <1>1, <1>2

(* The copy the client has then is the one it has now. *)
LEMMA LearnsNow ==
    ASSUME NEW i, NEW n, NEW v, NEW S, Learns(i, n, v, S)',
           tracker'.inst = i, tracker'.rev = n, mirror' = v, stale' = S
    PROVE  Learns(tracker.inst, tracker.rev, mirror, stale)'
  BY DEF Learns, Fed, Ahead

LEMMA NatRevs ==
    ASSUME TypeOK
    PROVE  /\ tracker.rev \in Nat /\ tracker.inst \in Nat
           /\ \A s \in Snaps \cup ToSet(box) : s.rev \in Nat /\ s.inst \in Nat
<1>1. \A s \in Snaps \cup ToSet(box) : s \in Snapshot
  BY SnapsTyped
<1> QED
  BY <1>1, SnapshotFields DEF TypeOK

(* Frames that only move along are still on their way. *)
LEMMA FramesOnward ==
    ASSUME UNCHANGED <<inst, val>>, conn # None, conn'.poisoned = conn.poisoned,
           conn.attached => conn'.attached,
           \A x \in Coming : IsEvent(x) \/ x.kind \in {"resync", "reconnected"} => x \in Coming'
    PROVE  Onward
<1>1. Alarm => Alarm'
  BY DEF Alarm
<1>2. ASSUME NEW n \in Nat, NEW r \in Resources, Ahead(n, r) PROVE Ahead(n, r)'
  BY <1>2 DEF Ahead, IsEvent
<1> QED
  BY <1>1, <1>2 DEF Onward

LEMMA QuietOnward ==
    ASSUME UNCHANGED <<inst, val, conn, channel>>
    PROVE  Onward
<1>1. Coming' = Coming
  BY DEF Coming
<1>2. Alarm => Alarm'
  BY <1>1 DEF Alarm
<1>3. ASSUME NEW n \in Nat, NEW r \in Resources, Ahead(n, r) PROVE Ahead(n, r)'
  BY <1>1, <1>3 DEF Ahead
<1> QED
  BY <1>2, <1>3 DEF Onward

(* The newest of the changes that a queue was offered is there, or a resync. *)
LEMMA NewestKept ==
    ASSUME TypeOK, News, NEW x \in Coming, IsChange(x), x.inst = inst, x.ver = val[x.of],
           NEW T, T \subseteq Coming \cup {Resync}, Later(x, T), \A y \in T : IsEvent(y) => y.inst = inst
    PROVE  \E y \in T : IsChange(y) /\ y.of = x.of /\ y.inst = inst /\ y.ver = val[x.of] /\ y.rev >= x.rev
<1>1. PICK y \in T : IsChange(y) /\ y.of = x.of /\ (y = x \/ y.rev > x.rev)
  BY DEF Later
<1>2. x.rev \in Nat /\ x.ver \in Nat
  BY ComingTyped, ChangeFields
<1>3. y \in Coming /\ y.inst = inst
  BY <1>1, NoticeIsNoEvent DEF IsEvent
<1>4. y.rev \in Nat /\ y.ver \in Nat /\ y.ver <= val[y.of]
  BY <1>1, <1>3, ComingTyped, ChangeFields DEF News
<1>5. CASE y = x
  BY <1>1, <1>2, <1>5
<1>6. CASE y.rev > x.rev
  <2>1. x.ver <= y.ver
    BY <1>1, <1>2, <1>3, <1>4, <1>6 DEF News
  <2>2. y.ver = val[x.of]
    BY <1>1, <1>2, <1>4, <2>1
  <2> QED
    BY <1>1, <1>2, <1>3, <1>4, <1>6, <2>2
<1> QED
  BY <1>1, <1>5, <1>6

LEMMA DrainOnward ==
    ASSUME TypeOK, News, InOrder, Drain
    PROVE  Onward
<1> DEFINE q == Emptied(conn)
           s == Merged(conn)
<1>1. conn \in Connection /\ conn # None /\ conn' # None /\ conn' = Offered(q, s) /\ OnConn
      /\ Took(q, conn', ToSet(s))
  BY DrainCases
<1>2. /\ q \in Connection /\ q.domain = <<>> /\ q.life = <<>> /\ q.wire = conn.wire
      /\ q.out = conn.out /\ q.attached = conn.attached /\ q.poisoned = conn.poisoned
  BY <1>1, EmptiedTyped
<1>3. OrderOf(conn) /\ \A x \in MineOf(conn) : IsEvent(x) => x.inst = inst
  BY <1>1 DEF InOrder, News, Mine
<1>4. s \in Seq(Events) /\ Ordered(s) /\ ToSet(s) = ToSet(conn.domain) \cup ToSet(conn.life)
  BY <1>1, <1>3, MergedTyped, MergedQueue
<1> HIDE DEF q, s
<1>5. \A x \in ToSet(q.out) \cup ToSet(s) : IsEvent(x) => x.inst = inst
  BY <1>2, <1>3, <1>4 DEF MineOf
<1>6. Ordered(q.out) /\ Before(ToSet(q.out), ToSet(s))
  BY <1>2, <1>3, <1>4 DEF OrderOf, Before
<1>7. ~conn'.poisoned => InStead(ToSet(q.out) \cup ToSet(s), ToSet(conn'.out))
  BY <1>1, <1>2, <1>4, <1>5, <1>6, OfferedOrdered
<1>8. /\ conn'.attached = conn.attached /\ conn'.wire = conn.wire
      /\ ToSet(conn'.out) \subseteq ToSet(conn.out) \cup ToSet(s) \cup {Resync}
      /\ conn'.poisoned => conn.poisoned \/ Resync \in ToSet(conn'.out)
      /\ Resync \in ToSet(conn.out) => Resync \in ToSet(conn'.out)
  BY <1>1, <1>2 DEF Took, SameRest
<1>9. UNCHANGED <<inst, val, channel>>
  BY <1>1 DEF OnConn, daemon, session
<1>10. Coming' = ToSet(channel) \cup ToSet(conn.wire) \cup ToSet(conn'.out) \cup ToSet(conn'.domain) \cup ToSet(conn'.life)
  BY <1>1, <1>8, <1>9, ComingIs DEF Mine, MineOf
<1>11. Coming = ToSet(channel) \cup ToSet(conn.wire) \cup ToSet(conn.out) \cup ToSet(s)
  BY <1>1, <1>4, ComingIs DEF Mine, MineOf
<1>12. \A x \in ToSet(s) : x.kind \notin {"resync", "reconnected"}
  BY <1>4, Ranges, FrameFields, EventFields DEF Frames, Events
<1>13. Alarm => Alarm'
  <2> SUFFICES ASSUME NEW x \in Coming, x.kind \in {"resync", "reconnected"} PROVE Alarm'
    BY DEF Alarm
  <2>1. CASE x \in ToSet(conn.out)
    <3>1. x \in Queued
      BY <1>1, <2>1, MineTyped
    <3>2. x = Resync
      BY <3>1, FrameFields, EventFields DEF Queued, Events, Frames, IsEvent, IsChange
    <3> QED
      BY <1>8, <1>10, <2>1, <3>2, NoticeIsNoEvent DEF Alarm
  <2>2. CASE x \notin ToSet(conn.out)
    <3>1. x \in Coming'
      BY <1>10, <1>11, <1>12, <2>2
    <3> QED
      BY <3>1 DEF Alarm
  <2> QED
    BY <2>1, <2>2
<1>14. ASSUME ~Alarm', ~conn.poisoned
       PROVE  /\ ~conn'.poisoned /\ conn'.attached = conn.attached
              /\ \A n \in Nat, r \in Resources : Ahead(n, r) => Ahead(n, r)'
  <2>1. ~conn'.poisoned
    BY <1>8, <1>10, <1>14, NoticeIsNoEvent DEF Alarm
  <2>2. ASSUME NEW n \in Nat, NEW r \in Resources, Ahead(n, r) PROVE Ahead(n, r)'
    <3>1. PICK x \in Coming : IsChange(x) /\ x.of = r /\ x.inst = inst /\ x.ver = val[r] /\ x.rev > n
      BY <2>2 DEF Ahead
    <3>2. CASE x \in Coming'
      BY <1>9, <3>1, <3>2 DEF Ahead
    <3>3. CASE x \notin Coming'
      <4>1. x \in ToSet(q.out) \cup ToSet(s)
        BY <1>2, <1>10, <1>11, <3>3
      <4>2. Later(x, ToSet(conn'.out))
        BY <1>7, <2>1, <3>1, <4>1 DEF InStead
      <4>3. ToSet(conn'.out) \subseteq Coming \cup {Resync}
        BY <1>8, <1>11
      <4>4. \A y \in ToSet(conn'.out) : IsEvent(y) => y.inst = inst
        BY <1>2, <1>5, <1>8, NoticeIsNoEvent
      <4>5. PICK y \in ToSet(conn'.out) :
               IsChange(y) /\ y.of = x.of /\ y.inst = inst /\ y.ver = val[x.of] /\ y.rev >= x.rev
        BY <3>1, <4>2, <4>3, <4>4, NewestKept
      <4>6. x.rev \in Nat /\ y.rev \in Nat
        BY <3>1, <4>3, <4>5, ComingTyped, ChangeFields, NoticeIsNoEvent DEF IsEvent
      <4>7. y.rev > n /\ y \in Coming'
        BY <1>10, <3>1, <4>5, <4>6
      <4> QED
        BY <1>9, <3>1, <4>5, <4>7 DEF Ahead
    <3> QED
      BY <3>2, <3>3
  <2> QED
    BY <1>8, <2>1, <2>2
<1> QED
  BY <1>9, <1>13, <1>14 DEF Onward

LEMMA WriteOnward ==
    ASSUME TypeOK, Write
    PROVE  Onward /\ conn # None /\ conn' # None
<1>1. conn \in Connection /\ conn # None /\ OnConn
  BY WriteCases, NoneAssumption
<1>2. conn.wire \in Seq(Queued \cup Answers) /\ conn.out \in Seq(Queued) /\ conn.replies \in Seq(Answers)
  BY <1>1, ConnectionFields
<1>3. UNCHANGED <<inst, val, channel>>
  BY <1>1 DEF OnConn, daemon, session
<1>4. conn' # None /\ MineOf(conn) \subseteq MineOf(conn') /\ conn'.attached = conn.attached
      /\ conn'.poisoned = conn.poisoned
  <2>1. CASE conn.replies # <<>> /\ conn' = Replies(conn)
    <3>1. /\ conn' \in Connection /\ conn'.wire = Append(conn.wire, Head(conn.replies)) /\ conn'.out = conn.out
          /\ conn'.domain = conn.domain /\ conn'.life = conn.life
          /\ conn'.attached = conn.attached /\ conn'.poisoned = conn.poisoned
      BY <1>1, <2>1, RepliesTyped
    <3>2. Head(conn.replies) \in Queued \cup Answers
      BY <1>2, <2>1, RangeOfTail
    <3>3. ToSet(conn'.wire) = ToSet(conn.wire) \cup {Head(conn.replies)}
      BY <1>2, <3>1, <3>2, RangeOfAppend
    <3> QED
      BY <3>1, <3>3, NoneAssumption DEF MineOf
  <2>2. CASE conn.out # <<>> /\ conn' = Sends(conn)
    <3>1. /\ conn' \in Connection /\ conn'.wire = Append(conn.wire, Head(conn.out)) /\ conn'.out = Tail(conn.out)
          /\ conn'.domain = conn.domain /\ conn'.life = conn.life
          /\ conn'.attached = conn.attached /\ conn'.poisoned = conn.poisoned
      BY <1>1, <2>2, SendsTyped
    <3>2. Head(conn.out) \in Queued \cup Answers /\ ToSet(conn.out) = ToSet(Tail(conn.out)) \cup {Head(conn.out)}
      BY <1>2, <2>2, RangeOfTail
    <3>3. ToSet(conn'.wire) = ToSet(conn.wire) \cup {Head(conn.out)}
      BY <1>2, <3>1, <3>2, RangeOfAppend
    <3> QED
      BY <3>1, <3>2, <3>3, NoneAssumption DEF MineOf
  <2> QED
    BY <2>1, <2>2, WriteCases
<1>5. Coming \subseteq Coming'
  BY <1>1, <1>3, <1>4, ComingIs DEF Mine, MineOf
<1> QED
  BY <1>1, <1>3, <1>4, <1>5, FramesOnward

LEMMA SameOnward ==
    ASSUME UNCHANGED <<inst, val, channel>>, conn # None, conn' # None, conn'.poisoned = conn.poisoned,
           conn.attached => conn'.attached, MineOf(conn) \subseteq MineOf(conn')
    PROVE  Onward
<1>1. Coming \subseteq Coming'
  BY ComingIs DEF Mine, MineOf
<1> QED
  BY <1>1, FramesOnward

LEMMA SameFramesMine ==
    ASSUME NEW c, NEW d, d.wire = c.wire, d.out = c.out, d.domain = c.domain, d.life = c.life
    PROVE  MineOf(d) = MineOf(c)
  BY DEF MineOf

LEMMA RegisterOnward ==
    ASSUME TypeOK, Register
    PROVE  /\ Onward /\ conn # None /\ conn' # None /\ conn'.serving = "registered" /\ conn'.attached
           /\ UNCHANGED <<box, client, app, calls>>
<1>1. conn \in Connection /\ conn # None /\ conn' = Registered(conn)
      /\ UNCHANGED <<inst, val, channel, box, client, app, calls>>
  BY DEF Register, Registered, Asked, Serving, TypeOK, daemon, bounds
<1>2. /\ conn' \in Connection /\ conn'.serving = "registered" /\ conn'.attached /\ conn'.wire = conn.wire
      /\ conn'.out = conn.out /\ conn'.domain = conn.domain /\ conn'.life = conn.life
      /\ conn'.poisoned = conn.poisoned
  BY <1>1, RegisteredTyped
<1>3. MineOf(conn') = MineOf(conn)
  BY <1>2, SameFramesMine
<1> QED
  BY <1>1, <1>2, <1>3, SameOnward, NoneAssumption

LEMMA CaptureOnward ==
    ASSUME TypeOK, Capture
    PROVE  /\ Onward /\ conn # None /\ conn' # None /\ conn.serving = "registered"
           /\ conn'.serving = "captured" /\ conn'.snap = Now
           /\ conn'.attached = conn.attached /\ UNCHANGED <<box, client, app, calls, inst, rev, val>>
<1>1. /\ conn \in Connection /\ conn # None /\ conn' = Captured(conn, Now) /\ OnConn
      /\ conn' # None /\ Now \in Snapshot /\ conn.serving = "registered"
  BY CaptureCases
<1>2. /\ conn'.serving = "captured" /\ conn'.snap = Now /\ conn'.attached = conn.attached
      /\ conn'.wire = conn.wire /\ conn'.out = conn.out /\ conn'.domain = conn.domain
      /\ conn'.life = conn.life /\ conn'.poisoned = conn.poisoned
  BY <1>1, CapturedTyped
<1>3. UNCHANGED <<box, client, app, calls, inst, rev, val, channel>>
  BY <1>1 DEF OnConn, daemon, session, bounds
<1>4. MineOf(conn') = MineOf(conn)
  BY <1>2, SameFramesMine
<1> QED
  BY <1>1, <1>2, <1>3, <1>4, SameOnward

LEMMA AnswerCallOnward ==
    ASSUME TypeOK, Line, AnswerCall
    PROVE  /\ Onward /\ conn # None /\ conn' # None /\ conn.serving = "loop" /\ conn'.serving = "loop"
           /\ UNCHANGED <<box, client, app, calls, val>>
<1>1. /\ conn \in Connection /\ conn # None /\ conn.serving = "loop"
      /\ UNCHANGED <<calls, channel, box, client, bounds, inst, val>>
  BY AnswerCallCases
<1>2. PICK s \in OpStates : conn' = Answered(conn, s)
  BY AnswerCallCases
<1>3. /\ conn' \in Connection /\ conn'.serving = "loop" /\ conn'.attached = conn.attached
      /\ conn'.wire = conn.wire /\ conn'.out = conn.out /\ conn'.domain = conn.domain
      /\ conn'.life = conn.life /\ conn'.poisoned = conn.poisoned
  BY <1>1, <1>2, AnsweredTyped
<1>4. MineOf(conn') = MineOf(conn)
  BY <1>3, SameFramesMine
<1> QED
  BY <1>1, <1>3, <1>4, SameOnward, NoneAssumption DEF bounds

LEMMA PublishOnward ==
    ASSUME TypeOK, NEW o \in Operations, PublishFinish(o), conn # None
    PROVE  /\ Onward /\ conn' # None /\ UNCHANGED <<box, client, app, calls, val>>
           /\ conn'.serving = conn.serving /\ conn'.snap = conn.snap /\ conn'.domain = conn.domain
           /\ conn'.attached = conn.attached
<1>1. UNCHANGED <<inst, val, channel, box, client, app, calls>>
  BY PublishFan DEF session
<1>2. CASE UNCHANGED conn
  BY <1>1, <1>2, QuietOnward
<1>3. CASE /\ conn \in Connection /\ conn' \in Connection /\ conn' # None
           /\ conn' = [conn EXCEPT !.life = Append(@, FinishEvent(o))]
  <2>1. FinishEvent(o) \in Finish /\ conn.life \in Seq(Finish)
    BY <1>3, PublishFan, ConnectionFields
  <2>2. /\ conn'.life = Append(conn.life, FinishEvent(o)) /\ conn'.domain = conn.domain
        /\ conn'.attached = conn.attached /\ conn'.serving = conn.serving /\ conn'.snap = conn.snap
        /\ conn'.wire = conn.wire /\ conn'.out = conn.out /\ conn'.poisoned = conn.poisoned
    BY <1>3, <2>1, LifeTyped
  <2>3. ToSet(conn'.life) = ToSet(conn.life) \cup {FinishEvent(o)}
    BY <2>1, <2>2, RangeOfAppend
  <2>4. MineOf(conn) \subseteq MineOf(conn')
    BY <2>2, <2>3 DEF MineOf
  <2> QED
    BY <1>1, <1>3, <2>2, <2>4, SameOnward
<1> QED
  BY <1>2, <1>3, PublishFan

LEMMA DeliverOnward ==
    ASSUME TypeOK, Line, UnderWay, InOrder, Deliver
    PROVE  /\ Onward /\ conn # None /\ conn' # None /\ conn'.serving = conn.serving
           /\ conn'.snap = conn.snap /\ conn'.domain = conn.domain /\ conn'.attached = conn.attached
           /\ UNCHANGED <<inst, val>>
<1>1. /\ conn \in Connection /\ conn # None /\ conn.wire # <<>> /\ conn' = Read(conn)
      /\ UNCHANGED <<daemon, bounds>>
  BY DeliverCases
<1>2. /\ conn' \in Connection /\ conn'.wire = Tail(conn.wire)
      /\ conn'.domain = conn.domain /\ conn'.life = conn.life /\ conn'.out = conn.out
      /\ conn'.attached = conn.attached /\ conn'.serving = conn.serving /\ conn'.snap = conn.snap
      /\ conn'.poisoned = conn.poisoned
  BY <1>1, ReadTyped
<1>3. UNCHANGED <<inst, val>> /\ conn' # None
  BY <1>1, <1>2, NoneAssumption DEF daemon
<1>4. ASSUME NEW x \in Coming, IsEvent(x) \/ x.kind \in {"resync", "reconnected"} PROVE x \in Coming'
  <2>1. CASE DeliverNotice
    BY <2>1, DeliverOrderly
  <2>2. CASE DeliverAnswer
    <3>1. conn.wire \in Seq(Queued \cup Answers)
      BY <1>1, ConnectionFields
    <3>2. ToSet(conn.wire) = ToSet(Tail(conn.wire)) \cup {Head(conn.wire)}
      BY <1>1, <3>1, RangeOfTail
    <3>3. x # Head(conn.wire)
      BY <1>4, <2>2 DEF DeliverAnswer, AnswerKinds, IsEvent, IsChange
    <3>4. Coming = ToSet(channel) \cup MineOf(conn) /\ Coming' = ToSet(channel) \cup MineOf(conn')
      BY <1>1, <1>3, <2>2, ComingIs DEF Mine, MineOf, DeliverAnswer
    <3> QED
      BY <1>2, <3>2, <3>3, <3>4 DEF MineOf
  <2> QED
    BY <2>1, <2>2, DeliverCases
<1>5. Onward
  BY <1>1, <1>2, <1>3, <1>4, FramesOnward
<1> QED
  BY <1>1, <1>2, <1>3, <1>5

(* A change is on its way to a connection that takes events. *)
LEMMA CommitLearns ==
    ASSUME TypeOK, News, InOrder, conn # None, NEW q \in Resources, NEW k \in Kinds(q), Commit(q, k),
           NEW i \in Nat, NEW n \in Nat, NEW v, NEW S, Past(i, n), Learns(i, n, v, S)
    PROVE  Learns(i, n, v, S)'
<1> DEFINE e == CommitEvent(k, q)
<1>1. /\ e = [kind |-> k, rev |-> rev + 1, of |-> q, ver |-> val[q] + 1, inst |-> inst]
      /\ e \in Change /\ rev' = rev + 1 /\ val' = [val EXCEPT ![q] = val[q] + 1]
      /\ UNCHANGED <<inst, channel>>
  BY CommitFan DEF session
<1>2. rev \in Nat /\ inst \in Nat /\ val \in [Resources -> Nat]
  BY DEF TypeOK
<1>3. e.rev = rev + 1 /\ e.of = q /\ e.ver = val'[q] /\ e.inst = inst /\ IsChange(e)
  BY <1>1, <1>2, ChangeFields
<1> HIDE DEF e
<1>4. CASE UNCHANGED conn /\ ~conn.attached
  <2>1. Alarm
    BY <1>4 DEF Learns, Fed
  <2>2. Coming' = Coming
    BY <1>1, <1>4 DEF Coming
  <2> QED
    BY <2>1, <2>2 DEF Learns, Alarm
<1>5. CASE /\ conn \in Connection /\ conn' \in Connection /\ conn' # None
           /\ conn' = [conn EXCEPT !.domain = Append(@, e)]
  <2>1. /\ conn'.domain = Append(conn.domain, e) /\ conn'.life = conn.life
        /\ conn'.attached = conn.attached /\ conn'.wire = conn.wire
        /\ conn'.out = conn.out /\ conn'.poisoned = conn.poisoned /\ conn.domain \in Seq(Change)
    BY <1>1, <1>5, DomainTyped, ConnectionFields
  <2>2. ToSet(conn'.domain) = ToSet(conn.domain) \cup {e}
    BY <1>1, <2>1, RangeOfAppend
  <2>3. Coming' = Coming \cup {e}
    BY <1>1, <1>5, <2>1, <2>2, ComingIs DEF Mine, MineOf
  <2>4. CASE Alarm
    BY <2>3, <2>4 DEF Learns, Alarm
  <2>5. CASE Fed(i, n, v, S)
    <3>1. i = inst /\ conn'.attached /\ ~conn'.poisoned /\ n <= rev
      BY <2>1, <2>5 DEF Fed, Past
    <3>2. ASSUME NEW r \in Resources PROVE v[r] = val'[r] \/ r \in S \/ Ahead(n, r)'
      <4>1. CASE r = q
        <5>1. e.rev > n
          BY <1>2, <1>3, <3>1
        <5> QED
          BY <1>1, <1>3, <2>3, <4>1, <5>1 DEF Ahead
      <4>2. CASE r # q
        <5>1. val'[r] = val[r]
          BY <1>1, <1>2, <4>2
        <5>2. v[r] = val[r] \/ r \in S \/ Ahead(n, r)
          BY <2>5 DEF Fed
        <5> QED
          BY <1>1, <2>3, <5>1, <5>2 DEF Ahead
      <4> QED
        BY <4>1, <4>2
    <3>3. Fed(i, n, v, S)'
      BY <1>1, <3>1, <3>2 DEF Fed
    <3> QED
      BY <3>3 DEF Learns
  <2> QED
    BY <2>4, <2>5 DEF Learns
<1> QED
  BY <1>4, <1>5, CommitFan DEF e

(* The parts of Covered, over a step that loses the client nothing. *)
LEMMA HandingOnward ==
    ASSUME TypeOK, Handing, Onward, Taken' /\ Snaps' # {} => Taken /\ Snaps' \subseteq Snaps
    PROVE  Handing'
<1> SUFFICES ASSUME Taken', NEW s \in Snaps' PROVE Learns(s.inst, s.rev, s.val, {})'
  BY DEF Handing
<1>1. Taken /\ s \in Snaps
  OBVIOUS
<1>2. Learns(s.inst, s.rev, s.val, {}) /\ s.rev \in Nat
  BY <1>1, NatRevs DEF Handing
<1> QED
  BY <1>2, OnwardLearns

LEMMA BoxedOnward ==
    ASSUME TypeOK, Boxed, Onward, UNCHANGED box, Waiting' => Waiting
    PROVE  Boxed'
<1> SUFFICES ASSUME Waiting', NEW s \in ToSet(box)' PROVE Learns(s.inst, s.rev, s.val, {})'
  BY DEF Boxed
<1>1. Waiting /\ s \in ToSet(box)
  BY DEF ToSet
<1>2. Learns(s.inst, s.rev, s.val, {}) /\ s.rev \in Nat
  BY <1>1, NatRevs DEF Boxed
<1> QED
  BY <1>2, OnwardLearns

LEMMA KeptLearns ==
    ASSUME Onward, NEW i, NEW n \in Nat, NEW v, NEW S, Learns(i, n, v, S),
           tracker'.inst = i, tracker'.rev = n, mirror' = v, stale' = S
    PROVE  Learns(tracker.inst, tracker.rev, mirror, stale)'
<1>1. Learns(i, n, v, S)'
  BY OnwardLearns
<1> QED
  BY <1>1, LearnsNow

LEMMA ToldOnward ==
    ASSUME TypeOK, Told, Onward, UNCHANGED <<mirror, stale>>, tracker'.inst = tracker.inst,
           tracker'.rev = tracker.rev, Confident' => Confident
    PROVE  Told'
<1> SUFFICES ASSUME Confident' PROVE Learns(tracker.inst, tracker.rev, mirror, stale)'
  BY DEF Told
<1>1. Learns(tracker.inst, tracker.rev, mirror, stale) /\ tracker.rev \in Nat
  BY NatRevs DEF Told
<1> QED
  BY <1>1, KeptLearns

LEMMA CapturingKept ==
    ASSUME Capturing, conn # None, conn'.serving = conn.serving, conn'.snap = conn.snap,
           conn'.domain = conn.domain, conn'.attached = conn.attached, UNCHANGED val
    PROVE  Capturing'
  BY DEF Capturing, ToSet

(* Of a connection, with nothing of the client's. *)
LEMMA ConnCovered ==
    ASSUME TypeOK, Covered, Onward, conn # None, UNCHANGED <<box, client, app, calls>>,
           Serving("loop")' => Serving("loop") /\ Snaps' \subseteq Snaps
    PROVE  Handing' /\ Boxed' /\ Told'
<1>1. UNCHANGED <<tracker, mirror, stale, pc, astray>>
  BY DEF client
<1>2. Waiting' => Waiting
  BY <1>1 DEF Waiting
<1>3. Confident' => Confident
  BY <1>1 DEF Confident, NeedsBootstrap
<1>4. Taken' => Taken /\ Snaps' \subseteq Snaps
  BY <1>1 DEF Taken
<1> QED
  BY <1>1, <1>2, <1>3, <1>4, HandingOnward, BoxedOnward, ToldOnward DEF Covered

LEMMA DownCovered == ASSUME conn' = None PROVE Covered'
  BY DEF Covered, Capturing, Handing, Taken, Serving, Boxed, Waiting, Told, Confident

LEMMA ReopenCovered == ASSUME TypeOK, InOrder, Reopen PROVE Covered'
<1> DEFINE n == [kind |-> "reconnected", inst |-> inst]
<1>1. Alarm'
  <2>1. n.kind \in {"resync", "reconnected"}
    OBVIOUS
  <2>2. Coming' = Coming \cup {n}
    BY ReopenOrderly
  <2> HIDE DEF n
  <2> QED
    BY <2>1, <2>2 DEF Alarm
<1>2. conn'.serving = "loop"
  BY DEF Reopen, NewConn
<1> QED
  BY <1>1, <1>2 DEF Covered, Capturing, Handing, Boxed, Told, Learns

LEMMA DrainCovered == ASSUME TypeOK, News, InOrder, Covered, Drain PROVE Covered'
<1>1. /\ conn # None /\ conn' # None /\ conn.serving = "loop" /\ OnConn
      /\ Took(Emptied(conn), conn', ToSet(Merged(conn))) /\ conn \in Connection
  BY DrainCases
<1>2. conn'.serving = "loop"
  BY <1>1, EmptiedTyped DEF Took, SameRest
<1>3. Onward
  BY DrainOnward
<1>4. UNCHANGED <<box, client, app, calls>>
  BY <1>1 DEF OnConn, session, bounds
<1>5. Snaps' \subseteq Snaps
  BY <1>1, DrainOrderly DEF Snaps, SnapsOf
<1>6. Handing' /\ Boxed' /\ Told'
  BY <1>1, <1>3, <1>4, <1>5, ConnCovered DEF Serving
<1> QED
  BY <1>2, <1>6 DEF Covered, Capturing

LEMMA WriteCovered == ASSUME TypeOK, InOrder, Covered, Write PROVE Covered'
<1>1. conn \in Connection /\ conn.serving = "loop" /\ OnConn
  BY WriteCases
<1>2. Onward /\ conn # None /\ conn' # None
  BY WriteOnward
<1>3. conn'.serving = "loop"
  BY <1>1, WriteCases, SendsTyped, RepliesTyped
<1>4. UNCHANGED <<box, client, app, calls>>
  BY <1>1 DEF OnConn, session, bounds
<1>5. Snaps' \subseteq Snaps
  BY <1>2, WriteOrderly DEF Snaps, SnapsOf
<1>6. Handing' /\ Boxed' /\ Told'
  BY <1>1, <1>2, <1>4, <1>5, ConnCovered DEF Serving
<1> QED
  BY <1>3, <1>6 DEF Covered, Capturing

LEMMA RegisterCovered == ASSUME TypeOK, Covered, Register PROVE Covered'
<1>1. /\ Onward /\ conn # None /\ conn' # None /\ conn'.serving = "registered" /\ conn'.attached
      /\ UNCHANGED <<box, client, app, calls>>
  BY RegisterOnward
<1>2. Handing' /\ Boxed' /\ Told'
  BY <1>1, ConnCovered DEF Serving
<1> QED
  BY <1>1, <1>2 DEF Covered, Capturing

LEMMA CaptureCovered == ASSUME TypeOK, Covered, Capture PROVE Covered'
<1>1. /\ Onward /\ conn # None /\ conn' # None /\ conn.serving = "registered"
      /\ conn'.serving = "captured" /\ conn'.snap = Now
      /\ conn'.attached = conn.attached /\ UNCHANGED <<box, client, app, calls, inst, rev, val>>
  BY CaptureOnward
<1>2. Handing' /\ Boxed' /\ Told'
  BY <1>1, ConnCovered DEF Serving
<1>3. conn'.attached
  BY <1>1 DEF Covered, Capturing
<1>4. conn'.snap.val = val'
  BY <1>1 DEF Now
<1> QED
  BY <1>1, <1>2, <1>3, <1>4 DEF Covered, Capturing

LEMMA AnswerCallCovered == ASSUME TypeOK, Line, InOrder, Covered, AnswerCall PROVE Covered'
<1>1. /\ Onward /\ conn # None /\ conn' # None /\ conn.serving = "loop" /\ conn'.serving = "loop"
      /\ UNCHANGED <<box, client, app, calls, val>>
  BY AnswerCallOnward
<1>2. Snaps' \subseteq Snaps
  BY <1>1, AnswerCallOrderly DEF Snaps, SnapsOf
<1>3. Handing' /\ Boxed' /\ Told'
  BY <1>1, <1>2, ConnCovered DEF Serving
<1> QED
  BY <1>1, <1>3 DEF Covered, Capturing

LEMMA PublishCovered ==
    ASSUME TypeOK, News, InOrder, Covered, NEW o \in Operations, PublishFinish(o)
    PROVE  Covered'
<1>1. CASE conn = None
  <2>1. conn' = None
    BY <1>1, PublishFan
  <2> QED
    BY <2>1, DownCovered
<1>2. CASE conn # None
  <2>1. /\ Onward /\ conn' # None /\ UNCHANGED <<box, client, app, calls, val>>
        /\ conn'.serving = conn.serving /\ conn'.snap = conn.snap /\ conn'.domain = conn.domain
        /\ conn'.attached = conn.attached
    BY <1>2, PublishOnward
  <2>2. Snaps' = Snaps
    BY PublishOrderly
  <2>3. Handing' /\ Boxed' /\ Told'
    BY <1>2, <2>1, <2>2, ConnCovered DEF Serving
  <2>4. Capturing'
    BY <1>2, <2>1, CapturingKept DEF Covered
  <2> QED
    BY <2>3, <2>4 DEF Covered
<1> QED
  BY <1>1, <1>2

LEMMA FinishCovered ==
    ASSUME TypeOK, Covered, NEW o \in Operations, FinishOperation(o)
    PROVE  Covered'
<1>1. UNCHANGED <<inst, val, conn, channel, box, client, app, calls>>
  BY DEF FinishOperation, session, bounds
<1>2. CASE conn = None
  BY <1>1, <1>2, DownCovered
<1>3. CASE conn # None
  <2>1. Snaps' = Snaps /\ Onward /\ (Serving("loop")' => Serving("loop"))
    BY <1>1, QuietOnward DEF Snaps, SnapsOf, Serving
  <2>2. Handing' /\ Boxed' /\ Told'
    BY <1>1, <1>3, <2>1, ConnCovered
  <2>3. Capturing'
    BY <1>1, <1>3, CapturingKept DEF Covered
  <2> QED
    BY <2>2, <2>3 DEF Covered
<1> QED
  BY <1>2, <1>3

LEMMA CommitCovered ==
    ASSUME TypeOK, UnderWay, Sound, Covered, NEW q \in Resources, NEW k \in Kinds(q), Commit(q, k)
    PROVE  Covered'
<1> DEFINE e == CommitEvent(k, q)
<1>1. /\ e = [kind |-> k, rev |-> rev + 1, of |-> q, ver |-> val[q] + 1, inst |-> inst]
      /\ e \in Change /\ rev' = rev + 1 /\ val' = [val EXCEPT ![q] = val[q] + 1]
      /\ UNCHANGED <<inst, calls, box, pc, tracker, mirror, stale, astray, app>>
  BY CommitFan DEF session, client
<1>2. rev \in Nat /\ inst \in Nat /\ val \in [Resources -> Nat]
  BY DEF TypeOK
<1>3. e.rev = rev + 1 /\ e.of = q /\ e.ver = val'[q]
  BY <1>1, <1>2
<1> HIDE DEF e
<1>4. CASE conn = None
  <2>1. conn' = None
    BY <1>4, CommitFan
  <2> QED
    BY <2>1, DownCovered
<1>5. CASE conn # None
  <2>1. News /\ InOrder /\ Snaps' = Snaps
    BY CommitOrderly DEF Sound
  <2>2. \A s \in Snaps \cup ToSet(box) : Past(s.inst, s.rev) /\ s.rev \in Nat /\ s.inst \in Nat
    BY NatRevs DEF Sound, Copies, Copy
  <2>3. /\ conn' # None /\ conn'.serving = conn.serving /\ conn'.snap = conn.snap
        /\ conn'.attached = conn.attached
        /\ \/ ~conn.attached /\ UNCHANGED conn
           \/ ToSet(conn'.domain) = ToSet(conn.domain) \cup {e}
    <3>1. CASE UNCHANGED conn /\ ~conn.attached
      BY <1>5, <3>1
    <3>2. CASE /\ conn \in Connection /\ conn' \in Connection /\ conn' # None
               /\ conn' = [conn EXCEPT !.domain = Append(@, e)]
      <4>1. conn.domain \in Seq(Change) /\ conn'.domain = Append(conn.domain, e)
            /\ conn'.serving = conn.serving /\ conn'.snap = conn.snap /\ conn'.attached = conn.attached
        BY <1>1, <3>2, DomainTyped, ConnectionFields
      <4>2. ToSet(conn'.domain) = ToSet(conn.domain) \cup {e}
        BY <1>1, <4>1, RangeOfAppend
      <4> QED
        BY <3>2, <4>1, <4>2
    <3> QED
      BY <1>5, <3>1, <3>2, CommitFan DEF e
  <2>4. Capturing'
    <3> SUFFICES ASSUME conn.serving = "captured", NEW r \in Resources
                 PROVE  \/ conn.snap.val[r] = val'[r]
                        \/ \E x \in ToSet(conn'.domain) : x.of = r /\ x.ver = val'[r] /\ x.rev > conn.snap.rev
      BY <1>5, <2>3 DEF Covered, Capturing, ToSet
    <3>1. ToSet(conn'.domain) = ToSet(conn.domain) \cup {e}
      BY <1>5, <2>3 DEF Covered, Capturing
    <3>2. CASE r = q
      <4>1. conn.snap # None
        BY <1>5, <2>3 DEF UnderWay
      <4>2. conn.snap \in Snaps
        BY <1>5, <4>1 DEF Snaps, SnapsOf
      <4>3. conn.snap.rev <= rev /\ conn.snap.rev \in Nat
        BY <2>2, <4>2 DEF Sound, Copies, Past
      <4>4. e.rev > conn.snap.rev
        BY <1>2, <1>3, <4>3
      <4> QED
        BY <1>3, <3>1, <3>2, <4>4
    <3>3. CASE r # q
      <4>1. val'[r] = val[r]
        BY <1>1, <1>2, <3>3
      <4> QED
        BY <1>5, <3>1, <4>1 DEF Covered, Capturing
    <3> QED
      BY <3>2, <3>3
  <2>5. ASSUME NEW s \in Snaps \cup ToSet(box), Learns(s.inst, s.rev, s.val, {})
        PROVE  Learns(s.inst, s.rev, s.val, {})'
    BY <1>5, <2>1, <2>2, <2>5, CommitLearns
  <2>6. Handing'
    BY <1>1, <1>5, <2>1, <2>3, <2>5 DEF Covered, Handing, Taken, Serving
  <2>7. Boxed'
    <3>1. Waiting' => Waiting
      BY <1>1, <1>5 DEF Waiting
    <3>2. ToSet(box)' = ToSet(box)
      BY <1>1 DEF ToSet
    <3> QED
      BY <2>5, <3>1, <3>2 DEF Covered, Boxed
  <2>8. Told'
    <3> SUFFICES ASSUME Confident' PROVE Learns(tracker.inst, tracker.rev, mirror, stale)'
      BY DEF Told
    <3>1. Confident
      BY <1>1, <1>5 DEF Confident, NeedsBootstrap
    <3>2. Learns(tracker.inst, tracker.rev, mirror, stale) /\ Past(tracker.inst, tracker.rev)
          /\ tracker.inst \in Nat /\ tracker.rev \in Nat
      BY <3>1, NatRevs DEF Covered, Told, Sound, Copies, Copy
    <3>3. \A i, n \in Nat : \A v, S : Past(i, n) /\ Learns(i, n, v, S) => Learns(i, n, v, S)'
      BY <1>5, <2>1, CommitLearns
    <3>4. \A i, n \in Nat : \A v, S : /\ Past(i, n) /\ Learns(i, n, v, S)
                                      /\ tracker'.inst = i /\ tracker'.rev = n /\ mirror' = v /\ stale' = S
             => Learns(tracker.inst, tracker.rev, mirror, stale)'
      BY <3>3, LearnsNow
    <3> QED
      BY <1>1, <3>2, <3>4
  <2> QED
    BY <2>4, <2>6, <2>7, <2>8 DEF Covered
<1> QED
  BY <1>4, <1>5

LEMMA AnswerBootstrapCovered ==
    ASSUME Shape, Sound, Covered, AnswerBootstrap
    PROVE  Covered'
<1> DEFINE q == Fresh(conn)
           s == Since(conn)
           c == Head(calls)
<1>1. TypeOK /\ Line /\ UnderWay /\ News /\ InOrder
  BY DEF Shape, Sound
<1>2. /\ conn \in Connection /\ conn # None /\ conn.serving = "captured" /\ conn.snap # None
      /\ conn.snap \in Snapshot /\ calls # <<>> /\ c.m = "boot" /\ conn.replies = <<>>
      /\ Answerless(conn.wire) /\ conn' = Offered(q, s) /\ OnConn /\ conn' # None
      /\ Took(q, conn', ToSet(s))
  BY <1>1, AnswerBootstrapCases, RebootstrappedIs
<1>0. PICK S \in Snapshot : S = conn.snap
  BY <1>2
<1>3. /\ q \in Connection /\ q.out = <<>> /\ q.poisoned = FALSE /\ q.serving = "loop"
      /\ q.attached = conn.attached
  BY <1>2, FreshTyped
<1>4. OrderOf(conn) /\ \A x \in MineOf(conn) : IsEvent(x) => x.inst = inst
  BY <1>1, <1>2 DEF InOrder, News, Mine
<1>5. /\ s \in Seq(Events) /\ Ordered(s)
      /\ ToSet(s) = {e \in ToSet(conn.domain) \cup ToSet(conn.life) : e.rev > S.rev}
  <2>1. Merged(conn) \in Seq(Events) /\ Ordered(Merged(conn))
        /\ ToSet(Merged(conn)) = ToSet(conn.domain) \cup ToSet(conn.life)
    BY <1>2, <1>4, MergedTyped, MergedQueue
  <2>2. Ordered(s)
    BY <2>1, AmongOrdered DEF Since
  <2> QED
    BY <1>0, <1>2, <2>1, <2>2, SinceTyped
<1>6. UNCHANGED <<inst, val, calls, box, pc, tracker, mirror, stale, astray, app>>
  BY <1>2 DEF OnConn, daemon, session, client, bounds
<1>7. Coming' = ToSet(channel') \cup MineOf(conn') /\ ToSet(conn'.out) \subseteq MineOf(conn')
      /\ MineOf(conn) \subseteq Coming
  BY <1>2, ComingIs DEF Mine, MineOf
<1>8. Snaps' \subseteq {S}
  <2>1. Snaps' \subseteq Snaps
    BY <1>1, <1>2, AnswerBootstrapOrderly DEF Snaps, SnapsOf
  <2>2. ToSet(conn.replies) = {}
    BY <1>2, Ranges
  <2>3. \A x \in ToSet(conn.wire) : x.kind # "snapshot"
    BY <1>2 DEF Answerless, AnswerKinds, ToSet
  <2>4. Snaps \subseteq {S}
    BY <1>0, <1>2, <2>2, <2>3 DEF Snaps, SnapsOf
  <2> QED
    BY <2>1, <2>4
<1>9. /\ conn'.serving = "loop" /\ conn'.attached = conn.attached
      /\ ToSet(conn'.out) \subseteq ToSet(q.out) \cup ToSet(s) \cup {Resync}
      /\ conn'.poisoned => Resync \in ToSet(conn'.out)
  BY <1>2, <1>3 DEF Took, SameRest
<1> HIDE DEF q, s
<1>10. ToSet(q.out) = {}
  BY <1>3, Ranges
<1>11. ~conn'.poisoned => InStead(ToSet(q.out) \cup ToSet(s), ToSet(conn'.out))
  <2>1. \A x \in ToSet(q.out) \cup ToSet(s) : IsEvent(x) => x.inst = inst
    BY <1>4, <1>5, <1>10 DEF MineOf
  <2>2. Ordered(q.out) /\ Before(ToSet(q.out), ToSet(s))
    BY <1>3, <1>10, OrderedEmpty DEF Before
  <2> QED
    BY <1>2, <1>3, <1>5, <2>1, <2>2, OfferedOrdered
<1>12. S.inst = inst /\ S.rev \in Nat
  <2>1. S \in Snaps
    BY <1>0, <1>2 DEF Snaps, SnapsOf
  <2> QED
    BY <1>2, <2>1, SnapshotFields DEF Sound, Copies
<1>13. conn.attached /\ \A r \in Resources :
          \/ S.val[r] = val[r]
          \/ \E x \in ToSet(conn.domain) : x.of = r /\ x.ver = val[r] /\ x.rev > S.rev
  BY <1>0, <1>2 DEF Covered, Capturing
<1>14. ASSUME ~conn'.poisoned, NEW r \in Resources PROVE S.val[r] = val[r] \/ Ahead(S.rev, r)'
  <2>1. CASE S.val[r] = val[r]
    BY <2>1
  <2>2. CASE S.val[r] # val[r]
    <3>1. PICK x \in ToSet(conn.domain) : x.of = r /\ x.ver = val[r] /\ x.rev > S.rev
      BY <1>13, <2>2
    <3>2. x \in Change /\ IsChange(x) /\ x \in MineOf(conn) /\ IsEvent(x) /\ x.rev \in Nat
      BY <1>2, MineTyped, ChangeFields DEF MineOf
    <3>3. x.inst = inst /\ x \in Coming /\ x \in ToSet(s)
      BY <1>4, <1>5, <1>7, <3>1, <3>2
    <3>4. Later(x, ToSet(conn'.out))
      BY <1>11, <1>14, <3>2, <3>3 DEF InStead
    <3>5. ToSet(conn'.out) \subseteq Coming \cup {Resync}
      BY <1>5, <1>7, <1>9, <1>10 DEF MineOf
    <3>6. \A y \in ToSet(conn'.out) : IsEvent(y) => y.inst = inst
      BY <1>4, <1>5, <1>9, <1>10, NoticeIsNoEvent DEF MineOf
    <3>7. PICK y \in ToSet(conn'.out) :
             IsChange(y) /\ y.of = x.of /\ y.inst = inst /\ y.ver = val[x.of] /\ y.rev >= x.rev
      BY <1>1, <3>1, <3>2, <3>3, <3>4, <3>5, <3>6, NewestKept
    <3>8. y.rev \in Nat
      BY <1>1, <3>5, <3>7, ComingTyped, ChangeFields, NoticeIsNoEvent DEF IsEvent
    <3>9. y.rev > S.rev /\ y \in Coming'
      BY <1>7, <1>12, <3>1, <3>2, <3>7, <3>8
    <3> QED
      BY <1>6, <3>1, <3>7, <3>9 DEF Ahead
  <2> QED
    BY <2>1, <2>2
<1>15. Learns(S.inst, S.rev, S.val, {})'
  <2>1. CASE conn'.poisoned
    <3>1. Alarm'
      BY <1>7, <1>9, <2>1, NoticeIsNoEvent DEF Alarm
    <3> QED
      BY <3>1 DEF Learns
  <2>2. CASE ~conn'.poisoned
    <3>1. \A r \in Resources : S.val[r] = val'[r] \/ Ahead(S.rev, r)'
      BY <1>6, <1>14, <2>2
    <3>2. Fed(S.inst, S.rev, S.val, {})'
      BY <1>6, <1>9, <1>12, <1>13, <2>2, <3>1 DEF Fed
    <3> QED
      BY <3>2 DEF Learns
  <2> QED
    BY <2>1, <2>2
<1>16. Handing'
  <2> SUFFICES ASSUME NEW t \in Snaps' PROVE Learns(t.inst, t.rev, t.val, {})'
    BY DEF Handing
  <2>1. t = S
    BY <1>8
  <2> QED
    BY <1>15, <2>1
<1>17. /\ c.to \in {"pump", "box", "nobody"}
       /\ c.to = "pump" => pc = "boot"
       /\ c.to = "box" => ~tracker.known /\ box = <<>>
       /\ c.to = "nobody" => Deaf
       /\ box # <<>> => Tui
  <2>1. c = calls[1] /\ 1 \in DOMAIN calls /\ c \in Calls
    BY <1>1, <1>2, FirstCall
  <2> HIDE DEF c
  <2> QED
    BY <1>1, <1>2, <2>1 DEF Line, Calls
<1> HIDE DEF c
<1>18. Told'
  <2>1. ~Confident'
    BY <1>6, <1>17 DEF Confident, NeedsBootstrap, Deaf
  <2> QED
    BY <2>1 DEF Told
<1>19. Boxed'
  <2>1. CASE box = <<>>
    <3>1. ToSet(box)' = {}
      BY <1>6, <2>1 DEF ToSet
    <3> QED
      BY <3>1 DEF Boxed
  <2>2. CASE box # <<>>
    <3>1. ~Waiting'
      BY <1>6, <1>17, <2>2 DEF Waiting, Deaf
    <3> QED
      BY <3>1 DEF Boxed
  <2> QED
    BY <2>1, <2>2
<1>20. Capturing'
  BY <1>9 DEF Capturing
<1> QED
  BY <1>16, <1>18, <1>19, <1>20 DEF Covered

(* What the client does. *)
LEMMA DeliverCovered == ASSUME Shape, Sound, Covered, Deliver PROVE Covered'
<1>1. TypeOK /\ Line /\ UnderWay /\ News /\ InOrder /\ TypeOK' /\ UnderWay'
  BY DeliverTyped, DeliverUnderWay DEF Shape, Sound
<1>2. /\ Onward /\ conn # None /\ conn' # None /\ conn'.serving = conn.serving
      /\ conn'.snap = conn.snap /\ conn'.domain = conn.domain /\ conn'.attached = conn.attached
      /\ UNCHANGED <<inst, val>>
  BY <1>1, DeliverOnward
<1>3. Capturing'
  BY <1>2, CapturingKept DEF Covered
<1>4. UNCHANGED app
  BY <1>1, DeliverCases DEF bounds
<1>5. CASE DeliverNotice
  <2>1. UNCHANGED <<box, client, app, calls>> /\ Snaps' \subseteq Snaps
    BY <1>1, <1>4, <1>5, DeliverOrderly DEF DeliverNotice
  <2>2. Handing' /\ Boxed' /\ Told'
    BY <1>1, <1>2, <2>1, ConnCovered DEF Serving
  <2> QED
    BY <1>3, <2>2 DEF Covered
<1>6. CASE /\ DeliverAnswer /\ sent = "served" /\ calls # <<>> /\ conn.serving = "loop"
           /\ Head(calls).m = "boot" => Head(conn.wire).snap \in Snapshot
                                        /\ Head(conn.wire).kind = "snapshot"
  <2> DEFINE c == Head(calls)
             s == Head(conn.wire).snap
  <2>1. Snaps' = {}
    BY <1>1, <1>6, SnapsNoneNext DEF DeliverAnswer
  <2>2. Handing'
    BY <2>1 DEF Handing
  <2>3. /\ c \in Calls
        /\ c.to = "pump" => pc = c.m
        /\ c.to = "box" => box = <<>> /\ c.m = "boot"
    <3>1. c = calls[1] /\ 1 \in DOMAIN calls /\ c \in Calls
      BY <1>1, <1>6, FirstCall
    <3> HIDE DEF c
    <3> QED
      BY <1>1, <3>1 DEF Line
  <2>4. c.m = "boot" => s \in Snaps /\ s \in Snapshot
    <3>1. conn \in Connection /\ conn.wire # <<>>
      BY <1>1, DeliverCases
    <3>2. conn.wire \in Seq(Queued \cup Answers)
      BY <3>1, ConnectionFields
    <3>3. Head(conn.wire) \in ToSet(conn.wire)
      BY <3>1, <3>2, RangeOfTail
    <3> QED
      BY <1>2, <1>6, <3>3 DEF Snaps, SnapsOf
  <2>5. ASSUME NEW t \in Snaps, Taken PROVE Learns(t.inst, t.rev, t.val, {})'
    <3>1. Learns(t.inst, t.rev, t.val, {}) /\ t.rev \in Nat
      BY <1>1, <2>5, NatRevs DEF Covered, Handing
    <3> QED
      BY <1>2, <3>1, OnwardLearns
  <2>6. CASE UNCHANGED <<box, mirror, stale, astray>> /\ tracker' = tracker /\ (pc' # "boot" => pc # "boot")
    <3>1. Waiting' => Waiting
      BY <1>2, <2>6 DEF Waiting
    <3>2. Confident' => Confident
      BY <1>2, <2>6 DEF Confident, NeedsBootstrap
    <3>3. Boxed' /\ Told'
      BY <1>1, <1>2, <2>6, <3>1, <3>2, BoxedOnward, ToldOnward DEF Covered
    <3> QED
      BY <1>3, <2>2, <3>3 DEF Covered
  <2>7. CASE c.to = "box" /\ UNCHANGED client /\ box' = Append(box, s)
    <3>1. UNCHANGED <<tracker, mirror, stale, pc, astray>>
      BY <2>7 DEF client
    <3>2. Confident' => Confident
      BY <1>2, <3>1 DEF Confident, NeedsBootstrap
    <3>3. Told'
      BY <1>1, <1>2, <3>1, <3>2, ToldOnward DEF Covered
    <3>4. Waiting' => Taken
      BY <1>2, <1>6, <2>7, <3>1 DEF Waiting, Taken, Serving
    <3>5. ToSet(box') = {s}
      <4>1. ToSet(Append(box, s)) = ToSet(box) \cup {s}
        <5>1. box \in Seq(Snapshot) /\ s \in Snapshot
          BY <1>1, <2>3, <2>4, <2>7 DEF TypeOK
        <5> HIDE DEF s
        <5> QED
          BY <5>1, RangeOfAppend
      <4>2. ToSet(box) = {}
        BY <2>3, <2>7, Ranges
      <4> QED
        BY <2>7, <4>1, <4>2
    <3>6. Boxed'
      <4> SUFFICES ASSUME Waiting', NEW t \in ToSet(box)' PROVE Learns(t.inst, t.rev, t.val, {})'
        BY DEF Boxed
      <4>1. t \in Snaps
        BY <2>3, <2>4, <2>7, <3>5 DEF ToSet
      <4> QED
        BY <2>5, <3>4, <4>1
    <3> QED
      BY <1>3, <2>2, <3>3, <3>6 DEF Covered
  <2>8. CASE c.to = "pump" /\ c.m = "boot" /\ Adopt(s) /\ UNCHANGED astray
    <3>1. /\ tracker'.known /\ tracker'.inst = s.inst /\ tracker'.rev = s.rev
          /\ mirror' = s.val /\ stale' = {}
      BY <2>8 DEF Adopt
    <3>2. Boxed'
      BY <3>1 DEF Boxed, Waiting
    <3>3. Confident' => Taken
      BY <1>2, <1>6, <2>8 DEF Confident, Taken, Serving
    <3>4. Told'
      <4> SUFFICES ASSUME Confident' PROVE Learns(tracker.inst, tracker.rev, mirror, stale)'
        BY DEF Told
      <4>1. \A t \in Snaps : tracker'.inst = t.inst /\ tracker'.rev = t.rev /\ mirror' = t.val /\ stale' = {}
              => Learns(tracker.inst, tracker.rev, mirror, stale)'
        BY <2>5, <3>3, LearnsNow
      <4> QED
        BY <2>4, <2>8, <3>1, <4>1
    <3> QED
      BY <1>3, <2>2, <3>2, <3>4 DEF Covered
  <2>9. \/ UNCHANGED <<box, mirror, stale, astray>> /\ tracker' = tracker /\ (pc' # "boot" => pc # "boot")
        \/ c.to = "box" /\ UNCHANGED client /\ box' = Append(box, s)
        \/ c.to = "pump" /\ c.m = "boot" /\ Adopt(s) /\ UNCHANGED astray
    <3>1. CASE c.to = "pump"
      <4>1. UNCHANGED box /\ TakeAnswer(c, Head(conn.wire))
        BY <1>6, <3>1 DEF DeliverAnswer
      <4>2. pc = c.m
        BY <2>3, <3>1
      <4> QED
        BY <3>1, <4>1, <4>2 DEF TakeAnswer
    <3>2. CASE c.to = "box"
      BY <1>6, <3>2 DEF DeliverAnswer
    <3>3. CASE c.to # "pump" /\ c.to # "box"
      BY <1>6, <3>3 DEF DeliverAnswer, client
    <3> QED
      BY <3>1, <3>2, <3>3
  <2> QED
    BY <2>6, <2>7, <2>8, <2>9
<1> QED
  BY <1>1, <1>5, <1>6, DeliverCases

(* Steps of the client that leave what is on its way. *)
LEMMA ClientCovered ==
    ASSUME TypeOK, UnderWay, Covered, UNCHANGED <<inst, val, conn, channel>>, conn # None,
           UNCHANGED <<box, mirror, stale>>, tracker' = tracker, astray => astray',
           pc' # "boot" /\ ~astray' => pc # "boot",
           Taken' /\ Snaps # {} => Taken
    PROVE  Covered'
<1>1. Onward /\ Snaps' = Snaps
  BY QuietOnward DEF Snaps, SnapsOf
<1>2. Capturing'
  BY CapturingKept DEF Covered
<1>3. Waiting' => Waiting
  BY DEF Waiting
<1>4. Confident' => Confident
  BY DEF Confident, NeedsBootstrap
<1>5. Handing' /\ Boxed' /\ Told'
  BY <1>1, <1>3, <1>4, HandingOnward, BoxedOnward, ToldOnward DEF Covered
<1> QED
  BY <1>2, <1>5 DEF Covered

LEMMA AskCovered ==
    ASSUME TypeOK, UnderWay, Covered, UNCHANGED <<inst, val, conn, channel>>,
           UNCHANGED <<box, mirror, stale, astray>>, tracker' = tracker, pc # "boot",
           NEW m, NEW o, Ask(m, o)
    PROVE  Covered'
<1>1. CASE conn = None
  BY <1>1, DownCovered
<1>2. CASE conn # None
  <2>1. Taken' /\ Snaps # {} => Taken
    BY <1>2, AskFirst DEF Taken, Serving
  <2> QED
    BY <1>2, <2>1, ClientCovered
<1> QED
  BY <1>1, <1>2

LEMMA StartCovered == ASSUME Shape, Covered, NEW o, StartOperation(o) PROVE Covered'
  BY AskCovered DEF StartOperation, daemon, Shape

LEMMA RequeryCovered == ASSUME Shape, Covered, Requery PROVE Covered'
<1>1. /\ UNCHANGED <<inst, val, conn, channel, box, mirror, stale, astray, tracker>>
      /\ pc = "query" /\ TypeOK /\ UnderWay
  BY DEF Requery, daemon, Shape
<1>2. CASE UNCHANGED calls
  <2>1. CASE conn = None
    BY <1>1, <2>1, DownCovered
  <2>2. CASE conn # None
    <3>1. Taken' => Taken
      BY <1>1, <1>2 DEF Taken, Serving
    <3> QED
      BY <1>1, <2>2, <3>1, ClientCovered
  <2> QED
    BY <2>1, <2>2
<1> QED
  BY <1>1, <1>2, AskCovered DEF Requery

LEMMA RefuseCovered == ASSUME Shape, RefuseCall PROVE Covered'
<1>1. conn' = None
  BY DEF RefuseCall, Shape, UnderWay
<1> QED
  BY <1>1, DownCovered

LEMMA GiveUpCovered == ASSUME Shape, Covered, GiveUp PROVE Covered'
<1> DEFINE n == Len(calls)
           c == calls[n]
<1>1. TypeOK /\ Line /\ UnderWay
  BY DEF Shape
<1>2. /\ n \in Nat \ {0} /\ DOMAIN calls = 1..n /\ c \in Calls /\ c.to = "pump" /\ pc = c.m
      /\ TakeFailure(c) /\ UNCHANGED <<app, box, channel, conn, sent, daemon>>
      /\ DOMAIN calls' = 1..n
      /\ \A i \in 1..n : i # n => calls'[i] = calls[i] /\ calls[i].to # "pump"
      /\ calls'[n].to = "nobody"
  BY <1>1, GiveUpCases
<1>3. UNCHANGED <<inst, val, mirror, stale>> /\ (astray => astray') /\ (c.m = "boot" /\ Tui => astray')
  BY <1>2 DEF TakeFailure, daemon
<1>4. Head(calls) = calls[1] /\ Head(calls') = calls'[1] /\ 1 \in 1..n /\ 1 \in DOMAIN calls /\ calls # <<>>
  <2> HIDE DEF n, c
  <2>1. 1 \in 1..n
    BY <1>2
  <2>2. calls # <<>>
    <3>1. Len(calls) # 0
      BY <1>2 DEF n
    <3>2. Len(<<>>) = 0
      OBVIOUS
    <3> QED
      BY <3>1, <3>2
  <2> QED
    BY <1>2, <2>1, <2>2
<1> HIDE DEF n, c
<1>5. Head(calls').to = "nobody" \/ (Head(calls') = Head(calls) /\ Head(calls).to # "pump")
  BY <1>2, <1>4
<1>6. Head(calls).to = "box" => Tui
  BY <1>1, <1>4 DEF Line
<1>7. box # <<>> => Tui
  BY <1>1 DEF Line
<1>8. CASE conn = None
  BY <1>2, <1>8, DownCovered
<1>9. CASE conn # None /\ c.m # "boot"
  <2>1. tracker' = tracker /\ pc # "boot"
    BY <1>2, <1>9 DEF TakeFailure
  <2>2. Taken' => Taken
    BY <1>2, <1>3, <1>4, <1>5, <2>1 DEF Taken, Serving
  <2> QED
    BY <1>1, <1>2, <1>3, <1>9, <2>1, <2>2, ClientCovered
<1>10. CASE conn # None /\ c.m = "boot"
  <2>1. Capturing'
    BY <1>2, <1>3, <1>10, CapturingKept DEF Covered
  <2>2. CASE Tui
    <3>1. astray'
      BY <1>3, <1>10, <2>2
    <3> QED
      BY <2>1, <3>1 DEF Covered, Handing, Taken, Boxed, Waiting, Told, Confident
  <2>3. CASE ~Tui
    <3>1. Head(calls').to \in {"nobody", "pump"} \/ Head(calls).to # "box"
      BY <1>6, <2>3
    <3>2. Snaps' # {} => Head(calls').to = "nobody"
      <4>1. Head(calls).to \in {"pump", "box", "nobody"}
        BY <1>1, <1>4, FirstCall DEF Calls
      <4> QED
        BY <1>5, <1>6, <2>3, <4>1
    <3>3. Handing'
      BY <3>2 DEF Handing, Taken
    <3>4. Boxed'
      <4>1. box' = <<>>
        BY <1>2, <1>7, <2>3
      <4>2. ToSet(box)' = {}
        BY <4>1 DEF ToSet
      <4> QED
        BY <4>2 DEF Boxed
    <3>5. tracker \in Trackers /\ tracker' = [tracker EXCEPT !.poisoned = tracker.known] /\ tracker.known \in BOOLEAN
      BY <1>1, <1>2, <1>10, <2>3, KnownTyped DEF TakeFailure
    <3>6. tracker'.poisoned = tracker.known /\ tracker'.known = tracker.known
      BY <3>5, PoisonTyped
    <3>7. Told'
      BY <3>6 DEF Told, Confident, NeedsBootstrap
    <3> QED
      BY <2>1, <3>3, <3>4, <3>7 DEF Covered
  <2> QED
    BY <2>2, <2>3
<1> QED
  BY <1>8, <1>9, <1>10

LEMMA TakeBoxCovered == ASSUME Shape, Covered, TakeBox PROVE Covered'
<1>1. /\ UNCHANGED <<inst, val, conn, channel, calls, app, pc>> /\ pc = "idle" /\ box # <<>>
      /\ Adopt(Head(box)) /\ (~astray' => ~astray /\ ~tracker.known) /\ TypeOK
  BY DEF TakeBox, daemon, bounds, Shape
<1>2. CASE conn = None
  BY <1>1, <1>2, DownCovered
<1>3. CASE conn # None
  <2>1. Onward /\ Snaps' = Snaps
    BY <1>1, QuietOnward DEF Snaps, SnapsOf
  <2>2. Capturing'
    BY <1>1, <1>3, CapturingKept DEF Covered
  <2>3. Taken' => Taken
    BY <1>1 DEF Taken, Serving
  <2>4. Handing'
    BY <1>1, <2>1, <2>3, HandingOnward DEF Covered
  <2>5. tracker'.known
    BY <1>1 DEF Adopt
  <2>6. Boxed'
    BY <2>5 DEF Boxed, Waiting
  <2>7. Head(box) \in ToSet(box)
    BY <1>1, RangeOfTail DEF TypeOK
  <2>8. Told'
    <3> SUFFICES ASSUME Confident' PROVE Learns(tracker.inst, tracker.rev, mirror, stale)'
      BY DEF Told
    <3>1. Waiting
      BY <1>1, <1>3 DEF Confident, Waiting
    <3>2. \A s \in ToSet(box) : Learns(s.inst, s.rev, s.val, {}) /\ s.rev \in Nat
      BY <1>1, <3>1, NatRevs DEF Covered, Boxed
    <3>3. \A s \in ToSet(box) : /\ tracker'.inst = s.inst /\ tracker'.rev = s.rev
                                /\ mirror' = s.val /\ stale' = {}
            => Learns(tracker.inst, tracker.rev, mirror, stale)'
      BY <2>1, <3>2, KeptLearns
    <3>4. tracker'.inst = Head(box).inst /\ tracker'.rev = Head(box).rev /\ mirror' = Head(box).val /\ stale' = {}
      BY <1>1 DEF Adopt
    <3> QED
      BY <2>7, <3>3, <3>4
  <2> QED
    BY <2>2, <2>4, <2>6, <2>8 DEF Covered
<1> QED
  BY <1>2, <1>3

LEMMA RefetchCovered ==
    ASSUME Shape, Covered, NEW q \in Resources, Refetch(q)
    PROVE  Covered'
<1>1. /\ UNCHANGED <<inst, val, conn, channel, calls, box, pc, tracker, astray>> /\ calls = <<>>
      /\ stale' = stale \ {q} /\ mirror' = [mirror EXCEPT ![q] = val[q]] /\ conn # None
      /\ TypeOK /\ mirror \in [Resources -> Nat]
  BY DEF Refetch, daemon, session, Shape, TypeOK
<1>2. Onward /\ Coming' = Coming
  BY <1>1, QuietOnward DEF Coming
<1>3. Capturing'
  BY <1>1, CapturingKept DEF Covered
<1>4. Handing'
  BY <1>1 DEF Handing, Taken
<1>5. Waiting' => Waiting
  BY <1>1 DEF Waiting
<1>6. Boxed'
  BY <1>1, <1>2, <1>5, BoxedOnward DEF Covered
<1>7. Told'
  <2> SUFFICES ASSUME Confident' PROVE Learns(tracker.inst, tracker.rev, mirror, stale)'
    BY DEF Told
  <2>1. Learns(tracker.inst, tracker.rev, mirror, stale)
    BY <1>1 DEF Covered, Told, Confident, NeedsBootstrap
  <2>2. CASE Alarm
    BY <1>2, <2>2 DEF Learns, Alarm
  <2>3. CASE Fed(tracker.inst, tracker.rev, mirror, stale)
    <3>1. ASSUME NEW r \in Resources PROVE mirror'[r] = val[r] \/ r \in stale' \/ Ahead(tracker.rev, r)
      BY <1>1, <2>3 DEF Fed
    <3>2. \A r \in Resources : (mirror[r] = val[r] \/ r \in stale \/ Ahead(tracker.rev, r))'
      BY <1>1, <1>2, <3>1 DEF Ahead
    <3>3. Fed(tracker.inst, tracker.rev, mirror, stale)'
      BY <1>1, <2>3, <3>2 DEF Fed
    <3> QED
      BY <3>3 DEF Learns
  <2> QED
    BY <2>1, <2>2, <2>3 DEF Learns
<1> QED
  BY <1>3, <1>4, <1>6, <1>7 DEF Covered

(* An event that the client applies: it has the change, or another is on its *)
(* way; the events behind it are later.                                      *)
LEMMA BehindHead ==
    ASSUME TypeOK, InOrder, Handle, IsEvent(Head(channel)), NEW x \in Coming', IsEvent(x),
           x.inst = Head(channel).inst
    PROVE  Head(channel).rev < x.rev
<1>1. channel \in Seq(Frames) /\ channel # <<>> /\ channel' = Tail(channel) /\ UNCHANGED conn
  BY HandleCases DEF TypeOK, Frames, OnClient
<1>2. Before({Head(channel)}, ToSet(channel')) /\ Head(channel) \in ToSet(channel)
  BY <1>1, RangeOfTail, OrderedTail DEF InOrder
<1>3. Mine' = Mine
  BY <1>1 DEF Mine, MineOf
<1>4. x \in ToSet(channel') \/ x \in Mine
  BY <1>3, ComingIs
<1>5. x \in Mine => conn # None /\ x \in MineOf(conn)
  BY DEF Mine
<1> QED
  BY <1>2, <1>4, <1>5 DEF InOrder, Before, Lower

LEMMA ApplyTold ==
    ASSUME TypeOK, Sound, Told, Confident, Handle, UNCHANGED conn, NEW e, e = Head(channel), e \in Events,
           tracker.known, Observe(e) = "apply", Apply(e)
    PROVE  Learns(tracker.inst, tracker.rev, mirror, stale)'
<1>1. News /\ InOrder /\ Copies /\ Learns(tracker.inst, tracker.rev, mirror, stale)
  BY DEF Sound, Told
<1>2. UNCHANGED <<inst, val>> /\ Coming = Coming' \cup {e}
  BY <1>1, HandleCases, HandleOrderly DEF OnClient, daemon
<1>3. IsEvent(e) /\ e.rev \in Nat /\ e.inst = tracker.inst /\ e.rev > tracker.rev
  BY EventFields, KnownTyped DEF Observe, TypeOK
<1>4. tracker'.inst = tracker.inst /\ tracker'.rev = e.rev
  BY <1>3, KnownTyped, RevTyped DEF Apply
<1>5. mirror \in [Resources -> Nat] /\ val \in [Resources -> Nat] /\ tracker.rev \in Nat /\ tracker.inst \in Nat
  BY DEF TypeOK
<1>6. CASE Alarm
  <2>1. e.kind \notin {"resync", "reconnected"}
    BY <1>3 DEF IsEvent, IsChange
  <2> QED
    BY <1>2, <1>6, <2>1 DEF Learns, Alarm
<1>7. CASE Fed(tracker.inst, tracker.rev, mirror, stale)
  <2>1. ASSUME NEW r \in Resources PROVE mirror'[r] = val[r] \/ r \in stale' \/ Ahead(e.rev, r)'
    <3>1. stale \subseteq stale'
      BY DEF Apply
    <3>2. CASE r \in stale
      BY <3>1, <3>2
    <3>3. CASE mirror[r] = val[r]
      <4>1. CASE e.kind \in {"replace", "remove"} /\ e.of = r
        <5>1. e \in Coming /\ IsChange(e)
          BY <1>2, <4>1 DEF IsChange
        <5>2. e.ver \in Nat /\ e.ver <= val[r] /\ mirror[r] <= e.ver
          BY <1>1, <1>3, <4>1, <5>1, ComingTyped, ChangeFields DEF News, Copies, Copy
        <5>3. e.ver = val[r]
          BY <1>5, <3>3, <5>2
        <5>4. mirror'[r] = e.ver
          BY <1>5, <4>1 DEF Apply
        <5> QED
          BY <5>3, <5>4
      <4>2. CASE ~(e.kind \in {"replace", "remove"} /\ e.of = r)
        <5>1. mirror'[r] = mirror[r]
          BY <1>5, <4>2 DEF Apply
        <5> QED
          BY <3>3, <5>1
      <4> QED
        BY <4>1, <4>2
    <3>4. CASE Ahead(tracker.rev, r)
      <4>1. PICK x \in Coming : IsChange(x) /\ x.of = r /\ x.inst = inst /\ x.ver = val[r] /\ x.rev > tracker.rev
        BY <3>4 DEF Ahead
      <4>2. e.inst = inst
        BY <1>3, <1>7 DEF Fed
      <4>3. CASE x = e /\ e.kind \in {"replace", "remove"}
        <5>1. mirror'[r] = e.ver
          BY <1>5, <4>1, <4>3 DEF Apply
        <5> QED
          BY <4>1, <4>3, <5>1
      <4>4. CASE x = e /\ e.kind \notin {"replace", "remove"}
        <5>1. r \in stale'
          BY <4>1, <4>4 DEF Apply, IsChange
        <5> QED
          BY <5>1
      <4>5. CASE x # e
        <5>1. x \in Coming' /\ IsEvent(x)
          BY <1>2, <4>1, <4>5 DEF IsEvent
        <5>2. e.rev < x.rev
          BY <1>1, <1>3, <4>1, <4>2, <5>1, BehindHead
        <5>3. x.rev \in Nat
          BY <4>1, ComingTyped, ChangeFields
        <5>4. x.rev > e.rev
          BY <1>3, <5>2, <5>3
        <5> QED
          BY <1>2, <4>1, <5>1, <5>4 DEF Ahead
      <4> QED
        BY <4>3, <4>4, <4>5
    <3> QED
      BY <1>7, <3>2, <3>3, <3>4 DEF Fed
  <2>2. \A n, i : /\ i = inst /\ n = tracker'.rev /\ i = tracker'.inst
                  /\ \A r \in Resources : mirror'[r] = val[r] \/ r \in stale' \/ Ahead(n, r)'
           => Learns(tracker.inst, tracker.rev, mirror, stale)'
    BY <1>2, <1>7 DEF Fed, Learns, Ahead
  <2>3. tracker'.inst = inst
    BY <1>4, <1>7 DEF Fed
  <2> QED
    BY <1>4, <2>1, <2>2, <2>3
<1> QED
  BY <1>1, <1>6, <1>7 DEF Learns

LEMMA DuplicateTold ==
    ASSUME TypeOK, Sound, Told, Confident, Handle, UNCHANGED conn, NEW e, e = Head(channel), e \in Events,
           tracker.known, Observe(e) = "duplicate", UNCHANGED client
    PROVE  Learns(tracker.inst, tracker.rev, mirror, stale)'
<1>1. InOrder /\ Learns(tracker.inst, tracker.rev, mirror, stale)
  BY DEF Sound, Told
<1>2. UNCHANGED <<inst, val>> /\ Coming = Coming' \cup {e}
  BY <1>1, HandleCases, HandleOrderly DEF OnClient, daemon
<1>3. IsEvent(e) /\ e.rev \in Nat /\ e.rev <= tracker.rev
  BY EventFields DEF Observe
<1>4. UNCHANGED <<tracker, mirror, stale>> /\ tracker.rev \in Nat
  BY DEF client, TypeOK
<1>5. CASE Alarm
  <2>1. e.kind \notin {"resync", "reconnected"}
    BY <1>3 DEF IsEvent, IsChange
  <2> QED
    BY <1>2, <1>5, <2>1 DEF Learns, Alarm
<1>6. CASE Fed(tracker.inst, tracker.rev, mirror, stale)
  <2>1. ASSUME NEW r \in Resources, Ahead(tracker.rev, r) PROVE Ahead(tracker.rev, r)'
    <3>1. PICK x \in Coming : IsChange(x) /\ x.of = r /\ x.inst = inst /\ x.ver = val[r] /\ x.rev > tracker.rev
      BY <2>1 DEF Ahead
    <3>2. x # e
      BY <1>3, <1>4, <3>1
    <3> QED
      BY <1>2, <1>4, <3>1, <3>2 DEF Ahead
  <2>2. Fed(tracker.inst, tracker.rev, mirror, stale)'
    BY <1>2, <1>4, <1>6, <2>1 DEF Fed
  <2> QED
    BY <2>2 DEF Learns
<1> QED
  BY <1>1, <1>5, <1>6 DEF Learns

LEMMA HandleCovered == ASSUME Shape, Sound, Covered, Handle PROVE Covered'
<1> DEFINE e == Head(channel)
<1>1. TypeOK /\ Line /\ UnderWay /\ News /\ InOrder
  BY DEF Shape, Sound
<1>2. /\ pc = "idle" /\ UNCHANGED <<inst, val, conn, app, box>>
      /\ \/ e.kind \in {"resync", "reconnected"} /\ HandleNotice(e)
         \/ e \in Events /\ HandleEvent(e)
  <2>1. pc = "idle" /\ OnClient /\ UNCHANGED box
    BY <1>1, HandleCases
  <2>2. UNCHANGED <<inst, val, conn, app, box>>
    BY <2>1 DEF OnClient, daemon, bounds
  <2> QED
    BY <1>1, <2>1, <2>2, HandleCases
<1>3. Snaps' = Snaps
  BY <1>1, HandleOrderly
<1> HIDE DEF e
<1>4. CASE conn = None
  BY <1>2, <1>4, DownCovered
<1>5. ~Waits
  BY <1>2 DEF Waits
<1>6. tracker \in Trackers /\ tracker.known \in BOOLEAN
  BY <1>1, KnownTyped
<1>7. ASSUME ~tracker.known PROVE pc' = "boot" \/ astray'
  <2>1. CASE HandleNotice(e)
    BY <2>1 DEF HandleNotice, Rebootstrap
  <2>2. CASE HandleEvent(e)
    BY <1>7, <2>2 DEF HandleEvent, Rebootstrap
  <2> QED
    BY <1>2, <2>1, <2>2
<1>8. tracker.known => tracker'.known
  <2> SUFFICES ASSUME tracker.known PROVE tracker'.known
    OBVIOUS
  <2>1. CASE HandleNotice(e)
    BY <1>6, <2>1, PoisonTyped DEF HandleNotice
  <2>2. CASE UNCHANGED client
    BY <2>2 DEF client
  <2>3. CASE e \in Events /\ Apply(e)
    BY <1>6, <2>3, EventFields, RevTyped DEF Apply
  <2>4. CASE tracker' = [tracker EXCEPT !.changed = tracker.known /\ Observe(e) = "changed"]
    <3>1. (tracker.known /\ Observe(e) = "changed") \in BOOLEAN
      OBVIOUS
    <3> QED
      BY <1>6, <2>4, <3>1, ChangedTyped
  <2> QED
    BY <1>2, <2>1, <2>2, <2>3, <2>4 DEF HandleEvent
<1>9. UNCHANGED calls \/ Ask("boot", None)
  BY <1>2 DEF HandleNotice, HandleEvent, Rebootstrap, Apply
<1>10. CASE conn # None
  <2>1. Capturing'
    BY <1>2, <1>10, CapturingKept DEF Covered
  <2>2. ~(Taken' /\ Snaps # {})
    <3> SUFFICES ASSUME Taken', Snaps # {} PROVE FALSE
      OBVIOUS
    <3>1. calls # <<>> /\ Head(calls') = Head(calls)
      BY <1>1, <1>9, <1>10, AskFirst, SnapsNone DEF UnderWay
    <3>2. Head(calls) = calls[1] /\ 1 \in DOMAIN calls
      BY <1>1, <3>1, FirstCall
    <3>3. Head(calls).to \in {"box", "nobody"}
      BY <1>1, <1>5, <3>2, LineFree
    <3>4. Head(calls).to = "box" /\ pc' # "boot" /\ ~astray'
      BY <3>1, <3>3 DEF Taken
    <3>5. ~tracker.known
      BY <1>1, <3>2, <3>4 DEF Line
    <3> QED
      BY <1>7, <3>4, <3>5
  <2>3. Handing'
    BY <1>3, <2>2 DEF Handing
  <2>4. Boxed'
    <3>1. ~Waiting'
      BY <1>6, <1>7, <1>8 DEF Waiting
    <3> QED
      BY <3>1 DEF Boxed
  <2>5. Told'
    <3> SUFFICES ASSUME Confident' PROVE Learns(tracker.inst, tracker.rev, mirror, stale)'
      BY DEF Told
    <3>1. pc' # "boot" /\ tracker'.known /\ ~tracker'.poisoned /\ ~tracker'.changed /\ ~astray'
      BY DEF Confident, NeedsBootstrap
    <3>2. e \in Events /\ HandleEvent(e)
      BY <1>2, <3>1 DEF HandleNotice, Rebootstrap
    <3>3. tracker.known
      BY <1>7, <3>1
    <3>4. CASE Observe(e) = "apply" /\ Apply(e)
      <4>1. /\ tracker'.poisoned = tracker.poisoned /\ tracker'.changed = tracker.changed
            /\ UNCHANGED <<pc, astray>>
        BY <1>6, <3>2, <3>4, EventFields, RevTyped DEF Apply
      <4>2. Confident
        BY <1>10, <3>1, <3>3, <4>1 DEF Confident, NeedsBootstrap
      <4> QED
        BY <1>1, <1>2, <3>2, <3>3, <3>4, <4>2, ApplyTold DEF Covered, e
    <3>5. CASE Observe(e) = "duplicate" /\ UNCHANGED client
      <4>1. Confident
        BY <1>10, <3>1, <3>3, <3>5 DEF Confident, NeedsBootstrap, client
      <4> QED
        BY <1>1, <1>2, <3>2, <3>3, <3>5, <4>1, DuplicateTold DEF Covered, e
    <3>6. CASE /\ Observe(e) \in {"changed", "gap"}
               /\ tracker' = [tracker EXCEPT !.changed = tracker.known /\ Observe(e) = "changed"]
      <4>1. (tracker.known /\ Observe(e) = "changed") \in BOOLEAN
        OBVIOUS
      <4>2. tracker'.poisoned = tracker.poisoned /\ tracker'.changed = (tracker.known /\ Observe(e) = "changed")
        BY <1>6, <3>6, <4>1, ChangedTyped
      <4>3. Observe(e) = "gap"
        BY <3>1, <3>3, <3>6, <4>2
      <4>4. tracker.poisoned
        BY <4>3 DEF Observe
      <4> QED
        BY <3>1, <4>2, <4>4
    <3> QED
      BY <3>2, <3>3, <3>4, <3>5, <3>6 DEF HandleEvent
  <2> QED
    BY <2>1, <2>3, <2>4, <2>5 DEF Covered
<1> QED
  BY <1>4, <1>10

LEMMA InitCovered == Init => Covered
<1> SUFFICES ASSUME Init PROVE Covered
  OBVIOUS
<1>1. conn = NewConn /\ ~tracker.known /\ box = <<>> /\ conn.serving = "loop"
  BY DEF Init, NewConn
<1>2. Snaps = {} /\ ToSet(box) = {}
  <2>1. NewConn.wire = <<>> /\ NewConn.replies = <<>> /\ NewConn.snap = None
    BY DEF NewConn
  <2>2. ToSet(<<>>) = {}
    BY Ranges
  <2> QED
    BY <1>1, <2>1, <2>2 DEF Snaps, SnapsOf
<1> QED
  BY <1>1, <1>2 DEF Covered, Capturing, Handing, Boxed, Told, Confident, NeedsBootstrap

LEMMA CoveredNext == ASSUME Shape, Sound, Covered, [Next]_vars PROVE Covered'
<1>0. TypeOK /\ Line /\ UnderWay /\ News /\ InOrder
  BY DEF Shape, Sound
<1>1. ASSUME NEW r \in Resources, NEW k \in Kinds(r), Commit(r, k) PROVE Covered'
  BY <1>0, <1>1, CommitCovered
<1>2. ASSUME NEW o \in Operations, FinishOperation(o) PROVE Covered'
  BY <1>0, <1>2, FinishCovered
<1>3. ASSUME NEW o \in Operations, PublishFinish(o) PROVE Covered'
  BY <1>0, <1>3, PublishCovered
<1>4. ASSUME NEW o \in Operations, StartOperation(o) PROVE Covered'
  BY <1>4, StartCovered
<1>5. CASE Drain
  BY <1>0, <1>5, DrainCovered
<1>6. CASE Write
  BY <1>0, <1>6, WriteCovered
<1>7. CASE Register
  BY <1>0, <1>7, RegisterCovered
<1>8. CASE Capture
  BY <1>0, <1>8, CaptureCovered
<1>9. CASE AnswerBootstrap
  BY <1>9, AnswerBootstrapCovered
<1>10. CASE AnswerCall
  BY <1>0, <1>10, AnswerCallCovered
<1>11. CASE Deliver
  BY <1>11, DeliverCovered
<1>12. CASE RefuseCall
  BY <1>12, RefuseCovered
<1>13. CASE Reopen
  BY <1>0, <1>13, ReopenCovered
<1>14. CASE Handle
  BY <1>14, HandleCovered
<1>15. CASE TakeBox
  BY <1>15, TakeBoxCovered
<1>16. CASE Requery
  BY <1>16, RequeryCovered
<1>17. ASSUME NEW r \in Resources, Refetch(r) PROVE Covered'
  BY <1>17, RefetchCovered
<1>18. CASE GiveUp
  BY <1>18, GiveUpCovered
<1>19. CASE Lose \/ Restart
  <2>1. conn' = None
    BY <1>19 DEF Lose, Restart, Cut
  <2> QED
    BY <2>1, DownCovered
<1>20. CASE UNCHANGED vars
  <2>1. UNCHANGED <<inst, val, conn, channel, box, mirror, stale, tracker, astray, pc, calls>>
    BY <1>20 DEF vars
  <2>2. CASE conn = None
    BY <2>1, <2>2, DownCovered
  <2>3. CASE conn # None
    <3>1. Taken' => Taken
      BY <2>1 DEF Taken, Serving
    <3> QED
      BY <1>0, <2>1, <2>3, <3>1, ClientCovered
  <2> QED
    BY <2>2, <2>3
<1> QED
  BY <1>1, <1>2, <1>3, <1>4, <1>5, <1>6, <1>7, <1>8, <1>9, <1>10, <1>11, <1>12, <1>13, <1>14,
     <1>15, <1>16, <1>17, <1>18, <1>19, <1>20, NextCases

(* No change is lost to a client that trusts its copy: of every resource it  *)
(* shows the daemon's version, or is to read it again, or the newest change  *)
(* is on its way and its watermark will let it through, whatever overflowed, *)
(* was offered again, was given up, or was cut off in between.               *)
THEOREM StreamLosesNothing == Spec => []NothingLost
<1>1. Covered => NothingLost
  <2> SUFFICES ASSUME Covered, Trusts, ~astray, NEW r \in Resources PROVE Has(r)
    BY DEF NothingLost
  <2>1. Confident /\ ~Alarm
    BY DEF Trusts, Confident, Alarm
  <2>2. Fed(tracker.inst, tracker.rev, mirror, stale)
    BY <2>1 DEF Covered, Told, Learns
  <2> QED
    BY <2>2 DEF Fed, Ahead, Has, Due, IsChange
<1> QED
  BY <1>1, InitCovered, CoveredNext, ShapeAlways, SoundAlways, PTL DEF Spec
=============================================================================
