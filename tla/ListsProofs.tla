----------------------------- MODULE ListsProofs ----------------------------
(***************************************************************************)
(* What is done to a list without repetitions, and what that does to the   *)
(* set of what is in it; how lists are cut and joined, and their sums.     *)
(***************************************************************************)
EXTENDS Lists, SequenceTheorems, WellFoundedInduction, TLAPS

(* Behind the one removed each moves up.                                   *)
LEMMA RemoveAtOf ==
    ASSUME NEW S, NEW list \in Seq(S), NEW at \in 1 .. Len(list)
    PROVE  /\ RemoveAt(list, at) \in Seq(S)
           /\ Len(RemoveAt(list, at)) = Len(list) - 1
           /\ \A i \in 1 .. Len(list) - 1 :
                RemoveAt(list, at)[i] = IF i < at THEN list[i] ELSE list[i + 1]
<1> DEFINE n == Len(list)
           front == SubSeq(list, 1, at - 1)
           back == SubSeq(list, at + 1, n)
<1>1. n \in Nat /\ at \in 1 .. n /\ \A i \in 1 .. n : list[i] \in S
  OBVIOUS
<1> HIDE DEF n
<1>2. /\ front \in Seq(S) /\ Len(front) = at - 1
      /\ \A i \in 1 .. at - 1 : front[i] = list[i]
  <2>1. \A i \in 1 .. at - 1 : list[i] \in S
    BY <1>1
  <2>2. IF 1 <= at - 1 THEN at - 1 - 1 + 1 = at - 1 ELSE 0 = at - 1
    BY <1>1
  <2>3. \A i \in 1 .. at - 1 : 1 + i - 1 = i /\ i \in 1 .. at - 1 - 1 + 1
    BY <1>1
  <2> QED BY <1>1, <2>1, <2>2, <2>3, SubSeqProperties
<1>3. /\ back \in Seq(S) /\ Len(back) = n - at
      /\ \A i \in 1 .. n - at : back[i] = list[at + i]
  <2>1. \A i \in at + 1 .. n : list[i] \in S
    BY <1>1
  <2>2. IF at + 1 <= n THEN n - (at + 1) + 1 = n - at ELSE 0 = n - at
    BY <1>1
  <2>3. \A i \in 1 .. n - at : (at + 1) + i - 1 = at + i /\ i \in 1 .. n - (at + 1) + 1
    BY <1>1
  <2> QED BY <1>1, <2>1, <2>2, <2>3, SubSeqProperties
<1> HIDE DEF front, back
<1>4. RemoveAt(list, at) = front \o back
  BY DEF RemoveAt, front, back, n
<1>5. /\ front \o back \in Seq(S) /\ Len(front \o back) = n - 1
      /\ \A i \in 1 .. n - 1 :
            (front \o back)[i] = IF i < at THEN front[i] ELSE back[i - (at - 1)]
  <2>1. /\ front \o back \in Seq(S) /\ Len(front \o back) = Len(front) + Len(back)
        /\ \A i \in 1 .. Len(front) + Len(back) :
             (front \o back)[i] = IF i <= Len(front) THEN front[i] ELSE back[i - Len(front)]
    BY <1>2, <1>3, ConcatProperties
  <2> QED BY <1>1, <1>2, <1>3, <2>1, SMTT(60)
<1>6. \A i \in 1 .. n - 1 : ~(i < at) =>
          i - (at - 1) \in 1 .. n - at /\ at + (i - (at - 1)) = i + 1
  BY <1>1
<1> QED
  BY <1>1, <1>2, <1>3, <1>4, <1>5, <1>6 DEF n

(* One is removed, the others stay, none is there twice.                   *)
LEMMA RemovedFrom ==
    ASSUME NEW S, NEW list \in Seq(S), NEW o, Distinct(list)
    PROVE  /\ Removed(list, o) \in Seq(S)
           /\ Distinct(Removed(list, o))
           /\ ToSet(Removed(list, o)) = ToSet(list) \ {o}
<1>1. CASE o \notin ToSet(list)
  BY <1>1 DEF Removed
<1>2. CASE o \in ToSet(list)
  <2> DEFINE at == CHOOSE i \in DOMAIN list : list[i] = o
             n == Len(list)
             shorter == RemoveAt(list, at)
  <2>1. at \in 1 .. n /\ n \in Nat /\ list[at] = o /\ DOMAIN list = 1 .. n
    BY <1>2 DEF ToSet
  <2> HIDE DEF at
  <2>4. /\ shorter \in Seq(S) /\ Len(shorter) = n - 1
        /\ \A i \in 1 .. n - 1 : shorter[i] = IF i < at THEN list[i] ELSE list[i + 1]
    BY <2>1, RemoveAtOf
  <2> HIDE DEF n
  <2>5. DOMAIN shorter = 1 .. n - 1
    BY <2>1, <2>4
  <2> HIDE DEF shorter
  <2>6. Distinct(shorter)
    <3> SUFFICES ASSUME NEW i \in 1 .. n - 1, NEW j \in 1 .. n - 1, shorter[i] = shorter[j]
                 PROVE  i = j
      BY <2>5 DEF Distinct
    <3> DEFINE was(k) == IF k < at THEN k ELSE k + 1
    <3>1. shorter[i] = list[was(i)] /\ shorter[j] = list[was(j)]
      BY <2>4
    <3>2. was(i) \in 1 .. n /\ was(j) \in 1 .. n
      BY <2>1
    <3>3. was(i) = was(j)
      BY <2>1, <3>1, <3>2 DEF Distinct
    <3> QED BY <2>1, <3>3
  <2>7. ToSet(shorter) \subseteq ToSet(list) \ {o}
    <3> SUFFICES ASSUME NEW i \in 1 .. n - 1
                 PROVE  shorter[i] \in ToSet(list) /\ shorter[i] # o
      BY <2>5 DEF ToSet
    <3>1. CASE i < at
      <4>1. i \in 1 .. n /\ i # at /\ shorter[i] = list[i]
        BY <2>1, <2>4, <3>1
      <4> QED BY <2>1, <4>1 DEF ToSet, Distinct
    <3>2. CASE ~(i < at)
      <4>1. i + 1 \in 1 .. n /\ i + 1 # at /\ shorter[i] = list[i + 1]
        BY <2>1, <2>4, <3>2
      <4> QED BY <2>1, <4>1 DEF ToSet, Distinct
    <3> QED BY <3>1, <3>2
  <2>8. ToSet(list) \ {o} \subseteq ToSet(shorter)
    <3> SUFFICES ASSUME NEW i \in 1 .. n, list[i] # o
                 PROVE  list[i] \in ToSet(shorter)
      BY <2>1 DEF ToSet
    <3>1. CASE i < at
      BY <2>1, <2>4, <2>5, <3>1 DEF ToSet
    <3>2. CASE i > at
      <4>1. i - 1 \in 1 .. n - 1 /\ ~(i - 1 < at) /\ (i - 1) + 1 = i
        BY <2>1, <3>2
      <4> QED BY <2>4, <2>5, <4>1 DEF ToSet
    <3> QED BY <2>1, <3>1, <3>2
  <2>9. Removed(list, o) = shorter
    BY <1>2 DEF Removed, shorter, at
  <2> QED BY <2>4, <2>6, <2>7, <2>8, <2>9
<1> QED BY <1>1, <1>2

(* One that is new is added at the end, or in front.                       *)
LEMMA AppendedTo ==
    ASSUME NEW S, NEW list \in Seq(S), NEW o \in S, Distinct(list), o \notin ToSet(list)
    PROVE  /\ Append(list, o) \in Seq(S)
           /\ Distinct(Append(list, o))
           /\ ToSet(Append(list, o)) = ToSet(list) \cup {o}
<1> DEFINE longer == Append(list, o)
<1>1. /\ longer \in Seq(S) /\ Len(longer) = Len(list) + 1
      /\ \A i \in 1 .. Len(list) : longer[i] = list[i]
      /\ longer[Len(list) + 1] = o
  OBVIOUS
<1>2. DOMAIN list = 1 .. Len(list) /\ DOMAIN longer = 1 .. Len(list) + 1 /\ Len(list) \in Nat
  BY <1>1
<1> HIDE DEF longer
<1>3. Distinct(longer)
  BY <1>1, <1>2 DEF Distinct, ToSet
<1>4. ToSet(longer) \subseteq ToSet(list) \cup {o}
  BY <1>1, <1>2 DEF ToSet
<1>5. ToSet(list) \subseteq ToSet(longer) /\ o \in ToSet(longer)
  BY <1>1, <1>2 DEF ToSet
<1> QED BY <1>1, <1>3, <1>4, <1>5 DEF longer

LEMMA PutInFront ==
    ASSUME NEW S, NEW list \in Seq(S), NEW o \in S, Distinct(list), o \notin ToSet(list)
    PROVE  /\ <<o>> \o list \in Seq(S)
           /\ Distinct(<<o>> \o list)
           /\ ToSet(<<o>> \o list) = ToSet(list) \cup {o}
<1> DEFINE longer == <<o>> \o list
<1>1. /\ longer \in Seq(S) /\ Len(longer) = Len(list) + 1
      /\ \A i \in 2 .. Len(list) + 1 : longer[i] = list[i - 1]
      /\ longer[1] = o
  OBVIOUS
<1>2. DOMAIN list = 1 .. Len(list) /\ DOMAIN longer = 1 .. Len(list) + 1 /\ Len(list) \in Nat
  BY <1>1
<1> HIDE DEF longer
<1>3. \A i \in 2 .. Len(list) + 1 : i - 1 \in 1 .. Len(list) /\ longer[i] \in ToSet(list)
  BY <1>1, <1>2 DEF ToSet
<1>4. Distinct(longer)
  <2> SUFFICES ASSUME NEW i \in 1 .. Len(list) + 1, NEW j \in 1 .. Len(list) + 1,
                      longer[i] = longer[j]
               PROVE  i = j
    BY <1>2 DEF Distinct
  <2>1. CASE i = 1 \/ j = 1
    BY <1>1, <1>2, <1>3, <2>1
  <2>2. CASE i # 1 /\ j # 1
    <3>1. i \in 2 .. Len(list) + 1 /\ j \in 2 .. Len(list) + 1
      BY <1>2, <2>2
    <3>2. i - 1 = j - 1
      BY <1>1, <1>2, <1>3, <3>1 DEF Distinct
    <3> QED BY <3>1, <3>2
  <2> QED BY <2>1, <2>2
<1>5. ToSet(longer) \subseteq ToSet(list) \cup {o}
  BY <1>1, <1>2, <1>3 DEF ToSet
<1>6. ToSet(list) \cup {o} \subseteq ToSet(longer)
  <2>1. o \in ToSet(longer)
    BY <1>1, <1>2 DEF ToSet
  <2>2. ASSUME NEW i \in 1 .. Len(list)
        PROVE  list[i] \in ToSet(longer)
    <3>1. i + 1 \in 2 .. Len(list) + 1 /\ (i + 1) - 1 = i
      BY <1>2
    <3>2. longer[i + 1] = list[i] /\ i + 1 \in DOMAIN longer
      BY <1>1, <1>2, <3>1
    <3> QED BY <3>2 DEF ToSet
  <2> QED BY <1>2, <2>1, <2>2 DEF ToSet
<1> QED BY <1>1, <1>4, <1>5, <1>6 DEF longer

(* The first one leaves.                                                   *)
LEMMA FirstTaken ==
    ASSUME NEW S, NEW list \in Seq(S), list # <<>>, Distinct(list)
    PROVE  /\ Head(list) \in S /\ Head(list) \in ToSet(list)
           /\ Tail(list) \in Seq(S)
           /\ Distinct(Tail(list))
           /\ ToSet(Tail(list)) = ToSet(list) \ {Head(list)}
<1> DEFINE rest == Tail(list)
           n == Len(list)
<1>1. /\ rest \in Seq(S) /\ Len(rest) = n - 1 /\ n \in Nat /\ n >= 1
      /\ \A i \in 1 .. n - 1 : rest[i] = list[i + 1]
      /\ Head(list) = list[1] /\ Head(list) \in S
  OBVIOUS
<1>2. DOMAIN list = 1 .. n /\ DOMAIN rest = 1 .. n - 1
  BY <1>1
<1> HIDE DEF rest, n
<1>3. \A i \in 1 .. n - 1 : i + 1 \in 1 .. n /\ i + 1 # 1
  BY <1>1
<1>4. Distinct(rest)
  <2> SUFFICES ASSUME NEW i \in 1 .. n - 1, NEW j \in 1 .. n - 1, rest[i] = rest[j]
               PROVE  i = j
    BY <1>2 DEF Distinct
  <2>1. i + 1 = j + 1
    BY <1>1, <1>2, <1>3, SMTT(60) DEF Distinct
  <2> QED BY <2>1
<1>5. ToSet(rest) \subseteq ToSet(list) \ {Head(list)}
  <2> SUFFICES ASSUME NEW i \in 1 .. n - 1
               PROVE  rest[i] \in ToSet(list) /\ rest[i] # Head(list)
    BY <1>2 DEF ToSet
  <2>1. 1 \in 1 .. n
    BY <1>1
  <2> QED BY <1>1, <1>2, <1>3, <2>1, SMTT(60) DEF ToSet, Distinct
<1>6. ToSet(list) \ {Head(list)} \subseteq ToSet(rest)
  <2> SUFFICES ASSUME NEW i \in 1 .. n, list[i] # Head(list)
               PROVE  list[i] \in ToSet(rest)
    BY <1>2 DEF ToSet
  <2>1. i - 1 \in 1 .. n - 1 /\ (i - 1) + 1 = i
    BY <1>1
  <2> QED BY <1>1, <1>2, <2>1 DEF ToSet
<1>7. Head(list) \in ToSet(list)
  BY <1>1, <1>2 DEF ToSet
<1> QED BY <1>1, <1>4, <1>5, <1>6, <1>7 DEF rest

-----------------------------------------------------------------------------
(* Lists that are cut and joined, and their values and sums.               *)

(* A set of numbers that is not empty has a least element.                 *)
LEMMA LeastOf ==
  ASSUME NEW S, S \subseteq Nat, S # {}
  PROVE  \E m \in S : \A k \in S : m <= k
  <1>1. PICK m \in S : \A k \in S : ~(<<k, m>> \in OpToRel(<, Nat))
    BY NatLessThanWellFounded, WFMin
  <1>2. \A k \in S : ~(k < m)
    BY <1>1 DEF OpToRel
  <1>. QED  BY <1>2

(* A sequence is cut in two.                                               *)
LEMMA CutAt ==
  ASSUME NEW S, NEW V \in Seq(S), NEW n \in 0 .. Len(V)
  PROVE  /\ SubSeq(V, 1, n) \in Seq(S) /\ Len(SubSeq(V, 1, n)) = n
         /\ \A i \in 1 .. n : SubSeq(V, 1, n)[i] = V[i]
         /\ SubSeq(V, n + 1, Len(V)) \in Seq(S) /\ Len(SubSeq(V, n + 1, Len(V))) = Len(V) - n
         /\ \A i \in 1 .. Len(V) - n : SubSeq(V, n + 1, Len(V))[i] = V[n + i]
  <1>1. Len(V) \in Nat /\ \A i \in 1 .. Len(V) : V[i] \in S
    OBVIOUS
  <1>2. /\ Len(SubSeq(V, 1, n)) = n /\ SubSeq(V, 1, n) \in Seq(S)
        /\ \A i \in 1 .. n : SubSeq(V, 1, n)[i] = V[i]
    BY <1>1
  <1>3. /\ Len(SubSeq(V, n + 1, Len(V))) = Len(V) - n /\ SubSeq(V, n + 1, Len(V)) \in Seq(S)
        /\ \A i \in 1 .. Len(V) - n : SubSeq(V, n + 1, Len(V))[i] = V[n + i]
    BY <1>1
  <1>. QED  BY <1>2, <1>3

(* Two sequences are joined.                                               *)
LEMMA JoinedAt ==
  ASSUME NEW S, NEW V \in Seq(S), NEW W \in Seq(S)
  PROVE  /\ V \o W \in Seq(S) /\ Len(V \o W) = Len(V) + Len(W)
         /\ \A i \in 1 .. Len(V) : (V \o W)[i] = V[i]
         /\ \A i \in 1 .. Len(W) : (V \o W)[Len(V) + i] = W[i]
  <1>1. V \o W \in Seq(S) /\ Len(V \o W) = Len(V) + Len(W)
    OBVIOUS
  <1>2. \A i \in 1 .. Len(V) : (V \o W)[i] = V[i]
    OBVIOUS
  <1>3. \A i \in 1 .. Len(W) : (V \o W)[Len(V) + i] = W[i]
    OBVIOUS
  <1>. QED  BY <1>1, <1>2, <1>3

(* Sequences are the same when their elements are.                         *)
LEMMA SameSequence ==
  ASSUME NEW S, NEW a, a \in Seq(S), NEW b, b \in Seq(S), Len(a) = Len(b), \A i \in 1 .. Len(a) : a[i] = b[i]
  PROVE  a = b
  <1>1. a \in [1 .. Len(a) -> S] /\ b \in [1 .. Len(a) -> S]
    OBVIOUS
  <1>. QED  BY <1>1

(* The values of a list of records.                                        *)
Values(l) == [i \in 1 .. Len(l) |-> l[i].val]

-----------------------------------------------------------------------------
(* The values of a sequence of lacing records.                             *)
LEMMA ValuesAre ==
  ASSUME NEW l, NEW S, l \in Seq(S), \A x \in S : x.val \in Nat
  PROVE  Values(l) \in Seq(Nat) /\ Len(Values(l)) = Len(l) /\ \A i \in 1 .. Len(l) : Values(l)[i] = l[i].val
  BY DEF Values

(* The values of two sequences one after the other.                        *)
LEMMA ValuesJoined ==
  ASSUME NEW S, \A x \in S : x.val \in Nat, NEW a, a \in Seq(S), NEW b, b \in Seq(S)
  PROVE  Values(a \o b) = Values(a) \o Values(b)
  <1>1. a \o b \in Seq(S) /\ Len(a \o b) = Len(a) + Len(b) /\ Len(a) \in Nat /\ Len(b) \in Nat
    OBVIOUS
  <1>2. /\ Values(a \o b) \in Seq(Nat) /\ Len(Values(a \o b)) = Len(a \o b)
        /\ \A i \in 1 .. Len(a \o b) : Values(a \o b)[i] = (a \o b)[i].val
    BY <1>1, ValuesAre
  <1>3. /\ Values(a) \in Seq(Nat) /\ Len(Values(a)) = Len(a) /\ \A i \in 1 .. Len(a) : Values(a)[i] = a[i].val
        /\ Values(b) \in Seq(Nat) /\ Len(Values(b)) = Len(b) /\ \A i \in 1 .. Len(b) : Values(b)[i] = b[i].val
    BY ValuesAre
  <1> HIDE DEF Values
  <1>4. /\ Values(a) \o Values(b) \in Seq(Nat) /\ Len(Values(a) \o Values(b)) = Len(a) + Len(b)
        /\ \A i \in 1 .. Len(a) : (Values(a) \o Values(b))[i] = Values(a)[i]
        /\ \A i \in 1 .. Len(b) : (Values(a) \o Values(b))[Len(a) + i] = Values(b)[i]
    <2>1. Values(a) \in Seq(Nat) /\ Values(b) \in Seq(Nat) /\ Len(Values(a)) = Len(a) /\ Len(Values(b)) = Len(b)
      BY <1>3
    <2> DEFINE x == Values(a)
               y == Values(b)
    <2> HIDE DEF x, y
    <2>2. x \in Seq(Nat) /\ y \in Seq(Nat)
      BY <2>1 DEF x, y
    <2>3. /\ x \o y \in Seq(Nat) /\ Len(x \o y) = Len(x) + Len(y)
          /\ \A i \in 1 .. Len(x) : (x \o y)[i] = x[i]
          /\ \A i \in 1 .. Len(y) : (x \o y)[Len(x) + i] = y[i]
      BY <2>2, JoinedAt
    <2>. QED  BY <2>1, <2>3 DEF x, y
  <1>5. ASSUME NEW i \in 1 .. Len(a) + Len(b) PROVE Values(a \o b)[i] = (Values(a) \o Values(b))[i]
    <2>1. i \in 1 .. Len(a \o b)
      BY <1>1
    <2>2. CASE i <= Len(a)
      <3>1. i \in 1 .. Len(a) /\ (a \o b)[i] = a[i]
        BY <2>2, <1>1
      <3>. QED  BY <3>1, <2>1, <1>2, <1>3, <1>4
    <2>3. CASE i > Len(a)
      <3> DEFINE k == i - Len(a)
      <3>1. k \in 1 .. Len(b) /\ i = Len(a) + k /\ (a \o b)[i] = b[k]
        BY <2>3, <1>1
      <3> HIDE DEF k
      <3>. QED  BY <3>1, <2>1, <1>2, <1>3, <1>4
    <2>4. i <= Len(a) \/ i > Len(a)
      BY <1>1
    <2>. QED  BY <2>2, <2>3, <2>4
  <1>. QED  BY <1>1, <1>2, <1>4, <1>5, SameSequence

(* The values of a sequence that is cut in two.                            *)
LEMMA ValuesInTwo ==
  ASSUME NEW S, \A x \in S : x.val \in Nat, NEW a, a \in Seq(S), NEW n \in 0 .. Len(a)
  PROVE  /\ Values(SubSeq(a, 1, n)) = SubSeq(Values(a), 1, n)
         /\ Values(SubSeq(a, n + 1, Len(a))) = SubSeq(Values(a), n + 1, Len(a))
         /\ [i \in 1 .. n |-> a[i].val] = SubSeq(Values(a), 1, n)
  <1>1. Values(a) \in Seq(Nat) /\ Len(Values(a)) = Len(a) /\ \A i \in 1 .. Len(a) : Values(a)[i] = a[i].val
    BY ValuesAre
  <1> DEFINE a1 == SubSeq(a, 1, n)
             a2 == SubSeq(a, n + 1, Len(a))
             v1 == SubSeq(Values(a), 1, n)
             v2 == SubSeq(Values(a), n + 1, Len(a))
  <1>2. /\ a1 \in Seq(S) /\ Len(a1) = n /\ (\A i \in 1 .. n : a1[i] = a[i])
        /\ a2 \in Seq(S) /\ Len(a2) = Len(a) - n /\ \A i \in 1 .. Len(a) - n : a2[i] = a[n + i]
    BY CutAt
  <1>3. /\ v1 \in Seq(Nat) /\ Len(v1) = n /\ (\A i \in 1 .. n : v1[i] = Values(a)[i])
        /\ v2 \in Seq(Nat) /\ Len(v2) = Len(a) - n /\ \A i \in 1 .. Len(a) - n : v2[i] = Values(a)[n + i]
    <2>1. n \in 0 .. Len(Values(a))
      BY <1>1
    <2>. QED  BY <2>1, <1>1, CutAt
  <1> HIDE DEF a1, a2, v1, v2
  <1>4. /\ Values(a1) \in Seq(Nat) /\ Len(Values(a1)) = n /\ \A i \in 1 .. n : Values(a1)[i] = a1[i].val
    BY <1>2, ValuesAre
  <1>5. /\ Values(a2) \in Seq(Nat) /\ Len(Values(a2)) = Len(a) - n
        /\ \A i \in 1 .. Len(a) - n : Values(a2)[i] = a2[i].val
    BY <1>2, ValuesAre
  <1>6. Len(a) \in Nat
    OBVIOUS
  <1>7. \A i \in 1 .. n : i \in 1 .. Len(a)
    BY <1>6
  <1>8. \A i \in 1 .. Len(a) - n : n + i \in 1 .. Len(a)
    BY <1>6
  <1>9. Values(a1) = v1
    <2>1. \A i \in 1 .. n : Values(a1)[i] = v1[i]
      BY <1>1, <1>2, <1>3, <1>4, <1>7
    <2>. QED  BY <2>1, <1>3, <1>4, SameSequence
  <1>10. Values(a2) = v2
    <2>1. \A i \in 1 .. Len(a) - n : Values(a2)[i] = v2[i]
      BY <1>1, <1>2, <1>3, <1>5, <1>8
    <2>. QED  BY <2>1, <1>3, <1>5, SameSequence
  <1>11. [i \in 1 .. n |-> a[i].val] = v1
    <2>1. Values(a1) = [i \in 1 .. n |-> a1[i].val]
      BY <1>2 DEF Values
    <2>2. \A i \in 1 .. n : a1[i].val = a[i].val
      BY <1>2
    <2>. QED  BY <2>1, <2>2, <1>9
  <1>. QED  BY <1>9, <1>10, <1>11 DEF a1, a2, v1, v2

(* f is the function of the sums of the first values of V.                 *)
Summing(V, n, f) == f = [i \in 0 .. n |-> IF i = 0 THEN 0 ELSE f[i - 1] + V[i]]

(* It is there.                                                            *)
LEMMA SummingExists ==
  ASSUME NEW V, NEW n \in Nat
  PROVE  \E f : Summing(V, n, f)
  <1> DEFINE Bad == {k \in Nat : ~\E f : Summing(V, k, f)}
  <1> SUFFICES ASSUME Bad # {} PROVE FALSE
    OBVIOUS
  <1>1. PICK m \in Bad : \A k \in Bad : m <= k
    BY LeastOf
  <1>2. m \in Nat /\ ~\E f : Summing(V, m, f)
    OBVIOUS
  <1> HIDE DEF Bad
  <1>3. CASE m = 0
    <2> DEFINE f == [i \in 0 .. 0 |-> 0]
    <2>1. Summing(V, 0, f)
      BY DEF Summing
    <2>. QED  BY <2>1, <1>2, <1>3
  <1>4. CASE m # 0
    <2>1. m - 1 \in Nat /\ m - 1 \notin Bad
      BY <1>1, <1>2, <1>4
    <2>2. PICK f : Summing(V, m - 1, f)
      BY <2>1 DEF Bad
    <2> DEFINE g == [i \in 0 .. m |-> IF i = m THEN f[m - 1] + V[m] ELSE f[i]]
               h == [i \in 0 .. m |-> IF i = 0 THEN 0 ELSE g[i - 1] + V[i]]
    <2>3. \A i \in 0 .. m : g[i] = h[i]
      <3> TAKE i \in 0 .. m
      <3>1. CASE i = m
        <4>1. g[i - 1] = f[m - 1]
          BY <3>1, <1>2, <1>4
        <4>. QED  BY <4>1, <3>1, <1>4
      <3>2. CASE i # m
        <4>1. i \in 0 .. m - 1 /\ f[i] = IF i = 0 THEN 0 ELSE f[i - 1] + V[i]
          BY <2>2, <3>2, <1>2 DEF Summing
        <4>2. i # 0 => g[i - 1] = f[i - 1]
          BY <4>1, <1>2
        <4>. QED  BY <4>1, <4>2, <3>2
      <3>. QED  BY <3>1, <3>2
    <2>4. g = h
      BY <2>3
    <2>5. Summing(V, m, g)
      BY <2>4 DEF Summing
    <2>. QED  BY <2>5, <1>2
  <1>. QED  BY <1>3, <1>4

(* The values of it.                                                       *)
LEMMA SummingIs ==
  ASSUME NEW V \in Seq(Nat), NEW n \in 0 .. Len(V), NEW f, Summing(V, n, f)
  PROVE  /\ f[0] = 0 /\ \A i \in 1 .. n : f[i] = f[i - 1] + V[i]
         /\ \A i \in 0 .. n : f[i] \in Nat
  <1>1. f[0] = 0 /\ \A i \in 1 .. n : f[i] = f[i - 1] + V[i]
    BY DEF Summing
  <1>2. \A i \in 1 .. n : V[i] \in Nat
    OBVIOUS
  <1> DEFINE Bad == {k \in Nat : k <= n /\ f[k] \notin Nat}
  <1>3. Bad = {}
    <2> SUFFICES ASSUME Bad # {} PROVE FALSE
      OBVIOUS
    <2>1. PICK m \in Bad : \A k \in Bad : m <= k
      BY LeastOf
    <2>2. m \in 0 .. n /\ f[m] \notin Nat /\ m # 0
      BY <1>1
    <2>3. m - 1 \in 0 .. n /\ m - 1 \notin Bad
      BY <2>1, <2>2
    <2>4. m \in 1 .. n /\ f[m - 1] \in Nat /\ V[m] \in Nat /\ f[m] = f[m - 1] + V[m]
      BY <2>2, <2>3, <1>1, <1>2
    <2>. QED  BY <2>2, <2>4
  <1>. QED  BY <1>1, <1>3

(* Sums agree as far as the values do.                                     *)
LEMMA SummingAgrees ==
  ASSUME NEW V \in Seq(Nat), NEW W \in Seq(Nat), NEW n \in 0 .. Len(W), NEW f, NEW g,
         Summing(V, Len(V), f), Summing(W, n, g),
         n <= Len(V), \A i \in 1 .. n : W[i] = V[i]
  PROVE  g[n] = f[n]
  <1>1. f[0] = 0 /\ \A i \in 1 .. Len(V) : f[i] = f[i - 1] + V[i]
    <2>1. Len(V) \in 0 .. Len(V)
      OBVIOUS
    <2> DEFINE c == Len(V)
    <2>2. c \in 0 .. Len(V) /\ Summing(V, c, f)
      BY <2>1
    <2> HIDE DEF c
    <2>3. f[0] = 0 /\ \A i \in 1 .. c : f[i] = f[i - 1] + V[i]
      BY <2>2, SummingIs
    <2>. QED  BY <2>3 DEF c
  <1>2. g[0] = 0 /\ \A i \in 1 .. n : g[i] = g[i - 1] + W[i]
    BY SummingIs
  <1> DEFINE Bad == {k \in Nat : k <= n /\ f[k] # g[k]}
  <1>3. Bad = {}
    <2> SUFFICES ASSUME Bad # {} PROVE FALSE
      OBVIOUS
    <2>1. PICK m \in Bad : \A k \in Bad : m <= k
      BY LeastOf
    <2>2. m \in 0 .. n /\ f[m] # g[m] /\ m # 0
      BY <1>1, <1>2
    <2>3. m - 1 \in 0 .. n /\ m - 1 \notin Bad
      BY <2>1, <2>2
    <2>4. m \in 1 .. n /\ m \in 1 .. Len(V) /\ f[m - 1] = g[m - 1]
      BY <2>2, <2>3
    <2>. QED  BY <2>2, <2>4, <1>1, <1>2
  <1>. QED  BY <1>3
=============================================================================
