--------------------------- MODULE KListTheorems ---------------------------
(* What the list operations of KList preserve, for lists of any length. *)
EXTENDS KList, WellFoundedInduction, TLAPS

\* A set of numbers has a least element: a scan of a list from its head that
\* stops at the first match (pick_next) finds one if there is one.
LEMMA LeastExists ==
    ASSUME NEW S, S \subseteq Nat, S # {}
    PROVE  \E i \in S : \A j \in S : i <= j
<1>1. \E x \in S : \A y \in S : ~ (<<y, x>> \in OpToRel(<, Nat))
  BY NatLessThanWellFounded, WFMin
<1>2. PICK x \in S : \A y \in S : ~ (<<y, x>> \in OpToRel(<, Nat))
  BY <1>1
<1>3. ASSUME NEW y \in S PROVE ~ (y < x)
  <2>1. ~ (<<y, x>> \in OpToRel(<, Nat))
    BY <1>2
  <2>2. x \in Nat /\ y \in Nat
    OBVIOUS
  <2> QED
    BY <2>1, <2>2 DEF OpToRel
<1>4. \A y \in S : x <= y
  BY <1>3
<1> QED
  BY <1>4

\* _insert_into_list links one more node, the new one, and no node twice
\* unless it was linked already.
LEMMA InsertHeadFacts ==
    ASSUME NEW S, NEW s \in Seq(S), NEW x \in S
    PROVE  /\ InsertHead(s, x) \in Seq(S)
           /\ Len(InsertHead(s, x)) = Len(s) + 1
           /\ Members(InsertHead(s, x)) = Members(s) \cup {x}
           /\ Distinct(s) /\ x \notin Members(s) => Distinct(InsertHead(s, x))
<1> DEFINE t == InsertHead(s, x)
<1>1. t \in Seq(S) /\ Len(t) = Len(s) + 1
  BY DEF InsertHead
<1>2. DOMAIN t = 1 .. Len(s) + 1 /\ DOMAIN s = 1 .. Len(s)
  BY <1>1
<1>3. t[1] = x /\ \A i \in 1 .. Len(s) : t[i + 1] = s[i]
  BY DEF InsertHead
<1>4. \A i \in DOMAIN t : i = 1 \/ (i - 1 \in DOMAIN s /\ t[i] = s[i - 1])
  BY <1>2, <1>3
<1>5. Members(t) \subseteq Members(s) \cup {x}
  BY <1>3, <1>4 DEF Members
<1>6. Members(s) \cup {x} \subseteq Members(t)
  <2>1. x \in Members(t)
    BY <1>2, <1>3 DEF Members
  <2>2. ASSUME NEW i \in DOMAIN s PROVE s[i] \in Members(t)
    BY <1>2, <1>3 DEF Members
  <2> QED
    BY <2>1, <2>2 DEF Members
<1>7. ASSUME Distinct(s), x \notin Members(s) PROVE Distinct(t)
  <2> SUFFICES ASSUME NEW i \in DOMAIN t, NEW j \in DOMAIN t, t[i] = t[j]
               PROVE  i = j
    BY DEF Distinct
  <2>1. \A k \in DOMAIN s : s[k] # x
    BY <1>7 DEF Members
  <2>2. CASE i = 1 \/ j = 1
    BY <2>1, <2>2, <1>3, <1>4
  <2>3. CASE i # 1 /\ j # 1
    BY <2>3, <1>2, <1>4, <1>7 DEF Distinct
  <2> QED
    BY <2>2, <2>3
<1> QED
  BY <1>1, <1>5, <1>6, <1>7

\* _detach_from_list removes its node and nothing else from a list in which
\* no node is linked twice.
LEMMA DetachFacts ==
    ASSUME NEW S, NEW s \in Seq(S), Distinct(s), NEW x
    PROVE  /\ Detach(s, x) \in Seq(S)
           /\ Members(Detach(s, x)) = Members(s) \ {x}
           /\ Distinct(Detach(s, x))
           /\ x \in Members(s) => Len(Detach(s, x)) = Len(s) - 1
           /\ x \notin Members(s) => Detach(s, x) = s
<1>1. CASE x \notin Members(s)
  BY <1>1 DEF Detach
<1>2. CASE x \in Members(s)
  <2> DEFINE k == Place(s, x)
             n == Len(s)
             t == Without(s, k)
  <2>1. k \in DOMAIN s /\ s[k] = x
    BY <1>2 DEF Members, Place
  <2>2. n \in Nat /\ DOMAIN s = 1 .. n /\ k \in 1 .. n
    BY <2>1
  <2> HIDE DEF k, n
  <2>3. t = [i \in 1 .. n - 1 |-> IF i < k THEN s[i] ELSE s[i + 1]]
    BY DEF Without, n
  <2>4. \A i \in 1 .. n - 1 : i \in DOMAIN s /\ i + 1 \in DOMAIN s
    BY <2>2
  <2>5. t \in [1 .. n - 1 -> S] /\ n - 1 \in Nat
    BY <2>2, <2>3, <2>4
  <2>6. t \in Seq(S) /\ Len(t) = n - 1 /\ DOMAIN t = 1 .. n - 1
    BY <2>5
  <2>7. Members(t) \subseteq Members(s) \ {x}
    <3> SUFFICES ASSUME NEW i \in DOMAIN t PROVE t[i] \in Members(s) /\ t[i] # x
      BY DEF Members
    <3>1. CASE i < k
      BY <3>1, <2>1, <2>2, <2>3, <2>4, <2>6 DEF Members, Distinct
    <3>2. CASE ~ (i < k)
      BY <3>2, <2>1, <2>2, <2>3, <2>4, <2>6 DEF Members, Distinct
    <3> QED
      BY <3>1, <3>2
  <2>8. Members(s) \ {x} \subseteq Members(t)
    <3> SUFFICES ASSUME NEW i \in DOMAIN s, s[i] # x PROVE s[i] \in Members(t)
      BY DEF Members
    <3>1. i # k
      BY <2>1
    <3>2. CASE i < k
      <4>1. i \in DOMAIN t /\ t[i] = s[i]
        BY <3>2, <2>2, <2>3, <2>6
      <4> QED
        BY <4>1 DEF Members
    <3>3. CASE i > k
      <4>1. i - 1 \in DOMAIN t /\ t[i - 1] = s[i]
        BY <3>3, <2>2, <2>3, <2>6
      <4> QED
        BY <4>1 DEF Members
    <3> QED
      BY <3>1, <3>2, <3>3, <2>2
  <2>9. Distinct(t)
    <3> SUFFICES ASSUME NEW i \in DOMAIN t, NEW j \in DOMAIN t, t[i] = t[j]
                 PROVE  i = j
      BY DEF Distinct
    <3> DEFINE f(a) == IF a < k THEN a ELSE a + 1
    <3>1. f(i) \in DOMAIN s /\ f(j) \in DOMAIN s /\ s[f(i)] = s[f(j)]
      BY <2>2, <2>3, <2>4, <2>6
    <3>2. f(i) = f(j)
      BY <3>1 DEF Distinct
    <3> QED
      BY <3>2, <2>2, <2>6
  <2> QED
    BY <1>2, <2>6, <2>7, <2>8, <2>9 DEF Detach, k, n
<1> QED
  BY <1>1, <1>2

\* Removing the k-th node is detaching it.
LEMMA WithoutFacts ==
    ASSUME NEW S, NEW s \in Seq(S), Distinct(s), NEW k \in DOMAIN s
    PROVE  /\ Without(s, k) \in Seq(S)
           /\ Members(Without(s, k)) = Members(s) \ {s[k]}
           /\ Distinct(Without(s, k))
           /\ Len(Without(s, k)) = Len(s) - 1
<1>1. s[k] \in Members(s)
  BY DEF Members
<1>2. Place(s, s[k]) = k
  BY DEF Place, Distinct
<1>3. Without(s, k) = Detach(s, s[k])
  BY <1>1, <1>2 DEF Detach
<1> QED
  BY <1>1, <1>3, DetachFacts

\* A node that is linked before the list head is the last of the list.
LEMMA AppendFacts ==
    ASSUME NEW S, NEW s \in Seq(S), NEW x \in S
    PROVE  /\ Append(s, x) \in Seq(S)
           /\ Len(Append(s, x)) = Len(s) + 1
           /\ Members(Append(s, x)) = Members(s) \cup {x}
           /\ Distinct(s) /\ x \notin Members(s) => Distinct(Append(s, x))
<1> DEFINE t == Append(s, x)
<1>1. t \in Seq(S) /\ Len(t) = Len(s) + 1 /\ Len(s) \in Nat
  OBVIOUS
<1>2. DOMAIN t = 1 .. Len(s) + 1 /\ DOMAIN s = 1 .. Len(s)
  BY <1>1
<1>3. t[Len(s) + 1] = x /\ \A i \in 1 .. Len(s) : t[i] = s[i]
  OBVIOUS
<1> HIDE DEF t
<1>4. \A i \in DOMAIN t : (i = Len(s) + 1 /\ t[i] = x) \/ (i \in DOMAIN s /\ t[i] = s[i])
  BY <1>1, <1>2, <1>3
<1>5. Len(s) + 1 \in DOMAIN t /\ \A i \in DOMAIN s : i \in DOMAIN t /\ t[i] = s[i]
  BY <1>1, <1>2, <1>3
<1>6. Members(t) = Members(s) \cup {x}
  BY <1>3, <1>4, <1>5 DEF Members
<1>7. ASSUME Distinct(s), x \notin Members(s) PROVE Distinct(t)
  <2> SUFFICES ASSUME NEW i \in DOMAIN t, NEW j \in DOMAIN t, t[i] = t[j]
               PROVE  i = j
    BY DEF Distinct
  <2>1. \A k \in DOMAIN s : s[k] # x
    BY <1>7 DEF Members
  <2> QED
    BY <1>4, <1>7, <2>1 DEF Distinct
<1> QED
  BY <1>1, <1>6, <1>7 DEF t

\* Two lists, one after the other.
LEMMA ConcatFacts ==
    ASSUME NEW S, NEW s \in Seq(S), NEW t \in Seq(S)
    PROVE  /\ s \o t \in Seq(S)
           /\ Members(s \o t) = Members(s) \cup Members(t)
           /\ Distinct(s) /\ Distinct(t) /\ Members(s) \cap Members(t) = {} => Distinct(s \o t)
<1> DEFINE u == s \o t
           m == Len(s)
           n == Len(t)
<1>1. /\ u \in Seq(S) /\ Len(u) = m + n /\ m \in Nat /\ n \in Nat
      /\ DOMAIN u = 1 .. m + n /\ DOMAIN s = 1 .. m /\ DOMAIN t = 1 .. n
  OBVIOUS
<1>2. \A i \in 1 .. m : u[i] = s[i]
  OBVIOUS
<1>3. \A i \in 1 .. n : u[m + i] = t[i]
  OBVIOUS
<1>4. \A i \in m + 1 .. m + n : i - m \in 1 .. n /\ u[i] = t[i - m]
  <2> SUFFICES ASSUME NEW i \in m + 1 .. m + n PROVE i - m \in 1 .. n /\ u[i] = t[i - m]
    OBVIOUS
  <2>1. i - m \in 1 .. n /\ m + (i - m) = i
    BY <1>1
  <2> QED BY <1>3, <2>1
<1> HIDE DEF u
<1>5. \A i \in 1 .. m + n : i \in 1 .. m \/ i \in m + 1 .. m + n
  BY <1>1
<1>6. Members(u) = Members(s) \cup Members(t)
  <2>1. Members(u) \subseteq Members(s) \cup Members(t)
    BY <1>1, <1>2, <1>4, <1>5 DEF Members
  <2>2. Members(s) \subseteq Members(u)
    BY <1>1, <1>2 DEF Members
  <2>3. Members(t) \subseteq Members(u)
    <3>1. \A i \in 1 .. n : m + i \in 1 .. m + n
      BY <1>1
    <3> QED BY <1>1, <1>3, <3>1 DEF Members
  <2> QED BY <2>1, <2>2, <2>3
<1>7. ASSUME Distinct(s), Distinct(t), Members(s) \cap Members(t) = {} PROVE Distinct(u)
  <2>1. ASSUME NEW i \in 1 .. m + n, NEW j \in 1 .. m + n, u[i] = u[j] PROVE i = j
    <3>1. CASE i \in 1 .. m /\ j \in 1 .. m
      BY <1>1, <1>2, <1>7, <2>1, <3>1 DEF Distinct
    <3>2. CASE i \in m + 1 .. m + n /\ j \in m + 1 .. m + n
      <4>1. i - m = j - m
        BY <1>1, <1>4, <1>7, <2>1, <3>2 DEF Distinct
      <4> QED BY <1>1, <4>1
    <3>3. ASSUME NEW k \in 1 .. m, NEW l \in m + 1 .. m + n PROVE u[k] # u[l]
      <4>1. u[k] \in Members(s)
        BY <1>1, <1>2 DEF Members
      <4>2. u[l] \in Members(t)
        BY <1>1, <1>4 DEF Members
      <4> QED BY <1>7, <4>1, <4>2
    <3> QED BY <1>5, <2>1, <3>1, <3>2, <3>3
  <2> QED BY <1>1, <2>1 DEF Distinct
<1> QED BY <1>1, <1>6, <1>7 DEF u

\* An empty list links nothing.
LEMMA EmptyFacts == Members(<<>>) = {} /\ Distinct(<<>>)
  BY DEF Members, Distinct
=============================================================================
