-------------------------- MODULE MarketFeedProofs --------------------------
(***************************************************************************)
(* The copy of the book that the alpha engine keeps from the feed is, once *)
(* the feed is quiet, the exchange's but for the levels whose last change  *)
(* was lost, and it is crossed only after a failure.                       *)
(***************************************************************************)
EXTENDS MarketFeed, DataTheorems, TLAPS

-----------------------------------------------------------------------------
(* Sequences end to end. *)

LEMMA EqualEverywhere ==
    ASSUME NEW S, NEW a \in Seq(S), NEW b \in Seq(S), Len(a) = Len(b),
           \A i \in 1..Len(a) : a[i] = b[i]
    PROVE  a = b
OBVIOUS

LEMMA Two ==
    ASSUME NEW S, NEW a \in Seq(S), NEW b \in Seq(S)
    PROVE  /\ a \o b \in Seq(S) /\ Len(a \o b) = Len(a) + Len(b)
           /\ Len(a) \in Nat /\ Len(b) \in Nat
           /\ \A i \in 1..Len(a) + Len(b) :
                 (a \o b)[i] = IF i <= Len(a) THEN a[i] ELSE b[i - Len(a)]
OBVIOUS

LEMMA Three ==
    ASSUME NEW S, NEW a \in Seq(S), NEW b \in Seq(S), NEW c \in Seq(S)
    PROVE  /\ a \o b \o c \in Seq(S)
           /\ Len(a \o b \o c) = Len(a) + Len(b) + Len(c)
           /\ \A i \in 1..Len(a) + Len(b) + Len(c) :
                 (a \o b \o c)[i] =
                     IF i <= Len(a) THEN a[i]
                     ELSE IF i <= Len(a) + Len(b) THEN b[i - Len(a)]
                     ELSE c[i - (Len(a) + Len(b))]
<1> DEFINE d == a \o b
<1>1. /\ d \in Seq(S) /\ Len(d) = Len(a) + Len(b)
      /\ Len(a) \in Nat /\ Len(b) \in Nat /\ Len(c) \in Nat
      /\ \A i \in 1..Len(a) + Len(b) : d[i] = IF i <= Len(a) THEN a[i] ELSE b[i - Len(a)]
  BY Two
<1> HIDE DEF d
<1> DEFINE e == d \o c
<1>2. /\ e \in Seq(S) /\ Len(e) = Len(d) + Len(c)
      /\ \A i \in 1..Len(d) + Len(c) : e[i] = IF i <= Len(d) THEN d[i] ELSE c[i - Len(d)]
  <2>1. d \in Seq(S)
    BY <1>1
  <2> QED
    BY ONLY <2>1, c \in Seq(S), Two
<1> HIDE DEF e
<1>3. \A i \in 1..Len(a) + Len(b) + Len(c) :
          e[i] = IF i <= Len(a) THEN a[i]
                 ELSE IF i <= Len(a) + Len(b) THEN b[i - Len(a)]
                 ELSE c[i - (Len(a) + Len(b))]
  BY <1>1, <1>2
<1> QED
  BY <1>1, <1>2, <1>3 DEF e, d

LEMMA OneOn ==
    ASSUME NEW S, NEW a \in Seq(S), a # <<>>
    PROVE  /\ Head(a) \in S /\ Head(a) = a[1] /\ Tail(a) \in Seq(S) /\ Len(a) \in Nat \ {0}
           /\ Len(Tail(a)) = Len(a) - 1 /\ \A i \in 1..Len(a) - 1 : Tail(a)[i] = a[i + 1]
OBVIOUS

LEMMA OneMore ==
    ASSUME NEW S, NEW a \in Seq(S), NEW x \in S
    PROVE  /\ Append(a, x) \in Seq(S) /\ Len(Append(a, x)) = Len(a) + 1 /\ Len(a) \in Nat
           /\ \A i \in 1..Len(a) + 1 : Append(a, x)[i] = IF i <= Len(a) THEN a[i] ELSE x
OBVIOUS

\* An element that goes from the head of a sequence to the end of the one before.
LEMMA Handed ==
    ASSUME NEW S, NEW a \in Seq(S), NEW b \in Seq(S), b # <<>>
    PROVE  Append(a, Head(b)) \o Tail(b) = a \o b
<1>1. /\ Append(a, Head(b)) \o Tail(b) \in Seq(S) /\ a \o b \in Seq(S)
      /\ Len(Append(a, Head(b)) \o Tail(b)) = Len(a \o b)
  BY OneOn, OneMore
<1>2. \A i \in 1..Len(a \o b) : (Append(a, Head(b)) \o Tail(b))[i] = (a \o b)[i]
  BY OneOn, OneMore
<1> QED
  BY <1>1, <1>2, EqualEverywhere

LEMMA Associative ==
    ASSUME NEW S, NEW a \in Seq(S), NEW b \in Seq(S), NEW c \in Seq(S)
    PROVE  a \o b \o c = a \o (b \o c)
<1> DEFINE d == b \o c
<1>1. /\ d \in Seq(S) /\ Len(d) = Len(b) + Len(c) /\ Len(a) \in Nat /\ Len(b) \in Nat
      /\ Len(c) \in Nat
      /\ \A i \in 1..Len(b) + Len(c) : d[i] = IF i <= Len(b) THEN b[i] ELSE c[i - Len(b)]
  BY Two
<1> HIDE DEF d
<1> DEFINE e == a \o d
<1>2. /\ e \in Seq(S) /\ Len(e) = Len(a) + Len(d)
      /\ \A i \in 1..Len(a) + Len(d) : e[i] = IF i <= Len(a) THEN a[i] ELSE d[i - Len(a)]
  <2>1. d \in Seq(S)
    BY <1>1
  <2> QED
    BY ONLY <2>1, a \in Seq(S), Two
<1> HIDE DEF e
<1> DEFINE f == a \o b \o c
<1>3. /\ f \in Seq(S) /\ Len(f) = Len(a) + Len(b) + Len(c)
      /\ \A i \in 1..Len(a) + Len(b) + Len(c) :
            f[i] = IF i <= Len(a) THEN a[i]
                   ELSE IF i <= Len(a) + Len(b) THEN b[i - Len(a)]
                   ELSE c[i - (Len(a) + Len(b))]
  BY Three
<1> HIDE DEF f
<1>4. Len(f) = Len(e)
  BY <1>1, <1>2, <1>3
<1>5. \A i \in 1..Len(f) : f[i] = e[i]
  <2> SUFFICES ASSUME NEW i \in 1..Len(f) PROVE f[i] = e[i]
    OBVIOUS
  <2>1. CASE i <= Len(a)
    <3>1. i \in 1..Len(a) + Len(d) /\ i \in 1..Len(a) + Len(b) + Len(c)
      BY <1>1, <1>2, <1>3, <1>4
    <3> QED
      BY <1>2, <1>3, <2>1, <3>1
  <2>2. CASE ~ (i <= Len(a)) /\ i <= Len(a) + Len(b)
    <3>1. e[i] = d[i - Len(a)] /\ i - Len(a) \in 1..Len(d) /\ i - Len(a) <= Len(b)
      BY <1>1, <1>2, <1>3, <2>2
    <3>2. d[i - Len(a)] = b[i - Len(a)]
      BY <1>1, <3>1
    <3> QED
      BY <1>3, <2>2, <3>1, <3>2
  <2>3. CASE ~ (i <= Len(a) + Len(b))
    <3>1. e[i] = d[i - Len(a)] /\ i - Len(a) \in 1..Len(d) /\ ~ (i - Len(a) <= Len(b))
      BY <1>1, <1>2, <1>3, <2>3
    <3>2. d[i - Len(a)] = c[i - Len(a) - Len(b)]
      BY <1>1, <3>1
    <3>3. i - Len(a) - Len(b) = i - (Len(a) + Len(b)) /\ ~ (i <= Len(a))
      BY <1>1, <1>3, <2>3
    <3> QED
      BY <1>3, <2>3, <3>1, <3>2, <3>3
  <2> QED
    BY <2>1, <2>2, <2>3
<1>6. f = e
  BY <1>2, <1>3, <1>4, <1>5, EqualEverywhere
<1> QED
  BY <1>6 DEF d, e, f

-----------------------------------------------------------------------------
(* The size that a level has after some changes.                           *)

\* The change of l that is the last of s, of those after the first m.
LastChange(s, m, l, i) ==
    /\ i \in m + 1 .. Len(s) /\ s[i].level = l
    /\ \A j \in i + 1 .. Len(s) : s[j].level # l

NoChange(s, m, l) == \A j \in m + 1 .. Len(s) : s[j].level # l

\* A size of x becomes z, by the changes of s after the first m.
Becomes(s, m, l, x, z) ==
    \/ \E i \in m + 1 .. Len(s) : LastChange(s, m, l, i) /\ s[i].size = z
    \/ NoChange(s, m, l) /\ x = z

\* Losing a change that another follows.
LEMMA Removed ==
    ASSUME NEW S, NEW s \in Seq(S), NEW t \in Seq(S), NEW m \in Nat, NEW l, NEW x, NEW z,
           NEW r \in m + 1 .. Len(s), Len(t) = Len(s) - 1,
           \A i \in 1..Len(s) - 1 : t[i] = IF i < r THEN s[i] ELSE s[i + 1],
           s[r].level = l => \E j \in r + 1 .. Len(s) : s[j].level = l,
           Becomes(s, m, l, x, z)
    PROVE  Becomes(t, m, l, x, z)
<1>1. Len(s) \in Nat /\ Len(t) \in Nat
  OBVIOUS
<1>2. CASE NoChange(s, m, l) /\ x = z
  BY <1>1, <1>2 DEF NoChange, Becomes
<1>3. ASSUME NEW i \in m + 1 .. Len(s), LastChange(s, m, l, i), s[i].size = z
      PROVE  Becomes(t, m, l, x, z)
  <2>1. i # r /\ i \in 1..Len(s)
    <3>1. s[i].level = l /\ \A j \in i + 1 .. Len(s) : s[j].level # l
      BY ONLY <1>3 DEF LastChange
    <3>2. i # r
      BY ONLY <3>1, s[r].level = l => \E j \in r + 1 .. Len(s) : s[j].level = l
    <3>3. i \in 1..Len(s)
      BY ONLY <1>1, m \in Nat, i \in m + 1 .. Len(s)
    <3> QED
      BY ONLY <3>2, <3>3
  <2>2. CASE i < r
    <3>1. i \in m + 1 .. Len(t) /\ t[i] = s[i]
      BY <1>1, <1>3, <2>2
    <3>2. ASSUME NEW j \in i + 1 .. Len(t) PROVE t[j].level # l
      <4>1. t[j] = IF j < r THEN s[j] ELSE s[j + 1]
        BY <1>1, <1>3, <2>1
      <4>2. j \in i + 1 .. Len(s) /\ j + 1 \in i + 1 .. Len(s)
        BY <1>1, <2>1
      <4> QED
        BY <1>3, <4>1, <4>2 DEF LastChange
    <3> QED
      BY <1>3, <3>1, <3>2 DEF Becomes, LastChange
  <2>3. CASE r < i
    <3>1. i - 1 \in m + 1 .. Len(t) /\ t[i - 1] = s[i]
      BY <1>1, <1>3, <2>3
    <3>2. ASSUME NEW j \in (i - 1) + 1 .. Len(t) PROVE t[j].level # l
      <4>1. t[j] = s[j + 1] /\ j + 1 \in i + 1 .. Len(s)
        BY <1>1, <2>1, <2>3
      <4> QED
        BY <1>3, <4>1 DEF LastChange
    <3> QED
      BY <1>3, <3>1, <3>2 DEF Becomes, LastChange
  <2> QED
    BY <1>1, <2>1, <2>2, <2>3
<1> QED
  BY <1>2, <1>3 DEF Becomes

\* A change that overtakes others, none of them of its level.
LEMMA Overtaken ==
    ASSUME NEW S, NEW s \in Seq(S), NEW t \in Seq(S), NEW m \in Nat, NEW l, NEW x, NEW z,
           NEW r \in m + 1 .. Len(s), NEW q \in m + 1 .. r, Len(t) = Len(s),
           \A i \in 1..Len(s) : t[i] = IF i < q \/ r < i THEN s[i]
                                      ELSE IF i = q THEN s[r] ELSE s[i - 1],
           s[r].level = l => \A j \in q .. r - 1 : s[j].level # l,
           Becomes(s, m, l, x, z)
    PROVE  Becomes(t, m, l, x, z)
<1>1. Len(s) \in Nat /\ Len(t) \in Nat
  OBVIOUS
<1>2. CASE NoChange(s, m, l) /\ x = z
  <2>1. ASSUME NEW j \in m + 1 .. Len(t) PROVE t[j].level # l
    <3>1. t[j] = IF j < q \/ r < j THEN s[j] ELSE IF j = q THEN s[r] ELSE s[j - 1]
      BY <1>1
    <3>2. /\ j \in m + 1 .. Len(s) /\ ~ (j < q) /\ j # q => j - 1 \in m + 1 .. Len(s)
          /\ r \in m + 1 .. Len(s)
      BY <1>1
    <3> QED
      BY <1>2, <3>1, <3>2 DEF NoChange
  <2> QED
    BY <1>2, <2>1 DEF NoChange, Becomes
<1>3. ASSUME NEW i \in m + 1 .. Len(s), LastChange(s, m, l, i), s[i].size = z
      PROVE  Becomes(t, m, l, x, z)
  <2>1. i \in 1..Len(s)
    BY <1>1, <1>3
  <2>2. CASE i < q \/ r < i
    <3>1. i \in m + 1 .. Len(t) /\ t[i] = s[i]
      BY <1>1, <1>3, <2>2
    <3>2. ASSUME NEW j \in i + 1 .. Len(t) PROVE t[j].level # l
      <4>1. t[j] = IF j < q \/ r < j THEN s[j] ELSE IF j = q THEN s[r] ELSE s[j - 1]
        BY <1>1, <1>3, <2>1
      <4>2. /\ j \in i + 1 .. Len(s) /\ ~ (j < q \/ r < j) => r \in i + 1 .. Len(s)
            /\ ~ (j < q \/ r < j) /\ j # q => j - 1 \in i + 1 .. Len(s)
        BY <1>1, <2>1, <2>2
      <4> QED
        BY <1>3, <4>1, <4>2 DEF LastChange
    <3> QED
      BY <1>3, <3>1, <3>2 DEF Becomes, LastChange
  <2>3. CASE i = r
    <3>1. q \in m + 1 .. Len(t) /\ q \in 1..Len(s) /\ ~ (q < q \/ r < q)
      BY <1>1
    <3>2. t[q] = s[i]
      BY <2>3, <3>1
    <3>3. ASSUME NEW j \in q + 1 .. Len(t) PROVE t[j].level # l
      <4>1. j \in 1..Len(s) /\ ~ (j < q) /\ j # q
        BY <1>1
      <4>2. t[j] = IF r < j THEN s[j] ELSE s[j - 1]
        BY <4>1
      <4>3. s[r].level = l /\ \A k \in r + 1 .. Len(s) : s[k].level # l
        BY <1>3, <2>3 DEF LastChange
      <4>4. (r < j => j \in r + 1 .. Len(s)) /\ (~ (r < j) => j - 1 \in q .. r - 1)
        BY <1>1, <4>1
      <4> QED
        BY <4>2, <4>3, <4>4
    <3> QED
      BY <1>3, <3>1, <3>2, <3>3 DEF Becomes, LastChange
  <2>4. CASE q <= i /\ i < r
    <3>1. s[r].level # l
      BY <1>1, <1>3, <2>4 DEF LastChange
    <3>2. /\ i + 1 \in m + 1 .. Len(t) /\ i + 1 \in 1..Len(s) /\ ~ (i + 1 < q \/ r < i + 1)
          /\ i + 1 # q /\ (i + 1) - 1 = i
      BY <1>1, <2>1, <2>4
    <3>3. t[i + 1] = s[i]
      BY <3>2
    <3>4. ASSUME NEW j \in (i + 1) + 1 .. Len(t) PROVE t[j].level # l
      <4>1. /\ j \in 1..Len(s) /\ j # q /\ ~ (j < q) /\ j \in i + 1 .. Len(s)
            /\ j - 1 \in i + 1 .. Len(s)
        BY <1>1, <2>1, <2>4
      <4>2. t[j] = IF r < j THEN s[j] ELSE s[j - 1]
        BY <4>1
      <4> QED
        BY <1>3, <4>1, <4>2 DEF LastChange
    <3>5. LastChange(t, m, l, i + 1) /\ t[i + 1].size = z
      BY <1>3, <3>2, <3>3, <3>4 DEF LastChange
    <3> QED
      BY <3>5 DEF Becomes, LastChange
  <2> QED
    BY <1>1, <2>1, <2>2, <2>3, <2>4
<1> QED
  BY <1>2, <1>3 DEF Becomes

\* A change that comes twice.
LEMMA Doubled ==
    ASSUME NEW S, NEW s \in Seq(S), NEW t \in Seq(S), NEW m \in Nat, NEW l, NEW x, NEW z,
           NEW r \in m + 1 .. Len(s), Len(t) = Len(s) + 1,
           \A i \in 1..Len(s) + 1 : t[i] = IF i <= r THEN s[i] ELSE s[i - 1],
           Becomes(s, m, l, x, z)
    PROVE  Becomes(t, m, l, x, z)
<1>1. Len(s) \in Nat /\ Len(t) \in Nat
  OBVIOUS
<1>2. CASE NoChange(s, m, l) /\ x = z
  <2>1. ASSUME NEW j \in m + 1 .. Len(t) PROVE t[j].level # l
    <3>1. t[j] = IF j <= r THEN s[j] ELSE s[j - 1]
      BY <1>1
    <3>2. (j <= r => j \in m + 1 .. Len(s)) /\ (~ (j <= r) => j - 1 \in m + 1 .. Len(s))
      BY <1>1
    <3> QED
      BY <1>2, <3>1, <3>2 DEF NoChange
  <2> QED
    BY <1>2, <2>1 DEF NoChange, Becomes
<1>3. ASSUME NEW i \in m + 1 .. Len(s), LastChange(s, m, l, i), s[i].size = z
      PROVE  Becomes(t, m, l, x, z)
  <2>1. i \in 1..Len(s)
    BY <1>1, <1>3
  <2>2. CASE i < r
    <3>1. i \in m + 1 .. Len(t) /\ t[i] = s[i]
      BY <1>1, <1>3, <2>2
    <3>2. ASSUME NEW j \in i + 1 .. Len(t) PROVE t[j].level # l
      <4>1. t[j] = IF j <= r THEN s[j] ELSE s[j - 1]
        BY <1>1, <1>3, <2>1
      <4>2. (j <= r => j \in i + 1 .. Len(s)) /\ (~ (j <= r) => j - 1 \in i + 1 .. Len(s))
        BY <1>1, <2>1, <2>2
      <4> QED
        BY <1>3, <4>1, <4>2 DEF LastChange
    <3> QED
      BY <1>3, <3>1, <3>2 DEF Becomes, LastChange
  <2>3. CASE r <= i
    <3>1. i + 1 \in m + 1 .. Len(t) /\ t[i + 1] = s[i]
      BY <1>1, <1>3, <2>3
    <3>2. ASSUME NEW j \in (i + 1) + 1 .. Len(t) PROVE t[j].level # l
      <4>1. t[j] = s[j - 1] /\ j - 1 \in i + 1 .. Len(s)
        BY <1>1, <2>1, <2>3
      <4> QED
        BY <1>3, <4>1 DEF LastChange
    <3> QED
      BY <1>3, <3>1, <3>2 DEF Becomes, LastChange
  <2> QED
    BY <1>1, <2>1, <2>2, <2>3
<1> QED
  BY <1>2, <1>3 DEF Becomes

\* Losing all that comes after the first n, with no change of l in it.
LEMMA Shortened ==
    ASSUME NEW S, NEW s \in Seq(S), NEW t \in Seq(S), NEW m \in Nat, NEW l, NEW x, NEW z,
           Len(t) <= Len(s), \A i \in 1..Len(t) : t[i] = s[i],
           \A j \in Len(t) + 1 .. Len(s) : s[j].level # l,
           Becomes(s, m, l, x, z)
    PROVE  Becomes(t, m, l, x, z)
<1>1. Len(s) \in Nat /\ Len(t) \in Nat
  OBVIOUS
<1>2. CASE NoChange(s, m, l) /\ x = z
  BY <1>1, <1>2 DEF NoChange, Becomes
<1>3. ASSUME NEW i \in m + 1 .. Len(s), LastChange(s, m, l, i), s[i].size = z
      PROVE  Becomes(t, m, l, x, z)
  <2>1. i \in 1..Len(t)
    BY <1>1, <1>3 DEF LastChange
  <2>2. LastChange(t, m, l, i) /\ t[i].size = z
    BY <1>1, <1>3, <2>1 DEF LastChange
  <2> QED
    BY <2>2 DEF Becomes, LastChange
<1> QED
  BY <1>2, <1>3 DEF Becomes

\* One more change.
LEMMA Lengthened ==
    ASSUME NEW S, NEW s \in Seq(S), NEW t \in Seq(S), NEW m \in Nat, NEW l, NEW x, NEW z,
           Len(t) = Len(s) + 1, \A i \in 1..Len(s) : t[i] = s[i], m <= Len(s)
    PROVE  /\ t[Len(t)].level = l => Becomes(t, m, l, x, t[Len(t)].size)
           /\ t[Len(t)].level # l /\ Becomes(s, m, l, x, z) => Becomes(t, m, l, x, z)
<1>1. Len(s) \in Nat /\ Len(t) \in Nat
  OBVIOUS
<1>2. ASSUME t[Len(t)].level = l PROVE Becomes(t, m, l, x, t[Len(t)].size)
  <2>1. LastChange(t, m, l, Len(t))
    BY <1>1, <1>2 DEF LastChange
  <2> QED
    BY <2>1 DEF Becomes, LastChange
<1>3. ASSUME t[Len(t)].level # l, NoChange(s, m, l), x = z PROVE Becomes(t, m, l, x, z)
  BY <1>1, <1>3 DEF NoChange, Becomes
<1>4. ASSUME t[Len(t)].level # l, NEW i \in m + 1 .. Len(s), LastChange(s, m, l, i), s[i].size = z
      PROVE  Becomes(t, m, l, x, z)
  <2>1. i \in m + 1 .. Len(t) /\ i \in 1..Len(s) /\ t[i] = s[i]
    BY <1>1, <1>4
  <2>2. ASSUME NEW j \in i + 1 .. Len(t) PROVE t[j].level # l
    <3>1. j = Len(t) \/ (j \in i + 1 .. Len(s) /\ j \in 1..Len(s))
      BY <1>1, <2>1
    <3> QED
      BY <1>4, <3>1 DEF LastChange
  <2> QED
    BY <1>4, <2>1, <2>2 DEF Becomes, LastChange
<1> QED
  BY <1>2, <1>3, <1>4 DEF Becomes

\* The first change is applied.
LEMMA Applied ==
    ASSUME NEW S, NEW s \in Seq(S), NEW m \in Nat, m < Len(s), NEW l, NEW x, NEW z,
           Becomes(s, m, l, x, z)
    PROVE  Becomes(s, m + 1, l, IF s[m + 1].level = l THEN s[m + 1].size ELSE x, z)
<1>1. Len(s) \in Nat
  OBVIOUS
<1>2. CASE NoChange(s, m, l) /\ x = z
  BY <1>1, <1>2 DEF NoChange, Becomes
<1>3. ASSUME NEW i \in m + 1 .. Len(s), LastChange(s, m, l, i), s[i].size = z
      PROVE  Becomes(s, m + 1, l, IF s[m + 1].level = l THEN s[m + 1].size ELSE x, z)
  <2>1. CASE i = m + 1
    BY <1>1, <1>3, <2>1 DEF LastChange, NoChange, Becomes
  <2>2. CASE m + 1 < i
    <3>1. LastChange(s, m + 1, l, i)
      BY <1>1, <1>3, <2>2 DEF LastChange
    <3> QED
      BY <1>3, <3>1 DEF Becomes, LastChange
  <2> QED
    BY <1>1, <2>1, <2>2
<1> QED
  BY <1>2, <1>3 DEF Becomes

-----------------------------------------------------------------------------
(* The best prices of a book. *)

LEMMA HasABound ==
    ASSUME NEW S \in SUBSET Nat, IsFiniteSet(S)
    PROVE  \E b \in Nat : \A x \in S : x <= b
<1> DEFINE B(n) == \A f \in [1..n -> Nat] : \E b \in Nat : \A i \in 1..n : f[i] <= b
           T == {n \in Nat : ~ B(n)}
<1>1. B(0)
  OBVIOUS
<1>2. ASSUME NEW n \in Nat, B(n) PROVE B(n + 1)
  <2> SUFFICES ASSUME NEW f \in [1..n + 1 -> Nat]
               PROVE  \E b \in Nat : \A i \in 1..n + 1 : f[i] <= b
    OBVIOUS
  <2>1. [i \in 1..n |-> f[i]] \in [1..n -> Nat]
    OBVIOUS
  <2>2. PICK b \in Nat : \A i \in 1..n : [k \in 1..n |-> f[k]][i] <= b
    BY <1>2, <2>1
  <2>3. \A i \in 1..n : f[i] <= b
    BY <2>2
  <2>4. f[n + 1] \in Nat /\ b + f[n + 1] \in Nat
    OBVIOUS
  <2>5. \A i \in 1..n + 1 : f[i] <= b + f[n + 1]
    <3> SUFFICES ASSUME NEW i \in 1..n + 1 PROVE f[i] <= b + f[n + 1]
      OBVIOUS
    <3>1. CASE i = n + 1
      BY <2>4, <3>1
    <3>2. CASE i \in 1..n
      BY <2>3, <2>4, <3>2
    <3> QED
      BY <3>1, <3>2
  <2> QED
    BY <2>4, <2>5
<1> HIDE DEF B
<1>3. T = {}
  <2> SUFFICES ASSUME T # {} PROVE FALSE
    OBVIOUS
  <2>1. PICK n \in T : \A y \in T : n <= y
    BY Least
  <2>2. n \in Nat /\ ~ B(n) /\ n # 0
    BY <1>1, <2>1
  <2>3. n - 1 \in Nat /\ n - 1 \notin T /\ (n - 1) + 1 = n
    BY <2>1, <2>2
  <2> QED
    BY <1>2, <2>2, <2>3
<1>4. PICK n \in Nat : ExistsBijection(1..n, S)
  BY FS_NatBijection
<1>5. PICK f \in [1..n -> S] : \A x \in S : \E i \in 1..n : f[i] = x
  BY <1>4 DEF ExistsBijection, Bijection, Surjection
<1>6. f \in [1..n -> Nat] /\ B(n)
  BY <1>3, <1>5
<1> QED
  BY <1>5, <1>6 DEF B

LEMMA Highest ==
    ASSUME NEW S \in SUBSET Nat, IsFiniteSet(S), S # {}
    PROVE  \E x \in S : \A y \in S : x >= y
<1> DEFINE U == {b \in Nat : \A x \in S : x <= b}
<1>1. U # {}
  BY HasABound
<1>2. PICK u \in Nat : /\ \A x \in S : x <= u
                     /\ \A y \in Nat : (\A x \in S : x <= y) => u <= y
  <2>1. \E u \in U : \A y \in U : u <= y
    BY <1>1, Least
  <2> QED
    BY <2>1
<1> HIDE DEF U
<1>3. ASSUME u \notin S PROVE FALSE
  <2>1. ASSUME NEW x \in S PROVE x \in Nat /\ x <= u - 1 /\ u - 1 \in Nat
    <3>1. x \in Nat /\ x <= u /\ x # u
      BY <1>2, <1>3
    <3> QED
      BY <3>1
  <2>2. u - 1 \in Nat /\ \A x \in S : x <= u - 1
    BY <2>1
  <2>3. u <= u - 1
    BY <1>2, <2>2
  <2> QED
    BY <2>3
<1> QED
  BY <1>2, <1>3

LEMMA Extremes ==
    ASSUME NEW S \in SUBSET Nat, IsFiniteSet(S), S # {}
    PROVE  Max(S) \in S /\ Min(S) \in S
<1>1. \E x \in S : \A y \in S : x <= y
  BY Least
<1>2. \E x \in S : \A y \in S : x >= y
  BY Highest
<1> QED
  BY <1>1, <1>2 DEF Max, Min

LEMMA PricesAre == Prices \subseteq Nat /\ IsFiniteSet(Prices)
BY OrderBookAssumption DEF OrderBookAssumption

\* Two levels make a book crossed.
LEMMA CrossedBy ==
    ASSUME NEW book \in Books, Crossed(book)
    PROVE  \E b, a \in Prices : b >= a /\ book[<<"bid", b>>] > 0 /\ book[<<"ask", a>>] > 0
<1> DEFINE B == PricesOf(book, "bid")
           A == PricesOf(book, "ask")
<1>1. Prices \subseteq Nat /\ IsFiniteSet(Prices)
  BY PricesAre
<1>2. /\ B = {p \in Prices : book[<<"bid", p>>] > 0} /\ A = {p \in Prices : book[<<"ask", p>>] > 0}
      /\ B # {} /\ A # {} /\ Max(B) >= Min(A)
  BY DEF Crossed, PricesOf
<1> HIDE DEF A, B
<1>3. B \in SUBSET Prices /\ A \in SUBSET Prices
  BY <1>2
<1>4. IsFiniteSet(B) /\ IsFiniteSet(A)
  BY ONLY <1>1, <1>3, FS_Subset
<1>5. Max(B) \in B /\ Min(A) \in A
  BY <1>1, <1>2, <1>3, <1>4, Extremes
<1> QED
  BY <1>2, <1>5

LEMMA NotCrossedBy ==
    ASSUME NEW book \in Books, ~ Crossed(book),
           NEW b \in Prices, NEW a \in Prices, b >= a
    PROVE  ~ (book[<<"bid", b>>] > 0 /\ book[<<"ask", a>>] > 0)
<1> SUFFICES ASSUME book[<<"bid", b>>] > 0, book[<<"ask", a>>] > 0 PROVE FALSE
  OBVIOUS
<1> DEFINE B == PricesOf(book, "bid")
           A == PricesOf(book, "ask")
<1>1. Prices \subseteq Nat /\ IsFiniteSet(Prices)
  BY PricesAre
<1>2. B \in SUBSET Prices /\ A \in SUBSET Prices /\ b \in B /\ a \in A
  BY DEF PricesOf
<1>3. ~ (Max(B) >= Min(A))
  BY <1>2 DEF Crossed
<1> HIDE DEF A, B
<1>4. IsFiniteSet(B) /\ IsFiniteSet(A) /\ B \in SUBSET Nat /\ A \in SUBSET Nat
  BY ONLY <1>1, <1>2, FS_Subset
<1>5. Max(B) >= b
  <2>1. \E x \in B : \A y \in B : x >= y
    BY <1>2, <1>4, Highest
  <2> QED
    BY <1>2, <2>1 DEF Max
<1>6. Min(A) <= a
  <2>1. \E x \in A : \A y \in A : x <= y
    BY <1>2, <1>4, Least
  <2> QED
    BY <1>2, <2>1 DEF Min
<1>7. Max(B) \in Nat /\ Min(A) \in Nat /\ b \in Nat /\ a \in Nat
  BY <1>1, <1>2, <1>4, Extremes
<1> QED
  BY <1>3, <1>5, <1>6, <1>7

-----------------------------------------------------------------------------
(* Types, and what the alpha engine has committed. *)

Msgs == Changes

Sane ==
    /\ exchange \in Books /\ mirror \in Books
    /\ ws \in {"connecting", "open", "silent", "live", "backoff", "flush", "down"}
    /\ wire \in Seq(Msgs) /\ queue \in Seq(Msgs) /\ depthLog \in Seq(Msgs)
    /\ lost \subseteq Levels /\ changes \in 0..MaxChanges /\ losses \in 0..MaxLosses
    /\ position \in 0..Len(depthLog) /\ committed \in {-1} \cup 1..position
    /\ taken \in 0..position /\ restarts \in 0..MaxRestarts
    /\ committed # -1 => position - taken <= committed

LEMMA FeedBounds ==
    MaxSize \in Nat \ {0} /\ MaxChanges \in Nat /\ MaxLosses \in Nat /\ MaxRestarts \in Nat
BY OrderBookAssumption, MarketDataAssumption, MarketFeedAssumption
DEF OrderBookAssumption, MarketDataAssumption, MarketFeedAssumption

LEMMA LevelsAreLevels ==
    ASSUME NEW s \in Seq(Msgs)
    PROVE  /\ LevelsOf(s) \subseteq Levels
           /\ \A l : l \in LevelsOf(s) <=> \E i \in 1..Len(s) : s[i].level = l
<1>1. DOMAIN s = 1..Len(s) /\ \A i \in 1..Len(s) : s[i] \in Msgs
  OBVIOUS
<1>2. ToSet(s) = {s[i] : i \in 1..Len(s)}
  BY <1>1 DEF ToSet
<1> QED
  BY <1>1, <1>2 DEF LevelsOf, Msgs, Changes

LEMMA InitSane == ASSUME Init PROVE Sane
BY FeedBounds DEF Init, MarketInit, Sane, EmptyBook, Books, NoOffset

LEMMA AppliedIsABook ==
    ASSUME NEW book \in Books, NEW c \in Msgs
    PROVE  /\ ApplyDelta(book, c) \in Books
           /\ \A l \in Levels :
                 ApplyDelta(book, c)[l] = IF l = c.level THEN c.size ELSE book[l]
BY DEF ApplyDelta, Books, Msgs, Changes

LEMMA Without ==
    ASSUME NEW S, NEW s \in Seq(S), NEW r \in 1..Len(s)
    PROVE  /\ RemoveAt(s, r) \in Seq(S) /\ Len(RemoveAt(s, r)) = Len(s) - 1
           /\ Len(s) \in Nat
           /\ \A i \in 1..Len(s) - 1 :
                 RemoveAt(s, r)[i] = IF i < r THEN s[i] ELSE s[i + 1]
<1> DEFINE a == SubSeq(s, 1, r - 1)
           b == SubSeq(s, r + 1, Len(s))
<1>1. /\ a \in Seq(S) /\ Len(a) = r - 1 /\ \A i \in 1..r - 1 : a[i] = s[i]
      /\ Len(s) \in Nat
  OBVIOUS
<1>2. /\ b \in Seq(S) /\ Len(b) = Len(s) - r
      /\ \A i \in 1..Len(s) - r : b[i] = s[i + r]
  OBVIOUS
<1> HIDE DEF a, b
<1>3. /\ a \o b \in Seq(S) /\ Len(a \o b) = Len(a) + Len(b)
      /\ \A i \in 1..Len(a) + Len(b) :
            (a \o b)[i] = IF i <= Len(a) THEN a[i] ELSE b[i - Len(a)]
  BY <1>1, <1>2, Two
<1> DEFINE t == a \o b
<1>4. \A i \in 1..Len(s) - 1 : t[i] = IF i < r THEN s[i] ELSE s[i + 1]
  <2> SUFFICES ASSUME NEW i \in 1..Len(s) - 1
               PROVE  t[i] = IF i < r THEN s[i] ELSE s[i + 1]
    OBVIOUS
  <2>1. CASE i < r
    BY <1>1, <1>2, <1>3, <2>1
  <2>2. CASE ~ (i < r)
    <3>1. t[i] = b[i - (r - 1)] /\ i - (r - 1) \in 1..Len(s) - r /\ (i - (r - 1)) + r = i + 1
      BY <1>1, <1>2, <1>3, <2>2
    <3> QED
      BY <1>2, <2>2, <3>1
  <2> QED
    BY <2>1, <2>2
<1>5. RemoveAt(s, r) = t
  BY DEF RemoveAt, a, b
<1> HIDE DEF t
<1>6. t \in Seq(S) /\ Len(t) = Len(s) - 1
  BY <1>1, <1>2, <1>3 DEF t
<1> QED
  BY <1>1, <1>4, <1>5, <1>6

LEMMA MarketSane ==
    ASSUME Sane, MarketData, UNCHANGED alphaVars PROVE Sane'
<1> USE DEF Sane, alphaVars, Lose
<1>1. MaxChanges \in Nat /\ MaxLosses \in Nat
  BY FeedBounds
<1>2. CASE Change
  <2>1. PICK c \in Msgs :
            /\ exchange' = [exchange EXCEPT ![c.level] = c.size]
            /\ wire' = Append(wire, c) \/ wire' = wire
            /\ lost' = lost \ {c.level} \/ lost' = lost \cup {c.level}
    BY <1>2 DEF Change, Msgs
  <2>2. exchange' \in Books
    <3>1. exchange \in Books /\ exchange' = ApplyDelta(exchange, c)
      BY <2>1 DEF ApplyDelta
    <3> QED
      BY ONLY <3>1, c \in Msgs, AppliedIsABook
  <2>3. wire' \in Seq(Msgs)
    <3>1. wire \in Seq(Msgs)
      OBVIOUS
    <3>2. Append(wire, c) \in Seq(Msgs)
      BY ONLY <3>1, c \in Msgs, OneMore
    <3> QED
      BY ONLY <2>1, <3>1, <3>2
  <2>4. lost' \subseteq Levels
    BY <2>1 DEF Msgs, Changes
  <2>5. /\ changes' \in 0..MaxChanges
        /\ UNCHANGED <<ws, queue, depthLog, losses>>
    BY <1>1, <1>2 DEF Change
  <2> QED
    BY <2>2, <2>3, <2>4, <2>5
<1>3. CASE Connect \/ Subscribe \/ Reconnect \/ Flushed
           \/ StartMarketData
  BY <1>3 DEF Connect, Subscribe, Reconnect, Flushed, StartMarketData
<1>4. CASE Refuse
  BY <1>1, <1>4 DEF Refuse
<1>5. CASE Disconnect \/ Stop
  <2>1. lost' = lost \cup LevelsOf(wire) /\ wire' = <<>> /\ ws' \in {"backoff", "flush"}
        /\ losses' = losses + 1 /\ losses < MaxLosses
        /\ UNCHANGED <<exchange, queue, depthLog, changes>>
    BY <1>5 DEF Disconnect, Stop
  <2> QED
    BY <1>1, <2>1, LevelsAreLevels
<1>6. CASE Receive
  BY <1>6, OneOn, OneMore DEF Receive
<1>7. CASE ReceiveFails
  <2>1. Tail(wire) \in Seq(Msgs) /\ Head(wire) \in Msgs
    BY <1>7, OneOn DEF ReceiveFails
  <2>2. lost' \subseteq Levels
    BY <1>7, <2>1 DEF ReceiveFails, Msgs, Changes
  <2> QED
    BY <1>1, <1>7, <2>1, <2>2 DEF ReceiveFails
<1>8. CASE Deliver \/ DeliverTwice
  <2>1. /\ depthLog' = Append(depthLog, Head(queue)) /\ queue' \in {queue, Tail(queue)}
        /\ queue # <<>> /\ losses' \in 0..MaxLosses
        /\ UNCHANGED <<exchange, ws, wire, lost, changes>>
    BY <1>1, <1>8 DEF Deliver, DeliverTwice
  <2>2. /\ Tail(queue) \in Seq(Msgs) /\ depthLog' \in Seq(Msgs)
        /\ Len(depthLog') = Len(depthLog) + 1
    BY <2>1, OneOn, OneMore
  <2>3. position' \in 0..Len(depthLog')
    <3>1. position \in 0..Len(depthLog) /\ position' = position /\ Len(depthLog) \in Nat
      OBVIOUS
    <3> QED
      BY ONLY <2>2, <3>1
  <2>4. queue' \in Seq(Msgs)
    BY ONLY <2>1, <2>2, queue \in Seq(Msgs)
  <2> QED
    BY <2>1, <2>2, <2>3, <2>4
<1>9. CASE DeliverLate
  <2>1. PICK i \in 2..Len(queue) :
            /\ depthLog' = Append(depthLog, queue[i]) /\ queue' = RemoveAt(queue, i)
            /\ lost' = lost \cup ({queue[i].level}
                                     \cap LevelsOf(SubSeq(queue, 1, i - 1)))
    BY <1>9 DEF DeliverLate
  <2>2. queue[i] \in Msgs /\ i \in 1..Len(queue)
    BY <2>1
  <2>3. /\ depthLog' \in Seq(Msgs) /\ Len(depthLog') = Len(depthLog) + 1
        /\ queue' \in Seq(Msgs)
    BY <2>1, <2>2, OneMore, Without
  <2>4. lost' \subseteq Levels
    BY <2>1, <2>2 DEF Msgs, Changes
  <2> QED
    BY <1>1, <1>9, <2>3, <2>4 DEF DeliverLate
<1>10. CASE DeliverFails
  <2>1. Tail(queue) \in Seq(Msgs) /\ Head(queue) \in Msgs
    BY <1>10, OneOn DEF DeliverFails
  <2>2. lost' \subseteq Levels
    BY <1>10, <2>1 DEF DeliverFails, Msgs, Changes
  <2> QED
    BY <1>1, <1>10, <2>1, <2>2 DEF DeliverFails
<1>11. CASE CrashMarketData
  <2>1. wire \o queue \in Seq(Msgs)
    OBVIOUS
  <2>2. lost' \subseteq Levels
    BY <1>11, <2>1, LevelsAreLevels DEF CrashMarketData
  <2> QED
    BY <1>1, <1>11, <2>2 DEF CrashMarketData
<1> QED
  BY <1>2, <1>3, <1>4, <1>5, <1>6, <1>7, <1>8, <1>9, <1>10, <1>11 DEF MarketData

LEMMA AlphaSane == ASSUME Sane, AlphaEngine PROVE Sane'
<1> USE DEF Sane, marketVars, NoOffset
<1>1. MaxRestarts \in Nat
  BY FeedBounds
<1>2. CASE PollDepth
  <2>1. position + 1 \in 1..Len(depthLog) /\ depthLog[position + 1] \in Msgs
    BY <1>2 DEF PollDepth
  <2>2. mirror' \in Books
    BY <1>2, <2>1, AppliedIsABook DEF PollDepth
  <2> QED
    BY <1>2, <2>1, <2>2 DEF PollDepth
<1>3. CASE Commit \/ ThreadEnds
  BY <1>3 DEF Commit, ThreadEnds
<1>4. CASE RestartAlpha
  <2>1. mirror' \in Books
    BY <1>4, FeedBounds DEF RestartAlpha, EmptyBook, Books
  <2>2. lost' \subseteq Levels
    BY <1>4 DEF RestartAlpha
  <2> QED
    BY <1>1, <1>4, <2>1, <2>2 DEF RestartAlpha, From
<1> QED
  BY <1>2, <1>3, <1>4 DEF AlphaEngine

LEMMA FeedSane == Spec => []Sane
<1>1. Init => Sane
  BY InitSane
<1>2. Sane /\ [Next]_vars => Sane'
  <2>1. CASE UNCHANGED vars
    BY <2>1 DEF vars, marketVars, alphaVars, Sane
  <2> QED
    BY <2>1, MarketSane, AlphaSane DEF Next
<1> QED
  BY <1>1, <1>2, PTL DEF Spec

(* TypeOK: the types of the feed, and what is committed was handed out.    *)
THEOREM FeedTypes == Spec => []TypeOK
<1>1. Sane /\ alive \in BOOLEAN => TypeOK
  BY DEF Sane, TypeOK, Msgs, NoOffset
<1>2. Init => alive \in BOOLEAN
  BY DEF Init
<1>3. alive \in BOOLEAN /\ [Next]_vars => (alive \in BOOLEAN)'
  BY DEF Next, AlphaEngine, PollDepth, ThreadEnds, Commit, RestartAlpha, alphaVars, vars
<1> QED
  BY <1>1, <1>2, <1>3, FeedSane, PTL DEF Spec

-----------------------------------------------------------------------------
(* The changes on their way, from the first in the log on. *)

Flow == depthLog \o queue \o wire

LEMMA FlowIs ==
    ASSUME Sane
    PROVE  /\ Flow \in Seq(Msgs) /\ Len(Flow) = Len(depthLog) + Len(queue) + Len(wire)
           /\ Len(depthLog) \in Nat /\ Len(queue) \in Nat /\ Len(wire) \in Nat
           /\ \A i \in 1..Len(depthLog) + Len(queue) + Len(wire) :
                 Flow[i] = IF i <= Len(depthLog) THEN depthLog[i]
                           ELSE IF i <= Len(depthLog) + Len(queue) THEN queue[i - Len(depthLog)]
                           ELSE wire[i - (Len(depthLog) + Len(queue))]
<1>1. wire \in Seq(Msgs) /\ queue \in Seq(Msgs) /\ depthLog \in Seq(Msgs)
  BY DEF Sane
<1>2. Len(depthLog) \in Nat /\ Len(queue) \in Nat /\ Len(wire) \in Nat
  BY <1>1
<1> QED
  BY ONLY <1>1, <1>2, Three DEF Flow

LEMMA FlowGoesOn == ASSUME Sane, Receive \/ Deliver PROVE Flow' = Flow
<1>1. wire \in Seq(Msgs) /\ queue \in Seq(Msgs) /\ depthLog \in Seq(Msgs)
  BY DEF Sane
<1>2. CASE Receive
  <2>1. /\ wire # <<>> /\ queue' = Append(queue, Head(wire)) /\ wire' = Tail(wire)
        /\ depthLog' = depthLog
    BY <1>2 DEF Receive
  <2>2. queue' \in Seq(Msgs) /\ wire' \in Seq(Msgs)
    <3>1. Head(wire) \in Msgs /\ Tail(wire) \in Seq(Msgs)
      BY ONLY <1>1, <2>1, OneOn
    <3>2. Append(queue, Head(wire)) \in Seq(Msgs)
      BY ONLY <1>1, <3>1, OneMore
    <3> QED
      BY <2>1, <3>1, <3>2
  <2>3. queue' \o wire' = queue \o wire
    BY ONLY <1>1, <2>1, Handed
  <2>4. depthLog \o queue \o wire = depthLog \o (queue \o wire)
    BY ONLY <1>1, Associative
  <2>5. ASSUME NEW q \in Seq(Msgs), NEW w \in Seq(Msgs)
        PROVE  depthLog \o q \o w = depthLog \o (q \o w)
    <3>1. depthLog \in Seq(Msgs)
      BY <1>1
    <3> QED
      BY ONLY <3>1, q \in Seq(Msgs), w \in Seq(Msgs), Associative
  <2>6. depthLog \o queue' \o wire' = depthLog \o (queue' \o wire')
    BY ONLY <2>2, <2>5
  <2> QED
    BY <2>1, <2>3, <2>4, <2>6 DEF Flow
<1>3. CASE Deliver
  <2>1. /\ queue # <<>> /\ depthLog' = Append(depthLog, Head(queue)) /\ queue' = Tail(queue)
        /\ wire' = wire
    BY <1>3 DEF Deliver
  <2>2. depthLog' \o queue' = depthLog \o queue
    BY ONLY <1>1, <2>1, Handed
  <2> QED
    BY <2>1, <2>2 DEF Flow
<1> QED
  BY <1>2, <1>3

LEMMA FlowGetsLonger ==
    ASSUME Sane, NEW c \in Msgs, wire' = Append(wire, c), UNCHANGED <<depthLog, queue>>
    PROVE  /\ Flow' \in Seq(Msgs) /\ Len(Flow') = Len(Flow) + 1 /\ Len(Flow) \in Nat
           /\ \A i \in 1..Len(Flow) : Flow'[i] = Flow[i]
           /\ Flow'[Len(Flow) + 1] = c
<1>1. wire \in Seq(Msgs) /\ queue \in Seq(Msgs) /\ depthLog \in Seq(Msgs)
  BY DEF Sane
<1> DEFINE before == depthLog \o queue
<1>2. before \in Seq(Msgs) /\ Flow = before \o wire /\ Flow' = before \o Append(wire, c)
  BY <1>1 DEF Flow
<1> HIDE DEF before
<1>3. /\ Append(wire, c) \in Seq(Msgs) /\ Len(Append(wire, c)) = Len(wire) + 1
      /\ Len(wire) \in Nat
      /\ \A i \in 1..Len(wire) + 1 : Append(wire, c)[i] = IF i <= Len(wire) THEN wire[i] ELSE c
  BY ONLY <1>1, c \in Msgs, OneMore
<1> DEFINE w == Append(wire, c)
<1> HIDE DEF w
<1>4. /\ Flow' \in Seq(Msgs) /\ Len(Flow') = Len(before) + Len(w) /\ Len(before) \in Nat
      /\ \A i \in 1..Len(before) + Len(w) :
            Flow'[i] = IF i <= Len(before) THEN before[i] ELSE w[i - Len(before)]
  <2>1. before \in Seq(Msgs) /\ w \in Seq(Msgs) /\ Flow' = before \o w
    BY <1>2, <1>3 DEF w
  <2> QED
    BY ONLY <2>1, Two
<1>5. /\ Flow \in Seq(Msgs) /\ Len(Flow) = Len(before) + Len(wire)
      /\ \A i \in 1..Len(before) + Len(wire) :
            Flow[i] = IF i <= Len(before) THEN before[i] ELSE wire[i - Len(before)]
  BY ONLY <1>1, <1>2, Two
<1>6. Len(w) = Len(wire) + 1 /\ Len(wire) \in Nat
      /\ \A i \in 1..Len(wire) + 1 : w[i] = IF i <= Len(wire) THEN wire[i] ELSE c
  BY ONLY <1>3 DEF w
<1>7. ASSUME NEW i \in 1..Len(Flow) PROVE Flow'[i] = Flow[i]
  <2>1. CASE i <= Len(before)
    BY <1>4, <1>5, <1>6, <2>1
  <2>2. CASE ~ (i <= Len(before))
    <3>1. /\ i - Len(before) \in 1..Len(wire) /\ i - Len(before) \in 1..Len(wire) + 1
          /\ i \in 1..Len(before) + Len(w) /\ i \in 1..Len(before) + Len(wire)
      BY ONLY <1>4, <1>5, <1>6, <2>2, i \in 1..Len(Flow)
    <3>2. Flow'[i] = w[i - Len(before)]
      BY ONLY <1>4, <2>2, <3>1
    <3>3. Flow[i] = wire[i - Len(before)]
      BY ONLY <1>5, <2>2, <3>1
    <3>4. w[i - Len(before)] = wire[i - Len(before)]
      BY ONLY <1>6, <3>1
    <3> QED
      BY ONLY <3>2, <3>3, <3>4
  <2> QED
    BY <2>1, <2>2
<1>8. Flow'[Len(Flow) + 1] = c
  <2>1. /\ Len(Flow) + 1 \in 1..Len(before) + Len(w) /\ ~ (Len(Flow) + 1 <= Len(before))
        /\ (Len(Flow) + 1) - Len(before) = Len(wire) + 1
    BY <1>4, <1>5, <1>6
  <2> QED
    BY <1>4, <1>6, <2>1
<1> QED
  BY <1>4, <1>5, <1>6, <1>7, <1>8

-----------------------------------------------------------------------------
(* What the copy shows, it was told; what it was told, the exchange's book *)
(* once showed all at once.                                                *)

\* The last change of l among the first k of s gives it a size.
Up(s, k, l) ==
    \E i \in 1..k : /\ s[i].level = l /\ s[i].size > 0
                   /\ \A j \in i + 1 .. k : s[j].level # l

Told == \A l \in Levels : mirror[l] > 0 => Up(depthLog, position, l)

Calm ==
    /\ ~ Crossed(exchange)
    /\ losses = 0 =>
          /\ ws \in {"connecting", "open", "live"}
          /\ ws # "live" => Len(Flow) = 0
          /\ \A l \in Levels : Up(Flow, Len(Flow), l) => exchange[l] > 0
          /\ \A k \in 0..Len(Flow), b, a \in Prices :
                b >= a => ~ (Up(Flow, k, <<"bid", b>>) /\ Up(Flow, k, <<"ask", a>>))

LEMMA UpToTheSame ==
    ASSUME NEW s, NEW t, NEW k \in Nat, \A i \in 1..k : t[i] = s[i], NEW l
    PROVE  Up(t, k, l) <=> Up(s, k, l)
<1>1. \A i \in 1..k : \A j \in i + 1 .. k : j \in 1..k
  OBVIOUS
<1> QED
  BY <1>1 DEF Up

LEMMA LogGrows ==
    ASSUME Sane, MarketData
    PROVE  \/ depthLog' = depthLog
           \/ \E c \in Msgs : depthLog' = Append(depthLog, c)
<1>1. queue \in Seq(Msgs)
  BY DEF Sane
<1>2. CASE Deliver \/ DeliverTwice
  <2>1. queue # <<>> /\ depthLog' = Append(depthLog, Head(queue))
    BY <1>2 DEF Deliver, DeliverTwice
  <2>2. Head(queue) \in Msgs
    BY <1>1, <2>1, OneOn
  <2> QED
    BY <2>1, <2>2
<1>3. CASE DeliverLate
  <2>1. PICK i \in 2..Len(queue) : depthLog' = Append(depthLog, queue[i])
    BY <1>3 DEF DeliverLate
  <2>2. queue[i] \in Msgs
    BY <1>1
  <2> QED
    BY <2>1, <2>2
<1>4. CASE ~ (Deliver \/ DeliverTwice \/ DeliverLate)
  BY <1>4 DEF MarketData, Change, Connect, Subscribe, Refuse,
       Disconnect, Reconnect, Receive, ReceiveFails, DeliverFails,
       Stop, Flushed, CrashMarketData, StartMarketData
<1> QED
  BY <1>2, <1>3, <1>4

LEMMA NextTold ==
    ASSUME Sane, Told, [Next]_vars PROVE Told'
<1> USE DEF Told
<1>1. position \in Nat /\ Len(depthLog) \in Nat /\ position <= Len(depthLog)
      /\ depthLog \in Seq(Msgs) /\ mirror \in Books /\ queue \in Seq(Msgs)
  BY DEF Sane
<1>2. CASE UNCHANGED <<mirror, position>> /\ \E c \in Msgs : depthLog' = Append(depthLog, c)
  <2>1. \A i \in 1..position : depthLog'[i] = depthLog[i]
    BY <1>1, <1>2
  <2> QED
    BY <1>1, <1>2, <2>1, UpToTheSame
<1>3. CASE UNCHANGED <<mirror, position, depthLog>>
  BY <1>3 DEF Up
<1>4. CASE PollDepth
  <2> DEFINE c == depthLog[position + 1]
  <2>1. /\ c \in Msgs /\ position' = position + 1 /\ depthLog' = depthLog
        /\ mirror' = ApplyDelta(mirror, c)
    BY <1>1, <1>4 DEF PollDepth, marketVars
  <2> SUFFICES ASSUME NEW l \in Levels, mirror'[l] > 0
               PROVE  Up(depthLog, position + 1, l)
    BY <2>1
  <2>2. mirror'[l] = IF l = c.level THEN c.size ELSE mirror[l]
    BY <1>1, <2>1, AppliedIsABook
  <2>3. CASE l = c.level
    <3>1. position + 1 \in 1..position + 1 /\ depthLog[position + 1].size > 0
          /\ \A j \in (position + 1) + 1 .. position + 1 : depthLog[j].level # l
      BY <1>1, <2>2, <2>3
    <3> QED
      BY <2>3, <3>1 DEF Up
  <2>4. CASE l # c.level
    <3>1. Up(depthLog, position, l)
      BY <2>2, <2>4
    <3>2. PICK i \in 1..position : /\ depthLog[i].level = l /\ depthLog[i].size > 0
                                  /\ \A j \in i + 1 .. position : depthLog[j].level # l
      BY <3>1 DEF Up
    <3>3. ASSUME NEW j \in i + 1 .. position + 1 PROVE depthLog[j].level # l
      <4>1. j = position + 1 \/ j \in i + 1 .. position
        BY <1>1
      <4> QED
        BY <2>4, <3>2, <4>1
    <3>4. i \in 1..position + 1
      BY <1>1
    <3> QED
      BY <3>2, <3>3, <3>4 DEF Up
  <2> QED
    BY <2>3, <2>4
<1>5. CASE RestartAlpha
  BY <1>5 DEF RestartAlpha, EmptyBook
<1>6. CASE Commit \/ ThreadEnds
  BY <1>3, <1>6 DEF Commit, ThreadEnds, marketVars
<1>7. CASE MarketData /\ UNCHANGED alphaVars
  <2>1. UNCHANGED <<mirror, position>>
    BY <1>7 DEF alphaVars
  <2> QED
    BY <1>2, <1>3, <1>7, <2>1, LogGrows
<1>8. CASE UNCHANGED vars
  BY <1>3, <1>8 DEF vars, marketVars, alphaVars
<1> QED
  BY <1>4, <1>5, <1>6, <1>7, <1>8 DEF Next, AlphaEngine

LEMMA ChangeCalm ==
    ASSUME Sane, Calm, losses = 0, Change
    PROVE  Calm'
<1> USE DEF Calm
<1>1. PICK c \in Msgs :
          /\ exchange' = [exchange EXCEPT ![c.level] = c.size] /\ ~ Crossed(exchange')
          /\ IF ws = "live" THEN wire' = Append(wire, c) ELSE wire' = wire
  BY DEF Change, Msgs
<1>2. /\ UNCHANGED <<ws, queue, depthLog, losses>> /\ exchange \in Books
      /\ c.level \in Levels
  BY DEF Change, Sane, Msgs, Changes
<1>3. /\ exchange' \in Books
      /\ \A l \in Levels : exchange'[l] = IF l = c.level THEN c.size ELSE exchange[l]
  <2>1. exchange' = ApplyDelta(exchange, c)
    BY ONLY <1>1 DEF ApplyDelta
  <2> QED
    BY ONLY <1>2, <2>1, c \in Msgs, AppliedIsABook
<1>4. Len(Flow) \in Nat
  BY FlowIs
<1>5. CASE ws # "live"
  <2>1. Flow' = Flow /\ Len(Flow) = 0
    BY <1>1, <1>2, <1>5 DEF Flow
  <2>2. \A k \in 0..0 : \A l : ~ Up(Flow, k, l)
    BY DEF Up
  <2> QED
    BY <1>1, <1>2, <1>5, <2>1, <2>2
<1>6. CASE ws = "live"
  <2> DEFINE n == Len(Flow)
  <2>1. /\ Flow' \in Seq(Msgs) /\ Len(Flow') = n + 1 /\ n \in Nat
        /\ \A i \in 1..n : Flow'[i] = Flow[i]
        /\ Flow'[n + 1] = c
    BY <1>1, <1>2, <1>6, FlowGetsLonger
  <2> HIDE DEF n
  <2>2. ASSUME NEW l \in Levels, Up(Flow', n + 1, l) PROVE exchange'[l] > 0
    <3>1. PICK i \in 1..n + 1 : /\ Flow'[i].level = l /\ Flow'[i].size > 0
                               /\ \A j \in i + 1 .. n + 1 : Flow'[j].level # l
      BY <2>2 DEF Up
    <3>2. CASE i = n + 1
      BY <1>3, <2>1, <3>1, <3>2
    <3>3. CASE i \in 1..n
      <4>1. n + 1 \in i + 1 .. n + 1 /\ \A j \in i + 1 .. n : j \in i + 1 .. n + 1 /\ j \in 1..n
        BY <2>1, <3>3
      <4>2. c.level # l
        BY <2>1, <3>1, <4>1
      <4>3. Up(Flow, n, l)
        BY <2>1, <3>1, <3>3, <4>1 DEF Up
      <4> QED
        BY <1>3, <4>2, <4>3 DEF n
    <3> QED
      BY <2>1, <3>2, <3>3
  <2>3. ASSUME NEW k \in 0..n + 1, NEW b \in Prices, NEW a \in Prices, b >= a
        PROVE  ~ (Up(Flow', k, <<"bid", b>>) /\ Up(Flow', k, <<"ask", a>>))
    <3>1. CASE k \in 0..n
      <4>1. \A i \in 1..k : Flow'[i] = Flow[i]
        BY <2>1, <3>1
      <4>2. /\ Up(Flow', k, <<"bid", b>>) <=> Up(Flow, k, <<"bid", b>>)
            /\ Up(Flow', k, <<"ask", a>>) <=> Up(Flow, k, <<"ask", a>>)
        BY <3>1, <4>1, UpToTheSame
      <4> QED
        BY <2>3, <3>1, <4>2 DEF n
    <3>2. CASE k = n + 1
      <4>1. <<"bid", b>> \in Levels /\ <<"ask", a>> \in Levels
        BY DEF Levels
      <4>2. ~ (exchange'[<<"bid", b>>] > 0 /\ exchange'[<<"ask", a>>] > 0)
        BY <1>1, <1>3, <2>3, NotCrossedBy
      <4> QED
        BY <2>2, <3>2, <4>1, <4>2
    <3> QED
      BY <2>1, <3>1, <3>2
  <2> QED
    BY <1>1, <1>2, <1>6, <2>1, <2>2, <2>3
<1> QED
  BY <1>5, <1>6

LEMMA NextCalm ==
    ASSUME Sane, Calm, [Next]_vars PROVE Calm'
<1>1. losses \in Nat
  BY DEF Sane
<1>2. ASSUME UNCHANGED <<exchange, losses>>, losses = 0 => Flow' = Flow,
             losses = 0 => /\ ws' \in {"connecting", "open", "live"}
                           /\ ws' # "live" => ws # "live"
      PROVE  Calm'
  BY <1>2 DEF Calm
<1>3. ASSUME exchange' = exchange, losses' = losses + 1 PROVE Calm'
  BY <1>1, <1>3 DEF Calm
<1>4. CASE UNCHANGED <<exchange, losses, depthLog, queue, wire, ws>>
  BY <1>2, <1>4 DEF Flow, Calm
<1>5. CASE AlphaEngine \/ UNCHANGED vars
  BY <1>4, <1>5 DEF AlphaEngine, PollDepth, ThreadEnds, Commit, RestartAlpha,
                    marketVars, vars
<1>6. CASE Change
  <2>1. CASE losses = 0
    BY <1>6, <2>1, ChangeCalm
  <2>2. CASE losses # 0
    BY <1>6, <2>2 DEF Change, Calm
  <2> QED
    BY <2>1, <2>2
<1>7. CASE Connect \/ Subscribe
  BY <1>2, <1>7 DEF Connect, Subscribe, Flow
<1>8. CASE Reconnect \/ Flushed \/ StartMarketData
  <2>1. /\ ws \in {"backoff", "flush", "down"}
        /\ UNCHANGED <<exchange, wire, queue, depthLog, losses>>
    BY <1>8 DEF Reconnect, Flushed, StartMarketData
  <2>2. losses # 0
    BY <2>1 DEF Calm
  <2> QED
    BY <1>2, <2>1, <2>2
<1>9. CASE Receive \/ Deliver
  <2>1. UNCHANGED <<exchange, losses, ws>>
    BY <1>9 DEF Receive, Deliver
  <2> QED
    BY <1>2, <1>9, <2>1, FlowGoesOn DEF Calm
<1>10. CASE \/ Refuse \/ Disconnect \/ ReceiveFails \/ DeliverLate
            \/ DeliverTwice \/ DeliverFails \/ Stop \/ CrashMarketData
  <2>1. exchange' = exchange /\ losses' = losses + 1
    BY <1>10 DEF Refuse, Disconnect, ReceiveFails, DeliverLate,
       DeliverTwice, DeliverFails, Stop, CrashMarketData, Lose
  <2> QED
    BY <1>3, <2>1
<1> QED
  BY <1>5, <1>6, <1>7, <1>8, <1>9, <1>10 DEF Next, MarketData

(* CrossedOnlyByALoss: for any prices, sizes, queue and number of restarts *)
(* of the alpha engine, its book is crossed only after a change was lost,  *)
(* sent twice or overtaken: it never mixes two books of the exchange.      *)
THEOREM FeedIsNotCrossed ==
    Spec => []CrossedOnlyByALoss
<1>1. Init => Told /\ Calm
  <2> SUFFICES ASSUME Init PROVE Told /\ Calm
    OBVIOUS
  <2>1. Told
    BY DEF Init, EmptyBook, Told
  <2>2. /\ ~ Crossed(exchange) /\ ws = "connecting"
        /\ wire = <<>> /\ queue = <<>> /\ depthLog = <<>>
    BY DEF Init, MarketInit
  <2>3. Len(Flow) = 0
    BY <2>2 DEF Flow
  <2>4. \A k \in 0..0 : \A l : ~ Up(Flow, k, l)
    BY DEF Up
  <2>5. Calm
    BY <2>2, <2>3, <2>4 DEF Calm
  <2> QED
    BY <2>1, <2>5
<1>2. Sane /\ Told /\ Calm /\ [Next]_vars => Told' /\ Calm'
  BY NextTold, NextCalm
<1>3. Sane /\ Told /\ Calm => CrossedOnlyByALoss
  <2> SUFFICES ASSUME Sane, Told, Calm, Crossed(mirror), ~ (losses > 0) PROVE FALSE
    BY DEF CrossedOnlyByALoss
  <2>1. /\ losses = 0 /\ mirror \in Books /\ position \in 0..Len(depthLog)
        /\ depthLog \in Seq(Msgs)
    BY DEF Sane
  <2>2. PICK b \in Prices, a \in Prices :
            b >= a /\ mirror[<<"bid", b>>] > 0 /\ mirror[<<"ask", a>>] > 0
    BY <2>1, CrossedBy
  <2>3. <<"bid", b>> \in Levels /\ <<"ask", a>> \in Levels
    BY DEF Levels
  <2>4. Up(depthLog, position, <<"bid", b>>) /\ Up(depthLog, position, <<"ask", a>>)
    BY <2>2, <2>3 DEF Told
  <2>5. /\ position \in Nat /\ position \in 0..Len(Flow)
        /\ \A i \in 1..position : Flow[i] = depthLog[i]
    BY <2>1, FlowIs
  <2>6. Up(Flow, position, <<"bid", b>>) /\ Up(Flow, position, <<"ask", a>>)
    BY <2>4, <2>5, UpToTheSame
  <2> QED
    BY <2>1, <2>2, <2>5, <2>6 DEF Calm
<1> QED
  BY <1>1, <1>2, <1>3, FeedSane, PTL DEF Spec

-----------------------------------------------------------------------------
(* What the copy still becomes.                                            *)

\* Unless its last change was lost, a level of the copy becomes the exchange's.
Follows ==
    \A l \in Levels \ lost : Becomes(Flow, position, l, mirror[l], exchange[l])

Start == position - taken

\* The last change of l that this life of the alpha engine has seen.
SeenLast(l, i) ==
    /\ i \in Start + 1 .. position /\ depthLog[i].level = l
    /\ \A j \in i + 1 .. position : depthLog[j].level # l

\* What this life has seen of a level, the copy shows.
Applies == \A l \in Levels : \A i : SeenLast(l, i) => mirror[l] = depthLog[i].size

LEMMA NextApplies ==
    ASSUME Sane, Applies, [Next]_vars PROVE Applies'
<1>1. /\ position \in Nat /\ taken \in Nat /\ Len(depthLog) \in Nat /\ position <= Len(depthLog)
      /\ depthLog \in Seq(Msgs) /\ mirror \in Books /\ queue \in Seq(Msgs)
      /\ taken <= position
  BY DEF Sane
<1>2. CASE /\ UNCHANGED <<mirror, position, taken>>
           /\ \A i \in 1..position : depthLog'[i] = depthLog[i]
  <2> SUFFICES ASSUME NEW l \in Levels, NEW i, SeenLast(l, i)'
               PROVE  mirror[l] = depthLog'[i].size
    BY <1>2 DEF Applies
  <2>1. i \in 1..position /\ depthLog'[i] = depthLog[i]
    BY <1>1, <1>2 DEF SeenLast, Start
  <2>2. \A j \in i + 1 .. position : j \in 1..position
    BY <1>1, <2>1
  <2>3. SeenLast(l, i)
    BY <1>2, <2>1, <2>2 DEF SeenLast, Start
  <2> QED
    BY <2>1, <2>3 DEF Applies
<1>3. CASE PollDepth
  <2> DEFINE c == depthLog[position + 1]
  <2>1. /\ c \in Msgs /\ position' = position + 1 /\ depthLog' = depthLog
        /\ mirror' = ApplyDelta(mirror, c) /\ taken' = taken + 1
    BY <1>1, <1>3 DEF PollDepth, marketVars
  <2>2. Start' = Start
    BY <1>1, <2>1 DEF Start
  <2> SUFFICES ASSUME NEW l \in Levels, NEW i, SeenLast(l, i)'
               PROVE  mirror'[l] = depthLog[i].size
    BY <2>1 DEF Applies
  <2>3. mirror'[l] = IF l = c.level THEN c.size ELSE mirror[l]
    BY <1>1, <2>1, AppliedIsABook
  <2>4. /\ i \in Start + 1 .. position + 1 /\ depthLog[i].level = l
        /\ \A j \in i + 1 .. position + 1 : depthLog[j].level # l
    BY <2>1, <2>2 DEF SeenLast
  <2>5. Start \in Nat
    BY <1>1 DEF Start
  <2>6. CASE i = position + 1
    BY <2>3, <2>4, <2>6
  <2>7. CASE i # position + 1
    <3>1. i \in Start + 1 .. position /\ position + 1 \in i + 1 .. position + 1
          /\ \A j \in i + 1 .. position : j \in i + 1 .. position + 1
      BY <1>1, <2>4, <2>5, <2>7
    <3>2. SeenLast(l, i) /\ c.level # l
      BY <2>4, <3>1 DEF SeenLast
    <3> QED
      BY <2>3, <3>2 DEF Applies
  <2> QED
    BY <2>6, <2>7
<1>4. CASE RestartAlpha
  <2>1. Start' = position' /\ position' \in Int
    <3>1. taken' = 0 /\ position' = From
      BY <1>4 DEF RestartAlpha
    <3>2. From \in Int
      BY <1>1 DEF From, Sane
    <3> QED
      BY <3>1, <3>2 DEF Start
  <2>2. \A i : i \notin Start' + 1 .. position'
    BY <2>1
  <2> QED
    BY <2>2 DEF Applies, SeenLast
<1>5. CASE Commit \/ ThreadEnds
  BY <1>2, <1>5 DEF Commit, ThreadEnds, marketVars
<1>6. CASE MarketData /\ UNCHANGED alphaVars
  <2>1. UNCHANGED <<mirror, position, taken>>
    BY <1>6 DEF alphaVars
  <2>2. \/ depthLog' = depthLog
        \/ \E c \in Msgs : depthLog' = Append(depthLog, c)
    BY <1>6, LogGrows
  <2>3. \A i \in 1..position : depthLog'[i] = depthLog[i]
    BY <1>1, <2>2
  <2> QED
    BY <1>2, <2>1, <2>3
<1>7. CASE UNCHANGED vars
  BY <1>2, <1>7 DEF vars, marketVars, alphaVars
<1> QED
  BY <1>3, <1>4, <1>5, <1>6, <1>7 DEF Next, AlphaEngine

\* What a step leaves of the changes on their way is described by its effect
\* on the sequence; position does not move.
Kept(t) ==
    \A l \in Levels \ lost' : \A x, z :
        Becomes(Flow, position, l, x, z) => Becomes(t, position, l, x, z)

LEMMA CutOff ==
    ASSUME Sane, UNCHANGED depthLog, NEW t \in Seq(Msgs), Len(t) <= Len(Flow),
           \A i \in 1..Len(t) : t[i] = Flow[i],
           \A i \in Len(t) + 1 .. Len(Flow) : Flow[i].level \in lost'
    PROVE  Kept(t)
<1> SUFFICES ASSUME NEW l \in Levels \ lost', NEW x, NEW z,
                    Becomes(Flow, position, l, x, z)
             PROVE  Becomes(t, position, l, x, z)
  BY DEF Kept
<1>1. \A i \in Len(t) + 1 .. Len(Flow) : Flow[i].level # l
  OBVIOUS
<1>2. position \in Nat /\ Flow \in Seq(Msgs)
  BY FlowIs DEF Sane
<1> QED
  BY <1>1, <1>2, Shortened

LEMMA CutKept ==
    ASSUME Sane, Disconnect \/ Stop \/ CrashMarketData PROVE Kept(Flow')
<1>1. wire \in Seq(Msgs) /\ queue \in Seq(Msgs) /\ depthLog \in Seq(Msgs)
  BY DEF Sane
<1>2. /\ Flow \in Seq(Msgs) /\ Len(Flow) = Len(depthLog) + Len(queue) + Len(wire)
      /\ Len(depthLog) \in Nat /\ Len(queue) \in Nat /\ Len(wire) \in Nat
      /\ \A i \in 1..Len(depthLog) + Len(queue) + Len(wire) :
            Flow[i] = IF i <= Len(depthLog) THEN depthLog[i]
                      ELSE IF i <= Len(depthLog) + Len(queue) THEN queue[i - Len(depthLog)]
                      ELSE wire[i - (Len(depthLog) + Len(queue))]
  BY FlowIs
<1>3. CASE Disconnect \/ Stop
  <2>1. /\ wire' = <<>> /\ UNCHANGED <<queue, depthLog>>
        /\ lost' = lost \cup LevelsOf(wire)
    BY <1>3 DEF Disconnect, Stop
  <2> DEFINE t == depthLog \o queue
  <2>2. /\ t \in Seq(Msgs) /\ Len(t) = Len(depthLog) + Len(queue)
        /\ \A i \in 1..Len(depthLog) + Len(queue) :
              t[i] = IF i <= Len(depthLog) THEN depthLog[i] ELSE queue[i - Len(depthLog)]
    BY ONLY <1>1, Two
  <2>3. Flow' = t
    <3> HIDE DEF t
    <3>1. t \o <<>> = t
      BY ONLY <2>2
    <3>2. Flow' = t \o <<>>
      BY <2>1, Zenon DEF Flow, t
    <3> QED
      BY ONLY <3>1, <3>2
  <2> HIDE DEF t
  <2>4. \A i \in 1..Len(t) : t[i] = Flow[i]
    <3> DEFINE d == Len(depthLog)
               q == Len(queue)
    <3>1. d \in Nat /\ q \in Nat /\ Len(wire) \in Nat /\ Len(t) = d + q
      BY <1>2, <2>2
    <3> SUFFICES ASSUME NEW i \in 1..Len(t) PROVE t[i] = Flow[i]
      OBVIOUS
    <3>2. t[i] = IF i <= d THEN depthLog[i] ELSE queue[i - d]
      BY <2>2, <3>1
    <3>3. /\ i \in 1 .. d + q + Len(wire) /\ i <= d + q
      BY ONLY <3>1, i \in 1..Len(t)
    <3>4. Flow[i] = IF i <= d THEN depthLog[i]
                    ELSE IF i <= d + q THEN queue[i - d] ELSE wire[i - (d + q)]
      BY <1>2, <3>3
    <3> QED
      BY ONLY <3>2, <3>3, <3>4
  <2>5. \A i \in Len(t) + 1 .. Len(Flow) : Flow[i].level \in lost'
    <3> SUFFICES ASSUME NEW i \in Len(t) + 1 .. Len(Flow) PROVE Flow[i].level \in lost'
      OBVIOUS
    <3>1. i - Len(t) \in 1..Len(wire) /\ Flow[i] = wire[i - Len(t)]
      BY <1>2, <2>2
    <3>2. wire[i - Len(t)].level \in LevelsOf(wire)
      BY <1>1, <3>1, LevelsAreLevels
    <3> QED
      BY <2>1, <3>1, <3>2
  <2>6. Len(t) <= Len(Flow)
    BY <1>2, <2>2
  <2>7. Kept(t)
    BY <2>1, <2>2, <2>4, <2>5, <2>6, CutOff
  <2> QED
    BY <2>3, <2>7
<1>4. CASE CrashMarketData
  <2>1. /\ wire' = <<>> /\ queue' = <<>> /\ depthLog' = depthLog
        /\ lost' = lost \cup LevelsOf(wire \o queue)
    BY <1>4 DEF CrashMarketData
  <2>2. Flow' = depthLog
    BY <1>1, <2>1 DEF Flow
  <2>3. \A i \in 1..Len(depthLog) : depthLog[i] = Flow[i]
    BY <1>2
  <2>4. \A i \in Len(depthLog) + 1 .. Len(Flow) : Flow[i].level \in lost'
    <3> DEFINE u == wire \o queue
    <3>1. /\ u \in Seq(Msgs) /\ Len(u) = Len(wire) + Len(queue)
          /\ \A i \in 1..Len(wire) + Len(queue) :
                u[i] = IF i <= Len(wire) THEN wire[i] ELSE queue[i - Len(wire)]
      BY ONLY <1>1, Two
    <3>2. \A i \in 1..Len(u) : u[i].level \in lost'
      <4>1. \A i \in 1..Len(u) : u[i].level \in LevelsOf(u)
        BY <3>1, LevelsAreLevels
      <4> QED
        BY <2>1, <4>1
    <3> HIDE DEF u
    <3> SUFFICES ASSUME NEW i \in Len(depthLog) + 1 .. Len(Flow) PROVE Flow[i].level \in lost'
      OBVIOUS
    <3>3. CASE i <= Len(depthLog) + Len(queue)
      <4> DEFINE j == i - Len(depthLog)
      <4>1. j \in 1..Len(queue) /\ Flow[i] = queue[j]
        BY <1>2, <3>3
      <4> HIDE DEF j
      <4>2. Len(wire) + j \in 1..Len(u) /\ u[Len(wire) + j] = queue[j]
        BY <1>2, <3>1, <4>1
      <4> QED
        BY <3>2, <4>1, <4>2
    <3>4. CASE ~ (i <= Len(depthLog) + Len(queue))
      <4> DEFINE j == i - (Len(depthLog) + Len(queue))
      <4>1. j \in 1..Len(wire) /\ Flow[i] = wire[j]
        BY <1>2, <3>4
      <4> HIDE DEF j
      <4>2. j \in 1..Len(u) /\ u[j] = wire[j]
        BY <1>2, <3>1, <4>1
      <4> QED
        BY <3>2, <4>1, <4>2
    <3> QED
      BY <3>3, <3>4
  <2> QED
    BY <1>1, <1>2, <2>1, <2>2, <2>3, <2>4, CutOff
<1> QED
  BY <1>3, <1>4

\* A change that is dropped is the last of its level only if that is noted.
LEMMA DropKept ==
    ASSUME Sane, NEW a \in Seq(Msgs), NEW b \in Seq(Msgs), b # <<>>, Flow = a \o b,
           Len(depthLog) <= Len(a),
           lost' = lost \cup ({Head(b).level} \ LevelsOf(Tail(b)))
    PROVE  Kept(a \o Tail(b))
<1> DEFINE w == Tail(b)
           t == a \o w
           r == Len(a) + 1
<1>1. /\ w \in Seq(Msgs) /\ Len(w) = Len(b) - 1 /\ Head(b) = b[1] /\ Len(b) \in Nat \ {0}
      /\ \A i \in 1..Len(b) - 1 : w[i] = b[i + 1]
  BY OneOn
<1>2. \A l : l \in LevelsOf(w) => \E i \in 1..Len(w) : w[i].level = l
  BY <1>1, LevelsAreLevels
<1>3. lost' = lost \cup ({b[1].level} \ LevelsOf(w))
  BY <1>1
<1> HIDE DEF w
<1>4. /\ t \in Seq(Msgs) /\ Len(t) = Len(a) + Len(w) /\ Len(a) \in Nat
      /\ \A i \in 1..Len(a) + Len(w) : t[i] = IF i <= Len(a) THEN a[i] ELSE w[i - Len(a)]
  BY ONLY <1>1, a \in Seq(Msgs), Two
<1>5. /\ Flow \in Seq(Msgs) /\ Len(Flow) = Len(a) + Len(b)
      /\ \A i \in 1..Len(a) + Len(b) : Flow[i] = IF i <= Len(a) THEN a[i] ELSE b[i - Len(a)]
  BY ONLY a \in Seq(Msgs), b \in Seq(Msgs), Flow = a \o b, Two
<1>6. position \in Nat /\ Len(depthLog) \in Nat /\ position <= Len(depthLog)
  BY DEF Sane
<1>7. r \in position + 1 .. Len(Flow) /\ Len(t) = Len(Flow) - 1 /\ Flow[r] = b[1]
  BY <1>1, <1>4, <1>5, <1>6
<1> HIDE DEF t
<1>8. ASSUME NEW i \in 1..Len(Flow) - 1
      PROVE  t[i] = IF i < r THEN Flow[i] ELSE Flow[i + 1]
  <2>1. CASE i <= Len(a)
    BY <1>1, <1>4, <1>5, <2>1
  <2>2. CASE ~ (i <= Len(a))
    <3> DEFINE j == i - Len(a)
    <3>1. j \in 1..Len(b) - 1 /\ (i + 1) - Len(a) = j + 1 /\ i + 1 \in 1..Len(a) + Len(b)
          /\ ~ (i + 1 <= Len(a)) /\ i \in 1..Len(a) + Len(w) /\ ~ (i < r)
      BY <1>1, <1>4, <1>5, <2>2
    <3>2. t[i] = w[j]
      BY <1>4, <2>2, <3>1
    <3>3. Flow[i + 1] = b[j + 1]
      BY <1>5, <3>1
    <3> HIDE DEF j
    <3> QED
      BY <1>1, <3>1, <3>2, <3>3
  <2> QED
    BY <2>1, <2>2
<1>9. ASSUME NEW l \in Levels \ lost', Flow[r].level = l
      PROVE  \E j \in r + 1 .. Len(Flow) : Flow[j].level = l
  <2>1. PICK i \in 1..Len(w) : w[i].level = l
    BY <1>2, <1>3, <1>7, <1>9
  <2>2. (r + i) - Len(a) = i + 1 /\ r + i \in r + 1 .. Len(Flow) /\ ~ (r + i <= Len(a))
        /\ r + i \in 1..Len(a) + Len(b) /\ i \in 1..Len(b) - 1
    BY <1>1, <1>4, <1>5
  <2>3. Flow[r + i] = b[i + 1] /\ w[i] = b[i + 1]
    BY <1>1, <1>5, <2>2
  <2> QED
    BY <2>1, <2>2, <2>3
<1> HIDE DEF r
<1>10. ASSUME NEW l \in Levels \ lost', NEW x, NEW z, Becomes(Flow, position, l, x, z)
       PROVE  Becomes(t, position, l, x, z)
  BY ONLY <1>4, <1>5, <1>6, <1>7, <1>8, <1>9, <1>10, Removed
<1> QED
  BY <1>10 DEF Kept, t, w

\* The changes that are not in the log yet.
Rest == queue \o wire

LEMMA RestIs ==
    ASSUME Sane
    PROVE  /\ Rest \in Seq(Msgs) /\ Flow = depthLog \o Rest
           /\ wire \in Seq(Msgs) /\ queue \in Seq(Msgs) /\ depthLog \in Seq(Msgs)
           /\ Len(Rest) = Len(queue) + Len(wire) /\ Len(queue) \in Nat /\ Len(wire) \in Nat
           /\ \A i \in 1..Len(queue) + Len(wire) :
                 Rest[i] = IF i <= Len(queue) THEN queue[i] ELSE wire[i - Len(queue)]
<1>1. wire \in Seq(Msgs) /\ queue \in Seq(Msgs) /\ depthLog \in Seq(Msgs)
  BY DEF Sane
<1>2. Flow = depthLog \o Rest
  BY ONLY <1>1, Associative DEF Flow, Rest
<1> QED
  BY ONLY <1>1, <1>2, Two DEF Rest

LEMMA TailOfRest ==
    ASSUME NEW a \in Seq(Msgs), NEW b \in Seq(Msgs), a # <<>>
    PROVE  /\ Tail(a \o b) = Tail(a) \o b /\ Head(a \o b) = Head(a) /\ a \o b # <<>>
<1> DEFINE c == a \o b
           u == Tail(a)
           v == u \o b
<1>1. /\ u \in Seq(Msgs) /\ Len(u) = Len(a) - 1 /\ Len(a) \in Nat \ {0} /\ Head(a) = a[1]
      /\ \A i \in 1..Len(a) - 1 : u[i] = a[i + 1]
  BY OneOn
<1> HIDE DEF u
<1>2. /\ c \in Seq(Msgs) /\ Len(c) = Len(a) + Len(b) /\ Len(b) \in Nat
      /\ \A i \in 1..Len(a) + Len(b) : c[i] = IF i <= Len(a) THEN a[i] ELSE b[i - Len(a)]
  BY Two
<1>3. /\ v \in Seq(Msgs) /\ Len(v) = Len(u) + Len(b)
      /\ \A i \in 1..Len(u) + Len(b) : v[i] = IF i <= Len(u) THEN u[i] ELSE b[i - Len(u)]
  BY ONLY <1>1, b \in Seq(Msgs), Two
<1> HIDE DEF c, v
<1>4. c # <<>> /\ Head(c) = a[1] /\ Tail(c) \in Seq(Msgs) /\ Len(Tail(c)) = Len(c) - 1
      /\ \A i \in 1..Len(c) - 1 : Tail(c)[i] = c[i + 1]
  <2>1. c # <<>> /\ c[1] = a[1]
    BY <1>1, <1>2
  <2> QED
    BY <1>2, <2>1, OneOn
<1>5. ASSUME NEW i \in 1..Len(c) - 1 PROVE Tail(c)[i] = v[i]
  <2>1. CASE i <= Len(u)
    BY <1>1, <1>2, <1>3, <1>4, <2>1
  <2>2. CASE ~ (i <= Len(u))
    <3>1. i + 1 \in 1..Len(a) + Len(b) /\ ~ (i + 1 <= Len(a)) /\ i \in 1..Len(u) + Len(b)
          /\ (i + 1) - Len(a) = i - Len(u)
      BY <1>1, <1>2, <1>3, <2>2
    <3> QED
      BY <1>2, <1>3, <1>4, <2>2, <3>1
  <2> QED
    BY <2>1, <2>2
<1>6. Len(Tail(c)) = Len(v) /\ Len(Tail(c)) = Len(c) - 1
  BY <1>1, <1>2, <1>3, <1>4
<1>7. Tail(c) = v
  BY ONLY <1>3, <1>4, <1>5, <1>6, EqualEverywhere
<1> QED
  BY <1>1, <1>4, <1>7 DEF c, u, v

LEMMA ReceiveFailsKept == ASSUME Sane, ReceiveFails PROVE Kept(Flow')
<1> DEFINE a == depthLog \o queue
<1>1. a \in Seq(Msgs) /\ Len(depthLog) <= Len(a) /\ Flow = a \o wire /\ wire \in Seq(Msgs)
  BY Two DEF Sane, Flow
<1>2. /\ wire # <<>> /\ Flow' = a \o Tail(wire)
      /\ lost' = lost \cup ({Head(wire).level} \ LevelsOf(Tail(wire)))
  BY DEF ReceiveFails, Flow
<1> HIDE DEF a
<1> QED
  BY <1>1, <1>2, DropKept

LEMMA DeliverFailsKept == ASSUME Sane, DeliverFails PROVE Kept(Flow')
<1>1. /\ queue # <<>> /\ queue' = Tail(queue) /\ UNCHANGED <<depthLog, wire>>
      /\ lost' = lost \cup ({Head(queue).level} \ LevelsOf(Tail(queue) \o wire))
  BY DEF DeliverFails
<1>2. Tail(Rest) = Tail(queue) \o wire /\ Head(Rest) = Head(queue) /\ Rest # <<>>
  BY <1>1, RestIs, TailOfRest DEF Rest
<1>3. Flow' = depthLog \o Tail(Rest)
  <2>1. /\ Tail(queue) \in Seq(Msgs) /\ wire \in Seq(Msgs) /\ depthLog \in Seq(Msgs)
    BY <1>1, RestIs
  <2>2. Flow' = depthLog \o Tail(queue) \o wire
    BY <1>1 DEF Flow
  <2>3. depthLog \o Tail(queue) \o wire = depthLog \o (Tail(queue) \o wire)
    BY ONLY <2>1, Associative
  <2> QED
    BY <1>2, <2>2, <2>3
<1>4. lost' = lost \cup ({Head(Rest).level} \ LevelsOf(Tail(Rest)))
  BY <1>1, <1>2
<1>5. /\ Rest \in Seq(Msgs) /\ Flow = depthLog \o Rest /\ depthLog \in Seq(Msgs)
      /\ Rest # <<>> /\ Len(depthLog) <= Len(depthLog)
  BY <1>2, RestIs
<1>6. Kept(depthLog \o Tail(Rest))
  BY ONLY Sane, <1>4, <1>5, DropKept
<1> QED
  BY <1>3, <1>6

\* A change that goes to the log from further back, or stays as well.
LEMMA DeliverTwiceKept == ASSUME Sane, DeliverTwice PROVE Kept(Flow')
<1>1. /\ queue # <<>> /\ depthLog' = Append(depthLog, Head(queue))
      /\ UNCHANGED <<queue, wire, lost>>
  BY DEF DeliverTwice
<1>2. Head(Rest) = Head(queue) /\ Rest # <<>> /\ Rest \in Seq(Msgs) /\ Rest' = Rest
      /\ depthLog \in Seq(Msgs) /\ Flow = depthLog \o Rest /\ queue \in Seq(Msgs)
      /\ wire \in Seq(Msgs)
  BY <1>1, RestIs, TailOfRest DEF Rest
<1> DEFINE d == Append(depthLog, Head(queue))
           n == Len(depthLog)
           t == d \o Rest
           r == n + 1
<1>3. /\ d \in Seq(Msgs) /\ Len(d) = n + 1 /\ n \in Nat
      /\ \A i \in 1..n + 1 : d[i] = IF i <= n THEN depthLog[i] ELSE Rest[1]
      /\ Len(Rest) \in Nat \ {0}
  BY ONLY <1>1, <1>2, OneOn, OneMore
<1>4. Flow' = t
  <2>1. Flow' = d \o queue \o wire
    BY <1>1 DEF Flow
  <2>2. d \in Seq(Msgs) /\ queue \in Seq(Msgs) /\ wire \in Seq(Msgs)
    BY <1>2, <1>3
  <2> HIDE DEF d
  <2>3. d \o queue \o wire = d \o (queue \o wire)
    BY ONLY <2>2, Associative
  <2> QED
    BY <2>1, <2>3 DEF Rest
<1> HIDE DEF d
<1>5. /\ t \in Seq(Msgs) /\ Len(t) = Len(d) + Len(Rest)
      /\ \A i \in 1..Len(d) + Len(Rest) : t[i] = IF i <= Len(d) THEN d[i] ELSE Rest[i - Len(d)]
  BY ONLY <1>2, <1>3, Two
<1> HIDE DEF n
<1>6. /\ Flow \in Seq(Msgs) /\ Len(Flow) = n + Len(Rest)
      /\ \A i \in 1..n + Len(Rest) : Flow[i] = IF i <= n THEN depthLog[i] ELSE Rest[i - n]
  BY ONLY <1>2, Two DEF n
<1>7. position \in Nat /\ position <= n
  BY DEF Sane, n
<1>8. r \in position + 1 .. Len(Flow) /\ Len(t) = Len(Flow) + 1
  BY <1>3, <1>5, <1>6, <1>7
<1> HIDE DEF t
<1>9. ASSUME NEW i \in 1..Len(Flow) + 1
      PROVE  t[i] = IF i <= r THEN Flow[i] ELSE Flow[i - 1]
  <2>1. CASE i <= n
    <3>1. /\ i \in 1..Len(d) + Len(Rest) /\ i <= Len(d) /\ i \in 1..n + 1
          /\ i \in 1..n + Len(Rest) /\ i <= r
      BY <1>3, <1>5, <1>6, <2>1
    <3>2. t[i] = depthLog[i] /\ Flow[i] = depthLog[i]
      BY <1>3, <1>5, <1>6, <2>1, <3>1
    <3> QED
      BY <3>1, <3>2
  <2>2. CASE i = n + 1
    <3>1. /\ i \in 1..Len(d) + Len(Rest) /\ i <= Len(d) /\ i \in 1..n + 1 /\ ~ (i <= n)
          /\ i \in 1..n + Len(Rest) /\ i <= r /\ i - n = 1
      BY <1>3, <1>5, <1>6, <2>2
    <3>2. t[i] = Rest[1] /\ Flow[i] = Rest[1]
      BY <1>3, <1>5, <1>6, <3>1
    <3> QED
      BY <3>1, <3>2
  <2>3. CASE n + 1 < i
    <3>1. i \in 1..Len(d) + Len(Rest) /\ ~ (i <= Len(d)) /\ i - 1 \in 1..n + Len(Rest)
          /\ ~ (i - 1 <= n) /\ (i - 1) - n = i - Len(d) /\ ~ (i <= r)
      BY <1>3, <1>5, <1>6, <2>3
    <3> QED
      BY <1>5, <1>6, <3>1
  <2> QED
    BY <1>3, <1>6, <2>1, <2>2, <2>3
<1> HIDE DEF r
<1>10. ASSUME NEW l \in Levels \ lost', NEW x, NEW z, Becomes(Flow, position, l, x, z)
       PROVE  Becomes(t, position, l, x, z)
  BY ONLY <1>5, <1>6, <1>7, <1>8, <1>9, <1>10, Doubled
<1> QED
  BY <1>4, <1>10 DEF Kept

LEMMA DeliverLateKept == ASSUME Sane, DeliverLate PROVE Kept(Flow')
<1>1. PICK k \in 2..Len(queue) :
          /\ depthLog' = Append(depthLog, queue[k]) /\ queue' = RemoveAt(queue, k)
          /\ lost' = lost \cup ({queue[k].level} \cap LevelsOf(SubSeq(queue, 1, k - 1)))
          /\ wire' = wire
  BY DEF DeliverLate
<1>2. wire \in Seq(Msgs) /\ queue \in Seq(Msgs) /\ depthLog \in Seq(Msgs)
      /\ k \in 1..Len(queue) /\ queue[k] \in Msgs
  BY RestIs
<1> DEFINE d == Append(depthLog, queue[k])
           p == RemoveAt(queue, k)
           n == Len(depthLog)
           t == d \o p \o wire
           r == n + k
           q == n + 1
<1>3. /\ d \in Seq(Msgs) /\ Len(d) = n + 1 /\ n \in Nat
      /\ \A i \in 1..n + 1 : d[i] = IF i <= n THEN depthLog[i] ELSE queue[k]
  BY ONLY <1>2, OneMore
<1>4. /\ p \in Seq(Msgs) /\ Len(p) = Len(queue) - 1 /\ Len(queue) \in Nat
      /\ \A i \in 1..Len(queue) - 1 : p[i] = IF i < k THEN queue[i] ELSE queue[i + 1]
  BY ONLY <1>2, Without
<1>5. Flow' = t
  BY <1>1 DEF Flow
<1> HIDE DEF d, p
<1>6. /\ t \in Seq(Msgs) /\ Len(t) = Len(d) + Len(p) + Len(wire) /\ Len(wire) \in Nat
      /\ \A i \in 1..Len(d) + Len(p) + Len(wire) :
            t[i] = IF i <= Len(d) THEN d[i]
                   ELSE IF i <= Len(d) + Len(p) THEN p[i - Len(d)]
                   ELSE wire[i - (Len(d) + Len(p))]
  <2>1. Len(wire) \in Nat /\ d \in Seq(Msgs) /\ p \in Seq(Msgs) /\ wire \in Seq(Msgs)
    BY <1>2, <1>3, <1>4
  <2> QED
    BY ONLY <2>1, Three
<1>7. /\ Flow \in Seq(Msgs) /\ Len(Flow) = n + Len(queue) + Len(wire)
      /\ \A i \in 1..n + Len(queue) + Len(wire) :
            Flow[i] = IF i <= n THEN depthLog[i]
                      ELSE IF i <= n + Len(queue) THEN queue[i - n]
                      ELSE wire[i - (n + Len(queue))]
  BY FlowIs
<1>8. position \in Nat /\ position <= n
  BY DEF Sane
<1> HIDE DEF t, n
<1>9. /\ r \in position + 1 .. Len(Flow) /\ q \in position + 1 .. r /\ Len(t) = Len(Flow)
      /\ Flow[r] = queue[k]
  <2>1. /\ k \in Nat /\ 2 <= k /\ k <= Len(queue) /\ n \in Nat /\ Len(queue) \in Nat
        /\ Len(wire) \in Nat
    BY <1>3, <1>4, <1>6
  <2>2. r \in 1..n + Len(queue) + Len(wire) /\ ~ (r <= n) /\ r <= n + Len(queue) /\ r - n = k
    BY ONLY <2>1
  <2>3. Flow[r] = queue[k]
    BY <1>7, <2>2
  <2>4. Len(t) = Len(Flow)
    BY <1>3, <1>4, <1>6, <1>7, <2>1
  <2>5. r \in position + 1 .. Len(Flow) /\ q \in position + 1 .. r
    BY <1>7, <1>8, <2>1
  <2> QED
    BY <2>3, <2>4, <2>5
<1>10. ASSUME NEW i \in 1..Len(Flow)
       PROVE  t[i] = IF i < q \/ r < i THEN Flow[i] ELSE IF i = q THEN Flow[r] ELSE Flow[i - 1]
  <2>1. CASE i <= n
    <3>1. /\ i <= Len(d) /\ i \in 1..Len(d) + Len(p) + Len(wire) /\ i < q
          /\ i \in 1..n + Len(queue) + Len(wire) /\ i \in 1..n + 1
      <4>1. n \in Nat /\ Len(d) = n + 1
        BY <1>3
      <4>2. Len(queue) \in Nat /\ Len(queue) >= 1 /\ Len(p) = Len(queue) - 1
        BY <1>2, <1>4
      <4>3. Len(wire) \in Nat /\ i \in Nat /\ 1 <= i
        BY <1>6, <1>7
      <4> QED
        BY ONLY <2>1, <4>1, <4>2, <4>3
    <3>2. t[i] = depthLog[i]
      BY <1>3, <1>6, <2>1, <3>1
    <3>3. Flow[i] = depthLog[i]
      BY <1>7, <2>1, <3>1
    <3> QED
      BY <3>1, <3>2, <3>3
  <2>2. CASE i = n + 1
    <3>1. /\ i <= Len(d) /\ i \in 1..Len(d) + Len(p) + Len(wire) /\ i = q
          /\ ~ (i <= n) /\ i \in 1..n + 1 /\ ~ (i < q \/ r < i)
      BY <1>2, <1>3, <1>4, <1>6, <2>2
    <3>2. t[i] = queue[k]
      BY <1>3, <1>6, <3>1
    <3> QED
      BY <1>9, <3>1, <3>2
  <2>3. CASE n + 1 < i /\ i <= n + k
    <3> DEFINE j == i - (n + 1)
    <3>1. j \in 1..Len(queue) - 1 /\ j < k /\ i - Len(d) = j /\ ~ (i <= Len(d))
          /\ i <= Len(d) + Len(p) /\ i \in 1..Len(d) + Len(p) + Len(wire)
      BY <1>2, <1>3, <1>4, <1>6, <1>7, <2>3
    <3>2. t[i] = queue[j]
      BY <1>4, <1>6, <3>1
    <3>3. /\ i - 1 \in 1..n + Len(queue) + Len(wire) /\ ~ (i - 1 <= n) /\ i - 1 <= n + Len(queue)
          /\ (i - 1) - n = j /\ ~ (i < q \/ r < i) /\ i # q
      BY <1>2, <1>3, <1>4, <1>7, <2>3
    <3>4. Flow[i - 1] = queue[j]
      BY <1>7, <3>3
    <3> QED
      BY <3>2, <3>3, <3>4
  <2>4. CASE n + k < i /\ i <= n + Len(queue)
    <3> DEFINE j == i - (n + 1)
    <3>1. j \in 1..Len(queue) - 1 /\ ~ (j < k) /\ i - Len(d) = j /\ ~ (i <= Len(d))
          /\ i <= Len(d) + Len(p) /\ i \in 1..Len(d) + Len(p) + Len(wire) /\ j + 1 = i - n
      BY <1>2, <1>3, <1>4, <1>6, <1>7, <2>4
    <3>2. t[i] = queue[j + 1]
      BY <1>4, <1>6, <3>1
    <3>3. i \in 1..n + Len(queue) + Len(wire) /\ ~ (i <= n) /\ r < i
      BY <1>2, <1>3, <1>4, <1>7, <2>4
    <3>4. Flow[i] = queue[i - n]
      BY <1>7, <2>4, <3>3
    <3> QED
      BY <3>1, <3>2, <3>3, <3>4
  <2>5. CASE n + Len(queue) < i
    <3>1. /\ ~ (i <= Len(d)) /\ ~ (i <= Len(d) + Len(p)) /\ Len(d) + Len(p) = n + Len(queue)
          /\ i \in 1..Len(d) + Len(p) + Len(wire)
      BY <1>2, <1>3, <1>4, <1>6, <1>7, <2>5
    <3>2. t[i] = wire[i - (n + Len(queue))]
      BY <1>6, <3>1
    <3>3. i \in 1..n + Len(queue) + Len(wire) /\ ~ (i <= n) /\ ~ (i <= n + Len(queue)) /\ r < i
      BY <1>2, <1>3, <1>4, <1>7, <2>5
    <3>4. Flow[i] = wire[i - (n + Len(queue))]
      BY <1>7, <3>3
    <3> QED
      BY <3>2, <3>3, <3>4
  <2> QED
    BY <1>2, <1>3, <1>4, <1>7, <2>1, <2>2, <2>3, <2>4, <2>5
<1>11. ASSUME NEW l \in Levels \ lost', Flow[r].level = l, NEW j \in q .. r - 1
       PROVE  Flow[j].level # l
  <2> DEFINE u == SubSeq(queue, 1, k - 1)
  <2>1. u \in Seq(Msgs) /\ Len(u) = k - 1 /\ \A i \in 1..k - 1 : u[i] = queue[i]
    BY <1>2, <1>4
  <2>2. \A i \in 1..Len(u) : u[i].level \in LevelsOf(u)
    BY <2>1, LevelsAreLevels
  <2>3. queue[k].level \notin LevelsOf(u)
    BY <1>1, <1>9, <1>11
  <2> HIDE DEF u
  <2>4. \A i \in 1..k - 1 : queue[i].level # l
    BY <1>9, <1>11, <2>1, <2>2, <2>3
  <2>5. /\ j - n \in 1..k - 1 /\ j \in 1..n + Len(queue) + Len(wire) /\ ~ (j <= n)
        /\ j <= n + Len(queue)
    BY <1>2, <1>3, <1>4, <1>6
  <2>6. Flow[j] = queue[j - n]
    BY <1>7, <2>5
  <2> QED
    BY <2>4, <2>5, <2>6
<1> HIDE DEF r, q
<1>12. ASSUME NEW l \in Levels \ lost', NEW x, NEW z, Becomes(Flow, position, l, x, z)
       PROVE  Becomes(t, position, l, x, z)
  BY ONLY <1>6, <1>7, <1>8, <1>9, <1>10, <1>11, <1>12, Overtaken
<1> QED
  BY <1>5, <1>12 DEF Kept

\* What a restart finds on its way is among the changes of Flow.
LEMMA ArrivingIsInFlow ==
    ASSUME Sane, NEW from \in 0..Len(depthLog), NEW l \in Arriving(from)
    PROVE  \E i \in from + 1 .. Len(Flow) : Flow[i].level = l
<1> DEFINE d == SubSeq(depthLog, from + 1, Len(depthLog))
           n == Len(depthLog)
           u == d \o queue \o wire
<1>1. wire \in Seq(Msgs) /\ queue \in Seq(Msgs) /\ depthLog \in Seq(Msgs)
  BY RestIs
<1>2. /\ d \in Seq(Msgs) /\ Len(d) = n - from /\ n \in Nat /\ from \in Nat /\ from <= n
      /\ \A i \in 1..n - from : d[i] = depthLog[i + from]
  BY <1>1
<1> HIDE DEF d
<1>3. /\ u \in Seq(Msgs) /\ Len(u) = Len(d) + Len(queue) + Len(wire)
      /\ \A i \in 1..Len(d) + Len(queue) + Len(wire) :
            u[i] = IF i <= Len(d) THEN d[i]
                   ELSE IF i <= Len(d) + Len(queue) THEN queue[i - Len(d)]
                   ELSE wire[i - (Len(d) + Len(queue))]
  <2>1. d \in Seq(Msgs) /\ queue \in Seq(Msgs) /\ wire \in Seq(Msgs)
    BY <1>1, <1>2
  <2> QED
    BY ONLY <2>1, Three
<1>4. /\ Len(Flow) = n + Len(queue) + Len(wire) /\ Len(queue) \in Nat /\ Len(wire) \in Nat
      /\ \A i \in 1..n + Len(queue) + Len(wire) :
            Flow[i] = IF i <= n THEN depthLog[i]
                      ELSE IF i <= n + Len(queue) THEN queue[i - n]
                      ELSE wire[i - (n + Len(queue))]
  BY FlowIs
<1>5. Arriving(from) = LevelsOf(u)
  BY DEF Arriving, u, d
<1> HIDE DEF u, n
<1>6. PICK i \in 1..Len(u) : u[i].level = l
  BY <1>3, <1>5, LevelsAreLevels
<1>7. i + from \in from + 1 .. Len(Flow)
  BY <1>2, <1>3, <1>4
<1>8. Flow[i + from] = u[i]
  <2>1. CASE i <= Len(d)
    <3>1. i + from <= n /\ i + from \in 1..n + Len(queue) + Len(wire) /\ i \in 1..n - from
          /\ i \in 1..Len(d) + Len(queue) + Len(wire)
      BY <1>2, <1>3, <1>4, <2>1
    <3>2. Flow[i + from] = depthLog[i + from]
      BY <1>4, <3>1
    <3>3. u[i] = d[i]
      BY <1>3, <2>1, <3>1
    <3> QED
      BY <1>2, <3>1, <3>2, <3>3
  <2>2. CASE ~ (i <= Len(d)) /\ i <= Len(d) + Len(queue)
    <3>1. /\ ~ (i + from <= n) /\ i + from <= n + Len(queue) /\ (i + from) - n = i - Len(d)
          /\ i + from \in 1..n + Len(queue) + Len(wire)
          /\ i \in 1..Len(d) + Len(queue) + Len(wire)
      BY <1>2, <1>3, <1>4, <2>2
    <3>2. Flow[i + from] = queue[(i + from) - n]
      BY <1>4, <3>1
    <3>3. u[i] = queue[i - Len(d)]
      BY <1>3, <2>2, <3>1
    <3> QED
      BY <3>1, <3>2, <3>3
  <2>3. CASE ~ (i <= Len(d) + Len(queue))
    <3>1. /\ ~ (i + from <= n) /\ ~ (i + from <= n + Len(queue))
          /\ (i + from) - (n + Len(queue)) = i - (Len(d) + Len(queue)) /\ ~ (i <= Len(d))
          /\ i + from \in 1..n + Len(queue) + Len(wire)
          /\ i \in 1..Len(d) + Len(queue) + Len(wire)
      BY <1>2, <1>3, <1>4, <2>3
    <3>2. Flow[i + from] = wire[(i + from) - (n + Len(queue))]
      BY <1>4, <3>1
    <3>3. u[i] = wire[i - (Len(d) + Len(queue))]
      BY <1>3, <2>3, <3>1
    <3> QED
      BY <3>1, <3>2, <3>3
  <2> QED
    BY <2>1, <2>2, <2>3
<1> QED
  BY <1>6, <1>7, <1>8

LEMMA HasALast ==
    ASSUME NEW s \in Seq(Msgs), NEW m \in Nat, NEW l
    PROVE  NoChange(s, m, l) \/ \E i \in m + 1 .. Len(s) : LastChange(s, m, l, i)
<1> SUFFICES ASSUME NEW j \in m + 1 .. Len(s), s[j].level = l
             PROVE  \E i \in m + 1 .. Len(s) : LastChange(s, m, l, i)
  BY DEF NoChange
<1> DEFINE S == {i \in m + 1 .. Len(s) : s[i].level = l}
<1>1. Len(s) \in Nat /\ m + 1 \in Int /\ Len(s) \in Int
  OBVIOUS
<1>2. IsFiniteSet(m + 1 .. Len(s))
  BY ONLY <1>1, FS_Interval
<1>3. IsFiniteSet(S) /\ S \in SUBSET Nat /\ S # {}
  BY <1>2, FS_Subset
<1>4. PICK i \in S : \A k \in S : i >= k
  BY ONLY <1>3, Highest
<1>5. ASSUME NEW k \in i + 1 .. Len(s) PROVE s[k].level # l
  BY <1>1, <1>4
<1> QED
  BY <1>4, <1>5 DEF LastChange

\* A restart reads again what decided the levels it forgot.
LEMMA RestartFollows ==
    ASSUME Sane, Applies, Follows, RestartAlpha PROVE Follows'
<1>1. /\ position' = From /\ Flow' = Flow /\ exchange' = exchange
      /\ mirror' = EmptyBook
      /\ lost' = lost \cup {l \in Levels \ Arriving(From) : exchange[l] # 0}
  BY DEF RestartAlpha, Flow
<1>2. /\ position \in Nat /\ taken \in Nat /\ Len(depthLog) \in Nat
      /\ position <= Len(depthLog) /\ taken <= position
      /\ From \in 0..Len(depthLog)
      /\ From < position => Start <= From
      /\ Start \in Nat
  BY DEF Sane, From, NoOffset, Start
<1>3. Flow \in Seq(Msgs) /\ \A i \in 1..position : Flow[i] = depthLog[i]
  BY <1>2, FlowIs
<1>4. Len(Flow) \in Nat /\ position <= Len(Flow)
  BY <1>2, FlowIs
<1> DEFINE from == From
<1> HIDE DEF from
<1> SUFFICES ASSUME NEW l \in Levels \ lost'
             PROVE  Becomes(Flow, from, l, 0, exchange[l])
  BY <1>1 DEF Follows, EmptyBook, from
<1>5. l \notin lost /\ (l \in Arriving(from) \/ exchange[l] = 0)
  BY <1>1 DEF from
<1>6. Becomes(Flow, position, l, mirror[l], exchange[l])
  BY <1>5 DEF Follows
<1>7. from \in 0..Len(depthLog) /\ from \in Nat /\ (from < position => Start <= from)
  BY <1>2 DEF from
<1>8. CASE NoChange(Flow, from, l)
  <2>1. l \notin Arriving(from)
    BY <1>7, <1>8, ArrivingIsInFlow DEF NoChange
  <2> QED
    BY <1>5, <1>8, <2>1 DEF Becomes
<1>9. ASSUME NEW i \in from + 1 .. Len(Flow), LastChange(Flow, from, l, i)
      PROVE  Becomes(Flow, from, l, 0, exchange[l])
  <2>1. i \in Nat /\ i <= Len(Flow) /\ Flow[i].level = l
        /\ \A j \in i + 1 .. Len(Flow) : Flow[j].level # l
    BY <1>7, <1>9 DEF LastChange
  <2>2. Flow[i].size = exchange[l]
    <3>1. CASE position < i
      <4>1. ~ NoChange(Flow, position, l)
        BY <1>2, <2>1, <3>1 DEF NoChange
      <4>2. PICK k \in position + 1 .. Len(Flow) :
                LastChange(Flow, position, l, k) /\ Flow[k].size = exchange[l]
        BY <1>6, <4>1 DEF Becomes
      <4>3. k = i
        <5>1. k \notin i + 1 .. Len(Flow) /\ i \notin k + 1 .. Len(Flow)
          BY <2>1, <4>2 DEF LastChange
        <5> QED
          BY <1>2, <1>4, <2>1, <5>1
      <4> QED
        BY <4>2, <4>3
    <3>2. CASE i <= position
      <4>1. /\ i \in Start + 1 .. position /\ i \in 1..position
            /\ \A j \in i + 1 .. position : j \in i + 1 .. Len(Flow) /\ j \in 1..position
        BY <1>2, <1>4, <1>7, <2>1, <3>2
      <4>2. SeenLast(l, i)
        BY <1>3, <2>1, <4>1 DEF SeenLast
      <4>3. mirror[l] = Flow[i].size
        BY <1>3, <4>1, <4>2 DEF Applies
      <4>4. \A k \in position + 1 .. Len(Flow) : ~ LastChange(Flow, position, l, k)
        <5>1. \A k \in position + 1 .. Len(Flow) : k \in i + 1 .. Len(Flow)
          BY <1>2, <1>4, <2>1, <3>2
        <5> QED
          BY <2>1, <5>1 DEF LastChange
      <4> QED
        BY <1>6, <4>3, <4>4 DEF Becomes
    <3> QED
      BY <1>2, <2>1, <3>1, <3>2
  <2> QED
    BY <1>9, <2>2 DEF Becomes
<1>10. from \in Nat /\ Flow \in Seq(Msgs)
  BY ONLY <1>3, <1>7
<1>11. \/ NoChange(Flow, from, l)
       \/ \E i \in from + 1 .. Len(Flow) : LastChange(Flow, from, l, i)
  BY ONLY <1>10, HasALast
<1> QED
  BY ONLY <1>8, <1>9, <1>11

LEMMA ChangeFollows ==
    ASSUME Sane, Follows, Change, UNCHANGED alphaVars PROVE Follows'
<1>1. PICK c \in Msgs :
          /\ exchange' = [exchange EXCEPT ![c.level] = c.size]
          /\ IF ws = "live" THEN wire' = Append(wire, c) /\ lost' = lost \ {c.level}
             ELSE wire' = wire /\ lost' = lost \cup {c.level}
  BY DEF Change, Msgs
<1>2. /\ UNCHANGED <<queue, depthLog, mirror, position>> /\ exchange \in Books
      /\ position \in Nat /\ position <= Len(depthLog)
  BY DEF Change, Sane, alphaVars
<1>3. \A l \in Levels : exchange'[l] = IF l = c.level THEN c.size ELSE exchange[l]
  <2>1. exchange \in [Levels -> 0..MaxSize]
    BY <1>2 DEF Books
  <2>2. exchange' = [exchange EXCEPT ![c.level] = c.size]
    BY <1>1
  <2> QED
    BY ONLY <2>1, <2>2
<1>4. CASE ws # "live"
  <2>1. Flow' = Flow
    BY <1>1, <1>2, <1>4 DEF Flow
  <2> QED
    BY <1>1, <1>2, <1>3, <1>4, <2>1 DEF Follows
<1>5. CASE ws = "live"
  <2>1. /\ Flow' \in Seq(Msgs) /\ Len(Flow') = Len(Flow) + 1 /\ Len(Flow) \in Nat
        /\ \A i \in 1..Len(Flow) : Flow'[i] = Flow[i]
        /\ Flow'[Len(Flow) + 1] = c
    BY <1>1, <1>2, <1>5, FlowGetsLonger
  <2>2. Flow \in Seq(Msgs) /\ position <= Len(Flow)
    BY <1>2, FlowIs
  <2> DEFINE t == Flow'
  <2>3. Len(t) = Len(Flow) + 1 /\ t[Len(t)] = c /\ t \in Seq(Msgs)
        /\ \A i \in 1..Len(Flow) : t[i] = Flow[i]
    BY <2>1
  <2> HIDE DEF t
  <2>4. ASSUME NEW l, NEW x, NEW z
        PROVE  /\ c.level = l => Becomes(t, position, l, x, c.size)
               /\ c.level # l /\ Becomes(Flow, position, l, x, z) => Becomes(t, position, l, x, z)
    <3>1. /\ t[Len(t)].level = l => Becomes(t, position, l, x, t[Len(t)].size)
          /\ t[Len(t)].level # l /\ Becomes(Flow, position, l, x, z)
                => Becomes(t, position, l, x, z)
      BY ONLY <1>2, <2>2, <2>3, Lengthened
    <3> QED
      BY <2>3, <3>1
  <2>5. ASSUME NEW l \in Levels \ lost' PROVE Becomes(t, position, l, mirror[l], exchange'[l])
    <3>1. CASE l = c.level
      BY <1>3, <2>4, <3>1
    <3>2. CASE l # c.level
      <4>1. l \notin lost
        BY <1>1, <1>5, <3>2
      <4>2. Becomes(Flow, position, l, mirror[l], exchange[l])
        BY <4>1 DEF Follows
      <4>3. exchange'[l] = exchange[l]
        BY <1>3, <3>2
      <4> QED
        BY <2>4, <3>2, <4>2, <4>3
    <3> QED
      BY <3>1, <3>2
  <2> QED
    BY <1>2, <2>5 DEF Follows, t
<1> QED
  BY <1>4, <1>5

LEMMA PollFollows ==
    ASSUME Sane, Follows, PollDepth PROVE Follows'
<1> DEFINE c == depthLog[position + 1]
<1>1. /\ position < Len(depthLog) /\ position' = position + 1 /\ Flow' = Flow
      /\ mirror' = ApplyDelta(mirror, c) /\ UNCHANGED <<lost, exchange>>
  BY DEF PollDepth, marketVars, Flow
<1>2. /\ position \in Nat /\ mirror \in Books /\ depthLog \in Seq(Msgs)
      /\ Len(depthLog) \in Nat
  BY DEF Sane
<1>3. c \in Msgs /\ Flow[position + 1] = c /\ position < Len(Flow) /\ Flow \in Seq(Msgs)
  BY <1>1, <1>2, FlowIs
<1>4. \A l \in Levels : mirror'[l] = IF l = c.level THEN c.size ELSE mirror[l]
  BY <1>1, <1>2, <1>3, AppliedIsABook
<1> HIDE DEF c
<1> SUFFICES ASSUME NEW l \in Levels \ lost
             PROVE  Becomes(Flow, position + 1, l, mirror'[l], exchange[l])
  BY <1>1 DEF Follows
<1>5. Becomes(Flow, position, l, mirror[l], exchange[l])
  BY DEF Follows
<1>6. Becomes(Flow, position + 1, l,
              IF Flow[position + 1].level = l THEN Flow[position + 1].size ELSE mirror[l],
              exchange[l])
  BY ONLY <1>2, <1>3, <1>5, Applied
<1> QED
  BY <1>3, <1>4, <1>6

LEMMA NextFollows ==
    ASSUME Sane, Applies, Follows, [Next]_vars PROVE Follows'
<1>1. ASSUME UNCHANGED <<exchange, mirror, position>>, lost \subseteq lost', Kept(Flow')
      PROVE  Follows'
  BY <1>1 DEF Follows, Kept
<1>2. CASE UNCHANGED <<exchange, lost, depthLog, queue, wire, mirror, position>>
  BY <1>2 DEF Follows, Flow
<1>3. CASE MarketData /\ UNCHANGED alphaVars
  <2>1. UNCHANGED <<mirror, position>>
    BY <1>3 DEF alphaVars
  <2>2. CASE Change
    BY <1>3, <2>2, ChangeFollows
  <2>3. CASE Connect \/ Subscribe \/ Refuse \/ Reconnect \/ Flushed
             \/ StartMarketData
    BY <1>2, <2>1, <2>3 DEF Connect, Subscribe, Refuse, Reconnect,
                            Flushed, StartMarketData
  <2>4. CASE Receive \/ Deliver
    <3>1. UNCHANGED <<exchange, lost>> /\ Flow' = Flow
      BY <2>4, FlowGoesOn DEF Receive, Deliver
    <3> QED
      BY <2>1, <3>1 DEF Follows
  <2>5. CASE Disconnect \/ Stop \/ CrashMarketData
    <3>1. exchange' = exchange /\ lost \subseteq lost'
      BY <2>5 DEF Disconnect, Stop, CrashMarketData
    <3> QED
      BY <1>1, <2>1, <2>5, <3>1, CutKept
  <2>6. CASE ReceiveFails \/ DeliverLate \/ DeliverTwice \/ DeliverFails
    <3>1. exchange' = exchange /\ lost \subseteq lost'
      BY <2>6 DEF ReceiveFails, DeliverLate, DeliverTwice, DeliverFails
    <3> QED
      BY <1>1, <2>1, <2>6, <3>1, ReceiveFailsKept, DeliverLateKept, DeliverTwiceKept,
         DeliverFailsKept
  <2> QED
    BY <1>3, <2>2, <2>3, <2>4, <2>5, <2>6 DEF MarketData
<1>4. CASE AlphaEngine
  BY <1>2, <1>4, PollFollows, RestartFollows
     DEF AlphaEngine, Commit, ThreadEnds, marketVars
<1>5. CASE UNCHANGED vars
  BY <1>2, <1>5 DEF vars, marketVars, alphaVars
<1> QED
  BY <1>3, <1>4, <1>5 DEF Next

(* MirrorLacksOnlyWhatWasLost: for any prices, sizes, queue and number of  *)
(* restarts, failures and reconnections, once nothing is under way the     *)
(* copy of the book agrees with the exchange's in every level whose last   *)
(* change was not lost: what was replayed, sent twice or cut off elsewhere *)
(* has left no trace.                                                      *)
THEOREM CopyIsTheBook ==
    Spec => []MirrorLacksOnlyWhatWasLost
<1>1. Init => Applies /\ Follows
  <2> SUFFICES ASSUME Init PROVE Applies /\ Follows
    OBVIOUS
  <2>1. /\ wire = <<>> /\ queue = <<>> /\ depthLog = <<>> /\ position = 0 /\ taken = 0
        /\ lost = {l \in Levels : exchange[l] # 0} /\ mirror = EmptyBook
    BY DEF Init, MarketInit
  <2>2. Applies
    BY <2>1 DEF Applies, SeenLast, Start
  <2>3. Len(Flow) = 0
    BY <2>1 DEF Flow
  <2>4. \A l : NoChange(Flow, 0, l)
    BY <2>3 DEF NoChange
  <2>5. Follows
    BY <2>1, <2>4 DEF Follows, Becomes, EmptyBook
  <2> QED
    BY <2>2, <2>5
<1>2. Sane /\ Applies /\ Follows /\ [Next]_vars => Applies' /\ Follows'
  BY NextApplies, NextFollows
<1>3. Sane /\ Follows => MirrorLacksOnlyWhatWasLost
  <2> SUFFICES ASSUME Sane, Follows, ~ UnderWay, NEW l \in Levels \ lost
               PROVE  mirror[l] = exchange[l]
    BY DEF MirrorLacksOnlyWhatWasLost
  <2>1. wire = <<>> /\ queue = <<>> /\ position = Len(depthLog) /\ Len(depthLog) \in Nat
    BY DEF UnderWay, Sane
  <2>2. Len(Flow) = position /\ position \in Nat
    <3>1. Len(wire) = 0 /\ Len(queue) = 0
      BY <2>1
    <3> QED
      BY <2>1, <3>1, FlowIs
  <2>3. position + 1 .. Len(Flow) = {}
    BY <2>2
  <2> QED
    BY <2>3 DEF Follows, Becomes
<1> QED
  BY <1>1, <1>2, <1>3, FeedSane, PTL DEF Spec

=============================================================================
