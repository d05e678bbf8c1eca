------------------------- MODULE SprintPages_proofs -------------------------
(***************************************************************************)
(* Proofs about the pages of a board: the summary that they show           *)
(* (BoardSummary and SprintPages), for any number of issues, page size and *)
(* number of edits, and the dialog on the page of remaining tickets        *)
(* (ClaudeModal), for any number of tickets, loads, submissions and        *)
(* executions. Of the summary, Joined says which goroutines run and what   *)
(* their WaitGroups count; PagesDrift says how far a list that is read in  *)
(* pages may be from a list that is edited meanwhile: an issue taken out   *)
(* moves one over the boundary of the next page, which is missed, one put  *)
(* in moves one back, which is listed again; Counted and Answers say the   *)
(* same of the totals.                                                     *)
(***************************************************************************)
EXTENDS ClaudeModal, SprintPages, FiniteSetTheorems, TLAPS

-----------------------------------------------------------------------------
(***************************************************************************)
(* The list, and what an edit does to the pages of it that are still to    *)
(* come.                                                                   *)
(***************************************************************************)
\* The entries of a list after its first a.
After(s, a) == {s[n] : n \in {m \in DOMAIN s : m > a}}

\* One element more is one more at most.
LEMMA OneMore ==
  ASSUME NEW S, IsFiniteSet(S), NEW x, NEW T, T \subseteq S \cup {x}
  PROVE  /\ IsFiniteSet(T) /\ Cardinality(T) \in Nat /\ Cardinality(S) \in Nat
         /\ Cardinality(T) <= Cardinality(S) + 1
<1>1. IsFiniteSet(S \cup {x}) /\ Cardinality(S \cup {x}) <= Cardinality(S) + 1
  <2>1. Cardinality(S \cup {x}) \in {Cardinality(S), Cardinality(S) + 1} /\ Cardinality(S) \in Nat
    BY FS_AddElement, FS_CardinalityType
  <2>2. Cardinality(S \cup {x}) <= Cardinality(S) + 1
    BY <2>1, SMT
  <2> QED BY <2>2, FS_AddElement
<1>2. IsFiniteSet(T) /\ Cardinality(T) <= Cardinality(S \cup {x})
  BY <1>1, FS_Subset
<1> QED BY <1>1, <1>2, FS_CardinalityType

\* A part of a set is no more.
LEMMA NoMore ==
  ASSUME NEW S, IsFiniteSet(S), NEW T, T \subseteq S
  PROVE  /\ IsFiniteSet(T) /\ Cardinality(T) \in Nat /\ Cardinality(S) \in Nat
         /\ Cardinality(T) <= Cardinality(S)
BY FS_Subset, FS_CardinalityType

\* Those after a which are at most b: as many as there are places.
LEMMA BetweenCounts ==
  ASSUME NEW S, NEW s \in Seq(S), IsInjective(s), NEW a \in Nat, NEW p \in Nat, a + p <= Len(s) \/ p = 0
  PROVE  /\ IsFiniteSet({s[a + k] : k \in 1..p}) /\ Cardinality({s[a + k] : k \in 1..p}) = p
         /\ After(s, a) = {s[a + k] : k \in 1..p} \cup After(s, a + p)
         /\ {s[a + k] : k \in 1..p} \cap After(s, a + p) = {}
<1> DEFINE P == {s[a + k] : k \in 1..p}
           f == [k \in 1..p |-> s[a + k]]
<1>1. \A k \in 1..p : a + k \in DOMAIN s /\ a + k \in Int
  BY SMT
<1>2. f \in Bijection(1..p, P)
  <2>1. f \in [1..p -> P]
    OBVIOUS
  <2>2. \A j, k \in 1..p : f[j] = f[k] => j = k
    <3> TAKE j, k \in 1..p
    <3> HAVE f[j] = f[k]
    <3>1. a + j = a + k
      BY <1>1 DEF IsInjective
    <3> QED BY <3>1, SMT
  <2>3. \A y \in P : \E k \in 1..p : f[k] = y
    OBVIOUS
  <2> QED BY <2>1, <2>2, <2>3 DEF Bijection, Injection, Surjection, IsInjective
<1>3. IsFiniteSet(P) /\ Cardinality(P) = p
  <2>1. IsFiniteSet(1..p) /\ Cardinality(1..p) = p
    BY FS_Interval
  <2>2. ExistsBijection(1..p, P)
    BY <1>2 DEF ExistsBijection
  <2> QED BY <2>1, <2>2, FS_Bijection
<1>4. \A n \in DOMAIN s : n > a <=> n > a + p \/ \E k \in 1..p : n = a + k
  <2> TAKE n \in DOMAIN s
  <2>1. n \in Nat
    BY SMT
  <2>2. n > a /\ ~(n > a + p) => n - a \in 1..p /\ n = a + (n - a)
    BY <2>1, SMT
  <2>3. \A k \in 1..p : n = a + k => n > a
    BY <2>1, SMT
  <2>4. n > a + p => n > a
    BY <2>1, SMT
  <2> QED BY <2>2, <2>3, <2>4
<1>5. After(s, a) = P \cup After(s, a + p)
  BY <1>1, <1>4 DEF After
<1>6. P \cap After(s, a + p) = {}
  <2> SUFFICES ASSUME NEW k \in 1..p, NEW n \in DOMAIN s, n > a + p, s[a + k] = s[n] PROVE FALSE
    BY DEF After
  <2>1. a + k = n
    BY <1>1 DEF IsInjective
  <2> QED BY <2>1, SMT
<1> QED BY <1>3, <1>5, <1>6

\* An entry that is put into a list moves one entry over each boundary.
LEMMA InsertPointwise ==
  ASSUME NEW S, NEW s \in Seq(S), NEW x \in S, NEW n \in 1..(Len(s) + 1)
  PROVE  /\ InsertAt(s, n, x) \in Seq(S) /\ Len(InsertAt(s, n, x)) = Len(s) + 1
         /\ \A m \in 1..(Len(s) + 1) :
              InsertAt(s, n, x)[m] = IF m < n THEN s[m] ELSE IF m = n THEN x ELSE s[m - 1]
<1> DEFINE a == SubSeq(s, 1, n - 1)
           b == SubSeq(s, n, Len(s))
           c == a \o <<x>>
<1>1. a \in Seq(S) /\ Len(a) = n - 1 /\ \A m \in 1..(n - 1) : a[m] = s[m]
  BY SMT
<1>2. b \in Seq(S) /\ Len(b) = Len(s) - n + 1 /\ \A m \in 1..(Len(s) - n + 1) : b[m] = s[m + n - 1]
  BY SMT
<1> HIDE DEF a, b
<1>3. c \in Seq(S) /\ Len(c) = n /\ c[n] = x /\ \A m \in 1..(n - 1) : c[m] = s[m]
  BY <1>1, SMT
<1> HIDE DEF c
<1>4. /\ c \o b \in Seq(S) /\ Len(c \o b) = Len(s) + 1
      /\ \A m \in 1..(Len(s) + 1) : (c \o b)[m] = IF m < n THEN s[m] ELSE IF m = n THEN x ELSE s[m - 1]
  <2>1. /\ c \o b \in Seq(S) /\ Len(c \o b) = Len(c) + Len(b)
        /\ \A m \in 1..(Len(c) + Len(b)) : (c \o b)[m] = IF m <= Len(c) THEN c[m] ELSE b[m - Len(c)]
    BY <1>2, <1>3, SMT
  <2>2. Len(c) + Len(b) = Len(s) + 1 /\ Len(c) = n
    BY <1>2, <1>3, SMT
  <2>3. ASSUME NEW m \in 1..(Len(s) + 1)
        PROVE  (c \o b)[m] = IF m < n THEN s[m] ELSE IF m = n THEN x ELSE s[m - 1]
    <3>1. CASE m <= n
      <4>1. (c \o b)[m] = c[m]
        BY <2>1, <2>2, <3>1
      <4> QED BY <1>3, <3>1, <4>1, SMT
    <3>2. CASE ~(m <= n)
      <4>1. (c \o b)[m] = b[m - n]
        BY <2>1, <2>2, <3>2
      <4>2. m - n \in 1..(Len(s) - n + 1) /\ m - n + n - 1 = m - 1 /\ ~(m < n) /\ m # n
        BY <3>2, SMT
      <4>3. b[m - n] = s[m - n + n - 1]
        BY <1>2, <4>2
      <4> QED BY <4>1, <4>2, <4>3
    <3> QED BY <3>1, <3>2
  <2> QED BY <2>1, <2>2, <2>3
<1> QED BY <1>4 DEF InsertAt, a, b, c

\* An entry that is taken out of a list moves the later ones back.
LEMMA RemovePointwise ==
  ASSUME NEW S, NEW s \in Seq(S), NEW n \in 1..Len(s)
  PROVE  /\ RemoveAt(s, n) \in Seq(S) /\ Len(RemoveAt(s, n)) = Len(s) - 1
         /\ \A m \in 1..(Len(s) - 1) : RemoveAt(s, n)[m] = IF m < n THEN s[m] ELSE s[m + 1]
<1> DEFINE a == SubSeq(s, 1, n - 1)
           b == SubSeq(s, n + 1, Len(s))
<1>1. a \in Seq(S) /\ Len(a) = n - 1 /\ \A m \in 1..(n - 1) : a[m] = s[m]
  BY SMT
<1>2. b \in Seq(S) /\ Len(b) = Len(s) - n /\ \A m \in 1..(Len(s) - n) : b[m] = s[m + n]
  BY SMT
<1> HIDE DEF a, b
<1>3. /\ a \o b \in Seq(S) /\ Len(a \o b) = Len(s) - 1
      /\ \A m \in 1..(Len(s) - 1) : (a \o b)[m] = IF m < n THEN s[m] ELSE s[m + 1]
  <2>1. /\ a \o b \in Seq(S) /\ Len(a \o b) = Len(a) + Len(b)
        /\ \A m \in 1..(Len(a) + Len(b)) : (a \o b)[m] = IF m <= Len(a) THEN a[m] ELSE b[m - Len(a)]
    <3> DEFINE k == Len(a)
               l == Len(b)
    <3>1. k \in Nat /\ l \in Nat /\ a \in Seq(S) /\ b \in Seq(S)
      BY <1>1, <1>2, SMT
    <3> QED BY <3>1, SMT
  <2>2. Len(a) + Len(b) = Len(s) - 1 /\ Len(a) = n - 1
    BY <1>1, <1>2, SMT
  <2>3. ASSUME NEW m \in 1..(Len(s) - 1)
        PROVE  (a \o b)[m] = IF m < n THEN s[m] ELSE s[m + 1]
    <3>1. (a \o b)[m] = IF m <= n - 1 THEN a[m] ELSE b[m - (n - 1)]
      BY <2>1, <2>2
    <3>2. CASE m < n
      <4>1. m <= n - 1 /\ m \in 1..(n - 1)
        BY <3>2, SMT
      <4> QED BY <1>1, <3>1, <3>2, <4>1
    <3>3. CASE ~(m < n)
      <4>1. ~(m <= n - 1) /\ m - (n - 1) \in 1..(Len(s) - n) /\ m - (n - 1) + n = m + 1
        BY <3>3, SMT
      <4>2. b[m - (n - 1)] = s[m - (n - 1) + n]
        BY <1>2, <4>1
      <4> QED BY <3>1, <3>3, <4>1, <4>2
    <3> QED BY <3>2, <3>3
  <2> QED BY <2>1, <2>2, <2>3
<1> QED BY <1>3 DEF RemoveAt, a, b

LEMMA InsertShifts ==
  ASSUME NEW S, NEW s \in Seq(S), IsInjective(s), NEW x \in S, x \notin Range(s),
         NEW n \in 1..(Len(s) + 1), NEW a \in Nat
  PROVE  LET t == InsertAt(s, n, x)
         IN  /\ t \in Seq(S) /\ Len(t) = Len(s) + 1 /\ IsInjective(t) /\ Range(t) = Range(s) \cup {x}
             /\ After(s, a) \subseteq After(t, a)
             /\ After(t, a) \subseteq After(s, a) \cup {IF n > a THEN x ELSE s[a]}
<1> DEFINE t == InsertAt(s, n, x)
<1>1. /\ t \in Seq(S) /\ Len(t) = Len(s) + 1
      /\ \A m \in 1..(Len(s) + 1) : t[m] = IF m < n THEN s[m] ELSE IF m = n THEN x ELSE s[m - 1]
  BY InsertPointwise
<1> HIDE DEF t
<1>2. /\ DOMAIN s = 1..Len(s) /\ DOMAIN t = 1..(Len(s) + 1) /\ Len(s) \in Nat /\ n \in Nat
  <2>1. DOMAIN s = 1..Len(s) /\ DOMAIN t = 1..Len(t) /\ Len(s) \in Nat
    BY <1>1, SMT
  <2>2. n \in Nat
    BY <2>1, SMT
  <2> QED BY <1>1, <2>1, <2>2
<1>3. \A m \in DOMAIN t : \/ m < n /\ m \in DOMAIN s /\ t[m] = s[m]
                          \/ m = n /\ t[m] = x
                          \/ m > n /\ m - 1 \in DOMAIN s /\ t[m] = s[m - 1]
  <2> TAKE m \in DOMAIN t
  <2>1. t[m] = IF m < n THEN s[m] ELSE IF m = n THEN x ELSE s[m - 1]
    BY <1>1, <1>2
  <2>2. m \in 1..(Len(s) + 1)
    BY <1>2
  <2>3. \/ m < n /\ m \in 1..Len(s)
        \/ m = n /\ ~(m < n)
        \/ m > n /\ m - 1 \in 1..Len(s) /\ ~(m < n) /\ m # n
    BY <1>2, <2>2, SMT
  <2> QED BY <1>2, <2>1, <2>3
<1>4. \A m \in DOMAIN s : \/ m < n /\ m \in DOMAIN t /\ t[m] = s[m]
                          \/ m + 1 > n /\ m + 1 \in DOMAIN t /\ t[m + 1] = s[m]
  <2> TAKE m \in DOMAIN s
  <2>1. /\ m \in 1..(Len(s) + 1) /\ m + 1 \in 1..(Len(s) + 1) /\ m + 1 - 1 = m
        /\ ~(m < n) => ~(m + 1 < n) /\ m + 1 # n /\ m + 1 > n
    BY <1>2, SMT
  <2>2. m < n => t[m] = s[m]
    BY <1>1, <2>1
  <2>3. ~(m < n) => t[m + 1] = s[m + 1 - 1]
    BY <1>1, <2>1
  <2>4. m \in DOMAIN t /\ m + 1 \in DOMAIN t /\ (m < n \/ ~(m < n))
    BY <1>2, <2>1
  <2> QED BY <2>1, <2>2, <2>3, <2>4
<1>5. \A m \in DOMAIN s : s[m] # x
  BY DEF Range
<1>6. n \in DOMAIN t /\ t[n] = x
  BY <1>1, <1>2, SMT
<1>7. IsInjective(t)
  <2> SUFFICES ASSUME NEW j \in DOMAIN t, NEW k \in DOMAIN t, t[j] = t[k] PROVE j = k
    BY DEF IsInjective
  <2>1. j \in Nat /\ k \in Nat
    BY <1>2, SMT
  <2>2. \A p, q \in DOMAIN s : s[p] = s[q] => p = q
    BY DEF IsInjective
  <2> QED BY <1>2, <1>3, <1>5, <2>1, <2>2, SMT
<1>8. Range(t) = Range(s) \cup {x}
  BY <1>3, <1>4, <1>6, SMT DEF Range
<1>9. After(s, a) \subseteq After(t, a)
  <2> SUFFICES ASSUME NEW m \in DOMAIN s, m > a PROVE \E k \in DOMAIN t : k > a /\ t[k] = s[m]
    BY DEF After
  <2>1. m \in Nat /\ m + 1 > a
    BY <1>2, SMT
  <2> QED BY <1>4, <2>1
<1>10. After(t, a) \subseteq After(s, a) \cup {IF n > a THEN x ELSE s[a]}
  <2> DEFINE y == IF n > a THEN x ELSE s[a]
  <2>1. ASSUME NEW m \in DOMAIN t, m > a PROVE t[m] = y \/ \E k \in DOMAIN s : k > a /\ s[k] = t[m]
    <3>1. m \in Nat
      BY <1>2, SMT
    <3>2. CASE m < n
      BY <1>3, <2>1, <3>1, <3>2, SMT
    <3>3. CASE m = n
      BY <1>3, <2>1, <3>1, <3>3, SMT
    <3>4. CASE m > n
      <4>1. m - 1 \in DOMAIN s /\ t[m] = s[m - 1]
        BY <1>3, <3>1, <3>4, <1>2, SMT
      <4>2. CASE m - 1 > a
        BY <4>1, <4>2
      <4>3. CASE ~(m - 1 > a)
        <5>1. m - 1 = a /\ ~(n > a)
          BY <1>2, <2>1, <3>1, <3>4, <4>3, SMT
        <5> QED BY <4>1, <5>1
      <4> QED BY <4>2, <4>3
    <3> QED BY <1>2, <3>1, <3>2, <3>3, <3>4, SMT
  <2> QED BY <2>1 DEF After
<1> QED BY <1>1, <1>7, <1>8, <1>9, <1>10 DEF t

\* An entry that is taken out of a list moves one entry back over each boundary.
LEMMA RemoveShifts ==
  ASSUME NEW S, NEW s \in Seq(S), IsInjective(s), NEW n \in DOMAIN s, NEW a \in Nat
  PROVE  LET t == RemoveAt(s, n)
         IN  /\ t \in Seq(S) /\ Len(t) = Len(s) - 1 /\ IsInjective(t) /\ Range(t) = Range(s) \ {s[n]}
             /\ After(t, a) \subseteq After(s, a)
             /\ After(s, a) \subseteq After(t, a) \cup {IF n > a THEN s[n] ELSE s[a + 1]}
<1> DEFINE t == RemoveAt(s, n)
<1>0. DOMAIN s = 1..Len(s) /\ Len(s) \in Nat /\ n \in Nat
  BY SMT
<1>1. /\ t \in Seq(S) /\ Len(t) = Len(s) - 1
      /\ \A m \in 1..(Len(s) - 1) : t[m] = IF m < n THEN s[m] ELSE s[m + 1]
  BY <1>0, RemovePointwise
<1> HIDE DEF t
<1>2. DOMAIN t = 1..(Len(s) - 1)
  BY <1>1, SMT
<1>3. \A m \in DOMAIN t : \/ m < n /\ m \in DOMAIN s /\ t[m] = s[m]
                          \/ m + 1 > n /\ m + 1 \in DOMAIN s /\ t[m] = s[m + 1]
  <2> TAKE m \in DOMAIN t
  <2>1. t[m] = IF m < n THEN s[m] ELSE s[m + 1]
    BY <1>1, <1>2
  <2>2. m \in 1..(Len(s) - 1)
    BY <1>2
  <2>3. \/ m < n /\ m \in 1..Len(s)
        \/ ~(m < n) /\ m + 1 > n /\ m + 1 \in 1..Len(s)
    BY <1>0, <2>2, SMT
  <2> QED BY <1>0, <2>1, <2>3
<1>4. \A m \in DOMAIN s : \/ m < n /\ m \in DOMAIN t /\ t[m] = s[m]
                          \/ m = n
                          \/ m > n /\ m - 1 \in DOMAIN t /\ t[m - 1] = s[m]
  <2> TAKE m \in DOMAIN s
  <2>1. CASE m < n
    <3>1. m \in 1..(Len(s) - 1)
      BY <1>0, <2>1, SMT
    <3>2. t[m] = IF m < n THEN s[m] ELSE s[m + 1]
      BY <1>1, <3>1
    <3> QED BY <1>2, <2>1, <3>1, <3>2
  <2>2. CASE m > n
    <3>1. m - 1 \in 1..(Len(s) - 1) /\ ~(m - 1 < n) /\ m - 1 + 1 = m
      BY <1>0, <2>2, SMT
    <3>2. t[m - 1] = s[m - 1 + 1]
      BY <1>1, <3>1
    <3> QED BY <1>2, <2>2, <3>1, <3>2
  <2>3. m < n \/ m = n \/ m > n
    BY <1>0, SMT
  <2> QED BY <2>1, <2>2, <2>3, Zenon
<1>5. IsInjective(t)
  <2> SUFFICES ASSUME NEW j \in DOMAIN t, NEW k \in DOMAIN t, t[j] = t[k] PROVE j = k
    BY DEF IsInjective
  <2>1. j \in Nat /\ k \in Nat
    BY <1>2, SMT
  <2>2. \A p, q \in DOMAIN s : s[p] = s[q] => p = q
    BY DEF IsInjective
  <2> QED BY <1>0, <1>3, <2>1, <2>2, SMT
<1>6. Range(t) = Range(s) \ {s[n]}
  <2>1. \A m \in DOMAIN t : \E k \in DOMAIN s : k # n /\ s[k] = t[m]
    <3> TAKE m \in DOMAIN t
    <3>1. m \in Nat
      BY <1>2, SMT
    <3> QED BY <1>0, <1>3, <3>1, SMT
  <2>2. \A k \in DOMAIN s : k # n => s[k] # s[n] /\ \E m \in DOMAIN t : s[k] = t[m]
    BY <1>4, <1>0, SMT DEF IsInjective
  <2> QED BY <2>1, <2>2 DEF Range
<1>7. After(t, a) \subseteq After(s, a)
  <2> SUFFICES ASSUME NEW m \in DOMAIN t, m > a PROVE \E k \in DOMAIN s : k > a /\ s[k] = t[m]
    BY DEF After
  <2>1. m \in Nat /\ m + 1 > a
    BY <1>2, SMT
  <2> QED BY <1>3, <2>1
<1>8. After(s, a) \subseteq After(t, a) \cup {IF n > a THEN s[n] ELSE s[a + 1]}
  <2> DEFINE y == IF n > a THEN s[n] ELSE s[a + 1]
  <2>1. ASSUME NEW m \in DOMAIN s, m > a PROVE s[m] = y \/ \E k \in DOMAIN t : k > a /\ t[k] = s[m]
    <3>1. m \in Nat
      BY <1>0, SMT
    <3>2. CASE m < n
      BY <1>0, <1>4, <2>1, <3>1, <3>2, SMT
    <3>3. CASE m = n
      BY <2>1, <3>3
    <3>4. CASE m > n
      <4>1. m - 1 \in DOMAIN t /\ t[m - 1] = s[m]
        BY <1>0, <1>4, <3>1, <3>4, SMT
      <4>2. CASE m - 1 > a
        BY <4>1, <4>2
      <4>3. CASE ~(m - 1 > a)
        <5>1. m = a + 1 /\ ~(n > a)
          BY <1>0, <2>1, <3>1, <3>4, <4>3, SMT
        <5> QED BY <5>1
      <4> QED BY <4>2, <4>3
    <3> QED BY <1>0, <3>1, <3>2, <3>3, <3>4, SMT
  <2> QED BY <2>1 DEF After
<1> QED BY <1>1, <1>5, <1>6, <1>7, <1>8 DEF t

-----------------------------------------------------------------------------
(***************************************************************************)
(* The goroutines of a request.                                            *)
(***************************************************************************)
Runs(g) == pc[g] \notin {"off", "ended"}
One(g) == IF Runs(g) THEN 1 ELSE 0
Asking == {"board", "active", "future", "fork"}

\* A summary waits for the goroutines that it counts, and they for theirs; the
\* other requests have none.
Joined ==
  /\ request \in Requests /\ pc \in [Goroutines -> PC] /\ failed \subseteq Goroutines
  /\ wg \in [summary : Int, stats : Int]
  /\ wg.summary = One("issues") + One("stats") /\ wg.stats = One("total") + One("done")
  /\ pc["main"] \in Asking \cup {"wait", "page", "ended"}
  /\ pc["issues"] \in {"off", "page", "ended"} /\ pc["stats"] \in {"off", "fork", "wait", "ended"}
  /\ pc["total"] \in {"off", "total", "ended"} /\ pc["done"] \in {"off", "total", "ended"}
  /\ pc["main"] \in Asking \/ request # "summary" \/ "main" \in failed =>
       \A g \in Goroutines \ {"main"} : pc[g] = "off"
  /\ "main" \in failed => pc["main"] = "ended"
  /\ pc["main"] = "wait" => request = "summary" /\ pc["issues"] # "off"
  /\ pc["main"] = "page" => request # "summary"
  /\ pc["main"] = "ended" => \A g \in Goroutines : ~Runs(g)
  /\ pc["main"] = "ended" /\ request = "summary" /\ "main" \notin failed => pc["issues"] = "ended"
  /\ pc["stats"] \in {"off", "fork"} => pc["total"] = "off" /\ pc["done"] = "off"
  /\ pc["stats"] = "wait" => pc["total"] # "off" /\ pc["done"] # "off"
  /\ pc["stats"] = "ended" => pc["total"] = "ended" /\ pc["done"] = "ended"

\* Only the main goroutine runs at first.
LEMMA JoinedAtFirst == SummaryInit => Joined
BY SMT DEF SummaryInit, Joined, Runs, One, Asking, Requests, Goroutines, PC

\* Only the main goroutine runs as long as it asks for the board and its sprint.
LEMMA AskingJoins ==
  ASSUME Joined, FetchBoard \/ FetchBoardFails \/ FetchActiveSprint \/ FetchFutureSprint
  PROVE  Joined'
<1>1. /\ UNCHANGED <<request, wg>> /\ pc["main"] \in {"board", "active", "future"}
      /\ \/ \E to \in {"active", "future", "fork"} : pc' = [pc EXCEPT !["main"] = to] /\ failed' = failed
         \/ pc' = [pc EXCEPT !["main"] = "ended"] /\ failed' = failed \cup {"main"}
  BY DEF FetchBoard, FetchBoardFails, FetchActiveSprint, FetchFutureSprint, Goto
<1>2. /\ \A g \in Goroutines \ {"main"} : pc'[g] = pc[g] /\ pc[g] = "off"
      /\ pc' \in [Goroutines -> PC]
      /\ \/ pc'["main"] \in {"active", "future", "fork"} /\ failed' = failed
         \/ pc'["main"] = "ended" /\ failed' = failed \cup {"main"}
  BY <1>1, SMT DEF Joined, Asking, Goroutines, PC
<1>3. failed' \subseteq Goroutines /\ ("main" \in failed' => pc'["main"] = "ended")
  BY <1>1, <1>2 DEF Joined, Goroutines, Asking
<1>4. pc'["main"] \in {"active", "future", "fork", "ended"} /\ (pc'["main"] = "ended" => "main" \in failed')
  BY <1>2
<1>5. UNCHANGED <<request, wg>> /\ Joined
  BY <1>1
<1> HIDE DEF Joined
<1> QED BY <1>2, <1>3, <1>4, <1>5, SMT DEF Joined, Runs, One, Asking, Goroutines, PC

\* It starts the others, or pages itself.
LEMMA StartJoins ==
  ASSUME Joined, Fork \/ StartPaging
  PROVE  Joined'
<1>1. CASE Fork
  <2>1. /\ UNCHANGED <<request, failed>> /\ pc["main"] = "fork" /\ request = "summary"
        /\ \/ /\ wg' = [wg EXCEPT !.summary = 2]
              /\ pc' = [pc EXCEPT !["main"] = "wait", !["issues"] = "page", !["stats"] = "fork"]
           \/ /\ wg' = [wg EXCEPT !.summary = 1]
              /\ pc' = [pc EXCEPT !["main"] = "wait", !["issues"] = "page", !["stats"] = "off"]
    BY <1>1 DEF Fork, StartGoroutines
  <2> QED BY <2>1, SMT DEF Joined, Runs, One, Asking, Requests, Goroutines, PC
<1>2. CASE StartPaging
  BY <1>2, SMT DEF StartPaging, Goto, Joined, Runs, One, Asking, Requests, Goroutines, PC
<1> QED BY <1>1, <1>2

\* A page comes, or fails; the last ends the goroutine.
LEMMA PagingJoins ==
  ASSUME Joined, Paging
  PROVE  Joined'
<1>1. /\ request' = request /\ pc[Pager] = "page"
      /\ \/ PagerEnds /\ (failed' = failed \/ failed' = failed \cup {Pager})
         \/ UNCHANGED <<pc, wg, failed>>
  BY DEF Paging, FetchPage, FetchPageFails, PageArrives
<1>2. failed' \subseteq Goroutines /\ (Pager # "main" => ("main" \in failed' <=> "main" \in failed))
  BY <1>1 DEF Joined, Goroutines, Pager
<1>3. CASE UNCHANGED <<pc, wg, failed>>
  BY <1>1, <1>2, <1>3, SMT DEF Joined, Runs, One, Asking, Requests, Goroutines, PC, Pager
<1>4. CASE PagerEnds /\ request = "summary"
  <2>1. pc["issues"] = "page" /\ Ends("issues", "summary") /\ ("main" \in failed' <=> "main" \in failed)
    BY <1>1, <1>2, <1>4 DEF Pager, PagerEnds
  <2> QED BY <1>1, <1>2, <1>4, <2>1, SMT DEF Ends, Joined, Runs, One, Asking, Requests, Goroutines, PC
<1>5. CASE PagerEnds /\ request # "summary"
  <2>1. pc["main"] = "page" /\ pc' = [pc EXCEPT !["main"] = "ended"] /\ wg' = wg
    BY <1>1, <1>5 DEF Pager, PagerEnds, Goto
  <2> QED BY <1>1, <1>2, <1>5, <2>1, SMT DEF Joined, Runs, One, Asking, Requests, Goroutines, PC
<1> QED BY <1>1, <1>3, <1>4, <1>5

\* The totals are asked for and joined.
LEMMA StatsJoin ==
  ASSUME Joined, Stats \/ AskTotal \/ AskDone
  PROVE  Joined'
<1>1. CASE ForkStats
  BY <1>1, SMT DEF ForkStats, Joined, Runs, One, Asking, Requests, Goroutines, PC
<1>2. CASE JoinStats
  BY <1>2, SMT DEF JoinStats, Ends, Joined, Runs, One, Asking, Requests, Goroutines, PC
<1>3. ASSUME AskTotal \/ AskDone PROVE Joined'
  <2>1. PICK g \in {"total", "done"} :
          /\ pc[g] = "total" /\ Ends(g, "stats") /\ request' = request
          /\ failed' = failed \/ failed' = failed \cup {g}
    BY <1>3 DEF AskTotal, AskDone, FetchTotal, FetchTotalFails, FetchDone, FetchDoneFails
  <2>2. failed' \subseteq Goroutines /\ ("main" \in failed' <=> "main" \in failed) /\ request' = request
    BY <2>1 DEF Joined, Goroutines
  <2>3. CASE g = "total"
    BY <2>1, <2>2, <2>3, SMT DEF Ends, Joined, Runs, One, Asking, Requests, Goroutines, PC
  <2>4. CASE g = "done"
    BY <2>1, <2>2, <2>4, SMT DEF Ends, Joined, Runs, One, Asking, Requests, Goroutines, PC
  <2> QED BY <2>3, <2>4
<1> QED BY <1>1, <1>2, <1>3 DEF Stats

\* The main goroutine returns when its WaitGroup is at zero.
LEMMA JoinJoins == Joined /\ Join => Joined'
BY SMT DEF Join, Goto, Joined, Runs, One, Asking, Requests, Goroutines, PC

\* So every step keeps the goroutines joined; the edits are none of them.
LEMMA StaysJoined == Joined /\ [SummaryNext]_summaryVars => Joined'
<1>1. Joined /\ UNCHANGED <<request, pc, wg, failed>> => Joined'
  BY DEF Joined, Runs, One, Asking, Requests, Goroutines, PC
<1>2. Edit \/ UNCHANGED summaryVars => UNCHANGED <<request, pc, wg, failed>>
  BY DEF Edit, AddIssue, RemoveIssue, CloseIssue, MayEdit, summaryVars
<1> QED BY <1>1, <1>2, AskingJoins, StartJoins, PagingJoins, StatsJoin, JoinJoins DEF SummaryNext, Main

\* When the request returns, no goroutine is left that could write into the
\* summary it returned: both WaitGroups count what still runs.
THEOREM ReturnIsLast == SummarySpec => []NobodyWritesAfterReturn
<1>1. Joined => NobodyWritesAfterReturn
  BY DEF Joined, Runs, NobodyWritesAfterReturn
<1> QED BY JoinedAtFirst, StaysJoined, <1>1, PTL DEF SummarySpec

-----------------------------------------------------------------------------
(***************************************************************************)
(* The pages.                                                              *)
(***************************************************************************)
Found == [total : Nat, done : Nat]
Summaries == [scope : {"sprint", "board"}, issues : Seq(Served), total : Nat, stats : Found]

SummaryTyped ==
  /\ sprint \in Seq(Issues) /\ IsInjective(sprint) /\ closed \subseteq Range(sprint)
  /\ began \in Seq(Issues)
  /\ fetched \in [startAt : Nat, all : Seq(Served)] /\ Len(fetched.all) = fetched.startAt
  /\ stats \in Found /\ summary \in Summaries
  /\ edits \in [added : Nat, removed : Nat, closed : Nat]

\* The issues that the next pages will list.
Beyond == After(sprint, fetched.startAt)

\* What has gone wrong with a list of issues so far, if "ahead" are yet to come:
\* some are missed, some are repeated, some listed as done are open again.
Missed(list, ahead) == Range(began) \ (Listed(list) \cup ahead)
Fresh(list, ahead) == Listed(list) \ ahead
Reopened(list) ==
  {i \in Range(sprint) \ closed : \E n \in DOMAIN list : list[n].issue = i /\ list[n].done}

Drift(list, ahead) ==
  /\ Cardinality(Missed(list, ahead)) <= edits.removed
  /\ Len(list) <= Cardinality(Fresh(list, ahead)) + edits.added
  /\ Cardinality(Reopened(list)) <= edits.added

\* The list is the first n issues of the sprint, as they are.
IsServed(list, n) == 
  Len(list) = n /\ \A m \in 1..n : list[m] = [issue |-> sprint[m], done |-> sprint[m] \in closed]

NotBegun ==
  pc["main"] \in Asking =>
    /\ fetched = [startAt |-> 0, all |-> <<>>] /\ edits = [added |-> 0, removed |-> 0, closed |-> 0]
    /\ summary.issues = <<>>

WhilePaging ==
  pc[Pager] = "page" =>
    /\ Drift(fetched.all, Beyond)
    /\ ~Edited => fetched.startAt <= Len(sprint) /\ IsServed(fetched.all, fetched.startAt)

\* All pages have come.
Paged == pc[Pager] = "ended" /\ Pager \notin failed

AfterPaging ==
  /\ pc[Pager] # "ended" => Pager \notin failed
  /\ request # "summary" => summary.total = 0
  /\ ~Paged => summary.issues = <<>>
  /\ Paged =>
       /\ Drift(summary.issues, {})
       /\ summary.total <= Len(summary.issues)
       /\ ~Edited => /\ IsServed(summary.issues, Len(sprint))
                     /\ request = "summary" => summary.total = Len(sprint)

PagesDrift == SummaryTyped /\ NotBegun /\ WhilePaging /\ AfterPaging

\* Every set of issues is finite.
LEMMA IssuesFinite ==
  ASSUME NEW S, S \subseteq Issues
  PROVE  IsFiniteSet(S) /\ Cardinality(S) \in Nat
BY BoardAssumption, FS_Subset, FS_CardinalityType

\* A list of elements of a set has a range within that set.
LEMMA RangeIn ==
  ASSUME NEW S, NEW s \in Seq(S)
  PROVE  Range(s) \subseteq S /\ \A a : After(s, a) \subseteq Range(s)
<1>1. \A n \in DOMAIN s : s[n] \in S
  BY SMT
<1> QED BY <1>1 DEF Range, After

\* A list of served issues lists issues.
LEMMA ListedIn ==
  ASSUME NEW s \in Seq(Served)
  PROVE  Listed(s) \subseteq Issues
<1>1. \A n \in DOMAIN s : s[n] \in Served
  BY SMT
<1> QED BY <1>1 DEF Listed, Served

\* The part of a list after place a, up to place b.
LEMMA SubPointwise ==
  ASSUME NEW S, NEW s \in Seq(S), NEW a \in Nat, NEW b \in Nat, b <= Len(s)
  PROVE  \E p \in Nat :
           /\ SubSeq(s, a + 1, b) \in Seq(S) /\ Len(SubSeq(s, a + 1, b)) = p
           /\ DOMAIN SubSeq(s, a + 1, b) = 1..p
           /\ IF a + 1 <= b THEN p = b - a ELSE p = 0
           /\ \A k \in 1..p : /\ SubSeq(s, a + 1, b)[k] = s[a + k] /\ s[a + k] \in S
                              /\ a + k \in 1..Len(s) /\ a + k \in DOMAIN s
<1> DEFINE t == SubSeq(s, a + 1, b)
           p == IF a + 1 <= b THEN b - a ELSE 0
<1>1. p \in Nat
  BY SMT
<1>2. t \in Seq(S) /\ Len(t) = p /\ DOMAIN t = 1..p
  BY SMT
<1>3. \A k \in 1..p : t[k] = s[a + k] /\ a + k \in 1..Len(s)
  BY SMT
<1>4. DOMAIN s = 1..Len(s) /\ \A m \in 1..Len(s) : s[m] \in S
  BY SMT
<1>5. IF a + 1 <= b THEN p = b - a ELSE p = 0
  OBVIOUS
<1> HIDE DEF p
<1> QED BY <1>1, <1>2, <1>3, <1>4, <1>5

\* The page that comes next: the issues of the sprint that follow, as they are.
LEMMA PageServed ==
  ASSUME SummaryTyped
  PROVE  \E p \in Nat :
           /\ Page \in Seq(Served) /\ Len(Page) = p
           /\ fetched.startAt + p <= Len(sprint) \/ p = 0
           /\ p = 0 => fetched.startAt >= Len(sprint)
           /\ \A k \in 1..p : /\ fetched.startAt + k \in DOMAIN sprint
                              /\ Page[k] = [issue |-> sprint[fetched.startAt + k],
                                            done |-> sprint[fetched.startAt + k] \in closed]
<1> DEFINE a == fetched.startAt
           b == Min({a + PageSize, Len(sprint)})
           t == SubSeq(sprint, a + 1, b)
<1>1. a \in Nat /\ Len(sprint) \in Nat /\ sprint \in Seq(Issues) /\ PageSize \in Nat /\ PageSize > 0
  BY BoardAssumption, SMT DEF SummaryTyped
<1> HIDE DEF a
<1>2. b \in {a + PageSize, Len(sprint)} /\ b <= a + PageSize /\ b <= Len(sprint)
  BY <1>1, SMT DEF Min
<1>3. b \in Nat
  BY <1>1, <1>2, SMT
<1> HIDE DEF b
<1>4. PICK p \in Nat :
        /\ t \in Seq(Issues) /\ Len(t) = p /\ DOMAIN t = 1..p
        /\ IF a + 1 <= b THEN p = b - a ELSE p = 0
        /\ \A k \in 1..p : /\ t[k] = sprint[a + k] /\ sprint[a + k] \in Issues
                           /\ a + k \in 1..Len(sprint) /\ a + k \in DOMAIN sprint
  BY <1>1, <1>2, <1>3, SubPointwise
<1>5. Page = [n \in 1..p |-> [issue |-> t[n], done |-> t[n] \in closed]]
  BY <1>4 DEF Page, ServedAt, Serve, a, b
<1> HIDE DEF t
<1>6. \A k \in 1..p : [issue |-> t[k], done |-> t[k] \in closed] \in Served
  <2> TAKE k \in 1..p
  <2>1. (t[k] \in closed) \in BOOLEAN
    OBVIOUS
  <2> QED BY <1>4, <2>1 DEF Served
<1>7. Page \in Seq(Served) /\ Len(Page) = p
  BY <1>4, <1>5, <1>6, SMT
<1>8. (a + p <= Len(sprint) \/ p = 0) /\ (p = 0 => a >= Len(sprint))
  BY <1>1, <1>2, <1>3, <1>4, SMT
<1>9. \A k \in 1..p : a + k \in DOMAIN sprint /\ Page[k] = [issue |-> sprint[a + k], done |-> sprint[a + k] \in closed]
  BY <1>4, <1>5
<1> QED BY <1>7, <1>8, <1>9 DEF a

\* Two lists, one after the other.
LEMMA ConcatPointwise ==
  ASSUME NEW S, NEW s \in Seq(S), NEW t \in Seq(S)
  PROVE  /\ s \o t \in Seq(S) /\ Len(s \o t) = Len(s) + Len(t)
         /\ DOMAIN (s \o t) = 1..(Len(s) + Len(t))
         /\ \A n \in 1..Len(s) : (s \o t)[n] = s[n]
         /\ \A k \in 1..Len(t) : (s \o t)[Len(s) + k] = t[k]
BY SMT

\* The fields of an issue as it is served.
LEMMA FieldsServed ==
  ASSUME NEW i, NEW C, NEW r, r = [issue |-> i, done |-> i \in C]
  PROVE  r.issue = i /\ (r.done <=> i \in C)
OBVIOUS

\* All pages so far, with the next.
LEMMA AllServed ==
  ASSUME SummaryTyped
  PROVE  \E p \in Nat :
           LET a == fetched.startAt
           IN  /\ Len(Page) = p /\ All \in Seq(Served) /\ Len(All) = a + p /\ a + p \in Nat
               /\ a + p <= Len(sprint) \/ p = 0
               /\ Complete => a + p >= Len(sprint)
               /\ \A n \in DOMAIN All : \/ n \in DOMAIN fetched.all /\ All[n] = fetched.all[n]
                                        \/ \E k \in 1..p : n = a + k
               /\ \A n \in DOMAIN fetched.all : n \in DOMAIN All /\ All[n] = fetched.all[n]
               /\ \A k \in 1..p : /\ a + k \in DOMAIN sprint /\ a + k \in DOMAIN All
                                  /\ All[a + k] = [issue |-> sprint[a + k], done |-> sprint[a + k] \in closed]
<1> DEFINE a == fetched.startAt
           s == fetched.all
<1>1. PICK p \in Nat :
        /\ Page \in Seq(Served) /\ Len(Page) = p
        /\ a + p <= Len(sprint) \/ p = 0
        /\ p = 0 => a >= Len(sprint)
        /\ \A k \in 1..p : /\ a + k \in DOMAIN sprint
                           /\ Page[k] = [issue |-> sprint[a + k], done |-> sprint[a + k] \in closed]
  BY PageServed
<1>2. a \in Nat /\ s \in Seq(Served) /\ Len(s) = a /\ Len(sprint) \in Nat
  BY SMT DEF SummaryTyped
<1> HIDE DEF a, s
<1>3. /\ s \o Page \in Seq(Served) /\ Len(s \o Page) = a + p /\ DOMAIN (s \o Page) = 1..(a + p)
      /\ \A n \in 1..a : (s \o Page)[n] = s[n]
      /\ \A k \in 1..p : (s \o Page)[a + k] = Page[k]
  <2>1. s \in Seq(Served) /\ Page \in Seq(Served) /\ Len(s) = a /\ Len(Page) = p
    BY <1>1, <1>2
  <2>2. /\ s \o Page \in Seq(Served) /\ Len(s \o Page) = a + p /\ DOMAIN (s \o Page) = 1..(a + p)
        /\ \A n \in 1..a : (s \o Page)[n] = s[n]
    BY <2>1, ConcatPointwise
  <2>3. \A k \in 1..p : (s \o Page)[a + k] = Page[k]
    BY <2>1, ConcatPointwise, SMT
  <2> QED BY <2>2, <2>3
<1>4. All = s \o Page
  BY DEF All, s
<1>5. DOMAIN All = 1..(a + p) /\ DOMAIN s = 1..a /\ a + p \in Nat
  BY <1>2, <1>3, <1>4, SMT
<1>6. \A n \in 1..a : n \in 1..(a + p) /\ n <= a
  BY <1>1, <1>2, SMT
<1>7. \A k \in 1..p : a + k \in 1..(a + p)
  BY <1>1, <1>2, SMT
<1>8. \A n \in 1..(a + p) : \/ n \in 1..a
                            \/ n - a \in 1..p /\ n = a + (n - a)
  BY <1>1, <1>2, SMT
<1>9. Complete => a + p >= Len(sprint)
  <2>1. CASE Len(All) >= Len(sprint)
    BY <1>3, <1>4, <2>1
  <2>2. CASE Page = <<>>
    <3>1. p = 0
      BY <1>1, <2>2, SMT
    <3> QED BY <1>1, <1>2, <3>1, SMT
  <2> QED BY <2>1, <2>2 DEF Complete
<1>10. \A n \in DOMAIN s : n \in DOMAIN All /\ All[n] = s[n]
  BY <1>3, <1>4, <1>5, <1>6
<1>11. \A k \in 1..p : a + k \in DOMAIN All /\ All[a + k] = Page[k]
  BY <1>3, <1>4, <1>5, <1>7
<1>12. \A n \in DOMAIN All : (n \in DOMAIN s /\ All[n] = s[n]) \/ \E k \in 1..p : n = a + k
  BY <1>5, <1>8, <1>10
<1> QED BY <1>1, <1>3, <1>4, <1>5, <1>9, <1>10, <1>11, <1>12 DEF a, s

\* A page takes what it lists from what is to come: nothing goes wrong.
LEMMA PageDrifts ==
  ASSUME SummaryTyped, Drift(fetched.all, Beyond)
  PROVE  LET next == fetched.startAt + Len(Page)
         IN  /\ All \in Seq(Served) /\ Len(All) = next /\ next \in Nat
             /\ Drift(All, After(sprint, next))
             /\ Complete => next >= Len(sprint) /\ After(sprint, next) = {}
<1> DEFINE a == fetched.startAt
           s == fetched.all
<1>1. PICK p \in Nat :
        /\ Len(Page) = p /\ All \in Seq(Served) /\ Len(All) = a + p /\ a + p \in Nat
        /\ a + p <= Len(sprint) \/ p = 0
        /\ Complete => a + p >= Len(sprint)
        /\ \A n \in DOMAIN All : \/ n \in DOMAIN s /\ All[n] = s[n]
                                 \/ \E k \in 1..p : n = a + k
        /\ \A n \in DOMAIN s : n \in DOMAIN All /\ All[n] = s[n]
        /\ \A k \in 1..p : /\ a + k \in DOMAIN sprint /\ a + k \in DOMAIN All
                           /\ All[a + k] = [issue |-> sprint[a + k], done |-> sprint[a + k] \in closed]
  BY AllServed
<1> DEFINE P == {sprint[a + k] : k \in 1..p}
           ahead == After(sprint, a + p)
<1>2. a \in Nat /\ s \in Seq(Served) /\ Len(s) = a /\ sprint \in Seq(Issues) /\ IsInjective(sprint)
  BY DEF SummaryTyped
<1>3. IsFiniteSet(P) /\ Cardinality(P) = p /\ Beyond = P \cup ahead /\ P \cap ahead = {}
  <2>1. Beyond = After(sprint, a) /\ p \in Nat
    BY DEF Beyond
  <2>2. p = 0 \/ a + p <= Len(sprint)
    BY <1>1
  <2> HIDE DEF a
  <2>3. a \in Nat /\ sprint \in Seq(Issues) /\ IsInjective(sprint) /\ (a + p <= Len(sprint) \/ p = 0)
    BY <1>2, <2>2
  <2>4. /\ IsFiniteSet({sprint[a + k] : k \in 1..p}) /\ Cardinality({sprint[a + k] : k \in 1..p}) = p
        /\ After(sprint, a) = {sprint[a + k] : k \in 1..p} \cup After(sprint, a + p)
        /\ {sprint[a + k] : k \in 1..p} \cap After(sprint, a + p) = {}
    BY <2>3, BetweenCounts
  <2> QED BY <2>1, <2>4
<1>4. Drift(s, Beyond)
  OBVIOUS
<1>5. Listed(s) \subseteq Issues /\ Beyond \subseteq Issues /\ Range(began) \subseteq Issues
  BY <1>2, ListedIn, RangeIn DEF Beyond, SummaryTyped
<1> HIDE DEF a, s
<1>6. Listed(All) = Listed(s) \cup P
  <2>1. \A k \in 1..p : All[a + k].issue = sprint[a + k] /\ a + k \in DOMAIN All
    <3> TAKE k \in 1..p
    <3>1. All[a + k] = [issue |-> sprint[a + k], done |-> sprint[a + k] \in closed] /\ a + k \in DOMAIN All
      BY <1>1
    <3> QED BY <3>1
  <2>2. Listed(All) \subseteq Listed(s) \cup P
    BY <1>1, <2>1 DEF Listed
  <2>3. Listed(s) \subseteq Listed(All)
    BY <1>1 DEF Listed
  <2>4. P \subseteq Listed(All)
    BY <2>1 DEF Listed
  <2> QED BY <2>2, <2>3, <2>4
<1>7. Reopened(All) \subseteq Reopened(s)
  <2> SUFFICES ASSUME NEW i \in Range(sprint) \ closed, NEW n \in DOMAIN All, All[n].issue = i, All[n].done
               PROVE  \E m \in DOMAIN s : s[m].issue = i /\ s[m].done
    BY DEF Reopened
  <2>1. ASSUME NEW k \in 1..p, n = a + k PROVE FALSE
    <3>1. All[a + k] = [issue |-> sprint[a + k], done |-> sprint[a + k] \in closed]
      BY <1>1
    <3>2. All[n] = [issue |-> sprint[a + k], done |-> sprint[a + k] \in closed]
      BY <2>1, <3>1
    <3>3. All[n].issue = sprint[a + k] /\ (All[n].done <=> sprint[a + k] \in closed)
      BY <3>2, FieldsServed, Zenon
    <3> QED BY <3>3
  <2> QED BY <1>1, <2>1
<1>8. Cardinality(Reopened(s)) \in Nat /\ Cardinality(Reopened(All)) <= Cardinality(Reopened(s))
  <2>1. Range(sprint) \subseteq Issues
    BY <1>2, RangeIn
  <2>2. Reopened(s) \subseteq Issues
    BY <2>1 DEF Reopened
  <2>3. IsFiniteSet(Reopened(s))
    BY <2>2, IssuesFinite
  <2> QED BY <1>7, <2>3, NoMore
<1> HIDE DEF a, s, P, ahead
<1>9. Missed(All, ahead) = Missed(s, Beyond)
  BY <1>3, <1>6 DEF Missed
<1>10. Cardinality(Fresh(s, Beyond)) + p <= Cardinality(Fresh(All, ahead))
  <2>1. Fresh(s, Beyond) \cup P \subseteq Fresh(All, ahead) /\ Fresh(s, Beyond) \cap P = {}
    BY <1>3, <1>6 DEF Fresh
  <2>2. IsFiniteSet(Fresh(s, Beyond)) /\ IsFiniteSet(Fresh(All, ahead))
    <3>1. Fresh(s, Beyond) \subseteq Issues /\ Fresh(All, ahead) \subseteq Issues
      BY <1>3, <1>5, <1>6 DEF Fresh
    <3> QED BY <3>1, IssuesFinite
  <2>3. Cardinality(Fresh(s, Beyond) \cup P) = Cardinality(Fresh(s, Beyond)) + p - Cardinality({})
    BY <1>3, <2>1, <2>2, FS_Union
  <2>4. Cardinality(Fresh(s, Beyond) \cup P) <= Cardinality(Fresh(All, ahead))
    BY <2>1, <2>2, NoMore
  <2>5. Cardinality({}) = 0 /\ Cardinality(Fresh(s, Beyond)) \in Nat /\ p \in Nat
    BY <2>2, FS_EmptySet, FS_CardinalityType
  <2> QED BY <2>3, <2>4, <2>5, SMT
<1>11. Drift(All, ahead)
  <2>1. Cardinality(Missed(All, ahead)) <= edits.removed
    BY <1>4, <1>9 DEF Drift
  <2>2. Len(All) <= Cardinality(Fresh(All, ahead)) + edits.added
    <3>1. /\ a <= Cardinality(Fresh(s, Beyond)) + edits.added /\ Len(All) = a + p
          /\ edits.added \in Nat
      BY <1>1, <1>2, <1>4 DEF Drift, SummaryTyped
    <3>2. Cardinality(Fresh(s, Beyond)) \in Nat /\ Cardinality(Fresh(All, ahead)) \in Nat
      <4>1. Fresh(s, Beyond) \subseteq Issues /\ Fresh(All, ahead) \subseteq Issues
        BY <1>3, <1>5, <1>6 DEF Fresh
      <4> QED BY <4>1, IssuesFinite
    <3> QED BY <1>2, <1>10, <3>1, <3>2, SMT
  <2>3. Cardinality(Reopened(All)) <= edits.added
    <3>1. Cardinality(Reopened(s)) <= edits.added /\ edits.added \in Nat
      BY <1>4 DEF Drift, SummaryTyped
    <3>2. Cardinality(Reopened(All)) \in Nat
      <4>1. Reopened(All) \subseteq Issues
        BY <1>2, RangeIn DEF Reopened
      <4> QED BY <4>1, IssuesFinite
    <3> QED BY <1>8, <3>1, <3>2, SMT
  <2> QED BY <2>1, <2>2, <2>3 DEF Drift
<1>12. Complete => After(sprint, a + p) = {}
  <2> SUFFICES ASSUME Complete, NEW n \in DOMAIN sprint, n > a + p PROVE FALSE
    BY DEF After
  <2>1. a + p >= Len(sprint) /\ a + p \in Nat
    BY <1>1
  <2>2. n \in Nat /\ n <= Len(sprint) /\ Len(sprint) \in Nat
    BY <1>2, SMT
  <2> QED BY <2>1, <2>2, SMT
<1> QED BY <1>1, <1>11, <1>12 DEF a, ahead

\* As long as nobody touches the sprint, the pages are its beginning.
LEMMA PageExact ==
  ASSUME SummaryTyped, fetched.startAt <= Len(sprint), IsServed(fetched.all, fetched.startAt)
  PROVE  LET next == fetched.startAt + Len(Page)
         IN  /\ next <= Len(sprint) /\ IsServed(All, next)
             /\ Complete => next = Len(sprint)
<1> DEFINE a == fetched.startAt
           s == fetched.all
<1>1. PICK p \in Nat :
        /\ Len(Page) = p /\ All \in Seq(Served) /\ Len(All) = a + p /\ a + p \in Nat
        /\ a + p <= Len(sprint) \/ p = 0
        /\ Complete => a + p >= Len(sprint)
        /\ \A n \in DOMAIN All : \/ n \in DOMAIN s /\ All[n] = s[n]
                                 \/ \E k \in 1..p : n = a + k
        /\ \A n \in DOMAIN s : n \in DOMAIN All /\ All[n] = s[n]
        /\ \A k \in 1..p : /\ a + k \in DOMAIN sprint /\ a + k \in DOMAIN All
                           /\ All[a + k] = [issue |-> sprint[a + k], done |-> sprint[a + k] \in closed]
  BY AllServed
<1>2. a \in Nat /\ s \in Seq(Served) /\ Len(s) = a /\ a <= Len(sprint) /\ Len(sprint) \in Nat
  BY SMT DEF SummaryTyped
<1>3. DOMAIN All = 1..(a + p) /\ DOMAIN s = 1..a
  BY <1>1, <1>2, SMT
<1>4. \A n \in 1..a : s[n] = [issue |-> sprint[n], done |-> sprint[n] \in closed]
  BY DEF IsServed
<1> HIDE DEF a, s
<1>5. \A n \in 1..(a + p) : All[n] = [issue |-> sprint[n], done |-> sprint[n] \in closed]
  <2> TAKE n \in 1..(a + p)
  <2>1. CASE n \in DOMAIN s /\ All[n] = s[n]
    BY <1>3, <1>4, <2>1
  <2>2. ASSUME NEW k \in 1..p, n = a + k PROVE All[n] = [issue |-> sprint[n], done |-> sprint[n] \in closed]
    BY <1>1, <2>2
  <2> QED BY <1>1, <1>3, <2>1, <2>2
<1>6. a + p <= Len(sprint)
  BY <1>1, <1>2, SMT
<1>7. Complete => a + p = Len(sprint)
  BY <1>1, <1>2, <1>6, SMT
<1> QED BY <1>1, <1>5, <1>6, <1>7 DEF IsServed, a

\* Nothing is served at first.
LEMMA EmptyServed ==
  /\ <<>> \in Seq(Served) /\ Len(<<>>) = 0 /\ DOMAIN <<>> = {} /\ Listed(<<>>) = {}
  /\ <<>> \in Seq(Issues)
<1>1. <<>> \in Seq(Served) /\ Len(<<>>) = 0 /\ DOMAIN <<>> = {} /\ <<>> \in Seq(Issues)
  BY SMT
<1> QED BY <1>1 DEF Listed

\* Nor has anything gone wrong.
LEMMA DriftsAtFirst == SummaryInit => PagesDrift
<1> SUFFICES ASSUME SummaryInit PROVE PagesDrift
  OBVIOUS
<1>1. PICK S \in SUBSET Issues : sprint \in SetToSeqs(S)
  BY DEF SummaryInit
<1>2. IsFiniteSet(S) /\ Cardinality(S) \in Nat
  BY IssuesFinite
<1>3. /\ sprint \in [1..Cardinality(S) -> S]
      /\ \A i, j \in 1..Cardinality(S) : i # j => sprint[i] # sprint[j]
  BY <1>1 DEF SetToSeqs
<1>4. sprint \in Seq(Issues) /\ IsInjective(sprint)
  <2>1. sprint \in [1..Cardinality(S) -> Issues]
    BY <1>3
  <2>2. sprint \in Seq(Issues)
    BY <1>2, <2>1, SMT
  <2>3. DOMAIN sprint = 1..Cardinality(S)
    BY <1>3
  <2> QED BY <1>3, <2>2, <2>3 DEF IsInjective
<1>5. SummaryTyped
  <2>1. /\ closed \subseteq Range(sprint) /\ began = <<>> /\ fetched = [startAt |-> 0, all |-> <<>>]
        /\ stats = [total |-> 0, done |-> 0]
        /\ summary = [scope |-> "board", issues |-> <<>>, total |-> 0, stats |-> [total |-> 0, done |-> 0]]
        /\ edits = [added |-> 0, removed |-> 0, closed |-> 0]
    BY DEF SummaryInit, NoStats
  <2> QED BY <1>4, <2>1, EmptyServed, SMT DEF SummaryTyped, Found, Summaries
<1>6. NotBegun /\ WhilePaging /\ AfterPaging
  <2>1. /\ fetched = [startAt |-> 0, all |-> <<>>] /\ edits = [added |-> 0, removed |-> 0, closed |-> 0]
        /\ summary.issues = <<>> /\ summary.total = 0 /\ failed = {}
    BY DEF SummaryInit
  <2>2. pc[Pager] \notin {"page", "ended"}
    BY SMT DEF SummaryInit, Pager, Goroutines, Requests
  <2> QED BY <2>1, <2>2 DEF NotBegun, WhilePaging, AfterPaging, Paged
<1> QED BY <1>5, <1>6 DEF PagesDrift

\* The list that is shown after the last page.
LEMMA PagesArrive ==
  ASSUME Joined, PagesDrift, FetchPage
  PROVE  PagesDrift'
<1> DEFINE next == fetched.startAt + Len(Page)
<1>1. /\ pc[Pager] = "page" /\ fetched' = [startAt |-> next, all |-> All]
      /\ summary' = [summary EXCEPT !.total = IF request = "summary" THEN Len(sprint) ELSE @,
                                    !.issues = IF Complete THEN All ELSE @]
      /\ IF Complete THEN PagerEnds ELSE UNCHANGED <<pc, wg>>
      /\ UNCHANGED <<request, sprint, closed, stats, failed, began, edits>>
  BY DEF FetchPage, PageArrives, jira
<1>2. SummaryTyped /\ Drift(fetched.all, Beyond) /\ summary.issues = <<>> /\ Pager \notin failed
  BY <1>1 DEF PagesDrift, WhilePaging, AfterPaging, Paged
<1>3. /\ All \in Seq(Served) /\ Len(All) = next /\ next \in Nat
      /\ Drift(All, After(sprint, next))
      /\ Complete => next >= Len(sprint) /\ After(sprint, next) = {}
  BY <1>2, PageDrifts
<1>4. ~Edited => /\ next <= Len(sprint) /\ IsServed(All, next)
                 /\ Complete => next = Len(sprint)
  BY <1>1, <1>2, PageExact DEF PagesDrift, WhilePaging
<1> HIDE DEF next
<1>5. Len(sprint) \in Nat /\ sprint \in Seq(Issues)
  BY <1>2, SMT DEF SummaryTyped
<1>6. /\ summary' \in Summaries
      /\ summary'.total = IF request = "summary" THEN Len(sprint) ELSE summary.total
      /\ summary'.issues = IF Complete THEN All ELSE <<>>
  <2> DEFINE total == IF request = "summary" THEN Len(sprint) ELSE summary.total
             issues == IF Complete THEN All ELSE summary.issues
  <2>1. /\ summary \in Summaries /\ summary.issues \in Seq(Served) /\ summary.total \in Nat
        /\ summary = [scope |-> summary.scope, issues |-> summary.issues, total |-> summary.total, stats |-> summary.stats]
        /\ summary.scope \in {"sprint", "board"} /\ summary.stats \in Found
    BY <1>2 DEF SummaryTyped, Summaries
  <2>2. total \in Nat /\ issues \in Seq(Served) /\ issues = IF Complete THEN All ELSE <<>>
    BY <1>2, <1>3, <1>5, <2>1
  <2>3. summary' = [scope |-> summary.scope, issues |-> issues, total |-> total, stats |-> summary.stats]
    BY <1>1, <2>1
  <2> HIDE DEF total, issues
  <2>4. summary' \in Summaries /\ summary'.total = total /\ summary'.issues = issues
    BY <2>1, <2>2, <2>3 DEF Summaries
  <2> QED BY <2>2, <2>4 DEF total
<1>7. fetched'.startAt = next /\ fetched'.all = All
  BY <1>1
<1>8. SummaryTyped'
  BY <1>1, <1>2, <1>3, <1>6, <1>7 DEF SummaryTyped
<1>9. pc["main"] \notin Asking /\ pc'["main"] \in {pc["main"], "ended"}
  <2>1. pc["main"] \notin Asking
    BY <1>1 DEF Joined, Pager, Asking, Goroutines
  <2>2. pc'["main"] \in {pc["main"], "ended"}
    BY <1>1, SMT DEF Joined, PagerEnds, Ends, Goto, Goroutines, PC
  <2> QED BY <2>1, <2>2
<1>10. NotBegun'
  BY <1>9 DEF NotBegun, Asking
<1>11. Pager' = Pager
  BY <1>1 DEF Pager
<1>12. pc'[Pager] = IF Complete THEN "ended" ELSE "page"
  <2>1. CASE request = "summary"
    BY <1>1, <2>1, SMT DEF Joined, Pager, PagerEnds, Ends, Goroutines, PC
  <2>2. CASE request # "summary"
    BY <1>1, <2>2, SMT DEF Joined, Pager, PagerEnds, Goto, Goroutines, PC
  <2> QED BY <2>1, <2>2
<1>13. WhilePaging'
  <2>1. Drift(fetched.all, Beyond)'
    BY <1>1, <1>3, <1>7 DEF Drift, Missed, Fresh, Reopened, Beyond
  <2>2. ~Edited' => fetched'.startAt <= Len(sprint') /\ IsServed(fetched.all, fetched.startAt)'
    BY <1>1, <1>4, <1>7 DEF Edited, IsServed
  <2> QED BY <2>1, <2>2 DEF WhilePaging
<1>14. AfterPaging'
  <2>1. CASE ~Complete
    BY <1>1, <1>2, <1>6, <1>11, <1>12, <2>1 DEF AfterPaging, Paged, PagesDrift
  <2>2. CASE Complete
    <3>1. summary'.issues = All /\ Pager' \notin failed' /\ pc'[Pager'] = "ended" /\ Len(All) = next
      BY <1>1, <1>2, <1>3, <1>6, <1>11, <1>12, <2>2
    <3>2. Drift(summary.issues, {})'
      BY <1>1, <1>3, <2>2, <3>1 DEF Drift, Missed, Fresh, Reopened
    <3>3. summary'.total <= Len(summary'.issues) /\ (request' # "summary" => summary'.total = 0)
      <4>1. CASE request = "summary"
        BY <1>1, <1>3, <1>6, <2>2, <3>1, <4>1
      <4>2. CASE request # "summary"
        <5>1. summary'.total = 0 /\ 0 <= next
          BY <1>3, <1>6, <4>2, SMT DEF PagesDrift, AfterPaging
        <5> QED BY <1>1, <3>1, <5>1
      <4> QED BY <4>1, <4>2
    <3>4. ~Edited' => /\ IsServed(summary.issues, Len(sprint))'
                      /\ request' = "summary" => summary'.total = Len(sprint')
      BY <1>1, <1>4, <1>6, <2>2, <3>1 DEF Edited, IsServed
    <3> QED BY <3>1, <3>2, <3>3, <3>4 DEF AfterPaging, Paged
  <2> QED BY <2>1, <2>2
<1> QED BY <1>8, <1>10, <1>13, <1>14 DEF PagesDrift

\* The page that fails: nothing is shown.
LEMMA PagesFail ==
  ASSUME Joined, PagesDrift, FetchPageFails
  PROVE  PagesDrift'
<1>1. /\ pc[Pager] = "page" /\ failed' = failed \cup {Pager} /\ PagerEnds
      /\ UNCHANGED <<request, sprint, closed, fetched, stats, summary, began, edits>>
  BY DEF FetchPageFails, jira
<1>2. pc["main"] \notin Asking /\ pc'["main"] \in {pc["main"], "ended"}
  <2>1. pc["main"] \notin Asking
    BY <1>1 DEF Joined, Pager, Asking, Goroutines
  <2>2. pc'["main"] \in {pc["main"], "ended"}
    BY <1>1, SMT DEF Joined, PagerEnds, Ends, Goto, Goroutines, PC
  <2> QED BY <2>1, <2>2
<1>3. pc'["main"] \notin Asking
  BY <1>2 DEF Asking
<1>4. Pager' = Pager
  BY <1>1 DEF Pager
<1>5. pc'[Pager] = "ended"
  <2>1. CASE request = "summary"
    BY <1>1, <2>1, SMT DEF Joined, Pager, PagerEnds, Ends, Goroutines, PC
  <2>2. CASE request # "summary"
    BY <1>1, <2>2, SMT DEF Joined, Pager, PagerEnds, Goto, Goroutines, PC
  <2> QED BY <2>1, <2>2
<1>6. SummaryTyped'
  BY <1>1 DEF PagesDrift, SummaryTyped
<1>7. summary.issues = <<>> /\ (request # "summary" => summary.total = 0)
  BY <1>1 DEF PagesDrift, AfterPaging, Paged
<1>8. NotBegun' /\ WhilePaging'
  BY <1>3, <1>4, <1>5 DEF NotBegun, WhilePaging
<1>9. AfterPaging'
  BY <1>1, <1>4, <1>5, <1>7 DEF AfterPaging, Paged
<1> QED BY <1>6, <1>8, <1>9 DEF PagesDrift

-----------------------------------------------------------------------------
\* One issue put in lists one again, or shows one again as open.
LEMMA AddDrifts ==
  ASSUME SummaryTyped, NEW list \in Seq(Served), NEW before, NEW after, NEW y, NEW x,
         Drift(list, before), before \subseteq after, after \subseteq before \cup {y},
         Range(sprint') = Range(sprint) \cup {x}, closed' = closed, began' = began,
         edits' = [edits EXCEPT !.added = @ + 1]
  PROVE  /\ Cardinality(Range(began') \ (Listed(list) \cup after)) <= edits'.removed
         /\ Len(list) <= Cardinality(Listed(list) \ after) + edits'.added
         /\ Cardinality({i \in Range(sprint') \ closed' :
                           \E n \in DOMAIN list : list[n].issue = i /\ list[n].done}) <= edits'.added
<1>1. /\ edits.added \in Nat /\ edits.removed \in Nat
      /\ edits'.added = edits.added + 1 /\ edits'.removed = edits.removed
  BY DEF SummaryTyped
<1>2. Range(began) \subseteq Issues /\ Range(sprint) \subseteq Issues /\ Listed(list) \subseteq Issues
  BY RangeIn, ListedIn DEF SummaryTyped
<1> DEFINE missed == Range(began) \ (Listed(list) \cup after)
           fresh == Listed(list) \ after
           reopened == {i \in Range(sprint') \ closed : \E n \in DOMAIN list : list[n].issue = i /\ list[n].done}
<1>4. /\ IsFiniteSet(Missed(list, before)) /\ missed \subseteq Missed(list, before)
      /\ IsFiniteSet(fresh) /\ Fresh(list, before) \subseteq fresh \cup {y}
      /\ IsFiniteSet(Reopened(list)) /\ reopened \subseteq Reopened(list) \cup {x}
  <2>1. Missed(list, before) \subseteq Issues /\ fresh \subseteq Issues /\ Reopened(list) \subseteq Issues
    BY <1>2 DEF Missed, Reopened
  <2>2. missed \subseteq Missed(list, before) /\ Fresh(list, before) \subseteq fresh \cup {y}
    BY DEF Missed, Fresh
  <2>3. reopened \subseteq Reopened(list) \cup {x}
    BY DEF Reopened
  <2> QED BY <2>1, <2>2, <2>3, IssuesFinite
<1> HIDE DEF missed, fresh, reopened
<1>5. Cardinality(missed) <= edits.removed
  <2>1. /\ Cardinality(missed) \in Nat /\ Cardinality(Missed(list, before)) \in Nat
        /\ Cardinality(missed) <= Cardinality(Missed(list, before))
    BY <1>4, NoMore
  <2>2. Cardinality(Missed(list, before)) <= edits.removed
    BY DEF Drift
  <2> QED BY <1>1, <2>1, <2>2, SMT
<1>6. Len(list) <= Cardinality(fresh) + (edits.added + 1)
  <2>1. /\ Cardinality(fresh) \in Nat /\ Cardinality(Fresh(list, before)) \in Nat
        /\ Cardinality(Fresh(list, before)) <= Cardinality(fresh) + 1
    BY <1>4, OneMore
  <2>2. Len(list) <= Cardinality(Fresh(list, before)) + edits.added
    BY DEF Drift
  <2>3. Len(list) \in Nat
    BY SMT
  <2> QED BY <1>1, <2>1, <2>2, <2>3, SMT
<1>7. Cardinality(reopened) <= edits.added + 1
  <2>1. /\ Cardinality(reopened) \in Nat /\ Cardinality(Reopened(list)) \in Nat
        /\ Cardinality(reopened) <= Cardinality(Reopened(list)) + 1
    BY <1>4, OneMore
  <2>2. Cardinality(Reopened(list)) <= edits.added
    BY DEF Drift
  <2> QED BY <1>1, <2>1, <2>2, SMT
<1> QED BY <1>1, <1>5, <1>6, <1>7 DEF missed, fresh, reopened

\* One issue taken out hides one behind the pages that were read.
LEMMA RemoveDrifts ==
  ASSUME SummaryTyped, NEW list \in Seq(Served), NEW before, NEW after, NEW y, NEW x,
         Drift(list, before), after \subseteq before, before \subseteq after \cup {y},
         Range(sprint') = Range(sprint) \ {x}, closed' = closed \ {x}, began' = began,
         edits' = [edits EXCEPT !.removed = @ + 1]
  PROVE  /\ Cardinality(Range(began') \ (Listed(list) \cup after)) <= edits'.removed
         /\ Len(list) <= Cardinality(Listed(list) \ after) + edits'.added
         /\ Cardinality({i \in Range(sprint') \ closed' :
                           \E n \in DOMAIN list : list[n].issue = i /\ list[n].done}) <= edits'.added
<1>1. /\ edits.added \in Nat /\ edits.removed \in Nat
      /\ edits'.added = edits.added /\ edits'.removed = edits.removed + 1
  BY DEF SummaryTyped
<1>2. Range(began) \subseteq Issues /\ Range(sprint) \subseteq Issues /\ Listed(list) \subseteq Issues
  BY RangeIn, ListedIn DEF SummaryTyped
<1> DEFINE missed == Range(began) \ (Listed(list) \cup after)
           fresh == Listed(list) \ after
           reopened == {i \in Range(sprint') \ (closed \ {x}) : \E n \in DOMAIN list : list[n].issue = i /\ list[n].done}
<1>4. /\ IsFiniteSet(Missed(list, before)) /\ missed \subseteq Missed(list, before) \cup {y}
      /\ IsFiniteSet(fresh) /\ Fresh(list, before) \subseteq fresh
      /\ IsFiniteSet(Reopened(list)) /\ reopened \subseteq Reopened(list)
  <2>1. Missed(list, before) \subseteq Issues /\ fresh \subseteq Issues /\ Reopened(list) \subseteq Issues
    BY <1>2 DEF Missed, Reopened
  <2>2. missed \subseteq Missed(list, before) \cup {y} /\ Fresh(list, before) \subseteq fresh
    BY DEF Missed, Fresh
  <2>3. reopened \subseteq Reopened(list)
    BY DEF Reopened
  <2> QED BY <2>1, <2>2, <2>3, IssuesFinite
<1> HIDE DEF missed, fresh, reopened
<1>5. Cardinality(missed) <= edits.removed + 1
  <2>1. /\ Cardinality(missed) \in Nat /\ Cardinality(Missed(list, before)) \in Nat
        /\ Cardinality(missed) <= Cardinality(Missed(list, before)) + 1
    BY <1>4, OneMore
  <2>2. Cardinality(Missed(list, before)) <= edits.removed
    BY DEF Drift
  <2> QED BY <1>1, <2>1, <2>2, SMT
<1>6. Len(list) <= Cardinality(fresh) + edits.added
  <2>1. /\ Cardinality(fresh) \in Nat /\ Cardinality(Fresh(list, before)) \in Nat
        /\ Cardinality(Fresh(list, before)) <= Cardinality(fresh)
    BY <1>4, NoMore
  <2>2. Len(list) <= Cardinality(Fresh(list, before)) + edits.added
    BY DEF Drift
  <2>3. Len(list) \in Nat
    BY SMT
  <2> QED BY <1>1, <2>1, <2>2, <2>3, SMT
<1>7. Cardinality(reopened) <= edits.added
  <2>1. /\ Cardinality(reopened) \in Nat /\ Cardinality(Reopened(list)) \in Nat
        /\ Cardinality(reopened) <= Cardinality(Reopened(list))
    BY <1>4, NoMore
  <2>2. Cardinality(Reopened(list)) <= edits.added
    BY DEF Drift
  <2> QED BY <1>1, <2>1, <2>2, SMT
<1> QED BY <1>1, <1>5, <1>6, <1>7 DEF missed, fresh, reopened

\* One issue finished changes nothing of it.
LEMMA CloseDrifts ==
  ASSUME SummaryTyped, NEW list \in Seq(Served), NEW ahead, Drift(list, ahead),
         sprint' = sprint, closed \subseteq closed', began' = began,
         edits' = [edits EXCEPT !.closed = @ + 1]
  PROVE  /\ Cardinality(Range(began') \ (Listed(list) \cup ahead)) <= edits'.removed
         /\ Len(list) <= Cardinality(Listed(list) \ ahead) + edits'.added
         /\ Cardinality({i \in Range(sprint') \ closed' :
                           \E n \in DOMAIN list : list[n].issue = i /\ list[n].done}) <= edits'.added
<1>1. /\ edits.added \in Nat /\ edits'.added = edits.added /\ edits'.removed = edits.removed
  BY DEF SummaryTyped
<1> DEFINE reopened == {i \in Range(sprint') \ closed' : \E n \in DOMAIN list : list[n].issue = i /\ list[n].done}
<1>2. reopened \subseteq Reopened(list) /\ IsFiniteSet(Reopened(list))
  <2>1. reopened \subseteq Reopened(list)
    BY DEF Reopened
  <2>2. Reopened(list) \subseteq Issues
    BY RangeIn DEF Reopened, SummaryTyped
  <2> QED BY <2>1, <2>2, IssuesFinite
<1> HIDE DEF reopened
<1>3. Cardinality(reopened) <= edits.added
  <2>1. /\ Cardinality(reopened) \in Nat /\ Cardinality(Reopened(list)) \in Nat
        /\ Cardinality(reopened) <= Cardinality(Reopened(list))
    BY <1>2, NoMore
  <2>2. Cardinality(Reopened(list)) <= edits.added
    BY DEF Drift
  <2> QED BY <1>1, <2>1, <2>2, SMT
<1>4. Range(began') = Range(began) /\ edits'.added = edits.added /\ edits'.removed = edits.removed
  BY <1>1
<1> QED BY <1>3, <1>4 DEF Drift, Missed, Fresh, reopened

\* An edit is told apart from a sprint nobody touched, and else only adds to the drift.
LEMMA EditKeeps ==
  ASSUME Joined, PagesDrift, MayEdit, SummaryTyped', Edited',
         Drift(fetched.all, Beyond) => Drift(fetched.all, Beyond)',
         Drift(summary.issues, {}) => Drift(summary.issues, {})'
  PROVE  PagesDrift'
<1>1. /\ pc["main"] \in {"wait", "page"} /\ UNCHANGED <<request, pc, failed, fetched, summary>>
      /\ Pager' = Pager /\ (Paged' <=> Paged)
  BY DEF MayEdit, Pager, Paged
<1>2. NotBegun'
  BY <1>1 DEF NotBegun, Asking
<1>3. WhilePaging'
  BY <1>1 DEF WhilePaging, PagesDrift
<1>4. AfterPaging'
  <2>1. ~Paged' => summary'.issues = <<>>
    BY <1>1 DEF AfterPaging, PagesDrift
  <2>2. /\ pc'[Pager'] # "ended" => Pager' \notin failed'
        /\ request' # "summary" => summary'.total = 0
        /\ Paged' => summary'.total <= Len(summary'.issues)
    BY <1>1 DEF AfterPaging, PagesDrift
  <2>3. Paged' => Drift(summary.issues, {})'
    BY <1>1 DEF AfterPaging, PagesDrift
  <2> QED BY <2>1, <2>2, <2>3 DEF AfterPaging
<1> QED BY <1>2, <1>3, <1>4 DEF PagesDrift

\* Someone puts an issue into the sprint, takes one out, or finishes one.
LEMMA AddKeeps ==
  ASSUME Joined, PagesDrift, NEW i \in Issues, NEW n \in 1..(Len(sprint) + 1), AddIssue(i, n)
  PROVE  PagesDrift'
<1>1. /\ MayEdit /\ i \notin Range(sprint) /\ sprint' = InsertAt(sprint, n, i) /\ closed' = closed
      /\ edits' = [edits EXCEPT !.added = @ + 1] /\ UNCHANGED <<fetched, summary, stats, began>>
  BY DEF AddIssue, MayEdit
<1>2. SummaryTyped
  BY DEF PagesDrift
<1>3. /\ sprint \in Seq(Issues) /\ IsInjective(sprint) /\ fetched.startAt \in Nat
      /\ fetched.all \in Seq(Served) /\ summary.issues \in Seq(Served)
  BY <1>2 DEF SummaryTyped, Summaries
<1>4. /\ sprint' \in Seq(Issues) /\ IsInjective(sprint') /\ Range(sprint') = Range(sprint) \cup {i}
      /\ After(sprint, fetched.startAt) \subseteq After(sprint', fetched.startAt)
      /\ After(sprint', fetched.startAt) \subseteq
           After(sprint, fetched.startAt) \cup {IF n > fetched.startAt THEN i ELSE sprint[fetched.startAt]}
  <2> DEFINE a == fetched.startAt
             t == InsertAt(sprint, n, i)
  <2>1. a \in Nat /\ sprint \in Seq(Issues) /\ IsInjective(sprint) /\ i \notin Range(sprint)
    BY <1>1, <1>3
  <2> HIDE DEF a
  <2>2. /\ t \in Seq(Issues) /\ IsInjective(t) /\ Range(t) = Range(sprint) \cup {i}
        /\ After(sprint, a) \subseteq After(t, a)
        /\ After(t, a) \subseteq After(sprint, a) \cup {IF n > a THEN i ELSE sprint[a]}
    BY <2>1, InsertShifts
  <2> QED BY <1>1, <2>2 DEF a
<1>5. edits' \in [added : Nat, removed : Nat, closed : Nat] /\ Edited'
  <2>1. /\ edits.added \in Nat /\ edits.removed \in Nat /\ edits.closed \in Nat
        /\ edits' = [added |-> edits.added + 1, removed |-> edits.removed, closed |-> edits.closed]
    BY <1>1, <1>2 DEF SummaryTyped
  <2> QED BY <2>1, SMT DEF Edited
<1>6. SummaryTyped'
  <2>1. closed' \subseteq Range(sprint')
    BY <1>1, <1>2, <1>4 DEF SummaryTyped
  <2> QED BY <1>1, <1>2, <1>4, <1>5, <2>1 DEF SummaryTyped
<1>7. Drift(fetched.all, Beyond) => Drift(fetched.all, Beyond)'
  <2> HAVE Drift(fetched.all, Beyond)
  <2> DEFINE list == fetched.all
             before == After(sprint, fetched.startAt)
             after == After(sprint', fetched.startAt)
             y == IF n > fetched.startAt THEN i ELSE sprint[fetched.startAt]
  <2>1. /\ list \in Seq(Served) /\ Drift(list, before) /\ before \subseteq after /\ after \subseteq before \cup {y}
        /\ Range(sprint') = Range(sprint) \cup {i}
    BY <1>3, <1>4 DEF Beyond
  <2>2. Beyond' = after /\ fetched' = fetched
    BY <1>1 DEF Beyond
  <2> HIDE DEF list, before, after, y
  <2>3. /\ Cardinality(Range(began') \ (Listed(list) \cup after)) <= edits'.removed
        /\ Len(list) <= Cardinality(Listed(list) \ after) + edits'.added
        /\ Cardinality({k \in Range(sprint') \ closed' :
                          \E m \in DOMAIN list : list[m].issue = k /\ list[m].done}) <= edits'.added
    BY <1>1, <1>2, <2>1, AddDrifts
  <2> QED BY <2>2, <2>3 DEF Drift, Missed, Fresh, Reopened, list
<1>8. Drift(summary.issues, {}) => Drift(summary.issues, {})'
  <2> HAVE Drift(summary.issues, {})
  <2> DEFINE list == summary.issues
             none == {}
  <2>1. /\ list \in Seq(Served) /\ Drift(list, none) /\ none \subseteq none /\ none \subseteq none \cup {i}
        /\ Range(sprint') = Range(sprint) \cup {i}
    BY <1>3, <1>4
  <2>2. summary' = summary
    BY <1>1
  <2> HIDE DEF list, none
  <2>3. /\ Cardinality(Range(began') \ (Listed(list) \cup none)) <= edits'.removed
        /\ Len(list) <= Cardinality(Listed(list) \ none) + edits'.added
        /\ Cardinality({k \in Range(sprint') \ closed' :
                          \E m \in DOMAIN list : list[m].issue = k /\ list[m].done}) <= edits'.added
    BY <1>1, <1>2, <2>1, AddDrifts
  <2> QED BY <2>2, <2>3 DEF Drift, Missed, Fresh, Reopened, list, none
<1> QED BY <1>1, <1>5, <1>6, <1>7, <1>8, EditKeeps

LEMMA RemoveKeeps ==
  ASSUME Joined, PagesDrift, NEW n \in DOMAIN sprint, RemoveIssue(n)
  PROVE  PagesDrift'
<1>1. /\ MayEdit /\ sprint' = RemoveAt(sprint, n) /\ closed' = closed \ {sprint[n]}
      /\ edits' = [edits EXCEPT !.removed = @ + 1] /\ UNCHANGED <<fetched, summary, stats, began>>
  BY DEF RemoveIssue, MayEdit
<1>2. SummaryTyped
  BY DEF PagesDrift
<1>3. /\ sprint \in Seq(Issues) /\ IsInjective(sprint) /\ fetched.startAt \in Nat
      /\ fetched.all \in Seq(Served) /\ summary.issues \in Seq(Served)
  BY <1>2 DEF SummaryTyped, Summaries
<1>4. /\ sprint' \in Seq(Issues) /\ IsInjective(sprint') /\ Range(sprint') = Range(sprint) \ {sprint[n]}
      /\ After(sprint', fetched.startAt) \subseteq After(sprint, fetched.startAt)
      /\ After(sprint, fetched.startAt) \subseteq
           After(sprint', fetched.startAt) \cup {IF n > fetched.startAt THEN sprint[n] ELSE sprint[fetched.startAt + 1]}
  <2> DEFINE a == fetched.startAt
             t == RemoveAt(sprint, n)
  <2>1. a \in Nat /\ sprint \in Seq(Issues) /\ IsInjective(sprint)
    BY <1>1, <1>3
  <2> HIDE DEF a
  <2>2. /\ t \in Seq(Issues) /\ IsInjective(t) /\ Range(t) = Range(sprint) \ {sprint[n]}
        /\ After(t, a) \subseteq After(sprint, a)
        /\ After(sprint, a) \subseteq After(t, a) \cup {IF n > a THEN sprint[n] ELSE sprint[a + 1]}
    BY <2>1, RemoveShifts
  <2> QED BY <1>1, <2>2 DEF a
<1>5. edits' \in [added : Nat, removed : Nat, closed : Nat] /\ Edited'
  <2>1. /\ edits.added \in Nat /\ edits.removed \in Nat /\ edits.closed \in Nat
        /\ edits' = [added |-> edits.added, removed |-> edits.removed + 1, closed |-> edits.closed]
    BY <1>1, <1>2 DEF SummaryTyped
  <2> QED BY <2>1, SMT DEF Edited
<1>6. SummaryTyped'
  <2>1. closed' \subseteq Range(sprint')
    BY <1>1, <1>2, <1>4 DEF SummaryTyped
  <2> QED BY <1>1, <1>2, <1>4, <1>5, <2>1 DEF SummaryTyped
<1> DEFINE x == sprint[n]
<1>7. Range(sprint') = Range(sprint) \ {x} /\ closed' = closed \ {x}
  BY <1>1, <1>4
<1> HIDE DEF x
<1>8. Drift(fetched.all, Beyond) => Drift(fetched.all, Beyond)'
  <2> HAVE Drift(fetched.all, Beyond)
  <2> DEFINE list == fetched.all
             before == After(sprint, fetched.startAt)
             after == After(sprint', fetched.startAt)
             y == IF n > fetched.startAt THEN sprint[n] ELSE sprint[fetched.startAt + 1]
  <2>1. list \in Seq(Served) /\ Drift(list, before) /\ after \subseteq before /\ before \subseteq after \cup {y}
    BY <1>3, <1>4 DEF Beyond
  <2>2. Beyond' = after /\ fetched' = fetched
    BY <1>1 DEF Beyond
  <2> HIDE DEF list, before, after, y
  <2>3. /\ Cardinality(Range(began') \ (Listed(list) \cup after)) <= edits'.removed
        /\ Len(list) <= Cardinality(Listed(list) \ after) + edits'.added
        /\ Cardinality({k \in Range(sprint') \ closed' :
                          \E m \in DOMAIN list : list[m].issue = k /\ list[m].done}) <= edits'.added
    BY <1>1, <1>2, <1>7, <2>1, RemoveDrifts
  <2> QED BY <2>2, <2>3 DEF Drift, Missed, Fresh, Reopened, list
<1>9. Drift(summary.issues, {}) => Drift(summary.issues, {})'
  <2> HAVE Drift(summary.issues, {})
  <2> DEFINE list == summary.issues
             none == {}
  <2>1. list \in Seq(Served) /\ Drift(list, none) /\ none \subseteq none /\ none \subseteq none \cup {x}
    BY <1>3
  <2>2. summary' = summary
    BY <1>1
  <2> HIDE DEF list, none
  <2>3. /\ Cardinality(Range(began') \ (Listed(list) \cup none)) <= edits'.removed
        /\ Len(list) <= Cardinality(Listed(list) \ none) + edits'.added
        /\ Cardinality({k \in Range(sprint') \ closed' :
                          \E m \in DOMAIN list : list[m].issue = k /\ list[m].done}) <= edits'.added
    BY <1>1, <1>2, <1>7, <2>1, RemoveDrifts
  <2> QED BY <2>2, <2>3 DEF Drift, Missed, Fresh, Reopened, list, none
<1> QED BY <1>1, <1>5, <1>6, <1>8, <1>9, EditKeeps

LEMMA CloseKeeps ==
  ASSUME Joined, PagesDrift, NEW i \in Issues, CloseIssue(i)
  PROVE  PagesDrift'
<1>1. /\ MayEdit /\ i \in Range(sprint) /\ sprint' = sprint /\ closed' = closed \cup {i}
      /\ edits' = [edits EXCEPT !.closed = @ + 1] /\ UNCHANGED <<fetched, summary, stats, began>>
  BY DEF CloseIssue, MayEdit
<1>2. SummaryTyped
  BY DEF PagesDrift
<1>3. fetched.all \in Seq(Served) /\ summary.issues \in Seq(Served)
  BY <1>2 DEF SummaryTyped, Summaries
<1>4. edits' \in [added : Nat, removed : Nat, closed : Nat] /\ Edited'
  <2>1. /\ edits.added \in Nat /\ edits.removed \in Nat /\ edits.closed \in Nat
        /\ edits' = [added |-> edits.added, removed |-> edits.removed, closed |-> edits.closed + 1]
    BY <1>1, <1>2 DEF SummaryTyped
  <2> QED BY <2>1, SMT DEF Edited
<1>5. SummaryTyped'
  BY <1>1, <1>2, <1>4 DEF SummaryTyped
<1>6. closed \subseteq closed'
  BY <1>1
<1>7. ASSUME NEW list \in Seq(Served), NEW ahead, Drift(list, ahead)
      PROVE  /\ Cardinality(Range(began') \ (Listed(list) \cup ahead)) <= edits'.removed
             /\ Len(list) <= Cardinality(Listed(list) \ ahead) + edits'.added
             /\ Cardinality({k \in Range(sprint') \ closed' :
                               \E m \in DOMAIN list : list[m].issue = k /\ list[m].done}) <= edits'.added
  BY <1>1, <1>2, <1>6, <1>7, CloseDrifts
<1>8. Drift(fetched.all, Beyond) => Drift(fetched.all, Beyond)'
  <2> HAVE Drift(fetched.all, Beyond)
  <2> DEFINE list == fetched.all
             ahead == Beyond
  <2>1. list \in Seq(Served) /\ Drift(list, ahead)
    BY <1>3
  <2>2. Beyond' = ahead /\ fetched' = fetched
    BY <1>1 DEF Beyond
  <2> HIDE DEF list, ahead
  <2>3. /\ Cardinality(Range(began') \ (Listed(list) \cup ahead)) <= edits'.removed
        /\ Len(list) <= Cardinality(Listed(list) \ ahead) + edits'.added
        /\ Cardinality({k \in Range(sprint') \ closed' :
                          \E m \in DOMAIN list : list[m].issue = k /\ list[m].done}) <= edits'.added
    BY <1>7, <2>1
  <2> QED BY <2>2, <2>3 DEF Drift, Missed, Fresh, Reopened, list
<1>9. Drift(summary.issues, {}) => Drift(summary.issues, {})'
  <2> HAVE Drift(summary.issues, {})
  <2> DEFINE list == summary.issues
             none == {}
  <2>1. list \in Seq(Served) /\ Drift(list, none)
    BY <1>3
  <2>2. summary' = summary
    BY <1>1
  <2> HIDE DEF list, none
  <2>3. /\ Cardinality(Range(began') \ (Listed(list) \cup none)) <= edits'.removed
        /\ Len(list) <= Cardinality(Listed(list) \ none) + edits'.added
        /\ Cardinality({k \in Range(sprint') \ closed' :
                          \E m \in DOMAIN list : list[m].issue = k /\ list[m].done}) <= edits'.added
    BY <1>7, <2>1
  <2> QED BY <2>2, <2>3 DEF Drift, Missed, Fresh, Reopened, list, none
<1> QED BY <1>1, <1>4, <1>5, <1>8, <1>9, EditKeeps

-----------------------------------------------------------------------------
\* When the pages begin, everything in the sprint is ahead, and nothing has gone wrong.
LEMMA BeginsDrift ==
  ASSUME Joined, PagesDrift, Fork \/ StartPaging
  PROVE  PagesDrift'
<1>1. /\ pc["main"] = "fork" /\ began' = sprint
      /\ UNCHANGED <<request, sprint, closed, fetched, stats, failed, summary, edits>>
  BY DEF Fork, StartGoroutines, StartPaging, Goto, jira
<1>2. pc'["main"] \notin Asking /\ pc'[Pager] = "page" /\ Pager' = Pager /\ Pager \notin failed
  <2>1. CASE Fork
    <3>1. request = "summary" /\ "issues" \notin failed
      BY <2>1 DEF Fork, StartGoroutines, PagesDrift, AfterPaging, Joined, Pager
    <3>2. pc'["main"] = "wait" /\ pc'["issues"] = "page"
      BY <2>1, SMT DEF Fork, StartGoroutines, Joined, Goroutines
    <3> QED BY <1>1, <3>1, <3>2 DEF Pager, Asking
  <2>2. CASE StartPaging
    <3>1. request # "summary" /\ "main" \notin failed
      BY <1>1, <2>2 DEF StartPaging, Joined
    <3>2. pc'["main"] = "page"
      BY <2>2, SMT DEF StartPaging, Goto, Joined, Goroutines
    <3> QED BY <1>1, <3>1, <3>2 DEF Pager, Asking
  <2> QED BY <2>1, <2>2
<1>3. /\ SummaryTyped /\ fetched.startAt = 0 /\ fetched.all = <<>>
      /\ edits.removed = 0 /\ edits.added = 0 /\ summary.issues = <<>>
  BY <1>1 DEF PagesDrift, NotBegun, Asking
<1>4. SummaryTyped'
  BY <1>1, <1>3 DEF SummaryTyped
<1>5. Beyond' = Range(sprint)
  <2>1. \A n \in DOMAIN sprint : n > 0
    BY <1>3, SMT DEF SummaryTyped
  <2> QED BY <1>1, <1>3, <2>1 DEF Beyond, After, Range
<1>6. Drift(fetched.all, Beyond)'
  <2>1. Listed(<<>>) = {} /\ Len(<<>>) = 0 /\ DOMAIN <<>> = {}
    BY EmptyServed
  <2>2. Missed(fetched.all, Beyond)' = {} /\ Fresh(fetched.all, Beyond)' = {} /\ Reopened(fetched.all)' = {}
    BY <1>1, <1>3, <1>5, <2>1 DEF Missed, Fresh, Reopened
  <2>3. Cardinality({}) = 0 /\ 0 <= 0 /\ 0 <= 0 + 0
    BY FS_EmptySet, SMT
  <2> QED BY <1>1, <1>3, <2>1, <2>2, <2>3 DEF Drift
<1>7. fetched'.startAt <= Len(sprint') /\ IsServed(fetched.all, fetched.startAt)'
  <2>1. 0 <= Len(sprint) /\ Len(<<>>) = 0 /\ 1..0 = {}
    BY <1>3, SMT DEF SummaryTyped
  <2> QED BY <1>1, <1>3, <2>1 DEF IsServed
<1>8. NotBegun' /\ WhilePaging'
  BY <1>2, <1>6, <1>7 DEF NotBegun, WhilePaging
<1>9. AfterPaging'
  BY <1>1, <1>2, <1>3 DEF AfterPaging, Paged, PagesDrift
<1> QED BY <1>4, <1>8, <1>9 DEF PagesDrift

\* A step of another goroutine leaves the pages as they are.
LEMMA OthersKeep ==
  ASSUME PagesDrift, UNCHANGED <<request, sprint, closed, fetched, began, edits>>,
         summary' \in Summaries, summary'.issues = summary.issues, summary'.total = summary.total, stats' \in Found,
         pc'["main"] \in Asking => pc["main"] \in Asking,
         pc'[Pager] = "page" <=> pc[Pager] = "page", Paged' <=> Paged,
         pc'[Pager] # "ended" => Pager \notin failed'
  PROVE  PagesDrift'
<1>1. Pager' = Pager /\ Beyond' = Beyond
  BY DEF Pager, Beyond
<1>2. SummaryTyped'
  BY DEF PagesDrift, SummaryTyped
<1>3. NotBegun'
  BY DEF NotBegun, PagesDrift
<1>4. WhilePaging'
  BY <1>1 DEF WhilePaging, PagesDrift, Drift, Missed, Fresh, Reopened, Edited, IsServed
<1>5. AfterPaging'
  BY <1>1 DEF AfterPaging, PagesDrift, Drift, Missed, Fresh, Reopened, Edited, IsServed
<1> QED BY <1>2, <1>3, <1>4, <1>5 DEF PagesDrift

\* The main goroutine asks for the board and its sprint.
LEMMA AskingKeeps ==
  ASSUME Joined, PagesDrift, FetchBoard \/ FetchBoardFails \/ FetchActiveSprint \/ FetchFutureSprint
  PROVE  PagesDrift'
<1>1. PICK to \in {"active", "future", "fork", "ended"} :
        /\ pc["main"] \in Asking /\ pc' = [pc EXCEPT !["main"] = to]
        /\ failed' = IF to = "ended" THEN failed \cup {"main"} ELSE failed
  BY DEF FetchBoard, FetchBoardFails, FetchActiveSprint, FetchFutureSprint, Goto, Asking
<1>2. \/ summary' = summary
      \/ \E scope \in {"sprint", "board"} : summary' = [summary EXCEPT !.scope = scope]
  BY DEF FetchBoard, FetchBoardFails, FetchActiveSprint, FetchFutureSprint
<1>3. UNCHANGED <<request, sprint, closed, fetched, began, edits, stats>>
  BY DEF FetchBoard, FetchBoardFails, FetchActiveSprint, FetchFutureSprint, jira
<1>4. summary' \in Summaries /\ summary'.issues = summary.issues /\ summary'.total = summary.total
  BY <1>2 DEF PagesDrift, SummaryTyped, Summaries
<1>5. stats' \in Found
  BY <1>3 DEF PagesDrift, SummaryTyped
<1>6. /\ pc["main"] # "page" /\ pc["main"] # "ended" /\ pc \in [Goroutines -> PC]
      /\ pc'["main"] = to /\ pc'["issues"] = pc["issues"]
  BY <1>1, SMT DEF Joined, Asking, Goroutines
<1>7. CASE Pager = "main"
  <2>1. pc'[Pager] = to /\ pc[Pager] # "page" /\ pc[Pager] # "ended"
    BY <1>6, <1>7
  <2>2. Pager \notin failed /\ ~Paged
    BY <2>1 DEF PagesDrift, AfterPaging, Paged
  <2>3. ~Paged'
    BY <1>1, <1>3, <1>7, <2>1 DEF Paged, Pager
  <2> QED BY <1>1, <1>3, <1>4, <1>5, <1>6, <2>1, <2>2, <2>3, OthersKeep
<1>8. CASE Pager = "issues"
  <2>1. pc'[Pager] = pc[Pager] /\ (Pager \in failed' <=> Pager \in failed) /\ Pager' = Pager
    BY <1>1, <1>3, <1>6, <1>8 DEF Pager
  <2>2. Paged' <=> Paged
    BY <2>1 DEF Paged
  <2>3. pc'[Pager] # "ended" => Pager \notin failed'
    BY <2>1 DEF PagesDrift, AfterPaging
  <2> QED BY <1>1, <1>3, <1>4, <1>5, <1>6, <2>1, <2>2, <2>3, OthersKeep
<1> QED BY <1>7, <1>8 DEF Pager

\* The totals come and are joined, and the request returns.
LEMMA StatsKeep ==
  ASSUME Joined, PagesDrift, Stats \/ AskTotal \/ AskDone \/ Join
  PROVE  PagesDrift'
<1>1. UNCHANGED <<request, sprint, closed, fetched, began, edits>>
  BY DEF Stats, ForkStats, JoinStats, AskTotal, FetchTotal, FetchTotalFails, AskDone, FetchDone, FetchDoneFails, Join, jira
<1>2. summary' = summary \/ summary' = [summary EXCEPT !.stats = stats]
  BY DEF Stats, ForkStats, JoinStats, AskTotal, FetchTotal, FetchTotalFails, AskDone, FetchDone, FetchDoneFails, Join
<1>3. stats \in Found /\ summary \in Summaries
  BY DEF PagesDrift, SummaryTyped
<1>4. summary' \in Summaries /\ summary'.issues = summary.issues /\ summary'.total = summary.total
  BY <1>2, <1>3 DEF Summaries
<1>5. stats' \in Found
  <2>1. stats' = stats \/ stats' = [stats EXCEPT !.total = Len(sprint)] \/ stats' = [stats EXCEPT !.done = Cardinality(closed)]
    BY DEF Stats, ForkStats, JoinStats, AskTotal, FetchTotal, FetchTotalFails, AskDone, FetchDone, FetchDoneFails, Join
  <2>2. Len(sprint) \in Nat
    BY SMT DEF PagesDrift, SummaryTyped
  <2>3. Cardinality(closed) \in Nat
    <3>1. closed \subseteq Issues
      BY RangeIn DEF PagesDrift, SummaryTyped
    <3> QED BY <3>1, IssuesFinite
  <2> QED BY <1>3, <2>1, <2>2, <2>3 DEF Found
<1>6. /\ pc'["issues"] = pc["issues"] /\ pc'["main"] \in {pc["main"], "ended"}
      /\ pc["main"] = "page" => pc'["main"] = "page"
      /\ ("main" \in failed' <=> "main" \in failed) /\ ("issues" \in failed' <=> "issues" \in failed)
      /\ request # "summary" => pc'["main"] = pc["main"]
  <2>1. CASE Join
    BY <2>1, SMT DEF Join, Goto, Joined, Goroutines
  <2>2. CASE Stats
    BY <2>2, SMT DEF Stats, ForkStats, JoinStats, Ends, Joined, Goroutines
  <2>3. CASE AskTotal \/ AskDone
    <3>1. PICK g \in {"total", "done"} :
            pc' = [pc EXCEPT ![g] = "ended"] /\ (failed' = failed \/ failed' = failed \cup {g})
      BY <2>3 DEF AskTotal, AskDone, FetchTotal, FetchTotalFails, FetchDone, FetchDoneFails, Ends
    <3>2. pc'["issues"] = pc["issues"] /\ pc'["main"] = pc["main"]
      BY <3>1, SMT DEF Joined, Goroutines
    <3> QED BY <3>1, <3>2
  <2> QED BY <2>1, <2>2, <2>3
<1>7. pc'[Pager] = pc[Pager] /\ (Pager \in failed' <=> Pager \in failed) /\ Pager' = Pager
  BY <1>1, <1>6 DEF Pager
<1>8. (Paged' <=> Paged) /\ (pc'[Pager] # "ended" => Pager \notin failed')
  BY <1>7 DEF Paged, PagesDrift, AfterPaging
<1>9. pc'["main"] \in Asking => pc["main"] \in Asking
  BY <1>6 DEF Asking
<1> QED BY <1>1, <1>4, <1>5, <1>7, <1>8, <1>9, OthersKeep

\* Every step keeps the pages within the drift that the edits explain.
LEMMA StaysInDrift ==
  ASSUME Joined, PagesDrift, [SummaryNext]_summaryVars
  PROVE  PagesDrift'
<1>1. CASE Main
  BY <1>1, AskingKeeps, BeginsDrift, StatsKeep DEF Main
<1>2. CASE Paging
  BY <1>2, PagesArrive, PagesFail DEF Paging
<1>3. CASE AskTotal \/ AskDone \/ Stats
  BY <1>3, StatsKeep
<1>4. CASE Edit
  BY <1>4, AddKeeps, RemoveKeeps, CloseKeeps DEF Edit
<1>5. CASE UNCHANGED summaryVars
  <2>1. UNCHANGED <<request, sprint, closed, pc, fetched, stats, failed, summary, began, edits>>
    BY <1>5 DEF summaryVars, jira
  <2>2. Pager' = Pager /\ (Paged' <=> Paged)
    BY <2>1 DEF Pager, Paged
  <2>3. pc'[Pager] # "ended" => Pager \notin failed'
    BY <2>1 DEF PagesDrift, AfterPaging
  <2>4. summary' \in Summaries /\ stats' \in Found
    BY <2>1 DEF PagesDrift, SummaryTyped
  <2> QED BY <2>1, <2>2, <2>3, <2>4, OthersKeep
<1> QED BY <1>1, <1>2, <1>3, <1>4, <1>5 DEF SummaryNext

LEMMA PagesDriftAlways == SummarySpec => [](Joined /\ PagesDrift)
<1>1. Joined /\ PagesDrift /\ [SummaryNext]_summaryVars => (Joined /\ PagesDrift)'
  BY StaysJoined, StaysInDrift
<1> QED BY JoinedAtFirst, DriftsAtFirst, <1>1, PTL DEF SummarySpec

\* A request that is answered has read all of its pages.
LEMMA AnsweredPaged == Joined /\ Answered => Paged
BY SMT DEF Joined, Answered, Paged, Pager, Runs, Goroutines, Requests

\* What is shown or added up misses no more of what is still in the list than was
\* taken out of it while it was read, and repeats no more than was put in: for any
\* number of issues, any page size and any number of edits.
THEOREM DriftIsExplained == SummarySpec => []PagesDriftOnlyByEdits
<1>1. ASSUME Joined, PagesDrift PROVE PagesDriftOnlyByEdits
  <2>1. SummaryTyped
    BY <1>1 DEF PagesDrift
  <2>2. /\ summary.issues \in Seq(Served) /\ Listed(summary.issues) \subseteq Issues
        /\ Range(began) \subseteq Issues /\ edits.added \in Nat /\ edits.removed \in Nat
    BY <2>1, ListedIn, RangeIn DEF SummaryTyped, Summaries
  <2>3. ASSUME Answered
        PROVE  Cardinality((Range(began) \cap Range(sprint)) \ Listed(summary.issues)) <= edits.removed
    <3>1. Cardinality(Missed(summary.issues, {})) <= edits.removed
      BY <1>1, <2>3, AnsweredPaged DEF PagesDrift, AfterPaging, Drift
    <3>2. /\ (Range(began) \cap Range(sprint)) \ Listed(summary.issues) \subseteq Missed(summary.issues, {})
          /\ Missed(summary.issues, {}) \subseteq Issues
      BY <2>2 DEF Missed
    <3>3. IsFiniteSet(Missed(summary.issues, {}))
      BY <3>2, IssuesFinite
    <3>4. /\ Cardinality((Range(began) \cap Range(sprint)) \ Listed(summary.issues))
               <= Cardinality(Missed(summary.issues, {}))
          /\ Cardinality((Range(began) \cap Range(sprint)) \ Listed(summary.issues)) \in Nat
          /\ Cardinality(Missed(summary.issues, {})) \in Nat
      BY <3>2, <3>3, NoMore
    <3> QED BY <2>2, <3>1, <3>4, SMT
  <2>4. Len(summary.issues) - Cardinality(Listed(summary.issues)) <= edits.added
    <3>1. CASE Paged
      <4>1. Len(summary.issues) <= Cardinality(Fresh(summary.issues, {})) + edits.added
        BY <1>1, <3>1 DEF PagesDrift, AfterPaging, Drift
      <4>2. Fresh(summary.issues, {}) = Listed(summary.issues)
        BY DEF Fresh
      <4>3. Cardinality(Listed(summary.issues)) \in Nat /\ Len(summary.issues) \in Nat
        BY <2>2, IssuesFinite, SMT
      <4> QED BY <2>2, <4>1, <4>2, <4>3, SMT
    <3>2. CASE ~Paged
      <4>1. summary.issues = <<>>
        BY <1>1, <3>2 DEF PagesDrift, AfterPaging
      <4>2. Len(summary.issues) = 0 /\ Cardinality(Listed(summary.issues)) = 0
        BY <4>1, EmptyServed, FS_EmptySet
      <4>3. 0 - 0 <= edits.added
        BY <2>2, SMT
      <4> QED BY <4>2, <4>3
    <3> QED BY <3>1, <3>2
  <2> QED BY <2>3, <2>4 DEF PagesDriftOnlyByEdits
<1> QED BY <1>1, PagesDriftAlways, PTL

-----------------------------------------------------------------------------
(***************************************************************************)
(* The totals.                                                             *)
(***************************************************************************)
\* The two answers are what Jira had when they were asked for; the summary has
\* both, or none.
Counted ==
  /\ pc["total"] # "ended" => "total" \notin failed
  /\ pc["done"] # "ended" => "done" \notin failed
  /\ pc["stats"] \in {"off", "fork"} => pc["total"] = "off" /\ pc["done"] = "off"
  /\ pc["stats"] = "wait" => pc["total"] # "off" /\ pc["done"] # "off"
  /\ pc["stats"] = "ended" => pc["total"] = "ended" /\ pc["done"] = "ended"
  /\ pc["main"] \notin Asking /\ request = "summary" /\ summary.scope = "sprint" /\ "main" \notin failed =>
       pc["stats"] # "off"

Answers ==
  /\ pc["total"] = "ended" /\ "total" \notin failed /\ ~Edited => stats.total = Len(sprint)
  /\ pc["done"] = "ended" /\ "done" \notin failed =>
       /\ Cardinality(closed) <= stats.done + edits.closed
       /\ ~Edited => stats.done = Cardinality(closed)
  /\ summary.stats = IF pc["stats"] = "ended" /\ "total" \notin failed THEN stats ELSE NoStats

\* The totals have not been asked for at first.
LEMMA CountsAtFirst == SummaryInit => Counted /\ Answers
BY DEF SummaryInit, Counted, Answers, Goroutines, Asking, Requests, NoStats

\* The closed issues are a finite set.
LEMMA ClosedCounts ==
  ASSUME SummaryTyped
  PROVE  IsFiniteSet(closed) /\ Cardinality(closed) \in Nat
<1>1. closed \subseteq Issues
  BY RangeIn DEF SummaryTyped
<1> QED BY <1>1, IssuesFinite

\* The step of a goroutine that neither asks for the totals nor joins them.
LEMMA OthersCount ==
  ASSUME Joined, SummaryTyped, Counted, Answers, Main \/ Paging
  PROVE  Counted' /\ Answers'
<1>1. UNCHANGED <<request, sprint, closed, stats, edits>> /\ (Edited' <=> Edited)
  BY DEF Main, FetchBoard, FetchBoardFails, FetchActiveSprint, FetchFutureSprint, Fork, StartGoroutines,
         StartPaging, Join, Paging, FetchPage, FetchPageFails, PageArrives, jira, Edited
<1>2. summary'.stats = summary.stats /\ (pc["main"] \notin Asking => summary'.scope = summary.scope)
  <2>1. summary \in Summaries
    BY DEF SummaryTyped
  <2>2. CASE Fork \/ StartPaging \/ Join \/ FetchPageFails \/ FetchBoard \/ FetchBoardFails
    BY <2>2 DEF Fork, StartGoroutines, StartPaging, Join, FetchPageFails, FetchBoard, FetchBoardFails
  <2>3. CASE FetchActiveSprint \/ FetchFutureSprint
    <3>1. summary' = summary \/ \E scope \in {"sprint", "board"} : summary' = [summary EXCEPT !.scope = scope]
      BY <2>3 DEF FetchActiveSprint, FetchFutureSprint
    <3>2. pc["main"] \in Asking
      BY <2>3 DEF FetchActiveSprint, FetchFutureSprint, Goto, Asking
    <3> QED BY <2>1, <3>1, <3>2 DEF Summaries
  <2>4. CASE FetchPage
    <3>1. summary' = [summary EXCEPT !.total = IF request = "summary" THEN Len(sprint) ELSE @,
                                     !.issues = IF Complete THEN All ELSE @]
      BY <2>4 DEF FetchPage, PageArrives
    <3> QED BY <2>1, <3>1 DEF Summaries
  <2> QED BY <2>2, <2>3, <2>4 DEF Main, Paging
<1>3. /\ pc'["total"] = pc["total"] /\ pc'["done"] = pc["done"]
      /\ ("total" \in failed' <=> "total" \in failed) /\ ("done" \in failed' <=> "done" \in failed)
      /\ "main" \in failed => "main" \in failed'
      /\ \/ pc'["stats"] = pc["stats"]
         \/ pc["stats"] = "off" /\ pc'["stats"] = "fork"
      /\ \/ pc["main"] \notin Asking
         \/ pc'["main"] \in Asking
         \/ "main" \in failed'
         \/ request # "summary"
         \/ summary'.scope = summary.scope /\ (summary.scope = "sprint" => pc'["stats"] = "fork")
  <2>1. CASE FetchBoard \/ FetchBoardFails \/ FetchActiveSprint \/ FetchFutureSprint
    <3>1. PICK to \in {"active", "future", "fork", "ended"} :
            /\ pc' = [pc EXCEPT !["main"] = to]
            /\ failed' = IF to = "ended" THEN failed \cup {"main"} ELSE failed
      BY <2>1 DEF FetchBoard, FetchBoardFails, FetchActiveSprint, FetchFutureSprint, Goto
    <3> QED BY <3>1, SMT DEF Joined, Asking, Goroutines
  <2>2. CASE Fork
    <3>1. /\ pc["main"] = "fork" /\ request = "summary" /\ failed' = failed /\ summary' = summary
          /\ pc' = [pc EXCEPT !["main"] = "wait", !["issues"] = "page",
                              !["stats"] = IF summary.scope = "sprint" THEN "fork" ELSE "off"]
      BY <2>2 DEF Fork, StartGoroutines
    <3>2. pc["stats"] = "off"
      BY <3>1 DEF Joined, Asking, Goroutines
    <3>3. /\ pc'["total"] = pc["total"] /\ pc'["done"] = pc["done"]
          /\ pc'["stats"] = IF summary.scope = "sprint" THEN "fork" ELSE "off"
      BY <3>1, SMT DEF Joined, Goroutines
    <3> QED BY <3>1, <3>2, <3>3
  <2>3. CASE StartPaging \/ Join
    <3>1. /\ pc' = [pc EXCEPT !["main"] = IF StartPaging THEN "page" ELSE "ended"] /\ failed' = failed
          /\ pc["main"] \notin Asking \/ request # "summary"
      BY <2>3 DEF StartPaging, Join, Goto, Asking
    <3> QED BY <3>1, SMT DEF Joined, Goroutines
  <2>4. CASE Paging
    <3>1. /\ pc[Pager] = "page" /\ (failed' = failed \/ failed' = failed \cup {Pager})
          /\ PagerEnds \/ pc' = pc
      BY <2>4 DEF Paging, FetchPage, FetchPageFails, PageArrives
    <3>2. pc' = pc \/ pc' = [pc EXCEPT !["issues"] = "ended"] \/ pc' = [pc EXCEPT !["main"] = "ended"]
      BY <3>1 DEF PagerEnds, Ends, Goto
    <3>3. pc["main"] \notin Asking
      BY <3>1 DEF Joined, Pager, Asking, Goroutines
    <3>4. /\ pc'["total"] = pc["total"] /\ pc'["done"] = pc["done"] /\ pc'["stats"] = pc["stats"]
      BY <3>2, SMT DEF Joined, Goroutines
    <3> QED BY <3>1, <3>3, <3>4 DEF Pager
  <2> QED BY <2>1, <2>2, <2>3, <2>4 DEF Main
<1>4. Counted'
  BY <1>1, <1>2, <1>3 DEF Counted
<1>5. Answers'
  <2>1. pc'["stats"] = "ended" <=> pc["stats"] = "ended"
    BY <1>3
  <2> QED BY <1>1, <1>2, <1>3, <2>1 DEF Answers
<1> QED BY <1>4, <1>5

\* Someone edits the sprint.
LEMMA EditCounts ==
  ASSUME Joined, SummaryTyped, Counted, Answers, Edit
  PROVE  Counted' /\ Answers'
<1>1. MayEdit
  BY DEF Edit, AddIssue, RemoveIssue, CloseIssue
<1>2. UNCHANGED <<request, pc, stats, failed, summary>>
  BY <1>1 DEF MayEdit
<1>3. edits.added \in Nat /\ edits.removed \in Nat /\ edits.closed \in Nat
  BY DEF SummaryTyped
<1>4. Edited' /\ edits'.closed \in Nat /\ Cardinality(closed') \in Nat
      /\ Cardinality(closed') - edits'.closed <= Cardinality(closed) - edits.closed
  <2>1. IsFiniteSet(closed) /\ Cardinality(closed) \in Nat
    BY ClosedCounts
  <2>2. CASE \E i \in Issues, n \in 1..(Len(sprint) + 1) : AddIssue(i, n)
    <3>1. closed' = closed /\ edits' = [edits EXCEPT !.added = @ + 1]
      BY <2>2 DEF AddIssue
    <3>2. edits' = [added |-> edits.added + 1, removed |-> edits.removed, closed |-> edits.closed]
      BY <3>1 DEF SummaryTyped
    <3> QED BY <1>3, <2>1, <3>1, <3>2, SMT DEF Edited
  <2>3. CASE \E n \in DOMAIN sprint : RemoveIssue(n)
    <3>1. closed' \subseteq closed /\ edits' = [edits EXCEPT !.removed = @ + 1]
      BY <2>3 DEF RemoveIssue
    <3>2. edits' = [added |-> edits.added, removed |-> edits.removed + 1, closed |-> edits.closed]
      BY <3>1 DEF SummaryTyped
    <3>3. Cardinality(closed') \in Nat /\ Cardinality(closed') <= Cardinality(closed)
      BY <2>1, <3>1, NoMore
    <3> QED BY <1>3, <2>1, <3>2, <3>3, SMT DEF Edited
  <2>4. CASE \E i \in Issues : CloseIssue(i)
    <3>1. PICK i : closed' = closed \cup {i} /\ edits' = [edits EXCEPT !.closed = @ + 1]
      BY <2>4 DEF CloseIssue
    <3>2. edits' = [added |-> edits.added, removed |-> edits.removed, closed |-> edits.closed + 1]
      BY <3>1 DEF SummaryTyped
    <3>3. Cardinality(closed') \in Nat /\ Cardinality(closed') <= Cardinality(closed) + 1
      BY <2>1, <3>1, OneMore
    <3> QED BY <1>3, <2>1, <3>2, <3>3, SMT DEF Edited
  <2> QED BY <2>2, <2>3, <2>4 DEF Edit
<1>5. Counted'
  BY <1>2 DEF Counted
<1>6. Answers'
  <2>1. ASSUME pc["done"] = "ended", "done" \notin failed PROVE Cardinality(closed') <= stats.done + edits'.closed
    <3>1. Cardinality(closed) <= stats.done + edits.closed /\ stats.done \in Nat /\ Cardinality(closed) \in Nat
      BY <2>1, ClosedCounts DEF Answers, SummaryTyped, Found
    <3> QED BY <1>3, <1>4, <3>1, SMT
  <2> QED BY <1>2, <1>4, <2>1 DEF Answers
<1> QED BY <1>5, <1>6

\* Jira answers with a total, or fails.
LEMMA TotalsCount ==
  ASSUME Joined, SummaryTyped, Counted, Answers, AskTotal \/ AskDone
  PROVE  Counted' /\ Answers'
<1>1. UNCHANGED <<request, sprint, closed, edits, summary>> /\ (Edited' <=> Edited)
  BY DEF AskTotal, AskDone, FetchTotal, FetchTotalFails, FetchDone, FetchDoneFails, jira, Edited
<1>2. pc["stats"] # "ended"
  BY DEF AskTotal, AskDone, FetchTotal, FetchTotalFails, FetchDone, FetchDoneFails, Counted
<1>3. Cardinality(closed) \in Nat /\ Cardinality(closed) <= Cardinality(closed) + edits.closed
  <2>1. Cardinality(closed) \in Nat /\ edits.closed \in Nat
    BY ClosedCounts DEF SummaryTyped
  <2> QED BY <2>1, SMT
<1>4. CASE AskTotal
  <2>1. /\ pc["total"] = "total" /\ pc' = [pc EXCEPT !["total"] = "ended"]
        /\ \/ stats' = [stats EXCEPT !.total = Len(sprint)] /\ failed' = failed
           \/ stats' = stats /\ failed' = failed \cup {"total"}
    BY <1>4 DEF AskTotal, FetchTotal, FetchTotalFails, Ends
  <2>2. pc'["total"] = "ended" /\ \A g \in Goroutines \ {"total"} : pc'[g] = pc[g]
    BY <2>1 DEF Joined, Goroutines
  <2>3. Counted'
    BY <1>1, <1>2, <2>1, <2>2 DEF Counted, Goroutines, Asking
  <2>4. stats'.done = stats.done /\ ("total" \notin failed' => stats'.total = Len(sprint))
    BY <2>1 DEF SummaryTyped, Found
  <2>5. Answers'
    BY <1>1, <1>2, <2>1, <2>2, <2>4 DEF Answers, Goroutines
  <2> QED BY <2>3, <2>5
<1>5. CASE AskDone
  <2>1. /\ pc["done"] = "total" /\ pc' = [pc EXCEPT !["done"] = "ended"]
        /\ \/ stats' = [stats EXCEPT !.done = Cardinality(closed)] /\ failed' = failed
           \/ stats' = stats /\ failed' = failed \cup {"done"}
    BY <1>5 DEF AskDone, FetchDone, FetchDoneFails, Ends
  <2>2. pc'["done"] = "ended" /\ \A g \in Goroutines \ {"done"} : pc'[g] = pc[g]
    BY <2>1 DEF Joined, Goroutines
  <2>3. Counted'
    BY <1>1, <1>2, <2>1, <2>2 DEF Counted, Goroutines, Asking
  <2>4. stats'.total = stats.total /\ ("done" \notin failed' => stats'.done = Cardinality(closed))
    BY <2>1 DEF SummaryTyped, Found
  <2>5. Answers'
    BY <1>1, <1>2, <1>3, <2>1, <2>2, <2>4 DEF Answers, Goroutines
  <2> QED BY <2>3, <2>5
<1> QED BY <1>4, <1>5

\* The two requests for totals are started, and joined.
LEMMA JoiningCounts ==
  ASSUME Joined, SummaryTyped, Counted, Answers, Stats
  PROVE  Counted' /\ Answers'
<1>1. UNCHANGED <<request, sprint, closed, edits, stats, failed>> /\ (Edited' <=> Edited)
  BY DEF Stats, ForkStats, JoinStats, jira, Edited
<1>2. CASE ForkStats
  <2>1. /\ pc["stats"] = "fork" /\ summary' = summary
        /\ pc' = [pc EXCEPT !["stats"] = "wait", !["total"] = "total", !["done"] = "total"]
    BY <1>2 DEF ForkStats
  <2>2. pc'["stats"] = "wait" /\ pc'["total"] = "total" /\ pc'["done"] = "total" /\ pc'["main"] = pc["main"]
    BY <2>1 DEF Joined, Goroutines
  <2>3. pc["total"] = "off" /\ pc["done"] = "off"
    BY <2>1 DEF Counted
  <2>4. Counted'
    BY <1>1, <2>1, <2>2, <2>3 DEF Counted, Asking
  <2>5. Answers'
    BY <1>1, <2>1, <2>2 DEF Answers
  <2> QED BY <2>4, <2>5
<1>3. CASE JoinStats
  <2>1. /\ pc["stats"] = "wait" /\ wg.stats = 0 /\ pc' = [pc EXCEPT !["stats"] = "ended"]
        /\ summary' = IF "total" \in failed THEN summary ELSE [summary EXCEPT !.stats = stats]
    BY <1>3 DEF JoinStats, Ends
  <2>2. pc'["stats"] = "ended" /\ \A g \in Goroutines \ {"stats"} : pc'[g] = pc[g]
    BY <2>1 DEF Joined, Goroutines
  <2>3. pc["total"] = "ended" /\ pc["done"] = "ended"
    BY <2>1, SMT DEF Joined, Counted, One, Runs
  <2>4. summary'.scope = summary.scope /\ summary'.stats = IF "total" \in failed THEN summary.stats ELSE stats
    BY <2>1 DEF SummaryTyped, Summaries
  <2>5. Counted'
    BY <1>1, <2>2, <2>3, <2>4 DEF Counted, Asking, Goroutines
  <2>6. Answers'
    BY <1>1, <2>1, <2>2, <2>3, <2>4 DEF Answers, Goroutines
  <2> QED BY <2>5, <2>6
<1> QED BY <1>2, <1>3 DEF Stats

SummarySafe == Joined /\ PagesDrift /\ Counted /\ Answers

\* All of it together is inductive.
LEMMA SafeAlways == SummarySpec => []SummarySafe
<1>1. SummaryInit => SummarySafe
  BY JoinedAtFirst, DriftsAtFirst, CountsAtFirst DEF SummarySafe
<1>2. SummarySafe /\ [SummaryNext]_summaryVars => SummarySafe'
  <2> SUFFICES ASSUME SummarySafe, [SummaryNext]_summaryVars PROVE SummarySafe'
    OBVIOUS
  <2>1. Joined' /\ PagesDrift'
    BY StaysJoined, StaysInDrift DEF SummarySafe
  <2>2. Counted' /\ Answers'
    <3>1. Joined /\ SummaryTyped /\ Counted /\ Answers
      BY DEF SummarySafe, PagesDrift
    <3>2. CASE UNCHANGED summaryVars
      BY <3>1, <3>2 DEF summaryVars, jira, Counted, Answers, Asking, Edited
    <3> QED BY <3>1, <3>2, OthersCount, EditCounts, TotalsCount, JoiningCounts DEF SummaryNext
  <2> QED BY <2>1, <2>2 DEF SummarySafe
<1> QED BY <1>1, <1>2, PTL DEF SummarySpec

\* A list of the whole sprint shows as done what is closed.
LEMMA CountsClosed ==
  ASSUME SummaryTyped, IsServed(summary.issues, Len(sprint))
  PROVE  summary.issues = Serve(sprint) /\ Count(summary.issues) = Cardinality(closed)
<1> DEFINE list == summary.issues
<1>1. list \in Seq(Served) /\ sprint \in Seq(Issues) /\ IsInjective(sprint) /\ closed \subseteq Range(sprint)
  BY DEF SummaryTyped, Summaries
<1>2. Len(list) = Len(sprint) /\ \A m \in 1..Len(sprint) : list[m] = [issue |-> sprint[m], done |-> sprint[m] \in closed]
  BY DEF IsServed
<1> HIDE DEF list
<1>3. DOMAIN list = 1..Len(sprint) /\ DOMAIN sprint = 1..Len(sprint) /\ list = [n \in DOMAIN list |-> list[n]]
  BY <1>1, <1>2, SMT
<1>4. list = Serve(sprint)
  BY <1>2, <1>3 DEF Serve
<1> DEFINE D == {n \in DOMAIN list : list[n].done}
           f == [n \in D |-> sprint[n]]
<1>5. \A n \in DOMAIN list : list[n].done <=> sprint[n] \in closed
  <2> TAKE n \in DOMAIN list
  <2>1. list[n] = [issue |-> sprint[n], done |-> sprint[n] \in closed]
    BY <1>2, <1>3
  <2> QED BY <2>1, FieldsServed, Zenon
<1>6. f \in Bijection(D, closed)
  <2>1. f \in [D -> closed]
    BY <1>5
  <2>2. \A m, n \in D : f[m] = f[n] => m = n
    BY <1>1, <1>3 DEF IsInjective
  <2>3. \A i \in closed : \E n \in D : f[n] = i
    BY <1>1, <1>3, <1>5 DEF Range
  <2> QED BY <2>1, <2>2, <2>3 DEF Bijection, Injection, Surjection, IsInjective
<1>7. IsFiniteSet(D)
  <2>1. D \subseteq 1..Len(sprint) /\ Len(sprint) \in Int /\ 1 \in Int
    BY <1>1, <1>3, SMT
  <2> QED BY <2>1, FS_Interval, FS_Subset
<1>8. Cardinality(D) = Cardinality(closed)
  <2>1. ExistsBijection(D, closed)
    BY <1>6 DEF ExistsBijection
  <2> QED BY <1>7, <2>1, FS_Bijection
<1> QED BY <1>4, <1>8 DEF Count, list

\* A list that nobody touches is shown as it is, whatever the page size, with the
\* total and the number of done issues that were asked for separately.
THEOREM UndisturbedIsExact == SummarySpec => []UndisturbedSummaryIsExact
<1>1. ASSUME SummarySafe, Answered, ~Edited
      PROVE  /\ summary.issues = Serve(sprint)
             /\ request = "summary" => summary.total = Len(sprint)
             /\ request = "summary" /\ summary.scope = "sprint" /\ failed = {} =>
                  summary.stats = [total |-> Len(sprint), done |-> Count(summary.issues)]
  <2>1. Joined /\ SummaryTyped /\ Paged
    BY <1>1, AnsweredPaged DEF SummarySafe, PagesDrift
  <2>2. /\ IsServed(summary.issues, Len(sprint))
        /\ request = "summary" => summary.total = Len(sprint)
    BY <1>1, <2>1 DEF SummarySafe, PagesDrift, AfterPaging
  <2>3. summary.issues = Serve(sprint) /\ Count(summary.issues) = Cardinality(closed)
    BY <2>1, <2>2, CountsClosed
  <2>4. ASSUME request = "summary", summary.scope = "sprint", failed = {}
        PROVE  summary.stats = [total |-> Len(sprint), done |-> Cardinality(closed)]
    <3>1. pc["stats"] = "ended" /\ pc["total"] = "ended" /\ pc["done"] = "ended"
      <4>1. pc["main"] = "ended"
        BY <1>1 DEF Answered
      <4>2. pc["stats"] \in {"off", "ended"} /\ pc["stats"] # "off"
        BY <1>1, <2>4, <4>1 DEF SummarySafe, Joined, Counted, Asking, Runs, Goroutines
      <4> QED BY <1>1, <4>2 DEF SummarySafe, Counted
    <3>2. summary.stats = stats /\ stats.total = Len(sprint) /\ stats.done = Cardinality(closed)
      BY <1>1, <2>4, <3>1 DEF SummarySafe, Answers
    <3>3. stats = [total |-> stats.total, done |-> stats.done]
      BY <2>1 DEF SummaryTyped, Found
    <3> QED BY <3>2, <3>3
  <2> QED BY <2>2, <2>3, <2>4
<1>2. SummarySafe => UndisturbedSummaryIsExact
  BY <1>1 DEF UndisturbedSummaryIsExact
<1> QED BY <1>2, SafeAlways, PTL

-----------------------------------------------------------------------------
\* A page has nothing to show when no place of the summary is shown.
LEMMA NoNodes == \A places : Nodes(places) = <<>> <=> places = {}
<1>1. \A places : DOMAIN Nodes(places) = places
  BY DEF Nodes
<1>2. DOMAIN <<>> = {}
  BY EmptyServed
<1>3. Nodes({}) = <<>>
  BY SMT DEF Nodes
<1> QED BY <1>1, <1>2, <1>3

\* The pages of a board claim that everything is done, or show an empty panel, no
\* progress or a list cut short, only because Jira failed or the list was edited
\* while it was read: for any number of issues, page size and edits.
THEOREM EmptyPagesAreExplained == SummarySpec => []EmptyPageErrsOnlyByFaults
<1>1. ASSUME SummarySafe, Shown PROVE EmptyPageErrsOnlyByFaults
  <2> DEFINE list == summary.issues
             left == Range(began) \cap Range(sprint)
  <2>1. Joined /\ SummaryTyped /\ request = "summary" /\ pc["main"] = "ended" /\ "main" \notin failed
    BY <1>1 DEF SummarySafe, PagesDrift, Shown
  <2>2. "issues" \notin failed => Paged
    BY <2>1, AnsweredPaged DEF Answered
  <2>3. Paged => Cardinality(Missed(list, {})) <= edits.removed /\ Cardinality(Reopened(list)) <= edits.added
    BY <1>1 DEF SummarySafe, PagesDrift, AfterPaging, Drift
  <2>4. /\ Range(began) \subseteq Issues /\ Range(sprint) \subseteq Issues
        /\ edits.added \in Nat /\ edits.removed \in Nat /\ edits.closed \in Nat
    BY <2>1, RangeIn DEF SummaryTyped
  <2>5. /\ IsFiniteSet(Missed(list, {})) /\ Cardinality(Missed(list, {})) \in Nat
        /\ IsFiniteSet(Reopened(list)) /\ Cardinality(Reopened(list)) \in Nat
    <3>1. Missed(list, {}) \subseteq Issues /\ Reopened(list) \subseteq Issues
      BY <2>4 DEF Missed, Reopened
    <3> QED BY <3>1, IssuesFinite
  <2>6. Cardinality(Missed(list, {}) \cup Reopened(list)) <= Cardinality(Missed(list, {})) + Cardinality(Reopened(list))
    <3>1. /\ Cardinality(Missed(list, {}) \cup Reopened(list)) =
               Cardinality(Missed(list, {})) + Cardinality(Reopened(list)) - Cardinality(Missed(list, {}) \cap Reopened(list))
          /\ IsFiniteSet(Missed(list, {}) \cap Reopened(list))
      BY <2>5, FS_Union, FS_Intersection
    <3>2. Cardinality(Missed(list, {}) \cap Reopened(list)) \in Nat
      BY <3>1, FS_CardinalityType
    <3> QED BY <2>5, <3>1, <3>2, SMT
  <2>7. ASSUME NEW T, T \subseteq Missed(list, {}) \cup Reopened(list), Paged
        PROVE  Cardinality(T) <= edits.removed + edits.added
    <3>1. IsFiniteSet(Missed(list, {}) \cup Reopened(list))
      BY <2>5, FS_Union
    <3>2. /\ Cardinality(T) \in Nat /\ Cardinality(Missed(list, {}) \cup Reopened(list)) \in Nat
          /\ Cardinality(T) <= Cardinality(Missed(list, {}) \cup Reopened(list))
      BY <2>7, <3>1, NoMore
    <3> QED BY <2>3, <2>4, <2>5, <2>6, <2>7, <3>2, SMT
  <2>8. ASSUME EverythingIsDone, "issues" \notin failed
        PROVE  Cardinality(left \ closed) <= edits.removed + edits.added
    <3>1. \A n \in DOMAIN list : list[n].done
      BY <2>8, NoNodes DEF EverythingIsDone, RemainingView, Undone, Everything
    <3>2. left \ closed \subseteq Missed(list, {}) \cup Reopened(list)
      BY <3>1 DEF Missed, Reopened, Listed
    <3> QED BY <2>2, <2>7, <2>8, <3>2
  <2>9. ASSUME PanelIsBare, "issues" \notin failed
        PROVE  Cardinality(left) <= edits.removed + edits.added
    <3>1. Listed(list) = {}
      BY <2>9, EmptyServed DEF PanelIsBare
    <3>2. left \subseteq Missed(list, {}) \cup Reopened(list)
      BY <3>1 DEF Missed
    <3> QED BY <2>2, <2>7, <2>9, <3>2
  <2>10. ASSUME Progress = "nothing done", "done" \notin failed
         PROVE  Cardinality(closed) <= edits.closed
    <3>1. summary.stats.total # 0 /\ summary.stats.done = 0
      BY <2>10 DEF Progress
    <3>2. pc["stats"] = "ended" /\ summary.stats = stats
      BY <1>1, <3>1 DEF SummarySafe, Answers, NoStats
    <3>3. Cardinality(closed) <= stats.done + edits.closed
      BY <1>1, <2>10, <3>2 DEF SummarySafe, Counted, Answers
    <3> QED BY <2>4, <3>1, <3>2, <3>3, SMT
  <2>11. ASSUME HasMore PROVE "issues" \in failed /\ IssuesView.nodes = <<>>
    <3>1. ~Paged
      <4>1. Paged => summary.total <= Len(list)
        BY <1>1 DEF SummarySafe, PagesDrift, AfterPaging
      <4>2. summary.total \in Nat /\ Len(list) \in Nat
        BY <2>1, SMT DEF SummaryTyped, Summaries
      <4> QED BY <2>11, <4>1, <4>2, SMT DEF HasMore
    <3>2. list = <<>>
      BY <1>1, <3>1 DEF SummarySafe, PagesDrift, AfterPaging
    <3>3. Everything = {}
      BY <3>2, EmptyServed DEF Everything
    <3> QED BY <2>2, <3>1, <3>3, NoNodes DEF IssuesView
  <2> QED BY <2>8, <2>9, <2>10, <2>11 DEF EmptyPageErrsOnlyByFaults
<1>2. SummarySafe => EmptyPageErrsOnlyByFaults
  BY <1>1 DEF EmptyPageErrsOnlyByFaults
<1> QED BY <1>2, SafeAlways, PTL

-----------------------------------------------------------------------------
(***************************************************************************)
(* The dialog. As long as no answer of an earlier opening has come, an     *)
(* opening waits for its load, then for the user, then for a submission,   *)
(* and never for two of them.                                              *)
(***************************************************************************)
\* What the dialog holds when it has been filled for its own ticket and no
\* execution of it was listed.
Ready ==
  /\ dialog.detail = dialog.key /\ dialog.fields = dialog.key
  /\ ~dialog.notice /\ knows.seen = {}

NoLoadPending == \A l \in Loads : loads[l].to # "opening"
NoPostPending == \A p \in Posts : posts[p].to # "opening"

\* The load of this opening is for its ticket.
LoadFits ==
  \A l \in Loads : loads[l].to = "opening" =>
    /\ loads[l].key = dialog.key
    /\ ~dialog.enabled \/ knows.late
    /\ \A m \in Loads : loads[m].to = "opening" => m = l

\* Until a late answer: the button is enabled when the dialog is ready and
\* nothing is out, and a submission is out of a ready dialog.
Undisturbed ==
  dialog.open /\ ~knows.late =>
    /\ dialog.enabled => Ready /\ NoLoadPending /\ NoPostPending
    /\ ~NoPostPending => Ready /\ NoLoadPending
    /\ dialog.notice => NoPostPending
    /\ ~NoLoadPending => ~dialog.notice

Truthful ==
  \A p \in Posts : posts[p].state = "sent" /\ ~posts[p].knew.late =>
    /\ posts[p].repo = posts[p].key /\ posts[p].prompt = posts[p].key
    /\ posts[p].knew.seen = {}

Safe == TypeOK /\ LoadFits /\ Undisturbed /\ OneSubmissionPerOpening /\ Truthful

\* Closing forgets everything but the fields; an open dialog stays as it is.
LEMMA SettledTyped ==
  ASSUME NEW d \in Dialogs
  PROVE  /\ Settled(d) \in Dialogs
         /\ Settled(d).open = d.open
         /\ d.open => Settled(d) = d
<1>1. CASE d.open
  BY <1>1 DEF Settled
<1>2. CASE ~d.open
  <2>1. Settled(d) = Shows(FALSE, None, None, d.fields, FALSE, TRUE)
    BY <1>2 DEF Settled
  <2>2. d.fields \in Name /\ d.open = FALSE
    BY <1>2, SMT DEF Dialogs
  <2>3. Shows(FALSE, None, None, d.fields, FALSE, TRUE) \in Dialogs
    BY <2>2, SMT DEF Shows, Dialogs, Name
  <2>4. Shows(FALSE, None, None, d.fields, FALSE, TRUE).open = FALSE
    BY SMT DEF Shows
  <2> QED BY <1>2, <2>1, <2>2, <2>3, <2>4
<1> QED BY <1>1, <1>2

\* What a slot holds that is not in use.
LEMMA BlanksTyped ==
  /\ ClosedDialog \in Dialogs /\ ~ClosedDialog.open /\ KnowsNothing \in Knowledge
  /\ NoLoad \in LoadRecord /\ NoLoad.to = "nobody"
  /\ NoPost \in PostRecord /\ NoPost.state = "none" /\ NoPost.to = "nobody"
BY SMT DEF ClosedDialog, Shows, Load, Dialogs, KnowsNothing, Knowledge, NoLoad, LoadRecord, NoPost,
   PostRecord, Name, Waiting

\* A page with its dialog closed is safe.
LEMMA InitSafe == Init => Safe
<1> SUFFICES ASSUME Init PROVE Safe
  OBVIOUS
<1>1. TypeOK
  BY BlanksTyped, SMT DEF Init, TypeOK, Name
<1>2. LoadFits /\ OneSubmissionPerOpening /\ Truthful /\ Undisturbed
  BY BlanksTyped, SMT DEF Init, LoadFits, OneSubmissionPerOpening, Truthful, Undisturbed
<1> QED BY <1>1, <1>2 DEF Safe

\* A dialog is opened: nothing is out but its load.
LEMMA OpenSafe ==
  ASSUME Safe, NEW key \in Tickets, NEW l \in Loads, Open(key, l)
  PROVE  Safe'
<1> DEFINE fresh == Load(key, {}, FALSE, "opening")
<1>1. fresh \in LoadRecord /\ fresh.to = "opening" /\ fresh.key = key
  BY SMT DEF Load, LoadRecord, Name, Waiting
<1>2. /\ dialog' \in Dialogs /\ dialog'.open /\ dialog'.key = key
      /\ ~dialog'.enabled /\ ~dialog'.notice
  BY SMT DEF Safe, TypeOK, Open, Shows, Dialogs, Name
<1>3. /\ loads' = [loads EXCEPT ![l] = fresh]
      /\ knows' = KnowsNothing /\ posts' = posts /\ execs' = execs
  BY DEF Open
<1>4. /\ \A m \in Loads : loads[m].to # "opening"
      /\ \A p \in Posts : posts[p].to # "opening"
  BY DEF Safe, TypeOK, Open
<1> HIDE DEF fresh
<1>5. /\ \A m \in Loads : loads'[m].to = "opening" => m = l
      /\ loads'[l] = fresh
  BY <1>1, <1>3, <1>4, SMT DEF Safe, TypeOK
<1>6. TypeOK'
  BY <1>1, <1>2, <1>3, BlanksTyped, SMT DEF Safe, TypeOK
<1>7. LoadFits'
  BY <1>1, <1>2, <1>5, SMT DEF LoadFits
<1>8. Undisturbed' /\ OneSubmissionPerOpening'
  BY <1>2, <1>3, <1>4, SMT DEF Undisturbed, OneSubmissionPerOpening, NoPostPending
<1>9. Truthful'
  BY DEF Safe, Truthful, Open
<1> QED BY <1>6, <1>7, <1>8, <1>9 DEF Safe

\* The list of a load is read on the runner, and the page sees nothing of it.
LEMMA ListSafe ==
  ASSUME Safe, NEW l \in Loads, NEW ok \in BOOLEAN, List(l, ok)
  PROVE  Safe'
<1> DEFINE active == IF ok THEN ActiveOf(loads[l].key) ELSE {}
           new == Load(loads[l].key, active, TRUE, loads[l].to)
<1>1. active \in SUBSET ExecIds
  BY DEF ActiveOf
<1> HIDE DEF active
<1>2. new \in LoadRecord /\ new.to = loads[l].to /\ new.key = loads[l].key
  <2>1. loads[l] \in LoadRecord
    BY DEF Safe, TypeOK
  <2> QED BY <1>1, <2>1, SMT DEF Load, LoadRecord
<1>3. loads' = [loads EXCEPT ![l] = new] /\ UNCHANGED <<dialog, posts, execs, knows>>
  BY DEF List, active
<1> HIDE DEF new
<1>4. \A m \in Loads : loads'[m].to = loads[m].to /\ loads'[m].key = loads[m].key
  BY <1>2, <1>3, SMT DEF Safe, TypeOK
<1>5. TypeOK'
  BY <1>2, <1>3, <1>4, SMT DEF Safe, TypeOK
<1>6. LoadFits'
  BY <1>3, <1>4, SMT DEF Safe, LoadFits
<1>7. Undisturbed'
  BY <1>3, <1>4, SMT DEF Safe, Undisturbed, NoLoadPending, NoPostPending, Ready
<1>8. OneSubmissionPerOpening' /\ Truthful'
  BY <1>3, SMT DEF Safe, OneSubmissionPerOpening, Truthful
<1> QED BY <1>5, <1>6, <1>7, <1>8 DEF Safe

\* After the opening, nothing is out for it.
LEMMA OutlivedTyped ==
  ASSUME TypeOK
  PROVE  /\ Outlived(loads) \in [Loads -> LoadRecord]
         /\ \A l \in Loads : Outlived(loads)[l].to # "opening"
         /\ Outlived(posts) \in [Posts -> PostRecord]
         /\ \A p \in Posts : /\ Outlived(posts)[p].to # "opening"
                             /\ Outlived(posts)[p].to = "nobody" => posts[p].to = "nobody"
                             /\ \A f \in {"state", "key", "repo", "prompt", "knew"} :
                                  Outlived(posts)[p][f] = posts[p][f]
<1>1. DOMAIN loads = Loads /\ DOMAIN posts = Posts
  BY DEF TypeOK
<1>2. ASSUME NEW l \in Loads
      PROVE  Outlived(loads)[l] \in LoadRecord /\ Outlived(loads)[l].to # "opening"
  <2>1. loads[l] \in LoadRecord
    BY DEF TypeOK
  <2>2. Outlived(loads)[l] = IF loads[l].to = "opening" THEN [loads[l] EXCEPT !.to = "page"]
                             ELSE loads[l]
    BY <1>1 DEF Outlived
  <2>3. CASE loads[l].to = "opening"
    <3>1. [loads[l] EXCEPT !.to = "page"] \in LoadRecord
      BY <2>1, SMT DEF LoadRecord, Waiting
    <3>2. [loads[l] EXCEPT !.to = "page"].to = "page"
      BY <2>1, SMT DEF LoadRecord
    <3> QED BY <2>2, <2>3, <3>1, <3>2
  <2> QED BY <2>1, <2>2, <2>3
<1>3. ASSUME NEW p \in Posts
      PROVE  /\ Outlived(posts)[p] \in PostRecord
             /\ Outlived(posts)[p].to # "opening"
             /\ Outlived(posts)[p].to = "nobody" => posts[p].to = "nobody"
             /\ \A f \in {"state", "key", "repo", "prompt", "knew"} :
                  Outlived(posts)[p][f] = posts[p][f]
  <2>1. posts[p] \in PostRecord
    BY DEF TypeOK
  <2>2. Outlived(posts)[p] = IF posts[p].to = "opening" THEN [posts[p] EXCEPT !.to = "page"]
                             ELSE posts[p]
    BY <1>1 DEF Outlived
  <2>3. CASE posts[p].to = "opening"
    <3>1. [posts[p] EXCEPT !.to = "page"] \in PostRecord
      BY <2>1, SMT DEF PostRecord, Waiting
    <3>2. /\ [posts[p] EXCEPT !.to = "page"].to = "page"
          /\ \A f \in {"state", "key", "repo", "prompt", "knew"} :
               [posts[p] EXCEPT !.to = "page"][f] = posts[p][f]
      BY <2>1, SMT DEF PostRecord
    <3> QED BY <2>2, <2>3, <3>1, <3>2
  <2> QED BY <2>1, <2>2, <2>3
<1>4. /\ Outlived(loads) = [l \in Loads |-> Outlived(loads)[l]]
      /\ Outlived(posts) = [p \in Posts |-> Outlived(posts)[p]]
  BY <1>1 DEF Outlived
<1> QED BY <1>2, <1>3, <1>4

\* The dialog is closed.
LEMMA CloseSafe ==
  ASSUME Safe, Close
  PROVE  Safe'
<1>1. /\ [dialog EXCEPT !.open = FALSE] \in Dialogs
      /\ [dialog EXCEPT !.open = FALSE].open = FALSE
  <2>1. dialog \in Dialogs
    BY DEF Safe, TypeOK
  <2>2. [dialog EXCEPT !.open = FALSE] \in Dialogs
    BY <2>1, Zenon DEF Dialogs
  <2>3. [dialog EXCEPT !.open = FALSE].open = FALSE
    BY <2>1, Zenon DEF Dialogs
  <2> QED BY <2>2, <2>3
<1>2. dialog' \in Dialogs /\ dialog'.open = FALSE
  BY <1>1, SettledTyped DEF Close
<1>3. /\ knows' = KnowsNothing /\ execs' = execs
      /\ loads' = Outlived(loads) /\ posts' = Outlived(posts)
  BY DEF Close
<1>4. \A l \in Loads : loads'[l].to # "opening"
  BY <1>3, OutlivedTyped DEF Safe
<1>5. \A p \in Posts :
        /\ posts'[p].to # "opening"
        /\ posts'[p].to = "nobody" => posts[p].to = "nobody"
        /\ posts'[p]["state"] = posts[p]["state"] /\ posts'[p]["key"] = posts[p]["key"]
        /\ posts'[p]["repo"] = posts[p]["repo"] /\ posts'[p]["prompt"] = posts[p]["prompt"]
        /\ posts'[p]["knew"] = posts[p]["knew"]
  BY <1>3, OutlivedTyped DEF Safe
<1>6. loads' \in [Loads -> LoadRecord] /\ posts' \in [Posts -> PostRecord]
  BY <1>3, OutlivedTyped DEF Safe
<1>7. TypeOK'
  BY <1>2, <1>3, <1>4, <1>5, <1>6, BlanksTyped DEF Safe, TypeOK
<1>8. LoadFits' /\ Undisturbed' /\ OneSubmissionPerOpening'
  BY <1>2, <1>4, <1>5 DEF LoadFits, Undisturbed, OneSubmissionPerOpening
<1>9. Truthful'
  BY <1>5 DEF Safe, Truthful
<1> QED BY <1>7, <1>8, <1>9 DEF Safe

\* The page is left: only submissions on their way to the runner remain.
LEMMA LeavingSafe ==
  ASSUME Safe, Leaving
  PROVE  Safe'
<1>1. /\ dialog' = ClosedDialog /\ knows' = KnowsNothing /\ execs' = execs
      /\ loads' = [l \in Loads |-> NoLoad]
  BY DEF Leaving
<1>2. ASSUME NEW p \in Posts
      PROVE  \/ posts'[p] = NoPost
             \/ /\ posts'[p] \in PostRecord /\ posts'[p].to = "nobody"
                /\ posts[p].state = "sent" /\ posts'[p].state = "sent"
                /\ posts'[p].key = posts[p].key /\ posts'[p].repo = posts[p].repo
                /\ posts'[p].prompt = posts[p].prompt /\ posts'[p].knew = posts[p].knew
  <2>1. posts[p] \in PostRecord
    BY DEF Safe, TypeOK
  <2>2. posts'[p] = IF posts[p].state # "sent" THEN NoPost
                    ELSE [posts[p] EXCEPT !.to = "nobody"]
    BY DEF Leaving
  <2>3. [posts[p] EXCEPT !.to = "nobody"] \in PostRecord
    BY <2>1, SMT DEF PostRecord, Waiting
  <2>4. /\ [posts[p] EXCEPT !.to = "nobody"].to = "nobody"
        /\ [posts[p] EXCEPT !.to = "nobody"].state = posts[p].state
        /\ [posts[p] EXCEPT !.to = "nobody"].key = posts[p].key
        /\ [posts[p] EXCEPT !.to = "nobody"].repo = posts[p].repo
        /\ [posts[p] EXCEPT !.to = "nobody"].prompt = posts[p].prompt
        /\ [posts[p] EXCEPT !.to = "nobody"].knew = posts[p].knew
    BY <2>1, SMT DEF PostRecord
  <2> QED BY <2>2, <2>3, <2>4
<1>3. posts' = [p \in Posts |-> posts'[p]]
  BY DEF Leaving
<1>4. \A p \in Posts : posts'[p].to = "nobody" /\ posts'[p].state \in {"none", "sent"}
  BY <1>2, BlanksTyped
<1>5. TypeOK'
  <2>1. posts' \in [Posts -> PostRecord]
    BY <1>2, <1>3, BlanksTyped
  <2> QED BY <1>1, <1>4, <2>1, BlanksTyped, SMT DEF Safe, TypeOK
<1>6. LoadFits' /\ Undisturbed' /\ OneSubmissionPerOpening'
  BY <1>1, <1>4, BlanksTyped, SMT DEF LoadFits, Undisturbed, OneSubmissionPerOpening
<1>7. Truthful'
  BY <1>2, BlanksTyped DEF Safe, Truthful
<1> QED BY <1>5, <1>6, <1>7 DEF Safe

\* What the user of the dialog has learned stays well formed, and is what the
\* answer says, or that it is late, when the dialog is open.
LEMMA Learned ==
  ASSUME TypeOK, NEW to \in Waiting \ {"nobody"}, NEW seen \in SUBSET ExecIds,
         Learn(to, seen)
  PROVE  /\ knows' \in Knowledge
         /\ dialog.open /\ to = "opening" => knows'.late = knows.late /\ knows'.seen = seen
         /\ dialog.open /\ to = "page" => knows'.late = TRUE
<1>1. knows \in Knowledge
  BY DEF TypeOK
<1>2. CASE ~dialog.open
  BY <1>1, <1>2 DEF Learn
<1>3. CASE dialog.open /\ to = "opening"
  <2>1. knows' = [knows EXCEPT !.seen = seen]
    BY <1>3 DEF Learn
  <2>2. [knows EXCEPT !.seen = seen] \in Knowledge
    BY <1>1, SMT DEF Knowledge
  <2>3. /\ [knows EXCEPT !.seen = seen].seen = seen
        /\ [knows EXCEPT !.seen = seen].late = knows.late
    BY <1>1, SMT DEF Knowledge
  <2> QED BY <1>3, <2>1, <2>2, <2>3
<1>4. CASE dialog.open /\ to = "page"
  <2>1. knows' = [knows EXCEPT !.late = TRUE]
    BY <1>4 DEF Learn
  <2>2. [knows EXCEPT !.late = TRUE] \in Knowledge
    BY <1>1, Zenon DEF Knowledge
  <2>3. [knows EXCEPT !.late = TRUE].late = TRUE
    BY <1>1, Zenon DEF Knowledge
  <2> QED BY <1>4, <2>1, <2>2, <2>3
<1> QED BY <1>2, <1>3, <1>4 DEF Waiting

\* A load is over.
LEMMA LoadGone ==
  ASSUME TypeOK, NEW l \in Loads, loads' = [loads EXCEPT ![l] = NoLoad]
  PROVE  /\ loads' \in [Loads -> LoadRecord]
         /\ loads'[l] = NoLoad
         /\ \A m \in Loads : m # l => loads'[m] = loads[m]
         /\ \A m \in Loads : loads'[m].to = "opening" => m # l /\ loads[m].to = "opening"
BY BlanksTyped, SMT DEF TypeOK

\* The answers to a load fill the dialog.
LEMMA ShowSafe ==
  ASSUME Safe, NEW l \in Loads, Show(l)
  PROVE  Safe'
<1> DEFINE notice == dialog.notice \/ loads[l].active # {}
           enabled == dialog.enabled \/ loads[l].active = {}
           d == Shows(dialog.open, dialog.key, loads[l].key, loads[l].key, notice, enabled)
<1>1. loads[l] \in LoadRecord /\ dialog \in Dialogs
  BY DEF Safe, TypeOK
<1>2. /\ loads[l].key \in Name /\ loads[l].active \in SUBSET ExecIds
      /\ loads[l].to \in {"opening", "page"}
      /\ dialog.key \in Name /\ dialog.open \in BOOLEAN
  BY <1>1, SMT DEF Show, LoadRecord, Dialogs, Waiting
<1>3. notice \in BOOLEAN /\ enabled \in BOOLEAN
  BY SMT
<1>4. dialog' = Settled(d) /\ UNCHANGED <<posts, execs>>
  BY DEF Show
<1> HIDE DEF notice, enabled
<1>5. d \in Dialogs /\ d.open = dialog.open
  BY <1>2, <1>3, SMT DEF Shows, Dialogs
<1>6. /\ d.key = dialog.key /\ d.detail = loads[l].key /\ d.fields = loads[l].key
      /\ d.notice = notice /\ d.enabled = enabled
  BY DEF Shows
<1> HIDE DEF d
<1>7. /\ dialog' \in Dialogs /\ dialog'.open = dialog.open
      /\ dialog.open => dialog' = d
  BY <1>4, <1>5, SettledTyped
<1>8. /\ knows' \in Knowledge
      /\ dialog.open /\ loads[l].to = "opening" =>
           knows'.late = knows.late /\ knows'.seen = loads[l].active
      /\ dialog.open /\ loads[l].to = "page" => knows'.late = TRUE
  BY <1>2, Learned DEF Safe, Show, Waiting
<1>9. /\ loads' \in [Loads -> LoadRecord]
      /\ \A m \in Loads : m # l => loads'[m] = loads[m]
      /\ \A m \in Loads : loads'[m].to = "opening" => m # l /\ loads[m].to = "opening"
  BY LoadGone DEF Safe, Show
<1>10. TypeOK'
  BY <1>4, <1>7, <1>8, <1>9 DEF Safe, TypeOK
<1>11. Truthful'
  BY <1>4 DEF Safe, Truthful
<1>12. CASE ~dialog.open
  <2>1. NoLoadPending' /\ NoPostPending' /\ ~dialog'.open
    BY <1>12, <1>10, <1>7 DEF TypeOK, NoLoadPending, NoPostPending
  <2> QED BY <1>10, <1>11, <2>1
          DEF Safe, LoadFits, Undisturbed, OneSubmissionPerOpening, NoLoadPending, NoPostPending
<1>13. CASE dialog.open /\ loads[l].to = "opening"
  <2>1. NoLoadPending'
    BY <1>9, <1>13 DEF Safe, LoadFits, NoLoadPending
  <2>2. ASSUME ~knows'.late
        PROVE  NoPostPending' /\ (dialog'.enabled => Ready')
    <3>1. ~knows.late /\ ~NoLoadPending
      BY <1>8, <1>13, <2>2 DEF NoLoadPending
    <3>2. NoPostPending /\ ~dialog.notice
      BY <1>13, <3>1 DEF Safe, Undisturbed
    <3>3. loads[l].key = dialog.key /\ ~dialog.enabled
      BY <1>13, <3>1 DEF Safe, LoadFits
    <3>4. dialog'.enabled => loads[l].active = {}
      BY <1>6, <1>7, <1>13, <3>3 DEF enabled
    <3>5. loads[l].active = {} => ~dialog'.notice
      BY <1>6, <1>7, <1>13, <3>2 DEF notice
    <3>6. dialog'.detail = dialog'.key /\ dialog'.fields = dialog'.key
      BY <1>6, <1>7, <1>13, <3>3
    <3> QED BY <1>4, <1>8, <1>13, <3>2, <3>4, <3>5, <3>6 DEF Ready, NoPostPending
  <2>3. OneSubmissionPerOpening'
    BY <1>4, <1>8, <1>13 DEF Safe, OneSubmissionPerOpening
  <2> QED BY <1>10, <1>11, <2>1, <2>2, <2>3 DEF Safe, LoadFits, Undisturbed, NoLoadPending
<1>14. CASE dialog.open /\ loads[l].to = "page"
  <2>1. knows'.late = TRUE /\ dialog'.key = dialog.key
    BY <1>6, <1>7, <1>8, <1>14
  <2>2. LoadFits'
    BY <1>9, <2>1 DEF Safe, LoadFits
  <2> QED BY <1>10, <1>11, <2>1, <2>2 DEF Safe, Undisturbed, OneSubmissionPerOpening
<1> QED BY <1>2, <1>12, <1>13, <1>14

\* A load has failed: nothing is filled, but the notice may appear.
LEMMA LoadFailsSafe ==
  ASSUME Safe, NEW l \in Loads, LoadFails(l)
  PROVE  Safe'
<1>1. loads[l] \in LoadRecord /\ dialog \in Dialogs /\ knows \in Knowledge
  BY DEF Safe, TypeOK
<1>2. loads[l].to \in {"opening", "page"} /\ knows.seen \in SUBSET ExecIds
  BY <1>1, SMT DEF LoadFails, LoadRecord, Waiting, Knowledge
<1>3. UNCHANGED <<posts, execs>>
  BY DEF LoadFails
<1>4. /\ dialog' \in Dialogs /\ dialog'.open = dialog.open
      /\ dialog.open => dialog'.key = dialog.key /\ dialog'.enabled = dialog.enabled
  <2> DEFINE notice == dialog.notice \/ loads[l].active # {}
             d == [dialog EXCEPT !.notice = notice]
  <2>1. CASE UNCHANGED dialog
    BY <1>1, <2>1
  <2>2. CASE dialog' = Settled(d)
    <3>1. notice \in BOOLEAN
      BY SMT
    <3> HIDE DEF notice
    <3>2. d \in Dialogs
      BY <1>1, <3>1, Zenon DEF Dialogs
    <3>3. d.open = dialog.open /\ d.key = dialog.key /\ d.enabled = dialog.enabled
      BY <1>1, Zenon DEF Dialogs
    <3> HIDE DEF d
    <3> QED BY <2>2, <3>2, <3>3, SettledTyped
  <2> QED BY <2>1, <2>2 DEF LoadFails
<1>5. /\ knows' \in Knowledge
      /\ dialog.open /\ loads[l].to = "opening" => knows'.late = knows.late
      /\ dialog.open /\ loads[l].to = "page" => knows'.late = TRUE
  BY <1>2, Learned DEF Safe, LoadFails, Waiting
<1>6. /\ loads' \in [Loads -> LoadRecord]
      /\ \A m \in Loads : m # l => loads'[m] = loads[m]
      /\ \A m \in Loads : loads'[m].to = "opening" => m # l /\ loads[m].to = "opening"
  BY LoadGone DEF Safe, LoadFails
<1>7. TypeOK'
  BY <1>3, <1>4, <1>5, <1>6 DEF Safe, TypeOK
<1>8. Truthful'
  BY <1>3 DEF Safe, Truthful
<1>9. CASE ~dialog.open
  <2>1. NoLoadPending' /\ NoPostPending' /\ ~dialog'.open
    BY <1>4, <1>7, <1>9 DEF TypeOK, NoLoadPending, NoPostPending
  <2> QED BY <1>7, <1>8, <2>1
          DEF Safe, LoadFits, Undisturbed, OneSubmissionPerOpening, NoLoadPending, NoPostPending
<1>10. CASE dialog.open /\ loads[l].to = "opening"
  <2>1. NoLoadPending'
    BY <1>6, <1>10 DEF Safe, LoadFits, NoLoadPending
  <2>2. ASSUME ~knows'.late
        PROVE  NoPostPending' /\ ~dialog'.enabled
    <3>1. ~knows.late /\ ~NoLoadPending
      BY <1>5, <1>10, <2>2 DEF NoLoadPending
    <3>2. NoPostPending
      BY <1>10, <3>1 DEF Safe, Undisturbed
    <3>3. ~dialog.enabled
      BY <1>10, <3>1 DEF Safe, LoadFits
    <3> QED BY <1>3, <1>4, <1>10, <3>2, <3>3 DEF NoPostPending
  <2>3. OneSubmissionPerOpening'
    BY <1>3, <1>5, <1>10 DEF Safe, OneSubmissionPerOpening
  <2> QED BY <1>7, <1>8, <2>1, <2>2, <2>3 DEF Safe, LoadFits, Undisturbed, NoLoadPending
<1>11. CASE dialog.open /\ loads[l].to = "page"
  <2>1. knows'.late = TRUE /\ dialog'.key = dialog.key
    BY <1>4, <1>5, <1>11
  <2>2. LoadFits'
    BY <1>6, <2>1 DEF Safe, LoadFits
  <2> QED BY <1>7, <1>8, <2>1, <2>2 DEF Safe, Undisturbed, OneSubmissionPerOpening
<1> QED BY <1>2, <1>9, <1>10, <1>11

\* The user submits: what goes out is what the dialog holds.
LEMMA SubmitSafe ==
  ASSUME Safe, NEW p \in Posts, Submit(p)
  PROVE  Safe'
<1> DEFINE d == [dialog EXCEPT !.enabled = FALSE]
<1>1. dialog \in Dialogs /\ knows \in Knowledge /\ posts \in [Posts -> PostRecord]
  BY DEF Safe, TypeOK
<1>2. d \in Dialogs
  BY <1>1, Zenon DEF Dialogs
<1>3. /\ d.open = dialog.open /\ d.key = dialog.key /\ d.detail = dialog.detail
      /\ d.fields = dialog.fields /\ d.notice = dialog.notice /\ d.enabled = FALSE
  BY <1>1, Zenon DEF Dialogs
<1>4. /\ dialog' = d /\ UNCHANGED <<loads, execs, knows>>
      /\ posts' = [posts EXCEPT ![p] = Request]
      /\ dialog.open /\ dialog.enabled
  BY DEF Submit
<1> HIDE DEF d
<1>5. Request \in PostRecord
  BY <1>1, SMT DEF Request, PostRecord, Dialogs, Waiting
<1>6. /\ Request.state = "sent" /\ Request.to = "opening" /\ Request.key = dialog.key
      /\ Request.repo = dialog.detail /\ Request.prompt = dialog.fields
      /\ Request.knew = knows
  BY DEF Request
<1>7. /\ posts' \in [Posts -> PostRecord] /\ posts'[p] = Request
      /\ \A q \in Posts : q # p => posts'[q] = posts[q]
  BY <1>1, <1>4, <1>5
<1>8. TypeOK'
  BY <1>2, <1>3, <1>4, <1>6, <1>7 DEF Safe, TypeOK
<1>9. ASSUME ~knows.late
      PROVE  Ready /\ NoLoadPending /\ NoPostPending
  BY <1>4, <1>9 DEF Safe, Undisturbed
<1>10. LoadFits'
  BY <1>3, <1>4 DEF Safe, LoadFits
<1>11. Undisturbed'
  BY <1>3, <1>4, <1>9 DEF Undisturbed, Ready, NoLoadPending
<1>12. OneSubmissionPerOpening'
  BY <1>4, <1>7, <1>9 DEF OneSubmissionPerOpening, NoPostPending
<1>13. Truthful'
  BY <1>6, <1>7, <1>9 DEF Safe, Truthful, Ready
<1> QED BY <1>8, <1>10, <1>11, <1>12, <1>13 DEF Safe

\* The server is done with a submission.
LEMMA AnswerSafe ==
  ASSUME Safe, NEW p \in Posts, NEW answer \in {"queued", "failed"}, Answer(p, answer),
         execs' \in [ExecIds -> Name \cup {Done}], UNCHANGED <<dialog, loads, knows>>
  PROVE  Safe'
<1> DEFINE r == IF posts[p].to = "nobody" THEN NoPost ELSE [posts[p] EXCEPT !.state = answer]
<1>1. posts[p] \in PostRecord /\ posts \in [Posts -> PostRecord]
  BY DEF Safe, TypeOK
<1>2. r \in PostRecord /\ r.to = posts[p].to /\ r.state # "sent"
      /\ (r.state \in {"queued", "failed"} => r.to # "nobody")
  <2>1. CASE posts[p].to = "nobody"
    BY <2>1, BlanksTyped
  <2>2. CASE posts[p].to # "nobody"
    <3>1. [posts[p] EXCEPT !.state = answer] \in PostRecord
      BY <1>1, SMT DEF PostRecord
    <3>2. /\ [posts[p] EXCEPT !.state = answer].state = answer
          /\ [posts[p] EXCEPT !.state = answer].to = posts[p].to
      BY <1>1, SMT DEF PostRecord
    <3> QED BY <2>2, <3>1, <3>2
  <2> QED BY <2>1, <2>2
<1>3. posts' = [posts EXCEPT ![p] = r]
  BY DEF Answer
<1> HIDE DEF r
<1>4. /\ posts' \in [Posts -> PostRecord] /\ posts'[p] = r
      /\ \A q \in Posts : q # p => posts'[q] = posts[q]
      /\ \A q \in Posts : posts'[q].to = posts[q].to
  BY <1>1, <1>2, <1>3
<1>5. TypeOK'
  BY <1>2, <1>4 DEF Safe, TypeOK
<1>6. LoadFits' /\ OneSubmissionPerOpening'
  BY <1>4 DEF Safe, LoadFits, OneSubmissionPerOpening
<1>7. Undisturbed'
  BY <1>4 DEF Safe, Undisturbed, Ready, NoLoadPending, NoPostPending
<1>8. Truthful'
  BY <1>2, <1>4 DEF Safe, Truthful
<1> QED BY <1>5, <1>6, <1>7, <1>8 DEF Safe

\* The page is told that a submission has failed.
LEMMA SubmitFailsSafe ==
  ASSUME Safe, NEW p \in Posts, SubmitFails(p)
  PROVE  Safe'
<1> DEFINE d == [dialog EXCEPT !.enabled = TRUE]
<1>1. /\ dialog \in Dialogs /\ knows \in Knowledge
      /\ posts \in [Posts -> PostRecord] /\ posts[p] \in PostRecord
  BY DEF Safe, TypeOK
<1>2. posts[p].to \in {"opening", "page"} /\ knows.seen \in SUBSET ExecIds
  <2>1. posts[p].to # "nobody"
    BY DEF Safe, TypeOK, SubmitFails
  <2> QED BY <1>1, <2>1, SMT DEF PostRecord, Waiting, Knowledge
<1>3. dialog' = Settled(d) /\ UNCHANGED <<loads, execs>>
  BY DEF SubmitFails
<1>4. d \in Dialogs
  BY <1>1, Zenon DEF Dialogs
<1>5. /\ d.open = dialog.open /\ d.key = dialog.key /\ d.detail = dialog.detail
      /\ d.fields = dialog.fields /\ d.notice = dialog.notice
  BY <1>1, Zenon DEF Dialogs
<1> HIDE DEF d
<1>6. /\ dialog' \in Dialogs /\ dialog'.open = dialog.open
      /\ dialog.open => dialog' = d
  BY <1>3, <1>4, <1>5, SettledTyped
<1>7. /\ knows' \in Knowledge
      /\ dialog.open /\ posts[p].to = "opening" =>
           knows'.late = knows.late /\ knows'.seen = knows.seen
      /\ dialog.open /\ posts[p].to = "page" => knows'.late = TRUE
  BY <1>2, Learned DEF Safe, SubmitFails, Waiting
<1>8. /\ posts' \in [Posts -> PostRecord] /\ posts'[p] = NoPost
      /\ \A q \in Posts : q # p => posts'[q] = posts[q]
  BY <1>1, BlanksTyped DEF SubmitFails
<1>9. TypeOK'
  BY <1>3, <1>6, <1>7, <1>8, BlanksTyped DEF Safe, TypeOK
<1>10. Truthful'
  BY <1>8, BlanksTyped DEF Safe, Truthful
<1>11. CASE ~dialog.open
  <2>1. NoLoadPending' /\ NoPostPending' /\ ~dialog'.open
    BY <1>6, <1>9, <1>11 DEF TypeOK, NoLoadPending, NoPostPending
  <2> QED BY <1>9, <1>10, <2>1
          DEF Safe, LoadFits, Undisturbed, OneSubmissionPerOpening, NoLoadPending, NoPostPending
<1>12. CASE dialog.open /\ posts[p].to = "opening"
  <2>1. ASSUME ~knows'.late
        PROVE  Ready' /\ NoLoadPending' /\ NoPostPending'
    <3>1. ~knows.late /\ ~NoPostPending
      BY <1>7, <1>12, <2>1 DEF NoPostPending
    <3>2. Ready /\ NoLoadPending
      BY <1>12, <3>1 DEF Safe, Undisturbed
    <3>3. \A q \in Posts : q # p => posts[q].to # "opening"
      BY <1>12, <3>1 DEF Safe, OneSubmissionPerOpening
    <3> QED BY <1>3, <1>5, <1>6, <1>7, <1>8, <1>12, <3>2, <3>3, BlanksTyped
            DEF Ready, NoLoadPending, NoPostPending
  <2>2. LoadFits'
    <3>1. CASE knows.late
      BY <1>3, <1>5, <1>6, <1>7, <1>12, <3>1 DEF Safe, LoadFits
    <3>2. CASE ~knows.late
      BY <1>7, <1>12, <2>1, <3>2 DEF LoadFits, NoLoadPending
    <3> QED BY <3>1, <3>2
  <2>3. OneSubmissionPerOpening'
    BY <2>1 DEF OneSubmissionPerOpening, NoPostPending
  <2> QED BY <1>9, <1>10, <2>1, <2>2, <2>3 DEF Safe, Undisturbed, Ready
<1>13. CASE dialog.open /\ posts[p].to = "page"
  <2>1. knows'.late = TRUE /\ dialog'.key = dialog.key
    BY <1>5, <1>6, <1>7, <1>13
  <2>2. LoadFits'
    BY <1>3, <2>1 DEF Safe, LoadFits
  <2> QED BY <1>9, <1>10, <2>1, <2>2 DEF Safe, Undisturbed, OneSubmissionPerOpening
<1> QED BY <1>2, <1>11, <1>12, <1>13

\* Every step keeps Safe.
LEMMA NextSafe == Safe /\ [Next]_vars => Safe'
<1> SUFFICES ASSUME Safe, [Next]_vars PROVE Safe'
  OBVIOUS
<1>1. ASSUME NEW l \in Loads, NEW key \in Tickets, Open(key, l) PROVE Safe'
  BY <1>1, OpenSafe
<1>2. ASSUME NEW l \in Loads, NEW ok \in BOOLEAN, List(l, ok) PROVE Safe'
  BY <1>2, ListSafe
<1>3. ASSUME NEW l \in Loads, Show(l) \/ LoadFails(l) PROVE Safe'
  BY <1>3, ShowSafe, LoadFailsSafe
<1>4. ASSUME NEW p \in Posts, Submit(p) \/ SubmitFails(p) PROVE Safe'
  BY <1>4, SubmitSafe, SubmitFailsSafe
<1>5. ASSUME NEW p \in Posts, Navigate(p) PROVE Safe'
  BY <1>5, LeavingSafe DEF Navigate
<1>6. ASSUME NEW p \in Posts, Reject(p) PROVE Safe'
  <2>1. execs' \in [ExecIds -> Name \cup {Done}]
    BY <1>6 DEF Safe, TypeOK, Reject
  <2> QED BY <1>6, <2>1, AnswerSafe DEF Reject
<1>7. ASSUME NEW p \in Posts, NEW e \in ExecIds, NEW answer \in {"queued", "failed"},
             Accept(p, e, answer)
      PROVE  Safe'
  <2>1. posts[p].key \in Name
    BY SMT DEF Safe, TypeOK, PostRecord
  <2>2. execs' \in [ExecIds -> Name \cup {Done}]
    BY <1>7, <2>1 DEF Safe, TypeOK, Accept
  <2> QED BY <1>7, <2>2, AnswerSafe DEF Accept
<1>8. ASSUME NEW e \in ExecIds, End(e) \/ \E key \in Tickets : Elsewhere(key, e) PROVE Safe'
  <2>1. UNCHANGED <<dialog, loads, posts, knows>>
    BY <1>8 DEF End, Elsewhere
  <2>2. execs' \in [ExecIds -> Name \cup {Done}]
    BY <1>8 DEF Safe, TypeOK, Name, End, Elsewhere
  <2> QED BY <2>1, <2>2 DEF Safe, TypeOK, LoadFits, Undisturbed, Ready, NoLoadPending,
                            NoPostPending, OneSubmissionPerOpening, Truthful
<1>9. CASE Close
  BY <1>9, CloseSafe
<1>10. CASE Leave
  BY <1>10, LeavingSafe DEF Leave
<1>11. CASE UNCHANGED vars
  BY <1>11 DEF vars, Safe, TypeOK, LoadFits, Undisturbed, Ready, NoLoadPending,
               NoPostPending, OneSubmissionPerOpening, Truthful
<1> QED
  BY <1>1, <1>2, <1>3, <1>4, <1>5, <1>6, <1>7, <1>8, <1>9, <1>10, <1>11 DEF Next

\* So Safe always holds.
LEMMA Safety == Spec => []Safe
  BY InitSafe, NextSafe, PTL DEF Spec

\* Until an answer of an earlier opening comes, the dialog sends what belongs
\* to its ticket, and never under a notice.
THEOREM SubmissionsAreSound ==
  Spec => [](TypeOK /\ MixedOnlyByLateAnswer /\ NoticeBlocks)
<1>1. Safe => TypeOK /\ MixedOnlyByLateAnswer
  BY DEF Safe, Truthful, MixedOnlyByLateAnswer
<1>2. Safe => NoticeBlocks
  BY DEF Safe, Undisturbed, Ready, NoticeBlocks
<1> QED BY <1>1, <1>2, Safety, PTL

\* One opening has one submission in flight: neither a double click nor an
\* answer to this opening lets a second one out.
THEOREM OneSubmission == Spec => []OneSubmissionPerOpening
<1>1. Safe => OneSubmissionPerOpening
  BY DEF Safe
<1> QED BY <1>1, Safety, PTL

\* An execution joins an active one of its ticket only when the dialog had
\* not been told of that one, or an answer came late.
THEOREM DuplicatesNeedIgnorance == Spec => DuplicatesAreExplained
<1>1. Safe /\ [Next]_vars =>
        [\A p \in Posts, e, f \in ExecIds :
           /\ Accept(p, f, "queued") \/ Accept(p, f, "failed")
           /\ e \in ActiveOf(posts[p].key)
           => e \notin posts[p].knew.seen \/ posts[p].knew.late]_vars
  BY DEF Safe, Truthful, Accept
<1> QED BY <1>1, Safety, PTL DEF Spec, DuplicatesAreExplained
=============================================================================
