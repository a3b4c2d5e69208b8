---------------------------- MODULE LedgerProofs ----------------------------
(***************************************************************************)
(* The accounting ledger, for any set of invoices, credit notes, partials  *)
(* and transactions: what AccountLedger says of its events, as theorems of *)
(* the specification that TLC runs.                                        *)
(*                                                                         *)
(* A transaction decides on the events of its snapshot and cannot lock     *)
(* those that others add.  It does lock the rows it looks at, and whoever  *)
(* adds an event writes the rows that event is about, which ends everybody *)
(* who holds them.  So the events an open transaction looks for (Sees) are *)
(* still all there are when it ends: that is Snap, and LedgerInv is Snap   *)
(* of every open transaction next to what rows and ledger say of each      *)
(* other (Good), and, until capture is switched off, of the completeness   *)
(* of the books (Faithful).  OutcomeTells then follows each operation on   *)
(* the whole ledger instead of on its snapshot.                            *)
(*                                                                         *)
(* The amounts are sums that a fold takes in an arbitrary order: SumAdd    *)
(* and SumLess, by induction on the number of events, say that the order   *)
(* does not matter.                                                        *)
(*                                                                         *)
(* The delivery, the other ledger of MCLedgers, has its theorems from an   *)
(* instance of WebhookProofs.                                              *)
(***************************************************************************)
EXTENDS MCLedgers, TLAPS, FiniteSetTheorems, WellFoundedInduction

\* Sets of numbers have their least, and where they end their greatest, element.
LEMMA LeastNumber ==
  ASSUME NEW S \in SUBSET Nat, S # {} PROVE \E m \in S : \A k \in S : m <= k
<1> DEFINE R == OpToRel(<, Nat)
<1>1. IsWellFoundedOn(R, Nat)
  BY NatLessThanWellFounded DEF R
<1> HIDE DEF R
<1>2. PICK m \in S : \A k \in S : <<k, m>> \notin R
  BY <1>1, WFMin
<1>3. \A k \in S : ~(k < m)
  BY <1>2 DEF OpToRel, R
<1>4. \A k \in S : m <= k
  BY <1>3
<1> QED BY <1>4

LEMMA GreatestNumber ==
  ASSUME NEW S \in SUBSET Nat, S # {}, NEW b \in Nat, \A k \in S : k <= b
  PROVE  \E m \in S : \A k \in S : m >= k
<1> DEFINE T == {b - k : k \in S}
<1>1. T \in SUBSET Nat /\ T # {}
  <2>1. \A k \in S : b - k \in Nat
    OBVIOUS
  <2> QED BY <2>1
<1>2. PICK t \in T : \A u \in T : t <= u
  <2> HIDE DEF T
  <2> QED BY <1>1, LeastNumber
<1>3. PICK m \in S : t = b - m
  OBVIOUS
<1>4. \A k \in S : b - m <= b - k
  BY <1>2, <1>3
<1>5. \A k \in S : m >= k
  <2> TAKE k \in S
  <2>1. b - m <= b - k
    BY <1>4
  <2>2. m \in Nat /\ k \in Nat
    OBVIOUS
  <2> HIDE DEF T
  <2> QED BY <2>1, <2>2
<1> QED BY <1>5

\* Induction on a set of numbers, from the well-foundedness of <: the theorem of
\* NaturalsInduction would need an operator as a parameter.
LEMMA NatSets ==
  ASSUME NEW S, 0 \in S, \A n \in Nat : n \in S => n + 1 \in S
  PROVE  Nat \subseteq S
<1> SUFFICES ASSUME NEW n \in Nat \ S PROVE FALSE
  OBVIOUS
<1>1. PICK m \in Nat \ S : \A k \in Nat \ S : m <= k
  BY LeastNumber
<1>2. m # 0 /\ m - 1 \in Nat /\ (m - 1) + 1 = m
  BY <1>1
<1>3. m - 1 \notin S
  BY <1>1, <1>2
<1> QED BY <1>1, <1>2, <1>3

\* --- Sums of the amounts of a finite set of events.  Sum is a fold, that is, a
\* function that is recursive in the subsets of the set; it exists since there is one
\* for the subsets of at most n events, for every n.
Chosen(S) == CHOOSE x \in S : TRUE
Folded(f, s) == IF s = {} THEN 0 ELSE Chosen(s).amount + f[s \ {Chosen(s)}]
Sums(f, S) == f = [s \in SUBSET S |-> Folded(f, s)]
Upto(S, n) == {s \in SUBSET S : Cardinality(s) <= n}
SumsUpto(f, S, n) == f = [s \in Upto(S, n) |-> Folded(f, s)]

LEMMA SumIs == ASSUME NEW S PROVE Sum(S) = (CHOOSE f : Sums(f, S))[S]
BY DEF Sum, MapThenSumSet, MapThenFoldSet, Sums, Folded, Chosen

LEMMA OneLess ==
  ASSUME NEW s, IsFiniteSet(s), s # {}
  PROVE  /\ Chosen(s) \in s /\ IsFiniteSet(s \ {Chosen(s)})
         /\ Cardinality(s) \in Nat /\ Cardinality(s \ {Chosen(s)}) = Cardinality(s) - 1
<1>1. Chosen(s) \in s
  BY DEF Chosen
<1>2. Cardinality(s) \in Nat
  BY FS_CardinalityType
<1> QED BY <1>1, <1>2, FS_RemoveElement

LEMMA SumsExist ==
  ASSUME NEW S, IsFiniteSet(S) PROVE \E f : Sums(f, S)
<1> DEFINE N == {n \in Nat : \E f : SumsUpto(f, S, n)}
<1>0. \A s \in SUBSET S : IsFiniteSet(s) /\ Cardinality(s) \in Nat
  BY FS_Subset, FS_CardinalityType
<1>1. 0 \in N
  <2> DEFINE f == [s \in Upto(S, 0) |-> 0]
  <2>1. \A s \in Upto(S, 0) : s = {}
    <3> TAKE s \in Upto(S, 0)
    <3>1. IsFiniteSet(s) /\ Cardinality(s) \in Nat /\ Cardinality(s) <= 0
      BY <1>0 DEF Upto
    <3>2. Cardinality(s) = 0
      BY <3>1
    <3> QED BY <3>1, <3>2, FS_EmptySet
  <2>2. f = [s \in Upto(S, 0) |-> Folded(f, s)]
    <3> HIDE DEF f
    <3>1. \A s \in Upto(S, 0) : Folded(f, s) = 0
      BY <2>1 DEF Folded
    <3> QED BY <3>1 DEF f
  <2>3. SumsUpto(f, S, 0)
    BY <2>2 DEF SumsUpto
  <2> QED BY <2>3
<1>2. ASSUME NEW n \in Nat, n \in N PROVE n + 1 \in N
  <2>1. PICK f : SumsUpto(f, S, n)
    BY <1>2
  <2> DEFINE g == [s \in Upto(S, n + 1) |-> Folded(f, s)]
  <2>2. ASSUME NEW s \in Upto(S, n + 1) PROVE Folded(f, s) = Folded(g, s)
    <3>1. CASE s = {}
      BY <3>1 DEF Folded
    <3>2. CASE s # {}
      <4> DEFINE r == s \ {Chosen(s)}
      <4>1. IsFiniteSet(s) /\ s \subseteq S /\ Cardinality(s) <= n + 1
        BY <1>0 DEF Upto
      <4>2. Cardinality(s) \in Nat /\ Cardinality(r) = Cardinality(s) - 1
        BY <3>2, <4>1, OneLess
      <4>3. Cardinality(r) <= n /\ Cardinality(r) <= n + 1 /\ r \in SUBSET S
        BY <4>1, <4>2
      <4>4. r \in Upto(S, n) /\ r \in Upto(S, n + 1)
        BY <4>3 DEF Upto
      <4>5. f[r] = Folded(f, r)
        <5> HIDE DEF r
        <5> QED BY <2>1, <4>4 DEF SumsUpto
      <4>6. g[r] = Folded(f, r)
        <5> HIDE DEF r
        <5> QED BY <4>4
      <4> HIDE DEF g
      <4> QED BY <3>2, <4>5, <4>6 DEF Folded
    <3> QED BY <3>1, <3>2
  <2>3. g = [s \in Upto(S, n + 1) |-> Folded(g, s)]
    <3> HIDE DEF g
    <3> QED BY <2>2 DEF g
  <2>4. SumsUpto(g, S, n + 1)
    BY <2>3 DEF SumsUpto
  <2> QED BY <2>4
<1>3. Nat \subseteq N
  <2> HIDE DEF N
  <2> QED BY <1>1, <1>2, NatSets
<1>4. Cardinality(S) \in N
  BY <1>3, FS_CardinalityType
<1>5. Upto(S, Cardinality(S)) = SUBSET S
  <2>1. \A s \in SUBSET S : Cardinality(s) <= Cardinality(S)
    BY FS_Subset
  <2> QED BY <2>1 DEF Upto
<1> QED BY <1>4, <1>5 DEF Sums, SumsUpto

LEMMA SumsAgree ==
  ASSUME NEW S, IsFiniteSet(S), NEW T \in SUBSET S, NEW f, Sums(f, S), NEW g, Sums(g, T)
  PROVE  \A s \in SUBSET T : f[s] = g[s]
<1> DEFINE N == {n \in Nat : \A s \in SUBSET T : Cardinality(s) <= n => f[s] = g[s]}
<1>0. \A s \in SUBSET T : IsFiniteSet(s) /\ Cardinality(s) \in Nat
  BY FS_Subset, FS_CardinalityType
<1>1. \A s \in SUBSET T : f[s] = Folded(f, s) /\ g[s] = Folded(g, s)
  BY DEF Sums
<1>2. 0 \in N
  <2>1. \A s \in SUBSET T : Cardinality(s) <= 0 => s = {}
    <3> TAKE s \in SUBSET T
    <3> HAVE Cardinality(s) <= 0
    <3>1. Cardinality(s) = 0
      BY <1>0
    <3> QED BY <1>0, <3>1, FS_EmptySet
  <2>2. \A s \in SUBSET T : s = {} => f[s] = 0 /\ g[s] = 0
    BY <1>1 DEF Folded
  <2> QED BY <2>1, <2>2
<1>3. ASSUME NEW n \in Nat, n \in N PROVE n + 1 \in N
  <2> SUFFICES ASSUME NEW s \in SUBSET T, Cardinality(s) <= n + 1 PROVE f[s] = g[s]
    OBVIOUS
  <2>1. CASE s = {}
    BY <1>1, <2>1 DEF Folded
  <2>2. CASE s # {}
    <3> DEFINE r == s \ {Chosen(s)}
    <3>1. Cardinality(s) \in Nat /\ Cardinality(r) = Cardinality(s) - 1 /\ r \in SUBSET T
      BY <1>0, <2>2, OneLess
    <3>2. Cardinality(r) <= n
      BY <3>1
    <3>3. f[r] = g[r]
      <4> HIDE DEF r
      <4> QED BY <1>3, <3>1, <3>2
    <3> QED BY <1>1, <2>2, <3>3 DEF Folded
  <2> QED BY <2>1, <2>2
<1>4. Nat \subseteq N
  <2> HIDE DEF N
  <2> QED BY <1>2, <1>3, NatSets
<1> TAKE s \in SUBSET T
<1>5. Cardinality(s) \in N
  BY <1>0, <1>4
<1>6. Cardinality(s) <= Cardinality(s)
  BY <1>0
<1> QED BY <1>5, <1>6

LEMMA SumTaken ==
  ASSUME NEW S, IsFiniteSet(S)
  PROVE  Sum(S) = IF S = {} THEN 0 ELSE Chosen(S).amount + Sum(S \ {Chosen(S)})
<1> DEFINE T == S \ {Chosen(S)}
           f == CHOOSE h : Sums(h, S)
           g == CHOOSE h : Sums(h, T)
<1>0. IsFiniteSet(T) /\ T \in SUBSET S
  BY FS_Subset
<1>1. Sums(f, S) /\ Sums(g, T)
  <2> HIDE DEF T
  <2> QED BY <1>0, SumsExist
<1>2. Sum(S) = f[S] /\ Sum(T) = g[T]
  <2> HIDE DEF T
  <2> QED BY SumIs
<1> HIDE DEF f, g
<1>3. f[T] = g[T]
  <2> HIDE DEF T
  <2> QED BY <1>0, <1>1, SumsAgree
<1>4. f[S] = Folded(f, S)
  BY <1>1 DEF Sums
<1> QED BY <1>2, <1>3, <1>4 DEF Folded

Amounting(S) == IsFiniteSet(S) /\ \A e \in S : e.amount \in Int

LEMMA SumInt == ASSUME NEW S, Amounting(S) PROVE Sum(S) \in Int
<1> DEFINE N == {n \in Nat : \A s \in SUBSET S : Cardinality(s) <= n => Sum(s) \in Int}
<1>0. \A s \in SUBSET S : IsFiniteSet(s) /\ Cardinality(s) \in Nat
  BY FS_Subset, FS_CardinalityType DEF Amounting
<1>1. 0 \in N
  <2>1. \A s \in SUBSET S : Cardinality(s) <= 0 => s = {}
    <3> TAKE s \in SUBSET S
    <3> HAVE Cardinality(s) <= 0
    <3>1. Cardinality(s) = 0
      BY <1>0
    <3> QED BY <1>0, <3>1, FS_EmptySet
  <2>2. Sum({}) = 0
    BY SumTaken, FS_EmptySet
  <2> QED BY <2>1, <2>2
<1>2. ASSUME NEW n \in Nat, n \in N PROVE n + 1 \in N
  <2> SUFFICES ASSUME NEW s \in SUBSET S, Cardinality(s) <= n + 1 PROVE Sum(s) \in Int
    OBVIOUS
  <2>1. CASE s = {}
    <3>1. Sum({}) = 0
      BY SumTaken, FS_EmptySet
    <3> QED BY <2>1, <3>1
  <2>2. CASE s # {}
    <3> DEFINE r == s \ {Chosen(s)}
    <3>1. Cardinality(s) \in Nat /\ Cardinality(r) = Cardinality(s) - 1 /\ Chosen(s) \in s /\ r \in SUBSET S
      BY <1>0, <2>2, OneLess
    <3>2. Cardinality(r) <= n
      BY <3>1
    <3>3. Sum(r) \in Int
      <4> HIDE DEF r
      <4> QED BY <1>2, <3>1, <3>2
    <3>4. Chosen(s).amount \in Int
      BY <3>1 DEF Amounting
    <3>5. Sum(s) = Chosen(s).amount + Sum(r)
      BY <1>0, <2>2, SumTaken
    <3> HIDE DEF r
    <3> QED BY <3>3, <3>4, <3>5
  <2> QED BY <2>1, <2>2
<1>3. Nat \subseteq N
  <2> HIDE DEF N
  <2> QED BY <1>1, <1>2, NatSets
<1>4. S \in SUBSET S
  OBVIOUS
<1>5. Cardinality(S) \in Nat /\ Cardinality(S) <= Cardinality(S)
  BY <1>0, <1>4
<1>6. Cardinality(S) \in N
  BY <1>3, <1>5
<1> QED BY <1>4, <1>5, <1>6

\* In whatever order the fold takes the events, one more adds its amount.
LEMMA SumAdd ==
  ASSUME NEW S, Amounting(S), NEW e, e \notin S, e.amount \in Int
  PROVE  Sum(S \cup {e}) = Sum(S) + e.amount
<1> DEFINE U == S \cup {e}
           N == {n \in Nat : \A s \in SUBSET U : \A x \in U \ s :
                               Cardinality(s) <= n => Sum(s \cup {x}) = Sum(s) + x.amount}
<1>0. Amounting(U)
  BY FS_AddElement DEF Amounting
<1>1. \A s \in SUBSET U : Amounting(s) /\ IsFiniteSet(s) /\ Cardinality(s) \in Nat /\ Sum(s) \in Int
  <2> HIDE DEF U
  <2> TAKE s \in SUBSET U
  <2>1. IsFiniteSet(s) /\ \A x \in s : x.amount \in Int
    BY <1>0, FS_Subset DEF Amounting
  <2> QED BY <2>1, FS_CardinalityType, SumInt DEF Amounting
<1>2. \A x \in U : x.amount \in Int
  BY <1>0 DEF Amounting
<1> HIDE DEF U
<1>3. ASSUME NEW n \in Nat, \A k \in 0..(n - 1) : k \in N PROVE n \in N
  <2> SUFFICES ASSUME NEW s \in SUBSET U, NEW x \in U \ s, Cardinality(s) <= n
               PROVE  Sum(s \cup {x}) = Sum(s) + x.amount
    OBVIOUS
  <2> DEFINE V == s \cup {x}
             y == Chosen(V)
  <2>1. V \in SUBSET U /\ V # {} /\ IsFiniteSet(V) /\ y \in V
    BY <1>1, OneLess
  <2>2. Sum(V) = y.amount + Sum(V \ {y})
    <3> HIDE DEF V
    <3> QED BY <2>1, SumTaken
  <2>3. CASE y = x
    <3>1. V \ {y} = s /\ y.amount = x.amount
      BY <2>3
    <3>2. Sum(s) \in Int /\ x.amount \in Int
      BY <1>1, <1>2
    <3>3. Sum(V) = x.amount + Sum(s)
      <4> HIDE DEF V, y
      <4> QED BY <2>2, <3>1
    <3>4. Sum(V) = Sum(s) + x.amount
      <4> HIDE DEF V
      <4> QED BY <3>2, <3>3
    <3> QED BY <3>4
  <2>4. CASE y # x
    <3> DEFINE r == s \ {y}
    <3>1. y \in s /\ V \ {y} = r \cup {x} /\ s = r \cup {y} /\ r \in SUBSET U /\ x \in U \ r /\ y \in U \ r
      BY <2>1, <2>4
    <3>2. Cardinality(r) = Cardinality(s) - 1
      <4> HIDE DEF y, V
      <4> QED BY <1>1, <3>1, FS_RemoveElement
    <3>3. Cardinality(r) \in Nat /\ Cardinality(s) \in Nat /\ Sum(r) \in Int /\ x.amount \in Int /\ y.amount \in Int
      BY <1>1, <1>2, <3>1
    <3> HIDE DEF r, y, V
    <3>4. Cardinality(r) \in 0..(n - 1) /\ Cardinality(r) <= Cardinality(r)
      BY <3>2, <3>3
    <3>5. Sum(r \cup {x}) = Sum(r) + x.amount
      BY <1>3, <3>1, <3>3, <3>4
    <3>6. Sum(r \cup {y}) = Sum(r) + y.amount
      BY <1>3, <3>1, <3>3, <3>4
    <3>7. Sum(V) = y.amount + (Sum(r) + x.amount) /\ Sum(s) = Sum(r) + y.amount
      BY <2>2, <3>1, <3>5, <3>6
    <3>8. Sum(V) = Sum(s) + x.amount
      BY <3>3, <3>7
    <3> QED BY <3>8 DEF V
  <2> QED BY <2>3, <2>4
<1>4. Nat \subseteq N
  <2> DEFINE M == {n \in Nat : \A k \in 0..n : k \in N}
  <2> HIDE DEF N
  <2>1. 0 \in N
    <3>1. \A k \in 0..(0 - 1) : k \in N
      OBVIOUS
    <3> QED BY <1>3, <3>1
  <2>2. 0 \in M
    BY <2>1
  <2>3. ASSUME NEW n \in Nat, n \in M PROVE n + 1 \in M
    <3>1. \A k \in 0..((n + 1) - 1) : k \in N
      BY <2>3
    <3>2. n + 1 \in N
      BY <1>3, <3>1
    <3>3. \A k \in 0..(n + 1) : k \in N
      BY <3>1, <3>2
    <3> QED BY <3>3
  <2>4. Nat \subseteq M
    <3> HIDE DEF M
    <3> QED BY <2>2, <2>3, NatSets
  <2> QED BY <2>4
<1>5. S \in SUBSET U /\ e \in U \ S
  BY DEF U
<1>6. Cardinality(S) \in N /\ Cardinality(S) <= Cardinality(S)
  BY <1>1, <1>4, <1>5
<1> QED BY <1>5, <1>6

\* More events of amounts that are not positive do not make a sum greater.
LEMMA SumLess ==
  ASSUME NEW S, Amounting(S), \A e \in S : e.amount <= 0, NEW T \in SUBSET S
  PROVE  Sum(S) <= Sum(T)
<1> DEFINE N == {n \in Nat : \A s \in SUBSET S : T \subseteq s /\ Cardinality(s) <= n => Sum(s) <= Sum(T)}
<1>1. \A s \in SUBSET S : Amounting(s) /\ IsFiniteSet(s) /\ Cardinality(s) \in Nat /\ Sum(s) \in Int
  <2> TAKE s \in SUBSET S
  <2>1. IsFiniteSet(s) /\ \A x \in s : x.amount \in Int
    BY FS_Subset DEF Amounting
  <2> QED BY <2>1, FS_CardinalityType, SumInt DEF Amounting
<1>2. 0 \in N
  <2> SUFFICES ASSUME NEW s \in SUBSET S, T \subseteq s, Cardinality(s) <= 0 PROVE Sum(s) <= Sum(T)
    OBVIOUS
  <2>1. Cardinality(s) = 0
    BY <1>1
  <2>2. s = {}
    BY <1>1, <2>1, FS_EmptySet
  <2>3. s = T /\ Sum(s) \in Int
    BY <1>1, <2>2
  <2> QED BY <2>3
<1>3. ASSUME NEW n \in Nat, n \in N PROVE n + 1 \in N
  <2> SUFFICES ASSUME NEW s \in SUBSET S, T \subseteq s, Cardinality(s) <= n + 1 PROVE Sum(s) <= Sum(T)
    OBVIOUS
  <2>1. CASE s = T
    BY <1>1, <2>1
  <2>2. CASE s # T
    <3>1. PICK y \in s : y \notin T
      BY <2>2
    <3> DEFINE r == s \ {y}
    <3>2. r \in SUBSET S /\ T \subseteq r /\ y \notin r /\ r \cup {y} = s
      BY <3>1
    <3>3. Cardinality(r) = Cardinality(s) - 1
      BY <1>1, <3>1, FS_RemoveElement
    <3>4. y.amount \in Int /\ y.amount <= 0
      BY DEF Amounting
    <3> HIDE DEF r
    <3>5. Sum(s) = Sum(r) + y.amount
      BY <1>1, <3>2, <3>4, SumAdd
    <3>6. Cardinality(r) <= n
      BY <1>1, <3>3
    <3>7. Sum(r) <= Sum(T)
      BY <1>3, <3>2, <3>6
    <3>8. Sum(r) \in Int /\ Sum(T) \in Int
      BY <1>1, <3>2
    <3> QED BY <3>4, <3>5, <3>7, <3>8
  <2> QED BY <2>1, <2>2
<1>4. Nat \subseteq N
  <2> HIDE DEF N
  <2> QED BY <1>2, <1>3, NatSets
<1>5. Cardinality(S) \in N /\ Cardinality(S) <= Cardinality(S) /\ S \in SUBSET S /\ T \subseteq S
  BY <1>1, <1>4
<1> QED BY <1>5

\* --- The events.
Links(m) == {None} \cup {<<"posting", Target[c], k>> : c \in Credits \cap {m}, k \in Nat}
PostingTold(e, D) ==
  \E m \in Moves : \E n \in 1..D[m].seq, a \in Amounts[m], of \in Links(m) :
    e = Posting(m, n, Signed(m, a), of)
AllocationTold(e) == \E p \in Partials : e = Allocation(p)
ReversalTold(e, L, D) == \E f \in L : (PostingTold(f, D) \/ AllocationTold(f)) /\ e = Reversal(f)
OnMoves(L) == {e \in L : e.on \in Moves}
LedgerTells(L, D) ==
  /\ \A e \in L : PostingTold(e, D) \/ AllocationTold(e) \/ ReversalTold(e, L, D)
  /\ \A e, f \in L : Key(e) = Key(f) => e = f
  /\ IsFiniteSet(OnMoves(L))
DocTells(D) ==
  /\ D \in [Moves -> [state : {"draft", "posted"}, amount : Nat, seq : Nat]]
  /\ \A m \in Moves : D[m].amount \in Amounts[m] /\ D[m].seq <= MaxPostings[m]

LEMMA Documents ==
  /\ \A c \in Credits : c \in Moves /\ c \notin Invoices /\ c \notin Partials /\ Target[c] \in Invoices
  /\ \A i \in Invoices : i \in Moves /\ i \notin Credits /\ i \notin Partials
  /\ \A p \in Partials : p \notin Moves /\ p \notin Credits /\ Settles[p] \in Invoices
  /\ \A m \in Moves : /\ m \in Invoices \/ m \in Credits
                      /\ MaxPostings[m] \in Nat /\ MaxPostings[m] > 0
                      /\ \A a \in Amounts[m] : a \in Nat /\ a > 0
BY LedgerDocuments DEF Moves

LEMMA PostingFields ==
  ASSUME NEW m, NEW n, NEW amount, NEW of
  PROVE  LET e == Posting(m, n, amount, of) IN
         /\ e.kind = "posting" /\ e.on = m /\ e.n = n /\ e.amount = amount /\ e.of = of
         /\ Key(e) = <<"posting", m, n>>
BY DEF Posting, Key

LEMMA AllocationFields ==
  ASSUME NEW p
  PROVE  LET e == Allocation(p) IN
         /\ e.kind = "posting" /\ e.on = p /\ e.n = 1 /\ e.amount = 1 /\ e.of = None
         /\ Key(e) = <<"posting", p, 1>>
BY DEF Allocation, Posting, Key

IsPosting(e) == e = Posting(e.on, e.n, e.amount, e.of)

LEMMA ReversalOf ==
  ASSUME NEW m, NEW n, NEW amount, NEW of
  PROVE  Reversal(Posting(m, n, amount, of)) =
           [kind |-> "reversal", on |-> m, n |-> n, amount |-> -amount, of |-> <<"posting", m, n>>]
<1> DEFINE e == Posting(m, n, amount, of)
           e1 == [e EXCEPT !.kind = "reversal"]
           e2 == [e1 EXCEPT !.amount = -amount]
<1>1. Key(e) = <<"posting", m, n>> /\ e.amount = amount
  BY PostingFields
<1>2. e = [kind |-> "posting", on |-> m, n |-> n, amount |-> amount, of |-> of]
  BY DEF Posting
<1>3. e1 = [kind |-> "reversal", on |-> m, n |-> n, amount |-> amount, of |-> of]
  BY <1>2
<1>4. e2 = [kind |-> "reversal", on |-> m, n |-> n, amount |-> -amount, of |-> of]
  <2> HIDE DEF e1
  <2> QED BY <1>3
<1> HIDE DEF e
<1>5. Reversal(e) = [e2 EXCEPT !.of = Key(e)]
  <2>1. Reversal(e) = [[[e EXCEPT !.kind = "reversal"] EXCEPT !.amount = -e.amount] EXCEPT !.of = Key(e)]
    BY DEF Reversal
  <2>2. e2 = [[e EXCEPT !.kind = "reversal"] EXCEPT !.amount = -e.amount]
    BY <1>1
  <2> HIDE DEF e2
  <2> QED BY <2>1, <2>2, Zenon
<1> HIDE DEF e1, e2
<1>6. [e2 EXCEPT !.of = <<"posting", m, n>>] =
         [kind |-> "reversal", on |-> m, n |-> n, amount |-> -amount, of |-> <<"posting", m, n>>]
  BY <1>4
<1> QED BY <1>1, <1>5, <1>6 DEF e

LEMMA ReversalFields ==
  ASSUME NEW e, IsPosting(e)
  PROVE  LET r == Reversal(e) IN
         /\ r = [kind |-> "reversal", on |-> e.on, n |-> e.n, amount |-> -e.amount, of |-> Key(e)]
         /\ r.kind = "reversal" /\ r.on = e.on /\ r.n = e.n /\ r.amount = -e.amount /\ r.of = Key(e)
         /\ Key(r) = <<"reversal", e.on, e.n>> /\ Key(e) = <<"posting", e.on, e.n>>
<1>1. e = Posting(e.on, e.n, e.amount, e.of)
  BY DEF IsPosting
<1>2. Key(e) = <<"posting", e.on, e.n>>
  <2> DEFINE on == e.on
             n == e.n
             a == e.amount
             of == e.of
  <2>1. e = Posting(on, n, a, of)
    BY <1>1
  <2> HIDE DEF on, n, a, of
  <2>2. Key(e) = <<"posting", on, n>>
    BY <2>1, PostingFields
  <2> QED BY <2>2 DEF on, n
<1>3. Reversal(e) = [kind |-> "reversal", on |-> e.on, n |-> e.n, amount |-> -e.amount, of |-> Key(e)]
  <2> DEFINE on == e.on
             n == e.n
             a == e.amount
             of == e.of
  <2>1. e = Posting(on, n, a, of)
    BY <1>1
  <2> HIDE DEF on, n, a, of
  <2>2. Reversal(e) = [kind |-> "reversal", on |-> on, n |-> n, amount |-> -a, of |-> <<"posting", on, n>>]
    BY <2>1, ReversalOf
  <2> QED BY <1>2, <2>2 DEF on, n, a, of
<1> DEFINE r == Reversal(e)
<1> HIDE DEF r
<1>4. r = [kind |-> "reversal", on |-> e.on, n |-> e.n, amount |-> -e.amount, of |-> Key(e)]
  BY <1>3 DEF r
<1>5. r.kind = "reversal" /\ r.on = e.on /\ r.n = e.n /\ r.amount = -e.amount /\ r.of = Key(e)
  BY <1>4
<1>6. Key(r) = <<"reversal", e.on, e.n>>
  BY <1>5 DEF Key
<1> QED BY <1>2, <1>4, <1>5, <1>6 DEF r

\* What is said of a posting.
PostingSays(e, D) ==
  /\ IsPosting(e) /\ e.kind = "posting" /\ Key(e) = <<"posting", e.on, e.n>>
  /\ e.n \in Nat /\ e.amount \in Int
  /\ \/ /\ e.on \in Moves /\ e.n \in 1..D[e.on].seq /\ e.of \in Links(e.on)
        /\ \E a \in Amounts[e.on] : e.amount = Signed(e.on, a)
     \/ e.on \in Partials /\ e = Allocation(e.on) /\ e.n = 1 /\ e.amount = 1 /\ e.of = None

LEMMA PostingsSay ==
  ASSUME NEW D, DocTells(D), NEW e, PostingTold(e, D) \/ AllocationTold(e)
  PROVE  PostingSays(e, D)
<1>1. CASE PostingTold(e, D)
  <2>1. PICK m \in Moves : \E n \in 1..D[m].seq, a \in Amounts[m], of \in Links(m) :
                              e = Posting(m, n, Signed(m, a), of)
    BY <1>1 DEF PostingTold
  <2>2. PICK n \in 1..D[m].seq, a \in Amounts[m], of \in Links(m) : e = Posting(m, n, Signed(m, a), of)
    BY <2>1
  <2>3. /\ e.kind = "posting" /\ e.on = m /\ e.n = n /\ e.amount = Signed(m, a) /\ e.of = of
        /\ Key(e) = <<"posting", m, n>>
    BY <2>2, PostingFields
  <2>4. n \in Nat /\ Signed(m, a) \in Int
    BY Documents DEF DocTells, Signed
  <2>5. IsPosting(e)
    BY <2>2, <2>3 DEF IsPosting
  <2> QED BY <2>3, <2>4, <2>5 DEF PostingSays
<1>2. CASE AllocationTold(e)
  <2>1. PICK p \in Partials : e = Allocation(p)
    BY <1>2 DEF AllocationTold
  <2>2. e.kind = "posting" /\ e.on = p /\ e.n = 1 /\ e.amount = 1 /\ e.of = None /\ Key(e) = <<"posting", p, 1>>
    BY <2>1, AllocationFields
  <2>3. IsPosting(e)
    BY <2>1, <2>2 DEF IsPosting, Allocation
  <2> QED BY <2>1, <2>2, <2>3 DEF PostingSays
<1> QED BY <1>1, <1>2

\* Every event is a posting or the counterevent of one.
EventSays(e, L, D) ==
  \/ PostingSays(e, D)
  \/ \E f \in L : /\ PostingSays(f, D) /\ e = Reversal(f)
                  /\ e.kind = "reversal" /\ e.on = f.on /\ e.n = f.n /\ e.amount = -f.amount
                  /\ e.of = <<"posting", e.on, e.n>> /\ Key(f) = e.of /\ Key(e) = <<"reversal", e.on, e.n>>

LEMMA EventsSay ==
  ASSUME NEW D, DocTells(D), NEW L, LedgerTells(L, D), NEW e \in L
  PROVE  EventSays(e, L, D)
<1>1. CASE PostingTold(e, D) \/ AllocationTold(e)
  BY <1>1, PostingsSay DEF EventSays
<1>2. CASE ReversalTold(e, L, D)
  <2>1. PICK f \in L : (PostingTold(f, D) \/ AllocationTold(f)) /\ e = Reversal(f)
    BY <1>2 DEF ReversalTold
  <2>2. PostingSays(f, D)
    BY <2>1, PostingsSay
  <2>3. IsPosting(f) /\ Key(f) = <<"posting", f.on, f.n>>
    BY <2>2 DEF PostingSays
  <2>4. /\ e.kind = "reversal" /\ e.on = f.on /\ e.n = f.n /\ e.amount = -f.amount
        /\ e.of = Key(f) /\ Key(e) = <<"reversal", f.on, f.n>>
    BY <2>1, <2>3, ReversalFields
  <2> QED BY <2>1, <2>2, <2>3, <2>4 DEF EventSays
<1> QED BY <1>1, <1>2 DEF LedgerTells

\* Fields of any event.
LEMMA EventFields ==
  ASSUME NEW D, DocTells(D), NEW L, LedgerTells(L, D), NEW e \in L
  PROVE  /\ e.kind \in {"posting", "reversal"} /\ Key(e) = <<e.kind, e.on, e.n>>
         /\ e.n \in Nat /\ e.amount \in Int /\ e.on \in Moves \cup Partials
         /\ e.on \in Moves => e.n \in 1..D[e.on].seq
         /\ e.on \in Partials => e.n = 1
         /\ e.kind = "posting" => PostingSays(e, D)
         /\ e.kind = "reversal" => /\ e.of = <<"posting", e.on, e.n>>
                                   /\ \E f \in L : PostingSays(f, D) /\ e = Reversal(f) /\ Key(f) = e.of
<1>1. CASE PostingSays(e, D)
  BY <1>1, Documents DEF PostingSays
<1>2. CASE ~PostingSays(e, D)
  <2>1. PICK f \in L : /\ PostingSays(f, D) /\ e = Reversal(f)
                       /\ e.kind = "reversal" /\ e.on = f.on /\ e.n = f.n /\ e.amount = -f.amount
                       /\ e.of = <<"posting", e.on, e.n>> /\ Key(f) = e.of /\ Key(e) = <<"reversal", e.on, e.n>>
    BY <1>2, EventsSay DEF EventSays
  <2>2. /\ f.n \in Nat /\ f.amount \in Int /\ f.on \in Moves \cup Partials
        /\ f.on \in Moves => f.n \in 1..D[f.on].seq
        /\ f.on \in Partials => f.n = 1
    BY <2>1, Documents DEF PostingSays
  <2>3. -f.amount \in Int
    BY <2>2
  <2> QED BY <2>1, <2>2, <2>3
<1> QED BY <1>1, <1>2

\* --- What is active.
LEMMA ActiveIs ==
  ASSUME NEW L, NEW m, NEW x
  PROVE  x \in ActiveOn(L, m) <=> /\ x \in L /\ x.kind = "posting" /\ x.on = m
                                  /\ \A r \in L : r.kind = "reversal" => r.of # Key(x)
BY DEF ActiveOn, Active

\* Who has read all events of a document sees what is active of it.
LEMMA ActiveSeen ==
  ASSUME NEW D, DocTells(D), NEW L, LedgerTells(L, D), NEW K \in SUBSET L, NEW m,
         \A e \in L : e.on = m => e \in K
  PROVE  ActiveOn(K, m) = ActiveOn(L, m)
<1> SUFFICES ASSUME NEW x PROVE x \in ActiveOn(K, m) <=> x \in ActiveOn(L, m)
  OBVIOUS
<1>1. x \in L /\ x.on = m => x \in K
  OBVIOUS
<1>2. ASSUME x \in L, x.on = m, x.kind = "posting", NEW r \in L, r.kind = "reversal", r.of = Key(x)
      PROVE  r \in K
  <2>1. Key(x) = <<"posting", m, x.n>> /\ r.of = <<"posting", r.on, r.n>>
    BY <1>2, EventFields
  <2>2. r.on = m
    BY <1>2, <2>1
  <2> QED BY <2>2
<1> QED BY <1>1, <1>2, ActiveIs

LEMMA LatestIs ==
  ASSUME NEW D, DocTells(D), NEW L, LedgerTells(L, D), NEW m \in Moves, ActiveOn(L, m) # {}
  PROVE  Latest(ActiveOn(L, m)) \in ActiveOn(L, m)
<1> DEFINE A == ActiveOn(L, m)
           N == {e.n : e \in A}
<1>1. \A e \in A : e.n \in 1..D[m].seq /\ e.n \in Nat
  <2> TAKE e \in A
  <2>1. e \in L /\ e.on = m
    BY ActiveIs
  <2>2. D[m].seq \in Nat
    BY DEF DocTells
  <2> QED BY <2>1, <2>2, EventFields
<1>2. D[m].seq \in Nat
  BY DEF DocTells
<1> HIDE DEF A
<1>3. N \in SUBSET Nat /\ N # {} /\ \A k \in N : k <= D[m].seq
  BY <1>1, <1>2 DEF A
<1>4. PICK g \in N : \A k \in N : g >= k
  <2> HIDE DEF N
  <2> QED BY <1>2, <1>3, GreatestNumber
<1>5. PICK e \in A : e.n = g
  BY <1>4
<1>6. \A f \in A : f.n <= e.n
  <2> TAKE f \in A
  <2>1. f.n \in N
    OBVIOUS
  <2>2. e.n >= f.n
    <3> HIDE DEF N
    <3> QED BY <1>4, <1>5, <2>1
  <2>3. f.n \in Nat /\ e.n \in Nat
    BY <1>1
  <2> QED BY <2>2, <2>3
<1> QED BY <1>5, <1>6 DEF Latest, A

AllocTells(A, L) ==
  /\ A \in [Partials -> {"absent", "live", "removed"}]
  /\ \A p \in Partials : A[p] = "absent" => \A e \in L : e.on # p
  /\ \A p \in Partials : A[p] # "removed" => Reversal(Allocation(p)) \notin L
RoomTells(D, L) ==
  \A m \in Moves : D[m].state = "posted" /\ ActiveOn(L, m) = {} => D[m].seq < MaxPostings[m]
Good(D, A, L) == DocTells(D) /\ AllocTells(A, L) /\ LedgerTells(L, D) /\ RoomTells(D, L)

LEMMA ToldMore ==
  ASSUME NEW D, DocTells(D), NEW D1, DocTells(D1), \A m \in Moves : D[m].seq <= D1[m].seq,
         NEW L, LedgerTells(L, D), NEW N, IsFiniteSet(OnMoves(N)),
         \A e \in N : PostingTold(e, D1) \/ AllocationTold(e) \/ ReversalTold(e, L \cup N, D1),
         \A e \in N : \A f \in L \cup N : Key(e) = Key(f) => e = f
  PROVE  LedgerTells(L \cup N, D1)
<1>1. ASSUME NEW e, PostingTold(e, D) PROVE PostingTold(e, D1)
  <2>1. PICK m \in Moves : \E n \in 1..D[m].seq, a \in Amounts[m], of \in Links(m) :
                              e = Posting(m, n, Signed(m, a), of)
    BY <1>1 DEF PostingTold
  <2>2. 1..D[m].seq \subseteq 1..D1[m].seq
    <3>1. D[m].seq \in Nat /\ D1[m].seq \in Nat
      BY DEF DocTells
    <3> QED BY <3>1
  <2> QED BY <2>1, <2>2 DEF PostingTold
<1>2. ASSUME NEW e, ReversalTold(e, L, D) PROVE ReversalTold(e, L \cup N, D1)
  BY <1>1, <1>2 DEF ReversalTold
<1>3. \A e \in L \cup N : PostingTold(e, D1) \/ AllocationTold(e) \/ ReversalTold(e, L \cup N, D1)
  BY <1>1, <1>2 DEF LedgerTells
<1>4. \A e, f \in L \cup N : Key(e) = Key(f) => e = f
  BY DEF LedgerTells
<1>5. IsFiniteSet(OnMoves(L \cup N))
  <2>1. OnMoves(L \cup N) = OnMoves(L) \cup OnMoves(N)
    BY DEF OnMoves
  <2>2. IsFiniteSet(OnMoves(L))
    BY DEF LedgerTells
  <2>3. IsFiniteSet(OnMoves(N))
    OBVIOUS
  <2> HIDE DEF OnMoves
  <2>4. IsFiniteSet(OnMoves(L) \cup OnMoves(N))
    BY <2>2, <2>3, FS_Union
  <2> QED BY <2>1, <2>4
<1> QED BY <1>3, <1>4, <1>5 DEF LedgerTells

\* --- One more posting of a document.
Bump(D, m) == [D EXCEPT ![m].seq = D[m].seq + 1]
Fresh(D, m, of) == Posting(m, D[m].seq + 1, Signed(m, D[m].amount), of)

LEMMA Bumped ==
  ASSUME NEW D, DocTells(D), NEW m \in Moves
  PROVE  /\ Bump(D, m) \in [Moves -> [state : {"draft", "posted"}, amount : Nat, seq : Nat]]
         /\ \A k \in Moves : /\ Bump(D, m)[k].state = D[k].state /\ Bump(D, m)[k].amount = D[k].amount
                             /\ k # m => Bump(D, m)[k] = D[k]
         /\ Bump(D, m)[m].seq = D[m].seq + 1
         /\ D[m].seq < MaxPostings[m] => DocTells(Bump(D, m))
<1>1. D \in [Moves -> [state : {"draft", "posted"}, amount : Nat, seq : Nat]]
  BY DEF DocTells
<1>2. D[m].seq + 1 \in Nat /\ MaxPostings[m] \in Nat /\ D[m].seq \in Nat
  BY <1>1, Documents
<1>3. Bump(D, m) \in [Moves -> [state : {"draft", "posted"}, amount : Nat, seq : Nat]]
  BY <1>1, <1>2 DEF Bump
<1>4. \A k \in Moves : /\ Bump(D, m)[k].state = D[k].state /\ Bump(D, m)[k].amount = D[k].amount
                       /\ k # m => Bump(D, m)[k] = D[k]
  BY <1>1 DEF Bump
<1>5. Bump(D, m)[m].seq = D[m].seq + 1
  BY <1>1 DEF Bump
<1>6. D[m].seq < MaxPostings[m] => DocTells(Bump(D, m))
  <2> HAVE D[m].seq < MaxPostings[m]
  <2>1. D[m].seq + 1 <= MaxPostings[m]
    BY <1>2
  <2>2. ASSUME NEW k \in Moves PROVE Bump(D, m)[k].amount \in Amounts[k] /\ Bump(D, m)[k].seq <= MaxPostings[k]
    <3>1. D[k].amount \in Amounts[k] /\ D[k].seq <= MaxPostings[k]
      BY DEF DocTells
    <3> QED BY <1>4, <1>5, <2>1, <3>1
  <2> QED BY <1>3, <2>2 DEF DocTells
<1> QED BY <1>3, <1>4, <1>5, <1>6

LEMMA FreshFields ==
  ASSUME NEW D, NEW m, NEW of
  PROVE  /\ Fresh(D, m, of).kind = "posting" /\ Fresh(D, m, of).on = m
         /\ Fresh(D, m, of).n = D[m].seq + 1 /\ Fresh(D, m, of).amount = Signed(m, D[m].amount)
         /\ Fresh(D, m, of).of = of
         /\ Key(Fresh(D, m, of)) = <<"posting", m, D[m].seq + 1>>
BY PostingFields DEF Fresh

Appended(D, A, L, m, of) ==
  /\ Good(Bump(D, m), A, L \cup {Fresh(D, m, of)})
  /\ ActiveOn(L \cup {Fresh(D, m, of)}, m) = ActiveOn(L, m) \cup {Fresh(D, m, of)}
  /\ \A k : k # m => ActiveOn(L \cup {Fresh(D, m, of)}, k) = ActiveOn(L, k)
  /\ Fresh(D, m, of) \notin L

LEMMA AppendKeeps ==
  ASSUME NEW D, NEW A, NEW L, Good(D, A, L), NEW m \in Moves, D[m].seq < MaxPostings[m],
         NEW of \in Links(m)
  PROVE  Appended(D, A, L, m, of)
<1> DEFINE x == Fresh(D, m, of)
           D1 == Bump(D, m)
<1>1. DocTells(D) /\ AllocTells(A, L) /\ LedgerTells(L, D) /\ RoomTells(D, L)
  BY DEF Good
<1>2. /\ x.kind = "posting" /\ x.on = m /\ x.n = D[m].seq + 1
      /\ x.of = of /\ Key(x) = <<"posting", m, D[m].seq + 1>>
  BY FreshFields
<1>3. D[m].seq \in Nat /\ D[m].amount \in Amounts[m]
  BY <1>1 DEF DocTells
<1>4. /\ DocTells(D1) /\ D1[m].seq = D[m].seq + 1
      /\ \A k \in Moves : D1[k].state = D[k].state /\ (k # m => D1[k] = D[k])
  BY <1>1, Bumped
<1> HIDE DEF D1
<1>5. PostingTold(x, D1)
  <2>1. D1[m].seq \in 1..D1[m].seq
    BY <1>3, <1>4
  <2>2. x = Posting(m, D1[m].seq, Signed(m, D[m].amount), of)
    BY <1>4 DEF Fresh
  <2> HIDE DEF x
  <2> QED BY <1>3, <2>1, <2>2 DEF PostingTold
<1> HIDE DEF x
<1>6. \A e \in L : e.on = m => e.n <= D[m].seq /\ e.n \in Nat
  <2> TAKE e \in L
  <2> HAVE e.on = m
  <2>1. e.n \in 1..D[m].seq
    BY <1>1, EventFields
  <2> QED BY <1>3, <2>1
<1>7. \A f \in L : Key(f) # Key(x)
  <2> SUFFICES ASSUME NEW f \in L, Key(f) = Key(x) PROVE FALSE
    OBVIOUS
  <2>1. Key(f) = <<f.kind, f.on, f.n>>
    BY DEF Key
  <2>2. f.on = m /\ f.n = D[m].seq + 1
    BY <1>2, <2>1
  <2> QED BY <1>3, <1>6, <2>2
<1>8. LedgerTells(L \cup {x}, D1)
  <2> DEFINE N == {x}
  <2>1. IsFiniteSet(OnMoves(N))
    <3>1. IsFiniteSet(N) /\ OnMoves(N) \subseteq N
      BY FS_Singleton DEF OnMoves
    <3> QED BY <3>1, FS_Subset
  <2>2. \A k \in Moves : D[k].seq <= D1[k].seq
    <3> TAKE k \in Moves
    <3>1. D[k].seq \in Nat
      BY <1>1 DEF DocTells
    <3> QED BY <1>3, <1>4, <3>1
  <2>3. \A e \in N : PostingTold(e, D1)
    BY <1>5
  <2>4. \A e \in N : \A f \in L \cup N : Key(e) = Key(f) => e = f
    BY <1>7
  <2> HIDE DEF N
  <2>5. LedgerTells(L \cup N, D1)
    BY <1>1, <1>4, <2>1, <2>2, <2>3, <2>4, ToldMore
  <2> QED BY <2>5 DEF N
<1>9. \A k, y : y \in ActiveOn(L \cup {x}, k) <=> (y \in ActiveOn(L, k) \/ (y = x /\ k = m))
  <2> TAKE k, y
  <2>1. x \notin L
    BY <1>7
  <2>2. \A r \in L : r.kind = "reversal" => r.of # Key(x)
    <3> SUFFICES ASSUME NEW r \in L, r.kind = "reversal", r.of = Key(x) PROVE FALSE
      OBVIOUS
    <3>1. PICK f \in L : Key(f) = r.of
      BY <1>1, EventFields
    <3> QED BY <1>7, <3>1
  <2>3. x.kind # "reversal"
    BY <1>2
  <2>4. y \in ActiveOn(L \cup {x}, k) <=> /\ y \in L \cup {x} /\ y.kind = "posting" /\ y.on = k
                                          /\ \A r \in L \cup {x} : r.kind = "reversal" => r.of # Key(y)
    BY ActiveIs
  <2>5. y \in ActiveOn(L, k) <=> /\ y \in L /\ y.kind = "posting" /\ y.on = k
                                 /\ \A r \in L : r.kind = "reversal" => r.of # Key(y)
    BY ActiveIs
  <2>6. CASE y = x
    BY <1>2, <2>1, <2>2, <2>3, <2>4, <2>5, <2>6
  <2>7. CASE y # x
    BY <2>3, <2>4, <2>5, <2>7
  <2> QED BY <2>6, <2>7
<1>10. ActiveOn(L \cup {x}, m) = ActiveOn(L, m) \cup {x}
  BY <1>9
<1>11. \A k : k # m => ActiveOn(L \cup {x}, k) = ActiveOn(L, k)
  <2> TAKE k
  <2> HAVE k # m
  <2>1. \A y : y \in ActiveOn(L \cup {x}, k) <=> y \in ActiveOn(L, k)
    BY <1>9
  <2> QED BY <2>1
<1>12. AllocTells(A, L \cup {x})
  <2>1. \A p \in Partials : x.on # p
    BY <1>2, Documents
  <2>2. \A p \in Partials : Reversal(Allocation(p)) # x
    <3> TAKE p \in Partials
    <3>1. IsPosting(Allocation(p))
      <4>1. Allocation(p).on = p /\ Allocation(p).n = 1 /\ Allocation(p).amount = 1 /\ Allocation(p).of = None
        BY AllocationFields
      <4>2. Allocation(p) = Posting(p, 1, 1, None)
        BY DEF Allocation
      <4> QED BY <4>1, <4>2 DEF IsPosting
    <3>2. Reversal(Allocation(p)).kind = "reversal"
      BY <3>1, ReversalFields
    <3> QED BY <1>2, <3>2
  <2> QED BY <1>1, <2>1, <2>2 DEF AllocTells
<1>13. RoomTells(D1, L \cup {x})
  <2> SUFFICES ASSUME NEW k \in Moves, D1[k].state = "posted", ActiveOn(L \cup {x}, k) = {}
               PROVE  D1[k].seq < MaxPostings[k]
    BY DEF RoomTells
  <2>1. k # m
    BY <1>10
  <2>2. D1[k] = D[k] /\ ActiveOn(L, k) = {}
    BY <1>4, <1>11, <2>1
  <2> QED BY <1>1, <2>2 DEF RoomTells
<1>14. Good(D1, A, L \cup {x})
  BY <1>4, <1>8, <1>12, <1>13 DEF Good
<1>15. x \notin L
  BY <1>7
<1> QED BY <1>10, <1>11, <1>14, <1>15 DEF Appended, x, D1

LEMMA SameNumbers ==
  ASSUME NEW D, DocTells(D), NEW D1, DocTells(D1), \A m \in Moves : D[m].seq = D1[m].seq,
         NEW L, LedgerTells(L, D)
  PROVE  LedgerTells(L, D1)
<1>1. IsFiniteSet(OnMoves({}))
  <2>1. OnMoves({}) = {}
    BY DEF OnMoves
  <2> QED BY <2>1, FS_EmptySet
<1>2. \A m \in Moves : D[m].seq <= D1[m].seq
  BY DEF DocTells
<1>3. LedgerTells(L \cup {}, D1)
  BY <1>1, <1>2, ToldMore
<1>4. L \cup {} = L
  OBVIOUS
<1> QED BY <1>3, <1>4

InState(D, m, state) == [D EXCEPT ![m].state = state]

LEMMA Restated ==
  ASSUME NEW D, DocTells(D), NEW m \in Moves, NEW state \in {"draft", "posted"}
  PROVE  /\ DocTells(InState(D, m, state)) /\ InState(D, m, state)[m].state = state
         /\ \A k \in Moves : /\ InState(D, m, state)[k].seq = D[k].seq
                             /\ InState(D, m, state)[k].amount = D[k].amount
                             /\ k # m => InState(D, m, state)[k] = D[k]
<1>1. D \in [Moves -> [state : {"draft", "posted"}, amount : Nat, seq : Nat]]
  BY DEF DocTells
<1>2. InState(D, m, state) \in [Moves -> [state : {"draft", "posted"}, amount : Nat, seq : Nat]]
  BY <1>1 DEF InState
<1>3. \A k \in Moves : /\ InState(D, m, state)[k].seq = D[k].seq
                       /\ InState(D, m, state)[k].amount = D[k].amount
                       /\ k # m => InState(D, m, state)[k] = D[k]
  BY <1>1 DEF InState
<1>4. InState(D, m, state)[m].state = state
  BY <1>1 DEF InState
<1>5. DocTells(InState(D, m, state))
  BY <1>2, <1>3 DEF DocTells
<1> QED BY <1>3, <1>4, <1>5

\* --- The counterevent of an active posting.
LEMMA AllocationPosting ==
  ASSUME NEW p
  PROVE  /\ IsPosting(Allocation(p))
         /\ Reversal(Allocation(p)).kind = "reversal" /\ Reversal(Allocation(p)).on = p
         /\ Reversal(Allocation(p)).n = 1 /\ Reversal(Allocation(p)).of = <<"posting", p, 1>>
         /\ Key(Reversal(Allocation(p))) = <<"reversal", p, 1>>
<1>1. /\ Allocation(p).on = p /\ Allocation(p).n = 1 /\ Allocation(p).amount = 1 /\ Allocation(p).of = None
      /\ Key(Allocation(p)) = <<"posting", p, 1>>
  BY AllocationFields
<1>2. Allocation(p) = Posting(p, 1, 1, None)
  BY DEF Allocation
<1>3. IsPosting(Allocation(p))
  BY <1>1, <1>2 DEF IsPosting
<1> QED BY <1>1, <1>3, ReversalFields

LEMMA ActiveSays ==
  ASSUME NEW D, DocTells(D), NEW L, LedgerTells(L, D), NEW m \in Moves, NEW z \in ActiveOn(L, m)
  PROVE  /\ z \in L /\ z.on = m /\ z.kind = "posting" /\ PostingTold(z, D) /\ PostingSays(z, D)
         /\ IsPosting(z) /\ z.of \in Links(m) /\ \E a \in Amounts[m] : z.amount = Signed(m, a)
<1>1. z \in L /\ z.kind = "posting" /\ z.on = m
  BY ActiveIs
<1>2. PostingSays(z, D)
  BY <1>1, EventFields
<1>3. m \notin Partials
  BY Documents
<1>4. ~ReversalTold(z, L, D)
  <2> SUFFICES ASSUME ReversalTold(z, L, D) PROVE FALSE
    OBVIOUS
  <2>1. PICK f \in L : (PostingTold(f, D) \/ AllocationTold(f)) /\ z = Reversal(f)
    BY DEF ReversalTold
  <2>2. IsPosting(f)
    BY <2>1, PostingsSay DEF PostingSays
  <2> QED BY <1>1, <2>1, <2>2, ReversalFields
<1>5. ~AllocationTold(z)
  BY <1>1, <1>3, AllocationFields DEF AllocationTold
<1>6. PostingTold(z, D)
  BY <1>1, <1>4, <1>5 DEF LedgerTells
<1> QED BY <1>1, <1>2, <1>3, <1>6 DEF PostingSays

Reversed(D, A, L, m, z) ==
  /\ Good(InState(D, m, "draft"), A, L \cup {Reversal(z)})
  /\ ActiveOn(L \cup {Reversal(z)}, m) = ActiveOn(L, m) \ {z}
  /\ \A k : k # m => ActiveOn(L \cup {Reversal(z)}, k) = ActiveOn(L, k)

LEMMA ReverseKeeps ==
  ASSUME NEW D, NEW A, NEW L, Good(D, A, L), NEW m \in Moves, NEW z \in ActiveOn(L, m)
  PROVE  Reversed(D, A, L, m, z)
<1> DEFINE x == Reversal(z)
           D1 == InState(D, m, "draft")
<1>1. DocTells(D) /\ AllocTells(A, L) /\ LedgerTells(L, D) /\ RoomTells(D, L)
  BY DEF Good
<1>2. /\ z \in L /\ z.on = m /\ z.kind = "posting" /\ PostingTold(z, D) /\ IsPosting(z)
      /\ PostingSays(z, D)
  BY <1>1, ActiveSays
<1>3. /\ x.kind = "reversal" /\ x.on = m /\ x.of = Key(z) /\ Key(x) = <<"reversal", m, z.n>>
      /\ Key(z) = <<"posting", m, z.n>>
  BY <1>2, ReversalFields
<1>4. /\ DocTells(D1) /\ D1[m].state = "draft"
      /\ \A k \in Moves : D1[k].seq = D[k].seq /\ (k # m => D1[k] = D[k])
  BY <1>1, Restated
<1> HIDE DEF D1
<1>5. ReversalTold(x, L \cup {x}, D)
  BY <1>2 DEF ReversalTold
<1>6. \A f \in L : Key(f) = Key(x) => x = f
  <2> TAKE f \in L
  <2> HAVE Key(f) = Key(x)
  <2>1. Key(f) = <<f.kind, f.on, f.n>>
    BY DEF Key
  <2>2. f.kind = "reversal" /\ f.on = m /\ f.n = z.n
    BY <1>3, <2>1
  <2>3. PICK g \in L : f = Reversal(g) /\ Key(g) = <<"posting", m, z.n>>
    BY <1>1, <2>2, EventFields
  <2>4. g = z
    BY <1>1, <1>2, <1>3, <2>3 DEF LedgerTells
  <2> QED BY <2>3, <2>4
<1> HIDE DEF x
<1>7. LedgerTells(L \cup {x}, D)
  <2> DEFINE N == {x}
  <2>1. IsFiniteSet(OnMoves(N))
    <3>1. IsFiniteSet(N) /\ OnMoves(N) \subseteq N
      BY FS_Singleton DEF OnMoves
    <3> QED BY <3>1, FS_Subset
  <2>2. \A k \in Moves : D[k].seq <= D[k].seq
    BY <1>1 DEF DocTells
  <2>3. \A e \in N : ReversalTold(e, L \cup N, D)
    BY <1>5
  <2>4. \A e \in N : \A f \in L \cup N : Key(e) = Key(f) => e = f
    BY <1>6
  <2> HIDE DEF N
  <2>5. LedgerTells(L \cup N, D)
    BY <1>1, <2>1, <2>2, <2>3, <2>4, ToldMore
  <2> QED BY <2>5 DEF N
<1>8. LedgerTells(L \cup {x}, D1)
  BY <1>1, <1>4, <1>7, SameNumbers
<1>9. ASSUME NEW k, NEW y PROVE y \in ActiveOn(L \cup {x}, k) <=> (y \in ActiveOn(L, k) /\ y # z)
  <2>1. y \in ActiveOn(L \cup {x}, k) <=> /\ y \in L \cup {x} /\ y.kind = "posting" /\ y.on = k
                                          /\ \A r \in L \cup {x} : r.kind = "reversal" => r.of # Key(y)
    BY ActiveIs
  <2>2. y \in ActiveOn(L, k) <=> /\ y \in L /\ y.kind = "posting" /\ y.on = k
                                 /\ \A r \in L : r.kind = "reversal" => r.of # Key(y)
    BY ActiveIs
  <2>3. y \in L /\ y # z => Key(y) # Key(z)
    BY <1>1, <1>2 DEF LedgerTells
  <2>4. y = x => y.kind # "posting"
    BY <1>3
  <2> QED BY <1>3, <2>1, <2>2, <2>3, <2>4
<1>10. ActiveOn(L \cup {x}, m) = ActiveOn(L, m) \ {z}
  BY <1>9
<1>11. ASSUME NEW k, k # m PROVE ActiveOn(L \cup {x}, k) = ActiveOn(L, k)
  <2>1. \A y : y \in ActiveOn(L, k) => y # z
    BY <1>2, <1>11, ActiveIs
  <2>2. \A y : y \in ActiveOn(L \cup {x}, k) <=> y \in ActiveOn(L, k)
    BY <1>9, <2>1
  <2> QED BY <2>2
<1>12. AllocTells(A, L \cup {x})
  <2>1. \A p \in Partials : x.on # p
    BY <1>3, Documents
  <2>2. \A p \in Partials : Reversal(Allocation(p)) # x
    BY <2>1, AllocationPosting
  <2> QED BY <1>1, <2>1, <2>2 DEF AllocTells
<1>13. RoomTells(D1, L \cup {x})
  <2> SUFFICES ASSUME NEW k \in Moves, D1[k].state = "posted", ActiveOn(L \cup {x}, k) = {}
               PROVE  D1[k].seq < MaxPostings[k]
    BY DEF RoomTells
  <2>1. k # m
    BY <1>4
  <2>2. D1[k] = D[k] /\ ActiveOn(L, k) = {}
    BY <1>4, <1>11, <2>1
  <2> QED BY <1>1, <2>2 DEF RoomTells
<1>14. Good(D1, A, L \cup {x})
  BY <1>4, <1>8, <1>12, <1>13 DEF Good
<1> QED BY <1>10, <1>11, <1>14 DEF Reversed, x, D1

\* --- The events of allocations.
Pairs(Q, P) == {Allocation(p) : p \in Q} \cup {Reversal(Allocation(p)) : p \in P}

LEMMA PairsSay ==
  ASSUME NEW Q \in SUBSET Partials, NEW P \in SUBSET Q, NEW e \in Pairs(Q, P)
  PROVE  \E p \in Q : /\ e.on = p /\ e.n = 1
                      /\ \/ e = Allocation(p) /\ e.kind = "posting" /\ e.of = None
                         \/ p \in P /\ e = Reversal(Allocation(p)) /\ e.kind = "reversal" /\ e.of = <<"posting", p, 1>>
BY AllocationFields, AllocationPosting DEF Pairs

LEMMA PairsKeep ==
  ASSUME NEW D, DocTells(D), NEW L, LedgerTells(L, D), NEW Q \in SUBSET Partials, NEW P \in SUBSET Q
  PROVE  /\ LedgerTells(L \cup Pairs(Q, P), D)
         /\ \A m \in Moves : ActiveOn(L \cup Pairs(Q, P), m) = ActiveOn(L, m)
<1> DEFINE N == Pairs(Q, P)
<1>1. ASSUME NEW e \in N
      PROVE  \E p \in Q : /\ e.on = p /\ e.n = 1 /\ p \notin Moves
                          /\ \/ e = Allocation(p) /\ e.kind = "posting" /\ e.of = None
                             \/ p \in P /\ e = Reversal(Allocation(p)) /\ e.kind = "reversal" /\ e.of = <<"posting", p, 1>>
  <2>1. PICK p \in Q : /\ e.on = p /\ e.n = 1
                       /\ \/ e = Allocation(p) /\ e.kind = "posting" /\ e.of = None
                          \/ p \in P /\ e = Reversal(Allocation(p)) /\ e.kind = "reversal" /\ e.of = <<"posting", p, 1>>
    BY <1>1, PairsSay
  <2>2. p \notin Moves
    BY Documents
  <2> QED BY <2>1, <2>2
<1>2. OnMoves(N) = {}
  <2> HIDE DEF N
  <2> QED BY <1>1 DEF OnMoves
<1>3. \A e \in N : AllocationTold(e) \/ ReversalTold(e, L \cup N, D)
  <2> TAKE e \in N
  <2> HIDE DEF N
  <2>1. PICK p \in Q : e = Allocation(p) \/ (p \in P /\ e = Reversal(Allocation(p)))
    BY <1>1
  <2>2. CASE e = Allocation(p)
    BY <2>2 DEF AllocationTold
  <2>3. CASE p \in P /\ e = Reversal(Allocation(p))
    <3>1. Allocation(p) \in N
      BY DEF N, Pairs
    <3>2. AllocationTold(Allocation(p))
      BY DEF AllocationTold
    <3> QED BY <2>3, <3>1, <3>2 DEF ReversalTold
  <2> QED BY <2>1, <2>2, <2>3
<1>4. ASSUME NEW e \in N, NEW f \in L \cup N, Key(e) = Key(f) PROVE e = f
  <2> HIDE DEF N
  <2>1. f.kind = e.kind /\ f.on = e.on /\ f.n = e.n
    <3>1. Key(f) = <<f.kind, f.on, f.n>> /\ Key(e) = <<e.kind, e.on, e.n>>
      BY DEF Key
    <3> HIDE DEF Key
    <3> QED BY <1>4, <3>1
  <2>2. PICK p \in Q : /\ e.on = p /\ e.n = 1 /\ p \notin Moves
                       /\ \/ e = Allocation(p) /\ e.kind = "posting"
                          \/ e = Reversal(Allocation(p)) /\ e.kind = "reversal"
    BY <1>1
  <2>3. CASE f \in N
    <3>1. PICK q \in Q : /\ f.on = q
                         /\ \/ f = Allocation(q) /\ f.kind = "posting"
                            \/ f = Reversal(Allocation(q)) /\ f.kind = "reversal"
      BY <1>1, <2>3
    <3> QED BY <2>1, <2>2, <3>1
  <2>4. CASE f \in L
    <3>1. CASE e.kind = "posting"
      <4>1. PostingSays(f, D)
        BY <2>1, <2>4, <3>1, EventFields
      <4>2. f = Allocation(p)
        BY <2>1, <2>2, <4>1 DEF PostingSays
      <4> QED BY <2>2, <3>1, <4>2
    <3>2. CASE e.kind = "reversal"
      <4>0. f.kind = "reversal"
        BY <2>1, <3>2
      <4>1. PICK g \in L : PostingSays(g, D) /\ f = Reversal(g) /\ Key(g) = f.of /\ f.of = <<"posting", f.on, f.n>>
        BY <2>4, <4>0, EventFields
      <4>2. g.on = p
        <5>1. Key(g) = <<g.kind, g.on, g.n>>
          BY DEF Key
        <5>2. <<g.kind, g.on, g.n>> = <<"posting", f.on, f.n>>
          BY <4>1, <5>1
        <5>3. g.on = f.on
          BY <5>2
        <5> QED BY <2>1, <2>2, <5>3
      <4>3. g = Allocation(p)
        BY <2>2, <4>1, <4>2 DEF PostingSays
      <4> QED BY <2>2, <3>2, <4>1, <4>3
    <3> QED BY <2>2, <3>1, <3>2
  <2> QED BY <2>3, <2>4
<1> HIDE DEF N
<1>5. LedgerTells(L \cup N, D)
  <2>1. \A k \in Moves : D[k].seq <= D[k].seq
    BY DEF DocTells
  <2>2. IsFiniteSet(OnMoves(N))
    BY <1>2, FS_EmptySet
  <2> QED BY <1>3, <1>4, <2>1, <2>2, ToldMore
<1>6. ASSUME NEW m \in Moves PROVE ActiveOn(L \cup N, m) = ActiveOn(L, m)
  <2> SUFFICES ASSUME NEW y PROVE y \in ActiveOn(L \cup N, m) <=> y \in ActiveOn(L, m)
    OBVIOUS
  <2>1. y \in ActiveOn(L \cup N, m) <=> /\ y \in L \cup N /\ y.kind = "posting" /\ y.on = m
                                        /\ \A r \in L \cup N : r.kind = "reversal" => r.of # Key(y)
    BY ActiveIs
  <2>2. y \in ActiveOn(L, m) <=> /\ y \in L /\ y.kind = "posting" /\ y.on = m
                                 /\ \A r \in L : r.kind = "reversal" => r.of # Key(y)
    BY ActiveIs
  <2>3. y \in N => y.on # m
    BY <1>1
  <2>4. ASSUME y.on = m, NEW r \in N, r.kind = "reversal", r.of = Key(y) PROVE FALSE
    <3>1. PICK p \in Q : p \notin Moves /\ r.of = <<"posting", p, 1>>
      BY <1>1, <2>4
    <3>2. Key(y) = <<y.kind, y.on, y.n>>
      BY DEF Key
    <3>3. <<y.kind, y.on, y.n>> = <<"posting", p, 1>>
      BY <2>4, <3>1, <3>2
    <3>4. y.on = p
      BY <3>3
    <3> QED BY <2>4, <3>1, <3>4
  <2> QED BY <2>1, <2>2, <2>3, <2>4
<1> QED BY <1>5, <1>6 DEF N

\* --- What a transaction has done so far, S(D, A, K), before it adds to L.
S(D, A, K) == [doc |-> D, alloc |-> A, ledger |-> K]
Seen(K, L, X) == K \subseteq L /\ \A e \in L : e.on \in X => e \in K
Looked(m) ==
  IF m \in Credits THEN {Target[m]} \cup {c \in Credits : Target[c] = Target[m]} ELSE {m}

LEMMA SeenGrows ==
  ASSUME NEW K, NEW L, NEW X, Seen(K, L, X), NEW N
  PROVE  Seen(K \cup N, L \cup N, X)
BY DEF Seen

LEMMA SeenActive ==
  ASSUME NEW D, NEW A, NEW L, Good(D, A, L), NEW X, NEW K, Seen(K, L, X), NEW m \in X
  PROVE  ActiveOn(K, m) = ActiveOn(L, m)
<1>1. K \in SUBSET L /\ \A e \in L : e.on = m => e \in K
  BY DEF Seen
<1>2. DocTells(D) /\ LedgerTells(L, D)
  BY DEF Good
<1> QED BY <1>1, <1>2, ActiveSeen

LEMMA AppendIs ==
  ASSUME NEW D, NEW A, NEW K, NEW m, NEW of
  PROVE  Append(S(D, A, K), m, of) = S(Bump(D, m), A, K \cup {Fresh(D, m, of)})
<1> DEFINE s == S(D, A, K)
           x == Posting(m, D[m].seq + 1, Signed(m, D[m].amount), of)
<1>1. s.doc = D /\ s.alloc = A /\ s.ledger = K
  BY DEF S
<1>2. x = Fresh(D, m, of)
  BY DEF Fresh
<1> DEFINE B == Bump(D, m)
           s1 == [doc |-> B, alloc |-> A, ledger |-> K]
<1> HIDE DEF s, x
<1>3. Append(s, m, of) = [s EXCEPT !.doc[m].seq = D[m].seq + 1, !.ledger = @ \cup {x}]
  BY <1>1 DEF Append, x
<1>4. [s EXCEPT !.doc[m].seq = D[m].seq + 1] = [s EXCEPT !.doc = B]
  BY <1>1, Zenon DEF Bump
<1>5. [s EXCEPT !.doc = B] = s1
  <2> HIDE DEF B
  <2> QED BY DEF s, S
<1> HIDE DEF B
<1>6. [s1 EXCEPT !.ledger = K \cup {x}] = S(B, A, K \cup {x}) /\ s1.ledger = K
  BY DEF S
<1> HIDE DEF s1
<1>7. [s EXCEPT !.doc[m].seq = D[m].seq + 1, !.ledger = @ \cup {x}] = [s1 EXCEPT !.ledger = K \cup {x}]
  BY <1>1, <1>4, <1>5, <1>6, Zenon
<1>8. Append(s, m, of) = S(B, A, K \cup {x})
  BY <1>3, <1>6, <1>7
<1> QED BY <1>2, <1>8 DEF s, B

Right(D, L, m) ==
  /\ Cardinality(ActiveOn(L, m)) <= 1
  /\ \A e \in ActiveOn(L, m) : D[m].state = "posted" /\ e.amount = Signed(m, D[m].amount)
Booked(D, L, m) ==
  Right(D, L, m) /\ (D[m].state = "posted" /\ D[m].seq > 0 => ActiveOn(L, m) # {})

Fits(e, K, N) ==
  \E K1, posting, a :
    /\ a \in Nat /\ e.amount = -a /\ e.on \in Credits
    /\ K \subseteq K1 /\ e \notin K1 /\ K \cup N = K1 \cup {e}
    /\ posting \in ActiveOn(K1, Target[e.on]) /\ Key(posting) = e.of
    /\ Credited(K1, Target[e.on]) + a <= posting.amount

Grown(D1, N, m, D, A, K, L) ==
  /\ Good(D1, A, L \cup N)
  /\ \A k \in Moves : /\ D1[k].state = D[k].state /\ D1[k].amount = D[k].amount
                      /\ k \notin Scope(m) => D1[k] = D[k]
  /\ \A e \in N : e.kind = "posting" /\ e.on \in Scope(m)
  /\ \A k \in Moves \ {m} : Booked(D, L, k) => Booked(D1, L \cup N, k)
  /\ D[m].state = "posted" /\ ActiveOn(L, m) = {} => Booked(D1, L \cup N, m)
  /\ ActiveOn(L \cup N, m) # {}
  /\ \A e \in N : e.of # None => e.on = m /\ m \in Credits /\ Fits(e, K, N)

LEMMA BookedSame ==
  ASSUME NEW D, NEW L, NEW D1, NEW L1, NEW k, D1[k] = D[k], ActiveOn(L1, k) = ActiveOn(L, k),
         Booked(D, L, k)
  PROVE  Booked(D1, L1, k)
BY DEF Booked, Right

LEMMA BookedFresh ==
  ASSUME NEW D, NEW D1, NEW L, NEW L1, NEW k, NEW x, ActiveOn(L, k) = {},
         ActiveOn(L1, k) = ActiveOn(L, k) \cup {x}, x.amount = Signed(k, D[k].amount),
         D1[k].state = D[k].state, D1[k].amount = D[k].amount, D[k].state = "posted"
  PROVE  Booked(D1, L1, k)
<1>1. ActiveOn(L1, k) = {x}
  OBVIOUS
<1>2. Cardinality({x}) = 1
  BY FS_Singleton
<1> QED BY <1>1, <1>2 DEF Booked, Right

\* --- One more posting that is linked to none.
LEMMA AppendGrows ==
  ASSUME NEW D, NEW A, NEW K, NEW L, Good(D, A, L), NEW m \in Moves, D[m].seq < MaxPostings[m]
  PROVE  Grown(Bump(D, m), {Fresh(D, m, None)}, m, D, A, K, L)
<1> DEFINE x == Fresh(D, m, None)
           D1 == Bump(D, m)
           L1 == L \cup {x}
<1>1. None \in Links(m)
  BY DEF Links
<1>2. Appended(D, A, L, m, None)
  BY <1>1, AppendKeeps
<1>3. DocTells(D)
  BY DEF Good
<1>4. \A k \in Moves : /\ D1[k].state = D[k].state /\ D1[k].amount = D[k].amount
                       /\ k # m => D1[k] = D[k]
  BY <1>3, Bumped
<1>5. x.kind = "posting" /\ x.on = m /\ x.amount = Signed(m, D[m].amount) /\ x.of = None
  BY FreshFields
<1>6. /\ Good(D1, A, L1) /\ ActiveOn(L1, m) = ActiveOn(L, m) \cup {x}
      /\ \A k : k # m => ActiveOn(L1, k) = ActiveOn(L, k)
  BY <1>2 DEF Appended
<1> HIDE DEF x, D1, L1
<1>7. m \in Scope(m)
  BY DEF Scope
<1>8. \A k \in Moves \ {m} : Booked(D, L, k) => Booked(D1, L1, k)
  BY <1>4, <1>6, BookedSame
<1>9. D[m].state = "posted" /\ ActiveOn(L, m) = {} => Booked(D1, L1, m)
  BY <1>4, <1>5, <1>6, BookedFresh
<1>10. \A k \in Moves : /\ D1[k].state = D[k].state /\ D1[k].amount = D[k].amount
                        /\ k \notin Scope(m) => D1[k] = D[k]
  BY <1>4, <1>7
<1>11. \A e \in {x} : e.kind = "posting" /\ e.on \in Scope(m) /\ e.of = None
  BY <1>5, <1>7
<1>12. ActiveOn(L1, m) # {}
  BY <1>6
<1>13. Grown(D1, {x}, m, D, A, K, L)
  BY <1>6, <1>8, <1>9, <1>10, <1>11, <1>12 DEF Grown, L1
<1> QED BY <1>13 DEF x, D1

\* --- The invoice that a credit note reverses has its event first.
Backed(D1, N, i, D, A, L) ==
  /\ Good(D1, A, L \cup N) /\ ActiveOn(L \cup N, i) # {}
  /\ \A k \in Moves : /\ D1[k].state = D[k].state /\ D1[k].amount = D[k].amount
                      /\ k # i => D1[k] = D[k]
  /\ \A e \in N : e.kind = "posting" /\ e.on = i /\ e.of = None
  /\ \A k : k # i => ActiveOn(L \cup N, k) = ActiveOn(L, k)
  /\ Booked(D, L, i) => Booked(D1, L \cup N, i)

LEMMA InvoiceBacked ==
  ASSUME NEW D, NEW A, NEW K, NEW L, Good(D, A, L), NEW i \in Moves, NEW X, i \in X, Seen(K, L, X),
         D[i].state = "posted"
  PROVE  \E D1, N : /\ EnsureInvoice(S(D, A, K), i) = S(D1, A, K \cup N)
                    /\ Backed(D1, N, i, D, A, L)
<1> DEFINE s == S(D, A, K)
<1>1. s.ledger = K
  BY DEF S
<1>2. ActiveOn(K, i) = ActiveOn(L, i)
  BY SeenActive
<1> HIDE DEF s
<1>3. CASE ActiveOn(K, i) # {}
  <2>1. EnsureInvoice(s, i) = s
    BY <1>1, <1>3 DEF EnsureInvoice
  <2>2. K \cup {} = K /\ L \cup {} = L
    OBVIOUS
  <2>3. Backed(D, {}, i, D, A, L)
    BY <1>2, <1>3, <2>2 DEF Backed
  <2> QED BY <2>1, <2>2, <2>3 DEF s
<1>4. CASE ActiveOn(K, i) = {}
  <2> DEFINE x == Fresh(D, i, None)
             D1 == Bump(D, i)
  <2>1. EnsureInvoice(s, i) = Append(s, i, None)
    BY <1>1, <1>4 DEF EnsureInvoice
  <2>2. EnsureInvoice(s, i) = S(D1, A, K \cup {x})
    BY <2>1, AppendIs DEF s
  <2>3. D[i].seq < MaxPostings[i]
    BY <1>2, <1>4 DEF Good, RoomTells
  <2>4. None \in Links(i)
    BY DEF Links
  <2>5. Appended(D, A, L, i, None)
    BY <2>3, <2>4, AppendKeeps
  <2>6. /\ Good(D1, A, L \cup {x}) /\ ActiveOn(L \cup {x}, i) = ActiveOn(L, i) \cup {x}
        /\ \A k : k # i => ActiveOn(L \cup {x}, k) = ActiveOn(L, k)
    BY <2>5 DEF Appended
  <2>7. x.kind = "posting" /\ x.on = i /\ x.amount = Signed(i, D[i].amount) /\ x.of = None
    BY FreshFields
  <2>8. \A k \in Moves : /\ D1[k].state = D[k].state /\ D1[k].amount = D[k].amount
                         /\ k # i => D1[k] = D[k]
    BY Bumped DEF Good
  <2> HIDE DEF x, D1
  <2>9. Booked(D1, L \cup {x}, i)
    <3>1. ActiveOn(L, i) = {} /\ ActiveOn(L \cup {x}, i) = ActiveOn(L, i) \cup {x}
      BY <1>2, <1>4, <2>6
    <3>2. x.amount = Signed(i, D[i].amount) /\ D1[i].state = D[i].state /\ D1[i].amount = D[i].amount
      BY <2>7, <2>8
    <3> QED BY <3>1, <3>2, BookedFresh
  <2>10. Backed(D1, {x}, i, D, A, L)
    BY <2>6, <2>7, <2>8, <2>9 DEF Backed
  <2> QED BY <2>2, <2>10 DEF s
<1> QED BY <1>3, <1>4 DEF s

\* Emit of a credit note whose invoice is posted: the invoice is backed, then the credit
\* is linked to its latest posting if it fits.
LEMMA CreditGrows ==
  ASSUME NEW D, NEW A, NEW K, NEW L, Good(D, A, L), NEW m \in Credits, D[m].seq < MaxPostings[m],
         D[Target[m]].state = "posted", Seen(K, L, Looked(m))
  PROVE  \E D2, N : /\ Emit(S(D, A, K), m) = S(D2, A, K \cup N)
                    /\ Grown(D2, N, m, D, A, K, L)
<1> DEFINE i == Target[m]
<1>1. /\ m \in Moves /\ i \in Moves /\ i \in Invoices /\ m \notin Invoices /\ i # m
      /\ i \in Looked(m) /\ m \in Scope(m) /\ i \in Scope(m)
  BY Documents DEF Looked, Scope
<1>2. PICK D1, N1 : EnsureInvoice(S(D, A, K), i) = S(D1, A, K \cup N1) /\ Backed(D1, N1, i, D, A, L)
  <2> HIDE DEF i
  <2>1. D[i].state = "posted"
    BY DEF i
  <2> QED BY <1>1, <2>1, InvoiceBacked
<1> DEFINE K1 == K \cup N1
           L1 == L \cup N1
           t == S(D1, A, K1)
           of == CreditTarget(t, m)
           x == Fresh(D1, m, of)
           D2 == Bump(D1, m)
           posting == Latest(ActiveOn(K1, i))
<1>3. Emit(S(D, A, K), m) = Append(t, m, of)
  BY <1>1, <1>2 DEF Emit, S
<1>4. /\ Good(D1, A, L1) /\ ActiveOn(L1, i) # {}
      /\ \A k \in Moves : /\ D1[k].state = D[k].state /\ D1[k].amount = D[k].amount
                          /\ k # i => D1[k] = D[k]
      /\ \A e \in N1 : e.kind = "posting" /\ e.on = i /\ e.of = None
      /\ \A k : k # i => ActiveOn(L1, k) = ActiveOn(L, k)
      /\ Booked(D, L, i) => Booked(D1, L1, i)
  BY <1>2 DEF Backed
<1>5. Seen(K1, L1, Looked(m)) /\ K1 \subseteq L1
  BY SeenGrows DEF Seen
<1> HIDE DEF i
<1>6. ActiveOn(K1, i) = ActiveOn(L1, i)
  <2> HIDE DEF K1, L1
  <2> QED BY <1>1, <1>4, <1>5, SeenActive
<1>7. DocTells(D1) /\ LedgerTells(L1, D1)
  BY <1>4 DEF Good
<1>8. posting \in ActiveOn(L1, i)
  <2> HIDE DEF K1, L1
  <2> QED BY <1>1, <1>4, <1>6, <1>7, LatestIs
<1>9. Key(posting) \in Links(m)
  <2> HIDE DEF posting, L1
  <2>1. PostingSays(posting, D1) /\ posting.on = i
    BY <1>1, <1>7, <1>8, ActiveSays
  <2>2. Key(posting) = <<"posting", i, posting.n>> /\ posting.n \in Nat
    BY <2>1 DEF PostingSays
  <2> QED BY <2>2 DEF Links, i
<1>10. of = IF Credited(K1, i) + D1[m].amount <= posting.amount THEN Key(posting) ELSE None
  BY DEF CreditTarget, S, i
<1>11. of \in Links(m)
  <2>1. None \in Links(m)
    BY DEF Links
  <2> QED BY <1>9, <1>10, <2>1
<1>12. Append(t, m, of) = S(D2, A, K1 \cup {x})
  <2> HIDE DEF of, K1
  <2> QED BY AppendIs
<1> HIDE DEF of, t, posting, x, D2
<1>13. Appended(D1, A, L1, m, of)
  <2> HIDE DEF L1
  <2>1. D1[m].seq < MaxPostings[m]
    BY <1>1, <1>4
  <2> QED BY <1>1, <1>4, <1>11, <2>1, AppendKeeps
<1>14. /\ Good(D2, A, L1 \cup {x}) /\ ActiveOn(L1 \cup {x}, m) = ActiveOn(L1, m) \cup {x}
       /\ \A k : k # m => ActiveOn(L1 \cup {x}, k) = ActiveOn(L1, k)
       /\ x \notin L1
  <2> HIDE DEF L1
  <2> QED BY <1>13 DEF Appended, D2, x
<1>15. x.kind = "posting" /\ x.on = m /\ x.amount = Signed(m, D1[m].amount) /\ x.of = of
  BY FreshFields DEF x
<1>16. \A k \in Moves : /\ D2[k].state = D1[k].state /\ D2[k].amount = D1[k].amount
                        /\ k # m => D2[k] = D1[k]
  BY <1>1, <1>7, Bumped DEF D2
<1> DEFINE N == N1 \cup {x}
           L2 == L1 \cup {x}
<1>17. K \cup N = K1 \cup {x} /\ L \cup N = L2
  OBVIOUS
<1> HIDE DEF L2, N
<1>18. \A k \in Moves : /\ D2[k].state = D[k].state /\ D2[k].amount = D[k].amount
                        /\ k \notin Scope(m) => D2[k] = D[k]
  BY <1>1, <1>4, <1>16
<1>19. \A e \in N : e.kind = "posting" /\ e.on \in Scope(m)
  BY <1>1, <1>4, <1>15 DEF N
<1>20. \A k \in Moves \ {m} : Booked(D, L, k) => Booked(D2, L2, k)
  <2> TAKE k \in Moves \ {m}
  <2> HAVE Booked(D, L, k)
  <2>1. Booked(D1, L1, k)
    <3> HIDE DEF L1
    <3>1. CASE k = i
      BY <1>4, <3>1
    <3>2. CASE k # i
      <4>1. D1[k] = D[k] /\ ActiveOn(L1, k) = ActiveOn(L, k)
        BY <1>4, <3>2
      <4> QED BY <4>1, BookedSame
    <3> QED BY <3>1, <3>2
  <2>2. D2[k] = D1[k] /\ ActiveOn(L2, k) = ActiveOn(L1, k)
    BY <1>14, <1>16 DEF L2
  <2> HIDE DEF L1
  <2> QED BY <2>1, <2>2, BookedSame
<1>21. D[m].state = "posted" /\ ActiveOn(L, m) = {} => Booked(D2, L2, m)
  <2> HAVE D[m].state = "posted" /\ ActiveOn(L, m) = {}
  <2> HIDE DEF L1
  <2>1. ActiveOn(L1, m) = {} /\ D1[m].state = "posted"
    BY <1>1, <1>4
  <2>2. ActiveOn(L2, m) = ActiveOn(L1, m) \cup {x}
    BY <1>14 DEF L2
  <2>3. D2[m].state = D1[m].state /\ D2[m].amount = D1[m].amount
    BY <1>1, <1>16
  <2> QED BY <1>15, <2>1, <2>2, <2>3, BookedFresh
<1>22. ActiveOn(L2, m) # {}
  BY <1>14 DEF L2
<1>23. ASSUME NEW e \in N, e.of # None
       PROVE  e.on = m /\ m \in Credits /\ Fits(e, K, N)
  <2>1. e = x
    BY <1>4, <1>23 DEF N
  <2>2. of # None
    BY <1>15, <1>23, <2>1
  <2>3. Credited(K1, i) + D1[m].amount <= posting.amount /\ Key(posting) = of
    BY <1>10, <2>2
  <2>4. D1[m].amount \in Nat /\ x.amount = -D1[m].amount
    BY <1>1, <1>7, <1>15 DEF DocTells, Signed
  <2>5. K \subseteq K1 /\ x \notin K1 /\ posting \in ActiveOn(K1, i)
    BY <1>5, <1>6, <1>8, <1>14
  <2> HIDE DEF K1, L1
  <2>6. Fits(x, K, N)
    <3>1. Target[x.on] = i /\ x.on \in Credits /\ Key(posting) = x.of
      BY <1>15, <2>3 DEF i
    <3> QED BY <1>17, <2>3, <2>4, <2>5, <3>1 DEF Fits
  <2> QED BY <1>15, <2>1, <2>6
<1>24. Good(D2, A, L2)
  BY <1>14 DEF L2
<1>25. Grown(D2, N, m, D, A, K, L)
  <2> HIDE DEF L1, K1
  <2> QED BY <1>17, <1>18, <1>19, <1>20, <1>21, <1>22, <1>23, <1>24 DEF Grown
<1>26. Emit(S(D, A, K), m) = S(D2, A, K \cup N)
  <2> HIDE DEF K1
  <2> QED BY <1>3, <1>12, <1>17
<1> QED BY <1>25, <1>26

\* --- _emit_move_event and _ensure_move_event.
LEMMA EmitGrows ==
  ASSUME NEW D, NEW A, NEW K, NEW L, Good(D, A, L), NEW m \in Moves, D[m].seq < MaxPostings[m],
         Seen(K, L, Looked(m))
  PROVE  \E D1, N : /\ Emit(S(D, A, K), m) = S(D1, A, K \cup N)
                    /\ Grown(D1, N, m, D, A, K, L)
<1>1. CASE m \in Credits /\ D[Target[m]].state = "posted"
  BY <1>1, CreditGrows
<1>2. CASE ~(m \in Credits /\ D[Target[m]].state = "posted")
  <2>1. m \in Credits => m \notin Invoices
    BY Documents
  <2>2. S(D, A, K).doc = D
    BY DEF S
  <2>3. Emit(S(D, A, K), m) = Append(S(D, A, K), m, None)
    BY <1>2, <2>1, <2>2 DEF Emit, Moves
  <2>4. Emit(S(D, A, K), m) = S(Bump(D, m), A, K \cup {Fresh(D, m, None)})
    BY <2>3, AppendIs
  <2> QED BY <2>4, AppendGrows
<1> QED BY <1>1, <1>2

LEMMA EnsureGrows ==
  ASSUME NEW D, NEW A, NEW K, NEW L, Good(D, A, L), NEW m \in Moves, D[m].state = "posted",
         Seen(K, L, Looked(m))
  PROVE  \E D1, N : /\ Ensure(S(D, A, K), m) = S(D1, A, K \cup N)
                    /\ Grown(D1, N, m, D, A, K, L)
                    /\ Booked(D, L, m) => Booked(D1, L \cup N, m)
<1>1. S(D, A, K).ledger = K
  BY DEF S
<1>2. ActiveOn(K, m) = ActiveOn(L, m)
  <2>1. m \in Looked(m)
    BY DEF Looked
  <2> QED BY <2>1, SeenActive
<1>3. CASE ActiveOn(K, m) # {}
  <2>1. Ensure(S(D, A, K), m) = S(D, A, K)
    BY <1>1, <1>3 DEF Ensure
  <2>2. K \cup {} = K /\ L \cup {} = L
    OBVIOUS
  <2>3. Grown(D, {}, m, D, A, K, L)
    BY <1>2, <1>3, <2>2 DEF Grown
  <2> QED BY <2>1, <2>2, <2>3
<1>4. CASE ActiveOn(K, m) = {}
  <2>1. Ensure(S(D, A, K), m) = Emit(S(D, A, K), m)
    BY <1>1, <1>4 DEF Ensure
  <2>2. D[m].seq < MaxPostings[m]
    BY <1>2, <1>4 DEF Good, RoomTells
  <2>3. PICK D1, N : Emit(S(D, A, K), m) = S(D1, A, K \cup N) /\ Grown(D1, N, m, D, A, K, L)
    BY <2>2, EmitGrows
  <2>4. Booked(D1, L \cup N, m)
    BY <1>2, <1>4, <2>3 DEF Grown
  <2> QED BY <2>1, <2>3, <2>4
<1> QED BY <1>3, <1>4

\* --- What a credit adds to what stands against its invoice.
Standing(Q, i) == UNION {ActiveOn(Q, c) : c \in {c \in Credits : Target[c] = i}}

LEMMA StandingIs ==
  ASSUME NEW D, DocTells(D), NEW L, LedgerTells(L, D), NEW Q \in SUBSET L, NEW i
  PROVE  /\ Credited(Q, i) = -Sum(Standing(Q, i))
         /\ Amounting(Standing(Q, i)) /\ Standing(Q, i) \subseteq Q
         /\ \A e \in Standing(Q, i) : e.amount <= 0 /\ e.amount \in Int
<1>1. Credited(Q, i) = -Sum(Standing(Q, i))
  BY DEF Credited, Standing
<1>2. ASSUME NEW e \in Standing(Q, i)
      PROVE  e \in Q /\ e \in OnMoves(L) /\ e.amount <= 0 /\ e.amount \in Int
  <2>1. PICK c \in Credits : e \in ActiveOn(Q, c)
    BY <1>2 DEF Standing
  <2>2. e \in Q /\ e.kind = "posting" /\ e.on = c
    BY <2>1, ActiveIs
  <2>3. PostingSays(e, D)
    BY <2>2, EventFields
  <2>4. c \in Moves /\ c \notin Partials
    BY Documents
  <2>5. PICK a \in Amounts[c] : e.amount = Signed(c, a)
    BY <2>2, <2>3, <2>4 DEF PostingSays
  <2>6. a \in Nat /\ e.amount = -a
    BY <2>4, <2>5, Documents DEF Signed
  <2> QED BY <2>2, <2>4, <2>6 DEF OnMoves
<1>3. IsFiniteSet(Standing(Q, i))
  <2>1. Standing(Q, i) \in SUBSET OnMoves(L)
    BY <1>2
  <2>2. IsFiniteSet(OnMoves(L))
    BY DEF LedgerTells
  <2> QED BY <2>1, <2>2, FS_Subset
<1> QED BY <1>1, <1>2, <1>3 DEF Amounting

Reversing(R, m) == \A r \in R : r.kind = "reversal" /\ r.on = m /\ r.of = <<"posting", m, r.n>>

StillFits(e, K, L, N, R, m) ==
  \E posting, a, K1 :
    /\ a \in Nat /\ e.amount = -a /\ posting.amount \in Int
    /\ posting \in K1 /\ Key(posting) = e.of /\ e.on = m /\ m \in Credits
    /\ K1 \cup {e} = K \cup N /\ e \notin K1 /\ K \subseteq K1
    /\ posting \in ActiveOn(K1 \cup R, Target[m])
    /\ CreditedTo(K1 \cup R, posting) \in Int
    /\ CreditedTo(K1 \cup R, posting) + a <= posting.amount
    /\ Credited(L \cup N \cup R, Target[m]) <= posting.amount

\* The ledger accepts a link that the addon made, and it still fits when the transaction
\* ends, with the counterevents R of the same document added.
LEMMA LinkFits ==
  ASSUME NEW D, NEW A, NEW K, NEW L, NEW D1, NEW N, NEW m, Grown(D1, N, m, D, A, K, L),
         Seen(K, L, Looked(m)), NEW R, Reversing(R, m), NEW e \in N, e.of # None
  PROVE  StillFits(e, K, L, N, R, m)
<1> DEFINE i == Target[m]
           L1 == L \cup N
<1>1. /\ DocTells(D1) /\ LedgerTells(L1, D1) /\ e.on = m /\ m \in Credits /\ Fits(e, K, N)
      /\ e.kind = "posting"
  BY DEF Grown, Good
<1>2. PICK K1, posting, a :
        /\ a \in Nat /\ e.amount = -a /\ e.on \in Credits
        /\ K \subseteq K1 /\ e \notin K1 /\ K \cup N = K1 \cup {e}
        /\ posting \in ActiveOn(K1, Target[e.on]) /\ Key(posting) = e.of
        /\ Credited(K1, Target[e.on]) + a <= posting.amount
  BY <1>1 DEF Fits
<1>3. posting \in ActiveOn(K1, i) /\ Credited(K1, i) + a <= posting.amount
  BY <1>1, <1>2
<1>4. K1 \in SUBSET L1 /\ e \in L1
  BY <1>2 DEF Seen
<1>5. i # m /\ i \in Invoices
  BY <1>1, Documents
<1> HIDE DEF i
<1>6. /\ posting \in K1 /\ posting.kind = "posting" /\ posting.on = i
      /\ Key(posting) = <<"posting", i, posting.n>>
      /\ \A r \in K1 : r.kind = "reversal" => r.of # Key(posting)
  <2>1. /\ posting \in K1 /\ posting.kind = "posting" /\ posting.on = i
        /\ \A r \in K1 : r.kind = "reversal" => r.of # Key(posting)
    BY <1>3, ActiveIs
  <2> QED BY <2>1 DEF Key
<1>7. posting.amount \in Int
  <2> HIDE DEF L1
  <2> QED BY <1>1, <1>4, <1>6, EventFields
<1>8. posting \in ActiveOn(K1 \cup R, i)
  <2>1. \A r \in R : r.of # Key(posting)
    BY <1>5, <1>6 DEF Reversing
  <2>2. \A r \in K1 \cup R : r.kind = "reversal" => r.of # Key(posting)
    BY <1>6, <2>1
  <2> QED BY <1>6, <2>2, ActiveIs
<1> DEFINE Y == Standing(K1, i)
           X == Active(K1 \cup R, {f \in K1 \cup R : f.kind = "posting" /\ f.of = Key(posting)})
           W == Standing(L1 \cup R, i)
<1>9. /\ Credited(K1, i) = -Sum(Y) /\ Amounting(Y) /\ Y \subseteq K1
      /\ \A f \in Y : f.amount <= 0 /\ f.amount \in Int
  <2> HIDE DEF L1
  <2> QED BY <1>1, <1>4, StandingIs
<1>10. X \subseteq Y
  <2> SUFFICES ASSUME NEW f \in X PROVE f \in Y
    OBVIOUS
  <2>1. /\ f \in K1 \cup R /\ f.kind = "posting" /\ f.of = Key(posting)
        /\ \A r \in K1 \cup R : r.kind = "reversal" => r.of # Key(f)
    BY DEF Active
  <2>2. f \in K1
    BY <2>1 DEF Reversing
  <2>3. PostingSays(f, D1)
    <3> HIDE DEF L1, X, Y
    <3> QED BY <1>1, <1>4, <2>1, <2>2, EventFields
  <2>4. f.of # None /\ f.of = <<"posting", i, posting.n>>
    BY <1>2, <1>6, <2>1
  <2>5. f.on \in Moves /\ f.of \in Links(f.on)
    BY <2>3, <2>4 DEF PostingSays
  <2>6. PICK c \in Credits \cap {f.on}, k \in Nat : f.of = <<"posting", Target[c], k>>
    BY <2>4, <2>5 DEF Links
  <2>7. f.on \in Credits /\ Target[f.on] = i
    BY <2>4, <2>6
  <2>8. f \in ActiveOn(K1, f.on)
    BY <2>1, <2>2, ActiveIs
  <2> QED BY <2>7, <2>8 DEF Standing
<1>11. W \subseteq Y \cup {e}
  <2> SUFFICES ASSUME NEW f \in W, f # e PROVE f \in Y
    OBVIOUS
  <2>1. PICK c \in Credits : Target[c] = i /\ f \in ActiveOn(L1 \cup R, c)
    BY DEF Standing
  <2>2. /\ f \in L1 \cup R /\ f.kind = "posting" /\ f.on = c
        /\ \A r \in L1 \cup R : r.kind = "reversal" => r.of # Key(f)
    <3> HIDE DEF L1
    <3> QED BY <2>1, ActiveIs
  <2>3. f \in L1
    BY <2>2 DEF Reversing
  <2>4. c \in Looked(m)
    BY <1>1, <2>1 DEF Looked, i
  <2>5. f \in K \cup N
    BY <2>2, <2>3, <2>4 DEF Seen
  <2>6. f \in K1
    BY <1>2, <2>5
  <2>7. \A r \in K1 : r.kind = "reversal" => r.of # Key(f)
    BY <1>4, <2>2
  <2>8. f \in ActiveOn(K1, c)
    BY <2>2, <2>6, <2>7, ActiveIs
  <2> QED BY <2>1, <2>8 DEF Standing
<1>12. e \notin Y /\ e.amount \in Int /\ e.amount <= 0
  BY <1>2, <1>9
<1>13. Credited(L1 \cup R, i) = -Sum(W)
  BY DEF Credited, Standing
<1>14. CreditedTo(K1 \cup R, posting) = -Sum(X)
  BY DEF CreditedTo
<1> HIDE DEF X, Y, W
<1>15. Sum(Y) <= Sum(X)
  BY <1>9, <1>10, SumLess
<1>16. Sum(Y \cup {e}) = Sum(Y) + e.amount
  BY <1>9, <1>12, SumAdd
<1>17. Amounting(Y \cup {e}) /\ \A f \in Y \cup {e} : f.amount <= 0
  BY <1>9, <1>12, FS_AddElement DEF Amounting
<1>18. Sum(Y \cup {e}) <= Sum(W)
  BY <1>11, <1>17, SumLess
<1>19. Amounting(X) /\ Amounting(W)
  <2>1. X \in SUBSET Y /\ W \in SUBSET (Y \cup {e})
    BY <1>10, <1>11
  <2> QED BY <1>9, <1>17, <2>1, FS_Subset DEF Amounting
<1>20. Sum(X) \in Int /\ Sum(Y) \in Int /\ Sum(W) \in Int
  BY <1>9, <1>19, SumInt
<1>21. -Sum(X) + a <= posting.amount
  <2>1. -Sum(Y) + a <= posting.amount
    BY <1>3, <1>9
  <2> QED BY <1>2, <1>7, <1>15, <1>20, <2>1
<1>22. -Sum(W) <= posting.amount
  <2>1. -Sum(Y) + a <= posting.amount
    BY <1>3, <1>9
  <2>2. Sum(Y) - a <= Sum(W)
    BY <1>2, <1>16, <1>18, <1>20
  <2> QED BY <1>2, <1>7, <1>20, <2>1, <2>2
<1>23. CreditedTo(K1 \cup R, posting) \in Int
  BY <1>14, <1>20
<1>24. posting \in ActiveOn(K1 \cup R, Target[m])
  BY <1>8 DEF i
<1>25. CreditedTo(K1 \cup R, posting) + a <= posting.amount
  BY <1>14, <1>21
<1>26. Credited(L \cup N \cup R, Target[m]) <= posting.amount
  BY <1>13, <1>22 DEF i
<1>27. K1 \cup {e} = K \cup N /\ e \notin K1 /\ K \subseteq K1
  BY <1>2
<1> QED BY <1>1, <1>2, <1>6, <1>7, <1>23, <1>24, <1>25, <1>26, <1>27 DEF StillFits

\* --- The parts of S that an operation changes.
Removed(A, P) == [p \in Partials |-> IF p \in P THEN "removed" ELSE A[p]]

Restating(s, m, state) == [s EXCEPT !.doc[m].state = state]
Allotting(s, p, v) == [s EXCEPT !.alloc[p] = v]
Removing(s, P) ==
  [s EXCEPT !.alloc = [p \in Partials |-> IF p \in P THEN "removed" ELSE @[p]]]
Adding(s, N) == [s EXCEPT !.ledger = @ \cup N]
Annulling(s, m) == [s EXCEPT !.doc[m].state = "draft", !.ledger = @ \cup Annulled(@, m)]

LEMMA StateIs ==
  ASSUME NEW D, NEW A, NEW K, NEW m, NEW state
  PROVE  Restating(S(D, A, K), m, state) = S(InState(D, m, state), A, K)
<1> DEFINE s == S(D, A, K)
           B == InState(D, m, state)
<1>1. s.doc = D
  BY DEF S
<1> HIDE DEF s
<1>2. Restating(s, m, state) = [s EXCEPT !.doc = B]
  BY <1>1, Zenon DEF InState, Restating
<1> HIDE DEF B
<1>3. [s EXCEPT !.doc = B] = S(B, A, K)
  BY DEF s, S
<1> QED BY <1>2, <1>3 DEF s, B

LEMMA AllocIs ==
  ASSUME NEW D, NEW A, NEW K, NEW p, NEW v
  PROVE  Allotting(S(D, A, K), p, v) = S(D, [A EXCEPT ![p] = v], K)
<1> DEFINE s == S(D, A, K)
           B == [A EXCEPT ![p] = v]
<1>1. s.alloc = A
  BY DEF S
<1> HIDE DEF s
<1>2. Allotting(s, p, v) = [s EXCEPT !.alloc = B]
  BY <1>1, Zenon DEF Allotting
<1> HIDE DEF B
<1>3. [s EXCEPT !.alloc = B] = S(D, B, K)
  BY DEF s, S
<1> QED BY <1>2, <1>3 DEF s, B

LEMMA RemovedIs ==
  ASSUME NEW D, NEW A, NEW K, NEW P
  PROVE  Removing(S(D, A, K), P) = S(D, Removed(A, P), K)
<1> DEFINE s == S(D, A, K)
           B == Removed(A, P)
<1>1. s.alloc = A
  BY DEF S
<1> HIDE DEF s
<1>2. Removing(s, P) = [s EXCEPT !.alloc = B]
  BY <1>1, Zenon DEF Removed, Removing
<1> HIDE DEF B
<1>3. [s EXCEPT !.alloc = B] = S(D, B, K)
  BY DEF s, S
<1> QED BY <1>2, <1>3 DEF s, B

LEMMA LedgerIs ==
  ASSUME NEW D, NEW A, NEW K, NEW N
  PROVE  Adding(S(D, A, K), N) = S(D, A, K \cup N)
<1> DEFINE s == S(D, A, K)
           B == K \cup N
<1>1. s.ledger = K
  BY DEF S
<1> HIDE DEF s
<1>2. Adding(s, N) = [s EXCEPT !.ledger = B]
  BY <1>1, Zenon DEF Adding
<1> HIDE DEF B
<1>3. [s EXCEPT !.ledger = B] = S(D, A, B)
  BY DEF s, S
<1> QED BY <1>2, <1>3 DEF s, B

LEMMA ReleaseIs ==
  ASSUME NEW D, NEW A, NEW K, NEW P
  PROVE  Release(S(D, A, K), P) = S(D, A, K \cup Pairs(P, P))
<1> DEFINE s == S(D, A, K)
           B == K \cup Pairs(P, P)
<1>1. s.ledger = K
  BY DEF S
<1> HIDE DEF s
<1>2. B = (K \cup {Allocation(p) : p \in P}) \cup {Reversal(Allocation(p)) : p \in P}
  BY DEF Pairs
<1>3. Release(s, P) = [s EXCEPT !.ledger = B]
  BY <1>1, <1>2, Zenon DEF Release
<1> HIDE DEF B
<1>4. [s EXCEPT !.ledger = B] = S(D, A, B)
  BY DEF s, S
<1> QED BY <1>3, <1>4 DEF s, B

LEMMA AnnulIs ==
  ASSUME NEW D, NEW A, NEW K, NEW m
  PROVE  Annulling(S(D, A, K), m) = S(InState(D, m, "draft"), A, K \cup Annulled(K, m))
<1> DEFINE s == S(D, A, K)
           s1 == S(InState(D, m, "draft"), A, K)
           N == Annulled(K, m)
<1>1. s1.ledger = K /\ s.ledger = K
  BY DEF S
<1>2. [s EXCEPT !.doc[m].state = "draft"] = s1
  BY StateIs DEF Restating
<1>3. Adding(s1, N) = S(InState(D, m, "draft"), A, K \cup N)
  <2> HIDE DEF N
  <2> QED BY LedgerIs
<1> HIDE DEF s, s1
<1>4. Annulling(s, m) = Adding(s1, N)
  BY <1>1, <1>2, Zenon DEF Annulling, Adding
<1> QED BY <1>3, <1>4 DEF s

\* --- What an open transaction relies on.
LiveIn(i, A) == {p \in Partials : Settles[p] = i /\ A[p] = "live"}
Sees(t, A) ==
  IF t.on \in Partials THEN {t.on}
  ELSE Looked(t.on) \cup IF t.op = "unpost" THEN LiveIn(t.on, A) ELSE {}
ReadyIn(t, D, A) ==
  \/ t.op = "post" /\ t.on \in Moves /\ D[t.on].state = "draft" /\ D[t.on].seq < MaxPostings[t.on]
  \/ t.op = "unpost" /\ t.on \in Moves /\ D[t.on].state = "posted"
  \/ t.op = "backfill" /\ t.on \in Moves /\ D[t.on].state = "posted" /\ t.enabled
  \/ t.op = "allocate" /\ t.on \in Partials /\ A[t.on] = "absent"
  \/ t.op = "release" /\ t.on \in Partials /\ A[t.on] = "live"
  \/ t.op = "backfill_allocation" /\ t.on \in Partials /\ A[t.on] = "live" /\ t.enabled
Snap(t, D, A, L) ==
  /\ t.enabled \in BOOLEAN /\ ReadyIn(t, D, A) /\ t.ledger \subseteq L
  /\ t.enabled => Seen(t.ledger, L, Sees(t, A))

Paired(A, L) == \A p \in Partials : A[p] = "removed" => Allocation(p) \in L /\ Reversal(Allocation(p)) \in L
AllBooked(D, L) == \A m \in Moves : Booked(D, L, m)

Told(K, N, e) == K \cup ((N \ K) \ {e})
LinkOK(e, K, N, L) ==
  /\ e.on \in Credits
  /\ \E posting \in Active(Told(K, N, e), Told(K, N, e)) :
        Key(posting) = e.of /\ CreditedTo(Told(K, N, e), posting) - e.amount <= posting.amount
  /\ \E posting \in L \cup N :
        Key(posting) = e.of /\ Credited(L \cup N, Target[e.on]) <= posting.amount

Rows(on) == IF on \in Partials THEN {on} ELSE Scope(on)

Concludes(t, D1, A1, N) ==
  /\ Outcome(t) = S(D1, A1, t.ledger \cup N)
  /\ Good(D1, A1, ledger \cup N)
  /\ \A m \in Moves : D1[m] # doc[m] => m \in Written(t)
  /\ \A p \in Partials : A1[p] # alloc[p] => p \in Written(t) /\ Settles[p] \in Written(t)
  /\ \A e \in N : e.on \in Sees(t, alloc) /\ Rows(e.on) \subseteq Written(t)
  /\ N # {} => t.enabled
  /\ t.enabled /\ AllBooked(doc, ledger) => AllBooked(D1, ledger \cup N)
  /\ t.enabled /\ Paired(alloc, ledger) => Paired(A1, ledger \cup N)
  /\ \A e \in N : e.kind = "posting" /\ e.of # None => LinkOK(e, t.ledger, N, ledger)

LEMMA LocksOn ==
  ASSUME NEW t
  PROVE  /\ t.on \in Partials => Locks(t) = {t.on, Settles[t.on]} /\ Sees(t, alloc) = {t.on}
         /\ t.on \in Moves => Locks(t) = (IF t.enabled THEN Scope(t.on) ELSE {t.on})
                                         \cup IF t.op = "unpost" THEN LiveOn(t.on) ELSE {}
<1>1. t.on \in Partials => t.on \notin Moves
  BY Documents
<1> QED BY <1>1 DEF Locks, Sees

LEMMA PairsOf ==
  ASSUME NEW Q \in SUBSET Partials, NEW P \in SUBSET Q, NEW e \in Pairs(Q, P)
  PROVE  e.on \in Q /\ e.on \in Partials /\ ~(e.kind = "posting" /\ e.of # None)
<1>1. PICK p \in Q : /\ e.on = p /\ e.n = 1
                     /\ \/ e = Allocation(p) /\ e.kind = "posting" /\ e.of = None
                        \/ p \in P /\ e = Reversal(Allocation(p)) /\ e.kind = "reversal" /\ e.of = <<"posting", p, 1>>
  BY PairsSay
<1> QED BY <1>1

LEMMA BookedOnly ==
  ASSUME NEW L, NEW L1, \A m \in Moves : ActiveOn(L1, m) = ActiveOn(L, m), NEW D, AllBooked(D, L)
  PROVE  AllBooked(D, L1)
BY DEF AllBooked, Booked, Right

\* --- Allocations alone.
Moved(A, A1, Q, P) ==
  /\ Q \in SUBSET Partials /\ P \in SUBSET Q
  /\ A1 \in [Partials -> {"absent", "live", "removed"}]
  /\ \A p \in Partials : A1[p] = "absent" => A[p] = "absent" /\ p \notin Q
  /\ \A p \in Partials : A1[p] # "removed" => A[p] # "removed" /\ p \notin P
PairsAdded(D, A1, L, N) ==
  /\ Good(D, A1, L \cup N)
  /\ \A m \in Moves : ActiveOn(L \cup N, m) = ActiveOn(L, m)

LEMMA PairsGood ==
  ASSUME NEW D, NEW A, NEW L, Good(D, A, L), NEW Q, NEW P, NEW A1, Moved(A, A1, Q, P)
  PROVE  PairsAdded(D, A1, L, Pairs(Q, P))
<1>0. /\ Q \in SUBSET Partials /\ P \in SUBSET Q
      /\ A1 \in [Partials -> {"absent", "live", "removed"}]
      /\ \A p \in Partials : A1[p] = "absent" => A[p] = "absent" /\ p \notin Q
      /\ \A p \in Partials : A1[p] # "removed" => A[p] # "removed" /\ p \notin P
  BY DEF Moved
<1>1. DocTells(D) /\ LedgerTells(L, D) /\ AllocTells(A, L) /\ RoomTells(D, L)
  BY DEF Good
<1>2. /\ LedgerTells(L \cup Pairs(Q, P), D)
      /\ \A m \in Moves : ActiveOn(L \cup Pairs(Q, P), m) = ActiveOn(L, m)
  BY <1>0, <1>1, PairsKeep
<1>3. \A e \in Pairs(Q, P) : \E p \in Q : /\ e.on = p
                                          /\ e.kind = "posting" \/ (p \in P /\ e = Reversal(Allocation(p)))
  <2> TAKE e \in Pairs(Q, P)
  <2>1. PICK p \in Q : /\ e.on = p /\ e.n = 1
                       /\ \/ e = Allocation(p) /\ e.kind = "posting" /\ e.of = None
                          \/ p \in P /\ e = Reversal(Allocation(p)) /\ e.kind = "reversal" /\ e.of = <<"posting", p, 1>>
    BY <1>0, PairsSay
  <2> QED BY <2>1
<1>4. \A p \in Partials : A1[p] = "absent" => \A e \in L \cup Pairs(Q, P) : e.on # p
  BY <1>0, <1>1, <1>3 DEF AllocTells
<1>5. \A p \in Partials : A1[p] # "removed" => Reversal(Allocation(p)) \notin L \cup Pairs(Q, P)
  <2> TAKE p \in Partials
  <2> HAVE A1[p] # "removed"
  <2>1. Reversal(Allocation(p)) \notin L
    BY <1>0, <1>1 DEF AllocTells
  <2>2. Reversal(Allocation(p)).kind = "reversal" /\ Reversal(Allocation(p)).on = p
    BY AllocationPosting
  <2>3. Reversal(Allocation(p)) \notin Pairs(Q, P)
    BY <1>0, <1>3, <2>2
  <2> QED BY <2>1, <2>3
<1>6. AllocTells(A1, L \cup Pairs(Q, P))
  BY <1>0, <1>4, <1>5 DEF AllocTells
<1>7. RoomTells(D, L \cup Pairs(Q, P))
  BY <1>1, <1>2 DEF RoomTells
<1>8. Good(D, A1, L \cup Pairs(Q, P))
  BY <1>1, <1>2, <1>6, <1>7 DEF Good
<1> QED BY <1>2, <1>8 DEF PairsAdded

LEMMA AllocateConcludes ==
  ASSUME Good(doc, alloc, ledger), NEW t, Snap(t, doc, alloc, ledger), t.op = "allocate"
  PROVE  \E D1, A1, N : Concludes(t, D1, A1, N)
<1> DEFINE p == t.on
           A1 == [alloc EXCEPT ![p] = "live"]
           N == IF t.enabled THEN Pairs({p}, {}) ELSE {}
<1>1. p \in Partials /\ alloc[p] = "absent" /\ t.enabled \in BOOLEAN
  BY DEF Snap, ReadyIn
<1>2. alloc \in [Partials -> {"absent", "live", "removed"}]
  BY DEF Good, AllocTells
<1>3. Pairs({p}, {}) = {Allocation(p)}
  BY DEF Pairs
<1>4. Outcome(t) = S(doc, A1, t.ledger \cup N)
  <2>1. Start(t) = S(doc, alloc, t.ledger)
    BY DEF Start, S
  <2>2. [Start(t) EXCEPT !.alloc[t.on] = "live"] = S(doc, A1, t.ledger)
    <3>1. [Start(t) EXCEPT !.alloc[t.on] = "live"] = Allotting(S(doc, alloc, t.ledger), p, "live")
      BY <2>1 DEF Allotting
    <3> QED BY <3>1, AllocIs
  <2>3. Outcome(t) = Allocated(t)
    BY DEF Outcome
  <2>4. CASE t.enabled
    <3>1. Allocated(t) = Adding(S(doc, A1, t.ledger), {Allocation(p)})
      <4> HIDE DEF A1
      <4> QED BY <2>2, <2>4 DEF Allocated, Adding
    <3> HIDE DEF A1
    <3>2. Allocated(t) = S(doc, A1, t.ledger \cup {Allocation(p)})
      BY <3>1, LedgerIs
    <3>3. N = {Allocation(p)}
      BY <1>3, <2>4
    <3> QED BY <2>3, <3>2, <3>3
  <2>5. CASE ~t.enabled
    <3>1. Allocated(t) = S(doc, A1, t.ledger) /\ t.ledger \cup {} = t.ledger
      <4> HIDE DEF A1
      <4> QED BY <2>2, <2>5 DEF Allocated
    <3> HIDE DEF A1
    <3> QED BY <2>3, <2>5, <3>1
  <2> QED BY <1>1, <2>4, <2>5
<1>5. /\ A1 \in [Partials -> {"absent", "live", "removed"}] /\ A1[p] = "live"
      /\ \A q \in Partials : q # p => A1[q] = alloc[q]
  BY <1>1, <1>2
<1> HIDE DEF A1
<1>6. Good(doc, A1, ledger \cup N) /\ \A m \in Moves : ActiveOn(ledger \cup N, m) = ActiveOn(ledger, m)
  <2> DEFINE Q == IF t.enabled THEN {p} ELSE {}
  <2>1. N = Pairs(Q, {})
    BY DEF Pairs
  <2>2. Q \in SUBSET Partials /\ {} \in SUBSET Q /\ \A q \in Q : q = p
    BY <1>1
  <2>3. \A q \in Partials : A1[q] = "absent" => alloc[q] = "absent" /\ q \notin Q
    BY <1>5, <2>2
  <2>4. \A q \in Partials : A1[q] # "removed" => alloc[q] # "removed" /\ q \notin {}
    BY <1>1, <1>5
  <2> HIDE DEF Q, N
  <2>5. Moved(alloc, A1, Q, {})
    BY <1>5, <2>2, <2>3, <2>4 DEF Moved
  <2> QED BY <2>1, <2>5, PairsGood DEF PairsAdded
<1>7. p \in Written(t) /\ Settles[p] \in Written(t) /\ Sees(t, alloc) = {p}
  BY <1>1, LocksOn DEF Written
<1>8. \A e \in N : e.on = p /\ e.kind = "posting" /\ e.of = None
  <2>1. N \subseteq {Allocation(p)}
    BY <1>3
  <2> HIDE DEF N
  <2> QED BY <2>1, AllocationFields
<1>9. N # {} => t.enabled
  OBVIOUS
<1> HIDE DEF N
<1>10. \A e \in N : e.on \in Sees(t, alloc) /\ Rows(e.on) \subseteq Written(t)
  BY <1>1, <1>7, <1>8 DEF Rows
<1>11. \A m \in Moves : doc[m] # doc[m] => m \in Written(t)
  OBVIOUS
<1>12. \A q \in Partials : A1[q] # alloc[q] => q \in Written(t) /\ Settles[q] \in Written(t)
  BY <1>5, <1>7
<1>13. AllBooked(doc, ledger) => AllBooked(doc, ledger \cup N)
  BY <1>6, BookedOnly
<1>14. Paired(alloc, ledger) => Paired(A1, ledger \cup N)
  BY <1>5 DEF Paired
<1>15. \A e \in N : e.kind = "posting" /\ e.of # None => LinkOK(e, t.ledger, N, ledger)
  BY <1>8
<1>16. Concludes(t, doc, A1, N)
  BY <1>4, <1>6, <1>9, <1>10, <1>11, <1>12, <1>13, <1>14, <1>15 DEF Concludes
<1> QED BY <1>16

LEMMA ReleaseConcludes ==
  ASSUME Good(doc, alloc, ledger), NEW t, Snap(t, doc, alloc, ledger), t.op = "release"
  PROVE  \E D1, A1, N : Concludes(t, D1, A1, N)
<1> DEFINE p == t.on
           A1 == [alloc EXCEPT ![p] = "removed"]
           Q == IF t.enabled THEN {p} ELSE {}
           N == Pairs(Q, Q)
<1>1. p \in Partials /\ alloc[p] = "live" /\ t.enabled \in BOOLEAN
  BY DEF Snap, ReadyIn
<1>2. alloc \in [Partials -> {"absent", "live", "removed"}]
  BY DEF Good, AllocTells
<1>3. Pairs({}, {}) = {}
  BY DEF Pairs
<1>4. Outcome(t) = S(doc, A1, t.ledger \cup N)
  <2>1. Start(t) = S(doc, alloc, t.ledger)
    BY DEF Start, S
  <2>2. [Start(t) EXCEPT !.alloc[t.on] = "removed"] = S(doc, A1, t.ledger)
    <3>1. [Start(t) EXCEPT !.alloc[t.on] = "removed"] = Allotting(S(doc, alloc, t.ledger), p, "removed")
      BY <2>1 DEF Allotting
    <3> QED BY <3>1, AllocIs
  <2>3. Outcome(t) = Released(t)
    BY DEF Outcome
  <2>4. CASE t.enabled
    <3>1. Released(t) = Release(S(doc, A1, t.ledger), {p})
      <4> HIDE DEF A1
      <4> QED BY <2>2, <2>4 DEF Released
    <3> HIDE DEF A1
    <3> QED BY <2>3, <2>4, <3>1, ReleaseIs
  <2>5. CASE ~t.enabled
    <3>1. Released(t) = S(doc, A1, t.ledger) /\ t.ledger \cup {} = t.ledger
      <4> HIDE DEF A1
      <4> QED BY <2>2, <2>5 DEF Released
    <3> HIDE DEF A1
    <3> QED BY <1>3, <2>3, <2>5, <3>1
  <2> QED BY <1>1, <2>4, <2>5
<1>5. /\ A1 \in [Partials -> {"absent", "live", "removed"}] /\ A1[p] = "removed"
      /\ \A q \in Partials : q # p => A1[q] = alloc[q]
  BY <1>1, <1>2
<1> HIDE DEF A1
<1>6. /\ Q \in SUBSET Partials /\ Q \in SUBSET Q /\ \A q \in Q : q = p
      /\ (Q # {} => t.enabled) /\ (t.enabled => p \in Q)
  BY <1>1
<1>7. N # {} => t.enabled
  BY <1>3
<1> HIDE DEF Q
<1>8. Good(doc, A1, ledger \cup N) /\ \A m \in Moves : ActiveOn(ledger \cup N, m) = ActiveOn(ledger, m)
  <2>1. \A q \in Partials : A1[q] = "absent" => alloc[q] = "absent" /\ q \notin Q
    BY <1>5, <1>6
  <2>2. \A q \in Partials : A1[q] # "removed" => alloc[q] # "removed" /\ q \notin Q
    BY <1>5, <1>6
  <2>3. Moved(alloc, A1, Q, Q)
    BY <1>5, <1>6, <2>1, <2>2 DEF Moved
  <2> QED BY <2>3, PairsGood DEF PairsAdded
<1>9. p \in Written(t) /\ Settles[p] \in Written(t) /\ Sees(t, alloc) = {p}
  BY <1>1, LocksOn DEF Written
<1>10. \A e \in N : e.on = p /\ ~(e.kind = "posting" /\ e.of # None)
  BY <1>6, PairsOf
<1>11. t.enabled => Allocation(p) \in N /\ Reversal(Allocation(p)) \in N
  BY <1>6 DEF Pairs
<1> HIDE DEF N
<1>12. \A e \in N : e.on \in Sees(t, alloc) /\ Rows(e.on) \subseteq Written(t)
  BY <1>1, <1>9, <1>10 DEF Rows
<1>13. \A q \in Partials : A1[q] # alloc[q] => q \in Written(t) /\ Settles[q] \in Written(t)
  BY <1>5, <1>9
<1>14. AllBooked(doc, ledger) => AllBooked(doc, ledger \cup N)
  BY <1>8, BookedOnly
<1>15. t.enabled /\ Paired(alloc, ledger) => Paired(A1, ledger \cup N)
  BY <1>5, <1>11 DEF Paired
<1>16. \A e \in N : e.kind = "posting" /\ e.of # None => LinkOK(e, t.ledger, N, ledger)
  BY <1>10
<1>17. Concludes(t, doc, A1, N)
  BY <1>4, <1>7, <1>8, <1>12, <1>13, <1>14, <1>15, <1>16 DEF Concludes
<1> QED BY <1>17

LEMMA ClaimConcludes ==
  ASSUME Good(doc, alloc, ledger), NEW t, Snap(t, doc, alloc, ledger), t.op = "backfill_allocation"
  PROVE  \E D1, A1, N : Concludes(t, D1, A1, N)
<1> DEFINE p == t.on
           N == Pairs({p}, {})
<1>1. p \in Partials /\ alloc[p] = "live" /\ t.enabled
  BY DEF Snap, ReadyIn
<1>2. alloc \in [Partials -> {"absent", "live", "removed"}]
  BY DEF Good, AllocTells
<1>3. N = {Allocation(p)}
  BY DEF Pairs
<1>4. Outcome(t) = S(doc, alloc, t.ledger \cup N)
  <2>1. Start(t) = S(doc, alloc, t.ledger)
    BY DEF Start, S
  <2>2. Outcome(t) = [Start(t) EXCEPT !.ledger = @ \cup {Allocation(t.on)}]
    BY DEF Outcome
  <2>3. Outcome(t) = Adding(S(doc, alloc, t.ledger), {Allocation(p)})
    BY <2>1, <2>2 DEF Adding
  <2>4. Adding(S(doc, alloc, t.ledger), {Allocation(p)}) = S(doc, alloc, t.ledger \cup {Allocation(p)})
    <3> HIDE DEF N, p
    <3>1. \A D, A, K, M : Adding(S(D, A, K), M) = S(D, A, K \cup M)
      BY LedgerIs
    <3> QED BY <3>1
  <2> QED BY <1>3, <2>3, <2>4
<1>5. Good(doc, alloc, ledger \cup N) /\ \A m \in Moves : ActiveOn(ledger \cup N, m) = ActiveOn(ledger, m)
  <2>1. {p} \in SUBSET Partials /\ {} \in SUBSET {p}
    BY <1>1
  <2>2. \A q \in Partials : alloc[q] = "absent" => alloc[q] = "absent" /\ q \notin {p}
    BY <1>1
  <2>3. \A q \in Partials : alloc[q] # "removed" => alloc[q] # "removed" /\ q \notin {}
    OBVIOUS
  <2>4. Moved(alloc, alloc, {p}, {})
    BY <1>2, <2>1, <2>2, <2>3 DEF Moved
  <2>5. PairsAdded(doc, alloc, ledger, Pairs({p}, {}))
    BY <2>4, PairsGood
  <2> QED BY <2>5 DEF PairsAdded
<1>6. p \in Written(t) /\ Sees(t, alloc) = {p}
  BY <1>1, LocksOn DEF Written
<1>7. \A e \in N : e.on = p /\ e.kind = "posting" /\ e.of = None
  <2> HIDE DEF N
  <2> QED BY <1>3, AllocationFields
<1> HIDE DEF N
<1>8. \A e \in N : e.on \in Sees(t, alloc) /\ Rows(e.on) \subseteq Written(t)
  BY <1>1, <1>6, <1>7 DEF Rows
<1>9. AllBooked(doc, ledger) => AllBooked(doc, ledger \cup N)
  BY <1>5, BookedOnly
<1>10. Paired(alloc, ledger) => Paired(alloc, ledger \cup N)
  BY DEF Paired
<1>11. \A e \in N : e.kind = "posting" /\ e.of # None => LinkOK(e, t.ledger, N, ledger)
  BY <1>7
<1>12. Concludes(t, doc, alloc, N)
  BY <1>1, <1>4, <1>5, <1>8, <1>9, <1>10, <1>11 DEF Concludes
<1> QED BY <1>12

LEMMA Linked ==
  ASSUME NEW D, NEW A, NEW K, NEW L, NEW D1, NEW N, NEW m, Grown(D1, N, m, D, A, K, L),
         Seen(K, L, Looked(m)), NEW R, Reversing(R, m), NEW e \in N \cup R, e.kind = "posting", e.of # None
  PROVE  LinkOK(e, K, N \cup R, L)
<1>1. e \in N /\ e \notin R
  BY DEF Reversing
<1>2. PICK posting, a, K1 :
        /\ a \in Nat /\ e.amount = -a /\ posting.amount \in Int
        /\ posting \in K1 /\ Key(posting) = e.of /\ e.on = m /\ m \in Credits
        /\ K1 \cup {e} = K \cup N /\ e \notin K1 /\ K \subseteq K1
        /\ posting \in ActiveOn(K1 \cup R, Target[m])
        /\ CreditedTo(K1 \cup R, posting) \in Int
        /\ CreditedTo(K1 \cup R, posting) + a <= posting.amount
        /\ Credited(L \cup N \cup R, Target[m]) <= posting.amount
  <2>1. StillFits(e, K, L, N, R, m)
    BY <1>1, LinkFits
  <2> QED BY <2>1 DEF StillFits
<1> DEFINE B == Told(K, N \cup R, e)
<1>3. B = K1 \cup R
  <2>1. ASSUME NEW x PROVE x \in B <=> x \in K1 \cup R
    <3>1. x \in K1 \/ x = e <=> x \in K \/ x \in N
      BY <1>2
    <3>2. e \notin K
      BY <1>2
    <3> QED BY <1>1, <1>2, <3>1, <3>2 DEF Told
  <2> QED BY <2>1
<1> HIDE DEF B
<1>4. posting \in Active(B, B)
  <2>1. /\ posting \in B /\ \A r \in B : r.kind = "reversal" => r.of # Key(posting)
    BY <1>2, <1>3, ActiveIs
  <2> QED BY <2>1 DEF Active
<1>5. CreditedTo(B, posting) - e.amount <= posting.amount
  <2>1. CreditedTo(B, posting) \in Int /\ CreditedTo(B, posting) + a <= posting.amount
    BY <1>2, <1>3
  <2> HIDE DEF CreditedTo
  <2> QED BY <1>2, <2>1
<1>6. L \cup N \cup R = L \cup (N \cup R)
  OBVIOUS
<1>7. posting \in L \cup (N \cup R)
  <2>1. posting \in K \cup N
    BY <1>2
  <2> QED BY <2>1 DEF Seen
<1>8. Credited(L \cup (N \cup R), Target[e.on]) <= posting.amount
  BY <1>2, <1>6
<1> QED BY <1>2, <1>4, <1>5, <1>7, <1>8 DEF LinkOK, B

LEMMA ScopeRows ==
  ASSUME NEW m \in Moves
  PROVE  /\ m \in Scope(m) /\ Scope(m) \subseteq Looked(m) /\ m \in Looked(m)
         /\ \A o \in Scope(m) : Rows(o) \subseteq Scope(m)
BY Documents DEF Scope, Looked, Rows

LEMMA PostConcludes ==
  ASSUME Good(doc, alloc, ledger), NEW t, Snap(t, doc, alloc, ledger), t.op = "post"
  PROVE  \E D1, A1, N : Concludes(t, D1, A1, N)
<1> DEFINE m == t.on
           K == t.ledger
           D0 == InState(doc, m, "posted")
<1>1. /\ m \in Moves /\ m \notin Partials /\ doc[m].state = "draft" /\ doc[m].seq < MaxPostings[m]
      /\ t.enabled \in BOOLEAN
  BY Documents DEF Snap, ReadyIn
<1>2. DocTells(doc) /\ LedgerTells(ledger, doc) /\ AllocTells(alloc, ledger) /\ RoomTells(doc, ledger)
  BY DEF Good
<1>3. /\ DocTells(D0) /\ D0[m].state = "posted"
      /\ \A k \in Moves : /\ D0[k].seq = doc[k].seq /\ D0[k].amount = doc[k].amount
                          /\ k # m => D0[k] = doc[k]
  BY <1>1, <1>2, Restated
<1>4. Outcome(t) = IF t.enabled THEN Emit(S(D0, alloc, K), m) ELSE S(D0, alloc, K)
  <2>1. Start(t) = S(doc, alloc, K)
    BY DEF Start, S
  <2>2. [Start(t) EXCEPT !.doc[t.on].state = "posted"] = Restating(S(doc, alloc, K), m, "posted")
    BY <2>1 DEF Restating
  <2>3. [Start(t) EXCEPT !.doc[t.on].state = "posted"] = S(D0, alloc, K)
    <3> HIDE DEF m
    <3> QED BY <2>2, StateIs
  <2>4. Outcome(t) = Posted(t)
    BY DEF Outcome
  <2> HIDE DEF D0
  <2> QED BY <2>3, <2>4 DEF Posted
<1> HIDE DEF D0
<1>5. Good(D0, alloc, ledger)
  <2>1. LedgerTells(ledger, D0)
    BY <1>2, <1>3, SameNumbers
  <2>2. RoomTells(D0, ledger)
    <3> SUFFICES ASSUME NEW k \in Moves, D0[k].state = "posted", ActiveOn(ledger, k) = {}
                 PROVE  D0[k].seq < MaxPostings[k]
      BY DEF RoomTells
    <3>1. CASE k = m
      BY <1>1, <1>3, <3>1
    <3>2. CASE k # m
      BY <1>2, <1>3, <3>2 DEF RoomTells
    <3> QED BY <3>1, <3>2
  <2> QED BY <1>2, <1>3, <2>1, <2>2 DEF Good
<1>6. Locks(t) = (IF t.enabled THEN Scope(m) ELSE {m}) /\ Written(t) = Locks(t) /\ m \in Written(t)
  BY <1>1, LocksOn, ScopeRows DEF Written
<1>7. CASE t.enabled
  <2>1. Seen(K, ledger, Looked(m)) /\ Looked(m) \subseteq Sees(t, alloc)
    <3>1. Looked(m) \subseteq Sees(t, alloc)
      BY <1>1 DEF Sees
    <3>2. Seen(K, ledger, Sees(t, alloc))
      BY <1>7 DEF Snap
    <3> QED BY <3>1, <3>2 DEF Seen
  <2>2. D0[m].seq < MaxPostings[m]
    BY <1>1, <1>3
  <2> HIDE DEF K, m
  <2>3. PICK D1, N : /\ Emit(S(D0, alloc, K), m) = S(D1, alloc, K \cup N)
                     /\ Grown(D1, N, m, D0, alloc, K, ledger)
    BY <1>1, <1>5, <2>1, <2>2, EmitGrows
  <2>4. /\ Good(D1, alloc, ledger \cup N)
        /\ \A k \in Moves : k \notin Scope(m) => D1[k] = D0[k]
        /\ \A e \in N : e.kind = "posting" /\ e.on \in Scope(m)
        /\ \A k \in Moves \ {m} : Booked(D0, ledger, k) => Booked(D1, ledger \cup N, k)
        /\ D0[m].state = "posted" /\ ActiveOn(ledger, m) = {} => Booked(D1, ledger \cup N, m)
    BY <2>3 DEF Grown
  <2>5. Written(t) = Scope(m) /\ m \in Scope(m)
    BY <1>1, <1>6, <1>7, ScopeRows
  <2>6. \A k \in Moves : D1[k] # doc[k] => k \in Written(t)
    BY <1>3, <2>4, <2>5
  <2>7. \A e \in N : e.on \in Sees(t, alloc) /\ Rows(e.on) \subseteq Written(t)
    BY <1>1, <2>1, <2>4, <2>5, ScopeRows
  <2>8. AllBooked(doc, ledger) => AllBooked(D1, ledger \cup N)
    <3> SUFFICES ASSUME AllBooked(doc, ledger), NEW k \in Moves PROVE Booked(D1, ledger \cup N, k)
      BY DEF AllBooked
    <3>1. Booked(doc, ledger, k) /\ Booked(doc, ledger, m)
      BY <1>1 DEF AllBooked
    <3>2. CASE k = m
      <4>1. ActiveOn(ledger, m) = {}
        BY <1>1, <3>1 DEF Booked, Right
      <4> QED BY <1>3, <2>4, <3>2, <4>1
    <3>3. CASE k # m
      <4>1. D0[k] = doc[k]
        BY <1>3, <3>3
      <4>2. Booked(D0, ledger, k)
        BY <3>1, <4>1, BookedSame
      <4> QED BY <2>4, <3>3, <4>2
    <3> QED BY <3>2, <3>3
  <2>9. Paired(alloc, ledger) => Paired(alloc, ledger \cup N)
    BY DEF Paired
  <2>10. \A e \in N : e.kind = "posting" /\ e.of # None => LinkOK(e, K, N, ledger)
    <3> TAKE e \in N
    <3> HAVE e.kind = "posting" /\ e.of # None
    <3>1. Reversing({}, m)
      BY DEF Reversing
    <3>2. e \in N \cup {}
      OBVIOUS
    <3>3. LinkOK(e, K, N \cup {}, ledger)
      BY <2>1, <2>3, <3>1, <3>2, Linked
    <3>4. N \cup {} = N
      OBVIOUS
    <3> QED BY <3>3, <3>4
  <2>11. Outcome(t) = S(D1, alloc, K \cup N)
    BY <1>4, <1>7, <2>3
  <2>12. Concludes(t, D1, alloc, N)
    BY <1>7, <2>4, <2>6, <2>7, <2>8, <2>9, <2>10, <2>11 DEF Concludes, K
  <2> QED BY <2>12
<1>8. CASE ~t.enabled
  <2>1. Outcome(t) = S(D0, alloc, K \cup {})
    <3>1. K \cup {} = K
      OBVIOUS
    <3> QED BY <1>4, <1>8, <3>1
  <2>2. ledger \cup {} = ledger
    OBVIOUS
  <2>3. \A k \in Moves : D0[k] # doc[k] => k \in Written(t)
    BY <1>3, <1>6
  <2>4. Concludes(t, D0, alloc, {})
    BY <1>5, <1>8, <2>1, <2>2, <2>3 DEF Concludes
  <2> QED BY <2>4
<1> QED BY <1>1, <1>7, <1>8

LEMMA BackfillConcludes ==
  ASSUME Good(doc, alloc, ledger), NEW t, Snap(t, doc, alloc, ledger), t.op = "backfill"
  PROVE  \E D1, A1, N : Concludes(t, D1, A1, N)
<1> DEFINE m == t.on
           K == t.ledger
<1>1. m \in Moves /\ m \notin Partials /\ doc[m].state = "posted" /\ t.enabled
  BY Documents DEF Snap, ReadyIn
<1>2. Outcome(t) = Ensure(S(doc, alloc, K), m)
  <2>1. Start(t) = S(doc, alloc, K)
    BY DEF Start, S
  <2> QED BY <2>1 DEF Outcome
<1>3. Seen(K, ledger, Looked(m)) /\ Looked(m) \subseteq Sees(t, alloc)
  <2>1. Looked(m) \subseteq Sees(t, alloc)
    BY <1>1 DEF Sees
  <2>2. Seen(K, ledger, Sees(t, alloc))
    BY <1>1 DEF Snap
  <2> QED BY <2>1, <2>2 DEF Seen
<1>4. Written(t) = Scope(m) /\ m \in Scope(m)
  BY <1>1, LocksOn, ScopeRows DEF Written
<1> HIDE DEF K, m
<1>5. PICK D1, N : /\ Ensure(S(doc, alloc, K), m) = S(D1, alloc, K \cup N)
                   /\ Grown(D1, N, m, doc, alloc, K, ledger)
                   /\ Booked(doc, ledger, m) => Booked(D1, ledger \cup N, m)
  BY <1>1, <1>3, EnsureGrows
<1>6. /\ Good(D1, alloc, ledger \cup N)
      /\ \A k \in Moves : k \notin Scope(m) => D1[k] = doc[k]
      /\ \A e \in N : e.kind = "posting" /\ e.on \in Scope(m)
      /\ \A k \in Moves \ {m} : Booked(doc, ledger, k) => Booked(D1, ledger \cup N, k)
  BY <1>5 DEF Grown
<1>7. \A k \in Moves : D1[k] # doc[k] => k \in Written(t)
  BY <1>4, <1>6
<1>8. \A e \in N : e.on \in Sees(t, alloc) /\ Rows(e.on) \subseteq Written(t)
  BY <1>1, <1>3, <1>4, <1>6, ScopeRows
<1>9. AllBooked(doc, ledger) => AllBooked(D1, ledger \cup N)
  BY <1>1, <1>5, <1>6 DEF AllBooked
<1>10. Paired(alloc, ledger) => Paired(alloc, ledger \cup N)
  BY DEF Paired
<1>11. \A e \in N : e.kind = "posting" /\ e.of # None => LinkOK(e, K, N, ledger)
  <2> TAKE e \in N
  <2> HAVE e.kind = "posting" /\ e.of # None
  <2>1. Reversing({}, m)
    BY DEF Reversing
  <2>2. e \in N \cup {}
    OBVIOUS
  <2>3. LinkOK(e, K, N \cup {}, ledger)
    BY <1>3, <1>5, <2>1, <2>2, Linked
  <2>4. N \cup {} = N
    OBVIOUS
  <2> QED BY <2>3, <2>4
<1>12. Outcome(t) = S(D1, alloc, K \cup N)
  BY <1>2, <1>5
<1>13. Concludes(t, D1, alloc, N)
  BY <1>1, <1>6, <1>7, <1>8, <1>9, <1>10, <1>11, <1>12 DEF Concludes, K
<1> QED BY <1>13

LEMMA DraftGood ==
  ASSUME NEW D, NEW A, NEW L, Good(D, A, L), NEW m \in Moves
  PROVE  Good(InState(D, m, "draft"), A, L)
<1> DEFINE D1 == InState(D, m, "draft")
<1>1. DocTells(D) /\ LedgerTells(L, D) /\ AllocTells(A, L) /\ RoomTells(D, L)
  BY DEF Good
<1>2. /\ DocTells(D1) /\ D1[m].state = "draft"
      /\ \A k \in Moves : D1[k].seq = D[k].seq /\ (k # m => D1[k] = D[k])
  BY <1>1, Restated
<1> HIDE DEF D1
<1>3. LedgerTells(L, D1)
  BY <1>1, <1>2, SameNumbers
<1>4. RoomTells(D1, L)
  <2> SUFFICES ASSUME NEW k \in Moves, D1[k].state = "posted", ActiveOn(L, k) = {}
               PROVE  D1[k].seq < MaxPostings[k]
    BY DEF RoomTells
  <2>1. k # m
    BY <1>2
  <2> QED BY <1>1, <1>2, <2>1 DEF RoomTells
<1>5. Good(D1, A, L)
  BY <1>1, <1>2, <1>3, <1>4 DEF Good
<1> QED BY <1>5 DEF D1

LEMMA BookedAway ==
  ASSUME NEW D, NEW A, NEW L, Good(D, A, L), NEW m \in Moves, Booked(D, L, m),
         NEW z \in ActiveOn(L, m), NEW D1, D1[m].state = "draft",
         NEW L1, ActiveOn(L1, m) = ActiveOn(L, m) \ {z}
  PROVE  Booked(D1, L1, m)
<1> DEFINE T == ActiveOn(L, m)
<1>1. Cardinality(T) <= 1
  BY DEF Booked, Right
<1>2. IsFiniteSet(T)
  <2>1. T \in SUBSET OnMoves(L)
    BY ActiveIs DEF OnMoves
  <2>2. IsFiniteSet(OnMoves(L))
    BY DEF Good, LedgerTells
  <2> HIDE DEF T
  <2> QED BY <2>1, <2>2, FS_Subset
<1> HIDE DEF T
<1>3. z \in T /\ ActiveOn(L1, m) = T \ {z}
  BY DEF T
<1>4. Cardinality(T \ {z}) = Cardinality(T) - 1 /\ IsFiniteSet(T \ {z})
  BY <1>2, <1>3, FS_RemoveElement
<1>5. Cardinality(T \ {z}) \in Nat /\ Cardinality(T) \in Nat
  BY <1>2, <1>4, FS_CardinalityType
<1>6. Cardinality(T \ {z}) = 0
  BY <1>1, <1>4, <1>5
<1>7. T \ {z} = {}
  BY <1>4, <1>6, FS_EmptySet
<1> QED BY <1>3, <1>6, <1>7 DEF Booked, Right

LEMMA UnpostConcludes ==
  ASSUME Good(doc, alloc, ledger), NEW t, Snap(t, doc, alloc, ledger), t.op = "unpost"
  PROVE  \E D1, A1, N : Concludes(t, D1, A1, N)
<1> DEFINE m == t.on
           K == t.ledger
           P == LiveOn(m)
           A1 == Removed(alloc, P)
           Q == Pairs(P, P)
<1>1. m \in Moves /\ m \notin Partials /\ doc[m].state = "posted" /\ t.enabled \in BOOLEAN
  BY Documents DEF Snap, ReadyIn
<1>2. alloc \in [Partials -> {"absent", "live", "removed"}]
  BY DEF Good, AllocTells
<1>3. P \in SUBSET Partials /\ P = LiveIn(m, alloc) /\ \A p \in P : Settles[p] = m /\ alloc[p] = "live"
  BY DEF LiveOn, LiveIn
<1>4. A1 \in [Partials -> {"absent", "live", "removed"}] /\ \A p \in Partials : A1[p] = IF p \in P THEN "removed" ELSE alloc[p]
  <2> HIDE DEF P
  <2> QED BY <1>2 DEF Removed
<1>5. Outcome(t) = IF t.enabled THEN Annulling(Ensure(S(doc, A1, K \cup Q), m), m)
                   ELSE S(InState(doc, m, "draft"), A1, K)
  <2>1. Start(t) = S(doc, alloc, K)
    BY DEF Start, S
  <2>2. Outcome(t) = Unposted(t)
    BY DEF Outcome
  <2> DEFINE s == [Start(t) EXCEPT !.alloc = [p \in Partials |-> IF p \in P THEN "removed" ELSE @[p]]]
  <2>3. s = Removing(Start(t), P)
    <3> HIDE DEF P
    <3> QED BY DEF Removing
  <2>4. s = S(doc, A1, K)
    <3> HIDE DEF s, P, K
    <3> QED BY <2>1, <2>3, RemovedIs
  <2>5. Unposted(t) = IF t.enabled THEN Annulling(Ensure(Release(s, P), m), m)
                                   ELSE Restating(s, m, "draft")
    BY Zenon DEF Unposted, Annulling, Restating
  <2> HIDE DEF s, A1, P, K, m
  <2>6. Release(s, P) = S(doc, A1, K \cup Q)
    BY <2>4, ReleaseIs
  <2>7. Restating(s, m, "draft") = S(InState(doc, m, "draft"), A1, K)
    BY <2>4, StateIs
  <2> QED BY <2>2, <2>5, <2>6, <2>7
<1>6. /\ Locks(t) = (IF t.enabled THEN Scope(m) ELSE {m}) \cup P
      /\ Written(t) = Locks(t) /\ m \in Written(t) /\ P \subseteq Written(t)
  BY <1>1, LocksOn, ScopeRows DEF Written
<1>7. Sees(t, alloc) = Looked(m) \cup P
  BY <1>1, <1>3 DEF Sees
<1>8. t.enabled => Seen(K, ledger, Looked(m) \cup P)
  BY <1>7 DEF Snap
<1> HIDE DEF A1, P, K, m
<1>9. \A p \in Partials : A1[p] # alloc[p] => p \in Written(t) /\ Settles[p] \in Written(t)
  BY <1>3, <1>4, <1>6
<1>10. CASE t.enabled
  <2>1. Moved(alloc, A1, P, P)
    <3>1. \A p \in Partials : A1[p] = "absent" => alloc[p] = "absent" /\ p \notin P
      BY <1>4
    <3>2. \A p \in Partials : A1[p] # "removed" => alloc[p] # "removed" /\ p \notin P
      BY <1>4
    <3> QED BY <1>3, <1>4, <3>1, <3>2 DEF Moved
  <2>2. PairsAdded(doc, A1, ledger, Q)
    BY <2>1, PairsGood
  <2>3. Good(doc, A1, ledger \cup Q) /\ \A k \in Moves : ActiveOn(ledger \cup Q, k) = ActiveOn(ledger, k)
    BY <2>2 DEF PairsAdded
  <2>4. \A e \in Q : e.on \in P /\ e.on \in Partials /\ ~(e.kind = "posting" /\ e.of # None)
    <3>1. P \in SUBSET P
      OBVIOUS
    <3> QED BY <1>3, <3>1, PairsOf
  <2>5. \A p \in P : Allocation(p) \in Q /\ Reversal(Allocation(p)) \in Q
    BY DEF Pairs
  <2>6. m \in Credits => Q = {}
    <3>1. m \in Credits => P = {}
      BY <1>3, Documents
    <3> QED BY <3>1 DEF Pairs
  <2> HIDE DEF Q
  <2> DEFINE Kq == K \cup Q
             Lq == ledger \cup Q
  <2>7. Seen(Kq, Lq, Looked(m) \cup P) /\ Seen(Kq, Lq, Looked(m)) /\ Seen(K, ledger, Looked(m))
    <3>1. Seen(Kq, Lq, Looked(m) \cup P)
      BY <1>8, <1>10, SeenGrows
    <3> QED BY <1>8, <1>10, <3>1 DEF Seen
  <2>8. Good(doc, A1, Lq)
    BY <2>3
  <2> HIDE DEF Kq, Lq
  <2>9. PICK D1, N0 : /\ Ensure(S(doc, A1, Kq), m) = S(D1, A1, Kq \cup N0)
                      /\ Grown(D1, N0, m, doc, A1, Kq, Lq)
                      /\ Booked(doc, Lq, m) => Booked(D1, Lq \cup N0, m)
    BY <1>1, <2>7, <2>8, EnsureGrows
  <2> DEFINE K2 == Kq \cup N0
             L2 == Lq \cup N0
             z == Latest(ActiveOn(K2, m))
             r == Reversal(z)
             D2 == InState(D1, m, "draft")
             N == Q \cup (N0 \cup {r})
  <2>10. /\ Good(D1, A1, L2) /\ ActiveOn(L2, m) # {}
         /\ \A k \in Moves : k \notin Scope(m) => D1[k] = doc[k]
         /\ \A e \in N0 : e.kind = "posting" /\ e.on \in Scope(m)
         /\ \A k \in Moves \ {m} : Booked(doc, Lq, k) => Booked(D1, L2, k)
         /\ \A e \in N0 : e.of # None => e.on = m /\ m \in Credits
    BY <2>9 DEF Grown
  <2>11. z \in ActiveOn(L2, m)
    <3>1. Seen(K2, L2, Looked(m))
      BY <2>7, SeenGrows
    <3>2. m \in Looked(m) /\ DocTells(D1) /\ LedgerTells(L2, D1)
      BY <1>1, <2>10, ScopeRows DEF Good
    <3> HIDE DEF K2, L2
    <3>3. ActiveOn(K2, m) = ActiveOn(L2, m)
      BY <2>10, <3>1, <3>2, SeenActive
    <3> QED BY <1>1, <2>10, <3>2, <3>3, LatestIs
  <2>12. Outcome(t) = S(D2, A1, K2 \cup {r})
    <3>1. Outcome(t) = Annulling(S(D1, A1, K2), m)
      BY <1>5, <1>10, <2>9 DEF Kq
    <3>2. Annulling(S(D1, A1, K2), m) = S(InState(D1, m, "draft"), A1, K2 \cup Annulled(K2, m))
      <4> HIDE DEF K2
      <4> QED BY AnnulIs
    <3> QED BY <3>1, <3>2 DEF Annulled
  <2>13. K2 \cup {r} = K \cup N /\ L2 \cup {r} = ledger \cup N
    BY DEF Kq, Lq
  <2>14. /\ Good(D2, A1, L2 \cup {r}) /\ ActiveOn(L2 \cup {r}, m) = ActiveOn(L2, m) \ {z}
         /\ \A k : k # m => ActiveOn(L2 \cup {r}, k) = ActiveOn(L2, k)
    <3> HIDE DEF L2, z
    <3>1. Reversed(D1, A1, L2, m, z)
      BY <1>1, <2>10, <2>11, ReverseKeeps
    <3> QED BY <3>1 DEF Reversed
  <2>15. r.kind = "reversal" /\ r.on = m /\ r.of = <<"posting", m, r.n>>
    <3> HIDE DEF L2, z
    <3>1. IsPosting(z) /\ z.on = m
      <4>1. DocTells(D1) /\ LedgerTells(L2, D1)
        BY <2>10 DEF Good
      <4> QED BY <1>1, <2>11, <4>1, ActiveSays
    <3> QED BY <3>1, ReversalFields
  <2>16. D2[m].state = "draft" /\ \A k \in Moves : k # m => D2[k] = D1[k]
    <3>1. DocTells(D1)
      BY <2>10 DEF Good
    <3> QED BY <1>1, <3>1, Restated
  <2> HIDE DEF z, r, D2
  <2>17. Written(t) = Scope(m) \cup P /\ m \in Scope(m) /\ \A o \in Scope(m) : Rows(o) \subseteq Scope(m) /\ o \in Looked(m)
    BY <1>1, <1>6, <1>10, ScopeRows
  <2>18. \A k \in Moves : D2[k] # doc[k] => k \in Written(t)
    BY <2>10, <2>16, <2>17
  <2>19. ASSUME NEW e \in N PROVE e.on \in Sees(t, alloc) /\ Rows(e.on) \subseteq Written(t)
    <3>1. CASE e \in Q
      BY <1>7, <2>4, <2>17, <3>1 DEF Rows
    <3>2. CASE e \in N0 \cup {r}
      <4>1. e.on \in Scope(m)
        BY <2>10, <2>15, <2>17, <3>2
      <4> QED BY <1>7, <2>17, <4>1
    <3> QED BY <3>1, <3>2
  <2>20. AllBooked(doc, ledger) => AllBooked(D2, ledger \cup N)
    <3> SUFFICES ASSUME AllBooked(doc, ledger), NEW k \in Moves PROVE Booked(D2, L2 \cup {r}, k)
      BY <2>13 DEF AllBooked
    <3>1. AllBooked(doc, Lq)
      BY <2>3, BookedOnly DEF Lq
    <3> HIDE DEF L2
    <3>2. Booked(D1, L2, k)
      <4>1. Booked(doc, Lq, k)
        BY <3>1 DEF AllBooked
      <4> QED BY <2>9, <2>10, <4>1 DEF L2
    <3>3. CASE k # m
      <4>1. D2[k] = D1[k] /\ ActiveOn(L2 \cup {r}, k) = ActiveOn(L2, k)
        BY <2>14, <2>16, <3>3
      <4> QED BY <3>2, <4>1, BookedSame
    <3>4. CASE k = m
      <4>1. Booked(D1, L2, m)
        BY <3>2, <3>4
      <4>2. Booked(D2, L2 \cup {r}, m)
        <5> DEFINE L3 == L2 \cup {r}
        <5>1. ActiveOn(L3, m) = ActiveOn(L2, m) \ {z} /\ z \in ActiveOn(L2, m)
          BY <2>11, <2>14
        <5>2. D2[m].state = "draft" /\ Good(D1, A1, L2)
          BY <2>10, <2>16
        <5> HIDE DEF L3
        <5>3. Booked(D2, L3, m)
          BY <1>1, <4>1, <5>1, <5>2, BookedAway
        <5> QED BY <5>3 DEF L3
      <4> QED BY <3>4, <4>2
    <3> QED BY <3>3, <3>4
  <2>21. Paired(alloc, ledger) => Paired(A1, ledger \cup N)
    <3> SUFFICES ASSUME Paired(alloc, ledger), NEW p \in Partials, A1[p] = "removed"
                 PROVE  Allocation(p) \in ledger \cup N /\ Reversal(Allocation(p)) \in ledger \cup N
      BY DEF Paired
    <3>1. CASE p \in P
      BY <2>5, <3>1
    <3>2. CASE p \notin P
      <4>1. alloc[p] = "removed"
        BY <1>4, <3>2
      <4> QED BY <4>1 DEF Paired
    <3> QED BY <3>1, <3>2
  <2>22. ASSUME NEW e \in N, e.kind = "posting", e.of # None PROVE LinkOK(e, K, N, ledger)
    <3>1. e \in N0 \cup {r}
      BY <2>4, <2>22
    <3>2. e \in N0 /\ m \in Credits
      BY <2>10, <2>15, <2>22, <3>1
    <3>3. Q = {}
      BY <2>6, <3>2
    <3>4. Kq = K /\ Lq = ledger /\ N = N0 \cup {r}
      BY <3>3 DEF Kq, Lq
    <3>5. Grown(D1, N0, m, doc, A1, K, ledger)
      BY <2>9, <3>4
    <3>6. Reversing({r}, m)
      BY <2>15 DEF Reversing
    <3>7. LinkOK(e, K, N0 \cup {r}, ledger)
      BY <2>7, <2>22, <3>1, <3>5, <3>6, Linked
    <3> QED BY <3>4, <3>7
  <2> HIDE DEF K2, L2, N
  <2>23. Outcome(t) = S(D2, A1, K \cup N) /\ Good(D2, A1, ledger \cup N)
    BY <2>12, <2>13, <2>14
  <2>24. Concludes(t, D2, A1, N)
    BY <1>9, <1>10, <2>18, <2>19, <2>20, <2>21, <2>22, <2>23 DEF Concludes, K
  <2> QED BY <2>24
<1>11. CASE ~t.enabled
  <2>1. Pairs({}, {}) = {} /\ K \cup {} = K /\ ledger \cup {} = ledger
    BY DEF Pairs
  <2>2. Moved(alloc, A1, {}, {})
    <3>1. \A p \in Partials : A1[p] = "absent" => alloc[p] = "absent" /\ p \notin {}
      BY <1>4
    <3>2. \A p \in Partials : A1[p] # "removed" => alloc[p] # "removed" /\ p \notin {}
      BY <1>4
    <3> QED BY <1>4, <3>1, <3>2 DEF Moved
  <2>3. PairsAdded(doc, A1, ledger, Pairs({}, {}))
    BY <2>2, PairsGood
  <2>4. Good(doc, A1, ledger)
    BY <2>1, <2>3 DEF PairsAdded
  <2> DEFINE D2 == InState(doc, m, "draft")
  <2>5. Good(D2, A1, ledger)
    BY <1>1, <2>4, DraftGood
  <2>6. \A k \in Moves : k # m => D2[k] = doc[k]
    BY <1>1, Restated DEF Good
  <2>7. Outcome(t) = S(D2, A1, K \cup {})
    BY <1>5, <1>11, <2>1
  <2> HIDE DEF D2
  <2>8. \A k \in Moves : D2[k] # doc[k] => k \in Written(t)
    BY <1>6, <2>6
  <2>9. Concludes(t, D2, A1, {})
    BY <1>9, <1>11, <2>1, <2>5, <2>7, <2>8 DEF Concludes, K
  <2> QED BY <2>9
<1> QED BY <1>1, <1>10, <1>11

LEMMA OutcomeTells ==
  ASSUME Good(doc, alloc, ledger), NEW t, Snap(t, doc, alloc, ledger)
  PROVE  \E D1, A1, N : Concludes(t, D1, A1, N)
<1>1. t.op \in {"post", "unpost", "backfill", "allocate", "release", "backfill_allocation"}
  BY DEF Snap, ReadyIn
<1> QED BY <1>1, PostConcludes, UnpostConcludes, BackfillConcludes, AllocateConcludes,
           ReleaseConcludes, ClaimConcludes

\* NeverRefused: nothing that the snapshot was decided on is contradicted by an event that
\* the transaction could not see.
LEMMA Accepted ==
  ASSUME Good(doc, alloc, ledger), NEW t, Snap(t, doc, alloc, ledger)
  PROVE  Accepts(t)
<1>1. PICK D1, A1, N : Concludes(t, D1, A1, N)
  BY OutcomeTells
<1> DEFINE K == t.ledger
           new == Outcome(t).ledger \ t.ledger
<1>2. /\ Outcome(t) = S(D1, A1, K \cup N) /\ Good(D1, A1, ledger \cup N)
      /\ \A e \in N : e.on \in Sees(t, alloc)
      /\ N # {} => t.enabled
      /\ \A e \in N : e.kind = "posting" /\ e.of # None => LinkOK(e, K, N, ledger)
  BY <1>1 DEF Concludes
<1>3. new = N \ K
  <2>1. Outcome(t).ledger = K \cup N
    BY <1>2 DEF S
  <2> QED BY <2>1
<1>4. Keys(new) \cap Keys(ledger) = {}
  <2> SUFFICES ASSUME NEW e \in new, NEW f \in ledger, Key(e) = Key(f) PROVE FALSE
    BY DEF Keys
  <2>1. e \in N /\ e \notin K
    BY <1>3
  <2>2. e = f
    BY <1>2, <2>1 DEF Good, LedgerTells
  <2>3. Seen(K, ledger, Sees(t, alloc))
    BY <1>2, <2>1 DEF Snap
  <2> QED BY <1>2, <2>1, <2>2, <2>3 DEF Seen
<1>5. ASSUME NEW e \in new, e.kind = "posting", e.of # None
      PROVE  \E posting \in Active(K \cup (new \ {e}), K \cup (new \ {e})) :
               /\ Key(posting) = e.of
               /\ CreditedTo(K \cup (new \ {e}), posting) - e.amount <= posting.amount
  <2>1. e \in N
    BY <1>3
  <2>2. LinkOK(e, K, N, ledger)
    BY <1>2, <1>5, <2>1
  <2>3. Told(K, N, e) = K \cup (new \ {e})
    BY <1>3 DEF Told
  <2> QED BY <2>2, <2>3 DEF LinkOK
<1> HIDE DEF Keys
<1>6. Accepts(t)
  BY <1>4, <1>5, Zenon DEF Accepts
<1> QED BY <1>6

\* What a step that changes the rows W and adds N leaves of a transaction it does not end.
Touches(D1, A1, N, W) ==
  /\ \A m \in Moves : D1[m] # doc[m] => m \in W
  /\ \A p \in Partials : A1[p] # alloc[p] => p \in W /\ Settles[p] \in W
  /\ \A e \in N : Rows(e.on) \subseteq W

LEMMA SnapKept ==
  ASSUME NEW u, Snap(u, doc, alloc, ledger), NEW D1, NEW A1, NEW N, NEW W, Touches(D1, A1, N, W),
         Locks(u) \cap W = {}
  PROVE  Snap(u, D1, A1, ledger \cup N)
<1> DEFINE o == u.on
<1>1. /\ u.enabled \in BOOLEAN /\ ReadyIn(u, doc, alloc) /\ u.ledger \subseteq ledger
      /\ u.enabled => Seen(u.ledger, ledger, Sees(u, alloc))
  BY DEF Snap
<1>2. /\ \A m \in Moves : D1[m] # doc[m] => m \in W
      /\ \A p \in Partials : A1[p] # alloc[p] => p \in W /\ Settles[p] \in W
      /\ \A e \in N : Rows(e.on) \subseteq W
  BY DEF Touches
<1>3. o \in Moves \/ o \in Partials
  BY <1>1 DEF ReadyIn
<1>4. CASE o \in Partials
  <2>1. Locks(u) = {o, Settles[o]} /\ o \notin Moves
    BY <1>4, LocksOn, Documents
  <2>2. A1[o] = alloc[o]
    BY <1>2, <1>4, <2>1
  <2>3. ReadyIn(u, D1, A1)
    BY <1>1, <2>1, <2>2 DEF ReadyIn
  <2>4. Sees(u, A1) = {o} /\ Sees(u, alloc) = {o}
    BY <1>4 DEF Sees
  <2>5. \A e \in N : e.on # o
    BY <1>2, <1>4, <2>1 DEF Rows
  <2>6. u.enabled => Seen(u.ledger, ledger \cup N, Sees(u, A1))
    BY <1>1, <2>4, <2>5 DEF Seen
  <2> QED BY <1>1, <2>3, <2>6 DEF Snap
<1>5. CASE o \in Moves
  <2>1. /\ Locks(u) = (IF u.enabled THEN Scope(o) ELSE {o}) \cup IF u.op = "unpost" THEN LiveOn(o) ELSE {}
        /\ o \notin Partials /\ o \in Scope(o)
    BY <1>5, LocksOn, Documents, ScopeRows
  <2>2. o \in Locks(u) /\ o \notin W
    BY <2>1
  <2>3. D1[o] = doc[o]
    BY <1>2, <1>5, <2>2
  <2>4. ReadyIn(u, D1, A1)
    BY <1>1, <2>1, <2>3 DEF ReadyIn
  <2>5. LiveIn(o, A1) = LiveIn(o, alloc)
    BY <1>2, <2>2 DEF LiveIn
  <2>6. Sees(u, A1) = Sees(u, alloc)
    BY <2>5 DEF Sees
  <2>7. ASSUME u.enabled, NEW e \in N, e.on \in Sees(u, alloc) PROVE FALSE
    <3>1. Rows(e.on) \subseteq W /\ Scope(o) \cap W = {}
      BY <1>2, <2>1, <2>7
    <3>2. CASE e.on \in Looked(o)
      <4>1. e.on \in Moves /\ e.on \notin Partials
        BY <1>5, <3>2, Documents DEF Looked
      <4>2. Scope(e.on) \subseteq W /\ e.on \in Scope(e.on)
        BY <3>1, <4>1, ScopeRows DEF Rows
      <4>3. CASE o \in Credits
        <5>1. Target[o] \in Scope(o)
          BY <4>3 DEF Scope
        <5>2. Target[o] \in Scope(e.on)
          BY <3>2, <4>2, <4>3 DEF Looked, Scope
        <5> QED BY <3>1, <4>2, <5>1, <5>2
      <4>4. CASE o \notin Credits
        BY <2>1, <3>1, <3>2, <4>2, <4>4 DEF Looked
      <4> QED BY <4>3, <4>4
    <3>3. CASE e.on \in LiveIn(o, alloc) /\ u.op = "unpost"
      <4>1. e.on \in Partials /\ e.on \in LiveOn(o)
        BY <3>3 DEF LiveIn, LiveOn
      <4>2. e.on \in Locks(u)
        BY <2>1, <3>3, <4>1
      <4> QED BY <3>1, <4>1, <4>2 DEF Rows
    <3> QED BY <2>1, <2>7, <3>2, <3>3 DEF Sees
  <2>8. u.enabled => Seen(u.ledger, ledger \cup N, Sees(u, A1))
    BY <1>1, <2>6, <2>7 DEF Seen
  <2> QED BY <1>1, <2>4, <2>8 DEF Snap
<1> QED BY <1>3, <1>4, <1>5

\* --- The inductive invariant.
Open(D, A, L, T) == \A w \in Workers : T[w] # Idle => Snap(T[w], D, A, L)
Faithful(D, A, L, on, T) ==
  on /\ AllBooked(D, L) /\ Paired(A, L) /\ \A w \in Workers : T[w] # Idle => T[w].enabled
LedgerInv ==
  /\ Good(doc, alloc, ledger) /\ enabled \in BOOLEAN /\ paused \in BOOLEAN
  /\ tx = [w \in Workers |-> tx[w]]
  /\ Open(doc, alloc, ledger, tx)
  /\ ~paused => Faithful(doc, alloc, ledger, enabled, tx)

LEMMA LedgerInvInit == Init => LedgerInv
<1> HAVE Init
<1>1. /\ doc \in [Moves -> [state : {"draft", "posted"}, amount : UNION {Amounts[m] : m \in Moves}, seq : {0}]]
      /\ \A m \in Moves : doc[m].amount \in Amounts[m]
      /\ alloc \in [Partials -> {"absent", "live"}]
      /\ ledger = {} /\ enabled = TRUE /\ paused = FALSE /\ tx = [w \in Workers |-> Idle]
  BY DEF Init
<1>2. \A m \in Moves : doc[m].seq = 0 /\ doc[m].amount \in Nat /\ doc[m].seq < MaxPostings[m] /\ doc[m].seq <= MaxPostings[m]
  <2> TAKE m \in Moves
  <2>1. doc[m].seq = 0
    BY <1>1
  <2>2. MaxPostings[m] \in Nat /\ MaxPostings[m] > 0 /\ doc[m].amount \in Nat
    BY <1>1, Documents
  <2> QED BY <2>1, <2>2
<1>3. DocTells(doc)
  <2>1. doc \in [Moves -> [state : {"draft", "posted"}, amount : Nat, seq : Nat]]
    <3>1. \A m \in Moves : doc[m] \in [state : {"draft", "posted"}, amount : Nat, seq : Nat]
      <4> TAKE m \in Moves
      <4>1. doc[m] \in [state : {"draft", "posted"}, amount : UNION {Amounts[k] : k \in Moves}, seq : {0}]
        BY <1>1
      <4> QED BY <1>2, <4>1
    <3> QED BY <1>1, <3>1
  <2> QED BY <1>1, <1>2, <2>1 DEF DocTells
<1>4. AllocTells(alloc, ledger)
  BY <1>1 DEF AllocTells
<1>5. LedgerTells(ledger, doc)
  <2>1. OnMoves(ledger) = {}
    BY <1>1 DEF OnMoves
  <2> QED BY <1>1, <2>1, FS_EmptySet DEF LedgerTells
<1>6. RoomTells(doc, ledger)
  BY <1>2 DEF RoomTells
<1>7. \A m \in Moves : ActiveOn(ledger, m) = {}
  BY <1>1, ActiveIs
<1>8. AllBooked(doc, ledger)
  <2>1. Cardinality({}) = 0
    BY FS_EmptySet
  <2>2. \A m \in Moves : Booked(doc, ledger, m)
    <3> TAKE m \in Moves
    <3>1. ActiveOn(ledger, m) = {} /\ doc[m].seq = 0 /\ ~(doc[m].seq > 0)
      BY <1>2, <1>7
    <3> QED BY <2>1, <3>1 DEF Booked, Right
  <2> QED BY <2>2 DEF AllBooked
<1>9. Paired(alloc, ledger)
  BY <1>1 DEF Paired
<1>10. \A w \in Workers : tx[w] = Idle
  BY <1>1
<1>11. Good(doc, alloc, ledger)
  BY <1>3, <1>4, <1>5, <1>6 DEF Good
<1> QED BY <1>1, <1>8, <1>9, <1>10, <1>11 DEF LedgerInv, Open, Faithful

\* --- What each step does to the invariant.
LEMMA BeginKeeps ==
  ASSUME LedgerInv, NEW w \in Workers, NEW op \in Operations, NEW on \in Moves \cup Partials, Begin(w, op, on)
  PROVE  LedgerInv'
<1> DEFINE t == [op |-> op, on |-> on, enabled |-> enabled,
                 ledger |-> {e \in ledger : e.on \in Searched(on)}]
<1>1. /\ tx[w] = Idle /\ Ready(op, on) /\ tx' = [tx EXCEPT ![w] = t]
      /\ doc' = doc /\ alloc' = alloc /\ ledger' = ledger /\ enabled' = enabled /\ paused' = paused
  BY DEF Begin
<1>2. /\ Good(doc, alloc, ledger) /\ enabled \in BOOLEAN /\ paused \in BOOLEAN
      /\ tx = [v \in Workers |-> tx[v]]
      /\ Open(doc, alloc, ledger, tx)
      /\ ~paused => Faithful(doc, alloc, ledger, enabled, tx)
  BY DEF LedgerInv
<1>3. Snap(t, doc, alloc, ledger)
  <2>1. t.op = op /\ t.on = on /\ t.enabled = enabled /\ t.ledger = {e \in ledger : e.on \in Searched(on)}
    OBVIOUS
  <2> HIDE DEF t
  <2>2. ReadyIn(t, doc, alloc)
    BY <1>1, <2>1 DEF Ready, ReadyIn, Operations
  <2>3. Sees(t, alloc) \subseteq Searched(on)
    <3>1. CASE on \in Partials
      BY <2>1, <3>1 DEF Sees, Searched
    <3>2. CASE on \notin Partials /\ on \in Credits
      <4>1. LiveIn(on, alloc) = {}
        BY <3>2, Documents DEF LiveIn
      <4> QED BY <2>1, <3>2, <4>1 DEF Sees, Searched, Looked
    <3>3. CASE on \notin Partials /\ on \notin Credits
      BY <2>1, <3>3 DEF Sees, Searched, Looked, LiveIn
    <3> QED BY <3>1, <3>2, <3>3
  <2>4. Seen(t.ledger, ledger, Sees(t, alloc))
    BY <2>1, <2>3 DEF Seen
  <2> QED BY <1>2, <2>1, <2>2, <2>4 DEF Snap
<1>4. t.enabled = enabled
  OBVIOUS
<1> HIDE DEF t
<1>5. tx' = [v \in Workers |-> IF v = w THEN t ELSE tx[v]]
  BY <1>1, <1>2
<1>6. \A v \in Workers : tx'[v] = IF v = w THEN t ELSE tx[v]
  BY <1>5
<1>7. tx' = [v \in Workers |-> tx'[v]]
  BY <1>5
<1>8. Open(doc, alloc, ledger, tx')
  BY <1>2, <1>3, <1>6 DEF Open
<1>9. ~paused => Faithful(doc, alloc, ledger, enabled, tx')
  BY <1>2, <1>4, <1>6 DEF Faithful
<1> QED BY <1>1, <1>2, <1>7, <1>8, <1>9 DEF LedgerInv

LEMMA EndKeeps ==
  ASSUME NEW W, tx = [w \in Workers |-> tx[w]], End(W)
  PROVE  /\ tx' = [w \in Workers |-> tx'[w]]
         /\ \A v \in Workers : tx'[v] # Idle => v \notin W /\ tx'[v] = tx[v]
BY DEF End

LEMMA CommitKeeps ==
  ASSUME LedgerInv, NEW w \in Workers, tx[w] # Idle, Commit(w)
  PROVE  LedgerInv'
<1> DEFINE t == tx[w]
<1>1. /\ Good(doc, alloc, ledger) /\ enabled \in BOOLEAN /\ paused \in BOOLEAN
      /\ tx = [v \in Workers |-> tx[v]]
      /\ Open(doc, alloc, ledger, tx)
      /\ ~paused => Faithful(doc, alloc, ledger, enabled, tx)
  BY DEF LedgerInv
<1>2. Snap(t, doc, alloc, ledger)
  BY <1>1 DEF Open
<1>3. PICK D1, A1, N : Concludes(t, D1, A1, N)
  BY <1>1, <1>2, OutcomeTells
<1>4. /\ Outcome(t) = S(D1, A1, t.ledger \cup N)
      /\ Good(D1, A1, ledger \cup N)
      /\ \A m \in Moves : D1[m] # doc[m] => m \in Written(t)
      /\ \A p \in Partials : A1[p] # alloc[p] => p \in Written(t) /\ Settles[p] \in Written(t)
      /\ \A e \in N : e.on \in Sees(t, alloc) /\ Rows(e.on) \subseteq Written(t)
      /\ t.enabled /\ AllBooked(doc, ledger) => AllBooked(D1, ledger \cup N)
      /\ t.enabled /\ Paired(alloc, ledger) => Paired(A1, ledger \cup N)
  BY <1>3 DEF Concludes
<1>5. /\ doc' = Outcome(t).doc /\ alloc' = Outcome(t).alloc /\ ledger' = ledger \cup Outcome(t).ledger
      /\ End({w} \cup Conflicting(Written(t))) /\ enabled' = enabled /\ paused' = paused
  BY DEF Commit
<1> HIDE DEF t
<1>6. doc' = D1 /\ alloc' = A1 /\ ledger' = ledger \cup N
  <2>1. Outcome(t).doc = D1 /\ Outcome(t).alloc = A1 /\ Outcome(t).ledger = t.ledger \cup N
    BY <1>4 DEF S
  <2>2. t.ledger \subseteq ledger
    BY <1>2 DEF Snap
  <2> QED BY <1>5, <2>1, <2>2
<1>7. /\ tx' = [v \in Workers |-> tx'[v]]
      /\ \A v \in Workers : tx'[v] # Idle => v \notin {w} \cup Conflicting(Written(t)) /\ tx'[v] = tx[v]
  <2> DEFINE W == {w} \cup Conflicting(Written(t))
  <2>1. End(W)
    BY <1>5
  <2> HIDE DEF W
  <2>2. /\ tx' = [v \in Workers |-> tx'[v]]
        /\ \A v \in Workers : tx'[v] # Idle => v \notin W /\ tx'[v] = tx[v]
    BY <1>1, <2>1, EndKeeps
  <2> QED BY <2>2 DEF W
<1>8. Open(D1, A1, ledger \cup N, tx')
  <2> SUFFICES ASSUME NEW v \in Workers, tx'[v] # Idle PROVE Snap(tx'[v], D1, A1, ledger \cup N)
    BY DEF Open
  <2> DEFINE u == tx[v]
             W == Written(t)
  <2>1. u # Idle /\ tx'[v] = u /\ v \notin Conflicting(W)
    BY <1>7
  <2>2. Locks(u) \cap W = {}
    BY <2>1 DEF Conflicting
  <2>3. Snap(u, doc, alloc, ledger)
    BY <1>1, <2>1 DEF Open
  <2> HIDE DEF u, W
  <2>4. Touches(D1, A1, N, W)
    BY <1>4 DEF Touches, W
  <2>5. Snap(u, D1, A1, ledger \cup N)
    BY <2>2, <2>3, <2>4, SnapKept
  <2> QED BY <2>1, <2>5
<1>9. ~paused => Faithful(D1, A1, ledger \cup N, enabled, tx')
  <2> HAVE ~paused
  <2>1. enabled /\ AllBooked(doc, ledger) /\ Paired(alloc, ledger) /\ \A v \in Workers : tx[v] # Idle => tx[v].enabled
    BY <1>1 DEF Faithful
  <2>2. t.enabled
    BY <2>1 DEF t
  <2> QED BY <1>4, <1>7, <2>1, <2>2 DEF Faithful
<1> QED BY <1>1, <1>4, <1>5, <1>6, <1>7, <1>8, <1>9 DEF LedgerInv

LEMMA AbortKeeps ==
  ASSUME LedgerInv, NEW w \in Workers, Abort(w)
  PROVE  LedgerInv'
<1>1. /\ Good(doc, alloc, ledger) /\ enabled \in BOOLEAN /\ paused \in BOOLEAN
      /\ tx = [v \in Workers |-> tx[v]]
      /\ Open(doc, alloc, ledger, tx)
      /\ ~paused => Faithful(doc, alloc, ledger, enabled, tx)
  BY DEF LedgerInv
<1>2. /\ End({w})
      /\ doc' = doc /\ alloc' = alloc /\ ledger' = ledger /\ enabled' = enabled /\ paused' = paused
  BY DEF Abort
<1>3. /\ tx' = [v \in Workers |-> tx'[v]]
      /\ \A v \in Workers : tx'[v] # Idle => tx'[v] = tx[v]
  BY <1>1, <1>2, EndKeeps
<1>4. Open(doc, alloc, ledger, tx')
  BY <1>1, <1>3 DEF Open
<1>5. ~paused => Faithful(doc, alloc, ledger, enabled, tx')
  BY <1>1, <1>3 DEF Faithful
<1> QED BY <1>1, <1>2, <1>3, <1>4, <1>5 DEF LedgerInv

LEMMA EditKeeps ==
  ASSUME LedgerInv, NEW m \in Moves, NEW a \in Amounts[m], EditDraft(m, a)
  PROVE  LedgerInv'
<1> DEFINE D1 == [doc EXCEPT ![m].amount = a]
<1>1. /\ Good(doc, alloc, ledger) /\ enabled \in BOOLEAN /\ paused \in BOOLEAN
      /\ tx = [v \in Workers |-> tx[v]]
      /\ Open(doc, alloc, ledger, tx)
      /\ ~paused => Faithful(doc, alloc, ledger, enabled, tx)
  BY DEF LedgerInv
<1>2. /\ End(Conflicting({m})) /\ doc[m].state = "draft"
      /\ doc' = D1 /\ alloc' = alloc /\ ledger' = ledger /\ enabled' = enabled /\ paused' = paused
  BY DEF EditDraft
<1>3. DocTells(doc) /\ LedgerTells(ledger, doc) /\ AllocTells(alloc, ledger) /\ RoomTells(doc, ledger)
  BY <1>1 DEF Good
<1>4. doc \in [Moves -> [state : {"draft", "posted"}, amount : Nat, seq : Nat]] /\ a \in Nat
  BY <1>3, Documents DEF DocTells
<1>5. D1 \in [Moves -> [state : {"draft", "posted"}, amount : Nat, seq : Nat]]
  BY <1>4
<1>6. /\ \A k \in Moves : D1[k].seq = doc[k].seq /\ D1[k].state = doc[k].state /\ (k # m => D1[k] = doc[k])
      /\ D1[m].amount = a
  BY <1>4
<1> HIDE DEF D1
<1>7. DocTells(D1)
  <2>1. \A k \in Moves : doc[k].amount \in Amounts[k] /\ doc[k].seq <= MaxPostings[k]
    BY <1>3 DEF DocTells
  <2>2. \A k \in Moves : D1[k].amount \in Amounts[k] /\ D1[k].seq <= MaxPostings[k]
    BY <1>6, <2>1
  <2> QED BY <1>5, <2>2 DEF DocTells
<1>8. Good(D1, alloc, ledger)
  <2>1. LedgerTells(ledger, D1)
    BY <1>3, <1>6, <1>7, SameNumbers
  <2>2. RoomTells(D1, ledger)
    BY <1>3, <1>6 DEF RoomTells
  <2> QED BY <1>3, <1>7, <2>1, <2>2 DEF Good
<1>9. /\ tx' = [v \in Workers |-> tx'[v]]
      /\ \A v \in Workers : tx'[v] # Idle => v \notin Conflicting({m}) /\ tx'[v] = tx[v]
  BY <1>1, <1>2, EndKeeps
<1>10. Open(D1, alloc, ledger, tx')
  <2> SUFFICES ASSUME NEW v \in Workers, tx'[v] # Idle PROVE Snap(tx'[v], D1, alloc, ledger)
    BY DEF Open
  <2> DEFINE u == tx[v]
             W == {m}
  <2>1. u # Idle /\ tx'[v] = u /\ v \notin Conflicting(W)
    BY <1>9
  <2>2. Locks(u) \cap W = {}
    BY <2>1 DEF Conflicting
  <2>3. Snap(u, doc, alloc, ledger)
    BY <1>1, <2>1 DEF Open
  <2>4. Touches(D1, alloc, {}, W)
    BY <1>6 DEF Touches
  <2> HIDE DEF u, W
  <2>5. Snap(u, D1, alloc, ledger \cup {})
    BY <2>2, <2>3, <2>4, SnapKept
  <2>6. ledger \cup {} = ledger
    OBVIOUS
  <2> QED BY <2>1, <2>5, <2>6
<1>11. ~paused => Faithful(D1, alloc, ledger, enabled, tx')
  <2> HAVE ~paused
  <2>1. enabled /\ AllBooked(doc, ledger) /\ Paired(alloc, ledger) /\ \A v \in Workers : tx[v] # Idle => tx[v].enabled
    BY <1>1 DEF Faithful
  <2>2. AllBooked(D1, ledger)
    <3> SUFFICES ASSUME NEW k \in Moves PROVE Booked(D1, ledger, k)
      BY DEF AllBooked
    <3>1. Booked(doc, ledger, k) /\ Booked(doc, ledger, m)
      BY <2>1 DEF AllBooked
    <3>2. CASE k # m
      <4>1. D1[k] = doc[k]
        BY <1>6, <3>2
      <4> QED BY <3>1, <4>1, BookedSame
    <3>3. CASE k = m
      <4>1. D1[m].state = "draft" /\ Cardinality(ActiveOn(ledger, m)) <= 1
        BY <1>2, <1>6, <3>1 DEF Booked, Right
      <4>2. ActiveOn(ledger, m) = {}
        BY <1>2, <3>1 DEF Booked, Right
      <4> QED BY <3>3, <4>1, <4>2 DEF Booked, Right
    <3> QED BY <3>2, <3>3
  <2> QED BY <1>9, <2>1, <2>2 DEF Faithful
<1> QED BY <1>1, <1>2, <1>8, <1>9, <1>10, <1>11 DEF LedgerInv

LEMMA SwitchKeeps == LedgerInv /\ SwitchCapture => LedgerInv'
<1> HAVE LedgerInv /\ SwitchCapture
<1>1. /\ enabled' = ~enabled /\ paused' = TRUE
      /\ doc' = doc /\ alloc' = alloc /\ ledger' = ledger /\ tx' = tx
  BY DEF SwitchCapture
<1>2. /\ Good(doc, alloc, ledger) /\ enabled \in BOOLEAN
      /\ tx = [v \in Workers |-> tx[v]]
      /\ Open(doc, alloc, ledger, tx)
  BY DEF LedgerInv
<1>3. enabled' \in BOOLEAN /\ paused' \in BOOLEAN /\ paused'
  BY <1>1, <1>2
<1> QED BY <1>1, <1>2, <1>3 DEF LedgerInv

LEMMA LedgerInvNext == LedgerInv /\ [Next]_ledgerVars => LedgerInv'
<1> SUFFICES ASSUME LedgerInv, [Next]_ledgerVars PROVE LedgerInv'
  OBVIOUS
<1>1. CASE \E w \in Workers : \E op \in Operations, on \in Moves \cup Partials : Begin(w, op, on)
  BY <1>1, BeginKeeps
<1>2. CASE \E w \in Workers : Post(w) \/ Unpost(w) \/ BackfillMove(w) \/ Allocate(w)
                              \/ RemoveAllocation(w) \/ BackfillAllocation(w)
  <2>1. PICK w \in Workers : tx[w] # Idle /\ Commit(w)
    BY <1>2 DEF Post, Unpost, BackfillMove, Allocate, RemoveAllocation, BackfillAllocation, Ends
  <2> QED BY <2>1, CommitKeeps
<1>3. CASE \E w \in Workers : Abort(w)
  BY <1>3, AbortKeeps
<1>4. CASE \E m \in Moves : \E a \in Amounts[m] : EditDraft(m, a)
  BY <1>4, EditKeeps
<1>5. CASE SwitchCapture
  BY <1>5, SwitchKeeps
<1>6. CASE UNCHANGED ledgerVars
  BY <1>6 DEF ledgerVars, LedgerInv
<1> QED BY <1>1, <1>2, <1>3, <1>4, <1>5, <1>6 DEF Next

\* --- The properties follow.
LEMMA AmountSign ==
  ASSUME DocTells(doc), LedgerTells(ledger, doc), NEW e \in ledger
  PROVE  (e.amount < 0) = ((e.on \in Credits) # (e.kind = "reversal"))
<1>1. \A f : PostingSays(f, doc) => /\ f.kind = "posting" /\ f.amount \in Int
                                    /\ f.on \in Credits => f.amount < 0
                                    /\ f.on \notin Credits => f.amount > 0
  <2> SUFFICES ASSUME NEW f, PostingSays(f, doc)
               PROVE  /\ f.kind = "posting" /\ f.amount \in Int
                      /\ f.on \in Credits => f.amount < 0
                      /\ f.on \notin Credits => f.amount > 0
    OBVIOUS
  <2>1. f.kind = "posting" /\ f.amount \in Int
    BY DEF PostingSays
  <2>2. CASE f.on \in Moves /\ \E a \in Amounts[f.on] : f.amount = Signed(f.on, a)
    <3>1. PICK a \in Amounts[f.on] : f.amount = Signed(f.on, a)
      BY <2>2
    <3>2. a \in Nat /\ a > 0
      BY <2>2, Documents
    <3>3. f.on \in Credits => f.amount < 0
      BY <3>1, <3>2 DEF Signed
    <3>4. f.on \notin Credits => f.amount > 0
      BY <3>1, <3>2 DEF Signed
    <3> QED BY <2>1, <3>3, <3>4
  <2>3. CASE f.on \in Partials /\ f.amount = 1
    BY <2>1, <2>3, Documents
  <2> QED BY <2>2, <2>3 DEF PostingSays
<1>2. CASE e.kind = "posting"
  <2>1. PostingSays(e, doc)
    BY <1>2, EventFields
  <2>2. e.amount \in Int /\ (e.on \in Credits => e.amount < 0) /\ (e.on \notin Credits => e.amount > 0)
    BY <1>1, <2>1
  <2> QED BY <1>2, <2>2
<1>3. CASE e.kind = "reversal"
  <2>1. PICK f \in ledger : PostingSays(f, doc) /\ e = Reversal(f)
    BY <1>3, EventFields
  <2>2. f.amount \in Int /\ (f.on \in Credits => f.amount < 0) /\ (f.on \notin Credits => f.amount > 0)
    BY <1>1, <2>1
  <2>3. e.on = f.on /\ e.amount = -f.amount
    BY <2>1, ReversalFields DEF PostingSays
  <2>4. (e.on \in Credits => ~(e.amount < 0)) /\ (e.on \notin Credits => e.amount < 0)
    BY <2>2, <2>3
  <2> QED BY <1>3, <2>4
<1> QED BY <1>2, <1>3, EventFields

LEMMA InvTypes == LedgerInv => LedgerTypeOK
<1> HAVE LedgerInv
<1>1. /\ DocTells(doc) /\ AllocTells(alloc, ledger) /\ LedgerTells(ledger, doc)
      /\ enabled \in BOOLEAN /\ paused \in BOOLEAN
  BY DEF LedgerInv, Good
<1>2. /\ doc \in [Moves -> [state : {"draft", "posted"}, amount : Nat, seq : Nat]]
      /\ \A m \in Moves : doc[m].amount \in Amounts[m] /\ doc[m].seq <= MaxPostings[m]
  BY <1>1 DEF DocTells
<1>3. alloc \in [Partials -> {"absent", "live", "removed"}]
  BY <1>1 DEF AllocTells
<1>4. \A e \in ledger :
       /\ e.kind \in {"posting", "reversal"} /\ e.on \in Moves \cup Partials
       /\ e.n \in 1..IF e.on \in Moves THEN doc[e.on].seq ELSE 1
       /\ (e.amount < 0) = ((e.on \in Credits) # (e.kind = "reversal"))
       /\ e.kind = "reversal" => e.of = <<"posting", e.on, e.n>>
  <2> TAKE e \in ledger
  <2>1. /\ e.kind \in {"posting", "reversal"} /\ e.on \in Moves \cup Partials
        /\ e.on \in Moves => e.n \in 1..doc[e.on].seq
        /\ e.on \in Partials => e.n = 1
        /\ e.kind = "reversal" => e.of = <<"posting", e.on, e.n>>
    BY <1>1, EventFields
  <2>2. (e.amount < 0) = ((e.on \in Credits) # (e.kind = "reversal"))
    BY <1>1, AmountSign
  <2>3. e.n \in 1..IF e.on \in Moves THEN doc[e.on].seq ELSE 1
    <3>1. CASE e.on \in Moves
      BY <2>1, <3>1
    <3>2. CASE e.on \notin Moves
      BY <2>1, <3>2
    <3> QED BY <3>1, <3>2
  <2> QED BY <2>1, <2>2, <2>3
<1> QED BY <1>1, <1>2, <1>3, <1>4 DEF LedgerTypeOK

LEMMA InvBooks == LedgerInv => BooksFollowDocuments
BY DEF LedgerInv, Faithful, AllBooked, Booked, Right, BooksFollowDocuments

LEMMA InvAddsUp == LedgerInv => LedgerAddsUp
<1> HAVE LedgerInv
<1>1. Good(doc, alloc, ledger) /\ Open(doc, alloc, ledger, tx) /\ (~paused => Paired(alloc, ledger))
  BY DEF LedgerInv, Faithful
<1>2. \A p \in Partials : alloc[p] # "removed" => Reversal(Allocation(p)) \notin ledger
  BY <1>1 DEF Good, AllocTells
<1>3. AllocationsBalance
  BY <1>1, <1>2 DEF AllocationsBalance, Paired
<1>4. NeverRefused
  <2> SUFFICES ASSUME NEW w \in Workers, tx[w] # Idle PROVE Accepts(tx[w])
    BY DEF NeverRefused
  <2>1. Snap(tx[w], doc, alloc, ledger)
    BY <1>1 DEF Open
  <2> QED BY <1>1, <2>1, Accepted
<1> QED BY <1>3, <1>4 DEF LedgerAddsUp

\* What the commit of a transaction adds to the ledger.
LEMMA CommitLinks ==
  ASSUME LedgerInv, NEW w \in Workers, tx[w] # Idle, Commit(w), NEW e \in ledger' \ ledger,
         e.kind = "posting", e.of # None
  PROVE  \E posting \in ledger' :
           Key(posting) = e.of /\ Credited(ledger', Target[e.on]) <= posting.amount
<1> DEFINE t == tx[w]
<1>1. Good(doc, alloc, ledger) /\ Snap(t, doc, alloc, ledger)
  BY DEF LedgerInv, Open
<1>2. PICK D1, A1, N : Concludes(t, D1, A1, N)
  BY <1>1, OutcomeTells
<1>3. ledger' = ledger \cup Outcome(t).ledger
  BY DEF Commit
<1> HIDE DEF t
<1>4. ledger' = ledger \cup N
  <2>1. Outcome(t) = S(D1, A1, t.ledger \cup N)
    BY <1>2 DEF Concludes
  <2>2. Outcome(t).ledger = t.ledger \cup N
    BY <2>1 DEF S
  <2>3. t.ledger \subseteq ledger
    BY <1>1 DEF Snap
  <2> QED BY <1>3, <2>2, <2>3
<1>5. e \in N
  BY <1>4
<1>6. LinkOK(e, t.ledger, N, ledger)
  BY <1>2, <1>5 DEF Concludes
<1>7. \E posting \in ledger \cup N :
        Key(posting) = e.of /\ Credited(ledger \cup N, Target[e.on]) <= posting.amount
  BY <1>6 DEF LinkOK
<1> QED BY <1>4, <1>7

LEMMA LinksNext ==
  ASSUME LedgerInv, [Next]_ledgerVars
  PROVE  \A e \in ledger' \ ledger :
           e.kind = "posting" /\ e.of # None =>
             \E posting \in ledger' :
               /\ Key(posting) = e.of
               /\ Credited(ledger', Target[e.on]) <= posting.amount
<1> SUFFICES ASSUME NEW e \in ledger' \ ledger, e.kind = "posting", e.of # None
             PROVE  \E posting \in ledger' :
                      Key(posting) = e.of /\ Credited(ledger', Target[e.on]) <= posting.amount
  OBVIOUS
<1>1. CASE \E w \in Workers : Post(w) \/ Unpost(w) \/ BackfillMove(w) \/ Allocate(w)
                              \/ RemoveAllocation(w) \/ BackfillAllocation(w)
  <2>1. PICK w \in Workers : tx[w] # Idle /\ Commit(w)
    BY <1>1 DEF Post, Unpost, BackfillMove, Allocate, RemoveAllocation, BackfillAllocation, Ends
  <2> QED BY <2>1, CommitLinks
<1>2. CASE ~ \E w \in Workers : Post(w) \/ Unpost(w) \/ BackfillMove(w) \/ Allocate(w)
                                \/ RemoveAllocation(w) \/ BackfillAllocation(w)
  <2>1. ledger' = ledger
    BY <1>2 DEF Next, Begin, Abort, EditDraft, SwitchCapture, ledgerVars
  <2> QED BY <2>1
<1> QED BY <1>1, <1>2

\* --- The delivery.  WebhookProofs speaks of one delivery on its own; here it is
\* one of two ledgers, with requests and outcomes filled in.  Deliveries is that
\* module filled in alike (the dispatch and the conversation play no part, and
\* the bounds of the latter are any that fit its assumption), so that all that is
\* left to say is that both mean the same steps.
Deliveries == INSTANCE WebhookProofs
  WITH Workers <- Receivers, Clients <- Workers, MayDuplicate <- FALSE,
       Outcomes <- {"dispatched", "stale", "unrouted"}, Final <- {"dispatched"},
       allowed <- TRUE, seen <- TRUE, effects <- 0, failures <- 0, work <- "dispatch",
       MaxMessages <- 0, Horizon <- 0, PageSize <- 1, MaxHistory <- 0, Kinds <- {},
       now <- 0, messages <- {}, signals <- {}, cursor <- 0, episodes <- <<>>,
       pageTxn <- 0, pageJobs <- 0, consumed <- {}, raced <- {},
       MaxTurns <- 0, turns <- 0, lapsed <- FALSE, missed <- {}

LEMMA DeliveryIdle == Idle \notin Deliveries!Transaction
BY DeliveryBounds
DEF Delivery!DeliveryConstants, Delivery!Transaction, Delivery!Ops, Delivery!Row,
    Delivery!RowStates, Delivery!Open, Deliveries!Transaction, Deliveries!Ops,
    Deliveries!Row, Deliveries!RowStates, Deliveries!Open

LEMMA DeliverySameInit == Delivery!Init => Deliveries!Init
BY DEF Delivery!Init, Delivery!Absent, Delivery!Unborn,
       Deliveries!Init, Deliveries!Absent, Deliveries!Unborn

LEMMA DeliverySamePost ==
  ASSUME NEW c \in Workers, Delivery!Post(c) PROVE Deliveries!Post(c)
<1> USE DEF Delivery!Locked, Deliveries!Locked, Delivery!Close, Deliveries!Close,
            Delivery!Spoiled, Deliveries!Spoiled, Delivery!Overtaken, Deliveries!Overtaken,
            Delivery!Enqueue, Deliveries!Enqueue, Delivery!InState, Deliveries!InState,
            Delivery!Fresh, Deliveries!Fresh
<1>1. Delivery!ReceivePost(c) => Deliveries!ReceivePost(c)
  BY DEF Delivery!ReceivePost, Deliveries!ReceivePost, Delivery!Snapshot,
         Deliveries!Snapshot, Delivery!ActiveJobStates, Deliveries!ActiveJobStates
<1>2. Delivery!Admit(c) => Deliveries!Admit(c)
  BY DEF Delivery!Admit, Deliveries!Admit, Delivery!Absent, Deliveries!Absent
<1>3. Delivery!Reenqueue(c) => Deliveries!Reenqueue(c)
  BY DEF Delivery!Reenqueue, Deliveries!Reenqueue, Delivery!EnqueueOpen,
         Deliveries!EnqueueOpen, Delivery!Open, Deliveries!Open
<1>4. Delivery!AcknowledgeSettled(c) => Deliveries!AcknowledgeSettled(c)
  BY DEF Delivery!AcknowledgeSettled, Deliveries!AcknowledgeSettled
<1> QED
  BY <1>1, <1>2, <1>3, <1>4 DEF Delivery!Post, Deliveries!Post

LEMMA DeliverySameFanout ==
  ASSUME NEW w \in Receivers, Delivery!JobFanout(w) PROVE Deliveries!JobFanout(w)
<1> USE DEF Delivery!Locked, Deliveries!Locked, Delivery!Close, Deliveries!Close,
            Delivery!Spoiled, Deliveries!Spoiled, Delivery!Overtaken, Deliveries!Overtaken,
            Delivery!JobEnds, Deliveries!JobEnds, Delivery!Completed, Deliveries!Completed,
            Delivery!Claimed, Deliveries!Claimed, Delivery!Open, Deliveries!Open,
            Delivery!Attempt, Deliveries!Attempt, Delivery!Max2, Deliveries!Max2,
            Delivery!Settle, Deliveries!Settle, Delivery!Defer, Deliveries!Defer,
            Delivery!Exhaust, Deliveries!Exhaust, Delivery!Postponed, Deliveries!Postponed,
            Delivery!LedgerOnly, Deliveries!LedgerOnly, Delivery!Targets, Deliveries!Targets
<1>1. ASSUME NEW j \in Jobs PROVE Delivery!StartFanout(w, j) => Deliveries!StartFanout(w, j)
  BY DEF Delivery!StartFanout, Deliveries!StartFanout, Delivery!Start, Deliveries!Start,
         Delivery!Snapshot, Deliveries!Snapshot, Delivery!InState, Deliveries!InState,
         Delivery!ActiveJobStates, Deliveries!ActiveJobStates
<1>2. Delivery!FanOut(w) => Deliveries!FanOut(w)
  BY DEF Delivery!FanOut, Deliveries!FanOut
<1>3. Delivery!PausedFanout(w) => Deliveries!PausedFanout(w)
  BY DEF Delivery!PausedFanout, Deliveries!PausedFanout
<1>4. Delivery!FanoutFails(w) => Deliveries!FanoutFails(w)
  BY DEF Delivery!FanoutFails, Deliveries!FanoutFails
<1>5. Delivery!Superseded(w) => Deliveries!Superseded(w)
  BY DEF Delivery!Superseded, Deliveries!Superseded
<1>6. Delivery!TransientFailure(w) => Deliveries!TransientFailure(w)
  BY DEF Delivery!TransientFailure, Deliveries!TransientFailure,
         Delivery!PostponedOutside, Deliveries!PostponedOutside
<1>7. Delivery!PermanentFailure(w) => Deliveries!PermanentFailure(w)
  BY DEF Delivery!PermanentFailure, Deliveries!PermanentFailure
<1>8. Delivery!Crash(w) => Deliveries!Crash(w)
  BY DEF Delivery!Crash, Deliveries!Crash, Delivery!Disturb, Deliveries!Disturb
<1>9. Delivery!LedgerOnly => Deliveries!LedgerOnly
  OBVIOUS
<1>10. (\E j \in Jobs : Delivery!StartFanout(w, j)) => \E j \in Jobs : Deliveries!StartFanout(w, j)
  BY <1>1
<1> QED
  BY ONLY <1>2, <1>3, <1>4, <1>5, <1>6, <1>7, <1>8, <1>9, <1>10, Delivery!JobFanout(w)
  DEF Delivery!JobFanout, Deliveries!JobFanout

LEMMA DeliverySameClient ==
  ASSUME NEW c \in Workers, Delivery!Client(c) PROVE Deliveries!Client(c)
<1> USE DEF Delivery!Locked, Deliveries!Locked, Delivery!Close, Deliveries!Close,
            Delivery!Spoiled, Deliveries!Spoiled, Delivery!Overtaken, Deliveries!Overtaken,
            Delivery!Enqueue, Deliveries!Enqueue, Delivery!InState, Deliveries!InState,
            Delivery!Fresh, Deliveries!Fresh, Delivery!Reopened, Deliveries!Reopened,
            Delivery!Open, Deliveries!Open, Delivery!RowStates, Deliveries!RowStates,
            Delivery!Disturb, Deliveries!Disturb
<1>1. ASSUME NEW op PROVE Delivery!BeginClient(c, op) => Deliveries!BeginClient(c, op)
  BY DEF Delivery!BeginClient, Deliveries!BeginClient, Delivery!Snapshot,
         Deliveries!Snapshot, Delivery!ActiveJobStates, Deliveries!ActiveJobStates
<1>2. Delivery!ActionRequeue(c) => Deliveries!ActionRequeue(c)
  BY DEF Delivery!ActionRequeue, Deliveries!ActionRequeue
<1>3. Delivery!RecoverOrphan(c) => Deliveries!RecoverOrphan(c)
  BY DEF Delivery!RecoverOrphan, Deliveries!RecoverOrphan
<1>4. Delivery!ReviveUnrouted(c) => Deliveries!ReviveUnrouted(c)
  BY DEF Delivery!ReviveUnrouted, Deliveries!ReviveUnrouted
<1>5. Delivery!Rollback(c) => Deliveries!Rollback(c)
  BY DEF Delivery!Rollback, Deliveries!Rollback
<1>6. Delivery!ClientSteps(c) => Deliveries!ClientSteps(c)
  BY ONLY <1>1, <1>2, <1>3, <1>4, <1>5 DEF Delivery!ClientSteps, Deliveries!ClientSteps
<1> QED
  BY <1>6 DEF Delivery!Client, Deliveries!Client, Delivery!LedgerOnly, Deliveries!LedgerOnly

LEMMA DeliverySameQueue ==
  ASSUME NEW j \in Jobs, Delivery!Queue(j) PROVE Deliveries!Queue(j)
<1> USE DEF Delivery!ChangeJob, Deliveries!ChangeJob, Delivery!KeepOpen, Deliveries!KeepOpen,
            Delivery!Spoiled, Deliveries!Spoiled, Delivery!Overtaken, Deliveries!Overtaken,
            Delivery!Running, Deliveries!Running, Delivery!Fresh, Deliveries!Fresh,
            Delivery!Disturb, Deliveries!Disturb
<1>1. Delivery!RunnerReset(j) => Deliveries!RunnerReset(j)
  BY DEF Delivery!RunnerReset, Deliveries!RunnerReset
<1>2. Delivery!Duplicate(j) => Deliveries!Duplicate(j)
  BY DEF Delivery!Duplicate, Deliveries!Duplicate
<1>3. Delivery!RetryFailedJob(j) => Deliveries!RetryFailedJob(j)
  BY DEF Delivery!RetryFailedJob, Deliveries!RetryFailedJob
<1>4. Delivery!LoseJob(j) => Deliveries!LoseJob(j)
  BY DEF Delivery!LoseJob, Deliveries!LoseJob
<1>5. Delivery!QueueSteps(j) => Deliveries!QueueSteps(j)
  BY ONLY <1>1, <1>2, <1>3, <1>4 DEF Delivery!QueueSteps, Deliveries!QueueSteps
<1> QED
  BY <1>5 DEF Delivery!Queue, Deliveries!Queue, Delivery!LedgerOnly, Deliveries!LedgerOnly

LEMMA DeliverySameStep == [MCNext]_mcVars => [Deliveries!Next]_(Deliveries!deliveryVars)
<1>1. CASE Delivery!Next
  <2> USE DEF Delivery!Toggle, Deliveries!Toggle, Delivery!Disturb, Deliveries!Disturb
  <2>1. Delivery!Reconfigure => Deliveries!Reconfigure
    BY DEF Delivery!Reconfigure, Deliveries!Reconfigure
  <2>2. ASSUME NEW i \in Items PROVE Delivery!ChangeAsset(i) => Deliveries!ChangeAsset(i)
    BY DEF Delivery!ChangeAsset, Deliveries!ChangeAsset
  <2> QED
    BY ONLY <1>1, <2>1, <2>2, DeliverySamePost, DeliverySameFanout, DeliverySameClient,
       DeliverySameQueue DEF Delivery!Next, Deliveries!Next
<1>2. CASE UNCHANGED ofDelivery
  BY <1>2 DEF ofDelivery, Deliveries!deliveryVars
<1> QED
  BY <1>1, <1>2 DEF MCNext, mcVars

LEMMA DeliverySameSpec == MCSpec => Deliveries!Spec
<1>1. MCInit => Deliveries!Init
  BY DeliverySameInit DEF MCInit
<1> QED
  BY <1>1, DeliverySameStep, PTL DEF MCSpec, Deliveries!Spec

LEMMA DeliveryAssumed ==
  /\ NoJob \notin Jobs /\ QueueRetries \in Nat \ {0} /\ AttemptCeiling \in Nat \ {0}
  /\ MaxDisturbances \in Nat /\ Receivers \cap Workers = {}
  /\ Idle \notin Deliveries!Transaction /\ Deliveries!DeliveryStates
  /\ Deliveries!Chat!TimelineConstants
BY DeliveryBounds, DeliveryIdle
DEF Delivery!DeliveryConstants, Deliveries!DeliveryStates,
    Deliveries!Chat!TimelineConstants

LEMMA DeliveryTypesHold == MCSpec => []Delivery!DeliveryTypeOK
<1>1. Deliveries!DeliveryTypeOK => Delivery!DeliveryTypeOK
  BY DEF Delivery!DeliveryTypeOK, Deliveries!DeliveryTypeOK, Delivery!TypeOK,
         Deliveries!TypeOK, Delivery!Row, Deliveries!Row, Delivery!RowStates,
         Deliveries!RowStates, Delivery!Open, Deliveries!Open, Delivery!JobRecord,
         Deliveries!JobRecord, Delivery!JobStates, Deliveries!JobStates,
         Delivery!ActiveJobStates, Deliveries!ActiveJobStates, Delivery!Transaction,
         Deliveries!Transaction, Delivery!Ops, Deliveries!Ops, Delivery!Config,
         Deliveries!Config
<1>2. Deliveries!Spec => []Deliveries!DeliveryTypeOK
  BY DeliveryAssumed, Deliveries!DeliveryTypes
<1> QED
  BY <1>1, <1>2, DeliverySameSpec, PTL

LEMMA FanoutHolds == MCSpec => []FanoutAllOrNothing
<1>1. Deliveries!FanoutAllOrNothing => FanoutAllOrNothing
  BY DEF FanoutAllOrNothing, Delivery!FanoutAllOrNothing, Deliveries!FanoutAllOrNothing
<1>2. Deliveries!Spec => []Deliveries!FanoutAllOrNothing
  BY DeliveryAssumed, Deliveries!DeliveryFanoutAllOrNothing
<1> QED
  BY <1>1, <1>2, DeliverySameSpec, PTL

LEMMA FanoutWordHolds == MCSpec => FanoutKeepsItsWord
<1>1. Deliveries!Spec =>
        Deliveries!FanoutOnce /\ Deliveries!FanoutFollowsSubscriptions
        /\ Deliveries!NoSilentBudget
  BY DeliveryAssumed, Deliveries!DeliveryFanoutOnce,
     Deliveries!DeliveryFollowsSubscriptions, Deliveries!DeliveryNoSilentBudget
<1>2. Deliveries!FanoutOnce => Delivery!FanoutOnce
  BY PTL DEF Delivery!FanoutOnce, Deliveries!FanoutOnce, Delivery!deliveryVars,
             Deliveries!deliveryVars
<1>3. Deliveries!FanoutFollowsSubscriptions => Delivery!FanoutFollowsSubscriptions
  BY PTL DEF Delivery!FanoutFollowsSubscriptions, Deliveries!FanoutFollowsSubscriptions,
             Delivery!deliveryVars, Deliveries!deliveryVars
<1>4. Deliveries!NoSilentBudget => Delivery!NoSilentBudget
  BY PTL DEF Delivery!NoSilentBudget, Deliveries!NoSilentBudget, Delivery!vars,
             Deliveries!vars
<1> QED
  BY <1>1, <1>2, <1>3, <1>4, DeliverySameSpec, PTL DEF FanoutKeepsItsWord

\* --- Of every behaviour.
LEMMA MCStep == [MCNext]_mcVars => [Next]_ledgerVars
BY DEF MCNext, mcVars, ledgerVars

LEMMA AlwaysLedgerInv == MCSpec => []LedgerInv
<1>1. MCInit => LedgerInv
  BY LedgerInvInit DEF MCInit
<1>2. LedgerInv /\ [MCNext]_mcVars => LedgerInv'
  BY MCStep, LedgerInvNext
<1> QED BY <1>1, <1>2, PTL DEF MCSpec

\* A posting carries the sign of its document and a counterevent the opposite,
\* no document outruns its sequence, and a counterevent names the posting it
\* annuls (account_move.py: _emit_move_event, _emit_move_posting_reversal).
THEOREM LedgerTypes == MCSpec => []LedgerTypeOK
BY AlwaysLedgerInv, InvTypes, PTL

\* While capture was never off, the active events of a document are those its
\* state calls for: one posting of its amount if it is posted and has moved, none
\* if it is not, whatever posting, reset, edit and backfill were interleaved
\* (account_move.py: _post, write, _ensure_move_event).
THEOREM LedgerFollowsDocuments == MCSpec => []BooksFollowDocuments
BY AlwaysLedgerInv, InvBooks, PTL

\* A removed allocation leaves its pair of events, one that stands is not
\* reversed, and the ledger refuses nothing that a transaction decided under its
\* locks (account_partial_reconcile.py: unlink; business_event_service.py:
\* _reversed_event).
THEOREM LedgerAlwaysAddsUp == MCSpec => []LedgerAddsUp
BY AlwaysLedgerInv, InvAddsUp, PTL

\* No step links a credit to a posting that cannot bear it together with all that
\* stands against the invoice (service.py: _credit_reversal_target).
THEOREM LedgerCreditsFit == MCSpec => LinkedCreditFits
<1>1. LedgerInv /\ [MCNext]_mcVars =>
        [\A e \in ledger' \ ledger :
           e.kind = "posting" /\ e.of # None =>
             \E posting \in ledger' :
               /\ Key(posting) = e.of
               /\ Credited(ledger', Target[e.on]) <= posting.amount]_ledgerVars
  BY MCStep, LinksNext
<1> QED BY <1>1, AlwaysLedgerInv, PTL DEF MCSpec, LinkedCreditFits

\* The types of either ledger (account_move.py; webhook_delivery.py).
THEOREM LedgersTyped == MCSpec => []TypesOK
BY LedgerTypes, DeliveryTypesHold, PTL DEF TypesOK

\* A fan-out is complete or absent: the dispatches of a delivery exist exactly
\* when it says "dispatched" (webhook_delivery.py: _fanout_once).
THEOREM LedgerFanoutWhole == MCSpec => []FanoutAllOrNothing
BY FanoutHolds

\* It happens once, to the consumers subscribed when it commits, and only an
\* administrator's requeue gives a failed delivery another job
\* (webhook_delivery.py: _lock_active_policy, _has_failed_job).
THEOREM LedgerFanoutKeepsItsWord == MCSpec => FanoutKeepsItsWord
BY FanoutWordHolds
=============================================================================
