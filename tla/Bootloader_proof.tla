-------------------------- MODULE Bootloader_proof --------------------------
(***************************************************************************)
(* Theorems about the boot loader, for every download whose rows go upwards, *)
(* every size of the memory and any number of lost frames, failing writes    *)
(* and losses of power.                                                     *)
(***************************************************************************)
EXTENDS Bootloader, FiniteSetTheorems, TLAPS

LEMMA Segments ==
  /\ 1 \in DOMAIN Download /\ DOMAIN Download = 1 .. Len(Download) /\ Len(Download) \in Nat
  /\ \A s \in DOMAIN Download :
       /\ Download[s][2] \in Nat /\ Download[s][3] \in Seq(SUBSET Bits)
       /\ Len(Download[s][3]) \in Nat /\ Len(Download[s][3]) >= 1
       /\ DOMAIN Download[s][3] = 1 .. Len(Download[s][3])
       /\ \A i \in 1 .. Len(Download[s][3]) : Download[s][3][i] \in SUBSET Bits
<1> DEFINE T == {"prog", "conf", "ee"} \X Nat \X Seq(SUBSET Bits)
<1>1. Download \in Seq(T) /\ Download # <<>> /\ \A s \in DOMAIN Download : Download[s][3] # <<>>
  BY BootAssumption DEF BootAssumption
<1>2. 1 \in DOMAIN Download /\ DOMAIN Download = 1 .. Len(Download) /\ Len(Download) \in Nat
  <2> HIDE DEF T
  <2> QED
    BY <1>1
<1>3. \A s \in DOMAIN Download : Download[s] \in T
  <2> HIDE DEF T
  <2> QED
    BY <1>1
<1>4. \A s \in DOMAIN Download : Download[s][2] \in Nat /\ Download[s][3] \in Seq(SUBSET Bits)
  BY <1>3
<1> QED
  BY <1>1, <1>2, <1>4

LEMMA ModulusIs == Modulus \in Nat \ {0}
<1>1. PICK m \in Nat \ {0} : m = Byte /\ Modulus = m * m
  BY BootAssumption DEF BootAssumption
<1>2. m * m \in Nat \ {0}
  BY m >= 1
<1> QED
  BY <1>1, <1>2

LEMMA Kinds ==
  ASSUME NEW s \in DOMAIN Download
  PROVE  Download[s] \in {"prog", "conf", "ee"} \X Nat \X Seq(SUBSET Bits)
<1> DEFINE T == {"prog", "conf", "ee"} \X Nat \X Seq(SUBSET Bits)
<1>1. Download \in Seq(T)
  BY BootAssumption DEF BootAssumption
<1> HIDE DEF T
<1>2. Download[s] \in T
  BY <1>1
<1> QED
  BY <1>2 DEF T

\* The i-th row of a segment is sent for this place.
Place(s, k) == <<Download[s][1], Download[s][2] + k>>
Targets == {e.at : e \in Sent}

LEMMA PlaceIsTarget ==
  ASSUME NEW s \in DOMAIN Download, NEW k \in Nat, k + 1 <= Len(Download[s][3])
  PROVE  Place(s, k) \in Targets
<1>1. k + 1 \in 1 .. Len(Download[s][3])
  BY Segments
<1>2. Rows(s)[k + 1].at = Place(s, k) /\ k + 1 \in DOMAIN Rows(s)
  BY <1>1, Segments DEF Rows, Place
<1>3. Rows(s)[k + 1] \in Sent
  BY <1>2 DEF Sent
<1> QED
  BY <1>2, <1>3 DEF Targets

LEMMA FirstPlace == ASSUME NEW s \in DOMAIN Download PROVE SegmentAt(s) = Place(s, 0)
  BY Segments DEF SegmentAt, Place

LEMMA NextPlace ==
  ASSUME NEW s \in DOMAIN Download, NEW k \in Nat
  PROVE  Advance(Place(s, k)) = IF Place(s, k + 1) \in Cells THEN Place(s, k + 1) ELSE Nowhere
<1>1. Download[s][2] + k + 1 = Download[s][2] + (k + 1)
  BY Segments
<1>2. <<Place(s, k)[1], Place(s, k)[2] + 1>> = Place(s, k + 1)
  BY <1>1 DEF Place
<1> QED
  BY <1>2 DEF Advance

-----------------------------------------------------------------------------
(* Sums over finite sets.                                                   *)

First(s) == CHOOSE x \in s : TRUE
IsTotal(g, f, T) ==
  g = [s \in SUBSET T |-> IF s = {} THEN 0 ELSE f[First(s)] + g[s \ {First(s)}]]
Total(f, T) == (CHOOSE g : IsTotal(g, f, T))[T]

LEMMA SmallestExists ==
  ASSUME NEW T, IsFiniteSet(T), NEW C \in SUBSET SUBSET T, C # {}
  PROVE  \E X \in C : \A Y \in C : Y \subseteq X => Y = X
<1>1. IsWellFoundedOn(StrictSubsetOrdering(T), SUBSET T)
  BY FS_StrictSubsetOrderingWellFounded, FS_FiniteSubsetsOfFinite
<1>2. PICK X \in C : \A Y \in C : <<Y, X>> \notin StrictSubsetOrdering(T)
  BY <1>1, WFMin
<1> QED
  BY <1>2 DEF StrictSubsetOrdering

LEMMA FirstIsIn == ASSUME NEW s, s # {} PROVE First(s) \in s
  BY DEF First

\* Two totals agree on the sets that both are about.
LEMMA TotalsAgree ==
  ASSUME NEW D, NEW f \in [D -> Nat], NEW T \in SUBSET D, IsFiniteSet(T), NEW U \in SUBSET T,
         NEW g, NEW h, IsTotal(g, f, T), IsTotal(h, f, U)
  PROVE  \A s \in SUBSET U : g[s] = h[s] /\ g[s] \in Nat
<1> DEFINE C == {s \in SUBSET U : ~(g[s] = h[s] /\ g[s] \in Nat)}
<1> SUFFICES ASSUME C # {} PROVE FALSE
  OBVIOUS
<1>1. PICK X \in C : \A Y \in C : Y \subseteq X => Y = X
  <2>1. C \in SUBSET SUBSET T
    OBVIOUS
  <2> HIDE DEF C
  <2> QED
    BY <2>1, SmallestExists
<1>2. \A s \in SUBSET T : g[s] = IF s = {} THEN 0 ELSE f[First(s)] + g[s \ {First(s)}]
  BY DEF IsTotal
<1>3. \A s \in SUBSET U : h[s] = IF s = {} THEN 0 ELSE f[First(s)] + h[s \ {First(s)}]
  BY DEF IsTotal
<1>4. X \in SUBSET U /\ ~(g[X] = h[X] /\ g[X] \in Nat)
  BY <1>1
<1>5. X # {}
  <2> HIDE DEF C
  <2>1. {} \in SUBSET T /\ {} \in SUBSET U
    OBVIOUS
  <2>2. g[{}] = 0 /\ h[{}] = 0
    BY <1>2, <1>3, <2>1
  <2> QED
    BY <1>4, <2>2
<1>6. First(X) \in X /\ f[First(X)] \in Nat
  BY <1>4, <1>5, FirstIsIn
<1>7. g[X \ {First(X)}] = h[X \ {First(X)}] /\ g[X \ {First(X)}] \in Nat
  BY <1>1, <1>4, <1>6
<1> QED
  BY <1>2, <1>3, <1>4, <1>5, <1>6, <1>7

LEMMA TotalExists ==
  ASSUME NEW D, NEW f \in [D -> Nat], NEW T \in SUBSET D, IsFiniteSet(T)
  PROVE  \E g : IsTotal(g, f, T)
<1> DEFINE C == {U \in SUBSET T : ~\E g : IsTotal(g, f, U)}
<1> SUFFICES ASSUME C # {} PROVE FALSE
  OBVIOUS
<1>1. PICK X \in C : \A Y \in C : Y \subseteq X => Y = X
  <2>1. C \in SUBSET SUBSET T
    OBVIOUS
  <2> HIDE DEF C
  <2> QED
    BY <2>1, SmallestExists
<1> DEFINE Best(V) == CHOOSE g : IsTotal(g, f, V)
<1>2. \A V \in SUBSET X : V # X => IsTotal(Best(V), f, V)
  BY <1>1
<1>3. \A V \in SUBSET X : Total(f, V) = Best(V)[V]
  BY DEF Total
<1>4. ASSUME NEW V \in SUBSET X, V # X
      PROVE  Total(f, V) = IF V = {} THEN 0 ELSE f[First(V)] + Total(f, V \ {First(V)})
  <2>1. Best(V)[V] = IF V = {} THEN 0 ELSE f[First(V)] + Best(V)[V \ {First(V)}]
    <3>1. PICK b : b = Best(V)
      OBVIOUS
    <3>2. IsTotal(b, f, V) /\ V \in SUBSET V
      BY <1>2, <1>4, <3>1
    <3>3. b[V] = IF V = {} THEN 0 ELSE f[First(V)] + b[V \ {First(V)}]
      BY <3>2 DEF IsTotal
    <3> QED
      BY <3>1, <3>3
  <2>2. CASE V = {}
    BY <1>3, <2>1, <2>2
  <2>3. CASE V # {}
    <3> DEFINE W == V \ {First(V)}
    <3>1. First(V) \in V
      BY <2>3, FirstIsIn
    <3>2. W \in SUBSET X /\ W # X /\ W \in SUBSET V
      BY <3>1
    <3>3. IsTotal(Best(V), f, V) /\ IsTotal(Best(W), f, W)
      BY <1>2, <1>4, <3>2
    <3>4. V \in SUBSET D /\ IsFiniteSet(V)
      BY <1>1, FS_Subset
    <3>5. W \in SUBSET W
      OBVIOUS
    <3> HIDE DEF Best, W
    <3>6. Best(V)[W] = Best(W)[W]
      BY <3>2, <3>3, <3>4, <3>5, TotalsAgree
    <3> QED
      BY <1>3, <2>1, <2>3, <3>2, <3>6 DEF W
  <2> QED
    BY <2>2, <2>3
<1> DEFINE h == [s \in SUBSET X |-> IF s = {} THEN 0 ELSE f[First(s)] + Total(f, s \ {First(s)})]
<1>5. ASSUME NEW s \in SUBSET X, s # {}
      PROVE  h[s \ {First(s)}] = Total(f, s \ {First(s)})
  <2>1. First(s) \in s
    BY <1>5, FirstIsIn
  <2>2. s \ {First(s)} \in SUBSET X /\ s \ {First(s)} # X
    BY <2>1
  <2> QED
    BY <1>4, <2>2
<1>6. h = [s \in SUBSET X |-> IF s = {} THEN 0 ELSE f[First(s)] + h[s \ {First(s)}]]
  BY <1>5
<1>7. IsTotal(h, f, X)
  <2> HIDE DEF h
  <2> QED
    BY <1>6 DEF IsTotal
<1> QED
  BY <1>1, <1>7

LEMMA TotalIsTotal ==
  ASSUME NEW D, NEW f \in [D -> Nat], NEW T \in SUBSET D, IsFiniteSet(T), NEW g,
         IsTotal(g, f, T)
  PROVE  Total(f, T) = g[T] /\ Total(f, T) \in Nat
<1>1. PICK h : h = CHOOSE k : IsTotal(k, f, T)
  OBVIOUS
<1>2. IsTotal(h, f, T)
  BY <1>1
<1>3. T \in SUBSET T
  OBVIOUS
<1>4. h[T] = g[T] /\ h[T] \in Nat
  BY <1>2, <1>3, TotalsAgree
<1> QED
  BY <1>1, <1>4 DEF Total

LEMMA TotalFirst ==
  ASSUME NEW D, NEW f \in [D -> Nat], NEW T \in SUBSET D, IsFiniteSet(T)
  PROVE  /\ Total(f, T) \in Nat
         /\ Total(f, T) = IF T = {} THEN 0 ELSE f[First(T)] + Total(f, T \ {First(T)})
<1>1. PICK g : IsTotal(g, f, T)
  BY TotalExists
<1>2. Total(f, T) = g[T] /\ Total(f, T) \in Nat
  BY <1>1, TotalIsTotal
<1>3. T \in SUBSET T
  OBVIOUS
<1>4. g[T] = IF T = {} THEN 0 ELSE f[First(T)] + g[T \ {First(T)}]
  BY <1>1, <1>3 DEF IsTotal
<1>5. CASE T = {}
  BY <1>2, <1>4, <1>5
<1>6. CASE T # {}
  <2>1. PICK W : W = T \ {First(T)}
    OBVIOUS
  <2>2. W \in SUBSET T /\ W \in SUBSET D /\ IsFiniteSet(W) /\ W \in SUBSET W
    BY <2>1, FS_Subset
  <2>3. PICK h : IsTotal(h, f, W)
    BY <2>2, TotalExists
  <2>4. Total(f, W) = h[W]
    BY <2>2, <2>3, TotalIsTotal
  <2>5. g[W] = h[W]
    BY <1>1, <2>2, <2>3, TotalsAgree
  <2> QED
    BY <1>2, <1>4, <1>6, <2>1, <2>4, <2>5
<1> QED
  BY <1>5, <1>6

\* A total does not depend on which of its elements comes first.
LEMMA TotalRemove ==
  ASSUME NEW D, NEW f \in [D -> Nat], NEW T \in SUBSET D, IsFiniteSet(T), NEW x \in T
  PROVE  Total(f, T) = f[x] + Total(f, T \ {x})
<1> DEFINE C == {U \in SUBSET T : \E y \in U : Total(f, U) # f[y] + Total(f, U \ {y})}
<1> SUFFICES ASSUME C # {} PROVE FALSE
  OBVIOUS
<1>1. PICK X \in C : \A Y \in C : Y \subseteq X => Y = X
  <2>1. C \in SUBSET SUBSET T
    OBVIOUS
  <2> HIDE DEF C
  <2> QED
    BY <2>1, SmallestExists
<1>2. X \in SUBSET T
  BY <1>1
<1>3. PICK y \in X : Total(f, X) # f[y] + Total(f, X \ {y})
  BY <1>1
<1>4. PICK c : c = First(X)
  OBVIOUS
<1>5. c \in X /\ f[c] \in Nat /\ f[y] \in Nat
  BY <1>2, <1>3, <1>4, FirstIsIn
<1>6. \A U \in SUBSET T : U \in SUBSET D /\ IsFiniteSet(U)
  BY FS_Subset
<1>7. \A U \in SUBSET T : Total(f, U) \in Nat
  BY <1>6, TotalFirst
<1>8. Total(f, X) = f[c] + Total(f, X \ {c})
  BY <1>2, <1>3, <1>4, <1>6, TotalFirst
<1>9. c # y
  BY <1>3, <1>8
<1>10. X \ {c} \notin C /\ X \ {y} \notin C
  BY <1>1, <1>5
<1>11. Total(f, X \ {c}) = f[y] + Total(f, (X \ {c}) \ {y})
  BY <1>2, <1>9, <1>10
<1>12. Total(f, X \ {y}) = f[c] + Total(f, (X \ {y}) \ {c})
  BY <1>2, <1>5, <1>9, <1>10
<1>13. (X \ {c}) \ {y} = (X \ {y}) \ {c} /\ (X \ {y}) \ {c} \in SUBSET T
  BY <1>2
<1> HIDE DEF C
<1>14. Total(f, (X \ {y}) \ {c}) \in Nat
  BY <1>7, <1>13
<1>15. PICK n \in Nat : n = Total(f, (X \ {y}) \ {c})
  BY <1>14
<1>16. Total(f, X \ {c}) = f[y] + n /\ Total(f, X \ {y}) = f[c] + n
  BY <1>11, <1>12, <1>13, <1>15
<1>17. f[c] + (f[y] + n) = f[y] + (f[c] + n)
  BY <1>5
<1> QED
  BY <1>3, <1>8, <1>16, <1>17

LEMMA TotalUnion ==
  ASSUME NEW D, NEW f \in [D -> Nat], NEW A \in SUBSET D, NEW B \in SUBSET D,
         IsFiniteSet(A \cup B), A \cap B = {}
  PROVE  Total(f, A \cup B) = Total(f, A) + Total(f, B)
<1> DEFINE C == {U \in SUBSET B : Total(f, A \cup U) # Total(f, A) + Total(f, U)}
<1> SUFFICES ASSUME C # {} PROVE FALSE
  OBVIOUS
<1>1. IsFiniteSet(B)
  BY FS_Subset
<1>2. PICK X \in C : \A Y \in C : Y \subseteq X => Y = X
  <2>1. C \in SUBSET SUBSET B
    OBVIOUS
  <2> HIDE DEF C
  <2> QED
    BY <1>1, <2>1, SmallestExists
<1>3. X \in SUBSET B /\ Total(f, A \cup X) # Total(f, A) + Total(f, X)
  BY <1>2
<1>4. \A U \in SUBSET (A \cup B) : U \in SUBSET D /\ IsFiniteSet(U)
  BY FS_Subset
<1>5. \A U \in SUBSET (A \cup B) : Total(f, U) \in Nat
  BY <1>4, TotalFirst
<1>6. CASE X = {}
  <2>1. {} \in SUBSET D /\ IsFiniteSet({})
    BY FS_EmptySet
  <2>2. Total(f, {}) = 0
    BY <2>1, TotalFirst
  <2>3. A \cup X = A /\ A \in SUBSET (A \cup B)
    BY <1>6
  <2> QED
    BY <1>3, <1>5, <1>6, <2>2, <2>3
<1>7. CASE X # {}
  <2>1. PICK x \in X : TRUE
    BY <1>7
  <2>2. PICK W : W = X \ {x}
    OBVIOUS
  <2>3. W \in SUBSET B /\ W \notin C
    BY <1>2, <1>3, <2>1, <2>2
  <2>4. Total(f, A \cup W) = Total(f, A) + Total(f, W)
    BY <2>3
  <2>5. X \in SUBSET D /\ IsFiniteSet(X) /\ A \cup X \in SUBSET D /\ IsFiniteSet(A \cup X)
    BY <1>3, <1>4
  <2>6. Total(f, X) = f[x] + Total(f, W)
    BY <2>1, <2>2, <2>5, TotalRemove
  <2>7. (A \cup X) \ {x} = A \cup W /\ x \in A \cup X
    BY <1>3, <2>1, <2>2
  <2>8. Total(f, A \cup X) = f[x] + Total(f, A \cup W)
    BY <2>5, <2>7, TotalRemove
  <2>9. f[x] \in Nat /\ Total(f, A) \in Nat /\ Total(f, W) \in Nat
    BY <1>3, <1>5, <2>1, <2>3
  <2> QED
    BY <1>3, <2>4, <2>6, <2>8, <2>9
<1> QED
  BY <1>6, <1>7

-----------------------------------------------------------------------------
(* Quotients and remainders.                                                *)

LEMMA Division ==
  ASSUME NEW m \in Nat \ {0}, NEW a \in Nat
  PROVE  /\ a \div m \in Nat /\ a % m \in 0 .. m - 1
         /\ a = m * (a \div m) + (a % m)
OBVIOUS

LEMMA Multiples ==
  ASSUME NEW m \in Nat \ {0}, NEW p \in Nat, NEW q \in Nat, p < q
  PROVE  m * p + m <= m * q
<1>1. PICK d \in Nat : q = p + 1 + d
  BY q - p - 1 \in Nat
<1>2. m * q = m * p + m + m * d
  BY <1>1
<1>3. m * d \in Nat
  OBVIOUS
<1>4. m * p \in Nat
  OBVIOUS
<1> QED
  BY <1>2, <1>3, <1>4

LEMMA OneRemainder ==
  ASSUME NEW m \in Nat \ {0}, NEW p \in Nat, NEW q \in Nat, NEW r \in 0 .. m - 1,
         NEW t \in 0 .. m - 1, m * p + r = m * q + t
  PROVE  r = t
<1>1. m * p \in Nat /\ m * q \in Nat
  OBVIOUS
<1>2. CASE p < q
  BY <1>1, <1>2, Multiples
<1>3. CASE q < p
  BY <1>1, <1>3, Multiples
<1>4. CASE p = q
  BY <1>1, <1>4
<1> QED
  BY <1>2, <1>3, <1>4

LEMMA Remainder ==
  ASSUME NEW m \in Nat \ {0}, NEW a \in Nat, NEW q \in Nat, NEW r \in 0 .. m - 1, a = m * q + r
  PROVE  a % m = r
BY Division, OneRemainder

LEMMA RemainderAdds ==
  ASSUME NEW m \in Nat \ {0}, NEW a \in Nat, NEW b \in Nat
  PROVE  ((a % m) + b) % m = (a + b) % m
<1>1. PICK p \in Nat, r \in 0 .. m - 1 : p = a \div m /\ r = a % m /\ a = m * p + r
  BY Division
<1>2. PICK q \in Nat, t \in 0 .. m - 1 : r + b = m * q + t
  BY <1>1, r + b \in Nat, Division
<1>3. (r + b) % m = t
  BY <1>2, Remainder, r + b \in Nat
<1>4. a + b = m * (p + q) + t
  <2>1. m * (p + q) = m * p + m * q /\ m * p \in Nat /\ m * q \in Nat
    OBVIOUS
  <2> QED
    BY <1>1, <1>2, <2>1
<1>5. (a + b) % m = t
  BY <1>4, Remainder, a + b \in Nat, p + q \in Nat
<1> QED
  BY <1>1, <1>3, <1>5

\* What does not change the remainder has none.
LEMMA RemainderKept ==
  ASSUME NEW m \in Nat \ {0}, NEW a \in Nat, NEW b \in Nat, (a + b) % m = a % m
  PROVE  b % m = 0
<1>1. PICK p \in Nat, r \in 0 .. m - 1 : r = a % m /\ a = m * p + r
  BY Division
<1>2. PICK q \in Nat : a + b = m * q + r
  <2>1. PICK c \in Nat : c = a + b
    OBVIOUS
  <2>2. PICK q \in Nat, t \in 0 .. m - 1 : q = c \div m /\ t = c % m /\ c = m * q + t
    BY Division, ZenonT(40)
  <2> QED
    BY <1>1, <2>1, <2>2
<1>3. m * p \in Nat /\ m * q \in Nat
  OBVIOUS
<1>4. p <= q
  <2> SUFFICES ASSUME q < p PROVE FALSE
    OBVIOUS
  <2>1. m * q + m <= m * p
    BY Multiples
  <2> QED
    BY <1>1, <1>2, <1>3, <2>1
<1>5. PICK d \in Nat : q = p + d
  BY <1>4, q - p \in Nat
<1>6. m * q = m * p + m * d /\ m * d \in Nat
  BY <1>5
<1>7. b = m * d + 0
  BY <1>1, <1>2, <1>3, <1>6
<1> QED
  BY <1>7, Remainder, 0 \in 0 .. m - 1

\* A number and its complement.
LEMMA ComplementFits ==
  ASSUME NEW m \in Nat \ {0}, NEW a \in 0 .. m - 1, NEW b \in 0 .. m - 1,
         (a + ((m - b) % m)) % m = 0
  PROVE  a = b
OBVIOUS

-----------------------------------------------------------------------------
(* The sum of a set of rows.                                                *)

LEMMA RowSumIsTotal == ASSUME NEW r PROVE RowSum(r) = Total(Weight, r)
  BY DEF RowSum, MapThenSumSet, MapThenFoldSet, Total, IsTotal, First

LEMMA RowSumType == ASSUME NEW r \in SUBSET Bits PROVE RowSum(r) \in Nat
<1>1. Weight \in [Bits -> Nat] /\ IsFiniteSet(r)
  BY BootAssumption, FS_Subset DEF BootAssumption
<1> QED
  BY <1>1, RowSumIsTotal, TotalFirst

LEMMA SentRows ==
  /\ \A e \in Sent : e.row \in SUBSET Bits
  /\ \A s \in DOMAIN Download : \A i \in 1 .. Len(Download[s][3]) :
       /\ i \in DOMAIN Rows(s) /\ Rows(s)[i] \in Sent
       /\ Rows(s)[i].at = Place(s, i - 1) /\ Rows(s)[i].row = Download[s][3][i]
  /\ \A e \in Sent : \E s \in DOMAIN Download :
       \E i \in 1 .. Len(Download[s][3]) : e = Rows(s)[i]
<1>1. ASSUME NEW s \in DOMAIN Download
      PROVE  /\ DOMAIN Rows(s) = 1 .. Len(Download[s][3])
             /\ \A i \in 1 .. Len(Download[s][3]) :
                  Rows(s)[i] = [at |-> Place(s, i - 1), row |-> Download[s][3][i]]
  <2>1. \A i \in 1 .. Len(Download[s][3]) : Download[s][2] + i - 1 = Download[s][2] + (i - 1)
    BY Segments
  <2> QED
    BY <2>1 DEF Rows, Place
<1>2. \A s \in DOMAIN Download : \A i \in 1 .. Len(Download[s][3]) :
        Rows(s)[i] \in Sent
  BY <1>1 DEF Sent
<1>3. \A e \in Sent : \E s \in DOMAIN Download :
       \E i \in 1 .. Len(Download[s][3]) : e = Rows(s)[i]
  BY <1>1 DEF Sent
<1>4. \A s \in DOMAIN Download : \A i \in 1 .. Len(Download[s][3]) :
        Download[s][3][i] \in SUBSET Bits
  BY Segments
<1>5. ASSUME NEW s \in DOMAIN Download, NEW i \in 1 .. Len(Download[s][3])
      PROVE  /\ Rows(s)[i].at = Place(s, i - 1) /\ Rows(s)[i].row = Download[s][3][i]
             /\ i \in DOMAIN Rows(s)
  <2>1. Rows(s)[i] = [at |-> Place(s, i - 1), row |-> Download[s][3][i]]
    BY <1>1
  <2> QED
    BY <1>1, <2>1
<1>6. \A e \in Sent : e.row \in SUBSET Bits
  BY <1>3, <1>4, <1>5
<1> QED
  BY <1>2, <1>3, <1>5, <1>6

LEMMA SentIsFinite == IsFiniteSet(Sent)
<1> DEFINE All(s) == {Rows(s)[i] : i \in DOMAIN Rows(s)}
           Sets == {All(s) : s \in DOMAIN Download}
<1>1. ASSUME NEW s \in DOMAIN Download PROVE IsFiniteSet(All(s))
  <2>1. DOMAIN Rows(s) = 1 .. Len(Download[s][3]) /\ Len(Download[s][3]) \in Int
    BY Segments DEF Rows
  <2>2. IsFiniteSet(DOMAIN Rows(s))
    BY <2>1, FS_Interval
  <2>3. PICK r : r = [i \in DOMAIN Rows(s) |-> Rows(s)[i]]
    OBVIOUS
  <2>4. r \in Surjection(DOMAIN Rows(s), All(s))
    BY <2>3 DEF Surjection
  <2> QED
    BY <2>2, <2>4, FS_Surjection
<1>2. IsFiniteSet(Sets)
  <2>1. IsFiniteSet(DOMAIN Download)
    <3>1. PICK n \in Nat : DOMAIN Download = 1 .. n
      BY Segments
    <3>2. IsFiniteSet(1 .. n)
      BY FS_Interval
    <3> QED
      BY <3>1, <3>2
  <2>2. PICK r : r = [s \in DOMAIN Download |-> All(s)]
    OBVIOUS
  <2>3. r \in Surjection(DOMAIN Download, Sets)
    BY <2>2 DEF Surjection
  <2> QED
    BY <2>1, <2>3, FS_Surjection
<1>3. \A T \in Sets : IsFiniteSet(T)
  BY <1>1
<1>4. Sent = UNION Sets
  BY DEF Sent
<1> HIDE DEF Sets
<1> QED
  BY <1>2, <1>3, <1>4, FS_UNION

RowOf == [e \in Sent |-> RowSum(e.row)]
LEMMA RowOfType == RowOf \in [Sent -> Nat]
  BY SentRows, RowSumType DEF RowOf

LEMMA SumOfIsTotal ==
  ASSUME NEW T \in SUBSET Sent
  PROVE  SumOf(T) = Total(RowOf, T) % Modulus /\ Total(RowOf, T) \in Nat
<1>1. IsFiniteSet(T)
  BY SentIsFinite, FS_Subset
<1> DEFINE Q(g) == g = [s \in SUBSET T |-> IF s = {} THEN 0
                          ELSE RowSum(First(s).row) + g[s \ {First(s)}]]
<1>2. SumOf(T) = (CHOOSE g : Q(g))[T] % Modulus
  BY DEF SumOf, MapThenSumSet, MapThenFoldSet, First
<1>3. ASSUME NEW g PROVE Q(g) <=> IsTotal(g, RowOf, T)
  <2>1. ASSUME NEW s \in SUBSET T, s # {} PROVE RowSum(First(s).row) = RowOf[First(s)]
    <3>1. First(s) \in Sent
      BY <2>1, FirstIsIn
    <3> QED
      BY <3>1 DEF RowOf
  <2>2. [s \in SUBSET T |-> IF s = {} THEN 0 ELSE RowSum(First(s).row) + g[s \ {First(s)}]]
        = [s \in SUBSET T |-> IF s = {} THEN 0 ELSE RowOf[First(s)] + g[s \ {First(s)}]]
    BY <2>1
  <2> QED
    BY <2>2 DEF IsTotal
<1>4. \E g : Q(g)
  <2> HIDE DEF Q
  <2> QED
    BY <1>1, <1>3, TotalExists, RowOfType
<1>5. PICK g : g = CHOOSE h : Q(h)
  OBVIOUS
<1>6. Q(g)
  <2> HIDE DEF Q
  <2> QED
    BY <1>4, <1>5
<1>7. IsTotal(g, RowOf, T)
  BY <1>3, <1>6
<1> HIDE DEF Q
<1> QED
  BY <1>1, <1>2, <1>5, <1>7, TotalIsTotal, RowOfType

LEMMA SumOfType == ASSUME NEW T \in SUBSET Sent PROVE SumOf(T) \in 0 .. Modulus - 1
<1>1. Modulus \in Nat \ {0}
  BY ModulusIs
<1> QED
  BY <1>1, SumOfIsTotal, Division

LEMMA SumOfNone == SumOf({}) = 0
<1>1. {} \in SUBSET Sent /\ IsFiniteSet({})
  BY FS_EmptySet
<1>2. Total(RowOf, {}) = 0
  BY <1>1, TotalFirst, RowOfType
<1>3. Modulus \in Nat \ {0} /\ 0 % Modulus = 0
  BY ModulusIs
<1> QED
  BY <1>1, <1>2, <1>3, SumOfIsTotal

\* One more row.
LEMMA SumOfAdds ==
  ASSUME NEW T \in SUBSET Sent, NEW e \in Sent \ T
  PROVE  SumOf(T \cup {e}) = (SumOf(T) + RowSum(e.row)) % Modulus
<1>1. T \cup {e} \in SUBSET Sent /\ IsFiniteSet(T \cup {e}) /\ (T \cup {e}) \ {e} = T
      /\ e \in T \cup {e}
  BY SentIsFinite, FS_Subset
<1>2. Total(RowOf, T \cup {e}) = RowOf[e] + Total(RowOf, T)
  BY <1>1, TotalRemove, RowOfType
<1>3. RowOf[e] = RowSum(e.row) /\ RowSum(e.row) \in Nat /\ Total(RowOf, T) \in Nat
  BY SentRows, RowSumType, SumOfIsTotal DEF RowOf
<1>4. Modulus \in Nat \ {0}
  BY ModulusIs
<1>5. RowOf[e] + Total(RowOf, T) = Total(RowOf, T) + RowSum(e.row)
  BY <1>3
<1>6. SumOf(T \cup {e}) = (Total(RowOf, T) + RowSum(e.row)) % Modulus
  BY <1>1, <1>2, <1>5, SumOfIsTotal
<1> QED
  BY <1>3, <1>4, <1>6, SumOfIsTotal, RemainderAdds

\* If the sum with the tool's complement is 0, then what is missing adds up to nothing.
LEMMA MissingIsNothing ==
  ASSUME NEW T \in SUBSET Sent, (SumOf(T) + Complement) % Modulus = 0
  PROVE  SumOf(Sent \ T) = 0
<1>1. Modulus \in Nat \ {0}
  BY ModulusIs
<1>2. Sent \in SUBSET Sent
  OBVIOUS
<1>3. SumOf(T) = SumOf(Sent)
  BY <1>1, <1>2, SumOfType, ComplementFits DEF Complement
<1>4. PICK M : M = Sent \ T
  OBVIOUS
<1>5. M \in SUBSET Sent /\ T \cup M = Sent /\ T \cap M = {}
  BY <1>4
<1>6. Total(RowOf, Sent) = Total(RowOf, T) + Total(RowOf, M)
  BY <1>5, SentIsFinite, TotalUnion, RowOfType
<1>7. Total(RowOf, M) % Modulus = 0
  <2>1. PICK a \in Nat, b \in Nat : a = Total(RowOf, T) /\ b = Total(RowOf, M)
    BY <1>5, SumOfIsTotal
  <2>2. (a + b) % Modulus = a % Modulus
    BY <1>2, <1>3, <1>6, <2>1, SumOfIsTotal
  <2> QED
    BY <1>1, <2>1, <2>2, RemainderKept
<1>8. SumOf(M) = 0
  BY <1>5, <1>7, SumOfIsTotal
<1> QED
  BY <1>4, <1>8

-----------------------------------------------------------------------------
(* The order of the rows.                                                   *)

LEMMA CellParts ==
  ASSUME NEW c \in Cells PROVE c = <<c[1], c[2]>> /\ c[1] \in {"prog", "conf", "ee"} /\ c[2] \in Nat
<1>1. CASE c \in {"prog"} \X (0 .. ProgRows - 1)
  BY <1>1, BootAssumption DEF BootAssumption
<1>2. CASE c \in {<<"conf", 0>>, <<"ee", 0>>, FlagRow}
  BY <1>2 DEF FlagRow
<1> QED
  BY <1>1, <1>2 DEF Cells

LEMMA BelowDiffers ==
  ASSUME NEW c \in Cells, NEW d \in Cells, Below(c, d) PROVE c # d
  BY CellParts DEF Below

LEMMA SentPlaces ==
  /\ \A e \in Sent : e.at \in Cells /\ e.at # FlagRow
  /\ FlagRow \in Cells /\ Nowhere \notin Cells
<1>1. \A c \in Cells : c[1] # "none"
  BY CellParts
<1>2. Nowhere[1] = "none"
  BY DEF Nowhere
<1>3. FlagRow \in Cells
  BY DEF Cells
<1> QED
  BY <1>1, <1>2, <1>3, DownloadGoesUp DEF DownloadGoesUp

LEMMA RowsGoUp ==
  ASSUME NEW s \in DOMAIN Download, NEW i \in 1 .. Len(Download[s][3]),
         NEW t \in DOMAIN Download, NEW j \in 1 .. Len(Download[t][3]),
         s < t \/ (s = t /\ i < j)
  PROVE  Below(Rows(s)[i].at, Rows(t)[j].at)
<1>1. i \in DOMAIN Rows(s) /\ j \in DOMAIN Rows(t)
  BY SentRows
<1>2. CASE s < t
  BY <1>1, <1>2, DownloadGoesUp DEF DownloadGoesUp
<1>3. CASE s = t /\ i < j
  <2>1. Rows(s)[i].at = Place(s, i - 1) /\ Rows(t)[j].at = Place(s, j - 1)
    BY <1>3, SentRows
  <2>2. Download[s][2] + (i - 1) < Download[s][2] + (j - 1)
    BY <1>3, Segments
  <2> QED
    BY <2>1, <2>2 DEF Below, Place
<1> QED
  BY <1>2, <1>3

\* An erase that comes with the first row of a block leaves what is below that row.
LEMMA EraseLeavesBelow ==
  ASSUME NEW c \in Cells, NEW d \in Cells, Below(c, d), d[1] = "prog", d[2] % EraseRows = 0
  PROVE  c \notin Block(d)
<1> SUFFICES ASSUME c \in Block(d) PROVE FALSE
  OBVIOUS
<1>1. PICK q \in 0 .. ProgRows - 1 : c = <<"prog", q>> /\ q \div EraseRows = d[2] \div EraseRows
  BY DEF Block
<1>2. PICK n \in Nat : n = d[2] /\ q < n
  BY <1>1, CellParts DEF Below
<1>3. PICK m \in Nat \ {0} : m = EraseRows
  BY BootAssumption DEF BootAssumption
<1>4. q \in Nat /\ ProgRows \in Nat
  BY BootAssumption DEF BootAssumption
<1>5. PICK k \in Nat, r \in 0 .. m - 1 : k = q \div m /\ q = m * k + r
  <2>1. q = m * (q \div m) + (q % m) /\ q \div m \in Nat /\ q % m \in 0 .. m - 1
    BY <1>4, Division
  <2> QED
    BY <2>1
<1>6. n = m * k + 0
  <2>1. n \div m = k /\ n % m = 0
    BY <1>1, <1>2, <1>3, <1>5
  <2>2. n = m * (n \div m) + (n % m)
    BY Division
  <2> QED
    BY <2>1, <2>2
<1>7. m * k \in Nat
  BY <1>5
<1> QED
  BY <1>2, <1>5, <1>6, <1>7

\* There is one row of EEPROM below the flag, and nothing above it.
InEE(a) == a[1] = "ee"
LEMMA LastIsInEE ==
  ASSUME NEW s \in DOMAIN Download, InEE(SegmentAt(s))
  PROVE  Len(Download[s][3]) = 1 /\ s = Len(Download)
<1>1. \A c \in Cells : InEE(c) /\ c # FlagRow => c = <<"ee", 0>>
  BY DEF Cells, InEE
<1>2. Len(Download[s][3]) \in Nat /\ Len(Download[s][3]) >= 1 /\ Download[s][2] \in Nat
  BY Segments
<1>3. Download[s][1] = "ee"
  BY DEF InEE, SegmentAt
<1>4. ASSUME NEW i \in 1 .. Len(Download[s][3]) PROVE i = 1 /\ Rows(s)[i].at = <<"ee", 0>>
  <2>1. Rows(s)[i] \in Sent /\ Rows(s)[i].at = <<"ee", Download[s][2] + (i - 1)>>
    BY <1>3, SentRows DEF Place
  <2>2. Rows(s)[i].at = <<"ee", 0>>
    BY <1>1, <2>1, SentPlaces DEF InEE
  <2> QED
    BY <1>2, <2>1, <2>2
<1>5. Len(Download[s][3]) = 1
  <2>1. Len(Download[s][3]) \in 1 .. Len(Download[s][3])
    BY <1>2
  <2> QED
    BY <1>4, <2>1
<1>6. ASSUME NEW t \in DOMAIN Download, s < t PROVE FALSE
  <2>1. 1 \in 1 .. Len(Download[s][3]) /\ 1 \in 1 .. Len(Download[t][3])
    BY <1>2, Segments
  <2>2. Below(Rows(s)[1].at, Rows(t)[1].at) /\ Rows(s)[1].at = <<"ee", 0>>
    BY <1>4, <1>6, <2>1, RowsGoUp
  <2>3. Rows(t)[1].at \in Cells /\ Rows(t)[1].at # FlagRow
    BY <2>1, SentRows, SentPlaces
  <2>4. InEE(Rows(t)[1].at)
    BY <2>2 DEF Below, InEE
  <2>5. Rows(t)[1].at = <<"ee", 0>>
    BY <1>1, <2>3, <2>4
  <2> QED
    BY <2>2, <2>5 DEF Below
<1>7. s = Len(Download)
  BY <1>6, Segments
<1> QED
  BY <1>5, <1>7

LEMMA SegmentCells == ASSUME NEW s \in DOMAIN Download
                      PROVE  SegmentAt(s) \in Cells /\ SegmentAt(s) # FlagRow
<1>1. 1 \in 1 .. Len(Download[s][3])
  BY Segments
<1>2. Rows(s)[1] \in Sent /\ Rows(s)[1].at = Place(s, 1 - 1)
  BY <1>1, SentRows
<1>3. 1 - 1 = 0
  OBVIOUS
<1> QED
  BY <1>2, <1>3, SentPlaces, FirstPlace

-----------------------------------------------------------------------------
(* What is meant.                                                           *)

LEMMA Added == ASSUME NEW S, NEW x PROVE x \in S \cup {x}
OBVIOUS

LEMMA FlagIsMeant == FlagRow \in Meant
BY Added, Zenon DEF Meant

LEMMA TargetIsMeant == ASSUME NEW c \in Cells, c \in Targets PROVE c \in Meant
<1>1. PICK e \in Sent : e.at = c
  BY DEF Targets
<1>2. CASE c[1] = "prog"
  <2>1. PICK r \in 0 .. ProgRows - 1 : c = <<"prog", r>>
    BY <1>2 DEF Cells, FlagRow
  <2>2. c[2] = r
    BY <2>1
  <2>3. c \in Block(c)
    BY <2>1, <2>2 DEF Block
  <2> QED
    BY <1>1, <1>2, <2>3 DEF Meant
<1>3. CASE c[1] # "prog"
  BY <1>1, <1>3 DEF Meant
<1> QED
  BY <1>2, <1>3

LEMMA BlockIsMeant ==
  ASSUME NEW c \in Targets, c[1] = "prog" PROVE Block(c) \subseteq Meant
<1>1. PICK e \in Sent : e.at = c
  BY DEF Targets
<1> QED
  BY <1>1 DEF Meant

-----------------------------------------------------------------------------
(* Where the loader may write.                                              *)

Unlocked == WRT_UNLCK \in ctlBits
Pending == IF rx.kind = "data" /\ pc = "wait" THEN 1 ELSE 0

\* The address is where k rows of segment s have been taken from the tool, which has sent
\* as many and the one that is pending.  It may be past the end of the memory after the last.
At(s, k) ==
  /\ addr = (IF Place(s, k) \in Cells THEN Place(s, k) ELSE Nowhere)
  /\ k + Pending <= Len(Download[s][3])
  /\ tool = "data" => s = seg /\ k + Pending <= pos - 1
OnTrack == \E s \in DOMAIN Download, k \in Nat : At(s, k)

FrameInv ==
  /\ rx.kind \in {"none", "control", "data"}
  /\ rx.kind = "data" => rx.row \in SUBSET Bits
  /\ pc # "wait" => rx.kind = "data"
ToolInv ==
  /\ seg \in DOMAIN Download /\ pos \in DOMAIN Download[seg][3]
  /\ lost \in Nat /\ mem \in [Cells -> SUBSET Bits]

\* As long as no address was lost, a loader that is unlocked or has started the download is
\* where the tool believes it to be, or behind; after a loss of power it is anywhere, but
\* locked.
TrackInv ==
  ~astray =>
    /\ rx.kind = "control" =>
         \E s \in DOMAIN Download : rx.addr = SegmentAt(s) /\ (tool = "data" => s = seg)
    /\ rx.kind # "control" /\ (Unlocked \/ intact) => OnTrack
    /\ pc # "wait" /\ Unlocked => ptr \in Targets /\ (pc = "erase" => ptr[1] = "prog")

BootInv == FrameInv /\ ToolInv /\ TrackInv

LEMMA LockKept == WRT_UNLCK \notin BOOTCTL
  BY DEF WRT_UNLCK, BOOTCTL, AUTO_ERASE, AUTO_INC

LEMMA InvInit == Init => BootInv
<1> SUFFICES ASSUME Init PROVE BootInv
  OBVIOUS
<1>1. pc = "wait" /\ rx.kind = "none" /\ addr = Nowhere /\ lost = 0 /\ seg = 1 /\ pos = 1
  BY DEF Init, NoFrame
<1>2. mem \in [Cells -> SUBSET Bits]
  <2>1. PICK old \in Old : mem = [c \in Cells |-> IF c = FlagRow THEN Bits ELSE old]
    BY DEF Init
  <2>2. old \in SUBSET Bits
    BY BootAssumption DEF BootAssumption
  <2> QED
    BY <2>1, <2>2
<1>3. FrameInv /\ ToolInv
  BY <1>1, <1>2, Segments DEF FrameInv, ToolInv
<1>4. TrackInv
  BY <1>1, LockKept DEF Init, TrackInv, Unlocked
<1> QED
  BY <1>3, <1>4 DEF BootInv

-----------------------------------------------------------------------------
(* What the steps do to the variables that the invariant speaks of.         *)

Commands == NOP \/ RstChksm \/ ChkRun \/ BootTest \/ ResetCmd
LEMMA CommandStep ==
  ASSUME Commands
  PROVE  /\ pc = "wait" /\ rx.kind = "control" /\ addr' = rx.addr
         /\ pc' = "wait" /\ rx' = NoFrame
         /\ UNCHANGED <<toolVars, astray, lost>>
         /\ mem' = mem \/ mem' = [mem EXCEPT ![FlagRow] = {}]
<1>1. CASE NOP
  BY <1>1 DEF NOP, Command, ControlReg, CANMain
<1>2. CASE RstChksm
  BY <1>2 DEF RstChksm, Cleared, Command, ControlReg, CANMain
<1>3. CASE ChkRun
  BY <1>3 DEF ChkRun, Verdict, Command, ControlReg, CANMain
<1>4. CASE BootTest
  BY <1>4 DEF BootTest, Command, ControlReg, CANMain
<1>5. CASE ResetCmd
  BY <1>5 DEF ResetCmd, ControlReg, CANInit, Boots
<1> QED
  BY <1>1, <1>2, <1>3, <1>4, <1>5 DEF Commands

RowWrites == PMWrite \/ CFGWrite \/ EEWrite
LEMMA WriteStep ==
  ASSUME RowWrites, rx.row \in SUBSET Bits, mem \in [Cells -> SUBSET Bits]
  PROVE  /\ pc # "wait" /\ pc' = "wait" /\ rx' = NoFrame
         /\ UNCHANGED <<toolVars, astray, intact, lost, addr, ptr, ctlBits>>
         /\ \/ mem' = mem
            \/ Unlocked /\ \E row \in SUBSET Bits : mem' = [mem EXCEPT ![ptr] = row]
<1>1. \A region : Writes(region) =>
        pc = region /\ pc' = "wait" /\ rx' = NoFrame
        /\ UNCHANGED <<toolVars, astray, intact, lost, addr, ptr, ctlBits>>
  BY DEF Writes, CANMain, ctlRegs
<1>2. \A row : Stored(row) => mem' = mem \/ (Unlocked /\ mem' = [mem EXCEPT ![ptr] = row])
  BY DEF Stored, StartWrite, Unlocked
<1>3. CASE PMWrite
  <2>1. mem[ptr] \cap rx.row \in SUBSET Bits
    OBVIOUS
  <2> QED
    BY <1>1, <1>2, <1>3, <2>1 DEF PMWrite
<1>4. CASE CFGWrite
  BY <1>1, <1>2, <1>4 DEF CFGWrite
<1>5. CASE EEWrite
  BY <1>1, <1>2, <1>5 DEF EEWrite
<1> QED
  BY <1>3, <1>4, <1>5 DEF RowWrites

LEMMA EraseStep ==
  ASSUME PMErase
  PROVE  /\ pc = "erase" /\ pc' = "write"
         /\ UNCHANGED <<rx, toolVars, astray, intact, lost, addr, ptr, ctlBits>>
         /\ \/ mem' = mem
            \/ Unlocked /\ mem' = [c \in Cells |-> IF c \in Block(ptr) THEN Bits ELSE mem[c]]
  BY DEF PMErase, StartWrite, Unlocked, ctlRegs, history

LEMMA DataStep ==
  ASSUME DataReg
  PROVE  /\ pc = "wait" /\ rx.kind = "data" /\ ptr' = addr
         /\ addr' = addr \/ addr' = Advance(addr)
         /\ UNCHANGED <<toolVars, astray, intact, lost, mem, ctlBits>>
         /\ \/ addr = Nowhere /\ pc' = "wait" /\ rx' = NoFrame
            \/ /\ addr # Nowhere /\ UNCHANGED rx
               /\ \/ pc' = addr[1] /\ addr[1] # "prog"
                  \/ pc' \in {"erase", "write"} /\ addr[1] = "prog"
<1>1. /\ pc = "wait" /\ rx.kind = "data" /\ ptr' = addr
      /\ UNCHANGED <<toolVars, astray, intact, lost, mem, ctlBits>>
      /\ addr' = addr \/ addr' = Advance(addr)
  BY DEF DataReg, history
<1>2. CASE addr = Nowhere
  BY <1>1, <1>2 DEF DataReg, CANMain
<1>3. CASE addr # Nowhere
  BY <1>1, <1>3 DEF DataReg
<1> QED
  BY <1>1, <1>2, <1>3

LEMMA PowerStep ==
  ASSUME PowerLoss
  PROVE  /\ pc' = "wait" /\ rx' = NoFrame /\ ctlBits' = BOOTCTL /\ intact' = FALSE
         /\ UNCHANGED <<toolVars, astray, lost, mem>>
  BY DEF PowerLoss, CANInit, Boots

LEMMA ControlFrame ==
  ASSUME NEW s \in DOMAIN Download, NEW cmd, NEW sum
  PROVE  /\ Control(s, cmd, sum).kind = "control" /\ Control(s, cmd, sum).addr = SegmentAt(s)
         /\ Locked(cmd).kind = "control" /\ Locked(cmd).addr = SegmentAt(1)
  BY DEF Control, Locked

\* The tool changes nothing of the loader but its receive buffer.
LEMMA ToolLeaves ==
  ASSUME Tool
  PROVE  UNCHANGED <<mem, addr, ctlBits, ptr, pc, intact>>
  BY DEF Tool, ToolTest, ToolBegin, ToolData, ToolSegment, ToolCheck, ToolReset, ToolAnswer,
         ToolTimeout, Tools, ctlRegs

\* What it sends to a loader that is ready, or nothing.
LEMMA ToolWaits ==
  ASSUME ToolAnswer \/ ToolTimeout
  PROVE  tool' # "data" /\ UNCHANGED <<rx, seg, pos, astray, lost>>
  BY DEF ToolAnswer, ToolTimeout, Tools

LEMMA ToolCalls ==
  ASSUME ToolTest \/ ToolReset
  PROVE  /\ tool' # "data" /\ UNCHANGED <<seg, pos, astray, lost>> /\ pc = "wait"
         /\ rx'.kind = "control" /\ rx'.addr = SegmentAt(1)
<1>1. CASE ToolTest
  BY <1>1, ControlFrame, Segments DEF ToolTest, Tools, Calmly, Idle
<1>2. CASE ToolReset
  BY <1>2, ControlFrame, Segments DEF ToolReset, Tools, Calmly, Idle
<1> QED
  BY <1>1, <1>2

LEMMA ToolBegins ==
  ASSUME ToolBegin
  PROVE  /\ tool' = "data" /\ seg' = 1 /\ pos' = 1 /\ lost' = lost /\ pc = "wait"
         /\ rx'.kind = "control" /\ rx'.addr = SegmentAt(1)
  BY ControlFrame, Segments DEF ToolBegin, Tools, Idle

LEMMA Sends ==
  ASSUME NEW f, Send(f)
  PROVE  \/ pc = "wait" /\ rx = NoFrame /\ rx' = f /\ lost' = lost
         \/ rx' = rx /\ lost' = lost + 1
  BY DEF Send, Idle

LEMMA ToolChecks ==
  ASSUME ToolCheck
  PROVE  /\ tool' = "await" /\ UNCHANGED <<seg, pos, astray>>
         /\ \/ pc = "wait" /\ rx'.kind = "control" /\ rx'.addr = SegmentAt(1) /\ lost' = lost
            \/ rx' = rx /\ lost' = lost + 1
  BY Sends, ControlFrame, Segments DEF ToolCheck, Tools

LEMMA ToolAddresses ==
  ASSUME ToolSegment, ToolInv
  PROVE  /\ tool' = "data" /\ UNCHANGED <<seg, pos>>
         /\ \/ /\ pc = "wait" /\ rx'.kind = "control" /\ rx'.addr = SegmentAt(seg)
               /\ lost' = lost
            \/ rx' = rx /\ lost' = lost + 1 /\ astray'
<1>1. tool' = "data" /\ UNCHANGED <<seg, pos>> /\ astray' = (astray \/ lost' # lost)
  BY DEF ToolSegment, Tools
<1>2. PICK f : Send(f) /\ f.kind = "control" /\ f.addr = SegmentAt(seg)
  BY ControlFrame DEF ToolSegment, ToolInv
<1>3. lost + 1 # lost
  BY DEF ToolInv
<1> QED
  BY <1>1, <1>2, <1>3, Sends DEF ToolInv

LEMMA ToolRows ==
  ASSUME ToolData, ToolInv
  PROVE  /\ tool = "data" /\ UNCHANGED astray
         /\ \/ /\ pos < Len(Download[seg][3]) /\ pos' = pos + 1 /\ seg' = seg
            \/ /\ pos = Len(Download[seg][3]) /\ pos' = 1 /\ tool' # "data"
               /\ seg' \in DOMAIN Download
         /\ \/ /\ pc = "wait" /\ rx = NoFrame /\ lost' = lost
               /\ rx'.kind = "data" /\ rx'.row \in SUBSET Bits
            \/ rx' = rx /\ lost' = lost + 1
<1>1. pos \in 1 .. Len(Download[seg][3]) /\ Len(Download[seg][3]) \in Nat
  BY Segments DEF ToolInv
<1>2. Download[seg][3][pos] \in SUBSET Bits
  BY <1>1, Segments DEF ToolInv
<1>3. tool = "data" /\ UNCHANGED astray
  BY DEF ToolData, Tools
<1>4. \/ /\ pos < Len(Download[seg][3]) /\ pos' = pos + 1 /\ seg' = seg
      \/ /\ pos = Len(Download[seg][3]) /\ pos' = 1 /\ tool' # "data"
         /\ seg' \in DOMAIN Download
  <2>1. CASE pos < Len(Download[seg][3])
    BY <2>1 DEF ToolData
  <2>2. CASE ~(pos < Len(Download[seg][3]))
    <3>1. pos = Len(Download[seg][3])
      BY <1>1, <2>2
    <3>2. pos' = 1 /\ tool' # "data" /\ seg' = IF seg < Len(Download) THEN seg + 1 ELSE seg
      BY <2>2 DEF ToolData, Tools
    <3>3. seg' \in DOMAIN Download
      BY <3>2, Segments DEF ToolInv
    <3> QED
      BY <3>1, <3>2, <3>3
  <2> QED
    BY <2>1, <2>2
<1>5. Send([kind |-> "data", row |-> Download[seg][3][pos]])
  BY DEF ToolData
<1> QED
  BY <1>2, <1>3, <1>4, <1>5, Sends

-----------------------------------------------------------------------------
(* The invariant.                                                           *)

LEMMA FrameStep == ASSUME BootInv, [Next]_vars PROVE FrameInv' /\ ToolInv'
<1>0. FrameInv /\ ToolInv
  BY DEF BootInv
<1>1. CASE Commands
  <2>1. mem' \in [Cells -> SUBSET Bits]
    BY <1>0, <1>1, CommandStep DEF ToolInv
  <2> QED
    BY <1>0, <1>1, <2>1, CommandStep DEF FrameInv, ToolInv, NoFrame, toolVars
<1>2. CASE DataReg
  BY <1>0, <1>2, DataStep DEF FrameInv, ToolInv, NoFrame, toolVars
<1>3. CASE PMErase
  <2>1. mem' \in [Cells -> SUBSET Bits]
    BY <1>0, <1>3, EraseStep DEF ToolInv
  <2> QED
    BY <1>0, <1>3, <2>1, EraseStep DEF FrameInv, ToolInv, toolVars
<1>4. CASE RowWrites
  <2>1. rx.kind = "data"
    BY <1>0, <1>4 DEF RowWrites, PMWrite, CFGWrite, EEWrite, Writes, FrameInv
  <2>2. rx.row \in SUBSET Bits /\ mem \in [Cells -> SUBSET Bits]
    BY <1>0, <2>1 DEF FrameInv, ToolInv
  <2>3. mem' \in [Cells -> SUBSET Bits]
    BY <1>4, <2>2, WriteStep
  <2> QED
    BY <1>0, <1>4, <2>2, <2>3, WriteStep DEF FrameInv, ToolInv, NoFrame, toolVars
<1>5. CASE Tool
  <2>1. UNCHANGED <<mem, pc>>
    BY <1>5, ToolLeaves
  <2>2. CASE ToolAnswer \/ ToolTimeout
    BY <1>0, <2>1, <2>2, ToolWaits DEF FrameInv, ToolInv
  <2>3. CASE ToolTest \/ ToolReset
    BY <1>0, <2>1, <2>3, ToolCalls DEF FrameInv, ToolInv
  <2>4. CASE ToolBegin
    BY <1>0, <2>1, <2>4, ToolBegins, Segments DEF FrameInv, ToolInv
  <2>5. CASE ToolCheck
    BY <1>0, <2>1, <2>5, ToolChecks DEF FrameInv, ToolInv
  <2>6. CASE ToolSegment
    BY <1>0, <2>1, <2>6, ToolAddresses DEF FrameInv, ToolInv
  <2>7. CASE ToolData
    <3>1. lost' \in Nat
      BY <1>0, <2>7, ToolRows DEF ToolInv
    <3>2. seg' \in DOMAIN Download /\ pos' \in DOMAIN Download[seg'][3]
      <4>1. pos \in 1 .. Len(Download[seg][3])
        BY <1>0, Segments DEF ToolInv
      <4>2. CASE pos < Len(Download[seg][3]) /\ pos' = pos + 1 /\ seg' = seg
        BY <1>0, <4>1, <4>2, Segments DEF ToolInv
      <4>3. CASE pos' = 1 /\ seg' \in DOMAIN Download
        BY <4>3, Segments
      <4> QED
        BY <1>0, <2>7, <4>2, <4>3, ToolRows
    <3>3. FrameInv'
      BY <1>0, <2>1, <2>7, ToolRows DEF FrameInv
    <3> QED
      BY <1>0, <2>1, <3>1, <3>2, <3>3 DEF ToolInv
  <2> QED
    BY <1>5, <2>2, <2>3, <2>4, <2>5, <2>6, <2>7 DEF Tool
<1>6. CASE PowerLoss
  BY <1>0, <1>6, PowerStep DEF FrameInv, ToolInv, NoFrame, toolVars
<1>7. CASE Done \/ UNCHANGED vars
  BY <1>0, <1>7 DEF Done, vars, FrameInv, ToolInv, toolVars, history
<1> QED
  BY <1>1, <1>2, <1>3, <1>4, <1>5, <1>6, <1>7 DEF Next, Loader, Commands, RowWrites

LEMMA ToolTrack == ASSUME FrameInv, ToolInv, TrackInv, Tool PROVE TrackInv'
<1>1. UNCHANGED <<addr, ctlBits, ptr, pc, intact>>
  BY ToolLeaves
<1>2. ASSUME rx' = rx, tool' # "data" \/ (tool = "data" /\ seg' = seg /\ pos' = pos + 1),
             astray' = astray
      PROVE  TrackInv'
  <2>1. pos \in Nat
    BY Segments DEF ToolInv
  <2>2. \A s \in DOMAIN Download, k \in Nat : At(s, k) => At(s, k)'
    <3> SUFFICES ASSUME NEW s \in DOMAIN Download, NEW k \in Nat, At(s, k) PROVE At(s, k)'
      OBVIOUS
    <3>1. Pending' = Pending /\ Pending \in Nat
      BY <1>1, <1>2 DEF Pending
    <3> QED
      BY <1>1, <1>2, <2>1, <3>1 DEF At, Place
  <2>3. OnTrack => OnTrack'
    BY <1>1, <2>2 DEF OnTrack
  <2> QED
    BY <1>1, <1>2, <2>3 DEF TrackInv, Unlocked
<1>3. ASSUME NEW s \in DOMAIN Download, pc = "wait", rx'.kind = "control", rx'.addr = SegmentAt(s),
             tool' = "data" => s = seg'
      PROVE  TrackInv'
  BY <1>1, <1>3 DEF TrackInv, SegmentAt
<1>4. CASE ToolAnswer \/ ToolTimeout
  BY <1>2, <1>4, ToolWaits
<1>5. CASE ToolTest \/ ToolReset
  BY <1>3, <1>5, ToolCalls, Segments
<1>6. CASE ToolBegin
  BY <1>3, <1>6, ToolBegins, Segments
<1>7. CASE ToolCheck
  BY <1>2, <1>3, <1>7, ToolChecks, Segments
<1>8. CASE ToolSegment
  <2>1. CASE astray'
    BY <2>1 DEF TrackInv
  <2>2. CASE ~astray'
    BY <1>3, <1>8, <2>2, ToolAddresses DEF ToolInv
  <2> QED
    BY <2>1, <2>2
<1>9. CASE ToolData
  <2>1. CASE rx' = rx
    BY <1>2, <1>9, <2>1, ToolRows
  <2>2. CASE rx = NoFrame /\ pc = "wait" /\ rx'.kind = "data"
    <3> SUFFICES ASSUME ~astray, Unlocked \/ intact PROVE OnTrack'
      BY <1>1, <1>9, <2>2, ToolRows DEF TrackInv, Unlocked
    <3>1. OnTrack /\ Pending = 0 /\ Pending' = 1
      BY <1>1, <2>2 DEF TrackInv, Pending, NoFrame
    <3>2. PICK s \in DOMAIN Download, k \in Nat : At(s, k)
      BY <3>1 DEF OnTrack
    <3>3. s = seg /\ k <= pos - 1
      BY <1>9, <3>1, <3>2, ToolRows DEF At
    <3>4. pos \in Nat /\ pos <= Len(Download[seg][3]) /\ Len(Download[seg][3]) \in Nat
      BY Segments DEF ToolInv
    <3>5. k + 1 <= Len(Download[s][3]) /\ (tool' = "data" => s = seg' /\ k + 1 <= pos' - 1)
      BY <1>9, <3>3, <3>4, ToolRows
    <3>6. At(s, k)'
      BY <1>1, <3>1, <3>2, <3>5 DEF At, Place
    <3> QED
      BY <3>6 DEF OnTrack
  <2> QED
    BY <1>9, <2>1, <2>2, ToolRows
<1> QED
  BY <1>4, <1>5, <1>6, <1>7, <1>8, <1>9 DEF Tool

LEMMA TrackStep == ASSUME BootInv, [Next]_vars PROVE TrackInv'
<1>0. FrameInv /\ ToolInv /\ TrackInv
  BY DEF BootInv
<1>1. CASE Commands
  <2>1. pc' = "wait" /\ rx'.kind = "none" /\ addr' = rx.addr /\ rx.kind = "control"
        /\ UNCHANGED <<tool, seg, pos, astray>>
    BY <1>1, CommandStep DEF NoFrame, toolVars
  <2>2. ASSUME ~astray PROVE OnTrack'
    <3>1. PICK s \in DOMAIN Download : rx.addr = SegmentAt(s) /\ (tool = "data" => s = seg)
      BY <1>0, <2>1, <2>2 DEF TrackInv
    <3>2. addr' = Place(s, 0) /\ Place(s, 0) \in Cells
      BY <2>1, <3>1, FirstPlace, SegmentCells
    <3>3. Pending' = 0
      BY <2>1 DEF Pending
    <3>4. pos \in Nat /\ pos >= 1
      BY <1>0, Segments DEF ToolInv
    <3>5. At(s, 0)'
      BY <2>1, <3>1, <3>2, <3>3, <3>4, Segments DEF At, Place
    <3> QED
      BY <3>5 DEF OnTrack
  <2> QED
    BY <2>1, <2>2 DEF TrackInv
<1>2. CASE DataReg
  <2>1. /\ pc = "wait" /\ rx.kind = "data" /\ ptr' = addr
        /\ addr' = addr \/ addr' = Advance(addr)
        /\ UNCHANGED <<tool, seg, pos, astray, intact, ctlBits>>
        /\ \/ addr = Nowhere /\ pc' = "wait" /\ rx' = NoFrame
           \/ /\ addr # Nowhere /\ UNCHANGED rx
              /\ \/ pc' = addr[1] /\ addr[1] # "prog"
                 \/ pc' \in {"erase", "write"} /\ addr[1] = "prog"
    BY <1>2, DataStep DEF toolVars
  <2>2. Pending = 1
    BY <2>1 DEF Pending
  <2>3. rx'.kind # "control"
    BY <2>1 DEF NoFrame
  <2> SUFFICES ASSUME ~astray, Unlocked \/ intact
               PROVE  OnTrack' /\ (pc' # "wait" => ptr' \in Targets /\ (pc' = "erase" => ptr'[1] = "prog"))
    BY <2>1, <2>3 DEF TrackInv, Unlocked
  <2>4. PICK s \in DOMAIN Download, k \in Nat : At(s, k)
    BY <1>0, <2>1 DEF TrackInv, OnTrack
  <2>5. k + 1 <= Len(Download[s][3]) /\ (tool = "data" => s = seg /\ k + 1 <= pos - 1)
    BY <2>2, <2>4 DEF At
  <2>6. addr = Place(s, k) /\ addr \in Targets /\ addr \in Cells
    <3>1. Place(s, k) \in Targets
      BY <2>5, PlaceIsTarget
    <3>2. Place(s, k) \in Cells
      BY <3>1, SentPlaces DEF Targets
    <3> QED
      BY <2>4, <3>1, <3>2 DEF At
  <2>7. addr[1] \in {"prog", "conf", "ee"} /\ addr # Nowhere
    <3>1. Download[s] \in {"prog", "conf", "ee"} \X Nat \X Seq(SUBSET Bits)
      BY Kinds
    <3> QED
      BY <2>6, <3>1 DEF Place, Nowhere
  <2>8. Pending' = 0 /\ pos \in Nat /\ Len(Download[s][3]) \in Nat
    BY <1>0, <2>1, <2>7, Segments DEF Pending, ToolInv
  <2>9. addr' = Place(s, k) \/ addr' = IF Place(s, k + 1) \in Cells THEN Place(s, k + 1) ELSE Nowhere
    BY <2>1, <2>6, NextPlace
  <2>10. Place(s, k)' = Place(s, k) /\ Place(s, k + 1)' = Place(s, k + 1)
    BY DEF Place
  <2>11. At(s, k)' \/ At(s, k + 1)'
    BY <2>1, <2>5, <2>6, <2>8, <2>9, <2>10 DEF At
  <2>12. OnTrack'
    BY <2>11 DEF OnTrack
  <2> QED
    BY <2>1, <2>6, <2>7, <2>12
<1>3. CASE PMErase
  <2>1. /\ pc = "erase" /\ pc' = "write"
        /\ UNCHANGED <<rx, tool, seg, pos, astray, intact, addr, ptr, ctlBits>>
    BY <1>3, EraseStep DEF toolVars
  <2> QED
    BY <1>0, <2>1 DEF TrackInv, OnTrack, At, Pending, Place, Unlocked
<1>4. CASE RowWrites
  <2>1. pc # "wait" /\ rx.kind = "data"
    BY <1>0, <1>4 DEF RowWrites, PMWrite, CFGWrite, EEWrite, Writes, FrameInv
  <2>2. rx.row \in SUBSET Bits /\ mem \in [Cells -> SUBSET Bits]
    BY <1>0, <2>1 DEF FrameInv, ToolInv
  <2>3. pc' = "wait" /\ rx'.kind = "none"
        /\ UNCHANGED <<tool, seg, pos, astray, intact, addr, ctlBits>>
    BY <1>4, <2>2, WriteStep DEF toolVars, NoFrame
  <2>4. Pending = 0 /\ Pending' = 0
    BY <2>1, <2>3 DEF Pending
  <2>5. OnTrack => OnTrack'
    BY <2>3, <2>4 DEF OnTrack, At, Place
  <2> QED
    BY <1>0, <2>1, <2>3, <2>5 DEF TrackInv, Unlocked
<1>5. CASE Tool
  BY <1>0, <1>5, ToolTrack
<1>6. CASE PowerLoss
  BY <1>6, PowerStep, LockKept DEF TrackInv, Unlocked, NoFrame
<1>7. CASE Done \/ UNCHANGED vars
  BY <1>0, <1>7 DEF Done, vars, TrackInv, OnTrack, At, Pending, Place, Unlocked, toolVars, history, ctlRegs
<1> QED
  BY <1>1, <1>2, <1>3, <1>4, <1>5, <1>6, <1>7 DEF Next, Loader, Commands, RowWrites

LEMMA KeptStep ==
  ASSUME BootInv, [Next]_vars
  PROVE  [astray \/ \A c \in Cells \ Meant : mem'[c] = mem[c]]_vars
<1> SUFFICES ASSUME ~astray, NEW c \in Cells, c \notin Meant
             PROVE  mem'[c] = mem[c]
  OBVIOUS
<1>0. /\ mem \in [Cells -> SUBSET Bits] /\ (rx.kind = "data" => rx.row \in SUBSET Bits)
      /\ pc # "wait" => rx.kind = "data"
      /\ pc # "wait" /\ Unlocked => ptr \in Targets /\ (pc = "erase" => ptr[1] = "prog")
  BY DEF BootInv, FrameInv, ToolInv, TrackInv
<1>1. CASE Commands
  <2>1. c # FlagRow
    BY FlagIsMeant
  <2> QED
    BY <1>0, <1>1, <2>1, CommandStep
<1>2. CASE DataReg
  BY <1>2, DataStep
<1>3. CASE PMErase
  <2>1. CASE mem' = mem
    BY <2>1
  <2>2. CASE Unlocked /\ mem' = [d \in Cells |-> IF d \in Block(ptr) THEN Bits ELSE mem[d]]
    <3>1. ptr \in Targets /\ ptr[1] = "prog"
      BY <1>0, <1>3, <2>2, EraseStep
    <3>2. c \notin Block(ptr)
      BY <3>1, BlockIsMeant
    <3> QED
      BY <2>2, <3>2
  <2> QED
    BY <1>3, <2>1, <2>2, EraseStep
<1>4. CASE RowWrites
  <2>1. pc # "wait"
    BY <1>4 DEF RowWrites, PMWrite, CFGWrite, EEWrite, Writes
  <2>2. CASE mem' = mem
    BY <2>2
  <2>3. CASE Unlocked /\ \E row \in SUBSET Bits : mem' = [mem EXCEPT ![ptr] = row]
    <3>1. c # ptr
      BY <1>0, <2>1, <2>3, TargetIsMeant
    <3> QED
      BY <1>0, <2>3, <3>1
  <2> QED
    BY <1>0, <1>4, <2>1, <2>2, <2>3, WriteStep
<1>5. CASE Tool
  BY <1>5, ToolLeaves
<1>6. CASE PowerLoss
  BY <1>6, PowerStep
<1>7. CASE Done \/ UNCHANGED vars
  BY <1>7 DEF Done, vars
<1> QED
  BY <1>1, <1>2, <1>3, <1>4, <1>5, <1>6, <1>7 DEF Next, Loader, Commands, RowWrites

\* Nothing but the rows of the download, the blocks they share and the boot flag is ever
\* written, unless an address was lost: a loader that lost its power is locked, and one
\* that lost data frames is behind the tool, never ahead of it (_DataReg, _StartWrite).
THEOREM OthersAlwaysKept == Spec => OthersKept
<1>1. BootInv /\ [Next]_vars => BootInv'
  BY FrameStep, TrackStep DEF BootInv
<1>2. BootInv /\ [Next]_vars => [astray \/ \A c \in Cells \ Meant : mem'[c] = mem[c]]_vars
  BY KeptStep
<1> QED
  BY <1>1, <1>2, InvInit, PTL DEF Spec, OthersKept

-----------------------------------------------------------------------------
(* The conversation: which frame is on its way, and who waits for whom.     *)

Waiting == pc = "wait" /\ rx = NoFrame
Tells(cmd) == rx.kind = "control" /\ rx.full /\ rx.cmd = cmd
Sending == {"data", "segment", "check", "await"}
Repeats == {"NOP", "RST_CHKSM"}
Commanded == {"NOP", "RST_CHKSM", "CHK_RUN", "BOOT_TEST", "RESET"}

\* What the tool sends: a full control frame has a command of this list, a short one repeats
\* the command before it, which is harmless while rows are sent.
ShapeInv ==
  /\ rx.kind = "control" =>
       /\ pc = "wait" /\ rx.full \in BOOLEAN /\ \E s \in DOMAIN Download : rx.addr = SegmentAt(s)
       /\ rx.full => /\ rx.bits \in {BOOTCTL, BOOTCTL \cup {WRT_UNLCK}} /\ rx.cmd \in Commanded
                     /\ rx.chk = IF rx.cmd = "CHK_RUN" THEN Complement ELSE 0
       /\ ~rx.full => tool \in Sending /\ spcCmd \in Repeats
  /\ rx.kind = "data" => tool \in Sending /\ spcCmd \in Repeats
  /\ spcCmd \in Commanded \ {"RESET"}
  /\ ctlBits \in {BOOTCTL, BOOTCTL \cup {WRT_UNLCK}}

\* A command is on its way only in the state that sends it, and an answer is the one to the
\* question that was asked last.
TalkInv ==
  /\ tool \in {"test", "asked", "start", "reset"} \cup Sending
  /\ tool \in {"start", "reset"} => Waiting
  /\ tool = "test" => Waiting \/ Tells("RESET")
  /\ tool = "asked" => Waiting \/ Tells("BOOT_TEST")
  /\ Tells("NOP") \/ Tells("RST_CHKSM") => tool \in Sending
  /\ Tells("BOOT_TEST") => tool = "asked"
  /\ Tells("RESET") => tool = "test"
  /\ Tells("CHK_RUN") => tool = "await" /\ ans = None
  /\ ans # None => Waiting /\ tool \in {"asked", "await"}
  /\ ans = "ok" => tool = "await"
  /\ tool \in {"data", "segment", "check"} /\ ~Tells("RST_CHKSM") => spcCmd \in Repeats
  /\ tool = "segment" => pos = 1

LEMMA TalkInit == Init => ShapeInv /\ TalkInv
  BY DEF Init, ShapeInv, TalkInv, NoFrame, None, Waiting, Commanded, Sending, Tells

\* What a command has done to the conversation.
LEMMA CommandTalk ==
  ASSUME Commands, ShapeInv
  PROVE  \E cmd \in Commanded :
           /\ mode = "loader" /\ rx.kind = "control" /\ cmd = IF rx.full THEN rx.cmd ELSE spcCmd
           /\ pc' = "wait" /\ rx' = NoFrame /\ addr' = rx.addr
           /\ spcCmd' = IF cmd = "RESET" THEN "NOP" ELSE cmd
           /\ ctlBits' = IF cmd = "RESET" THEN BOOTCTL ELSE IF rx.full THEN rx.bits ELSE ctlBits
           /\ UNCHANGED <<ptr, tool, seg, pos, astray, unseen, lost, shorts, fails, powers>>
           /\ missed' = IF cmd = "RST_CHKSM" THEN Handed ELSE missed
           /\ cmd # "RESET" => UNCHANGED <<mode, mem>>
           /\ cmd \notin {"CHK_RUN", "BOOT_TEST"} => UNCHANGED ans
           /\ cmd \in {"CHK_RUN", "BOOT_TEST"} => ans' \in {"ok", "nok", "boot"}
           /\ ans' = "ok" /\ ans # "ok" => cmd = "CHK_RUN"
<1>1. CASE NOP
  BY <1>1 DEF NOP, Command, ControlReg, CANMain, toolVars, Commanded
<1>2. CASE RstChksm
  BY <1>2 DEF RstChksm, Cleared, Command, ControlReg, CANMain, toolVars, Commanded
<1>3. CASE ChkRun
  BY <1>3 DEF ChkRun, Verdict, CANSend, Command, ControlReg, CANMain, toolVars, Commanded
<1>4. CASE BootTest
  BY <1>4 DEF BootTest, CANSend, Command, ControlReg, CANMain, toolVars, Commanded
<1>5. CASE ResetCmd
  BY <1>5 DEF ResetCmd, ControlReg, CANInit, Boots, toolVars, Commanded
<1> QED
  BY <1>1, <1>2, <1>3, <1>4, <1>5 DEF Commands

LEMMA CommandTalks == ASSUME Commands, ShapeInv, TalkInv PROVE ShapeInv' /\ TalkInv'
<1>1. PICK cmd \in Commanded :
           /\ rx.kind = "control" /\ cmd = IF rx.full THEN rx.cmd ELSE spcCmd
           /\ pc' = "wait" /\ rx' = NoFrame
           /\ spcCmd' = IF cmd = "RESET" THEN "NOP" ELSE cmd
           /\ ctlBits' = IF cmd = "RESET" THEN BOOTCTL ELSE IF rx.full THEN rx.bits ELSE ctlBits
           /\ UNCHANGED <<tool, pos>>
           /\ cmd \notin {"CHK_RUN", "BOOT_TEST"} => UNCHANGED ans
           /\ ans' = "ok" /\ ans # "ok" => cmd = "CHK_RUN"
  BY CommandTalk
<1>2. rx'.kind = "none"
  BY <1>1 DEF NoFrame
<1>3. ShapeInv'
  BY <1>1, <1>2 DEF ShapeInv, Commanded
<1>4. \A c \in Commanded : ~Tells(c)'
  BY <1>2 DEF Tells
<1>5. Waiting'
  BY <1>1 DEF Waiting
<1>6. cmd = "CHK_RUN" => tool = "await"
  BY <1>1 DEF ShapeInv, TalkInv, Tells, Repeats
<1>7. cmd = "BOOT_TEST" => tool = "asked"
  BY <1>1 DEF ShapeInv, TalkInv, Tells, Repeats
<1>8. ans = None
  BY <1>1 DEF TalkInv, Waiting, NoFrame
<1>9. tool \in {"data", "segment", "check"} => cmd \in Repeats
  BY <1>1 DEF ShapeInv, TalkInv, Tells, Repeats, Commanded
<1> QED
  BY <1>1, <1>3, <1>4, <1>5, <1>6, <1>7, <1>8, <1>9 DEF TalkInv, Commanded, Repeats, None
LEMMA RowTalks ==
  ASSUME DataReg \/ PMErase \/ RowWrites, FrameInv, ShapeInv, TalkInv
  PROVE  /\ ShapeInv' /\ TalkInv' /\ rx.kind = "data" /\ tool \in Sending /\ ans = None
         /\ UNCHANGED <<mode, tool, seg, pos, ans, gamble, spcCmd, ctlBits, chk, astray, missed,
                        intact>>
         /\ rx' = rx \/ (rx' = NoFrame /\ pc' = "wait")
<1>1. rx.kind = "data"
  BY DEF DataReg, PMErase, RowWrites, PMWrite, CFGWrite, EEWrite, Writes, FrameInv
<1>2. /\ UNCHANGED <<mode, tool, seg, pos, ans, gamble, spcCmd, ctlBits, chk, astray, missed,
                     intact>>
      /\ rx' = rx \/ (rx' = NoFrame /\ pc' = "wait")
  <2>1. CASE DataReg
    BY <2>1 DEF DataReg, CANMain, toolVars, history
  <2>2. CASE PMErase
    BY <2>2 DEF PMErase, toolVars, history, ctlRegs
  <2>3. CASE RowWrites
    BY <2>3 DEF RowWrites, PMWrite, CFGWrite, EEWrite, Writes, CANMain, toolVars, ctlRegs
  <2> QED
    BY <2>1, <2>2, <2>3
<1>3. rx'.kind # "control"
  BY <1>1, <1>2 DEF NoFrame
<1>4. tool \in Sending /\ spcCmd \in Repeats /\ ans = None
  BY <1>1 DEF ShapeInv, TalkInv, Waiting, NoFrame
<1>5. ShapeInv'
  BY <1>1, <1>2, <1>3, <1>4 DEF ShapeInv
<1>6. TalkInv'
  BY <1>2, <1>3, <1>4 DEF TalkInv, Tells, Sending, Waiting, None
<1> QED
  BY <1>1, <1>2, <1>4, <1>5, <1>6

LEMMA PowerTalks ==
  ASSUME PowerLoss, ShapeInv, TalkInv PROVE ShapeInv' /\ TalkInv' /\ Waiting' /\ ans' = None
<1>1. /\ pc' = "wait" /\ rx' = NoFrame /\ ctlBits' = BOOTCTL /\ spcCmd' = "NOP" /\ ans' = None
      /\ UNCHANGED <<tool, seg, pos>>
  BY DEF PowerLoss, CANInit, Boots, toolVars
<1>2. rx'.kind = "none"
  BY <1>1 DEF NoFrame
<1> QED
  BY <1>1, <1>2 DEF ShapeInv, TalkInv, Tells, Waiting, Commanded, Repeats, None

\* What the tool does to the conversation.
LEMMA ToolKeeps ==
  ASSUME Tool
  PROVE  /\ mode = "loader"
         /\ UNCHANGED <<mode, pc, mem, addr, ctlBits, spcCmd, chk, chksm, errVerify, ptr, intact,
                        gamble, unseen, fails, powers>>
  BY DEF Tool, ToolTest, ToolBegin, ToolData, ToolSegment, ToolCheck, ToolReset, ToolAnswer,
         ToolTimeout, Tools, ctlRegs

LEMMA CallTalks ==
  ASSUME ToolTest \/ ToolBegin \/ ToolReset, ShapeInv, TalkInv
  PROVE  ShapeInv' /\ TalkInv'
<1>1. Tool
  BY DEF Tool
<1>2. pc = "wait" /\ rx = NoFrame
  BY DEF ToolTest, ToolBegin, ToolReset, Calmly, Idle
<1>3. /\ rx'.kind = "control" /\ rx'.full = TRUE /\ rx'.addr = SegmentAt(1) /\ rx'.chk = 0
      /\ rx'.bits \in {BOOTCTL, BOOTCTL \cup {WRT_UNLCK}}
      /\ \/ rx'.cmd = "BOOT_TEST" /\ tool' = "asked" /\ tool = "test" /\ ans' = ans
         \/ rx'.cmd = "RST_CHKSM" /\ tool' = "data" /\ tool = "start" /\ ans' = ans
         \/ rx'.cmd = "RESET" /\ tool' = "test" /\ tool = "reset" /\ ans' = ans
  BY DEF ToolTest, ToolBegin, ToolReset, Calmly, Tools, Locked, Control
<1>4. 1 \in DOMAIN Download
  BY Segments
<1>5. ans = None
  BY <1>3 DEF TalkInv
<1>6. ShapeInv'
  BY <1>1, <1>2, <1>3, <1>4, ToolKeeps DEF ShapeInv, Commanded
<1>7. TalkInv'
  BY <1>3, <1>5 DEF TalkInv, Tells, Sending, None
<1> QED
  BY <1>6, <1>7

LEMMA SendTalks ==
  ASSUME NEW f, Send(f) PROVE rx' = rx \/ (pc = "wait" /\ rx = NoFrame /\ rx' = f)
  BY DEF Send, Idle

LEMMA DataTalks ==
  ASSUME ToolData, ShapeInv, TalkInv, ToolInv
  PROVE  ShapeInv' /\ TalkInv'
<1>1. Tool
  BY DEF Tool
<1>2. /\ tool = "data" /\ tool' \in {"data", "segment", "check"} /\ ans' = ans
      /\ tool' = "segment" => pos' = 1
  BY DEF ToolData, Tools
<1>3. rx' = rx \/ (pc = "wait" /\ rx = NoFrame /\ rx'.kind = "data")
  BY SendTalks DEF ToolData
<1>4. ans = None /\ ans' = None
  BY <1>2 DEF TalkInv
<1>5. CASE rx' = rx
  BY <1>1, <1>2, <1>4, <1>5, ToolKeeps DEF ShapeInv, TalkInv, Tells, Sending, None
<1>6. CASE pc = "wait" /\ rx = NoFrame /\ rx'.kind = "data"
  <2>1. spcCmd \in Repeats
    BY <1>2, <1>6 DEF TalkInv, Tells, NoFrame
  <2> QED
    BY <1>1, <1>2, <1>4, <1>6, <2>1, ToolKeeps DEF ShapeInv, TalkInv, Tells, Sending, None
<1> QED
  BY <1>3, <1>5, <1>6

LEMMA AddressTalks ==
  ASSUME ToolSegment, ShapeInv, TalkInv, ToolInv
  PROVE  /\ ShapeInv' /\ TalkInv' /\ tool = "segment" /\ tool' = "data" /\ ans' = ans
         /\ seg' = seg /\ pos' = pos
         /\ \/ rx' = rx
            \/ /\ rx'.kind = "control" /\ rx'.addr = SegmentAt(seg)
               /\ pc = "wait" /\ rx = NoFrame
<1>1. Tool
  BY DEF Tool
<1>2. tool = "segment" /\ tool' = "data" /\ ans' = ans /\ seg' = seg /\ pos' = pos
  BY DEF ToolSegment, Tools
<1>3. \/ rx' = rx
      \/ /\ pc = "wait" /\ rx = NoFrame /\ rx'.kind = "control" /\ rx'.addr = SegmentAt(seg)
         /\ \/ rx'.full = FALSE
            \/ /\ rx'.full = TRUE /\ rx'.bits = BOOTCTL \cup {WRT_UNLCK}
               /\ rx'.cmd = "NOP" /\ rx'.chk = 0
  BY SendTalks DEF ToolSegment, Control
<1>4. ans = None /\ ans' = None
  BY <1>2 DEF TalkInv
<1>5. CASE rx' = rx
  BY <1>1, <1>2, <1>4, <1>5, ToolKeeps DEF ShapeInv, TalkInv, Tells, Sending, None
<1>6. CASE rx' # rx
  <2>1. spcCmd \in Repeats
    BY <1>2, <1>3, <1>6 DEF TalkInv, Tells, NoFrame
  <2>2. ShapeInv'
    BY <1>1, <1>2, <1>3, <1>6, <2>1, ToolKeeps DEF ShapeInv, Sending, Commanded, ToolInv
  <2>3. TalkInv'
    BY <1>1, <1>2, <1>3, <1>4, <1>6, <2>1, ToolKeeps DEF TalkInv, Tells, Sending, None
  <2> QED
    BY <1>2, <1>3, <2>2, <2>3
<1> QED
  BY <1>2, <1>3, <1>5, <1>6

LEMMA CheckTalks ==
  ASSUME ToolCheck, ShapeInv, TalkInv
  PROVE  /\ ShapeInv' /\ TalkInv' /\ tool = "check" /\ tool' = "await" /\ ans' = ans
         /\ \/ rx' = rx
            \/ /\ rx'.kind = "control" /\ rx'.full = TRUE /\ rx'.addr = SegmentAt(1)
               /\ rx'.cmd = "CHK_RUN" /\ rx'.chk = Complement /\ pc = "wait" /\ rx = NoFrame
<1>1. Tool
  BY DEF Tool
<1>2. tool = "check" /\ tool' = "await" /\ ans' = ans
  BY DEF ToolCheck, Tools
<1>3. \/ rx' = rx
      \/ /\ pc = "wait" /\ rx = NoFrame /\ rx'.kind = "control" /\ rx'.addr = SegmentAt(1)
         /\ rx'.full = TRUE /\ rx'.bits = BOOTCTL \cup {WRT_UNLCK}
         /\ rx'.cmd = "CHK_RUN" /\ rx'.chk = Complement
  BY SendTalks DEF ToolCheck, Control
<1>4. ans = None /\ ans' = None
  BY <1>2 DEF TalkInv
<1>5. 1 \in DOMAIN Download
  BY Segments
<1>6. ShapeInv'
  BY <1>1, <1>2, <1>3, <1>5, ToolKeeps DEF ShapeInv, Sending, Commanded
<1>7. TalkInv'
  BY <1>1, <1>2, <1>3, <1>4, ToolKeeps DEF TalkInv, Tells, Sending, None
<1> QED
  BY <1>2, <1>3, <1>6, <1>7

LEMMA AnswerTalks ==
  ASSUME ToolAnswer \/ ToolTimeout, ShapeInv, TalkInv
  PROVE  /\ ShapeInv' /\ TalkInv' /\ Waiting /\ rx' = rx /\ ans' = None /\ UNCHANGED <<seg, pos>>
         /\ tool' \in {"test", "start", "reset"} /\ (tool' = "reset" => ans = "ok")
<1>1. Tool
  BY DEF Tool
<1>2. /\ Waiting /\ rx' = rx /\ ans' = None /\ UNCHANGED <<seg, pos>>
      /\ tool' \in {"test", "start", "reset"} /\ (tool' = "reset" => ans = "ok")
  BY DEF ToolAnswer, ToolTimeout, Tools, TalkInv, Waiting, Idle
<1>3. rx.kind = "none" /\ Waiting'
  BY <1>1, <1>2, ToolKeeps DEF Waiting, NoFrame
<1> QED
  BY <1>1, <1>2, <1>3, ToolKeeps DEF ShapeInv, TalkInv, Tells, None

LEMMA TalkStep ==
  ASSUME BootInv, ShapeInv, TalkInv, [Next]_vars PROVE ShapeInv' /\ TalkInv'
<1>1. CASE Done \/ UNCHANGED vars
  BY <1>1 DEF Done, vars, ctlRegs, toolVars, ShapeInv, TalkInv, Tells, Waiting
<1> QED
  BY <1>1, CommandTalks, RowTalks, PowerTalks, CallTalks, DataTalks, AddressTalks, CheckTalks,
     AnswerTalks DEF Next, Loader, Tool, Commands, RowWrites, BootInv
-----------------------------------------------------------------------------
(* The types.                                                               *)

Place0 == Cells \cup {Nowhere}
RegInv ==
  /\ mode \in {"app", "loader"} /\ pc \in {"wait", "erase", "write", "conf", "ee"}
  /\ addr \in Place0 /\ ptr \in Place0 /\ (pc # "wait" => ptr \in Cells)
  /\ chk \in 0 .. Modulus - 1 /\ chksm \in 0 .. Modulus - 1
  /\ ans \in {None, "ok", "nok", "boot"} /\ unseen \subseteq Cells /\ missed \subseteq Sent
FlagsInv == errVerify \in BOOLEAN /\ intact \in BOOLEAN /\ astray \in BOOLEAN /\ gamble \in BOOLEAN

LEMMA TypesFollow ==
  ASSUME BootInv, ShapeInv, RegInv, FlagsInv PROVE TypeOK
<1>1. FrameInv /\ ToolInv
  BY DEF BootInv
<1>2. ctlBits \subseteq {AUTO_ERASE, AUTO_INC, WRT_UNLCK}
  BY DEF ShapeInv, BOOTCTL
<1>3. spcCmd \in {"NOP", "RESET", "RST_CHKSM", "CHK_RUN", "BOOT_TEST"}
  BY DEF ShapeInv, Commanded
<1>4. {errVerify, intact, astray, gamble} \subseteq BOOLEAN
  BY Zenon DEF FlagsInv
<1>5. {addr, ptr} \subseteq Cells \cup {Nowhere} /\ {chk, chksm} \subseteq 0 .. Modulus - 1
  BY DEF RegInv, Place0
<1> QED
  BY <1>1, <1>2, <1>3, <1>4, <1>5 DEF TypeOK, RegInv, FrameInv, ToolInv

LEMMA ModulusType ==
  Modulus \in Nat /\ 0 \in 0 .. Modulus - 1 /\ \A n \in 0 .. Modulus - 1 : n \in Nat
  BY ModulusIs

LEMMA Registers ==
  ASSUME NEW n \in Nat PROVE n % Modulus \in 0 .. Modulus - 1
<1>1. Modulus \in Nat \ {0}
  BY ModulusIs
<1>2. PICK m \in Nat \ {0} : m = Modulus
  BY <1>1
<1> QED
  BY <1>2, Division

\* Adding the check to a sum whose lower byte does not become 0 leaves the upper byte.
LEMMA HighByteKept ==
  ASSUME NEW a \in 0 .. Modulus - 1, NEW b \in Nat
  PROVE  (a \div Byte) * Byte + ((a + b) % Byte) \in 0 .. Modulus - 1
<1>1. PICK m \in Nat \ {0} : m = Byte /\ Modulus = m * m
  BY BootAssumption DEF BootAssumption
<1>2. a \in Nat
  BY ModulusType
<1>3. PICK q \in Nat, t \in 0 .. m - 1 : q = a \div m /\ a = m * q + t
  BY <1>2, Division
<1>4. PICK u \in 0 .. m - 1 : u = (a + b) % m
  BY <1>2, a + b \in Nat, Division
<1>5. q < m
  <2> SUFFICES ASSUME ~(q < m) PROVE FALSE
    OBVIOUS
  <2>1. q >= m
    BY <1>3
  <2>2. PICK d \in Nat : q = m + d
    BY <1>3, <2>1, q - m \in Nat
  <2>3. m * q = m * m + m * d /\ m * d \in Nat /\ m * m \in Nat
    BY <2>2
  <2>4. a >= m * m
    BY <1>2, <1>3, <2>3
  <2> QED
    BY <1>1, <1>2, <2>3, <2>4
<1>6. m * q + m <= m * m
  BY <1>5, Multiples
<1>7. q * m = m * q /\ m * q \in Nat /\ m * m \in Nat
  OBVIOUS
<1>8. m * q + u \in 0 .. m * m - 1
  BY <1>4, <1>6, <1>7
<1> QED
  BY <1>1, <1>3, <1>4, <1>7, <1>8

LEMMA ComplementType == Complement \in 0 .. Modulus - 1
<1>1. Sent \in SUBSET Sent /\ Modulus \in Nat
  BY ModulusIs
<1>2. Modulus - SumOf(Sent) \in Nat
  BY <1>1, SumOfType
<1> QED
  BY <1>2, Registers DEF Complement

LEMMA TypesInit == Init => RegInv /\ FlagsInv
<1>1. 0 \in 0 .. Modulus - 1
  BY ModulusType
<1> QED
  BY <1>1 DEF Init, RegInv, FlagsInv, Place0, None

LEMMA HandedSent == Handed \subseteq Sent
  BY DEF Handed

LEMMA CommandTypes ==
  ASSUME Commands, ShapeInv, RegInv, FlagsInv PROVE RegInv' /\ FlagsInv'
<1>1. /\ rx.kind = "control" /\ pc' = "wait" /\ addr' = rx.addr
      /\ UNCHANGED <<ptr, unseen, astray>> /\ missed' \in {missed, Handed}
  BY CommandTalk
<1>2. addr' \in Place0
  BY <1>1, SegmentCells DEF ShapeInv, Place0
<1>3. chk' \in 0 .. Modulus - 1
  <2>1. chk' = IF rx.full THEN rx.chk ELSE chk
    BY DEF Commands, NOP, RstChksm, ChkRun, Verdict, BootTest, ResetCmd, Command, ControlReg
  <2>2. rx.full => rx.chk \in 0 .. Modulus - 1
    BY <1>1, ComplementType, ModulusType DEF ShapeInv
  <2> QED
    BY <2>1, <2>2 DEF RegInv
<1>4. mode' \in {"app", "loader"} /\ chksm' \in 0 .. Modulus - 1
      /\ ans' \in {None, "ok", "nok", "boot"}
  <2>1. CASE NOP \/ RstChksm \/ BootTest
    <3>1. mode' = mode /\ chksm' \in {chksm, 0} /\ ans' \in {ans, "boot"}
      BY <2>1 DEF NOP, RstChksm, Cleared, BootTest, Command, CANSend
    <3> QED
      BY <3>1, ModulusType DEF RegInv
  <2>2. CASE ChkRun
    <3>1. /\ chksm' = IF (chksm + chk') % Byte = 0 THEN (chksm + chk') % Modulus
                      ELSE (chksm \div Byte) * Byte + ((chksm + chk') % Byte)
          /\ mode' = mode /\ ans' \in {"ok", "nok"}
      BY <2>2 DEF ChkRun, Verdict, Command, CANSend
    <3>2. PICK a \in Nat, b \in Nat : a = chksm /\ b = chk'
      BY <1>3, ModulusType DEF RegInv
    <3>3. (a + b) % Modulus \in 0 .. Modulus - 1
      BY Registers
    <3>4. (a \div Byte) * Byte + ((a + b) % Byte) \in 0 .. Modulus - 1
      BY <3>2, HighByteKept DEF RegInv
    <3>5. chksm' \in 0 .. Modulus - 1
      BY <3>1, <3>2, <3>3, <3>4
    <3> QED
      BY <3>1, <3>5 DEF RegInv
  <2>3. CASE ResetCmd
    BY <2>3 DEF ResetCmd, CANInit, Boots, RegInv
  <2> QED
    BY <2>1, <2>2, <2>3 DEF Commands
<1>5. FlagsInv'
  <2>1. errVerify' \in BOOLEAN /\ intact' \in BOOLEAN /\ gamble' \in BOOLEAN
    BY Zenon DEF Commands, NOP, RstChksm, Cleared, BootTest, ChkRun, Verdict, ResetCmd, FlagsInv
  <2> QED
    BY <1>1, <2>1 DEF FlagsInv
<1>6. missed' \subseteq Sent
  BY <1>1, HandedSent DEF RegInv
<1> QED
  BY <1>1, <1>2, <1>3, <1>4, <1>5, <1>6 DEF RegInv

LEMMA RowTypes ==
  ASSUME DataReg \/ PMErase \/ RowWrites, BootInv, RegInv, FlagsInv PROVE RegInv' /\ FlagsInv'
<1>1. FrameInv
  BY DEF BootInv
<1>2. CASE DataReg
  <2>1. \A a \in Place0 : Advance(a) \in Place0
    BY DEF Advance, Place0
  <2>2. /\ ptr' = addr /\ addr' \in Place0 /\ UNCHANGED <<mode, chk, chksm, errVerify, ans>>
        /\ UNCHANGED <<unseen, intact, astray, missed, gamble>>
    BY <1>2, <2>1 DEF DataReg, RegInv, history
  <2>3. CASE addr = Nowhere
    BY <1>2, <2>2, <2>3 DEF DataReg, CANMain, RegInv, FlagsInv
  <2>4. CASE addr # Nowhere
    <3>1. addr \in Cells
      BY <2>4 DEF RegInv, Place0
    <3>2. pc' \in {"erase", "write", "conf", "ee"}
      BY <1>2, <2>4, <3>1, CellParts DEF DataReg
    <3> QED
      BY <2>2, <3>1, <3>2 DEF RegInv, FlagsInv
  <2> QED
    BY <2>3, <2>4
<1>3. CASE PMErase
  BY <1>3 DEF PMErase, history, ctlRegs, RegInv, FlagsInv
<1>4. CASE RowWrites
  <2>1. /\ pc # "wait" /\ pc' = "wait" /\ UNCHANGED <<mode, chk, addr, ptr, ans>>
        /\ UNCHANGED <<intact, astray, missed, gamble>> /\ Sum
    BY <1>4 DEF RowWrites, PMWrite, CFGWrite, EEWrite, Writes, CANMain, ctlRegs
  <2>2. rx.row \in SUBSET Bits
    BY <1>1, <2>1 DEF FrameInv
  <2>3. chksm' \in 0 .. Modulus - 1
    <3>1. chksm + RowSum(rx.row) \in Nat
      BY <2>2, RowSumType, ModulusType DEF RegInv
    <3> QED
      BY <2>1, <3>1, Registers DEF Sum
  <2>4. unseen' \subseteq Cells
    BY <1>4, <2>1 DEF RowWrites, PMWrite, CFGWrite, EEWrite, RegInv
  <2>5. errVerify' \in BOOLEAN
    BY <1>4, Zenon DEF RowWrites, PMWrite, CFGWrite, EEWrite, FlagsInv, Verify
  <2> QED
    BY <2>1, <2>3, <2>4, <2>5 DEF RegInv, FlagsInv
<1> QED
  BY <1>2, <1>3, <1>4

LEMMA PowerTypes == ASSUME PowerLoss, RegInv, FlagsInv PROVE RegInv' /\ FlagsInv'
<1>1. 0 \in 0 .. Modulus - 1
  BY ModulusType
<1>2. RegInv'
  BY <1>1 DEF PowerLoss, CANInit, Boots, RegInv, Place0, None
<1>3. FlagsInv'
  BY Zenon DEF PowerLoss, FlagsInv
<1> QED
  BY <1>2, <1>3

LEMMA ToolTypes == ASSUME Tool, ShapeInv, TalkInv, ToolInv, RegInv, FlagsInv PROVE RegInv' /\ FlagsInv'
<1>1. ans' \in {None, "ok", "nok", "boot"}
  <2>1. ans' = ans \/ ans' = None
    BY DEF Tool, ToolTest, ToolBegin, ToolData, ToolSegment, ToolCheck, ToolReset, ToolAnswer,
           ToolTimeout, Calmly
  <2> QED
    BY <2>1 DEF RegInv
<1>2. astray' \in BOOLEAN
  BY Zenon DEF Tool, ToolTest, ToolBegin, ToolData, ToolSegment, ToolCheck, ToolReset, ToolAnswer,
           ToolTimeout, Calmly, FlagsInv
<1>3. missed' \subseteq Sent
  <2>1. Rows(seg)[pos] \in Sent
    <3>1. seg \in DOMAIN Download /\ pos \in 1 .. Len(Download[seg][3])
      BY Segments DEF ToolInv
    <3> QED
      BY <3>1, SentRows
  <2>2. missed' = missed \/ missed' = {} \/ missed' = missed \cup {Rows(seg)[pos]}
    BY DEF Tool, ToolTest, ToolBegin, ToolData, ToolSegment, ToolCheck, ToolReset, ToolAnswer,
           ToolTimeout, Calmly
  <2> QED
    BY <2>1, <2>2 DEF RegInv
<1> QED
  BY <1>1, <1>2, <1>3, ToolKeeps DEF RegInv, FlagsInv

LEMMA TypesStep ==
  ASSUME BootInv, ShapeInv, TalkInv, RegInv, FlagsInv, [Next]_vars PROVE RegInv' /\ FlagsInv'
<1>1. CASE Done \/ UNCHANGED vars
  BY <1>1 DEF Done, vars, ctlRegs, history, RegInv, FlagsInv
<1> QED
  BY <1>1, CommandTypes, RowTypes, PowerTypes, ToolTypes
     DEF Next, Loader, Commands, RowWrites, BootInv
-----------------------------------------------------------------------------
(* The boot flag.                                                           *)

\* An unlocked loader whose address is in EEPROM has the last segment of the download, which
\* is one row: it will not get another one before it gets an address.
FlagInv ==
  /\ mode = "loader" => mem[FlagRow] = Bits
  /\ rx.kind = "control" /\ InEE(rx.addr) =>
       tool # "segment" /\ (tool = "data" => InEE(SegmentAt(seg)))
  /\ rx.kind # "control" /\ Unlocked /\ InEE(addr) =>
       /\ tool # "segment"
       /\ tool = "data" => InEE(SegmentAt(seg)) /\ rx.kind # "data" /\ addr # FlagRow
       /\ rx.kind = "data" /\ pc = "wait" => addr # FlagRow
  /\ pc # "wait" /\ Unlocked => ptr # FlagRow
  /\ pc = "erase" => ptr[1] = "prog" /\ ptr[2] % EraseRows = 0

LEMMA FlagInit == Init => FlagInv
<1> SUFFICES ASSUME Init PROVE FlagInv
  OBVIOUS
<1>1. mem[FlagRow] = Bits
  BY SentPlaces DEF Init
<1>2. pc = "wait" /\ rx.kind = "none" /\ ~InEE(addr)
  BY DEF Init, NoFrame, Nowhere, InEE
<1> QED
  BY <1>1, <1>2 DEF FlagInv

LEMMA CommandFlag == ASSUME Commands, ShapeInv, BootInv, FlagInv PROVE FlagInv'
<1>1. /\ mode = "loader" /\ rx.kind = "control" /\ pc' = "wait" /\ rx' = NoFrame /\ addr' = rx.addr
      /\ UNCHANGED <<tool, seg>>
  BY CommandTalk
<1>2. rx'.kind = "none"
  BY <1>1 DEF NoFrame
<1>3. mode' = "loader" => mem'[FlagRow] = Bits
  <2>1. CASE ResetCmd
    BY <2>1 DEF ResetCmd, CANInit, Boots
  <2>2. CASE ~ResetCmd
    BY <2>2 DEF Commands, NOP, RstChksm, ChkRun, Verdict, BootTest, Command, FlagInv
  <2> QED
    BY <2>1, <2>2
<1>4. addr' # FlagRow
  BY <1>1, SegmentCells DEF ShapeInv
<1>5. SegmentAt(seg') = SegmentAt(seg)
  BY <1>1
<1> QED
  BY <1>1, <1>2, <1>3, <1>4, <1>5 DEF FlagInv

LEMMA RowFlag ==
  ASSUME DataReg \/ PMErase \/ RowWrites, BootInv, ShapeInv, TalkInv, RegInv, FlagInv
  PROVE  FlagInv'
<1>1. /\ rx.kind = "data" /\ UNCHANGED <<mode, tool, seg, ctlBits>>
      /\ rx' = rx \/ (rx' = NoFrame /\ pc' = "wait")
  BY RowTalks DEF BootInv
<1>2. rx'.kind # "control" /\ (Unlocked' <=> Unlocked) /\ SegmentAt(seg') = SegmentAt(seg)
  BY <1>1 DEF NoFrame, Unlocked
<1>3. mem \in [Cells -> SUBSET Bits] /\ rx.row \in SUBSET Bits
  BY <1>1 DEF BootInv, FrameInv, ToolInv
<1>4. CASE DataReg
  <2>1. /\ pc = "wait" /\ ptr' = addr /\ mem' = mem /\ (addr' = addr \/ addr' = Advance(addr))
        /\ \/ addr = Nowhere /\ pc' = "wait" /\ rx' = NoFrame
           \/ addr # Nowhere /\ pc' # "wait"
    <3>1. addr # Nowhere => addr[1] \in {"prog", "conf", "ee"}
      BY CellParts DEF RegInv, Place0
    <3> QED
      BY <1>4, <3>1, DataStep
  <2>2. InEE(addr') => InEE(addr)
    <3>1. InEE(Advance(addr)) => InEE(addr)
      BY DEF Advance, InEE, Nowhere
    <3> QED
      BY <2>1, <3>1
  <2>3. pc' = "erase" => addr[1] = "prog" /\ addr[2] % EraseRows = 0
    <3>1. addr # Nowhere => addr[1] \in {"prog", "conf", "ee"}
      BY CellParts DEF RegInv, Place0
    <3> QED
      BY <1>4, <3>1 DEF DataReg, CANMain
  <2>4. Unlocked => addr # FlagRow
    BY <1>1, <2>1 DEF FlagInv, InEE, FlagRow
  <2>5. rx'.kind = "data" => pc' # "wait"
    BY <2>1 DEF NoFrame
  <2>6. Unlocked /\ InEE(addr') => tool # "segment" /\ tool # "data"
    BY <1>1, <2>2 DEF FlagInv
  <2> QED
    BY <1>1, <1>2, <2>1, <2>3, <2>4, <2>5, <2>6 DEF FlagInv
<1>5. CASE PMErase
  <2>1. pc = "erase" /\ pc' = "write" /\ UNCHANGED <<addr, ptr>>
    BY <1>5, EraseStep
  <2>2. mem'[FlagRow] = mem[FlagRow]
    <3>1. FlagRow \notin Block(ptr)
      BY DEF FlagRow, Block
    <3> QED
      BY <1>5, <3>1, EraseStep, SentPlaces
  <2> QED
    BY <1>1, <1>2, <2>1, <2>2 DEF FlagInv
<1>6. CASE RowWrites
  <2>1. pc # "wait" /\ pc' = "wait" /\ rx' = NoFrame /\ UNCHANGED <<addr, ptr>>
    BY <1>3, <1>6, WriteStep
  <2>2. mem'[FlagRow] = mem[FlagRow]
    <3>1. Unlocked => ptr # FlagRow
      BY <2>1 DEF FlagInv
    <3> QED
      BY <1>3, <1>6, <3>1, WriteStep, SentPlaces
  <2>3. rx'.kind = "none"
    BY <2>1 DEF NoFrame
  <2> QED
    BY <1>1, <1>2, <2>1, <2>2, <2>3 DEF FlagInv
<1> QED
  BY <1>4, <1>5, <1>6

LEMMA PowerFlag == ASSUME PowerLoss, FlagInv PROVE FlagInv' /\ mode' = "loader"
<1>1. pc' = "wait" /\ rx' = NoFrame /\ ctlBits' = BOOTCTL /\ mem' = mem /\ mode = "loader"
      /\ mode' = IF mem'[FlagRow] = Bits THEN "loader" ELSE "app"
  BY DEF PowerLoss, CANInit, Boots
<1>2. ~Unlocked' /\ rx'.kind = "none"
  BY <1>1, LockKept DEF Unlocked, NoFrame
<1> QED
  BY <1>1, <1>2 DEF FlagInv

LEMMA ToolFlag ==
  ASSUME Tool, BootInv, ShapeInv, TalkInv, FlagInv PROVE FlagInv'
<1>0. UNCHANGED <<mode, pc, mem, addr, ctlBits, ptr>> /\ (Unlocked' <=> Unlocked)
  BY ToolKeeps DEF Unlocked
<1>1. ToolInv /\ FrameInv
  BY DEF BootInv
<1>2. ASSUME rx' = rx, tool' \notin {"data", "segment"} PROVE FlagInv'
  BY <1>0, <1>2 DEF FlagInv
<1>3. ASSUME rx'.kind = "control", InEE(rx'.addr) => tool' # "segment" /\ (tool' = "data" => InEE(SegmentAt(seg')))
      PROVE  FlagInv'
  BY <1>0, <1>3 DEF FlagInv
<1>4. CASE ToolTest \/ ToolReset
  <2>1. rx'.kind = "control" /\ tool' \in {"asked", "test"}
    BY <1>4, ToolCalls DEF ToolTest, ToolReset, Tools
  <2> QED
    BY <1>3, <2>1
<1>5. CASE ToolBegin
  <2>1. rx'.kind = "control" /\ rx'.addr = SegmentAt(1) /\ tool' = "data" /\ seg' = 1
    BY <1>5, ToolBegins
  <2> QED
    BY <1>3, <2>1
<1>6. CASE ToolAnswer \/ ToolTimeout
  BY <1>2, <1>6, AnswerTalks
<1>7. CASE ToolCheck
  BY <1>2, <1>3, <1>7, CheckTalks
<1>8. CASE ToolSegment
  <2>1. /\ tool = "segment" /\ tool' = "data" /\ seg' = seg
        /\ rx' = rx \/ (rx'.kind = "control" /\ rx'.addr = SegmentAt(seg))
    BY <1>1, <1>8, AddressTalks
  <2>2. CASE rx' = rx
    BY <1>0, <2>1, <2>2 DEF FlagInv
  <2>3. CASE rx'.kind = "control" /\ rx'.addr = SegmentAt(seg)
    <3>1. SegmentAt(seg') = SegmentAt(seg)
      BY <2>1
    <3> QED
      BY <1>3, <2>1, <2>3, <3>1
  <2> QED
    BY <2>1, <2>2, <2>3
<1>9. CASE ToolData
  <2>1. /\ tool = "data"
        /\ rx' = rx \/ (pc = "wait" /\ rx = NoFrame /\ rx'.kind = "data")
    BY <1>9, SendTalks DEF ToolData, Tools
  <2>2. InEE(SegmentAt(seg)) => tool' = "check"
    <3> SUFFICES ASSUME InEE(SegmentAt(seg)) PROVE tool' = "check"
      OBVIOUS
    <3>1. Len(Download[seg][3]) = 1 /\ seg = Len(Download) /\ Len(Download) \in Nat
      BY <1>1, LastIsInEE, Segments DEF ToolInv
    <3>2. pos \in Nat /\ pos >= 1
      BY <1>1, Segments DEF ToolInv
    <3> QED
      BY <1>9, <3>1, <3>2 DEF ToolData, Tools
  <2>3. CASE rx.kind = "control"
    <3>1. rx' = rx
      BY <2>1, <2>3 DEF NoFrame
    <3>2. InEE(rx'.addr) => tool' = "check"
      BY <2>1, <2>2, <2>3, <3>1 DEF FlagInv
    <3> QED
      BY <1>3, <2>3, <3>1, <3>2
  <2>4. CASE rx.kind # "control"
    <3>1. rx'.kind # "control"
      BY <2>1, <2>4
    <3>2. Unlocked /\ InEE(addr) => tool' = "check" /\ addr # FlagRow
      BY <2>1, <2>2, <2>4 DEF FlagInv
    <3> QED
      BY <1>0, <3>1, <3>2 DEF FlagInv
  <2> QED
    BY <2>3, <2>4
<1> QED
  BY <1>4, <1>5, <1>6, <1>7, <1>8, <1>9 DEF Tool

LEMMA FlagStep ==
  ASSUME BootInv, ShapeInv, TalkInv, RegInv, FlagInv, [Next]_vars PROVE FlagInv'
<1>1. CASE Done \/ UNCHANGED vars
  BY <1>1 DEF Done, vars, ctlRegs, toolVars, FlagInv, Unlocked
<1> QED
  BY <1>1, CommandFlag, RowFlag, PowerFlag, ToolFlag DEF Next, Loader, Commands, RowWrites
-----------------------------------------------------------------------------
(* The sum.                                                                 *)

InPlace(e) == errVerify \/ mem[e.at] = e.row \/ e.at \in unseen
RightFor(e) == IF pc = "wait" THEN addr \in {e.at, Nowhere} ELSE ptr = e.at
NextIs == IF rx.kind = "control" THEN pos = 1
          ELSE addr \in {Place(seg, pos - 1 - Pending), Nowhere}

\* The loader has summed the rows of T, and P holds the one it is at; all others it has
\* missed or forgotten.  If there are none, then it knows where it is, and each is in its place or the failure is
\* known.
Tallied(T, P) ==
  /\ T \cup P \subseteq Handed /\ T \cap P = {} /\ chksm = SumOf(T)
  /\ missed = Handed \ (T \cup P)
  /\ IF rx.kind = "data" THEN \E e \in P : P = {e} /\ rx.row = e.row ELSE P = {}
Exact(T, P) ==
  /\ \A e \in T : InPlace(e)
  /\ \A e \in P : RightFor(e) /\ \A d \in T : Below(d.at, e.at)
  /\ tool = "data" => NextIs
Counted(T, P) == Tallied(T, P) /\ (T \cup P = Handed => Exact(T, P))
Counting == tool \in {"data", "segment", "check"} \/ Tells("CHK_RUN")
SumInv ==
  intact /\ ~astray /\ Counting /\ ~Tells("RST_CHKSM") =>
    \E T \in SUBSET Handed, P \in SUBSET Handed : Counted(T, P)

LEMMA SumInit == Init => SumInv
  BY DEF Init, SumInv

LEMMA HandedKept == ASSUME UNCHANGED <<tool, seg, pos>> PROVE Handed' = Handed
  BY DEF Handed, Gone

\* When it waits for the verdict, it has sent all.
LEMMA AllHanded == ASSUME tool \notin {"data", "segment"} PROVE Handed = Sent
<1>1. ASSUME NEW e \in Sent PROVE e \in Handed
  <2>0. PICK s \in DOMAIN Download : e \in {Rows(s)[i] : i \in DOMAIN Rows(s)}
    BY DEF Sent
  <2>1. PICK i \in DOMAIN Rows(s) : e = Rows(s)[i]
    BY <2>0
  <2>2. i \in 1 .. Len(Download[s][3])
    BY <2>1 DEF Rows
  <2> QED
    BY <2>1, <2>2 DEF Handed, Gone
<1> QED
  BY <1>1, HandedSent

\* When none is sent yet, the tool is at the first.
LEMMA NoneHanded ==
  ASSUME ToolInv, tool = "data", Handed = {} PROVE seg = 1 /\ pos = 1
<1>1. 1 \in DOMAIN Download /\ 1 \in 1 .. Len(Download[1][3])
  BY Segments
<1>2. Rows(1)[1] \in Sent
  BY <1>1, SentRows
<1>3. ~Gone(1, 1)
  BY <1>1, <1>2 DEF Handed
<1>4. seg \in Nat /\ seg >= 1 /\ pos \in Nat /\ pos >= 1
  BY Segments DEF ToolInv
<1> QED
  BY <1>3, <1>4 DEF Gone

\* Sending a row.
LEMMA HandedGrows ==
  ASSUME ToolData, ToolInv, NEW n, n = Rows(seg)[pos]
  PROVE  /\ n \in Sent /\ n.at = Place(seg, pos - 1) /\ n.row = Download[seg][3][pos]
         /\ Handed' = Handed \cup {n} /\ n \notin Handed
         /\ \A d \in Handed : Below(d.at, n.at)
<1>1. seg \in DOMAIN Download /\ pos \in 1 .. Len(Download[seg][3])
  BY Segments DEF ToolInv
<1>2. n \in Sent /\ n.at = Place(seg, pos - 1) /\ n.row = Download[seg][3][pos]
  BY <1>1, SentRows
<1>3. tool = "data"
  BY DEF ToolData, Tools
<1>4. \A d \in Handed : Below(d.at, n.at)
  <2> SUFFICES ASSUME NEW d \in Handed PROVE Below(d.at, n.at)
    OBVIOUS
  <2>1. PICK s \in DOMAIN Download :
          \E i \in 1 .. Len(Download[s][3]) : d = Rows(s)[i] /\ Gone(s, i)
    BY DEF Handed
  <2>2. PICK i \in 1 .. Len(Download[s][3]) : d = Rows(s)[i] /\ Gone(s, i)
    BY <2>1
  <2> QED
    BY <1>1, <1>2, <1>3, <2>2, RowsGoUp DEF Gone
<1>5. n \notin Handed
  BY <1>2, <1>4, SentPlaces, BelowDiffers
<1>6. ASSUME NEW s \in DOMAIN Download, NEW i \in 1 .. Len(Download[s][3])
      PROVE  Gone(s, i)' <=> Gone(s, i) \/ (s = seg /\ i = pos)
  <2>1. s \in Nat /\ i \in Nat /\ seg \in Nat /\ pos \in Nat /\ Len(Download) \in Nat
        /\ s <= Len(Download) /\ seg <= Len(Download) /\ i >= 1
    BY <1>1, Segments
  <2>2. CASE pos < Len(Download[seg][3])
    <3>1. tool' = "data" /\ pos' = pos + 1 /\ seg' = seg
      BY <2>2 DEF ToolData, Tools
    <3> QED
      BY <1>3, <2>1, <3>1 DEF Gone
  <2>3. CASE ~(pos < Len(Download[seg][3]))
    <3>1. pos = Len(Download[seg][3]) /\ Len(Download[seg][3]) \in Nat
      BY <1>1, <2>3, Segments
    <3>2. pos' = 1 /\ tool' = IF seg < Len(Download) THEN "segment" ELSE "check"
      BY <2>3 DEF ToolData, Tools
    <3>3. seg' = IF seg < Len(Download) THEN seg + 1 ELSE seg
      BY <2>3 DEF ToolData
    <3>4. s = seg => i <= pos
      BY <3>1
    <3>5. CASE seg < Len(Download)
      BY <1>3, <2>1, <3>2, <3>3, <3>4, <3>5 DEF Gone
    <3>6. CASE ~(seg < Len(Download))
      BY <1>3, <2>1, <3>2, <3>3, <3>4, <3>6 DEF Gone
    <3> QED
      BY <3>5, <3>6
  <2> QED
    BY <2>2, <2>3
<1>7. Handed' = Handed \cup {n}
  <2>1. \A e : e \in Handed' <=> e \in Sent /\ \E s \in DOMAIN Download :
                 \E i \in 1 .. Len(Download[s][3]) : e = Rows(s)[i] /\ Gone(s, i)'
    BY DEF Handed
  <2>2. Handed' \subseteq Handed \cup {n}
    BY <1>6, <2>1 DEF Handed
  <2>3. Handed \subseteq Handed'
    BY <1>6, <2>1 DEF Handed
  <2>4. n \in Handed'
    BY <1>1, <1>2, <1>6, <2>1
  <2> QED
    BY <2>2, <2>3, <2>4
<1> QED
  BY <1>2, <1>4, <1>5, <1>7
\* Where commands are carried out.
LEMMA CommandWhere ==
  ASSUME ShapeInv, TalkInv
  PROVE  /\ ChkRun => tool = "await" /\ rx.full /\ rx.cmd = "CHK_RUN"
         /\ BootTest => tool = "asked"
         /\ ResetCmd => tool = "test" /\ rx.full /\ rx.cmd = "RESET"
         /\ NOP => ~Tells("RST_CHKSM")
<1>1. \A cmd : ControlReg(cmd) => /\ rx.kind = "control" /\ rx.full \in BOOLEAN
                                  /\ cmd = IF rx.full THEN rx.cmd ELSE spcCmd
                                  /\ ~rx.full => spcCmd \in Repeats
  BY DEF ControlReg, ShapeInv
<1>2. ChkRun => ControlReg("CHK_RUN")
  BY DEF ChkRun, Verdict, Command
<1>3. BootTest => ControlReg("BOOT_TEST")
  BY DEF BootTest, Command
<1>4. ResetCmd => ControlReg("RESET")
  BY DEF ResetCmd
<1>5. NOP => ControlReg("NOP")
  BY DEF NOP, Command
<1> QED
  BY <1>1, <1>2, <1>3, <1>4, <1>5 DEF TalkInv, Tells, Repeats

LEMMA CommandSum ==
  ASSUME Commands, BootInv, ShapeInv, TalkInv, SumInv PROVE SumInv'
<1>1. /\ rx.kind = "control" /\ pc' = "wait" /\ rx' = NoFrame /\ addr' = rx.addr
      /\ UNCHANGED <<tool, seg, pos, astray, unseen>>
  BY CommandTalk
<1>2. rx'.kind = "none" /\ Handed' = Handed /\ Pending' = 0
  BY <1>1, HandedKept DEF NoFrame, Pending
<1> SUFFICES ASSUME intact', ~astray', Counting'
             PROVE  \E T \in SUBSET Handed', P \in SUBSET Handed' : Counted(T, P)'
  BY DEF SumInv
<1>3. tool \in {"data", "segment", "check"} /\ ~astray
  BY <1>1, <1>2 DEF Counting, Tells
<1>4. ToolInv /\ TrackInv
  BY DEF BootInv
<1>5. tool = "data" => addr' = Place(seg, 0)
  BY <1>1, <1>3, <1>4, FirstPlace DEF TrackInv
<1>6. tool = "data" /\ pos = 1 => NextIs'
  <2> SUFFICES ASSUME tool = "data", pos = 1 PROVE NextIs'
    OBVIOUS
  <2>1. pos - 1 - 0 = 0
    OBVIOUS
  <2>2. addr' = Place(seg', pos' - 1 - Pending')
    BY <1>1, <1>2, <1>5, <2>1 DEF Place
  <2> QED
    BY <1>2, <2>2 DEF NextIs
<1>7. CASE RstChksm
  <2>1. chksm' = 0 /\ missed' = Handed
    BY <1>7 DEF RstChksm, Cleared
  <2>2. Tallied({}, {})'
    BY <1>2, <2>1, SumOfNone DEF Tallied
  <2>3. Handed = {} => Exact({}, {})'
    BY <1>1, <1>4, <1>6, NoneHanded DEF Exact
  <2>4. Counted({}, {})'
    BY <1>2, <2>2, <2>3 DEF Counted
  <2> QED
    BY <2>4
<1>8. CASE NOP
  <2>1. UNCHANGED <<chksm, errVerify, intact, missed, mem>>
    BY <1>8 DEF NOP, Command
  <2>2. PICK T \in SUBSET Handed, P \in SUBSET Handed : Counted(T, P)
    BY <1>3, <1>8, <2>1, CommandWhere DEF SumInv, Counting
  <2>3. P = {} /\ Tallied(T, P)
    BY <1>1, <2>2 DEF Counted, Tallied
  <2>4. Tallied(T, {})'
    BY <1>2, <2>1, <2>3 DEF Tallied
  <2>5. ASSUME T = Handed PROVE Exact(T, {})'
    <3>1. Exact(T, P)
      BY <2>2, <2>3, <2>5 DEF Counted
    <3>2. \A e \in T : InPlace(e)'
      BY <1>1, <2>1, <3>1 DEF Exact, InPlace
    <3>3. tool = "data" => pos = 1
      BY <1>1, <3>1 DEF Exact, NextIs
    <3> QED
      BY <1>1, <1>6, <3>2, <3>3 DEF Exact
  <2>6. Counted(T, {})'
    BY <1>2, <2>4, <2>5 DEF Counted
  <2> QED
    BY <1>2, <2>6
<1> QED
  BY <1>3, <1>7, <1>8, CommandWhere DEF Commands

LEMMA NextRow ==
  ASSUME NEW s \in DOMAIN Download, NEW k \in Int
  PROVE  Advance(Place(s, k)) \in {Place(s, k + 1), Nowhere}
<1>1. Download[s][2] + k + 1 = Download[s][2] + (k + 1)
  BY Segments
<1>2. <<Place(s, k)[1], Place(s, k)[2] + 1>> = Place(s, k + 1)
  BY <1>1 DEF Place
<1> QED
  BY <1>2 DEF Advance

\* What the loader writes it reads back.
LEMMA ReadBack ==
  ASSUME RowWrites, BootInv, RegInv, FlagsInv, rx.kind = "data"
  PROVE  /\ errVerify' \/ mem'[ptr] = rx.row \/ ptr \in unseen'
         /\ \A c \in Cells : c # ptr => mem'[c] = mem[c] /\ (c \in unseen => c \in unseen')
         /\ errVerify => errVerify'
<1>1. rx.row \in SUBSET Bits /\ mem \in [Cells -> SUBSET Bits]
  BY DEF BootInv, FrameInv, ToolInv
<1>2. \A c \in Cells : c # ptr => mem'[c] = mem[c]
  BY <1>1, WriteStep
<1>3. CASE PMWrite \/ EEWrite
  <2>1. errVerify' = (errVerify \/ mem'[ptr] # rx.row) /\ unseen' = unseen
    BY <1>3 DEF PMWrite, EEWrite, Verify
  <2> QED
    BY <1>2, <2>1
<1>4. CASE CFGWrite
  <2>1. /\ errVerify' = errVerify
        /\ unseen' = IF mem'[ptr] = rx.row THEN unseen \ {ptr} ELSE unseen \cup {ptr}
    BY <1>4 DEF CFGWrite
  <2> QED
    BY <1>2, <2>1
<1> QED
  BY <1>3, <1>4 DEF RowWrites

LEMMA RowSummed ==
  ASSUME DataReg \/ PMErase \/ RowWrites, BootInv, ShapeInv, TalkInv, RegInv, FlagsInv, FlagInv,
         SumInv
  PROVE  SumInv'
<1>1. /\ rx.kind = "data" /\ UNCHANGED <<mode, tool, seg, pos, ctlBits, astray, missed, intact>>
      /\ rx' = rx \/ (rx' = NoFrame /\ pc' = "wait")
  BY RowTalks DEF BootInv
<1>2. rx'.kind # "control" /\ Handed' = Handed /\ ~Tells("RST_CHKSM")
  BY <1>1, HandedKept DEF NoFrame, Tells
<1> SUFFICES ASSUME intact', ~astray', Counting'
             PROVE  \E T \in SUBSET Handed', P \in SUBSET Handed' : Counted(T, P)'
  BY DEF SumInv
<1>3. tool \in {"data", "segment", "check"} /\ ~astray /\ intact
  BY <1>1, <1>2 DEF Counting, Tells
<1>4. PICK T \in SUBSET Handed, P \in SUBSET Handed : Counted(T, P)
  BY <1>2, <1>3 DEF SumInv, Counting
<1>5. Tallied(T, P)
  BY <1>4 DEF Counted
<1>6. PICK e \in P : P = {e} /\ rx.row = e.row
  BY <1>1, <1>5 DEF Tallied
<1>7. e \in Handed /\ e \in Sent /\ e \notin T /\ T \in SUBSET Sent /\ e.at \in Cells
  BY <1>5, <1>6, HandedSent, SentPlaces DEF Tallied
<1>8. \A d \in T : d.at \in Cells
  BY <1>7, SentPlaces
<1>9. ToolInv /\ FrameInv /\ mem \in [Cells -> SUBSET Bits] /\ rx.row \in SUBSET Bits
  BY <1>1 DEF BootInv, ToolInv, FrameInv
<1>10. seg \in DOMAIN Download /\ pos \in Nat
  BY <1>9, Segments DEF ToolInv
<1>11. CASE DataReg
  <2>1. /\ pc = "wait" /\ ptr' = addr /\ UNCHANGED <<mem, chksm, errVerify, unseen>>
        /\ addr' = IF AUTO_INC \in ctlBits THEN Advance(addr) ELSE addr
    BY <1>11 DEF DataReg, history
  <2>2. addr' = Advance(addr)
    BY <2>1 DEF ShapeInv, BOOTCTL
  <2>3. addr # Nowhere
    <3>1. PICK s \in DOMAIN Download, k \in Nat : At(s, k)
      BY <1>1, <1>3 DEF BootInv, TrackInv, OnTrack
    <3>2. k + 1 <= Len(Download[s][3])
      BY <1>1, <2>1, <3>1 DEF At, Pending
    <3>3. Place(s, k) \in Cells
      BY <3>2, PlaceIsTarget, SentPlaces DEF Targets
    <3> QED
      BY <3>1, <3>3, SentPlaces DEF At
  <2>4. QED
    <3>1. rx' = rx /\ pc' # "wait"
      <4>1. addr[1] \in {"prog", "conf", "ee"}
        BY <2>3, CellParts DEF RegInv, Place0
      <4> QED
        BY <1>11, <2>3, <4>1 DEF DataReg
    <3>2. Tallied(T, P)'
      BY <1>1, <1>2, <1>5, <1>6, <2>1, <3>1 DEF Tallied
    <3>3. ASSUME T \cup P = Handed PROVE Exact(T, P)'
      <4>1. Exact(T, P)
        BY <1>4, <3>3 DEF Counted
      <4>2. \A d \in T : InPlace(d)'
        BY <2>1, <4>1 DEF Exact, InPlace
      <4>3. addr = e.at /\ \A d \in T : Below(d.at, e.at)
        BY <1>6, <2>1, <2>3, <4>1 DEF Exact, RightFor
      <4>4. RightFor(e)'
        BY <2>1, <3>1, <4>3 DEF RightFor
      <4>5. tool = "data" => NextIs'
        <5> SUFFICES ASSUME tool = "data" PROVE NextIs'
          OBVIOUS
        <5>1. Pending = 1 /\ Pending' = 0
          BY <1>1, <2>1, <3>1 DEF Pending
        <5>2. addr = Place(seg, pos - 1 - 1)
          BY <1>1, <2>3, <4>1, <5>1 DEF Exact, NextIs
        <5>3. pos - 1 - 1 \in Int /\ pos - 1 - 1 + 1 = pos - 1 - 0
          BY <1>10
        <5>4. addr' \in {Place(seg, pos - 1 - 1 + 1), Nowhere}
          BY <1>10, <2>2, <5>2, <5>3, NextRow
        <5>5. addr' \in {Place(seg', pos' - 1 - Pending'), Nowhere}
          BY <1>1, <5>1, <5>3, <5>4 DEF Place
        <5> QED
          BY <1>2, <5>5 DEF NextIs
      <4> QED
        BY <1>1, <1>6, <4>2, <4>3, <4>4, <4>5 DEF Exact
    <3>4. Counted(T, P)'
      BY <1>2, <3>2, <3>3 DEF Counted
    <3> QED
      BY <1>2, <3>4
<1>12. CASE PMErase
  <2>1. /\ pc = "erase" /\ pc' = "write" /\ UNCHANGED <<rx, addr, ptr, chksm, errVerify, unseen>>
    BY <1>12 DEF PMErase, history, ctlRegs
  <2>2. Tallied(T, P)'
    BY <1>1, <1>2, <1>5, <1>6, <2>1 DEF Tallied
  <2>3. ASSUME T \cup P = Handed PROVE Exact(T, P)'
    <3>1. Exact(T, P)
      BY <1>4, <2>3 DEF Counted
    <3>2. ptr = e.at /\ \A d \in T : Below(d.at, e.at)
      BY <1>6, <2>1, <3>1 DEF Exact, RightFor
    <3>3. ptr[1] = "prog" /\ ptr[2] % EraseRows = 0
      BY <2>1 DEF FlagInv
    <3>4. ASSUME NEW d \in T PROVE mem'[d.at] = mem[d.at]
      <4>1. d.at \notin Block(ptr) /\ d.at \in Cells
        BY <1>7, <1>8, <3>2, <3>3, EraseLeavesBelow
      <4> QED
        BY <1>12, <4>1, EraseStep
    <3>5. \A d \in T : InPlace(d)'
      BY <2>1, <3>1, <3>4 DEF Exact, InPlace
    <3>6. RightFor(e)'
      BY <2>1, <3>2 DEF RightFor
    <3>7. tool = "data" => NextIs'
      BY <1>1, <2>1, <3>1 DEF Exact, NextIs, Pending, Place
    <3> QED
      BY <1>1, <1>6, <3>2, <3>5, <3>6, <3>7 DEF Exact
  <2>4. Counted(T, P)'
    BY <1>2, <2>2, <2>3 DEF Counted
  <2> QED
    BY <1>2, <2>4
<1>13. CASE RowWrites
  <2>1. /\ pc # "wait" /\ pc' = "wait" /\ rx' = NoFrame /\ UNCHANGED <<addr, ptr>>
        /\ chksm' = (chksm + RowSum(rx.row)) % Modulus
    BY <1>13 DEF RowWrites, PMWrite, CFGWrite, EEWrite, Writes, CANMain, Sum, ctlRegs
  <2>2. PICK U : U = T \cup {e}
    OBVIOUS
  <2>3. rx'.kind = "none"
    BY <2>1 DEF NoFrame
  <2>4. chksm' = SumOf(U)
    BY <1>5, <1>6, <1>7, <2>1, <2>2, SumOfAdds DEF Tallied
  <2>5. U \in SUBSET Handed
    BY <1>7, <2>2
  <2>6. Tallied(U, {})'
    BY <1>1, <1>2, <1>5, <1>6, <2>2, <2>3, <2>4, <2>5 DEF Tallied
  <2>7. ASSUME U = Handed PROVE Exact(U, {})'
    <3>1. Exact(T, P)
      BY <1>4, <1>6, <2>2, <2>7 DEF Counted
    <3>2. ptr = e.at /\ \A d \in T : Below(d.at, e.at)
      BY <1>6, <2>1, <3>1 DEF Exact, RightFor
    <3>3. InPlace(e)'
      BY <1>1, <1>6, <1>13, <3>2, ReadBack DEF InPlace
    <3>4. ASSUME NEW d \in T PROVE InPlace(d)'
      <4>1. d.at \in Cells /\ d.at # ptr
        BY <1>7, <1>8, <3>2, BelowDiffers
      <4> QED
        BY <1>1, <1>13, <3>1, <4>1, ReadBack DEF Exact, InPlace
    <3>5. tool = "data" => NextIs'
      <4>1. Pending = 0 /\ Pending' = 0
        BY <2>1, <2>3 DEF Pending
      <4> QED
        BY <1>1, <2>1, <2>3, <3>1, <4>1 DEF Exact, NextIs, Place
    <3> QED
      BY <1>1, <2>2, <3>3, <3>4, <3>5 DEF Exact
  <2>8. Counted(U, {})'
    BY <1>2, <2>6, <2>7 DEF Counted
  <2> QED
    BY <1>2, <2>5, <2>8
<1> QED
  BY <1>11, <1>12, <1>13
LEMMA ToolSum ==
  ASSUME Tool, BootInv, ShapeInv, TalkInv, SumInv PROVE SumInv'
<1>0. /\ UNCHANGED <<pc, mem, addr, chksm, errVerify, ptr, intact, unseen>>
      /\ ToolInv
  BY ToolKeeps DEF BootInv
<1> SUFFICES ASSUME intact', ~astray', Counting', ~Tells("RST_CHKSM")'
             PROVE  \E T \in SUBSET Handed', P \in SUBSET Handed' : Counted(T, P)'
  BY DEF SumInv
<1>1. CASE ToolAnswer \/ ToolTimeout
  BY <1>1, AnswerTalks DEF Counting, Tells, Waiting, NoFrame
<1>2. CASE ToolTest \/ ToolBegin \/ ToolReset
  <2>1. CASE ToolBegin
    BY <2>1 DEF ToolBegin, Control, Tells
  <2>2. CASE ToolTest \/ ToolReset
    <3>1. tool' \in {"asked", "test"} /\ rx' \in {Locked("BOOT_TEST"), Control(1, "RESET", 0)}
      BY <2>2 DEF ToolTest, ToolReset, Tools, Calmly
    <3>2. rx'.cmd \in {"BOOT_TEST", "RESET"}
      BY <3>1 DEF Control, Locked
    <3> QED
      BY <3>1, <3>2 DEF Counting, Tells
  <2> QED
    BY <1>2, <2>1, <2>2
<1>3. ASSUME tool \in {"segment", "check"}, rx = NoFrame, rx'.kind = "control", ~astray,
             Handed' = Handed, missed' = missed, tool' = "data" => pos' = 1
      PROVE  \E T \in SUBSET Handed', P \in SUBSET Handed' : Counted(T, P)'
  <2>1. rx.kind = "none"
    BY <1>3 DEF NoFrame
  <2>2. PICK T \in SUBSET Handed, P \in SUBSET Handed : Counted(T, P)
    BY <1>0, <1>3, <2>1 DEF SumInv, Counting, Tells
  <2>3. P = {} /\ Tallied(T, P)
    BY <2>1, <2>2 DEF Counted, Tallied
  <2>4. Tallied(T, {})'
    BY <1>0, <1>3, <2>3 DEF Tallied
  <2>5. ASSUME T = Handed PROVE Exact(T, {})'
    <3>1. Exact(T, P)
      BY <2>2, <2>3, <2>5 DEF Counted
    <3>2. \A e \in T : InPlace(e)'
      BY <1>0, <3>1 DEF Exact, InPlace
    <3> QED
      BY <1>3, <3>2 DEF Exact, NextIs
  <2>6. Counted(T, {})'
    BY <1>3, <2>4, <2>5 DEF Counted
  <2> QED
    BY <1>3, <2>6
<1>4. CASE ToolSegment
  <2>1. /\ tool = "segment" /\ tool' = "data" /\ seg' = seg /\ pos' = pos
        /\ rx' = rx \/ (rx'.kind = "control" /\ pc = "wait" /\ rx = NoFrame)
    BY <1>0, <1>4, AddressTalks
  <2>2. rx'.kind = "control" /\ rx = NoFrame
    <3>1. lost' = lost
      BY <1>4 DEF ToolSegment
    <3>2. lost + 1 # lost
      BY <1>0 DEF ToolInv
    <3>3. PICK f : Send(f) /\ f.kind = "control"
      BY <1>4 DEF ToolSegment, Control
    <3> QED
      BY <3>1, <3>2, <3>3 DEF Send, Idle
  <2>3. ~astray /\ missed' = missed
    BY <1>4 DEF ToolSegment
  <2>4. Handed' = Handed
    BY <2>1 DEF Handed, Gone
  <2>5. pos' = 1
    BY <2>1 DEF TalkInv
  <2> QED
    BY <1>3, <2>1, <2>2, <2>3, <2>4, <2>5
<1>5. CASE ToolCheck
  <2>1. /\ tool = "check" /\ tool' = "await"
        /\ rx' = rx \/ (rx'.kind = "control" /\ rx = NoFrame)
    BY <1>5, CheckTalks
  <2>2. CASE rx' = rx
    BY <2>1, <2>2 DEF Counting, Tells, TalkInv
  <2>3. CASE rx'.kind = "control" /\ rx = NoFrame
    <3>1. ~astray /\ missed' = missed
      BY <1>5 DEF ToolCheck
    <3>2. Handed' = Handed
      BY <2>1 DEF Handed, Gone
    <3> QED
      BY <1>3, <2>1, <2>3, <3>1, <3>2
  <2> QED
    BY <2>1, <2>2, <2>3
<1>6. CASE ToolData
  <2>1. PICK n : n = Rows(seg)[pos]
    OBVIOUS
  <2>2. /\ n \in Sent /\ n.at = Place(seg, pos - 1) /\ n.row = Download[seg][3][pos]
        /\ Handed' = Handed \cup {n} /\ n \notin Handed /\ \A d \in Handed : Below(d.at, n.at)
    BY <1>0, <1>6, <2>1, HandedGrows
  <2>3. tool = "data" /\ astray' = astray
    BY <1>6 DEF ToolData, Tools
  <2>4. \/ rx' = rx /\ missed' = missed \cup {n}
        \/ /\ pc = "wait" /\ rx = NoFrame /\ rx'.kind = "data"
           /\ rx'.row = Download[seg][3][pos] /\ missed' = missed
    <3>1. PICK f : f = [kind |-> "data", row |-> Download[seg][3][pos]]
      OBVIOUS
    <3>2. \/ pc = "wait" /\ rx = NoFrame /\ rx' = f /\ lost' = lost
          \/ rx' = rx /\ lost' = lost + 1
      BY <1>6, <3>1, Sends DEF ToolData
    <3>3. missed' = IF lost' = lost THEN missed ELSE missed \cup {n}
      BY <1>6, <2>1 DEF ToolData
    <3>4. lost + 1 # lost
      BY <1>0 DEF ToolInv
    <3> QED
      BY <3>1, <3>2, <3>3, <3>4
  <2>5. ~Tells("RST_CHKSM")
    BY <2>4 DEF Tells, NoFrame
  <2>6. PICK T \in SUBSET Handed, P \in SUBSET Handed : Counted(T, P)
    BY <1>0, <2>3, <2>5 DEF SumInv, Counting
  <2>7. Tallied(T, P) /\ (T \cup P = Handed => Exact(T, P))
    BY <2>6 DEF Counted
  <2>8. CASE rx' = rx /\ missed' = missed \cup {n}
    <3>1. Tallied(T, P)'
      BY <1>0, <2>2, <2>7, <2>8 DEF Tallied
    <3>2. T \cup P # Handed'
      BY <2>2
    <3>3. Counted(T, P)'
      BY <3>1, <3>2 DEF Counted
    <3> QED
      BY <2>2, <3>3
  <2>9. CASE /\ pc = "wait" /\ rx = NoFrame /\ rx'.kind = "data"
             /\ rx'.row = Download[seg][3][pos] /\ missed' = missed
    <3>1. rx.kind = "none" /\ Pending = 0 /\ Pending' = 1
      BY <1>0, <2>9 DEF NoFrame, Pending
    <3>2. P = {}
      BY <2>7, <3>1 DEF Tallied
    <3>3. PICK N : N = {n}
      OBVIOUS
    <3>4. Tallied(T, N)'
      <4>1. T \subseteq Handed /\ chksm = SumOf(T) /\ missed = Handed \ T
        BY <2>7, <3>2 DEF Tallied
      <4>2. T \cup N \subseteq Handed' /\ T \cap N = {} /\ missed' = Handed' \ (T \cup N)
        BY <2>2, <2>9, <3>3, <4>1
      <4> QED
        BY <1>0, <2>2, <2>9, <3>3, <4>1, <4>2 DEF Tallied
    <3>5. ASSUME T \cup N = Handed' PROVE Exact(T, N)'
      <4>1. T = Handed
        BY <2>2, <3>3, <3>5
      <4>2. Exact(T, P)
        BY <2>7, <3>2, <4>1
      <4>3. \A d \in T : InPlace(d)'
        BY <1>0, <4>2 DEF Exact, InPlace
      <4>4. pos \in Nat
        BY <1>0, Segments DEF ToolInv
      <4>5. addr \in {Place(seg, pos - 1), Nowhere}
        <5>1. addr \in {Place(seg, pos - 1 - 0), Nowhere}
          BY <2>3, <3>1, <4>2 DEF Exact, NextIs
        <5>2. pos - 1 - 0 = pos - 1
          BY <4>4
        <5> QED
          BY <5>1, <5>2
      <4>6. RightFor(n)'
        BY <1>0, <2>2, <2>9, <4>5 DEF RightFor
      <4>7. tool' = "data" => NextIs'
        <5> SUFFICES ASSUME tool' = "data" PROVE NextIs'
          OBVIOUS
        <5>1. pos' = pos + 1 /\ seg' = seg
          BY <1>6 DEF ToolData, Tools
        <5>2. pos' - 1 - Pending' = pos - 1
          BY <3>1, <4>4, <5>1
        <5>3. addr' = addr /\ rx'.kind # "control"
          BY <1>0, <2>9
        <5> QED
          BY <4>5, <5>1, <5>2, <5>3 DEF NextIs, Place
      <4> QED
        BY <2>2, <3>3, <4>3, <4>6, <4>7 DEF Exact
    <3>6. Counted(T, N)'
      BY <3>4, <3>5 DEF Counted
    <3> QED
      BY <2>2, <3>3, <3>6
  <2> QED
    BY <2>4, <2>8, <2>9
<1> QED
  BY <1>1, <1>2, <1>4, <1>5, <1>6 DEF Tool

LEMMA SumStep ==
  ASSUME BootInv, ShapeInv, TalkInv, RegInv, FlagsInv, FlagInv, SumInv, [Next]_vars PROVE SumInv'
<1>1. CASE PowerLoss
  BY <1>1 DEF PowerLoss, SumInv
<1>2. CASE Done \/ UNCHANGED vars
  <2>1. /\ UNCHANGED <<pc, mem, addr, chksm, errVerify, ptr, intact, unseen, rx, tool, seg, pos>>
        /\ UNCHANGED <<astray, missed>>
    BY <1>2 DEF Done, vars, ctlRegs, toolVars, history
  <2>2. Handed' = Handed /\ Pending' = Pending
    BY <2>1, HandedKept DEF Pending
  <2>3. \A T, P : Counted(T, P) => Counted(T, P)'
    BY <2>1, <2>2 DEF Counted, Tallied, Exact, InPlace, RightFor, NextIs, Place
  <2> QED
    BY <2>1, <2>2, <2>3 DEF SumInv, Counting, Tells
<1> QED
  BY <1>1, <1>2, CommandSum, RowSummed, ToolSum DEF Next, Loader, Commands, RowWrites

-----------------------------------------------------------------------------
(* The verdict.                                                             *)

Trusted == ans = "ok" \/ tool = "reset" \/ Tells("RESET") \/ mode = "app"
VerdictInv ==
  /\ ans = "ok" /\ Assured => Programmed
  /\ ~gamble /\ Trusted => Programmed

LEMMA VerdictInit == Init => VerdictInv
  BY DEF Init, VerdictInv, Trusted, None, NoFrame, Tells

\* OK is said of a download that is all in its place.
LEMMA VerdictIsRight ==
  ASSUME ChkRun, BootInv, ShapeInv, TalkInv, SumInv, FlagsInv, ans' = "ok", Assured
  PROVE  Programmed
<1>1. tool = "await" /\ rx.full /\ rx.cmd = "CHK_RUN" /\ rx.kind = "control"
  BY CommandWhere DEF ChkRun, Verdict, Command, ControlReg
<1>2. Tells("CHK_RUN") /\ ~Tells("RST_CHKSM") /\ rx.chk = Complement
  BY <1>1 DEF Tells, ShapeInv
<1>3. PICK T \in SUBSET Handed, P \in SUBSET Handed : Counted(T, P)
  BY <1>2 DEF SumInv, Counting, Assured
<1>4. P = {} /\ chksm = SumOf(T) /\ T \in SUBSET Sent
  BY <1>1, <1>3, HandedSent DEF Counted, Tallied
<1>5. SumFits /\ ~errVerify
  BY DEF ChkRun, Verdict, CANSend
<1>6. (SumOf(T) + Complement) % Modulus = 0
  BY <1>1, <1>2, <1>4, <1>5 DEF SumFits
<1>7. T = Sent
  <2>1. Handed = Sent
    BY <1>1, AllHanded
  <2>2. missed = Sent \ T
    BY <1>3, <1>4, <2>1 DEF Counted, Tallied
  <2>3. missed = {}
    BY <1>4, <1>6, <2>2, MissingIsNothing DEF Assured, Blind
  <2> QED
    BY <1>4, <2>2, <2>3
<1>8. T = Handed
  BY <1>3, <1>7, HandedSent
<1>9. \A e \in Sent : InPlace(e)
  BY <1>3, <1>4, <1>7, <1>8 DEF Counted, Exact
<1> QED
  BY <1>5, <1>9 DEF InPlace, Programmed

LEMMA VerdictStep ==
  ASSUME BootInv, ShapeInv, TalkInv, RegInv, FlagsInv, FlagInv, SumInv, VerdictInv, [Next]_vars
  PROVE  VerdictInv'
<1>1. ASSUME mem' = mem, unseen' = unseen, Programmed PROVE Programmed'
  BY <1>1 DEF Programmed
<1>2. CASE Commands
  <2>1. /\ mode = "loader" /\ rx.kind = "control" /\ rx' = NoFrame
        /\ UNCHANGED <<tool, unseen, astray>>
    BY <1>2, CommandTalk
  <2>2. ~Tells("RESET")' /\ tool # "reset" /\ ans = None
    BY <2>1 DEF Tells, NoFrame, TalkInv, Waiting
  <2>3. CASE NOP \/ RstChksm \/ BootTest
    BY <2>1, <2>2, <2>3 DEF NOP, RstChksm, BootTest, Command, CANSend, VerdictInv, Trusted, None
  <2>4. CASE ChkRun
    <3>1. /\ mem' = mem /\ mode' = mode /\ UNCHANGED <<intact, missed>>
          /\ ans' = "ok" => gamble' = (gamble \/ ~Assured)
      BY <2>4 DEF ChkRun, Verdict, Command, CANSend
    <3>2. ans' = "ok" /\ Assured => Programmed'
      BY <1>1, <2>1, <2>4, <3>1, VerdictIsRight
    <3>3. ans' = "ok" /\ ~gamble' => Assured
      BY <3>1
    <3>4. Assured' <=> Assured
      BY <2>1, <3>1 DEF Assured, Blind
    <3> QED
      BY <2>1, <2>2, <3>1, <3>2, <3>3, <3>4 DEF VerdictInv, Trusted
  <2>5. CASE ResetCmd
    <3>1. Tells("RESET") /\ UNCHANGED <<ans, gamble, intact>>
      BY <2>1, <2>5, CommandWhere DEF ResetCmd, Tells
    <3>2. ~gamble' => Programmed
      BY <3>1 DEF VerdictInv, Trusted
    <3>3. Programmed => Programmed'
      <4>1. mem' = mem \/ mem' = [mem EXCEPT ![FlagRow] = {}]
        BY <1>2, CommandStep
      <4>2. \A e \in Sent : mem'[e.at] = mem[e.at]
        BY <4>1, SentPlaces DEF BootInv, ToolInv
      <4> QED
        BY <2>1, <4>2 DEF Programmed
    <3> QED
      BY <2>2, <3>1, <3>2, <3>3 DEF VerdictInv, None
  <2> QED
    BY <1>2, <2>3, <2>4, <2>5 DEF Commands
<1>3. CASE DataReg \/ PMErase \/ RowWrites
  <2>1. /\ rx.kind = "data" /\ tool \in Sending /\ ans = None
        /\ UNCHANGED <<mode, tool, ans>> /\ rx' \in {rx, NoFrame}
    BY <1>3, RowTalks DEF BootInv
  <2>2. mode = "loader"
    BY <1>3 DEF DataReg, PMErase, RowWrites, PMWrite, CFGWrite, EEWrite, Writes
  <2> QED
    BY <2>1, <2>2 DEF VerdictInv, Trusted, Tells, NoFrame, Sending, None
<1>4. CASE PowerLoss
  <2>1. /\ ans' = None /\ rx'.kind = "none" /\ mode' = "loader" /\ mode = "loader"
        /\ UNCHANGED <<mem, unseen, tool, gamble>>
    BY <1>4, PowerFlag DEF PowerLoss, CANInit, Boots, NoFrame, toolVars
  <2> QED
    BY <1>1, <2>1 DEF VerdictInv, Trusted, Tells, None
<1>5. CASE Tool
  <2>1. UNCHANGED <<mem, unseen, gamble, intact, mode>> /\ mode = "loader"
    BY <1>5, ToolKeeps
  <2>2. CASE ToolAnswer \/ ToolTimeout
    <3>1. /\ ans' = None /\ Waiting /\ rx' = rx /\ (tool' = "reset" => ans = "ok")
      BY <2>2, AnswerTalks
    <3>2. ~Tells("RESET")'
      BY <3>1 DEF Waiting, Tells, NoFrame
    <3> QED
      BY <1>1, <2>1, <3>1, <3>2 DEF VerdictInv, Trusted, None
  <2>3. CASE ToolReset
    <3>1. tool = "reset" /\ ans' = ans /\ ans # "ok" /\ tool' # "reset"
      BY <2>3 DEF ToolReset, Tools, Calmly, TalkInv
    <3> QED
      BY <1>1, <2>1, <3>1 DEF VerdictInv, Trusted
  <2>4. CASE ToolTest \/ ToolBegin \/ ToolData \/ ToolSegment \/ ToolCheck
    <3>1. ans' = ans /\ ans # "ok" /\ tool' # "reset" /\ tool \notin {"reset", "await"}
      BY <2>4 DEF ToolTest, ToolBegin, ToolData, ToolSegment, ToolCheck, Tools, Calmly, TalkInv
    <3>2. ~Tells("RESET")' \/ Tells("RESET")
      <4>1. \A f : Send(f) => rx' = f \/ rx' = rx
        BY SendTalks
      <4> QED
        BY <2>4, <4>1 DEF ToolTest, ToolBegin, ToolData, ToolSegment, ToolCheck, Calmly, Tells,
                          Control, Locked
    <3> QED
      BY <1>1, <2>1, <3>1, <3>2 DEF VerdictInv, Trusted
  <2> QED
    BY <1>5, <2>2, <2>3, <2>4 DEF Tool
<1>6. CASE Done \/ UNCHANGED vars
  BY <1>1, <1>6 DEF Done, vars, ctlRegs, toolVars, history, VerdictInv, Trusted, Tells, Assured, Blind
<1> QED
  BY <1>2, <1>3, <1>4, <1>5, <1>6 DEF Next, Loader, Commands, RowWrites

LoaderInv == /\ BootInv /\ ShapeInv /\ TalkInv /\ RegInv /\ FlagsInv /\ FlagInv
             /\ SumInv /\ VerdictInv

LEMMA LoaderInvHolds == Spec => []LoaderInv
<1>1. Init => LoaderInv
  BY InvInit, TalkInit, TypesInit, FlagInit, SumInit, VerdictInit DEF LoaderInv
<1>2. LoaderInv /\ [Next]_vars => LoaderInv'
  BY FrameStep, TrackStep, TalkStep, TypesStep, FlagStep, SumStep, VerdictStep DEF LoaderInv, BootInv
<1> QED
  BY <1>1, <1>2, PTL DEF Spec

\* OK means that every row is in its place or its failure is one that the code does not look
\* for: the rows that the loader has summed are those it has written, a sum that fits is the
\* sum of all of them, and the error flag knows of each that is not in place (_SpecialCmdJp1,
\* _PMWrite, _EEWrite).
THEOREM OkAlwaysMeansProgrammed == Spec => []OkMeansProgrammed
<1>1. LoaderInv => OkMeansProgrammed
  BY DEF LoaderInv, VerdictInv, OkMeansProgrammed
<1> QED
  BY <1>1, LoaderInvHolds, PTL

\* The application runs only after a download whose OK can be trusted: while the loader runs,
\* no write reaches the boot flag, not even after a lost address, and the reset command comes
\* only after OK (_DataReg, _CANInit).
THEOREM AppIsAlwaysWhole == Spec => []AppIsWhole
<1>1. LoaderInv => AppIsWhole
  BY TypesFollow DEF LoaderInv, VerdictInv, Trusted, AppIsWhole
<1> QED
  BY <1>1, LoaderInvHolds, PTL
=============================================================================
