---------------------------- MODULE KhashProofs -----------------------------
(***************************************************************************)
(* khash for every set of int keys: the triangular probe visits every      *)
(* bucket of a table whose size is a power of two, the bounds leave one of *)
(* them empty, and so a search ends and the table implements the finite    *)
(* map, also while kh_resize moves its entries about in place.             *)
(***************************************************************************)
EXTENDS Khash, CommonLemmas

(* Arithmetic of the probe *)

\* What % and \div are
LEMMA DivMod ==
  ASSUME NEW x \in Int, NEW n \in Nat \ {0}
  PROVE  x % n \in 0 .. n - 1 /\ x = n * (x \div n) + (x % n) /\ x \div n \in Int
  BY SMT

\* m divides x.
Divides(m, x) == \E q \in Int : x = m * q

\* Two numbers with one rest differ by a multiple.
LEMMA SameRest ==
  ASSUME NEW x \in Int, NEW y \in Int, NEW n \in Nat \ {0}, x % n = y % n
  PROVE  Divides(n, x - y)
<1>. DEFINE p == x \div n
            q == y \div n
            r == x % n
<1>1. x = n * p + r /\ y = n * q + r /\ p \in Int /\ q \in Int /\ r \in Int
  BY DivMod, SMT
<1>. HIDE DEF p, q, r
<1>2. x - y = n * (p - q) /\ p - q \in Int
  BY <1>1, SMT
<1>. QED
  BY <1>2, SMT DEF Divides

\* A multiple more leaves the rest as it is.
LEMMA RestOfMore ==
  ASSUME NEW x \in Int, NEW n \in Nat \ {0}, NEW q \in Int
  PROVE  (x + n * q) % n = x % n
<1>. DEFINE y == x + n * q
            p == x \div n
            r == x % n
            s == y \div n
            t == y % n
<1>1. y \in Int
  BY SMT
<1>2. x = n * p + r /\ p \in Int /\ r \in 0 .. n - 1
  BY DivMod, SMT
<1>. HIDE DEF p, r
<1>3. y = x + n * q
  OBVIOUS
<1>. HIDE DEF y
<1>4. y = n * s + t /\ s \in Int /\ t \in 0 .. n - 1
  BY <1>1, DivMod, SMT
<1>. HIDE DEF s, t
<1>. DEFINE d == s - p - q
<1>5. n * d = r - t /\ d \in Int
  BY <1>2, <1>3, <1>4, SMT
<1>. HIDE DEF d
<1>6. d = 0
  <2>1. CASE d >= 1
    <3>1. n * d >= n
      BY <1>5, <2>1, SMT
    <3>. QED
      BY <1>2, <1>4, <1>5, <3>1, SMT
  <2>2. CASE d <= -1
    <3>1. n * d <= -n
      BY <1>5, <2>2, SMT
    <3>. QED
      BY <1>2, <1>4, <1>5, <3>1, SMT
  <2>. QED
    BY <1>5, <2>1, <2>2, SMT
<1>7. t = r
  BY <1>2, <1>4, <1>5, <1>6, SMT
<1>. QED
  BY <1>7, SMT DEF t, r, y

\* An odd factor does not help a power of two.
LEMMA OddFactor ==
  ASSUME NEW a \in Int, NEW c \in Int, a = 2 * c + 1
  PROVE  \A m \in Nat : \A b \in Int : Divides(2 ^ m, a * b) => Divides(2 ^ m, b)
<1>. DEFINE Good(m) == \A b \in Int : Divides(2 ^ m, a * b) => Divides(2 ^ m, b)
            Bad == {m \in Nat : ~Good(m)}
<1>1. SUFFICES ASSUME Bad # {} PROVE FALSE
  OBVIOUS
<1>2. PICK m \in Bad : \A k \in Bad : m <= k
  BY <1>1, LeastMember, Zenon
<1>3. m \in Nat
  OBVIOUS
<1>4. m # 0
  <2>1. ASSUME m = 0 PROVE Good(m)
    <3>1. 2 ^ m = 1
      BY <2>1, PowersOfTwo, Zenon
    <3>2. \A b \in Int : b = 1 * b
      BY SMT
    <3>. QED
      BY <3>1, <3>2, Zenon DEF Divides
  <2>. QED
    BY <2>1
<1>. DEFINE k == m - 1
            P == 2 ^ k
<1>5. k \in Nat /\ k + 1 = m /\ ~(m <= k)
  BY <1>3, <1>4, SMT
<1>6. Good(k)
  BY <1>2, <1>5, Zenon
<1>7. P \in Nat /\ 2 ^ m = P + P
  BY <1>5, PowersOfTwo, Zenon
<1>8. ASSUME NEW b \in Int, Divides(2 ^ m, a * b) PROVE Divides(2 ^ m, b)
  <2>1. PICK q \in Int : a * b = (P + P) * q
    BY <1>7, <1>8, Zenon DEF Divides
  <2>. HIDE DEF P, k
  <2>2. PICK d \in Int : b = 2 * d \/ b = 2 * d + 1
    <3>. DEFINE d == b \div 2
    <3>1. d \in Int /\ (b = 2 * d \/ b = 2 * d + 1)
      BY SMT
    <3>. HIDE DEF d
    <3>. QED
      BY <3>1, SMT
  <2>. DEFINE u == P * q
              w == a * d
  <2>3. u \in Int /\ w \in Int /\ a * b = 2 * u
    BY <1>7, <2>1, SMT
  <2>4. ASSUME b = 2 * d + 1 PROVE FALSE
    <3>1. a * b = 2 * w + a
      BY <2>4, SMT
    <3>. HIDE DEF u, w
    <3>. QED
      BY <2>3, <3>1, SMT
  <2>5. b = 2 * d
    BY <2>2, <2>4, Zenon
  <2>6. a * b = 2 * w
    BY <2>5, SMT
  <2>7. w = u
    <3>. HIDE DEF u, w
    <3>. QED
      BY <2>3, <2>6, SMT
  <2>8. Divides(P, a * d)
    BY <2>7, Zenon DEF Divides
  <2>9. Divides(P, d)
    BY <1>6, <2>8, Zenon DEF P
  <2>10. PICK r \in Int : d = P * r
    BY <2>9, Zenon DEF Divides
  <2>11. b = (P + P) * r
    BY <1>7, <2>5, <2>10, SMT
  <2>. QED
    BY <1>7, <2>11, Zenon DEF Divides
<1>9. Good(m)
  BY <1>8
<1>. QED
  BY <1>2, <1>9, Zenon

\* The distance of the probe after s steps
Tri(s) == (s * (s + 1)) \div 2

\* The division in Tri is exact.
LEMMA TwiceTri ==
  ASSUME NEW s \in Nat PROVE Tri(s) \in Nat /\ 2 * Tri(s) = s * (s + 1)
<1>. DEFINE d == s \div 2
            p == s * (s + 1)
<1>1. d \in Nat /\ (s = 2 * d \/ s = 2 * d + 1)
  BY SMT
<1>2. PICK h \in Nat : p = 2 * h
  <2>. HIDE DEF d
  <2>1. CASE s = 2 * d
    <3>. DEFINE h == d * (s + 1)
    <3>1. h \in Nat /\ p = 2 * h
      BY <1>1, <2>1, SMT
    <3>. HIDE DEF h
    <3>. QED
      BY <3>1, SMT
  <2>2. CASE s = 2 * d + 1
    <3>. DEFINE h == s * (d + 1)
    <3>1. h \in Nat /\ p = 2 * h
      BY <1>1, <2>2, SMT
    <3>. HIDE DEF h
    <3>. QED
      BY <3>1, SMT
  <2>. QED
    BY <1>1, <2>1, <2>2, Zenon
<1>3. Tri(s) = p \div 2
  BY Zenon DEF Tri
<1>. HIDE DEF p
<1>4. Tri(s) = h
  BY <1>2, <1>3, SMT
<1>5. p = s * (s + 1)
  BY DEF p
<1>. QED
  BY <1>2, <1>4, <1>5, SMT

\* What kroundup32 returns
PowerOfTwo == {2 ^ e : e \in Nat}

\* A factor that is odd, or the other one, for every power of two
LEMMA PowerDivides ==
  ASSUME NEW n \in PowerOfTwo, NEW x \in Int, NEW y \in Int, Divides(n, x * y),
         NEW b \in Int, x + y = 2 * b + 1
  PROVE  Divides(n, x) \/ Divides(n, y)
<1>1. PICK m \in Nat : n = 2 ^ m
  BY DEF PowerOfTwo
<1>2. PICK c \in Int : x = 2 * c + 1 \/ y = 2 * c + 1
  <2>. DEFINE c == x \div 2
  <2>1. c \in Int /\ (x = 2 * c \/ x = 2 * c + 1)
    BY SMT
  <2>. HIDE DEF c
  <2>2. CASE x = 2 * c + 1
    BY <2>1, <2>2, SMT
  <2>3. CASE x = 2 * c
    <3>. DEFINE e == b - c
    <3>1. e \in Int /\ y = 2 * e + 1
      BY <2>1, <2>3, SMT
    <3>. HIDE DEF e
    <3>. QED
      BY <3>1, SMT
  <2>. QED
    BY <2>1, <2>2, <2>3, Zenon
<1>3. CASE x = 2 * c + 1
  BY <1>1, <1>3, OddFactor, Zenon
<1>4. CASE y = 2 * c + 1
  <2>1. x * y = y * x
    BY SMT
  <2>2. Divides(n, y * x)
    BY <2>1, Zenon
  <2>. QED
    BY <1>1, <1>4, <2>2, OddFactor, Zenon
<1>. QED
  BY <1>2, <1>3, <1>4, Zenon

\* A multiple of n is no smaller than n.
LEMMA TooSmall ==
  ASSUME NEW n \in Nat, NEW x \in Nat, Divides(n, x), x # 0 PROVE n <= x
<1>1. PICK q \in Int : x = n * q
  BY Zenon DEF Divides
<1>2. q >= 1
  <2>1. ASSUME q <= 0 PROVE n * q <= 0
    BY <2>1, SMT
  <2>. QED
    BY <1>1, <2>1, SMT
<1>3. n * q >= n
  BY <1>2, SMT
<1>. QED
  BY <1>1, <1>3, SMT

\* In a table of 2^e buckets the first n probes are all different.
LEMMA ProbesDiffer ==
  ASSUME NEW n \in PowerOfTwo, NEW key \in Int,
         NEW a \in 0 .. n - 1, NEW b \in 0 .. n - 1, a < b
  PROVE  Probe(key, a, n) # Probe(key, b, n)
<1>1. SUFFICES ASSUME Probe(key, a, n) = Probe(key, b, n) PROVE FALSE
  OBVIOUS
<1>2. PICK m \in Nat : n = 2 ^ m
  BY DEF PowerOfTwo
<1>3. n \in Nat /\ 2 ^ (m + 1) = n + n /\ m + 1 \in Nat
  BY <1>2, PowersOfTwo
<1>4. a \in Nat /\ b \in Nat /\ n \in Nat \ {0}
  BY <1>3, SMT
<1>5. /\ Tri(a) \in Nat /\ 2 * Tri(a) = a * (a + 1)
      /\ Tri(b) \in Nat /\ 2 * Tri(b) = b * (b + 1)
  BY <1>4, TwiceTri, Zenon
<1>. DEFINE u == key + Tri(b)
            w == key + Tri(a)
<1>6. u % n = w % n
  BY <1>1, Zenon DEF Probe, Tri
<1>7. u \in Int /\ w \in Int /\ 2 * (u - w) = b * (b + 1) - a * (a + 1)
  BY <1>5, SMT
<1>. HIDE DEF u, w
<1>8. PICK q \in Int : u - w = n * q
  BY <1>4, <1>6, <1>7, SameRest, Zenon DEF Divides
<1>. DEFINE x == b - a
            y == b + a + 1
<1>9. x * y = b * (b + 1) - a * (a + 1)
  BY <1>4, SMT
<1>10. (n + n) * q = 2 * (n * q)
  BY <1>3, SMT
<1>11. /\ x \in Nat /\ y \in Nat /\ x # 0 /\ y # 0 /\ x + y = 2 * b + 1
       /\ x < n + n /\ y < n + n /\ b \in Int
  BY <1>3, <1>4, SMT
<1>. HIDE DEF x, y
<1>12. x * y = (n + n) * q
  BY <1>7, <1>8, <1>9, <1>10, SMT
<1>13. Divides(n + n, x * y)
  BY <1>12, Zenon DEF Divides
<1>14. n + n \in PowerOfTwo
  BY <1>3, Zenon DEF PowerOfTwo
<1>15. x \in Int /\ y \in Int /\ n + n \in Nat
  BY <1>3, <1>11, SMT
<1>16. Divides(n + n, x) \/ Divides(n + n, y)
  BY <1>11, <1>13, <1>14, <1>15, PowerDivides, Zenon
<1>17. n + n <= x \/ n + n <= y
  BY <1>11, <1>15, <1>16, TooSmall, Zenon
<1>. QED
  BY <1>3, <1>11, <1>17, SMT

\* A probe is a bucket.
LEMMA ProbeType ==
  ASSUME NEW n \in Nat \ {0}, NEW key \in Int, NEW s \in Nat
  PROVE  Probe(key, s, n) \in 0 .. n - 1
<1>1. Tri(s) \in Nat
  BY TwiceTri, Zenon
<1>2. key + Tri(s) \in Int
  BY <1>1, SMT
<1>3. (key + Tri(s)) % n \in 0 .. n - 1
  BY <1>2, DivMod, Zenon
<1>. QED
  BY <1>3, Zenon DEF Probe, Tri

\* After 2n steps the probe is where it began.
LEMMA ProbeReturns ==
  ASSUME NEW n \in Nat \ {0}, NEW key \in Int
  PROVE  Probe(key, 2 * n, n) = Probe(key, 0, n)
<1>. DEFINE m == 2 * n
            q == 2 * n + 1
<1>1. m \in Nat /\ q \in Int /\ 0 \in Nat
  BY SMT
<1>2. 2 * Tri(m) = m * (m + 1) /\ Tri(m) \in Nat /\ 2 * Tri(0) = 0 * (0 + 1) /\ Tri(0) \in Nat
  BY <1>1, TwiceTri, Zenon
<1>3. m * (m + 1) = 2 * (n * q)
  BY SMT
<1>. HIDE DEF q
<1>4. n * q \in Int
  BY <1>1, SMT
<1>5. Tri(m) = n * q /\ Tri(0) = 0
  <2>. DEFINE z == n * q
              l == m * (m + 1)
  <2>1. z \in Int /\ 2 * Tri(m) = l /\ l = 2 * z
    BY <1>2, <1>3, <1>4
  <2>. HIDE DEF z, l
  <2>2. Tri(m) = z
    BY <1>2, <2>1, SMT
  <2>3. Tri(0) = 0
    BY <1>2, SMT
  <2>. QED
    BY <2>2, <2>3 DEF z
<1>6. (key + n * q) % n = key % n
  BY <1>1, RestOfMore, Zenon
<1>7. key + 0 = key
  BY SMT
<1>. QED
  BY <1>5, <1>6, <1>7, Zenon DEF Probe, Tri

\* They meet every bucket.
LEMMA ProbesCover ==
  ASSUME NEW n \in PowerOfTwo, n # 0, NEW key \in Int, NEW x \in 0 .. n - 1
  PROVE  \E s \in 0 .. n - 1 : Probe(key, s, n) = x
<1>. DEFINE B == 0 .. n - 1
            f == [s \in B |-> Probe(key, s, n)]
<1>1. n \in Nat \ {0}
  BY PowersOfTwo DEF PowerOfTwo
<1>2. \A s \in B : s \in Nat
  BY <1>1
<1>3. \A s \in B : Probe(key, s, n) \in B
  BY <1>1, <1>2, ProbeType, Zenon
<1>4. \A s, t \in B : s < t => Probe(key, s, n) # Probe(key, t, n)
  BY ProbesDiffer, Zenon
<1>5. \A s, t \in B : s = t \/ s < t \/ t < s
  BY <1>1
<1>6. IsFiniteSet(B) 
  BY <1>1, FS_Interval
<1>. HIDE DEF B
<1>7. f \in [B -> B] /\ \A s \in B : f[s] = Probe(key, s, n)
  BY <1>3, Zenon
<1>. HIDE DEF f
<1>8. \A s, t \in B : f[s] = f[t] => s = t
  BY <1>4, <1>5, <1>7, Zenon
<1>9. f \in Injection(B, B)
  BY <1>7, <1>8, Zenon DEF Injection, IsInjective
<1>10. f \in Surjection(B, B)
  BY <1>6, <1>9, FS_Injection, Zenon
<1>11. \E s \in B : f[s] = x
  BY <1>10, Zenon DEF Surjection, B
<1>. QED
  BY <1>7, <1>11, Zenon DEF B
-----------------------------------------------------------------------------
(* The sizes of a table *)

\* Min is the least member of a set of naturals.
LEMMA MinOf ==
  ASSUME NEW S \in SUBSET Nat, S # {}
  PROVE  Min(S) \in S /\ \A y \in S : Min(S) <= y
<1>1. \E m \in S : \A y \in S : m <= y
  BY LeastMember, Zenon
<1>. QED
  BY <1>1, Zenon DEF Min

\* Max is a member of a bounded one.
LEMMA MaxOf ==
  ASSUME NEW n \in Nat, NEW S \in SUBSET (0 .. n - 1), S # {}
  PROVE  Max(S) \in S
<1>. DEFINE T == {d \in Nat : n - d \in S}
<1>1. \A s \in S : n - s \in Nat /\ n - (n - s) = s
  BY SMT
<1>2. T # {}
  BY <1>1, Zenon
<1>3. PICK d \in T : \A e \in T : d <= e
  BY <1>2, LeastMember, Zenon
<1>4. ASSUME NEW s \in S PROVE n - d >= s
  <2>1. d <= n - s
    BY <1>1, <1>3, Zenon
  <2>2. n - s \in Nat /\ d \in Nat /\ s \in Nat
    BY <1>1
  <2>. QED
    BY <2>1, <2>2
<1>5. \E m \in S : \A s \in S : m >= s
  BY <1>3, <1>4
<1>. QED
  BY <1>5, Zenon DEF Max

\* Powers of two grow
LEMMA PowerGrows == \A e \in Nat : e + 1 <= 2 ^ e
<1>. DEFINE Bad == {e \in Nat : ~(e + 1 <= 2 ^ e)}
<1>1. SUFFICES ASSUME Bad # {} PROVE FALSE
  OBVIOUS
<1>2. PICK e \in Bad : \A k \in Bad : e <= k
  BY <1>1, LeastMember, Zenon
<1>3. e \in Nat /\ ~(e + 1 <= 2 ^ e)
  OBVIOUS
<1>4. e # 0
  <2>1. 0 + 1 <= 1
    BY SMT
  <2>. QED
    BY <1>3, <2>1, PowersOfTwo, Zenon
<1>. DEFINE k == e - 1
<1>5. k \in Nat /\ k + 1 = e /\ ~(e <= k)
  BY <1>3, <1>4
<1>6. k + 1 <= 2 ^ k
  BY <1>2, <1>5, Zenon
<1>7. 2 ^ k \in Nat /\ 2 ^ e = 2 ^ k + 2 ^ k
  BY <1>5, PowersOfTwo, Zenon
<1>. DEFINE P == 2 ^ k
            Q == 2 ^ e
<1>8. P \in Nat /\ Q = P + P /\ k + 1 <= P /\ ~(e + 1 <= Q)
  BY <1>3, <1>6, <1>7, Zenon
<1>. HIDE DEF P, Q, k
<1>. QED
  BY <1>5, <1>8, SMT

\* Powers of two ascend.
LEMMA PowersAscend == \A e, f \in Nat : 2 ^ e <= 2 ^ (e + f)
<1>. SUFFICES ASSUME NEW e \in Nat PROVE \A f \in Nat : 2 ^ e <= 2 ^ (e + f)
  OBVIOUS
<1>. DEFINE Bad == {f \in Nat : ~(2 ^ e <= 2 ^ (e + f))}
<1>1. SUFFICES ASSUME Bad # {} PROVE FALSE
  OBVIOUS
<1>2. PICK f \in Bad : \A g \in Bad : f <= g
  BY <1>1, LeastMember, Zenon
<1>3. f \in Nat /\ ~(2 ^ e <= 2 ^ (e + f))
  OBVIOUS
<1>4. f # 0
  <2>1. e + 0 = e
    BY SMT
  <2>2. 2 ^ e \in Nat
    BY PowersOfTwo, Zenon
  <2>3. 2 ^ e <= 2 ^ e
    BY <2>2, SMT
  <2>. QED
    BY <1>3, <2>1, <2>3, Zenon
<1>. DEFINE k == f - 1
<1>5. k \in Nat /\ ~(f <= k) /\ e + k \in Nat /\ (e + k) + 1 = e + f
  BY <1>3, <1>4
<1>6. 2 ^ e <= 2 ^ (e + k)
  BY <1>2, <1>5, Zenon
<1>7. 2 ^ e \in Nat /\ 2 ^ (e + k) \in Nat /\ 2 ^ (e + f) = 2 ^ (e + k) + 2 ^ (e + k)
  BY <1>5, PowersOfTwo, Zenon
<1>. DEFINE P == 2 ^ (e + k)
            Q == 2 ^ (e + f)
            R == 2 ^ e
<1>8. R \in Nat /\ P \in Nat /\ Q = P + P /\ R <= P /\ ~(R <= Q)
  BY <1>3, <1>6, <1>7, Zenon
<1>. HIDE DEF P, Q, R
<1>. QED
  BY <1>8, SMT

\* The next power of two is at least twice as large.
LEMMA NextPower ==
  ASSUME NEW a \in PowerOfTwo, NEW b \in PowerOfTwo, a < b
  PROVE  a \in Nat \ {0} /\ b \in Nat /\ 2 * a <= b
<1>1. PICK e \in Nat, g \in Nat : a = 2 ^ e /\ b = 2 ^ g
  BY DEF PowerOfTwo
<1>2. 2 ^ e \in Nat /\ 2 ^ g \in Nat /\ 2 ^ (e + 1) = 2 ^ e + 2 ^ e /\ e + 1 <= 2 ^ e
  BY PowersOfTwo, PowerGrows, Zenon
<1>3. a \in Nat \ {0} /\ b \in Nat
  BY <1>1, <1>2
<1>4. CASE g <= e
  <2>. DEFINE f == e - g
  <2>1. f \in Nat /\ g + f = e
    BY <1>4
  <2>2. 2 ^ g <= 2 ^ (g + f)
    BY <2>1, PowersAscend, Zenon
  <2>3. b <= a
    BY <1>1, <2>1, <2>2, Zenon
  <2>. QED
    BY <1>3, <2>3
<1>5. CASE ~(g <= e)
  <2>. DEFINE f == g - (e + 1)
  <2>1. f \in Nat /\ e + 1 \in Nat /\ (e + 1) + f = g
    BY <1>5
  <2>2. 2 ^ (e + 1) <= 2 ^ ((e + 1) + f)
    BY <2>1, PowersAscend, Zenon
  <2>3. a + a <= b
    BY <1>1, <1>2, <2>1, <2>2, Zenon
  <2>. QED
    BY <1>3, <2>3
<1>. QED
  BY <1>4, <1>5

\* A table with buckets
Sized(n) == n \in PowerOfTwo /\ n \in Nat /\ n >= 4

\* kh_resize makes at least four buckets, and at least as many as it is asked
\* for.
LEMMA RoundedUpSized ==
  ASSUME NEW w \in Nat PROVE Sized(RoundedUp(w)) /\ RoundedUp(w) >= w
<1>0. 4 \in PowerOfTwo
  <2>1. 0 \in Nat /\ 1 \in Nat /\ 2 \in Nat /\ 0 + 1 = 1 /\ 1 + 1 = 2 /\ 2 + 2 = 4
    BY SMT
  <2>2. 2 ^ 1 = 2 /\ 2 ^ 2 = 4
    BY <2>1, PowersOfTwo, Zenon
  <2>. QED
    BY <2>1, <2>2, Zenon DEF PowerOfTwo
<1>1. CASE w = 0
  <2>1. kroundup32(w) = 0
    BY <1>1 DEF kroundup32
  <2>. QED
    BY <1>0, <1>1, <2>1 DEF RoundedUp, Sized
<1>2. CASE w # 0
  <2>. DEFINE S == {2 ^ e : e \in 0 .. w} \ 0 .. w - 1
              m == kroundup32(w)
  <2>1. m = Min(S)
    BY <1>2, Zenon DEF kroundup32
  <2>2. \A s \in S : s \in PowerOfTwo /\ s \in Nat /\ s >= w
    <3>1. ASSUME NEW e \in 0 .. w, 2 ^ e \notin 0 .. w - 1
          PROVE  2 ^ e \in PowerOfTwo /\ 2 ^ e \in Nat /\ 2 ^ e >= w
      <4>1. e \in Nat
        OBVIOUS
      <4>2. 2 ^ e \in PowerOfTwo /\ 2 ^ e \in Nat
        BY <4>1, PowersOfTwo, Zenon DEF PowerOfTwo
      <4>. DEFINE P == 2 ^ e
      <4>3. P \in Nat /\ P \notin 0 .. w - 1
        BY <3>1, <4>2, Zenon
      <4>. HIDE DEF P
      <4>4. P >= w
        BY <4>3, SMT
      <4>. QED
        BY <4>2, <4>4, Zenon DEF P
    <3>. QED
      BY <3>1
  <2>3. S # {}
    <3>1. w \in 0 .. w
      OBVIOUS
    <3>2. w + 1 <= 2 ^ w /\ 2 ^ w \in Nat
      BY PowerGrows, PowersOfTwo, Zenon
    <3>. DEFINE P == 2 ^ w
    <3>3. P \in Nat /\ w + 1 <= P
      BY <3>2, Zenon
    <3>. HIDE DEF P
    <3>4. P \notin 0 .. w - 1
      BY <3>3, SMT
    <3>5. P \in S
      BY <3>1, <3>4, Zenon DEF P
    <3>. QED
      BY <3>5, Zenon
  <2>4. S \in SUBSET Nat
    BY <2>2, Zenon
  <2>5. m \in S
    BY <2>1, <2>3, <2>4, MinOf, Zenon
  <2>6. m \in PowerOfTwo /\ m \in Nat /\ m >= w
    BY <2>2, <2>5, Zenon
  <2>7. RoundedUp(w) = IF m < 4 THEN 4 ELSE m
    BY Zenon DEF RoundedUp
  <2>. HIDE DEF m, S
  <2>8. CASE m < 4
    BY <1>0, <2>6, <2>7, <2>8 DEF Sized
  <2>9. CASE ~(m < 4)
    BY <2>6, <2>7, <2>9 DEF Sized
  <2>. QED
    BY <2>8, <2>9
<1>. QED
  BY <1>1, <1>2

\* HASH_UPPER leaves an empty bucket.
LEMMA UpperBelow ==
  ASSUME NEW n \in Nat, n >= 4 PROVE HASH_UPPER(n) \in Nat /\ HASH_UPPER(n) < n
  BY SMT DEF HASH_UPPER

\* A table without buckets is full.
LEMMA UpperOfNone == HASH_UPPER(0) = 0
  BY SMT DEF HASH_UPPER

\* Deleted buckets are cleared when less than half of the table is live.
LEMMA ClearingHasRoom ==
  ASSUME NEW n \in Nat, n >= 4, NEW s \in Nat, n > 2 * s, NEW m \in Nat, m >= n - 1
  PROVE  s < HASH_UPPER(m)
  BY SMT DEF HASH_UPPER

\* Twice as many buckets have room for more.
LEMMA GrowingHasRoom ==
  ASSUME NEW n \in Nat, NEW s \in Nat, s <= HASH_UPPER(n),
         NEW m \in Nat, m >= 2 * n, m >= 4
  PROVE  s < HASH_UPPER(m)
  BY SMT DEF HASH_UPPER
-----------------------------------------------------------------------------
(* The search of kh_get and kh_put *)

\* The flag bits of a bucket that the program ever sets
Flag == {{}, {"empty"}, {"del"}}

\* Buckets with an entry, and buckets with an entry or a deleted one
Live(f, n) == {x \in 0 .. n - 1 : f[x] = {}}
Filled(f, n) == {x \in 0 .. n - 1 : f[x] # {"empty"}}

\* The flag bits of a bucket
LEMMA Bits ==
  ASSUME NEW f, NEW x, f[x] \in Flag
  PROVE  /\ isempty(f, x) <=> f[x] = {"empty"}
         /\ isdel(f, x) <=> f[x] = {"del"}
         /\ iseither(f, x) <=> f[x] # {}
<1>1. "empty" # "del"
  OBVIOUS
<1>. QED
  BY <1>1, Zenon DEF Flag, isempty, isdel, iseither

\* The probe for k passes no empty bucket on its way to x.
Passes(f, n, k, s) == \A r \in 0 .. s - 1 : f[Probe(k, r, n)] # {"empty"}
\* The probe for k comes to x before it meets an empty bucket.
Reach(f, n, k, x) ==
  \E s \in 0 .. n - 1 : Probe(k, s, n) = x /\ Passes(f, n, k, s)

\* A table that a search ends in
Searchable ==
  /\ Sized(n_buckets)
  /\ flags \in [0 .. n_buckets - 1 -> Flag]
  /\ \E x \in 0 .. n_buckets - 1 : flags[x] = {"empty"}

\* Bucket x holds key k.
Holds(x, k) == x \in Live(flags, n_buckets) /\ keys[x] = k

\* Where the search for k ends
EndsAt(k, s) ==
  LET x == Probe(k, s, n_buckets) IN
  /\ s \in 0 .. n_buckets - 1 /\ x \in 0 .. n_buckets - 1
  /\ Passes(flags, n_buckets, k, s)
  /\ \A r \in 0 .. s - 1 : ~Holds(Probe(k, r, n_buckets), k)
  /\ flags[x] = {"empty"} \/ Holds(x, k)

(***************************************************************************)
(* The search for a key ends, at an empty bucket or at the key. The        *)
(* triangular probe visits every bucket, so it meets the empty one before  *)
(* it is back at the first.                                                *)
(***************************************************************************)
LEMMA SearchEnds ==
  ASSUME Searchable, NEW k \in Int PROVE EndsAt(k, LastStep(k))
<1>. DEFINE n == n_buckets
            B == 0 .. n - 1
            at(s) == Probe(k, s, n)
            Stop(s) == \/ isempty(flags, at(s))
                       \/ ~isdel(flags, at(s)) /\ keys[at(s)] = k
                       \/ s > 0 /\ at(s) = at(0)
            S == {s \in 0 .. 2 * n : Stop(s)}
            last == LastStep(k)
<1>1. n \in Nat \ {0} /\ n \in PowerOfTwo /\ Sized(n)
  BY DEF Searchable, Sized
<1>2. last = Min(S)
  BY Zenon DEF LastStep
<1>3. \A s \in 0 .. 2 * n : s \in Nat /\ at(s) \in B
  <2>1. \A s \in 0 .. 2 * n : s \in Nat
    BY <1>1
  <2>. QED
    BY <1>1, <2>1, ProbeType, Zenon
<1>4. \A x \in B : /\ flags[x] \in Flag
                   /\ isempty(flags, x) <=> flags[x] = {"empty"}
                   /\ isdel(flags, x) <=> flags[x] = {"del"}
  <2>1. \A x \in B : flags[x] \in Flag
    BY DEF Searchable
  <2>. QED
    BY <2>1, Bits, Zenon
<1>5. PICK x \in B : flags[x] = {"empty"}
  BY Zenon DEF Searchable
<1>6. PICK e \in B : at(e) = x
  BY <1>1, ProbesCover
<1>7. e \in 0 .. 2 * n /\ B \subseteq 0 .. 2 * n
  BY <1>1
<1>8. e \in S
  BY <1>4, <1>5, <1>6, <1>7, Zenon
<1>9. S \in SUBSET Nat
  BY <1>3, Zenon
<1>10. last \in S /\ \A s \in S : last <= s
  BY <1>2, <1>8, <1>9, MinOf, Zenon
<1>. HIDE DEF S, last
<1>11. last \in Nat /\ last <= e
  BY <1>8, <1>9, <1>10, Zenon
<1>12. last \in B
  BY <1>1, <1>11
<1>13. ASSUME NEW r \in 0 .. last - 1 PROVE ~Stop(r) /\ r \in 0 .. 2 * n /\ at(r) \in B
  <2>1. r \in 0 .. 2 * n /\ ~(last <= r)
    BY <1>1, <1>12
  <2>. QED
    BY <1>3, <1>10, <2>1, Zenon DEF S
<1>14. Passes(flags, n, k, last)
  BY <1>4, <1>13, Zenon DEF Passes
<1>15. \A r \in 0 .. last - 1 : ~Holds(at(r), k)
  <2>1. {} # {"del"}
    OBVIOUS
  <2>2. ASSUME NEW r \in 0 .. last - 1, Holds(at(r), k) PROVE FALSE
    <3>1. flags[at(r)] = {} /\ keys[at(r)] = k
      BY <2>2 DEF Holds, Live
    <3>. QED
      BY <1>4, <1>13, <2>1, <3>1, Zenon
  <2>. QED
    BY <2>2, Zenon
<1>16. at(last) \in B /\ Stop(last)
  BY <1>3, <1>10, Zenon DEF S
<1>17. ~(last > 0 /\ at(last) = at(0))
  <2>1. 0 \in B /\ (last > 0 => 0 < last)
    BY <1>1, <1>12
  <2>. QED
    BY <1>1, <1>12, <2>1, ProbesDiffer, Zenon
<1>18. flags[at(last)] = {"empty"} \/ Holds(at(last), k)
  <2>1. flags[at(last)] = {"empty"} \/ (flags[at(last)] # {"del"} /\ keys[at(last)] = k)
    BY <1>4, <1>16, <1>17, Zenon
  <2>2. flags[at(last)] \in {{}, {"empty"}, {"del"}}
    BY <1>4, <1>16, Zenon DEF Flag
  <2>. QED
    BY <1>16, <2>1, <2>2 DEF Holds, Live
<1>. QED
  BY <1>12, <1>14, <1>15, <1>16, <1>18, Zenon DEF EndsAt, last

\* No key in two live buckets, and each where the search for it comes
OnceEach == \A x, y \in Live(flags, n_buckets) : keys[x] = keys[y] => x = y
\* Every entry is where the probe for its key comes.
AllReached ==
  \A x \in Live(flags, n_buckets) : Reach(flags, n_buckets, keys[x], x)

\* The search finds a key that is there.
LEMMA SearchFinds ==
  ASSUME Searchable, OnceEach, AllReached, NEW k \in Int, NEW y, Holds(y, k),
         NEW s, EndsAt(k, s)
  PROVE  Probe(k, s, n_buckets) = y
<1>. DEFINE n == n_buckets
            at(r) == Probe(k, r, n)
<1>1. n \in Nat \ {0} /\ n \in PowerOfTwo
  BY DEF Searchable, Sized
<1>2. PICK t \in 0 .. n - 1 : at(t) = y /\ Passes(flags, n, k, t)
  BY Zenon DEF AllReached, Holds, Reach
<1>3. s \in 0 .. n - 1 /\ (flags[at(s)] = {"empty"} \/ Holds(at(s), k))
  BY Zenon DEF EndsAt
<1>4. ~(t < s)
  <2>1. t < s => t \in 0 .. s - 1
    BY <1>1, <1>2, <1>3
  <2>. QED
    BY <1>2, <2>1, Zenon DEF EndsAt
<1>5. ~(s < t)
  <2>1. ASSUME s < t PROVE FALSE
    <3>1. s \in 0 .. t - 1
      BY <1>1, <1>2, <1>3, <2>1
    <3>2. Holds(at(s), k)
      BY <1>2, <1>3, <3>1, Zenon DEF Passes
    <3>3. at(s) = at(t)
      BY <1>2, <3>2, Zenon DEF OnceEach, Holds
    <3>. QED
      BY <1>1, <1>2, <1>3, <2>1, <3>3, ProbesDiffer, Zenon
  <2>. QED
    BY <2>1
<1>6. s = t
  BY <1>1, <1>2, <1>3, <1>4, <1>5
<1>. QED
  BY <1>2, <1>6, Zenon

\* kh_get answers the bucket of its key, or the end.
Gets(k, x) ==
  /\ x = n_buckets \/ Holds(x, k)
  /\ x = n_buckets => \A y : ~Holds(y, k)

\* kh_get returns the bucket of the key, and n_buckets when there is none.
LEMMA GetAnswers ==
  ASSUME Searchable, OnceEach, AllReached, NEW k \in Int PROVE Gets(k, kh_get(k))
<1>. DEFINE n == n_buckets
            x == Probe(k, LastStep(k), n)
<1>1. n \in Nat \ {0}
  BY DEF Searchable, Sized
<1>2. EndsAt(k, LastStep(k))
  BY SearchEnds, Zenon
<1>3. x \in 0 .. n - 1 /\ (flags[x] = {"empty"} \/ Holds(x, k))
  BY <1>2, Zenon DEF EndsAt
<1>4. \A y : Holds(y, k) => x = y
  BY <1>2, SearchFinds, Zenon
<1>5. kh_get(k) = IF iseither(flags, x) \/ keys[x] # k THEN n ELSE x
  BY <1>1, Zenon DEF kh_get
<1>6. \A y : Holds(y, k) => y # n
  BY <1>1 DEF Holds, Live
<1>. HIDE DEF x
<1>7. CASE Holds(x, k)
  <2>1. ~iseither(flags, x) /\ keys[x] = k
    BY <1>7 DEF Holds, Live, iseither
  <2>2. kh_get(k) = x
    BY <1>5, <2>1, Zenon
  <2>. QED
    BY <1>6, <1>7, <2>2, Zenon DEF Gets
<1>8. CASE ~Holds(x, k)
  <2>1. flags[x] = {"empty"}
    BY <1>3, <1>8, Zenon
  <2>2. iseither(flags, x)
    BY <2>1 DEF iseither
  <2>3. kh_get(k) = n
    BY <1>5, <2>2, Zenon
  <2>. QED
    BY <1>4, <1>8, <2>3, Zenon DEF Gets
<1>. QED
  BY <1>7, <1>8

\* kh_put chooses the bucket of its key, or a free one if it has none.
Chooses(k, x) ==
  /\ x \in 0 .. n_buckets - 1 /\ Reach(flags, n_buckets, k, x)
  /\ Holds(x, k) \/ (flags[x] # {} /\ \A y : ~Holds(y, k))

\* kh_put chooses the bucket of the key, or one without an entry that the
\* probe for the key reaches.
LEMMA PutChooses ==
  ASSUME Searchable, OnceEach, AllReached, NEW k \in Int PROVE Chooses(k, PutSite(k))
<1>. DEFINE n == n_buckets
            at(s) == Probe(k, s, n)
            last == LastStep(k)
            deleted == {s \in 0 .. last - 1 : isdel(flags, at(s))}
            stopped == isempty(flags, at(last)) \/ (last > 0 /\ at(last) = at(0))
<1>1. n \in Nat \ {0} /\ n \in PowerOfTwo /\ \A x \in 0 .. n - 1 : flags[x] \in Flag
  BY DEF Searchable, Sized
<1>2. EndsAt(k, last)
  BY SearchEnds, Zenon
<1>3. PutSite(k) = IF stopped /\ deleted # {} THEN at(Max(deleted)) ELSE at(last)
  BY Zenon DEF PutSite
<1>. HIDE DEF last
<1>4. /\ last \in 0 .. n - 1 /\ at(last) \in 0 .. n - 1
      /\ Passes(flags, n, k, last)
      /\ flags[at(last)] = {"empty"} \/ Holds(at(last), k)
  BY <1>2, Zenon DEF EndsAt
<1>5. \A y : Holds(y, k) => at(last) = y
  BY <1>2, SearchFinds, Zenon
<1>6. ~(last > 0 /\ at(last) = at(0))
  <2>1. 0 \in 0 .. n - 1 /\ (last > 0 => 0 < last)
    BY <1>1, <1>4
  <2>. QED
    BY <1>1, <1>4, <2>1, ProbesDiffer, Zenon
<1>7. stopped <=> flags[at(last)] = {"empty"}
  BY <1>1, <1>4, <1>6, Bits, Zenon
<1>8. flags[at(last)] = {"empty"} => flags[at(last)] # {} /\ ~Holds(at(last), k)
  BY DEF Holds, Live
<1>9. CASE stopped /\ deleted # {}
  <2>. DEFINE d == Max(deleted)
  <2>1. d \in deleted
    <3>1. last \in Nat /\ deleted \in SUBSET (0 .. last - 1)
      BY <1>4
    <3>. HIDE DEF deleted
    <3>. QED
      BY <1>9, <3>1, MaxOf, Zenon
  <2>. HIDE DEF d
  <2>2. d \in 0 .. last - 1 /\ isdel(flags, at(d))
    BY <2>1, Zenon
  <2>3. d \in 0 .. n - 1 /\ d \in Nat /\ \A r \in 0 .. d - 1 : r \in 0 .. last - 1
    BY <1>1, <1>4, <2>2
  <2>4. at(d) \in 0 .. n - 1
    BY <1>1, <2>3, ProbeType, Zenon
  <2>5. flags[at(d)] = {"del"}
    BY <1>1, <2>2, <2>4, Bits, Zenon
  <2>6. flags[at(d)] # {}
    BY <2>5
  <2>7. Reach(flags, n, k, at(d))
    BY <1>4, <2>3, Zenon DEF Reach, Passes
  <2>8. \A y : ~Holds(y, k)
    BY <1>5, <1>7, <1>8, <1>9, Zenon
  <2>9. PutSite(k) = at(d)
    BY <1>3, <1>9, Zenon DEF d
  <2>. QED
    BY <2>4, <2>6, <2>7, <2>8, <2>9, Zenon DEF Chooses
<1>10. CASE ~(stopped /\ deleted # {})
  <2>1. PutSite(k) = at(last)
    BY <1>3, <1>10, Zenon
  <2>2. Reach(flags, n, k, at(last))
    BY <1>4, Zenon DEF Reach
  <2>3. flags[at(last)] = {"empty"} => flags[at(last)] # {} /\ \A y : ~Holds(y, k)
    <3>1. ASSUME flags[at(last)] = {"empty"}, NEW y, Holds(y, k) PROVE FALSE
      <4>1. at(last) = y
        BY <1>5, <3>1, Zenon
      <4>. QED
        BY <1>8, <3>1, <4>1, Zenon
    <3>. QED
      BY <1>8, <3>1, Zenon
  <2>4. Chooses(k, at(last))
    BY <1>4, <2>2, <2>3, Zenon DEF Chooses
  <2>. QED
    BY <2>1, <2>4, Zenon
<1>. QED
  BY <1>9, <1>10, Zenon
-----------------------------------------------------------------------------
(* What a change of one bucket does to a table *)

\* The keys in the buckets of S are keys, and no two of them are equal.
KeysApart(S, ks) ==
  /\ \A x \in S : ks[x] \in Key
  /\ \A x, y \in S : ks[x] = ks[y] => x = y

\* Every live bucket is where the search for its key comes.
Reached(f, n, ks) == \A x \in Live(f, n) : Reach(f, n, ks[x], x)

\* A bucket that is deleted
LEMMA SetDeleted ==
  ASSUME NEW n \in Nat, NEW f \in [0 .. n - 1 -> Flag],
         NEW x \in 0 .. n - 1, f[x] = {}, NEW g, g = [f EXCEPT ![x] = {"del"}]
  PROVE  /\ g \in [0 .. n - 1 -> Flag]
         /\ Live(g, n) = Live(f, n) \ {x}
         /\ Filled(g, n) = Filled(f, n)
<1>1. {} # {"empty"} /\ {"del"} # {"empty"} /\ {"del"} # {} /\ {"del"} \in Flag
  BY DEF Flag
<1>. QED
  BY <1>1 DEF Live, Filled

\* A table in which every bucket is empty
LEMMA NoneLive ==
  ASSUME NEW n \in Nat
  PROVE  /\ AllEmpty(n) \in [0 .. n - 1 -> {{}, {"empty"}}]
         /\ AllEmpty(n) \in [0 .. n - 1 -> Flag]
         /\ Live(AllEmpty(n), n) = {} /\ Filled(AllEmpty(n), n) = {}
<1>1. {} # {"empty"} /\ {"empty"} \in Flag
  BY DEF Flag
<1>. QED
  BY <1>1 DEF AllEmpty, Live, Filled

\* There are finitely many buckets.
LEMMA BucketsFinite ==
  ASSUME NEW n \in Nat, NEW f
  PROVE  /\ IsFiniteSet(Live(f, n)) /\ IsFiniteSet(Filled(f, n))
         /\ Live(f, n) \subseteq 0 .. n - 1 /\ Filled(f, n) \subseteq 0 .. n - 1
<1>1. IsFiniteSet(0 .. n - 1)
  BY FS_Interval
<1>2. Live(f, n) \subseteq 0 .. n - 1 /\ Filled(f, n) \subseteq 0 .. n - 1
  BY DEF Live, Filled
<1>. QED
  BY <1>1, <1>2, FS_Subset, Zenon

\* No bucket of a table without buckets
LEMMA NoBuckets ==
  ASSUME NEW f PROVE Live(f, 0) = {} /\ Filled(f, 0) = {}
  BY DEF Live, Filled

\* A bucket is reached as well when more buckets are filled.
LEMMA StillReached ==
  ASSUME NEW n, n \in PowerOfTwo, n \in Nat \ {0}, NEW f, NEW g, NEW k \in Int, NEW x,
         Filled(f, n) \subseteq Filled(g, n), Reach(f, n, k, x)
  PROVE  Reach(g, n, k, x)
<1>1. PICK s \in 0 .. n - 1 : Probe(k, s, n) = x /\ Passes(f, n, k, s)
  BY Zenon DEF Reach
<1>2. ASSUME NEW r \in 0 .. s - 1 PROVE g[Probe(k, r, n)] # {"empty"}
  <2>1. r \in Nat
    OBVIOUS
  <2>2. Probe(k, r, n) \in 0 .. n - 1
    BY <2>1, ProbeType, Zenon
  <2>3. f[Probe(k, r, n)] # {"empty"}
    BY <1>1, Zenon DEF Passes
  <2>. DEFINE p == Probe(k, r, n)
  <2>4. p \in 0 .. n - 1 /\ f[p] # {"empty"}
    BY <2>2, <2>3, Zenon
  <2>. HIDE DEF p
  <2>5. p \in Filled(f, n)
    BY <2>4 DEF Filled
  <2>6. p \in Filled(g, n)
    BY <2>5
  <2>7. g[p] # {"empty"}
    BY <2>6 DEF Filled
  <2>. QED
    BY <2>7, Zenon DEF p
<1>. QED
  BY <1>1, <1>2, Zenon DEF Reach, Passes

\* An array that changed at most at b
SameBut(S, b, ks, ks2) == \A y \in S : y # b => ks2[y] = ks[y]

\* No other bucket of S than b has key k.
KeyFree(S, b, ks, k) == \A y \in S : y # b => ks[y] # k

\* Keys apart stay apart when a bucket is given a new one.
LEMMA KeyAdded ==
  ASSUME NEW S, NEW b, NEW ks, NEW ks2, SameBut(S, b, ks, ks2), KeysApart(S, ks),
         ks2[b] \in Key, KeyFree(S, b, ks, ks2[b])
  PROVE  KeysApart(S \cup {b}, ks2)
  BY Zenon DEF KeysApart, SameBut, KeyFree

\* And so they do when buckets only lose their entries.
LEMMA KeysKept ==
  ASSUME NEW S, NEW ks, KeysApart(S, ks), NEW T, NEW ks2,
         T \subseteq S, \A y \in T : ks2[y] = ks[y]
  PROVE  KeysApart(T, ks2)
  BY Zenon DEF KeysApart

\* So do buckets stay reached.
LEMMA ReachedAdded ==
  ASSUME NEW n, n \in PowerOfTwo, n \in Nat \ {0}, NEW f, NEW g, NEW ks, NEW ks2,
         Reached(f, n, ks), KeysApart(Live(f, n), ks), NEW x,
         Live(g, n) \subseteq Live(f, n) \cup {x}, Filled(f, n) \subseteq Filled(g, n),
         \A y \in Live(f, n) : y # x => ks2[y] = ks[y],
         NEW k \in Key, ks2[x] = k, Reach(f, n, k, x)
  PROVE  Reached(g, n, ks2)
<1>1. Key \subseteq Int
  BY KeyAssumption
<1>2. ASSUME NEW y \in Live(g, n) PROVE Reach(g, n, ks2[y], y)
  <2>1. CASE y = x
    BY <1>1, <2>1, StillReached, Zenon
  <2>2. CASE y # x
    <3>1. y \in Live(f, n)
      BY <2>2, Zenon
    <3>2. Reach(f, n, ks[y], y) /\ ks[y] \in Int
      BY <1>1, <3>1, Zenon DEF Reached, KeysApart
    <3>3. ks2[y] = ks[y]
      BY <2>2, <3>1, Zenon
    <3>. QED
      BY <3>2, <3>3, StillReached, Zenon
  <2>. QED
    BY <2>1, <2>2
<1>. QED
  BY <1>2, Zenon DEF Reached

\* They stay reached when entries are deleted, for a deleted bucket does not
\* stop the probe.
LEMMA ReachedKept ==
  ASSUME NEW n, n \in PowerOfTwo, n \in Nat \ {0}, NEW f, NEW g, NEW ks, NEW ks2,
         Reached(f, n, ks), KeysApart(Live(f, n), ks),
         Live(g, n) \subseteq Live(f, n), Filled(f, n) \subseteq Filled(g, n),
         \A y \in Live(g, n) : ks2[y] = ks[y]
  PROVE  Reached(g, n, ks2)
<1>1. Key \subseteq Int
  BY KeyAssumption
<1>2. ASSUME NEW y \in Live(g, n) PROVE Reach(g, n, ks2[y], y)
  <2>1. y \in Live(f, n)
    BY Zenon
  <2>2. Reach(f, n, ks[y], y) /\ ks[y] \in Int
    BY <1>1, <2>1, Zenon DEF Reached, KeysApart
  <2>3. ks2[y] = ks[y]
    BY Zenon
  <2>. QED
    BY <2>2, <2>3, StillReached, Zenon
<1>. QED
  BY <1>2, Zenon DEF Reached

\* Memory that realloc keeps
LEMMA ReallocKeeps ==
  ASSUME NEW f, NEW n
  PROVE  /\ DOMAIN Realloc(f, n) = 0 .. n - 1
         /\ \A x \in 0 .. n - 1 : x \in DOMAIN f => Realloc(f, n)[x] = f[x]
  BY DEF Realloc
-----------------------------------------------------------------------------
(* The inductive invariant *)

\* The buckets that hold an entry, of the old and of the new table
Holding == Live(flags, n_buckets) \cup Live(new_flags, new_n_buckets)

\* An entry of the table
IsEntry(e) == \E k \in Key, v \in Val : e = Entry(k, v)

\* The arrays
ArraysFit ==
  /\ n_buckets \in Nat /\ (n_buckets = 0 \/ Sized(n_buckets))
  /\ flags \in [0 .. n_buckets - 1 -> Flag]
  /\ 0 .. n_buckets - 1 \subseteq DOMAIN keys
  /\ 0 .. n_buckets - 1 \subseteq DOMAIN vals

\* The counters
Counted ==
  /\ size = Cardinality(Holding) + (IF pc = "kick" THEN 1 ELSE 0)
  /\ n_occupied = Cardinality(Filled(flags, n_buckets))
  /\ n_occupied <= upper_bound /\ upper_bound = HASH_UPPER(n_buckets)

\* Outside kh_resize there is one table, and its keys can be found.
Resting == new_n_buckets = 0 /\ Reached(flags, n_buckets, keys)

\* In its loops the new table is in the same arrays, in other buckets.
Moving ==
  /\ Sized(new_n_buckets) /\ size < HASH_UPPER(new_n_buckets)
  /\ new_flags \in [0 .. new_n_buckets - 1 -> {{}, {"empty"}}]
  /\ 0 .. new_n_buckets - 1 \subseteq DOMAIN keys
  /\ 0 .. new_n_buckets - 1 \subseteq DOMAIN vals
  /\ Reached(new_flags, new_n_buckets, keys)
  /\ Live(flags, n_buckets) \cap Live(new_flags, new_n_buckets) = {}
  /\ j \in 0 .. n_buckets /\ \A x \in 0 .. j - 1 : flags[x] # {}

\* What has been kicked out is nowhere else.
Carrying ==
  /\ j < n_buckets /\ flags[j] # {}
  /\ hand = Entry(hand.key, hand.val) /\ hand.key \in Key
  /\ \A x \in Holding : keys[x] # hand.key

\* Where the program is, and what it carries there
Control ==
  /\ pc \in {"ready", "put", "rehash", "kick"}
  /\ pc # "ready" => reply = NoReply
  /\ arg = Nothing \/ IsEntry(arg)
  /\ pc = "put" => IsEntry(arg) /\ n_occupied < upper_bound

(***************************************************************************)
(* The inductive invariant.  KhashHasRoom does not carry itself through    *)
(* kh_resize, which moves the entries between two tables that share the    *)
(* arrays: no key is in two buckets of the old and the new table together, *)
(* those of the new one are reached by their probe, and an entry kicked    *)
(* out is in no bucket until it is put back.                               *)
(***************************************************************************)
KhashInv ==
  /\ ArraysFit /\ Counted /\ KeysApart(Holding, keys) /\ Control
  /\ pc \in {"ready", "put"} => Resting
  /\ pc \in {"rehash", "kick"} => Moving
  /\ pc = "kick" => Carrying

\* The entries in the buckets of S
InBuckets(S, ks, vs) == {Entry(ks[x], vs[x]) : x \in S}

\* Held, by the buckets
LEMMA HeldIs == Held = InBuckets(Holding, keys, vals) \cup InHand
<1>1. kh_foreach = Live(flags, n_buckets) /\ Placed = Live(new_flags, new_n_buckets)
  BY DEF kh_foreach, Placed, Live, kh_exist, iseither
<1>. QED
  BY <1>1, Zenon DEF Held, Holding, Bucket, InBuckets

\* The same after a step
LEMMA HeldNext == Held' = InBuckets(Holding', keys', vals') \cup InHand'
<1>1. /\ kh_foreach' = Live(flags, n_buckets)'
      /\ Placed' = Live(new_flags, new_n_buckets)'
  BY DEF kh_foreach, Placed, Live, kh_exist, iseither
<1>. QED
  BY <1>1, Zenon DEF Held, Holding, Bucket, InBuckets

\* One bucket is filled anew.
Fills(S, b, ks, vs, ks2, vs2) ==
  InBuckets(S \cup {b}, ks2, vs2) = InBuckets(S \ {b}, ks, vs) \cup {Entry(ks2[b], vs2[b])}

\* The others did not change.
LEMMA OneBucket ==
  ASSUME NEW S, NEW b, NEW ks, NEW ks2, SameBut(S, b, ks, ks2),
         NEW vs, NEW vs2, SameBut(S, b, vs, vs2)
  PROVE  Fills(S, b, ks, vs, ks2, vs2)
<1>1. InBuckets(S \cup {b}, ks2, vs2) = InBuckets(S \ {b}, ks2, vs2) \cup {Entry(ks2[b], vs2[b])}
  BY DEF InBuckets
<1>2. InBuckets(S \ {b}, ks2, vs2) = InBuckets(S \ {b}, ks, vs)
  BY DEF InBuckets, SameBut
<1>. QED
  BY <1>1, <1>2, Zenon DEF Fills

\* The fields of an entry
LEMMA EntryFields ==
  ASSUME NEW k, NEW v PROVE Entry(k, v).key = k /\ Entry(k, v).val = v
  BY DEF Entry

\* An entry is not the value that stands for none.
LEMMA EntryNotNothing ==
  ASSUME NEW e, IsEntry(e) PROVE e # Nothing /\ e.key \in Key /\ e.val \in Val /\ e = Entry(e.key, e.val)
<1>1. PICK k \in Key, v \in Val : e = Entry(k, v)
  BY DEF IsEntry
<1>2. e.key = k /\ e.val = v /\ Nothing.key = Missing
  BY <1>1 DEF Entry, Nothing
<1>. QED
  BY <1>1, <1>2, KeyAssumption, Zenon

\* The buckets can be counted.
LEMMA HoldingFinite ==
  ASSUME n_buckets \in Nat, new_n_buckets \in Nat
  PROVE  IsFiniteSet(Holding) /\ Cardinality(Holding) \in Nat
<1>1. IsFiniteSet(Live(flags, n_buckets)) /\ IsFiniteSet(Live(new_flags, new_n_buckets))
  BY BucketsFinite, Zenon
<1>2. IsFiniteSet(Holding)
  BY <1>1, FS_Union, Zenon DEF Holding
<1>. QED
  BY <1>2, FS_CardinalityType, Zenon

\* The types of the numbers
LEMMA Numbers ==
  ASSUME KhashInv
  PROVE  /\ n_buckets \in Nat /\ new_n_buckets \in Nat /\ size \in Nat
         /\ n_occupied \in Nat /\ upper_bound \in Nat
         /\ IsFiniteSet(Holding) /\ Cardinality(Holding) \in Nat
         /\ IsFiniteSet(Filled(flags, n_buckets))
<1>1. n_buckets \in Nat /\ (n_buckets = 0 \/ Sized(n_buckets))
  BY Zenon DEF KhashInv, ArraysFit
<1>2. new_n_buckets = 0 \/ Sized(new_n_buckets)
  <2>1. pc \in {"ready", "put"} \/ pc \in {"rehash", "kick"}
    BY DEF KhashInv, Control
  <2>. QED
    BY <2>1, Zenon DEF KhashInv, Resting, Moving
<1>3. new_n_buckets \in Nat
  BY <1>2 DEF Sized
<1>4. IsFiniteSet(Holding) /\ Cardinality(Holding) \in Nat
  BY <1>1, <1>3, HoldingFinite, Zenon
<1>5. IsFiniteSet(Filled(flags, n_buckets))
  BY <1>1, BucketsFinite, Zenon
<1>6. Cardinality(Filled(flags, n_buckets)) \in Nat
  BY <1>5, FS_CardinalityType, Zenon
<1>7. n_occupied \in Nat
  BY <1>6, Zenon DEF KhashInv, Counted
<1>8. HASH_UPPER(n_buckets) \in Nat
  BY <1>1, SMT DEF HASH_UPPER
<1>9. upper_bound \in Nat
  BY <1>8, Zenon DEF KhashInv, Counted
<1>10. size \in Nat
  <2>. DEFINE c == Cardinality(Holding)
  <2>1. c \in Nat /\ size = c + (IF pc = "kick" THEN 1 ELSE 0)
    BY <1>4, Zenon DEF KhashInv, Counted
  <2>. HIDE DEF c
  <2>. QED
    BY <2>1
<1>. QED
  BY <1>1, <1>3, <1>4, <1>5, <1>7, <1>9, <1>10, Zenon

\* A table with buckets has an empty one.
LEMMA RoomToSearch ==
  ASSUME KhashInv, n_buckets # 0
  PROVE  Searchable /\ Filled(flags, n_buckets) # 0 .. n_buckets - 1
<1>1. Sized(n_buckets) /\ flags \in [0 .. n_buckets - 1 -> Flag]
  BY Zenon DEF KhashInv, ArraysFit
<1>2. n_buckets \in Nat /\ n_buckets >= 4
  BY <1>1, Zenon DEF Sized
<1>3. HASH_UPPER(n_buckets) \in Nat /\ HASH_UPPER(n_buckets) < n_buckets
  BY <1>2, UpperBelow, Zenon
<1>4. upper_bound \in Nat /\ upper_bound < n_buckets /\ n_occupied <= upper_bound
  BY <1>3, Zenon DEF KhashInv, Counted
<1>5. n_occupied < n_buckets
  BY <1>2, <1>4, Numbers
<1>6. Filled(flags, n_buckets) # 0 .. n_buckets - 1
  <2>1. Cardinality(0 .. n_buckets - 1) = n_buckets
    BY <1>2, FS_Interval
  <2>2. n_occupied # n_buckets
    BY <1>2, <1>5
  <2>. QED
    BY <2>1, <2>2, Zenon DEF KhashInv, Counted
<1>7. \E x \in 0 .. n_buckets - 1 : flags[x] = {"empty"}
  BY <1>6 DEF Filled
<1>. QED
  BY <1>1, <1>6, <1>7, Zenon DEF Searchable

\* What only answers a call leaves the invariant as it is.
LEMMA Unmoved ==
  ASSUME KhashInv, UNCHANGED <<table, pc, locals, arg>>, pc = "ready" \/ reply' = NoReply
  PROVE  KhashInv' /\ Held' = Held
<1>. USE DEF table, locals
<1>1. Holding' = Holding
  BY DEF Holding
<1>2. ArraysFit'
  BY DEF KhashInv, ArraysFit
<1>3. Counted'
  BY <1>1 DEF KhashInv, Counted
<1>4. KeysApart(Holding, keys)'
  BY <1>1 DEF KhashInv
<1>5. Control'
  BY DEF KhashInv, Control
<1>6. (pc \in {"ready", "put"} => Resting)'
  BY DEF KhashInv, Resting
<1>7. (pc \in {"rehash", "kick"} => Moving)'
  BY DEF KhashInv, Moving
<1>8. (pc = "kick" => Carrying)'
  BY <1>1 DEF KhashInv, Carrying
<1>9. Held' = Held
  <2>1. InHand' = InHand /\ keys' = keys /\ vals' = vals
    BY DEF InHand
  <2>. QED
    BY <1>1, <2>1, HeldIs, HeldNext, Zenon
<1>. QED
  BY <1>2, <1>3, <1>4, <1>5, <1>6, <1>7, <1>8, <1>9, Zenon DEF KhashInv
-----------------------------------------------------------------------------
(* kh_resize *)

\* Outside kh_resize
LEMMA AtRest ==
  ASSUME KhashInv, pc \in {"ready", "put"}
  PROVE  /\ new_n_buckets = 0 /\ Holding = Live(flags, n_buckets)
         /\ Holding \subseteq 0 .. n_buckets - 1 /\ InHand = {}
         /\ KeysApart(Live(flags, n_buckets), keys) /\ size = Cardinality(Holding)
<1>1. new_n_buckets = 0
  BY Zenon DEF KhashInv, Resting
<1>2. Live(new_flags, new_n_buckets) = {}
  BY <1>1, NoBuckets
<1>3. Holding = Live(flags, n_buckets)
  BY <1>2 DEF Holding
<1>4. Live(flags, n_buckets) \subseteq 0 .. n_buckets - 1
  BY DEF Live
<1>5. pc # "kick"
  OBVIOUS
<1>6. InHand = {}
  BY <1>5, Zenon DEF InHand
<1>7. size = Cardinality(Holding)
  <2>1. size = Cardinality(Holding) + 0
    BY <1>5, Zenon DEF KhashInv, Counted
  <2>2. Cardinality(Holding) \in Nat
    BY Numbers
  <2>. QED
    BY <2>1, <2>2
<1>. QED
  BY <1>1, <1>3, <1>4, <1>6, <1>7, Zenon DEF KhashInv

\* An allocation that fails changes no entry.
LEMMA ResizeFails ==
  ASSUME KhashInv, pc = "ready", NEW n \in Nat,
         UNCHANGED <<n_buckets, size, n_occupied, upper_bound, flags, vals, pc, locals, arg>>,
         \/ keys' = keys
         \/ n_buckets < n /\ keys' = Realloc(keys, n)
  PROVE  KhashInv' /\ Held' = Held
<1>. USE DEF locals
<1>1. n_buckets \in Nat /\ 0 .. n_buckets - 1 \subseteq DOMAIN keys
  BY Zenon DEF KhashInv, ArraysFit
<1>2. /\ \A x \in 0 .. n_buckets - 1 : keys'[x] = keys[x]
      /\ 0 .. n_buckets - 1 \subseteq DOMAIN keys'
  <2>1. CASE keys' = keys
    BY <1>1, <2>1, Zenon
  <2>2. CASE n_buckets < n /\ keys' = Realloc(keys, n)
    <3>1. 0 .. n_buckets - 1 \subseteq 0 .. n - 1
      BY <1>1, <2>2
    <3>. QED
      BY <1>1, <2>2, <3>1, ReallocKeeps, Zenon
  <2>. QED
    BY <2>1, <2>2
<1>3. Holding' = Holding /\ Holding \subseteq 0 .. n_buckets - 1 /\ Holding = Live(flags, n_buckets)
  <2>1. Holding' = Holding
    BY DEF Holding
  <2>. QED
    BY <2>1, AtRest, Zenon
<1>4. ArraysFit'
  BY <1>2 DEF KhashInv, ArraysFit
<1>5. Counted'
  BY <1>3 DEF KhashInv, Counted
<1>6. KeysApart(Holding, keys)'
  <2>1. KeysApart(Holding, keys) /\ \A x \in Holding : keys'[x] = keys[x]
    BY <1>2, <1>3, Zenon DEF KhashInv
  <2>2. KeysApart(Holding, keys')
    BY <2>1 DEF KeysApart
  <2>. QED
    BY <1>3, <2>2
<1>7. Control'
  BY DEF KhashInv, Control
<1>8. Resting'
  <2>1. new_n_buckets' = 0
    BY AtRest
  <2>2. Reached(flags, n_buckets, keys)
    BY Zenon DEF KhashInv, Resting
  <2>3. Reached(flags, n_buckets, keys')
    BY <1>2, <1>3, <2>2, Zenon DEF Reached
  <2>. QED
    BY <2>1, <2>3 DEF Resting
<1>9. Held' = Held
  <2>1. InHand' = InHand
    BY DEF InHand
  <2>2. \A x \in Holding : keys'[x] = keys[x] /\ vals'[x] = vals[x]
    BY <1>2, <1>3
  <2>3. InBuckets(Holding, keys', vals') = InBuckets(Holding, keys, vals)
    BY <2>2 DEF InBuckets
  <2>. QED
    BY <1>3, <2>1, <2>3, HeldIs, HeldNext, Zenon
<1>10. pc' = "ready" /\ ~(pc' \in {"rehash", "kick"}) /\ pc' # "kick"
  OBVIOUS
<1>. QED
  BY <1>4, <1>5, <1>6, <1>7, <1>8, <1>9, <1>10, Zenon DEF KhashInv

\* The loops start with an empty new table.
LEMMA ResizeStarts ==
  ASSUME KhashInv, pc = "ready", reply = NoReply, NEW n \in Nat, Sized(n), size < HASH_UPPER(n),
         NEW e, e = Nothing \/ IsEntry(e),
         IF n_buckets < n THEN keys' = Realloc(keys, n) /\ vals' = Realloc(vals, n)
                          ELSE UNCHANGED <<keys, vals>>,
         new_n_buckets' = n, new_flags' = AllEmpty(n), j' = 0, pc' = "rehash", arg' = e,
         UNCHANGED <<n_buckets, size, n_occupied, upper_bound, flags, hand, reply>>
  PROVE  KhashInv' /\ Held' = Held
<1>1. /\ n_buckets \in Nat /\ 0 .. n_buckets - 1 \subseteq DOMAIN keys
      /\ 0 .. n_buckets - 1 \subseteq DOMAIN vals
  BY Zenon DEF KhashInv, ArraysFit
<1>2. /\ \A x \in 0 .. n_buckets - 1 : keys'[x] = keys[x] /\ vals'[x] = vals[x]
      /\ 0 .. n_buckets - 1 \subseteq DOMAIN keys' /\ 0 .. n_buckets - 1 \subseteq DOMAIN vals'
      /\ 0 .. n - 1 \subseteq DOMAIN keys' /\ 0 .. n - 1 \subseteq DOMAIN vals'
  <2>1. CASE n_buckets < n
    <3>1. 0 .. n_buckets - 1 \subseteq 0 .. n - 1
      BY <1>1, <2>1
    <3>2. keys' = Realloc(keys, n) /\ vals' = Realloc(vals, n)
      BY <2>1
    <3>. QED
      BY <1>1, <3>1, <3>2, ReallocKeeps, Zenon
  <2>2. CASE ~(n_buckets < n)
    <3>1. 0 .. n - 1 \subseteq 0 .. n_buckets - 1
      BY <1>1, <2>2
    <3>2. keys' = keys /\ vals' = vals
      BY <2>2
    <3>. QED
      BY <1>1, <3>1, <3>2, Zenon
  <2>. QED
    BY <2>1, <2>2
<1>3. /\ Live(new_flags, new_n_buckets)' = {}
      /\ new_flags' \in [0 .. n - 1 -> {{}, {"empty"}}]
  BY NoneLive
<1>4. /\ Holding' = Holding /\ Holding \subseteq 0 .. n_buckets - 1
      /\ Holding = Live(flags, n_buckets) /\ InHand = {}
  <2>1. Holding' = Live(flags, n_buckets)
    BY <1>3 DEF Holding
  <2>. QED
    BY <2>1, AtRest, Zenon
<1>5. ArraysFit'
  BY <1>2 DEF KhashInv, ArraysFit
<1>6. Counted'
  BY <1>4 DEF KhashInv, Counted
<1>7. KeysApart(Holding, keys)'
  <2>1. KeysApart(Holding, keys) /\ \A x \in Holding : keys'[x] = keys[x]
    BY <1>2, <1>4, Zenon DEF KhashInv
  <2>2. KeysApart(Holding, keys')
    BY <2>1 DEF KeysApart
  <2>. QED
    BY <1>4, <2>2
<1>8. Control'
  BY DEF Control
<1>9. Moving'
  <2>1. Sized(new_n_buckets)' /\ size' < HASH_UPPER(new_n_buckets)'
    OBVIOUS
  <2>2. Reached(new_flags, new_n_buckets, keys)'
    BY <1>3 DEF Reached
  <2>3. (Live(flags, n_buckets) \cap Live(new_flags, new_n_buckets))' = {}
    BY <1>3
  <2>4. j' \in 0 .. n_buckets' /\ \A x \in 0 .. j' - 1 : flags'[x] # {}
    BY <1>1
  <2>. QED
    BY <1>2, <1>3, <2>1, <2>2, <2>3, <2>4 DEF Moving
<1>10. Held' = Held
  <2>1. InHand' = {}
    BY DEF InHand
  <2>2. InBuckets(Holding, keys', vals') = InBuckets(Holding, keys, vals)
    BY <1>2, <1>4 DEF InBuckets
  <2>. QED
    BY <1>4, <2>1, <2>2, HeldIs, HeldNext, Zenon
<1>11. ~(pc' \in {"ready", "put"}) /\ pc' # "kick"
  OBVIOUS
<1>. QED
  BY <1>5, <1>6, <1>7, <1>8, <1>9, <1>10, <1>11, Zenon DEF KhashInv

\* Between the buckets of the old table
LEMMA RehashKeeps == ASSUME KhashInv, RehashBucket PROVE KhashInv' /\ Held' = Held
<1>1. /\ pc = "rehash" /\ j # n_buckets /\ n_buckets \in Nat /\ Moving /\ j \in 0 .. n_buckets
      /\ reply = NoReply /\ flags \in [0 .. n_buckets - 1 -> Flag]
  BY DEF RehashBucket, KhashInv, ArraysFit, Moving, Control
<1>2. j \in 0 .. n_buckets - 1 /\ j < n_buckets /\ j + 1 \in 0 .. n_buckets
  BY <1>1
<1>3. CASE flags[j] # {}
  <2>1. j' = j + 1 /\ UNCHANGED <<table, pc, new_n_buckets, new_flags, hand, arg, reply>>
    BY <1>3 DEF RehashBucket, iseither, table
  <2>. USE DEF table
  <2>2. Holding' = Holding
    BY <2>1 DEF Holding
  <2>3. ArraysFit' /\ Control'
    BY <2>1 DEF KhashInv, ArraysFit, Control
  <2>4. Counted' /\ KeysApart(Holding, keys)'
    BY <2>1, <2>2 DEF KhashInv, Counted
  <2>5. Moving'
    <3>1. j' \in 0 .. n_buckets' /\ \A x \in 0 .. j' - 1 : flags'[x] # {}
      <4>1. \A x \in 0 .. (j + 1) - 1 : x \in 0 .. j - 1 \/ x = j
        BY <1>2
      <4>. QED
        BY <1>1, <1>2, <1>3, <2>1, <4>1, Zenon DEF Moving
    <3>. QED
      BY <1>1, <2>1, <3>1 DEF Moving
  <2>6. Held' = Held
    <3>1. InHand' = InHand /\ keys' = keys /\ vals' = vals
      BY <2>1 DEF InHand
    <3>. QED
      BY <2>2, <3>1, HeldIs, HeldNext, Zenon
  <2>7. pc' = "rehash"
    BY <1>1, <2>1
  <2>8. ~(pc' \in {"ready", "put"}) /\ pc' # "kick"
    BY <2>7
  <2>. QED
    BY <2>3, <2>4, <2>5, <2>6, <2>8, Zenon DEF KhashInv
<1>4. CASE flags[j] = {}
  <2>1. /\ hand' = Entry(keys[j], vals[j]) /\ flags' = [flags EXCEPT ![j] = {"del"}]
        /\ pc' = "kick"
        /\ UNCHANGED <<j, n_buckets, size, n_occupied, upper_bound, keys, vals,
                       new_n_buckets, new_flags, arg, reply>>
    BY <1>4 DEF RehashBucket, iseither, Bucket
  <2>. DEFINE Old == Live(flags, n_buckets)
              New == Live(new_flags, new_n_buckets)
  <2>2. /\ flags' \in [0 .. n_buckets - 1 -> Flag]
        /\ Live(flags, n_buckets)' = Old \ {j}
        /\ Filled(flags, n_buckets)' = Filled(flags, n_buckets)
    <3>1. /\ flags' \in [0 .. n_buckets - 1 -> Flag]
          /\ Live(flags', n_buckets) = Old \ {j}
          /\ Filled(flags', n_buckets) = Filled(flags, n_buckets)
      BY <1>1, <1>2, <1>4, <2>1, SetDeleted, Zenon
    <3>. QED
      BY <2>1, <3>1
  <2>3. New' = New
    BY <2>1
  <2>4. j \in Old /\ j \notin New /\ j \in Holding
    BY <1>1, <1>2, <1>4 DEF Live, Moving, Holding
  <2>. HIDE DEF Old, New
  <2>5. Holding = Old \cup New /\ Holding' = Holding \ {j}
    <3>1. Holding = Old \cup New /\ Holding' = (Old \ {j}) \cup New
      BY <2>2, <2>3, Zenon DEF Holding, Old, New
    <3>. QED
      BY <2>4, <3>1
  <2>6. ArraysFit'
    BY <2>1, <2>2 DEF KhashInv, ArraysFit
  <2>7. Counted'
    <3>1. IsFiniteSet(Holding) /\ Cardinality(Holding) \in Nat
      BY Numbers
    <3>2. Cardinality(Holding \ {j}) = Cardinality(Holding) - 1
      BY <2>4, <3>1, FS_RemoveElement, Zenon
    <3>3. size' = Cardinality(Holding') + 1
      <4>. DEFINE c == Cardinality(Holding)
                  d == Cardinality(Holding')
      <4>1. size = c + 0 /\ c \in Nat /\ d = c - 1 /\ size' = size
        BY <1>1, <2>1, <2>5, <3>1, <3>2 DEF KhashInv, Counted
      <4>. HIDE DEF c, d
      <4>2. size' = d + 1
        BY <4>1
      <4>. QED
        BY <4>2, Zenon DEF d
    <3>. QED
      BY <2>1, <2>2, <3>3 DEF KhashInv, Counted
  <2>8. KeysApart(Holding, keys)'
    <3>1. Holding' \subseteq Holding /\ keys' = keys
      BY <2>1, <2>5
    <3>2. KeysApart(Holding', keys)
      BY <3>1, KeysKept, Zenon DEF KhashInv
    <3>. QED
      BY <3>1, <3>2
  <2>9. Control'
    BY <1>1, <2>1 DEF KhashInv, Control
  <2>10. Moving'
    <3>1. Live(flags, n_buckets)' \cap New' = {}
      BY <1>1, <2>2, <2>3 DEF Moving, Old, New
    <3>2. \A x \in 0 .. j - 1 : flags'[x] # {}
      <4>1. \A x \in 0 .. j - 1 : flags[x] # {} /\ x # j /\ x \in 0 .. n_buckets - 1
        BY <1>1, <1>2 DEF Moving
      <4>. QED
        BY <1>1, <2>1, <4>1
    <3>3. Reached(new_flags, new_n_buckets, keys)'
      BY <1>1, <2>1 DEF Moving
    <3>. QED
      BY <1>1, <2>1, <3>1, <3>2, <3>3 DEF Moving, New
  <2>11. Carrying'
    <3>1. flags'[j] # {} /\ j' = j /\ n_buckets' = n_buckets
      BY <1>1, <1>2, <2>1
    <3>2. hand'.key = keys[j] /\ hand'.val = vals[j]
      BY <2>1, EntryFields, Zenon
    <3>3. hand' = Entry(hand'.key, hand'.val) /\ keys' = keys
      BY <2>1, <3>2, Zenon
    <3>4. keys[j] \in Key /\ \A x \in Holding \ {j} : keys[x] # keys[j]
      BY <2>4 DEF KhashInv, KeysApart
    <3>5. hand'.key \in Key /\ \A x \in Holding' : keys'[x] # hand'.key
      BY <2>5, <3>2, <3>3, <3>4
    <3>. QED
      BY <1>2, <3>1, <3>3, <3>5 DEF Carrying
  <2>12. Held' = Held
    <3>1. InHand = {} /\ InHand' = {Entry(keys[j], vals[j])} /\ keys' = keys /\ vals' = vals
      BY <1>1, <2>1 DEF InHand
    <3>2. InBuckets(Holding, keys, vals) = InBuckets(Holding \ {j}, keys, vals) \cup {Entry(keys[j], vals[j])}
      BY <2>4 DEF InBuckets
    <3>. QED
      BY <2>5, <3>1, <3>2, HeldIs, HeldNext, Zenon
  <2>13. ~(pc' \in {"ready", "put"})
    BY <2>1
  <2>. QED
    BY <2>6, <2>7, <2>8, <2>9, <2>10, <2>11, <2>12, <2>13, Zenon DEF KhashInv
<1>. QED
  BY <1>3, <1>4

\* The new table has an empty bucket.
LEMMA RoomToPlace ==
  ASSUME KhashInv, pc \in {"rehash", "kick"}
  PROVE  Live(new_flags, new_n_buckets) # 0 .. new_n_buckets - 1
<1>. DEFINE n == new_n_buckets
            New == Live(new_flags, n)
<1>1. Moving /\ Sized(n) /\ n \in Nat /\ n >= 4
  BY Zenon DEF KhashInv, Moving, Sized
<1>2. HASH_UPPER(n) \in Nat /\ HASH_UPPER(n) < n /\ size < HASH_UPPER(n)
  BY <1>1, UpperBelow, Zenon DEF Moving
<1>3. New \subseteq Holding /\ IsFiniteSet(Holding) /\ Cardinality(Holding) \in Nat
  BY Numbers, Zenon DEF Holding
<1>4. Cardinality(New) <= Cardinality(Holding) /\ Cardinality(New) \in Nat
  BY <1>3, FS_Subset, FS_CardinalityType, Zenon
<1>5. size = Cardinality(Holding) + (IF pc = "kick" THEN 1 ELSE 0)
  BY Zenon DEF KhashInv, Counted
<1>. DEFINE c == Cardinality(Holding)
            d == Cardinality(New)
            u == HASH_UPPER(n)
<1>6. d <= c /\ c \in Nat /\ d \in Nat /\ u \in Nat /\ u < n /\ size < u
  BY <1>2, <1>3, <1>4, Zenon
<1>7. size = c + (IF pc = "kick" THEN 1 ELSE 0)
  BY <1>5, Zenon
<1>8. Cardinality(0 .. n - 1) = n
  BY <1>1, FS_Interval
<1>. HIDE DEF c, d, u
<1>9. d # n
  BY <1>1, <1>6, <1>7
<1>. QED
  BY <1>8, <1>9, Zenon DEF d

\* The kick-out process ends at an empty bucket, where the key will be found.
LEMMA KickSiteFree ==
  ASSUME KhashInv, pc = "kick", NEW i, i = KickSite(hand.key)
  PROVE  /\ i \in 0 .. new_n_buckets - 1 /\ new_flags[i] = {"empty"}
         /\ Reach(new_flags, new_n_buckets, hand.key, i)
<1>. DEFINE n == new_n_buckets
            k == hand.key
            B == 0 .. n - 1
            S == {s \in B : isempty(new_flags, Probe(k, s, n))}
            m == Min(S)
<1>1. n \in Nat \ {0} /\ n \in PowerOfTwo /\ new_flags \in [B -> {{}, {"empty"}}]
  BY DEF KhashInv, Moving, Sized
<1>2. k \in Int
  BY KeyAssumption, Zenon DEF KhashInv, Carrying
<1>3. PICK x \in B : new_flags[x] # {}
  <2>1. Live(new_flags, n) # B
    BY RoomToPlace
  <2>. QED
    BY <2>1 DEF Live
<1>4. \A b \in B : /\ new_flags[b] \in {{}, {"empty"}}
                   /\ isempty(new_flags, b) <=> new_flags[b] = {"empty"}
  <2>1. \A b \in B : new_flags[b] \in {{}, {"empty"}}
    BY <1>1
  <2>2. \A b \in B : new_flags[b] \in Flag
    BY <2>1 DEF Flag
  <2>. QED
    BY <2>1, <2>2, Bits, Zenon
<1>5. new_flags[x] = {"empty"}
  BY <1>3, <1>4
<1>6. PICK e \in B : Probe(k, e, n) = x
  BY <1>1, <1>2, ProbesCover, Zenon
<1>7. e \in S
  BY <1>4, <1>5, <1>6, Zenon
<1>8. S \in SUBSET Nat
  BY <1>1
<1>9. m \in S /\ \A s \in S : m <= s
  BY <1>7, <1>8, MinOf, Zenon
<1>10. i = Probe(k, m, n)
  BY Zenon DEF KickSite
<1>. HIDE DEF m
<1>11. m \in B /\ m \in Nat /\ isempty(new_flags, i)
  BY <1>8, <1>9, <1>10, Zenon
<1>12. i \in B
  BY <1>1, <1>2, <1>10, <1>11, ProbeType, Zenon
<1>13. new_flags[i] = {"empty"}
  BY <1>4, <1>11, <1>12, Zenon
<1>14. ASSUME NEW r \in 0 .. m - 1 PROVE new_flags[Probe(k, r, n)] # {"empty"}
  <2>1. r \in B /\ r \in Nat /\ ~(m <= r)
    BY <1>1, <1>11
  <2>2. Probe(k, r, n) \in B /\ r \notin S
    BY <1>1, <1>2, <1>9, <2>1, ProbeType, Zenon
  <2>. QED
    BY <1>4, <2>1, <2>2, Zenon
<1>15. Passes(new_flags, n, k, m)
  BY <1>14, Zenon DEF Passes
<1>. QED
  BY <1>10, <1>11, <1>12, <1>13, <1>15, Zenon DEF Reach

\* What both outcomes of a round have in common
Kicks(i) ==
  /\ i \in 0 .. new_n_buckets - 1 /\ i \notin Live(new_flags, new_n_buckets)
  /\ SameBut(Holding, i, keys, keys') /\ SameBut(Holding, i, vals, vals')
  /\ keys'[i] = hand.key /\ vals'[i] = hand.val
  /\ DOMAIN keys' = DOMAIN keys /\ DOMAIN vals' = DOMAIN vals
  /\ new_flags' \in [0 .. new_n_buckets - 1 -> {{}, {"empty"}}]
  /\ Live(new_flags, new_n_buckets)' = Live(new_flags, new_n_buckets) \cup {i}
  /\ Reached(new_flags, new_n_buckets, keys)'
  /\ UNCHANGED <<n_buckets, size, n_occupied, upper_bound, new_n_buckets, arg, reply>>

\* KickOut finds an empty bucket of the new table.
LEMMA KickPlaces ==
  ASSUME KhashInv, KickOut PROVE Kicks(KickSite(hand.key))
<1>. DEFINE i == KickSite(hand.key)
            n == new_n_buckets
<1>1. /\ pc = "kick" /\ new_flags' = [new_flags EXCEPT ![i] = {}]
      /\ keys' = [keys EXCEPT ![i] = hand.key] /\ vals' = [vals EXCEPT ![i] = hand.val]
      /\ UNCHANGED <<n_buckets, size, n_occupied, upper_bound, new_n_buckets, arg, reply>>
  BY Zenon DEF KickOut
<1>2. /\ i \in 0 .. n - 1 /\ new_flags[i] = {"empty"}
      /\ Reach(new_flags, n, hand.key, i)
  BY <1>1, KickSiteFree, Zenon
<1>. HIDE DEF i
<1>3. Moving /\ Carrying
  BY <1>1 DEF KhashInv
<1>4. /\ n \in Nat \ {0} /\ n \in PowerOfTwo
      /\ new_flags \in [0 .. n - 1 -> {{}, {"empty"}}]
      /\ i \in DOMAIN keys /\ i \in DOMAIN vals
  BY <1>2, <1>3 DEF Moving, Sized
<1>5. /\ new_flags' \in [0 .. n - 1 -> {{}, {"empty"}}]
      /\ Live(new_flags', n) = Live(new_flags, n) \cup {i}
      /\ Filled(new_flags', n) = Filled(new_flags, n) \cup {i}
  <2>. DEFINE F == {{}, {"empty"}}
  <2>1. {} \in F /\ n \in Nat /\ new_flags \in [0 .. n - 1 -> F]
    BY <1>4
  <2>. HIDE DEF F
  <2>2. /\ new_flags' \in [0 .. n - 1 -> F]
        /\ Live(new_flags', n) = Live(new_flags, n) \cup {i}
        /\ Filled(new_flags', n) = Filled(new_flags, n) \cup {i}
    <3>1. {} # {"empty"}
      OBVIOUS
    <3>. QED
      BY <1>1, <1>2, <2>1, <3>1 DEF Live, Filled
  <2>. QED
    BY <2>2, Zenon DEF F
<1>6. i \notin Live(new_flags, n)
  BY <1>2 DEF Live
<1>7. /\ 0 .. n - 1 \subseteq DOMAIN keys /\ 0 .. n_buckets - 1 \subseteq DOMAIN keys
      /\ 0 .. n - 1 \subseteq DOMAIN vals /\ 0 .. n_buckets - 1 \subseteq DOMAIN vals
  BY <1>3, Zenon DEF Moving, KhashInv, ArraysFit
<1>8. Holding \subseteq DOMAIN keys /\ Holding \subseteq DOMAIN vals
  BY <1>7 DEF Holding, Live
<1>9. /\ SameBut(Holding, i, keys, keys') /\ SameBut(Holding, i, vals, vals')
      /\ keys'[i] = hand.key /\ vals'[i] = hand.val
      /\ DOMAIN keys' = DOMAIN keys /\ DOMAIN vals' = DOMAIN vals
  BY <1>1, <1>4, <1>8 DEF SameBut
<1>10. Reached(new_flags', n, keys')
  <2>1. KeysApart(Live(new_flags, n), keys)
    BY Zenon DEF KhashInv, Holding, KeysApart
  <2>2. Reached(new_flags, n, keys) /\ hand.key \in Key
    BY <1>3, Zenon DEF Moving, Carrying
  <2>3. \A y \in Live(new_flags, n) : y # i => keys'[y] = keys[y]
    BY <1>9, Zenon DEF Holding, SameBut
  <2>4. Live(new_flags', n) \subseteq Live(new_flags, n) \cup {i}
    BY <1>5, Zenon
  <2>5. Filled(new_flags, n) \subseteq Filled(new_flags', n)
    BY <1>5
  <2>6. keys'[i] = hand.key
    BY <1>9
  <2>. QED
    BY <1>2, <1>4, <2>1, <2>2, <2>3, <2>4, <2>5, <2>6, ReachedAdded, Zenon
<1>. QED
  BY <1>1, <1>2, <1>5, <1>6, <1>9, <1>10 DEF Kicks, i

\* One round of the kick-out process
LEMMA KickKeeps == ASSUME KhashInv, KickOut PROVE KhashInv' /\ Held' = Held
<1>. DEFINE i == KickSite(hand.key)
            Old == Live(flags, n_buckets)
            New == Live(new_flags, new_n_buckets)
<1>1. Kicks(i)
  BY KickPlaces, Zenon
<1>2. /\ pc = "kick"
      /\ IF i < n_buckets /\ ~iseither(flags, i)
           THEN /\ hand' = Bucket(i) /\ flags' = [flags EXCEPT ![i] = {"del"}]
                /\ UNCHANGED <<pc, j>>
           ELSE pc' = "rehash" /\ j' = j + 1 /\ hand' = Nothing /\ UNCHANGED flags
  BY Zenon DEF KickOut
<1>. HIDE DEF i
<1>3. Moving /\ Carrying /\ ArraysFit /\ Control
  BY <1>2 DEF KhashInv
<1>4. /\ n_buckets \in Nat /\ flags \in [0 .. n_buckets - 1 -> Flag] /\ i \in Nat
      /\ j \in 0 .. n_buckets - 1 /\ flags[j] # {}
      /\ hand = Entry(hand.key, hand.val) /\ hand.key \in Key
  <2>1. n_buckets \in Nat /\ flags \in [0 .. n_buckets - 1 -> Flag]
    BY <1>3, Zenon DEF ArraysFit
  <2>2. flags[j] # {} /\ hand = Entry(hand.key, hand.val) /\ hand.key \in Key
    BY <1>3, Zenon DEF Carrying
  <2>3. j \in 0 .. n_buckets /\ j < n_buckets
    BY <1>3, Zenon DEF Moving, Carrying
  <2>4. j \in 0 .. n_buckets - 1
    BY <2>1, <2>3
  <2>5. i \in 0 .. new_n_buckets - 1
    BY <1>1, Zenon DEF Kicks
  <2>6. i \in Nat
    BY <2>5
  <2>. QED
    BY <2>1, <2>2, <2>4, <2>6, Zenon
<1>5. Old \cap New = {} /\ Holding = Old \cup New /\ New' = New \cup {i} /\ i \notin New
  BY <1>1, <1>3, Zenon DEF Moving, Holding, Kicks
<1>6. InHand = {hand}
  BY <1>2 DEF InHand
<1>7. KeysApart(Holding, keys) /\ \A x \in Holding : keys[x] # hand.key
  BY <1>3, Zenon DEF KhashInv, Carrying
<1>8. IsFiniteSet(Holding) /\ Cardinality(Holding) \in Nat /\ size = Cardinality(Holding) + 1
  BY <1>2, Numbers, Zenon DEF KhashInv, Counted
<1>9. CASE i < n_buckets /\ flags[i] = {}
  <2>1. /\ hand' = Entry(keys[i], vals[i]) /\ flags' = [flags EXCEPT ![i] = {"del"}]
        /\ pc' = "kick" /\ j' = j
    BY <1>2, <1>9 DEF iseither, Bucket
  <2>2. i \in 0 .. n_buckets - 1 /\ i # j /\ i \in Old /\ i \in Holding
    BY <1>4, <1>9 DEF Live, Holding
  <2>3. /\ flags' \in [0 .. n_buckets - 1 -> Flag] /\ Old' = Old \ {i}
        /\ Filled(flags, n_buckets)' = Filled(flags, n_buckets)
    <3>1. /\ flags' \in [0 .. n_buckets - 1 -> Flag]
          /\ Live(flags', n_buckets) = Old \ {i}
          /\ Filled(flags', n_buckets) = Filled(flags, n_buckets)
      <4>1. /\ n_buckets \in Nat /\ flags \in [0 .. n_buckets - 1 -> Flag]
            /\ i \in 0 .. n_buckets - 1 /\ flags[i] = {}
            /\ flags' = [flags EXCEPT ![i] = {"del"}]
        BY <1>4, <1>9, <2>1, <2>2, Zenon
      <4>. QED
        BY <4>1, SetDeleted, Zenon
    <3>2. n_buckets' = n_buckets
      BY <1>1 DEF Kicks
    <3>. QED
      BY <3>1, <3>2
  <2>4. Holding' = Holding /\ Old' \cap New' = {}
    <3>1. Holding' = Old' \cup New'
      BY Zenon DEF Holding
    <3>. HIDE DEF Old, New
    <3>. QED
      BY <1>5, <2>2, <2>3, <3>1
  <2>5. ArraysFit'
    BY <1>1, <1>3, <2>3 DEF ArraysFit, Kicks
  <2>6. Counted'
    BY <1>1, <1>2, <2>1, <2>3, <2>4 DEF KhashInv, Counted, Kicks
  <2>7. KeysApart(Holding, keys)'
    <3>1. SameBut(Holding, i, keys, keys') /\ keys'[i] = hand.key
      BY <1>1, Zenon DEF Kicks
    <3>2. KeyFree(Holding, i, keys, hand.key)
      BY <1>7, Zenon DEF KeyFree
    <3>3. KeysApart(Holding \cup {i}, keys')
      BY <1>4, <1>7, <3>1, <3>2, KeyAdded, Zenon
    <3>4. Holding' = Holding \cup {i}
      BY <2>2, <2>4
    <3>. QED
      BY <3>3, <3>4
  <2>8. Control'
    BY <1>1, <1>2, <1>3, <2>1 DEF Control, Kicks
  <2>9. Moving'
    <3>1. \A x \in 0 .. j - 1 : flags'[x] # {}
      <4>1. \A x \in 0 .. j - 1 : flags[x] # {} /\ x \in 0 .. n_buckets - 1
        BY <1>3, <1>4 DEF Moving
      <4>. QED
        BY <1>4, <2>1, <4>1
    <3>2. j' \in 0 .. n_buckets
      BY <1>3, <2>1, Zenon DEF Moving
    <3>. QED
      BY <1>1, <1>3, <2>1, <2>4, <3>1, <3>2 DEF Moving, Kicks
  <2>10. Carrying'
    <3>1. flags'[j] # {} /\ j < n_buckets /\ n_buckets' = n_buckets
      BY <1>1, <1>4, <2>1, <2>2 DEF Kicks
    <3>2. hand'.key = keys[i] /\ hand'.val = vals[i]
      BY <2>1, EntryFields, Zenon
    <3>3. hand' = Entry(hand'.key, hand'.val)
      BY <2>1, <3>2, Zenon
    <3>4. keys[i] \in Key /\ \A x \in Holding : x # i => keys[x] # keys[i]
      BY <1>7, <2>2, Zenon DEF KeysApart
    <3>5. \A x \in Holding : keys'[x] # keys[i]
      BY <1>1, <1>7, <2>2, <3>4, Zenon DEF Kicks, SameBut
    <3>6. \A x \in Holding' : keys'[x] # hand'.key
      BY <2>4, <3>2, <3>5
    <3>. QED
      BY <2>1, <3>1, <3>2, <3>3, <3>4, <3>6 DEF Carrying
  <2>11. Held' = Held
    <3>1. InHand' = {Entry(keys[i], vals[i])}
      BY <2>1 DEF InHand
    <3>2. SameBut(Holding, i, keys, keys') /\ SameBut(Holding, i, vals, vals')
      BY <1>1, Zenon DEF Kicks
    <3>3. Entry(keys'[i], vals'[i]) = hand
      BY <1>1, <1>4, Zenon DEF Kicks
    <3>4. InBuckets(Holding, keys, vals) = InBuckets(Holding \ {i}, keys, vals) \cup {Entry(keys[i], vals[i])}
      BY <2>2 DEF InBuckets
    <3>5. InBuckets(Holding \cup {i}, keys', vals') = InBuckets(Holding \ {i}, keys, vals) \cup {hand}
      <4>1. Fills(Holding, i, keys, vals, keys', vals')
        BY <3>2, OneBucket, Zenon
      <4>. QED
        BY <3>3, <4>1, Zenon DEF Fills
    <3>6. Holding' = Holding \cup {i}
      BY <2>2, <2>4
    <3>. DEFINE A == InBuckets(Holding \ {i}, keys, vals)
                e == Entry(keys[i], vals[i])
    <3>7. Held' = (A \cup {hand}) \cup {e} /\ Held = (A \cup {e}) \cup {hand}
      BY <1>6, <3>1, <3>4, <3>5, <3>6, HeldIs, HeldNext, Zenon
    <3>. HIDE DEF A, e
    <3>. QED
      BY <3>7
  <2>12. ~(pc' \in {"ready", "put"})
    BY <2>1
  <2>. QED
    BY <2>5, <2>6, <2>7, <2>8, <2>9, <2>10, <2>11, <2>12, Zenon DEF KhashInv
<1>10. CASE ~(i < n_buckets /\ flags[i] = {})
  <2>1. pc' = "rehash" /\ j' = j + 1 /\ hand' = Nothing /\ flags' = flags
    BY <1>2, <1>10 DEF iseither
  <2>2. i \notin Old /\ i \notin Holding
    <3>1. n_buckets \in Nat /\ i \in Nat
      BY <1>4, Zenon
    <3>2. i \in 0 .. n_buckets - 1 => i < n_buckets
      BY <3>1
    <3>3. i \notin Old
      BY <1>10, <3>2, Zenon DEF Live
    <3>. QED
      BY <1>5, <3>3, Zenon
  <2>3. Old' = Old /\ n_buckets' = n_buckets
    BY <1>1, <2>1 DEF Kicks
  <2>4. Holding' = Holding \cup {i} /\ Old' \cap New' = {}
    <3>1. Holding' = Old' \cup New'
      BY Zenon DEF Holding
    <3>. HIDE DEF Old, New
    <3>. QED
      BY <1>5, <2>2, <2>3, <3>1
  <2>5. ArraysFit'
    BY <1>1, <1>3, <2>1 DEF ArraysFit, Kicks
  <2>6. Counted'
    <3>1. Cardinality(Holding \cup {i}) = Cardinality(Holding) + 1
      BY <1>8, <2>2, FS_AddElement, Zenon
    <3>2. size' = Cardinality(Holding')
      BY <1>1, <1>8, <2>4, <3>1, Zenon DEF Kicks
    <3>3. Cardinality(Holding') \in Nat
      <4>. DEFINE c == Cardinality(Holding)
                  d == Cardinality(Holding')
      <4>1. c \in Nat /\ d = c + 1
        BY <1>8, <2>4, <3>1, Zenon
      <4>. HIDE DEF c, d
      <4>2. d \in Nat
        BY <4>1
      <4>. QED
        BY <4>2, Zenon DEF d
    <3>4. size' = Cardinality(Holding') + (IF pc' = "kick" THEN 1 ELSE 0)
      BY <2>1, <3>2, <3>3
    <3>. QED
      BY <1>1, <2>1, <3>4 DEF KhashInv, Counted, Kicks
  <2>7. KeysApart(Holding, keys)'
    <3>1. SameBut(Holding, i, keys, keys') /\ keys'[i] = hand.key
      BY <1>1, Zenon DEF Kicks
    <3>2. KeyFree(Holding, i, keys, hand.key)
      BY <1>7, Zenon DEF KeyFree
    <3>3. KeysApart(Holding \cup {i}, keys')
      BY <1>4, <1>7, <3>1, <3>2, KeyAdded, Zenon
    <3>4. Holding' = Holding \cup {i}
      BY <2>2, <2>4
    <3>. QED
      BY <3>3, <3>4
  <2>8. Control'
    BY <1>1, <1>2, <1>3, <2>1 DEF Control, Kicks
  <2>9. Moving'
    <3>1. \A x \in 0 .. j' - 1 : flags'[x] # {}
      <4>1. \A x \in 0 .. (j + 1) - 1 : x \in 0 .. j - 1 \/ x = j
        BY <1>4
      <4>. QED
        BY <1>3, <1>4, <2>1, <4>1, Zenon DEF Moving
    <3>2. j' \in 0 .. n_buckets
      BY <1>4, <2>1
    <3>. QED
      BY <1>1, <1>3, <2>3, <2>4, <3>1, <3>2 DEF Moving, Kicks
  <2>10. Held' = Held
    <3>1. InHand' = {}
      BY <2>1 DEF InHand
    <3>2. SameBut(Holding, i, keys, keys') /\ SameBut(Holding, i, vals, vals')
      BY <1>1, Zenon DEF Kicks
    <3>3. Entry(keys'[i], vals'[i]) = hand
      BY <1>1, <1>4, Zenon DEF Kicks
    <3>4. InBuckets(Holding \cup {i}, keys', vals') = InBuckets(Holding \ {i}, keys, vals) \cup {hand}
      <4>1. Fills(Holding, i, keys, vals, keys', vals')
        BY <3>2, OneBucket, Zenon
      <4>. QED
        BY <3>3, <4>1, Zenon DEF Fills
    <3>5. Holding \ {i} = Holding
      BY <2>2
    <3>. DEFINE A == InBuckets(Holding, keys, vals)
    <3>6. Held' = (A \cup {hand}) \cup {} /\ Held = A \cup {hand}
      BY <1>6, <2>4, <3>1, <3>4, <3>5, HeldIs, HeldNext, Zenon
    <3>. HIDE DEF A
    <3>. QED
      BY <3>6
  <2>11. ~(pc' \in {"ready", "put"}) /\ pc' # "kick"
    BY <2>1
  <2>. QED
    BY <2>5, <2>6, <2>7, <2>8, <2>9, <2>10, <2>11, Zenon DEF KhashInv
<1>. QED
  BY <1>9, <1>10

\* The end of kh_resize: every entry is in the new table.
LEMMA RehashedKeeps == ASSUME KhashInv, Rehashed PROVE KhashInv' /\ Held' = Held
<1>. DEFINE n == new_n_buckets
            Old == Live(flags, n_buckets)
            New == Live(new_flags, n)
<1>1. /\ pc = "rehash" /\ j = n_buckets /\ Moving /\ ArraysFit /\ Control
      /\ flags' = new_flags /\ n_buckets' = n /\ n_occupied' = size
      /\ upper_bound' = HASH_UPPER(n)
      /\ new_n_buckets' = 0 /\ hand' = hand /\ size' = size /\ arg' = arg
      /\ IF n_buckets > n THEN keys' = Realloc(keys, n) /\ vals' = Realloc(vals, n)
                          ELSE UNCHANGED <<keys, vals>>
      /\ IF arg = Nothing
           THEN pc' = "ready" /\ reply' = Reply("arrange", Missing, Done)
           ELSE pc' = "put" /\ UNCHANGED reply
  BY DEF Rehashed, KhashInv
<1>2. /\ Sized(n) /\ n \in Nat /\ n_buckets \in Nat /\ size < HASH_UPPER(n)
      /\ new_flags \in [0 .. n - 1 -> {{}, {"empty"}}]
      /\ 0 .. n - 1 \subseteq DOMAIN keys /\ 0 .. n - 1 \subseteq DOMAIN vals
      /\ Reached(new_flags, n, keys)
  BY <1>1, Zenon DEF Moving, ArraysFit, Sized
<1>3. Old = {}
  BY <1>1 DEF Moving, Live
<1>4. Holding = New /\ New \subseteq 0 .. n - 1
  BY <1>3 DEF Holding, Live
<1>5. Holding' = Holding /\ Live(flags, n_buckets)' = New
  <2>1. Live(flags, n_buckets)' = New
    BY <1>1
  <2>2. Live(new_flags, new_n_buckets)' = {}
    BY <1>1 DEF Live
  <2>. QED
    BY <1>4, <2>1, <2>2 DEF Holding
<1>6. /\ \A x \in 0 .. n - 1 : keys'[x] = keys[x] /\ vals'[x] = vals[x]
      /\ 0 .. n - 1 \subseteq DOMAIN keys' /\ 0 .. n - 1 \subseteq DOMAIN vals'
  <2>1. CASE n_buckets > n
    <3>1. keys' = Realloc(keys, n) /\ vals' = Realloc(vals, n)
      BY <1>1, <2>1
    <3>. QED
      BY <1>2, <3>1, ReallocKeeps, Zenon
  <2>2. CASE ~(n_buckets > n)
    BY <1>1, <1>2, <2>2
  <2>. QED
    BY <2>1, <2>2
<1>7. size = Cardinality(Holding) /\ size \in Nat
  <2>1. size = Cardinality(Holding) + 0
    BY <1>1 DEF KhashInv, Counted
  <2>. DEFINE c == Cardinality(Holding)
  <2>2. c \in Nat /\ size = c + 0
    BY <2>1, Numbers, Zenon
  <2>. HIDE DEF c
  <2>3. size = c /\ size \in Nat
    BY <2>2
  <2>. QED
    BY <2>3, Zenon DEF c
<1>8. Filled(flags, n_buckets)' = New
  <2>1. Filled(flags, n_buckets)' = Filled(new_flags, n)
    BY <1>1
  <2>2. Filled(new_flags, n) = New
    BY <1>2 DEF Filled, Live
  <2>. QED
    BY <2>1, <2>2, Zenon
<1>9. pc' \in {"ready", "put"} /\ pc' # "kick" /\ ~(pc' \in {"rehash", "kick"})
  BY <1>1
<1>10. n_occupied' < upper_bound' /\ n_occupied' <= upper_bound'
  <2>. DEFINE u == HASH_UPPER(n)
  <2>1. u \in Nat /\ size < u
    <3>1. n >= 4
      BY <1>2 DEF Sized
    <3>. QED
      BY <1>2, <3>1, UpperBelow, Zenon
  <2>2. n_occupied' = size /\ upper_bound' = u
    BY <1>1
  <2>. HIDE DEF u
  <2>. QED
    BY <1>7, <2>1, <2>2
<1>11. ArraysFit'
  <2>1. new_flags \in [0 .. n - 1 -> Flag]
    BY <1>2 DEF Flag
  <2>. QED
    BY <1>1, <1>2, <1>6, <2>1 DEF ArraysFit
<1>12. Counted'
  <2>1. size' = Cardinality(Holding') + (IF pc' = "kick" THEN 1 ELSE 0)
    <3>1. size' = Cardinality(Holding')
      BY <1>1, <1>5, <1>7
    <3>2. size' + 0 = size'
      BY <1>1, <1>7
    <3>. QED
      BY <1>9, <3>1, <3>2, Zenon
  <2>2. n_occupied' = Cardinality(Filled(flags, n_buckets)')
    BY <1>1, <1>4, <1>7, <1>8, Zenon
  <2>. QED
    BY <1>1, <1>10, <2>1, <2>2 DEF Counted
<1>13. KeysApart(Holding, keys)'
  <2>1. KeysApart(Holding, keys) /\ \A x \in Holding : keys'[x] = keys[x]
    BY <1>4, <1>6, Zenon DEF KhashInv
  <2>2. KeysApart(Holding, keys')
    BY <2>1 DEF KeysApart
  <2>. QED
    BY <1>5, <2>2
<1>14. Control'
  BY <1>1, <1>10 DEF Control
<1>15. Resting'
  <2>1. Reached(new_flags, n, keys')
    <3>1. \A x \in New : keys'[x] = keys[x]
      BY <1>4, <1>6, Zenon
    <3>. QED
      BY <1>2, <3>1, Zenon DEF Reached
  <2>. QED
    BY <1>1, <2>1 DEF Resting
<1>16. Held' = Held
  <2>1. InHand = {} /\ InHand' = {}
    BY <1>1, <1>9 DEF InHand
  <2>2. InBuckets(Holding, keys', vals') = InBuckets(Holding, keys, vals)
    BY <1>4, <1>6 DEF InBuckets
  <2>. QED
    BY <1>5, <2>1, <2>2, HeldIs, HeldNext, Zenon
<1>. QED
  BY <1>9, <1>11, <1>12, <1>13, <1>14, <1>15, <1>16, Zenon DEF KhashInv
-----------------------------------------------------------------------------
(* The other calls *)

\* A resize, whoever asks for it
LEMMA ResizeKeeps ==
  ASSUME KhashInv, pc = "ready", reply = NoReply, NEW wanted \in Nat, NEW e,
         \/ e = Nothing
         \/ IsEntry(e) /\ size < HASH_UPPER(RoundedUp(wanted)),
         kh_resize(wanted, e)
  PROVE  /\ KhashInv' /\ Held' = Held
         /\ \/ reply' = reply
            \/ e = Nothing /\ \E r \in {Done, OutOfMemory} : reply' = Reply("arrange", Missing, r)
            \/ IsEntry(e) /\ reply' = Reply("put", e.key, OutOfMemory)
<1>. DEFINE n == RoundedUp(wanted)
<1>1. Sized(n) /\ n \in Nat
  BY RoundedUpSized, Zenon DEF Sized
<1>2. e = Nothing => ~IsEntry(e)
  BY EntryNotNothing, Zenon
<1>. DEFINE fail == /\ reply' = IF e = Nothing THEN Reply("arrange", Missing, OutOfMemory)
                                               ELSE Reply("put", e.key, OutOfMemory)
                    /\ UNCHANGED <<n_buckets, size, n_occupied, upper_bound, flags, vals,
                                   pc, locals, arg>>
<1>3. \/ e = Nothing /\ reply' = Reply("arrange", Missing, Done) /\ UNCHANGED <<table, locals, pc, arg>>
      \/ fail /\ keys' = keys
      \/ n_buckets < n /\ fail /\ keys' = Realloc(keys, n)
      \/ /\ size < HASH_UPPER(n)
         /\ IF n_buckets < n THEN keys' = Realloc(keys, n) /\ vals' = Realloc(vals, n)
                             ELSE UNCHANGED <<keys, vals>>
         /\ new_n_buckets' = n /\ new_flags' = AllEmpty(n) /\ j' = 0
         /\ pc' = "rehash" /\ arg' = e
         /\ UNCHANGED <<n_buckets, size, n_occupied, upper_bound, flags, hand, reply>>
  <2>1. size < HASH_UPPER(n) => ~(size >= HASH_UPPER(n))
    <3>. DEFINE u == HASH_UPPER(n)
    <3>1. u \in Nat /\ size \in Nat
      BY <1>1, Numbers DEF HASH_UPPER
    <3>. HIDE DEF u
    <3>2. size < u => ~(size >= u)
      BY <3>1
    <3>. QED
      BY <3>2, Zenon DEF u
  <2>. HIDE DEF n
  <2>2. kh_resize(wanted, e) =>
         \/ /\ size >= HASH_UPPER(n)
            /\ IF e = Nothing THEN reply' = Reply("arrange", Missing, Done) /\ UNCHANGED <<pc, arg>>
                              ELSE pc' = "put" /\ arg' = e /\ UNCHANGED reply
            /\ UNCHANGED <<table, locals>>
         \/ size < HASH_UPPER(n) /\ fail /\ UNCHANGED keys
         \/ size < HASH_UPPER(n) /\ n_buckets < n /\ fail /\ keys' = Realloc(keys, n)
         \/ /\ size < HASH_UPPER(n)
            /\ IF n_buckets < n THEN keys' = Realloc(keys, n) /\ vals' = Realloc(vals, n)
                                ELSE UNCHANGED <<keys, vals>>
            /\ new_n_buckets' = n /\ new_flags' = AllEmpty(n) /\ j' = 0
            /\ pc' = "rehash" /\ arg' = e
            /\ UNCHANGED <<n_buckets, size, n_occupied, upper_bound, flags, hand, reply>>
    BY Zenon DEF kh_resize, n
  <2>. HIDE DEF fail
  <2>3. e # Nothing => size < HASH_UPPER(n)
    BY Zenon DEF n
  <2>. QED
    BY <2>1, <2>2, <2>3
<1>. HIDE DEF n
<1>4. CASE e = Nothing /\ reply' = Reply("arrange", Missing, Done) /\ UNCHANGED <<table, locals, pc, arg>>
  <2>1. KhashInv' /\ Held' = Held
    <3>1. UNCHANGED <<table, pc, locals, arg>>
      BY <1>4
    <3>. QED
      BY <3>1, Unmoved
  <2>. QED
    BY <1>4, <2>1, Zenon
<1>5. CASE fail /\ (keys' = keys \/ (n_buckets < n /\ keys' = Realloc(keys, n)))
  <2>1. KhashInv' /\ Held' = Held
    BY <1>1, <1>5, ResizeFails
  <2>2. reply' = IF e = Nothing THEN Reply("arrange", Missing, OutOfMemory)
                                ELSE Reply("put", e.key, OutOfMemory)
    BY <1>5
  <2>3. \/ e = Nothing /\ \E r \in {Done, OutOfMemory} : reply' = Reply("arrange", Missing, r)
        \/ IsEntry(e) /\ reply' = Reply("put", e.key, OutOfMemory)
    BY <1>2, <2>2, Zenon
  <2>. QED
    BY <2>1, <2>3, Zenon
<1>6. CASE /\ size < HASH_UPPER(n)
           /\ IF n_buckets < n THEN keys' = Realloc(keys, n) /\ vals' = Realloc(vals, n)
                               ELSE UNCHANGED <<keys, vals>>
           /\ new_n_buckets' = n /\ new_flags' = AllEmpty(n) /\ j' = 0
           /\ pc' = "rehash" /\ arg' = e
           /\ UNCHANGED <<n_buckets, size, n_occupied, upper_bound, flags, hand, reply>>
  <2>1. KhashInv' /\ Held' = Held
    BY <1>1, <1>6, ResizeStarts
  <2>. QED
    BY <1>6, <2>1
<1>. HIDE DEF fail
<1>. QED
  BY <1>3, <1>4, <1>5, <1>6, Zenon

\* kh_put up to its search: a resize it asks for is never too small.
LEMMA PutKeeps ==
  ASSUME KhashInv, pc = "ready", reply = NoReply, NEW e, IsEntry(e), kh_put(e)
  PROVE  /\ KhashInv' /\ Held' = Held
         /\ reply' = reply \/ reply' = Reply("put", e.key, OutOfMemory)
<1>1. CASE n_occupied < upper_bound
  <2>1. pc' = "put" /\ arg' = e /\ UNCHANGED <<table, locals, reply>>
    BY <1>1, Zenon DEF kh_put
  <2>. USE DEF table, locals
  <2>2. Holding' = Holding
    BY <2>1 DEF Holding
  <2>3. ArraysFit'
    BY <2>1 DEF KhashInv, ArraysFit
  <2>4. Counted' /\ KeysApart(Holding, keys)'
    BY <2>1, <2>2 DEF KhashInv, Counted
  <2>5. Control'
    BY <1>1, <2>1 DEF Control
  <2>6. Resting'
    BY <2>1 DEF KhashInv, Resting
  <2>7. Held' = Held
    <3>1. InHand' = InHand /\ keys' = keys /\ vals' = vals
      BY <2>1 DEF InHand
    <3>. QED
      BY <2>2, <3>1, HeldIs, HeldNext, Zenon
  <2>8. ~(pc' \in {"rehash", "kick"}) /\ pc' # "kick" /\ reply' = reply
    BY <2>1
  <2>. QED
    BY <2>3, <2>4, <2>5, <2>6, <2>7, <2>8, Zenon DEF KhashInv
<1>2. CASE ~(n_occupied < upper_bound)
  <2>. DEFINE wanted == IF n_buckets > 2 * size THEN n_buckets - 1 ELSE n_buckets + 1
              m == RoundedUp(wanted)
  <2>1. kh_resize(wanted, e)
    BY <1>2, Zenon DEF kh_put
  <2>2. n_buckets \in Nat /\ size \in Nat /\ n_occupied \in Nat /\ upper_bound \in Nat
    BY Numbers
  <2>3. wanted \in Nat
    BY <2>2
  <2>. HIDE DEF wanted
  <2>4. Sized(m) /\ m >= wanted
    BY <2>3, RoundedUpSized, Zenon
  <2>. HIDE DEF m
  <2>5. m \in Nat /\ m >= 4 /\ m \in PowerOfTwo
    BY <2>4 DEF Sized
  <2>6. size <= HASH_UPPER(n_buckets)
    <3>1. Live(flags, n_buckets) \subseteq Filled(flags, n_buckets)
      BY DEF Live, Filled
    <3>2. IsFiniteSet(Filled(flags, n_buckets))
      BY Numbers
    <3>3. Cardinality(Live(flags, n_buckets)) <= Cardinality(Filled(flags, n_buckets))
      BY <3>1, <3>2, FS_Subset, Zenon
    <3>4. size <= n_occupied /\ n_occupied <= upper_bound
      BY <3>3, AtRest DEF KhashInv, Counted
    <3>5. size <= upper_bound
      BY <2>2, <3>4
    <3>. QED
      BY <3>5, Zenon DEF KhashInv, Counted
  <2>7. size < HASH_UPPER(m)
    <3>1. CASE n_buckets > 2 * size
      <4>1. wanted = n_buckets - 1
        BY <3>1, Zenon DEF wanted
      <4>2. n_buckets >= 4
        <5>1. n_buckets # 0
          BY <2>2, <3>1
        <5>. QED
          BY <5>1, Zenon DEF KhashInv, ArraysFit, Sized
      <4>. QED
        BY <2>2, <2>4, <2>5, <3>1, <4>1, <4>2, ClearingHasRoom
    <3>2. CASE ~(n_buckets > 2 * size)
      <4>1. wanted = n_buckets + 1
        BY <3>2, Zenon DEF wanted
      <4>2. m >= 2 * n_buckets
        <5>1. CASE n_buckets = 0
          BY <2>5, <5>1
        <5>2. CASE n_buckets # 0
          <6>1. n_buckets \in PowerOfTwo
            BY <5>2, Zenon DEF KhashInv, ArraysFit, Sized
          <6>2. n_buckets < m
            BY <2>2, <2>4, <2>5, <4>1
          <6>3. 2 * n_buckets <= m
            BY <2>5, <6>1, <6>2, NextPower, Zenon
          <6>. QED
            BY <2>2, <2>5, <6>3
        <5>. QED
          BY <5>1, <5>2
      <4>. QED
        BY <2>2, <2>5, <2>6, <4>2, GrowingHasRoom
    <3>. QED
      BY <3>1, <3>2
  <2>8. IsEntry(e) /\ size < HASH_UPPER(RoundedUp(wanted)) /\ e # Nothing
    BY <2>7, EntryNotNothing, Zenon DEF m
  <2>. QED
    BY <2>1, <2>3, <2>8, ResizeKeeps, Zenon
<1>. QED
  BY <1>1, <1>2

\* The entries of other keys
Without(E, k) == {e \in E : e.key # k}

\* Without the key of bucket b
Lacks(S, b, ks, vs, k) == Without(InBuckets(S, ks, vs), k) = InBuckets(S \ {b}, ks, vs)

\* No other bucket has the key.
LEMMA BucketsWithout ==
  ASSUME NEW S, NEW b, NEW ks, NEW k, KeyFree(S, b, ks, k), b \in S => ks[b] = k, NEW vs
  PROVE  Lacks(S, b, ks, vs, k)
<1>1. \A x \in S : Entry(ks[x], vs[x]).key = ks[x]
  BY EntryFields, Zenon
<1>2. \A x \in S : ks[x] # k <=> x # b
  BY Zenon DEF KeyFree
<1>3. ASSUME NEW e \in InBuckets(S, ks, vs), e.key # k PROVE e \in InBuckets(S \ {b}, ks, vs)
  <2>1. PICK x \in S : e = Entry(ks[x], vs[x])
    BY DEF InBuckets
  <2>2. x # b
    BY <1>1, <1>2, <1>3, <2>1, Zenon
  <2>. QED
    BY <2>1, <2>2 DEF InBuckets
<1>4. ASSUME NEW e \in InBuckets(S \ {b}, ks, vs) PROVE e \in InBuckets(S, ks, vs) /\ e.key # k
  <2>1. PICK x \in S \ {b} : e = Entry(ks[x], vs[x])
    BY DEF InBuckets
  <2>2. e.key # k
    BY <1>1, <1>2, <2>1, Zenon
  <2>. QED
    BY <2>1, <2>2 DEF InBuckets
<1>. QED
  BY <1>3, <1>4 DEF Without, Lacks

\* kh_get and kh_put find their keys in a table at rest.
LEMMA FindsAtRest ==
  ASSUME KhashInv, pc \in {"ready", "put"} PROVE OnceEach /\ AllReached
<1>1. KeysApart(Live(flags, n_buckets), keys)
  BY AtRest, Zenon
<1>2. Reached(flags, n_buckets, keys)
  BY Zenon DEF KhashInv, Resting
<1>. QED
  BY <1>1, <1>2, Zenon DEF OnceEach, AllReached, KeysApart, Reached

\* The rest of kh_put
LEMMA InsertKeeps ==
  ASSUME KhashInv, Insert
  PROVE  /\ KhashInv' /\ Held' = Without(Held, arg.key) \cup {arg} /\ IsEntry(arg)
         /\ reply = NoReply /\ reply' = Reply("put", arg.key, Done)
<1>. DEFINE k == arg.key
            x == PutSite(k)
            n == n_buckets
            Old == Live(flags, n)
<1>1. /\ pc = "put"
      /\ IF iseither(flags, x)
           THEN /\ keys' = [keys EXCEPT ![x] = k]
                /\ flags' = [flags EXCEPT ![x] = {}]
                /\ size' = size + 1
                /\ n_occupied' = IF isempty(flags, x) THEN n_occupied + 1 ELSE n_occupied
           ELSE UNCHANGED <<keys, flags, size, n_occupied>>
      /\ vals' = [vals EXCEPT ![x] = arg.val]
      /\ reply' = Reply("put", k, Done)
      /\ pc' = "ready" /\ arg' = Nothing
      /\ UNCHANGED <<n_buckets, upper_bound, locals>>
  BY Zenon DEF Insert
<1>2. /\ IsEntry(arg) /\ n_occupied < upper_bound /\ reply = NoReply /\ ArraysFit /\ Resting
      /\ KeysApart(Holding, keys)
  BY <1>1 DEF KhashInv, Control
<1>3. k \in Key /\ k \in Int /\ arg = Entry(k, arg.val)
  BY <1>2, EntryNotNothing, KeyAssumption
<1>4. /\ n \in Nat /\ size \in Nat /\ n_occupied \in Nat /\ upper_bound \in Nat
      /\ IsFiniteSet(Holding) /\ Cardinality(Holding) \in Nat /\ IsFiniteSet(Filled(flags, n))
  BY Numbers
<1>5. n # 0
  <2>1. upper_bound = HASH_UPPER(n)
    BY Zenon DEF KhashInv, Counted
  <2>2. upper_bound # 0
    BY <1>2, <1>4
  <2>. QED
    BY <2>1, <2>2, UpperOfNone
<1>6. Searchable /\ Sized(n) /\ flags \in [0 .. n - 1 -> Flag]
  BY <1>5, RoomToSearch, Zenon DEF Searchable
<1>7. Chooses(k, x)
  BY <1>1, <1>3, <1>6, FindsAtRest, PutChooses
<1>. HIDE DEF x
<1>8. /\ x \in 0 .. n - 1 /\ Reach(flags, n, k, x)
      /\ Holds(x, k) \/ (flags[x] # {} /\ \A y : ~Holds(y, k))
  BY <1>7, Zenon DEF Chooses
<1>9. /\ Holding = Old /\ new_n_buckets = 0 /\ InHand = {} /\ Old \subseteq 0 .. n - 1
      /\ size = Cardinality(Holding)
  BY <1>1, AtRest
<1>10. /\ 0 .. n - 1 \subseteq DOMAIN keys /\ 0 .. n - 1 \subseteq DOMAIN vals
       /\ x \in DOMAIN keys /\ x \in DOMAIN vals
  BY <1>2, <1>8, Zenon DEF ArraysFit
<1>11. /\ SameBut(Old, x, vals, vals') /\ vals'[x] = arg.val
       /\ 0 .. n - 1 \subseteq DOMAIN vals'
  BY <1>1, <1>9, <1>10 DEF SameBut
<1>12. /\ Holding' = Live(flags, n)' /\ n_buckets' = n /\ new_n_buckets' = 0
       /\ InHand' = {} /\ pc' = "ready" /\ arg' = Nothing
  <2>1. n_buckets' = n /\ new_n_buckets' = 0
    BY <1>1, <1>9 DEF locals
  <2>2. Live(new_flags, new_n_buckets)' = {}
    BY <2>1 DEF Live
  <2>. QED
    BY <1>1, <2>1, <2>2 DEF Holding, InHand
<1>13. Old' = Old \cup {x} /\ KeyFree(Old, x, keys, k) /\ (x \in Old => keys[x] = k)
      /\ SameBut(Old, x, keys, keys') /\ keys'[x] = k
      /\ 0 .. n - 1 \subseteq DOMAIN keys'
      /\ flags' \in [0 .. n - 1 -> Flag] /\ Filled(flags, n) \subseteq Filled(flags', n)
      /\ size' = Cardinality(Holding') /\ n_occupied' = Cardinality(Filled(flags', n))
      /\ n_occupied' <= upper_bound
  <2>1. CASE Holds(x, k)
    <3>1. flags[x] = {} /\ keys[x] = k /\ x \in Old
      BY <2>1 DEF Holds, Live
    <3>2. UNCHANGED <<keys, flags, size, n_occupied>>
      BY <1>1, <3>1 DEF iseither
    <3>3. KeyFree(Old, x, keys, k)
      BY <1>2, <1>9, <3>1 DEF KeyFree, KeysApart
    <3>4. Old' = Old /\ Old = Old \cup {x}
      BY <1>12, <3>1, <3>2
    <3>5. SameBut(Old, x, keys, keys')
      BY <3>2 DEF SameBut
    <3>6. Holding' = Holding
      BY <1>9, <1>12, <3>4, Zenon
    <3>7. n_occupied = Cardinality(Filled(flags, n)) /\ n_occupied <= upper_bound
      BY Zenon DEF KhashInv, Counted
    <3>8. n_occupied' = n_occupied /\ size' = size /\ flags' = flags /\ keys' = keys
      BY <3>2
    <3>9. Filled(flags, n) \subseteq Filled(flags', n)
      BY <3>8
    <3>10. Old' = Old \cup {x}
      BY <3>4, Zenon
    <3>. QED
      BY <1>6, <1>9, <1>10, <3>1, <3>3, <3>5, <3>6, <3>7, <3>8, <3>9, <3>10, Zenon
  <2>2. CASE flags[x] # {} /\ \A y : ~Holds(y, k)
    <3>1. /\ keys' = [keys EXCEPT ![x] = k] /\ flags' = [flags EXCEPT ![x] = {}]
          /\ size' = size + 1
          /\ n_occupied' = IF isempty(flags, x) THEN n_occupied + 1 ELSE n_occupied
      BY <1>1, <2>2 DEF iseither
    <3>2. x \notin Old
      BY <2>2 DEF Live
    <3>3. /\ flags' \in [0 .. n - 1 -> Flag] /\ Live(flags', n) = Old \cup {x}
          /\ Filled(flags', n) = Filled(flags, n) \cup {x}
      <4>1. {} \in Flag /\ {} # {"empty"}
        BY DEF Flag
      <4>. QED
        BY <1>4, <1>6, <1>8, <3>1, <4>1 DEF Live, Filled
    <3>4. Old' = Old \cup {x}
      BY <1>12, <3>3
    <3>5. KeyFree(Old, x, keys, k)
      BY <2>2, Zenon DEF KeyFree, Holds
    <3>6. SameBut(Old, x, keys, keys') /\ keys'[x] = k /\ DOMAIN keys' = DOMAIN keys
      BY <1>9, <1>10, <3>1 DEF SameBut
    <3>7. size' = Cardinality(Holding')
      <4>1. Cardinality(Holding \cup {x}) = Cardinality(Holding) + 1
        BY <1>4, <1>9, <3>2, FS_AddElement, Zenon
      <4>. QED
        BY <1>9, <1>12, <3>1, <3>4, <4>1, Zenon
    <3>8. n_occupied' = Cardinality(Filled(flags', n)) /\ n_occupied' <= upper_bound
      <4>1. n_occupied = Cardinality(Filled(flags, n))
        BY Zenon DEF KhashInv, Counted
      <4>2. isempty(flags, x) <=> flags[x] = {"empty"}
        <5>1. flags[x] \in Flag
          BY <1>6, <1>8
        <5>. QED
          BY <5>1, Bits, Zenon
      <4>3. flags[x] = {"empty"} <=> x \notin Filled(flags, n)
        BY <1>8 DEF Filled
      <4>4. CASE x \notin Filled(flags, n)
        <5>1. Cardinality(Filled(flags, n) \cup {x}) = Cardinality(Filled(flags, n)) + 1
          BY <1>4, <4>4, FS_AddElement, Zenon
        <5>2. n_occupied' = n_occupied + 1
          BY <3>1, <4>2, <4>3, <4>4, Zenon
        <5>3. n_occupied' <= upper_bound
          BY <1>2, <1>4, <5>2
        <5>. QED
          BY <3>3, <4>1, <5>1, <5>2, <5>3, Zenon
      <4>5. CASE x \in Filled(flags, n)
        <5>1. Filled(flags, n) \cup {x} = Filled(flags, n)
          BY <4>5
        <5>2. n_occupied' = n_occupied
          BY <3>1, <4>2, <4>3, <4>5, Zenon
        <5>3. n_occupied' <= upper_bound
          BY <1>2, <1>4, <5>2
        <5>. QED
          BY <3>3, <4>1, <5>1, <5>2, <5>3, Zenon
      <4>. QED
        BY <4>4, <4>5
    <3>9. Filled(flags, n) \subseteq Filled(flags', n)
      BY <3>3
    <3>. QED
      BY <1>10, <3>2, <3>3, <3>4, <3>5, <3>6, <3>7, <3>8, <3>9, Zenon
  <2>. QED
    BY <1>8, <2>1, <2>2, Zenon
<1>14. ArraysFit'
  BY <1>2, <1>11, <1>12, <1>13 DEF ArraysFit
<1>15. Counted'
  <2>1. upper_bound' = HASH_UPPER(n) /\ upper_bound' = upper_bound
    BY <1>1 DEF KhashInv, Counted
  <2>2. size' = Cardinality(Holding') + 0
    <3>1. size' = Cardinality(Holding')
      BY <1>13, Zenon
    <3>2. IsFiniteSet(Holding')
      <4>1. Holding' = Old \cup {x} /\ IsFiniteSet(Old)
        BY <1>4, <1>9, <1>12, <1>13, Zenon
      <4>. QED
        BY <4>1, FS_AddElement, Zenon
    <3>3. Cardinality(Holding') \in Nat
      BY <3>2, FS_CardinalityType, Zenon
    <3>. QED
      BY <3>1, <3>3
  <2>3. pc' # "kick"
    BY <1>12
  <2>. QED
    BY <1>12, <1>13, <2>1, <2>2, <2>3 DEF Counted
<1>16. KeysApart(Holding, keys)'
  <2>1. KeysApart(Old \cup {x}, keys')
    BY <1>2, <1>3, <1>9, <1>13, KeyAdded, Zenon
  <2>2. Holding' = Old \cup {x}
    BY <1>12, <1>13, Zenon
  <2>. QED
    BY <2>1, <2>2
<1>17. Control'
  BY <1>12 DEF Control
<1>18. Resting'
  <2>1. Reached(flags', n, keys')
    <3>1. n \in PowerOfTwo /\ n \in Nat \ {0}
      BY <1>6 DEF Sized
    <3>2. Reached(flags, n, keys) /\ KeysApart(Live(flags, n), keys)
      BY <1>2, <1>9, Zenon DEF Resting
    <3>3. \A y \in Live(flags, n) : y # x => keys'[y] = keys[y]
      BY <1>13, Zenon DEF SameBut
    <3>4. Live(flags', n) \subseteq Live(flags, n) \cup {x}
      BY <1>12, <1>13
    <3>5. Filled(flags, n) \subseteq Filled(flags', n) /\ keys'[x] = k
      BY <1>13, Zenon
    <3>. QED
      BY <1>3, <1>8, <3>1, <3>2, <3>3, <3>4, <3>5, ReachedAdded, Zenon
  <2>. QED
    BY <1>12, <2>1 DEF Resting
<1>19. Held' = Without(Held, k) \cup {arg}
  <2>1. Held = InBuckets(Old, keys, vals) \cup {} /\ Held' = InBuckets(Old \cup {x}, keys', vals') \cup {}
    BY <1>9, <1>12, <1>13, HeldIs, HeldNext, Zenon
  <2>2. Held = InBuckets(Old, keys, vals) /\ Held' = InBuckets(Old \cup {x}, keys', vals')
    BY <2>1
  <2>3. Fills(Old, x, keys, vals, keys', vals')
    BY <1>11, <1>13, OneBucket, Zenon
  <2>4. Lacks(Old, x, keys, vals, k)
    BY <1>13, BucketsWithout, Zenon
  <2>5. Entry(keys'[x], vals'[x]) = arg
    BY <1>3, <1>11, <1>13, Zenon
  <2>. QED
    BY <2>2, <2>3, <2>4, <2>5, Zenon DEF Fills, Lacks
<1>20. ~(pc' \in {"rehash", "kick"}) /\ pc' # "kick"
  BY <1>12
<1>. QED
  BY <1>1, <1>2, <1>14, <1>15, <1>16, <1>17, <1>18, <1>19, <1>20, Zenon DEF KhashInv

\* What kh_get of key k answers
FoundRight(k) ==
  \/ \E x \in Holding : keys[x] = k /\ Found(k) = vals[x]
  \/ (\A x \in Holding : keys[x] # k) /\ Found(k) = Missing

\* kh_get answers the bucket of a key, or the end.
LEMMA GetsKey ==
  ASSUME KhashInv, pc = "ready", NEW k \in Key
  PROVE  Gets(k, kh_get(k)) /\ FoundRight(k)
<1>1. Gets(k, kh_get(k))
  <2>1. CASE n_buckets = 0
    <3>1. kh_get(k) = n_buckets
      BY <2>1, Zenon DEF kh_get
    <3>2. \A y : ~Holds(y, k)
      BY <2>1 DEF Holds, Live
    <3>. QED
      BY <3>1, <3>2, Zenon DEF Gets
  <2>2. CASE n_buckets # 0
    <3>1. Searchable
      BY <2>2, RoomToSearch, Zenon
    <3>2. OnceEach /\ AllReached /\ k \in Int
      BY FindsAtRest, KeyAssumption
    <3>. QED
      BY <3>1, <3>2, GetAnswers, Zenon
  <2>. QED
    BY <2>1, <2>2
<1>2. Holding = Live(flags, n_buckets)
  BY AtRest
<1>. DEFINE x == kh_get(k)
<1>3. Found(k) = IF x = n_buckets THEN Missing ELSE vals[x]
  BY Zenon DEF Found
<1>4. CASE x = n_buckets
  BY <1>1, <1>2, <1>3, <1>4, Zenon DEF Gets, Holds, FoundRight
<1>5. CASE x # n_buckets
  BY <1>1, <1>2, <1>3, <1>5, Zenon DEF Gets, Holds, FoundRight
<1>. QED
  BY <1>1, <1>4, <1>5, Zenon

\* kh_del takes the key out, whether it was there or not.
LEMMA DelKeeps ==
  ASSUME KhashInv, pc = "ready", NEW k \in Key, kh_del(k)
  PROVE  KhashInv' /\ Held' = Without(Held, k)
<1>. DEFINE x == kh_get(k)
            n == n_buckets
            Old == Live(flags, n)
<1>1. /\ IF x # n /\ ~iseither(flags, x)
           THEN flags' = [flags EXCEPT ![x] = {"del"}] /\ size' = size - 1
           ELSE UNCHANGED <<flags, size>>
      /\ UNCHANGED <<n_buckets, n_occupied, upper_bound, keys, vals, pc, locals, arg>>
  BY Zenon DEF kh_del
<1>2. Gets(k, x)
  BY GetsKey, Zenon
<1>. HIDE DEF x
<1>3. /\ n \in Nat /\ flags \in [0 .. n - 1 -> Flag] /\ KeysApart(Old, keys)
      /\ Holding = Old /\ InHand = {} /\ new_n_buckets = 0
      /\ Reached(flags, n, keys) /\ size = Cardinality(Holding)
  BY AtRest DEF KhashInv, ArraysFit, Resting
<1>4. CASE x = n
  <2>1. UNCHANGED <<table, pc, locals, arg>>
    BY <1>1, <1>4 DEF table
  <2>2. KhashInv' /\ Held' = Held
    BY <2>1, Unmoved
  <2>3. KeyFree(Old, n, keys, k)
    BY <1>2, <1>4, Zenon DEF Gets, Holds, KeyFree
  <2>4. n \notin Old
    BY <1>3 DEF Live
  <2>5. Lacks(Old, n, keys, vals, k)
    BY <2>3, <2>4, BucketsWithout, Zenon
  <2>6. Old \ {n} = Old /\ Held = InBuckets(Old, keys, vals)
    BY <1>3, <2>4, HeldIs
  <2>. QED
    BY <2>2, <2>5, <2>6, Zenon DEF Lacks
<1>5. CASE x # n
  <2>1. x \in Old /\ keys[x] = k /\ x \in 0 .. n - 1 /\ flags[x] = {}
    BY <1>2, <1>5 DEF Gets, Holds, Live
  <2>2. flags' = [flags EXCEPT ![x] = {"del"}] /\ size' = size - 1
    BY <1>1, <1>5, <2>1 DEF iseither
  <2>3. /\ flags' \in [0 .. n - 1 -> Flag] /\ Live(flags', n) = Old \ {x}
        /\ Filled(flags', n) = Filled(flags, n)
    BY <1>3, <2>1, <2>2, SetDeleted, Zenon
  <2>4. Holding' = Old \ {x} /\ n_buckets' = n /\ new_n_buckets' = 0 /\ InHand' = {} /\ pc' = "ready"
    <3>1. n_buckets' = n /\ new_n_buckets' = 0 /\ pc' = "ready"
      BY <1>1, <1>3 DEF locals
    <3>2. Live(new_flags, new_n_buckets)' = {}
      BY <3>1 DEF Live
    <3>. QED
      BY <2>3, <3>1, <3>2 DEF Holding, InHand
  <2>5. ArraysFit'
    BY <1>1, <2>3 DEF KhashInv, ArraysFit
  <2>6. Counted'
    <3>1. IsFiniteSet(Holding) /\ Cardinality(Holding) \in Nat
      BY Numbers
    <3>2. Cardinality(Holding \ {x}) = Cardinality(Holding) - 1
      BY <1>3, <2>1, <3>1, FS_RemoveElement, Zenon
    <3>3. size' = Cardinality(Holding')
      BY <1>3, <2>2, <2>4, <3>2, Zenon
    <3>4. IsFiniteSet(Holding')
      BY <1>3, <2>4, <3>1, FS_RemoveElement, Zenon
    <3>5. Cardinality(Holding') \in Nat
      BY <3>4, FS_CardinalityType, Zenon
    <3>6. size' = Cardinality(Holding') + (IF pc' = "kick" THEN 1 ELSE 0)
      BY <2>4, <3>3, <3>5
    <3>. QED
      BY <1>1, <2>3, <2>4, <3>6 DEF KhashInv, Counted
  <2>7. KeysApart(Holding, keys)'
    <3>1. KeysApart(Old \ {x}, keys)
      BY <1>3, Zenon DEF KeysApart
    <3>. QED
      BY <1>1, <2>4, <3>1
  <2>8. Control'
    BY <1>1, <2>4 DEF KhashInv, Control
  <2>9. Resting'
    <3>1. n \in PowerOfTwo /\ n \in Nat \ {0}
      <4>1. n # 0
        BY <2>1
      <4>. QED
        BY <4>1 DEF KhashInv, ArraysFit, Sized
    <3>2. Live(flags', n) \subseteq Live(flags, n) /\ Filled(flags, n) \subseteq Filled(flags', n)
      BY <2>3
    <3>3. Reached(flags', n, keys)
      BY <1>3, <3>1, <3>2, ReachedKept, Zenon
    <3>. QED
      BY <1>1, <2>4, <3>3 DEF Resting
  <2>10. Held' = Without(Held, k)
    <3>1. KeyFree(Old, x, keys, k)
      BY <1>3, <2>1, Zenon DEF KeyFree, KeysApart
    <3>2. Lacks(Old, x, keys, vals, k)
      BY <2>1, <3>1, BucketsWithout, Zenon
    <3>3. keys' = keys /\ vals' = vals
      BY <1>1
    <3>4. Held = InBuckets(Old, keys, vals) \cup {} /\ Held' = InBuckets(Old \ {x}, keys, vals) \cup {}
      BY <1>3, <2>4, <3>3, HeldIs, HeldNext, Zenon
    <3>5. Held = InBuckets(Old, keys, vals) /\ Held' = InBuckets(Old \ {x}, keys, vals)
      BY <3>4
    <3>. QED
      BY <3>2, <3>5, Zenon DEF Lacks
  <2>11. ~(pc' \in {"rehash", "kick"}) /\ pc' # "kick"
    BY <2>4
  <2>. QED
    BY <2>5, <2>6, <2>7, <2>8, <2>9, <2>10, <2>11, Zenon DEF KhashInv
<1>. QED
  BY <1>4, <1>5

\* An empty table: kh_clear, kh_destroy with kh_init, and the initial state
LEMMA EmptyTable ==
  ASSUME NEW n \in Nat, n = 0 \/ Sized(n)
  PROVE  /\ AllEmpty(n) \in [0 .. n - 1 -> Flag]
         /\ Live(AllEmpty(n), n) = {} /\ Filled(AllEmpty(n), n) = {}
         /\ Cardinality({}) = 0 /\ HASH_UPPER(n) \in Nat /\ 0 <= HASH_UPPER(n)
<1>1. Cardinality({}) = 0
  BY FS_EmptySet
<1>2. HASH_UPPER(n) \in Nat
  BY SMT DEF HASH_UPPER
<1>. DEFINE u == HASH_UPPER(n)
<1>3. u \in Nat
  BY <1>2, Zenon
<1>. HIDE DEF u
<1>4. 0 <= u
  BY <1>3
<1>. QED
  BY <1>1, <1>2, <1>4, NoneLive, Zenon DEF u

\* kh_clear, and kh_destroy with kh_init after it, leave no entry.
LEMMA ClearKeeps ==
  ASSUME KhashInv, pc = "ready", NEW n, n = 0 \/ n = n_buckets,
         flags' = AllEmpty(n), size' = 0, n_occupied' = 0, n_buckets' = n,
         upper_bound' = HASH_UPPER(n), UNCHANGED <<pc, locals, arg>>,
         n = 0 \/ UNCHANGED <<keys, vals>>
  PROVE  KhashInv' /\ Held' = {}
<1>1. n \in Nat /\ (n = 0 \/ Sized(n)) /\ new_n_buckets' = 0 /\ pc' = "ready"
  <2>1. n \in Nat /\ (n = 0 \/ Sized(n))
    <3>1. 0 \in Nat
      OBVIOUS
    <3>. QED
      BY <3>1, Zenon DEF KhashInv, ArraysFit
  <2>2. new_n_buckets = 0
    BY AtRest
  <2>. QED
    BY <2>1, <2>2 DEF locals
<1>2. /\ AllEmpty(n) \in [0 .. n - 1 -> Flag]
      /\ Live(AllEmpty(n), n) = {} /\ Filled(AllEmpty(n), n) = {}
      /\ Cardinality({}) = 0 /\ HASH_UPPER(n) \in Nat /\ 0 <= HASH_UPPER(n)
  BY <1>1, EmptyTable, Zenon
<1>3. Holding' = {} /\ InHand' = {} /\ Filled(flags, n_buckets)' = {}
  <2>1. Live(flags, n_buckets)' = {} /\ Filled(flags, n_buckets)' = {}
    BY <1>2
  <2>2. Live(new_flags, new_n_buckets)' = {}
    BY <1>1 DEF Live
  <2>. QED
    BY <1>1, <2>1, <2>2 DEF Holding, InHand
<1>4. ArraysFit'
  <2>1. CASE n = 0
    BY <1>1, <1>2, <2>1 DEF ArraysFit
  <2>2. CASE n # 0
    BY <1>1, <1>2, <2>2 DEF ArraysFit, KhashInv
  <2>. QED
    BY <2>1, <2>2
<1>5. Counted'
  BY <1>1, <1>2, <1>3 DEF Counted
<1>6. KeysApart(Holding, keys)'
  BY <1>3 DEF KeysApart
<1>7. Control'
  BY <1>1 DEF KhashInv, Control
<1>8. Resting'
  <2>1. Reached(flags', n_buckets', keys')
    BY <1>2 DEF Reached
  <2>. QED
    BY <1>1, <2>1 DEF Resting
<1>9. Held' = {}
  <2>1. Held' = InBuckets({}, keys', vals') \cup {}
    BY <1>3, HeldNext, Zenon
  <2>. QED
    BY <2>1 DEF InBuckets
<1>10. ~(pc' \in {"rehash", "kick"}) /\ pc' # "kick"
  BY <1>1
<1>. QED
  BY <1>4, <1>5, <1>6, <1>7, <1>8, <1>9, <1>10, Zenon DEF KhashInv

\* kh_init makes an empty table.
LEMMA InitHolds == ASSUME KhashInit PROVE KhashInv /\ Held = {}
<1>1. /\ n_buckets = 0 /\ size = 0 /\ n_occupied = 0 /\ upper_bound = 0
      /\ flags = AllEmpty(0) /\ pc = "ready" /\ arg = Nothing /\ new_n_buckets = 0
  BY DEF KhashInit, kh_init
<1>2. /\ AllEmpty(0) \in [0 .. 0 - 1 -> Flag]
      /\ Live(AllEmpty(0), 0) = {} /\ Filled(AllEmpty(0), 0) = {}
      /\ Cardinality({}) = 0
  BY EmptyTable
<1>3. Holding = {} /\ InHand = {} /\ Filled(flags, n_buckets) = {}
  <2>1. Live(new_flags, new_n_buckets) = {}
    BY <1>1 DEF Live
  <2>. QED
    BY <1>1, <1>2, <2>1 DEF Holding, InHand
<1>4. ArraysFit
  BY <1>1, <1>2 DEF ArraysFit
<1>5. Counted
  <2>1. size = Cardinality(Holding) /\ n_occupied = Cardinality(Filled(flags, n_buckets))
    BY <1>1, <1>2, <1>3, Zenon
  <2>2. upper_bound = HASH_UPPER(n_buckets)
    BY <1>1, UpperOfNone, Zenon
  <2>3. n_occupied <= upper_bound
    BY <1>1
  <2>4. size + 0 = size /\ pc # "kick"
    BY <1>1
  <2>5. size = Cardinality(Holding) + (IF pc = "kick" THEN 1 ELSE 0)
    BY <2>1, <2>4, Zenon
  <2>. QED
    BY <2>1, <2>2, <2>3, <2>5, Zenon DEF Counted
<1>6. KeysApart(Holding, keys)
  BY <1>3 DEF KeysApart
<1>7. Control
  BY <1>1 DEF Control
<1>8. Resting
  BY <1>1, <1>2 DEF Resting, Reached
<1>9. Held = {}
  <2>1. Held = InBuckets({}, keys, vals) \cup {}
    BY <1>3, HeldIs, Zenon
  <2>. QED
    BY <2>1 DEF InBuckets
<1>. QED
  BY <1>1, <1>4, <1>5, <1>6, <1>7, <1>8, <1>9 DEF KhashInv
-----------------------------------------------------------------------------
(* The map that a set of entries stands for *)

\* One entry for each key
Functional(E) == \A d, e \in E : d.key = e.key => d = e

\* A map is determined by its keys and their values.
LEMMA MapIsFunction ==
  ASSUME NEW E PROVE MapOf(E) = [l \in DOMAIN MapOf(E) |-> MapOf(E)[l]]
  BY DEF MapOf

\* The map of a set of entries, key by key
LEMMA MapAt ==
  ASSUME NEW E, Functional(E)
  PROVE  /\ DOMAIN MapOf(E) = {e.key : e \in E}
         /\ \A e \in E : MapOf(E)[e.key] = e.val
<1>1. DOMAIN MapOf(E) = {e.key : e \in E}
  BY DEF MapOf
<1>2. ASSUME NEW e \in E PROVE MapOf(E)[e.key] = e.val
  <2>. DEFINE d == CHOOSE c \in E : c.key = e.key
  <2>1. d \in E /\ d.key = e.key
    BY Zenon
  <2>2. d = e
    BY <2>1, Zenon DEF Functional
  <2>3. MapOf(E)[e.key] = d.val
    BY DEF MapOf
  <2>. QED
    BY <2>2, <2>3, Zenon
<1>. QED
  BY <1>1, <1>2

\* kh_del on the map
LEMMA MapDel ==
  ASSUME NEW E, Functional(E), NEW k
  PROVE  MapOf(Without(E, k)) = [l \in DOMAIN MapOf(E) \ {k} |-> MapOf(E)[l]]
<1>. DEFINE F == Without(E, k)
            G == [l \in DOMAIN MapOf(E) \ {k} |-> MapOf(E)[l]]
<1>1. F \subseteq E /\ \A e \in E : e \in F <=> e.key # k
  BY DEF Without
<1>2. Functional(F)
  BY <1>1, Zenon DEF Functional
<1>3. DOMAIN MapOf(F) = {e.key : e \in F} /\ \A e \in F : MapOf(F)[e.key] = e.val
  BY <1>2, MapAt, Zenon
<1>4. DOMAIN MapOf(E) = {e.key : e \in E} /\ \A e \in E : MapOf(E)[e.key] = e.val
  BY MapAt, Zenon
<1>5. {e.key : e \in F} = {e.key : e \in E} \ {k}
  <2>. HIDE DEF F
  <2>. QED
    BY <1>1, Zenon
<1>6. DOMAIN MapOf(F) = DOMAIN G
  <2>1. DOMAIN G = DOMAIN MapOf(E) \ {k}
    OBVIOUS
  <2>. QED
    BY <1>3, <1>4, <1>5, <2>1, Zenon
<1>7. ASSUME NEW l \in DOMAIN MapOf(F) PROVE MapOf(F)[l] = G[l]
  <2>1. PICK e \in F : l = e.key
    BY <1>3, Zenon
  <2>2. MapOf(F)[l] = e.val /\ MapOf(E)[l] = e.val
    BY <1>1, <1>3, <1>4, <2>1, Zenon
  <2>3. G[l] = MapOf(E)[l]
    <3>1. l \in DOMAIN MapOf(E) \ {k}
      BY <1>3, <1>4, <1>5, Zenon
    <3>. QED
      BY <3>1
  <2>. QED
    BY <2>2, <2>3, Zenon
<1>8. MapOf(F) = [l \in DOMAIN MapOf(F) |-> MapOf(F)[l]]
  BY MapIsFunction, Zenon
<1>9. G = [l \in DOMAIN G |-> G[l]]
  OBVIOUS
<1>. HIDE DEF F, G
<1>10. MapOf(F) = G
  BY <1>6, <1>7, <1>8, <1>9
<1>. QED
  BY <1>10, Zenon DEF F, G

\* kh_put on the map
LEMMA MapPut ==
  ASSUME NEW E, Functional(E), NEW a
  PROVE  MapOf(Without(E, a.key) \cup {a}) =
           [l \in DOMAIN MapOf(E) \cup {a.key} |-> IF l = a.key THEN a.val ELSE MapOf(E)[l]]
<1>. DEFINE k == a.key
            F == Without(E, k) \cup {a}
            G == [l \in DOMAIN MapOf(E) \cup {k} |-> IF l = k THEN a.val ELSE MapOf(E)[l]]
<1>1. a \in F /\ \A e : e \in F <=> e = a \/ (e \in E /\ e.key # k)
  BY DEF Without
<1>. HIDE DEF F
<1>2. Functional(F)
  BY <1>1, Zenon DEF Functional
<1>3. DOMAIN MapOf(F) = {e.key : e \in F} /\ \A e \in F : MapOf(F)[e.key] = e.val
  BY <1>2, MapAt, Zenon
<1>4. DOMAIN MapOf(E) = {e.key : e \in E} /\ \A e \in E : MapOf(E)[e.key] = e.val
  BY MapAt, Zenon
<1>5. {e.key : e \in F} = {e.key : e \in E} \cup {k}
  BY <1>1, Zenon
<1>6. DOMAIN MapOf(F) = DOMAIN G
  <2>1. DOMAIN G = DOMAIN MapOf(E) \cup {k}
    OBVIOUS
  <2>. QED
    BY <1>3, <1>4, <1>5, <2>1, Zenon
<1>7. ASSUME NEW l \in DOMAIN MapOf(F) PROVE MapOf(F)[l] = G[l]
  <2>0. l \in DOMAIN MapOf(E) \cup {k}
    BY <1>3, <1>4, <1>5, Zenon
  <2>1. CASE l = k
    <3>1. MapOf(F)[l] = a.val
      BY <1>1, <1>3, <2>1, Zenon
    <3>2. G[l] = a.val
      BY <2>0, <2>1
    <3>. QED
      BY <3>1, <3>2, Zenon
  <2>2. CASE l # k
    <3>1. PICK e \in F : l = e.key
      BY <1>3, Zenon
    <3>2. e \in E
      BY <1>1, <2>2, <3>1, Zenon
    <3>3. MapOf(F)[l] = e.val /\ MapOf(E)[l] = e.val
      BY <1>3, <1>4, <3>1, <3>2, Zenon
    <3>4. G[l] = MapOf(E)[l]
      BY <2>0, <2>2
    <3>. QED
      BY <3>3, <3>4, Zenon
  <2>. QED
    BY <2>1, <2>2
<1>8. MapOf(F) = [l \in DOMAIN MapOf(F) |-> MapOf(F)[l]]
  BY MapIsFunction, Zenon
<1>9. G = [l \in DOMAIN G |-> G[l]]
  OBVIOUS
<1>. HIDE DEF G
<1>10. MapOf(F) = G
  BY <1>6, <1>7, <1>8, <1>9
<1>. QED
  BY <1>10, Zenon DEF F, G

\* No entries, the empty map
LEMMA MapNone == MapOf({}) = [l \in {} |-> Missing]
  BY DEF MapOf

\* No key is held twice.
LEMMA HeldFunctional == ASSUME KhashInv PROVE Functional(Held)
<1>1. Held = InBuckets(Holding, keys, vals) \cup InHand
  BY HeldIs, Zenon
<1>2. ASSUME NEW e \in InBuckets(Holding, keys, vals)
      PROVE  \E x \in Holding : e = Entry(keys[x], vals[x]) /\ e.key = keys[x]
  BY EntryFields DEF InBuckets
<1>3. \A x, y \in Holding : keys[x] = keys[y] => x = y
  BY Zenon DEF KhashInv, KeysApart
<1>4. \A e \in InHand : e = hand /\ pc = "kick"
  BY DEF InHand
<1>5. pc = "kick" => \A x \in Holding : keys[x] # hand.key
  BY Zenon DEF KhashInv, Carrying
<1>6. ASSUME NEW d \in Held, NEW e \in Held, d.key = e.key PROVE d = e
  <2>1. CASE d \in InHand
    <3>1. e \in InHand
      BY <1>1, <1>2, <1>4, <1>5, <1>6, <2>1, Zenon
    <3>. QED
      BY <1>4, <2>1, <3>1, Zenon
  <2>2. CASE e \in InHand
    <3>1. d \in InHand
      BY <1>1, <1>2, <1>4, <1>5, <1>6, <2>2, Zenon
    <3>. QED
      BY <1>4, <2>2, <3>1, Zenon
  <2>3. CASE d \notin InHand /\ e \notin InHand
    <3>1. PICK x \in Holding : d = Entry(keys[x], vals[x]) /\ d.key = keys[x]
      BY <1>1, <1>2, <2>3
    <3>2. PICK y \in Holding : e = Entry(keys[y], vals[y]) /\ e.key = keys[y]
      BY <1>1, <1>2, <2>3
    <3>3. x = y
      BY <1>3, <1>6, <3>1, <3>2, Zenon
    <3>. QED
      BY <3>1, <3>2, <3>3, Zenon
  <2>. QED
    BY <2>1, <2>2, <2>3, Zenon
<1>. QED
  BY <1>6, Zenon DEF Functional

\* kh_get answers what the map says.
LEMMA FoundInMap ==
  ASSUME KhashInv, pc = "ready", NEW k \in Key
  PROVE  Found(k) = IF k \in DOMAIN MapOf(Held) THEN MapOf(Held)[k] ELSE Missing
<1>1. FoundRight(k)
  BY GetsKey, Zenon
<1>2. /\ DOMAIN MapOf(Held) = {e.key : e \in Held}
      /\ \A e \in Held : MapOf(Held)[e.key] = e.val
  BY HeldFunctional, MapAt, Zenon
<1>3. Held = InBuckets(Holding, keys, vals)
  <2>1. Held = InBuckets(Holding, keys, vals) \cup {}
    BY AtRest, HeldIs
  <2>. QED
    BY <2>1
<1>4. CASE \E x \in Holding : keys[x] = k /\ Found(k) = vals[x]
  <2>1. PICK x \in Holding : keys[x] = k /\ Found(k) = vals[x]
    BY <1>4, Zenon
  <2>. DEFINE e == Entry(keys[x], vals[x])
  <2>2. e \in Held /\ e.key = k /\ e.val = Found(k)
    BY <1>3, <2>1, EntryFields, Zenon DEF InBuckets
  <2>. HIDE DEF e
  <2>3. k \in DOMAIN MapOf(Held) /\ MapOf(Held)[k] = Found(k)
    BY <1>2, <2>2, Zenon
  <2>. QED
    BY <2>3, Zenon
<1>5. CASE (\A x \in Holding : keys[x] # k) /\ Found(k) = Missing
  <2>1. \A e \in Held : e.key # k
    <3>1. ASSUME NEW e \in Held PROVE e.key # k
      <4>1. PICK x \in Holding : e = Entry(keys[x], vals[x])
        BY <1>3 DEF InBuckets
      <4>. QED
        BY <1>5, <4>1, EntryFields, Zenon
    <3>. QED
      BY <3>1
  <2>2. k \notin DOMAIN MapOf(Held)
    BY <1>2, <2>1, Zenon
  <2>. QED
    BY <1>5, <2>2, Zenon
<1>. QED
  BY <1>1, <1>4, <1>5, Zenon DEF FoundRight

\* A traversal lists the map.
LEMMA ListsMap ==
  ASSUME KhashInv, pc = "ready" PROVE {Bucket(x) : x \in kh_foreach} = Held
<1>1. new_n_buckets = 0 /\ InHand = {}
  BY AtRest
<1>2. Placed = {}
  BY <1>1 DEF Placed
<1>. QED
  BY <1>1, <1>2 DEF Held
-----------------------------------------------------------------------------
(* Every step *)

\* Calls and answers of the abstract map
LEMMA Answered ==
  ASSUME NEW op, NEW k, NEW r, reply' = Reply(op, k, r)
  PROVE  KhashMap!Answers(op, k, r)
<1>1. reply'.res = r
  BY DEF Reply
<1>. QED
  BY <1>1, Zenon DEF KhashMap!Answers, KhashMap!Reply, Reply

\* A step of the abstract map, or none
MapStep == KhashMap!Next \/ (MapOf(Held') = MapOf(Held) /\ reply' = reply)

\* Every call keeps the invariant, and is an operation of the map when it
\* answers at once.
LEMMA CallKeeps == ASSUME KhashInv, Call PROVE KhashInv' /\ MapStep
<1>1. pc = "ready" /\ reply = NoReply /\ reply = KhashMap!NoCall
  BY Zenon DEF Call, KhashMap!NoCall, KhashMap!Reply, NoReply, Reply
<1>2. Functional(Held)
  BY HeldFunctional, Zenon
<1>3. ASSUME NEW k \in Key, Get(k) PROVE KhashInv' /\ MapStep
  <2>1. UNCHANGED <<table, pc, locals, arg>> /\ reply' = Reply("get", k, Found(k))
    BY <1>3, Zenon DEF Get
  <2>2. KhashInv' /\ Held' = Held
    BY <1>1, <2>1, Unmoved, Zenon
  <2>3. KhashMap!Answers("get", k, Found(k)) /\ Found(k) = KhashMap!Answer(k)
    BY <1>1, <2>1, Answered, FoundInMap, Zenon DEF KhashMap!Answer
  <2>4. KhashMap!Get(k)
    BY <2>2, <2>3 DEF KhashMap!Get
  <2>. QED
    BY <1>1, <2>2, <2>4, Zenon DEF MapStep, KhashMap!Next, KhashMap!Call
<1>4. ASSUME NEW k \in Key, kh_del(k) PROVE KhashInv' /\ MapStep
  <2>1. reply' = Reply("del", k, Found(k))
    BY <1>4, Zenon DEF kh_del
  <2>2. KhashInv' /\ Held' = Without(Held, k)
    BY <1>1, <1>4, DelKeeps, Zenon
  <2>3. KhashMap!Answers("del", k, Found(k)) /\ Found(k) = KhashMap!Answer(k)
    BY <1>1, <2>1, Answered, FoundInMap, Zenon DEF KhashMap!Answer
  <2>4. MapOf(Held') = [l \in DOMAIN MapOf(Held) \ {k} |-> MapOf(Held)[l]]
    BY <1>2, <2>2, MapDel, Zenon
  <2>5. KhashMap!Del(k)
    BY <2>3, <2>4 DEF KhashMap!Del
  <2>. QED
    BY <1>1, <2>2, <2>5, Zenon DEF MapStep, KhashMap!Next, KhashMap!Call
<1>5. ASSUME NEW k \in Key, NEW v \in Val, kh_put(Entry(k, v)) PROVE KhashInv' /\ MapStep
  <2>. DEFINE e == Entry(k, v)
  <2>1. IsEntry(e) /\ e.key = k
    BY EntryFields, Zenon DEF IsEntry
  <2>2. /\ KhashInv' /\ Held' = Held
        /\ reply' = reply \/ reply' = Reply("put", k, OutOfMemory)
    BY <1>1, <1>5, <2>1, PutKeeps, Zenon
  <2>3. CASE reply' = reply
    BY <2>2, <2>3, Zenon DEF MapStep
  <2>4. CASE reply' = Reply("put", k, OutOfMemory)
    <3>1. KhashMap!Answers("put", k, OutOfMemory)
      BY <2>4, Answered, Zenon
    <3>2. KhashMap!Put(k, v)
      BY <2>2, <3>1 DEF KhashMap!Put
    <3>. QED
      BY <1>1, <2>2, <3>2, Zenon DEF MapStep, KhashMap!Next, KhashMap!Call
  <2>. QED
    BY <2>2, <2>3, <2>4, Zenon
<1>6. ASSUME NEW n \in Sizes, kh_resize(n, Nothing) PROVE KhashInv' /\ MapStep
  <2>1. n \in Nat
    BY KeyAssumption
  <2>2. /\ KhashInv' /\ Held' = Held
        /\ \/ reply' = reply
           \/ \E r \in {Done, OutOfMemory} : reply' = Reply("arrange", Missing, r)
           \/ IsEntry(Nothing)
    BY <1>1, <1>6, <2>1, ResizeKeeps, Zenon
  <2>3. ~IsEntry(Nothing)
    BY EntryNotNothing, Zenon
  <2>4. CASE reply' = reply
    BY <2>2, <2>4, Zenon DEF MapStep
  <2>5. CASE \E r \in {Done, OutOfMemory} : reply' = Reply("arrange", Missing, r)
    <3>1. \E r \in {Done, OutOfMemory} : KhashMap!Answers("arrange", Missing, r)
      BY <2>5, Answered, Zenon
    <3>2. KhashMap!Arrange
      BY <2>2, <3>1 DEF KhashMap!Arrange
    <3>. QED
      BY <1>1, <2>2, <3>2, Zenon DEF MapStep, KhashMap!Next, KhashMap!Call
  <2>. QED
    BY <2>2, <2>3, <2>4, <2>5, Zenon
<1>7. ASSUME Held' = {}, reply' = Reply("clear", Missing, Done) PROVE MapStep
  <2>1. MapOf(Held') = KhashMap!Empty
    BY <1>7, MapNone, Zenon DEF KhashMap!Empty
  <2>2. KhashMap!Answers("clear", Missing, Done)
    BY <1>7, Answered, Zenon
  <2>3. KhashMap!Clear
    BY <2>1, <2>2 DEF KhashMap!Clear
  <2>. QED
    BY <1>1, <2>3, Zenon DEF MapStep, KhashMap!Next, KhashMap!Call
<1>8. CASE kh_clear
  <2>1. /\ flags' = AllEmpty(n_buckets) /\ size' = 0 /\ n_occupied' = 0
        /\ reply' = Reply("clear", Missing, Done)
        /\ UNCHANGED <<n_buckets, upper_bound, keys, vals, pc, locals, arg>>
    BY <1>8, Zenon DEF kh_clear
  <2>2. upper_bound' = HASH_UPPER(n_buckets) /\ n_buckets' = n_buckets
    BY <2>1 DEF KhashInv, Counted
  <2>3. UNCHANGED <<pc, locals, arg>> /\ UNCHANGED <<keys, vals>>
    BY <2>1
  <2>4. KhashInv' /\ Held' = {}
    BY <1>1, <2>1, <2>2, <2>3, ClearKeeps, Zenon
  <2>. QED
    BY <1>7, <2>1, <2>4, Zenon
<1>9. CASE Renew
  <2>1. /\ n_buckets' = 0 /\ size' = 0 /\ n_occupied' = 0 /\ upper_bound' = 0
        /\ flags' = AllEmpty(0) /\ reply' = Reply("clear", Missing, Done)
        /\ UNCHANGED <<pc, locals, arg>>
    BY <1>9, Zenon DEF Renew
  <2>2. upper_bound' = HASH_UPPER(0)
    BY <2>1, UpperOfNone, Zenon
  <2>3. KhashInv' /\ Held' = {}
    BY <1>1, <2>1, <2>2, ClearKeeps, Zenon
  <2>. QED
    BY <1>7, <2>1, <2>3, Zenon
<1>10. CASE List
  <2>1. /\ UNCHANGED <<table, pc, locals, arg>>
        /\ reply' = Reply("list", Missing, MapOf({Bucket(x) : x \in kh_foreach}))
    BY <1>10, Zenon DEF List
  <2>2. KhashInv' /\ Held' = Held
    BY <1>1, <2>1, Unmoved, Zenon
  <2>3. reply' = Reply("list", Missing, MapOf(Held))
    BY <1>1, <2>1, ListsMap, Zenon
  <2>4. KhashMap!Answers("list", Missing, MapOf(Held))
    BY <2>3, Answered, Zenon
  <2>5. KhashMap!Arrange
    BY <2>2, <2>4 DEF KhashMap!Arrange
  <2>. QED
    BY <1>1, <2>2, <2>5, Zenon DEF MapStep, KhashMap!Next, KhashMap!Call
<1>. QED
  BY <1>3, <1>4, <1>5, <1>6, <1>8, <1>9, <1>10, Zenon DEF Call

\* A step keeps the invariant, and is one of the abstract map.
LEMMA StepKeeps == ASSUME KhashInv, [KhashNext]_khVars PROVE KhashInv' /\ MapStep
<1>1. CASE Call
  BY <1>1, CallKeeps, Zenon
<1>2. CASE RehashBucket \/ KickOut \/ Rehashed
  <2>1. KhashInv' /\ Held' = Held
    BY <1>2, RehashKeeps, KickKeeps, RehashedKeeps, Zenon
  <2>2. CASE reply' = reply
    BY <2>1, <2>2, Zenon DEF MapStep
  <2>3. CASE reply' # reply
    <3>1. Rehashed
      BY <1>2, <2>3 DEF RehashBucket, KickOut
    <3>2. reply' = Reply("arrange", Missing, Done) /\ pc = "rehash"
      BY <2>3, <3>1 DEF Rehashed
    <3>3. reply = KhashMap!NoCall
      BY <3>2 DEF KhashInv, Control, KhashMap!NoCall, KhashMap!Reply, NoReply, Reply
    <3>4. KhashMap!Answers("arrange", Missing, Done)
      BY <3>2, Answered, Zenon
    <3>5. \E r \in {Done, OutOfMemory} : KhashMap!Answers("arrange", Missing, r)
      BY <3>4, Zenon
    <3>6. KhashMap!Arrange
      BY <2>1, <3>5 DEF KhashMap!Arrange
    <3>. QED
      BY <2>1, <3>3, <3>6, Zenon DEF MapStep, KhashMap!Next, KhashMap!Call
  <2>. QED
    BY <2>1, <2>2, <2>3
<1>3. CASE Insert
  <2>1. /\ KhashInv' /\ Held' = Without(Held, arg.key) \cup {arg} /\ IsEntry(arg)
        /\ reply = NoReply /\ reply' = Reply("put", arg.key, Done)
    BY <1>3, InsertKeeps, Zenon
  <2>2. arg.key \in Key /\ arg.val \in Val
    BY <2>1, EntryNotNothing, Zenon
  <2>3. reply = KhashMap!NoCall
    BY <2>1, Zenon DEF KhashMap!NoCall, KhashMap!Reply, NoReply, Reply
  <2>. DEFINE k == arg.key
              v == arg.val
  <2>4. MapOf(Held') = [l \in DOMAIN MapOf(Held) \cup {k} |-> IF l = k THEN v ELSE MapOf(Held)[l]]
    <3>1. MapOf(Without(Held, arg.key) \cup {arg}) =
            [l \in DOMAIN MapOf(Held) \cup {arg.key} |->
               IF l = arg.key THEN arg.val ELSE MapOf(Held)[l]]
      BY HeldFunctional, MapPut
    <3>. QED
      BY <2>1, <3>1
  <2>5. KhashMap!Answers("put", k, Done)
    BY <2>1, Answered, Zenon
  <2>. HIDE DEF k, v
  <2>6. KhashMap!Put(k, v)
    BY <2>4, <2>5 DEF KhashMap!Put
  <2>7. k \in Key /\ v \in Val
    BY <2>2, Zenon DEF k, v
  <2>. QED
    BY <2>1, <2>3, <2>6, <2>7, Zenon DEF MapStep, KhashMap!Next, KhashMap!Call
<1>4. CASE TakeAnswer
  <2>1. reply # NoReply /\ reply' = NoReply /\ UNCHANGED <<table, pc, locals, arg>>
    BY <1>4, Zenon DEF TakeAnswer
  <2>2. KhashInv' /\ Held' = Held
    BY <2>1, Unmoved, Zenon
  <2>3. NoReply = KhashMap!NoCall
    BY Zenon DEF KhashMap!NoCall, KhashMap!Reply, NoReply, Reply
  <2>4. KhashMap!TakeAnswer
    BY <2>1, <2>2, <2>3 DEF KhashMap!TakeAnswer
  <2>. QED
    BY <2>2, <2>4, Zenon DEF MapStep, KhashMap!Next
<1>5. CASE UNCHANGED khVars
  <2>1. UNCHANGED <<table, pc, locals, arg>> /\ reply' = reply
    BY <1>5 DEF khVars
  <2>2. pc = "ready" \/ reply' = NoReply
    BY <2>1, Zenon DEF KhashInv, Control
  <2>3. KhashInv' /\ Held' = Held
    BY <2>1, <2>2, Unmoved, Zenon
  <2>. QED
    BY <2>1, <2>3, Zenon DEF MapStep
<1>. QED
  BY <1>1, <1>2, <1>3, <1>4, <1>5, Zenon DEF KhashNext

\* The invariant holds in every state.
LEMMA KhashInductive == KhashSpec => []KhashInv
<1>1. KhashInit => KhashInv
  BY InitHolds, Zenon
<1>2. KhashInv /\ [KhashNext]_khVars => KhashInv'
  BY StepKeeps, Zenon
<1>. QED
  BY <1>1, <1>2, PTL DEF KhashSpec

\* A probe of kh_get, kh_put or the kick-out process always ends: whatever
\* the keys and however many there are, the counters are exact, some bucket
\* stays empty and no key is in two buckets.
THEOREM KhashAlwaysHasRoom == KhashSpec => []KhashHasRoom
<1>1. ASSUME KhashInv PROVE KhashHasRoom
  <2>1. kh_foreach \cup Placed = Holding
    BY DEF kh_foreach, Placed, Live, kh_exist, iseither, Holding
  <2>2. {x \in 0 .. n_buckets - 1 : ~isempty(flags, x)} = Filled(flags, n_buckets)
    <3>1. \A x \in 0 .. n_buckets - 1 : flags[x] \in Flag
      BY <1>1 DEF KhashInv, ArraysFit
    <3>2. \A x \in 0 .. n_buckets - 1 : isempty(flags, x) <=> flags[x] = {"empty"}
      BY <3>1, Bits, Zenon
    <3>. QED
      BY <3>2 DEF Filled
  <2>3. size = Cardinality(Holding) + Cardinality(InHand)
    <3>1. Cardinality({}) = 0 /\ Cardinality({hand}) = 1
      BY FS_EmptySet, FS_Singleton, Zenon
    <3>2. Cardinality(InHand) = IF pc = "kick" THEN 1 ELSE 0
      BY <3>1, Zenon DEF InHand
    <3>. QED
      BY <1>1, <3>2, Zenon DEF KhashInv, Counted
  <2>4. n_occupied = Cardinality(Filled(flags, n_buckets)) /\ n_occupied <= upper_bound
    BY <1>1, Zenon DEF KhashInv, Counted
  <2>5. n_buckets > 0 => Filled(flags, n_buckets) # 0 .. n_buckets - 1
    <3>1. n_buckets > 0 => n_buckets # 0
      BY <1>1, Numbers
    <3>. QED
      BY <1>1, <3>1, RoomToSearch, Zenon
  <2>6. new_n_buckets > 0 => Placed # 0 .. new_n_buckets - 1
    <3>1. Placed = Live(new_flags, new_n_buckets)
      BY DEF Placed, Live, iseither
    <3>2. new_n_buckets > 0 => pc \in {"rehash", "kick"}
      BY <1>1 DEF KhashInv, Control, Resting
    <3>. QED
      BY <1>1, <3>1, <3>2, RoomToPlace, Zenon
  <2>7. \A x, y \in Holding : keys[x] = keys[y] => x = y
    BY <1>1, Zenon DEF KhashInv, KeysApart
  <2>8. pc = "kick" => \A x \in Holding : keys[x] # hand.key
    BY <1>1, Zenon DEF KhashInv, Carrying
  <2>. QED
    BY <2>1, <2>2, <2>3, <2>4, <2>5, <2>6, <2>7, <2>8, Zenon DEF KhashHasRoom
<1>. QED
  BY <1>1, KhashInductive, PTL

\* khash implements the map its callers rely on, through every resize in
\* place and every allocation that fails.
THEOREM KhashAlwaysMap == KhashSpec => KhashIsMap
<1>1. KhashInit => KhashMap!Init
  <2>1. ASSUME KhashInit PROVE KhashMap!Init
    <3>1. Held = {} /\ reply = NoReply
      BY <2>1, InitHolds DEF KhashInit
    <3>2. MapOf(Held) = KhashMap!Empty
      BY <3>1, MapNone, Zenon DEF KhashMap!Empty
    <3>. QED
      BY <3>1, <3>2, Zenon DEF KhashMap!Init, KhashMap!NoCall, KhashMap!Reply, NoReply, Reply
  <2>. QED
    BY <2>1
<1>2. KhashInv /\ [KhashNext]_khVars => [KhashMap!Next]_(KhashMap!vars)
  <2>1. ASSUME KhashInv, [KhashNext]_khVars PROVE [KhashMap!Next]_(KhashMap!vars)
    <3>1. MapStep
      BY <2>1, StepKeeps, Zenon
    <3>. QED
      BY <3>1 DEF MapStep, KhashMap!vars
  <2>. QED
    BY <2>1
<1>. QED
  BY <1>1, <1>2, KhashInductive, PTL DEF KhashSpec, KhashIsMap, KhashMap!Spec
=============================================================================
