---------------------------- MODULE FilterProofs ----------------------------
(* What filtering a sequence gives, and the recursion on the length of a      *)
(* sequence that this and other definitions rest on.                          *)
EXTENDS Filters, WellFoundedInduction, TLAPS

-----------------------------------------------------------------------------
(* Recursion up to a number.                                                *)

\* Induction over 0 .. n, with the induction hypothesis as a set.
LEMMA UpTo ==
    ASSUME NEW n \in Nat, NEW S, 0 \in S, \A k \in 1 .. n : k - 1 \in S => k \in S
    PROVE  0 .. n \subseteq S
<1> DEFINE T == {k \in 0 .. n : k \notin S}
<1> SUFFICES ASSUME T # {} PROVE FALSE
  OBVIOUS
<1>1. T \subseteq Nat
  OBVIOUS
<1>2. \E k \in T : \A j \in T : ~(<<j, k>> \in OpToRel(<, Nat))
  BY <1>1, NatLessThanWellFounded, WFMin, Zenon
<1>3. \A j, k \in Nat : <<j, k>> \in OpToRel(<, Nat) <=> j < k
  BY Zenon DEF OpToRel
<1>4. PICK k \in T : \A j \in T : ~(j < k)
  BY <1>1, <1>2, <1>3, Zenon
<1>5. k \in 1 .. n /\ k - 1 \in 0 .. n /\ k - 1 < k
  BY <1>4
<1>6. k - 1 \in S
  BY <1>4, <1>5
<1> QED
  BY <1>4, <1>5, <1>6

\* The values that a step function gives one after the other.
Iterates(n, X, base, step, f) ==
    f \in [0 .. n -> X] /\ f[0] = base /\ \A k \in 1 .. n : f[k] = step[k][f[k - 1]]

LEMMA Recursion ==
    ASSUME NEW n \in Nat, NEW X, NEW base \in X, NEW step \in [1 .. n -> [X -> X]]
    PROVE  \E f : Iterates(n, X, base, step, f)
<1> DEFINE Good(m, f) == f[0] = base /\ \A k \in 1 .. m : f[k] = step[k][f[k - 1]]
           S == {m \in 0 .. n : \E f \in [0 .. m -> X] : Good(m, f)}
<1>1. 0 \in S
  <2>1. [k \in 0 .. 0 |-> base] \in [0 .. 0 -> X] /\ Good(0, [k \in 0 .. 0 |-> base])
    OBVIOUS
  <2>2. 0 \in 0 .. n
    OBVIOUS
  <2> QED
    BY <2>1, <2>2, Zenon
<1>2. ASSUME NEW m \in 1 .. n, m - 1 \in S PROVE m \in S
  <2>1. PICK f \in [0 .. m - 1 -> X] : Good(m - 1, f)
    BY <1>2
  <2> DEFINE g == [k \in 0 .. m |-> IF k = m THEN step[m][f[m - 1]] ELSE f[k]]
  <2>2. f[m - 1] \in X /\ step[m][f[m - 1]] \in X
    OBVIOUS
  <2>3. g \in [0 .. m -> X]
    BY <2>2
  <2>4. g[0] = base /\ g[m] = step[m][f[m - 1]] /\ \A k \in 0 .. m - 1 : g[k] = f[k]
    BY <2>1
  <2> HIDE DEF g
  <2>5. ASSUME NEW k \in 1 .. m PROVE g[k] = step[k][g[k - 1]]
    <3>1. CASE k = m
      BY <2>4, <3>1
    <3>2. CASE k # m
      BY <2>1, <2>4, <3>2
    <3> QED
      BY <3>1, <3>2
  <2> QED
    BY <2>3, <2>4, <2>5
<1>3. 0 .. n \subseteq S
  <2> HIDE DEF S
  <2> QED
    BY <1>1, <1>2, UpTo, Zenon
<1>4. n \in 0 .. n
  OBVIOUS
<1> QED
  BY <1>3, <1>4, Zenon DEF Iterates

-----------------------------------------------------------------------------
(* Filters.                                                                 *)

\* The filter does what its definition says.
LEMMA KeptRecursion ==
    ASSUME NEW S, NEW s \in Seq(S), NEW P
    PROVE  \E out \in [0 .. Len(s) -> Seq(S)] :
             /\ Kept(s, P) = out[Len(s)]
             /\ out[0] = <<>>
             /\ \A k \in 1 .. Len(s) :
                  out[k] = IF k \in P THEN Append(out[k - 1], s[k]) ELSE out[k - 1]
<1> DEFINE n == Len(s)
           E(k, x) == IF k \in P THEN Append(x, s[k]) ELSE x
           F(f) == [k \in 0 .. n |-> IF k = 0 THEN <<>> ELSE E(k, f[k - 1])]
           out == CHOOSE f : f = F(f)
           step == [k \in 1 .. n |-> [x \in Seq(S) |-> E(k, x)]]
<1>1. Kept(s, P) = out[n]
  BY Zenon DEF Kept
<1>2. n \in Nat /\ <<>> \in Seq(S)
  OBVIOUS
<1>3. step \in [1 .. n -> [Seq(S) -> Seq(S)]]
  OBVIOUS
<1>4. \A k \in 1 .. n, x \in Seq(S) : step[k][x] = E(k, x)
  OBVIOUS
<1> HIDE DEF step, E
<1>5. PICK f : Iterates(n, Seq(S), <<>>, step, f)
  BY <1>2, <1>3, Recursion, Zenon
<1>6. /\ f \in [0 .. n -> Seq(S)] /\ f[0] = <<>>
      /\ \A k \in 1 .. n : f[k] = E(k, f[k - 1])
  <2>1. /\ f \in [0 .. n -> Seq(S)] /\ f[0] = <<>>
        /\ \A k \in 1 .. n : f[k] = step[k][f[k - 1]]
    BY <1>5, Zenon DEF Iterates
  <2>2. ASSUME NEW k \in 1 .. n PROVE f[k] = E(k, f[k - 1])
    <3>1. k - 1 \in 0 .. n /\ f[k - 1] \in Seq(S)
      BY <1>2, <2>1
    <3> QED
      BY <1>4, <2>1, <3>1, Zenon
  <2> QED
    BY <2>1, <2>2
<1>7. f = F(f)
  BY <1>6
<1>8. out = F(out)
  BY <1>7, Zenon
<1> HIDE DEF out
<1>9. out[0] = <<>> /\ \A k \in 1 .. n : out[k] = E(k, out[k - 1])
  BY <1>2, <1>8
<1>10. DOMAIN out = 0 .. n /\ out = [k \in 0 .. n |-> out[k]]
  BY <1>8
<1>11. 0 .. n \subseteq {k \in 0 .. n : out[k] \in Seq(S)}
  <2> DEFINE G == {k \in 0 .. n : out[k] \in Seq(S)}
  <2>1. 0 \in G
    <3>1. 0 \in 0 .. n
      BY <1>2
    <3> QED
      BY <1>2, <1>9, <3>1, Zenon
  <2>2. ASSUME NEW k \in 1 .. n, k - 1 \in G PROVE k \in G
    <3>1. k \in 0 .. n /\ s[k] \in S /\ out[k - 1] \in Seq(S)
      BY <2>2
    <3>2. E(k, out[k - 1]) \in Seq(S)
      BY <3>1 DEF E
    <3> QED
      BY <1>9, <3>1, <3>2, Zenon
  <2> HIDE DEF G
  <2>3. 0 .. n \subseteq G
    BY <1>2, <2>1, <2>2, UpTo, Zenon
  <2> QED
    BY <2>3 DEF G
<1>12. out \in [0 .. n -> Seq(S)]
  BY <1>10, <1>11
<1> QED
  BY <1>1, <1>9, <1>12 DEF E

\* e tells where the items of t come from: from the positions of P up to k in s,
\* in their order, and from all of them.
Embeds(t, s, P, k, e) ==
    /\ e \in [1 .. Len(t) -> P \cap (1 .. k)]
    /\ \A i \in 1 .. Len(t) : t[i] = s[e[i]]
    /\ \A i, j \in 1 .. Len(t) : i < j => e[i] < e[j]
    /\ \A p \in P \cap (1 .. k) : \E i \in 1 .. Len(t) : e[i] = p

LEMMA EmbedsNext ==
    ASSUME NEW S, NEW s \in Seq(S), NEW P, NEW k \in 1 .. Len(s), NEW t \in Seq(S), NEW e,
           Embeds(t, s, P, k - 1, e)
    PROVE  IF k \in P THEN \E g : Embeds(Append(t, s[k]), s, P, k, g) ELSE Embeds(t, s, P, k, e)
<1>1. CASE k \notin P
  <2>1. P \cap (1 .. k) = P \cap (1 .. k - 1)
    BY <1>1
  <2> QED
    BY <1>1, <2>1 DEF Embeds
<1>2. CASE k \in P
  <2> DEFINE n == Len(t)
             u == Append(t, s[k])
             g == [i \in 1 .. n + 1 |-> IF i = n + 1 THEN k ELSE e[i]]
  <2>1. /\ n \in Nat /\ Len(u) = n + 1 /\ u[n + 1] = s[k]
        /\ \A i \in 1 .. n : u[i] = t[i]
    OBVIOUS
  <2>2. P \cap (1 .. k) = (P \cap (1 .. k - 1)) \cup {k}
    BY <1>2
  <2>3. \A i \in 1 .. n : e[i] \in P \cap (1 .. k - 1)
    BY DEF Embeds
  <2>4. g[n + 1] = k /\ \A i \in 1 .. n : g[i] = e[i]
    BY <2>1
  <2>5. g \in [1 .. n + 1 -> P \cap (1 .. k)]
    BY <2>1, <2>2, <2>3
  <2> HIDE DEF g, u, n
  <2>6. \A i \in 1 .. n + 1 : u[i] = s[g[i]]
    BY <2>1, <2>4 DEF Embeds, n
  <2>7. ASSUME NEW i \in 1 .. n + 1, NEW j \in 1 .. n + 1, i < j PROVE g[i] < g[j]
    <3>1. i \in 1 .. n
      BY <2>1, <2>7
    <3>2. CASE j = n + 1
      BY <2>3, <2>4, <3>1, <3>2
    <3>3. CASE j \in 1 .. n
      BY <2>4, <2>7, <3>1, <3>3 DEF Embeds, n
    <3> QED
      BY <2>1, <3>2, <3>3
  <2>8. ASSUME NEW p \in P \cap (1 .. k) PROVE \E i \in 1 .. n + 1 : g[i] = p
    <3>1. CASE p = k
      BY <2>1, <2>4, <3>1
    <3>2. CASE p \in P \cap (1 .. k - 1)
      <4>1. PICK i \in 1 .. n : e[i] = p
        BY <3>2 DEF Embeds, n
      <4> QED
        BY <2>1, <2>4, <4>1
    <3> QED
      BY <2>2, <3>1, <3>2
  <2>9. Embeds(u, s, P, k, g)
    BY <2>1, <2>5, <2>6, <2>7, <2>8 DEF Embeds
  <2> QED
    BY <1>2, <2>9 DEF u
<1> QED
  BY <1>1, <1>2

\* A filter keeps the items at the given positions, once each and in their order.
LEMMA KeptIs ==
    ASSUME NEW S, NEW s \in Seq(S), NEW P
    PROVE  /\ Kept(s, P) \in Seq(S)
           /\ \E e : Embeds(Kept(s, P), s, P, Len(s), e)
<1>1. PICK out \in [0 .. Len(s) -> Seq(S)] :
         /\ Kept(s, P) = out[Len(s)]
         /\ out[0] = <<>>
         /\ \A k \in 1 .. Len(s) :
              out[k] = IF k \in P THEN Append(out[k - 1], s[k]) ELSE out[k - 1]
  BY KeptRecursion
<1> DEFINE n == Len(s)
           G == {k \in 0 .. n : \E e : Embeds(out[k], s, P, k, e)}
<1>2. n \in Nat /\ 0 \in 0 .. n /\ n \in 0 .. n
  OBVIOUS
<1>3. 0 \in G
  <2>1. Embeds(<<>>, s, P, 0, <<>>)
    BY DEF Embeds
  <2> QED
    BY <1>1, <1>2, <2>1, Zenon
<1>4. ASSUME NEW k \in 1 .. n, k - 1 \in G PROVE k \in G
  <2>1. k \in 0 .. n /\ k - 1 \in 0 .. n
    OBVIOUS
  <2>2. PICK e : Embeds(out[k - 1], s, P, k - 1, e)
    BY <1>4
  <2>3. out[k - 1] \in Seq(S)
    BY <2>1
  <2>4. IF k \in P THEN \E g : Embeds(Append(out[k - 1], s[k]), s, P, k, g)
                   ELSE Embeds(out[k - 1], s, P, k, e)
    BY <2>2, <2>3, EmbedsNext, Zenon
  <2> QED
    BY <1>1, <2>1, <2>4, Zenon
<1> HIDE DEF G
<1>5. 0 .. n \subseteq G
  BY <1>2, <1>3, <1>4, UpTo, Zenon
<1> QED
  BY <1>1, <1>2, <1>5 DEF G

\* The items that a filter keeps.
LEMMA KeptItems ==
    ASSUME NEW S, NEW s \in Seq(S), NEW P
    PROVE  /\ Kept(s, P) \in Seq(S)
           /\ \A i \in DOMAIN Kept(s, P) : \E p \in P \cap DOMAIN s : Kept(s, P)[i] = s[p]
           /\ \A p \in P \cap DOMAIN s : \E i \in DOMAIN Kept(s, P) : Kept(s, P)[i] = s[p]
<1>1. PICK e : Embeds(Kept(s, P), s, P, Len(s), e)
  BY KeptIs
<1>2. Kept(s, P) \in Seq(S)
  BY KeptIs
<1>3. DOMAIN s = 1 .. Len(s) /\ DOMAIN Kept(s, P) = 1 .. Len(Kept(s, P))
  BY <1>2
<1>4. ASSUME NEW i \in 1 .. Len(Kept(s, P))
      PROVE  \E p \in P \cap (1 .. Len(s)) : Kept(s, P)[i] = s[p]
  BY <1>1 DEF Embeds
<1>5. ASSUME NEW p \in P \cap (1 .. Len(s))
      PROVE  \E i \in 1 .. Len(Kept(s, P)) : Kept(s, P)[i] = s[p]
  <2>1. PICK i \in 1 .. Len(Kept(s, P)) : e[i] = p
    BY <1>1, Zenon DEF Embeds
  <2> QED
    BY <1>1, <2>1, Zenon DEF Embeds
<1> QED
  BY <1>2, <1>3, <1>4, <1>5, Zenon

\* Two of them come from two positions in the same order.
LEMMA KeptInOrder ==
    ASSUME NEW S, NEW s \in Seq(S), NEW P,
           NEW i \in DOMAIN Kept(s, P), NEW j \in DOMAIN Kept(s, P), i < j
    PROVE  \E p, q \in P \cap DOMAIN s : p < q /\ Kept(s, P)[i] = s[p] /\ Kept(s, P)[j] = s[q]
<1>1. PICK e : Embeds(Kept(s, P), s, P, Len(s), e)
  BY KeptIs
<1>2. Kept(s, P) \in Seq(S)
  BY KeptIs
<1>3. i \in 1 .. Len(Kept(s, P)) /\ j \in 1 .. Len(Kept(s, P)) /\ DOMAIN s = 1 .. Len(s)
  BY <1>2
<1>4. e[i] \in P \cap (1 .. Len(s)) /\ e[j] \in P \cap (1 .. Len(s)) /\ e[i] < e[j]
  BY <1>1, <1>3 DEF Embeds
<1>5. Kept(s, P)[i] = s[e[i]] /\ Kept(s, P)[j] = s[e[j]]
  BY <1>1, <1>3, Zenon DEF Embeds
<1> QED
  BY <1>3, <1>4, <1>5

=============================================================================
