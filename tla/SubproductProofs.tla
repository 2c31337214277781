--------------------------- MODULE SubproductProofs ---------------------------
(***************************************************************************)
(* The calls of SubproductCalls compute what they promise, for every field, *)
(* every domain of points and every polynomial.  A recursion over the tree of *)
(* a slice has a solution (TreeRecursion), and what it computes is proved by *)
(* induction over the halves of the slice (SliceInduction).                *)
(***************************************************************************)
EXTENDS SubproductCalls, PolynomialProofs

\* The two halves of a slice of at least two points.
Split(u) == u \in Slices /\ Len(u) # 1
\* The halves of a slice are slices, shorter than it, and together have its points.
LEMMA Halves ==
    ASSUME NEW u, Split(u)
    PROVE  LET h == Len(u) \div 2
           IN  /\ LeftHalf(u) \in Slices /\ RightHalf(u) \in Slices
               /\ h \in Nat \ {0} /\ h < Len(u) /\ Len(u) \in Nat
               /\ Len(LeftHalf(u)) = h /\ Len(RightHalf(u)) = Len(u) - h
               /\ \A i \in 1..h : LeftHalf(u)[i] = u[i]
               /\ \A i \in 1..(Len(u) - h) : RightHalf(u)[i] = u[h + i]
               /\ \A i \in 1..Len(u) : u[i] \in Fr
<1>1. u \in Seq(Fr) /\ Len(u) \in Nat /\ Len(u) > 1
  BY DEF Split, Slices
<1>2. PICK n \in Nat, h \in Nat \ {0}, k \in Nat \ {0} : n = Len(u) /\ h = n \div 2 /\ h < n /\ k = n - h
  BY <1>1
<1>3. u \in [1..n -> Fr]
  BY <1>1, <1>2
<1>4. PICK a \in [1..h -> Fr] : a = [i \in 1..h |-> u[i]]
  <2>1. \A i \in 1..h : i \in 1..n
    BY <1>2
  <2>2. [i \in 1..h |-> u[i]] \in [1..h -> Fr]
    BY <1>3, <2>1
  <2>3. QED
    BY <2>2
<1>5. LeftHalf(u) = a
  <2>1. SubSeq(u, 1, h) = [i \in 1..h |-> u[i]]
    BY <1>1, <1>2
  <2>2. QED
    BY <1>2, <1>4, <2>1 DEF LeftHalf
<1>6. PICK b \in [1..k -> Fr] : b = [i \in 1..k |-> u[h + i]]
  <2>1. \A i \in 1..k : h + i \in 1..n
    BY <1>2
  <2>2. [i \in 1..k |-> u[h + i]] \in [1..k -> Fr]
    BY <1>3, <2>1
  <2>3. QED
    BY <2>2
<1>7. RightHalf(u) = b
  <2>1. SubSeq(u, h + 1, n) = [i \in 1..(n - (h + 1) + 1) |-> u[(h + 1) + i - 1]]
    BY <1>1, <1>2
  <2>2. n - (h + 1) + 1 = k /\ \A i \in 1..k : (h + 1) + i - 1 = h + i
    BY <1>2
  <2>3. SubSeq(u, h + 1, n) = b
    BY <1>6, <2>1, <2>2
  <2>4. QED
    BY <1>2, <2>3 DEF RightHalf
<1>8. a \in Seq(Fr) /\ Len(a) = h /\ b \in Seq(Fr) /\ Len(b) = k
  BY <1>4, <1>6, SeqOf
<1>9. a # <<>> /\ b # <<>>
  BY <1>8
<1>10. (\A i \in 1..h : a[i] = u[i]) /\ (\A i \in 1..k : b[i] = u[h + i]) /\ \A i \in 1..n : u[i] \in Fr
  BY <1>3, <1>4, <1>6
<1>11. QED
  BY <1>2, <1>5, <1>7, <1>8, <1>9, <1>10 DEF Slices

\* The equation of a recursion over the tree of a slice, at u.
TreeValue(f, B, G, u) == IF Len(u) = 1 THEN B[u] ELSE G[u][<<f[LeftHalf(u)], f[RightHalf(u)]>>]
RecursTo(f, B, G, n) == \A u \in Slices : Len(u) <= n => f[u] = TreeValue(f, B, G, u)
AgreeTo(f, g, n) == \A u \in Slices : Len(u) <= n => f[u] = g[u]

\* The equation at u reads the recursion at shorter slices only.
LEMMA TreeValueLocal ==
    ASSUME NEW f, NEW g, NEW B, NEW G, NEW n \in Nat, AgreeTo(f, g, n), NEW u \in Slices, Len(u) <= n + 1
    PROVE  TreeValue(f, B, G, u) = TreeValue(g, B, G, u)
<1>1. CASE Len(u) = 1
  BY <1>1 DEF TreeValue
<1>2. CASE Len(u) # 1
  <2>1. Split(u)
    BY <1>2 DEF Split
  <2>2. /\ LeftHalf(u) \in Slices /\ RightHalf(u) \in Slices
        /\ Len(LeftHalf(u)) <= n /\ Len(RightHalf(u)) <= n
    <3>1. PICK h \in Nat \ {0}, l \in Nat : h < l /\ l <= n + 1
            /\ Len(LeftHalf(u)) = h /\ Len(RightHalf(u)) = l - h
      BY <2>1, Halves
    <3>2. h <= n /\ l - h <= n
      BY <3>1
    <3>3. QED
      BY <2>1, <3>1, <3>2, Halves
  <2>3. f[LeftHalf(u)] = g[LeftHalf(u)] /\ f[RightHalf(u)] = g[RightHalf(u)]
    BY <2>2 DEF AgreeTo
  <2>4. QED
    BY <2>3 DEF TreeValue
<1>3. QED
  BY <1>1, <1>2

\* Two solutions agree.
LEMMA RecursionUnique ==
    ASSUME NEW f, NEW g, NEW B, NEW G, NEW a \in Nat, NEW b \in Nat, a <= b,
           RecursTo(f, B, G, a), RecursTo(g, B, G, b)
    PROVE  AgreeTo(f, g, a)
<1> DEFINE S == {n \in Nat : n <= a => AgreeTo(f, g, n)}
<1>1. 0 \in S
  <2>1. \A u \in Slices : Len(u) \in Nat /\ Len(u) > 0
    BY DEF Slices
  <2>2. QED
    BY <2>1 DEF AgreeTo
<1>2. ASSUME NEW n \in Nat, n \in S PROVE n + 1 \in S
  <2>1. SUFFICES ASSUME n + 1 <= a, NEW u \in Slices, Len(u) <= n + 1 PROVE f[u] = g[u]
    BY DEF AgreeTo
  <2>2. AgreeTo(f, g, n)
    BY <1>2, <2>1
  <2>3. TreeValue(f, B, G, u) = TreeValue(g, B, G, u)
    BY <2>1, <2>2, TreeValueLocal
  <2>4. Len(u) <= a /\ Len(u) <= b
    <3>1. Len(u) \in Nat
      BY DEF Slices
    <3>2. QED
      BY <2>1, <3>1
  <2>5. QED
    BY <2>3, <2>4 DEF RecursTo
<1>3. \A n \in Nat : n \in S
  <2> HIDE DEF S
  <2> QED
    BY <1>1, <1>2, SetInduction
<1>4. QED
  BY <1>3

\* A recursion over trees has a solution.
LEMMA TreeRecursion ==
    ASSUME NEW B, NEW G
    PROVE  \E f : /\ f = [u \in Slices |-> f[u]]
                  /\ \A u \in Slices : f[u] = TreeValue(f, B, G, u)
<1> DEFINE S == {n \in Nat : \E f : RecursTo(f, B, G, n)}
<1>1. 0 \in S
  <2>1. PICK f : f = B
    OBVIOUS
  <2>2. \A u \in Slices : Len(u) \in Nat /\ Len(u) > 0
    BY DEF Slices
  <2>3. RecursTo(f, B, G, 0)
    BY <2>2 DEF RecursTo
  <2>4. QED
    BY <2>3
<1>2. ASSUME NEW n \in Nat, n \in S PROVE n + 1 \in S
  <2>1. PICK f : RecursTo(f, B, G, n)
    BY <1>2
  <2>2. PICK g : g = [u \in Slices |-> TreeValue(f, B, G, u)]
    OBVIOUS
  <2>3. \A u \in Slices : g[u] = TreeValue(f, B, G, u)
    BY <2>2
  <2>4. AgreeTo(f, g, n)
    BY <2>1, <2>3 DEF AgreeTo, RecursTo
  <2>5. ASSUME NEW u \in Slices, Len(u) <= n + 1 PROVE g[u] = TreeValue(g, B, G, u)
    <3>1. TreeValue(f, B, G, u) = TreeValue(g, B, G, u)
      BY <2>4, <2>5, TreeValueLocal
    <3>2. QED
      BY <2>3, <3>1
  <2>6. RecursTo(g, B, G, n + 1)
    BY <2>5 DEF RecursTo
  <2>7. QED
    BY <2>6
<1>3. \A n \in Nat : \E f : RecursTo(f, B, G, n)
  <2>1. \A n \in Nat : n \in S
    <3> HIDE DEF S
    <3> QED
      BY <1>1, <1>2, SetInduction
  <2>2. QED
    BY <2>1
<1> DEFINE Part(n) == CHOOSE f : RecursTo(f, B, G, n)
           F == [u \in Slices |-> Part(Len(u))[u]]
<1>4. \A n \in Nat : RecursTo(Part(n), B, G, n)
  BY <1>3
<1> HIDE DEF Part
<1>5. \A u \in Slices : F[u] = Part(Len(u))[u]
  OBVIOUS
<1>6. ASSUME NEW u \in Slices PROVE F[u] = TreeValue(F, B, G, u)
  <2>1. PICK n, f : n \in Nat /\ n = Len(u) /\ f = Part(n) /\ RecursTo(f, B, G, n)
    <3>1. Len(u) \in Nat
      BY DEF Slices
    <3>2. QED
      BY <1>4, <3>1
  <2>2. F[u] = f[u] /\ f[u] = TreeValue(f, B, G, u)
    BY <1>5, <2>1 DEF RecursTo
  <2>3. AgreeTo(f, F, n)
    <3> HIDE DEF F
    <3> SUFFICES ASSUME NEW v \in Slices, Len(v) <= n PROVE f[v] = F[v]
      BY DEF AgreeTo
    <3>1. PICK m, g : m \in Nat /\ m = Len(v) /\ g = Part(m) /\ RecursTo(g, B, G, m) /\ m <= n
      <4>1. Len(v) \in Nat
        BY DEF Slices
      <4>2. QED
        BY <1>4, <4>1
    <3>2. AgreeTo(g, f, m)
      BY <2>1, <3>1, RecursionUnique
    <3>3. g[v] = f[v]
      BY <3>1, <3>2 DEF AgreeTo
    <3>4. QED
      BY <1>5, <3>1, <3>3
  <2>4. n \in Nat /\ Len(u) <= n + 1
    BY <2>1
  <2>5. TreeValue(f, B, G, u) = TreeValue(F, B, G, u)
    <3> HIDE DEF F
    <3> QED
      BY <2>3, <2>4, TreeValueLocal
  <2>6. QED
    BY <2>2, <2>5
<1>7. F = [u \in Slices |-> F[u]]
  OBVIOUS
<1>8. QED
  <2> HIDE DEF F
  <2> QED
    BY <1>6, <1>7

\* Induction over trees: a set of slices that holds the single points, and every slice
\* whose halves it holds.
HoldsTrees(S) ==
    /\ \A u \in Slices : Len(u) = 1 => u \in S
    /\ \A u : Split(u) /\ LeftHalf(u) \in S /\ RightHalf(u) \in S => u \in S

\* Such a set holds every slice.
LEMMA SliceInduction ==
    ASSUME NEW S, HoldsTrees(S)
    PROVE  \A u \in Slices : u \in S
<1> DEFINE T == {n \in Nat : \A u \in Slices : Len(u) <= n => u \in S}
<1>1. 0 \in T
  <2>1. \A u \in Slices : Len(u) \in Nat /\ Len(u) > 0
    BY DEF Slices
  <2>2. QED
    BY <2>1
<1>2. ASSUME NEW n \in Nat, n \in T PROVE n + 1 \in T
  <2>1. SUFFICES ASSUME NEW u \in Slices, Len(u) <= n + 1 PROVE u \in S
    OBVIOUS
  <2>2. CASE Len(u) = 1
    BY <2>2 DEF HoldsTrees
  <2>3. CASE Len(u) # 1
    <3>1. Split(u)
      BY <2>3 DEF Split
    <3>2. PICK h \in Nat \ {0}, l \in Nat : h < l /\ l <= n + 1
            /\ Len(LeftHalf(u)) = h /\ Len(RightHalf(u)) = l - h
            /\ LeftHalf(u) \in Slices /\ RightHalf(u) \in Slices
      BY <2>1, <3>1, Halves
    <3>3. Len(LeftHalf(u)) <= n /\ Len(RightHalf(u)) <= n
      BY <3>2
    <3>4. LeftHalf(u) \in S /\ RightHalf(u) \in S
      BY <1>2, <3>2, <3>3
    <3>5. QED
      BY <3>1, <3>4 DEF HoldsTrees
  <2>4. QED
    BY <2>2, <2>3
<1>3. \A n \in Nat : n \in T
  <2> HIDE DEF T
  <2> QED
    BY <1>1, <1>2, SetInduction
<1>4. ASSUME NEW u \in Slices PROVE u \in S
  <2>1. Len(u) \in Nat
    BY DEF Slices
  <2>2. QED
    BY <1>3, <2>1
<1>5. QED
  BY <1>4

\* A single point's moduli.
LEMMA ModuliFacts ==
    ASSUME NEW s \in Fr
    PROVE  /\ ModuliFromScalar(s) \in Seq(Fr) /\ Len(ModuliFromScalar(s)) = 2
           /\ ModuliFromScalar(s)[1] = Neg(s) /\ ModuliFromScalar(s)[2] = One
           /\ \A x \in Fr : Eval(ModuliFromScalar(s), x) = Sub(x, s)
<1>1. PICK a \in Fr, b \in Fr : a = Neg(s) /\ b = One
  BY FrClosed
<1>2. ModuliFromScalar(s) = <<a, b>>
  BY <1>1 DEF ModuliFromScalar
<1>3. <<a, b>> \in Seq(Fr) /\ Len(<<a, b>>) = 2 /\ <<a, b>>[1] = a /\ <<a, b>>[2] = b
  OBVIOUS
<1>4. ASSUME NEW x \in Fr PROVE Eval(<<a, b>>, x) = Sub(x, s)
  <2>1. PICK p \in Seq(Fr) : p = <<a, b>> /\ Len(p) = 2 /\ p[1] = a /\ p[2] = b
    BY <1>3
  <2>2. PICK f \in [0..2 -> Fr] : /\ f[0] = Zero
                                  /\ \A i \in 1..2 : f[i] = Add(p[2 - i + 1], Mul(x, f[i - 1]))
                                  /\ Eval(p, x) = f[2]
    BY ZenonT(90), <2>1, EvalSteps
  <2>3. f[1] = Add(p[2], Mul(x, f[0]))
    <3>1. f[1] = Add(p[2 - 1 + 1], Mul(x, f[1 - 1]))
      BY <2>2
    <3>2. QED
      BY <3>1
  <2>4. f[2] = Add(p[1], Mul(x, f[1]))
    <3>1. f[2] = Add(p[2 - 2 + 1], Mul(x, f[2 - 1]))
      BY <2>2
    <3>2. QED
      BY <3>1
  <2>5. f[1] = One
    <3>1. Mul(x, Zero) = Zero
      BY MulZero
    <3>2. QED
      BY <1>1, <2>1, <2>2, <2>3, <3>1, FrAdditive
  <2>6. Mul(x, One) = x
    BY FrMultiplicative
  <2>7. Add(a, x) = Add(x, a)
    BY FrAdditive
  <2>8. QED
    BY <1>1, <2>1, <2>2, <2>4, <2>5, <2>6, <2>7 DEF Sub
<1>5. QED
  BY <1>1, <1>2, <1>3, <1>4

\* m of a tree: the moduli of its point, or the product of its children's.
LEMMA TreeMEquation ==
    /\ \A u \in Slices : Len(u) = 1 => TreeM[u] = ModuliFromScalar(u[1])
    /\ \A u : Split(u) => TreeM[u] = PolyMul(TreeM[LeftHalf(u)], TreeM[RightHalf(u)])
<1> DEFINE Body(f, u) == IF Len(u) = 1 THEN ModuliFromScalar(u[1]) ELSE PolyMul(f[LeftHalf(u)], f[RightHalf(u)])
           M == CHOOSE f : f = [u \in Slices |-> Body(f, u)]
<1>1. PICK B, G : /\ B = [u \in Slices |-> ModuliFromScalar(u[1])]
                  /\ G = [u \in Slices |-> [t \in Seq(Fr) \X Seq(Fr) |-> PolyMul(t[1], t[2])]]
  OBVIOUS
<1>2. \A u \in Slices : B[u] = ModuliFromScalar(u[1])
  BY <1>1
<1>3. \A u \in Slices, p \in Seq(Fr), q \in Seq(Fr) : G[u][<<p, q>>] = PolyMul(p, q)
  <2>1. \A u \in Slices : G[u] = [t \in Seq(Fr) \X Seq(Fr) |-> PolyMul(t[1], t[2])]
    BY <1>1
  <2>3. ASSUME NEW u \in Slices, NEW p \in Seq(Fr), NEW q \in Seq(Fr) PROVE G[u][<<p, q>>] = PolyMul(p, q)
    <3>1. PICK t \in Seq(Fr) \X Seq(Fr) : t = <<p, q>> /\ t[1] = p /\ t[2] = q
      <4>1. <<p, q>> \in Seq(Fr) \X Seq(Fr) /\ <<p, q>>[1] = p /\ <<p, q>>[2] = q
        OBVIOUS
      <4>2. PICK t : t = <<p, q>>
        OBVIOUS
      <4>3. t \in Seq(Fr) \X Seq(Fr) /\ t[1] = p /\ t[2] = q
        BY <4>1, <4>2
      <4>4. QED
        BY Zenon, <4>2, <4>3
    <3>2. PICK H : H = G[u] /\ H = [w \in Seq(Fr) \X Seq(Fr) |-> PolyMul(w[1], w[2])]
      BY <2>1
    <3>3. H[t] = PolyMul(t[1], t[2])
      BY <3>2
    <3>4. QED
      BY <3>1, <3>2, <3>3
  <2>4. QED
    BY <2>3
<1>4. PICK f : f = [u \in Slices |-> f[u]] /\ \A u \in Slices : f[u] = TreeValue(f, B, G, u)
  BY TreeRecursion
<1> DEFINE S == {u \in Slices : f[u] \in Seq(Fr)}
<1>5. HoldsTrees(S)
  <2>1. ASSUME NEW u \in Slices, Len(u) = 1 PROVE u \in S
    <3>1. f[u] = ModuliFromScalar(u[1])
      BY <1>2, <1>4, <2>1 DEF TreeValue
    <3>2. u[1] \in Fr
      BY <2>1 DEF Slices
    <3>3. QED
      BY <3>1, <3>2, ModuliFacts
  <2>2. ASSUME NEW u, Split(u), LeftHalf(u) \in S, RightHalf(u) \in S PROVE u \in S
    <3>1. u \in Slices /\ Len(u) # 1
      BY <2>2 DEF Split
    <3>2. f[u] = PolyMul(f[LeftHalf(u)], f[RightHalf(u)])
      BY <1>3, <1>4, <2>2, <3>1 DEF TreeValue
    <3>3. QED
      BY <2>2, <3>1, <3>2, PolyMulSer
  <2>3. QED
    <3> HIDE DEF S
    <3> QED
      BY <2>1, <2>2 DEF HoldsTrees
<1>6. \A u \in Slices : f[u] \in Seq(Fr)
  <2>1. \A u \in Slices : u \in S
    <3> HIDE DEF S
    <3> QED
      BY <1>5, SliceInduction
  <2>2. QED
    BY <2>1
<1>7. ASSUME NEW u \in Slices PROVE f[u] = Body(f, u)
  <2>1. CASE Len(u) = 1
    BY <1>2, <1>4, <2>1 DEF TreeValue
  <2>2. CASE Len(u) # 1
    <3>1. Split(u)
      BY <2>2 DEF Split
    <3>2. LeftHalf(u) \in Slices /\ RightHalf(u) \in Slices
      BY <3>1, Halves
    <3>3. f[LeftHalf(u)] \in Seq(Fr) /\ f[RightHalf(u)] \in Seq(Fr)
      BY <1>6, <3>2
    <3>4. f[u] = PolyMul(f[LeftHalf(u)], f[RightHalf(u)])
      BY <1>3, <1>4, <2>2, <3>3 DEF TreeValue
    <3>5. QED
      BY <2>2, <3>4
  <2>3. QED
    BY <2>1, <2>2
<1>8. f = [u \in Slices |-> Body(f, u)]
  <2> HIDE DEF Body
  <2> QED
    BY <1>4, <1>7
<1>9. M = [u \in Slices |-> Body(M, u)]
  BY <1>8
<1>10. TreeM = M
  BY DEF TreeM
<1>11. \A u \in Slices : TreeM[u] = Body(TreeM, u)
  <2> HIDE DEF M, Body
  <2> QED
    BY <1>9, <1>10
<1>12. QED
  BY <1>11 DEF Split

\* r is s followed by t.
IsJoined(r, s, n, t, m) == (\A i \in 1..n : r[i] = s[i]) /\ (\A i \in 1..m : r[n + i] = t[i])

\* Sums and products of a concatenation.
LEMMA FoldsJoin ==
    ASSUME NEW n \in Nat, NEW m \in Nat, NEW s \in [1..n -> Fr], NEW t \in [1..m -> Fr],
           NEW r \in [1..(n + m) -> Fr], IsJoined(r, s, n, t, m)
    PROVE  FProd(r) = Mul(FProd(s), FProd(t)) /\ FSum(r) = Add(FSum(s), FSum(t))
<1> DEFINE P(k) == [i \in 1..(n + k) |-> r[i]]
           Q(k) == [i \in 1..k |-> t[i]]
           Good(k) == FProd(P(k)) = Mul(FProd(s), FProd(Q(k))) /\ FSum(P(k)) = Add(FSum(s), FSum(Q(k)))
           S == {k \in 0..m : Good(k)}
<1>0. FProd(s) \in Fr /\ FSum(s) \in Fr
  BY FoldTypes
<1>1. \A k \in 0..m : P(k) \in [1..(n + k) -> Fr] /\ Q(k) \in [1..k -> Fr]
  OBVIOUS
<1>2. 0 \in S
  <2>1. P(0) = s
    <3>1. \A i \in 1..n : r[i] = s[i]
      BY DEF IsJoined
    <3>2. n + 0 = n /\ s = [i \in 1..n |-> s[i]]
      OBVIOUS
    <3>3. QED
      BY <3>1, <3>2
  <2>2. Q(0) \in [1..0 -> Fr]
    OBVIOUS
  <2>3. FProd(Q(0)) = One /\ FSum(Q(0)) = Zero
    <3> HIDE DEF Q
    <3> QED
      BY <2>2, FProdEmpty, FSumEmpty
  <2>4. Good(0)
    <3> HIDE DEF P, Q
    <3> QED
      BY <1>0, <2>1, <2>3, FrMultiplicative, FrAdditive
  <2>5. QED
    <3> HIDE DEF Good
    <3> QED
      BY <2>4
<1>3. ASSUME NEW k \in 1..m, k - 1 \in S PROVE k \in S
  <2>1. PICK j \in Nat, e \in Nat : j = k - 1 /\ k = j + 1 /\ e = n + j /\ j \in 0..m
    OBVIOUS
  <2>2. PICK a \in [1..(e + 1) -> Fr], b \in [1..e -> Fr], c \in [1..(j + 1) -> Fr], d \in [1..j -> Fr] :
          a = P(k) /\ b = P(j) /\ c = Q(k) /\ d = Q(j)
    <3>1. n + k = e + 1 /\ n + j = e
      BY <2>1
    <3>2. P(k) \in [1..(e + 1) -> Fr] /\ P(j) \in [1..e -> Fr] /\ Q(k) \in [1..(j + 1) -> Fr] /\ Q(j) \in [1..j -> Fr]
      <4> HIDE DEF P, Q
      <4> QED
        BY <1>1, <2>1, <3>1
    <3>3. QED
      <4> HIDE DEF P, Q
      <4> QED
        BY <3>2
  <2>3. \A i \in 1..e : b[i] = a[i]
    BY SMTT(60), <2>1, <2>2
  <2>4. \A i \in 1..j : d[i] = c[i]
    <3>1. c = [i \in 1..k |-> t[i]] /\ d = [i \in 1..j |-> t[i]]
      BY <2>2
    <3>2. \A i \in 1..j : i \in 1..k
      BY <2>1
    <3>3. QED
      BY <3>1, <3>2
  <2>5. a[e + 1] = c[j + 1] /\ c[j + 1] \in Fr
    <3>1. a[e + 1] = r[n + k]
      BY <2>1, <2>2
    <3>2. c[j + 1] = t[k]
      BY <2>1, <2>2
    <3>3. r[n + k] = t[k]
      BY DEF IsJoined
    <3>4. t[k] \in Fr
      OBVIOUS
    <3>5. QED
      BY <3>1, <3>2, <3>3, <3>4
  <2>6. FProd(b) = Mul(FProd(s), FProd(d)) /\ FSum(b) = Add(FSum(s), FSum(d))
    BY <1>3, <2>1, <2>2
  <2>7. FSum(a) = Add(FSum(b), a[e + 1]) /\ FProd(a) = Mul(FProd(b), a[e + 1])
    BY <2>3, FoldsAppend
  <2>8. FSum(c) = Add(FSum(d), c[j + 1]) /\ FProd(c) = Mul(FProd(d), c[j + 1])
    BY <2>4, FoldsAppend
  <2>9. FSum(d) \in Fr /\ FProd(d) \in Fr
    BY FoldTypes
  <2>10. FProd(a) = Mul(FProd(s), FProd(c))
    BY <1>0, <2>5, <2>6, <2>7, <2>8, <2>9, FrMultiplicative
  <2>11. FSum(a) = Add(FSum(s), FSum(c))
    BY <1>0, <2>5, <2>6, <2>7, <2>8, <2>9, FrAdditive
  <2>12. Good(k)
    <3> HIDE DEF P, Q
    <3> QED
      BY <2>2, <2>10, <2>11
  <2>13. QED
    <3> HIDE DEF Good
    <3> QED
      BY <2>12
<1>4. \A k \in 0..m : k \in S
  <2> HIDE DEF S
  <2> QED
    BY <1>2, <1>3, IndexInduction
<1>5. Good(m)
  <2>1. m \in S
    <3> HIDE DEF S
    <3> QED
      BY <1>4
  <2>2. QED
    <3> HIDE DEF Good
    <3> QED
      BY <2>1
<1>6. P(m) = r /\ Q(m) = t
  OBVIOUS
<1>7. QED
  BY <1>5, <1>6

\* A monic polynomial of degree n: n + 1 coefficients, the last of them one.
MonicOf(p, n) == p \in [1..(n + 1) -> Fr] /\ p[n + 1] = One

\* A monic polynomial of degree n has n + 1 coefficients and no leading zeros.
LEMMA MonicFacts ==
    ASSUME NEW n \in Nat, NEW p, MonicOf(p, n)
    PROVE  p \in Seq(Fr) /\ Len(p) = n + 1 /\ Monomial(p) /\ PolyLen(p) = n + 1
<1>1. PICK m \in Nat \ {0} : m = n + 1
  OBVIOUS
<1>2. p \in [1..m -> Fr] /\ p[m] = One
  BY <1>1 DEF MonicOf
<1>3. p \in Seq(Fr) /\ Len(p) = m
  BY <1>2, SeqOf
<1>4. Monomial(p)
  <2>1. p # <<>>
    BY <1>3
  <2>2. QED
    BY <1>2, <1>3, <2>1 DEF Monomial
<1>5. PolyLen(p) = m
  <2>1. PolyLen(p) \in 0..m /\ \A k \in 1..m : k > PolyLen(p) => p[k] = Zero
    BY <1>3, PolyLenFacts
  <2>2. m > PolyLen(p) => p[m] = Zero
    BY <2>1
  <2>3. QED
    BY <1>2, <2>1, <2>2, FrClosed
<1>6. QED
  BY <1>1, <1>3, <1>4, <1>5

\* The product of monic polynomials is monic.
LEMMA MonicMul ==
    ASSUME NEW a \in Nat, NEW b \in Nat, NEW p, NEW q, MonicOf(p, a), MonicOf(q, b)
    PROVE  MonicOf(PolyMul(p, q), a + b)
<1>1. PICK m \in Nat, d \in Nat, k \in Nat : m = a + 1 /\ d = b + 1 /\ k = a + b /\ k + 2 = m + d
  OBVIOUS
<1>2. p \in [1..m -> Fr] /\ p[m] = One /\ q \in [1..d -> Fr] /\ q[d] = One
  BY <1>1 DEF MonicOf
<1>3. p \in Seq(Fr) /\ q \in Seq(Fr) /\ Len(p) = m /\ Len(q) = d
  BY <1>2, SeqOf
<1>4. PICK s \in Seq(Fr) : s = PolyMul(p, q) /\ Ser(s) = Conv(Ser(p), Ser(q)) /\ PolyLen(s) = Len(s)
  BY <1>3, PolyMulSer
<1>5. Ser(p) \in Series /\ Ser(q) \in Series
  BY <1>3, SerFacts
<1>6. PICK rp \in [1..m -> Fr] : rp = Reverse(p) /\ IsReverse(rp, p, m)
  BY <1>2, ReverseFacts
<1>7. PICK rq \in [1..d -> Fr] : rq = Reverse(q) /\ IsReverse(rq, q, d)
  BY <1>2, ReverseFacts
<1>8. Ser(s)[k] = One
  <2>1. PICK z \in Nat : z = 0
    OBVIOUS
  <2>2. Mirrors(k, z, m, d)
    BY <1>1, <2>1 DEF Mirrors
  <2>3. Reversed(m, p, rp) /\ Reversed(d, q, rq)
    BY <1>2, <1>6, <1>7 DEF Reversed
  <2>4. Conv(Ser(p), Ser(q))[k] = Conv(Ser(rp), Ser(rq))[z]
    BY <2>2, <2>3, ConvReverse
  <2>5. rp \in Seq(Fr) /\ rq \in Seq(Fr) /\ Len(rp) = m /\ Len(rq) = d
    BY SeqOf
  <2>6. Ser(rp) \in Series /\ Ser(rq) \in Series
    BY <2>5, SerFacts
  <2>7. Ser(rp)[0] = rp[1] /\ Ser(rq)[0] = rq[1]
    <3>1. Ser(rp)[0] = IF 0 < m THEN rp[0 + 1] ELSE Zero
      BY <2>5, SerFacts
    <3>2. Ser(rq)[0] = IF 0 < d THEN rq[0 + 1] ELSE Zero
      BY <2>5, SerFacts
    <3>3. QED
      BY <1>1, <3>1, <3>2
  <2>8. rp[1] = One /\ rq[1] = One
    <3>1. 1 \in 1..m /\ 1 \in 1..d /\ m - 1 + 1 = m /\ d - 1 + 1 = d
      BY <1>1
    <3>2. rp[1] = p[m - 1 + 1] /\ rq[1] = q[d - 1 + 1]
      BY <1>6, <1>7, <3>1 DEF IsReverse
    <3>3. QED
      BY <1>2, <3>1, <3>2
  <2>9. Conv(Ser(rp), Ser(rq))[0] = Mul(One, One)
    <3>1. Conv(Ser(rp), Ser(rq))[0] = Mul(Ser(rp)[0], Ser(rq)[0])
      BY <2>6, ConvStep
    <3>2. QED
      BY <2>7, <2>8, <3>1
  <2>10. Mul(One, One) = One
    BY FrClosed, FrMultiplicative
  <2>11. QED
    BY <1>4, <2>1, <2>4, <2>9, <2>10
<1>9. PICK n \in Nat : n = k + 1
  OBVIOUS
<1>10. NoneFrom(Ser(p), m) /\ NoneFrom(Ser(q), d)
  <2>1. NoneFrom(Ser(p), Len(p)) /\ NoneFrom(Ser(q), Len(q))
    <3>1. PICK z \in Nat : z = 0
      OBVIOUS
    <3>2. QED
      BY <1>3, SerEnds
  <2>2. QED
    BY <1>3, <2>1
<1>11. \A j \in Nat : j >= n => Ser(s)[j] = Zero
  <2> SUFFICES ASSUME NEW j \in Nat, j >= n PROVE Ser(s)[j] = Zero
    OBVIOUS
  <2>1. j + 1 >= m + d
    BY <1>1, <1>9
  <2>2. QED
    BY <1>4, <1>5, <1>10, <2>1, ConvBeyond
<1>12. PolyLen(s) <= n /\ PolyLen(s) \in Nat
  BY <1>11, SerFacts, PolyLenFacts
<1>13. PolyLen(s) >= n
  <2>1. k >= PolyLen(s) => Ser(s)[k] = Zero
    BY SerFacts
  <2>2. ~ (k >= PolyLen(s))
    BY <1>8, <2>1, FrClosed
  <2>3. QED
    BY <1>9, <1>12, <2>2
<1>14. Len(s) = n
  BY <1>4, <1>12, <1>13
<1>15. s \in [1..n -> Fr]
  BY <1>14
<1>16. s[n] = One
  <2>1. Ser(s)[k] = IF k < n THEN s[k + 1] ELSE Zero
    BY <1>14, SerFacts
  <2>2. QED
    BY <1>8, <1>9, <2>1
<1>17. QED
  BY <1>1, <1>4, <1>9, <1>15, <1>16 DEF MonicOf

\* The products that the trees' polynomials are.
Differences(u, x) == [j \in 1..Len(u) |-> Sub(x, u[j])]

\* The differences are field elements.
LEMMA DifferencesType ==
    ASSUME NEW u \in Slices, NEW x \in Fr
    PROVE  /\ Differences(u, x) \in [1..Len(u) -> Fr] /\ Len(u) \in Nat \ {0} /\ u \in [1..Len(u) -> Fr]
           /\ \A j \in 1..Len(u) : Differences(u, x)[j] = Sub(x, u[j])
<1>1. Len(u) \in Nat \ {0} /\ u \in [1..Len(u) -> Fr]
  BY DEF Slices
<1>2. \A j \in 1..Len(u) : u[j] \in Fr
  BY <1>1
<1>3. \A j \in 1..Len(u) : Sub(x, u[j]) \in Fr
  BY <1>2, SubFacts
<1>4. QED
  BY <1>1, <1>3 DEF Differences

\* m of a tree is the monic polynomial whose zeros are the points of its slice.
TreeIsProduct(u) ==
    /\ MonicOf(TreeM[u], Len(u))
    /\ \A x \in Fr : Eval(TreeM[u], x) = FProd(Differences(u, x))

\* SubproductTree::new builds that polynomial, for every slice.
LEMMA TreeMFacts ==
    ASSUME NEW u \in Slices
    PROVE  TreeIsProduct(u)
<1> DEFINE S == {v \in Slices : TreeIsProduct(v)}
<1>1. ASSUME NEW v \in Slices, Len(v) = 1 PROVE TreeIsProduct(v)
  <2>1. PICK s \in Fr : s = v[1]
    BY <1>1 DEF Slices
  <2>2. PICK p \in Seq(Fr) : /\ p = TreeM[v] /\ Len(p) = 2 /\ p[2] = One
                             /\ \A x \in Fr : Eval(p, x) = Sub(x, s)
    <3>1. TreeM[v] = ModuliFromScalar(s)
      BY <1>1, <2>1, TreeMEquation
    <3>2. QED
      BY <3>1, ModuliFacts
  <2>3. MonicOf(p, 1)
    <3>1. p \in [1..2 -> Fr]
      BY <2>2
    <3>2. QED
      BY <2>2, <3>1 DEF MonicOf
  <2>4. ASSUME NEW x \in Fr PROVE FProd(Differences(v, x)) = Sub(x, s)
    <3>1. PICK d \in [1..1 -> Fr] : d = Differences(v, x) /\ d[1] = Sub(x, s)
      <4>1. Differences(v, x) \in [1..1 -> Fr] /\ \A j \in 1..1 : Differences(v, x)[j] = Sub(x, v[j])
        BY <1>1, DifferencesType
      <4>2. Differences(v, x)[1] = Sub(x, s)
        BY <2>1, <4>1
      <4>3. QED
        BY <4>1, <4>2
    <3>2. FrontOf(d, 1) \in [1..(1 - 1) -> Fr] /\ FProd(d) = Mul(FProd(FrontOf(d, 1)), d[1])
      <4>1. PICK o \in Nat \ {0} : o = 1
        OBVIOUS
      <4>2. d \in [1..o -> Fr]
        BY <4>1
      <4>3. FrontOf(d, o) \in [1..(o - 1) -> Fr] /\ FProd(d) = Mul(FProd(FrontOf(d, o)), d[o])
        BY <4>2, FProdLast
      <4>4. QED
        BY <4>1, <4>3
    <3>3. 1 - 1 = 0
      OBVIOUS
    <3>4. FProd(FrontOf(d, 1)) = One
      BY <3>2, <3>3, FProdEmpty
    <3>5. d[1] \in Fr
      OBVIOUS
    <3>6. Mul(One, d[1]) = d[1]
      BY <3>5, FrClosed, FrMultiplicative
    <3>7. QED
      BY <3>1, <3>2, <3>4, <3>6
  <2>5. QED
    BY <1>1, <2>2, <2>3, <2>4 DEF TreeIsProduct
<1>2. ASSUME NEW v, Split(v), LeftHalf(v) \in S, RightHalf(v) \in S PROVE TreeIsProduct(v)
  <2>0. v \in Slices
    BY <1>2 DEF Split
  <2>1. PICK l \in Slices, r \in Slices : l = LeftHalf(v) /\ r = RightHalf(v)
    BY <1>2
  <2>2. TreeIsProduct(l) /\ TreeIsProduct(r)
    BY <1>2, <2>1
  <2>3. PICK a \in Nat, b \in Nat : a = Len(l) /\ b = Len(r) /\ Len(v) = a + b
          /\ (\A i \in 1..a : l[i] = v[i]) /\ (\A i \in 1..b : r[i] = v[a + i])
    <3>1. PICK h \in Nat, n \in Nat : h < n /\ n = Len(v) /\ Len(l) = h /\ Len(r) = n - h
            /\ (\A i \in 1..h : l[i] = v[i]) /\ (\A i \in 1..(n - h) : r[i] = v[h + i])
      BY ZenonT(90), <1>2, <2>1, Halves
    <3>2. n - h \in Nat /\ n = h + (n - h)
      BY <3>1
    <3>3. QED
      BY <3>1, <3>2
  <2>4. TreeM[v] = PolyMul(TreeM[l], TreeM[r])
    BY <1>2, <2>1, TreeMEquation
  <2>5. PICK p, q : p = TreeM[l] /\ q = TreeM[r] /\ MonicOf(p, a) /\ MonicOf(q, b)
    BY <2>2, <2>3 DEF TreeIsProduct
  <2>6. MonicOf(PolyMul(p, q), a + b)
    BY <2>5, MonicMul
  <2>7. p \in Seq(Fr) /\ q \in Seq(Fr)
    BY <2>5, MonicFacts
  <2>8. ASSUME NEW x \in Fr PROVE Eval(PolyMul(p, q), x) = FProd(Differences(v, x))
    <3>1. Eval(PolyMul(p, q), x) = Mul(Eval(p, x), Eval(q, x))
      BY <2>7, EvalMul
    <3>2. Eval(p, x) = FProd(Differences(l, x)) /\ Eval(q, x) = FProd(Differences(r, x))
      BY <2>2, <2>5 DEF TreeIsProduct
    <3>3. PICK dl \in [1..a -> Fr] : dl = Differences(l, x) /\ \A j \in 1..a : dl[j] = Sub(x, l[j])
      BY <2>3, DifferencesType
    <3>4. PICK dr \in [1..b -> Fr] : dr = Differences(r, x) /\ \A j \in 1..b : dr[j] = Sub(x, r[j])
      BY <2>3, DifferencesType
    <3>5. PICK dv \in [1..(a + b) -> Fr] : dv = Differences(v, x) /\ \A j \in 1..(a + b) : dv[j] = Sub(x, v[j])
      <4>1. /\ Differences(v, x) \in [1..Len(v) -> Fr]
            /\ \A j \in 1..Len(v) : Differences(v, x)[j] = Sub(x, v[j])
        BY <2>0, DifferencesType
      <4>2. QED
        BY <2>3, <4>1
    <3>6. IsJoined(dv, dl, a, dr, b)
      <4>1. \A i \in 1..a : i \in 1..(a + b)
        OBVIOUS
      <4>2. \A i \in 1..b : a + i \in 1..(a + b)
        OBVIOUS
      <4>3. \A i \in 1..a : dv[i] = dl[i]
        BY <2>3, <3>3, <3>5, <4>1
      <4>4. \A i \in 1..b : dv[a + i] = dr[i]
        BY <2>3, <3>4, <3>5, <4>2
      <4>5. QED
        BY <4>3, <4>4 DEF IsJoined
    <3>7. FProd(dv) = Mul(FProd(dl), FProd(dr))
      BY <3>6, FoldsJoin
    <3>8. QED
      BY <3>1, <3>2, <3>3, <3>4, <3>5, <3>7
  <2>9. QED
    BY <2>3, <2>4, <2>5, <2>6, <2>8 DEF TreeIsProduct
<1>3. HoldsTrees(S)
  <2>1. \A v \in Slices : Len(v) = 1 => v \in S
    BY <1>1
  <2>2. \A v : Split(v) /\ LeftHalf(v) \in S /\ RightHalf(v) \in S => v \in S
    BY <1>2 DEF Split
  <2>3. QED
    <3> HIDE DEF S
    <3> QED
      BY <2>1, <2>2 DEF HoldsTrees
<1>4. \A v \in Slices : v \in S
  <2> HIDE DEF S
  <2> QED
    BY <1>3, SliceInduction
<1>5. QED
  BY <1>4
-----------------------------------------------------------------------------
\* The lengths of sums and products.
LEMMA LengthNone ==
    ASSUME NEW p \in Seq(Fr), NEW n \in Nat
    PROVE  PolyLen(p) <= n <=> NoneFrom(Ser(p), n)
<1>1. PolyLen(p) \in Nat
  BY PolyLenFacts
<1>2. ASSUME PolyLen(p) <= n PROVE NoneFrom(Ser(p), n)
  BY <1>1, <1>2, SerFacts DEF NoneFrom
<1>3. ASSUME NoneFrom(Ser(p), n) PROVE PolyLen(p) <= n
  BY <1>3, SerFacts DEF NoneFrom
<1>4. QED
  BY <1>2, <1>3

\* A sum is no longer than the longer of its terms.
LEMMA AddLength ==
    ASSUME NEW p \in Seq(Fr), NEW q \in Seq(Fr), NEW n \in Nat, PolyLen(p) <= n, PolyLen(q) <= n
    PROVE  PolyLen(PolyAdd(p, q)) <= n
<1>1. NoneFrom(Ser(p), n) /\ NoneFrom(Ser(q), n)
  BY LengthNone
<1>2. Ser(p) \in Series /\ Ser(q) \in Series
  BY SerFacts
<1>3. ASSUME NEW k \in Nat, k >= n PROVE SAdd(Ser(p), Ser(q))[k] = Zero
  <2>1. Ser(p)[k] = Zero /\ Ser(q)[k] = Zero
    BY <1>1, <1>3 DEF NoneFrom
  <2>2. QED
    BY <2>1, FrAdditive, FrClosed DEF SAdd
<1>4. PolyAdd(p, q) \in Seq(Fr) /\ Ser(PolyAdd(p, q)) = SAdd(Ser(p), Ser(q))
  BY PolyAddSer
<1>5. NoneFrom(Ser(PolyAdd(p, q)), n)
  BY <1>3, <1>4 DEF NoneFrom
<1>6. QED
  BY <1>4, <1>5, LengthNone

\* Two inverses modulo the same power of x agree below it.
LEMMA InverseUnique ==
    ASSUME NEW f \in Series, NEW g \in Series, NEW h \in Series, NEW a \in Nat,
           InvertsBelow(f, g, a), InvertsBelow(f, h, a), NEW k \in Nat, k < a
    PROVE  g[k] = h[k]
<1>1. PICK p \in Series, q \in Series, o \in Series : p = Conv(f, g) /\ q = Conv(f, h) /\ o = SOne
  BY ConvType, SeriesTypes, FrClosed
<1>2. SameUpTo(p, o, k) /\ SameUpTo(q, o, k)
  <2>1. \A i \in 0..k : i \in Nat /\ i < a
    OBVIOUS
  <2>2. QED
    BY <1>1, <2>1 DEF SameUpTo, InvertsBelow
<1>3. Conv(p, h)[k] = h[k]
  <2>1. Conv(p, h)[k] = Conv(o, h)[k]
    BY <1>2, ConvSame
  <2>2. Conv(o, h) = h
    BY <1>1, ConvOne
  <2>3. QED
    BY <2>1, <2>2
<1>4. Conv(q, g)[k] = g[k]
  <2>1. Conv(q, g)[k] = Conv(o, g)[k]
    BY <1>2, ConvSame
  <2>2. Conv(o, g) = g
    BY <1>1, ConvOne
  <2>3. QED
    BY <2>1, <2>2
<1>5. Conv(p, h) = Conv(q, g)
  <2>1. Conv(p, h) = Conv(f, Conv(g, h)) /\ Conv(q, g) = Conv(f, Conv(h, g))
    BY <1>1, ConvAssoc
  <2>2. Conv(g, h) = Conv(h, g)
    BY ConvComm
  <2>3. QED
    BY <2>1, <2>2
<1>6. QED
  BY <1>3, <1>4, <1>5

\* The coefficient of 1 / f that the first k - 1 determine.
Feedback(f, c, k) == FSum([j \in 1..(k - 1) |-> Mul(Coeff(f, j + 1), Coeff(c, k - j))])
NextTerms(f, c, k) ==
    IF k = 1 THEN <<Inv(f[1])>> ELSE Append(c, Neg(Mul(Inv(f[1]), Feedback(f, c, k))))

\* The sum is a coefficient of the product with the tail of f.
LEMMA FeedbackFacts ==
    ASSUME NEW f \in Seq(Fr), NEW c \in Seq(Fr), NEW k \in Nat
    PROVE  /\ Feedback(f, c, k + 2) \in Fr
           /\ Feedback(f, c, k + 2) = Conv(STail(Ser(f)), Ser(c))[k]
<1>1. PICK t \in Series, e \in Series : t = STail(Ser(f)) /\ e = Ser(c)
  BY SerFacts, SeriesTypes, FrClosed
<1>2. k + 2 - 1 = k + 1
  OBVIOUS
<1>3. ASSUME NEW j \in 1..(k + 1)
      PROVE  Mul(Coeff(f, j + 1), Coeff(c, k + 2 - j)) = Mul(t[j - 1], e[k + 1 - j])
  <2>1. PICK i \in Nat, m \in Nat : i = j - 1 /\ m = k + 1 - j /\ j + 1 = i + 1 + 1 /\ k + 2 - j = m + 1
    OBVIOUS
  <2>2. t[i] = Coeff(f, i + 1 + 1)
    BY <1>1 DEF STail, Ser
  <2>3. e[m] = Coeff(c, m + 1)
    BY <1>1 DEF Ser
  <2>4. QED
    BY <2>1, <2>2, <2>3
<1>4. Feedback(f, c, k + 2) = FSum(ConvTerms(t, e, k))
  <2>1. [j \in 1..(k + 1) |-> Mul(Coeff(f, j + 1), Coeff(c, k + 2 - j))] = ConvTerms(t, e, k)
    BY <1>3 DEF ConvTerms
  <2>2. QED
    BY <1>2, <2>1 DEF Feedback
<1>5. Conv(t, e)[k] = FSum(ConvTerms(t, e, k)) /\ Conv(t, e)[k] \in Fr
  <2>1. Conv(t, e) \in Series
    BY ConvType
  <2>2. QED
    BY <2>1 DEF Conv, Series
<1>6. QED
  BY <1>1, <1>4, <1>5

\* It is a field element, so the terms are polynomials.
LEMMA NextTermsType ==
    ASSUME NEW f \in Seq(Fr), f # <<>>, NEW c \in Seq(Fr), NEW k \in Nat \ {0}
    PROVE  NextTerms(f, c, k) \in Seq(Fr)
<1>1. PICK x \in Fr : x = Inv(f[1])
  <2>1. f[1] \in Fr
    OBVIOUS
  <2>2. QED
    BY <2>1, FrClosed
<1>2. CASE k = 1
  <2>1. <<x>> \in Seq(Fr)
    OBVIOUS
  <2>2. QED
    BY <1>1, <1>2, <2>1 DEF NextTerms
<1>3. CASE k # 1
  <2>1. PICK m \in Nat : k = m + 2
    <3>1. k - 2 \in Nat /\ k = (k - 2) + 2
      BY <1>3
    <3>2. QED
      BY <3>1
  <2>2. Feedback(f, c, k) \in Fr
    BY <2>1, FeedbackFacts
  <2>3. PICK y \in Fr : y = Neg(Mul(x, Feedback(f, c, k)))
    BY <2>2, FrClosed
  <2>4. Append(c, y) \in Seq(Fr)
    OBVIOUS
  <2>5. QED
    BY <1>1, <1>3, <2>3, <2>4 DEF NextTerms
<1>4. QED
  BY <1>2, <1>3

\* One coefficient more makes an inverse to one power more.
LEMMA NextTermsInvert ==
    ASSUME NEW f \in Seq(Fr), f # <<>>, f[1] # Zero, NEW c \in Seq(Fr), NEW k \in Nat, Len(c) = k,
           InvertsBelow(Ser(f), Ser(c), k)
    PROVE  /\ Len(NextTerms(f, c, k + 1)) = k + 1
           /\ InvertsBelow(Ser(f), Ser(NextTerms(f, c, k + 1)), k + 1)
<1>1. PICK n \in Nat \ {0} : n = k + 1
  OBVIOUS
<1>2. PICK d \in Seq(Fr) : d = NextTerms(f, c, n)
  BY NextTermsType
<1>3. PICK F \in Series, C \in Series, D \in Series : F = Ser(f) /\ C = Ser(c) /\ D = Ser(d)
  BY SerFacts
<1>4. PICK a \in Fr, x \in Fr : a = f[1] /\ x = Inv(a) /\ a = F[0] /\ Mul(a, x) = One
  <2>1. f[1] \in Fr /\ Len(f) \in Nat /\ 0 < Len(f)
    OBVIOUS
  <2>2. F[0] = IF 0 < Len(f) THEN f[0 + 1] ELSE Zero
    BY <1>3, SerFacts
  <2>3. F[0] = f[1]
    BY <2>1, <2>2
  <2>4. PICK a \in Fr : a = f[1] /\ a # Zero
    BY <2>1
  <2>5. Inv(a) \in Fr /\ Mul(a, Inv(a)) = One
    BY <2>4, FrClosed, FrMultiplicative
  <2>6. QED
    BY <2>3, <2>4, <2>5
<1>5. CASE k = 0
  <2>1. d = <<x>>
    BY <1>1, <1>2, <1>4, <1>5 DEF NextTerms
  <2>2. Len(d) = 1 /\ d[1] = x
    BY <2>1
  <2>3. D[0] = x
    <3>1. D[0] = IF 0 < Len(d) THEN d[0 + 1] ELSE Zero
      BY <1>3, SerFacts
    <3>2. QED
      BY <2>2, <3>1
  <2>4. Conv(F, D)[0] = One
    <3>1. Conv(F, D)[0] = Mul(F[0], D[0])
      BY ConvStep
    <3>2. QED
      BY <1>4, <2>3, <3>1
  <2>5. SOne[0] = One
    BY DEF SOne
  <2>6. InvertsBelow(F, D, 1)
    <3> SUFFICES ASSUME NEW i \in Nat, i < 1 PROVE Conv(F, D)[i] = SOne[i]
      BY DEF InvertsBelow
    <3>1. i = 0
      OBVIOUS
    <3>2. QED
      BY <2>4, <2>5, <3>1
  <2>7. QED
    BY <1>1, <1>2, <1>3, <1>5, <2>2, <2>6
<1>6. CASE k # 0
  <2>1. PICK m \in Nat : k = m + 1 /\ n = m + 2
    <3>1. k - 1 \in Nat /\ k = (k - 1) + 1
      BY <1>6
    <3>2. QED
      BY <1>1, <3>1
  <2>2. PICK t \in Fr : t = Feedback(f, c, n) /\ t = Conv(STail(F), C)[m]
    BY <1>3, <2>1, FeedbackFacts
  <2>3. PICK y \in Fr : y = Neg(Mul(x, t)) /\ d = Append(c, y)
    <3>1. n # 1
      BY <2>1
    <3>2. Neg(Mul(x, t)) \in Fr
      BY FrClosed
    <3>3. QED
      BY <1>2, <1>4, <2>2, <3>1, <3>2 DEF NextTerms
  <2>4. Len(d) = n /\ d[n] = y /\ \A i \in 1..k : d[i] = c[i]
    BY <1>1, <2>3
  <2>5. ASSUME NEW i \in Nat, i < k PROVE D[i] = C[i]
    <3>1. D[i] = IF i < n THEN d[i + 1] ELSE Zero
      BY <1>3, <2>4, SerFacts
    <3>2. C[i] = IF i < k THEN c[i + 1] ELSE Zero
      BY <1>3, SerFacts
    <3>3. i < n /\ i + 1 \in 1..k
      BY <1>1, <2>5
    <3>4. QED
      BY <2>4, <2>5, <3>1, <3>2, <3>3
  <2>6. D[k] = y
    <3>1. D[k] = IF k < n THEN d[k + 1] ELSE Zero
      BY <1>3, <2>4, SerFacts
    <3>2. QED
      BY <1>1, <2>4, <3>1
  <2>7. ASSUME NEW i \in Nat, i < k PROVE Conv(F, D)[i] = SOne[i]
    <3>1. \A j \in 0..i : j \in Nat /\ j < k
      BY <2>7
    <3>2. \A j \in 0..i : F[j] = F[j] /\ D[j] = C[j]
      BY <2>5, <3>1
    <3>3. Conv(F, D)[i] = Conv(F, C)[i]
      BY <3>2, ConvLocal
    <3>4. QED
      BY <1>3, <2>7, <3>3 DEF InvertsBelow
  <2>8. Conv(F, D)[k] = Zero
    <3>1. PICK T \in Series : T = STail(F)
      BY SeriesTypes, FrClosed
    <3>2. Conv(F, D)[m + 1] = Add(Mul(F[0], D[m + 1]), Conv(T, D)[m])
      BY <3>1, ConvStep
    <3>3. Conv(T, D)[m] = Conv(T, C)[m]
      <4>1. \A j \in 0..m : j \in Nat /\ j < k
        BY <2>1
      <4>2. \A j \in 0..m : T[j] = T[j] /\ D[j] = C[j]
        BY <2>5, <4>1
      <4>3. QED
        BY <4>2, ConvLocal
    <3>4. Mul(a, y) = Neg(t)
      <4>1. Mul(x, t) \in Fr /\ Mul(a, y) = Neg(Mul(a, Mul(x, t)))
        BY <2>3, FrClosed, MulNeg
      <4>2. Mul(a, Mul(x, t)) = Mul(Mul(a, x), t)
        BY FrMultiplicative
      <4>3. Mul(One, t) = t
        BY FrClosed, FrMultiplicative
      <4>4. QED
        BY <1>4, <4>1, <4>2, <4>3
    <3>5. Add(Neg(t), t) = Zero
      BY FrClosed, FrAdditive
    <3>6. Conv(T, D)[m] = t
      BY <2>2, <3>1, <3>3
    <3>7. Mul(F[0], D[m + 1]) = Neg(t)
      BY <1>4, <2>1, <2>6, <3>4
    <3>8. QED
      BY <2>1, <3>2, <3>5, <3>6, <3>7
  <2>9. SOne[k] = Zero
    BY <1>6 DEF SOne
  <2>10. InvertsBelow(F, D, n)
    <3> SUFFICES ASSUME NEW i \in Nat, i < n PROVE Conv(F, D)[i] = SOne[i]
      BY DEF InvertsBelow
    <3>1. i < k \/ i = k
      BY <1>1
    <3>2. QED
      BY <2>7, <2>8, <2>9, <3>1
  <2>11. QED
    BY <1>1, <1>2, <1>3, <2>4, <2>10
<1>7. QED
  BY <1>5, <1>6

\* The sequence of no terms.
LEMMA NoTerms == <<>> \in Seq(Fr) /\ Len(<<>>) = 0
OBVIOUS

\* Reciprocal is the inverse of f modulo x^n.
LEMMA ReciprocalFacts ==
    ASSUME NEW f \in Seq(Fr), f # <<>>, f[1] # Zero, NEW n \in Nat
    PROVE  /\ Reciprocal(f, n) \in Seq(Fr) /\ Len(Reciprocal(f, n)) = n
           /\ InvertsBelow(Ser(f), Ser(Reciprocal(f, n)), n)
<1> DEFINE Body(h, k) == IF k = 0 THEN <<>> ELSE NextTerms(f, h[k - 1], k)
           Step(h) == [k \in 0..n |-> Body(h, k)]
           cs == CHOOSE h : h = Step(h)
           G == [p \in Seq(Fr) \X (1..n) |-> NextTerms(f, p[1], p[2])]
<1>1. PICK b \in Seq(Fr) : b = <<>>
  BY NoTerms
<1>2. FoldStep(G, n, Seq(Fr))
  <2>1. \A p \in Seq(Fr) \X (1..n) : p[1] \in Seq(Fr) /\ p[2] \in Nat \ {0}
    OBVIOUS
  <2>2. \A p \in Seq(Fr) \X (1..n) : NextTerms(f, p[1], p[2]) \in Seq(Fr)
    BY <2>1, NextTermsType
  <2>3. QED
    BY <2>2 DEF FoldStep
<1>3. PICK g \in [0..n -> Seq(Fr)] : g[0] = b /\ \A i \in 1..n : g[i] = G[<<g[i - 1], i>>]
  <2> HIDE DEF G
  <2>1. \E g \in [0..n -> Seq(Fr)] : IsFoldOf(g, n, b, G)
    BY ZenonT(90), <1>2, FoldExistsIn
  <2>2. QED
    BY <2>1 DEF IsFoldOf
<1>4. \A i \in 1..n : g[i] = NextTerms(f, g[i - 1], i)
  <2> SUFFICES ASSUME NEW i \in 1..n PROVE g[i] = NextTerms(f, g[i - 1], i)
    OBVIOUS
  <2>1. <<g[i - 1], i>> \in Seq(Fr) \X (1..n)
    OBVIOUS
  <2>2. QED
    BY <1>3, <2>1
<1>5. g = Step(g)
  <2> HIDE DEF G
  <2>1. \A i \in 0..n : g[i] = Body(g, i)
    BY <1>1, <1>3, <1>4
  <2>2. QED
    BY <2>1
<1>6. cs = Step(cs)
  BY <1>5
<1>7. cs[0] = <<>> /\ \A i \in 1..n : cs[i] = NextTerms(f, cs[i - 1], i)
  <2> HIDE DEF cs
  <2>1. \A k \in 0..n : cs[k] = Body(cs, k)
    <3>1. PICK h : h = Step(cs)
      OBVIOUS
    <3>2. \A k \in 0..n : h[k] = Body(cs, k)
      BY <3>1
    <3>3. QED
      BY <1>6, <3>1, <3>2
  <2>2. QED
    BY <2>1
<1>8. Reciprocal(f, n) = cs[n]
  BY DEF Reciprocal, NextTerms, Feedback
<1> HIDE DEF cs
<1> DEFINE S == {k \in 0..n : cs[k] \in Seq(Fr) /\ Len(cs[k]) = k /\ InvertsBelow(Ser(f), Ser(cs[k]), k)}
<1>9. 0 \in S
  <2>1. InvertsBelow(Ser(f), Ser(<<>>), 0)
    BY DEF InvertsBelow
  <2>2. cs[0] \in Seq(Fr) /\ Len(cs[0]) = 0 /\ InvertsBelow(Ser(f), Ser(cs[0]), 0)
    BY <1>7, <2>1, NoTerms
  <2>3. 0 \in 0..n
    OBVIOUS
  <2>4. QED
    BY <2>2, <2>3
<1>10. ASSUME NEW i \in 1..n, i - 1 \in S PROVE i \in S
  <2>1. PICK j \in Nat, c \in Seq(Fr) : i = j + 1 /\ c = cs[j] /\ Len(c) = j /\ InvertsBelow(Ser(f), Ser(c), j)
    <3>1. i - 1 \in Nat /\ i = (i - 1) + 1
      OBVIOUS
    <3>2. QED
      BY <1>10, <3>1
  <2>2. i - 1 = j
    BY <2>1
  <2>3. cs[i] = NextTerms(f, c, j + 1)
    BY <1>7, <2>1, <2>2
  <2>4. NextTerms(f, c, j + 1) \in Seq(Fr)
    <3>1. PICK k \in Nat \ {0} : k = j + 1
      OBVIOUS
    <3>2. NextTerms(f, c, k) \in Seq(Fr)
      BY NextTermsType
    <3>3. QED
      BY <3>1, <3>2
  <2>5. Len(NextTerms(f, c, j + 1)) = j + 1 /\ InvertsBelow(Ser(f), Ser(NextTerms(f, c, j + 1)), j + 1)
    BY <2>1, NextTermsInvert
  <2>6. QED
    BY <2>1, <2>3, <2>4, <2>5
<1>11. \A i \in 0..n : i \in S
  <2> HIDE DEF S
  <2> QED
    BY <1>9, <1>10, IndexInduction
<1>12. QED
  BY <1>8, <1>11

\* A product is as long as its factors make it.
LEMMA MulLength ==
    ASSUME NEW p \in Seq(Fr), NEW q \in Seq(Fr), PolyLen(p) # 0, PolyLen(q) # 0
    PROVE  PolyLen(PolyMul(p, q)) + 1 = PolyLen(p) + PolyLen(q)
<1>1. PICK m \in Nat \ {0}, d \in Nat \ {0}, k \in Nat : m = PolyLen(p) /\ d = PolyLen(q) /\ k + 2 = m + d
  <2>1. PICK m \in Nat \ {0}, d \in Nat \ {0} : m = PolyLen(p) /\ d = PolyLen(q)
    BY PolyLenFacts
  <2>2. (m + d) - 2 \in Nat /\ ((m + d) - 2) + 2 = m + d
    OBVIOUS
  <2>3. QED
    BY <2>1, <2>2
<1>2. PICK s \in Seq(Fr) : s = PolyMul(p, q) /\ Ser(s) = Conv(Ser(p), Ser(q))
  BY PolyMulSer
<1>3. PICK x \in Seq(Fr), y \in Seq(Fr) :
        x = Trim(p) /\ y = Trim(q) /\ Len(x) = m /\ Len(y) = d /\ Ser(x) = Ser(p) /\ Ser(y) = Ser(q)
  BY <1>1, TrimFacts
<1>4. x \in [1..m -> Fr] /\ y \in [1..d -> Fr]
  BY <1>3
<1>5. PICK rx \in [1..m -> Fr], ry \in [1..d -> Fr] : IsReverse(rx, x, m) /\ IsReverse(ry, y, d)
  BY <1>4, ReverseFacts
<1>6. rx \in Seq(Fr) /\ ry \in Seq(Fr) /\ Len(rx) = m /\ Len(ry) = d
  BY SeqOf
<1>7. Ser(s)[k] = Conv(Ser(rx), Ser(ry))[0]
  <2>1. PICK z \in Nat : z = 0
    OBVIOUS
  <2>2. Mirrors(k, z, m, d) /\ Reversed(m, x, rx) /\ Reversed(d, y, ry)
    BY <1>1, <1>4, <1>5, <2>1 DEF Mirrors, Reversed
  <2>3. Conv(Ser(x), Ser(y))[k] = Conv(Ser(rx), Ser(ry))[z]
    BY <2>2, ConvReverse
  <2>4. QED
    BY <1>2, <1>3, <2>1, <2>3
<1>8. Conv(Ser(rx), Ser(ry))[0] = Mul(rx[1], ry[1])
  <2>1. Ser(rx) \in Series /\ Ser(ry) \in Series
    BY <1>6, SerFacts
  <2>2. Ser(rx)[0] = IF 0 < m THEN rx[0 + 1] ELSE Zero
    BY <1>6, SerFacts
  <2>3. Ser(ry)[0] = IF 0 < d THEN ry[0 + 1] ELSE Zero
    BY <1>6, SerFacts
  <2>4. Ser(rx)[0] = rx[1] /\ Ser(ry)[0] = ry[1]
    BY <1>1, <2>2, <2>3
  <2>5. QED
    BY <2>1, <2>4, ConvStep
<1>9. rx[1] \in Fr /\ ry[1] \in Fr /\ rx[1] # Zero /\ ry[1] # Zero
  <2>1. 1 \in 1..m /\ 1 \in 1..d /\ m - 1 + 1 = m /\ d - 1 + 1 = d
    BY <1>1
  <2>2. rx[1] = x[m] /\ ry[1] = y[d]
    BY <1>5, <2>1 DEF IsReverse
  <2>3. PolyLen(x) = m /\ PolyLen(y) = d
    BY <1>1, <1>3, TrimFacts
  <2>4. x[m] # Zero /\ y[d] # Zero
    BY <1>1, <2>3, PolyLenFacts
  <2>5. QED
    BY <2>1, <2>2, <2>4
<1>10. Ser(s)[k] # Zero
  BY <1>7, <1>8, <1>9, NoZeroDivisors
<1>11. PICK n \in Nat : n = k + 1
  OBVIOUS
<1>12. PolyLen(s) <= n /\ PolyLen(s) \in Nat
  <2>1. PolyLen(p) <= m /\ PolyLen(q) <= d
    BY <1>1
  <2>2. NoneFrom(Ser(p), m) /\ NoneFrom(Ser(q), d)
    BY <2>1, LengthNone
  <2>3. Ser(p) \in Series /\ Ser(q) \in Series
    BY SerFacts
  <2>4. ASSUME NEW j \in Nat, j >= n PROVE Ser(s)[j] = Zero
    <3>1. j + 1 >= m + d
      BY <1>1, <1>11, <2>4
    <3>2. QED
      BY <1>2, <2>2, <2>3, <3>1, ConvBeyond
  <2>5. NoneFrom(Ser(s), n)
    BY <2>4 DEF NoneFrom
  <2>6. QED
    BY <2>5, LengthNone, PolyLenFacts
<1>13. ~ (k >= PolyLen(s))
  BY <1>10, SerFacts
<1>14. PolyLen(s) = n
  BY <1>11, <1>12, <1>13
<1>15. n + 1 = m + d
  BY <1>1, <1>11
<1>16. QED
  BY <1>1, <1>2, <1>14, <1>15

\* A difference is as long as its subtrahend, if that is longer.
LEMMA SubLength ==
    ASSUME NEW p \in Seq(Fr), NEW q \in Seq(Fr), PolyLen(p) < PolyLen(q)
    PROVE  Len(PolySub(p, q)) >= PolyLen(q)
<1>1. PICK m \in Nat, n \in Nat : m = PolyLen(p) /\ n + 1 = PolyLen(q) /\ m <= n
  <2>1. PolyLen(p) \in Nat /\ PolyLen(q) \in Nat
    BY PolyLenFacts
  <2>2. PolyLen(q) - 1 \in Nat /\ (PolyLen(q) - 1) + 1 = PolyLen(q) /\ PolyLen(p) <= PolyLen(q) - 1
    BY <2>1
  <2>3. QED
    BY <2>1, <2>2
<1>2. PICK s \in Seq(Fr) : s = PolySub(p, q) /\ Ser(s) = SSub(Ser(p), Ser(q)) /\ PolyLen(s) = Len(s)
  BY PolySubSer
<1>3. Ser(p)[n] = Zero
  BY <1>1, SerFacts
<1>4. PICK x \in Fr : x = Ser(q)[n] /\ x # Zero
  <2>1. PolyLen(q) # 0 /\ PolyLen(q) - 1 = n
    BY <1>1
  <2>2. Ser(q)[n] # Zero /\ Ser(q) \in Series
    BY <2>1, SerFacts
  <2>3. QED
    BY <2>2 DEF Series
<1>5. Ser(s)[n] = Sub(Zero, x)
  BY <1>2, <1>3, <1>4 DEF SSub
<1>6. Sub(Zero, x) # Zero
  BY <1>4, FrClosed, SubFacts
<1>7. ~ (n >= PolyLen(s)) /\ PolyLen(s) \in Nat
  BY <1>5, <1>6, SerFacts, PolyLenFacts
<1>8. QED
  BY <1>1, <1>2, <1>7

\* A turn of the loop doubles the length of an inverse without leading zeros, unless f
\* is a constant.
LEMMA NewtonLength ==
    ASSUME NEW f \in Seq(Fr), PolyLen(f) > 1, NEW g \in Seq(Fr), NEW a \in Nat \ {0},
           PolyLen(g) = a, NEW acc \in Nat, acc = 2 * a
    PROVE  Len(NewtonStep(f, g, acc)) = acc
<1>1. PICK m \in Nat, b \in Nat : PolyLen(f) = m + 1 /\ m >= 1 /\ a = b + 1
  <2>1. PolyLen(f) \in Nat
    BY PolyLenFacts
  <2>2. PolyLen(f) - 1 \in Nat /\ PolyLen(f) = (PolyLen(f) - 1) + 1 /\ PolyLen(f) - 1 >= 1
    BY <2>1
  <2>3. a - 1 \in Nat /\ a = (a - 1) + 1
    OBVIOUS
  <2>4. QED
    BY <2>2, <2>3
<1>2. PICK gg \in Seq(Fr) : gg = PolyMul(g, g) /\ PolyLen(gg) = b + b + 1
  <2>1. PolyMul(g, g) \in Seq(Fr)
    BY PolyMulSer
  <2>2. PICK n \in Nat : n = PolyLen(PolyMul(g, g))
    BY <2>1, PolyLenFacts
  <2>3. n + 1 = a + a
    BY <2>2, MulLength
  <2>4. QED
    BY <1>1, <2>1, <2>2, <2>3
<1>3. PICK c \in Nat : c = b + b /\ PolyLen(gg) = c + 1
  BY <1>2
<1>4. PICK fgg \in Seq(Fr) : fgg = PolyMul(f, gg) /\ PolyLen(fgg) = m + c + 1
  <2>1. PolyMul(f, gg) \in Seq(Fr)
    BY PolyMulSer
  <2>2. PICK n \in Nat : n = PolyLen(PolyMul(f, gg))
    BY <2>1, PolyLenFacts
  <2>3. PolyLen(f) # 0 /\ PolyLen(gg) # 0
    BY <1>1, <1>3
  <2>4. n + 1 = PolyLen(f) + PolyLen(gg)
    BY <2>2, <2>3, MulLength
  <2>5. n = m + c + 1
    BY <1>1, <1>3, <2>4
  <2>6. QED
    BY <2>1, <2>2, <2>5
<1>5. PICK two \in Seq(Fr) : two = PolyAdd(g, g) /\ PolyLen(two) <= a /\ PolyLen(two) \in Nat
  BY PolyAddSer, AddLength, PolyLenFacts
<1>6. PolyLen(two) < PolyLen(fgg) /\ PolyLen(fgg) >= acc
  BY <1>1, <1>3, <1>4, <1>5
<1>7. PICK next \in Seq(Fr) : next = PolySub(two, fgg) /\ Len(next) >= PolyLen(fgg)
  BY <1>6, PolySubSer, SubLength
<1>8. Len(next) >= acc /\ Len(next) \in Nat
  BY <1>4, <1>6, <1>7
<1>9. NewtonStep(f, g, acc) = SubSeq(next, 1, Min({Len(next), acc}))
  BY <1>2, <1>4, <1>5, <1>7 DEF NewtonStep
<1>10. Len(NewtonStep(f, g, acc)) = Min({Len(next), acc})
  BY <1>9, CutSer
<1>11. Min({Len(next), acc}) = IF Len(next) <= acc THEN Len(next) ELSE acc
  BY <1>8, PairFacts
<1>12. QED
  BY <1>8, <1>10, <1>11

\* The inverses of a constant are constants.
LEMMA NewtonConstant ==
    ASSUME NEW f \in Seq(Fr), PolyLen(f) <= 1, NEW g \in Seq(Fr), Len(g) <= 1, NEW acc \in Nat
    PROVE  Len(NewtonStep(f, g, acc)) <= 1
<1>0. PICK o \in Nat : o = 1
  OBVIOUS
<1>1. PolyLen(g) <= o
  <2>1. PolyLen(g) \in 0..Len(g) /\ Len(g) \in Nat
    BY PolyLenFacts
  <2>2. QED
    BY <1>0, <2>1
<1>2. ASSUME NEW p \in Seq(Fr), NEW q \in Seq(Fr), PolyLen(p) <= o, PolyLen(q) <= o
      PROVE  PolyLen(PolyMul(p, q)) <= o
  <2>1. NoneFrom(Ser(p), o) /\ NoneFrom(Ser(q), o)
    BY <1>2, LengthNone
  <2>2. Ser(p) \in Series /\ Ser(q) \in Series
    BY SerFacts
  <2>3. PICK s \in Seq(Fr) : s = PolyMul(p, q) /\ Ser(s) = Conv(Ser(p), Ser(q))
    BY PolyMulSer
  <2>4. ASSUME NEW j \in Nat, j >= o PROVE Ser(s)[j] = Zero
    <3>1. j + 1 >= o + o
      BY <1>0, <2>4
    <3>2. QED
      BY <2>1, <2>2, <2>3, <3>1, ConvBeyond
  <2>5. QED
    BY <2>3, <2>4, LengthNone DEF NoneFrom
<1>3. PICK gg \in Seq(Fr) : gg = PolyMul(g, g) /\ PolyLen(gg) <= o
  BY <1>1, <1>2, PolyMulSer
<1>4. PICK fgg \in Seq(Fr) : fgg = PolyMul(f, gg) /\ PolyLen(fgg) <= o
  BY <1>0, <1>2, <1>3, PolyMulSer
<1>5. PICK two \in Seq(Fr) : two = PolyAdd(g, g) /\ PolyLen(two) <= o
  BY <1>1, PolyAddSer, AddLength
<1>6. PICK next \in Seq(Fr) : next = PolySub(two, fgg) /\ Ser(next) = SSub(Ser(two), Ser(fgg)) /\ PolyLen(next) = Len(next)
  BY PolySubSer
<1>7. PolyLen(next) <= o
  <2>1. NoneFrom(Ser(two), o) /\ NoneFrom(Ser(fgg), o)
    BY <1>4, <1>5, LengthNone
  <2>2. Sub(Zero, Zero) = Zero
    BY FrClosed, SubFacts
  <2>3. NoneFrom(Ser(next), o)
    BY <1>6, <2>1, <2>2 DEF NoneFrom, SSub
  <2>4. QED
    BY <2>3, LengthNone
<1>8. NewtonStep(f, g, acc) = SubSeq(next, 1, Min({Len(next), acc}))
  BY <1>3, <1>4, <1>5, <1>6 DEF NewtonStep
<1>9. Len(NewtonStep(f, g, acc)) = Min({Len(next), acc})
  BY <1>8, CutSer
<1>10. Min({Len(next), acc}) = IF Len(next) <= acc THEN Len(next) ELSE acc
  <2>1. Len(next) \in Nat
    OBVIOUS
  <2>2. QED
    BY <2>1, PairFacts
<1>11. QED
  BY <1>0, <1>6, <1>7, <1>9, <1>10

\* No power of two is zero.
LEMMA Pow2Positive == \A n \in Nat : Pow2(n) \in Nat \ {0}
<1> DEFINE S == {n \in Nat : Pow2(n) \in Nat \ {0}}
<1>1. 0 \in S
  BY Pow2Facts
<1>2. ASSUME NEW n \in Nat, n \in S PROVE n + 1 \in S
  <2>1. PICK x \in Nat \ {0} : x = Pow2(n) /\ Pow2(n + 1) = 2 * x
    BY <1>2, Pow2Facts
  <2>2. QED
    BY <2>1
<1>3. \A n \in Nat : n \in S
  <2> HIDE DEF S
  <2> QED
    BY <1>1, <1>2, SetInduction
<1>4. QED
  BY <1>3

\* A vector that starts with a nonzero has a leading zero if it ends in one.
LEMMA LastCoefficient ==
    ASSUME NEW g \in Seq(Fr), NEW a \in Nat, Len(g) = a + 1, Ser(g)[0] # Zero
    PROVE  /\ LeadingZero(g) <=> Ser(g)[a] = Zero
           /\ ~ LeadingZero(g) => PolyLen(g) = Len(g)
<1>1. PICK l \in 0..(a + 1) : l = PolyLen(g)
  BY PolyLenFacts
<1>2. l # 0
  BY <1>1, SerFacts
<1>3. LeadingZero(g) <=> l # a + 1
  BY <1>1, <1>2 DEF LeadingZero
<1>4. l = a + 1 => Ser(g)[a] # Zero
  <2>1. l = a + 1 => l - 1 = a
    OBVIOUS
  <2>2. QED
    BY <1>1, <1>2, <2>1, SerFacts
<1>5. l # a + 1 => Ser(g)[a] = Zero
  <2>1. l # a + 1 => a >= l
    OBVIOUS
  <2>2. QED
    BY <1>1, <2>1, SerFacts
<1>6. QED
  BY <1>1, <1>3, <1>4, <1>5

\* The coefficient of 1 / f that ends the inverse of turn k is zero.
EndsInZero(f, k) == Reciprocal(f, Pow2(k))[Pow2(k)] = Zero

\* The inverses of the loop start with a nonzero, and a full one ends in that coefficient.
LEMMA NewtonEnds ==
    ASSUME NEW f \in Seq(Fr), f # <<>>, f[1] # Zero, NEW k \in Nat, NEW g \in Seq(Fr),
           InvertsBelow(Ser(f), Ser(g), Pow2(k))
    PROVE  /\ Ser(g)[0] # Zero
           /\ Len(g) = Pow2(k) => /\ LeadingZero(g) <=> EndsInZero(f, k)
                                  /\ ~ LeadingZero(g) => PolyLen(g) = Pow2(k)
<1>1. PICK n \in Nat \ {0}, a \in Nat : n = Pow2(k) /\ n = a + 1
  <2>1. PICK n \in Nat \ {0} : n = Pow2(k)
    BY Pow2Positive
  <2>2. n - 1 \in Nat /\ n = (n - 1) + 1
    OBVIOUS
  <2>3. QED
    BY <2>1, <2>2
<1>2. Ser(f) \in Series /\ Ser(g) \in Series
  BY SerFacts
<1>3. Ser(g)[0] # Zero
  <2>1. Conv(Ser(f), Ser(g))[0] = One
    BY <1>1 DEF InvertsBelow, SOne
  <2>2. Conv(Ser(f), Ser(g))[0] = Mul(Ser(f)[0], Ser(g)[0]) /\ Ser(f)[0] \in Fr
    BY <1>2, ConvStep DEF Series
  <2>3. Ser(g)[0] = Zero => Mul(Ser(f)[0], Ser(g)[0]) = Zero
    BY <2>2, MulZero
  <2>4. QED
    BY <2>1, <2>2, <2>3, FrClosed
<1>4. PICK c \in Seq(Fr) : c = Reciprocal(f, n) /\ Len(c) = n /\ InvertsBelow(Ser(f), Ser(c), n)
  BY ReciprocalFacts
<1>5. Ser(g)[a] = c[n]
  <2>1. Ser(c) \in Series
    BY SerFacts
  <2>2. InvertsBelow(Ser(f), Ser(g), n) /\ a < n
    BY <1>1
  <2>3. Ser(g)[a] = Ser(c)[a]
    BY <1>2, <1>4, <2>1, <2>2, InverseUnique
  <2>4. Ser(c)[a] = IF a < n THEN c[a + 1] ELSE Zero
    BY <1>4, SerFacts
  <2>5. QED
    BY <1>1, <2>2, <2>3, <2>4
<1>6. EndsInZero(f, k) <=> Ser(g)[a] = Zero
  BY <1>1, <1>4, <1>5 DEF EndsInZero
<1>7. QED
  BY <1>1, <1>3, <1>6, LastCoefficient

\* The loop meets a leading zero exactly when such a coefficient is zero.
LEMMA StallSteps ==
    ASSUME NEW f \in Seq(Fr), f # <<>>, f[1] # Zero, PolyLen(f) > 1, NEW n \in Nat,
           NEW g \in [0..n -> Seq(Fr)], NewtonRun(f, n, g)
    PROVE  \A k \in 0..n : (\E j \in 0..k : LeadingZero(g[j])) <=> (\E j \in 1..k : EndsInZero(f, j))
<1> DEFINE Met(k) == (\E j \in 0..k : LeadingZero(g[j])) /\ (\E j \in 1..k : EndsInZero(f, j))
           Clear(k) == /\ Len(g[k]) = Pow2(k)
                       /\ \A j \in 0..k : ~ LeadingZero(g[j])
                       /\ \A j \in 1..k : ~ EndsInZero(f, j)
           S == {k \in 0..n : Met(k) \/ Clear(k)}
<1>1. \A k \in 0..n : g[k] \in Seq(Fr) /\ InvertsBelow(Ser(f), Ser(g[k]), Pow2(k))
  BY NewtonInverts
<1>2. 0 \in S
  <2>1. PICK b \in Seq(Fr) : b = g[0]
    OBVIOUS
  <2>2. Len(b) = 1 /\ Pow2(0) = 1
    BY <2>1, Pow2Facts DEF NewtonRun
  <2>3. PolyLen(b) \in 0..1
    BY <2>2, PolyLenFacts
  <2>4. ~ LeadingZero(b)
    BY <2>2, <2>3 DEF LeadingZero
  <2>5. \A j \in 0..0 : j = 0
    OBVIOUS
  <2>6. Clear(0)
    BY <2>1, <2>2, <2>4, <2>5
  <2>7. QED
    BY <2>6
<1>3. ASSUME NEW i \in 1..n, i - 1 \in S PROVE i \in S
  <2>1. PICK k \in 0..n : k = i - 1 /\ i = k + 1 /\ i \in 0..n
    OBVIOUS
  <2>2. CASE Met(k)
    <3>1. \A j \in 0..k : j \in 0..i
      BY <2>1
    <3>2. \A j \in 1..k : j \in 1..i
      BY <2>1
    <3>3. Met(i)
      BY <2>2, <3>1, <3>2
    <3>4. QED
      BY <2>1, <3>3
  <2>3. CASE Clear(k)
    <3>1. PICK a \in Nat \ {0}, acc \in Nat : a = Pow2(k) /\ acc = Pow2(i) /\ acc = 2 * a
      <4>0. k \in Nat /\ k + 1 \in Nat
        OBVIOUS
      <4>1. Pow2(k) \in Nat \ {0}
        BY <4>0, Pow2Positive
      <4>2. Pow2(k + 1) = 2 * Pow2(k)
        BY <4>0, Pow2Facts
      <4>3. Pow2(k + 1) \in Nat
        BY <4>1, <4>2
      <4>4. QED
        BY <2>1, <4>1, <4>2, <4>3
    <3>2. PICK h \in Seq(Fr), e \in Seq(Fr) : /\ h = g[k] /\ e = g[i] /\ e = NewtonStep(f, h, acc)
                                               /\ InvertsBelow(Ser(f), Ser(h), Pow2(k))
                                               /\ InvertsBelow(Ser(f), Ser(e), Pow2(i))
      <4>1. g[i] = NewtonStep(f, g[i - 1], Pow2(i))
        BY DEF NewtonRun
      <4>2. QED
        BY <1>1, <2>1, <3>1, <4>1
    <3>3. Len(h) = Pow2(k) /\ ~ LeadingZero(h)
      BY <2>1, <2>3, <3>2
    <3>4. PolyLen(h) = a
      BY <3>1, <3>2, <3>3, NewtonEnds
    <3>5. Len(e) = Pow2(i)
      BY <3>1, <3>2, <3>4, NewtonLength
    <3>6. i \in Nat
      OBVIOUS
    <3>7. LeadingZero(e) <=> EndsInZero(f, i)
      BY <3>2, <3>5, <3>6, NewtonEnds
    <3>8. i \in 0..i /\ i \in 1..i
      BY <2>1
    <3>9. CASE LeadingZero(e)
      <4>1. Met(i)
        BY <3>2, <3>7, <3>8, <3>9
      <4>2. QED
        BY <2>1, <4>1
    <3>10. CASE ~ LeadingZero(e)
      <4>1. \A j \in 0..i : j \in 0..k \/ j = i
        BY <2>1
      <4>2. \A j \in 1..i : j \in 1..k \/ j = i
        BY <2>1
      <4>3. \A j \in 0..i : ~ LeadingZero(g[j])
        BY <2>3, <3>2, <3>10, <4>1
      <4>4. \A j \in 1..i : ~ EndsInZero(f, j)
        BY <2>3, <3>7, <3>10, <4>2
      <4>5. Clear(i)
        BY <3>2, <3>5, <4>3, <4>4
      <4>6. QED
        BY <2>1, <4>5
    <3>11. QED
      BY <3>9, <3>10
  <2>4. QED
    BY <1>3, <2>1, <2>2, <2>3
<1>4. \A k \in 0..n : k \in S
  <2> HIDE DEF S
  <2> QED
    BY <1>2, <1>3, IndexInduction
<1>5. QED
  BY <1>4

\* inverse_mod_xl returns exactly if the iteration does not stall.
LEMMA InverseStalls ==
    ASSUME NEW f \in Seq(Fr), f # <<>>, f[1] # Zero, NEW l \in Nat
    PROVE  Succeeded(InverseModXl(f, l)) <=> ~ Stalls(f, l)
<1>1. PICK n \in Nat : n = Log2(l)
  BY Log2Facts
<1>2. PICK g \in [0..n -> Seq(Fr)] :
        /\ NewtonRun(f, n, g)
        /\ InverseModXl(f, l) = IF Stopped(g, n) THEN Panic("degree") ELSE Ok(g[n])
  BY <1>1, InverseSteps
<1>3. Succeeded(InverseModXl(f, l)) <=> ~ Stopped(g, n)
  BY <1>2 DEF Succeeded, Panic, Ok
<1>4. Stalls(f, l) <=> PolyLen(f) > 1 /\ \E k \in 1..(n - 1) : EndsInZero(f, k)
  BY <1>1 DEF Stalls, EndsInZero
<1>5. CASE PolyLen(f) > 1
  <2>1. CASE n = 0
    <3>1. 0..(n - 1) = {} /\ 1..(n - 1) = {}
      BY <2>1
    <3>2. QED
      BY <1>3, <1>4, <3>1 DEF Stopped
  <2>2. CASE n # 0
    <3>1. PICK k \in 0..n : k = n - 1
      BY <2>2
    <3>2. (\E j \in 0..k : LeadingZero(g[j])) <=> (\E j \in 1..k : EndsInZero(f, j))
      BY <1>2, <1>5, StallSteps
    <3>3. QED
      BY <1>3, <1>4, <1>5, <3>1, <3>2 DEF Stopped
  <2>3. QED
    BY <2>1, <2>2
<1>6. CASE ~ (PolyLen(f) > 1)
  <2>1. PolyLen(f) <= 1
    BY <1>6, PolyLenFacts
  <2> DEFINE S == {k \in 0..n : Len(g[k]) <= 1}
  <2>2. 0 \in S
    <3>1. g[0] = <<Inv(f[1])>>
      BY <1>2 DEF NewtonRun
    <3>2. Len(g[0]) <= 1
      BY <3>1
    <3>3. 0 \in 0..n
      BY <1>1
    <3>4. QED
      BY Zenon, <3>2, <3>3
  <2>3. ASSUME NEW i \in 1..n, i - 1 \in S PROVE i \in S
    <3>1. PICK h \in Seq(Fr) : h = g[i - 1] /\ Len(h) <= 1
      BY <2>3
    <3>2. g[i] = NewtonStep(f, h, Pow2(i))
      BY <1>2, <3>1 DEF NewtonRun
    <3>3. i \in Nat
      OBVIOUS
    <3>4. Pow2(i) \in Nat
      BY <3>3, Pow2Facts
    <3>5. Len(g[i]) <= 1
      BY <2>1, <3>1, <3>2, <3>4, NewtonConstant
    <3>6. QED
      BY <3>5
  <2>4. \A k \in 0..n : k \in S
    <3> HIDE DEF S
    <3> QED
      BY <2>2, <2>3, IndexInduction
  <2>5. ASSUME NEW k \in 0..n PROVE ~ LeadingZero(g[k])
    <3>1. PICK h \in Seq(Fr) : h = g[k] /\ Len(h) <= 1
      BY <2>4
    <3>2. PolyLen(h) \in 0..Len(h) /\ Len(h) \in Nat
      BY PolyLenFacts
    <3>3. QED
      BY <3>1, <3>2 DEF LeadingZero
  <2>6. ~ Stopped(g, n)
    <3>1. \A k \in 0..(n - 1) : k \in 0..n
      OBVIOUS
    <3>2. QED
      BY <2>5, <3>1 DEF Stopped
  <2>7. QED
    BY <1>3, <1>4, <1>6, <2>6
<1>7. QED
  BY <1>5, <1>6

\* A shorter series stalls only if a longer one does.
LEMMA StallsMonotone ==
    ASSUME NEW f, NEW l \in Nat, NEW m \in Nat, l <= m, Stalls(f, l)
    PROVE  Stalls(f, m)
<1>1. PICK a \in Nat, b \in Nat : /\ a = Log2(l) /\ b = Log2(m) /\ Pow2(b) >= m
                                  /\ \A j \in 0..(a - 1) : Pow2(j) < l
  BY Log2Facts
<1>2. a <= b
  <2> SUFFICES ASSUME b < a PROVE FALSE
    BY <1>1
  <2>1. b \in 0..(a - 1) /\ Pow2(b) \in Nat
    BY Pow2Facts
  <2>2. QED
    BY <1>1, <2>1
<1>3. \A k \in 1..(a - 1) : k \in 1..(b - 1)
  BY <1>2
<1>4. QED
  BY <1>1, <1>3 DEF Stalls

\* fast_divide_monic returns exactly if the iteration for the reversed divisor does not
\* stall.
LEMMA DivisionStalls ==
    ASSUME NEW f \in Seq(Fr), ~ LeadingZero(f), NEW g \in Seq(Fr), Monomial(g)
    PROVE  Succeeded(FastDivideMonic(f, g)) <=>
             Len(f) < Len(g) \/ ~ Stalls(Reverse(g), Len(f) - Len(g) + 1)
<1>1. PICK n \in Nat, m \in Nat \ {0} : n = Len(f) /\ m = Len(g)
  BY DEF Monomial
<1>2. g \in [1..m -> Fr] /\ g[m] = One
  BY <1>1 DEF Monomial
<1>3. PICK r \in [1..m -> Fr] : r = Reverse(g) /\ IsReverse(r, g, m)
  BY <1>2, ReverseFacts
<1>4. r \in Seq(Fr) /\ r # <<>> /\ r[1] # Zero
  <2>1. r \in Seq(Fr) /\ Len(r) = m
    BY SeqOf
  <2>2. r[1] = g[m - 1 + 1] /\ m - 1 + 1 = m
    BY <1>3 DEF IsReverse
  <2>3. QED
    BY <1>2, <2>1, <2>2, FrClosed
<1>5. Succeeded(FastDivideMonic(f, g)) <=>
        Len(f) < Len(g) \/ Succeeded(InverseModXl(r, Len(f) - Len(g) + 1))
  BY <1>3, DivisionFacts
<1>6. CASE n < m
  BY <1>1, <1>5, <1>6
<1>7. CASE ~ (n < m)
  <2>1. PICK l \in Nat : l = Len(f) - Len(g) + 1
    <3>1. n - m + 1 \in Nat
      BY <1>7
    <3>2. QED
      BY <1>1, <3>1
  <2>2. Succeeded(InverseModXl(r, l)) <=> ~ Stalls(r, l)
    BY <1>4, InverseStalls
  <2>3. QED
    BY <1>3, <1>5, <2>1, <2>2
<1>8. QED
  BY <1>6, <1>7

\* The divisions at the top of the tree over u may stall.
TopStalls(u) ==
    \/ Stalls(Reverse(TreeM[LeftHalf(u)]), Len(u) - Len(LeftHalf(u)))
    \/ Stalls(Reverse(TreeM[RightHalf(u)]), Len(u) - Len(RightHalf(u)))

\* A tree stalls at its top or in a subtree.
LEMMA StallingEquation ==
    /\ \A u \in Slices : Len(u) = 1 => ~ Stalling[u]
    /\ \A u : Split(u) => (Stalling[u] <=> TopStalls(u) \/ Stalling[LeftHalf(u)] \/ Stalling[RightHalf(u)])
<1> DEFINE Body(f, u) == IF Len(u) = 1 THEN FALSE ELSE TopStalls(u) \/ f[LeftHalf(u)] \/ f[RightHalf(u)]
           M == CHOOSE f : f = [u \in Slices |-> Body(f, u)]
<1>1. PICK B, G : /\ B = [u \in Slices |-> FALSE]
                  /\ G = [u \in Slices |-> [t \in BOOLEAN \X BOOLEAN |-> TopStalls(u) \/ t[1] \/ t[2]]]
  OBVIOUS
<1>2. \A u \in Slices : B[u] = FALSE
  BY <1>1
<1>3. ASSUME NEW u \in Slices, NEW p \in BOOLEAN, NEW q \in BOOLEAN
      PROVE  G[u][<<p, q>>] = (TopStalls(u) \/ p \/ q)
  <2>1. PICK H : H = G[u] /\ H = [t \in BOOLEAN \X BOOLEAN |-> TopStalls(u) \/ t[1] \/ t[2]]
    BY <1>1
  <2>2. <<p, q>> \in BOOLEAN \X BOOLEAN /\ <<p, q>>[1] = p /\ <<p, q>>[2] = q
    OBVIOUS
  <2>3. H[<<p, q>>] = (TopStalls(u) \/ <<p, q>>[1] \/ <<p, q>>[2])
    BY Zenon, <2>1, <2>2
  <2>4. QED
    BY <2>1, <2>2, <2>3
<1>4. PICK f : f = [u \in Slices |-> f[u]] /\ \A u \in Slices : f[u] = TreeValue(f, B, G, u)
  BY TreeRecursion
<1> DEFINE S == {u \in Slices : f[u] \in BOOLEAN}
<1>5. HoldsTrees(S)
  <2>1. ASSUME NEW u \in Slices, Len(u) = 1 PROVE u \in S
    <3>1. f[u] = FALSE
      BY <1>2, <1>4, <2>1 DEF TreeValue
    <3>2. QED
      BY <3>1
  <2>2. ASSUME NEW u, Split(u), LeftHalf(u) \in S, RightHalf(u) \in S PROVE u \in S
    <3>1. u \in Slices /\ Len(u) # 1
      BY <2>2 DEF Split
    <3>2. PICK x \in BOOLEAN, y \in BOOLEAN : x = f[LeftHalf(u)] /\ y = f[RightHalf(u)]
      BY <2>2
    <3>3. f[u] = G[u][<<x, y>>]
      BY <1>4, <3>1, <3>2 DEF TreeValue
    <3>4. f[u] = (TopStalls(u) \/ x \/ y)
      BY <1>3, <3>1, <3>3
    <3>5. f[u] \in BOOLEAN
      BY <3>4
    <3>6. QED
      BY <3>1, <3>5
  <2>3. QED
    <3> HIDE DEF S
    <3> QED
      BY <2>1, <2>2 DEF HoldsTrees
<1>6. \A u \in Slices : f[u] \in BOOLEAN
  <2>1. \A u \in Slices : u \in S
    <3> HIDE DEF S
    <3> QED
      BY <1>5, SliceInduction
  <2>2. QED
    BY <2>1
<1>7. ASSUME NEW u \in Slices PROVE f[u] = Body(f, u)
  <2>1. CASE Len(u) = 1
    BY <1>2, <1>4, <2>1 DEF TreeValue
  <2>2. CASE Len(u) # 1
    <3>1. Split(u)
      BY <2>2 DEF Split
    <3>2. LeftHalf(u) \in Slices /\ RightHalf(u) \in Slices
      BY <3>1, Halves
    <3>3. PICK x \in BOOLEAN, y \in BOOLEAN : x = f[LeftHalf(u)] /\ y = f[RightHalf(u)]
      BY <1>6, <3>2
    <3>4. f[u] = G[u][<<x, y>>]
      BY <1>4, <2>2, <3>3 DEF TreeValue
    <3>5. f[u] = (TopStalls(u) \/ x \/ y)
      BY <1>3, <3>4
    <3>6. QED
      BY <2>2, <3>3, <3>5
  <2>3. QED
    BY <2>1, <2>2
<1>8. f = [u \in Slices |-> Body(f, u)]
  <2> HIDE DEF Body
  <2> QED
    BY <1>4, <1>7
<1>9. M = [u \in Slices |-> Body(M, u)]
  BY <1>8
<1>10. Stalling = M
  BY DEF Stalling, TopStalls
<1>11. \A u \in Slices : Stalling[u] = Body(Stalling, u)
  <2> HIDE DEF M, Body
  <2> QED
    BY <1>9, <1>10
<1>12. QED
  BY <1>11 DEF Split
-----------------------------------------------------------------------------
\* At a zero of the divisor the remainder has the value of the dividend.
LEMMA DividesEval ==
    ASSUME NEW f \in Seq(Fr), NEW g \in Seq(Fr), NEW d, Divides(f, g, d), NEW x \in Fr, Eval(g, x) = Zero
    PROVE  Eval(d.remainder, x) = Eval(f, x)
<1>1. PICK q \in Seq(Fr), r \in Seq(Fr) : q = d.quotient /\ r = d.remainder
  BY DEF Divides
<1>2. PICK p \in Seq(Fr) : p = PolyMul(q, g) /\ Ser(p) = Conv(Ser(q), Ser(g))
  BY PolyMulSer
<1>3. PICK s \in Seq(Fr) : s = PolyAdd(p, r) /\ Ser(s) = SAdd(Ser(p), Ser(r))
  BY PolyAddSer
<1>4. Ser(s) = Ser(f)
  BY <1>1, <1>2, <1>3 DEF Divides
<1>5. Eval(f, x) = Eval(s, x)
  BY <1>4, EvalSame
<1>6. Eval(s, x) = Add(Eval(p, x), Eval(r, x))
  BY <1>3, EvalSums
<1>7. Eval(p, x) = Mul(Eval(q, x), Zero)
  BY <1>2, EvalMul
<1>8. Eval(q, x) \in Fr /\ Eval(r, x) \in Fr
  BY EvalType
<1>9. Mul(Eval(q, x), Zero) = Zero
  BY <1>8, MulZero
<1>10. Add(Zero, Eval(r, x)) = Eval(r, x)
  BY <1>8, FrClosed, FrAdditive
<1>11. QED
  BY <1>1, <1>5, <1>6, <1>7, <1>9, <1>10

\* The points of a tree are zeros of its polynomial.
LEMMA TreeZeros ==
    ASSUME NEW u \in Slices, NEW i \in 1..Len(u)
    PROVE  Eval(TreeM[u], u[i]) = Zero /\ u[i] \in Fr
<1>1. PICK n \in Nat \ {0} : n = Len(u) /\ u \in [1..n -> Fr]
  BY DEF Slices
<1>2. PICK x \in Fr : x = u[i]
  BY <1>1
<1>3. PICK d \in [1..n -> Fr] : d = Differences(u, x) /\ d[i] = Sub(x, u[i])
  BY <1>1, DifferencesType
<1>4. d[i] = Zero
  BY <1>2, <1>3, SubFacts
<1>5. FProd(d) = Zero
  BY <1>1, <1>4, FProdNonzero
<1>6. Eval(TreeM[u], x) = FProd(d)
  BY <1>3, TreeMFacts DEF TreeIsProduct
<1>7. QED
  BY <1>2, <1>5, <1>6

\* The remainder of a polynomial by that of a tree.
RemainderBy(u, f) == FastDivideMonic(f, TreeM[u]).val.remainder

\* The remainder is a polynomial shorter than the divisor, with the values of f at the
\* points of the slice.
LEMMA RemainderFacts ==
    ASSUME NEW u \in Slices, NEW f \in Seq(Fr), Succeeded(FastDivideMonic(f, TreeM[u]))
    PROVE  /\ RemainderBy(u, f) \in Seq(Fr)
           /\ Degree(RemainderBy(u, f)) < Len(u)
           /\ PolyLen(f) = Len(f) \/ Len(f) > Len(u) => PolyLen(RemainderBy(u, f)) = Len(RemainderBy(u, f))
           /\ \A i \in 1..Len(u) : Eval(RemainderBy(u, f), u[i]) = Eval(f, u[i])
<1>1. PICK n \in Nat \ {0} : n = Len(u)
  BY DEF Slices
<1>2. PICK g : g = TreeM[u] /\ MonicOf(g, n)
  BY <1>1, TreeMFacts DEF TreeIsProduct
<1>3. g \in Seq(Fr) /\ Monomial(g) /\ Len(g) = n + 1
  BY <1>2, MonicFacts
<1>4. PICK d : d = FastDivideMonic(f, g).val /\ Divides(f, g, d)
  BY <1>2, <1>3, DivisionFacts
<1>5. PICK r \in Seq(Fr) : r = d.remainder /\ r = RemainderBy(u, f)
  BY <1>2, <1>4 DEF Divides, RemainderBy
<1>6. Degree(r) < n
  <2>1. PolyLen(r) < n + 1 /\ PolyLen(r) \in Nat
    <3>1. PolyLen(r) \in Nat
      BY PolyLenFacts
    <3>2. QED
      BY <1>3, <1>4, <1>5, <3>1 DEF Divides
  <2>2. QED
    BY <2>1 DEF Degree
<1>7. PolyLen(f) = Len(f) \/ Len(f) > n => PolyLen(r) = Len(r)
  <2>1. Len(f) > n => Len(f) >= Len(g)
    BY <1>3
  <2>2. QED
    BY <1>4, <1>5, <2>1 DEF Divides
<1>8. ASSUME NEW i \in 1..Len(u) PROVE Eval(r, u[i]) = Eval(f, u[i])
  <2>1. PICK x \in Fr : x = u[i] /\ Eval(g, x) = Zero
    <3>1. Eval(TreeM[u], u[i]) = Zero /\ u[i] \in Fr
      BY TreeZeros
    <3>2. QED
      BY <1>2, <3>1
  <2>2. Eval(d.remainder, x) = Eval(f, x)
    <3>1. Divides(f, g, d) /\ g \in Seq(Fr) /\ Eval(g, x) = Zero
      BY <1>3, <1>4, <2>1
    <3>2. QED
      BY <3>1, DividesEval
  <2>3. QED
    BY <1>5, <2>1, <2>2
<1>9. QED
  BY <1>1, <1>5, <1>6, <1>7, <1>8

\* There is a remainder, if a division of n coefficients does not stall.
LEMMA RemainderStalls ==
    ASSUME NEW u \in Slices, NEW f \in Seq(Fr), PolyLen(f) = Len(f), NEW n \in Nat, Len(f) <= n,
           Len(u) <= n, ~ Stalls(Reverse(TreeM[u]), n - Len(u))
    PROVE  Succeeded(FastDivideMonic(f, TreeM[u]))
<1>1. PICK k \in Nat \ {0}, m \in Nat : k = Len(u) /\ m = Len(f)
  BY DEF Slices
<1>2. PICK g : g = TreeM[u] /\ MonicOf(g, k)
  BY <1>1, TreeMFacts DEF TreeIsProduct
<1>3. g \in Seq(Fr) /\ Monomial(g) /\ Len(g) = k + 1
  BY <1>2, MonicFacts
<1>4. Succeeded(FastDivideMonic(f, g)) <=> Len(f) < Len(g) \/ ~ Stalls(Reverse(g), Len(f) - Len(g) + 1)
  <2>1. ~ LeadingZero(f)
    BY DEF LeadingZero
  <2>2. QED
    BY <1>3, <2>1, DivisionStalls
<1>5. CASE m < k + 1
  BY <1>1, <1>2, <1>3, <1>4, <1>5
<1>6. CASE ~ (m < k + 1)
  <2>1. PICK a \in Nat, b \in Nat : a = Len(f) - Len(g) + 1 /\ b = n - k /\ a <= b
    <3>1. m - (k + 1) + 1 \in Nat /\ n - k \in Nat /\ m - (k + 1) + 1 <= n - k
      BY <1>1, <1>6
    <3>2. QED
      BY <1>1, <1>3, <3>1
  <2>2. ~ Stalls(Reverse(g), b)
    BY <1>1, <1>2, <2>1
  <2>3. ~ Stalls(Reverse(g), a)
    BY <2>1, <2>2, StallsMonotone
  <2>4. QED
    BY <1>2, <1>4, <2>1, <2>3
<1>7. QED
  BY <1>5, <1>6

\* The outcomes of an evaluation.
Panics == {Panic("degree"), Panic("assert"), Panic("coeffs[0]"), Panic("fast_divide_monic"), Panic("evaluate")}
Outcomes == {Ok(s) : s \in Seq(Fr)} \cup Panics

\* What evaluate returns on success is a sequence of field elements.
LEMMA OutcomeFacts ==
    /\ \A s \in Seq(Fr) : Ok(s) \in Outcomes /\ Succeeded(Ok(s)) /\ Ok(s).val = s
    /\ \A e : ~ Succeeded(Panic(e))
    /\ \A r \in Panics : r \in Outcomes /\ ~ Succeeded(r)
    /\ \A r \in Outcomes : Succeeded(r) => r.val \in Seq(Fr)
<1>1. \A s \in Seq(Fr) : Ok(s) \in Outcomes
  BY DEF Outcomes
<1>2. \A s \in Seq(Fr) : Succeeded(Ok(s)) /\ Ok(s).val = s
  BY DEF Succeeded, Ok
<1>3. \A e : ~ Succeeded(Panic(e))
  BY DEF Succeeded, Panic
<1>4. \A r \in Panics : r \in Outcomes /\ ~ Succeeded(r)
  <2>1. \A r \in Panics : r \in Outcomes
    BY DEF Outcomes
  <2>2. \A r \in Panics : \E e : r = Panic(e)
    <3> HIDE DEF Panic
    <3> QED
      BY DEF Panics
  <2>3. QED
    BY <1>3, <2>1, <2>2
<1>5. ASSUME NEW r \in Outcomes, Succeeded(r) PROVE r.val \in Seq(Fr)
  <2>1. \E s \in Seq(Fr) : r = Ok(s)
    <3> HIDE DEF Panic, Ok, Succeeded
    <3>1. r \notin Panics
      BY <1>4, <1>5
    <3>2. QED
      BY <3>1 DEF Outcomes
  <2>2. PICK s \in Seq(Fr) : r = Ok(s)
    BY <2>1
  <2>3. QED
    BY <1>2, <2>2
<1>6. QED
  BY <1>1, <1>2, <1>3, <1>4, <1>5

\* The results of the halves, put together.
LEMMA BothFacts ==
    ASSUME NEW l \in Outcomes, NEW r \in Outcomes
    PROVE  /\ Both(l, r) \in Outcomes
           /\ Succeeded(Both(l, r)) <=> Succeeded(l) /\ Succeeded(r)
           /\ Succeeded(Both(l, r)) => Both(l, r).val = l.val \o r.val /\ l.val \in Seq(Fr) /\ r.val \in Seq(Fr)
<1>1. CASE Succeeded(l) /\ Succeeded(r)
  <2>1. PICK a \in Seq(Fr), b \in Seq(Fr) : a = l.val /\ b = r.val
    BY <1>1, OutcomeFacts
  <2>2. PICK c \in Seq(Fr) : c = a \o b
    <3>1. a \o b \in Seq(Fr)
      OBVIOUS
    <3>2. QED
      BY Zenon, <3>1
  <2>3. Both(l, r) = Ok(c)
    BY <1>1, <2>1, <2>2 DEF Both
  <2>4. QED
    BY <1>1, <2>1, <2>2, <2>3, OutcomeFacts
<1>2. CASE ~ (Succeeded(l) /\ Succeeded(r))
  <2>1. Both(l, r) = Panic("evaluate")
    BY <1>2 DEF Both
  <2>2. Both(l, r) \in Panics
    BY <2>1 DEF Panics
  <2>3. QED
    BY <1>2, <2>2, OutcomeFacts
<1>3. QED
  BY <1>1, <1>2

\* The body of evaluate, F standing for the recursive calls.
EvalBody(F, u, f) ==
    LET d_0 == FastDivideMonic(f, TreeM[LeftHalf(u)])
        d_1 == FastDivideMonic(f, TreeM[RightHalf(u)])
    IN  IF LeadingZero(f) THEN Panic("degree")
        ELSE IF Degree(f) >= Len(u) THEN Panic("assert")
        ELSE IF Len(u) = 1 THEN IF f = <<>> THEN Panic("coeffs[0]") ELSE Ok(<<f[1]>>)
        ELSE IF ~ (Succeeded(d_0) /\ Succeeded(d_1)) THEN Panic("fast_divide_monic")
        ELSE Both(F[LeftHalf(u)][d_0.val.remainder], F[RightHalf(u)][d_1.val.remainder])

Evaluators == [Seq(Fr) -> Outcomes]

\* The two cases of the body, on evaluators.
LeafBody(u, f) ==
    IF LeadingZero(f) THEN Panic("degree")
    ELSE IF Degree(f) >= Len(u) THEN Panic("assert")
    ELSE IF f = <<>> THEN Panic("coeffs[0]") ELSE Ok(<<f[1]>>)
Divided(u, f) ==
    Succeeded(FastDivideMonic(f, TreeM[LeftHalf(u)])) /\ Succeeded(FastDivideMonic(f, TreeM[RightHalf(u)]))
NodeBody(l, r, u, f) ==
    IF LeadingZero(f) THEN Panic("degree")
    ELSE IF Degree(f) >= Len(u) THEN Panic("assert")
    ELSE IF ~ Divided(u, f) THEN Panic("fast_divide_monic")
    ELSE Both(l[RemainderBy(LeftHalf(u), f)], r[RemainderBy(RightHalf(u), f)])

\* Both cases return an outcome.
LEMMA LeafType == \A u, f : f \in Seq(Fr) => LeafBody(u, f) \in Outcomes
<1> SUFFICES ASSUME NEW u, NEW f \in Seq(Fr) PROVE LeafBody(u, f) \in Outcomes
  OBVIOUS
<1>1. f # <<>> => Ok(<<f[1]>>) \in Outcomes
  <2> SUFFICES ASSUME f # <<>> PROVE Ok(<<f[1]>>) \in Outcomes
    OBVIOUS
  <2>1. PICK c \in Fr : c = f[1]
    OBVIOUS
  <2>2. <<c>> \in Seq(Fr)
    OBVIOUS
  <2>3. QED
    BY <2>1, <2>2, OutcomeFacts
<1>2. {Panic("degree"), Panic("assert"), Panic("coeffs[0]")} \subseteq Outcomes
  BY OutcomeFacts DEF Panics
<1>3. QED
  BY <1>1, <1>2 DEF LeafBody

\* ... and so does an inner node whose children do.
LEMMA NodeType ==
    ASSUME NEW u, Split(u), NEW l \in Evaluators, NEW r \in Evaluators, NEW f \in Seq(Fr)
    PROVE  NodeBody(l, r, u, f) \in Outcomes
<1>1. LeftHalf(u) \in Slices /\ RightHalf(u) \in Slices
  BY Halves
<1>2. {Panic("degree"), Panic("assert"), Panic("fast_divide_monic")} \subseteq Outcomes
  BY OutcomeFacts DEF Panics
<1>3. CASE ~ Divided(u, f)
  BY <1>2, <1>3 DEF NodeBody
<1>4. CASE Divided(u, f)
  <2>1. RemainderBy(LeftHalf(u), f) \in Seq(Fr) /\ RemainderBy(RightHalf(u), f) \in Seq(Fr)
    BY <1>1, <1>4, RemainderFacts DEF Divided
  <2>2. l[RemainderBy(LeftHalf(u), f)] \in Outcomes /\ r[RemainderBy(RightHalf(u), f)] \in Outcomes
    BY <2>1 DEF Evaluators
  <2>3. Both(l[RemainderBy(LeftHalf(u), f)], r[RemainderBy(RightHalf(u), f)]) \in Outcomes
    BY <2>2, BothFacts
  <2>4. QED
    BY <1>2, <2>3 DEF NodeBody
<1>5. QED
  BY <1>3, <1>4

\* evaluate satisfies its recursion.
LEMMA TreeEvaluateEquation ==
    \A u \in Slices : TreeEvaluate[u] = [f \in Seq(Fr) |-> EvalBody(TreeEvaluate, u, f)]
<1> DEFINE M == CHOOSE F : F = [u \in Slices |-> [f \in Seq(Fr) |-> EvalBody(F, u, f)]]
<1>1. PICK B, G : /\ B = [u \in Slices |-> [f \in Seq(Fr) |-> LeafBody(u, f)]]
                  /\ G = [u \in Slices |-> [t \in Evaluators \X Evaluators |->
                            [f \in Seq(Fr) |-> NodeBody(t[1], t[2], u, f)]]]
  OBVIOUS
<1>2. \A u \in Slices : B[u] = [f \in Seq(Fr) |-> LeafBody(u, f)]
  BY <1>1
<1>3. ASSUME NEW u \in Slices, NEW l \in Evaluators, NEW r \in Evaluators
      PROVE  G[u][<<l, r>>] = [f \in Seq(Fr) |-> NodeBody(l, r, u, f)]
  <2>1. PICK H : H = G[u] /\ H = [t \in Evaluators \X Evaluators |-> [f \in Seq(Fr) |-> NodeBody(t[1], t[2], u, f)]]
    BY <1>1
  <2>2. PICK t \in Evaluators \X Evaluators : t = <<l, r>> /\ t[1] = l /\ t[2] = r
    <3>1. <<l, r>> \in Evaluators \X Evaluators /\ <<l, r>>[1] = l /\ <<l, r>>[2] = r
      OBVIOUS
    <3>2. PICK t : t = <<l, r>>
      OBVIOUS
    <3>3. t \in Evaluators \X Evaluators /\ t[1] = l /\ t[2] = r
      BY <3>1, <3>2
    <3>4. QED
      BY Zenon, <3>2, <3>3
  <2>3. H[t] = [f \in Seq(Fr) |-> NodeBody(t[1], t[2], u, f)]
    BY <2>1
  <2>4. QED
    BY <2>1, <2>2, <2>3
<1>4. PICK F : F = [u \in Slices |-> F[u]] /\ \A u \in Slices : F[u] = TreeValue(F, B, G, u)
  BY TreeRecursion
<1> DEFINE S == {u \in Slices : F[u] \in Evaluators}
<1>5. HoldsTrees(S)
  <2>1. ASSUME NEW u \in Slices, Len(u) = 1 PROVE u \in S
    <3>1. F[u] = [f \in Seq(Fr) |-> LeafBody(u, f)]
      BY <1>2, <1>4, <2>1 DEF TreeValue
    <3>2. F[u] \in Evaluators
      BY <3>1, LeafType DEF Evaluators
    <3>3. QED
      BY <3>2
  <2>2. ASSUME NEW u, Split(u), LeftHalf(u) \in S, RightHalf(u) \in S PROVE u \in S
    <3>1. u \in Slices /\ Len(u) # 1
      BY <2>2 DEF Split
    <3>2. PICK l \in Evaluators, r \in Evaluators : l = F[LeftHalf(u)] /\ r = F[RightHalf(u)]
      BY <2>2
    <3>3. F[u] = G[u][<<l, r>>]
      BY <1>4, <3>1, <3>2 DEF TreeValue
    <3>4. F[u] = [f \in Seq(Fr) |-> NodeBody(l, r, u, f)]
      BY <1>3, <3>1, <3>3
    <3>5. F[u] \in Evaluators
      <4>1. \A f \in Seq(Fr) : NodeBody(l, r, u, f) \in Outcomes
        BY <2>2, NodeType
      <4>2. QED
        BY <3>4, <4>1 DEF Evaluators
    <3>6. QED
      BY <3>1, <3>5
  <2>3. QED
    <3> HIDE DEF S
    <3> QED
      BY <2>1, <2>2 DEF HoldsTrees
<1>6. \A u \in Slices : F[u] \in Evaluators
  <2>1. \A u \in Slices : u \in S
    <3> HIDE DEF S
    <3> QED
      BY <1>5, SliceInduction
  <2>2. QED
    BY <2>1
<1>7. ASSUME NEW u \in Slices PROVE F[u] = [f \in Seq(Fr) |-> EvalBody(F, u, f)]
  <2>1. CASE Len(u) = 1
    <3>1. F[u] = [f \in Seq(Fr) |-> LeafBody(u, f)]
      BY <1>2, <1>4, <2>1 DEF TreeValue
    <3>2. \A f \in Seq(Fr) : LeafBody(u, f) = EvalBody(F, u, f)
      BY <2>1 DEF LeafBody, EvalBody
    <3>3. QED
      BY <3>1, <3>2
  <2>2. CASE Len(u) # 1
    <3>1. Split(u)
      BY <2>2 DEF Split
    <3>2. LeftHalf(u) \in Slices /\ RightHalf(u) \in Slices
      BY <3>1, Halves
    <3>3. PICK l \in Evaluators, r \in Evaluators : l = F[LeftHalf(u)] /\ r = F[RightHalf(u)]
      BY <1>6, <3>2
    <3>4. F[u] = G[u][<<l, r>>]
      BY <1>4, <2>2, <3>3 DEF TreeValue
    <3>5. F[u] = [f \in Seq(Fr) |-> NodeBody(l, r, u, f)]
      BY <1>3, <3>4
    <3>6. \A f \in Seq(Fr) : NodeBody(l, r, u, f) = EvalBody(F, u, f)
      BY <2>2, <3>3 DEF NodeBody, EvalBody, RemainderBy, Divided
    <3>7. QED
      BY <3>5, <3>6
  <2>3. QED
    BY <2>1, <2>2
<1>8. F = [u \in Slices |-> [f \in Seq(Fr) |-> EvalBody(F, u, f)]]
  BY <1>4, <1>7
<1>9. M = [u \in Slices |-> [f \in Seq(Fr) |-> EvalBody(M, u, f)]]
  BY <1>8
<1>10. TreeEvaluate = M
  BY DEF TreeEvaluate, EvalBody
<1>11. QED
  <2> HIDE DEF M
  <2> QED
    BY <1>9, <1>10

\* Every leaf's remainder is without leading zeros.
Settled(u, f) == PolyLen(f) = Len(f) \/ (Split(u) /\ Len(f) >= Len(u))

\* What evaluate returns on f, for a tree over u, and when.
EvaluatesAt(u, f) ==
    LET r == TreeEvaluate[u][f]
        nonzero == \A i \in 1..Len(u) : Eval(f, u[i]) # Zero
    IN  /\ r \in Outcomes
        /\ Succeeded(r) => Degree(f) < Len(u) /\ r.val = [i \in 1..Len(u) |-> Eval(f, u[i])]
        /\ Settled(u, f) /\ Succeeded(r) => nonzero
        /\ PolyLen(f) = Len(f) /\ Degree(f) < Len(u) /\ nonzero /\ ~ Stalling[u] => Succeeded(r)

\* A polynomial of degree zero is its first coefficient.
LEMMA EvalConstant ==
    ASSUME NEW f \in Seq(Fr), Degree(f) = 0, NEW x \in Fr
    PROVE  /\ f = <<>> => Eval(f, x) = Zero
           /\ f # <<>> => Eval(f, x) = f[1] /\ f[1] \in Fr
           /\ PolyLen(f) = Len(f) /\ f # <<>> => f[1] # Zero
<1>1. PolyLen(f) \in 0..1 /\ Len(f) \in Nat
  <2>1. PolyLen(f) \in Nat /\ Len(f) \in Nat
    BY PolyLenFacts
  <2>2. QED
    BY <2>1 DEF Degree
<1>2. PICK o \in Nat, z \in Nat, a \in Series : o = 1 /\ z = 0 /\ o = z + 1 /\ a = Ser(f)
  BY SerFacts
<1>3. NoneFrom(a, o)
  BY <1>1, <1>2, SerFacts DEF NoneFrom
<1>4. Eval(f, x) = Eval(Take(a, o), x)
  BY <1>2, <1>3, EvalTake
<1>5. Eval(Take(a, z + 1), x) = Add(a[0], Mul(x, Eval(Take(STail(a), z), x))) /\ a[0] \in Fr
  BY TakeHead
<1>6. Eval(Take(STail(a), z), x) = Zero
  <2>1. STail(a) \in Series
    BY SeriesTypes, FrClosed
  <2>2. Take(STail(a), z) \in [1..z -> Fr]
    BY <2>1, TakeFacts
  <2>3. QED
    BY <1>2, <2>2, EvalEmpty
<1>7. Mul(x, Zero) = Zero
  BY MulZero
<1>8. Eval(f, x) = a[0]
  BY <1>2, <1>4, <1>5, <1>6, <1>7, FrAdditive
<1>9. a[0] = IF 0 < Len(f) THEN f[0 + 1] ELSE Zero
  BY <1>2, SerFacts
<1>10. f = <<>> => Eval(f, x) = Zero
  BY <1>8, <1>9
<1>11. f # <<>> => Eval(f, x) = f[1] /\ f[1] \in Fr
  BY <1>8, <1>9
<1>12. PolyLen(f) = Len(f) /\ f # <<>> => f[1] # Zero
  <2> SUFFICES ASSUME PolyLen(f) = Len(f), f # <<>> PROVE f[1] # Zero
    OBVIOUS
  <2>1. PolyLen(f) = 1
    BY <1>1
  <2>2. QED
    BY <2>1, PolyLenFacts
<1>13. QED
  BY <1>10, <1>11, <1>12

\* evaluate is right on one point.
LEMMA LeafEvaluates ==
    ASSUME NEW u \in Slices, Len(u) = 1, NEW f \in Seq(Fr)
    PROVE  EvaluatesAt(u, f)
<1>1. PICK r : r = TreeEvaluate[u][f]
  OBVIOUS
<1>2. r = LeafBody(u, f)
  <2>1. r = EvalBody(TreeEvaluate, u, f)
    BY <1>1, TreeEvaluateEquation
  <2>2. QED
    BY <2>1 DEF EvalBody, LeafBody
<1>3. r \in Outcomes
  BY <1>2, LeafType
<1>4. PICK x \in Fr : x = u[1]
  BY DEF Slices
<1>5. 1..Len(u) = {1}
  OBVIOUS
<1>6. CASE LeadingZero(f) \/ Degree(f) >= Len(u)
  <2>1. ~ Succeeded(r)
    BY <1>2, <1>6, OutcomeFacts DEF LeafBody
  <2>2. PolyLen(f) = Len(f) => ~ LeadingZero(f)
    BY DEF LeadingZero
  <2>3. Degree(f) >= Len(u) => ~ (Degree(f) < Len(u))
    <3>1. PolyLen(f) \in Nat
      BY PolyLenFacts
    <3>2. Degree(f) \in Nat
      BY <3>1 DEF Degree
    <3>3. QED
      BY <3>2
  <2>4. QED
    BY <1>1, <1>3, <1>6, <2>1, <2>2, <2>3 DEF EvaluatesAt
<1>7. CASE ~ LeadingZero(f) /\ ~ (Degree(f) >= Len(u)) /\ f = <<>>
  <2>1. Degree(f) = 0
    <3>1. PolyLen(f) \in Nat
      BY PolyLenFacts
    <3>2. Degree(f) \in Nat
      BY <3>1 DEF Degree
    <3>3. QED
      BY <1>7, <3>2
  <2>2. ~ Succeeded(r)
    BY <1>2, <1>7, OutcomeFacts DEF LeafBody
  <2>3. Eval(f, u[1]) = Zero
    BY <1>4, <1>7, <2>1, EvalConstant
  <2>4. QED
    BY <1>1, <1>3, <1>5, <2>2, <2>3 DEF EvaluatesAt
<1>8. CASE ~ LeadingZero(f) /\ ~ (Degree(f) >= Len(u)) /\ f # <<>>
  <2>1. Degree(f) = 0
    <3>1. PolyLen(f) \in Nat
      BY PolyLenFacts
    <3>2. Degree(f) \in Nat
      BY <3>1 DEF Degree
    <3>3. QED
      BY <1>8, <3>2
  <2>2. PICK c \in Fr : c = f[1] /\ Eval(f, x) = c /\ (PolyLen(f) = Len(f) => c # Zero)
    BY <1>8, <2>1, EvalConstant
  <2>3. r = Ok(<<c>>)
    BY <1>2, <1>8, <2>2 DEF LeafBody
  <2>4. <<c>> \in Seq(Fr)
    OBVIOUS
  <2>5. Succeeded(r) /\ r.val = <<c>>
    BY <2>3, <2>4, OutcomeFacts
  <2>6. [i \in 1..Len(u) |-> Eval(f, u[i])] = <<c>>
    <3>1. \A i \in 1..Len(u) : Eval(f, u[i]) = c
      BY <1>4, <1>5, <2>2
    <3>2. <<c>> = [i \in 1..1 |-> c]
      OBVIOUS
    <3>3. QED
      BY <3>1, <3>2
  <2>7. PolyLen(f) = Len(f) => \A i \in 1..Len(u) : Eval(f, u[i]) # Zero
    BY <1>4, <1>5, <2>2
  <2>8. Settled(u, f) => PolyLen(f) = Len(f)
    BY DEF Settled, Split
  <2>9. QED
    BY <1>1, <1>3, <2>1, <2>5, <2>6, <2>7, <2>8 DEF EvaluatesAt
<1>9. QED
  BY <1>6, <1>7, <1>8

\* Degrees are numbers.
LEMMA DegreeType == \A f \in Seq(Fr) : Degree(f) \in Nat
<1> SUFFICES ASSUME NEW f \in Seq(Fr) PROVE Degree(f) \in Nat
  OBVIOUS
<1>1. PICK n \in Nat : n = PolyLen(f)
  BY PolyLenFacts
<1>2. Degree(f) = IF n = 0 THEN 0 ELSE n - 1
  BY <1>1 DEF Degree
<1>3. QED
  BY <1>2

\* evaluate is right on a slice if it is right on its halves.
LEMMA NodeEvaluates ==
    ASSUME NEW u, Split(u), NEW f \in Seq(Fr),
           Divided(u, f) => /\ EvaluatesAt(LeftHalf(u), RemainderBy(LeftHalf(u), f))
                            /\ EvaluatesAt(RightHalf(u), RemainderBy(RightHalf(u), f))
    PROVE  EvaluatesAt(u, f)
<1>1. PICK l \in Slices, r \in Slices : l = LeftHalf(u) /\ r = RightHalf(u) /\ u \in Slices
  BY Halves DEF Split
<1>2. PICK a \in Nat, b \in Nat : a = Len(l) /\ b = Len(r) /\ Len(u) = a + b
          /\ (\A i \in 1..a : l[i] = u[i]) /\ (\A i \in 1..b : r[i] = u[a + i])
  <2>1. PICK h \in Nat, n \in Nat : h < n /\ n = Len(u) /\ Len(l) = h /\ Len(r) = n - h
          /\ (\A i \in 1..h : l[i] = u[i]) /\ (\A i \in 1..(n - h) : r[i] = u[h + i])
    BY ZenonT(90), <1>1, Halves
  <2>2. n - h \in Nat /\ n = h + (n - h)
    BY <2>1
  <2>3. QED
    BY <2>1, <2>2
<1>3. PICK z : z = TreeEvaluate[u][f]
  OBVIOUS
<1>4. z = NodeBody(TreeEvaluate[l], TreeEvaluate[r], u, f)
  <2>1. z = EvalBody(TreeEvaluate, u, f)
    BY <1>1, <1>3, TreeEvaluateEquation
  <2>2. Len(u) # 1
    BY DEF Split
  <2>3. QED
    BY <1>1, <2>1, <2>2 DEF EvalBody, NodeBody, RemainderBy, Divided
<1>5. CASE LeadingZero(f) \/ Degree(f) >= Len(u) \/ ~ Divided(u, f)
  <2>1. z \in Panics
    BY <1>4, <1>5 DEF NodeBody, Panics
  <2>2. ~ Succeeded(z) /\ z \in Outcomes
    BY <2>1, OutcomeFacts
  <2>3. PolyLen(f) = Len(f) => ~ LeadingZero(f)
    BY DEF LeadingZero
  <2>4. PolyLen(f) = Len(f) /\ Degree(f) < Len(u) /\ ~ Stalling[u] => Divided(u, f)
    <3> SUFFICES ASSUME PolyLen(f) = Len(f), Degree(f) < Len(u), ~ Stalling[u] PROVE Divided(u, f)
      OBVIOUS
    <3>1. PICK n \in Nat : n = Len(u) /\ Len(l) <= n /\ Len(r) <= n /\ Len(f) <= n
      <4>1. Len(f) \in Nat
        OBVIOUS
      <4>2. Len(f) <= Len(u)
        BY <1>2, <4>1 DEF Degree
      <4>3. QED
        BY <1>2, <4>1, <4>2
    <3>2. ~ TopStalls(u)
      BY StallingEquation
    <3>3. ~ Stalls(Reverse(TreeM[l]), n - Len(l)) /\ ~ Stalls(Reverse(TreeM[r]), n - Len(r))
      BY <1>1, <3>1, <3>2 DEF TopStalls
    <3>4. Succeeded(FastDivideMonic(f, TreeM[l])) /\ Succeeded(FastDivideMonic(f, TreeM[r]))
      BY <3>1, <3>3, RemainderStalls
    <3>5. QED
      BY <1>1, <3>4 DEF Divided
  <2>5. Degree(f) >= Len(u) => ~ (Degree(f) < Len(u))
    BY <1>2, DegreeType
  <2>6. QED
    BY <1>3, <1>5, <2>2, <2>3, <2>4, <2>5 DEF EvaluatesAt
<1>6. CASE ~ LeadingZero(f) /\ ~ (Degree(f) >= Len(u)) /\ Divided(u, f)
  <2>1. PICK p \in Seq(Fr) : /\ p = RemainderBy(l, f) /\ Degree(p) < a /\ (PolyLen(f) = Len(f) \/ Len(f) > a => PolyLen(p) = Len(p))
                             /\ \A i \in 1..a : Eval(p, l[i]) = Eval(f, l[i])
    BY <1>1, <1>2, <1>6, RemainderFacts DEF Divided
  <2>2. PICK q \in Seq(Fr) : /\ q = RemainderBy(r, f) /\ Degree(q) < b /\ (PolyLen(f) = Len(f) \/ Len(f) > b => PolyLen(q) = Len(q))
                             /\ \A i \in 1..b : Eval(q, r[i]) = Eval(f, r[i])
    BY ZenonT(90), <1>1, <1>2, <1>6, RemainderFacts DEF Divided
  <2>3. \A i \in 1..a : Eval(p, l[i]) = Eval(f, u[i])
    BY <1>2, <2>1
  <2>4. \A i \in 1..b : Eval(q, r[i]) = Eval(f, u[a + i])
    BY <1>2, <2>2
  <2>5. PICK x, y : x = TreeEvaluate[l][p] /\ y = TreeEvaluate[r][q]
    OBVIOUS
  <2>6. /\ x \in Outcomes
        /\ Succeeded(x) => x.val = [i \in 1..a |-> Eval(p, l[i])]
        /\ PolyLen(p) = Len(p) /\ (\A i \in 1..a : Eval(p, l[i]) # Zero) /\ ~ Stalling[l] => Succeeded(x)
        /\ PolyLen(p) = Len(p) /\ Succeeded(x) => \A i \in 1..a : Eval(p, l[i]) # Zero
    BY <1>1, <1>2, <1>6, <2>1, <2>5 DEF EvaluatesAt, Settled
  <2>7. /\ y \in Outcomes
        /\ Succeeded(y) => y.val = [i \in 1..b |-> Eval(q, r[i])]
        /\ PolyLen(q) = Len(q) /\ (\A i \in 1..b : Eval(q, r[i]) # Zero) /\ ~ Stalling[r] => Succeeded(y)
        /\ PolyLen(q) = Len(q) /\ Succeeded(y) => \A i \in 1..b : Eval(q, r[i]) # Zero
    BY <1>1, <1>2, <1>6, <2>2, <2>5 DEF EvaluatesAt, Settled
  <2>8. z = Both(x, y)
    BY <1>1, <1>4, <1>6, <2>1, <2>2, <2>5 DEF NodeBody
  <2>9. z \in Outcomes /\ (Succeeded(z) <=> Succeeded(x) /\ Succeeded(y))
        /\ (Succeeded(z) => z.val = x.val \o y.val /\ x.val \in Seq(Fr) /\ y.val \in Seq(Fr))
    BY <2>6, <2>7, <2>8, BothFacts
  <2>10. Settled(u, f) /\ Succeeded(z) => \A i \in 1..(a + b) : Eval(f, u[i]) # Zero
    <3> SUFFICES ASSUME Settled(u, f), Succeeded(z), NEW i \in 1..(a + b) PROVE Eval(f, u[i]) # Zero
      OBVIOUS
    <3>0. (PolyLen(f) = Len(f) \/ Len(f) > a) /\ (PolyLen(f) = Len(f) \/ Len(f) > b)
      <4>1. a > 0 /\ b > 0 /\ Len(f) \in Nat
        BY <1>1, <1>2 DEF Slices
      <4>2. QED
        BY <1>2, <4>1 DEF Settled
    <3>1. \A j \in 1..a : Eval(p, l[j]) # Zero
      BY <2>1, <2>6, <2>9, <3>0
    <3>2. \A j \in 1..b : Eval(q, r[j]) # Zero
      BY <2>2, <2>7, <2>9, <3>0
    <3>3. CASE i <= a
      <4>1. i \in 1..a
        BY <3>3
      <4>2. QED
        BY <2>3, <3>1, <4>1
    <3>4. CASE ~ (i <= a)
      <4>1. PICK j \in 1..b : a + j = i
        <5>1. i - a \in 1..b /\ a + (i - a) = i
          BY <3>4
        <5>2. QED
          BY <5>1
      <4>2. Eval(q, r[j]) = Eval(f, u[a + j]) /\ Eval(q, r[j]) # Zero
        BY <2>4, <3>2
      <4>3. QED
        BY <4>1, <4>2
    <3>5. QED
      BY <3>3, <3>4
  <2>11. Succeeded(z) => z.val = [i \in 1..(a + b) |-> Eval(f, u[i])]
    <3> SUFFICES ASSUME Succeeded(z) PROVE z.val = [i \in 1..(a + b) |-> Eval(f, u[i])]
      OBVIOUS
    <3>1. PICK s \in Seq(Fr), t \in Seq(Fr) : s = x.val /\ t = y.val /\ z.val = s \o t
      BY <2>9
    <3>2. s = [i \in 1..a |-> Eval(p, l[i])] /\ t = [i \in 1..b |-> Eval(q, r[i])]
      BY <2>6, <2>7, <2>9, <3>1
    <3>3. Len(s) = a /\ Len(t) = b
      <4>1. DOMAIN s = 1..a /\ DOMAIN t = 1..b
        BY <3>2
      <4>2. QED
        BY <4>1
    <3>4. \A i \in 1..a : s[i] = Eval(f, u[i])
      BY <2>3, <3>2
    <3>5. \A i \in 1..b : t[i] = Eval(f, u[a + i])
      BY <2>4, <3>2
    <3>6. s \o t = [i \in 1..(a + b) |-> IF i <= a THEN s[i] ELSE t[i - a]]
      <4>1. /\ s \o t \in Seq(Fr) /\ Len(s \o t) = Len(s) + Len(t)
            /\ \A i \in 1..(Len(s) + Len(t)) : (s \o t)[i] = IF i <= Len(s) THEN s[i] ELSE t[i - Len(s)]
        OBVIOUS
      <4>2. PICK w \in Seq(Fr) : w = s \o t
        BY Zenon, <4>1
      <4>3. Len(w) = a + b /\ \A i \in 1..(a + b) : w[i] = IF i <= a THEN s[i] ELSE t[i - a]
        BY <3>3, <4>1, <4>2
      <4>4. w = [i \in 1..(a + b) |-> w[i]]
        BY <4>3
      <4>5. QED
        BY <4>2, <4>3, <4>4
    <3>7. ASSUME NEW i \in 1..(a + b) PROVE (IF i <= a THEN s[i] ELSE t[i - a]) = Eval(f, u[i])
      <4>1. CASE i <= a
        <5>1. i \in 1..a
          BY <4>1
        <5>2. QED
          BY <3>4, <4>1, <5>1
      <4>2. CASE ~ (i <= a)
        <5>1. PICK j \in 1..b : a + j = i /\ j = i - a
          <6>1. i - a \in 1..b /\ a + (i - a) = i
            BY <4>2
          <6>2. QED
            BY <6>1
        <5>2. t[j] = Eval(f, u[a + j])
          BY <3>5
        <5>3. QED
          BY <4>2, <5>1, <5>2
      <4>3. QED
        BY <4>1, <4>2
    <3>8. [i \in 1..(a + b) |-> IF i <= a THEN s[i] ELSE t[i - a]] = [i \in 1..(a + b) |-> Eval(f, u[i])]
      BY <3>7
    <3>9. QED
      BY <3>1, <3>6, <3>8
  <2>12. PolyLen(f) = Len(f) /\ (\A i \in 1..(a + b) : Eval(f, u[i]) # Zero) /\ ~ Stalling[u] => Succeeded(z)
    <3> SUFFICES ASSUME PolyLen(f) = Len(f), \A i \in 1..(a + b) : Eval(f, u[i]) # Zero, ~ Stalling[u]
                 PROVE  Succeeded(z)
      OBVIOUS
    <3>1. ~ Stalling[l] /\ ~ Stalling[r]
      BY <1>1, StallingEquation
    <3>2. \A i \in 1..a : Eval(p, l[i]) # Zero
      <4>1. \A i \in 1..a : i \in 1..(a + b)
        OBVIOUS
      <4>2. QED
        BY <2>3, <4>1
    <3>3. \A i \in 1..b : Eval(q, r[i]) # Zero
      <4>1. \A i \in 1..b : a + i \in 1..(a + b)
        OBVIOUS
      <4>2. QED
        BY <2>4, <4>1
    <3>4. QED
      BY <2>1, <2>2, <2>6, <2>7, <2>9, <3>1, <3>2, <3>3
  <2>13. QED
    BY <1>2, <1>3, <1>6, <2>9, <2>10, <2>11, <2>12, DegreeType DEF EvaluatesAt
<1>7. QED
  BY <1>5, <1>6

\* evaluate evaluates.
LEMMA EvaluationFacts == \A u \in Slices, f \in Seq(Fr) : EvaluatesAt(u, f)
<1> DEFINE S == {u \in Slices : \A f \in Seq(Fr) : EvaluatesAt(u, f)}
<1>1. \A u \in Slices : Len(u) = 1 => u \in S
  BY LeafEvaluates
<1>2. ASSUME NEW u, Split(u), LeftHalf(u) \in S, RightHalf(u) \in S PROVE u \in S
  <2>1. u \in Slices
    BY <1>2 DEF Split
  <2>2. ASSUME NEW f \in Seq(Fr) PROVE EvaluatesAt(u, f)
    <3>1. Divided(u, f) =>
            RemainderBy(LeftHalf(u), f) \in Seq(Fr) /\ RemainderBy(RightHalf(u), f) \in Seq(Fr)
      BY <1>2, RemainderFacts DEF Divided
    <3>2. Divided(u, f) =>
          /\ EvaluatesAt(LeftHalf(u), RemainderBy(LeftHalf(u), f))
          /\ EvaluatesAt(RightHalf(u), RemainderBy(RightHalf(u), f))
      BY <1>2, <3>1
    <3>3. QED
      BY <1>2, <3>2, NodeEvaluates
  <2>3. QED
    BY <2>1, <2>2
<1>3. HoldsTrees(S)
  <2> HIDE DEF S
  <2> QED
    BY <1>1, <1>2 DEF HoldsTrees
<1>4. \A u \in Slices : u \in S
  <2> HIDE DEF S
  <2> QED
    BY <1>3, SliceInduction
<1>5. QED
  BY <1>4
-----------------------------------------------------------------------------
\* The integer k in the field.
InField(k) == Times(k, One)

\* F::from(k) * c is a product of the field.
LEMMA TimesFacts ==
    ASSUME NEW k \in Nat, NEW c \in Fr
    PROVE  Times(k, c) = Mul(InField(k), c) /\ InField(k) \in Fr /\ Times(k, c) \in Fr
<1> DEFINE ones == [i \in 1..k |-> One]
           s == [i \in 1..k |-> c]
<1>1. ones \in [1..k -> Fr] /\ s \in [1..k -> Fr]
  BY FrClosed
<1>2. s = [i \in 1..k |-> Mul(c, ones[i])]
  BY FrMultiplicative
<1>3. InField(k) = FSum(ones) /\ Times(k, c) = FSum(s)
  BY DEF InField, Times
<1>4. FSum([i \in 1..k |-> Mul(c, ones[i])]) = Mul(c, FSum(ones))
  <2> HIDE DEF ones
  <2> QED
    BY <1>1, FSumScale
<1>5. FSum(ones) \in Fr
  <2> HIDE DEF ones
  <2> QED
    BY <1>1, FoldTypes
<1>6. Times(k, c) = Mul(c, InField(k)) /\ InField(k) \in Fr
  <2> HIDE DEF ones, s
  <2> QED
    BY <1>2, <1>3, <1>4, <1>5
<1>7. Mul(c, InField(k)) = Mul(InField(k), c) /\ Mul(c, InField(k)) \in Fr
  BY <1>6, FrClosed, FrMultiplicative
<1>8. QED
  BY <1>6, <1>7

\* F::from respects zero, one and sums.
LEMMA InFieldAdds ==
    /\ InField(0) = Zero /\ InField(1) = One
    /\ \A i, j \in Nat : InField(i + j) = Add(InField(i), InField(j))
<1> DEFINE ones(k) == [i \in 1..k |-> One]
<1>1. \A k \in Nat : ones(k) \in [1..k -> Fr]
  BY FrClosed
<1>2. \A k : InField(k) = FSum(ones(k))
  BY DEF InField, Times
<1>3. InField(0) = Zero
  <2>1. ones(0) \in [1..0 -> Fr]
    BY <1>1
  <2>2. QED
    <3> HIDE DEF ones
    <3> QED
      BY <1>2, <2>1, FSumEmpty
<1>4. ASSUME NEW i \in Nat, NEW j \in Nat PROVE InField(i + j) = Add(InField(i), InField(j))
  <2>1. PICK s \in [1..i -> Fr], t \in [1..j -> Fr], r \in [1..(i + j) -> Fr] : s = ones(i) /\ t = ones(j) /\ r = ones(i + j)
    <3>1. i + j \in Nat
      OBVIOUS
    <3>2. ones(i) \in [1..i -> Fr] /\ ones(j) \in [1..j -> Fr] /\ ones(i + j) \in [1..(i + j) -> Fr]
      <4> HIDE DEF ones
      <4> QED
        BY <1>1, <3>1
    <3>3. QED
      <4> HIDE DEF ones
      <4> QED
        BY <3>2
  <2>2. IsJoined(r, s, i, t, j)
    <3>1. \A k \in 1..(i + j) : r[k] = One
      BY <2>1
    <3>2. (\A k \in 1..i : s[k] = One) /\ (\A k \in 1..j : t[k] = One)
      BY <2>1
    <3>3. (\A k \in 1..i : k \in 1..(i + j)) /\ (\A k \in 1..j : i + k \in 1..(i + j))
      OBVIOUS
    <3>4. QED
      BY <3>1, <3>2, <3>3 DEF IsJoined
  <2>3. FSum(r) = Add(FSum(s), FSum(t))
    BY <2>2, FoldsJoin
  <2>4. QED
    <3> HIDE DEF ones
    <3> QED
      BY <1>2, <2>1, <2>3
<1>5. InField(1) = One
  <2>0. PICK z \in Nat : z = 0 /\ z + 1 = 1
    OBVIOUS
  <2>1. PICK s \in [1..(z + 1) -> Fr], r \in [1..z -> Fr] : s = ones(1) /\ r = ones(0)
    <3>1. ones(1) \in [1..1 -> Fr] /\ ones(0) \in [1..0 -> Fr]
      BY <1>1
    <3>2. ones(1) \in [1..(z + 1) -> Fr] /\ ones(0) \in [1..z -> Fr]
      <4> HIDE DEF ones
      <4> QED
        BY <2>0, <3>1
    <3>3. QED
      <4> HIDE DEF ones
      <4> QED
        BY <3>2
  <2>2. \A i \in 1..z : r[i] = s[i]
    BY <2>0
  <2>3. FSum(s) = Add(FSum(r), s[z + 1])
    BY <2>2, FoldsAppend
  <2>4. s[z + 1] = One
    BY <2>0, <2>1
  <2>5. FSum(r) = Zero /\ FSum(s) = InField(1)
    <3> HIDE DEF ones
    <3> QED
      BY <1>2, <1>3, <2>1
  <2>6. Add(Zero, One) = One
    BY FrClosed, FrAdditive
  <2>7. QED
    BY <2>3, <2>4, <2>5, <2>6
<1>6. QED
  BY <1>3, <1>4, <1>5

\* Every coefficient times its exponent, and the derivative of a series.
Theta(a) == [k \in Nat |-> Mul(InField(k), a[k])]
SDer(a) == STail(Theta(a))

\* x d/dx and the derivative of a series are series.
LEMMA ThetaType ==
    ASSUME NEW a \in Series
    PROVE  Theta(a) \in Series /\ SDer(a) \in Series /\ Theta(a)[0] = Zero
<1>1. \A k \in Nat : InField(k) \in Fr
  BY TimesFacts, FrClosed
<1>2. \A k \in Nat : Mul(InField(k), a[k]) \in Fr
  BY <1>1, FrClosed DEF Series
<1>3. Theta(a) \in Series
  BY <1>2 DEF Theta, Series
<1>4. Theta(a)[0] = Zero
  <2>1. Theta(a)[0] = Mul(InField(0), a[0]) /\ a[0] \in Fr
    BY DEF Theta, Series
  <2>2. QED
    BY <2>1, InFieldAdds, MulZero
<1>5. QED
  BY <1>3, <1>4, SeriesTypes, FrClosed DEF SDer

\* The product rule, coefficient by coefficient.
LEMMA ThetaProduct ==
    ASSUME NEW a \in Series, NEW b \in Series
    PROVE  Theta(Conv(a, b)) = SAdd(Conv(Theta(a), b), Conv(a, Theta(b)))
<1>1. Theta(a) \in Series /\ Theta(b) \in Series
  BY ThetaType
<1>2. Conv(a, b) \in Series /\ Conv(Theta(a), b) \in Series /\ Conv(a, Theta(b)) \in Series
  BY <1>1, ConvType
<1>3. ASSUME NEW k \in Nat
      PROVE  Mul(InField(k), Conv(a, b)[k]) = Add(Conv(Theta(a), b)[k], Conv(a, Theta(b))[k])
  <2>1. PICK n \in Nat, N \in Fr : n = k + 1 /\ N = InField(k)
    BY TimesFacts, FrClosed
  <2>2. PICK s \in [1..n -> Fr] : s = ConvTerms(a, b, k) /\ FSum(s) = Conv(a, b)[k]
    BY SMTT(60), <2>1, ConvTermsType, ConvType
  <2>3. PICK t \in [1..n -> Fr] : t = ConvTerms(Theta(a), b, k) /\ FSum(t) = Conv(Theta(a), b)[k]
    <3>1. ConvTerms(Theta(a), b, k) \in [1..(k + 1) -> Fr]
      BY <1>1, ConvTermsType
    <3>2. Conv(Theta(a), b)[k] = FSum(ConvTerms(Theta(a), b, k))
      BY <1>1, ConvType
    <3>3. QED
      BY <2>1, <3>1, <3>2
  <2>4. PICK r \in [1..n -> Fr] : r = ConvTerms(a, Theta(b), k) /\ FSum(r) = Conv(a, Theta(b))[k]
    <3>1. ConvTerms(a, Theta(b), k) \in [1..(k + 1) -> Fr]
      BY <1>1, ConvTermsType
    <3>2. Conv(a, Theta(b))[k] = FSum(ConvTerms(a, Theta(b), k))
      BY <1>1, ConvType
    <3>3. QED
      BY <2>1, <3>1, <3>2
  <2>5. ASSUME NEW i \in 1..n PROVE Mul(N, s[i]) = Add(t[i], r[i])
    <3>1. PICK p \in Nat, q \in Nat : p = i - 1 /\ q = k + 1 - i /\ p + q = k
      BY <2>1
    <3>2. PICK x \in Fr, y \in Fr, P \in Fr, Q \in Fr : x = a[p] /\ y = b[q] /\ P = InField(p) /\ Q = InField(q)
      <4>1. a[p] \in Fr /\ b[q] \in Fr
        BY DEF Series
      <4>2. InField(p) \in Fr /\ InField(q) \in Fr
        BY TimesFacts, FrClosed
      <4>3. QED
        BY <4>1, <4>2
    <3>3. s[i] = Mul(x, y)
      BY <2>1, <2>2, <3>1, <3>2 DEF ConvTerms
    <3>4. t[i] = Mul(Mul(P, x), y)
      <4>1. t[i] = Mul(Theta(a)[p], b[q])
        BY <2>1, <2>3, <3>1 DEF ConvTerms
      <4>2. Theta(a)[p] = Mul(P, x)
        BY <3>2 DEF Theta
      <4>3. QED
        BY <3>2, <4>1, <4>2
    <3>5. r[i] = Mul(x, Mul(Q, y))
      <4>1. r[i] = Mul(a[p], Theta(b)[q])
        BY <2>1, <2>4, <3>1 DEF ConvTerms
      <4>2. Theta(b)[q] = Mul(Q, y)
        BY <3>2 DEF Theta
      <4>3. QED
        BY <3>2, <4>1, <4>2
    <3>6. N = Add(P, Q)
      BY <2>1, <3>1, <3>2, InFieldAdds
    <3>7. PICK z \in Fr : z = Mul(x, y)
      BY FrClosed
    <3>8. Mul(Add(P, Q), z) = Add(Mul(P, z), Mul(Q, z))
      <4>1. Add(P, Q) \in Fr
        BY FrClosed
      <4>2. Mul(Add(P, Q), z) = Mul(z, Add(P, Q))
        BY <4>1, FrMultiplicative
      <4>3. Mul(z, Add(P, Q)) = Add(Mul(z, P), Mul(z, Q))
        BY FrMultiplicative
      <4>4. Mul(z, P) = Mul(P, z) /\ Mul(z, Q) = Mul(Q, z)
        BY FrMultiplicative
      <4>5. QED
        BY <4>2, <4>3, <4>4
    <3>9. Mul(P, z) = Mul(Mul(P, x), y)
      BY <3>7, FrMultiplicative
    <3>10. Mul(Q, z) = Mul(x, Mul(Q, y))
      BY <3>7, MulRotate
    <3>11. QED
      BY <3>3, <3>4, <3>5, <3>6, <3>7, <3>8, <3>9, <3>10
  <2>6. [i \in 1..n |-> Mul(N, s[i])] = [i \in 1..n |-> Add(t[i], r[i])]
    BY <2>5
  <2>7. FSum([i \in 1..n |-> Mul(N, s[i])]) = Mul(N, FSum(s))
    BY FSumScale
  <2>8. FSum([i \in 1..n |-> Add(t[i], r[i])]) = Add(FSum(t), FSum(r))
    BY FSumAdd
  <2>9. QED
    BY <2>1, <2>2, <2>3, <2>4, <2>6, <2>7, <2>8
<1>4. \A k \in Nat : Theta(Conv(a, b))[k] = Mul(InField(k), Conv(a, b)[k])
  BY DEF Theta
<1>5. \A k \in Nat : SAdd(Conv(Theta(a), b), Conv(a, Theta(b)))[k] = Add(Conv(Theta(a), b)[k], Conv(a, Theta(b))[k])
  BY DEF SAdd
<1>6. Theta(Conv(a, b)) \in Series /\ SAdd(Conv(Theta(a), b), Conv(a, Theta(b))) \in Series
  BY <1>2, ThetaType, SeriesTypes, FrClosed
<1>7. \A k \in Nat : Theta(Conv(a, b))[k] = SAdd(Conv(Theta(a), b), Conv(a, Theta(b)))[k]
  BY <1>3, <1>4, <1>5
<1>8. QED
  BY <1>6, <1>7 DEF Series

\* The product rule.
LEMMA DerivativeProduct ==
    ASSUME NEW a \in Series, NEW b \in Series
    PROVE  SDer(Conv(a, b)) = SAdd(Conv(SDer(a), b), Conv(a, SDer(b)))
<1>1. PICK ta \in Series, tb \in Series : ta = Theta(a) /\ tb = Theta(b) /\ ta[0] = Zero /\ tb[0] = Zero
  BY ThetaType
<1>2. ASSUME NEW p \in Series, NEW q \in Series, p[0] = Zero
      PROVE  STail(Conv(p, q)) = Conv(STail(p), q)
  <2>1. STail(Conv(p, q)) = SAdd(SScale(Zero, STail(q)), Conv(STail(p), q))
    BY <1>2, ConvTail
  <2>2. PICK c \in Series, w \in Series : c = Conv(STail(p), q) /\ w = STail(q)
    <3>1. STail(p) \in Series /\ STail(q) \in Series
      BY SeriesTypes, FrClosed
    <3>2. Conv(STail(p), q) \in Series
      BY <3>1, ConvType
    <3>3. QED
      BY <3>1, <3>2
  <2>3. \A k \in Nat : SAdd(SScale(Zero, w), c)[k] = Add(Mul(Zero, w[k]), c[k])
    BY DEF SAdd, SScale
  <2>4. ASSUME NEW k \in Nat PROVE Add(Mul(Zero, w[k]), c[k]) = c[k]
    <3>1. w[k] \in Fr /\ c[k] \in Fr
      BY DEF Series
    <3>2. Mul(Zero, w[k]) = Zero
      BY <3>1, MulZero
    <3>3. Add(Zero, c[k]) = c[k]
      BY <3>1, FrClosed, FrAdditive
    <3>4. QED
      BY <3>2, <3>3
  <2>5. SAdd(SScale(Zero, w), c) \in Series
    <3>1. SScale(Zero, w) \in Series
      BY SeriesTypes, FrClosed
    <3>2. QED
      BY <3>1, SeriesTypes, FrClosed
  <2>6. SAdd(SScale(Zero, w), c) = c
    BY <2>3, <2>4, <2>5 DEF Series
  <2>7. QED
    BY <2>1, <2>2, <2>6
<1>3. PICK c \in Series, d \in Series : c = Conv(ta, b) /\ d = Conv(a, tb)
  <2>1. Conv(ta, b) \in Series /\ Conv(a, tb) \in Series
    BY ConvType
  <2>2. QED
    BY <2>1
<1>4. SDer(Conv(a, b)) = STail(SAdd(c, d))
  BY <1>1, <1>3, ThetaProduct DEF SDer
<1>5. STail(SAdd(c, d)) = SAdd(STail(c), STail(d))
  <2>1. \A k \in Nat : STail(SAdd(c, d))[k] = Add(c[k + 1], d[k + 1])
    <3>1. \A k \in Nat : k + 1 \in Nat
      OBVIOUS
    <3>2. \A j \in Nat : SAdd(c, d)[j] = Add(c[j], d[j])
      BY DEF SAdd
    <3>3. \A k \in Nat : STail(SAdd(c, d))[k] = SAdd(c, d)[k + 1]
      BY DEF STail
    <3>4. QED
      BY <3>1, <3>2, <3>3
  <2>2. \A k \in Nat : SAdd(STail(c), STail(d))[k] = Add(c[k + 1], d[k + 1])
    BY DEF SAdd, STail
  <2>3. SAdd(c, d) \in Series /\ STail(c) \in Series /\ STail(d) \in Series
    BY SeriesTypes, FrClosed
  <2>4. STail(SAdd(c, d)) \in Series /\ SAdd(STail(c), STail(d)) \in Series
    BY <2>3, SeriesTypes, FrClosed
  <2>5. \A k \in Nat : STail(SAdd(c, d))[k] = SAdd(STail(c), STail(d))[k]
    BY <2>1, <2>2
  <2>6. QED
    BY <2>4, <2>5 DEF Series
<1>6. STail(c) = Conv(SDer(a), b)
  BY <1>1, <1>2, <1>3 DEF SDer
<1>7. STail(d) = Conv(a, SDer(b))
  <2>1. d = Conv(tb, a)
    BY <1>3, ConvComm
  <2>2. STail(d) = Conv(STail(tb), a)
    BY <1>1, <1>2, <2>1
  <2>3. STail(tb) \in Series
    BY SeriesTypes, FrClosed
  <2>4. Conv(STail(tb), a) = Conv(a, STail(tb))
    BY <2>3, ConvComm
  <2>5. QED
    BY <1>1, <2>2, <2>4 DEF SDer
<1>8. QED
  BY <1>4, <1>5, <1>6, <1>7

\* derivative of a polynomial.
LEMMA DerivativeSer ==
    ASSUME NEW n \in Nat, NEW p \in [1..(n + 1) -> Fr]
    PROVE  /\ Derivative(p) \in [1..n -> Fr] /\ Derivative(p) \in Seq(Fr) /\ Len(Derivative(p)) = n
           /\ Ser(Derivative(p)) = SDer(Ser(p))
<1>1. p \in Seq(Fr) /\ Len(p) = n + 1
  <2>1. n + 1 \in Nat
    OBVIOUS
  <2>2. QED
    BY <2>1, SeqOf
<1>2. PICK d : d = Derivative(p) /\ d = [k \in 1..n |-> Times(k, p[k + 1])]
  <2>1. Len(p) - 1 = n
    BY <1>1
  <2>2. Derivative(p) = [k \in 1..(Len(p) - 1) |-> Times(k, p[k + 1])]
    BY DEF Derivative
  <2>3. QED
    BY <2>1, <2>2
<1>3. ASSUME NEW k \in 1..n PROVE Times(k, p[k + 1]) = Mul(InField(k), p[k + 1]) /\ Times(k, p[k + 1]) \in Fr
  <2>1. k \in Nat /\ p[k + 1] \in Fr
    OBVIOUS
  <2>2. QED
    BY <2>1, TimesFacts
<1>4. d \in [1..n -> Fr] /\ \A k \in 1..n : d[k] = Mul(InField(k), p[k + 1])
  BY <1>2, <1>3
<1>5. d \in Seq(Fr) /\ Len(d) = n
  BY <1>4, SeqOf
<1>6. ASSUME NEW k \in Nat PROVE Ser(d)[k] = SDer(Ser(p))[k]
  <2>1. PICK j \in Nat : j = k + 1
    OBVIOUS
  <2>2. SDer(Ser(p))[k] = Mul(InField(j), Ser(p)[j])
    <3>1. SDer(Ser(p))[k] = Theta(Ser(p))[j]
      BY <2>1 DEF SDer, STail
    <3>2. QED
      BY <3>1 DEF Theta
  <2>3. Ser(p)[j] = IF j < n + 1 THEN p[j + 1] ELSE Zero
    BY <1>1, SerFacts
  <2>4. Ser(d)[k] = IF k < n THEN d[k + 1] ELSE Zero
    BY <1>5, SerFacts
  <2>5. CASE k < n
    <3>1. j \in 1..n /\ j < n + 1
      BY <2>1, <2>5
    <3>2. QED
      BY <1>4, <2>1, <2>2, <2>3, <2>4, <2>5, <3>1
  <2>6. CASE ~ (k < n)
    <3>1. ~ (j < n + 1)
      BY <2>1, <2>6
    <3>2. Mul(InField(j), Zero) = Zero
      <4>1. InField(j) \in Fr
        BY TimesFacts, FrClosed
      <4>2. QED
        BY <4>1, MulZero
    <3>3. QED
      BY <2>2, <2>3, <2>4, <2>6, <3>1, <3>2
  <2>7. QED
    BY <2>5, <2>6
<1>7. Ser(d) = SDer(Ser(p))
  <2>1. Ser(d) \in Series /\ SDer(Ser(p)) \in Series
    BY <1>1, <1>5, SerFacts, ThetaType
  <2>2. QED
    BY <1>6, <2>1 DEF Series
<1>8. QED
  BY <1>2, <1>4, <1>5, <1>7

\* The factors of m / (x - u_i), and the sum of c_i m / (x - u_i), at x.
Punctured(u, i, x) == [j \in 1..Len(u) |-> IF j = i THEN One ELSE Sub(x, u[j])]
CombinationTerms(u, c, x) == [i \in 1..Len(u) |-> Mul(c[i], FProd(Punctured(u, i, x)))]
Combination(u, c, x) == FSum(CombinationTerms(u, c, x))

\* These are field elements.
LEMMA PuncturedType ==
    ASSUME NEW u \in Slices, NEW i, NEW x \in Fr
    PROVE  /\ Punctured(u, i, x) \in [1..Len(u) -> Fr] /\ FProd(Punctured(u, i, x)) \in Fr
           /\ \A j \in 1..Len(u) : Punctured(u, i, x)[j] = IF j = i THEN One ELSE Sub(x, u[j])
<1>1. Len(u) \in Nat /\ u \in [1..Len(u) -> Fr]
  BY DEF Slices
<1>2. \A j \in 1..Len(u) : u[j] \in Fr
  BY <1>1
<1>3. \A j \in 1..Len(u) : Sub(x, u[j]) \in Fr
  BY <1>2, SubFacts
<1>4. Punctured(u, i, x) \in [1..Len(u) -> Fr]
  BY <1>3, FrClosed DEF Punctured
<1>5. FProd(Punctured(u, i, x)) \in Fr
  BY <1>1, <1>4, FoldTypes
<1>6. \A j \in 1..Len(u) : Punctured(u, i, x)[j] = IF j = i THEN One ELSE Sub(x, u[j])
  BY DEF Punctured
<1>7. QED
  BY <1>4, <1>5, <1>6

\* ... and so are the terms and the sum.
LEMMA CombinationType ==
    ASSUME NEW u \in Slices, NEW c \in [1..Len(u) -> Fr], NEW x \in Fr
    PROVE  /\ CombinationTerms(u, c, x) \in [1..Len(u) -> Fr] /\ Combination(u, c, x) \in Fr
           /\ \A i \in 1..Len(u) : CombinationTerms(u, c, x)[i] = Mul(c[i], FProd(Punctured(u, i, x)))
<1>1. Len(u) \in Nat
  BY DEF Slices
<1>2. \A i \in 1..Len(u) : FProd(Punctured(u, i, x)) \in Fr
  BY PuncturedType
<1>3. \A i \in 1..Len(u) : Mul(c[i], FProd(Punctured(u, i, x))) \in Fr
  BY <1>2, FrClosed
<1>4. CombinationTerms(u, c, x) \in [1..Len(u) -> Fr]
  BY <1>3 DEF CombinationTerms
<1>5. Combination(u, c, x) \in Fr
  BY <1>1, <1>4, FoldTypes DEF Combination
<1>6. QED
  BY <1>4, <1>5 DEF CombinationTerms

\* The halves of a slice.
HalvesOf(u, l, r, a, b) ==
    /\ u \in Slices /\ l \in Slices /\ r \in Slices
    /\ a \in Nat \ {0} /\ b \in Nat \ {0} /\ Len(l) = a /\ Len(r) = b /\ Len(u) = a + b
    /\ \A i \in 1..a : l[i] = u[i]
    /\ \A i \in 1..b : r[i] = u[a + i]

\* Coefficients cut like the slice.
CutAt(c, cl, cr, a, b) ==
    /\ c \in [1..(a + b) -> Fr] /\ cl \in [1..a -> Fr] /\ cr \in [1..b -> Fr]
    /\ IsJoined(c, cl, a, cr, b)

\* LeftHalf and RightHalf are such halves.
LEMMA SplitHalves ==
    ASSUME NEW u, Split(u)
    PROVE  HalvesOf(u, LeftHalf(u), RightHalf(u), Len(LeftHalf(u)), Len(RightHalf(u)))
<1>1. PICK l, r : l = LeftHalf(u) /\ r = RightHalf(u)
  OBVIOUS
<1>2. PICK h \in Nat \ {0}, n \in Nat : h < n /\ n = Len(u) /\ Len(l) = h /\ Len(r) = n - h
        /\ (\A i \in 1..h : l[i] = u[i]) /\ (\A i \in 1..(n - h) : r[i] = u[h + i])
        /\ l \in Slices /\ r \in Slices
  BY <1>1, Halves
<1>3. n - h \in Nat \ {0} /\ n = h + (n - h) /\ u \in Slices
  BY <1>2 DEF Split
<1>4. QED
  BY <1>1, <1>2, <1>3 DEF HalvesOf

\* The combination over a slice is that of the left half times the product of the right
\* one, and the other way round.
LEMMA CombinationJoin ==
    ASSUME NEW u, NEW l, NEW r, NEW a \in Nat, NEW b \in Nat, HalvesOf(u, l, r, a, b),
           NEW c, NEW cl, NEW cr, CutAt(c, cl, cr, a, b), NEW x \in Fr
    PROVE  Combination(u, c, x) =
             Add(Mul(FProd(Differences(r, x)), Combination(l, cl, x)),
                 Mul(FProd(Differences(l, x)), Combination(r, cr, x)))
<1>1. /\ u \in Slices /\ l \in Slices /\ r \in Slices
      /\ a \in Nat \ {0} /\ b \in Nat \ {0} /\ Len(l) = a /\ Len(r) = b /\ Len(u) = a + b
      /\ \A i \in 1..a : l[i] = u[i]
      /\ \A i \in 1..b : r[i] = u[a + i]
  BY DEF HalvesOf
<1>a. u \in Slices
  BY <1>1
<1>b. c \in [1..(a + b) -> Fr] /\ cl \in [1..a -> Fr] /\ cr \in [1..b -> Fr] /\ IsJoined(c, cl, a, cr, b)
  BY DEF CutAt
<1> USE <1>b
<1>2. PICK dl \in [1..a -> Fr] : dl = Differences(l, x) /\ \A j \in 1..a : dl[j] = Sub(x, l[j])
  <2>1. Differences(l, x) \in [1..Len(l) -> Fr] /\ \A j \in 1..Len(l) : Differences(l, x)[j] = Sub(x, l[j])
    BY <1>1, DifferencesType
  <2>2. QED
    BY <1>1, <2>1
<1>3. PICK dr \in [1..b -> Fr] : dr = Differences(r, x) /\ \A j \in 1..b : dr[j] = Sub(x, r[j])
  <2>1. Differences(r, x) \in [1..Len(r) -> Fr] /\ \A j \in 1..Len(r) : Differences(r, x)[j] = Sub(x, r[j])
    BY <1>1, DifferencesType
  <2>2. QED
    BY <1>1, <2>1
<1>4. PICK L \in Fr, R \in Fr : L = FProd(dl) /\ R = FProd(dr)
  <2>1. FProd(dl) \in Fr /\ FProd(dr) \in Fr
    BY <1>1, FoldTypes
  <2>2. QED
    BY <2>1
<1>5. PICK s \in [1..a -> Fr] : s = CombinationTerms(l, cl, x) /\ FSum(s) = Combination(l, cl, x)
        /\ \A i \in 1..a : s[i] = Mul(cl[i], FProd(Punctured(l, i, x)))
  <2>1. /\ CombinationTerms(l, cl, x) \in [1..a -> Fr]
        /\ \A i \in 1..a : CombinationTerms(l, cl, x)[i] = Mul(cl[i], FProd(Punctured(l, i, x)))
    BY <1>1, CombinationType
  <2>2. QED
    BY <2>1 DEF Combination
<1>6. PICK t \in [1..b -> Fr] : t = CombinationTerms(r, cr, x) /\ FSum(t) = Combination(r, cr, x)
        /\ \A i \in 1..b : t[i] = Mul(cr[i], FProd(Punctured(r, i, x)))
  <2>1. /\ CombinationTerms(r, cr, x) \in [1..b -> Fr]
        /\ \A i \in 1..b : CombinationTerms(r, cr, x)[i] = Mul(cr[i], FProd(Punctured(r, i, x)))
    BY <1>1, CombinationType
  <2>2. QED
    BY <2>1 DEF Combination
<1>7. PICK w \in [1..(a + b) -> Fr] : w = CombinationTerms(u, c, x) /\ FSum(w) = Combination(u, c, x)
        /\ \A i \in 1..(a + b) : w[i] = Mul(c[i], FProd(Punctured(u, i, x)))
  <2>0. c \in [1..Len(u) -> Fr]
    BY <1>1
  <2>1. /\ CombinationTerms(u, c, x) \in [1..Len(u) -> Fr]
        /\ \A i \in 1..Len(u) : CombinationTerms(u, c, x)[i] = Mul(c[i], FProd(Punctured(u, i, x)))
    BY <1>1, <2>0, CombinationType
  <2>2. QED
    BY <1>1, <2>1 DEF Combination
<1>8. ASSUME NEW i \in 1..a PROVE w[i] = Mul(R, s[i])
  <2>1. PICK p \in [1..(a + b) -> Fr] : p = Punctured(u, i, x)
          /\ \A j \in 1..(a + b) : p[j] = IF j = i THEN One ELSE Sub(x, u[j])
    <3>1. /\ Punctured(u, i, x) \in [1..Len(u) -> Fr]
          /\ \A j \in 1..Len(u) : Punctured(u, i, x)[j] = IF j = i THEN One ELSE Sub(x, u[j])
      BY <1>a, PuncturedType
    <3>2. QED
      BY <1>1, <3>1
  <2>2. PICK q \in [1..a -> Fr] : q = Punctured(l, i, x) /\ FProd(q) \in Fr
          /\ \A j \in 1..a : q[j] = IF j = i THEN One ELSE Sub(x, l[j])
    <3>1. /\ Punctured(l, i, x) \in [1..Len(l) -> Fr] /\ FProd(Punctured(l, i, x)) \in Fr
          /\ \A j \in 1..Len(l) : Punctured(l, i, x)[j] = IF j = i THEN One ELSE Sub(x, l[j])
      BY ZenonT(90), <1>1, PuncturedType
    <3>2. QED
      BY <1>1, <3>1
  <2>3. IsJoined(p, q, a, dr, b)
    <3>1. (\A j \in 1..a : j \in 1..(a + b)) /\ (\A j \in 1..b : a + j \in 1..(a + b) /\ a + j # i)
      BY <1>1
    <3>2. \A j \in 1..a : p[j] = q[j]
      BY <1>1, <2>1, <2>2, <3>1
    <3>3. \A j \in 1..b : p[a + j] = dr[j]
      BY <1>1, <1>3, <2>1, <3>1
    <3>4. QED
      BY <3>2, <3>3 DEF IsJoined
  <2>4. FProd(p) = Mul(FProd(q), R)
    BY ZenonT(90), <1>4, <2>3, FoldsJoin
  <2>5. i \in 1..(a + b) /\ c[i] = cl[i] /\ cl[i] \in Fr
    BY <1>1 DEF IsJoined
  <2>6. w[i] = Mul(cl[i], Mul(FProd(q), R)) /\ s[i] = Mul(cl[i], FProd(q))
    BY <1>5, <1>7, <2>1, <2>2, <2>4, <2>5
  <2>7. Mul(cl[i], Mul(FProd(q), R)) = Mul(Mul(cl[i], FProd(q)), R)
    BY <2>2, <2>5, FrMultiplicative
  <2>8. Mul(Mul(cl[i], FProd(q)), R) = Mul(R, Mul(cl[i], FProd(q)))
    <3>1. Mul(cl[i], FProd(q)) \in Fr
      BY <2>2, <2>5, FrClosed
    <3>2. QED
      BY <3>1, FrMultiplicative
  <2>9. QED
    BY <2>6, <2>7, <2>8
<1>9. ASSUME NEW i \in 1..b PROVE w[a + i] = Mul(L, t[i])
  <2>0. PICK k \in 1..(a + b) : k = a + i
    BY <1>1
  <2>1. PICK p \in [1..(a + b) -> Fr] : p = Punctured(u, k, x)
          /\ \A j \in 1..(a + b) : p[j] = IF j = k THEN One ELSE Sub(x, u[j])
    <3>1. /\ Punctured(u, k, x) \in [1..Len(u) -> Fr]
          /\ \A j \in 1..Len(u) : Punctured(u, k, x)[j] = IF j = k THEN One ELSE Sub(x, u[j])
      BY <1>a, PuncturedType
    <3>2. QED
      BY <1>1, <3>1
  <2>2. PICK q \in [1..b -> Fr] : q = Punctured(r, i, x) /\ FProd(q) \in Fr
          /\ \A j \in 1..b : q[j] = IF j = i THEN One ELSE Sub(x, r[j])
    <3>1. /\ Punctured(r, i, x) \in [1..Len(r) -> Fr] /\ FProd(Punctured(r, i, x)) \in Fr
          /\ \A j \in 1..Len(r) : Punctured(r, i, x)[j] = IF j = i THEN One ELSE Sub(x, r[j])
      BY ZenonT(90), <1>1, PuncturedType
    <3>2. QED
      BY <1>1, <3>1
  <2>3. IsJoined(p, dl, a, q, b)
    <3>1. \A j \in 1..a : j \in 1..(a + b) /\ j # k
      BY <1>1, <2>0
    <3>2. \A j \in 1..b : a + j \in 1..(a + b) /\ (a + j = k <=> j = i)
      BY <1>1, <2>0
    <3>3. ASSUME NEW j \in 1..a PROVE p[j] = dl[j]
      <4>1. p[j] = Sub(x, u[j])
        BY <2>1, <3>1
      <4>2. l[j] = u[j]
        BY <1>1
      <4>3. QED
        BY <1>2, <4>1, <4>2
    <3>4. ASSUME NEW j \in 1..b PROVE p[a + j] = q[j]
      <4>1. PICK d \in 1..(a + b) : d = a + j /\ (d = k <=> j = i)
        BY <3>2
      <4>2. p[d] = IF d = k THEN One ELSE Sub(x, u[d])
        BY <2>1
      <4>3. r[j] = u[d]
        BY <1>1, <4>1
      <4>4. q[j] = IF j = i THEN One ELSE Sub(x, r[j])
        BY <2>2
      <4>5. QED
        BY <4>1, <4>2, <4>3, <4>4
    <3>5. QED
      BY <3>3, <3>4 DEF IsJoined
  <2>4. FProd(p) = Mul(L, FProd(q))
    BY ZenonT(90), <1>4, <2>3, FoldsJoin
  <2>5. c[k] = cr[i] /\ cr[i] \in Fr
    BY <2>0 DEF IsJoined
  <2>6. w[k] = Mul(cr[i], Mul(L, FProd(q))) /\ t[i] = Mul(cr[i], FProd(q))
    BY <1>6, <1>7, <2>1, <2>2, <2>4, <2>5
  <2>7. Mul(cr[i], Mul(L, FProd(q))) = Mul(L, Mul(cr[i], FProd(q)))
    BY <2>2, <2>5, MulRotate
  <2>8. QED
    BY <2>0, <2>6, <2>7
<1>10. PICK v \in [1..a -> Fr], y \in [1..b -> Fr] : v = [i \in 1..a |-> Mul(R, s[i])] /\ y = [i \in 1..b |-> Mul(L, t[i])]
  <2>1. [i \in 1..a |-> Mul(R, s[i])] \in [1..a -> Fr] /\ [i \in 1..b |-> Mul(L, t[i])] \in [1..b -> Fr]
    BY FrClosed
  <2>2. QED
    BY <2>1
<1>11. IsJoined(w, v, a, y, b)
  BY <1>8, <1>9, <1>10 DEF IsJoined
<1>12. FSum(w) = Add(FSum(v), FSum(y))
  BY ZenonT(90), <1>11, FoldsJoin
<1>13. FSum(v) = Mul(R, FSum(s)) /\ FSum(y) = Mul(L, FSum(t))
  <2>1. FSum([i \in 1..a |-> Mul(R, s[i])]) = Mul(R, FSum(s))
    BY ZenonT(90), <1>1, FSumScale
  <2>2. FSum([i \in 1..b |-> Mul(L, t[i])]) = Mul(L, FSum(t))
    BY ZenonT(90), <1>1, FSumScale
  <2>3. QED
    BY <1>10, <2>1, <2>2
<1>14. QED
  BY <1>2, <1>3, <1>4, <1>5, <1>6, <1>7, <1>12, <1>13

\* One point.
LEMMA CombinationOne ==
    ASSUME NEW u \in Slices, Len(u) = 1, NEW c \in [1..1 -> Fr], NEW x \in Fr
    PROVE  Combination(u, c, x) = c[1] /\ c[1] \in Fr
<1>1. PICK z \in Nat : z = 0 /\ z + 1 = 1
  OBVIOUS
<1>2. PICK e \in [1..z -> Fr] : e = [i \in 1..z |-> One]
  <2>1. [i \in 1..z |-> One] \in [1..z -> Fr]
    BY FrClosed
  <2>2. QED
    BY <2>1
<1>3. FSum(e) = Zero /\ FProd(e) = One
  <2>1. e \in [1..0 -> Fr]
    BY <1>1
  <2>2. QED
    BY <2>1, FSumEmpty, FProdEmpty
<1>4. PICK p \in [1..(z + 1) -> Fr] : p = Punctured(u, 1, x) /\ p[1] = One
  <2>1. /\ Punctured(u, 1, x) \in [1..Len(u) -> Fr]
        /\ \A j \in 1..Len(u) : Punctured(u, 1, x)[j] = IF j = 1 THEN One ELSE Sub(x, u[j])
    BY PuncturedType
  <2>2. Punctured(u, 1, x)[1] = One
    BY <2>1
  <2>3. QED
    BY <1>1, <2>1, <2>2
<1>5. FProd(p) = One
  <2>1. \A i \in 1..z : e[i] = p[i]
    BY <1>1
  <2>2. FProd(p) = Mul(FProd(e), p[z + 1])
    BY <2>1, FoldsAppend
  <2>3. p[z + 1] = One
    BY <1>1, <1>4
  <2>4. QED
    BY <1>3, <2>2, <2>3, FrClosed, FrMultiplicative
<1>6. PICK s \in [1..(z + 1) -> Fr] : s = CombinationTerms(u, c, x) /\ s[1] = Mul(c[1], FProd(p))
  <2>1. /\ CombinationTerms(u, c, x) \in [1..Len(u) -> Fr]
        /\ \A i \in 1..Len(u) : CombinationTerms(u, c, x)[i] = Mul(c[i], FProd(Punctured(u, i, x)))
    BY CombinationType
  <2>2. CombinationTerms(u, c, x)[1] = Mul(c[1], FProd(p))
    BY <1>4, <2>1
  <2>3. QED
    BY <1>1, <2>1, <2>2
<1>7. FSum(s) = Add(Zero, s[1])
  <2>1. \A i \in 1..z : e[i] = s[i]
    BY <1>1
  <2>2. FSum(s) = Add(FSum(e), s[z + 1])
    BY <2>1, FoldsAppend
  <2>3. QED
    BY <1>1, <1>3, <2>2
<1>8. c[1] \in Fr
  OBVIOUS
<1>9. s[1] = c[1]
  BY <1>5, <1>6, <1>8, FrMultiplicative
<1>10. Add(Zero, c[1]) = c[1]
  BY <1>8, FrClosed, FrAdditive
<1>11. QED
  BY <1>6, <1>7, <1>8, <1>9, <1>10 DEF Combination

\* The coefficients of linear_combine, cut like the slice of points.
LEMMA CutCoefficients ==
    ASSUME NEW u, Split(u), NEW c \in [1..Len(u) -> Fr]
    PROVE  LET cl == SubSeq(c, 1, Len(u) \div 2)
               cr == SubSeq(c, (Len(u) \div 2) + 1, Len(u))
           IN  /\ cl \in [1..Len(LeftHalf(u)) -> Fr] /\ cr \in [1..Len(RightHalf(u)) -> Fr]
               /\ IsJoined(c, cl, Len(LeftHalf(u)), cr, Len(RightHalf(u)))
<1>1. PICK n \in Nat \ {0} : n = Len(u) /\ n # 1
  <2>1. u \in Seq(Fr) /\ u # <<>> /\ Len(u) # 1
    BY DEF Split, Slices
  <2>2. Len(u) \in Nat /\ Len(u) # 0
    BY <2>1
  <2>3. QED
    BY <2>1, <2>2
<1>2. c \in Seq(Fr) /\ Len(c) = n
  <2>1. c \in [1..n -> Fr]
    BY <1>1
  <2>2. QED
    BY <2>1, SeqOf
<1>3. Split(c)
  <2>1. c # <<>>
    BY <1>2
  <2>2. QED
    BY <1>1, <1>2, <2>1 DEF Split, Slices
<1>4. PICK h \in Nat \ {0}, k \in Nat \ {0} : /\ h = n \div 2 /\ k = n - h
                                              /\ Len(LeftHalf(u)) = h /\ Len(RightHalf(u)) = k
  <2>1. Len(u) \div 2 \in Nat \ {0} /\ Len(u) \div 2 < Len(u)
        /\ Len(LeftHalf(u)) = Len(u) \div 2 /\ Len(RightHalf(u)) = Len(u) - Len(u) \div 2
    BY Halves
  <2>2. QED
    BY <1>1, <2>1
<1>5. PICK cl \in Seq(Fr), cr \in Seq(Fr) :
         /\ cl = LeftHalf(c) /\ cr = RightHalf(c) /\ Len(cl) = h /\ Len(cr) = k
         /\ \A i \in 1..h : cl[i] = c[i]
         /\ \A i \in 1..k : cr[i] = c[h + i]
  <2>1. /\ LeftHalf(c) \in Slices /\ RightHalf(c) \in Slices
        /\ Len(LeftHalf(c)) = Len(c) \div 2 /\ Len(RightHalf(c)) = Len(c) - Len(c) \div 2
        /\ \A i \in 1..(Len(c) \div 2) : LeftHalf(c)[i] = c[i]
        /\ \A i \in 1..(Len(c) - Len(c) \div 2) : RightHalf(c)[i] = c[(Len(c) \div 2) + i]
    BY <1>3, Halves
  <2>2. QED
    BY <1>2, <1>4, <2>1 DEF Slices
<1>6. cl = SubSeq(c, 1, Len(u) \div 2) /\ cr = SubSeq(c, (Len(u) \div 2) + 1, Len(u))
  BY <1>1, <1>2, <1>5 DEF LeftHalf, RightHalf
<1>7. cl \in [1..h -> Fr] /\ cr \in [1..k -> Fr]
  BY <1>5
<1>8. IsJoined(c, cl, h, cr, k)
  BY <1>5 DEF IsJoined
<1>9. QED
  BY <1>4, <1>6, <1>7, <1>8

\* The body of linear_combine, F standing for the recursive calls.
CombineBody(F, u, c) ==
    IF Len(u) = 1 THEN <<c[1]>>
    ELSE CombineHalves(TreeM[LeftHalf(u)], TreeM[RightHalf(u)],
                       F[LeftHalf(u)][SubSeq(c, 1, Len(u) \div 2)],
                       F[RightHalf(u)][SubSeq(c, (Len(u) \div 2) + 1, Len(u))])
Combiners(u) == [[1..Len(u) -> Fr] -> Seq(Fr)]
CombineNode(l, r, u, c) ==
    CombineHalves(TreeM[LeftHalf(u)], TreeM[RightHalf(u)],
                  l[SubSeq(c, 1, Len(u) \div 2)], r[SubSeq(c, (Len(u) \div 2) + 1, Len(u))])

\* An inner node returns a polynomial if its children do.
LEMMA CombineNodeType ==
    ASSUME NEW u, Split(u), NEW l \in Combiners(LeftHalf(u)), NEW r \in Combiners(RightHalf(u)),
           NEW c \in [1..Len(u) -> Fr]
    PROVE  CombineNode(l, r, u, c) \in Seq(Fr)
<1>1. LeftHalf(u) \in Slices /\ RightHalf(u) \in Slices
  BY Halves
<1>2. PICK p \in Seq(Fr), q \in Seq(Fr) : p = TreeM[LeftHalf(u)] /\ q = TreeM[RightHalf(u)]
  <2>1. MonicOf(TreeM[LeftHalf(u)], Len(LeftHalf(u))) /\ MonicOf(TreeM[RightHalf(u)], Len(RightHalf(u)))
    BY <1>1, TreeMFacts DEF TreeIsProduct
  <2>2. Len(LeftHalf(u)) \in Nat /\ Len(RightHalf(u)) \in Nat
    BY <1>1 DEF Slices
  <2>3. QED
    BY <2>1, <2>2, MonicFacts
<1>3. PICK s \in Seq(Fr), t \in Seq(Fr) : /\ s = l[SubSeq(c, 1, Len(u) \div 2)]
                                          /\ t = r[SubSeq(c, (Len(u) \div 2) + 1, Len(u))]
  <2>1. /\ SubSeq(c, 1, Len(u) \div 2) \in [1..Len(LeftHalf(u)) -> Fr]
        /\ SubSeq(c, (Len(u) \div 2) + 1, Len(u)) \in [1..Len(RightHalf(u)) -> Fr]
    BY CutCoefficients
  <2>2. QED
    BY <2>1 DEF Combiners
<1>4. PolyMul(q, s) \in Seq(Fr) /\ PolyMul(p, t) \in Seq(Fr)
  BY PolyMulSer
<1>5. PolyAdd(PolyMul(q, s), PolyMul(p, t)) \in Seq(Fr)
  BY <1>4, PolyAddSer
<1>6. QED
  BY <1>2, <1>3, <1>5 DEF CombineNode, CombineHalves

\* linear_combine satisfies its recursion.
LEMMA LinearCombineEquation ==
    \A u \in Slices : LinearCombine[u] = [c \in [1..Len(u) -> Fr] |-> CombineBody(LinearCombine, u, c)]
<1> DEFINE M == CHOOSE F : F = [u \in Slices |-> [c \in [DOMAIN u -> Fr] |-> CombineBody(F, u, c)]]
<1>0. \A u \in Slices : DOMAIN u = 1..Len(u)
  BY DEF Slices
<1>1. PICK B, G : /\ B = [u \in Slices |-> [c \in [1..Len(u) -> Fr] |-> <<c[1]>>]]
                  /\ G = [u \in Slices |-> [t \in Combiners(LeftHalf(u)) \X Combiners(RightHalf(u)) |->
                            [c \in [1..Len(u) -> Fr] |-> CombineNode(t[1], t[2], u, c)]]]
  OBVIOUS
<1>2. \A u \in Slices : B[u] = [c \in [1..Len(u) -> Fr] |-> <<c[1]>>]
  BY <1>1
<1>3. ASSUME NEW u \in Slices, NEW l \in Combiners(LeftHalf(u)), NEW r \in Combiners(RightHalf(u))
      PROVE  G[u][<<l, r>>] = [c \in [1..Len(u) -> Fr] |-> CombineNode(l, r, u, c)]
  <2>0. PICK P, Q : P = Combiners(LeftHalf(u)) /\ Q = Combiners(RightHalf(u)) /\ l \in P /\ r \in Q
    BY <1>3
  <2>1. PICK H : H = G[u] /\ H = [t \in P \X Q |-> [c \in [1..Len(u) -> Fr] |-> CombineNode(t[1], t[2], u, c)]]
    BY <1>1, <2>0
  <2>2. PICK t \in P \X Q : t = <<l, r>> /\ t[1] = l /\ t[2] = r
    <3>1. <<l, r>> \in P \X Q /\ <<l, r>>[1] = l /\ <<l, r>>[2] = r
      BY <2>0
    <3>2. PICK t : t = <<l, r>>
      OBVIOUS
    <3>3. t \in P \X Q /\ t[1] = l /\ t[2] = r
      BY <3>1, <3>2
    <3>4. QED
      BY Zenon, <3>2, <3>3
  <2>3. H[t] = [c \in [1..Len(u) -> Fr] |-> CombineNode(t[1], t[2], u, c)]
    BY <2>1
  <2>4. QED
    BY <2>1, <2>2, <2>3
<1>4. PICK F : F = [u \in Slices |-> F[u]] /\ \A u \in Slices : F[u] = TreeValue(F, B, G, u)
  BY TreeRecursion
<1> DEFINE S == {u \in Slices : F[u] \in Combiners(u)}
<1>a. ASSUME NEW u \in Slices, Len(u) = 1
      PROVE  F[u] = [c \in [1..Len(u) -> Fr] |-> <<c[1]>>] /\ F[u] \in Combiners(u)
  <2>1. F[u] = [c \in [1..Len(u) -> Fr] |-> <<c[1]>>]
    BY <1>2, <1>4, <1>a DEF TreeValue
  <2>2. ASSUME NEW c \in [1..Len(u) -> Fr] PROVE <<c[1]>> \in Seq(Fr)
    <3>1. PICK e \in Fr : e = c[1]
      BY <1>a
    <3>2. QED
      BY <3>1
  <2>3. QED
    BY <2>1, <2>2 DEF Combiners
<1>b. ASSUME NEW u, Split(u), F[LeftHalf(u)] \in Combiners(LeftHalf(u)), F[RightHalf(u)] \in Combiners(RightHalf(u))
      PROVE  /\ F[u] = [c \in [1..Len(u) -> Fr] |-> CombineNode(F[LeftHalf(u)], F[RightHalf(u)], u, c)]
             /\ F[u] \in Combiners(u)
  <2>1. u \in Slices /\ Len(u) # 1
    BY <1>b DEF Split
  <2>2. PICK l \in Combiners(LeftHalf(u)), r \in Combiners(RightHalf(u)) : l = F[LeftHalf(u)] /\ r = F[RightHalf(u)]
    BY <1>b
  <2>3. F[u] = G[u][<<l, r>>]
    BY <1>4, <2>1, <2>2 DEF TreeValue
  <2>4. F[u] = [c \in [1..Len(u) -> Fr] |-> CombineNode(l, r, u, c)]
    BY <1>3, <2>1, <2>3
  <2>5. \A c \in [1..Len(u) -> Fr] : CombineNode(l, r, u, c) \in Seq(Fr)
    BY <1>b, CombineNodeType
  <2>6. F[u] \in Combiners(u)
    BY <2>4, <2>5 DEF Combiners
  <2>7. QED
    BY <2>2, <2>4, <2>6
<1>5. HoldsTrees(S)
  <2>1. \A u \in Slices : Len(u) = 1 => u \in S
    BY <1>a
  <2>2. \A u : Split(u) /\ LeftHalf(u) \in S /\ RightHalf(u) \in S => u \in S
    BY <1>b DEF Split
  <2>3. QED
    <3> HIDE DEF S
    <3> QED
      BY <2>1, <2>2 DEF HoldsTrees
<1>6. \A u \in Slices : F[u] \in Combiners(u)
  <2>1. \A u \in Slices : u \in S
    <3> HIDE DEF S
    <3> QED
      BY <1>5, SliceInduction
  <2>2. QED
    BY <2>1
<1>7. ASSUME NEW u \in Slices PROVE F[u] = [c \in [1..Len(u) -> Fr] |-> CombineBody(F, u, c)]
  <2>1. CASE Len(u) = 1
    <3>1. F[u] = [c \in [1..Len(u) -> Fr] |-> <<c[1]>>]
      BY <1>a, <2>1
    <3>2. \A c \in [1..Len(u) -> Fr] : CombineBody(F, u, c) = <<c[1]>>
      BY <2>1 DEF CombineBody
    <3>3. QED
      BY <3>1, <3>2
  <2>2. CASE Len(u) # 1
    <3>1. Split(u)
      BY <2>2 DEF Split
    <3>2. LeftHalf(u) \in Slices /\ RightHalf(u) \in Slices
      BY <3>1, Halves
    <3>3. F[LeftHalf(u)] \in Combiners(LeftHalf(u)) /\ F[RightHalf(u)] \in Combiners(RightHalf(u))
      BY <1>6, <3>2
    <3>4. F[u] = [c \in [1..Len(u) -> Fr] |-> CombineNode(F[LeftHalf(u)], F[RightHalf(u)], u, c)]
      BY <1>b, <3>1, <3>3
    <3>5. \A c \in [1..Len(u) -> Fr] : CombineNode(F[LeftHalf(u)], F[RightHalf(u)], u, c) = CombineBody(F, u, c)
      BY <2>2 DEF CombineNode, CombineBody
    <3>6. QED
      BY <3>4, <3>5
  <2>3. QED
    BY <2>1, <2>2
<1>8. F = [u \in Slices |-> [c \in [DOMAIN u -> Fr] |-> CombineBody(F, u, c)]]
  <2>1. \A u \in Slices : F[u] = [c \in [DOMAIN u -> Fr] |-> CombineBody(F, u, c)]
    BY <1>0, <1>7
  <2>2. QED
    BY <1>4, <2>1
<1>9. M = [u \in Slices |-> [c \in [DOMAIN u -> Fr] |-> CombineBody(M, u, c)]]
  BY <1>8
<1>10. LinearCombine = M
  BY DEF LinearCombine, CombineBody
<1>11. LinearCombine = [u \in Slices |-> [c \in [DOMAIN u -> Fr] |-> CombineBody(LinearCombine, u, c)]]
  <2> HIDE DEF M
  <2> QED
    BY <1>9, <1>10
<1>12. ASSUME NEW u \in Slices
       PROVE  LinearCombine[u] = [c \in [1..Len(u) -> Fr] |-> CombineBody(LinearCombine, u, c)]
  BY <1>0, <1>11
<1>13. QED
  BY <1>12

\* A combination over one point, and over the halves of a slice.
LEMMA LinearCombineCases ==
    /\ \A u \in Slices : Len(u) = 1 => \A c \in [1..Len(u) -> Fr] : LinearCombine[u][c] = <<c[1]>>
    /\ \A u : Split(u) => \A c \in [1..Len(u) -> Fr] :
         LinearCombine[u][c] = CombineNode(LinearCombine[LeftHalf(u)], LinearCombine[RightHalf(u)], u, c)
<1>1. \A u \in Slices : \A c \in [1..Len(u) -> Fr] : LinearCombine[u][c] = CombineBody(LinearCombine, u, c)
  BY LinearCombineEquation
<1>2. ASSUME NEW u \in Slices, Len(u) = 1, NEW c \in [1..Len(u) -> Fr] PROVE LinearCombine[u][c] = <<c[1]>>
  BY <1>1, <1>2 DEF CombineBody
<1>3. ASSUME NEW u, Split(u), NEW c \in [1..Len(u) -> Fr]
      PROVE  LinearCombine[u][c] = CombineNode(LinearCombine[LeftHalf(u)], LinearCombine[RightHalf(u)], u, c)
  <2>1. u \in Slices /\ Len(u) # 1
    BY <1>3 DEF Split
  <2>2. QED
    BY <1>1, <2>1 DEF CombineBody, CombineNode
<1>4. QED
  BY <1>2, <1>3

\* What linear_combine returns: the sum of the c_i m / (x - u_i), of a degree below the
\* number of points.
CombinesAt(u) ==
    \A c \in [1..Len(u) -> Fr] :
        LET p == LinearCombine[u][c]
        IN  p \in Seq(Fr) /\ PolyLen(p) <= Len(u) /\ \A x \in Fr : Eval(p, x) = Combination(u, c, x)

\* A constant polynomial.
LEMMA EvalSingle ==
    ASSUME NEW c \in Fr, NEW x \in Fr
    PROVE  Eval(<<c>>, x) = c /\ <<c>> \in Seq(Fr) /\ PolyLen(<<c>>) <= 1
<1>1. PICK p \in Seq(Fr) : p = <<c>> /\ Len(p) = 1 /\ p[1] = c
  <2>1. <<c>> \in Seq(Fr) /\ Len(<<c>>) = 1 /\ <<c>>[1] = c
    OBVIOUS
  <2>2. QED
    BY Zenon, <2>1
<1>2. PolyLen(p) \in 0..1
  BY <1>1, PolyLenFacts
<1>3. Degree(p) = 0 /\ p # <<>>
  BY <1>1, <1>2 DEF Degree
<1>4. Eval(p, x) = c
  BY <1>1, <1>3, EvalConstant
<1>5. QED
  BY <1>1, <1>2, <1>4

\* linear_combine is right on one point.
LEMMA CombineOne ==
    ASSUME NEW u \in Slices, Len(u) = 1
    PROVE  CombinesAt(u)
<1> SUFFICES ASSUME NEW c \in [1..Len(u) -> Fr]
             PROVE  /\ LinearCombine[u][c] \in Seq(Fr) /\ PolyLen(LinearCombine[u][c]) <= Len(u)
                    /\ \A x \in Fr : Eval(LinearCombine[u][c], x) = Combination(u, c, x)
  BY DEF CombinesAt
<1>1. c \in [1..1 -> Fr]
  OBVIOUS
<1>2. PICK e \in Fr : e = c[1]
  BY <1>1
<1>3. LinearCombine[u][c] = <<e>>
  BY <1>2, LinearCombineCases
<1>4. \A x \in Fr : Combination(u, c, x) = e
  BY <1>1, <1>2, CombinationOne
<1>5. <<e>> \in Seq(Fr) /\ PolyLen(<<e>>) <= 1
  BY FrClosed, EvalSingle
<1>6. QED
  BY <1>3, <1>4, <1>5, EvalSingle

\* linear_combine is right on a slice if it is right on its halves.
LEMMA CombineSplit ==
    ASSUME NEW u, Split(u), CombinesAt(LeftHalf(u)), CombinesAt(RightHalf(u))
    PROVE  CombinesAt(u)
<1> SUFFICES ASSUME NEW c \in [1..Len(u) -> Fr]
             PROVE  /\ LinearCombine[u][c] \in Seq(Fr) /\ PolyLen(LinearCombine[u][c]) <= Len(u)
                    /\ \A x \in Fr : Eval(LinearCombine[u][c], x) = Combination(u, c, x)
  BY DEF CombinesAt
<1>1. PICK l \in Slices, r \in Slices : l = LeftHalf(u) /\ r = RightHalf(u)
  BY Halves
<1>2. PICK a \in Nat, b \in Nat : a = Len(l) /\ b = Len(r) /\ HalvesOf(u, l, r, a, b) /\ Len(u) = a + b
  <2>1. HalvesOf(u, l, r, Len(l), Len(r))
    BY <1>1, SplitHalves
  <2>2. Len(l) \in Nat /\ Len(r) \in Nat /\ Len(u) = Len(l) + Len(r)
    BY <2>1 DEF HalvesOf
  <2>3. QED
    BY <2>1, <2>2
<1>3. c \in [1..(a + b) -> Fr]
  BY <1>2
<1>4. PICK cl \in [1..a -> Fr], cr \in [1..b -> Fr] :
        /\ cl = SubSeq(c, 1, Len(u) \div 2) /\ cr = SubSeq(c, (Len(u) \div 2) + 1, Len(u))
        /\ IsJoined(c, cl, a, cr, b)
  <2>1. /\ SubSeq(c, 1, Len(u) \div 2) \in [1..Len(LeftHalf(u)) -> Fr]
        /\ SubSeq(c, (Len(u) \div 2) + 1, Len(u)) \in [1..Len(RightHalf(u)) -> Fr]
        /\ IsJoined(c, SubSeq(c, 1, Len(u) \div 2), Len(LeftHalf(u)),
                    SubSeq(c, (Len(u) \div 2) + 1, Len(u)), Len(RightHalf(u)))
    BY CutCoefficients
  <2>2. QED
    BY <1>1, <1>2, <2>1
<1>5. PICK p \in Seq(Fr), q \in Seq(Fr) :
        /\ p = TreeM[l] /\ q = TreeM[r] /\ PolyLen(p) = a + 1 /\ PolyLen(q) = b + 1
        /\ \A x \in Fr : Eval(p, x) = FProd(Differences(l, x)) /\ Eval(q, x) = FProd(Differences(r, x))
  <2>1. TreeIsProduct(l) /\ TreeIsProduct(r)
    BY TreeMFacts
  <2>2. MonicOf(TreeM[l], a) /\ MonicOf(TreeM[r], b)
    BY <1>2, <2>1 DEF TreeIsProduct
  <2>3. TreeM[l] \in Seq(Fr) /\ TreeM[r] \in Seq(Fr) /\ PolyLen(TreeM[l]) = a + 1 /\ PolyLen(TreeM[r]) = b + 1
    BY <2>2, MonicFacts
  <2>4. QED
    BY <2>1, <2>3 DEF TreeIsProduct
<1>6. PICK s \in Seq(Fr) : s = LinearCombine[l][cl] /\ PolyLen(s) <= a
        /\ \A x \in Fr : Eval(s, x) = Combination(l, cl, x)
  BY <1>1, <1>2 DEF CombinesAt
<1>7. PICK t \in Seq(Fr) : t = LinearCombine[r][cr] /\ PolyLen(t) <= b
        /\ \A x \in Fr : Eval(t, x) = Combination(r, cr, x)
  BY <1>1, <1>2 DEF CombinesAt
<1>8. LinearCombine[u][c] = PolyAdd(PolyMul(q, s), PolyMul(p, t))
  <2>1. LinearCombine[u][c] = CombineNode(LinearCombine[l], LinearCombine[r], u, c)
    BY <1>1, LinearCombineCases
  <2>2. QED
    BY <1>1, <1>4, <1>5, <1>6, <1>7, <2>1 DEF CombineNode, CombineHalves
<1>9. PICK g \in Seq(Fr), h \in Seq(Fr) : g = PolyMul(q, s) /\ h = PolyMul(p, t)
  BY PolyMulSer
<1>10. PolyLen(g) <= a + b /\ PolyLen(h) <= a + b
  <2>1. PICK m \in Nat, k \in Nat : m = a + 1 /\ k = b + 1
    OBVIOUS
  <2>2. Ser(PolyMul(q, s)) = Conv(Ser(q), Ser(s)) /\ Ser(PolyMul(p, t)) = Conv(Ser(p), Ser(t))
    BY PolyMulSer
  <2>3. NoneFrom(Ser(q), k) /\ NoneFrom(Ser(p), m) /\ NoneFrom(Ser(s), a) /\ NoneFrom(Ser(t), b)
    <3>1. PolyLen(q) <= k /\ PolyLen(p) <= m
      BY <1>5, <2>1
    <3>2. QED
      BY <1>6, <1>7, <3>1, LengthNone
  <2>4. Ser(p) \in Series /\ Ser(q) \in Series /\ Ser(s) \in Series /\ Ser(t) \in Series
    BY SerFacts
  <2>5. PICK n \in Nat : n = a + b
    OBVIOUS
  <2>6. ASSUME NEW j \in Nat, j >= n PROVE Ser(g)[j] = Zero /\ Ser(h)[j] = Zero
    <3>1. j + 1 >= k + a /\ j + 1 >= m + b
      BY <2>1, <2>5, <2>6
    <3>2. Conv(Ser(q), Ser(s))[j] = Zero
      BY <2>3, <2>4, <3>1, ConvBeyond
    <3>3. Conv(Ser(p), Ser(t))[j] = Zero
      BY <2>3, <2>4, <3>1, ConvBeyond
    <3>4. QED
      BY <1>9, <2>2, <3>2, <3>3
  <2>7. NoneFrom(Ser(g), n) /\ NoneFrom(Ser(h), n)
    BY <2>6 DEF NoneFrom
  <2>8. QED
    BY <2>5, <2>7, LengthNone
<1>11. PolyAdd(g, h) \in Seq(Fr) /\ PolyLen(PolyAdd(g, h)) <= a + b
  <2>1. PICK n \in Nat : n = a + b
    OBVIOUS
  <2>2. PolyLen(PolyAdd(g, h)) <= n
    BY <1>10, <2>1, AddLength
  <2>3. QED
    BY <2>1, <2>2, PolyAddSer
<1>12. ASSUME NEW x \in Fr PROVE Eval(PolyAdd(g, h), x) = Combination(u, c, x)
  <2>1. Eval(PolyAdd(g, h), x) = Add(Eval(g, x), Eval(h, x))
    BY EvalSums
  <2>2. Eval(g, x) = Mul(Eval(q, x), Eval(s, x)) /\ Eval(h, x) = Mul(Eval(p, x), Eval(t, x))
    BY <1>9, EvalMul
  <2>3. Combination(u, c, x) = Add(Mul(FProd(Differences(r, x)), Combination(l, cl, x)),
                                   Mul(FProd(Differences(l, x)), Combination(r, cr, x)))
    <3>1. HalvesOf(u, l, r, a, b) /\ CutAt(c, cl, cr, a, b)
      BY <1>2, <1>3, <1>4 DEF CutAt
    <3>2. QED
      BY <3>1, CombinationJoin
  <2>4. QED
    BY <1>5, <1>6, <1>7, <2>1, <2>2, <2>3
<1>13. QED
  BY <1>2, <1>8, <1>9, <1>11, <1>12

\* linear_combine is right on every slice.
LEMMA CombineFacts ==
    ASSUME NEW u \in Slices
    PROVE  CombinesAt(u)
<1> DEFINE S == {v \in Slices : CombinesAt(v)}
<1>1. \A v \in Slices : Len(v) = 1 => v \in S
  BY CombineOne
<1>2. \A v : Split(v) /\ LeftHalf(v) \in S /\ RightHalf(v) \in S => v \in S
  BY CombineSplit DEF Split
<1>3. HoldsTrees(S)
  <2> HIDE DEF S
  <2> QED
    BY <1>1, <1>2 DEF HoldsTrees
<1>4. u \in S
  <2> HIDE DEF S
  <2> QED
    BY <1>3, SliceInduction
<1>5. QED
  BY <1>4

\* The derivative of m is the combination with every coefficient one.
Ones(n) == [i \in 1..n |-> One]
TreeDerives(u) ==
    \A x \in Fr : Eval(Derivative(TreeM[u]), x) = Combination(u, Ones(Len(u)), x)

\* The halves of the coefficients are ones too.
LEMMA OnesCut ==
    ASSUME NEW a \in Nat, NEW b \in Nat
    PROVE  CutAt(Ones(a + b), Ones(a), Ones(b), a, b)
<1>1. Ones(a + b) \in [1..(a + b) -> Fr] /\ Ones(a) \in [1..a -> Fr] /\ Ones(b) \in [1..b -> Fr]
  BY FrClosed DEF Ones
<1>2. \A i \in 1..a : Ones(a + b)[i] = Ones(a)[i]
  BY DEF Ones
<1>3. \A i \in 1..b : Ones(a + b)[a + i] = Ones(b)[i]
  <2> SUFFICES ASSUME NEW i \in 1..b PROVE Ones(a + b)[a + i] = Ones(b)[i]
    OBVIOUS
  <2>1. a + i \in 1..(a + b)
    OBVIOUS
  <2>2. QED
    BY <2>1 DEF Ones
<1>4. QED
  BY <1>1, <1>2, <1>3 DEF CutAt, IsJoined

\* So it is on one point,
LEMMA DerivativeOne ==
    ASSUME NEW u \in Slices, Len(u) = 1
    PROVE  TreeDerives(u)
<1>1. PICK s \in Fr : s = u[1]
  BY DEF Slices
<1>a. PICK o \in Nat : o = 1 /\ o + 1 = 2
  OBVIOUS
<1>2. PICK p \in [1..(o + 1) -> Fr] : p = TreeM[u] /\ p[2] = One
  <2>1. TreeM[u] = ModuliFromScalar(s)
    BY <1>1, TreeMEquation
  <2>2. TreeM[u] \in Seq(Fr) /\ Len(TreeM[u]) = 2 /\ TreeM[u][2] = One
    BY <2>1, ModuliFacts
  <2>3. TreeM[u] \in [1..2 -> Fr]
    BY <2>2
  <2>4. QED
    BY <1>a, <2>2, <2>3
<1>3. PICK d \in Seq(Fr) : d = Derivative(p) /\ Len(d) = 1
  BY <1>a, DerivativeSer
<1>4. d[1] = One
  <2>1. Len(p) = 2
    <3>1. p \in [1..2 -> Fr]
      BY <1>a
    <3>2. QED
      BY <3>1, SeqOf
  <2>2. d = [k \in 1..(2 - 1) |-> Times(k, p[k + 1])]
    BY <1>3, <2>1 DEF Derivative
  <2>3. d[1] = Times(1, p[1 + 1])
    BY <2>2
  <2>4. Times(1, One) = Mul(InField(1), One)
    <3>1. PICK e \in Fr : e = One
      BY FrClosed
    <3>2. Times(o, e) = Mul(InField(o), e)
      BY TimesFacts
    <3>3. QED
      BY <1>a, <3>1, <3>2
  <2>5. QED
    <3>1. d[1] = Times(1, One)
      BY <1>2, <2>3
    <3>2. Mul(One, One) = One
      BY FrClosed, FrMultiplicative
    <3>3. InField(1) = One
      BY InFieldAdds
    <3>4. QED
      BY <2>4, <3>1, <3>2, <3>3
<1>5. Degree(d) = 0 /\ d # <<>>
  <2>1. PolyLen(d) \in 0..1
    BY <1>3, PolyLenFacts
  <2>2. Len(d) = 1
    BY <1>3
  <2>3. d # <<>>
    <3>1. Len(<<>>) # 1
      OBVIOUS
    <3>2. QED
      BY Zenon, <2>2, <3>1
  <2>4. Degree(d) = 0
    BY <2>1 DEF Degree
  <2>5. QED
    BY <2>3, <2>4
<1>6. ASSUME NEW x \in Fr PROVE Eval(d, x) = Combination(u, Ones(Len(u)), x)
  <2>1. Eval(d, x) = One
    BY <1>4, <1>5, EvalConstant
  <2>2. PICK c \in [1..1 -> Fr] : c = Ones(Len(u)) /\ c[1] = One
    <3>1. Ones(Len(u)) = [i \in 1..1 |-> One]
      BY DEF Ones
    <3>2. Ones(Len(u)) \in [1..1 -> Fr] /\ Ones(Len(u))[1] = One
      BY <3>1, FrClosed
    <3>3. QED
      BY <3>2
  <2>3. Combination(u, c, x) = c[1]
    BY CombinationOne
  <2>4. QED
    BY <2>1, <2>2, <2>3
<1>7. QED
  BY <1>2, <1>3, <1>6 DEF TreeDerives

\* by the product rule on a slice if it is on its halves,
LEMMA DerivativeSplit ==
    ASSUME NEW u, Split(u), TreeDerives(LeftHalf(u)), TreeDerives(RightHalf(u))
    PROVE  TreeDerives(u)
<1>1. PICK l \in Slices, r \in Slices : l = LeftHalf(u) /\ r = RightHalf(u)
  BY Halves
<1>2. PICK a \in Nat, b \in Nat : a = Len(l) /\ b = Len(r) /\ HalvesOf(u, l, r, a, b) /\ Len(u) = a + b
  <2>1. HalvesOf(u, l, r, Len(l), Len(r))
    BY <1>1, SplitHalves
  <2>2. Len(l) \in Nat /\ Len(r) \in Nat /\ Len(u) = Len(l) + Len(r)
    BY <2>1 DEF HalvesOf
  <2>3. QED
    BY <2>1, <2>2
<1>3. u \in Slices
  BY DEF Split
<1>4. TreeIsProduct(l) /\ TreeIsProduct(r) /\ TreeIsProduct(u)
  BY <1>3, TreeMFacts
<1>5. PICK n \in Nat : n = a + b
  OBVIOUS
<1>6. PICK p \in [1..(a + 1) -> Fr], q \in [1..(b + 1) -> Fr], m \in [1..(n + 1) -> Fr] :
        p = TreeM[l] /\ q = TreeM[r] /\ m = TreeM[u]
  BY <1>2, <1>4, <1>5 DEF TreeIsProduct, MonicOf
<1>7. m = PolyMul(p, q)
  BY <1>1, <1>6, TreeMEquation
<1>8. p \in Seq(Fr) /\ q \in Seq(Fr)
  BY <1>2, <1>4, <1>6, MonicFacts DEF TreeIsProduct
<1>9. PICK dp \in Seq(Fr), dq \in Seq(Fr), dm \in Seq(Fr) :
        /\ dp = Derivative(p) /\ dq = Derivative(q) /\ dm = Derivative(m)
        /\ Ser(dp) = SDer(Ser(p)) /\ Ser(dq) = SDer(Ser(q)) /\ Ser(dm) = SDer(Ser(m))
  BY DerivativeSer
<1>10. Ser(dm) = SAdd(Conv(Ser(dp), Ser(q)), Conv(Ser(p), Ser(dq)))
  <2>1. Ser(m) = Conv(Ser(p), Ser(q))
    BY <1>7, <1>8, PolyMulSer
  <2>2. Ser(p) \in Series /\ Ser(q) \in Series
    BY <1>8, SerFacts
  <2>3. SDer(Conv(Ser(p), Ser(q))) = SAdd(Conv(SDer(Ser(p)), Ser(q)), Conv(Ser(p), SDer(Ser(q))))
    BY <2>2, DerivativeProduct
  <2>4. QED
    BY <1>9, <2>1, <2>3
<1>11. PICK g \in Seq(Fr), h \in Seq(Fr) :
         /\ g = PolyMul(dp, q) /\ h = PolyMul(p, dq)
         /\ Ser(g) = Conv(Ser(dp), Ser(q)) /\ Ser(h) = Conv(Ser(p), Ser(dq))
  BY <1>8, PolyMulSer
<1>12. PICK w \in Seq(Fr) : w = PolyAdd(g, h) /\ Ser(w) = Ser(dm)
  BY <1>10, <1>11, PolyAddSer
<1>13. ASSUME NEW x \in Fr PROVE Eval(dm, x) = Combination(u, Ones(Len(u)), x)
  <2>1. Eval(dm, x) = Eval(w, x)
    BY <1>12, EvalSame
  <2>2. Eval(w, x) = Add(Eval(g, x), Eval(h, x))
    BY <1>12, EvalSums
  <2>3. Eval(g, x) = Mul(Eval(dp, x), Eval(q, x)) /\ Eval(h, x) = Mul(Eval(p, x), Eval(dq, x))
    BY <1>8, <1>11, EvalMul
  <2>4. Eval(dp, x) \in Fr /\ Eval(q, x) \in Fr
    <3>1. PICK i \in Nat, j \in Nat : i = Len(dp) /\ j = Len(q)
      BY <1>8
    <3>2. dp \in [1..i -> Fr] /\ q \in [1..j -> Fr]
      BY <1>8, <3>1
    <3>3. QED
      BY <3>2, FoldTypes
  <2>5. Mul(Eval(dp, x), Eval(q, x)) = Mul(Eval(q, x), Eval(dp, x))
    BY <2>4, FrMultiplicative
  <2>6. Eval(p, x) = FProd(Differences(l, x)) /\ Eval(q, x) = FProd(Differences(r, x))
    BY <1>4, <1>6 DEF TreeIsProduct
  <2>7. Eval(dp, x) = Combination(l, Ones(a), x) /\ Eval(dq, x) = Combination(r, Ones(b), x)
    BY <1>1, <1>2, <1>6, <1>9 DEF TreeDerives
  <2>8. PICK c, cl, cr : c = Ones(a + b) /\ cl = Ones(a) /\ cr = Ones(b)
    OBVIOUS
  <2>9. HalvesOf(u, l, r, a, b) /\ CutAt(c, cl, cr, a, b)
    BY <1>2, <2>8, OnesCut
  <2>10. Combination(u, c, x) = Add(Mul(FProd(Differences(r, x)), Combination(l, cl, x)),
                                    Mul(FProd(Differences(l, x)), Combination(r, cr, x)))
    BY <2>9, CombinationJoin
  <2>11. QED
    BY <1>2, <2>1, <2>2, <2>3, <2>5, <2>6, <2>7, <2>8, <2>10
<1>14. QED
  BY <1>6, <1>9, <1>13 DEF TreeDerives

\* and so on every slice.
LEMMA DerivativeFacts ==
    ASSUME NEW u \in Slices
    PROVE  TreeDerives(u)
<1> DEFINE S == {v \in Slices : TreeDerives(v)}
<1>1. \A v \in Slices : Len(v) = 1 => v \in S
  BY DerivativeOne
<1>2. \A v : Split(v) /\ LeftHalf(v) \in S /\ RightHalf(v) \in S => v \in S
  BY DerivativeSplit DEF Split
<1>3. HoldsTrees(S)
  <2> HIDE DEF S
  <2> QED
    BY <1>1, <1>2 DEF HoldsTrees
<1>4. u \in S
  <2> HIDE DEF S
  <2> QED
    BY <1>3, SliceInduction
<1>5. QED
  BY <1>4
-----------------------------------------------------------------------------
\* At a point of the slice only that point's term is left of a combination.
LEMMA CombinationAt ==
    ASSUME NEW u \in Slices, NEW c \in [1..Len(u) -> Fr], NEW i \in 1..Len(u)
    PROVE  /\ u[i] \in Fr
           /\ Combination(u, c, u[i]) = Mul(c[i], FProd(Punctured(u, i, u[i])))
<1>1. PICK m \in Nat : Len(u) = m + 1
  <2>1. Len(u) \in Nat \ {0}
    BY DEF Slices
  <2>2. Len(u) - 1 \in Nat /\ Len(u) = (Len(u) - 1) + 1
    BY <2>1
  <2>3. QED
    BY <2>2
<1>2. PICK x \in Fr : x = u[i]
  BY DEF Slices
<1>3. PICK s \in [1..(m + 1) -> Fr] : s = CombinationTerms(u, c, x)
        /\ \A k \in 1..(m + 1) : s[k] = Mul(c[k], FProd(Punctured(u, k, x)))
  <2>1. /\ CombinationTerms(u, c, x) \in [1..Len(u) -> Fr]
        /\ \A k \in 1..Len(u) : CombinationTerms(u, c, x)[k] = Mul(c[k], FProd(Punctured(u, k, x)))
    BY CombinationType
  <2>2. QED
    BY <1>1, <2>1
<1>4. i \in 1..(m + 1)
  BY <1>1
<1>5. ASSUME NEW k \in 1..(m + 1), k # i PROVE s[k] = Zero
  <2>1. PICK p \in [1..(m + 1) -> Fr] : p = Punctured(u, k, x)
          /\ \A j \in 1..(m + 1) : p[j] = IF j = k THEN One ELSE Sub(x, u[j])
    <3>1. /\ Punctured(u, k, x) \in [1..Len(u) -> Fr]
          /\ \A j \in 1..Len(u) : Punctured(u, k, x)[j] = IF j = k THEN One ELSE Sub(x, u[j])
      BY PuncturedType
    <3>2. QED
      BY <1>1, <3>1
  <2>2. p[i] = Zero
    <3>1. p[i] = Sub(x, u[i])
      BY <1>4, <1>5, <2>1
    <3>2. QED
      BY <1>2, <3>1, SubFacts
  <2>3. FProd(p) = Zero
    <3>1. PICK n \in Nat : n = m + 1
      OBVIOUS
    <3>2. p \in [1..n -> Fr] /\ i \in 1..n
      BY <1>4, <3>1
    <3>3. QED
      BY <2>2, <3>2, FProdNonzero
  <2>4. c[k] \in Fr
    BY <1>1
  <2>5. QED
    BY <1>3, <2>1, <2>3, <2>4, MulZero
<1>6. Without(s, m, i) \in [1..m -> Fr] /\ FSum(s) = Add(FSum(Without(s, m, i)), s[i])
  BY <1>4, FSumWithout
<1>7. \A k \in 1..m : Without(s, m, i)[k] = Zero
  <2> SUFFICES ASSUME NEW k \in 1..m PROVE Without(s, m, i)[k] = Zero
    OBVIOUS
  <2>1. PICK d \in 1..(m + 1) : d = k + 1
    OBVIOUS
  <2>2. Without(s, m, i)[k] = IF k < i THEN s[k] ELSE s[d]
    BY <2>1 DEF Without
  <2>3. k < i => s[k] = Zero
    BY <1>4, <1>5
  <2>4. ~ (k < i) => s[d] = Zero
    <3>1. ~ (k < i) => d # i
      BY <1>4, <2>1
    <3>2. QED
      BY <1>5, <3>1
  <2>5. QED
    BY <2>2, <2>3, <2>4
<1>8. FSum(Without(s, m, i)) = Zero
  BY <1>6, <1>7, FSumZeros
<1>9. Add(Zero, s[i]) = s[i]
  <2>1. s[i] \in Fr
    BY <1>4
  <2>2. QED
    BY <2>1, FrClosed, FrAdditive
<1>10. FSum(s) = s[i]
  BY <1>6, <1>8, <1>9
<1>11. QED
  BY <1>2, <1>3, <1>4, <1>10 DEF Combination

\* The product of the differences of a point with the others.
Spread(u, i) == FProd(Punctured(u, i, u[i]))

\* No spread is zero exactly if the points are pairwise different.
LEMMA SpreadFacts ==
    ASSUME NEW u \in Slices
    PROVE  /\ \A i \in 1..Len(u) : Spread(u, i) \in Fr
           /\ (\A i \in 1..Len(u) : Spread(u, i) # Zero) <=> Distinct(u)
<1>1. PICK n \in Nat : n = Len(u) /\ u \in [1..n -> Fr] /\ DOMAIN u = 1..n
  BY DEF Slices
<1>2. ASSUME NEW i \in 1..n
      PROVE  Spread(u, i) \in Fr /\ (Spread(u, i) # Zero <=> \A j \in 1..n : u[i] = u[j] => i = j)
  <2>1. PICK x \in Fr : x = u[i]
    BY <1>1
  <2>2. PICK p \in [1..n -> Fr] : p = Punctured(u, i, x) /\ FProd(p) \in Fr
          /\ \A j \in 1..n : p[j] = IF j = i THEN One ELSE Sub(x, u[j])
    <3>1. /\ Punctured(u, i, x) \in [1..Len(u) -> Fr] /\ FProd(Punctured(u, i, x)) \in Fr
          /\ \A j \in 1..Len(u) : Punctured(u, i, x)[j] = IF j = i THEN One ELSE Sub(x, u[j])
      BY PuncturedType
    <3>2. QED
      BY <1>1, <3>1
  <2>3. FProd(p) # Zero <=> \A j \in 1..n : p[j] # Zero
    BY FProdNonzero
  <2>4. ASSUME NEW j \in 1..n PROVE p[j] # Zero <=> (u[i] = u[j] => i = j)
    <3>1. u[j] \in Fr
      BY <1>1
    <3>2. Sub(x, u[j]) = Zero <=> x = u[j]
      BY <3>1, SubFacts
    <3>3. p[j] = IF j = i THEN One ELSE Sub(x, u[j])
      BY <2>2
    <3>4. One # Zero
      BY FrClosed
    <3>5. QED
      BY <2>1, <3>2, <3>3, <3>4
  <2>5. Spread(u, i) = FProd(p)
    BY <2>1, <2>2 DEF Spread
  <2>6. QED
    BY <2>2, <2>3, <2>4, <2>5
<1>3. (\A i \in 1..n : Spread(u, i) # Zero) <=> (\A i, j \in 1..n : u[i] = u[j] => i = j)
  BY <1>2
<1>4. QED
  BY <1>1, <1>2, <1>3 DEF Distinct

\* The derivative of m at a point.
LEMMA DerivativeAt ==
    ASSUME NEW u \in Slices, NEW i \in 1..Len(u)
    PROVE  /\ Eval(Derivative(TreeM[u]), u[i]) = Spread(u, i)
           /\ Combination(u, Ones(Len(u)), u[i]) = Spread(u, i)
<1>1. PICK c \in [1..Len(u) -> Fr] : c = Ones(Len(u)) /\ c[i] = One
  <2>1. Ones(Len(u)) \in [1..Len(u) -> Fr] /\ Ones(Len(u))[i] = One
    BY FrClosed DEF Ones
  <2>2. QED
    BY <2>1
<1>2. u[i] \in Fr /\ Combination(u, c, u[i]) = Mul(c[i], Spread(u, i))
  BY CombinationAt DEF Spread
<1>3. Spread(u, i) \in Fr
  BY SpreadFacts
<1>4. Mul(One, Spread(u, i)) = Spread(u, i)
  BY <1>3, FrClosed, FrMultiplicative
<1>5. Eval(Derivative(TreeM[u]), u[i]) = Combination(u, Ones(Len(u)), u[i])
  BY <1>2, DerivativeFacts DEF TreeDerives
<1>6. QED
  BY <1>1, <1>2, <1>4, <1>5

\* The slices over which inverse_lagrange_coefficients certainly returns.
Sound(u) == Distinct(u) /\ Times(Len(u), One) # Zero /\ ~ Stalling[u]

\* inverse_lagrange_coefficients returns the spreads, and panics on equal points.
LagrangeAt(u, r) ==
    /\ Succeeded(r) => Distinct(u) /\ r.val = [i \in 1..Len(u) |-> Spread(u, i)]
    /\ Sound(u) => Succeeded(r)

\* On one point,
LEMMA LagrangeOne ==
    ASSUME NEW u \in Slices, Len(u) = 1
    PROVE  LagrangeAt(u, InverseLagrangeCoefficients(u))
<1>1. InverseLagrangeCoefficients(u) = Ok(<<One>>)
  BY DEF InverseLagrangeCoefficients
<1>2. DOMAIN u = 1..1
  BY DEF Slices
<1>3. Distinct(u)
  BY <1>2 DEF Distinct
<1>4. Spread(u, 1) = One
  <2>1. PICK i \in 1..Len(u) : i = 1
    OBVIOUS
  <2>2. Combination(u, Ones(Len(u)), u[i]) = Spread(u, i)
    BY DerivativeAt
  <2>3. PICK c \in [1..1 -> Fr] : c = Ones(Len(u)) /\ c[1] = One
    <3>1. Ones(Len(u)) = [k \in 1..1 |-> One]
      BY DEF Ones
    <3>2. Ones(Len(u)) \in [1..1 -> Fr] /\ Ones(Len(u))[1] = One
      BY <3>1, FrClosed
    <3>3. QED
      BY <3>2
  <2>4. PICK x \in Fr : x = u[i]
    BY DEF Slices
  <2>5. Combination(u, c, x) = c[1]
    BY CombinationOne
  <2>6. QED
    BY <2>1, <2>2, <2>3, <2>4, <2>5
<1>5. <<One>> = [i \in 1..Len(u) |-> Spread(u, i)]
  <2>1. <<One>> = [i \in 1..1 |-> One]
    OBVIOUS
  <2>2. \A i \in 1..1 : Spread(u, i) = One
    BY <1>4
  <2>3. QED
    BY <2>1, <2>2
<1>6. Succeeded(Ok(<<One>>)) /\ Ok(<<One>>).val = <<One>>
  BY DEF Succeeded, Ok
<1>7. QED
  BY <1>1, <1>3, <1>5, <1>6 DEF LagrangeAt

\* on more of them,
LEMMA LagrangeSplit ==
    ASSUME NEW u, Split(u)
    PROVE  LagrangeAt(u, InverseLagrangeCoefficients(u))
<1>1. u \in Slices /\ Len(u) # 1
  BY DEF Split
<1>2. PICK n \in Nat \ {0} : n = Len(u)
  BY <1>1 DEF Slices
<1>3. PICK m \in [1..(n + 1) -> Fr] : m = TreeM[u] /\ m[n + 1] = One /\ Len(m) = n + 1
  <2>1. TreeM[u] \in [1..(n + 1) -> Fr] /\ TreeM[u][n + 1] = One
    BY <1>1, <1>2, TreeMFacts DEF TreeIsProduct, MonicOf
  <2>2. n + 1 \in Nat
    OBVIOUS
  <2>3. QED
    BY <2>1, <2>2, SeqOf
<1>4. PICK d \in Seq(Fr) : d = Derivative(m) /\ d = Derivative(TreeM[u]) /\ Len(d) = n
  BY <1>3, DerivativeSer
<1>5. Settled(u, d)
  BY <1>2, <1>4 DEF Settled
<1>7. PICK r : r = InverseLagrangeCoefficients(u) /\ r = TreeEvaluate[u][d]
  BY <1>1, <1>4 DEF InverseLagrangeCoefficients
<1>8. EvaluatesAt(u, d)
  BY <1>1, EvaluationFacts
<1>9. \A i \in 1..Len(u) : Eval(d, u[i]) = Spread(u, i)
  BY <1>1, <1>4, DerivativeAt
<1>10. Succeeded(r) => r.val = [i \in 1..Len(u) |-> Spread(u, i)]
  <2>1. Succeeded(r) => r.val = [i \in 1..Len(u) |-> Eval(d, u[i])]
    BY <1>7, <1>8 DEF EvaluatesAt
  <2>2. QED
    BY <1>9, <2>1
<1>11. Succeeded(r) => \A i \in 1..Len(u) : Spread(u, i) # Zero
  <2>1. Succeeded(r) => \A i \in 1..Len(u) : Eval(d, u[i]) # Zero
    BY <1>5, <1>7, <1>8 DEF EvaluatesAt
  <2>2. QED
    BY <1>9, <2>1
<1>12. Times(n, One) # Zero => PolyLen(d) = Len(d)
  <2>1. d[n] = Times(n, One)
    <3>1. d = [k \in 1..n |-> Times(k, m[k + 1])]
      BY <1>2, <1>3, <1>4 DEF Derivative
    <3>2. d[n] = Times(n, m[n + 1])
      BY <1>2, <3>1
    <3>3. QED
      BY <1>3, <3>2
  <2>2. PolyLen(d) \in 0..n /\ \A k \in 1..n : k > PolyLen(d) => d[k] = Zero
    BY <1>4, PolyLenFacts
  <2>3. QED
    BY <1>2, <1>4, <2>1, <2>2
<1>13. Sound(u) => Succeeded(r)
  <2> SUFFICES ASSUME Sound(u) PROVE Succeeded(r)
    OBVIOUS
  <2>1. PolyLen(d) = Len(d) /\ ~ Stalling[u]
    BY <1>2, <1>12 DEF Sound
  <2>2. \A i \in 1..Len(u) : Spread(u, i) # Zero
    BY <1>1, SpreadFacts DEF Sound
  <2>3. Degree(d) < Len(u)
    BY <1>2, <1>4, <2>1 DEF Degree
  <2>4. \A i \in 1..Len(u) : Eval(d, u[i]) # Zero
    BY <1>9, <2>2
  <2>5. QED
    BY <1>7, <1>8, <2>1, <2>3, <2>4 DEF EvaluatesAt
<1>14. QED
  BY <1>1, <1>7, <1>10, <1>11, <1>13, SpreadFacts DEF LagrangeAt

\* and on every slice.
LEMMA LagrangeFacts ==
    ASSUME NEW u \in Slices
    PROVE  LagrangeAt(u, InverseLagrangeCoefficients(u))
<1>1. CASE Len(u) = 1
  BY <1>1, LagrangeOne
<1>2. CASE Len(u) # 1
  BY <1>2, LagrangeSplit DEF Split
<1>3. QED
  BY <1>1, <1>2

\* interpolate returned the polynomial through the values v.
InterpolatesAt(u, v, r) ==
    /\ Succeeded(r) /\ PolyLen(r.val) <= Len(u)
    /\ \A i \in 1..Len(u) : Eval(r.val, u[i]) = v[i]

\* It does, on every slice of which it has the inverse Lagrange coefficients.
LEMMA InterpolationFacts ==
    ASSUME NEW u \in Slices, Succeeded(InverseLagrangeCoefficients(u)), NEW v \in [1..Len(u) -> Fr]
    PROVE  InterpolatesAt(u, v, Interpolate(u, v))
<1>1. PICK n \in Nat \ {0} : n = Len(u) /\ DOMAIN u = 1..n
  BY DEF Slices
<1>2. PICK s : s = InverseLagrangeCoefficients(u) /\ Succeeded(s)
        /\ Distinct(u) /\ \A i \in 1..n : s.val[i] = Spread(u, i)
  <2>1. LagrangeAt(u, InverseLagrangeCoefficients(u))
    BY LagrangeFacts
  <2>2. PICK s : s = InverseLagrangeCoefficients(u)
    OBVIOUS
  <2>3. Succeeded(s) /\ Distinct(u) /\ s.val = [i \in 1..n |-> Spread(u, i)]
    BY <1>1, <2>1, <2>2 DEF LagrangeAt
  <2>4. \A i \in 1..n : s.val[i] = Spread(u, i)
    BY <2>3
  <2>5. QED
    BY <2>2, <2>3, <2>4
<1>3. \A i \in 1..n : Spread(u, i) \in Fr /\ Spread(u, i) # Zero
  BY <1>1, <1>2, SpreadFacts
<1>4. PICK c \in [1..n -> Fr] : c = [k \in 1..n |-> Mul(Inv(s.val[k]), v[k])]
        /\ \A k \in 1..n : c[k] = Mul(Inv(Spread(u, k)), v[k])
  <2>1. \A k \in 1..n : v[k] \in Fr /\ s.val[k] \in Fr
    BY <1>1, <1>2, <1>3
  <2>2. \A k \in 1..n : Mul(Inv(s.val[k]), v[k]) \in Fr
    BY <2>1, FrClosed
  <2>3. PICK c : c = [k \in 1..n |-> Mul(Inv(s.val[k]), v[k])]
    OBVIOUS
  <2>4. c \in [1..n -> Fr]
    BY <2>2, <2>3
  <2>5. \A k \in 1..n : c[k] = Mul(Inv(Spread(u, k)), v[k])
    BY <1>2, <2>3
  <2>6. QED
    BY <2>3, <2>4, <2>5
<1>5. Interpolate(u, v) = Ok(LinearCombine[u][c])
  <2>1. ~ \E k \in DOMAIN u : s.val[k] = Zero
    BY <1>1, <1>2, <1>3
  <2>2. QED
    BY <1>1, <1>2, <1>4, <2>1 DEF Interpolate
<1>6. PICK p \in Seq(Fr) : p = LinearCombine[u][c] /\ PolyLen(p) <= Len(u)
        /\ \A x \in Fr : Eval(p, x) = Combination(u, c, x)
  <2>1. CombinesAt(u)
    BY CombineFacts
  <2>2. QED
    BY <1>1, <2>1 DEF CombinesAt
<1>7. ASSUME NEW i \in 1..n PROVE Eval(p, u[i]) = v[i]
  <2>1. u[i] \in Fr /\ Combination(u, c, u[i]) = Mul(c[i], Spread(u, i))
    BY <1>1, CombinationAt DEF Spread
  <2>2. PICK a \in Fr, b \in Fr, y \in Fr : a = Spread(u, i) /\ b = Inv(a) /\ y = v[i] /\ Mul(a, b) = One
    <3>1. Spread(u, i) \in Fr /\ Spread(u, i) # Zero /\ v[i] \in Fr
      BY <1>1, <1>3
    <3>2. QED
      BY ZenonT(90), <3>1, FrClosed, FrMultiplicative
  <2>3. c[i] = Mul(b, y)
    BY <1>4, <2>2
  <2>4. Mul(Mul(b, y), a) = y
    <3>1. Mul(b, y) \in Fr
      BY FrClosed
    <3>2. Mul(Mul(b, y), a) = Mul(a, Mul(b, y))
      BY <3>1, FrMultiplicative
    <3>3. Mul(a, Mul(b, y)) = Mul(Mul(a, b), y)
      BY FrMultiplicative
    <3>4. Mul(One, y) = y
      BY FrClosed, FrMultiplicative
    <3>5. QED
      BY <2>2, <3>2, <3>3, <3>4
  <2>5. QED
    BY <1>6, <2>1, <2>2, <2>3, <2>4
<1>8. Succeeded(Ok(p)) /\ Ok(p).val = p
  BY DEF Succeeded, Ok
<1>9. QED
  BY <1>1, <1>5, <1>6, <1>7, <1>8 DEF InterpolatesAt
-----------------------------------------------------------------------------
\* The arguments of the calls are polynomials and vectors over the field.
LEMMA ArgumentTypes ==
    /\ \A n \in Nat : Vectors(n) \subseteq [1..n -> Fr] /\ Vectors(n) \subseteq Seq(Fr)
    /\ \A n \in Nat : \A p \in Polys(n) : p \in Seq(Fr) /\ PolyLen(p) = Len(p)
    /\ \A n \in Nat : \A g \in Monic(n) : g \in Seq(Fr) /\ Monomial(g)
<1>1. ASSUME NEW n \in Nat PROVE Vectors(n) \subseteq [1..n -> Fr] /\ Vectors(n) \subseteq Seq(Fr)
  <2>1. ASSUME NEW v \in Vectors(n) PROVE v \in [1..n -> Fr] /\ v \in Seq(Fr)
    <3>1. v \in [1..n -> Fr]
      BY ValuesAssumption DEF Vectors
    <3>2. QED
      BY <3>1, SeqOf
  <2>2. QED
    BY <2>1
<1>2. ASSUME NEW n \in Nat, NEW p \in Polys(n) PROVE p \in Seq(Fr) /\ PolyLen(p) = Len(p)
  <2>0. PolyLen(p) = Len(p)
    BY DEF Polys
  <2>1. CASE p = <<>>
    BY <2>0, <2>1
  <2>2. CASE p # <<>>
    <3>1. p \in Nonempty(n)
      BY <2>2 DEF Polys
    <3>2. PICK k \in 1..n : p \in Vectors(k)
      BY <3>1 DEF Nonempty
    <3>3. k \in Nat
      OBVIOUS
    <3>4. QED
      BY <1>1, <2>0, <3>2, <3>3
  <2>3. QED
    BY <2>1, <2>2
<1>3. ASSUME NEW n \in Nat, NEW g \in Monic(n) PROVE g \in Seq(Fr) /\ Monomial(g)
  <2>1. PICK k, p : k \in 0..n /\ p \in Vectors(k) /\ g = Append(p, One)
    <3>1. PICK p \in UNION {Vectors(k) : k \in 0..n} : g = Append(p, One)
      BY DEF Monic
    <3>2. QED
      BY <3>1
  <2>2. p \in Seq(Fr)
    <3>1. k \in Nat
      BY <2>1
    <3>2. QED
      BY <1>1, <2>1, <3>1
  <2>3. PICK e \in Fr : e = One
    BY FrClosed
  <2>4. Append(p, e) \in Seq(Fr) /\ Len(Append(p, e)) = Len(p) + 1 /\ Append(p, e)[Len(p) + 1] = e
    BY <2>2
  <2>5. Append(p, e) # <<>>
    BY <2>2, <2>4
  <2>6. QED
    BY <2>1, <2>3, <2>4, <2>5 DEF Monomial
<1>4. QED
  BY <1>1, <1>2, <1>3

\* The calls that may have been made, and what they returned.
Answer(op, args, r) == [op |-> op, args |-> args, r |-> r]

EvaluateCall(u, o) ==
    \E f \in Seq(Fr) : PolyLen(f) = Len(f) /\ o = Answer("evaluate", <<f>>, TreeEvaluate[u][f])
InterpolateCall(u, o) ==
    \E v \in [1..Len(u) -> Fr] : o = Answer("interpolate", <<v>>, Interpolate(u, v))
CombineCall(u, o) ==
    \E c \in [1..Len(u) -> Fr] : o = Answer("linear_combine", <<c>>, Ok(LinearCombine[u][c]))
LagrangeCall(u, o) == o = Answer("inverse_lagrange", <<>>, InverseLagrangeCoefficients(u))
DivideCall(o) ==
    \E f \in Seq(Fr), g \in Seq(Fr) :
        PolyLen(f) = Len(f) /\ Monomial(g) /\ o = Answer("divide", <<f, g>>, FastDivideMonic(f, g))
InverseCall(o) ==
    \E f \in Seq(Fr), l \in Nat \ {0} : o = Answer("inverse", <<f, l>>, InverseModXl(f, l))
ToeplitzCall(o) == \E a, r : o = Answer("toeplitz", a, r)

Answered(u, o) ==
    \/ o = Idle \/ EvaluateCall(u, o) \/ InterpolateCall(u, o) \/ CombineCall(u, o)
    \/ LagrangeCall(u, o) \/ DivideCall(o) \/ InverseCall(o) \/ ToeplitzCall(o)

CallInv == domain.u \in Slices /\ Answered(domain.u, out)

\* Every state of the calls is one of these.
LEMMA CallInvariant == Spec => []CallInv
<1>1. Init => CallInv
  <2> SUFFICES ASSUME Init PROVE CallInv
    OBVIOUS
  <2>1. PICK u \in Points : domain = DomainNew(u)
    BY DEF Init
  <2>2. domain.u = u
    BY <2>1 DEF DomainNew
  <2>3. QED
    BY <2>2, PointsAssumption DEF Init, CallInv, Answered
<1>2. CallInv /\ [Next]_vars => CallInv'
  <2> SUFFICES ASSUME CallInv, [Next]_vars PROVE CallInv'
    OBVIOUS
  <2>0. domain.u \in Slices /\ Len(domain.u) \in Nat
    BY DEF CallInv, Slices
  <2>1. ASSUME domain' = domain, Answered(domain.u, out') PROVE CallInv'
    BY <2>0, <2>1 DEF CallInv
  <2>2. CASE \E f \in Polys(MaxLen) : Call("evaluate", <<f>>, TreeEvaluate[domain.u][f])
    <3>1. PICK f \in Polys(MaxLen) : Call("evaluate", <<f>>, TreeEvaluate[domain.u][f])
      BY <2>2
    <3>2. f \in Seq(Fr) /\ PolyLen(f) = Len(f)
      BY ArgumentTypes, BoundsAssumption
    <3>3. EvaluateCall(domain.u, out') /\ domain' = domain
      BY <3>1, <3>2 DEF EvaluateCall, Call, Answer
    <3>4. QED
      BY <2>1, <3>3 DEF Answered
  <2>3. CASE \E v \in Vectors(Len(domain.u)) : Call("interpolate", <<v>>, Interpolate(domain.u, v))
    <3>1. PICK v \in Vectors(Len(domain.u)) : Call("interpolate", <<v>>, Interpolate(domain.u, v))
      BY <2>3
    <3>2. v \in [1..Len(domain.u) -> Fr]
      BY <2>0, ArgumentTypes
    <3>3. InterpolateCall(domain.u, out') /\ domain' = domain
      BY <3>1, <3>2 DEF InterpolateCall, Call, Answer
    <3>4. QED
      BY <2>1, <3>3 DEF Answered
  <2>4. CASE \E c \in Vectors(Len(domain.u)) : Call("linear_combine", <<c>>, Ok(LinearCombine[domain.u][c]))
    <3>1. PICK c \in Vectors(Len(domain.u)) : Call("linear_combine", <<c>>, Ok(LinearCombine[domain.u][c]))
      BY <2>4
    <3>2. c \in [1..Len(domain.u) -> Fr]
      BY <2>0, ArgumentTypes
    <3>3. CombineCall(domain.u, out') /\ domain' = domain
      BY <3>1, <3>2 DEF CombineCall, Call, Answer
    <3>4. QED
      BY <2>1, <3>3 DEF Answered
  <2>5. CASE Call("inverse_lagrange", <<>>, InverseLagrangeCoefficients(domain.u))
    <3>1. LagrangeCall(domain.u, out') /\ domain' = domain
      BY <2>5 DEF LagrangeCall, Call, Answer
    <3>2. QED
      BY <2>1, <3>1 DEF Answered
  <2>6. CASE \E f \in Polys(MaxLen), g \in Monic(MaxDivisor) : Call("divide", <<f, g>>, FastDivideMonic(f, g))
    <3>1. PICK f \in Polys(MaxLen), g \in Monic(MaxDivisor) : Call("divide", <<f, g>>, FastDivideMonic(f, g))
      BY <2>6
    <3>2. f \in Seq(Fr) /\ PolyLen(f) = Len(f) /\ g \in Seq(Fr) /\ Monomial(g)
      BY ArgumentTypes, BoundsAssumption
    <3>3. DivideCall(out') /\ domain' = domain
      BY <3>1, <3>2 DEF DivideCall, Call, Answer
    <3>4. QED
      BY <2>1, <3>3 DEF Answered
  <2>7. CASE \E f \in Polys(MaxDivisor + 1), l \in 1..MaxLength : Call("inverse", <<f, l>>, InverseModXl(f, l))
    <3>1. PICK f \in Polys(MaxDivisor + 1), l \in 1..MaxLength : Call("inverse", <<f, l>>, InverseModXl(f, l))
      BY <2>7
    <3>2. f \in Seq(Fr) /\ l \in Nat \ {0}
      <4>1. PICK n \in Nat : n = MaxDivisor + 1
        BY BoundsAssumption
      <4>2. QED
        BY <4>1, ArgumentTypes, BoundsAssumption
    <3>3. InverseCall(out') /\ domain' = domain
      BY <3>1, <3>2 DEF InverseCall, Call, Answer
    <3>4. QED
      BY <2>1, <3>3 DEF Answered
  <2>8. CASE \E p \in Polys(MaxDivisor + 1), v \in Nonempty(MaxToeplitz), size \in 0..MaxToeplitz :
                Call("toeplitz", <<p, v, size>>, ToeplitzMul(p, v, size))
    <3>1. ToeplitzCall(out') /\ domain' = domain
      BY <2>8 DEF ToeplitzCall, Call, Answer
    <3>2. QED
      BY <2>1, <3>1 DEF Answered
  <2>9. CASE HaveResult
    BY <2>1, <2>9 DEF HaveResult, Answered
  <2>10. CASE UNCHANGED vars
    BY <2>10 DEF vars, CallInv
  <2>11. QED
    BY <2>2, <2>3, <2>4, <2>5, <2>6, <2>7, <2>8, <2>9, <2>10 DEF Next
<1>3. QED
  BY <1>1, <1>2, PTL DEF Spec

\* A record of a call has its fields.
LEMMA AnswerFields ==
    ASSUME NEW op, NEW args, NEW r
    PROVE  LET o == Answer(op, args, r) IN o.op = op /\ o.args = args /\ o.r = r
BY DEF Answer

\* Which call an operation's name is of.
LEMMA WhichCall ==
    ASSUME NEW u, NEW o, Answered(u, o)
    PROVE  /\ o.op = "evaluate" => EvaluateCall(u, o)
           /\ o.op = "interpolate" => InterpolateCall(u, o)
           /\ o.op = "linear_combine" => CombineCall(u, o)
           /\ o.op = "inverse_lagrange" => LagrangeCall(u, o)
           /\ o.op = "divide" => DivideCall(o)
           /\ o.op = "inverse" => InverseCall(o)
<1>1. o = Idle => o.op = "none"
  BY DEF Idle
<1>2. EvaluateCall(u, o) => o.op = "evaluate"
  BY AnswerFields DEF EvaluateCall
<1>3. InterpolateCall(u, o) => o.op = "interpolate"
  BY AnswerFields DEF InterpolateCall
<1>4. CombineCall(u, o) => o.op = "linear_combine"
  BY AnswerFields DEF CombineCall
<1>5. LagrangeCall(u, o) => o.op = "inverse_lagrange"
  BY AnswerFields DEF LagrangeCall
<1>6. DivideCall(o) => o.op = "divide"
  BY AnswerFields DEF DivideCall
<1>7. InverseCall(o) => o.op = "inverse"
  BY AnswerFields DEF InverseCall
<1>8. ToeplitzCall(o) => o.op = "toeplitz"
  BY AnswerFields DEF ToeplitzCall
<1>9. QED
  BY <1>1, <1>2, <1>3, <1>4, <1>5, <1>6, <1>7, <1>8 DEF Answered

\* fast_divide_monic divides with remainder, Newton iteration, reversal and the truncation
\* of the quotient included, whenever it returns; and it returns unless the iteration for
\* the reversed divisor stalls.
THEOREM DivisionIsDivision == Spec => []DivisionExact
<1>1. CallInv => DivisionExact
  <2> SUFFICES ASSUME CallInv, out.op = "divide"
               PROVE  LET f == out.args[1]
                          g == out.args[2]
                          d == out.r.val
                      IN  /\ Succeeded(out.r) <=>
                               Len(f) < Len(g) \/ ~ Stalls(Reverse(g), Len(f) - Len(g) + 1)
                          /\ Succeeded(out.r) =>
                               /\ PolyAdd(PolyMul(d.quotient, g), d.remainder) = f
                               /\ PolyLen(d.remainder) < Len(g)
    BY DEF DivisionExact
  <2>1. DivideCall(out)
    BY WhichCall DEF CallInv
  <2>2. PICK f \in Seq(Fr), g \in Seq(Fr) :
          PolyLen(f) = Len(f) /\ Monomial(g) /\ out = Answer("divide", <<f, g>>, FastDivideMonic(f, g))
    BY <2>1 DEF DivideCall
  <2>3. out.args = <<f, g>> /\ out.r = FastDivideMonic(f, g)
    BY <2>2, AnswerFields
  <2>4. out.args[1] = f /\ out.args[2] = g
    BY <2>3
  <2>5. Succeeded(out.r) <=> Len(f) < Len(g) \/ ~ Stalls(Reverse(g), Len(f) - Len(g) + 1)
    <3>1. ~ LeadingZero(f)
      BY <2>2 DEF LeadingZero
    <3>2. QED
      BY <2>2, <2>3, <3>1, DivisionStalls
  <2>6. ASSUME Succeeded(out.r)
        PROVE  /\ PolyAdd(PolyMul(out.r.val.quotient, g), out.r.val.remainder) = f
               /\ PolyLen(out.r.val.remainder) < Len(g)
    <3>1. PICK d : d = out.r.val /\ Divides(f, g, d)
      BY <2>2, <2>3, <2>6, DivisionFacts
    <3>2. PolyAdd(PolyMul(d.quotient, g), d.remainder) = Trim(f) /\ PolyLen(d.remainder) < Len(g)
      BY <3>1, DivisionIsExact DEF Divides
    <3>3. QED
      BY <2>2, <3>1, <3>2, TrimSelf
  <2>7. QED
    BY <2>4, <2>5, <2>6
<1>2. QED
  BY <1>1, CallInvariant, PTL

\* inverse_mod_xl returns a power series inverse for every number of terms, exactly if the
\* constant term has an inverse and no turn of its loop starts from a vector that ends in
\* a zero.
THEOREM InverseIsInverse == Spec => []InverseExact
<1>1. CallInv => InverseExact
  <2> SUFFICES ASSUME CallInv, out.op = "inverse"
               PROVE  LET f == out.args[1]
                          l == out.args[2]
                      IN  /\ Succeeded(out.r) <=> Coeff(f, 1) # Zero /\ ~ Stalls(f, l)
                          /\ Succeeded(out.r) => Trim(Resize(PolyMul(f, out.r.val), l)) = <<One>>
    BY DEF InverseExact
  <2>1. InverseCall(out)
    BY WhichCall DEF CallInv
  <2>2. PICK f \in Seq(Fr), l \in Nat \ {0} : out = Answer("inverse", <<f, l>>, InverseModXl(f, l))
    BY <2>1 DEF InverseCall
  <2>3. out.args = <<f, l>> /\ out.r = InverseModXl(f, l)
    BY <2>2, AnswerFields
  <2>4. out.args[1] = f /\ out.args[2] = l
    BY <2>3
  <2>5. Succeeded(out.r) =>
          Coeff(f, 1) # Zero /\ Trim(Resize(PolyMul(f, out.r.val), l)) = <<One>>
    BY <2>3, InverseIsExact
  <2>6. Coeff(f, 1) # Zero => (Succeeded(out.r) <=> ~ Stalls(f, l))
    <3> SUFFICES ASSUME Coeff(f, 1) # Zero PROVE Succeeded(out.r) <=> ~ Stalls(f, l)
      OBVIOUS
    <3>1. f # <<>> /\ f[1] # Zero
      BY DEF Coeff
    <3>2. l \in Nat
      OBVIOUS
    <3>3. QED
      BY <2>3, <3>1, <3>2, InverseStalls
  <2>7. QED
    BY <2>4, <2>5, <2>6
<1>2. QED
  BY <1>1, CallInvariant, PTL

\* What evaluate returns are the values of the polynomial at the points of the slice; it
\* returns only if none of them is zero and there are more points than the degree, and
\* then always if no division down the tree can stall.
THEOREM EvaluationIsEvaluation == Spec => []EvaluationExact
<1>1. CallInv => EvaluationExact
  <2> SUFFICES ASSUME CallInv, out.op = "evaluate"
               PROVE  LET f    == out.args[1]
                          u    == domain.u
                          fits == Degree(f) < Len(u) /\ \A i \in DOMAIN u : Eval(f, u[i]) # Zero
                      IN  /\ Succeeded(out.r) => fits /\ out.r.val = [i \in DOMAIN u |-> Eval(f, u[i])]
                          /\ fits /\ ~ Stalling[u] => Succeeded(out.r)
    BY DEF EvaluationExact
  <2>1. PICK u \in Slices : u = domain.u /\ DOMAIN u = 1..Len(u)
    BY DEF CallInv, Slices
  <2>2. EvaluateCall(u, out)
    BY <2>1, WhichCall DEF CallInv
  <2>3. PICK f \in Seq(Fr) : PolyLen(f) = Len(f) /\ out = Answer("evaluate", <<f>>, TreeEvaluate[u][f])
    BY <2>2 DEF EvaluateCall
  <2>4. out.args = <<f>> /\ out.r = TreeEvaluate[u][f]
    BY <2>3, AnswerFields
  <2>5. out.args[1] = f
    BY <2>4
  <2>6. EvaluatesAt(u, f) /\ Settled(u, f)
    BY <2>3, EvaluationFacts DEF Settled
  <2>7. Succeeded(out.r) =>
          /\ Degree(f) < Len(u) /\ \A i \in 1..Len(u) : Eval(f, u[i]) # Zero
          /\ out.r.val = [i \in 1..Len(u) |-> Eval(f, u[i])]
    BY <2>4, <2>6 DEF EvaluatesAt
  <2>8. Degree(f) < Len(u) /\ (\A i \in 1..Len(u) : Eval(f, u[i]) # Zero) /\ ~ Stalling[u] => Succeeded(out.r)
    BY <2>3, <2>4, <2>6 DEF EvaluatesAt
  <2>9. QED
    BY <2>1, <2>5, <2>7, <2>8
<1>2. QED
  BY <1>1, CallInvariant, PTL

\* linear_combine returns the sum of the c_i m / (x - u_i).
THEOREM CombinationIsCombination == Spec => []CombinationExact
<1>1. CallInv => CombinationExact
  <2> SUFFICES ASSUME CallInv, out.op = "linear_combine", NEW x \in Fr
               PROVE  Eval(out.r.val, x) =
                        FSum([i \in DOMAIN domain.u |->
                                Mul(out.args[1][i],
                                    FProd([j \in DOMAIN domain.u |-> IF j = i THEN One ELSE Sub(x, domain.u[j])]))])
    BY DEF CombinationExact, Returned
  <2>1. PICK u \in Slices : u = domain.u /\ DOMAIN u = 1..Len(u)
    BY DEF CallInv, Slices
  <2>2. CombineCall(u, out)
    BY <2>1, WhichCall DEF CallInv
  <2>3. PICK c \in [1..Len(u) -> Fr] : out = Answer("linear_combine", <<c>>, Ok(LinearCombine[u][c]))
    BY <2>2 DEF CombineCall
  <2>4. out.args = <<c>> /\ out.r = Ok(LinearCombine[u][c])
    BY <2>3, AnswerFields
  <2>5. out.args[1] = c
    BY <2>4
  <2>6. out.r.val = LinearCombine[u][c]
    BY <2>4 DEF Ok
  <2>7. Eval(LinearCombine[u][c], x) = Combination(u, c, x)
    <3>1. CombinesAt(u)
      BY CombineFacts
    <3>2. QED
      BY <3>1 DEF CombinesAt
  <2>8. Combination(u, c, x) =
          FSum([i \in 1..Len(u) |-> Mul(c[i], FProd([j \in 1..Len(u) |-> IF j = i THEN One ELSE Sub(x, u[j])]))])
    BY DEF Combination, CombinationTerms, Punctured
  <2>9. QED
    BY <2>1, <2>5, <2>6, <2>7, <2>8
<1>2. QED
  BY <1>1, CallInvariant, PTL

\* inverse_lagrange_coefficients returns the products of the differences of the points,
\* never on two equal points, and always on distinct ones whose tree cannot stall, if the
\* characteristic of the field does not divide their number.
THEOREM LagrangeIsSpread == Spec => []LagrangeExact
<1>1. CallInv => LagrangeExact
  <2> SUFFICES ASSUME CallInv, out.op = "inverse_lagrange"
               PROVE  LET u == domain.u
                      IN  /\ Succeeded(out.r) =>
                               /\ Distinct(u)
                               /\ out.r.val = [i \in DOMAIN u |->
                                                 FProd([j \in DOMAIN u |->
                                                          IF j = i THEN One ELSE Sub(u[i], u[j])])]
                          /\ Distinct(u) /\ Times(Len(u), One) # Zero /\ ~ Stalling[u] => Succeeded(out.r)
    BY DEF LagrangeExact
  <2>1. PICK u \in Slices : u = domain.u /\ DOMAIN u = 1..Len(u)
    BY DEF CallInv, Slices
  <2>2. LagrangeCall(u, out)
    BY <2>1, WhichCall DEF CallInv
  <2>3. out.r = InverseLagrangeCoefficients(u)
    BY <2>2, AnswerFields DEF LagrangeCall
  <2>4. LagrangeAt(u, InverseLagrangeCoefficients(u))
    BY LagrangeFacts
  <2>5. /\ Succeeded(out.r) =>
             /\ Distinct(u)
             /\ out.r.val = [i \in 1..Len(u) |-> FProd([j \in 1..Len(u) |-> IF j = i THEN One ELSE Sub(u[i], u[j])])]
        /\ Sound(u) => Succeeded(out.r)
    BY <2>3, <2>4 DEF LagrangeAt, Spread, Punctured
  <2>6. QED
    BY <2>1, <2>5 DEF Sound
<1>2. QED
  BY <1>1, CallInvariant, PTL

\* interpolate returns the polynomial through the given values, never over two equal
\* points, and always over distinct ones whose tree cannot stall, if the characteristic of
\* the field does not divide their number.
THEOREM InterpolationIsInterpolation == Spec => []InterpolationExact
<1>1. CallInv => InterpolationExact
  <2> SUFFICES ASSUME CallInv, out.op = "interpolate"
               PROVE  LET u == domain.u
                          f == out.r.val
                      IN  /\ Succeeded(out.r) =>
                               /\ Distinct(u)
                               /\ PolyLen(f) <= Len(u)
                               /\ \A i \in DOMAIN u : Eval(f, u[i]) = out.args[1][i]
                          /\ Distinct(u) /\ Times(Len(u), One) # Zero /\ ~ Stalling[u] => Succeeded(out.r)
    BY DEF InterpolationExact
  <2>1. PICK u \in Slices : u = domain.u /\ DOMAIN u = 1..Len(u)
    BY DEF CallInv, Slices
  <2>2. InterpolateCall(u, out)
    BY <2>1, WhichCall DEF CallInv
  <2>3. PICK v \in [1..Len(u) -> Fr] : out = Answer("interpolate", <<v>>, Interpolate(u, v))
    BY <2>2 DEF InterpolateCall
  <2>4. out.args = <<v>> /\ out.r = Interpolate(u, v)
    BY <2>3, AnswerFields
  <2>5. out.args[1] = v
    BY <2>4
  <2>6. LagrangeAt(u, InverseLagrangeCoefficients(u))
    BY LagrangeFacts
  <2>7. CASE Succeeded(InverseLagrangeCoefficients(u))
    <3>1. InterpolatesAt(u, v, out.r)
      BY <2>4, <2>7, InterpolationFacts
    <3>2. Distinct(u)
      BY <2>6, <2>7 DEF LagrangeAt
    <3>3. QED
      BY <2>1, <2>5, <3>1, <3>2 DEF InterpolatesAt
  <2>8. CASE ~ Succeeded(InverseLagrangeCoefficients(u))
    <3>1. out.r = InverseLagrangeCoefficients(u)
      BY <2>4, <2>8 DEF Interpolate
    <3>2. ~ Sound(u)
      BY <2>6, <2>8 DEF LagrangeAt
    <3>3. QED
      BY <2>1, <2>8, <3>1, <3>2 DEF Sound
  <2>9. QED
    BY <2>7, <2>8
<1>2. QED
  BY <1>1, CallInvariant, PTL
=============================================================================
