---------------------------- MODULE InputProofs ----------------------------
(***************************************************************************)
(* What the two programs guarantee that make sense of bytes received on a  *)
(* serial port: the operator's menu (Shell.tla), for every set of lines    *)
(* and every length of its buffers, and fInput of the counter task         *)
(* (Frames.tla), for every model, size of a frame and base of a byte.      *)
(*                                                                         *)
(* Both rest on folds: SHELL_getLine over the keys of a line, the checksum *)
(* over the bytes of a frame, a number over its digits, and FlattenSeq     *)
(* over the frames sent.  What such a fold yields is proved by induction   *)
(* over the naturals, from the least element of a set of counterexamples.  *)
(***************************************************************************)
EXTENDS Shell, Frames, TLAPS, WellFoundedInduction, SequenceTheorems

(***************************************************************************)
(* Induction, and folds over the elements of a sequence                    *)
(***************************************************************************)

LEMMA LeastNumber ==
  ASSUME NEW T \in SUBSET Nat, T # {}
  PROVE  \E x \in T : \A y \in T : x <= y
<1>1. PICK x \in T : \A y \in T : <<y, x>> \notin OpToRel(<, Nat)
  BY WFMin, NatLessThanWellFounded
<1>2. \A y \in T : ~(y < x)
  BY <1>1 DEF OpToRel
<1>3. QED BY <1>2

LEMMA Induction ==
  ASSUME NEW T, T \subseteq Nat, 0 \in T, \A n \in T : n + 1 \in T
  PROVE  \A n \in Nat : n \in T
<1>1. SUFFICES ASSUME NEW m \in Nat, m \notin T PROVE FALSE
  OBVIOUS
<1>2. PICK x \in Nat \ T : \A y \in Nat \ T : x <= y
  BY <1>1, LeastNumber
<1>3. x # 0 /\ x - 1 \in Nat /\ x - 1 \in T
  BY <1>2
<1>4. QED BY <1>2, <1>3

Folds(iter, n, X, base, step) ==
  /\ iter \in [SUBSET (1..n) -> X]
  /\ \A S \in SUBSET (1..n) :
       iter[S] = IF S = {} THEN base ELSE step[<<iter[S \ {Max(S)}], Max(S)>>]

LEMMA FoldIterates ==
  ASSUME NEW n \in Nat, NEW X, NEW base \in X, NEW step \in [X \X (1..n) -> X]
  PROVE  \E iter : Folds(iter, n, X, base, step)
<1> DEFINE
   Good(k, f) == \A S \in SUBSET (1..k) :
                    f[S] = IF S = {} THEN base ELSE step[<<f[S \ {Max(S)}], Max(S)>>]
   T == {k \in Nat : k <= n => \E f \in [SUBSET (1..k) -> X] : Good(k, f)}
<1>1. 0 \in T
  <2>1. 1..0 = {}
    OBVIOUS
  <2>2. [S \in SUBSET (1..0) |-> base] \in [SUBSET (1..0) -> X] /\ Good(0, [S \in SUBSET (1..0) |-> base])
    BY <2>1
  <2>3. QED BY <2>2
<1>2. ASSUME NEW k \in Nat, k \in T PROVE k + 1 \in T
  <2>1. SUFFICES ASSUME k + 1 <= n PROVE \E f \in [SUBSET (1..(k+1)) -> X] : Good(k+1, f)
    <3>1. k + 1 \in Nat
      OBVIOUS
    <3>2. QED BY <3>1
  <2>2. PICK f \in [SUBSET (1..k) -> X] : Good(k, f)
    <3>1. k <= n
      BY <2>1
    <3>2. QED BY <3>1, <1>2
  <2> DEFINE g == [S \in SUBSET (1..(k+1)) |->
                     IF k + 1 \in S THEN step[<<f[S \ {k+1}], k+1>>] ELSE f[S]]
  <2>3. \A S \in SUBSET (1..(k+1)) : /\ k + 1 \in S => S \ {k+1} \in SUBSET (1..k)
                                     /\ k + 1 \notin S => S \in SUBSET (1..k)
    OBVIOUS
  <2>4. g \in [SUBSET (1..(k+1)) -> X]
    <3>1. ASSUME NEW S \in SUBSET (1..(k+1)) 
          PROVE (IF k + 1 \in S THEN step[<<f[S \ {k+1}], k+1>>] ELSE f[S]) \in X
      <4>1. CASE k + 1 \in S
        <5>1. f[S \ {k+1}] \in X
          BY <4>1, <2>3
        <5>2. k + 1 \in 1..n
          BY <2>1
        <5>3. QED BY <5>1, <5>2, <4>1
      <4>2. CASE k + 1 \notin S
        BY <4>2, <2>3
      <4>3. QED BY <4>1, <4>2
    <3>2. QED BY <3>1
  <2>5. ASSUME NEW S \in SUBSET (1..(k+1))
        PROVE  g[S] = IF S = {} THEN base ELSE step[<<g[S \ {Max(S)}], Max(S)>>]
    <3>1. CASE k + 1 \in S
      <4>1. Max(S) = k + 1
        <5>1. \A y \in S : k + 1 >= y
          OBVIOUS
        <5>2. \A x \in S : (\A y \in S : x >= y) => x = k + 1
          BY <3>1
        <5>3. QED BY <5>1, <5>2, <3>1 DEF Max
      <4>2. S \ {k+1} \in SUBSET (1..(k+1)) /\ k + 1 \notin S \ {k+1}
        OBVIOUS
      <4>3. g[S \ {k+1}] = f[S \ {k+1}]
        BY <4>2
      <4>4. g[S] = step[<<f[S \ {k+1}], k+1>>]
        BY <3>1
      <4>5. QED BY <4>1, <4>3, <4>4, <3>1
    <3>2. CASE k + 1 \notin S /\ S # {}
      <4>1. S \in SUBSET (1..k)
        BY <3>2
      <4>2. f[S] = step[<<f[S \ {Max(S)}], Max(S)>>]
        BY <4>1, <2>2, <3>2
      <4>3. g[S] = f[S]
        BY <3>2
      <4>4. g[S \ {Max(S)}] = f[S \ {Max(S)}]
        BY <3>2
      <4>5. QED BY <4>2, <4>3, <4>4, <3>2
    <3>3. CASE S = {}
      <4>1. g[{}] = f[{}]
        OBVIOUS
      <4>2. f[{}] = base
        BY <2>2
      <4>3. QED BY <4>1, <4>2, <3>3
    <3>4. QED BY <3>1, <3>2, <3>3
  <2>6. QED BY <2>4, <2>5
<1>3. n \in T
  <2> HIDE DEF T
  <2>1. T \subseteq Nat
    BY DEF T
  <2>2. \A k \in T : k + 1 \in T
    BY <1>2, <2>1
  <2>3. QED BY <1>1, <2>2, <2>1, Induction
<1>4. PICK f \in [SUBSET (1..n) -> X] : Good(n, f)
  <2>1. n <= n
    OBVIOUS
  <2> HIDE DEF Good
  <2>2. QED BY <1>3, <2>1
<1>5. Folds(f, n, X, base, step)
  BY <1>4 DEF Folds
<1>6. QED BY <1>5

LEMMA PrefixMax ==
  ASSUME NEW k \in Nat, k # 0
  PROVE  Max(1..k) = k /\ (1..k) \ {k} = 1..(k - 1) /\ 1..k # {}
<1>1. \A x \in 1..k : (\A y \in 1..k : x >= y) => x = k
  OBVIOUS
<1>2. k \in 1..k /\ \A y \in 1..k : k >= y
  OBVIOUS
<1>3. Max(1..k) = k
  BY <1>1, <1>2 DEF Max
<1>4. (1..k) \ {k} = 1..(k - 1) /\ 1..k # {}
  BY <1>2
<1>5. QED BY <1>3, <1>4

LEMMA MaxInSet ==
  ASSUME NEW n \in Nat, NEW S \in SUBSET (1..n), S # {}
  PROVE  Max(S) \in S
<1> DEFINE T == {n - x : x \in S}
<1>1. \A x \in S : x \in 1..n /\ n - x \in Nat
  OBVIOUS
<1>2. T \in SUBSET Nat /\ T # {}
  BY <1>1
<1>3. PICK y \in T : \A z \in T : y <= z
  <2> HIDE DEF T
  <2>1. QED BY <1>2, LeastNumber
<1>4. PICK x \in S : y = n - x
  OBVIOUS
<1>5. \A z \in S : x >= z
  <2>1. ASSUME NEW z \in S PROVE x >= z
    <3>1. n - x <= n - z
      BY <1>3, <1>4
    <3>2. QED BY <3>1, <1>1
  <2>2. QED BY <2>1
<1>6. QED BY <1>5 DEF Max

(***************************************************************************)
(* Recursion over an initial segment of the natural numbers                *)
(***************************************************************************)

Recurs(g, n, X, base, step) ==
  g \in [0..n -> X] /\ g[0] = base /\ \A k \in 1..n : g[k] = step[<<g[k - 1], k>>]

LEMMA Recursion ==
  ASSUME NEW n \in Nat, NEW X, NEW base \in X, NEW step \in [X \X (1..n) -> X]
  PROVE  \E g : Recurs(g, n, X, base, step)
<1> DEFINE
   Good(m, g) == g[0] = base /\ \A k \in 1..m : g[k] = step[<<g[k - 1], k>>]
   T == {m \in Nat : m <= n => \E g \in [0..m -> X] : Good(m, g)}
<1>1. 0 \in T
  <2>1. [k \in 0..0 |-> base] \in [0..0 -> X] /\ Good(0, [k \in 0..0 |-> base])
    OBVIOUS
  <2>2. QED BY <2>1
<1>2. ASSUME NEW m \in T PROVE m + 1 \in T
  <2>1. SUFFICES ASSUME m + 1 <= n PROVE \E g \in [0..(m + 1) -> X] : Good(m + 1, g)
    OBVIOUS
  <2>2. m \in Nat /\ m <= n
    BY <2>1
  <2>3. PICK f \in [0..m -> X] : Good(m, f)
    BY <2>2
  <2> DEFINE g == [k \in 0..(m + 1) |-> IF k = m + 1 THEN step[<<f[m], m + 1>>] ELSE f[k]]
  <2>4. f[m] \in X /\ m + 1 \in 1..n
    BY <2>1, <2>2
  <2>5. g \in [0..(m + 1) -> X]
    <3>1. step[<<f[m], m + 1>>] \in X
      BY <2>4
    <3>2. \A k \in 0..(m + 1) : k # m + 1 => k \in 0..m
      BY <2>2
    <3>3. QED BY <3>1, <3>2
  <2>6. g[0] = base
    BY <2>2, <2>3
  <2>7. \A k \in 1..(m + 1) : g[k] = step[<<g[k - 1], k>>]
    <3>1. ASSUME NEW k \in 1..(m + 1), k # m + 1 PROVE g[k] = step[<<g[k - 1], k>>]
      <4>1. g[k] = f[k] /\ g[k - 1] = f[k - 1] /\ k \in 1..m
        BY <2>2, <3>1
      <4>2. QED BY <2>3, <4>1
    <3>2. g[m + 1] = step[<<f[m], m + 1>>] /\ g[m] = f[m] /\ (m + 1) - 1 = m
      BY <2>2
    <3> HIDE DEF g
    <3>3. g[m + 1] = step[<<g[(m + 1) - 1], m + 1>>]
      BY <3>2
    <3>4. QED BY <3>1, <3>3
  <2>8. QED BY <2>5, <2>6, <2>7
<1>3. n \in T
  <2>1. T \subseteq Nat
    OBVIOUS
  <2> HIDE DEF T
  <2>2. QED BY <1>1, <1>2, <2>1, Induction
<1>4. PICK g \in [0..n -> X] : Good(n, g)
  BY <1>3
<1>5. Recurs(g, n, X, base, step)
  BY <1>4 DEF Recurs
<1>6. QED BY <1>5

\* A function with the recursion's equations has its type.
LEMMA Determined ==
  ASSUME NEW n \in Nat, NEW X, NEW base \in X, NEW step \in [X \X (1..n) -> X], NEW F,
         F = [k \in 0..n |-> F[k]], F[0] = base,
         \A k \in 1..n : F[k - 1] \in X => F[k] = step[<<F[k - 1], k>>]
  PROVE  Recurs(F, n, X, base, step)
<1> DEFINE T == {k \in Nat : k <= n => F[k] \in X}
<1>1. 0 \in T /\ T \subseteq Nat
  OBVIOUS
<1>2. ASSUME NEW k \in T PROVE k + 1 \in T
  <2>1. SUFFICES ASSUME k + 1 <= n PROVE F[k + 1] \in X
    OBVIOUS
  <2>2. k \in Nat /\ k + 1 \in 1..n /\ (k + 1) - 1 = k /\ F[k] \in X
    BY <2>1
  <2>3. F[k + 1] = step[<<F[k], k + 1>>] /\ <<F[k], k + 1>> \in X \X (1..n)
    BY <2>2
  <2>4. QED BY <2>3
<1>3. \A k \in Nat : k \in T
  <2> HIDE DEF T
  <2>1. QED BY <1>1, <1>2, Induction
<1>4. \A k \in 0..n : F[k] \in X
  BY <1>3
<1>5. F \in [0..n -> X]
  BY <1>4
<1>6. \A k \in 1..n : F[k - 1] \in X
  BY <1>4
<1>7. QED BY <1>5, <1>6 DEF Recurs

(***************************************************************************)
(* SHELL_getLine                                                            *)
(***************************************************************************)

Buffers == [1..LineLen -> Chars \cup {NUL}]
Gots == [n : 0..LineLen, buf : Buffers]

LEMMA Sizes ==
  /\ {LineLen, AnswerLen, PasswdLen, SerialLen, MacLen} \subseteq Nat \ {0}
  /\ {AnswerLen, PasswdLen, SerialLen} \subseteq 1..LineLen
BY ShellAssumption

LEMMA LineKeys ==
  ASSUME NEW line \in Lines
  PROVE  /\ Len(line) \in Nat /\ Len(line) < LineLen /\ DOMAIN line = 1..Len(line)
         /\ \A k \in 1..Len(line) : line[k] \in Chars \cup {Erase}
<1>1. line \in Seq(Chars \cup {Erase}) /\ Len(line) < LineLen
  BY ShellAssumption
<1>2. QED BY <1>1

LEMMA ZerosBuffer == Zeros \in Buffers /\ \A i \in 1..LineLen : Zeros[i] = NUL
BY DEF Zeros, Buffers

\* A key keeps the buffer's type, and the length within its bound.
LEMMA KeyType ==
  ASSUME NEW got \in Gots, NEW max \in 0..LineLen, NEW c \in Chars \cup {Erase}
  PROVE  Key(got, max, c) \in Gots
<1>1. CASE c = Erase /\ got.n > 0
  <2>1. got.n - 1 \in 0..LineLen
    BY <1>1, Sizes DEF Gots
  <2>2. [got.buf EXCEPT ![got.n] = NUL] \in Buffers
    BY DEF Gots, Buffers
  <2>3. QED BY <1>1, <2>1, <2>2 DEF Key, Gots
<1>2. CASE c # Erase /\ got.n < max
  <2>1. got.n + 1 \in 0..LineLen
    BY <1>2, Sizes DEF Gots
  <2>2. [got.buf EXCEPT ![got.n + 1] = c] \in Buffers
    BY <1>2 DEF Gots, Buffers
  <2>3. QED BY <1>2, <2>1, <2>2 DEF Key, Gots
<1>3. CASE ~(c = Erase /\ got.n > 0) /\ ~(c # Erase /\ got.n < max)
  BY <1>3 DEF Key
<1>4. QED BY <1>1, <1>2, <1>3

\* A line is typed key by key.
LEMMA LineSteps ==
  ASSUME NEW buf \in Buffers, NEW max \in 0..LineLen, NEW line \in Lines
  PROVE  \E h \in [0..Len(line) -> Gots] :
           /\ h[0] = [n |-> 0, buf |-> buf]
           /\ \A k \in 1..Len(line) : h[k] = Key(h[k - 1], max, line[k])
           /\ GetLine(buf, max, line) = h[Len(line)]
<1> DEFINE
  n == Len(line)
  base == [n |-> 0, buf |-> buf]
  step == [p \in Gots \X (1..n) |-> Key(p[1], max, line[p[2]])]
  body(f) == [S \in SUBSET DOMAIN line |->
                IF S = {} THEN base ELSE Key(f[S \ {Max(S)}], max, line[Max(S)])]
  iter == CHOOSE f : f = body(f)
<1>1. GetLine(buf, max, line) = iter[DOMAIN line]
  BY DEF GetLine, FoldLeft, MapThenFoldSet
<1>2. n \in Nat /\ DOMAIN line = 1..n /\ \A k \in 1..n : line[k] \in Chars \cup {Erase}
  BY LineKeys
<1>3. base \in Gots
  BY ShellAssumption DEF Gots
<1> HIDE DEF n, base
<1>4. step \in [Gots \X (1..n) -> Gots]
  <2>1. \A p \in Gots \X (1..n) : p[1] \in Gots /\ p[2] \in 1..n
    OBVIOUS
  <2>2. \A p \in Gots \X (1..n) : Key(p[1], max, line[p[2]]) \in Gots
    BY <1>2, <2>1, KeyType
  <2>3. QED BY <2>2
<1>5. PICK f : Folds(f, n, Gots, base, step)
  <2> HIDE DEF step
  <2>1. QED BY <1>2, <1>3, <1>4, FoldIterates
<1>6. \A S \in SUBSET (1..n) : S # {} => Max(S) \in 1..n /\ S \ {Max(S)} \in SUBSET (1..n)
  BY <1>2, MaxInSet
<1>7. f = body(f)
  <2>1. f \in [SUBSET (1..n) -> Gots]
    BY <1>5 DEF Folds
  <2>2. ASSUME NEW S \in SUBSET (1..n), S # {}
        PROVE  f[S] = Key(f[S \ {Max(S)}], max, line[Max(S)])
    <3>1. f[S \ {Max(S)}] \in Gots /\ Max(S) \in 1..n
      BY <2>1, <2>2, <1>6
    <3>2. f[S] = step[<<f[S \ {Max(S)}], Max(S)>>]
      BY <1>5, <2>2 DEF Folds
    <3>3. QED BY <3>1, <3>2
  <2>3. f[{}] = base
    BY <1>5 DEF Folds
  <2>4. QED BY <2>1, <2>2, <2>3, <1>2
<1>8. iter = body(iter)
  <2> HIDE DEF body
  <2>1. QED BY <1>7
<1> HIDE DEF iter, step
<1>9. iter[{}] = base
  BY <1>8
<1>10. \A k \in 1..n : iter[1..k] = Key(iter[1..(k - 1)], max, line[k])
  <2>1. ASSUME NEW k \in 1..n PROVE iter[1..k] = Key(iter[1..(k - 1)], max, line[k])
    <3>1. Max(1..k) = k /\ (1..k) \ {k} = 1..(k - 1) /\ 1..k # {}
      BY PrefixMax
    <3>2. 1..k \in SUBSET (1..n)
      BY <1>2
    <3>3. QED BY <1>2, <1>8, <3>1, <3>2
  <2>2. QED BY <2>1
<1> DEFINE h == [k \in 0..n |-> iter[1..k]]
<1>11. h[0] = base
  <2>1. 1..0 = {}
    OBVIOUS
  <2>2. QED BY <1>2, <1>9, <2>1
<1>12. \A k \in 1..n : h[k] = Key(h[k - 1], max, line[k])
  BY <1>2, <1>10
<1>13. GetLine(buf, max, line) = h[n]
  BY <1>1, <1>2
<1>14. \A k \in 0..n : h[k] \in Gots
  <2> HIDE DEF h
  <2> DEFINE T == {k \in Nat : k <= n => h[k] \in Gots}
  <2>1. 0 \in T
    BY <1>3, <1>11
  <2>2. ASSUME NEW k \in Nat, k \in T PROVE k + 1 \in T
    <3>1. SUFFICES ASSUME k + 1 <= n PROVE h[k + 1] \in Gots
      OBVIOUS
    <3>2. h[k] \in Gots /\ k + 1 \in 1..n /\ (k + 1) - 1 = k
      BY <1>2, <2>2, <3>1
    <3>3. QED BY <1>2, <1>12, <3>2, KeyType
  <2>3. \A k \in Nat : k \in T
    <3>1. T \subseteq Nat /\ \A k \in T : k + 1 \in T
      BY <2>2
    <3> HIDE DEF T
    <3>2. QED BY <2>1, <3>1, Induction
  <2>4. QED BY <1>2, <2>3
<1>15. h \in [0..n -> Gots]
  BY <1>14
<1> HIDE DEF h
<1>16. QED BY <1>11, <1>12, <1>13, <1>15 DEF n, base

LEMMA EditedByType ==
  ASSUME NEW max \in 0..LineLen, NEW text \in Text, NEW c \in Chars \cup {Erase}
  PROVE  EditedBy(max, text, c) \in Text
<1>1. text \in Seq(Chars) /\ Len(text) \in Nat
  BY DEF Text
<1>2. Front(text) \in Seq(Chars)
  BY <1>1 DEF Front
<1>3. c # Erase => Append(text, c) \in Seq(Chars)
  BY <1>1
<1>4. QED BY <1>1, <1>2, <1>3 DEF EditedBy, Text

\* So is the text the operator means.
LEMMA EditedSteps ==
  ASSUME NEW max \in 0..LineLen, NEW line \in Lines
  PROVE  \E t \in [0..Len(line) -> Text] :
           /\ t[0] = <<>>
           /\ \A k \in 1..Len(line) : t[k] = EditedBy(max, t[k - 1], line[k])
           /\ Edited(max, line) = t[Len(line)]
<1> DEFINE
  n == Len(line)
  step == [p \in Text \X (1..n) |-> EditedBy(max, p[1], line[p[2]])]
  body(f) == [k \in 0..n |-> IF k = 0 THEN <<>> ELSE EditedBy(max, f[k - 1], line[k])]
  t == CHOOSE f : f = body(f)
<1>1. Edited(max, line) = t[n]
  BY DEF Edited
<1>2. n \in Nat /\ \A k \in 1..n : line[k] \in Chars \cup {Erase}
  BY LineKeys
<1>3. <<>> \in Text
  BY DEF Text
<1> HIDE DEF n
<1>4. step \in [Text \X (1..n) -> Text]
  <2>1. \A p \in Text \X (1..n) : p[1] \in Text /\ p[2] \in 1..n
    OBVIOUS
  <2>2. \A p \in Text \X (1..n) : EditedBy(max, p[1], line[p[2]]) \in Text
    BY <1>2, <2>1, EditedByType
  <2>3. QED BY <2>2
<1>5. \A x \in Text : \A k \in 1..n : step[<<x, k>>] = EditedBy(max, x, line[k])
  OBVIOUS
<1>6. PICK g : Recurs(g, n, Text, <<>>, step)
  <2> HIDE DEF step
  <2>1. QED BY <1>2, <1>3, <1>4, Recursion
<1> HIDE DEF step
<1>7. g = body(g)
  <2>1. g \in [0..n -> Text] /\ g[0] = <<>> /\ \A k \in 1..n : g[k] = step[<<g[k - 1], k>>]
    BY <1>6 DEF Recurs
  <2>2. \A k \in 1..n : g[k - 1] \in Text
    BY <1>2, <2>1
  <2>3. ASSUME NEW k \in 0..n
        PROVE  g[k] = IF k = 0 THEN <<>> ELSE EditedBy(max, g[k - 1], line[k])
    <3>1. CASE k = 0
      BY <2>1, <3>1
    <3>2. CASE k # 0
      <4>1. k \in 1..n
        BY <1>2, <3>2
      <4>2. g[k] = step[<<g[k - 1], k>>] /\ g[k - 1] \in Text
        BY <2>1, <2>2, <4>1
      <4>3. QED BY <1>5, <3>2, <4>1, <4>2
    <3>3. QED BY <3>1, <3>2
  <2>4. QED BY <2>1, <2>3
<1>8. t = body(t)
  <2> HIDE DEF body
  <2>1. QED BY <1>7
<1> HIDE DEF t
<1>9. /\ t = [k \in 0..n |-> t[k]] /\ t[0] = <<>>
      /\ \A k \in 1..n : t[k] = EditedBy(max, t[k - 1], line[k])
  <2>1. \A k \in 0..n : t[k] = IF k = 0 THEN <<>> ELSE EditedBy(max, t[k - 1], line[k])
    BY <1>8
  <2>2. t = [k \in 0..n |-> t[k]]
    BY <1>8
  <2>3. 0 \in 0..n /\ \A k \in 1..n : k \in 0..n /\ k # 0
    BY <1>2
  <2>4. QED BY <2>1, <2>2, <2>3
<1> HIDE DEF body
<1>10. Recurs(t, n, Text, <<>>, step)
  <2>1. \A k \in 1..n : t[k - 1] \in Text => t[k] = step[<<t[k - 1], k>>]
    BY <1>5, <1>9
  <2>2. QED BY <1>2, <1>3, <1>4, <1>9, <2>1, Determined
<1>11. t \in [0..n -> Text]
  BY <1>10 DEF Recurs
<1>12. QED BY <1>1, <1>9, <1>11 DEF n

(***************************************************************************)
(* What a line leaves in a buffer: the text the operator means, under the  *)
(* length SHELL_getLine returns, and beyond it what the buffer had or what *)
(* has been erased.                                                        *)
(***************************************************************************)

Holds(buf, max, k, got, text) ==
  /\ text \in Text /\ got.n = Len(text) /\ got.n <= max /\ got.n <= k
  /\ \A i \in 1..LineLen :
       IF i <= got.n THEN got.buf[i] = text[i] /\ got.buf[i] \in Chars
                     ELSE got.buf[i] \in {buf[i], NUL}

LEMMA KeyHolds ==
  ASSUME NEW buf \in Buffers, NEW max \in 0..LineLen, NEW c \in Chars \cup {Erase},
         NEW k \in Nat, NEW g \in Gots, NEW text, Holds(buf, max, k, g, text)
  PROVE  Holds(buf, max, k + 1, Key(g, max, c), EditedBy(max, text, c))
<1>1. /\ g.n \in 0..LineLen /\ g.n = Len(text) /\ g.n <= max /\ g.n <= k /\ text \in Seq(Chars)
      /\ \A i \in 1..LineLen : IF i <= g.n THEN g.buf[i] = text[i] /\ g.buf[i] \in Chars
                                           ELSE g.buf[i] \in {buf[i], NUL}
  BY DEF Holds, Gots, Text
<1>2. g.buf \in [1..LineLen -> Chars \cup {NUL}]
  BY DEF Gots, Buffers
<1> DEFINE g1 == Key(g, max, c)
           text1 == EditedBy(max, text, c)
<1>3. text1 \in Text
  BY EditedByType DEF Holds
<1> HIDE DEF g1, text1
<1>4. CASE c = Erase /\ g.n > 0
  <2>1. g1 = [n |-> g.n - 1, buf |-> [g.buf EXCEPT ![g.n] = NUL]]
    BY <1>1, <1>4 DEF Key, g1
  <2>2. g1.n = g.n - 1 /\ \A i \in 1..LineLen : g1.buf[i] = IF i = g.n THEN NUL ELSE g.buf[i]
    BY <1>2, <2>1
  <2>3. Len(text1) = g.n - 1 /\ \A i \in 1..(g.n - 1) : text1[i] = text[i]
    <3>1. text1 = SubSeq(text, 1, g.n - 1)
      BY <1>1, <1>4 DEF EditedBy, Front, text1
    <3>2. g.n \in Nat /\ g.n > 0
      BY <1>1, <1>4
    <3>3. PICK m \in Nat : m = g.n - 1 /\ m <= g.n
      BY <3>2
    <3>4. Len(SubSeq(text, 1, m)) = m /\ \A i \in 1..m : SubSeq(text, 1, m)[i] = text[i]
      BY <1>1, <3>3
    <3>5. QED BY <3>1, <3>3, <3>4
  <2>4. \A i \in 1..LineLen : i <= g.n - 1 <=> i <= g.n /\ i # g.n
    BY <1>1
  <2>5. \A i \in 1..LineLen : i <= g.n - 1 => i \in 1..(g.n - 1)
    BY <1>1
  <2>6. QED BY <1>1, <1>3, <1>4, <2>2, <2>3, <2>4, <2>5 DEF Holds, g1, text1
<1>5. CASE c # Erase /\ g.n < max
  <2>1. g1 = [n |-> g.n + 1, buf |-> [g.buf EXCEPT ![g.n + 1] = c]]
    BY <1>1, <1>5 DEF Key, g1
  <2>2. g1.n = g.n + 1 /\ \A i \in 1..LineLen : g1.buf[i] = IF i = g.n + 1 THEN c ELSE g.buf[i]
    BY <1>2, <2>1
  <2>3. /\ Len(text1) = g.n + 1 /\ text1[g.n + 1] = c
        /\ \A i \in 1..(g.n + 1) : i # g.n + 1 => text1[i] = text[i]
    <3>1. text1 = Append(text, c) /\ c \in Chars
      BY <1>1, <1>5 DEF EditedBy, text1
    <3>2. QED BY <1>1, <3>1
  <2>4. c \in Chars /\ \A i \in 1..LineLen : i <= g.n + 1 <=> i <= g.n \/ i = g.n + 1
    BY <1>1, <1>5
  <2>5. \A i \in 1..LineLen : i <= g.n + 1 => i \in 1..(g.n + 1)
    BY <1>1
  <2>6. QED BY <1>1, <1>3, <1>5, <2>2, <2>3, <2>4, <2>5 DEF Holds, g1, text1
<1>6. CASE ~(c = Erase /\ g.n > 0) /\ ~(c # Erase /\ g.n < max)
  <2>1. g1 = g
    BY <1>1, <1>6 DEF Key, g1
  <2>2. text1 = text
    <3>1. CASE c = Erase
      <4>1. Len(text) = 0
        BY <1>1, <1>6, <3>1
      <4>2. text = <<>> /\ Front(text) = <<>>
        BY <1>1, <4>1 DEF Front
      <4>3. QED BY <3>1, <4>2 DEF EditedBy, text1
    <3>2. CASE c # Erase
      BY <1>1, <1>6, <3>2 DEF EditedBy, text1
    <3>3. QED BY <3>1, <3>2
  <2>3. QED BY <1>1, <1>3, <2>1, <2>2 DEF Holds, g1, text1
<1>7. QED BY <1>4, <1>5, <1>6

LEMMA LineTyped ==
  ASSUME NEW buf \in Buffers, NEW max \in 0..LineLen, NEW line \in Lines
  PROVE  LET got == GetLine(buf, max, line)
         IN  got \in Gots /\ Holds(buf, max, Len(line), got, Edited(max, line))
<1> DEFINE n == Len(line)
<1>1. PICK g \in [0..n -> Gots] :
        /\ g[0] = [n |-> 0, buf |-> buf]
        /\ \A k \in 1..n : g[k] = Key(g[k - 1], max, line[k])
        /\ GetLine(buf, max, line) = g[n]
  BY LineSteps
<1>2. PICK t \in [0..n -> Text] :
        /\ t[0] = <<>>
        /\ \A k \in 1..n : t[k] = EditedBy(max, t[k - 1], line[k])
        /\ Edited(max, line) = t[n]
  BY EditedSteps
<1>3. n \in Nat /\ \A k \in 1..n : line[k] \in Chars \cup {Erase}
  BY LineKeys
<1> HIDE DEF n
<1> DEFINE T == {k \in Nat : k <= n => Holds(buf, max, k, g[k], t[k])}
<1>4. 0 \in T
  <2>1. <<>> \in Text /\ Len(<<>>) = 0
    BY DEF Text
  <2>2. g[0].n = 0 /\ g[0].buf = buf /\ t[0] = <<>>
    BY <1>1, <1>2
  <2>3. QED BY <2>1, <2>2, Sizes DEF Holds
<1>5. ASSUME NEW k \in T PROVE k + 1 \in T
  <2>1. SUFFICES ASSUME k + 1 <= n PROVE Holds(buf, max, k + 1, g[k + 1], t[k + 1])
    OBVIOUS
  <2>2. k \in Nat /\ k + 1 \in 1..n /\ (k + 1) - 1 = k /\ Holds(buf, max, k, g[k], t[k])
    BY <1>3, <2>1
  <2>3. g[k] \in Gots /\ g[k + 1] = Key(g[k], max, line[k + 1])
    BY <1>1, <1>3, <2>2
  <2>4. t[k + 1] = EditedBy(max, t[k], line[k + 1])
    BY <1>2, <2>2
  <2>5. line[k + 1] \in Chars \cup {Erase}
    BY <1>3, <2>2
  <2>6. Holds(buf, max, k + 1, Key(g[k], max, line[k + 1]), EditedBy(max, t[k], line[k + 1]))
    BY <2>2, <2>3, <2>5, KeyHolds
  <2>7. QED BY <2>3, <2>4, <2>6
<1>6. n \in T
  <2>1. T \subseteq Nat
    OBVIOUS
  <2> HIDE DEF T
  <2>2. QED BY <1>3, <1>4, <1>5, <2>1, Induction
<1>7. g[n] \in Gots /\ Holds(buf, max, n, g[n], t[n])
  BY <1>1, <1>3, <1>6
<1>8. QED BY <1>1, <1>2, <1>7 DEF n

(***************************************************************************)
(* Strings in a buffer                                                     *)
(***************************************************************************)

LEMMA Prefix ==
  ASSUME NEW buf \in Buffers, NEW n \in 0..LineLen
  PROVE  /\ SubSeq(buf, 1, n) = [i \in 1..n |-> buf[i]]
         /\ SubSeq(buf, 1, n) \in Seq(Chars \cup {NUL})
         /\ Len(SubSeq(buf, 1, n)) = n
         /\ (\A i \in 1..n : buf[i] \in Chars) => SubSeq(buf, 1, n) \in Text
<1>1. buf \in Seq(Chars \cup {NUL}) /\ Len(buf) = LineLen
  BY Sizes DEF Buffers
<1>2. SubSeq(buf, 1, n) = [i \in 1..n |-> buf[i]]
  BY <1>1
<1>3. \A i \in 1..n : buf[i] \in Chars \cup {NUL}
  BY Sizes DEF Buffers
<1>4. QED BY <1>2, <1>3 DEF Text

\* The text of a line: as long as SHELL_getLine says, and shorter than the buffer.
LEMMA EditedText ==
  ASSUME NEW max \in 0..LineLen, NEW line \in Lines
  PROVE  /\ Edited(max, line) \in Text /\ Len(Edited(max, line)) <= max
         /\ Len(Edited(max, line)) < LineLen
<1> DEFINE got == GetLine(Zeros, max, line)
           text == Edited(max, line)
<1>1. got \in Gots /\ Holds(Zeros, max, Len(line), got, text)
  BY LineTyped, ZerosBuffer
<1> HIDE DEF got, text
<1>2. text \in Text /\ got.n = Len(text) /\ got.n \in 0..LineLen /\ got.n <= max /\ got.n <= Len(line)
  BY <1>1 DEF Holds, Gots
<1>3. QED BY <1>2, LineKeys, Sizes DEF text

\* A command finds in its buffer what was typed, whatever was there.
LEMMA ReadIsEdited ==
  ASSUME NEW buf \in Buffers, NEW max \in 0..LineLen, NEW line \in Lines
  PROVE  ReadInto(buf, max, line) = Edited(max, line)
<1> DEFINE got == GetLine(buf, max, line)
           text == Edited(max, line)
<1>1. got \in Gots /\ Holds(buf, max, Len(line), got, text)
  BY LineTyped
<1>2. ReadInto(buf, max, line) = SubSeq(got.buf, 1, got.n)
  BY DEF ReadInto
<1> HIDE DEF got, text
<1>3. /\ got.n \in 0..LineLen /\ got.n = Len(text) /\ got.buf \in Buffers /\ text \in Seq(Chars)
      /\ \A i \in 1..got.n : got.buf[i] = text[i]
  BY <1>1, Sizes DEF Holds, Gots, Text
<1>4. SubSeq(got.buf, 1, got.n) = [i \in 1..got.n |-> got.buf[i]]
  BY <1>3, Prefix
<1>5. text = [i \in 1..got.n |-> text[i]]
  BY <1>3
<1>6. QED BY <1>2, <1>3, <1>4, <1>5 DEF text

\* The string in a buffer ends before the first zero.
LEMMA CStringEnds ==
  ASSUME NEW buf \in Buffers, NEW n \in 0..LineLen,
         \A i \in 1..n : buf[i] # NUL, n = LineLen \/ buf[n + 1] = NUL
  PROVE  CString(buf) = SubSeq(buf, 1, n)
<1> DEFINE End(k) == (\A i \in 1..k : buf[i] # NUL) /\ (k = Len(buf) \/ buf[k + 1] = NUL)
<1>1. Len(buf) = LineLen
  BY Sizes DEF Buffers
<1>2. n \in 0..Len(buf) /\ End(n)
  BY <1>1
<1>3. ASSUME NEW k \in 0..Len(buf), End(k) PROVE k = n
  <2>1. ~(k < n)
    BY <1>1, <1>3, Sizes
  <2>2. ~(n < k)
    BY <1>1, <1>3, Sizes
  <2>3. QED BY <1>1, <2>1, <2>2, Sizes
<1>4. (CHOOSE k \in 0..Len(buf) : End(k)) = n
  BY <1>2, <1>3
<1>5. QED BY <1>4 DEF CString

\* A line is a string of its own where the byte behind it is zero.
LEMMA StringTyped ==
  ASSUME NEW buf \in Buffers, NEW max \in 0..LineLen, NEW line \in Lines,
         buf[Len(Edited(max, line)) + 1] = NUL
  PROVE  CString(GetLine(buf, max, line).buf) = Edited(max, line)
<1> DEFINE got == GetLine(buf, max, line)
           text == Edited(max, line)
<1>1. got \in Gots /\ Holds(buf, max, Len(line), got, text) /\ Len(text) < LineLen
  BY LineTyped, EditedText
<1>2. SubSeq(got.buf, 1, got.n) = text
  BY ReadIsEdited DEF ReadInto
<1>3. NUL \notin Chars
  BY ShellAssumption
<1> HIDE DEF got
<1>4. PICK n \in 0..LineLen : n = got.n /\ n = Len(text) /\ n < LineLen
  BY <1>1 DEF Holds, Gots
<1>5. got.buf \in Buffers /\ (\A i \in 1..n : got.buf[i] # NUL) /\ got.buf[n + 1] = NUL
  BY <1>1, <1>3, <1>4, Sizes DEF Holds, Gots
<1>6. CString(got.buf) = SubSeq(got.buf, 1, n)
  BY <1>5, CStringEnds
<1>7. QED BY <1>2, <1>4, <1>6 DEF got

\* The buffers of 's' and 'p' hold nothing but the line.
LEMMA EnteredText ==
  ASSUME NEW max \in 0..LineLen, NEW line \in Lines
  PROVE  /\ CString(GetLine(Zeros, max, line).buf) = Edited(max, line)
         /\ GetLine(Zeros, max, line).n = Len(Edited(max, line))
<1>1. PICK n \in Nat : n = Len(Edited(max, line)) /\ n < LineLen
  BY EditedText DEF Text
<1>2. Zeros[n + 1] = NUL
  BY <1>1, ZerosBuffer, Sizes
<1>3. GetLine(Zeros, max, line).n = Len(Edited(max, line))
  BY LineTyped, ZerosBuffer DEF Holds
<1>4. QED BY <1>1, <1>2, <1>3, ZerosBuffer, StringTyped

LEMMA CStringText ==
  ASSUME NEW buf \in Buffers
  PROVE  CString(buf) \in Text
<1> DEFINE T == {k \in 0..LineLen : k = LineLen \/ buf[k + 1] = NUL}
<1>1. T \in SUBSET Nat /\ T # {}
  BY Sizes
<1>2. PICK n \in T : \A k \in T : n <= k
  <2> HIDE DEF T
  <2>1. QED BY <1>1, LeastNumber
<1>3. \A i \in 1..n : buf[i] # NUL
  <2>1. ASSUME NEW i \in 1..n, buf[i] = NUL PROVE FALSE
    <3>1. i - 1 \in T
      BY <2>1, Sizes
    <3>2. QED BY <1>2, <3>1
  <2>2. QED BY <2>1
<1>4. \A i \in 1..n : buf[i] \in Chars
  BY <1>3, Sizes DEF Buffers
<1>5. CString(buf) = SubSeq(buf, 1, n)
  BY <1>2, <1>3, CStringEnds
<1>6. QED BY <1>2, <1>4, <1>5, Prefix

(***************************************************************************)
(* Numbers: command '4' computes in an int, so that what it makes of a     *)
(* line is the number that the digits say, modulo the values of an int.    *)
(***************************************************************************)

LEMMA DivUnique ==
  ASSUME NEW a \in Nat, NEW m \in Nat \ {0}, NEW q \in Nat, NEW r \in 0..(m - 1), a = q * m + r
  PROVE  a \div m = q /\ a % m = r
OBVIOUS

LEMMA DivMod ==
  ASSUME NEW a \in Nat, NEW m \in Nat \ {0}
  PROVE  /\ a \div m \in Nat /\ a % m \in 0..(m - 1)
         /\ a = (a \div m) * m + (a % m)
<1>1. a \div m \in Nat
  OBVIOUS
<1>2. a % m \in 0..(m - 1)
  OBVIOUS
<1>3. a = (a \div m) * m + (a % m)
  OBVIOUS
<1>4. QED BY <1>1, <1>2, <1>3

LEMMA Modulus == IntMod \in Nat \ {0} /\ MaxPort \in Nat \ {0} /\ MaxPort <= IntMod
<1>1. IntMod \in Nat /\ MaxPort \in 1..(IntMod \div 2)
  BY ShellAssumption
<1>2. IntMod \div 2 \in Nat /\ IntMod \div 2 <= IntMod
  BY <1>1
<1>3. QED BY <1>1, <1>2

LEMMA DigitValues == \A c \in Digits : DigitValue[c] \in Nat
BY ShellAssumption

\* A digit appended to a wrapped number.
LEMMA ModStep ==
  ASSUME NEW a \in Nat, NEW d \in Nat, NEW m \in Nat \ {0}
  PROVE  ((a % m) * 10 + d) % m = (a * 10 + d) % m
<1>1. PICK q \in Nat, r \in 0..(m - 1) : a = q * m + r /\ a % m = r
  BY DivMod
<1>2. PICK u \in Nat, x \in 0..(m - 1) : r * 10 + d = u * m + x /\ (r * 10 + d) % m = x
  <2>1. r * 10 + d \in Nat
    OBVIOUS
  <2>2. QED BY <2>1, DivMod
<1>3. a * 10 + d = (q * 10 + u) * m + x
  <2>1. (q * 10 + u) * m = (q * m) * 10 + u * m
    <3>1. \A i, j, k \in Int : (i * 10 + j) * k = (i * k) * 10 + j * k
      OBVIOUS
    <3>2. QED BY <3>1
  <2>2. q * m \in Nat /\ u * m \in Nat
    OBVIOUS
  <2>3. QED BY <1>1, <1>2, <2>1, <2>2
<1>4. a * 10 + d \in Nat /\ q * 10 + u \in Nat
  OBVIOUS
<1>5. (a * 10 + d) % m = x
  BY <1>3, <1>4, DivUnique
<1>6. QED BY <1>1, <1>2, <1>5

\* The number that digits say is made digit by digit.
LEMMA NumberOfSteps ==
  ASSUME NEW s \in Text, \A i \in 1..Len(s) : s[i] \in Digits
  PROVE  \E f \in [0..Len(s) -> Nat] :
           /\ f[0] = 0
           /\ \A i \in 1..Len(s) : f[i] = f[i - 1] * 10 + DigitValue[s[i]]
           /\ NumberOf(s) = f[Len(s)]
<1> DEFINE
  n == Len(s)
  step == [p \in Nat \X (1..n) |-> p[1] * 10 + DigitValue[s[p[2]]]]
  body(f) == [i \in 0..n |-> IF i = 0 THEN 0 ELSE f[i - 1] * 10 + DigitValue[s[i]]]
  f == CHOOSE g : g = body(g)
<1>1. NumberOf(s) = f[n]
  BY DEF NumberOf
<1>2. n \in Nat /\ \A i \in 1..n : DigitValue[s[i]] \in Nat
  BY DigitValues DEF Text
<1> HIDE DEF n
<1>3. \A x \in Nat : \A i \in 1..n : x * 10 + DigitValue[s[i]] \in Nat
  BY <1>2, Modulus
<1>4. step \in [Nat \X (1..n) -> Nat] /\ \A x \in Nat : \A i \in 1..n : step[<<x, i>>] = x * 10 + DigitValue[s[i]]
  BY <1>3
<1> HIDE DEF step
<1>5. PICK g : Recurs(g, n, Nat, 0, step)
  BY <1>2, <1>4, Recursion
<1>6. g = body(g)
  <2>1. g \in [0..n -> Nat] /\ g[0] = 0 /\ \A i \in 1..n : g[i] = step[<<g[i - 1], i>>]
    BY <1>5 DEF Recurs
  <2>2. ASSUME NEW i \in 0..n
        PROVE  g[i] = IF i = 0 THEN 0 ELSE g[i - 1] * 10 + DigitValue[s[i]]
    <3>1. CASE i = 0
      BY <2>1, <3>1
    <3>2. CASE i # 0
      <4>1. i \in 1..n /\ i - 1 \in 0..n
        BY <1>2, <3>2
      <4>2. g[i] = step[<<g[i - 1], i>>] /\ g[i - 1] \in Nat
        BY <2>1, <4>1
      <4>3. QED BY <1>4, <3>2, <4>1, <4>2
    <3>3. QED BY <3>1, <3>2
  <2>3. QED BY <2>1, <2>2
<1>7. f = body(f)
  <2> HIDE DEF body
  <2>1. QED BY <1>6
<1> HIDE DEF f
<1>8. /\ f = [i \in 0..n |-> f[i]] /\ f[0] = 0
      /\ \A i \in 1..n : f[i] = f[i - 1] * 10 + DigitValue[s[i]]
  <2>1. \A i \in 0..n : f[i] = IF i = 0 THEN 0 ELSE f[i - 1] * 10 + DigitValue[s[i]]
    BY <1>7
  <2>2. f = [i \in 0..n |-> f[i]]
    BY <1>7
  <2>3. 0 \in 0..n /\ \A i \in 1..n : i \in 0..n /\ i # 0
    BY <1>2
  <2>4. QED BY <2>1, <2>2, <2>3
<1> HIDE DEF body
<1>9. Recurs(f, n, Nat, 0, step)
  <2>1. \A i \in 1..n : f[i - 1] \in Nat => f[i] = step[<<f[i - 1], i>>]
    BY <1>4, <1>8
  <2>2. QED BY <1>2, <1>4, <1>8, <2>1, Determined
<1>10. f \in [0..n -> Nat]
  BY <1>9 DEF Recurs
<1>11. QED BY <1>1, <1>8, <1>10 DEF n

\* The number that command '4' makes of them is made digit by digit.
LEMMA ConvertedSteps ==
  ASSUME NEW s \in Text, \A i \in 1..Len(s) : s[i] \in Digits
  PROVE  \E f \in [0..Len(s) -> Nat] :
           /\ f[0] = 0
           /\ \A i \in 1..Len(s) : f[i] = (f[i - 1] * 10 + DigitValue[s[i]]) % IntMod
           /\ Converted(s) = f[Len(s)]
<1> DEFINE
  n == Len(s)
  step == [p \in Nat \X (1..n) |-> (p[1] * 10 + DigitValue[s[p[2]]]) % IntMod]
  body(f) == [i \in 0..n |-> IF i = 0 THEN 0 ELSE (f[i - 1] * 10 + DigitValue[s[i]]) % IntMod]
  f == CHOOSE g : g = body(g)
<1>1. Converted(s) = f[n]
  BY DEF Converted
<1>2. n \in Nat /\ \A i \in 1..n : DigitValue[s[i]] \in Nat
  BY DigitValues DEF Text
<1> HIDE DEF n
<1>3. \A x \in Nat : \A i \in 1..n : (x * 10 + DigitValue[s[i]]) % IntMod \in Nat
  BY <1>2, Modulus
<1>4. step \in [Nat \X (1..n) -> Nat] /\ \A x \in Nat : \A i \in 1..n : step[<<x, i>>] = (x * 10 + DigitValue[s[i]]) % IntMod
  BY <1>3
<1> HIDE DEF step
<1>5. PICK g : Recurs(g, n, Nat, 0, step)
  BY <1>2, <1>4, Recursion
<1>6. g = body(g)
  <2>1. g \in [0..n -> Nat] /\ g[0] = 0 /\ \A i \in 1..n : g[i] = step[<<g[i - 1], i>>]
    BY <1>5 DEF Recurs
  <2>2. ASSUME NEW i \in 0..n
        PROVE  g[i] = IF i = 0 THEN 0 ELSE (g[i - 1] * 10 + DigitValue[s[i]]) % IntMod
    <3>1. CASE i = 0
      BY <2>1, <3>1
    <3>2. CASE i # 0
      <4>1. i \in 1..n /\ i - 1 \in 0..n
        BY <1>2, <3>2
      <4>2. g[i] = step[<<g[i - 1], i>>] /\ g[i - 1] \in Nat
        BY <2>1, <4>1
      <4>3. QED BY <1>4, <3>2, <4>1, <4>2
    <3>3. QED BY <3>1, <3>2
  <2>3. QED BY <2>1, <2>2
<1>7. f = body(f)
  <2> HIDE DEF body
  <2>1. QED BY <1>6
<1> HIDE DEF f
<1>8. /\ f = [i \in 0..n |-> f[i]] /\ f[0] = 0
      /\ \A i \in 1..n : f[i] = (f[i - 1] * 10 + DigitValue[s[i]]) % IntMod
  <2>1. \A i \in 0..n : f[i] = IF i = 0 THEN 0 ELSE (f[i - 1] * 10 + DigitValue[s[i]]) % IntMod
    BY <1>7
  <2>2. f = [i \in 0..n |-> f[i]]
    BY <1>7
  <2>3. 0 \in 0..n /\ \A i \in 1..n : i \in 0..n /\ i # 0
    BY <1>2
  <2>4. QED BY <2>1, <2>2, <2>3
<1> HIDE DEF body
<1>9. Recurs(f, n, Nat, 0, step)
  <2>1. \A i \in 1..n : f[i - 1] \in Nat => f[i] = step[<<f[i - 1], i>>]
    BY <1>4, <1>8
  <2>2. QED BY <1>2, <1>4, <1>8, <2>1, Determined
<1>10. f \in [0..n -> Nat]
  BY <1>9 DEF Recurs
<1>11. QED BY <1>1, <1>8, <1>10 DEF n

LEMMA ConvertedNumber ==
  ASSUME NEW s \in Text, \A i \in 1..Len(s) : s[i] \in Digits
  PROVE  Converted(s) = NumberOf(s) % IntMod
<1> DEFINE n == Len(s)
<1>1. PICK f \in [0..n -> Nat] :
        /\ f[0] = 0
        /\ \A i \in 1..n : f[i] = f[i - 1] * 10 + DigitValue[s[i]]
        /\ NumberOf(s) = f[n]
  BY NumberOfSteps
<1>2. PICK g \in [0..n -> Nat] :
        /\ g[0] = 0
        /\ \A i \in 1..n : g[i] = (g[i - 1] * 10 + DigitValue[s[i]]) % IntMod
        /\ Converted(s) = g[n]
  BY ConvertedSteps
<1>3. n \in Nat /\ \A i \in 1..n : DigitValue[s[i]] \in Nat
  <2>1. n \in Nat
    BY DEF Text
  <2>2. ASSUME NEW i \in 1..n PROVE DigitValue[s[i]] \in Nat
    <3>1. s[i] \in Digits
      OBVIOUS
    <3>2. QED BY Zenon, <3>1, DigitValues
  <2>3. QED BY <2>1, <2>2
<1> HIDE DEF n
<1> DEFINE T == {k \in Nat : k <= n => g[k] = f[k] % IntMod}
<1>4. 0 \in T
  <2>1. 0 % IntMod = 0
    BY Modulus
  <2>2. QED BY <1>1, <1>2, <2>1
<1>5. ASSUME NEW k \in T PROVE k + 1 \in T
  <2>1. SUFFICES ASSUME k + 1 <= n PROVE g[k + 1] = f[k + 1] % IntMod
    OBVIOUS
  <2>2. k \in Nat /\ k + 1 \in 1..n /\ (k + 1) - 1 = k /\ g[k] = f[k] % IntMod /\ f[k] \in Nat
    BY <1>1, <1>3, <2>1
  <2>3. f[k + 1] = f[k] * 10 + DigitValue[s[k + 1]]
    BY <1>1, <2>2
  <2>4. g[k + 1] = (g[k] * 10 + DigitValue[s[k + 1]]) % IntMod
    BY <1>2, <2>2
  <2>5. DigitValue[s[k + 1]] \in Nat
    BY <1>3, <2>2
  <2>6. ((f[k] % IntMod) * 10 + DigitValue[s[k + 1]]) % IntMod = (f[k] * 10 + DigitValue[s[k + 1]]) % IntMod
    BY <2>2, <2>5, Modulus, ModStep
  <2>7. QED BY <2>2, <2>3, <2>4, <2>6
<1>6. n \in T
  <2>1. T \subseteq Nat
    OBVIOUS
  <2> HIDE DEF T
  <2>2. QED BY <1>3, <1>4, <1>5, <2>1, Induction
<1>7. QED BY <1>1, <1>2, <1>3, <1>6

-----------------------------------------------------------------------------
(***************************************************************************)
(* The inductive invariant: what a prompt may rely on                      *)
(***************************************************************************)

\* The line <<"?">> alone in the zeroed buffer.
AskedPassword == [i \in 1..LineLen |-> IF i = 1 THEN "?" ELSE NUL]

\* At each prompt, what the prompts of its command before it have left.
Entered ==
  /\ pc = "passwd" => "?" \in Chars /\ pInputLine = AskedPassword
  /\ pc \notin {"address", "netConfirm"} => newAddrs = <<>>
  /\ pc = "address" => Len(newAddrs) < 3
  /\ pc = "netConfirm" => Len(newAddrs) = 3
  /\ pc \notin {"again", "serialConfirm"} => newText = <<>>
  /\ pc = "again" => newText # <<>> /\ Len(newText) < PasswdLen
  /\ pc \in {"again", "serialConfirm"} => newText = typed
  /\ pc = "portConfirm" => newPort = NumberOf(typed) % IntMod /\ newPort \in Ports

\* The settings in effect and those a restart would find: where they differ, the
\* flag is set, and only on the way to the save.
Settings ==
  /\ {xConfig, stored} \subseteq Configs /\ nSaves \in 0..MaxSaves
  /\ Len(xConfig.net) = 3 /\ Fits(xConfig)
  /\ Len(stored.net) = 3 /\ Fits(stored)
  /\ bUpdatedConfig \in BOOLEAN /\ bStop \in BOOLEAN
  /\ bUpdatedConfig = FALSE => xConfig = stored

NoFlags == bUpdatedConfig = FALSE /\ bStop = FALSE

IInv == TypeOK /\ Entered /\ Settings /\ (pc # "save" => NoFlags)

LEMMA EmptyText == <<>> \in Text /\ <<>> \in Seq(Text) /\ Len(<<>>) = 0
BY DEF Text

LEMMA InitInv == Init => IInv
<1> SUFFICES ASSUME Init PROVE IInv
  OBVIOUS
<1>1. bUpdatedConfig \in BOOLEAN /\ bStop \in BOOLEAN /\ NoFlags
  BY Zenon DEF Init, NoFlags
<1>2. TypeOK
  <2>1. Len(<<>>) <= (IF pc = "again" THEN PasswdLen - 1 ELSE SerialLen) /\ Len(<<>>) < LineLen
    BY EmptyText, Sizes
  <2>2. DefaultConfig \in Configs /\ Len(DefaultConfig.net) = 3 /\ 0 \in 0..MaxSaves
    BY ShellAssumption
  <2>3. 0 \in 0..(MaxPort - 1)
    BY Modulus
  <2>4. QED BY <1>1, <2>1, <2>2, <2>3, EmptyText, ZerosBuffer DEF Init, TypeOK, Prompts, Buffers
<1>3. Entered
  BY DEF Init, Entered
<1>4. Settings
  BY <1>1, ShellAssumption DEF Init, Settings
<1>5. QED BY <1>1, <1>2, <1>3, <1>4 DEF IInv

(***************************************************************************)
(* What the actions are made of                                            *)
(***************************************************************************)

LEMMA LineBuffer ==
  ASSUME NEW buf \in Buffers, NEW max \in 0..LineLen, NEW line \in Lines
  PROVE  GetLine(buf, max, line).buf \in Buffers
BY LineTyped DEF Gots

LEMMA ReadsBuffer ==
  ASSUME TypeOK, NEW max \in 0..LineLen, NEW line \in Lines, Reads(max, line)
  PROVE  pInputLine' \in Buffers
BY LineBuffer DEF TypeOK, Reads, Buffers

LEMMA KeepsInv ==
  ASSUME IInv, KeepsConfig
  PROVE  Settings' /\ (pc # "save" => NoFlags')
BY DEF IInv, KeepsConfig, Settings, NoFlags

LEMMA ChangesInv ==
  ASSUME IInv, NEW config \in Configs, Len(config.net) = 3, Fits(config), Changes(config)
  PROVE  Settings'
<1>1. nSaves + 1 \in 0..MaxSaves
  BY ShellAssumption DEF IInv, Settings, Changes
<1>2. QED BY <1>1 DEF IInv, Changes, Settings

\* The end of a command, whether it has changed the settings or not.
LEMMA EndInv ==
  ASSUME IInv, EndCommand, pInputLine' \in Buffers,
         \/ Settings'
         \/ KeepsConfig
         \/ \E config \in Configs : Len(config.net) = 3 /\ Fits(config) /\ Changes(config)
  PROVE  IInv'
<1>1. Settings'
  BY KeepsInv, ChangesInv
<1>2. TypeOK'
  <2>1. Len(<<>>) <= SerialLen /\ Len(<<>>) < LineLen
    BY EmptyText, Sizes
  <2>2. pc' = "save" /\ newAddrs' = <<>> /\ newServer' = <<>> /\ newPort' = 0 /\ newText' = <<>>
        /\ typed' = <<>>
    BY DEF EndCommand
  <2>3. 0 \in 0..(MaxPort - 1)
    BY Modulus
  <2>4. QED BY <1>1, <2>1, <2>2, <2>3, EmptyText DEF TypeOK, Settings, Prompts, Buffers
<1>3. Entered' /\ pc' = "save"
  BY DEF EndCommand, Entered
<1>4. QED BY <1>1, <1>2, <1>3 DEF IInv

\* From a prompt where nothing has been entered to another one.
Plain == (Prompts \cup {"gone"}) \ {"passwd", "netConfirm", "again", "serialConfirm", "portConfirm"}

LEMMA GoesInv ==
  ASSUME IInv, pc # "save", NEW prompt \in Plain, GoesTo(prompt), KeepsConfig, pInputLine' \in Buffers,
         newAddrs = <<>>, newText = <<>>
  PROVE  IInv'
<1>1. Settings' /\ NoFlags'
  BY KeepsInv
<1>2. /\ pc' = prompt /\ typed' = <<>> /\ newAddrs' = <<>> /\ newText' = <<>>
      /\ newServer' = newServer /\ newPort' = newPort
  BY DEF GoesTo, locals
<1>3. TypeOK'
  <2>1. Len(<<>>) <= SerialLen /\ Len(<<>>) < LineLen
    BY EmptyText, Sizes
  <2>2. prompt \in Prompts \cup {"gone"} /\ prompt # "again"
    BY DEF Plain
  <2>3. newServer \in Text /\ newPort \in 0..(MaxPort - 1)
    BY DEF IInv, TypeOK
  <2>4. QED BY <1>1, <1>2, <2>1, <2>2, <2>3, EmptyText DEF TypeOK, Settings, Buffers
<1>4. Entered'
  BY <1>2, EmptyText DEF Entered, Plain
<1>5. QED BY <1>1, <1>3, <1>4 DEF IInv

LEMMA InvFacts ==
  ASSUME IInv
  PROVE  /\ TypeOK /\ Entered /\ pInputLine \in Buffers
         /\ Settings /\ xConfig \in Configs /\ Len(xConfig.net) = 3 /\ Fits(xConfig)
BY DEF IInv, TypeOK, Buffers, Settings

\* What a command finds under the length of its line is what was typed.
LEMMA LineReadEdited ==
  ASSUME TypeOK, NEW max \in 0..LineLen, NEW line \in Lines
  PROVE  LineRead(max, line) = Edited(max, line)
BY ReadIsEdited DEF TypeOK, LineRead, Buffers

(***************************************************************************)
(* One lemma per action                                                    *)
(***************************************************************************)

\* Where a prompt reads a question mark into the zeroed buffer, nothing else is in it.
LEMMA QuestionMark ==
  ASSUME NEW line \in Lines, ReadInto(Zeros, LineLen, line) = <<"?">>
  PROVE  "?" \in Chars /\ GetLine(Zeros, LineLen, line).buf = AskedPassword
<1> DEFINE got == GetLine(Zeros, LineLen, line)
           text == Edited(LineLen, line)
<1>1. got \in Gots /\ Holds(Zeros, LineLen, Len(line), got, text)
  BY LineTyped, ZerosBuffer, Sizes
<1>2. text = <<"?">>
  BY ReadIsEdited, ZerosBuffer, Sizes
<1> HIDE DEF got, text
<1>3. got.n = 1 /\ text[1] = "?"
  BY <1>1, <1>2 DEF Holds
<1>4. /\ got.buf \in Buffers
      /\ \A i \in 1..LineLen : IF i <= 1 THEN got.buf[i] = text[i] /\ got.buf[i] \in Chars
                                         ELSE got.buf[i] = NUL
  BY <1>1, <1>3, ZerosBuffer DEF Holds, Gots
<1>5. \A i \in 1..LineLen : got.buf[i] = AskedPassword[i]
  BY <1>3, <1>4, Sizes DEF AskedPassword
<1>6. got.buf = AskedPassword
  BY <1>4, <1>5 DEF Buffers, AskedPassword
<1>7. QED BY <1>3, <1>4, <1>6, Sizes DEF got

LEMMA PromptStep ==
  ASSUME IInv, NEW line \in Lines, Prompt(line)
  PROVE  IInv'
<1>1. pInputLine' \in Buffers
  BY LineBuffer, ZerosBuffer, Sizes DEF Prompt
<1>2. newAddrs = <<>> /\ newText = <<>> /\ pc # "save"
  BY InvFacts DEF Prompt, Entered
<1>3. CASE ReadInto(Zeros, LineLen, line) # <<"?">>
  <2>1. GoesTo("prompt") /\ KeepsConfig /\ "prompt" \in Plain
    BY <1>3 DEF Prompt, Plain, Prompts
  <2>2. QED BY <1>1, <1>2, <2>1, GoesInv
<1>4. CASE ReadInto(Zeros, LineLen, line) = <<"?">>
  <2>1. "?" \in Chars /\ pInputLine' = AskedPassword
    BY <1>4, QuestionMark DEF Prompt
  <2>2. /\ pc' = "passwd" /\ typed' = <<>> /\ newAddrs' = <<>> /\ newText' = <<>>
        /\ newServer' = newServer /\ newPort' = newPort
    BY <1>2, <1>4 DEF Prompt, GoesTo, locals
  <2>3. Settings' /\ NoFlags'
    BY KeepsInv DEF Prompt
  <2>4. TypeOK'
    <3>1. Len(<<>>) <= SerialLen /\ Len(<<>>) < LineLen
      BY EmptyText, Sizes
    <3>2. newServer \in Text /\ newPort \in 0..(MaxPort - 1)
      BY DEF IInv, TypeOK
    <3>3. QED BY <1>1, <2>2, <2>3, <3>1, <3>2, EmptyText DEF TypeOK, Settings, Prompts, Buffers
  <2>5. Entered'
    BY <2>1, <2>2 DEF Entered, AskedPassword
  <2>6. QED BY <2>3, <2>4, <2>5 DEF IInv
<1>5. QED BY <1>3, <1>4

LEMMA PasswdStep ==
  ASSUME IInv, NEW line \in Lines, Passwd(line)
  PROVE  IInv'
<1>1. pInputLine' \in Buffers
  BY ReadsBuffer, InvFacts, Sizes DEF Passwd
<1>2. newAddrs = <<>> /\ newText = <<>> /\ KeepsConfig /\ pc # "save"
  BY InvFacts DEF Passwd, Entered
<1>3. CASE CString(pInputLine') # xConfig.pPasswd
  <2>1. GoesTo("prompt") /\ "prompt" \in Plain
    BY <1>3 DEF Passwd, Plain, Prompts
  <2>2. QED BY <1>1, <1>2, <2>1, GoesInv
<1>4. CASE CString(pInputLine') = xConfig.pPasswd
  <2>1. pc' = "menu" /\ typed' = Edited(LineLen, line) /\ newAddrs' = <<>> /\ newText' = <<>>
        /\ newServer' = newServer /\ newPort' = newPort
    BY <1>2, <1>4 DEF Passwd, locals
  <2>2. Settings' /\ NoFlags'
    BY <1>2, KeepsInv
  <2>3. typed' \in Text /\ Len(typed') < LineLen
    BY <2>1, EditedText, Sizes
  <2>4. TypeOK'
    <3>1. Len(<<>>) <= SerialLen
      BY EmptyText, Sizes
    <3>2. newServer \in Text /\ newPort \in 0..(MaxPort - 1)
      BY DEF IInv, TypeOK
    <3>3. QED BY <1>1, <2>1, <2>2, <2>3, <3>1, <3>2, EmptyText DEF TypeOK, Settings, Prompts, Buffers
  <2>5. Entered'
    BY <2>1 DEF Entered
  <2>6. QED BY <2>2, <2>4, <2>5 DEF IInv
<1>5. QED BY <1>3, <1>4

\* The commands lead to plain prompts.
LEMMA CommandsPlain == \A key : Command(key) \in Plain
BY DEF Command, Plain, Prompts

LEMMA MenuStep ==
  ASSUME IInv, NEW line \in Lines, Menu(line)
  PROVE  IInv'
<1>1. pInputLine' \in Buffers
  BY ReadsBuffer, InvFacts, Sizes DEF Menu
<1>2. newAddrs = <<>> /\ newText = <<>> /\ KeepsConfig /\ pc # "save"
  BY InvFacts DEF Menu, Entered
<1>3. PICK prompt \in Plain : GoesTo(prompt)
  <2>1. "menu" \in Plain
    BY DEF Plain, Prompts
  <2>2. QED BY <2>1, CommandsPlain DEF Menu
<1>4. QED BY <1>1, <1>2, <1>3, GoesInv

LEMMA ModeStep ==
  ASSUME IInv, NEW line \in Lines, Mode(line)
  PROVE  IInv'
<1>1. pInputLine' \in Buffers
  BY ReadsBuffer, InvFacts, Sizes DEF Mode
<1>2. newAddrs = <<>> /\ newText = <<>> /\ pc # "save"
  BY InvFacts DEF Mode, Entered
<1>3. CASE GoesTo("address") /\ KeepsConfig
  <2>1. "address" \in Plain
    BY DEF Plain, Prompts
  <2>2. QED BY <1>1, <1>2, <1>3, <2>1, GoesInv
<1>4. CASE EndCommand /\ Changes([xConfig EXCEPT !.bStatic = 0])
  <2>1. /\ [xConfig EXCEPT !.bStatic = 0] \in Configs /\ Fits([xConfig EXCEPT !.bStatic = 0])
        /\ Len([xConfig EXCEPT !.bStatic = 0].net) = 3
    BY InvFacts DEF Configs, Fits
  <2>2. QED BY <1>1, <1>4, <2>1, EndInv
<1>5. CASE EndCommand /\ KeepsConfig
  BY <1>1, <1>5, EndInv
<1>6. QED BY <1>3, <1>4, <1>5 DEF Mode

LEMMA AddressStep ==
  ASSUME IInv, NEW line \in Lines, Address(line)
  PROVE  IInv'
<1> DEFINE text == ReadInto(Zeros, LineLen, line)
<1>1. pInputLine' \in Buffers /\ pc = "address" /\ KeepsConfig
  BY InvFacts DEF Address
<1>2. newAddrs \in Seq(Text) /\ Len(newAddrs) \in 0..2 /\ newText = <<>>
  <2>1. newAddrs \in Seq(Text) /\ Len(newAddrs) < 3 /\ newText = <<>>
    BY <1>1, InvFacts DEF Entered, TypeOK
  <2>2. Len(newAddrs) \in Nat
    BY <2>1
  <2> DEFINE n == Len(newAddrs)
  <2>3. n \in Nat /\ n < 3
    BY <2>1, <2>2
  <2> HIDE DEF n
  <2>4. n \in 0..2
    BY <2>3
  <2>5. QED BY <2>1, <2>4 DEF n
<1>3. CASE EndCommand
  BY <1>1, <1>3, EndInv
<1>4. CASE ~EndCommand
  <2>1. text \in Text
    BY ReadIsEdited, ZerosBuffer, EditedText, Sizes
  <2>2. xConfig.net[Len(newAddrs) + 1] \in Text
    <3>1. xConfig.net \in Seq(Text) /\ Len(xConfig.net) = 3
      BY InvFacts DEF Configs
    <3>2. PICK n \in 0..2 : n = Len(newAddrs)
      BY <1>2
    <3>3. n + 1 \in 1..3 /\ xConfig.net[n + 1] \in Text
      BY <3>1
    <3>4. QED BY <3>2, <3>3
  <2>3. PICK a \in Text : newAddrs' = Append(newAddrs, a)
    BY <1>4, <2>1, <2>2 DEF Address
  <2>4. pc' = (IF Len(newAddrs) = 2 THEN "netConfirm" ELSE "address")
        /\ typed' = typed /\ newServer' = newServer /\ newPort' = newPort /\ newText' = newText
    BY <1>4 DEF Address
  <2>5. newAddrs' \in Seq(Text) /\ Len(newAddrs') = Len(newAddrs) + 1
    BY <1>2, <2>3
  <2>6. PICK n \in 0..2 : Len(newAddrs) = n /\ Len(newAddrs') = n + 1 /\ n + 1 <= 3
    <3>1. PICK n \in 0..2 : Len(newAddrs) = n
      BY <1>2
    <3>2. n + 1 <= 3 /\ Len(newAddrs') = n + 1
      BY <2>5, <3>1
    <3>3. QED BY <3>1, <3>2
  <2>7. Settings' /\ NoFlags'
    BY <1>1, KeepsInv
  <2>8. TypeOK'
    <3>1. Len(<<>>) <= SerialLen
      BY EmptyText, Sizes
    <3>2. {newServer, typed} \subseteq Text /\ newPort \in 0..(MaxPort - 1) /\ Len(typed) < LineLen
      BY DEF IInv, TypeOK
    <3>3. pc' \in Prompts /\ pc' # "again"
      BY <2>4 DEF Prompts
    <3>4. newText' \in Text /\ Len(newText') <= SerialLen
      BY <1>2, <2>4, <3>1, EmptyText
    <3>5. Len(newAddrs') <= 3
      BY <2>6
    <3>6. QED BY <1>1, <2>4, <2>5, <2>7, <3>2, <3>3, <3>4, <3>5 DEF TypeOK, Settings, Buffers
  <2>9. Entered'
    BY <1>2, <2>4, <2>6 DEF Entered
  <2>10. QED BY <2>7, <2>8, <2>9 DEF IInv
<1>5. QED BY <1>3, <1>4

LEMMA SerialOfFits ==
  ASSUME NEW s \in Text
  PROVE  SerialOf(s) \in Text /\ Len(SerialOf(s)) < SerialLen
<1>1. CASE Len(s) < SerialLen
  BY <1>1 DEF SerialOf
<1>2. CASE ~(Len(s) < SerialLen)
  <2>1. SerialLen \in Nat \ {0} /\ s \in Seq(Chars)
    BY Sizes DEF Text
  <2>2. SubSeq(s, 1, SerialLen - 1) \in Seq(Chars) /\ Len(SubSeq(s, 1, SerialLen - 1)) = SerialLen - 1
    BY <1>2, <2>1
  <2>3. QED BY <1>2, <2>1, <2>2 DEF SerialOf, Text
<1>3. QED BY <1>1, <1>2

LEMMA NetConfirmStep ==
  ASSUME IInv, NEW line \in Lines, NetConfirm(line)
  PROVE  IInv'
<1>1. pInputLine' \in Buffers /\ EndCommand
  BY ReadsBuffer, InvFacts, Sizes DEF NetConfirm
<1>2. CASE KeepsConfig
  BY <1>1, <1>2, EndInv
<1>3. CASE ~KeepsConfig
  <2> DEFINE s == SerialOf(CString(pInputLine'))
             config == [xConfig EXCEPT !.pSerialNumber = s, !.bStatic = 1, !.net = newAddrs]
  <2>1. Changes(config)
    BY <1>3 DEF NetConfirm
  <2>2. s \in Text /\ Len(s) < SerialLen
    BY <1>1, CStringText, SerialOfFits
  <2>3. newAddrs \in Seq(Text) /\ Len(newAddrs) = 3
    BY InvFacts DEF NetConfirm, Entered, TypeOK
  <2> HIDE DEF s
  <2>4. config \in Configs /\ Fits(config) /\ Len(config.net) = 3
    BY <2>2, <2>3, InvFacts DEF Configs, Fits
  <2> HIDE DEF config
  <2>5. QED BY <1>1, <2>1, <2>4, EndInv
<1>4. QED BY <1>2, <1>3

LEMMA MacStep ==
  ASSUME IInv, NEW line \in Lines, Mac(line)
  PROVE  IInv'
<1>1. pInputLine' \in Buffers /\ EndCommand
  BY ReadsBuffer, InvFacts, Sizes DEF Mac
<1>2. CASE KeepsConfig
  BY <1>1, <1>2, EndInv
<1>3. CASE ~KeepsConfig
  <2> DEFINE config == [xConfig EXCEPT !.pMAC = SubSeq(pInputLine', 1, MacLen)]
  <2>1. Changes(config)
    BY <1>3 DEF Mac
  <2>2. SubSeq(pInputLine', 1, MacLen) \in Seq(Chars \cup {NUL})
    <3>1. Len(Edited(LineLen, line)) = MacLen
      BY <1>3, LineReadEdited, InvFacts, Sizes DEF Mac
    <3>2. MacLen \in 0..LineLen
      BY <3>1, EditedText, Sizes
    <3>3. QED BY <1>1, <3>2, Prefix
  <2>3. config \in Configs /\ Fits(config) /\ Len(config.net) = 3
    BY <2>2, InvFacts DEF Configs, Fits
  <2> HIDE DEF config
  <2>4. QED BY <1>1, <2>1, <2>3, EndInv
<1>4. QED BY <1>2, <1>3

LEMMA ServerConfirmStep ==
  ASSUME IInv, NEW line \in Lines, ServerConfirm(line)
  PROVE  IInv'
<1>1. pInputLine' \in Buffers /\ EndCommand
  BY ReadsBuffer, InvFacts, Sizes DEF ServerConfirm
<1>2. CASE KeepsConfig
  BY <1>1, <1>2, EndInv
<1>3. CASE ~KeepsConfig
  <2> DEFINE config == [xConfig EXCEPT !.server = newServer]
  <2>1. Changes(config)
    BY <1>3 DEF ServerConfirm
  <2>2. newServer \in Text
    BY InvFacts DEF TypeOK
  <2>3. config \in Configs /\ Fits(config) /\ Len(config.net) = 3
    BY <2>2, InvFacts DEF Configs, Fits
  <2> HIDE DEF config
  <2>4. QED BY <1>1, <2>1, <2>3, EndInv
<1>4. QED BY <1>2, <1>3

LEMMA PortConfirmStep ==
  ASSUME IInv, NEW line \in Lines, PortConfirm(line)
  PROVE  IInv'
<1>1. pInputLine' \in Buffers /\ EndCommand
  BY ReadsBuffer, InvFacts, Sizes DEF PortConfirm
<1>2. CASE KeepsConfig
  BY <1>1, <1>2, EndInv
<1>3. CASE ~KeepsConfig
  <2> DEFINE config == [xConfig EXCEPT !.port = newPort]
  <2>1. Changes(config)
    BY <1>3 DEF PortConfirm
  <2>2. newPort \in Ports
    BY InvFacts DEF PortConfirm, Entered
  <2>3. config \in Configs /\ Fits(config) /\ Len(config.net) = 3
    BY <2>2, InvFacts DEF Configs, Fits
  <2> HIDE DEF config
  <2>4. QED BY <1>1, <2>1, <2>3, EndInv
<1>4. QED BY <1>2, <1>3

LEMMA SerialConfirmStep ==
  ASSUME IInv, NEW line \in Lines, SerialConfirm(line)
  PROVE  IInv'
<1>1. pInputLine' \in Buffers /\ EndCommand
  BY ReadsBuffer, InvFacts, Sizes DEF SerialConfirm
<1>2. CASE KeepsConfig
  BY <1>1, <1>2, EndInv
<1>3. CASE ~KeepsConfig
  <2> DEFINE config == [xConfig EXCEPT !.pSerialNumber = SerialOf(newText)]
  <2>1. Changes(config)
    BY <1>3 DEF SerialConfirm
  <2>2. SerialOf(newText) \in Text /\ Len(SerialOf(newText)) < SerialLen
    BY SerialOfFits, InvFacts DEF TypeOK
  <2>3. config \in Configs /\ Fits(config) /\ Len(config.net) = 3
    BY <2>2, InvFacts DEF Configs, Fits
  <2> HIDE DEF config
  <2>4. QED BY <1>1, <2>1, <2>3, EndInv
<1>4. QED BY <1>2, <1>3

LEMMA AgainPasswdStep ==
  ASSUME IInv, NEW line \in Lines, AgainPasswd(line)
  PROVE  IInv'
<1>1. pInputLine' \in Buffers /\ EndCommand
  <2>1. LineLen - 1 \in 0..LineLen
    BY Sizes
  <2>2. QED BY <2>1, ReadsBuffer, InvFacts DEF AgainPasswd
<1>2. CASE KeepsConfig
  BY <1>1, <1>2, EndInv
<1>3. CASE ~KeepsConfig
  <2> DEFINE config == [xConfig EXCEPT !.pPasswd = newText]
  <2>1. Changes(config)
    BY <1>3 DEF AgainPasswd
  <2>2. newText \in Text /\ newText # <<>> /\ Len(newText) < PasswdLen
    BY InvFacts DEF AgainPasswd, TypeOK, Entered
  <2>3. config \in Configs /\ Fits(config) /\ Len(config.net) = 3
    BY <2>2, InvFacts DEF Configs, Fits
  <2> HIDE DEF config
  <2>4. QED BY <1>1, <2>1, <2>3, EndInv
<1>4. QED BY <1>2, <1>3

LEMMA ServerStep ==
  ASSUME IInv, NEW line \in Lines, Server(line)
  PROVE  IInv'
<1>1. pInputLine' \in Buffers /\ KeepsConfig /\ newAddrs = <<>> /\ newText = <<>>
      /\ pc # "save"
  BY ReadsBuffer, InvFacts, Sizes DEF Server, Entered
<1>2. CASE EndCommand
  BY <1>1, <1>2, EndInv
<1>3. CASE ~EndCommand
  <2>1. PICK text \in Text : /\ pc' = "serverConfirm" /\ newServer' = text
                             /\ UNCHANGED <<typed, newAddrs, newPort, newText>>
    BY <1>1, <1>3, CStringText DEF Server
  <2>2. Settings' /\ NoFlags'
    BY <1>1, KeepsInv
  <2>3. TypeOK'
    <3>1. Len(<<>>) <= SerialLen
      BY EmptyText, Sizes
    <3>2. newPort \in 0..(MaxPort - 1) /\ typed \in Text /\ Len(typed) < LineLen
      BY DEF IInv, TypeOK
    <3>3. QED BY <1>1, <2>1, <2>2, <3>1, <3>2, EmptyText DEF TypeOK, Settings, Prompts, Buffers
  <2>4. Entered'
    BY <1>1, <2>1 DEF Entered
  <2>5. QED BY <2>2, <2>3, <2>4 DEF IInv
<1>4. QED BY <1>2, <1>3

LEMMA PortStep ==
  ASSUME IInv, NEW line \in Lines, Port(line)
  PROVE  IInv'
<1>1. pInputLine' \in Buffers /\ KeepsConfig /\ newAddrs = <<>> /\ newText = <<>>
      /\ pc # "save"
  BY ReadsBuffer, InvFacts, Sizes DEF Port, Entered
<1>2. CASE EndCommand
  BY <1>1, <1>2, EndInv
<1>3. CASE ~EndCommand
  <2> DEFINE text == Edited(LineLen, line)
  <2>1. text \in Text /\ Len(text) < LineLen /\ LineRead(LineLen, line) = text
    BY EditedText, LineReadEdited, InvFacts, Sizes
  <2> HIDE DEF text
  <2>2. /\ IsPort(text) /\ pc' = "portConfirm" /\ newPort' = Converted(text) /\ typed' = text
        /\ UNCHANGED <<newAddrs, newServer, newText>>
    BY <1>3, <2>1 DEF Port, text
  <2>3. newPort' \in Ports /\ newPort' = NumberOf(text) % IntMod
    BY <2>1, <2>2, ConvertedNumber DEF IsPort, IsAddress
  <2>4. newPort' \in 0..(MaxPort - 1)
    BY <2>3, Modulus DEF Ports
  <2>5. Settings' /\ NoFlags'
    BY <1>1, KeepsInv
  <2>6. TypeOK'
    <3>1. Len(<<>>) <= SerialLen
      BY EmptyText, Sizes
    <3>2. newServer \in Text
      BY DEF IInv, TypeOK
    <3>3. QED BY <1>1, <2>1, <2>2, <2>4, <2>5, <3>1, <3>2, EmptyText DEF TypeOK, Settings, Prompts, Buffers
  <2>7. Entered'
    BY <1>1, <2>2, <2>3 DEF Entered
  <2>8. QED BY <2>5, <2>6, <2>7 DEF IInv
<1>4. QED BY <1>2, <1>3

LEMMA OldPasswdStep ==
  ASSUME IInv, NEW line \in Lines, OldPasswd(line)
  PROVE  IInv'
<1>1. pInputLine' \in Buffers /\ KeepsConfig /\ newAddrs = <<>> /\ newText = <<>>
      /\ pc # "save"
  BY ReadsBuffer, InvFacts, Sizes DEF OldPasswd, Entered
<1>2. CASE EndCommand
  BY <1>1, <1>2, EndInv
<1>3. CASE GoesTo("new")
  <2>1. "new" \in Plain
    BY DEF Plain, Prompts
  <2>2. QED BY <1>1, <1>3, <2>1, GoesInv
<1>4. QED BY <1>2, <1>3 DEF OldPasswd

\* A text entered at "new" or "serial".
LEMMA EntersInv ==
  ASSUME IInv, NEW line \in Lines, NEW max \in 0..LineLen, NEW next \in {"again", "serialConfirm"},
         EntersText(max, line, next), newAddrs = <<>>, pc # "save",
         max <= IF next = "again" THEN PasswdLen - 1 ELSE SerialLen
  PROVE  IInv'
<1>1. pInputLine' \in Buffers /\ KeepsConfig
  BY InvFacts DEF EntersText
<1>2. CASE EndCommand
  BY <1>1, <1>2, EndInv
<1>3. CASE ~EndCommand
  <2>1. PICK text \in Text : /\ text # <<>> /\ Len(text) <= max /\ Len(text) < LineLen
                             /\ pc' = next /\ newText' = text /\ typed' = text
                             /\ UNCHANGED <<newAddrs, newServer, newPort>>
    <3>1. /\ GetLine(Zeros, max, line).n # 0 /\ pc' = next
          /\ newText' = CString(GetLine(Zeros, max, line).buf) /\ typed' = Edited(max, line)
          /\ UNCHANGED <<newAddrs, newServer, newPort>>
      BY <1>3 DEF EntersText
    <3>2. CString(GetLine(Zeros, max, line).buf) = Edited(max, line)
          /\ GetLine(Zeros, max, line).n = Len(Edited(max, line))
      BY EnteredText
    <3>3. Edited(max, line) \in Text /\ Len(Edited(max, line)) <= max /\ Len(Edited(max, line)) < LineLen
      BY EditedText
    <3>4. Edited(max, line) # <<>>
      BY <3>1, <3>2
    <3>5. QED BY <3>1, <3>2, <3>3, <3>4
  <2>2. Settings' /\ NoFlags'
    BY <1>1, KeepsInv
  <2>3. PICK n \in Nat : n = Len(text)
    BY <2>1 DEF Text
  <2>4. n <= IF next = "again" THEN PasswdLen - 1 ELSE SerialLen
    BY <2>1, <2>3, Sizes
  <2>5. TypeOK'
    <3>1. newServer \in Text /\ newPort \in 0..(MaxPort - 1)
      BY DEF IInv, TypeOK
    <3>2. pc' \in Prompts /\ Len(newAddrs') <= 3 /\ newAddrs' \in Seq(Text)
      BY <2>1, EmptyText DEF Prompts
    <3>3. QED BY <1>1, <2>1, <2>2, <2>3, <2>4, <3>1, <3>2 DEF TypeOK, Settings, Buffers
  <2>6. next = "again" => Len(newText') < PasswdLen
    BY <2>1, <2>3, <2>4, Sizes
  <2>7. Entered'
    BY <2>1, <2>6 DEF Entered
  <2>8. QED BY <2>2, <2>5, <2>7 DEF IInv
<1>4. QED BY <1>2, <1>3

LEMMA NewPasswdStep ==
  ASSUME IInv, NEW line \in Lines, NewPasswd(line)
  PROVE  IInv'
<1>1. newAddrs = <<>> /\ pc # "save" /\ EntersText(PasswdLen - 1, line, "again")
  BY InvFacts DEF NewPasswd, Entered
<1>2. PasswdLen - 1 \in 0..LineLen /\ PasswdLen - 1 <= PasswdLen - 1
  BY Sizes
<1>3. QED BY <1>1, <1>2, EntersInv

LEMMA SerialNumberStep ==
  ASSUME IInv, NEW line \in Lines, SerialNumber(line)
  PROVE  IInv'
<1>1. newAddrs = <<>> /\ pc # "save" /\ EntersText(SerialLen, line, "serialConfirm")
  BY InvFacts DEF SerialNumber, Entered
<1>2. SerialLen \in 0..LineLen /\ SerialLen <= SerialLen
  BY Sizes
<1>3. QED BY <1>1, <1>2, EntersInv

LEMMA RestartStep ==
  ASSUME IInv, NEW line \in Lines, RestartBoard(line)
  PROVE  IInv'
<1>1. pInputLine' \in Buffers /\ KeepsConfig /\ newAddrs = <<>> /\ newText = <<>> /\ pc # "save"
  BY ReadsBuffer, InvFacts, Sizes DEF RestartBoard, Entered
<1>2. CASE EndCommand
  BY <1>1, <1>2, EndInv
<1>3. CASE GoesTo("gone")
  <2>1. "gone" \in Plain
    BY DEF Plain
  <2>2. QED BY <1>1, <1>3, <2>1, GoesInv
<1>4. QED BY <1>2, <1>3 DEF RestartBoard

LEMMA QuitStep ==
  ASSUME IInv, NEW line \in Lines, Quit(line)
  PROVE  IInv'
<1>1. pInputLine' \in Buffers /\ EndCommand
  BY ReadsBuffer, InvFacts, Sizes DEF Quit
<1>2. Settings /\ UNCHANGED <<xConfig, stored, bUpdatedConfig, nSaves>> /\ (bStop' = TRUE \/ bStop' = bStop)
  BY InvFacts DEF Quit
<1>3. Settings'
  BY <1>2 DEF Settings
<1>4. QED BY <1>1, <1>3, EndInv

\* After the save what is in effect is in flash, whether the command had set the
\* flag or had changed nothing.
LEMMA SaveStep ==
  ASSUME IInv, Save
  PROVE  IInv'
<1>1. /\ xConfig' = xConfig /\ nSaves' = nSaves /\ pInputLine' = pInputLine
      /\ bUpdatedConfig' = FALSE /\ bStop' = FALSE
  BY DEF Save
<1>2. stored' = xConfig
  BY InvFacts DEF Save, Settings
<1>3. Settings' /\ NoFlags'
  BY <1>1, <1>2, InvFacts DEF Settings, NoFlags
<1>4. /\ pc' \in {"prompt", "menu"} /\ typed' = <<>> /\ newAddrs' = newAddrs /\ newText' = newText
      /\ newServer' = newServer /\ newPort' = newPort
  BY DEF Save, GoesTo, locals
<1>5. newAddrs = <<>> /\ newText = <<>> /\ newServer \in Text /\ newPort \in 0..(MaxPort - 1)
      /\ pInputLine \in Buffers
  BY InvFacts DEF Save, Entered, TypeOK
<1>6. TypeOK'
  <2>1. Len(<<>>) <= SerialLen /\ Len(<<>>) < LineLen
    BY EmptyText, Sizes
  <2>2. QED BY <1>1, <1>3, <1>4, <1>5, <2>1, EmptyText DEF TypeOK, Settings, Prompts, Buffers
<1>7. Entered'
  BY <1>4, <1>5 DEF Entered
<1>8. QED BY <1>3, <1>6, <1>7 DEF IInv

LEMMA BootStep ==
  ASSUME IInv, Boot
  PROVE  IInv'
<1>1. /\ xConfig' = stored /\ stored' = stored /\ nSaves' = nSaves
      /\ bUpdatedConfig' = FALSE /\ bStop' = FALSE
  BY DEF Boot
<1>2. Settings' /\ NoFlags'
  BY <1>1, InvFacts DEF Settings, NoFlags
<1>3. TypeOK'
  <2>1. Len(<<>>) <= SerialLen /\ Len(<<>>) < LineLen
    BY EmptyText, Sizes
  <2>2. 0 \in 0..(MaxPort - 1)
    BY Modulus
  <2>3. QED BY <1>2, <2>1, <2>2, EmptyText, ZerosBuffer DEF Boot, TypeOK, Settings, Prompts, Buffers
<1>4. Entered'
  BY DEF Boot, Entered
<1>5. QED BY <1>2, <1>3, <1>4 DEF IInv

LEMMA NextInv == IInv /\ [Next]_vars => IInv'
<1> SUFFICES ASSUME IInv, [Next]_vars PROVE IInv'
  OBVIOUS
<1>1. CASE UNCHANGED vars
  <2>1. UNCHANGED <<pc, pInputLine, xConfig, stored, bUpdatedConfig, bStop, newAddrs, newServer, newPort, newText, typed, nSaves>>
    BY <1>1 DEF vars, locals
  <2>2. QED BY <2>1 DEF IInv, TypeOK, Entered, Settings, NoFlags
<1>2. CASE Save \/ Boot
  BY <1>2, SaveStep, BootStep
<1>3. ASSUME NEW line \in Lines, Prompt(line) \/ Passwd(line) \/ Menu(line) PROVE IInv'
  BY <1>3, PromptStep, PasswdStep, MenuStep
<1>4. ASSUME NEW line \in Lines, NetworkCommand(line) PROVE IInv'
  BY <1>4, ModeStep, AddressStep, NetConfirmStep, MacStep, ServerStep, ServerConfirmStep,
     PortStep, PortConfirmStep DEF NetworkCommand
<1>5. ASSUME NEW line \in Lines, AccountCommand(line) PROVE IInv'
  BY <1>5, OldPasswdStep, NewPasswdStep, AgainPasswdStep, SerialNumberStep, SerialConfirmStep,
     RestartStep, QuitStep DEF AccountCommand
<1>6. QED BY <1>1, <1>2, <1>3, <1>4, <1>5 DEF Next

LEMMA SpecInv == Spec => []IInv
<1>1. QED BY InitInv, NextInv, PTL DEF Spec

-----------------------------------------------------------------------------
(***************************************************************************)
(* The theorems                                                            *)
(***************************************************************************)

\* Whatever is typed at whatever prompt, the buffer, the settings and the locals of
\* the commands keep their types and lengths.
THEOREM ShellTypeCorrect == Spec => []TypeOK
<1>1. IInv => TypeOK
  BY DEF IInv
<1>2. QED BY <1>1, SpecInv, PTL

\* Whichever command has changed the settings, it has set the flag, and at the next
\* prompt the change is in flash (shell.c:167, 538-541).
THEOREM ShellSavesChanges == Spec => []NothingUnsaved
<1>1. IInv => NothingUnsaved
  BY DEF IInv, Settings, NoFlags, NothingUnsaved
<1>2. QED BY <1>1, SpecInv, PTL

\* The password and the serial number end with their zeros inside CONFIG's arrays,
\* and a password is never empty (shell.c:452-494, config.h).
THEOREM ShellTextsFit == Spec => []TextsFit
<1>1. IInv => TextsFit
  BY DEF IInv, Settings, TextsFit
<1>2. QED BY <1>1, SpecInv, PTL

\* What the line typed at the password prompt leaves in the buffer: itself, or for
\* an empty line no more than the question mark.
LEMMA PasswordRead ==
  ASSUME NEW line \in Lines, "?" \in Chars
  PROVE  LET s == CString(GetLine(AskedPassword, LineLen, line).buf)
         IN  s = Edited(LineLen, line) \/ (Edited(LineLen, line) = <<>> /\ s \in {<<>>, <<"?">>})
<1> DEFINE got == GetLine(AskedPassword, LineLen, line)
           text == Edited(LineLen, line)
<1>1. AskedPassword \in Buffers /\ \A i \in 1..LineLen : i # 1 => AskedPassword[i] = NUL
  BY DEF AskedPassword, Buffers
<1>2. got \in Gots /\ Holds(AskedPassword, LineLen, Len(line), got, text) /\ text \in Text /\ Len(text) < LineLen
  BY <1>1, LineTyped, EditedText, Sizes
<1>3. NUL \notin Chars
  BY ShellAssumption
<1>4. PICK n \in 0..LineLen : n = Len(text) /\ n = got.n /\ n < LineLen
  <2> HIDE DEF got, text
  <2>1. QED BY <1>2 DEF Holds, Gots
<1>5. got.buf \in Buffers
  BY <1>2 DEF Gots
<1>6. CASE n > 0
  <2>1. AskedPassword[n + 1] = NUL
    BY <1>1, <1>4, <1>6, Sizes
  <2>2. AskedPassword[Len(text) + 1] = NUL /\ LineLen \in 0..LineLen
    BY <1>4, <2>1, Sizes
  <2>3. CString(got.buf) = text
    BY <1>1, <2>2, StringTyped
  <2>4. QED BY <2>3
<1>7. CASE n = 0
  <2> HIDE DEF got, text
  <2>1. text = <<>>
    <3>1. text \in Seq(Chars) /\ Len(text) = 0
      BY <1>2, <1>4, <1>7 DEF Text
    <3>2. QED BY <3>1, EmptySeq
  <2>2. \A i \in 1..LineLen : i > 1 => got.buf[i] = NUL
    BY <1>1, <1>2, <1>4, <1>7, Sizes DEF Holds
  <2>3. 1 \in 1..LineLen /\ got.buf[1] \in {"?", NUL}
    BY <1>2, <1>4, <1>7, Sizes DEF Holds, AskedPassword
  <2>4. CASE got.buf[1] = NUL
    <3>1. 0 \in 0..LineLen /\ \A i \in 1..0 : got.buf[i] # NUL
      BY Sizes
    <3>2. CString(got.buf) = SubSeq(got.buf, 1, 0)
      BY <1>5, <2>4, <3>1, CStringEnds
    <3>3. SubSeq(got.buf, 1, 0) = <<>>
      BY <1>5, <3>1, Prefix, EmptySeq
    <3>4. QED BY <2>1, <3>2, <3>3 DEF got, text
  <2>5. "?" # NUL
    BY <1>3
  <2>6. CASE got.buf[1] = "?"
    <3>1. 1 \in 0..LineLen /\ (1 = LineLen \/ got.buf[1 + 1] = NUL) /\ \A i \in 1..1 : got.buf[i] # NUL
      BY <2>2, <2>6, <2>5, Sizes
    <3>2. CString(got.buf) = SubSeq(got.buf, 1, 1)
      BY <1>5, <3>1, CStringEnds
    <3>3. SubSeq(got.buf, 1, 1) = [i \in 1..1 |-> got.buf[i]] /\ Len(SubSeq(got.buf, 1, 1)) = 1
      BY <1>5, <3>1, Prefix
    <3>4. SubSeq(got.buf, 1, 1) \in Seq(Chars \cup {NUL})
      BY <1>5, <3>1, Prefix
    <3>5. SubSeq(got.buf, 1, 1) = <<"?">>
      <4> DEFINE s == SubSeq(got.buf, 1, 1)
      <4>1. s \in Seq(Chars \cup {NUL}) /\ Len(s) = 1 /\ s[1] = "?"
        BY <2>6, <3>3, <3>4
      <4>2. <<"?">> \in Seq(Chars \cup {NUL}) /\ Len(<<"?">>) = 1 /\ <<"?">>[1] = "?"
        OBVIOUS
      <4> HIDE DEF s
      <4>3. s = <<"?">>
        BY <4>1, <4>2, SeqEqual
      <4>4. QED BY <4>3 DEF s
    <3>6. QED BY <2>1, <3>2, <3>5 DEF got, text
  <2>7. QED BY <2>3, <2>4, <2>6
<1>8. QED BY <1>4, <1>6, <1>7

\* The menu opens only to one who has typed the password, whole and nothing else, or
\* an empty line where the password is the question mark itself (shell.c:138-164).
THEOREM ShellLoginNeedsPassword == Spec => LoginNeedsPassword
<1>1. ASSUME IInv, [Next]_vars, ~LoggedIn, LoggedIn'
      PROVE  typed' = xConfig.pPasswd \/ (typed' = <<>> /\ xConfig.pPasswd = <<"?">>)
  <2>1. PICK line \in Lines : Passwd(line)
    <3>1. ~UNCHANGED vars /\ ~Boot /\ ~Save
      BY <1>1 DEF vars, locals, Boot, Save, LoggedIn
    <3>2. PICK line \in Lines : Prompt(line) \/ Passwd(line) \/ Menu(line) \/ NetworkCommand(line) \/ AccountCommand(line)
      BY <1>1, <3>1 DEF Next
    <3>3. ~Prompt(line)
      BY <1>1 DEF Prompt, GoesTo, LoggedIn
    <3>4. ~Menu(line) /\ ~NetworkCommand(line) /\ ~AccountCommand(line)
      BY <1>1 DEF LoggedIn, Menu, NetworkCommand, Mode, Address, NetConfirm, Mac, Server, ServerConfirm,
         Port, PortConfirm, AccountCommand, OldPasswd, NewPasswd, AgainPasswd, SerialNumber,
         SerialConfirm, RestartBoard, Quit
    <3>5. QED BY <3>2, <3>3, <3>4
  <2>2. "?" \in Chars /\ pInputLine = AskedPassword /\ xConfig.pPasswd # <<>>
    BY <1>1, <2>1, InvFacts DEF Passwd, Entered, Fits
  <2>3. CString(GetLine(AskedPassword, LineLen, line).buf) = xConfig.pPasswd /\ typed' = Edited(LineLen, line)
    BY <1>1, <2>1, <2>2 DEF Passwd, Reads, GoesTo, LoggedIn
  <2>4. QED BY <2>2, <2>3, PasswordRead
<1>2. QED BY <1>1, SpecInv, PTL DEF Spec, LoginNeedsPassword

\* The port becomes the number typed for it, modulo the values of an int, the serial
\* number the text typed for it up to the size of its array, and the password the
\* first of its two entries, whatever the buffer still holds (shell.c:347-384, 452-504).
THEOREM ShellSettingsAsEntered == Spec => SettingsAsEntered
<1>1. ASSUME IInv, [Next]_vars, xConfig' # xConfig, pc \in {"portConfirm", "serialConfirm", "again"}
      PROVE  \E line \in Lines : PortConfirm(line) \/ SerialConfirm(line) \/ AgainPasswd(line)
  <2>1. ~UNCHANGED vars /\ ~Save
    BY <1>1 DEF vars, Save
  <2>2. ~Boot
    BY <1>1 DEF IInv, Settings, NoFlags, Boot
  <2>3. PICK line \in Lines : Prompt(line) \/ Passwd(line) \/ Menu(line) \/ NetworkCommand(line) \/ AccountCommand(line)
    BY <1>1, <2>1, <2>2 DEF Next
  <2>4. ~Prompt(line) /\ ~Passwd(line) /\ ~Menu(line)
    BY <1>1 DEF Prompt, Passwd, Menu
  <2>5. NetworkCommand(line) => PortConfirm(line)
    BY <1>1 DEF NetworkCommand, Mode, Address, NetConfirm, Mac, Server, ServerConfirm, Port
  <2>6. AccountCommand(line) => SerialConfirm(line) \/ AgainPasswd(line)
    BY <1>1 DEF AccountCommand, OldPasswd, NewPasswd, SerialNumber, RestartBoard, Quit
  <2>7. QED BY <2>3, <2>4, <2>5, <2>6
<1>2. ASSUME IInv, [Next]_vars, xConfig'.port # xConfig.port, pc = "portConfirm"
      PROVE  xConfig'.port = NumberOf(typed) % IntMod
  <2>1. PICK line \in Lines : PortConfirm(line)
    BY <1>1, <1>2 DEF SerialConfirm, AgainPasswd
  <2>2. xConfig' = [xConfig EXCEPT !.port = newPort]
    BY <1>2, <2>1 DEF PortConfirm, Changes, KeepsConfig
  <2>3. newPort = NumberOf(typed) % IntMod /\ xConfig \in Configs
    BY <1>2, InvFacts DEF Entered
  <2>4. QED BY <2>2, <2>3 DEF Configs
<1>3. ASSUME IInv, [Next]_vars, xConfig'.pSerialNumber # xConfig.pSerialNumber, pc = "serialConfirm"
      PROVE  xConfig'.pSerialNumber = SubSeq(typed, 1, IF Len(typed) < SerialLen THEN Len(typed)
                                                        ELSE SerialLen - 1)
  <2>1. PICK line \in Lines : SerialConfirm(line)
    BY <1>1, <1>3 DEF PortConfirm, AgainPasswd
  <2>2. xConfig' = [xConfig EXCEPT !.pSerialNumber = SerialOf(newText)]
    BY <1>3, <2>1 DEF SerialConfirm, Changes, KeepsConfig
  <2>3. newText = typed /\ xConfig \in Configs /\ typed \in Seq(Chars)
    BY <1>3, InvFacts DEF Entered, TypeOK, Text
  <2>4. xConfig'.pSerialNumber = SerialOf(typed)
    BY <2>2, <2>3 DEF Configs
  <2>5. SubSeq(typed, 1, Len(typed)) = typed
    BY <2>3
  <2>6. QED BY <2>4, <2>5 DEF SerialOf
<1>4. ASSUME IInv, [Next]_vars, xConfig'.pPasswd # xConfig.pPasswd, pc = "again"
      PROVE  xConfig'.pPasswd = typed
  <2>1. PICK line \in Lines : AgainPasswd(line)
    BY <1>1, <1>4 DEF PortConfirm, SerialConfirm
  <2>2. xConfig' = [xConfig EXCEPT !.pPasswd = newText]
    BY <1>4, <2>1 DEF AgainPasswd, Changes, KeepsConfig
  <2>3. newText = typed /\ xConfig \in Configs
    BY <1>4, InvFacts DEF Entered
  <2>4. QED BY <2>2, <2>3 DEF Configs
<1>5. IInv /\ [Next]_vars =>
        (/\ xConfig'.port # xConfig.port /\ pc = "portConfirm" => xConfig'.port = NumberOf(typed) % IntMod
         /\ xConfig'.pSerialNumber # xConfig.pSerialNumber /\ pc = "serialConfirm" =>
              xConfig'.pSerialNumber = SubSeq(typed, 1, IF Len(typed) < SerialLen THEN Len(typed)
                                                        ELSE SerialLen - 1)
         /\ xConfig'.pPasswd # xConfig.pPasswd /\ pc = "again" => xConfig'.pPasswd = typed)
  BY <1>2, <1>3, <1>4
<1>6. QED BY <1>5, SpecInv, PTL DEF Spec, SettingsAsEntered

-----------------------------------------------------------------------------

(***************************************************************************)
(* FlattenSeq                                                               *)
(***************************************************************************)

\* g[k] is the concatenation of the first k sequences.
Concats(g, S, ss) ==
  /\ g \in [0..Len(ss) -> Seq(S)]
  /\ g[0] = <<>>
  /\ \A k \in 1..Len(ss) : g[k] = g[k - 1] \o ss[k]
  /\ FlattenSeq(ss) = g[Len(ss)]

LEMMA FlattenSteps ==
  ASSUME NEW S, NEW ss \in Seq(Seq(S))
  PROVE  \E g : Concats(g, S, ss)
<1> DEFINE
  n == Len(ss)
  step == [p \in Seq(S) \X (1..n) |-> p[1] \o ss[p[2]]]
  body(f) == [i \in 1..n |-> IF i = 1 THEN ss[i] ELSE f[i - 1] \o ss[i]]
  flatten == CHOOSE f : f = body(f)
<1>1. n \in Nat /\ \A k \in 1..n : ss[k] \in Seq(S)
  OBVIOUS
<1>2. <<>> \in Seq(S) /\ (n = 0 => ss = <<>>)
  OBVIOUS
<1>3. FlattenSeq(ss) = IF n = 0 THEN ss ELSE flatten[n]
  BY DEF FlattenSeq
<1> HIDE DEF n
<1>4. step \in [Seq(S) \X (1..n) -> Seq(S)]
  <2>1. \A p \in Seq(S) \X (1..n) : p[1] \in Seq(S) /\ p[2] \in 1..n
    OBVIOUS
  <2>2. \A p \in Seq(S) \X (1..n) : p[1] \o ss[p[2]] \in Seq(S)
    BY <1>1, <2>1, ConcatProperties
  <2>3. QED BY <2>2
<1>5. PICK g \in [0..n -> Seq(S)] : g[0] = <<>> /\ \A k \in 1..n : g[k] = step[<<g[k - 1], k>>]
  <2>1. Seq(S) # {} /\ <<>> \in Seq(S)
    BY <1>2
  <2> DEFINE X == Seq(S)
  <2>2. <<>> \in X /\ step \in [X \X (1..n) -> X]
    BY <1>4, <2>1
  <2> HIDE DEF step, X
  <2>3. \E g : Recurs(g, n, X, <<>>, step)
    BY <1>1, <2>2, Recursion
  <2>4. QED BY <2>3 DEF X, Recurs
<1>6. \A k \in 1..n : g[k] = g[k - 1] \o ss[k]
  <2>1. ASSUME NEW k \in 1..n PROVE g[k] = g[k - 1] \o ss[k]
    <3>1. k - 1 \in 0..n /\ g[k - 1] \in Seq(S)
      BY <1>1
    <3>2. QED BY <1>5, <3>1
  <2>2. QED BY <2>1
<1> DEFINE f == [i \in 1..n |-> g[i]]
<1>7. f = body(f)
  <2>1. ASSUME NEW i \in 1..n PROVE g[i] = IF i = 1 THEN ss[i] ELSE f[i - 1] \o ss[i]
    <3>1. CASE i = 1
      <4>1. g[1] = <<>> \o ss[1] /\ ss[1] \in Seq(S)
        <5>1. 1 \in 1..n /\ 1 - 1 = 0
          BY <3>1
        <5>2. g[1] = g[1 - 1] \o ss[1]
          BY <1>6, <5>1
        <5>3. QED BY <1>1, <1>5, <5>1, <5>2
      <4>2. QED BY <3>1, <4>1, ConcatEmptySeq
    <3>2. CASE i # 1
      <4>1. i - 1 \in 1..n
        BY <1>1, <3>2
      <4>2. QED BY <1>6, <3>2, <4>1
    <3>3. QED BY <3>1, <3>2
  <2>2. QED BY <2>1
<1>8. flatten = body(flatten)
  <2> HIDE DEF body, f
  <2>1. QED BY <1>7
<1> HIDE DEF flatten, f, step
<1>9. \A k \in 0..n : k # 0 => flatten[k] = g[k]
  <2> DEFINE T == {k \in Nat : k <= n /\ k # 0 => flatten[k] = g[k]}
  <2>1. 0 \in T
    OBVIOUS
  <2>2. ASSUME NEW k \in T PROVE k + 1 \in T
    <3>1. SUFFICES ASSUME k + 1 <= n PROVE flatten[k + 1] = g[k + 1]
      OBVIOUS
    <3>2. k + 1 \in 1..n /\ (k + 1) - 1 = k
      BY <1>1, <3>1
    <3>3. flatten[k + 1] = IF k = 0 THEN ss[k + 1] ELSE flatten[k] \o ss[k + 1]
      <4>1. flatten[k + 1] = IF k + 1 = 1 THEN ss[k + 1] ELSE flatten[(k + 1) - 1] \o ss[k + 1]
        BY <1>8, <3>2
      <4>2. k + 1 = 1 <=> k = 0
        BY <1>1
      <4>3. QED BY <3>2, <4>1, <4>2
    <3>4. g[k + 1] = g[k] \o ss[k + 1]
      BY <1>6, <3>2
    <3>5. CASE k = 0
      BY <1>1, <1>5, <3>2, <3>3, <3>4, <3>5, ConcatEmptySeq
    <3>6. CASE k # 0
      <4>1. k <= n
        BY <1>1, <3>1
      <4>2. flatten[k] = g[k]
        BY <3>6, <4>1
      <4>3. QED BY <3>3, <3>4, <3>6, <4>2
    <3>7. QED BY <3>5, <3>6
  <2>3. T \subseteq Nat
    OBVIOUS
  <2> HIDE DEF T
  <2>4. \A k \in Nat : k \in T
    BY <2>1, <2>2, <2>3, Induction
  <2>5. QED BY <1>1, <2>4 DEF T
<1>10. FlattenSeq(ss) = g[n]
  BY <1>1, <1>2, <1>3, <1>5, <1>9
<1>11. QED BY <1>5, <1>6, <1>10 DEF n, Concats

LEMMA FlattenType ==
  ASSUME NEW S, NEW ss \in Seq(Seq(S))
  PROVE  FlattenSeq(ss) \in Seq(S)
<1>1. PICK g : Concats(g, S, ss)
  BY FlattenSteps
<1>2. Len(ss) \in 0..Len(ss)
  OBVIOUS
<1>3. QED BY <1>1, <1>2 DEF Concats

LEMMA FlattenConcat ==
  ASSUME NEW S, NEW a \in Seq(Seq(S)), NEW b \in Seq(Seq(S))
  PROVE  FlattenSeq(a \o b) = FlattenSeq(a) \o FlattenSeq(b)
<1>1. /\ a \o b \in Seq(Seq(S)) /\ Len(a \o b) = Len(a) + Len(b)
      /\ \A i \in 1..Len(a) : (a \o b)[i] = a[i]
      /\ \A i \in 1..Len(b) : (a \o b)[Len(a) + i] = b[i]
  BY ConcatProperties
<1>2. PICK g : Concats(g, S, a \o b)
  BY <1>1, FlattenSteps
<1>3. PICK h : Concats(h, S, a)
  BY FlattenSteps
<1>4. PICK t : Concats(t, S, b)
  BY FlattenSteps
<1> DEFINE m == Len(a)
           n == Len(b)
<1>5. m \in Nat /\ n \in Nat
  OBVIOUS
<1>6. /\ g \in [0..(m + n) -> Seq(S)] /\ g[0] = <<>> /\ FlattenSeq(a \o b) = g[m + n]
      /\ \A k \in 1..(m + n) : g[k] = g[k - 1] \o (a \o b)[k]
      /\ h \in [0..m -> Seq(S)] /\ h[0] = <<>> /\ FlattenSeq(a) = h[m]
      /\ \A k \in 1..m : h[k] = h[k - 1] \o a[k]
      /\ t \in [0..n -> Seq(S)] /\ t[0] = <<>> /\ FlattenSeq(b) = t[n]
      /\ \A k \in 1..n : t[k] = t[k - 1] \o b[k]
  BY <1>1, <1>2, <1>3, <1>4 DEF Concats
<1>7. \A k \in 1..n : b[k] \in Seq(S)
  OBVIOUS
<1> DEFINE c == a \o b
<1>8. (\A i \in 1..m : c[i] = a[i]) /\ (\A i \in 1..n : c[m + i] = b[i])
  BY <1>1
<1> HIDE DEF m, n, c
<1>9. \A k \in 1..(m + n) : g[k] = g[k - 1] \o c[k]
  BY <1>6 DEF c
<1>10. g[m] = h[m]
  <2> DEFINE T == {k \in Nat : k <= m => g[k] = h[k]}
  <2>1. 0 \in T
    BY <1>6
  <2>2. ASSUME NEW k \in T PROVE k + 1 \in T
    <3>1. SUFFICES ASSUME k + 1 <= m PROVE g[k + 1] = h[k + 1]
      OBVIOUS
    <3>2. k + 1 \in 1..m /\ k + 1 \in 1..(m + n) /\ (k + 1) - 1 = k /\ k <= m
      BY <1>5, <3>1
    <3>3. g[k + 1] = g[k] \o c[k + 1] /\ h[k + 1] = h[k] \o a[k + 1] /\ c[k + 1] = a[k + 1]
      BY <1>6, <1>8, <1>9, <3>2
    <3>4. QED BY <3>2, <3>3
  <2>3. T \subseteq Nat
    OBVIOUS
  <2> HIDE DEF T
  <2>4. m \in T
    BY <1>5, <2>1, <2>2, <2>3, Induction
  <2>5. QED BY <1>5, <2>4 DEF T
<1>11. g[m + n] = h[m] \o t[n]
  <2> DEFINE q == [k \in 0..n |-> g[m + k]]
             r == [k \in 0..n |-> h[m] \o t[k]]
             T == {k \in Nat : k <= n => q[k] = r[k]}
  <2>1. h[m] \in Seq(S)
    BY <1>5, <1>6
  <2>2. q[0] = h[m] /\ q[n] = g[m + n]
    <3>1. m + 0 = m
      BY <1>5
    <3>2. QED BY <1>5, <1>10, <3>1
  <2>3. \A k \in 1..n : q[k] = q[k - 1] \o b[k]
    <3>1. ASSUME NEW k \in 1..n PROVE q[k] = q[k - 1] \o b[k]
      <4>1. m + k \in 1..(m + n) /\ (m + k) - 1 = m + (k - 1) /\ k - 1 \in 0..n /\ k \in 0..n
        BY <1>5
      <4>2. g[m + k] = g[m + (k - 1)] \o c[m + k]
        BY <1>9, <4>1
      <4>3. c[m + k] = b[k]
        BY <1>8
      <4>4. QED BY <4>1, <4>2, <4>3
    <3>2. QED BY <3>1
  <2>4. r[0] = h[m] \o t[0] /\ r[n] = h[m] \o t[n]
    <3>1. 0 \in 0..n /\ n \in 0..n
      BY <1>5
    <3>2. QED BY <3>1, Zenon
  <2>5. r[0] = h[m]
    <3>1. t[0] = <<>>
      BY <1>6
    <3>2. h[m] \o <<>> = h[m]
      BY <2>1, ConcatEmptySeq
    <3> HIDE DEF r
    <3>3. QED BY <2>4, <3>1, <3>2
  <2>6. \A k \in 0..n : r[k] = h[m] \o t[k]
    OBVIOUS
  <2> HIDE DEF q, r
  <2>7. 0 \in T
    BY <2>2, <2>5
  <2>8. ASSUME NEW k \in T PROVE k + 1 \in T
    <3>1. SUFFICES ASSUME k + 1 <= n PROVE q[k + 1] = r[k + 1]
      OBVIOUS
    <3>2. k + 1 \in 1..n /\ (k + 1) - 1 = k /\ k <= n /\ k \in 0..n
      BY <1>5, <3>1
    <3>3. q[k + 1] = q[k] \o b[k + 1] /\ t[k + 1] = t[k] \o b[k + 1]
      BY <1>6, <2>3, <3>2
    <3>4. q[k] = h[m] \o t[k] /\ t[k] \in Seq(S) /\ b[k + 1] \in Seq(S)
      BY <1>6, <1>7, <2>6, <3>2
    <3> DEFINE x == h[m]
               y == t[k]
               z == b[k + 1]
    <3>5. x \in Seq(S) /\ y \in Seq(S) /\ z \in Seq(S)
      BY <2>1, <3>4
    <3> HIDE DEF x, y, z
    <3>6. (x \o y) \o z = x \o (y \o z)
      BY ONLY <3>5, ConcatAssociative, SMTT(30)
    <3>7. k + 1 \in 0..n
      BY <3>2
    <3>8. QED BY <2>6, <3>3, <3>4, <3>6, <3>7 DEF x, y, z
  <2>9. T \subseteq Nat
    OBVIOUS
  <2> HIDE DEF T
  <2>10. n \in T
    BY <1>5, <2>7, <2>8, <2>9, Induction
  <2>11. q[n] = r[n]
    BY <1>5, <2>10 DEF T
  <2>12. QED BY <2>2, <2>11, <2>4
<1>12. QED BY <1>6, <1>10, <1>11

LEMMA FlattenOne ==
  ASSUME NEW S, NEW s \in Seq(S)
  PROVE  FlattenSeq(<<s>>) = s
<1> DEFINE ss == <<s>>
<1>1. ss \in Seq(Seq(S)) /\ Len(ss) = 1 /\ ss[1] = s
  OBVIOUS
<1> HIDE DEF ss
<1>2. PICK g : Concats(g, S, ss)
  BY <1>1, FlattenSteps
<1>3. g[0] = <<>> /\ g[1] = g[0] \o s /\ FlattenSeq(ss) = g[1]
  BY <1>1, <1>2 DEF Concats
<1>4. QED BY <1>3, ConcatEmptySeq DEF ss

(***************************************************************************)
(* Bytes and frames                                                        *)
(***************************************************************************)

LEMMA FramesSizes ==
  /\ Base \in Nat \ {0} /\ NumCounts \in Nat \ {0} /\ NumDigits \in Nat /\ Radix \in Nat \ {0}
  /\ Zero \in Nat /\ Zero + Radix <= Base
  /\ Size \in Nat /\ Size > 4 /\ Size2 \in Nat /\ Size2 > 2
  /\ P506Size \in Nat /\ P506Size > NumCounts + 1
  /\ BH1000Size \in Nat /\ BH1000Size > NumCounts * NumDigits + 1
BY FramesAssumption

LEMMA Bytes ==
  /\ 0 \in Byte /\ STX \in Byte /\ STX2 \in Byte /\ STX # STX2
  /\ Clear \in Byte /\ Clear \notin Index /\ Index \subseteq Byte
  /\ Counts \subseteq Byte /\ Noise \subseteq Byte
<1>1. Clear \in NumCounts..(Base - 1) /\ Base \in Nat \ {0} /\ NumCounts \in Nat \ {0}
  BY FramesAssumption
<1>2. Clear \in Byte /\ Clear \notin Index /\ Index \subseteq Byte /\ 0 \in Byte
  BY <1>1 DEF Byte, Index
<1>3. QED BY <1>2, FramesAssumption DEF Byte

LEMMA FilledType ==
  ASSUME NEW bytes \in Seq(Byte), NEW size \in Nat, Len(bytes) < size
  PROVE  /\ Filled(bytes, size) \in Seq(Byte) /\ Len(Filled(bytes, size)) = size - 1
         /\ \A i \in 1..Len(bytes) : Filled(bytes, size)[i] = bytes[i]
<1>1. PICK m \in Nat : m = Len(bytes)
  OBVIOUS
<1> DEFINE z == [i \in 1..(size - 1 - m) |-> 0]
<1>2. size - 1 - m \in Nat /\ m < size
  BY <1>1
<1>3. z \in Seq(Byte) /\ Len(z) = size - 1 - m
  BY <1>2, Bytes
<1>4. Filled(bytes, size) = bytes \o z
  BY <1>1 DEF Filled
<1> HIDE DEF z
<1>5. bytes \o z \in Seq(Byte) /\ Len(bytes \o z) = m + (size - 1 - m)
      /\ \A i \in 1..Len(bytes) : (bytes \o z)[i] = bytes[i]
  BY <1>1, <1>3, ConcatProperties
<1>6. QED BY <1>2, <1>4, <1>5

LEMMA SumType == \A a, b \in Byte : (a + b) % Base \in Byte
BY FramesSizes DEF Byte

\* The sum a P16's checksum is made of, byte by byte.
Sum(s) == FoldLeft(LAMBDA a, b : (a + b) % Base, 0, s)

LEMMA SumSteps ==
  ASSUME NEW s \in Seq(Byte)
  PROVE  \E h \in [0..Len(s) -> Byte] :
           /\ h[0] = 0
           /\ \A k \in 1..Len(s) : h[k] = (h[k - 1] + s[k]) % Base
           /\ Sum(s) = h[Len(s)]
<1> DEFINE
  n == Len(s)
  step == [p \in Byte \X (1..n) |-> (p[1] + s[p[2]]) % Base]
  body(f) == [S \in SUBSET DOMAIN s |-> IF S = {} THEN 0 ELSE (f[S \ {Max(S)}] + s[Max(S)]) % Base]
  iter == CHOOSE f : f = body(f)
<1>1. Sum(s) = iter[DOMAIN s]
  BY DEF Sum, FoldLeft, MapThenFoldSet
<1>2. n \in Nat /\ DOMAIN s = 1..n /\ \A k \in 1..n : s[k] \in Byte
  OBVIOUS
<1>3. 0 \in Byte
  BY FramesSizes DEF Byte
<1> HIDE DEF n
<1>4. step \in [Byte \X (1..n) -> Byte]
  <2>1. \A p \in Byte \X (1..n) : p[1] \in Byte /\ p[2] \in 1..n
    OBVIOUS
  <2>2. \A p \in Byte \X (1..n) : (p[1] + s[p[2]]) % Base \in Byte
    BY <1>2, <2>1, SumType
  <2>3. QED BY <2>2
<1>5. PICK f : Folds(f, n, Byte, 0, step)
  <2> HIDE DEF step
  <2>1. QED BY <1>2, <1>3, <1>4, FoldIterates
<1>6. \A S \in SUBSET (1..n) : S # {} => Max(S) \in 1..n /\ S \ {Max(S)} \in SUBSET (1..n)
  BY <1>2, MaxInSet
<1>7. f = body(f)
  <2>1. f \in [SUBSET (1..n) -> Byte]
    BY <1>5 DEF Folds
  <2>2. ASSUME NEW S \in SUBSET (1..n), S # {}
        PROVE  f[S] = (f[S \ {Max(S)}] + s[Max(S)]) % Base
    <3>1. f[S \ {Max(S)}] \in Byte /\ Max(S) \in 1..n
      BY <2>1, <2>2, <1>6
    <3>2. f[S] = step[<<f[S \ {Max(S)}], Max(S)>>]
      BY <1>5, <2>2 DEF Folds
    <3>3. QED BY <3>1, <3>2
  <2>3. f[{}] = 0
    BY <1>5 DEF Folds
  <2>4. QED BY <2>1, <2>2, <2>3, <1>2
<1>8. iter = body(iter)
  <2> HIDE DEF body
  <2>1. QED BY <1>7
<1> HIDE DEF iter, step
<1>9. iter[{}] = 0
  BY <1>8
<1>10. \A k \in 1..n : iter[1..k] = (iter[1..(k - 1)] + s[k]) % Base
  <2>1. ASSUME NEW k \in 1..n PROVE iter[1..k] = (iter[1..(k - 1)] + s[k]) % Base
    <3>1. Max(1..k) = k /\ (1..k) \ {k} = 1..(k - 1) /\ 1..k # {}
      BY PrefixMax
    <3>2. 1..k \in SUBSET (1..n)
      BY <1>2
    <3>3. QED BY <1>2, <1>8, <3>1, <3>2
  <2>2. QED BY <2>1
<1> DEFINE h == [k \in 0..n |-> iter[1..k]]
<1>11. h[0] = 0
  <2>1. 1..0 = {}
    OBVIOUS
  <2>2. QED BY <1>2, <1>9, <2>1
<1>12. \A k \in 1..n : h[k] = (h[k - 1] + s[k]) % Base
  BY <1>2, <1>10
<1>13. Sum(s) = h[n]
  BY <1>1, <1>2
<1>14. \A k \in 0..n : h[k] \in Byte
  <2> HIDE DEF h
  <2> DEFINE T == {k \in Nat : k <= n => h[k] \in Byte}
  <2>1. 0 \in T
    BY <1>3, <1>11
  <2>2. ASSUME NEW k \in T PROVE k + 1 \in T
    <3>1. SUFFICES ASSUME k + 1 <= n PROVE h[k + 1] \in Byte
      OBVIOUS
    <3>2. h[k] \in Byte /\ k + 1 \in 1..n /\ (k + 1) - 1 = k
      BY <1>2, <2>2, <3>1
    <3>3. QED BY <1>2, <1>12, <3>2, SumType
  <2>3. T \subseteq Nat
    OBVIOUS
  <2> HIDE DEF T
  <2>4. \A k \in Nat : k \in T
    BY <2>1, <2>2, <2>3, Induction
  <2>5. QED BY <1>2, <2>4 DEF T
<1>15. h \in [0..n -> Byte]
  BY <1>14
<1> HIDE DEF h
<1>16. QED BY <1>11, <1>12, <1>13, <1>15 DEF n

LEMMA ChecksumSum ==
  ASSUME NEW f \in Seq(Byte), Len(f) >= 2
  PROVE  /\ Checksum(f) = Sum([i \in 1..(Len(f) - 2) |-> f[i + 1]])
         /\ [i \in 1..(Len(f) - 2) |-> f[i + 1]] \in Seq(Byte)
         /\ Checksum(f) \in Byte
<1> DEFINE s == [i \in 1..(Len(f) - 2) |-> f[i + 1]]
<1>1. PICK n \in Nat : n = Len(f) - 2 /\ Len(f) = n + 2
  OBVIOUS
<1>2. s \in Seq(Byte) /\ Len(s) = n
  <2>1. s = [i \in 1..n |-> f[i + 1]]
    BY <1>1
  <2>2. \A i \in 1..n : f[i + 1] \in Byte
    BY <1>1
  <2> HIDE DEF s
  <2>3. QED BY <2>1, <2>2
<1>3. SubSeq(f, 2, Len(f) - 1) = s
  <2>1. SubSeq(f, 2, Len(f) - 1) = [i \in 1..n |-> f[i + 1]]
    <3>1. 1 + (n + 2 - 1) - 2 = n /\ \A i \in 1..n : 2 + i - 1 = i + 1
      OBVIOUS
    <3>2. QED BY <1>1, <3>1
  <2>2. QED BY <1>1, <2>1
<1>4. Checksum(f) = Sum(s)
  BY <1>3 DEF Checksum, Sum
<1> HIDE DEF s
<1>5. PICK h \in [0..Len(s) -> Byte] : Sum(s) = h[Len(s)]
  BY <1>2, SumSteps
<1>6. Sum(s) \in Byte
  BY <1>2, <1>5
<1>7. QED BY <1>2, <1>4, <1>6 DEF s

\* A frame ends in its checksum.
LEMMA WithChecksumRight ==
  ASSUME NEW f \in Seq(Byte), f # <<>>
  PROVE  LET g == WithChecksum(f)
         IN  /\ g \in Seq(Byte) /\ Len(g) = Len(f) + 1 /\ Checksum(g) = Last(g)
             /\ \A i \in 1..Len(f) : g[i] = f[i]
<1>1. PICK n \in Nat \ {0} : n = Len(f)
  OBVIOUS
<1> DEFINE z == Append(f, 0)
           c == Checksum(z)
           g == Append(f, c)
<1>2. z \in Seq(Byte) /\ Len(z) = n + 1 /\ \A i \in 1..n : z[i] = f[i]
  BY <1>1, Bytes, AppendProperties
<1>3. c \in Byte /\ c = Sum([i \in 1..(Len(z) - 2) |-> z[i + 1]])
  <2> HIDE DEF z
  <2>1. Len(z) >= 2
    BY <1>2
  <2>2. QED BY <1>2, <2>1, ChecksumSum DEF z
<1> HIDE DEF z, c
<1>4. g \in Seq(Byte) /\ Len(g) = n + 1 /\ g[n + 1] = c /\ \A i \in 1..n : g[i] = f[i]
  BY <1>1, <1>3, AppendProperties
<1> HIDE DEF g
<1>5. Checksum(g) = Sum([i \in 1..(Len(g) - 2) |-> g[i + 1]])
  <2>1. Len(g) >= 2
    BY <1>4
  <2>2. QED BY <1>4, <2>1, ChecksumSum
<1>6. [i \in 1..(Len(g) - 2) |-> g[i + 1]] = [i \in 1..(Len(z) - 2) |-> z[i + 1]]
  BY <1>2, <1>4
<1>7. WithChecksum(f) = g
  BY DEF WithChecksum, g, c, z
<1>8. Last(g) = c
  BY <1>4 DEF Last
<1>9. QED BY <1>1, <1>3, <1>4, <1>5, <1>6, <1>7, <1>8

LEMMA SumInjective ==
  ASSUME NEW m \in Nat \ {0}, NEW a \in 0..(m - 1), NEW b \in 0..(m - 1), NEW c \in 0..(m - 1),
         (a + c) % m = (b + c) % m
  PROVE  a = b
OBVIOUS

\* One changed byte changes the sum.
LEMMA SumDiffers ==
  ASSUME NEW s \in Seq(Byte), NEW t \in Seq(Byte), Len(t) = Len(s), NEW m \in 1..Len(s),
         s[m] # t[m], \A i \in 1..Len(s) : i # m => s[i] = t[i]
  PROVE  Sum(s) # Sum(t)
<1>1. PICK n \in Nat : n = Len(s) /\ n = Len(t)
  OBVIOUS
<1>2. PICK g \in [0..n -> Byte] :
        g[0] = 0 /\ (\A k \in 1..n : g[k] = (g[k - 1] + s[k]) % Base) /\ Sum(s) = g[n]
  BY <1>1, SumSteps
<1>3. PICK h \in [0..n -> Byte] :
        h[0] = 0 /\ (\A k \in 1..n : h[k] = (h[k - 1] + t[k]) % Base) /\ Sum(t) = h[n]
  BY <1>1, SumSteps
<1>4. \A k \in 1..n : s[k] \in Byte /\ t[k] \in Byte
  BY <1>1
<1>5. \A a, b, c \in Byte : a # b => (a + c) % Base # (b + c) % Base
  <2>1. ASSUME NEW a \in Byte, NEW b \in Byte, NEW c \in Byte, (a + c) % Base = (b + c) % Base PROVE a = b
    <3>1. Base \in Nat \ {0} /\ a \in 0..(Base - 1) /\ b \in 0..(Base - 1) /\ c \in 0..(Base - 1)
      BY FramesSizes DEF Byte
    <3>2. QED BY <2>1, <3>1, SumInjective
  <2>2. QED BY <2>1
<1> DEFINE T == {k \in Nat : k <= n => IF k < m THEN g[k] = h[k] ELSE g[k] # h[k]}
<1>6. 0 \in T
  BY <1>2, <1>3
<1>7. ASSUME NEW k \in T PROVE k + 1 \in T
  <2>1. SUFFICES ASSUME k + 1 <= n PROVE IF k + 1 < m THEN g[k + 1] = h[k + 1] ELSE g[k + 1] # h[k + 1]
    OBVIOUS
  <2>2. k + 1 \in 1..n /\ (k + 1) - 1 = k /\ k \in 0..n /\ IF k < m THEN g[k] = h[k] ELSE g[k] # h[k]
    BY <2>1
  <2>3. g[k + 1] = (g[k] + s[k + 1]) % Base /\ h[k + 1] = (h[k] + t[k + 1]) % Base
    BY <1>2, <1>3, <2>2
  <2>4. g[k] \in Byte /\ h[k] \in Byte /\ s[k + 1] \in Byte /\ t[k + 1] \in Byte
    BY <1>4, <2>2
  <2>5. CASE k + 1 < m
    BY <1>1, <2>2, <2>3, <2>5
  <2>6. CASE k + 1 = m
    <3>1. g[k] = h[k] /\ s[k + 1] # t[k + 1]
      BY <2>2, <2>6
    <3>2. (s[k + 1] + g[k]) % Base # (t[k + 1] + g[k]) % Base
      BY <1>5, <2>4, <3>1
    <3>3. s[k + 1] + g[k] = g[k] + s[k + 1] /\ t[k + 1] + g[k] = h[k] + t[k + 1]
      BY <2>4, <3>1 DEF Byte
    <3>4. QED BY <2>3, <2>6, <3>2, <3>3
  <2>7. CASE k + 1 > m
    <3>1. g[k] # h[k] /\ s[k + 1] = t[k + 1]
      BY <1>1, <2>2, <2>7
    <3>2. QED BY <1>5, <2>3, <2>4, <2>7, <3>1
  <2>8. QED BY <2>2, <2>5, <2>6, <2>7
<1>8. n \in T
  <2>1. T \subseteq Nat
    OBVIOUS
  <2> HIDE DEF T
  <2>2. QED BY <1>1, <1>6, <1>7, <2>1, Induction
<1>9. g[n] # h[n]
  BY <1>1, <1>8
<1>10. QED BY <1>2, <1>3, <1>9

LEMMA DamagedSum ==
  ASSUME NEW f \in Seq(Byte), Len(f) >= 2, Checksum(f) = Last(f),
         NEW m \in 2..Len(f), NEW b \in Byte, b # f[m]
  PROVE  Checksum([f EXCEPT ![m] = b]) # Last([f EXCEPT ![m] = b])
<1> DEFINE g == [f EXCEPT ![m] = b]
           s == [i \in 1..(Len(f) - 2) |-> f[i + 1]]
           t == [i \in 1..(Len(g) - 2) |-> g[i + 1]]
<1>1. PICK n \in Nat : n = Len(f) /\ n >= 2
  OBVIOUS
<1>2. g \in Seq(Byte) /\ Len(g) = n /\ \A i \in 1..n : g[i] = IF i = m THEN b ELSE f[i]
  BY <1>1, ExceptSeq
<1> HIDE DEF g
<1>3. /\ Checksum(f) = Sum(s) /\ s \in Seq(Byte)
      /\ Checksum(g) = Sum(t) /\ t \in Seq(Byte)
  BY <1>1, <1>2, ChecksumSum
<1>4. Last(f) = f[n] /\ Last(g) = g[n]
  BY <1>1, <1>2 DEF Last
<1>5. CASE m = n
  <2>1. \A i \in 1..(n - 2) : g[i + 1] = f[i + 1]
    BY <1>1, <1>2, <1>5
  <2>2. s = t
    BY <1>1, <1>2, <2>1
  <2> HIDE DEF s, t
  <2>3. g[n] # f[n]
    BY <1>1, <1>2, <1>5
  <2>4. QED BY <1>3, <1>4, <2>2, <2>3 DEF g
<1>6. CASE m # n
  <2>1. Len(s) = n - 2 /\ Len(t) = n - 2
    BY <1>1, <1>2
  <2>2. m - 1 \in 1..(n - 2) /\ s[m - 1] = f[m] /\ t[m - 1] = b
    BY <1>1, <1>2, <1>6
  <2>3. \A i \in 1..(n - 2) : i # m - 1 => s[i] = t[i]
    <3>1. ASSUME NEW i \in 1..(n - 2), i # m - 1 PROVE s[i] = t[i]
      <4>1. i + 1 \in 1..n /\ i + 1 # m
        BY <1>1, <3>1
      <4>2. g[i + 1] = f[i + 1]
        BY <1>2, <4>1
      <4>3. QED BY <1>1, <1>2, <4>2
    <3>2. QED BY <3>1
  <2> HIDE DEF s, t
  <2>4. Sum(s) # Sum(t)
    BY <1>3, <2>1, <2>2, <2>3, SumDiffers
  <2>5. g[n] = f[n]
    BY <1>1, <1>2, <1>6
  <2>6. QED BY <1>3, <1>4, <2>4, <2>5 DEF g
<1>7. QED BY <1>5, <1>6

(***************************************************************************)
(* The BH1000's digits                                                     *)
(***************************************************************************)

Figure == Zero..(Zero + Radix - 1)

LEMMA PowerSteps ==
  /\ Power \in [0..NumDigits -> Nat \ {0}]
  /\ Power[0] = 1
  /\ \A k \in 1..NumDigits : Power[k] = Radix * Power[k - 1]
<1> DEFINE X == Nat \ {0}
           step == [p \in X \X (1..NumDigits) |-> Radix * p[1]]
           body(f) == [k \in 0..NumDigits |-> IF k = 0 THEN 1 ELSE Radix * f[k - 1]]
<1>1. step \in [X \X (1..NumDigits) -> X]
  <2>1. \A x \in X : Radix * x \in X
    BY FramesSizes
  <2>2. \A p \in X \X (1..NumDigits) : p[1] \in X
    OBVIOUS
  <2> HIDE DEF X
  <2>3. QED BY <2>1, <2>2
<1>2. PICK g : Recurs(g, NumDigits, X, 1, step)
  <2>1. 1 \in X
    OBVIOUS
  <2> HIDE DEF step, X
  <2>2. QED BY <1>1, <2>1, FramesSizes, Recursion
<1>3. g \in [0..NumDigits -> X] /\ g[0] = 1 /\ \A k \in 1..NumDigits : g[k] = Radix * g[k - 1]
  <2>1. g \in [0..NumDigits -> X] /\ g[0] = 1 /\ \A k \in 1..NumDigits : g[k] = step[<<g[k - 1], k>>]
    BY <1>2 DEF Recurs
  <2>2. \A k \in 1..NumDigits : g[k - 1] \in X
    BY <2>1, FramesSizes
  <2> HIDE DEF X
  <2>3. QED BY <2>1, <2>2
<1>4. g = body(g)
  <2>1. \A k \in 0..NumDigits : g[k] = IF k = 0 THEN 1 ELSE Radix * g[k - 1]
    BY <1>3, FramesSizes
  <2> HIDE DEF X
  <2>2. QED BY <1>3, <2>1
<1>5. Power = body(Power)
  <2>1. Power = CHOOSE f : f = body(f)
    BY DEF Power
  <2> HIDE DEF body
  <2>2. QED BY <1>4, <2>1
<1>6. \A k \in 0..NumDigits : Power[k] = IF k = 0 THEN 1 ELSE Radix * Power[k - 1]
  BY <1>5
<1>7. \A k \in 1..NumDigits : Power[k] = Radix * Power[k - 1]
  BY <1>6
<1>8. \A k \in 0..NumDigits : Power[k] = g[k]
  <2> DEFINE T == {k \in Nat : k <= NumDigits => Power[k] = g[k]}
  <2>1. 0 \in T
    BY <1>3, <1>6, FramesSizes
  <2>2. ASSUME NEW k \in T PROVE k + 1 \in T
    <3>1. SUFFICES ASSUME k + 1 <= NumDigits PROVE Power[k + 1] = g[k + 1]
      OBVIOUS
    <3>2. k + 1 \in 1..NumDigits /\ (k + 1) - 1 = k /\ Power[k] = g[k]
      BY <3>1, FramesSizes
    <3>3. QED BY <1>3, <1>7, <3>2
  <2>3. T \subseteq Nat
    OBVIOUS
  <2> HIDE DEF T
  <2>4. \A k \in Nat : k \in T
    BY <2>1, <2>2, <2>3, Induction
  <2>5. QED BY <2>4, FramesSizes DEF T
<1>9. Power = [k \in 0..NumDigits |-> Power[k]]
  BY <1>5
<1>10. QED BY <1>3, <1>6, <1>7, <1>8, <1>9, FramesSizes

LEMMA PowerGrows ==
  ASSUME NEW k \in 0..NumDigits
  PROVE  Power[k] \in Nat \ {0} /\ Power[k] <= Power[NumDigits]
<1> DEFINE T == {m \in Nat : m + k <= NumDigits => Power[k] <= Power[m + k]}
<1>1. 0 \in T /\ k \in Nat
  BY PowerSteps, FramesSizes
<1>2. ASSUME NEW m \in T PROVE m + 1 \in T
  <2>1. SUFFICES ASSUME (m + 1) + k <= NumDigits PROVE Power[k] <= Power[(m + 1) + k]
    OBVIOUS
  <2>2. (m + 1) + k \in 1..NumDigits /\ m + k \in 0..NumDigits /\ ((m + 1) + k) - 1 = m + k
    BY <1>1, <2>1, FramesSizes
  <2>3. Power[(m + 1) + k] = Radix * Power[m + k] /\ Power[k] <= Power[m + k]
    BY <2>2, PowerSteps
  <2>4. \A x \in Nat \ {0} : x <= Radix * x
    BY FramesSizes
  <2>5. Power[m + k] \in Nat \ {0} /\ Power[k] \in Nat \ {0}
    BY <2>2, PowerSteps
  <2>6. Power[m + k] <= Radix * Power[m + k] /\ Radix * Power[m + k] \in Nat
    BY <2>4, <2>5, FramesSizes
  <2>7. QED BY <2>3, <2>5, <2>6
<1>3. NumDigits - k \in T
  <2>1. T \subseteq Nat /\ NumDigits - k \in Nat
    BY FramesSizes
  <2> HIDE DEF T
  <2>2. QED BY <1>1, <1>2, <2>1, Induction
<1>4. (NumDigits - k) + k = NumDigits
  BY FramesSizes
<1>5. QED BY <1>3, <1>4, PowerSteps, FramesSizes

\* What digits say.
Value(s) == FoldLeft(LAMBDA n, b : n * Radix + b - Zero, 0, s)

LEMMA ValueType == \A a \in Nat, b \in Figure : a * Radix + b - Zero \in Nat
BY FramesSizes DEF Figure

LEMMA ValueSteps ==
  ASSUME NEW s \in Seq(Figure)
  PROVE  \E h \in [0..Len(s) -> Nat] :
           /\ h[0] = 0
           /\ \A k \in 1..Len(s) : h[k] = h[k - 1] * Radix + s[k] - Zero
           /\ Value(s) = h[Len(s)]
<1> DEFINE
  n == Len(s)
  step == [p \in Nat \X (1..n) |-> p[1] * Radix + s[p[2]] - Zero]
  body(f) == [S \in SUBSET DOMAIN s |-> IF S = {} THEN 0 ELSE f[S \ {Max(S)}] * Radix + s[Max(S)] - Zero]
  iter == CHOOSE f : f = body(f)
<1>1. Value(s) = iter[DOMAIN s]
  BY DEF Value, FoldLeft, MapThenFoldSet
<1>2. n \in Nat /\ DOMAIN s = 1..n /\ \A k \in 1..n : s[k] \in Figure
  OBVIOUS
<1>3. 0 \in Nat
  OBVIOUS
<1> HIDE DEF n
<1>4. step \in [Nat \X (1..n) -> Nat]
  <2>1. \A p \in Nat \X (1..n) : p[1] \in Nat /\ p[2] \in 1..n
    OBVIOUS
  <2>2. \A p \in Nat \X (1..n) : p[1] * Radix + s[p[2]] - Zero \in Nat
    BY <1>2, <2>1, ValueType
  <2>3. QED BY <2>2
<1>5. PICK f : Folds(f, n, Nat, 0, step)
  <2> HIDE DEF step
  <2>1. QED BY <1>2, <1>3, <1>4, FoldIterates
<1>6. \A S \in SUBSET (1..n) : S # {} => Max(S) \in 1..n /\ S \ {Max(S)} \in SUBSET (1..n)
  BY <1>2, MaxInSet
<1>7. f = body(f)
  <2>1. f \in [SUBSET (1..n) -> Nat]
    BY <1>5 DEF Folds
  <2>2. ASSUME NEW S \in SUBSET (1..n), S # {}
        PROVE  f[S] = f[S \ {Max(S)}] * Radix + s[Max(S)] - Zero
    <3>1. f[S \ {Max(S)}] \in Nat /\ Max(S) \in 1..n
      BY <2>1, <2>2, <1>6
    <3>2. f[S] = step[<<f[S \ {Max(S)}], Max(S)>>]
      BY <1>5, <2>2 DEF Folds
    <3>3. QED BY <3>1, <3>2
  <2>3. f[{}] = 0
    BY <1>5 DEF Folds
  <2>4. QED BY <2>1, <2>2, <2>3, <1>2
<1>8. iter = body(iter)
  <2> HIDE DEF body
  <2>1. QED BY <1>7
<1> HIDE DEF iter, step
<1>9. iter[{}] = 0
  BY <1>8
<1>10. \A k \in 1..n : iter[1..k] = iter[1..(k - 1)] * Radix + s[k] - Zero
  <2>1. ASSUME NEW k \in 1..n PROVE iter[1..k] = iter[1..(k - 1)] * Radix + s[k] - Zero
    <3>1. Max(1..k) = k /\ (1..k) \ {k} = 1..(k - 1) /\ 1..k # {}
      BY PrefixMax
    <3>2. 1..k \in SUBSET (1..n)
      BY <1>2
    <3>3. QED BY <1>2, <1>8, <3>1, <3>2
  <2>2. QED BY <2>1
<1> DEFINE h == [k \in 0..n |-> iter[1..k]]
<1>11. h[0] = 0
  <2>1. 1..0 = {}
    OBVIOUS
  <2>2. QED BY <1>2, <1>9, <2>1
<1>12. \A k \in 1..n : h[k] = h[k - 1] * Radix + s[k] - Zero
  BY <1>2, <1>10
<1>13. Value(s) = h[n]
  BY <1>1, <1>2
<1>14. \A k \in 0..n : h[k] \in Nat
  <2> HIDE DEF h
  <2> DEFINE T == {k \in Nat : k <= n => h[k] \in Nat}
  <2>1. 0 \in T
    BY <1>3, <1>11
  <2>2. ASSUME NEW k \in T PROVE k + 1 \in T
    <3>1. SUFFICES ASSUME k + 1 <= n PROVE h[k + 1] \in Nat
      OBVIOUS
    <3>2. h[k] \in Nat /\ k + 1 \in 1..n /\ (k + 1) - 1 = k
      BY <1>2, <2>2, <3>1
    <3>3. QED BY <1>2, <1>12, <3>2, ValueType
  <2>3. T \subseteq Nat
    OBVIOUS
  <2> HIDE DEF T
  <2>4. \A k \in Nat : k \in T
    BY <2>1, <2>2, <2>3, Induction
  <2>5. QED BY <1>2, <2>4 DEF T
<1>15. h \in [0..n -> Nat]
  BY <1>14
<1> HIDE DEF h
<1>16. QED BY <1>11, <1>12, <1>13, <1>15 DEF n

LEMMA DigitBound ==
  ASSUME NEW x \in Nat, NEW p \in Nat, NEW r \in Nat, NEW z \in Nat, NEW b \in z..(z + r - 1), x < p
  PROVE  x * r + b - z < r * p
<1>1. x * r + r <= r * p /\ x * r \in Nat /\ r * p \in Nat
  OBVIOUS
<1>2. QED BY <1>1

LEMMA ValueBound ==
  ASSUME NEW s \in Seq(Figure), Len(s) <= NumDigits
  PROVE  Value(s) \in Nat /\ Value(s) < Power[NumDigits]
<1>1. PICK n \in Nat : n = Len(s) /\ n <= NumDigits
  OBVIOUS
<1>2. PICK h \in [0..n -> Nat] :
        /\ h[0] = 0 /\ Value(s) = h[n]
        /\ \A k \in 1..n : h[k] = h[k - 1] * Radix + s[k] - Zero
  BY <1>1, ValueSteps
<1> DEFINE T == {k \in Nat : k <= n => h[k] < Power[k]}
<1>3. 0 \in T
  BY <1>2, PowerSteps
<1>4. ASSUME NEW k \in T PROVE k + 1 \in T
  <2>1. SUFFICES ASSUME k + 1 <= n PROVE h[k + 1] < Power[k + 1]
    OBVIOUS
  <2>2. k + 1 \in 1..n /\ (k + 1) - 1 = k /\ k \in 0..n /\ h[k] < Power[k]
        /\ k + 1 \in 1..NumDigits /\ k \in 0..NumDigits
    BY <1>1, <2>1, FramesSizes
  <2>3. h[k + 1] = h[k] * Radix + s[k + 1] - Zero /\ s[k + 1] \in Figure
    BY <1>1, <1>2, <2>2
  <2>4. Power[k + 1] = Radix * Power[k] /\ Power[k] \in Nat /\ h[k] \in Nat
    BY <2>2, PowerSteps
  <2>5. \A x, p \in Nat, b \in Figure : x < p => x * Radix + b - Zero < Radix * p
    BY FramesSizes, DigitBound DEF Figure
  <2>6. QED BY <2>2, <2>3, <2>4, <2>5
<1>5. n \in T
  <2>1. T \subseteq Nat
    OBVIOUS
  <2> HIDE DEF T
  <2>2. QED BY <1>3, <1>4, <2>1, Induction
<1>6. Value(s) \in Nat /\ Value(s) < Power[n]
  BY <1>1, <1>2, <1>5
<1>7. QED BY <1>1, <1>6, PowerGrows, FramesSizes

LEMMA DivideTwice ==
  ASSUME NEW n \in Nat, NEW p \in Nat \ {0}, NEW r \in Nat \ {0}
  PROVE  n \div (r * p) = (n \div p) \div r
<1>1. PICK q \in Nat, x \in 0..(p - 1) : q = n \div p /\ n = q * p + x
  BY DivMod
<1>2. PICK u \in Nat, y \in 0..(r - 1) : u = q \div r /\ q = u * r + y
  BY DivMod
<1>3. n = u * (r * p) + (y * p + x)
  <2>1. (u * r + y) * p = u * (r * p) + y * p
    <3>1. \A a, b, c, d \in Int : (a * b + c) * d = a * (b * d) + c * d
      OBVIOUS
    <3>2. QED BY <3>1
  <2>2. q * p = u * (r * p) + y * p
    BY <1>2, <2>1
  <2>3. u * (r * p) \in Nat /\ y * p \in Nat
    OBVIOUS
  <2>4. QED BY <1>1, <2>2, <2>3
<1>4. y * p + x \in 0..(r * p - 1)
  <2>1. y * p + p <= r * p /\ y * p \in Nat
    OBVIOUS
  <2>2. r * p \in Nat
    OBVIOUS
  <2>3. QED BY <2>1, <2>2
<1>5. r * p \in Nat \ {0}
  OBVIOUS
<1>6. n \div (r * p) = u
  BY <1>3, <1>4, <1>5, DivUnique
<1>7. QED BY <1>1, <1>2, <1>6


\* The digits of a number say the number.
LEMMA DigitsSay ==
  ASSUME NEW n \in Nat, n < Power[NumDigits]
  PROVE  DigitsOf(n) \in Seq(Figure) /\ Len(DigitsOf(n)) = NumDigits /\ Value(DigitsOf(n)) = n
<1> DEFINE s == DigitsOf(n)
           N == NumDigits
<1>1. N \in Nat
  BY FramesSizes
<1>2. ASSUME NEW k \in 0..N
      PROVE  N - k \in 0..N /\ Power[N - k] \in Nat \ {0} /\ n \div Power[N - k] \in Nat
  <2>1. N - k \in 0..N
    BY <1>1
  <2>2. Power[N - k] \in Nat \ {0}
    BY <2>1, PowerSteps
  <2>3. QED BY <2>1, <2>2, DivMod
<1>3. ASSUME NEW k \in 1..N
      PROVE  Zero + ((n \div Power[N - k]) % Radix) \in Figure
  <2>1. n \div Power[N - k] \in Nat
    BY <1>1, <1>2
  <2>2. (n \div Power[N - k]) % Radix \in 0..(Radix - 1)
    BY <2>1, FramesSizes, DivMod
  <2>3. QED BY <2>2, FramesSizes DEF Figure
<1>4. s \in Seq(Figure) /\ Len(s) = N /\ \A k \in 1..N : s[k] = Zero + ((n \div Power[N - k]) % Radix)
  <2>1. s = [i \in 1..N |-> Zero + ((n \div Power[N - i]) % Radix)]
    BY DEF DigitsOf
  <2>2. s \in [1..N -> Figure]
    BY <1>3, <2>1
  <2>3. s \in Seq(Figure) /\ Len(s) = N
    <3> HIDE DEF s
    <3>1. QED BY <1>1, <2>2
  <2>4. QED BY <2>1, <2>3
<1> HIDE DEF s
<1>5. PICK h \in [0..N -> Nat] :
        /\ h[0] = 0 /\ Value(s) = h[N]
        /\ \A k \in 1..N : h[k] = h[k - 1] * Radix + s[k] - Zero
  BY <1>4, ValueSteps
<1> DEFINE T == {k \in Nat : k <= N => h[k] = n \div Power[N - k]}
<1>6. 0 \in T
  <2>1. N - 0 = N /\ Power[N] \in Nat \ {0}
    BY <1>1, PowerSteps
  <2>2. n \div Power[N] = 0
    <3>1. n = 0 * Power[N] + n /\ n \in 0..(Power[N] - 1)
      BY <2>1
    <3>2. QED BY <2>1, <3>1, DivUnique
  <2>3. QED BY <1>5, <2>1, <2>2
<1>7. ASSUME NEW k \in T PROVE k + 1 \in T
  <2>1. SUFFICES ASSUME k + 1 <= N PROVE h[k + 1] = n \div Power[N - (k + 1)]
    OBVIOUS
  <2>2. k + 1 \in 1..N /\ (k + 1) - 1 = k /\ k \in 0..N /\ h[k] = n \div Power[N - k]
        /\ k + 1 \in 0..N /\ N - k \in 1..N /\ (N - k) - 1 = N - (k + 1)
    BY <1>1, <2>1
  <2>3. PICK p \in Nat \ {0} : p = Power[N - (k + 1)] /\ Power[N - k] = Radix * p
    BY <1>2, <2>2, PowerSteps
  <2>4. h[k] = (n \div p) \div Radix
    <3>1. n \div (Radix * p) = (n \div p) \div Radix
      <4>1. n \in Nat /\ p \in Nat \ {0} /\ Radix \in Nat \ {0}
        BY FramesSizes
      <4>2. QED BY ONLY <4>1, DivideTwice
    <3>2. QED BY <2>2, <2>3, <3>1
  <2>5. PICK q \in Nat : q = n \div p
    BY <2>3, DivMod
  <2>6. q \div Radix \in Nat /\ q % Radix \in 0..(Radix - 1) /\ q = (q \div Radix) * Radix + (q % Radix)
    BY FramesSizes, DivMod
  <2>7. s[k + 1] = Zero + (q % Radix) /\ h[k + 1] = h[k] * Radix + s[k + 1] - Zero
    BY <1>4, <1>5, <2>2, <2>3, <2>5
  <2>8. h[k + 1] = (q \div Radix) * Radix + (Zero + (q % Radix)) - Zero
    BY <2>4, <2>5, <2>7
  <2>9. (q \div Radix) * Radix \in Nat
    BY <2>6, FramesSizes
  <2>10. h[k + 1] = q
    BY <2>6, <2>8, <2>9, FramesSizes
  <2>11. QED BY <2>3, <2>5, <2>10
<1>8. N \in T
  <2>1. T \subseteq Nat
    OBVIOUS
  <2> HIDE DEF T
  <2>2. QED BY <1>1, <1>6, <1>7, <2>1, Induction
<1>9. h[N] = n
  <2>1. h[N] = n \div Power[0] /\ Power[0] = 1
    BY <1>1, <1>8, PowerSteps
  <2>2. n \div 1 = n
    OBVIOUS
  <2>3. QED BY <2>1, <2>2
<1>10. QED BY <1>4, <1>5, <1>9 DEF s

\* Number stops at the first byte that is no digit.
LEMMA NumberType ==
  ASSUME NEW bytes \in Seq(Byte), Len(bytes) <= NumDigits
  PROVE  /\ Number(bytes) \in 0..(Power[NumDigits] - 1)
         /\ bytes \in Seq(Figure) => Number(bytes) = Value(bytes)
<1> DEFINE Ending(p) == /\ \A i \in DOMAIN p : IsDigit(p[i])
                        /\ p # bytes => ~IsDigit(bytes[Len(p) + 1])
           digits == CHOOSE p \in Prefixes(bytes) : Ending(p)
           n == Len(bytes)
<1>1. n \in Nat /\ n <= NumDigits
  OBVIOUS
<1>2. \A l \in 0..n : /\ SubSeq(bytes, 1, l) \in Seq(Byte) /\ Len(SubSeq(bytes, 1, l)) = l
                      /\ DOMAIN SubSeq(bytes, 1, l) = 1..l
                      /\ \A i \in 1..l : SubSeq(bytes, 1, l)[i] = bytes[i]
  <2>1. ASSUME NEW l \in 0..n
        PROVE  /\ SubSeq(bytes, 1, l) \in Seq(Byte) /\ Len(SubSeq(bytes, 1, l)) = l
               /\ DOMAIN SubSeq(bytes, 1, l) = 1..l
               /\ \A i \in 1..l : SubSeq(bytes, 1, l)[i] = bytes[i]
    <3>1. SubSeq(bytes, 1, l) = [i \in 1..l |-> bytes[i]]
      BY <1>1
    <3>2. \A i \in 1..l : bytes[i] \in Byte
      BY <1>1
    <3>3. QED BY <3>1, <3>2
  <2>2. QED BY <2>1
<1>3. \E p \in Prefixes(bytes) : Ending(p)
  <2> DEFINE T == {l \in 0..n : l = n \/ ~IsDigit(bytes[l + 1])}
  <2>1. T \in SUBSET Nat /\ T # {}
    BY <1>1
  <2>2. PICK l \in T : \A k \in T : l <= k
    <3> HIDE DEF T
    <3>1. QED BY <2>1, LeastNumber
  <2>3. \A i \in 1..l : IsDigit(bytes[i])
    <3>1. ASSUME NEW i \in 1..l, ~IsDigit(bytes[i]) PROVE FALSE
      <4>1. i - 1 \in T
        BY <1>1, <3>1
      <4>2. l <= i - 1 /\ l \in Nat
        <5>1. l \in Nat
          BY <1>1
        <5> HIDE DEF T
        <5>2. l <= i - 1
          BY <2>2, <4>1
        <5>3. QED BY <5>1, <5>2
      <4>3. QED BY <4>2
    <3>2. QED BY <3>1
  <2> DEFINE p == SubSeq(bytes, 1, l)
  <2>4. p \in Prefixes(bytes)
    BY DEF Prefixes
  <2>5. \A i \in DOMAIN p : IsDigit(p[i])
    BY <1>2, <2>3
  <2>6. ASSUME p # bytes PROVE ~IsDigit(bytes[Len(p) + 1])
    <3>1. l # n
      BY <2>6, SubSeqFull
    <3>2. Len(p) = l
      BY <1>2
    <3>3. QED BY <3>1, <3>2
  <2>7. QED BY <2>4, <2>5, <2>6
<1>4. digits \in Prefixes(bytes) /\ Ending(digits)
  <2> HIDE DEF Ending
  <2>1. QED BY <1>3
<1>5. Number(bytes) = Value(digits)
  BY DEF Number, Value
<1> HIDE DEF digits
<1>6. PICK l \in 0..n : digits = SubSeq(bytes, 1, l)
  BY <1>4 DEF Prefixes
<1>7. digits \in Seq(Figure) /\ Len(digits) = l
  <2>1. \A i \in 1..l : digits[i] \in Figure
    BY <1>2, <1>4, <1>6 DEF IsDigit, Figure
  <2>2. digits \in Seq(Byte) /\ Len(digits) = l
    BY <1>2, <1>6
  <2>3. QED BY <2>1, <2>2
<1>8. Number(bytes) \in 0..(Power[NumDigits] - 1)
  <2>1. Len(digits) <= NumDigits
    <3>1. l <= NumDigits
      BY <1>1, FramesSizes
    <3>2. QED BY <1>7, <3>1
  <2>2. Value(digits) \in Nat /\ Value(digits) < Power[NumDigits]
    BY <1>7, <2>1, ValueBound
  <2>3. Power[NumDigits] \in Nat
    BY PowerSteps, FramesSizes
  <2>4. QED BY <1>5, <2>2, <2>3
<1>9. ASSUME bytes \in Seq(Figure) PROVE Number(bytes) = Value(bytes)
  <2>1. CASE digits = bytes
    BY <1>5, <2>1
  <2>2. CASE digits # bytes
    <3>1. ~IsDigit(bytes[l + 1])
      BY <1>4, <1>7, <2>2
    <3>2. l # n
      BY <1>6, <2>2, SubSeqFull
    <3>3. bytes[l + 1] \in Figure
      BY <1>1, <1>9, <3>2
    <3>4. QED BY <3>1, <3>3 DEF IsDigit, Figure
  <2>3. QED BY <2>1, <2>2
<1>10. QED BY <1>8, <1>9

(***************************************************************************)
(* The frames sent                                                         *)
(***************************************************************************)

Showable == [Index -> Counts \cup {0}]

LEMMA CountFrameIs ==
  ASSUME NEW d \in Index, NEW n \in Counts
  PROVE  LET f == CountFrame(d, n)
         IN  /\ f \in Seq(Byte) /\ Len(f) = Size /\ Checksum(f) = Last(f)
             /\ f[1] = STX /\ f[2] = d /\ f[3] = 0 /\ f[4] = n
<1> DEFINE bytes == <<STX, d, 0, n>>
           g == Filled(bytes, Size)
<1>1. bytes \in Seq(Byte) /\ Len(bytes) = 4 /\ bytes[1] = STX /\ bytes[2] = d /\ bytes[3] = 0 /\ bytes[4] = n
  BY Bytes
<1>2. CountFrame(d, n) = WithChecksum(g)
  BY DEF CountFrame
<1> HIDE DEF bytes
<1>3. g \in Seq(Byte) /\ Len(g) = Size - 1 /\ \A i \in 1..4 : g[i] = bytes[i]
  <2>1. Size \in Nat /\ Len(bytes) < Size
    BY <1>1, FramesSizes
  <2>2. g \in Seq(Byte) /\ Len(g) = Size - 1 /\ \A i \in 1..Len(bytes) : g[i] = bytes[i]
    BY <1>1, <2>1, FilledType
  <2> HIDE DEF g
  <2>3. QED BY <1>1, <2>2
<1> HIDE DEF g
<1>4. g # <<>> /\ 4 <= Size - 1
  BY <1>3, FramesSizes
<1>5. LET f == WithChecksum(g)
      IN  f \in Seq(Byte) /\ Len(f) = Len(g) + 1 /\ Checksum(f) = Last(f) /\ \A i \in 1..Len(g) : f[i] = g[i]
  BY <1>3, <1>4, WithChecksumRight
<1>6. \A i \in 1..4 : WithChecksum(g)[i] = bytes[i]
  BY <1>3, <1>4, <1>5, FramesSizes
<1>7. Len(WithChecksum(g)) = Size
  BY <1>3, <1>5, FramesSizes
<1>8. QED BY <1>1, <1>2, <1>5, <1>6, <1>7

LEMMA ClearFrameIs ==
  /\ ClearFrame \in Seq(Byte) /\ Len(ClearFrame) = Size /\ Checksum(ClearFrame) = Last(ClearFrame)
  /\ ClearFrame[1] = STX /\ ClearFrame[2] = Clear
<1> DEFINE bytes == <<STX, Clear>>
           g == Filled(bytes, Size)
<1>1. bytes \in Seq(Byte) /\ Len(bytes) = 2 /\ bytes[1] = STX /\ bytes[2] = Clear
  BY Bytes
<1>2. ClearFrame = WithChecksum(g)
  BY DEF ClearFrame
<1> HIDE DEF bytes
<1>3. g \in Seq(Byte) /\ Len(g) = Size - 1 /\ \A i \in 1..2 : g[i] = bytes[i]
  <2>1. Size \in Nat /\ Len(bytes) < Size
    BY <1>1, FramesSizes
  <2>2. g \in Seq(Byte) /\ Len(g) = Size - 1 /\ \A i \in 1..Len(bytes) : g[i] = bytes[i]
    BY <1>1, <2>1, FilledType
  <2> HIDE DEF g
  <2>3. QED BY <1>1, <2>2
<1> HIDE DEF g
<1>4. g # <<>> /\ 2 <= Size - 1
  BY <1>3, FramesSizes
<1>5. LET f == WithChecksum(g)
      IN  f \in Seq(Byte) /\ Len(f) = Len(g) + 1 /\ Checksum(f) = Last(f) /\ \A i \in 1..Len(g) : f[i] = g[i]
  BY <1>3, <1>4, WithChecksumRight
<1>6. \A i \in 1..2 : WithChecksum(g)[i] = bytes[i]
  BY <1>3, <1>4, <1>5, FramesSizes
<1>7. Len(WithChecksum(g)) = Size
  BY <1>3, <1>5, FramesSizes
<1>8. QED BY <1>1, <1>2, <1>5, <1>6, <1>7

LEMMA EndFrameIs ==
  /\ EndFrame \in Seq(Byte) /\ Len(EndFrame) = Size2 /\ Checksum(EndFrame) = Last(EndFrame)
  /\ EndFrame[1] = STX2
<1> DEFINE bytes == <<STX2>>
           g == Filled(bytes, Size2)
<1>1. bytes \in Seq(Byte) /\ Len(bytes) = 1 /\ bytes[1] = STX2
  BY Bytes
<1>2. EndFrame = WithChecksum(g)
  BY DEF EndFrame
<1> HIDE DEF bytes
<1>3. g \in Seq(Byte) /\ Len(g) = Size2 - 1 /\ g[1] = bytes[1]
  <2>1. Size2 \in Nat /\ Len(bytes) < Size2
    BY <1>1, FramesSizes
  <2>2. g \in Seq(Byte) /\ Len(g) = Size2 - 1 /\ \A i \in 1..Len(bytes) : g[i] = bytes[i]
    BY <1>1, <2>1, FilledType
  <2> HIDE DEF g
  <2>3. QED BY <1>1, <2>2
<1> HIDE DEF g
<1>4. g # <<>> /\ 1 <= Size2 - 1
  BY <1>3, FramesSizes
<1>5. LET f == WithChecksum(g)
      IN  f \in Seq(Byte) /\ Len(f) = Len(g) + 1 /\ Checksum(f) = Last(f) /\ \A i \in 1..Len(g) : f[i] = g[i]
  BY <1>3, <1>4, WithChecksumRight
<1>6. WithChecksum(g)[1] = bytes[1]
  BY <1>3, <1>4, <1>5, FramesSizes
<1>7. Len(WithChecksum(g)) = Size2
  BY <1>3, <1>5, FramesSizes
<1>8. QED BY <1>1, <1>2, <1>5, <1>6, <1>7

\* A frame without a checksum ends in a zero.
LEMMA PlainIs ==
  ASSUME NEW bytes \in Seq(Byte), NEW size \in Nat, Len(bytes) < size
  PROVE  LET f == Append(Filled(bytes, size), 0)
         IN  f \in Seq(Byte) /\ Len(f) = size /\ \A i \in 1..Len(bytes) : f[i] = bytes[i]
<1> DEFINE g == Filled(bytes, size)
<1>1. g \in Seq(Byte) /\ Len(g) = size - 1 /\ \A i \in 1..Len(bytes) : g[i] = bytes[i]
  BY FilledType
<1>2. PICK m \in Nat : m = Len(bytes) /\ m <= size - 1
  OBVIOUS
<1> HIDE DEF g
<1>3. Append(g, 0) \in Seq(Byte) /\ Len(Append(g, 0)) = (size - 1) + 1
      /\ \A i \in 1..(size - 1) : Append(g, 0)[i] = g[i]
  BY <1>1, Bytes, AppendProperties
<1>4. QED BY <1>1, <1>2, <1>3 DEF g

LEMMA P506FrameIs ==
  ASSUME NEW counts \in Showable
  PROVE  LET f == P506Frame(counts)
         IN  /\ f \in Seq(Byte) /\ Len(f) = P506Size /\ f[1] = STX
             /\ \A d \in Index : f[d + 2] = counts[d]
<1> DEFINE c == [i \in 1..NumCounts |-> counts[i - 1]]
           bytes == <<STX>> \o c
<1>1. c \in Seq(Byte) /\ Len(c) = NumCounts /\ \A i \in 1..NumCounts : c[i] = counts[i - 1]
  <2>1. \A i \in 1..NumCounts : counts[i - 1] \in Byte
    BY Bytes, FramesSizes DEF Showable, Index
  <2>2. QED BY <2>1, FramesSizes
<1> HIDE DEF c
<1>2. <<STX>> \in Seq(Byte) /\ Len(<<STX>>) = 1 /\ <<STX>>[1] = STX
  BY Bytes
<1>3. bytes \in Seq(Byte) /\ Len(bytes) = 1 + NumCounts /\ bytes[1] = STX
      /\ \A i \in 1..NumCounts : bytes[1 + i] = c[i]
  BY <1>1, <1>2, ConcatProperties
<1>4. P506Frame(counts) = Append(Filled(bytes, P506Size), 0)
  BY DEF P506Frame, c
<1> HIDE DEF bytes
<1> DEFINE f == Append(Filled(bytes, P506Size), 0)
<1>5. f \in Seq(Byte) /\ Len(f) = P506Size /\ \A i \in 1..(1 + NumCounts) : f[i] = bytes[i]
  <2>1. P506Size \in Nat /\ Len(bytes) < P506Size
    BY <1>3, FramesSizes
  <2>2. f \in Seq(Byte) /\ Len(f) = P506Size /\ \A i \in 1..Len(bytes) : f[i] = bytes[i]
    BY <1>3, <2>1, PlainIs
  <2> HIDE DEF f
  <2>3. QED BY <1>3, <2>2
<1> HIDE DEF f
<1>6. \A d \in Index : d + 1 \in 1..NumCounts /\ d + 2 \in 1..(1 + NumCounts) /\ 1 + (d + 1) = d + 2 /\ (d + 1) - 1 = d
  BY FramesSizes DEF Index
<1>7. \A d \in Index : bytes[d + 2] = counts[d]
  BY <1>1, <1>3, <1>6
<1>8. 1 \in 1..(1 + NumCounts)
  BY FramesSizes
<1>9. f[1] = STX /\ \A d \in Index : f[d + 2] = counts[d]
  BY <1>3, <1>5, <1>6, <1>7, <1>8
<1>10. QED BY <1>4, <1>5, <1>9 DEF f

LEMMA RowBound ==
  ASSUME NEW n \in Nat, NEW m \in Nat, NEW k \in Nat, NEW j \in 1..m, k < n
  PROVE  k * m + j \in 1..(n * m) /\ k * m \in Nat /\ n * m \in Nat
<1>1. k * m + m <= n * m /\ k * m \in Nat /\ n * m \in Nat
  OBVIOUS
<1>2. QED BY <1>1

LEMMA RowNext ==
  ASSUME NEW k \in Nat, NEW m \in Nat
  PROVE  (k + 1) * m = k * m + m /\ k * m \in Nat
OBVIOUS

\* Sequences of one length, one after the other.
LEMMA FlattenRows ==
  ASSUME NEW S, NEW ss \in Seq(Seq(S)), NEW m \in Nat, \A k \in 1..Len(ss) : Len(ss[k]) = m
  PROVE  /\ FlattenSeq(ss) \in Seq(S) /\ Len(FlattenSeq(ss)) = Len(ss) * m
         /\ \A k \in 0..(Len(ss) - 1) : \A j \in 1..m : FlattenSeq(ss)[k * m + j] = ss[k + 1][j]
<1>1. PICK n \in Nat : n = Len(ss)
  OBVIOUS
<1>2. PICK g : Concats(g, S, ss)
  BY FlattenSteps
<1>3. /\ g \in [0..n -> Seq(S)] /\ g[0] = <<>> /\ FlattenSeq(ss) = g[n]
      /\ \A k \in 1..n : g[k] = g[k - 1] \o ss[k]
      /\ \A k \in 1..n : ss[k] \in Seq(S) /\ Len(ss[k]) = m
  <2>1. \A k \in 1..n : ss[k] \in Seq(S) /\ Len(ss[k]) = m
    BY <1>1
  <2>2. QED BY <1>1, <1>2, <2>1 DEF Concats
<1> DEFINE Placed(f, k) == /\ Len(f) = k * m
                           /\ \A i \in 0..(k - 1) : \A j \in 1..m : f[i * m + j] = ss[i + 1][j]
           T == {k \in Nat : k <= n => Placed(g[k], k)}
<1>4. 0 \in T
  <2>1. 0 * m = 0 /\ Len(g[0]) = 0
    BY <1>3
  <2>2. 0..(0 - 1) = {}
    OBVIOUS
  <2>3. QED BY <2>1, <2>2
<1> HIDE DEF Placed
<1>5. ASSUME NEW k \in T PROVE k + 1 \in T
  <2>1. SUFFICES ASSUME k + 1 <= n PROVE Placed(g[k + 1], k + 1)
    OBVIOUS
  <2>2. k \in Nat /\ k + 1 \in 1..n /\ (k + 1) - 1 = k /\ k \in 0..n /\ Placed(g[k], k)
    BY <1>1, <2>1
  <2> DEFINE a == g[k]
             b == ss[k + 1]
  <2>3. a \in Seq(S) /\ b \in Seq(S) /\ Len(b) = m /\ Len(a) = k * m /\ g[k + 1] = a \o b
    BY <1>3, <2>2 DEF Placed
  <2>4. \A i \in 0..(k - 1) : \A j \in 1..m : a[i * m + j] = ss[i + 1][j]
    BY <2>2 DEF Placed
  <2> HIDE DEF a, b
  <2>5. /\ Len(a \o b) = Len(a) + Len(b)
        /\ \A i \in 1..Len(a) : (a \o b)[i] = a[i]
        /\ \A i \in 1..Len(b) : (a \o b)[Len(a) + i] = b[i]
    <3>1. a \in Seq(S) /\ b \in Seq(S)
      BY <2>3
    <3>2. QED BY <3>1, ConcatProperties
  <2>6. Len(a \o b) = k * m + m
    BY <2>3, <2>5
  <2>7. ASSUME NEW i \in 0..((k + 1) - 1), NEW j \in 1..m
        PROVE  (a \o b)[i * m + j] = ss[i + 1][j]
    <3>1. CASE i = k
      <4>1. (a \o b)[Len(a) + j] = b[j]
        BY <2>3, <2>5
      <4>2. QED BY <2>3, <3>1, <4>1 DEF b
    <3>2. CASE i # k
      <4>1. i \in 0..(k - 1) /\ i \in Nat /\ i < k
        BY <2>2, <3>2
      <4>2. i * m + j \in 1..Len(a)
        BY <2>2, <2>3, <4>1, RowBound
      <4> DEFINE x == i * m + j
      <4>3. x \in 1..Len(a)
        BY <4>2
      <4>4. a[x] = ss[i + 1][j]
        BY <2>4, <4>1
      <4> HIDE DEF x
      <4>5. (a \o b)[x] = a[x]
        BY <2>5, <4>3
      <4>6. QED BY <4>5, <4>4 DEF x
    <3>3. QED BY <3>1, <3>2
  <2>8. (k + 1) * m = k * m + m
    BY <2>2, RowNext
  <2>9. Placed(a \o b, k + 1)
    <3>1. a \o b \in Seq(S) /\ Len(a \o b) = (k + 1) * m
      BY <2>3, <2>6, <2>8, ConcatProperties
    <3>2. QED BY <2>7, <3>1 DEF Placed
  <2>10. QED BY <2>3, <2>9
<1>6. n \in T
  <2>1. T \subseteq Nat
    OBVIOUS
  <2> HIDE DEF T
  <2>2. QED BY <1>1, <1>4, <1>5, <2>1, Induction
<1>7. Placed(g[n], n)
  BY <1>1, <1>6
<1>8. g[n] \in Seq(S)
  BY <1>1, <1>3
<1>9. QED BY <1>1, <1>3, <1>7, <1>8 DEF Placed

LEMMA CountsAre ==
  \A n \in Counts \cup {0} : n \in Nat /\ n < Base /\ n < Power[NumDigits]
<1>1. \A n \in Counts : n \in 0..(Base - 1) /\ n < Power[NumDigits]
  BY FramesAssumption
<1>2. Power[NumDigits] \in Nat \ {0} /\ Base \in Nat \ {0}
  BY PowerSteps, FramesSizes
<1>3. QED BY <1>1, <1>2

LEMMA FigureByte == Figure \subseteq Byte
BY FramesSizes DEF Figure, Byte

\* Taking out the k-th row behind the first byte.
LEMMA SliceIs ==
  ASSUME NEW f \in Seq(Byte), NEW p \in Nat, NEW m \in Nat, NEW s \in Seq(Byte), Len(s) = m,
         \A j \in 1..m : f[1 + p + j] = s[j]
  PROVE  SubSeq(f, 2 + p, 1 + (p + m)) = s
<1>1. SubSeq(f, 2 + p, 1 + (p + m)) = [i \in 1..m |-> f[i + (2 + p) - 1]]
  <2>1. (1 + (p + m)) - (2 + p) + 1 = m
    OBVIOUS
  <2>2. QED BY <2>1
<1>2. \A i \in 1..m : i + (2 + p) - 1 = 1 + p + i
  OBVIOUS
<1>3. s = [i \in 1..m |-> s[i]]
  OBVIOUS
<1>4. \A i \in 1..m : f[i + (2 + p) - 1] = s[i]
  BY <1>2
<1>5. [i \in 1..m |-> f[i + (2 + p) - 1]] = [i \in 1..m |-> s[i]]
  BY <1>4
<1>6. QED BY <1>1, <1>3, <1>5

LEMMA BH1000FrameIs ==
  ASSUME NEW counts \in Showable
  PROVE  LET f == BH1000Frame(counts)
         IN  /\ f \in Seq(Byte) /\ Len(f) = BH1000Size /\ f[1] = STX
             /\ \A d \in Index : SubSeq(f, 2 + d * NumDigits, 1 + (d + 1) * NumDigits) = DigitsOf(counts[d])
<1> DEFINE ss == [i \in 1..NumCounts |-> DigitsOf(counts[i - 1])]
           c == FlattenSeq(ss)
           bytes == <<STX>> \o c
<1>1. \A d \in Index : /\ DigitsOf(counts[d]) \in Seq(Byte) /\ Len(DigitsOf(counts[d])) = NumDigits
                       /\ d + 1 \in 1..NumCounts /\ (d + 1) - 1 = d
  <2>1. ASSUME NEW d \in Index PROVE DigitsOf(counts[d]) \in Seq(Byte) /\ Len(DigitsOf(counts[d])) = NumDigits
    <3>1. counts[d] \in Nat /\ counts[d] < Power[NumDigits]
      BY CountsAre DEF Showable
    <3>2. DigitsOf(counts[d]) \in Seq(Figure) /\ Len(DigitsOf(counts[d])) = NumDigits
      BY <3>1, DigitsSay
    <3>3. QED BY <3>2, FigureByte
  <2>2. \A d \in Index : d + 1 \in 1..NumCounts /\ (d + 1) - 1 = d
    BY FramesSizes DEF Index
  <2>3. QED BY <2>1, <2>2
<1>2. \A i \in 1..NumCounts : i - 1 \in Index
  BY FramesSizes DEF Index
<1>3. /\ ss \in Seq(Seq(Byte)) /\ Len(ss) = NumCounts
      /\ \A k \in 1..NumCounts : Len(ss[k]) = NumDigits
      /\ \A d \in Index : ss[d + 1] = DigitsOf(counts[d])
  <2>1. \A i \in 1..NumCounts : DigitsOf(counts[i - 1]) \in Seq(Byte) /\ Len(DigitsOf(counts[i - 1])) = NumDigits
    BY <1>1, <1>2
  <2>2. \A d \in Index : ss[d + 1] = DigitsOf(counts[d])
    BY <1>1
  <2>3. QED BY <2>1, <2>2, FramesSizes
<1> HIDE DEF ss
<1>4. /\ c \in Seq(Byte) /\ Len(c) = NumCounts * NumDigits
      /\ \A k \in 0..(NumCounts - 1) : \A j \in 1..NumDigits : c[k * NumDigits + j] = ss[k + 1][j]
  <2>1. \A k \in 1..Len(ss) : Len(ss[k]) = NumDigits
    BY <1>3
  <2>2. /\ c \in Seq(Byte) /\ Len(c) = Len(ss) * NumDigits
        /\ \A k \in 0..(Len(ss) - 1) : \A j \in 1..NumDigits : c[k * NumDigits + j] = ss[k + 1][j]
    BY <1>3, <2>1, FramesSizes, FlattenRows
  <2>3. QED BY <1>3, <2>2
<1> HIDE DEF c
<1>5. PICK n \in Nat : n = NumCounts * NumDigits /\ n + 1 < BH1000Size
  <2>1. NumCounts * NumDigits \in Nat
    BY FramesSizes
  <2>2. QED BY <2>1, FramesSizes
<1>6. <<STX>> \in Seq(Byte) /\ Len(<<STX>>) = 1 /\ <<STX>>[1] = STX
  BY Bytes
<1>7. bytes \in Seq(Byte) /\ Len(bytes) = 1 + n /\ bytes[1] = STX
      /\ \A i \in 1..n : bytes[1 + i] = c[i]
  BY <1>4, <1>5, <1>6, ConcatProperties
<1>8. BH1000Frame(counts) = Append(Filled(bytes, BH1000Size), 0)
  BY DEF BH1000Frame, c, ss
<1> HIDE DEF bytes
<1> DEFINE f == Append(Filled(bytes, BH1000Size), 0)
<1>9. f \in Seq(Byte) /\ Len(f) = BH1000Size /\ \A i \in 1..(1 + n) : f[i] = bytes[i]
  <2>1. BH1000Size \in Nat /\ Len(bytes) < BH1000Size
    BY <1>5, <1>7, FramesSizes
  <2>2. f \in Seq(Byte) /\ Len(f) = BH1000Size /\ \A i \in 1..Len(bytes) : f[i] = bytes[i]
    BY <1>7, <2>1, PlainIs
  <2> HIDE DEF f
  <2>3. QED BY <1>7, <2>2
<1> HIDE DEF f
<1>10. ASSUME NEW d \in Index
       PROVE  SubSeq(f, 2 + d * NumDigits, 1 + (d + 1) * NumDigits) = DigitsOf(counts[d])
  <2>1. d \in Nat /\ d < NumCounts /\ d \in 0..(NumCounts - 1)
    BY FramesSizes DEF Index
  <2>2. PICK p \in Nat : p = d * NumDigits /\ (d + 1) * NumDigits = p + NumDigits
    BY <2>1, RowNext, FramesSizes
  <2>3. \A j \in 1..NumDigits : p + j \in 1..n
    BY <1>5, <2>1, <2>2, RowBound, FramesSizes
  <2>4. ASSUME NEW j \in 1..NumDigits PROVE f[1 + p + j] = DigitsOf(counts[d])[j]
    <3>1. p + j \in 1..n /\ 1 + (p + j) = 1 + p + j /\ 1 + (p + j) \in 1..(1 + n)
      BY <2>3
    <3>2. f[1 + (p + j)] = c[p + j]
      BY <1>7, <1>9, <3>1
    <3>3. c[p + j] = DigitsOf(counts[d])[j]
      BY <1>3, <1>4, <2>1, <2>2
    <3>4. QED BY <3>1, <3>2, <3>3
  <2>5. DigitsOf(counts[d]) \in Seq(Byte) /\ Len(DigitsOf(counts[d])) = NumDigits /\ NumDigits \in Nat
    BY <1>1, FramesSizes
  <2>6. SubSeq(f, 2 + p, 1 + (p + NumDigits)) = DigitsOf(counts[d])
    BY <1>9, <2>4, <2>5, SliceIs
  <2>7. QED BY <2>2, <2>6
<1>11. f[1] = STX
  BY <1>5, <1>7, <1>9
<1>12. QED BY <1>8, <1>9, <1>10, <1>11 DEF f

(***************************************************************************)
(* Frames read                                                             *)
(***************************************************************************)

LEMMA FrameSizes ==
  /\ \A x : FrameSize(x) \in Nat
  /\ model = "P16" => /\ FrameSize(STX) = Size /\ FrameSize(STX2) = Size2
                      /\ \A x : FrameSize(x) # 0 => x \in {STX, STX2}
  /\ model = "P506" => FrameSize(STX) = P506Size /\ \A x : FrameSize(x) # 0 => x = STX
  /\ model = "BH1000" => FrameSize(STX) = BH1000Size /\ \A x : FrameSize(x) # 0 => x = STX
<1>1. \A x : \/ model = "P16" /\ x = STX /\ FrameSize(x) = Size
             \/ model = "P16" /\ x = STX2 /\ FrameSize(x) = Size2
             \/ model = "P506" /\ x = STX /\ FrameSize(x) = P506Size
             \/ model = "BH1000" /\ x = STX /\ FrameSize(x) = BH1000Size
             \/ FrameSize(x) = 0
  BY Bytes DEF FrameSize
<1>2. model = "P16" => FrameSize(STX) = Size /\ FrameSize(STX2) = Size2
  BY Bytes DEF FrameSize
<1>3. model = "P506" => FrameSize(STX) = P506Size
  BY DEF FrameSize
<1>4. model = "BH1000" => FrameSize(STX) = BH1000Size
  BY DEF FrameSize
<1>5. QED BY <1>1, <1>2, <1>3, <1>4, FramesSizes

\* The plain frame of some counts begins with STX, has its length and says the counts.
LEMMA PlainFrameIs ==
  ASSUME NEW counts \in Showable, model \in {"P506", "BH1000"}
  PROVE  /\ PlainFrame(counts) \in Seq(Byte)
         /\ PlainFrame(counts)[1] = STX
         /\ Len(PlainFrame(counts)) = FrameSize(STX)
         /\ Values(PlainFrame(counts)) = counts
<1>1. CASE model = "P506"
  <2> DEFINE f == P506Frame(counts)
  <2>1. /\ f \in Seq(Byte) /\ Len(f) = P506Size /\ f[1] = STX
        /\ \A d \in Index : f[d + 2] = counts[d]
    BY P506FrameIs
  <2> HIDE DEF f
  <2>2. Values(f) = [d \in Index |-> f[d + 2]]
    BY <1>1 DEF Values
  <2>3. counts = [d \in Index |-> counts[d]]
    BY DEF Showable
  <2>4. Values(f) = counts
    BY <2>1, <2>2, <2>3
  <2>5. QED BY <1>1, <2>1, <2>4, FrameSizes DEF PlainFrame, f
<1>2. CASE model = "BH1000"
  <2> DEFINE f == BH1000Frame(counts)
  <2>1. /\ f \in Seq(Byte) /\ Len(f) = BH1000Size /\ f[1] = STX
        /\ \A d \in Index : SubSeq(f, 2 + d * NumDigits, 1 + (d + 1) * NumDigits) = DigitsOf(counts[d])
    BY BH1000FrameIs
  <2> HIDE DEF f
  <2>2. Values(f) = [d \in Index |-> Number(SubSeq(f, 2 + d * NumDigits, 1 + (d + 1) * NumDigits))]
    BY <1>2 DEF Values
  <2>3. ASSUME NEW d \in Index PROVE Number(DigitsOf(counts[d])) = counts[d]
    <3>1. counts[d] \in Nat /\ counts[d] < Power[NumDigits]
      BY CountsAre DEF Showable
    <3>2. DigitsOf(counts[d]) \in Seq(Figure) /\ Len(DigitsOf(counts[d])) = NumDigits
          /\ Value(DigitsOf(counts[d])) = counts[d]
      BY <3>1, DigitsSay
    <3>3. DigitsOf(counts[d]) \in Seq(Byte) /\ Len(DigitsOf(counts[d])) <= NumDigits
      BY <3>2, FigureByte, FramesSizes
    <3>4. QED BY <3>2, <3>3, NumberType
  <2>4. counts = [d \in Index |-> counts[d]]
    BY DEF Showable
  <2>5. Values(f) = [d \in Index |-> counts[d]]
    BY <2>1, <2>2, <2>3
  <2>6. QED BY <1>2, <2>1, <2>4, <2>5, FrameSizes DEF PlainFrame, f
<1>3. QED BY <1>1, <1>2

\* Whatever the bytes of a complete frame, what they say is a possible count.
LEMMA ValuesType ==
  ASSUME NEW f \in Seq(Byte), model \in {"P506", "BH1000"}, f[1] = STX, Len(f) = FrameSize(STX)
  PROVE  Values(f) \in PossibleCounts
<1>1. CASE model = "P506"
  <2>1. Limit = Base
    BY <1>1 DEF Limit
  <2>2. \A d \in Index : d + 2 \in 1..Len(f)
    BY <1>1, FrameSizes, FramesSizes DEF Index
  <2>3. \A d \in Index : f[d + 2] \in Byte
    BY <2>2
  <2>4. QED BY <1>1, <2>1, <2>3 DEF Values, PossibleCounts, Byte
<1>2. CASE model = "BH1000"
  <2>1. Limit = Power[NumDigits]
    BY <1>2 DEF Limit
  <2>2. ASSUME NEW d \in Index
        PROVE  Number(SubSeq(f, 2 + d * NumDigits, 1 + (d + 1) * NumDigits)) \in 0..(Power[NumDigits] - 1)
    <3>1. d \in Nat /\ d < NumCounts
      BY FramesSizes DEF Index
    <3>2. PICK p \in Nat : p = d * NumDigits /\ (d + 1) * NumDigits = p + NumDigits
      BY <3>1, RowNext, FramesSizes
    <3>3. PICK n \in Nat : n = NumCounts * NumDigits /\ n + 1 < BH1000Size
      <4>1. NumCounts * NumDigits \in Nat
        BY FramesSizes
      <4>2. QED BY <4>1, FramesSizes
    <3>4. \A j \in 1..NumDigits : p + j \in 1..n
      BY <3>1, <3>2, <3>3, RowBound, FramesSizes
    <3> DEFINE s == [j \in 1..NumDigits |-> f[1 + p + j]]
    <3>5. \A j \in 1..NumDigits : 1 + p + j \in 1..Len(f)
      <4>1. Len(f) = BH1000Size
        BY <1>2, FrameSizes
      <4>2. QED BY <3>3, <3>4, <4>1, FramesSizes
    <3>6. s \in Seq(Byte) /\ Len(s) = NumDigits /\ \A j \in 1..NumDigits : s[j] = f[1 + p + j]
      <4>1. \A j \in 1..NumDigits : f[1 + p + j] \in Byte
        BY <3>5
      <4>2. QED BY <4>1, FramesSizes
    <3> HIDE DEF s
    <3>7. SubSeq(f, 2 + p, 1 + (p + NumDigits)) = s
      BY <3>6, SliceIs, FramesSizes
    <3>8. Number(s) \in 0..(Power[NumDigits] - 1)
      BY <3>6, NumberType, FramesSizes
    <3>9. QED BY <3>2, <3>7, <3>8
  <2>3. QED BY <1>2, <2>1, <2>2 DEF Values, PossibleCounts
<1>3. QED BY <1>1, <1>2

(***************************************************************************)
(* The frames pending: sent, and not yet checked                           *)
(***************************************************************************)

Pending == [kind : {"count", "clear", "end"}, counts : Showable, sent : Seq(Byte), came : Seq(Byte)]

\* r is a frame of the counter.
Genuine(r) ==
  IF model = "P16"
    THEN \/ r.kind = "count" /\ \E d \in Index, n \in Counts : r.sent = CountFrame(d, n)
         \/ r.kind = "clear" /\ r.sent = ClearFrame /\ r.counts = NoCounts
         \/ r.kind = "end" /\ r.sent = EndFrame
    ELSE r.kind = "end" /\ r.sent = PlainFrame(r.counts)

\* It comes as it was sent, or with a byte behind the first one damaged.
Arrives(r) ==
  \/ r.came = r.sent
  \/ \E k \in 2..Len(r.sent), b \in Byte : b # r.sent[k] /\ r.came = [r.sent EXCEPT ![k] = b]

\* A P16's frame turns the counts prev into r.counts.
Follows(prev, r) ==
  /\ r.kind = "count" => r.counts = [prev EXCEPT ![r.sent[2]] = r.sent[4]]
  /\ r.kind = "end" => r.counts = prev

GoodFrames == {r \in Pending : Genuine(r) /\ Arrives(r)}

LEMMA ShowableCounts ==
  ASSUME model \in Models
  PROVE  NoCounts \in Showable /\ Showable \subseteq PossibleCounts
<1>1. NoCounts \in Showable
  BY DEF NoCounts, Showable
<1>2. Models \subseteq {"P16", "P506", "BH1000"}
  BY FramesAssumption
<1>3. \A n \in Counts \cup {0} : n \in 0..(Limit - 1)
  <2>1. Power[NumDigits] \in Nat \ {0}
    BY PowerSteps, FramesSizes
  <2>2. Base <= Base * Base /\ Base * Base \in Nat
    BY FramesSizes
  <2>3. Limit = Base * Base \/ Limit = Base \/ Limit = Power[NumDigits]
    BY DEF Limit
  <2>4. QED BY <2>1, <2>2, <2>3, CountsAre, FramesSizes
<1>4. QED BY <1>1, <1>3 DEF Showable, PossibleCounts

\* What a frame of the counter is: as long as its first byte says, with a right
\* checksum, and saying the counts.
LEMMA GenuineIs ==
  ASSUME model \in Models, NEW r \in Pending, Genuine(r)
  PROVE  /\ Len(r.sent) = FrameSize(r.sent[1]) /\ Len(r.sent) > 1
         /\ ChecksumRight(r.sent)
         /\ \/ model = "P16" /\ r.kind \in {"count", "clear"} /\ r.sent[1] = STX
            \/ r.kind = "end" /\ Ends(r.sent)
         /\ (model = "P16" => Follows(pCount, r)) => Counted(r.sent) = r.counts
         /\ model # "P16" \/ r.kind = "clear" => Counted(r.sent) = r.counts
<1> DEFINE f == r.sent
<1>1. f \in Seq(Byte)
  BY DEF Pending
<1>2. CASE model = "P16" /\ r.kind = "count" /\ \E d \in Index, n \in Counts : f = CountFrame(d, n)
  <2>1. PICK d \in Index, n \in Counts : f = CountFrame(d, n)
    BY <1>2
  <2>2. Len(f) = Size /\ Checksum(f) = Last(f) /\ f[1] = STX /\ f[2] = d /\ f[3] = 0 /\ f[4] = n
    BY <2>1, CountFrameIs
  <2>3. n \in Nat
    BY CountsAre
  <2>4. f[3] * Base + f[4] = f[4]
    BY <2>2, <2>3, FramesSizes
  <2>5. Counted(f) = [pCount EXCEPT ![f[2]] = f[4]]
    <3> HIDE DEF f
    <3>1. model = "P16" /\ f[1] = STX /\ f[2] \in Index
      BY <1>2, <2>2
    <3>2. Counted(f) = [pCount EXCEPT ![f[2]] = f[3] * Base + f[4]]
      BY <3>1, Bytes DEF Counted
    <3>3. QED BY <2>4, <3>2
  <2>6. Follows(pCount, r) => Counted(f) = r.counts
    BY <1>2, <2>5 DEF Follows
  <2> HIDE DEF f
  <2>7. QED BY <1>2, <2>2, <2>6, FrameSizes, FramesSizes DEF ChecksumRight, f
<1>3. CASE model = "P16" /\ r.kind = "clear" /\ f = ClearFrame /\ r.counts = NoCounts
  <2>1. Len(f) = Size /\ Checksum(f) = Last(f) /\ f[1] = STX /\ f[2] = Clear
    BY <1>3, ClearFrameIs
  <2>2. Counted(f) = r.counts
    BY <1>3, <2>1, Bytes DEF Counted
  <2> HIDE DEF f
  <2>3. QED BY <1>3, <2>1, <2>2, FrameSizes, FramesSizes DEF ChecksumRight, f
<1>4. CASE model = "P16" /\ r.kind = "end" /\ f = EndFrame
  <2>1. Len(f) = Size2 /\ Checksum(f) = Last(f) /\ f[1] = STX2
    BY <1>4, EndFrameIs
  <2>2. Counted(f) = pCount
    BY <1>4, <2>1, Bytes DEF Counted
  <2>3. Follows(pCount, r) => Counted(f) = r.counts
    BY <1>4, <2>2 DEF Follows
  <2>4. Ends(f)
    BY <2>1 DEF Ends
  <2> HIDE DEF f
  <2>5. QED BY <1>4, <2>1, <2>3, <2>4, FrameSizes, FramesSizes DEF ChecksumRight, f
<1>5. CASE model # "P16" /\ r.kind = "end" /\ f = PlainFrame(r.counts)
  <2>1. model \in {"P506", "BH1000"} /\ r.counts \in Showable
    BY <1>5, FramesAssumption DEF Pending
  <2>2. f[1] = STX /\ Len(f) = FrameSize(STX) /\ Values(f) = r.counts
    BY <1>5, <2>1, PlainFrameIs
  <2>3. Counted(f) = r.counts
    BY <1>5, <2>2 DEF Counted
  <2>4. Len(f) > 1
    <3>1. FrameSize(STX) = P506Size \/ FrameSize(STX) = BH1000Size
      BY <2>1, FrameSizes
    <3>2. NumCounts * NumDigits \in Nat
      BY FramesSizes
    <3> DEFINE n == NumCounts * NumDigits
    <3>3. n \in Nat /\ BH1000Size > n + 1
      BY <3>2, FramesSizes
    <3> HIDE DEF n
    <3>4. P506Size > 1 /\ BH1000Size > 1
      BY <3>3, FramesSizes
    <3>5. QED BY <2>2, <3>1, <3>4
  <2>5. Ends(f) /\ ChecksumRight(f)
    BY <1>5 DEF Ends, ChecksumRight
  <2> HIDE DEF f
  <2>6. QED BY <1>5, <2>2, <2>3, <2>4, <2>5 DEF f
<1>6. QED BY <1>2, <1>3, <1>4, <1>5 DEF Genuine

\* The damaged frame has the length of the one sent and its first byte, but in a P16
\* not its checksum.
LEMMA ArrivesIs ==
  ASSUME model \in Models, NEW r \in Pending, Genuine(r), Arrives(r)
  PROVE  /\ Len(r.came) = Len(r.sent) /\ r.came[1] = r.sent[1]
         /\ model = "P16" /\ r.came # r.sent => ~ChecksumRight(r.came)
<1>1. r.sent \in Seq(Byte) /\ Len(r.sent) > 1 /\ ChecksumRight(r.sent)
  BY GenuineIs DEF Pending
<1>2. CASE r.came = r.sent
  BY <1>2
<1>3. ASSUME NEW k \in 2..Len(r.sent), NEW b \in Byte, b # r.sent[k], r.came = [r.sent EXCEPT ![k] = b]
      PROVE  /\ Len(r.came) = Len(r.sent) /\ r.came[1] = r.sent[1]
             /\ model = "P16" => ~ChecksumRight(r.came)
  <2> DEFINE f == r.sent
  <2>1. f \in Seq(Byte) /\ Len(f) >= 2 /\ k \in 2..Len(f) /\ b # f[k] /\ r.came = [f EXCEPT ![k] = b]
    BY <1>1, <1>3
  <2> HIDE DEF f
  <2>2. Len(r.came) = Len(f) /\ r.came[1] = f[1]
    BY <2>1
  <2>3. ASSUME model = "P16" PROVE ~ChecksumRight(r.came)
    <3>1. Checksum(f) = Last(f)
      BY <1>1, <2>3 DEF ChecksumRight, f
    <3>2. Checksum([f EXCEPT ![k] = b]) # Last([f EXCEPT ![k] = b])
      BY <2>1, <3>1, DamagedSum
    <3>3. QED BY <2>1, <2>3, <3>2 DEF ChecksumRight
  <2>4. QED BY <2>2, <2>3 DEF f
<1>4. QED BY <1>2, <1>3 DEF Arrives

(***************************************************************************)
(* Moving and changing bytes in what is to come                            *)
(***************************************************************************)

LEMMA MoveByte ==
  ASSUME NEW S, NEW a \in Seq(S), NEW b \in Seq(S), b # <<>>
  PROVE  Append(a, Head(b)) \o Tail(b) = a \o b
<1>1. Head(b) \in S /\ Tail(b) \in Seq(S) /\ <<Head(b)>> \in Seq(S) /\ b = <<Head(b)>> \o Tail(b)
  OBVIOUS
<1>2. Append(a, Head(b)) = a \o <<Head(b)>>
  BY <1>1, AppendIsConcat
<1>3. QED BY <1>1, <1>2, ConcatAssociative

LEMMA SameFront ==
  ASSUME NEW S, NEW a \in Seq(S), NEW b \in Seq(S), NEW c \in Seq(S), NEW d \in Seq(S),
         a \o b = c \o d, Len(a) = Len(c)
  PROVE  a = c /\ b = d
<1>1. \A i \in 1..Len(a) : (a \o b)[i] = a[i] /\ (c \o d)[i] = c[i]
  OBVIOUS
<1>2. a = c
  <2>1. \A i \in 1..Len(a) : a[i] = c[i]
    BY <1>1
  <2>2. QED BY <2>1, SeqEqual
<1>3. a \o b = a \o d
  BY <1>2
<1>4. b = d
  BY <1>3, ConcatSimplifications
<1>5. QED BY <1>2, <1>4

\* The bytes of the frames in p.
Came(p) == [i \in DOMAIN p |-> p[i].came]
Bytestream(p) == FlattenSeq(Came(p))

LEMMA CameType ==
  ASSUME NEW p \in Seq(Pending)
  PROVE  /\ Came(p) \in Seq(Seq(Byte)) /\ Len(Came(p)) = Len(p)
         /\ \A i \in 1..Len(p) : Came(p)[i] = p[i].came
         /\ Bytestream(p) \in Seq(Byte)
<1>1. \A i \in 1..Len(p) : p[i].came \in Seq(Byte)
  <2>1. \A i \in 1..Len(p) : p[i] \in Pending
    OBVIOUS
  <2>2. \A r \in Pending : r.came \in Seq(Byte)
    BY DEF Pending
  <2>3. QED BY <2>1, <2>2
<1>2. /\ Came(p) \in Seq(Seq(Byte)) /\ Len(Came(p)) = Len(p)
      /\ \A i \in 1..Len(p) : Came(p)[i] = p[i].came
  <2> DEFINE c == [i \in 1..Len(p) |-> p[i].came]
  <2>1. \A i \in 1..Len(p) : c[i] = p[i].came
    OBVIOUS
  <2>2. Came(p) = c /\ Len(p) \in Nat
    BY DEF Came
  <2>3. c \in [1..Len(p) -> Seq(Byte)]
    BY <1>1
  <2> HIDE DEF c
  <2>4. QED BY <2>2, <2>3, <2>1
<1>3. QED BY <1>2, FlattenType DEF Bytestream

LEMMA CameEmpty == Bytestream(<<>>) = <<>>
<1>1. Came(<<>>) = <<>>
  BY DEF Came
<1>2. QED BY <1>1 DEF Bytestream, FlattenSeq

LEMMA CameAppend ==
  ASSUME NEW p \in Seq(Pending), NEW r \in Pending
  PROVE  Bytestream(Append(p, r)) = Bytestream(p) \o r.came
<1>1. r.came \in Seq(Byte) /\ <<r.came>> \in Seq(Seq(Byte))
  BY DEF Pending
<1>2. Came(Append(p, r)) = Came(p) \o <<r.came>>
  <2>1. PICK n \in Nat : n = Len(p)
    OBVIOUS
  <2> DEFINE q == Append(p, r)
             c == Came(p)
             d == Came(q)
             e == c \o <<r.came>>
  <2>2. q \in Seq(Pending) /\ Len(q) = n + 1 /\ q[n + 1] = r /\ \A i \in 1..n : q[i] = p[i]
    BY <2>1, AppendProperties
  <2> HIDE DEF q
  <2>3. c \in Seq(Seq(Byte)) /\ Len(c) = n /\ \A i \in 1..n : c[i] = p[i].came
    BY <2>1, CameType
  <2>4. d \in Seq(Seq(Byte)) /\ Len(d) = n + 1 /\ \A i \in 1..(n + 1) : d[i] = q[i].came
    BY <2>2, CameType
  <2> HIDE DEF c, d
  <2>5. e \in Seq(Seq(Byte)) /\ Len(e) = n + 1 /\ e[n + 1] = r.came /\ \A i \in 1..n : e[i] = c[i]
    <3>1. Len(<<r.came>>) = 1 /\ <<r.came>>[1] = r.came
      OBVIOUS
    <3>2. QED BY <1>1, <2>3, <3>1, ConcatProperties
  <2> HIDE DEF e
  <2>6. ASSUME NEW i \in 1..(n + 1) PROVE d[i] = e[i]
    <3>1. d[i] = q[i].came
      BY <2>4
    <3>2. CASE i = n + 1
      BY <2>2, <2>5, <3>1, <3>2
    <3>3. CASE i # n + 1
      <4>1. i \in 1..n
        BY <3>3
      <4>2. q[i] = p[i] /\ e[i] = c[i] /\ c[i] = p[i].came
        BY <2>2, <2>3, <2>5, <4>1
      <4>3. QED BY <3>1, <4>2
    <3>4. QED BY <3>2, <3>3
  <2>7. d = e
    BY <2>4, <2>5, <2>6, SeqEqual
  <2>8. QED BY <2>7 DEF c, d, e, q
<1>3. FlattenSeq(Came(p) \o <<r.came>>) = FlattenSeq(Came(p)) \o FlattenSeq(<<r.came>>)
  <2>1. Came(p) \in Seq(Seq(Byte))
    BY CameType
  <2>2. QED BY <1>1, <2>1, FlattenConcat
<1>4. FlattenSeq(<<r.came>>) = r.came
  BY <1>1, FlattenOne
<1>5. QED BY <1>2, <1>3, <1>4 DEF Bytestream

LEMMA CameHead ==
  ASSUME NEW p \in Seq(Pending), p # <<>>
  PROVE  Bytestream(p) = p[1].came \o Bytestream(Tail(p))
<1>1. p[1] \in Pending /\ Tail(p) \in Seq(Pending)
  OBVIOUS
<1>2. p[1].came \in Seq(Byte) /\ <<p[1].came>> \in Seq(Seq(Byte))
  BY <1>1 DEF Pending
<1>3. Came(p) = <<p[1].came>> \o Came(Tail(p))
  <2>1. PICK n \in Nat : Len(p) = n + 1
    <3>1. Len(p) \in Nat \ {0}
      OBVIOUS
    <3>2. Len(p) - 1 \in Nat /\ Len(p) = (Len(p) - 1) + 1
      BY <3>1
    <3>3. QED BY <3>2
  <2> DEFINE q == Tail(p)
             c == Came(p)
             d == Came(q)
             e == <<p[1].came>> \o d
  <2>2. q \in Seq(Pending) /\ Len(q) = n /\ \A i \in 1..n : q[i] = p[i + 1]
    BY <2>1, HeadTailProperties
  <2> HIDE DEF q
  <2>3. c \in Seq(Seq(Byte)) /\ Len(c) = n + 1 /\ \A i \in 1..(n + 1) : c[i] = p[i].came
    BY <2>1, CameType
  <2>4. d \in Seq(Seq(Byte)) /\ Len(d) = n /\ \A i \in 1..n : d[i] = q[i].came
    BY <2>2, CameType
  <2> HIDE DEF c, d
  <2>5. /\ e \in Seq(Seq(Byte)) /\ Len(e) = n + 1
        /\ \A i \in 1..(n + 1) : e[i] = IF i <= 1 THEN p[1].came ELSE d[i - 1]
    <3>1. Len(<<p[1].came>>) = 1 /\ <<p[1].came>>[1] = p[1].came
      OBVIOUS
    <3>2. QED BY <1>2, <2>4, <3>1, ConcatProperties
  <2> HIDE DEF e
  <2>6. ASSUME NEW i \in 1..(n + 1) PROVE c[i] = e[i]
    <3>1. CASE i = 1
      <4>1. e[i] = p[1].came
        BY <2>5, <3>1
      <4>2. c[i] = p[i].came
        BY <2>3
      <4>3. QED BY <3>1, <4>1, <4>2
    <3>2. CASE i # 1
      <4>1. i - 1 \in 1..n /\ (i - 1) + 1 = i /\ ~(i <= 1)
        BY <3>2
      <4>2. QED BY <2>2, <2>3, <2>4, <2>5, <4>1
    <3>3. QED BY <3>1, <3>2
  <2>7. c = e
    BY <2>3, <2>5, <2>6, SeqEqual
  <2>8. QED BY <2>7 DEF c, d, e, q
<1>4. FlattenSeq(<<p[1].came>> \o Came(Tail(p))) = FlattenSeq(<<p[1].came>>) \o FlattenSeq(Came(Tail(p)))
  <2>1. Came(Tail(p)) \in Seq(Seq(Byte))
    BY <1>1, CameType
  <2>2. QED BY <1>2, <2>1, FlattenConcat
<1>5. FlattenSeq(<<p[1].came>>) = p[1].came
  BY <1>2, FlattenOne
<1>6. QED BY <1>3, <1>4, <1>5 DEF Bytestream

(***************************************************************************)
(* The inductive invariant                                                 *)
(***************************************************************************)

\* The length of the frame that a byte begins.
SizeOf == [b \in Byte |-> FrameSize(b)]

Typed ==
  /\ model \in Models
  /\ shown \in Showable
  /\ wire \in Seq(Byte) /\ ring \in Seq(Byte) /\ Len(ring) <= RingSize
  /\ phase \in {"first", "rest", "check"}
  /\ pFrame \in Seq(Byte)
  /\ pCount \in PossibleCounts
  /\ reading \in PossibleCounts \cup {NoReading}
  /\ nFrames \in 0..MaxFrames /\ nFaults \in 0..MaxFaults
  /\ whole \in BOOLEAN /\ agree \in BOOLEAN
  /\ agree => whole
  /\ pending \in Seq(GoodFrames)
  /\ ~whole => pending = <<>>

\* The task waits for another byte only while its frame is incomplete.
InFrame ==
  /\ phase = "first" => pFrame = <<>>
  /\ phase = "rest" => pFrame # <<>> /\ Len(pFrame) < SizeOf[pFrame[1]]
  /\ phase = "check" => pFrame # <<>> /\ Len(pFrame) = SizeOf[pFrame[1]]

\* What the task has read and what is still to come is what was sent.
InTheWay == whole => (pFrame \o ring) \o wire = Bytestream(pending)

\* Only the latest frame is still on the wire.
WireInLast ==
  whole /\ wire # <<>> => pending # <<>> /\ Len(wire) <= Len(pending[Len(pending)].came)

\* The latest frame brings the counts shown, each frame of a P16 those after the one
\* before it.
Chained ==
  whole => /\ pending # <<>> => pending[Len(pending)].counts = shown
           /\ model = "P16" => \A i \in 1..(Len(pending) - 1) : Follows(pending[i].counts, pending[i + 1])

\* The board's counts are those before the first frame pending.
Agreed ==
  agree => /\ \A i \in 1..Len(pending) : pending[i].came = pending[i].sent
           /\ pending = <<>> => pCount = shown
           /\ pending # <<>> /\ model = "P16" => Follows(pCount, pending[1])

FramesInv == Typed /\ InFrame /\ InTheWay /\ WireInLast /\ Chained /\ Agreed

LEMMA ModelKept ==
  ASSUME model' = model
  PROVE  PossibleCounts' = PossibleCounts /\ SizeOf' = SizeOf /\ GoodFrames' = GoodFrames
<1>1. PossibleCounts' = PossibleCounts
  BY DEF PossibleCounts, Limit
<1>2. SizeOf' = SizeOf
  BY DEF SizeOf, FrameSize
<1>3. GoodFrames' = GoodFrames
  BY DEF GoodFrames, Genuine, PlainFrame
<1>4. QED BY <1>1, <1>2, <1>3

\* What the first frame pending tells of the way of its bytes.
LEMMA GoodFrame ==
  ASSUME model \in Models, NEW r \in GoodFrames
  PROVE  /\ r \in Pending
         /\ r.came \in Seq(Byte) /\ r.sent \in Seq(Byte) /\ r.counts \in Showable
         /\ r.came[1] \in Byte /\ r.came[1] = r.sent[1]
         /\ Len(r.came) = SizeOf[r.came[1]] /\ Len(r.came) > 1 /\ Len(r.came) = Len(r.sent)
         /\ ChecksumRight(r.sent)
         /\ model = "P16" /\ r.came # r.sent => ~ChecksumRight(r.came)
         /\ (model = "P16" => Follows(pCount, r)) => Counted(r.sent) = r.counts
         /\ model # "P16" \/ r.kind = "clear" => Counted(r.sent) = r.counts
         /\ \/ model = "P16" /\ r.kind \in {"count", "clear"} /\ r.sent[1] = STX
            \/ r.kind = "end" /\ Ends(r.sent)
<1>1. r \in Pending /\ Genuine(r) /\ Arrives(r)
  BY DEF GoodFrames
<1>2. r.came \in Seq(Byte) /\ r.sent \in Seq(Byte) /\ r.counts \in Showable
  BY <1>1 DEF Pending
<1>3. Len(r.came) = FrameSize(r.came[1]) /\ Len(r.came) > 1 /\ Len(r.came) = Len(r.sent)
      /\ r.came[1] = r.sent[1]
  BY <1>1, GenuineIs, ArrivesIs
<1>4. r.came[1] \in Byte
  <2> DEFINE c == r.came
  <2>1. c \in Seq(Byte) /\ Len(c) > 1
    BY <1>2, <1>3
  <2> HIDE DEF c
  <2>2. c[1] \in Byte
    BY <2>1
  <2>3. QED BY <2>2 DEF c
<1>5. Len(r.came) = SizeOf[r.came[1]]
  BY <1>3, <1>4 DEF SizeOf
<1>6. QED BY <1>1, <1>2, <1>3, <1>4, <1>5, GenuineIs, ArrivesIs

LEMMA FramesInitInv == FramesInit => FramesInv
<1> SUFFICES ASSUME FramesInit PROVE FramesInv
  OBVIOUS
<1>1. /\ model \in Models /\ shown \in Showable /\ ring = <<>> /\ phase = "first" /\ pFrame = <<>>
      /\ pCount = NoCounts /\ reading = NoReading /\ nFrames = 0 /\ nFaults = 0 /\ pending = <<>>
      /\ whole = (wire = <<>>) /\ agree = (wire = <<>> /\ shown = NoCounts)
  BY DEF FramesInit, Showable
<1>2. wire \in Seq(Byte)
  <2> DEFINE f == IF model = "P16" THEN EndFrame ELSE PlainFrame(shown)
  <2>1. f \in Seq(Byte)
    <3>1. model # "P16" => model \in {"P506", "BH1000"}
      BY <1>1, FramesAssumption
    <3>2. QED BY <1>1, <3>1, EndFrameIs, PlainFrameIs
  <2>2. PICK k \in 2..(Len(f) + 1) : wire = SubSeq(f, k, Len(f))
    BY DEF FramesInit
  <2> HIDE DEF f
  <2>3. \A i \in k..Len(f) : f[i] \in Byte
    BY <2>1
  <2>4. QED BY <2>1, <2>2, <2>3, SubSeqProperties
<1>3. NoCounts \in PossibleCounts
  BY <1>1, ShowableCounts
<1>4. Typed
  <2>1. <<>> \in Seq(Byte) /\ <<>> \in Seq(GoodFrames) /\ Len(<<>>) = 0
    OBVIOUS
  <2>2. 0 <= RingSize /\ 0 \in 0..MaxFrames /\ 0 \in 0..MaxFaults
    BY FramesAssumption
  <2>3. QED BY <1>1, <1>2, <1>3, <2>1, <2>2 DEF Typed
<1>5. InTheWay
  <2>1. (<<>> \o <<>>) \o <<>> = <<>>
    OBVIOUS
  <2>2. QED BY <1>1, <2>1, CameEmpty DEF InTheWay
<1>6. InFrame /\ WireInLast /\ Chained /\ Agreed
  <2>1. InFrame /\ WireInLast
    BY <1>1 DEF InFrame, WireInLast
  <2>2. 1..(Len(pending) - 1) = {} /\ 1..Len(pending) = {}
    BY <1>1
  <2>3. Chained
    BY <1>1, <2>2 DEF Chained
  <2>4. Agreed
    BY <1>1, <2>2 DEF Agreed
  <2>5. QED BY <2>1, <2>3, <2>4
<1>7. QED BY <1>4, <1>5, <1>6 DEF FramesInv

\* Nothing the chain of frames speaks of changes.
LEMMA ChainKept ==
  ASSUME FramesInv, UNCHANGED <<model, shown, pCount, whole, agree, pending>>
  PROVE  Chained' /\ Agreed'
BY DEF FramesInv, Chained, Agreed

\* The board lost a byte: nothing more is said of what is to come.
LEMMA Forgets ==
  ASSUME FramesInv, Incomplete
  PROVE  InTheWay' /\ WireInLast' /\ Chained' /\ Agreed'
BY DEF Incomplete, InTheWay, WireInLast, Chained, Agreed

LEMMA SendsStep ==
  ASSUME FramesInv, NEW kind, NEW counts, NEW frame,
         [kind |-> kind, counts |-> counts, sent |-> frame, came |-> frame] \in GoodFrames,
         model = "P16" => Follows(shown, [kind |-> kind, counts |-> counts, sent |-> frame, came |-> frame]),
         Sends(kind, counts, frame)
  PROVE  FramesInv'
<1> DEFINE r == [kind |-> kind, counts |-> counts, sent |-> frame, came |-> frame]
<1>1. /\ Typed /\ InFrame /\ InTheWay /\ Chained /\ Agreed
      /\ model \in Models /\ pending \in Seq(GoodFrames)
  BY DEF FramesInv, Typed
<1>2. r \in GoodFrames /\ r \in Pending /\ frame \in Seq(Byte) /\ counts \in Showable
      /\ r.counts = counts /\ r.sent = frame /\ r.came = frame
      /\ (model = "P16" => Follows(shown, r))
  <2>1. r.counts = counts /\ r.sent = frame /\ r.came = frame
    OBVIOUS
  <2>2. r \in Pending /\ r.sent \in Seq(Byte) /\ r.counts \in Showable
    BY <1>1, GoodFrame
  <2>3. QED BY <2>1, <2>2
<1>3. /\ wire = <<>> /\ nFrames < MaxFrames /\ nFrames' = nFrames + 1 /\ shown' = counts /\ wire' = frame
      /\ pending' = (IF whole THEN Append(pending, r) ELSE pending)
      /\ UNCHANGED <<model, ring, phase, pFrame, pCount, reading, nFaults, whole, agree>>
  BY DEF Sends, parser
<1> HIDE DEF r
<1>4. PossibleCounts' = PossibleCounts /\ SizeOf' = SizeOf /\ GoodFrames' = GoodFrames
  BY <1>3, ModelKept
<1>5. PICK n \in Nat : n = Len(pending)
  BY <1>1
<1>6. ASSUME whole
      PROVE  /\ pending' = Append(pending, r) /\ pending' \in Seq(GoodFrames) /\ Len(pending') = n + 1
             /\ pending' # <<>> /\ pending'[n + 1] = r
             /\ \A i \in 1..n : pending'[i] = pending[i]
  BY <1>1, <1>2, <1>3, <1>5, <1>6, AppendProperties
<1>7. Typed'
  <2>1. nFrames' \in 0..MaxFrames
    BY <1>1, <1>3, FramesAssumption DEF Typed
  <2>2. pending' \in Seq(GoodFrames')
    BY <1>1, <1>3, <1>4, <1>6
  <2>3. QED BY <1>1, <1>2, <1>3, <1>4, <2>1, <2>2 DEF Typed
<1>8. InFrame'
  BY <1>1, <1>3, <1>4 DEF InFrame
<1>9. ASSUME whole PROVE (pFrame \o ring) \o frame = Bytestream(Append(pending, r))
  <2>1. pFrame \o ring \in Seq(Byte)
    BY <1>1 DEF Typed
  <2>2. (pFrame \o ring) \o <<>> = Bytestream(pending)
    BY <1>1, <1>3, <1>9 DEF InTheWay
  <2>3. pFrame \o ring = Bytestream(pending)
    BY <2>1, <2>2, ConcatEmptySeq
  <2>4. pending \in Seq(Pending)
    BY <1>1 DEF GoodFrames
  <2>5. Bytestream(Append(pending, r)) = Bytestream(pending) \o frame
    BY <1>2, <2>4, CameAppend
  <2>6. QED BY <2>3, <2>5
<1>10. InTheWay'
  BY <1>3, <1>6, <1>9 DEF InTheWay
<1>11. WireInLast'
  <2>1. Len(frame) \in Nat
    BY <1>2
  <2>2. QED BY <1>2, <1>3, <1>6, <2>1 DEF WireInLast
<1>12. ASSUME whole PROVE /\ pending'[Len(pending')].counts = shown'
                          /\ model = "P16" => \A i \in 1..(Len(pending') - 1) : Follows(pending'[i].counts, pending'[i + 1])
  <2>1. pending'[Len(pending')].counts = shown'
    BY <1>2, <1>3, <1>6, <1>12
  <2>2. ASSUME model = "P16", NEW i \in 1..(Len(pending') - 1)
        PROVE  Follows(pending'[i].counts, pending'[i + 1])
    <3>1. i \in 1..n /\ Len(pending') = n + 1
      BY <1>5, <1>6, <1>12
    <3>2. CASE i = n
      <4>1. pending # <<>> /\ pending[n].counts = shown
        <5>1. pending # <<>>
          BY <1>5, <3>1
        <5>2. QED BY <1>1, <1>5, <1>12, <5>1 DEF Chained
      <4>2. pending'[i] = pending[n] /\ pending'[i + 1] = r
        BY <1>6, <1>12, <3>1, <3>2
      <4>3. QED BY <1>2, <2>2, <4>1, <4>2
    <3>3. CASE i # n
      <4>1. i \in 1..(Len(pending) - 1) /\ i + 1 \in 1..n
        BY <1>5, <3>1, <3>3
      <4>2. Follows(pending[i].counts, pending[i + 1])
        BY <1>1, <1>12, <2>2, <4>1 DEF Chained
      <4>3. pending'[i] = pending[i] /\ pending'[i + 1] = pending[i + 1]
        BY <1>6, <1>12, <3>1, <4>1
      <4>4. QED BY <4>2, <4>3
    <3>4. QED BY <3>2, <3>3
  <2>3. QED BY <2>1, <2>2
<1>13. Chained'
  BY <1>3, <1>12 DEF Chained
<1>14. Agreed'
  <2>1. SUFFICES ASSUME agree
                 PROVE  /\ \A i \in 1..Len(pending') : pending'[i].came = pending'[i].sent
                        /\ pending' # <<>>
                        /\ model = "P16" => Follows(pCount, pending'[1])
    BY <1>3 DEF Agreed
  <2>2. whole
    BY <1>1, <2>1 DEF Typed
  <2>3. \A i \in 1..Len(pending') : pending'[i].came = pending'[i].sent
    <3>1. ASSUME NEW i \in 1..(n + 1) PROVE pending'[i].came = pending'[i].sent
      <4>1. CASE i = n + 1
        BY <1>2, <1>6, <2>2, <4>1
      <4>2. CASE i # n + 1
        <5>1. i \in 1..n /\ i \in 1..Len(pending)
          BY <1>5, <4>2
        <5>2. pending[i].came = pending[i].sent
          BY <1>1, <2>1, <5>1 DEF Agreed
        <5>3. QED BY <1>6, <2>2, <5>1, <5>2
      <4>3. QED BY <4>1, <4>2
    <3>2. QED BY <1>6, <2>2, <3>1
  <2>4. ASSUME model = "P16" PROVE Follows(pCount, pending'[1])
    <3>1. CASE pending = <<>>
      <4>1. n = 0 /\ pending'[1] = r
        BY <1>5, <1>6, <2>2, <3>1
      <4>2. pCount = shown
        BY <1>1, <2>1, <3>1 DEF Agreed
      <4>3. QED BY <1>2, <2>4, <4>1, <4>2
    <3>2. CASE pending # <<>>
      <4>1. 1 \in 1..n
        BY <1>1, <1>5, <3>2
      <4>2. Follows(pCount, pending[1])
        BY <1>1, <2>1, <2>4, <3>2 DEF Agreed
      <4>3. QED BY <1>6, <2>2, <4>1, <4>2
    <3>3. QED BY <3>1, <3>2
  <2>5. QED BY <1>6, <2>2, <2>3, <2>4
<1>15. QED BY <1>7, <1>8, <1>10, <1>11, <1>13, <1>14 DEF FramesInv

LEMMA SendCountStep ==
  ASSUME FramesInv, NEW d \in Index, NEW n \in Counts, SendCount(d, n)
  PROVE  FramesInv'
<1> DEFINE counts == [shown EXCEPT ![d] = n]
<1>1. model \in Models /\ shown \in Showable
  BY DEF FramesInv, Typed
<1>2. counts \in Showable
  BY <1>1 DEF Showable
<1>3. CASE model = "P16"
  <2> DEFINE f == CountFrame(d, n)
             r == [kind |-> "count", counts |-> counts, sent |-> f, came |-> f]
  <2>1. f \in Seq(Byte) /\ f[2] = d /\ f[4] = n
    BY CountFrameIs
  <2>2. \E e \in Index, m \in Counts : f = CountFrame(e, m)
    OBVIOUS
  <2>3. Follows(shown, r)
    BY <2>1 DEF Follows
  <2>4. Sends("count", counts, f)
    BY <1>3 DEF SendCount
  <2> HIDE DEF counts, f
  <2>5. r \in Pending
    BY <1>2, <2>1 DEF Pending
  <2>6. Genuine(r) /\ Arrives(r)
    BY <1>3, <2>2 DEF Genuine, Arrives
  <2>7. r \in GoodFrames
    BY <2>5, <2>6 DEF GoodFrames
  <2>8. QED BY <2>3, <2>4, <2>7, SendsStep
<1>4. CASE model # "P16"
  <2> DEFINE f == PlainFrame(counts)
             r == [kind |-> "end", counts |-> counts, sent |-> f, came |-> f]
  <2>1. model \in {"P506", "BH1000"}
    BY <1>1, <1>4, FramesAssumption
  <2>2. f \in Seq(Byte)
    BY <1>2, <2>1, PlainFrameIs
  <2>3. Sends("end", counts, f)
    BY <1>4 DEF SendCount
  <2>4. f = PlainFrame(counts)
    OBVIOUS
  <2> HIDE DEF counts, f
  <2>5. r \in Pending
    BY <1>2, <2>2 DEF Pending
  <2>6. Genuine(r) /\ Arrives(r)
    BY <1>4, <2>4 DEF Genuine, Arrives
  <2>7. r \in GoodFrames
    BY <2>5, <2>6 DEF GoodFrames
  <2>8. QED BY <1>4, <2>3, <2>7, SendsStep
<1>5. QED BY <1>3, <1>4

LEMMA SendClearStep ==
  ASSUME FramesInv, SendClear
  PROVE  FramesInv'
<1> DEFINE r == [kind |-> "clear", counts |-> NoCounts, sent |-> ClearFrame, came |-> ClearFrame]
<1>1. model = "P16" /\ Sends("clear", NoCounts, ClearFrame)
  BY DEF SendClear
<1>2. NoCounts \in Showable /\ ClearFrame \in Seq(Byte)
  BY ShowableCounts, ClearFrameIs DEF FramesInv, Typed
<1>3. r \in Pending
  BY <1>2 DEF Pending
<1>4. Genuine(r) /\ Arrives(r)
  BY <1>1 DEF Genuine, Arrives
<1>5. Follows(shown, r)
  BY DEF Follows
<1>6. r \in GoodFrames
  BY <1>3, <1>4 DEF GoodFrames
<1>7. QED BY <1>1, <1>5, <1>6, SendsStep

LEMMA SendEndStep ==
  ASSUME FramesInv, SendEnd
  PROVE  FramesInv'
<1> DEFINE r == [kind |-> "end", counts |-> shown, sent |-> EndFrame, came |-> EndFrame]
<1>1. model = "P16" /\ Sends("end", shown, EndFrame)
  BY DEF SendEnd
<1>2. shown \in Showable /\ EndFrame \in Seq(Byte)
  BY EndFrameIs DEF FramesInv, Typed
<1>3. r \in Pending
  BY <1>2 DEF Pending
<1>4. Genuine(r) /\ Arrives(r)
  BY <1>1 DEF Genuine, Arrives
<1>5. Follows(shown, r)
  BY DEF Follows
<1>6. r \in GoodFrames
  BY <1>3, <1>4 DEF GoodFrames
<1>7. QED BY <1>1, <1>5, <1>6, SendsStep

\* The type of the counter's and the task's state where a step leaves them alone.
LEMMA TypedKept ==
  ASSUME Typed, UNCHANGED <<counter, parser>>,
         wire' \in Seq(Byte), ring' \in Seq(Byte), Len(ring') <= RingSize, nFaults' \in 0..MaxFaults,
         \/ UNCHANGED <<whole, agree, pending>>
         \/ Incomplete
  PROVE  Typed'
<1>1. UNCHANGED <<model, shown, nFrames, phase, pFrame, pCount, reading>>
  BY DEF counter, parser
<1>2. PossibleCounts' = PossibleCounts /\ GoodFrames' = GoodFrames
  BY <1>1, ModelKept
<1>3. /\ whole' \in BOOLEAN /\ agree' \in BOOLEAN /\ (agree' => whole')
      /\ pending' \in Seq(GoodFrames') /\ (~whole' => pending' = <<>>)
  <2>1. CASE UNCHANGED <<whole, agree, pending>>
    BY <1>2, <2>1 DEF Typed
  <2>2. CASE Incomplete
    <3>1. <<>> \in Seq(GoodFrames')
      OBVIOUS
    <3>2. QED BY <2>2, <3>1 DEF Incomplete
  <2>3. QED BY <2>1, <2>2
<1>4. QED BY <1>1, <1>2, <1>3 DEF Typed

LEMMA InFrameKept ==
  ASSUME InFrame, UNCHANGED <<model, phase, pFrame>>
  PROVE  InFrame'
BY ModelKept DEF InFrame

LEMMA ArriveStep ==
  ASSUME FramesInv, Arrive
  PROVE  FramesInv'
<1>1. /\ Typed /\ InFrame /\ InTheWay /\ WireInLast
      /\ wire \in Seq(Byte) /\ ring \in Seq(Byte) /\ pFrame \in Seq(Byte) /\ Len(ring) <= RingSize
  BY DEF FramesInv, Typed
<1>2. wire # <<>> /\ wire' = Tail(wire) /\ UNCHANGED <<counter, parser, nFaults>>
  BY DEF Arrive
<1>3. UNCHANGED <<model, shown, nFrames, phase, pFrame, pCount, reading>>
  BY <1>2 DEF counter, parser
<1>4. Head(wire) \in Byte /\ Tail(wire) \in Seq(Byte) /\ Len(Tail(wire)) = Len(wire) - 1
  BY <1>1, <1>2, HeadTailProperties
<1>5. CASE Len(ring) < RingSize
  <2>1. ring' = Append(ring, Head(wire)) /\ UNCHANGED <<whole, agree, pending>>
    BY <1>5 DEF Arrive
  <2>2. ring' \in Seq(Byte) /\ Len(ring') <= RingSize
    <3>1. Append(ring, Head(wire)) \in Seq(Byte) /\ Len(Append(ring, Head(wire))) = Len(ring) + 1
      BY <1>1, <1>4, AppendProperties
    <3>2. Len(ring) \in Nat /\ RingSize \in Nat
      BY <1>1, FramesAssumption
    <3>3. QED BY <1>5, <2>1, <3>1, <3>2
  <2>3. Typed'
    <3>1. nFaults' \in 0..MaxFaults
      BY <1>1, <1>2 DEF Typed
    <3>2. QED BY <1>1, <1>2, <1>4, <2>1, <2>2, <3>1, TypedKept
  <2>4. InFrame'
    BY <1>1, <1>3, InFrameKept
  <2>5. (pFrame \o Append(ring, Head(wire))) \o Tail(wire) = (pFrame \o ring) \o wire
    <3>1. pFrame \o Append(ring, Head(wire)) = Append(pFrame \o ring, Head(wire))
      <4>1. Append(ring, Head(wire)) = ring \o <<Head(wire)>> /\ <<Head(wire)>> \in Seq(Byte)
        BY <1>1, <1>4, AppendIsConcat
      <4>2. pFrame \o ring \in Seq(Byte)
        BY <1>1
      <4>3. Append(pFrame \o ring, Head(wire)) = (pFrame \o ring) \o <<Head(wire)>>
        BY <1>4, <4>2, AppendIsConcat
      <4>4. (pFrame \o ring) \o <<Head(wire)>> = pFrame \o (ring \o <<Head(wire)>>)
        <5>1. pFrame \in Seq(Byte) /\ ring \in Seq(Byte) /\ <<Head(wire)>> \in Seq(Byte)
          BY <1>1, <4>1
        <5>2. QED BY ONLY <5>1, ConcatAssociative
      <4>5. QED BY <4>1, <4>3, <4>4
    <3>2. pFrame \o ring \in Seq(Byte)
      BY <1>1
    <3>3. Append(pFrame \o ring, Head(wire)) \o Tail(wire) = (pFrame \o ring) \o wire
      BY <1>1, <1>2, <3>2, MoveByte
    <3>4. QED BY <3>1, <3>3
  <2>6. InTheWay'
    BY <1>1, <1>2, <1>3, <2>1, <2>5 DEF InTheWay
  <2>7. WireInLast'
    <3>1. Len(wire) \in Nat
      BY <1>1
    <3>2. ASSUME whole
          PROVE  pending # <<>> /\ Len(wire) <= Len(pending[Len(pending)].came)
                 /\ Len(pending[Len(pending)].came) \in Nat
      <4>1. pending # <<>> /\ Len(wire) <= Len(pending[Len(pending)].came)
        BY <1>1, <1>2, <3>2 DEF WireInLast
      <4>2. pending[Len(pending)] \in GoodFrames /\ model \in Models
        BY <1>1, <4>1 DEF Typed
      <4>3. pending[Len(pending)].came \in Seq(Byte)
        BY <4>2, GoodFrame
      <4>4. QED BY <4>1, <4>3
    <3>3. QED BY <1>2, <1>4, <2>1, <3>1, <3>2 DEF WireInLast
  <2>8. QED BY <1>3, <2>1, <2>3, <2>4, <2>6, <2>7, ChainKept DEF FramesInv
<1>6. CASE ~(Len(ring) < RingSize)
  <2>1. ring' = Append(Tail(ring), Head(wire)) /\ Incomplete
    BY <1>6 DEF Arrive
  <2>2. ring # <<>>
    BY <1>1, <1>6, FramesAssumption
  <2>3. Tail(ring) \in Seq(Byte) /\ Len(Tail(ring)) = Len(ring) - 1
    BY <1>1, <2>2, HeadTailProperties
  <2>4. ring' \in Seq(Byte) /\ Len(ring') <= RingSize
    <3>1. ring' \in Seq(Byte) /\ Len(ring') = Len(Tail(ring)) + 1
      BY <1>4, <2>1, <2>3, AppendProperties
    <3>2. Len(ring) \in Nat
      BY <1>1
    <3>3. QED BY <1>1, <2>3, <3>1, <3>2
  <2>5. Typed'
    <3>1. nFaults' \in 0..MaxFaults
      BY <1>1, <1>2 DEF Typed
    <3>2. QED BY <1>1, <1>2, <1>4, <2>1, <2>4, <3>1, TypedKept
  <2>6. InFrame'
    BY <1>1, <1>3, InFrameKept
  <2>7. QED BY <2>1, <2>5, <2>6, Forgets DEF FramesInv
<1>7. QED BY <1>5, <1>6

LEMMA FaultCounted ==
  ASSUME Typed, nFaults < MaxFaults, nFaults' = nFaults + 1
  PROVE  nFaults' \in 0..MaxFaults
BY FramesAssumption DEF Typed

LEMMA LoseStep ==
  ASSUME FramesInv, Lose
  PROVE  FramesInv'
<1>1. Typed /\ InFrame /\ wire \in Seq(Byte) /\ ring \in Seq(Byte) /\ Len(ring) <= RingSize
  BY DEF FramesInv, Typed
<1>2. /\ wire # <<>> /\ wire' = Tail(wire) /\ Incomplete /\ UNCHANGED <<counter, ring, parser>>
      /\ nFaults < MaxFaults /\ nFaults' = nFaults + 1
  BY DEF Lose
<1>3. UNCHANGED <<model, phase, pFrame>>
  BY <1>2 DEF counter, parser
<1>4. wire' \in Seq(Byte)
  BY <1>1, <1>2, HeadTailProperties
<1>5. Typed'
  BY <1>1, <1>2, <1>4, FaultCounted, TypedKept
<1>6. InFrame'
  BY <1>1, <1>3, InFrameKept
<1>7. QED BY <1>2, <1>5, <1>6, Forgets DEF FramesInv

\* t is s but for its j-th byte.
Changed(s, t, j) == t \in Seq(Byte) /\ Len(t) = Len(s) /\ \A i \in 1..Len(s) : i # j => t[i] = s[i]

LEMMA ConcatAt ==
  ASSUME NEW s \in Seq(Byte), NEW t \in Seq(Byte), NEW m \in Nat, NEW n \in Nat, m = Len(s), n = Len(t)
  PROVE  /\ s \o t \in Seq(Byte) /\ Len(s \o t) = m + n
         /\ \A i \in 1..(m + n) : (s \o t)[i] = IF i <= m THEN s[i] ELSE t[i - m]
BY ConcatProperties

\* w ends c in the bytes of x and w, which are those of a and c.
Ending(x, w, a, c, j) == x \o w = a \o c /\ w # <<>> /\ j = Len(c) - Len(w) + 1 /\ j \in 1..Len(c)

\* A changed byte on the wire is a changed byte of the latest frame.
LEMMA DamageInWay ==
  ASSUME NEW x \in Seq(Byte), NEW w \in Seq(Byte), NEW a \in Seq(Byte), NEW c \in Seq(Byte), NEW j,
         Ending(x, w, a, c, j), NEW v, NEW d, Changed(w, v, 1), Changed(c, d, j), d[j] = v[1]
  PROVE  w[1] = c[j] /\ x \o v = a \o d
<1>1. PICK m \in Nat, n \in Nat, p \in Nat, q \in Nat : m = Len(x) /\ n = Len(w) /\ p = Len(a) /\ q = Len(c)
  OBVIOUS
<1>2. v \in Seq(Byte) /\ Len(v) = n /\ \A i \in 1..n : i # 1 => v[i] = w[i]
  BY <1>1 DEF Changed
<1>3. d \in Seq(Byte) /\ Len(d) = q /\ \A i \in 1..q : i # j => d[i] = c[i]
  BY <1>1 DEF Changed
<1>4. /\ x \o w \in Seq(Byte) /\ Len(x \o w) = m + n
      /\ \A i \in 1..(m + n) : (x \o w)[i] = IF i <= m THEN x[i] ELSE w[i - m]
  BY <1>1, ConcatAt
<1>5. /\ a \o c \in Seq(Byte) /\ Len(a \o c) = p + q
      /\ \A i \in 1..(p + q) : (a \o c)[i] = IF i <= p THEN a[i] ELSE c[i - p]
  BY <1>1, ConcatAt
<1>6. /\ x \o v \in Seq(Byte) /\ Len(x \o v) = m + n
      /\ \A i \in 1..(m + n) : (x \o v)[i] = IF i <= m THEN x[i] ELSE v[i - m]
  <2>1. v \in Seq(Byte) /\ n = Len(v)
    BY <1>2
  <2>2. QED BY <1>1, <2>1, ConcatAt
<1>7. /\ a \o d \in Seq(Byte) /\ Len(a \o d) = p + q
      /\ \A i \in 1..(p + q) : (a \o d)[i] = IF i <= p THEN a[i] ELSE d[i - p]
  <2>1. d \in Seq(Byte) /\ q = Len(d)
    BY <1>3
  <2>2. QED BY <1>1, <2>1, ConcatAt
<1>8. n > 0 /\ m + n = p + q /\ m + 1 = p + j /\ j \in 1..q
  <2>1. x \o w = a \o c /\ n > 0 /\ j = q - n + 1 /\ j \in 1..q
    BY <1>1 DEF Ending
  <2>2. m + n = p + q
    BY <1>4, <1>5, <2>1
  <2>3. QED BY <2>1, <2>2
<1>9. w[1] = c[j]
  <2>1. (x \o w)[m + 1] = w[1]
    <3>1. m + 1 \in 1..(m + n) /\ ~(m + 1 <= m) /\ (m + 1) - m = 1
      BY <1>8
    <3>2. QED BY <1>4, <3>1
  <2>2. (a \o c)[p + j] = c[j]
    <3>1. p + j \in 1..(p + q) /\ ~(p + j <= p) /\ (p + j) - p = j
      BY <1>8
    <3>2. QED BY <1>5, <3>1
  <2>3. QED BY <1>8, <2>1, <2>2 DEF Ending
<1>10. ASSUME NEW i \in 1..(m + n) PROVE (x \o v)[i] = (a \o d)[i]
  <2>1. CASE i = m + 1
    <3>1. (x \o v)[i] = v[1]
      <4>1. ~(i <= m) /\ i - m = 1
        BY <2>1
      <4>2. QED BY <1>6, <4>1
    <3>2. (a \o d)[i] = d[j]
      <4>1. i \in 1..(p + q) /\ ~(i <= p) /\ i - p = j
        BY <1>8, <2>1
      <4>2. QED BY <1>7, <4>1
    <3>3. QED BY <3>1, <3>2
  <2>2. CASE i # m + 1
    <3>1. (x \o v)[i] = (x \o w)[i]
      <4>1. i <= m \/ (i - m \in 1..n /\ i - m # 1)
        BY <2>2
      <4>2. i <= m => (x \o v)[i] = x[i] /\ (x \o w)[i] = x[i]
        BY <1>4, <1>6
      <4>3. ~(i <= m) => (x \o v)[i] = v[i - m] /\ (x \o w)[i] = w[i - m]
        BY <1>4, <1>6
      <4>4. QED BY <1>2, <4>1, <4>2, <4>3
    <3>2. (a \o d)[i] = (a \o c)[i]
      <4>1. i \in 1..(p + q) /\ (i <= p \/ (i - p \in 1..q /\ i - p # j))
        BY <1>8, <2>2
      <4>2. i <= p => (a \o d)[i] = a[i] /\ (a \o c)[i] = a[i]
        BY <1>5, <1>7, <4>1
      <4>3. ~(i <= p) => (a \o d)[i] = d[i - p] /\ (a \o c)[i] = c[i - p]
        BY <1>5, <1>7, <4>1
      <4>4. QED BY <1>3, <4>1, <4>2, <4>3
    <3>3. QED BY <3>1, <3>2 DEF Ending
  <2>3. QED BY <2>1, <2>2
<1>11. x \o v = a \o d
  BY <1>6, <1>7, <1>8, <1>10, SeqEqual
<1>12. QED BY <1>9, <1>11

\* A sequence of n frames, and the same with another last one.
LastChanged(p, e, n) == Len(p) = n /\ Len(e) = n /\ \A i \in 1..n : i # n => e[i] = p[i]

BothBeginWith(q, p, e, n) == p = Append(q, p[n]) /\ e = Append(q, e[n])

LEMMA LastFrame ==
  ASSUME NEW S, NEW p \in Seq(S), NEW e \in Seq(S), NEW n \in Nat, n # 0, LastChanged(p, e, n)
  PROVE  \E q \in Seq(S) : BothBeginWith(q, p, e, n)
<1> DEFINE q == SubSeq(p, 1, n - 1)
<1> USE DEF LastChanged
<1>1. q \in Seq(S) /\ Len(q) = n - 1 /\ \A i \in 1..(n - 1) : q[i] = p[i]
  <2>1. \A i \in 1..(n - 1) : p[i] \in S
    OBVIOUS
  <2>2. /\ q \in Seq(S) /\ Len(q) = (IF 1 <= n - 1 THEN (n - 1) - 1 + 1 ELSE 0)
        /\ \A i \in 1..((n - 1) - 1 + 1) : q[i] = p[1 + i - 1]
    BY <2>1, SubSeqProperties
  <2> HIDE DEF q
  <2>3. Len(q) = n - 1
    BY <2>2
  <2>4. \A i \in 1..(n - 1) : i \in 1..((n - 1) - 1 + 1) /\ 1 + i - 1 = i
    OBVIOUS
  <2>5. QED BY <2>2, <2>3, <2>4
<1>2. p[n] \in S /\ e[n] \in S
  OBVIOUS
<1> HIDE DEF q
<1>3. \A r \in S : /\ Append(q, r) \in Seq(S) /\ Len(Append(q, r)) = n
                   /\ Append(q, r)[n] = r /\ \A i \in 1..(n - 1) : Append(q, r)[i] = q[i]
  BY <1>1, AppendProperties
<1>4. \A i \in 1..n : i = n \/ i \in 1..(n - 1)
  OBVIOUS
<1>5. p = Append(q, p[n])
  <2>1. \A i \in 1..n : p[i] = Append(q, p[n])[i]
    BY <1>1, <1>2, <1>3, <1>4
  <2>2. QED BY <1>2, <1>3, <2>1, SeqEqual
<1>6. e = Append(q, e[n])
  <2>1. \A i \in 1..n : e[i] = Append(q, e[n])[i]
    BY <1>1, <1>2, <1>3, <1>4
  <2>2. QED BY <1>2, <1>3, <2>1, SeqEqual
<1>7. QED BY <1>1, <1>5, <1>6 DEF BothBeginWith

LEMMA DamageStep ==
  ASSUME FramesInv, NEW b \in Noise, Damage(b)
  PROVE  FramesInv'
<1>1. /\ Typed /\ InFrame /\ InTheWay /\ WireInLast /\ Chained
      /\ wire \in Seq(Byte) /\ ring \in Seq(Byte) /\ pFrame \in Seq(Byte) /\ Len(ring) <= RingSize
      /\ model \in Models /\ pending \in Seq(GoodFrames) /\ b \in Byte
  BY Bytes DEF FramesInv, Typed
<1>2. /\ wire # <<>> /\ b # Head(wire) /\ wire' = [wire EXCEPT ![1] = b]
      /\ UNCHANGED <<counter, ring, parser>>
      /\ nFaults < MaxFaults /\ nFaults' = nFaults + 1
  BY DEF Damage
<1>3. UNCHANGED <<model, shown, nFrames, phase, pFrame, pCount, reading>>
  BY <1>2 DEF counter, parser
<1>4. wire' \in Seq(Byte) /\ Len(wire') = Len(wire) /\ wire' # <<>>
  BY <1>1, <1>2
<1>5. InFrame'
  BY <1>1, <1>3, InFrameKept
<1>6. CASE Incomplete
  <2>1. Typed'
    BY <1>1, <1>2, <1>4, <1>6, FaultCounted, TypedKept
  <2>2. QED BY <1>5, <1>6, <2>1, Forgets DEF FramesInv
<1>7. CASE /\ whole /\ Last(pending).came = Last(pending).sent /\ Len(wire) < Len(Last(pending).sent)
           /\ pending' = [pending EXCEPT ![Len(pending)].came[Len(Last(pending).came) - Len(wire) + 1] = b]
           /\ agree' = FALSE
           /\ UNCHANGED whole
  <2>1. PICK n \in Nat : n = Len(pending) /\ n # 0
    <3>1. pending # <<>>
      BY <1>1, <1>2, <1>7 DEF WireInLast
    <3>2. QED BY <1>1, <3>1
  <2> DEFINE last == pending[n]
             k == Len(last.came) - Len(wire) + 1
             new == [last EXCEPT !.came = [last.came EXCEPT ![k] = b]]
  <2>2. Last(pending) = last
    BY <2>1 DEF Last
  <2>3. /\ last \in GoodFrames /\ last \in Pending /\ Genuine(last)
        /\ last.came = last.sent /\ last.came \in Seq(Byte) /\ Len(wire) < Len(last.came)
    <3>1. last \in GoodFrames
      BY <1>1, <2>1
    <3>2. last.came = last.sent /\ Len(wire) < Len(last.sent)
      BY <1>7, <2>2
    <3> HIDE DEF last
    <3>3. QED BY <1>1, <3>1, <3>2, GoodFrame DEF GoodFrames
  <2>4. pending' = [pending EXCEPT ![n] = new]
    BY <1>7, <2>1, <2>2
  <2>5. /\ new.kind = last.kind /\ new.counts = last.counts /\ new.sent = last.sent
        /\ new.came = [last.came EXCEPT ![k] = b]
    <3> DEFINE y == [last.came EXCEPT ![k] = b]
    <3>1. \A z : \A f \in Pending :
            LET g == [f EXCEPT !.came = z]
            IN  g.kind = f.kind /\ g.counts = f.counts /\ g.sent = f.sent /\ g.came = z
      BY DEF Pending
    <3>2. new = [last EXCEPT !.came = y]
      OBVIOUS
    <3> HIDE DEF y, new, last
    <3>3. new.kind = last.kind /\ new.counts = last.counts /\ new.sent = last.sent /\ new.came = y
      BY <2>3, <3>1, <3>2
    <3>4. QED BY <3>3 DEF y
  <2> DEFINE c == last.came
  <2>6. c \in Seq(Byte) /\ Len(wire) < Len(c) /\ Len(wire) \in Nat /\ Len(c) \in Nat
    BY <1>1, <2>3
  <2>7. new \in Pending
    <3> DEFINE y == [last.came EXCEPT ![k] = b]
    <3>1. y \in Seq(Byte)
      <4>1. Len(wire) >= 1
        BY <1>1, <1>2
      <4> HIDE DEF last
      <4>2. k \in 1..Len(c)
        BY <2>6, <4>1
      <4> DEFINE e == [c EXCEPT ![k] = b]
      <4>3. e \in Seq(Byte)
        <5> HIDE DEF c, k
        <5>1. QED BY <1>1, <2>6, <4>2, ExceptSeq
      <4>4. QED BY <4>3
    <3>2. \A f \in Pending, z \in Seq(Byte) : [f EXCEPT !.came = z] \in Pending
      BY DEF Pending
    <3>3. new = [last EXCEPT !.came = y]
      OBVIOUS
    <3> HIDE DEF y, new, last
    <3>4. QED BY <2>3, <3>1, <3>2, <3>3
  <2>8. PICK q \in Seq(Pending) : pending = Append(q, last) /\ pending' = Append(q, new)
    <3>1. pending \in Seq(Pending)
      BY <1>1 DEF GoodFrames
    <3> HIDE DEF new
    <3>2. /\ pending' \in Seq(Pending) /\ Len(pending') = n /\ pending'[n] = new
          /\ \A i \in 1..n : i # n => pending'[i] = pending[i]
      <4>1. n \in 1..Len(pending)
        BY <2>1
      <4>2. QED BY <2>1, <2>4, <2>7, <3>1, <4>1, ExceptSeq
    <3>3. \E q \in Seq(Pending) : BothBeginWith(q, pending, pending', n)
      <4> HIDE DEF last, k
      <4>1. n \in Nat /\ n # 0 /\ LastChanged(pending, pending', n)
        BY <2>1, <3>2 DEF LastChanged
      <4>2. pending' \in Seq(Pending)
        BY <3>2
      <4>3. QED BY ONLY <3>1, <4>1, <4>2, LastFrame
    <3>4. QED BY <3>2, <3>3 DEF BothBeginWith
  <2> HIDE DEF last, new
  <2> DEFINE x == pFrame \o ring
             a == Bytestream(q)
  <2>9. x \o wire = a \o c
    <3>1. x \o wire = Bytestream(pending)
      BY <1>1, <1>7 DEF InTheWay
    <3>2. Bytestream(Append(q, last)) = a \o c
      BY <2>3, CameAppend
    <3>3. QED BY <2>8, <3>1, <3>2
  <2>10. x \in Seq(Byte) /\ a \in Seq(Byte)
    BY <1>1, CameType
  <2>11. k \in 2..Len(c) /\ Head(wire) = c[k] /\ x \o wire' = a \o [c EXCEPT ![k] = b]
    <3>1. k \in 2..Len(c) /\ k \in 1..Len(c) /\ k = Len(c) - Len(wire) + 1
      <4>1. Len(wire) >= 1
        BY <1>1, <1>2
      <4>2. QED BY <2>6, <4>1
    <3> DEFINE d == [c EXCEPT ![k] = b]
    <3> HIDE DEF x, a, c, k
    <3>2. Changed(c, d, k) /\ d[k] = b
      BY <1>1, <2>6, <3>1, ExceptSeq DEF Changed
    <3>3. Changed(wire, wire', 1) /\ wire'[1] = b
      BY <1>1, <1>2, <1>4 DEF Changed
    <3> HIDE DEF d
    <3>4. d[k] = wire'[1]
      BY <3>2, <3>3
    <3>5. wire[1] = c[k] /\ x \o wire' = a \o d
      <4>1. Ending(x, wire, a, c, k)
        BY <1>2, <2>9, <3>1 DEF Ending
      <4>2. Changed(c, d, k) /\ Changed(wire, wire', 1)
        BY <3>2, <3>3
      <4>3. c \in Seq(Byte) /\ x \in Seq(Byte) /\ a \in Seq(Byte) /\ wire \in Seq(Byte)
        BY <1>1, <2>6, <2>10
      <4>4. QED BY ONLY <3>4, <4>1, <4>2, <4>3, DamageInWay, SMTT(30)
    <3>6. Head(wire) = wire[1]
      BY <1>1, <1>2
    <3>7. QED BY <3>1, <3>5, <3>6 DEF d
  <2> HIDE DEF k
  <2>12. new \in GoodFrames
    <3>1. Arrives(new)
      <4>1. k \in 2..Len(new.sent) /\ b # new.sent[k] /\ new.came = [new.sent EXCEPT ![k] = b]
        BY <1>2, <2>3, <2>5, <2>11
      <4>2. QED BY <1>1, <4>1 DEF Arrives
    <3>2. Genuine(new)
      BY <2>3, <2>5 DEF Genuine
    <3>3. QED BY <2>7, <3>1, <3>2 DEF GoodFrames
  <2>13. /\ pending' \in Seq(GoodFrames) /\ Len(pending') = n /\ pending'[n] = new
         /\ \A i \in 1..n : i # n => pending'[i] = pending[i]
    <3>1. n \in 1..Len(pending)
      BY <2>1
    <3>2. QED BY <1>1, <2>1, <2>4, <2>12, <3>1, ExceptSeq
  <2>14. Typed'
    <3>1. PossibleCounts' = PossibleCounts /\ GoodFrames' = GoodFrames
      BY <1>3, ModelKept
    <3>2. nFaults' \in 0..MaxFaults
      BY <1>1, <1>2, FaultCounted
    <3>3. whole' = TRUE /\ agree' = FALSE
      BY <1>1, <1>7 DEF Typed
    <3>4. pending' \in Seq(GoodFrames')
      BY <2>13, <3>1
    <3>5. QED BY <1>1, <1>2, <1>3, <1>4, <3>1, <3>2, <3>3, <3>4 DEF Typed
  <2>15. InTheWay'
    <3>1. Bytestream(Append(q, new)) = a \o new.came
      BY <2>7, CameAppend
    <3>2. (pFrame' \o ring') \o wire' = x \o wire'
      BY <1>2, <1>3
    <3>3. QED BY <2>5, <2>8, <2>11, <3>1, <3>2 DEF InTheWay
  <2>16. WireInLast'
    <3>1. pending'[Len(pending')] = new /\ pending' # <<>>
      BY <2>1, <2>13
    <3>2. Len(new.came) = Len(c)
      BY <1>1, <2>5, <2>6, <2>11
    <3>3. Len(wire') <= Len(new.came)
      BY <1>4, <2>6, <3>2
    <3>4. QED BY <3>1, <3>3 DEF WireInLast
  <2>17. \A i \in 1..n : /\ pending'[i].kind = pending[i].kind
                               /\ pending'[i].counts = pending[i].counts
                               /\ pending'[i].sent = pending[i].sent
    BY <2>5, <2>13 DEF last
  <2>18. Chained'
    <3>1. pending # <<>> /\ pending[n].counts = shown
      BY <1>1, <1>7, <2>1 DEF Chained
    <3>2. pending'[Len(pending')].counts = shown'
      BY <1>3, <2>1, <2>13, <2>17, <3>1
    <3>3. ASSUME model = "P16", NEW i \in 1..(Len(pending') - 1)
          PROVE  Follows(pending'[i].counts, pending'[i + 1])
      <4>1. i \in 1..(Len(pending) - 1) /\ i \in 1..n /\ i + 1 \in 1..n
        BY <2>1, <2>13
      <4>2. Follows(pending[i].counts, pending[i + 1])
        BY <1>1, <1>7, <3>3, <4>1 DEF Chained
      <4>3. QED BY <2>17, <4>1, <4>2 DEF Follows
    <3>4. QED BY <1>3, <3>2, <3>3 DEF Chained
  <2>19. Agreed'
    BY <1>7 DEF Agreed
  <2>20. QED BY <1>5, <2>14, <2>15, <2>16, <2>18, <2>19 DEF FramesInv
<1>8. QED BY <1>6, <1>7 DEF Damage

\* A frame has more than its first byte.
LEMMA FrameLong == \A x : FrameSize(x) # 0 => FrameSize(x) > 1
<1>1. BH1000Size > 1
  <2>1. PICK n \in Nat : n = NumCounts * NumDigits
    <3>1. NumCounts * NumDigits \in Nat
      BY FramesSizes
    <3>2. QED BY <3>1
  <2>2. QED BY <2>1, FramesSizes
<1>2. Size > 1 /\ Size2 > 1 /\ P506Size > 1
  BY FramesSizes
<1>3. QED BY <1>1, <1>2 DEF FrameSize

\* What the first frame pending says of the bytes on their way.
LEMMA FirstPending ==
  ASSUME FramesInv, whole, (pFrame \o ring) \o wire # <<>>
  PROVE  /\ pending # <<>> /\ pending[1] \in GoodFrames /\ Tail(pending) \in Seq(GoodFrames)
         /\ pending[1].came \in Seq(Byte) /\ Bytestream(Tail(pending)) \in Seq(Byte)
         /\ (pFrame \o ring) \o wire = pending[1].came \o Bytestream(Tail(pending))
         /\ ((pFrame \o ring) \o wire)[1] = pending[1].came[1]
         /\ Len(pending[1].came) = SizeOf[pending[1].came[1]] /\ Len(pending[1].came) > 1
<1>1. (pFrame \o ring) \o wire = Bytestream(pending) /\ pending \in Seq(GoodFrames) /\ model \in Models
  BY DEF FramesInv, InTheWay, Typed
<1>2. pending # <<>>
  BY <1>1, CameEmpty
<1>3. pending[1] \in GoodFrames /\ Tail(pending) \in Seq(GoodFrames)
  BY <1>1, <1>2
<1>4. pending \in Seq(Pending) /\ Tail(pending) \in Seq(Pending)
  BY <1>1, <1>3 DEF GoodFrames
<1>5. /\ pending[1].came \in Seq(Byte) /\ Len(pending[1].came) = SizeOf[pending[1].came[1]]
      /\ Len(pending[1].came) > 1
  BY <1>1, <1>3, GoodFrame
<1>6. Bytestream(Tail(pending)) \in Seq(Byte)
  BY <1>4, CameType
<1>7. (pFrame \o ring) \o wire = pending[1].came \o Bytestream(Tail(pending))
  BY <1>1, <1>2, <1>4, CameHead
<1>8. ((pFrame \o ring) \o wire)[1] = pending[1].came[1]
  <2> DEFINE c == pending[1].came
             t == Bytestream(Tail(pending))
  <2>1. c \in Seq(Byte) /\ Len(c) > 1 /\ t \in Seq(Byte)
    BY <1>5, <1>6
  <2>2. (pFrame \o ring) \o wire = c \o t
    BY <1>7
  <2> HIDE DEF c, t
  <2>3. (c \o t)[1] = c[1]
    BY <2>1
  <2>4. QED BY <2>2, <2>3 DEF c
<1>9. QED BY <1>2, <1>3, <1>5, <1>6, <1>7, <1>8

\* A complete frame is the first one pending.
LEMMA FrameRead ==
  ASSUME FramesInv, whole, phase = "check"
  PROVE  pending # <<>> /\ pFrame = pending[1].came /\ ring \o wire = Bytestream(Tail(pending))
<1>1. /\ pFrame \in Seq(Byte) /\ ring \in Seq(Byte) /\ wire \in Seq(Byte)
      /\ pFrame # <<>> /\ Len(pFrame) = SizeOf[pFrame[1]]
  BY DEF FramesInv, Typed, InFrame
<1>2. (pFrame \o ring) \o wire = pFrame \o (ring \o wire) /\ ring \o wire \in Seq(Byte)
  BY <1>1, ConcatAssociative
<1>3. pFrame \o (ring \o wire) # <<>> /\ (pFrame \o (ring \o wire))[1] = pFrame[1]
  <2> DEFINE t == ring \o wire
  <2>1. t \in Seq(Byte)
    BY <1>2
  <2> HIDE DEF t
  <2>2. pFrame \o t # <<>> /\ (pFrame \o t)[1] = pFrame[1]
    BY <1>1, <2>1
  <2>3. QED BY <2>2 DEF t
<1> DEFINE c == pending[1].came
           b == Bytestream(Tail(pending))
<1>4. /\ pending # <<>> /\ c \in Seq(Byte) /\ b \in Seq(Byte)
      /\ pFrame \o (ring \o wire) = c \o b /\ pFrame[1] = c[1] /\ Len(c) = SizeOf[c[1]]
  BY <1>2, <1>3, FirstPending
<1> HIDE DEF c, b
<1>5. Len(pFrame) = Len(c)
  BY <1>1, <1>4
<1>6. pFrame = c /\ ring \o wire = b
  BY <1>1, <1>2, <1>4, <1>5, SameFront
<1>7. QED BY <1>4, <1>6 DEF c, b

LEMMA GetFirstStep ==
  ASSUME FramesInv, GetFirst
  PROVE  FramesInv'
<1>1. /\ Typed /\ InFrame /\ InTheWay /\ WireInLast
      /\ wire \in Seq(Byte) /\ ring \in Seq(Byte) /\ Len(ring) <= RingSize
  BY DEF FramesInv, Typed
<1>2. /\ phase = "first" /\ ring # <<>> /\ ring' = Tail(ring) /\ pFrame = <<>>
      /\ UNCHANGED <<model, shown, nFrames, wire, pCount, reading, nFaults, whole, agree, pending>>
  BY <1>1 DEF GetFirst, InFrame, counter
<1>3. Head(ring) \in Byte /\ Tail(ring) \in Seq(Byte) /\ Len(Tail(ring)) = Len(ring) - 1
  BY <1>1, <1>2, HeadTailProperties
<1>4. Len(ring') <= RingSize
  BY <1>1, <1>2, <1>3, FramesAssumption
<1>5. PossibleCounts' = PossibleCounts /\ SizeOf' = SizeOf /\ GoodFrames' = GoodFrames
  BY <1>2, ModelKept
<1>6. WireInLast'
  BY <1>1, <1>2 DEF WireInLast
<1>7. Chained' /\ Agreed'
  BY <1>2, ChainKept
<1>8. CASE FrameSize(Head(ring)) = 0
  <2>1. UNCHANGED <<phase, pFrame>>
    BY <1>8 DEF GetFirst
  <2>2. ~whole
    <3>1. SUFFICES ASSUME whole PROVE FALSE
      OBVIOUS
    <3>2. (pFrame \o ring) \o wire # <<>> /\ ((pFrame \o ring) \o wire)[1] = Head(ring)
      <4>1. <<>> \o ring = ring
        BY <1>1, ConcatEmptySeq
      <4>2. ring \o wire # <<>> /\ (ring \o wire)[1] = Head(ring)
        BY <1>1, <1>2
      <4>3. QED BY <1>2, <4>1, <4>2
    <3>3. SizeOf[Head(ring)] > 1
      BY <3>1, <3>2, FirstPending
    <3>4. QED BY <1>3, <1>8, <3>3 DEF SizeOf
  <2>3. Typed'
    BY <1>1, <1>2, <1>3, <1>4, <1>5, <2>1 DEF Typed
  <2>4. InFrame'
    BY <1>1, <1>2, <2>1, InFrameKept
  <2>5. InTheWay'
    BY <1>2, <2>2 DEF InTheWay
  <2>6. QED BY <1>6, <1>7, <2>3, <2>4, <2>5 DEF FramesInv
<1>9. CASE FrameSize(Head(ring)) # 0
  <2>1. phase' = "rest" /\ pFrame' = <<Head(ring)>>
    BY <1>9 DEF GetFirst
  <2>2. <<Head(ring)>> \in Seq(Byte) /\ <<Head(ring)>> # <<>> /\ Len(<<Head(ring)>>) = 1 /\ <<Head(ring)>>[1] = Head(ring)
    BY <1>3
  <2>3. Typed'
    BY <1>1, <1>2, <1>3, <1>4, <1>5, <2>1, <2>2 DEF Typed
  <2>4. InFrame'
    <3>1. SizeOf[Head(ring)] > 1
      BY <1>3, <1>9, FrameLong DEF SizeOf
    <3>2. pFrame' # <<>> /\ Len(pFrame') = 1 /\ pFrame'[1] = Head(ring)
      BY <2>1, <2>2
    <3>3. QED BY <1>5, <2>1, <3>1, <3>2 DEF InFrame
  <2>5. (<<Head(ring)>> \o Tail(ring)) \o wire = (<<>> \o ring) \o wire
    <3>1. <<Head(ring)>> \o Tail(ring) = ring /\ <<>> \o ring = ring
      BY <1>1, <1>2
    <3>2. QED BY <3>1
  <2>6. InTheWay'
    BY <1>1, <1>2, <2>1, <2>5 DEF InTheWay
  <2>7. QED BY <1>6, <1>7, <2>3, <2>4, <2>6 DEF FramesInv
<1>10. QED BY <1>8, <1>9

LEMMA FirstTimeoutStep ==
  ASSUME FramesInv, FirstTimeout
  PROVE  FramesInv'
<1>1. Typed /\ InFrame /\ InTheWay /\ WireInLast /\ Chained /\ Agreed
  BY DEF FramesInv
<1>2. /\ phase = "first" /\ wire = <<>> /\ ring = <<>> /\ pFrame = <<>> /\ whole' = TRUE
      /\ UNCHANGED <<model, shown, nFrames, wire, ring, phase, pFrame, pCount, reading, nFaults, agree, pending>>
  BY <1>1 DEF FirstTimeout, Silent, InFrame, counter, parser
<1>3. PossibleCounts' = PossibleCounts /\ GoodFrames' = GoodFrames
  BY <1>2, ModelKept
<1>4. Typed'
  BY <1>1, <1>2, <1>3 DEF Typed
<1>5. InFrame'
  BY <1>1, <1>2, InFrameKept
<1>6. CASE whole
  BY <1>1, <1>2, <1>4, <1>5, <1>6, ChainKept DEF FramesInv, Typed, InTheWay, WireInLast
<1>7. CASE ~whole
  <2>1. pending = <<>> /\ ~agree
    BY <1>1, <1>7 DEF Typed
  <2>2. InTheWay'
    <3>1. (<<>> \o <<>>) \o <<>> = <<>>
      OBVIOUS
    <3>2. QED BY <1>2, <2>1, <3>1, CameEmpty DEF InTheWay
  <2>3. WireInLast' /\ Agreed'
    BY <1>2, <2>1 DEF WireInLast, Agreed
  <2>4. Chained'
    <3>1. 1..(Len(pending') - 1) = {}
      BY <1>2, <2>1
    <3>2. QED BY <1>2, <2>1, <3>1 DEF Chained
  <2>5. QED BY <1>4, <1>5, <2>2, <2>3, <2>4 DEF FramesInv
<1>8. QED BY <1>6, <1>7

LEMMA GetRestStep ==
  ASSUME FramesInv, GetRest
  PROVE  FramesInv'
<1>1. /\ Typed /\ InFrame /\ InTheWay /\ WireInLast
      /\ wire \in Seq(Byte) /\ ring \in Seq(Byte) /\ pFrame \in Seq(Byte) /\ Len(ring) <= RingSize
  BY DEF FramesInv, Typed
<1>2. /\ phase = "rest" /\ ring # <<>> /\ ring' = Tail(ring) /\ pFrame' = Append(pFrame, Head(ring))
      /\ phase' = (IF Len(pFrame') = FrameSize(pFrame[1]) THEN "check" ELSE "rest")
      /\ pFrame # <<>> /\ Len(pFrame) < SizeOf[pFrame[1]]
      /\ UNCHANGED <<model, shown, nFrames, wire, pCount, reading, nFaults, whole, agree, pending>>
  BY <1>1 DEF GetRest, InFrame, counter
<1>3. Head(ring) \in Byte /\ Tail(ring) \in Seq(Byte) /\ Len(Tail(ring)) = Len(ring) - 1
  BY <1>1, <1>2, HeadTailProperties
<1>4. Len(ring') <= RingSize
  BY <1>1, <1>2, <1>3, FramesAssumption
<1>5. PossibleCounts' = PossibleCounts /\ SizeOf' = SizeOf /\ GoodFrames' = GoodFrames
  BY <1>2, ModelKept
<1>6. pFrame' \in Seq(Byte) /\ pFrame' # <<>> /\ Len(pFrame') = Len(pFrame) + 1 /\ pFrame'[1] = pFrame[1]
  <2>1. 1 \in 1..Len(pFrame)
    BY <1>1, <1>2
  <2>2. QED BY <1>1, <1>2, <1>3, <2>1, AppendProperties
<1>7. SizeOf[pFrame[1]] = FrameSize(pFrame[1]) /\ SizeOf[pFrame[1]] \in Nat
  <2>1. pFrame[1] \in Byte
    BY <1>1, <1>2
  <2>2. QED BY <2>1, FrameSizes DEF SizeOf
<1>8. Typed'
  BY <1>1, <1>2, <1>3, <1>4, <1>5, <1>6 DEF Typed
<1>9. InFrame'
  <2>1. PICK n \in Nat : n = Len(pFrame)
    BY <1>1
  <2>2. Len(pFrame') <= SizeOf[pFrame[1]]
    BY <1>2, <1>6, <1>7, <2>1
  <2>3. Len(pFrame') # SizeOf[pFrame[1]] => Len(pFrame') < SizeOf[pFrame[1]]
    BY <1>6, <1>7, <2>1, <2>2
  <2>4. QED BY <1>2, <1>5, <1>6, <1>7, <2>3 DEF InFrame
<1>10. (Append(pFrame, Head(ring)) \o Tail(ring)) \o wire = (pFrame \o ring) \o wire
  BY <1>1, <1>2, MoveByte
<1>11. InTheWay'
  BY <1>1, <1>2, <1>10 DEF InTheWay
<1>12. WireInLast'
  BY <1>1, <1>2 DEF WireInLast
<1>13. QED BY <1>2, <1>8, <1>9, <1>11, <1>12, ChainKept DEF FramesInv

\* A task that has had every byte never waits in vain for the rest of a frame.
LEMMA RestTimeoutStep ==
  ASSUME FramesInv, RestTimeout
  PROVE  ~whole /\ FramesInv'
<1>1. Typed /\ InFrame /\ pFrame \in Seq(Byte)
  BY DEF FramesInv, Typed
<1>2. /\ phase = "rest" /\ wire = <<>> /\ ring = <<>> /\ phase' = "first" /\ pFrame' = <<>>
      /\ pFrame # <<>> /\ Len(pFrame) < SizeOf[pFrame[1]]
      /\ UNCHANGED <<model, shown, nFrames, wire, ring, pCount, reading, nFaults, whole, agree, pending>>
  BY <1>1 DEF RestTimeout, Silent, InFrame, counter
<1>3. ~whole
  <2>1. SUFFICES ASSUME whole PROVE FALSE
    OBVIOUS
  <2>2. (pFrame \o ring) \o wire = pFrame
    BY <1>1, <1>2, ConcatEmptySeq
  <2> DEFINE c == pending[1].came
             b == Bytestream(Tail(pending))
  <2>3. c \in Seq(Byte) /\ b \in Seq(Byte) /\ pFrame = c \o b /\ pFrame[1] = c[1] /\ Len(c) = SizeOf[c[1]]
    BY <1>2, <2>1, <2>2, FirstPending
  <2> HIDE DEF c, b
  <2>4. Len(pFrame) = Len(c) + Len(b) /\ Len(c) \in Nat /\ Len(b) \in Nat
    BY <2>3
  <2>5. QED BY <1>2, <2>3, <2>4
<1>4. PossibleCounts' = PossibleCounts /\ GoodFrames' = GoodFrames
  BY <1>2, ModelKept
<1>5. Typed'
  <2>1. <<>> \in Seq(Byte)
    OBVIOUS
  <2>2. QED BY <1>1, <1>2, <1>4, <2>1 DEF Typed
<1>6. InFrame' /\ InTheWay' /\ WireInLast'
  BY <1>2, <1>3 DEF InFrame, InTheWay, WireInLast
<1>7. QED BY <1>2, <1>3, <1>5, <1>6, ChainKept DEF FramesInv

LEMMA TwoBytes ==
  ASSUME NEW m \in Nat \ {0}, NEW a \in 0..(m - 1), NEW b \in 0..(m - 1)
  PROVE  a * m + b \in 0..(m * m - 1)
<1>1. a * m + m <= m * m /\ a * m \in Nat /\ m * m \in Nat
  OBVIOUS
<1>2. QED BY <1>1

\* Whatever the bytes of a complete frame, the counts after it are possible ones.
LEMMA CountedType ==
  ASSUME Typed, InFrame, phase = "check"
  PROVE  Counted(pFrame) \in PossibleCounts
<1>1. /\ model \in Models /\ pFrame \in Seq(Byte) /\ pCount \in PossibleCounts
      /\ pFrame # <<>> /\ Len(pFrame) = SizeOf[pFrame[1]]
  BY DEF Typed, InFrame
<1>2. pFrame[1] \in Byte /\ Len(pFrame) = FrameSize(pFrame[1]) /\ FrameSize(pFrame[1]) # 0
  <2>1. pFrame[1] \in Byte /\ Len(pFrame) # 0
    BY <1>1
  <2>2. QED BY <1>1, <2>1 DEF SizeOf
<1>3. CASE model # "P16"
  <2>1. model \in {"P506", "BH1000"}
    BY <1>1, <1>3, FramesAssumption
  <2>2. pFrame[1] = STX
    BY <1>2, <2>1, FrameSizes
  <2>3. Values(pFrame) \in PossibleCounts
    BY <1>1, <1>2, <2>1, <2>2, ValuesType
  <2>4. QED BY <1>3, <2>3 DEF Counted
<1>4. CASE model = "P16" /\ pFrame[1] = STX /\ pFrame[2] \in Index
  <2>1. Len(pFrame) = Size
    BY <1>2, <1>4, FrameSizes
  <2>2. pFrame[3] \in Byte /\ pFrame[4] \in Byte
    BY <1>1, <2>1, FramesSizes
  <2>3. pFrame[3] * Base + pFrame[4] \in 0..(Base * Base - 1)
    BY <2>2, TwoBytes, FramesSizes DEF Byte
  <2>4. Limit = Base * Base
    BY <1>4 DEF Limit
  <2>5. [pCount EXCEPT ![pFrame[2]] = pFrame[3] * Base + pFrame[4]] \in PossibleCounts
    <3> DEFINE n == pFrame[3] * Base + pFrame[4]
    <3>1. n \in 0..(Limit - 1)
      BY <2>3, <2>4
    <3> HIDE DEF n
    <3>2. [pCount EXCEPT ![pFrame[2]] = n] \in PossibleCounts
      BY <1>1, <1>4, <3>1 DEF PossibleCounts
    <3>3. QED BY <3>2 DEF n
  <2>6. QED BY <1>4, <2>5, Bytes DEF Counted
<1>5. CASE model = "P16" /\ pFrame[1] = STX /\ pFrame[2] = Clear
  <2>1. NoCounts \in PossibleCounts
    BY <1>1, ShowableCounts
  <2>2. QED BY <1>5, <2>1, Bytes DEF Counted
<1>6. CASE model = "P16" /\ ~(pFrame[1] = STX /\ (pFrame[2] \in Index \/ pFrame[2] = Clear))
  <2>1. Counted(pFrame) = pCount
    BY <1>6 DEF Counted
  <2>2. QED BY <1>1, <2>1
<1>7. QED BY <1>3, <1>4, <1>5, <1>6

LEMMA MessageType ==
  ASSUME model \in Models, NEW counts \in PossibleCounts
  PROVE  Message(counts) \in PossibleCounts
<1>1. CASE model = "BH1000"
  <2>1. 0 \in Index
    BY FramesSizes DEF Index
  <2>2. counts[0] \in 0..(Limit - 1)
    BY <2>1 DEF PossibleCounts
  <2>3. \A n, m \in Nat : m # 0 => n % m \in Nat /\ n % m <= n
    <3>1. ASSUME NEW n \in Nat, NEW m \in Nat, m # 0 PROVE n % m \in Nat /\ n % m <= n
      <4>1. n \div m \in Nat /\ n % m \in 0..(m - 1) /\ n = (n \div m) * m + (n % m)
        BY <3>1, DivMod
      <4>2. (n \div m) * m \in Nat
        BY <4>1
      <4>3. QED BY <4>1, <4>2
    <3>2. QED BY <3>1
  <2>4. Limit \in Nat
    BY <1>1, PowerSteps, FramesSizes DEF Limit
  <2>5. counts[0] % MsgMod \in 0..(Limit - 1)
    <3>1. MsgMod \in Nat /\ MsgMod # 0
      BY FramesAssumption
    <3>2. counts[0] \in Nat /\ counts[0] <= Limit - 1
      BY <2>2, <2>4
    <3>3. QED BY <2>3, <2>4, <3>1, <3>2
  <2>6. [counts EXCEPT ![0] = counts[0] % MsgMod] \in PossibleCounts
    BY <2>1, <2>5 DEF PossibleCounts
  <2>7. QED BY <1>1, <2>6 DEF Message, BH1000Message
<1>2. CASE model # "BH1000"
  BY <1>2 DEF Message
<1>3. QED BY <1>1, <1>2

\* An undamaged frame is counted and brings what it was sent for.
LEMMA CountsRead ==
  ASSUME FramesInv, whole, phase = "check", Check, pending[1].came = pending[1].sent,
         model = "P16" /\ pending[1].kind # "clear" => Follows(pCount, pending[1])
  PROVE  /\ pCount' = pending[1].counts
         /\ pending[1].kind = "end" => reading' = Message(pending[1].counts)
<1> DEFINE r == pending[1]
<1>1. pending # <<>> /\ pFrame = r.came
  BY FrameRead
<1>2. r \in GoodFrames /\ model \in Models
  BY <1>1 DEF FramesInv, Typed
<1>3. pFrame = r.sent /\ (model = "P16" /\ r.kind # "clear" => Follows(pCount, r))
  BY <1>1
<1> HIDE DEF r
<1>4. ChecksumRight(pFrame) /\ Counted(pFrame) = r.counts
  BY <1>2, <1>3, GoodFrame
<1>5. pCount' = r.counts /\ reading' = IF Ends(pFrame) THEN Message(pCount') ELSE reading
  BY <1>4 DEF Check
<1>6. Message(pCount') = Message(r.counts)
  BY <1>5
<1>7. r.kind = "end" => Ends(pFrame)
  BY <1>2, <1>3, GoodFrame
<1>8. QED BY <1>5, <1>6, <1>7 DEF r

LEMMA CheckStep ==
  ASSUME FramesInv, Check
  PROVE  FramesInv'
<1>1. /\ Typed /\ InFrame /\ InTheWay /\ WireInLast /\ Chained /\ Agreed
      /\ model \in Models /\ pending \in Seq(GoodFrames) /\ whole \in BOOLEAN /\ agree \in BOOLEAN
      /\ ring \in Seq(Byte) /\ wire \in Seq(Byte) /\ pCount \in PossibleCounts
  BY DEF FramesInv, Typed
<1>2. /\ phase = "check" /\ phase' = "first" /\ pFrame' = <<>>
      /\ pending' = (IF whole THEN Tail(pending) ELSE pending)
      /\ UNCHANGED <<model, shown, nFrames, wire, ring, nFaults, whole>>
  BY DEF Check, FrameDone, counter
<1>3. PossibleCounts' = PossibleCounts /\ GoodFrames' = GoodFrames
  BY <1>2, ModelKept
<1>4. pCount' \in PossibleCounts /\ reading' \in PossibleCounts \cup {NoReading}
  <2>1. Counted(pFrame) \in PossibleCounts
    BY <1>1, <1>2, CountedType
  <2>2. CASE ChecksumRight(pFrame)
    <3>1. pCount' = Counted(pFrame) /\ reading' = IF Ends(pFrame) THEN Message(pCount') ELSE reading
      BY <2>2 DEF Check
    <3>2. Message(pCount') = Message(Counted(pFrame))
      BY <3>1
    <3>3. Message(Counted(pFrame)) \in PossibleCounts
      BY <1>1, <2>1, MessageType
    <3>4. reading \in PossibleCounts \cup {NoReading}
      BY <1>1 DEF Typed
    <3>5. QED BY <2>1, <3>1, <3>2, <3>3, <3>4
  <2>3. CASE ~ChecksumRight(pFrame)
    BY <1>1, <2>3 DEF Check, Typed
  <2>4. QED BY <2>2, <2>3
<1>5. InFrame'
  BY <1>2 DEF InFrame
<1>6. <<>> \in Seq(Byte) /\ <<>> \in Seq(GoodFrames)
  OBVIOUS
<1>7. agree' = \/ agree
               \/ /\ whole
                  /\ model # "P16" \/ Head(pending).kind = "clear"
                  /\ \A i \in DOMAIN pending : pending[i].came = pending[i].sent
  BY DEF Check, FrameDone
<1>8. CASE ~whole
  <2>1. pending' = <<>> /\ agree' = FALSE /\ ~whole'
    <3>1. pending = <<>> /\ ~agree
      BY <1>1, <1>8 DEF Typed
    <3>2. QED BY <1>2, <1>7, <1>8, <3>1
  <2>2. Typed'
    BY <1>1, <1>2, <1>3, <1>4, <1>6, <1>8, <2>1 DEF Typed
  <2>3. InTheWay' /\ WireInLast' /\ Chained' /\ Agreed'
    BY <2>1 DEF InTheWay, WireInLast, Chained, Agreed
  <2>4. QED BY <1>5, <2>2, <2>3 DEF FramesInv
<1>9. CASE whole
  <2>1. pending # <<>> /\ pFrame = pending[1].came /\ ring \o wire = Bytestream(Tail(pending))
    BY <1>2, <1>9, FrameRead
  <2>2. PICK n \in Nat : n = Len(pending) /\ n # 0
    BY <1>1, <2>1
  <2>3. /\ pending' = Tail(pending) /\ pending' \in Seq(GoodFrames) /\ Len(pending') = n - 1
        /\ \A i \in 1..(n - 1) : pending'[i] = pending[i + 1]
    BY <1>1, <1>2, <1>9, <2>1, <2>2, HeadTailProperties
  <2>4. agree' \in BOOLEAN
    BY <1>7
  <2>5. Typed'
    BY <1>1, <1>2, <1>3, <1>4, <1>6, <1>9, <2>3, <2>4 DEF Typed
  <2>6. InTheWay'
    <3>1. (<<>> \o ring) \o wire = ring \o wire
      BY <1>1, ConcatEmptySeq
    <3>2. QED BY <1>2, <2>1, <2>3, <3>1 DEF InTheWay
  <2>7. n # 1 => pending' # <<>> /\ pending'[Len(pending')] = pending[n]
    <3>1. ASSUME n # 1 PROVE pending' # <<>> /\ pending'[Len(pending')] = pending[n]
      <4>1. n - 1 \in 1..(n - 1) /\ (n - 1) + 1 = n
        BY <2>2, <3>1
      <4>2. pending'[n - 1] = pending[n]
        BY <2>3, <4>1
      <4>3. Len(pending') = n - 1 /\ n - 1 # 0
        BY <2>2, <2>3, <3>1
      <4>4. pending' # <<>>
        BY <2>3, <4>3
      <4>5. QED BY <4>2, <4>3, <4>4
    <3>2. QED BY <3>1
  <2>8. n = 1 => pending' = <<>>
    BY <2>3
  <2>9. WireInLast'
    <3>1. SUFFICES ASSUME wire # <<>> PROVE n # 1
      BY <1>1, <1>2, <1>9, <2>1, <2>2, <2>7 DEF WireInLast
    <3>2. ring \o wire # <<>>
      BY <1>1, <3>1
    <3>3. QED BY <2>1, <2>3, <2>8, <3>2, CameEmpty
  <2>10. pending[n].counts = shown
    BY <1>1, <1>9, <2>1, <2>2 DEF Chained
  <2>11. ASSUME model = "P16", NEW i \in 1..(n - 1) PROVE Follows(pending[i].counts, pending[i + 1])
    BY <1>1, <1>9, <2>2, <2>11 DEF Chained
  <2>12. Chained'
    <3>1. ASSUME pending' # <<>> PROVE pending'[Len(pending')].counts = shown'
      BY <1>2, <2>7, <2>8, <2>10, <3>1
    <3>2. ASSUME model = "P16", NEW i \in 1..(Len(pending') - 1)
          PROVE  Follows(pending'[i].counts, pending'[i + 1])
      <4>1. i \in 1..(n - 1) /\ i + 1 \in 1..(n - 1)
        BY <2>2, <2>3
      <4>2. pending'[i] = pending[i + 1] /\ pending'[i + 1] = pending[(i + 1) + 1]
        BY <2>3, <4>1
      <4>3. Follows(pending[i + 1].counts, pending[(i + 1) + 1])
        BY <2>11, <3>2, <4>1
      <4>4. QED BY <4>2, <4>3
    <3>3. QED BY <1>2, <3>1, <3>2 DEF Chained
  <2>13. Agreed'
    <3>1. SUFFICES ASSUME agree' PROVE Agreed'
      BY DEF Agreed
    <3>2. \A i \in 1..n : pending[i].came = pending[i].sent
      <4>1. DOMAIN pending = 1..n
        BY <1>1, <2>2
      <4>2. agree => \A i \in 1..n : pending[i].came = pending[i].sent
        BY <1>1, <2>2 DEF Agreed
      <4>3. QED BY <1>7, <3>1, <4>1, <4>2
    <3>3. model = "P16" /\ pending[1].kind # "clear" => Follows(pCount, pending[1])
      <4>1. Head(pending) = pending[1]
        BY <1>1, <2>1
      <4>2. agree /\ model = "P16" => Follows(pCount, pending[1])
        BY <1>1, <2>1 DEF Agreed
      <4>3. QED BY <1>7, <3>1, <4>1, <4>2
    <3>4. pCount' = pending[1].counts
      <4>1. pending[1].came = pending[1].sent
        BY <2>2, <3>2
      <4>2. QED BY <1>2, <1>9, <3>3, <4>1, CountsRead
    <3>5. \A i \in 1..Len(pending') : pending'[i].came = pending'[i].sent
      BY <2>2, <2>3, <3>2
    <3>6. pending' = <<>> => pCount' = shown'
      <4>1. pending' = <<>> => n = 1
        BY <2>2, <2>7
      <4>2. QED BY <1>2, <2>10, <3>4, <4>1
    <3>7. ASSUME pending' # <<>>, model = "P16" PROVE Follows(pCount', pending'[1])
      <4>1. 1 \in 1..(n - 1)
        BY <2>2, <2>8, <3>7
      <4>2. Follows(pending[1].counts, pending[1 + 1]) /\ pending'[1] = pending[1 + 1]
        BY <2>3, <2>11, <3>7, <4>1
      <4>3. QED BY <3>4, <4>2
    <3>8. QED BY <1>2, <3>5, <3>6, <3>7 DEF Agreed
  <2>14. QED BY <1>5, <2>5, <2>6, <2>9, <2>12, <2>13 DEF FramesInv
<1>10. QED BY <1>1, <1>8, <1>9

LEMMA FramesNextInv == FramesInv /\ [FramesNext]_framesVars => FramesInv'
<1> SUFFICES ASSUME FramesInv, [FramesNext]_framesVars PROVE FramesInv'
  OBVIOUS
<1>1. CASE UNCHANGED framesVars
  <2>1. /\ UNCHANGED <<model, shown, nFrames, wire, ring, phase, pFrame, pCount, reading, nFaults>>
        /\ UNCHANGED <<whole, agree, pending>>
    BY <1>1 DEF framesVars, counter, parser
  <2>2. PossibleCounts' = PossibleCounts /\ GoodFrames' = GoodFrames
    BY <2>1, ModelKept
  <2>3. Typed'
    BY <2>1, <2>2 DEF FramesInv, Typed
  <2>4. InFrame'
    BY <2>1, InFrameKept DEF FramesInv
  <2>5. InTheWay' /\ WireInLast'
    BY <2>1 DEF FramesInv, InTheWay, WireInLast
  <2>6. QED BY <2>1, <2>3, <2>4, <2>5, ChainKept DEF FramesInv
<1>2. ASSUME NEW d \in Index, NEW n \in Counts, SendCount(d, n) PROVE FramesInv'
  BY <1>2, SendCountStep
<1>3. CASE SendClear
  BY <1>3, SendClearStep
<1>4. CASE SendEnd
  BY <1>4, SendEndStep
<1>5. CASE Arrive
  BY <1>5, ArriveStep
<1>6. CASE Lose
  BY <1>6, LoseStep
<1>7. ASSUME NEW b \in Noise, Damage(b) PROVE FramesInv'
  BY <1>7, DamageStep
<1>8. CASE fInput
  BY <1>8, GetFirstStep, FirstTimeoutStep, GetRestStep, RestTimeoutStep, CheckStep DEF fInput
<1>9. QED BY <1>1, <1>2, <1>3, <1>4, <1>5, <1>6, <1>7, <1>8 DEF FramesNext

LEMMA FramesSpecInv == FramesSpec => []FramesInv
<1>1. QED BY FramesInitInv, FramesNextInv, PTL DEF FramesSpec

-----------------------------------------------------------------------------
(***************************************************************************)
(* The theorems about frames                                               *)
(***************************************************************************)

\* The ring, the frame being read and the counts keep their types and bounds,
\* whatever bytes are lost, damaged or pushed out.
THEOREM FramesTypeCorrect == FramesSpec => []FramesTypeOK
<1>1. FramesInv => FramesTypeOK
  <2> SUFFICES ASSUME FramesInv PROVE FramesTypeOK
    OBVIOUS
  <2>1. phase # "first" => Len(pFrame) <= FrameSize(pFrame[1])
    <3>1. SUFFICES ASSUME phase # "first" PROVE Len(pFrame) <= FrameSize(pFrame[1])
      OBVIOUS
    <3>2. pFrame \in Seq(Byte) /\ pFrame # <<>> /\ Len(pFrame) <= SizeOf[pFrame[1]]
      <4>1. phase \in {"rest", "check"} /\ pFrame \in Seq(Byte)
        BY <3>1 DEF FramesInv, Typed
      <4>2. CASE phase = "check"
        BY <4>1, <4>2 DEF FramesInv, InFrame
      <4>3. CASE phase = "rest"
        <5>1. pFrame # <<>> /\ Len(pFrame) < SizeOf[pFrame[1]]
          BY <4>3 DEF FramesInv, InFrame
        <5>2. pFrame[1] \in Byte
          BY <4>1, <5>1
        <5>3. SizeOf[pFrame[1]] \in Nat
          BY <5>2, FrameSizes DEF SizeOf
        <5>4. QED BY <4>1, <5>1, <5>3
      <4>4. QED BY <4>1, <4>2, <4>3
    <3>3. pFrame[1] \in Byte
      BY <3>2
    <3>4. QED BY <3>2, <3>3 DEF SizeOf
  <2>2. QED BY <2>1 DEF FramesInv, Typed, FramesTypeOK, Showable
<1>2. QED BY <1>1, FramesSpecInv, PTL

\* As long as no byte is missing, what the task has read of a frame and what is still
\* to come are whole frames, also across damaged ones (plus_p16.c:24-60, bh1000.c:27-45).
THEOREM FramesInStep == FramesSpec => []InStep
<1>1. FramesInv => InStep
  BY DEF FramesInv, InTheWay, InStep, Bytestream, Came
<1>2. QED BY <1>1, FramesSpecInv, PTL

\* A reading is what the counter showed when it ended the series, if the board has had
\* every change of the counts since they agreed (plus_p16.c:73-98).
THEOREM FramesReadingAsShown == FramesSpec => ReadingAsShown
<1>1. FramesInv /\ [FramesNext]_framesVars
        => [phase = "check" /\ phase' = "first" /\ agree /\ Head(pending).kind = "end" =>
              reading' = Message(Head(pending).counts)]_framesVars
  <2> SUFFICES ASSUME FramesInv, FramesNext, phase = "check", phase' = "first", agree, Head(pending).kind = "end"
               PROVE  reading' = Message(Head(pending).counts)
    OBVIOUS
  <2>1. Check
    BY DEF FramesNext, fInput, SendCount, SendClear, SendEnd, Sends, Arrive, Lose, Damage, GetFirst,
      FirstTimeout, GetRest, RestTimeout, parser
  <2>2. whole /\ pending # <<>>
    BY FrameRead DEF FramesInv, Typed
  <2>3. pending \in Seq(GoodFrames)
    BY DEF FramesInv, Typed
  <2>4. Head(pending) = pending[1] /\ 1 \in 1..Len(pending)
    BY <2>2, <2>3
  <2>5. pending[1].came = pending[1].sent /\ (model = "P16" => Follows(pCount, pending[1]))
    BY <2>2, <2>4 DEF FramesInv, Agreed
  <2>6. QED BY <2>1, <2>2, <2>4, <2>5, CountsRead
<1>2. QED BY <1>1, FramesSpecInv, PTL DEF FramesSpec, ReadingAsShown

\* A P16 frame with a damaged byte behind its first one changes neither the counts nor
\* the reading: its sum is wrong, whatever the byte has turned into (plus_p16.c:62-72).
THEOREM FramesDamagedRejected == FramesSpec => DamagedRejected
<1>1. FramesInv /\ [FramesNext]_framesVars
        => [phase = "check" /\ whole /\ model = "P16" /\ Head(pending).came # Head(pending).sent =>
              UNCHANGED <<pCount, reading>>]_framesVars
  <2> SUFFICES ASSUME FramesInv, FramesNext, phase = "check", whole, model = "P16",
                      Head(pending).came # Head(pending).sent
               PROVE  UNCHANGED <<pCount, reading>>
    OBVIOUS
  <2>1. CASE Check
    <3>1. pending # <<>> /\ pFrame = pending[1].came
      BY FrameRead
    <3>2. pending \in Seq(GoodFrames) /\ model \in Models
      BY DEF FramesInv, Typed
    <3>3. Head(pending) = pending[1] /\ pending[1] \in GoodFrames
      BY <3>1, <3>2
    <3>4. ~ChecksumRight(pending[1].came)
      BY <3>2, <3>3, GoodFrame
    <3>5. QED BY <2>1, <3>1, <3>4 DEF Check
  <2>2. CASE ~Check
    BY <2>2 DEF FramesNext, fInput, SendCount, SendClear, SendEnd, Sends, Arrive, Lose, Damage, GetFirst,
      FirstTimeout, GetRest, RestTimeout, parser
  <2>3. QED BY <2>1, <2>2
<1>2. QED BY <1>1, FramesSpecInv, PTL DEF FramesSpec, DamagedRejected

================================================================================
