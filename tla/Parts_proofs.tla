---------------------------- MODULE Parts_proofs ----------------------------
(***************************************************************************)
(* Theorems about five parts that share no state: the texts of wide strings *)
(* (CStrings), jumps through labeled loops (CrbLoops), source text on its   *)
(* way to CRB_interpret (CrbInput), the tables of names (CrbNames), and     *)
(* expressions with the folding of constants (CrbValues).  Each has an      *)
(* inductive invariant of its own: StrInv, LInv, InputInv (with CharInv),   *)
(* NInv and ValuesInv.                                                      *)
(***************************************************************************)
EXTENDS CStrings, CrbLoops, CrbInput, CrbNames, CrbValues, FiniteSetTheorems,
        SequenceTheorems, WellFoundedInduction, TLAPS

-----------------------------------------------------------------------------
(* Induction and tables, and texts joined to one. *)

\* Induction over the natural numbers, as a fact about sets.
LEMMA NatSets ==
    ASSUME NEW T \in SUBSET Nat, 0 \in T, \A n \in T : n + 1 \in T
    PROVE  T = Nat
<1>1. SUFFICES ASSUME T # Nat PROVE FALSE
  OBVIOUS
<1> DEFINE U == Nat \ T
           R == {ss \in Nat \X Nat : ss[1] < ss[2]}
<1>2. U # {} /\ U \subseteq Nat
  BY <1>1
<1>3. IsWellFoundedOn(R, Nat)
  BY NatLessThanWellFounded DEF OpToRel
<1>4. \E x \in U : \A y \in U : <<y, x>> \notin R
  <2> HIDE DEF R
  <2> QED
    BY <1>2, <1>3, WFMin
<1>5. PICK x \in U : \A y \in U : <<y, x>> \notin R
  BY <1>4
<1>6. \A y \in U : ~(y < x)
  BY <1>5
<1>7. x # 0 /\ x - 1 \in Nat /\ x - 1 \in T
  BY <1>6
<1> QED
  BY <1>7

\* A table whose entries depend on entries before them exists.
Filled(n, X, x0, H, pr, f) ==
    f \in [0..n -> X] /\ f[0] = x0 /\ \A i \in 1..n : f[i] = H[<<i, f[pr[i]]>>]

\* There is such a table, whatever the entries are.
LEMMA FromBelow ==
    ASSUME NEW n \in Nat, NEW X, NEW x0 \in X, NEW H \in [(1..n) \X X -> X],
           NEW pr \in [1..n -> Nat], \A i \in 1..n : pr[i] < i
    PROVE  \E f : Filled(n, X, x0, H, pr, f)
<1> DEFINE Upto(k, f) == /\ f \in [0..n -> X] /\ f[0] = x0
                         /\ \A i \in 1..n : i <= k => f[i] = H[<<i, f[pr[i]]>>]
           T == {k \in Nat : k <= n => \E f : Upto(k, f)}
<1>1. 0 \in T
  <2> DEFINE f == [i \in 0..n |-> x0]
  <2>1. Upto(0, f)
    OBVIOUS
  <2>. QED BY <2>1
<1>2. ASSUME NEW k \in T PROVE k + 1 \in T
  <2>1. SUFFICES ASSUME k + 1 <= n PROVE \E f : Upto(k + 1, f)
    OBVIOUS
  <2>2. k \in Nat /\ k + 1 \in 1..n /\ k <= n
    BY <2>1
  <2>3. PICK f : Upto(k, f)
    BY <2>2
  <2>4. pr[k + 1] \in 0..n /\ f[pr[k + 1]] \in X /\ H[<<k + 1, f[pr[k + 1]]>>] \in X
    <3>1. pr[k + 1] \in Nat /\ pr[k + 1] < k + 1
      BY <2>2
    <3>2. pr[k + 1] \in 0..n
      BY <2>2, <3>1
    <3>3. f[pr[k + 1]] \in X
      BY <2>3, <3>2
    <3>4. <<k + 1, f[pr[k + 1]]>> \in (1..n) \X X
      BY <2>2, <3>3
    <3>. QED BY <3>2, <3>3, <3>4
  <2> DEFINE y == H[<<k + 1, f[pr[k + 1]]>>]
             g == [f EXCEPT ![k + 1] = y]
  <2>5. /\ g \in [0..n -> X] /\ g[0] = x0 /\ g[k + 1] = y
        /\ \A i \in 0..n : i # k + 1 => g[i] = f[i]
    <3>1. y \in X /\ k + 1 \in 0..n /\ k + 1 # 0
      BY <2>2, <2>4
    <3> HIDE DEF y
    <3>. QED BY <2>3, <3>1
  <2>6. ASSUME NEW i \in 1..n, i <= k + 1 PROVE g[i] = H[<<i, g[pr[i]]>>]
    <3>1. pr[i] \in 0..n /\ pr[i] # k + 1
      BY <2>2, <2>6
    <3>2. g[pr[i]] = f[pr[i]]
      BY <2>5, <3>1
    <3>3. CASE i = k + 1
      BY <2>5, <3>2, <3>3
    <3>4. CASE i # k + 1
      <4>1. i <= k /\ i \in 0..n
        BY <2>2, <2>6, <3>4
      <4>. QED BY <2>3, <2>5, <3>2, <3>4, <4>1
    <3>. QED BY <3>3, <3>4
  <2>7. Upto(k + 1, g)
    <3> HIDE DEF g
    <3>. QED BY <2>5, <2>6
  <2>. QED BY <2>7
<1>3. T = Nat
  <2> HIDE DEF T
  <2>1. T \in SUBSET Nat
    BY DEF T
  <2>. QED BY <1>1, <1>2, <2>1, NatSets
<1>4. \E f : Upto(n, f)
  <2>1. n \in T
    BY <1>3
  <2> HIDE DEF Upto
  <2>. QED BY <2>1
<1>5. PICK f : Upto(n, f)
  BY <1>4
<1>. QED BY <1>5 DEF Filled

\* Texts are joined in any order.
Joined(a, b, c) == (a \o b) \o c = a \o (b \o c)

\* Three sequences are joined the same way from either side.
LEMMA Joins ==
    ASSUME NEW S, NEW a \in Seq(S), NEW b \in Seq(S), NEW c \in Seq(S)
    PROVE  Joined(a, b, c)
BY ConcatAssociative DEF Joined

\* The texts of a sequence of texts, one after the other
FlatTable(S, s, f) ==
    /\ f \in [0..Len(s) -> Seq(S)] /\ f[0] = << >>
    /\ \A i \in 1..Len(s) : f[i] = f[i - 1] \o s[i]

\* There is such a table.
LEMMA FlatExists ==
    ASSUME NEW S, NEW s \in Seq(Seq(S))
    PROVE  \E f : FlatTable(S, s, f)
<1> DEFINE n == Len(s)
           X == Seq(S)
           H == [z \in (1..n) \X X |-> z[2] \o s[z[1]]]
           pr == [i \in 1..n |-> i - 1]
<1>1. n \in Nat /\ << >> \in X /\ \A i \in 1..n : s[i] \in X
  OBVIOUS
<1>2. H \in [(1..n) \X X -> X]
  <2>1. \A z \in (1..n) \X X : z[2] \o s[z[1]] \in X
    <3>1. \A i \in 1..n, x \in Seq(S) : x \o s[i] \in Seq(S)
      BY <1>1, ConcatProperties
    <3>. QED BY <3>1
  <2>. QED BY <2>1
<1>3. pr \in [1..n -> Nat] /\ \A i \in 1..n : pr[i] < i
  OBVIOUS
<1>4. \A i \in 1..n, x \in X : H[<<i, x>>] = x \o s[i]
  OBVIOUS
<1>5. \A i \in 1..n : pr[i] = i - 1
  OBVIOUS
<1> HIDE DEF n, X, H, pr
<1>6. PICK f : Filled(n, X, << >>, H, pr, f)
  BY <1>1, <1>2, <1>3, FromBelow
<1>7. f \in [0..n -> X] /\ f[0] = << >> /\ \A i \in 1..n : f[i] = H[<<i, f[pr[i]]>>]
  BY <1>6 DEF Filled
<1>8. \A i \in 1..n : f[i] = f[i - 1] \o s[i]
  <2>1. \A i \in 1..n : i - 1 \in 0..n
    BY <1>1
  <2>. QED BY <1>4, <1>5, <1>7, <2>1
<1>9. FlatTable(S, s, f)
  BY <1>7, <1>8 DEF FlatTable, n, X
<1>. QED BY <1>9

\* FlattenSeq is the last entry of the table.
LEMMA FlatOf ==
    ASSUME NEW S, NEW s \in Seq(Seq(S)), NEW f, FlatTable(S, s, f)
    PROVE  FlattenSeq(s) = f[Len(s)] /\ FlattenSeq(s) \in Seq(S)
<1>1. /\ f \in [0..Len(s) -> Seq(S)] /\ f[0] = << >>
      /\ \A i \in 1..Len(s) : f[i] = f[i - 1] \o s[i]
  BY DEF FlatTable
<1>2. Len(s) \in Nat /\ f[Len(s)] \in Seq(S)
  BY <1>1
<1>3. CASE Len(s) = 0
  <2>1. s = << >> /\ FlattenSeq(s) = s
    BY <1>3 DEF FlattenSeq
  <2>. QED BY <1>1, <1>3, <2>1
<1>4. CASE Len(s) # 0
  <2> DEFINE Is(h) == h = [i \in 1..Len(s) |-> IF i = 1 THEN s[i] ELSE h[i - 1] \o s[i]]
             h == CHOOSE h : Is(h)
             g == [i \in 1..Len(s) |-> f[i]]
  <2>1. FlattenSeq(s) = h[Len(s)]
    BY <1>4 DEF FlattenSeq
  <2>2. Is(g)
    <3>1. ASSUME NEW i \in 1..Len(s)
          PROVE  g[i] = IF i = 1 THEN s[i] ELSE g[i - 1] \o s[i]
      <4>1. CASE i = 1
        <5>1. f[1] = << >> \o s[1] /\ s[1] \in Seq(S)
          BY <1>1, <4>1
        <5>. QED BY <4>1, <5>1, ConcatEmptySeq
      <4>2. CASE i # 1
        <5>1. i - 1 \in 1..Len(s)
          BY <1>2, <4>2
        <5>. QED BY <1>1, <4>2, <5>1
      <4>. QED BY <4>1, <4>2
    <3>2. g = [i \in 1..Len(s) |-> IF i = 1 THEN s[i] ELSE g[i - 1] \o s[i]]
      BY <3>1
    <3> HIDE DEF g
    <3>. QED BY <3>2
  <2>3. Is(h)
    <3> HIDE DEF Is, g
    <3>. QED BY <2>2
  <2> HIDE DEF h, g
  <2>4. \A i \in 1..Len(s) : h[i] = IF i = 1 THEN s[i] ELSE h[i - 1] \o s[i]
    BY <2>3
  <2> DEFINE T == {i \in Nat : i + 1 <= Len(s) => h[i + 1] = f[i + 1]}
  <2>5. 0 \in T
    <3>1. 1 \in 1..Len(s) /\ s[1] \in Seq(S)
      BY <1>2, <1>4
    <3>2. h[1] = s[1]
      BY <2>4, <3>1
    <3>3. f[1] = f[0] \o s[1]
      <4>1. 1 - 1 = 0
        OBVIOUS
      <4>2. f[1] = f[1 - 1] \o s[1]
        BY <1>1, <3>1
      <4>. QED BY <4>1, <4>2
    <3>. QED BY <1>1, <3>1, <3>2, <3>3, ConcatEmptySeq
  <2>6. ASSUME NEW i \in T PROVE i + 1 \in T
    <3>1. SUFFICES ASSUME i + 2 <= Len(s) PROVE h[i + 2] = f[i + 2]
      OBVIOUS
    <3>2. PICK k : k = i + 2
      OBVIOUS
    <3>3. i \in Nat /\ k \in 1..Len(s) /\ k # 1 /\ k - 1 = i + 1 /\ i + 1 <= Len(s)
      BY <1>2, <3>1, <3>2
    <3>4. h[k - 1] = f[k - 1]
      BY <3>3
    <3>5. h[k] = h[k - 1] \o s[k]
      BY <2>4, <3>3
    <3>6. f[k] = f[k - 1] \o s[k]
      BY <1>1, <3>3
    <3>. QED BY <3>1, <3>2, <3>4, <3>5, <3>6
  <2>7. T = Nat
    <3> HIDE DEF T
    <3>1. T \in SUBSET Nat
      BY DEF T
    <3>. QED BY <2>5, <2>6, <3>1, NatSets
  <2>8. Len(s) - 1 \in Nat /\ (Len(s) - 1) + 1 = Len(s)
    BY <1>2, <1>4
  <2>9. Len(s) - 1 \in T
    BY <2>7, <2>8
  <2>10. h[Len(s)] = f[Len(s)]
    BY <1>2, <2>8, <2>9
  <2>. QED BY <1>2, <2>1, <2>10
<1>. QED BY <1>2, <1>3, <1>4

\* No texts, and one more at the end
LEMMA FlatNone == FlattenSeq(<< >>) = << >>
BY DEF FlattenSeq

\* FlattenSeq of texts with one more text at the end
LEMMA FlatAppend ==
    ASSUME NEW S, NEW s \in Seq(Seq(S)), NEW x \in Seq(S)
    PROVE  /\ FlattenSeq(s) \in Seq(S)
           /\ FlattenSeq(Append(s, x)) = FlattenSeq(s) \o x
<1>1. PICK f : FlatTable(S, s, f)
  BY FlatExists
<1>2. /\ f \in [0..Len(s) -> Seq(S)] /\ f[0] = << >>
      /\ \A i \in 1..Len(s) : f[i] = f[i - 1] \o s[i]
  BY <1>1 DEF FlatTable
<1>3. FlattenSeq(s) = f[Len(s)] /\ FlattenSeq(s) \in Seq(S)
  BY <1>1, FlatOf
<1>4. PICK t : t = Append(s, x)
  OBVIOUS
<1>5. /\ t \in Seq(Seq(S)) /\ Len(t) = Len(s) + 1 /\ Len(s) \in Nat
      /\ \A i \in 1..Len(s) : t[i] = s[i]
      /\ t[Len(s) + 1] = x
  BY <1>4
<1>6. PICK y : y = f[Len(s)] \o x
  OBVIOUS
<1>7. y \in Seq(S)
  BY <1>3, <1>6, ConcatProperties
<1> DEFINE g == [i \in 0..Len(t) |-> IF i <= Len(s) THEN f[i] ELSE y]
<1>8. g \in [0..Len(t) -> Seq(S)] /\ g[0] = << >>
  BY <1>2, <1>5, <1>7
<1>9. ASSUME NEW i \in 1..Len(t) PROVE g[i] = g[i - 1] \o t[i]
  <2>1. CASE i <= Len(s)
    <3>1. i \in 1..Len(s) /\ i - 1 \in 0..Len(s) /\ i \in 0..Len(t) /\ i - 1 \in 0..Len(t)
      BY <1>5, <2>1
    <3>2. g[i] = f[i] /\ g[i - 1] = f[i - 1]
      BY <1>5, <3>1
    <3> HIDE DEF g
    <3>. QED BY <1>2, <1>5, <3>1, <3>2
  <2>2. CASE i > Len(s)
    <3>1. i = Len(s) + 1 /\ i - 1 = Len(s) /\ i \in 0..Len(t) /\ i - 1 \in 0..Len(t)
      BY <1>5, <2>2
    <3>2. g[i] = y /\ g[i - 1] = f[Len(s)]
      BY <1>5, <3>1
    <3> HIDE DEF g
    <3>. QED BY <1>5, <1>6, <3>1, <3>2
  <2>3. i \in Nat
    OBVIOUS
  <2> HIDE DEF g
  <2>. QED BY <1>5, <2>1, <2>2, <2>3
<1>10. FlatTable(S, t, g)
  <2> HIDE DEF g
  <2>. QED BY <1>8, <1>9 DEF FlatTable
<1>11. g[Len(t)] = y
  BY <1>5
<1>12. FlattenSeq(t) = g[Len(t)]
  <2> HIDE DEF g
  <2>. QED BY <1>5, <1>10, FlatOf
<1>. QED BY <1>3, <1>4, <1>6, <1>11, <1>12

\* The first text, and those behind it
LEMMA FlatHead ==
    ASSUME NEW S, NEW s \in Seq(Seq(S)), s # << >>
    PROVE  /\ FlattenSeq(s) = s[1] \o FlattenSeq(Tail(s))
           /\ FlattenSeq(Tail(s)) \in Seq(S) /\ s[1] \in Seq(S)
<1>1. PICK t : t = Tail(s)
  OBVIOUS
<1>2. /\ t \in Seq(Seq(S)) /\ Len(s) = Len(t) + 1 /\ Len(t) \in Nat
      /\ \A i \in 1..Len(t) : t[i] = s[i + 1]
      /\ s[1] \in Seq(S)
  BY <1>1
<1>3. PICK g : FlatTable(S, t, g)
  BY <1>2, FlatExists
<1>4. /\ g \in [0..Len(t) -> Seq(S)] /\ g[0] = << >>
      /\ \A i \in 1..Len(t) : g[i] = g[i - 1] \o t[i]
  BY <1>3 DEF FlatTable
<1>5. FlattenSeq(t) = g[Len(t)] /\ FlattenSeq(t) \in Seq(S)
  BY <1>2, <1>3, FlatOf
<1> DEFINE f == [i \in 0..Len(s) |-> IF i = 0 THEN << >> ELSE s[1] \o g[i - 1]]
<1>6. f[0] = << >> /\ \A i \in 1..Len(s) : f[i] = s[1] \o g[i - 1]
  <2>1. 0 \in 0..Len(s) /\ \A i \in 1..Len(s) : i \in 0..Len(s) /\ i # 0
    BY <1>2
  <2>. QED BY <2>1
<1>7. f \in [0..Len(s) -> Seq(S)]
  <2>1. \A i \in 1..Len(s) : s[1] \o g[i - 1] \in Seq(S)
    <3>1. \A i \in 1..Len(s) : g[i - 1] \in Seq(S)
      <4>1. \A i \in 1..Len(s) : i - 1 \in 0..Len(t)
        BY <1>2
      <4>. QED BY <1>4, <4>1
    <3>. QED BY <1>2, <3>1, ConcatProperties
  <2>2. \A i \in 0..Len(s) : i = 0 \/ i \in 1..Len(s)
    BY <1>2
  <2>3. << >> \in Seq(S)
    OBVIOUS
  <2>. QED BY <2>1, <2>2, <2>3
<1> HIDE DEF f
<1>8. ASSUME NEW i \in 1..Len(s) PROVE f[i] = f[i - 1] \o s[i]
  <2>1. CASE i = 1
    <3>0. 1 \in 1..Len(s) /\ i - 1 = 0
      BY <1>2, <2>1
    <3>1. f[1] = s[1] \o g[0]
      <4>1. f[1] = s[1] \o g[1 - 1]
        BY <1>6, <3>0
      <4>. QED BY <4>1
    <3>2. f[i - 1] = << >>
      BY <1>6, <3>0
    <3>. QED BY <1>2, <1>4, <2>1, <3>1, <3>2, ConcatEmptySeq
  <2>2. CASE i # 1
    <3>1. PICK k : k = i - 1
      OBVIOUS
    <3>2. k \in 1..Len(t) /\ k \in 1..Len(s) /\ k + 1 = i /\ k - 1 \in 0..Len(t) /\ k \in 0..Len(t)
      BY <1>2, <2>2, <3>1
    <3>3. g[k] = g[k - 1] \o t[k] /\ t[k] = s[i]
      BY <1>2, <1>4, <3>2
    <3>4. f[i] = s[1] \o g[k] /\ f[k] = s[1] \o g[k - 1]
      BY <1>6, <3>1, <3>2
    <3>5. PICK x : x = g[k - 1]
      OBVIOUS
    <3>6. PICK y : y = s[i]
      OBVIOUS
    <3>7. x \in Seq(S) /\ y \in Seq(S)
      <4>1. x \in Seq(S)
        BY <1>4, <3>2, <3>5
      <4>2. y \in Seq(S)
        BY <3>6
      <4>. QED BY <4>1, <4>2
    <3>8. PICK z : z = s[1]
      OBVIOUS
    <3>9. z \o (x \o y) = (z \o x) \o y
      <4>1. z \in Seq(S)
        BY <1>2, <3>8
      <4>2. Joined(z, x, y)
        BY <3>7, <4>1, Joins
      <4>. QED BY <4>2 DEF Joined
    <3>. QED BY <3>1, <3>3, <3>4, <3>5, <3>6, <3>8, <3>9
  <2>. QED BY <2>1, <2>2
<1>9. FlatTable(S, s, f)
  BY <1>6, <1>7, <1>8 DEF FlatTable
<1>10. FlattenSeq(s) = f[Len(s)]
  BY <1>9, FlatOf
<1>11. Len(s) \in 1..Len(s) /\ Len(s) - 1 = Len(t)
  BY <1>2
<1>12. f[Len(s)] = s[1] \o g[Len(t)]
  BY <1>6, <1>11
<1>. QED BY <1>1, <1>2, <1>5, <1>10, <1>12

-----------------------------------------------------------------------------
(* Texts of strings: CStrings. *)

\* What a string should read as
Promised == Words \cup {<< >>, UNKNOWN}

\* A string whose length is not 0 owns its block, if it has one.
Owns(s, b) == IsOpen(s) /\ struct[s].data = b /\ struct[s].length # 0

\* A string that owes its reader a text has that text, in a block of its own
\* or, if it is empty, in the literal.
HasText(s) ==
    given[s] # UNKNOWN =>
        /\ IsOpen(s) /\ struct[s].length = Len(given[s])
        /\ IF given[s] = << >> THEN struct[s].data = LITERAL
           ELSE struct[s].data \in Blocks /\ texts[struct[s].data] = given[s]

\* What an open string that is not empty or cleared has
HasBlock(s) ==
    IsOpen(s) /\ struct[s].length # 0 =>
        \/ /\ struct[s].data = NOWHERE
           /\ struct[s].length < 0
        \/ /\ struct[s].data \in Blocks
           /\ given[s] = UNKNOWN => texts[struct[s].data] = UNKNOWN

StringTypes ==
    /\ struct \in [Strings -> StringStruct \cup {NOWHERE}]
    /\ texts \in [Blocks -> Words \cup {UNKNOWN, NOWHERE}]
    /\ given \in [Strings -> Promised]

StrInv ==
    /\ StringTypes
    /\ \A b \in Blocks : texts[b] # NOWHERE <=> \E s \in Strings : Owns(s, b)
    /\ \A b \in Blocks, s, t \in Strings : Owns(s, b) /\ Owns(t, b) => s = t
    /\ \A s \in Strings : HasText(s) /\ HasBlock(s)

\* Texts are told apart from the marks that stand for none.
LEMMA Marks ==
    /\ \A t \in Words : t \in Seq(Int) /\ Len(t) \in Nat \ {0} /\ t # UNKNOWN /\ t # NOWHERE
    /\ << >> # UNKNOWN /\ << >> # NOWHERE /\ NOWHERE # UNKNOWN /\ << >> \notin Words
    /\ NOWHERE \notin Blocks /\ LITERAL \notin Blocks /\ LITERAL # NOWHERE
    /\ NOWHERE \notin StringStruct
<1>1. \A t \in Words : t \in Seq(Int \ {0}) /\ t # << >>
  BY StringsAssumption
<1>2. \A t \in Seq(Int \ {0}) : t \in Seq(Int)
  OBVIOUS
<1>3. \A t \in Seq(Int) : t # << >> => Len(t) \in Nat \ {0}
  OBVIOUS
<1>4. << >> \in Seq(Int)
  OBVIOUS
<1> QED
  BY <1>1, <1>2, <1>3, <1>4, StringsAssumption

\* A step changes one string s to c, and takes the block it owned from it; what s
\* gets is a free block or none.
LEMMA OneChanges ==
    ASSUME StrInv, NEW s \in Strings, NEW c \in StringStruct \cup {NOWHERE}, NEW t \in Promised,
           struct' = [struct EXCEPT ![s] = c], given' = [given EXCEPT ![s] = t],
           texts' \in [Blocks -> Words \cup {UNKNOWN, NOWHERE}],
           \A b \in Blocks : ~Owns(s, b) /\ texts'[b] # texts[b] => texts[b] = NOWHERE,
           \A b \in Blocks :
              (c # NOWHERE /\ c.data = b /\ c.length # 0) =>
                 (texts[b] = NOWHERE \/ Owns(s, b)) /\ texts'[b] # NOWHERE,
           \A b \in Blocks :
              ~(c # NOWHERE /\ c.data = b /\ c.length # 0) =>
                 texts'[b] = IF Owns(s, b) THEN NOWHERE ELSE texts[b],
           HasText(s)', HasBlock(s)'
    PROVE  StrInv'
<1>1. struct'[s] = c /\ given'[s] = t /\ \A u \in Strings \ {s} : struct'[u] = struct[u] /\ given'[u] = given[u]
  BY DEF StrInv, StringTypes
<1>2. StringTypes'
  BY DEF StrInv, StringTypes
<1>3. \A u \in Strings \ {s}, b \in Blocks : Owns(u, b)' <=> Owns(u, b)
  BY <1>1 DEF Owns, IsOpen
<1>4. \A b \in Blocks : Owns(s, b)' <=> c # NOWHERE /\ c.data = b /\ c.length # 0
  BY <1>1 DEF Owns, IsOpen
<1>5. \A b \in Blocks, u \in Strings \ {s} : Owns(u, b) => ~Owns(s, b) /\ texts[b] # NOWHERE
  BY DEF StrInv
<1>6. \A b \in Blocks : Owns(s, b)' => (texts[b] = NOWHERE \/ Owns(s, b)) /\ texts'[b] # NOWHERE
  BY <1>4
<1>7. \A b \in Blocks, u \in Strings \ {s} : Owns(u, b) => ~Owns(s, b)' /\ texts'[b] = texts[b]
  BY <1>4, <1>5, <1>6
<1>8. \A b \in Blocks, u, v \in Strings : Owns(u, b)' /\ Owns(v, b)' => u = v
  <2>1. SUFFICES ASSUME NEW b \in Blocks, NEW u \in Strings, NEW v \in Strings,
                        Owns(u, b)', Owns(v, b)', u # v
                 PROVE  FALSE
    OBVIOUS
  <2>2. CASE u # s /\ v # s
    BY <1>3, <2>1, <2>2 DEF StrInv
  <2>3. CASE u = s \/ v = s
    BY <1>3, <1>7, <2>1, <2>3
  <2> QED
    BY <2>2, <2>3
<1>9. ASSUME NEW b \in Blocks
      PROVE  texts'[b] # NOWHERE <=> \E u \in Strings : Owns(u, b)'
  <2>1. CASE Owns(s, b)'
    BY <1>6, <2>1
  <2>2. CASE ~Owns(s, b)'
    <3>1. texts'[b] = IF Owns(s, b) THEN NOWHERE ELSE texts[b]
      BY <1>4, <2>2
    <3>2. texts'[b] # NOWHERE <=> \E u \in Strings \ {s} : Owns(u, b)
      BY <1>5, <3>1 DEF StrInv
    <3> QED
      BY <1>3, <2>2, <3>2
  <2> QED
    BY <2>1, <2>2
<1>10. ASSUME NEW u \in Strings
       PROVE  HasText(u)' /\ HasBlock(u)'
  <2>1. CASE u = s
    BY <2>1
  <2>2. CASE u # s
    <3>1. struct'[u] = struct[u] /\ given'[u] = given[u]
      BY <1>1, <2>2
    <3>2. HasText(u) /\ HasBlock(u)
      BY DEF StrInv
    <3>3. IsOpen(u)' <=> IsOpen(u)
      BY <3>1 DEF IsOpen
    <3>4. IsOpen(u) /\ struct[u].length # 0 /\ struct[u].data \in Blocks =>
             texts'[struct[u].data] = texts[struct[u].data]
      BY <1>7, <2>2 DEF Owns
    <3>5. HasBlock(u)'
      BY <3>1, <3>2, <3>3, <3>4 DEF HasBlock
    <3>6. given[u] # UNKNOWN /\ given[u] # << >> => Len(given[u]) # 0
      BY Marks DEF StrInv, StringTypes, Promised
    <3>7. HasText(u)'
      BY <3>1, <3>2, <3>3, <3>4, <3>6 DEF HasText
    <3> QED
      BY <3>5, <3>7
  <2> QED
    BY <2>1, <2>2
<1> QED
  BY <1>2, <1>8, <1>9, <1>10 DEF StrInv

\* Nothing is open at first.
LEMMA StringsStart == StringsInit => StrInv
  BY Marks DEF StringsInit, StrInv, StringTypes, Promised, HasText, HasBlock, Owns, IsOpen

\* The texts once the block of s is free
Lost(s, T) ==
    /\ T \in [Blocks -> Words \cup {UNKNOWN, NOWHERE}]
    /\ \A d \in Blocks : T[d] = IF Owns(s, d) THEN NOWHERE ELSE texts[d]

\* Deleting the data of a string that is not empty frees its block, and no other.
LEMMA DataFreed ==
    ASSUME StrInv, NEW s \in Strings
    PROVE  /\ IsOpen(s) => Lost(s, Released(Freed(s)))
           /\ ~IsOpen(s) => Lost(s, texts)
<1>1. IsOpen(s) => \A d \in Blocks : d \in Freed(s) <=> Owns(s, d)
  BY DEF Freed, Owns
<1>2. \A d \in Blocks : texts[d] \in Words \cup {UNKNOWN, NOWHERE}
  BY DEF StrInv, StringTypes
<1>3. IsOpen(s) => Lost(s, Released(Freed(s)))
  BY <1>1, <1>2 DEF Released, Lost
<1>4. ~IsOpen(s) => \A d \in Blocks : ~Owns(s, d)
  BY DEF Owns
<1>5. ~IsOpen(s) => Lost(s, texts)
  BY <1>4 DEF Lost, StrInv, StringTypes
<1> QED
  BY <1>3, <1>5

\* A string gets a text t in a block that is free or was its own.
LEMMA GetsText ==
    ASSUME StrInv, NEW s \in Strings, NEW t \in Words \cup {UNKNOWN}, NEW n \in Int,
           t # UNKNOWN => n = Len(t), n # 0, NEW T, Lost(s, T), NewText(s, T, t, n)
    PROVE  StrInv'
<1>1. PICK b \in FreeIn(T) :
        /\ texts' = [T EXCEPT ![b] = t]
        /\ Becomes(s, Struct(b, n), t)
  BY DEF NewText
<1>3. b \in Blocks /\ (texts[b] = NOWHERE \/ Owns(s, b))
  BY <1>1 DEF FreeIn, Lost
<1>4. /\ texts' \in [Blocks -> Words \cup {UNKNOWN, NOWHERE}] /\ texts'[b] = t
      /\ \A d \in Blocks \ {b} : texts'[d] = IF Owns(s, d) THEN NOWHERE ELSE texts[d]
  BY <1>1, <1>3 DEF Lost
<1>5. PICK c : c = Struct(b, n)
  OBVIOUS
<1>6. c \in StringStruct /\ c.data = b /\ c.length = n /\ c # NOWHERE
  BY <1>3, <1>5, Marks DEF Struct, StringStruct
<1>7. struct' = [struct EXCEPT ![s] = c] /\ given' = [given EXCEPT ![s] = t]
  BY <1>1, <1>5 DEF Becomes
<1>8. struct'[s] = c /\ given'[s] = t
  BY <1>7 DEF StrInv, StringTypes
<1>9. t # NOWHERE /\ t # << >> /\ t \in Promised
  BY Marks DEF Promised
<1>10. HasText(s)' /\ HasBlock(s)'
  BY <1>3, <1>4, <1>6, <1>8, <1>9 DEF HasText, HasBlock, IsOpen
<1>11. \A d \in Blocks : ~Owns(s, d) /\ texts'[d] # texts[d] => texts[d] = NOWHERE
  BY <1>3, <1>4
<1>12. \A d \in Blocks : (c # NOWHERE /\ c.data = d /\ c.length # 0) =>
                           (texts[d] = NOWHERE \/ Owns(s, d)) /\ texts'[d] # NOWHERE
  BY <1>3, <1>4, <1>6, <1>9
<1>13. \A d \in Blocks : ~(c # NOWHERE /\ c.data = d /\ c.length # 0) =>
                           texts'[d] = IF Owns(s, d) THEN NOWHERE ELSE texts[d]
  BY <1>4, <1>6
<1> QED
  BY <1>4, <1>6, <1>7, <1>9, <1>10, <1>11, <1>12, <1>13, OneChanges

\* A string loses its text.
LEMMA LosesText ==
    ASSUME StrInv, NEW s \in Strings, NEW c \in StringStruct \cup {NOWHERE}, NEW t \in {<< >>, UNKNOWN},
           c # NOWHERE => c.length = 0 \/ (c.data = NOWHERE /\ c.length < 0),
           t = << >> => c = Empty, Becomes(s, c, t), Lost(s, texts')
    PROVE  StrInv'
<1>1. struct' = [struct EXCEPT ![s] = c] /\ given' = [given EXCEPT ![s] = t]
  BY DEF Becomes
<1>2. struct'[s] = c /\ given'[s] = t /\ t \in Promised
  BY <1>1 DEF StrInv, StringTypes, Promised
<1>3. Empty.length = 0 /\ Empty.data = LITERAL /\ Empty \in StringStruct /\ Len(<< >>) = 0
  BY DEF Empty, Struct, StringStruct
<1>4. HasText(s)' /\ HasBlock(s)'
  BY <1>2, <1>3, Marks DEF HasText, HasBlock, IsOpen
<1>5. \A d \in Blocks : ~(c # NOWHERE /\ c.data = d /\ c.length # 0)
  BY Marks
<1>6. /\ texts' \in [Blocks -> Words \cup {UNKNOWN, NOWHERE}]
      /\ \A d \in Blocks : texts'[d] = IF Owns(s, d) THEN NOWHERE ELSE texts[d]
  BY DEF Lost
<1> QED
  BY <1>1, <1>2, <1>4, <1>5, <1>6, OneChanges

\* Every call on a string keeps the invariant.
LEMMA StringsKeep == StrInv /\ [StringsNext]_stringVars => StrInv'
<1> SUFFICES ASSUME StrInv, StringsNext PROVE StrInv'
  BY DEF stringVars, StrInv, StringTypes, Owns, HasText, HasBlock, IsOpen
<1>1. PICK s \in Strings :
        \/ OpenEmpty(s) \/ Close(s) \/ Clear(s)
        \/ \E t \in Words : OpenWithData(s, t) \/ OpenWithFormat(s, t) \/ OpenWithLongFormat(s, t)
        \/ \E src \in Strings : Copy(s, src)
  BY DEF StringsNext
<1>2. struct[s] \in StringStruct \cup {NOWHERE} /\ (IsOpen(s) => struct[s] \in StringStruct)
  BY DEF StrInv, StringTypes, IsOpen
<1>3. Empty \in StringStruct /\ Empty.length = 0
  BY DEF Empty, Struct, StringStruct
<1>4. CASE OpenEmpty(s)
  <2>1. Lost(s, texts') /\ Becomes(s, Empty, << >>)
    BY <1>4, DataFreed DEF OpenEmpty
  <2> QED
    BY <1>3, <2>1, LosesText
<1>5. CASE Close(s)
  <2>1. Lost(s, texts') /\ Becomes(s, NOWHERE, UNKNOWN)
    BY <1>5, DataFreed DEF Close
  <2> QED
    BY <2>1, Marks, LosesText
<1>6. CASE Clear(s)
  <2>1. Lost(s, texts') /\ Becomes(s, [struct[s] EXCEPT !.length = 0], UNKNOWN)
    BY <1>6, DataFreed DEF Clear
  <2>2. PICK c : c = [struct[s] EXCEPT !.length = 0]
    OBVIOUS
  <2>3. c \in StringStruct /\ c.length = 0
    BY <1>2, <1>6, <2>2 DEF Clear, StringStruct
  <2> QED
    BY <2>1, <2>2, <2>3, Marks, LosesText
<1>7. ASSUME NEW t \in Words, OpenWithData(s, t)
      PROVE  StrInv'
  <2>1. Lost(s, texts) /\ NewText(s, texts, t, Len(t)) /\ Len(t) \in Int /\ Len(t) # 0
    BY <1>7, DataFreed, Marks DEF OpenWithData
  <2> QED
    BY <2>1, GetsText
<1>8. ASSUME NEW t \in Words, OpenWithFormat(s, t)
      PROVE  StrInv'
  <2>1. PICK u : u = IF Len(t) + 1 > TempLength THEN UNKNOWN ELSE t
    OBVIOUS
  <2>2. Lost(s, texts) /\ NewText(s, texts, u, Len(t)) /\ Len(t) \in Int /\ Len(t) # 0
    BY <1>8, <2>1, DataFreed, Marks DEF OpenWithFormat
  <2>3. u \in Words \cup {UNKNOWN} /\ (u # UNKNOWN => Len(t) = Len(u))
    BY <2>1
  <2> QED
    BY <2>2, <2>3, GetsText
<1>9. ASSUME NEW t \in Words, OpenWithLongFormat(s, t)
      PROVE  StrInv'
  <2>1. Lost(s, texts') /\ Becomes(s, Struct(NOWHERE, -1), UNKNOWN)
    BY <1>9, DataFreed DEF OpenWithLongFormat
  <2>2. PICK c : c = Struct(NOWHERE, -1)
    OBVIOUS
  <2>3. c \in StringStruct /\ c.data = NOWHERE /\ c.length = -1
    BY <2>2 DEF Struct, StringStruct
  <2> QED
    BY <2>1, <2>2, <2>3, Marks, LosesText
<1>10. ASSUME NEW src \in Strings, Copy(s, src)
       PROVE  StrInv'
  <2>1. IsOpen(s) /\ IsOpen(src) /\ s # src /\ Lost(s, Released(Freed(s)))
    BY <1>10, DataFreed DEF Copy
  <2>2. CASE struct[src].length = 0
    <3>1. texts' = Released(Freed(s)) /\ Becomes(s, Empty, << >>)
      BY <1>10, <2>2 DEF Copy
    <3> QED
      BY <1>3, <2>1, <3>1, LosesText
  <2>3. CASE struct[src].length # 0
    <3>1. PICK u : u = IF struct[src].length < 0 THEN UNKNOWN ELSE texts[struct[src].data]
      OBVIOUS
    <3>2. NewText(s, Released(Freed(s)), u, struct[src].length)
      BY <1>10, <2>3, <3>1 DEF Copy
    <3>3. struct[src].length \in Int
      BY <2>1 DEF StrInv, StringTypes, IsOpen, StringStruct
    <3>4. HasText(src) /\ HasBlock(src)
      BY DEF StrInv
    <3>5. u \in Words \cup {UNKNOWN} /\ (u # UNKNOWN => struct[src].length = Len(u))
      <4>1. CASE struct[src].length < 0
        BY <3>1, <4>1
      <4>2. CASE ~(struct[src].length < 0)
        <5>1. u = texts[struct[src].data] /\ struct[src].data \in Blocks
          BY <2>1, <2>3, <3>1, <3>4, <4>2 DEF HasBlock
        <5>2. given[src] = UNKNOWN => u = UNKNOWN
          BY <2>1, <2>3, <3>4, <4>2, <5>1, Marks DEF HasBlock
        <5>3. given[src] # UNKNOWN => u = given[src] /\ struct[src].length = Len(u)
          BY <3>4, <5>1, Marks DEF HasText
        <5>4. given[src] \in Words \cup {<< >>, UNKNOWN} /\ u # << >>
          BY <5>1, Marks DEF StrInv, StringTypes, Promised
        <5> QED
          BY <5>2, <5>3, <5>4
      <4> QED
        BY <4>1, <4>2
    <3> QED
      BY <2>1, <2>3, <3>2, <3>3, <3>5, GetsText
  <2> QED
    BY <2>2, <2>3
<1> QED
  BY <1>1, <1>4, <1>5, <1>6, <1>7, <1>8, <1>9, <1>10

\* The comparison looks at the first n + 1 characters, the terminator included:
\* it finds two texts equal just when they are, if n is the length of the shorter.
LEMMA ComparesWhole ==
    ASSUME NEW g \in Seq(Int), NEW h \in Seq(Int), Len(g) <= Len(h),
           \A i \in 1 .. Len(h) : h[i] # 0
    PROVE  SubSeq(Append(g, 0), 1, Len(g) + 1) = SubSeq(Append(h, 0), 1, Len(g) + 1) <=> g = h
<1> DEFINE n == Len(g)
           a == Append(g, 0)
           b == Append(h, 0)
<1>1. /\ a \in Seq(Int) /\ b \in Seq(Int) /\ n \in Nat /\ Len(a) = n + 1 /\ Len(b) = Len(h) + 1
      /\ Len(h) \in Nat /\ a[n + 1] = 0
      /\ \A i \in 1 .. n : a[i] = g[i]
      /\ \A i \in 1 .. Len(h) : b[i] = h[i]
  OBVIOUS
<1> HIDE DEF a, b
<1>2. SUFFICES ASSUME SubSeq(a, 1, n + 1) = SubSeq(b, 1, n + 1)
               PROVE  g = h
  BY DEF a, b
<1>3. \A i \in 1 .. n + 1 : SubSeq(a, 1, n + 1)[i] = a[i] /\ SubSeq(b, 1, n + 1)[i] = b[i]
  BY <1>1
<1>4. \A i \in 1 .. n + 1 : a[i] = b[i]
  BY <1>2, <1>3
<1>5. Len(h) = n
  <2>1. SUFFICES ASSUME n < Len(h) PROVE FALSE
    BY <1>1
  <2>2. n + 1 \in 1 .. Len(h) /\ n + 1 \in 1 .. n + 1
    BY <1>1, <2>1
  <2> QED
    BY <1>1, <1>4, <2>2
<1>6. \A i \in 1 .. n : g[i] = h[i]
  BY <1>1, <1>4, <1>5
<1>7. Len(g) = Len(h) /\ \A i \in 1 .. Len(g) : g[i] = h[i]
  BY <1>5, <1>6
<1> QED
  BY <1>7

\* A promised text is read back, and has no terminator inside.
LEMMA ReadsBack ==
    ASSUME StrInv, NEW s \in Strings, given[s] # UNKNOWN
    PROVE  /\ Read(s) = given[s] /\ given[s] \in Seq(Int) /\ struct[s].length = Len(given[s])
           /\ \A i \in 1 .. Len(given[s]) : given[s][i] # 0
<1>1. HasText(s) /\ given[s] \in Words \cup {<< >>}
  BY DEF StrInv, StringTypes, Promised
<1>2. given[s] \in Seq(Int \ {0})
  <2>1. << >> \in Seq(Int \ {0})
    OBVIOUS
  <2> QED
    BY <1>1, <2>1, StringsAssumption
<1>3. given[s] \in Seq(Int) /\ \A i \in 1 .. Len(given[s]) : given[s][i] # 0
  BY <1>2
<1>4. Read(s) = given[s] /\ struct[s].length = Len(given[s])
  BY <1>1, Marks DEF HasText, Read
<1> QED
  BY <1>3, <1>4

\* wstring_cmp is right about promised texts.
LEMMA ComparesTexts ==
    ASSUME StrInv, NEW s \in Strings, NEW t \in Strings, given[s] # UNKNOWN, given[t] # UNKNOWN
    PROVE  Same(s, t) <=> given[s] = given[t]
<1> DEFINE g == given[s]
           h == given[t]
<1>1. /\ Read(s) = g /\ g \in Seq(Int) /\ struct[s].length = Len(g)
      /\ \A i \in 1 .. Len(g) : g[i] # 0
  BY ReadsBack
<1>2. /\ Read(t) = h /\ h \in Seq(Int) /\ struct[t].length = Len(h)
      /\ \A i \in 1 .. Len(h) : h[i] # 0
  BY ReadsBack
<1> HIDE DEF g, h
<1>3. Same(s, t) <=> LET n == IF Len(g) < Len(h) THEN Len(g) ELSE Len(h)
                     IN  SubSeq(Append(g, 0), 1, n + 1) = SubSeq(Append(h, 0), 1, n + 1)
  BY <1>1, <1>2 DEF Same, Seen
<1>4. Len(g) \in Nat /\ Len(h) \in Nat
  BY <1>1, <1>2
<1>5. CASE Len(g) <= Len(h)
  <2>1. SubSeq(Append(g, 0), 1, Len(g) + 1) = SubSeq(Append(h, 0), 1, Len(g) + 1) <=> g = h
    BY <1>1, <1>2, <1>5, ComparesWhole
  <2>2. (IF Len(g) < Len(h) THEN Len(g) ELSE Len(h)) = Len(g)
    BY <1>4, <1>5
  <2> QED
    BY <1>3, <2>1, <2>2 DEF g, h
<1>6. CASE Len(h) < Len(g)
  <2>1. SubSeq(Append(h, 0), 1, Len(h) + 1) = SubSeq(Append(g, 0), 1, Len(h) + 1) <=> h = g
    BY <1>1, <1>2, <1>4, <1>6, ComparesWhole
  <2>2. (IF Len(g) < Len(h) THEN Len(g) ELSE Len(h)) = Len(h)
    BY <1>4, <1>6
  <2> QED
    BY <1>3, <2>1, <2>2 DEF g, h
<1> QED
  BY <1>4, <1>5, <1>6

\* After every series of calls of wstring.c a block of text belongs to one
\* string, and a string that was given a text reads and compares as that text.
THEOREM TextsStayKept == StringsSpec => []TextsKept
<1>1. StrInv => TextsKept
  <2> SUFFICES ASSUME StrInv PROVE TextsKept
    OBVIOUS
  <2>1. \A b \in Blocks, s \in Strings : s \in Owners(b) <=> Owns(s, b)
    BY DEF Owners, Owns
  <2>2. \A b \in Blocks : Owners(b) \subseteq Strings
    BY DEF Owners
  <2>3. \A b \in Blocks : texts[b] # NOWHERE <=> Owners(b) # {}
    BY <2>1, <2>2 DEF StrInv
  <2>4. \A b \in Blocks, s, t \in Strings : {s, t} \subseteq Owners(b) => s = t
    BY <2>1 DEF StrInv
  <2>5. \A s \in Strings : given[s] # UNKNOWN =>
          /\ Read(s) = given[s]
          /\ \A t \in Strings : given[t] # UNKNOWN => (Same(s, t) <=> given[s] = given[t])
    BY ReadsBack, ComparesTexts
  <2> QED
    BY <2>3, <2>4, <2>5 DEF TextsKept
<1> QED
  BY <1>1, StringsStart, StringsKeep, PTL DEF StringsSpec

-----------------------------------------------------------------------------
(* Loops, branches and labels: CrbLoops. *)

ResultType == [type : {"normal", "break", "continue", "return"}, label : Labels \cup {UNLABELED}]
Places == {"next", "condition", "body", "post", "if", "branch", "elif", "elif ran"}
FunctionType == [op : Loops \cup {"list", "if", "call"}, label : Labels \cup {UNLABELED},
                 at : Places, ran : BOOLEAN, saved : ResultType \X Nat]

\* A function that runs a list of statements, a list at one of its statements,
\* and a function where an expression may call.
Runs(f) ==
    \/ f.op \in Loops /\ f.at = "body"
    \/ f.op = "if" /\ f.at \in {"branch", "elif ran"}
    \/ f.op = "call" /\ f.at = "body"
Listing(f) == f.op = "list" /\ f.at = "next"
BetweenRounds(f) == f.op \in Loops /\ f.at \in {"condition", "post"}
Evaluates(f) == Listing(f) \/ BetweenRounds(f) \/ (f.op = "if" /\ f.at = "if")
Known(f) == Runs(f) \/ Evaluates(f) \/ (f.op = "if" /\ f.at = "elif")

\* Where function f waits for one with operation op
WaitsFor(f, op) ==
    /\ op = "list" => Runs(f)
    /\ op \in Loops \cup {"if"} => Listing(f)
    /\ op = "call" => Evaluates(f)

Stacked(c) ==
    /\ c \in Seq(FunctionType)
    /\ \A i \in 1 .. Len(c) : Known(c[i])
    /\ c # << >> => c[1].op = "list"
    /\ \A i \in 1 .. Len(c) - 1 : WaitsFor(c[i], c[i + 1].op)

\* A jump of this type and label may be meant for f.
Meant(f, type, label) ==
    \/ f.op = "call"
    \/ type # "return" /\ f.op \in Loops /\ label \in {UNLABELED, f.label}

\* Of the first n functions, a is the innermost the jump is meant for.
IsAim(c, n, type, label, a) ==
    /\ a \in 0 .. n
    /\ a # 0 => Meant(c[a], type, label)
    /\ \A i \in 1 .. n : Meant(c[i], type, label) => i <= a

\* A result r can be what the n-th function, the innermost, has: a jump on its way
\* is where a list returns to, and has passed nothing it is meant for. A continue
\* an inner loop did not take may wait for the next round.
Settled(c, n, r, a) ==
    /\ r \in ResultType /\ a \in Nat
    /\ n > 0 /\ r.type \in {"break", "return"} => Runs(c[n]) \/ Listing(c[n])
    /\ n > 0 /\ r.type = "continue" =>
          \/ Runs(c[n]) \/ Listing(c[n])
          \/ BetweenRounds(c[n]) /\ ~Meant(c[n], "continue", r.label)
    /\ r.type # "normal" => IsAim(c, n, r.type, r.label, a)

\* What each call saved was settled before it.
CallsSettled(c) ==
    \A i \in 1 .. Len(c) :
        c[i].op = "call" => Settled(c, i - 1, c[i].saved[1], c[i].saved[2])

LInv == Stacked(ctl) /\ CallsSettled(ctl) /\ Settled(ctl, Len(ctl), result, aim)

\* What is settled depends on the functions up to there only.
LEMMA SettledUpTo ==
    ASSUME NEW c, NEW d, NEW n \in Nat, NEW r, NEW a, Settled(c, n, r, a),
           \A i \in 1 .. n : d[i] = c[i]
    PROVE  Settled(d, n, r, a)
<1>1. n > 0 => d[n] = c[n]
  OBVIOUS
<1>2. IsAim(c, n, r.type, r.label, a) => IsAim(d, n, r.type, r.label, a)
  BY DEF IsAim
<1> QED
  BY <1>1, <1>2 DEF Settled

\* A function whose kind, label and saved result stay may change its place.
Alike(f, g) == g.op = f.op /\ g.label = f.label /\ g.saved = f.saved

\* The innermost function f becomes g, which is at a place from which it runs a
\* list, or goes on.
LEMMA Changed ==
    ASSUME NEW c, Stacked(c), CallsSettled(c), NEW n \in Nat, n = Len(c), n > 0,
           NEW g \in FunctionType, Alike(c[n], g), Known(g),
           NEW d, d \in Seq(FunctionType), Len(d) = n, d[n] = g,
           \A i \in 1 .. n - 1 : d[i] = c[i]
    PROVE  Stacked(d) /\ CallsSettled(d)
<1>1. \A i \in 1 .. n : Alike(c[i], d[i]) /\ Known(d[i])
  BY DEF Alike, Stacked
<1>2. d[1].op = "list"
  BY <1>1 DEF Stacked, Alike
<1>3. \A i \in 1 .. n - 1 : WaitsFor(d[i], d[i + 1].op)
  BY <1>1 DEF Stacked, Alike
<1>4. ASSUME NEW i \in 1 .. n, d[i].op = "call"
      PROVE  Settled(d, i - 1, d[i].saved[1], d[i].saved[2])
  <2>1. Settled(c, i - 1, d[i].saved[1], d[i].saved[2])
    BY <1>1, <1>4 DEF Alike, CallsSettled
  <2>2. i - 1 \in Nat /\ \A j \in 1 .. i - 1 : d[j] = c[j]
    OBVIOUS
  <2> QED
    BY <2>1, <2>2, SettledUpTo
<1> QED
  BY <1>1, <1>2, <1>3, <1>4 DEF Stacked, CallsSettled

\* A function g is called by the innermost one.
LEMMA Pushed ==
    ASSUME NEW c, Stacked(c), CallsSettled(c), NEW n \in Nat, n = Len(c), n > 0,
           NEW g \in FunctionType, Known(g), WaitsFor(c[n], g.op),
           g.op = "call" => Settled(c, n, g.saved[1], g.saved[2])
    PROVE  /\ Stacked(Append(c, g)) /\ CallsSettled(Append(c, g))
           /\ Len(Append(c, g)) = n + 1 /\ Append(c, g)[n + 1] = g
<1> DEFINE d == Append(c, g)
<1>1. /\ d \in Seq(FunctionType) /\ Len(d) = n + 1 /\ d[n + 1] = g
      /\ \A i \in 1 .. n : d[i] = c[i]
  BY DEF Stacked
<1> HIDE DEF d
<1>2. \A i \in 1 .. n + 1 : Known(d[i])
  BY <1>1 DEF Stacked
<1>3. d[1].op = "list"
  BY <1>1 DEF Stacked
<1>4. \A i \in 1 .. n : WaitsFor(d[i], d[i + 1].op)
  BY <1>1 DEF Stacked
<1>5. ASSUME NEW i \in 1 .. n + 1, d[i].op = "call"
      PROVE  Settled(d, i - 1, d[i].saved[1], d[i].saved[2])
  <2>1. Settled(c, i - 1, d[i].saved[1], d[i].saved[2])
    BY <1>1, <1>5 DEF CallsSettled
  <2>2. i - 1 \in Nat /\ \A j \in 1 .. i - 1 : d[j] = c[j]
    BY <1>1
  <2> QED
    BY <2>1, <2>2, SettledUpTo
<1>6. Stacked(d) /\ CallsSettled(d)
  BY <1>1, <1>2, <1>3, <1>4, <1>5 DEF Stacked, CallsSettled
<1> QED
  BY <1>1, <1>6 DEF d

\* The innermost function returns.
LEMMA Popped ==
    ASSUME NEW c, Stacked(c), CallsSettled(c), NEW n \in Nat, n = Len(c), n > 0
    PROVE  /\ Stacked(SubSeq(c, 1, n - 1)) /\ CallsSettled(SubSeq(c, 1, n - 1))
           /\ Len(SubSeq(c, 1, n - 1)) = n - 1
           /\ \A i \in 1 .. n - 1 : SubSeq(c, 1, n - 1)[i] = c[i]
<1> DEFINE d == SubSeq(c, 1, n - 1)
<1>1. /\ d \in Seq(FunctionType) /\ Len(d) = n - 1
      /\ \A i \in 1 .. n - 1 : d[i] = c[i]
  BY DEF Stacked
<1> HIDE DEF d
<1>2. \A i \in 1 .. n - 1 : Known(d[i])
  BY <1>1 DEF Stacked
<1>3. d # << >> => d[1].op = "list"
  BY <1>1 DEF Stacked
<1>4. \A i \in 1 .. n - 2 : WaitsFor(d[i], d[i + 1].op)
  BY <1>1 DEF Stacked
<1>5. ASSUME NEW i \in 1 .. n - 1, d[i].op = "call"
      PROVE  Settled(d, i - 1, d[i].saved[1], d[i].saved[2])
  <2>1. Settled(c, i - 1, d[i].saved[1], d[i].saved[2])
    BY <1>1, <1>5 DEF CallsSettled
  <2>2. i - 1 \in Nat /\ \A j \in 1 .. i - 1 : d[j] = c[j]
    BY <1>1
  <2> QED
    BY <2>1, <2>2, SettledUpTo
<1>6. Stacked(d) /\ CallsSettled(d)
  BY <1>1, <1>2, <1>3, <1>4, <1>5 DEF Stacked, CallsSettled
<1> QED
  BY <1>1, <1>6 DEF d

\* A set of positions has a last one.
LEMMA LastOne ==
    ASSUME NEW n \in Nat, NEW C \in SUBSET (1 .. n), C # {}
    PROVE  \E x \in C : \A y \in C : y <= x
<1> DEFINE U == {k \in Nat : n - k \in C}
           R == {ss \in Nat \X Nat : ss[1] < ss[2]}
<1>1. U # {} /\ U \subseteq Nat
  <2>1. PICK y \in C : TRUE
    OBVIOUS
  <2>2. y \in Int /\ n - y \in Nat /\ n - (n - y) = y
    OBVIOUS
  <2> QED
    BY <2>2
<1>2. IsWellFoundedOn(R, Nat)
  BY NatLessThanWellFounded DEF OpToRel
<1>3. \E x \in U : \A y \in U : <<y, x>> \notin R
  <2> HIDE DEF R, U
  <2> QED
    BY <1>1, <1>2, WFMin
<1>4. PICK x \in U : \A y \in U : <<y, x>> \notin R
  BY <1>3
<1>5. x \in Nat /\ n - x \in C
  OBVIOUS
<1>6. ASSUME NEW y \in C
      PROVE  y <= n - x
  <2>1. y \in Int /\ n - y \in Nat /\ n - (n - y) = y
    OBVIOUS
  <2>2. n - y \in U
    BY <2>1
  <2>3. ~(n - y < x)
    BY <1>4, <1>5, <2>1, <2>2
  <2> QED
    BY <1>5, <2>1, <2>3
<1> QED
  BY <1>5, <1>6

\* Max is the largest of a set of numbers up to n.
LEMMA MaxIs ==
    ASSUME NEW n \in Nat, NEW S \in SUBSET (0 .. n), S # {}
    PROVE  Max(S) \in S /\ \A x \in S : x <= Max(S)
<1> DEFINE C == {k \in 1 .. n + 1 : k - 1 \in S}
<1>1. C # {}
  <2>1. PICK x \in S : TRUE
    OBVIOUS
  <2>2. x + 1 \in C
    BY <2>1
  <2> QED
    BY <2>2
<1>2. PICK k \in C : \A y \in C : y <= k
  <2> HIDE DEF C
  <2>1. n + 1 \in Nat /\ C \in SUBSET (1 .. n + 1)
    BY DEF C
  <2> QED
    BY <1>1, <2>1, LastOne
<1>3. \A x \in S : x + 1 \in C
  OBVIOUS
<1>4. k - 1 \in S /\ \A x \in S : k - 1 >= x
  BY <1>2, <1>3
<1>5. \E x \in S : \A y \in S : x >= y
  BY <1>4
<1>6. Max(S) \in S /\ \A y \in S : Max(S) >= y
  BY <1>5 DEF Max
<1> QED
  BY <1>6

\* Aim finds the innermost function the jump is meant for.
LEMMA AimIs ==
    ASSUME NEW type, NEW label, ctl \in Seq(FunctionType)
    PROVE  IsAim(ctl, Len(ctl), type, label, Aim(type, label))
<1> DEFINE n == Len(ctl)
           calls == {i \in DOMAIN ctl : ctl[i].op = "call"}
           call == Max({0} \cup calls)
           loops == {i \in call + 1 .. n : ctl[i].op \in Loops /\ label \in {UNLABELED, ctl[i].label}}
<1>1. n \in Nat /\ DOMAIN ctl = 1 .. n
  OBVIOUS
<1>2. call \in {0} \cup calls /\ \A i \in calls : i <= call
  <2> DEFINE S == {0} \cup calls
  <2>1. S \subseteq 0 .. n /\ S # {}
    BY <1>1
  <2> HIDE DEF S
  <2>2. Max(S) \in S /\ \A i \in S : i <= Max(S)
    BY <1>1, <2>1, MaxIs
  <2> QED
    BY <2>2 DEF S
<1> HIDE DEF call
<1>3. call \in 0 .. n
  BY <1>1, <1>2
<1>4. Aim(type, label) = IF type = "return" THEN call ELSE Max({call} \cup loops)
  BY DEF Aim, call, Depth
<1>5. CASE type = "return"
  BY <1>1, <1>2, <1>3, <1>4, <1>5 DEF IsAim, Meant
<1>6. CASE type # "return"
  <2> DEFINE S == {call} \cup loops
  <2>1. S \subseteq 0 .. n /\ S # {}
    BY <1>1, <1>3
  <2> HIDE DEF S
  <2>2. Max(S) \in S /\ \A i \in S : i <= Max(S)
    BY <1>1, <2>1, MaxIs
  <2>3. PICK a : a = Max(S)
    OBVIOUS
  <2>4. a \in 0 .. n /\ a >= call /\ (a = call \/ a \in loops) /\ \A i \in loops : i <= a
    BY <1>3, <2>1, <2>2, <2>3 DEF S
  <2>5. a # 0 => Meant(ctl[a], type, label)
    BY <1>2, <1>6, <2>4 DEF Meant
  <2>6. ASSUME NEW i \in 1 .. n, Meant(ctl[i], type, label)
        PROVE  i <= a
    <3>1. CASE ctl[i].op = "call"
      BY <1>1, <1>2, <1>3, <2>4, <3>1
    <3>2. CASE ctl[i].op # "call" /\ i <= call
      BY <1>3, <2>4, <3>2
    <3>3. CASE ctl[i].op # "call" /\ i > call
      <4>1. i \in loops
        BY <1>1, <1>3, <2>6, <3>3 DEF Meant
      <4> QED
        BY <2>4, <4>1
    <3> QED
      BY <1>3, <3>1, <3>2, <3>3
  <2> QED
    BY <1>4, <1>6, <2>3, <2>4, <2>5, <2>6 DEF IsAim, S
<1> QED
  BY <1>5, <1>6

-----------------------------------------------------------------------------
\* The innermost of n functions, when a jump has passed it.
LEMMA Passed ==
    ASSUME NEW c, NEW n \in Nat, n > 0, NEW type, NEW label, NEW a,
           IsAim(c, n, type, label, a), ~Meant(c[n], type, label)
    PROVE  IsAim(c, n - 1, type, label, a) /\ a < n
BY DEF IsAim

\* The innermost of n functions, when a jump is meant for it.
LEMMA Reached ==
    ASSUME NEW c, NEW n \in Nat, n > 0, NEW type, NEW label, NEW a,
           IsAim(c, n, type, label, a), Meant(c[n], type, label)
    PROVE  a = n
BY DEF IsAim

\* What a jump is meant for does not depend on where the functions are.
LEMMA AlikeAims ==
    ASSUME NEW c, NEW d, NEW n \in Nat, NEW type, NEW label, NEW a,
           IsAim(c, n, type, label, a), \A i \in 1 .. n : Alike(c[i], d[i])
    PROVE  IsAim(d, n, type, label, a)
<1>1. \A i \in 1 .. n : Meant(c[i], type, label) <=> Meant(d[i], type, label)
  BY DEF Meant, Alike
<1> QED
  BY <1>1 DEF IsAim

\* The innermost function, where there is one.
LEMMA Inner ==
    ASSUME LInv, ctl # << >>
    PROVE  /\ Depth \in Nat /\ Depth > 0 /\ Depth = Len(ctl)
           /\ Innermost = ctl[Depth] /\ Innermost \in FunctionType /\ Known(Innermost)
           /\ Stacked(ctl) /\ CallsSettled(ctl) /\ Settled(ctl, Depth, result, aim)
           /\ result \in ResultType /\ aim \in Nat
BY DEF LInv, Stacked, Settled, Depth, Innermost

\* A statement, a list or an if leaves its result to its caller, which is waiting
\* for it.
LEMMA LeavesResult ==
    ASSUME LInv, ctl # << >>, Innermost.op # "call",
           NEW r \in ResultType,
           r.type # "normal" => IsAim(ctl, Depth - 1, r.type, r.label, aim)
    PROVE  Settled(ctl, Depth - 1, r, aim)
<1> USE Inner
<1>1. ASSUME Depth - 1 > 0
      PROVE  Runs(ctl[Depth - 1]) \/ Listing(ctl[Depth - 1])
  <2>1. Depth - 1 \in 1 .. Len(ctl) - 1 /\ (Depth - 1) + 1 = Depth
    BY <1>1
  <2>2. WaitsFor(ctl[Depth - 1], Innermost.op)
    BY <2>1 DEF Stacked
  <2>3. Innermost.op \in Loops \cup {"list", "if"}
    BY DEF FunctionType
  <2> QED
    BY <2>2, <2>3 DEF WaitsFor
<1> QED
  BY <1>1 DEF Settled

\* The innermost function returns, and what it leaves is settled at its caller.
LEMMA Returned ==
    ASSUME LInv, ctl # << >>, Return, Settled(ctl, Depth - 1, result', aim')
    PROVE  LInv' /\ Len(ctl') = Depth - 1
<1> USE Inner
<1>1. ctl' = SubSeq(ctl, 1, Depth - 1)
  BY DEF Return
<1>2. /\ Stacked(ctl') /\ CallsSettled(ctl') /\ Len(ctl') = Depth - 1
      /\ \A i \in 1 .. Depth - 1 : ctl'[i] = ctl[i]
  BY <1>1, Popped
<1>3. Depth - 1 \in Nat
  OBVIOUS
<1>4. Settled(ctl', Depth - 1, result', aim')
  BY <1>2, <1>3, SettledUpTo
<1> QED
  BY <1>2, <1>4 DEF LInv

\* The innermost function goes on at another of its places.
LEMMA GoneOn ==
    ASSUME LInv, ctl # << >>, NEW place \in Places, Goto(place),
           NEW g, g = [Innermost EXCEPT !.at = place], Known(g)
    PROVE  /\ Stacked(ctl') /\ CallsSettled(ctl') /\ Len(ctl') = Depth /\ ctl'[Depth] = g
           /\ \A i \in 1 .. Depth : Alike(ctl[i], ctl'[i])
<1> USE Inner
<1>1. g \in FunctionType /\ Alike(ctl[Depth], g)
  BY DEF FunctionType, Alike
<1>2. /\ ctl' \in Seq(FunctionType) /\ Len(ctl') = Depth /\ ctl'[Depth] = g
      /\ \A i \in 1 .. Depth - 1 : ctl'[i] = ctl[i]
  <2>1. ctl' = [ctl EXCEPT ![Depth] = g]
    BY DEF Goto, Innermost
  <2> QED
    BY <2>1, <1>1 DEF Stacked
<1>3. Stacked(ctl') /\ CallsSettled(ctl')
  BY <1>1, <1>2, Changed
<1>4. ASSUME NEW i \in 1 .. Depth
      PROVE  Alike(ctl[i], ctl'[i])
  <2>1. CASE i = Depth
    BY <1>1, <1>2, <2>1
  <2>2. CASE i # Depth
    <3>1. i \in 1 .. Depth - 1
      BY <2>2
    <3>2. ctl'[i] = ctl[i]
      BY <1>2, <3>1
    <3> QED
      BY <3>2 DEF Alike
  <2> QED
    BY <2>1, <2>2
<1> QED
  BY <1>2, <1>3, <1>4

\* A function of the right type.
LEMMA FunctionTyped ==
    ASSUME NEW op \in Loops \cup {"list", "if", "call"}, NEW label \in Labels \cup {UNLABELED},
           NEW place \in Places
    PROVE  Function(op, label, place) \in FunctionType
BY DEF Function, FunctionType, Normal, ResultType

\* A list of statements that starts is one.
LEMMA ListTyped == List \in FunctionType /\ Known(List) /\ List.op = "list" /\ Listing(List)
<1>1. "next" \in Places /\ "list" \in Loops \cup {"list", "if", "call"}
  BY DEF Places
<1>2. List \in FunctionType
  BY <1>1, FunctionTyped DEF List
<1>3. List.op = "list" /\ List.at = "next"
  BY DEF List, Function
<1> QED
  BY <1>2, <1>3 DEF Known, Evaluates, Listing

\* A list of statements starts.
LEMMA ListRun ==
    ASSUME LInv, ctl # << >>, NEW g \in FunctionType, Alike(Innermost, g), Runs(g), RunList(g)
    PROVE  LInv' /\ Len(ctl') > Depth
<1> USE Inner
<1> DEFINE d == [ctl EXCEPT ![Depth] = g]
<1>1. /\ d \in Seq(FunctionType) /\ Len(d) = Depth /\ d[Depth] = g
      /\ \A i \in 1 .. Depth - 1 : d[i] = ctl[i]
  BY DEF Stacked
<1>2. ctl' = Append(d, List) /\ result' = Normal /\ aim' = aim
  BY DEF RunList
<1> HIDE DEF d
<1>3. Stacked(d) /\ CallsSettled(d)
  <2>1. Known(g)
    BY DEF Known
  <2> QED
    BY <1>1, <2>1, Changed
<1>4. List \in FunctionType /\ Known(List) /\ List.op = "list" /\ Listing(List)
  BY ListTyped
<1>5. WaitsFor(d[Depth], List.op) /\ List.op # "call"
  BY <1>1, <1>4 DEF WaitsFor, Loops
<1>6. /\ Stacked(ctl') /\ CallsSettled(ctl') /\ Len(ctl') = Depth + 1
      /\ ctl'[Depth + 1] = List
  BY <1>1, <1>2, <1>3, <1>4, <1>5, Pushed
<1>7. Settled(ctl', Depth + 1, result', aim')
  BY <1>2 DEF Settled, Normal, ResultType
<1> QED
  BY <1>6, <1>7 DEF LInv

\* A statement calls a function of its kind.
LEMMA Called ==
    ASSUME LInv, NEW op \in Loops \cup {"if"}, NEW label \in Labels \cup {UNLABELED},
           NEW place \in Places, Known(Function(op, label, place)), Statement(op, label, place)
    PROVE  LInv' /\ Len(ctl') = Depth + 1
<1> DEFINE g == Function(op, label, place)
<1>1. ctl # << >> /\ Listing(Innermost)
  BY DEF Statement, AtStatement, At, Listing
<1> USE <1>1, Inner
<1>2. ctl' = Append(ctl, g) /\ result' = Normal /\ aim' = aim
  BY DEF Statement
<1>3. g \in FunctionType /\ g.op = op /\ Known(g)
  BY DEF Function, FunctionType, Normal, ResultType
<1> HIDE DEF g
<1>4. WaitsFor(ctl[Depth], g.op) /\ g.op # "call"
  BY <1>3 DEF WaitsFor, Loops
<1>5. Stacked(ctl') /\ CallsSettled(ctl') /\ Len(ctl') = Depth + 1
  BY <1>2, <1>3, <1>4, Pushed
<1>6. Settled(ctl', Depth + 1, result', aim')
  BY <1>2 DEF Settled, Normal, ResultType
<1> QED
  BY <1>5, <1>6 DEF LInv

-----------------------------------------------------------------------------
\* A step that enters a function lands every jump: none but a continue can be on
\* its way.
LEMMA EnteringLands ==
    ASSUME LInv, ctl # << >>, Len(ctl') > Depth, result.type \notin {"break", "return"}
    PROVE  Lands
BY Inner DEF Lands, Settles

\* A step that returns from a function the jump is not meant for, and leaves it its
\* result, lands every jump.
LEMMA LeavingLands ==
    ASSUME LInv, ctl # << >>, Len(ctl') = Depth - 1, result' = result, Innermost.op # "call",
           result.type # "normal" => ~Meant(Innermost, result.type, result.label)
    PROVE  Lands
<1> USE Inner
<1>1. result.type # "normal" => aim < Depth
  <2>1. result.type # "normal" => IsAim(ctl, Depth, result.type, result.label, aim)
    BY DEF Settled
  <2> QED
    BY <2>1, Passed
<1> QED
  BY <1>1 DEF Lands, Settles

\* Such a step keeps the invariant.
LEMMA LeavingKeeps ==
    ASSUME LInv, ctl # << >>, Return, result' = result, aim' = aim, Innermost.op # "call",
           result.type # "normal" => ~Meant(Innermost, result.type, result.label)
    PROVE  LInv' /\ Lands
<1> USE Inner
<1>1. result.type # "normal" => IsAim(ctl, Depth - 1, result.type, result.label, aim)
  <2>1. result.type # "normal" => IsAim(ctl, Depth, result.type, result.label, aim)
    BY DEF Settled
  <2> QED
    BY <2>1, Passed
<1>2. Settled(ctl, Depth - 1, result, aim)
  BY <1>1, LeavesResult
<1>3. Settled(ctl, Depth - 1, result', aim')
  BY <1>2
<1>4. LInv' /\ Len(ctl') = Depth - 1
  BY <1>3, Returned
<1> QED
  BY <1>4, LeavingLands

-----------------------------------------------------------------------------
(* The steps. *)

\* A loop statement starts.
LEMMA LoopLands == ASSUME LInv, Loop PROVE LInv' /\ Lands
<1>1. PICK op \in Loops, label \in Labels \cup {UNLABELED} : Statement(op, label, "condition")
  BY DEF Loop
<1>2. ctl # << >> /\ result.type = "normal"
  BY <1>1 DEF Statement, AtStatement, At
<1>3. Known(Function(op, label, "condition")) /\ "condition" \in Places
  BY DEF Known, Evaluates, BetweenRounds, Function, Places
<1>4. LInv' /\ Len(ctl') = Depth + 1
  BY <1>1, <1>3, Called
<1> QED
  BY <1>2, <1>4, Inner, EnteringLands

\* An if statement starts.
LEMMA IfLands == ASSUME LInv, If PROVE LInv' /\ Lands
<1>1. Statement("if", UNLABELED, "if")
  BY DEF If
<1>2. ctl # << >> /\ result.type = "normal"
  BY <1>1 DEF Statement, AtStatement, At
<1>3. Known(Function("if", UNLABELED, "if")) /\ "if" \in Places
  BY DEF Known, Evaluates, Function, Places
<1>4. LInv' /\ Len(ctl') = Depth + 1
  BY <1>1, <1>3, Called
<1> QED
  BY <1>2, <1>4, Inner, EnteringLands

\* A break, continue or return sets off for its aim.
LEMMA JumpLands ==
    ASSUME LInv, NEW type \in {"break", "continue", "return"}, NEW label \in Labels \cup {UNLABELED},
           Jump(type, label)
    PROVE  LInv' /\ Lands
<1>1. ctl # << >> /\ Innermost.op = "list" /\ result.type = "normal"
  BY DEF Jump, AtStatement, At
<1> USE <1>1, Inner
<1>2. /\ result' \in ResultType /\ result'.type = type /\ result'.label = label
      /\ aim' = Aim(type, label) /\ Return
  BY DEF Jump, ResultType
<1>3. IsAim(ctl, Depth, type, label, aim')
  BY <1>2, AimIs DEF Stacked
<1>4. ~Meant(Innermost, type, label)
  BY DEF Meant, Loops
<1>5. IsAim(ctl, Depth - 1, type, label, aim')
  BY <1>3, <1>4, Passed
<1>6. aim' \in Nat
  BY <1>5 DEF IsAim
<1>7. ASSUME Depth - 1 > 0
      PROVE  Runs(ctl[Depth - 1])
  <2>1. Depth - 1 \in 1 .. Len(ctl) - 1 /\ (Depth - 1) + 1 = Depth
    BY <1>7
  <2>2. WaitsFor(ctl[Depth - 1], Innermost.op)
    BY <2>1 DEF Stacked
  <2> QED
    BY <2>2 DEF WaitsFor
<1>8. Settled(ctl, Depth - 1, result', aim')
  BY <1>2, <1>5, <1>6, <1>7 DEF Settled
<1>9. LInv' /\ Len(ctl') = Depth - 1
  BY <1>2, <1>8, Returned
<1> QED
  BY <1>9 DEF Lands, Settles

\* A list of statements gives its result to the one that ran it.
LEMMA ListReturnsLands == ASSUME LInv, ListReturns PROVE LInv' /\ Lands
<1>1. ctl # << >> /\ Innermost.op = "list" /\ Return /\ result' = result /\ aim' = aim
  BY DEF ListReturns, At
<1>2. ~Meant(Innermost, result.type, result.label)
  BY <1>1 DEF Meant, Loops
<1> QED
  BY <1>1, <1>2, LeavingKeeps

\* A loop starts a round.
LEMMA LoopRoundLands == ASSUME LInv, LoopRound PROVE LInv' /\ Lands
<1> DEFINE g == [Innermost EXCEPT !.at = "body"]
<1>1. ctl # << >> /\ Innermost.op \in Loops /\ Innermost.at = "condition" /\ RunList(g)
  BY DEF LoopRound, At
<1> USE <1>1, Inner
<1>2. g \in FunctionType /\ Alike(Innermost, g) /\ Runs(g)
  BY DEF FunctionType, Alike, Runs, Places
<1>3. result.type \notin {"break", "return"}
  BY DEF Settled, Runs, Listing, Loops
<1>4. LInv' /\ Len(ctl') > Depth
  <2> HIDE DEF g
  <2> QED
    BY <1>2, ListRun
<1> QED
  BY <1>3, <1>4, EnteringLands

\* A loop ends by its condition.
LEMMA LoopEndsLands == ASSUME LInv, LoopEnds PROVE LInv' /\ Lands
<1>1. /\ ctl # << >> /\ Innermost.op \in Loops /\ Innermost.at = "condition"
      /\ Return /\ result' = result /\ aim' = aim
  BY DEF LoopEnds, At
<1> USE <1>1, Inner
<1>2. ~Runs(Innermost) /\ ~Listing(Innermost)
  BY DEF Runs, Listing, Loops
<1>3. result.type # "normal" => ~Meant(Innermost, result.type, result.label)
  BY <1>2 DEF Settled, ResultType
<1> QED
  BY <1>3, LeavingKeeps DEF Loops

\* What a loop's comparison makes of a result.
LEMMA ComparedIs ==
    ASSUME LInv, ctl # << >>, Innermost.op \in Loops, result.type \in {"break", "continue"}
    PROVE  /\ Compared \in ResultType /\ Compared.label = result.label
           /\ Compared.type = IF Meant(Innermost, result.type, result.label)
                              THEN "normal" ELSE result.type
<1> USE Inner
<1>1. Meant(Innermost, result.type, result.label)
          <=> result.label \in {UNLABELED, Innermost.label}
  BY DEF Meant, Loops
<1>2. CompareLabels(result.label, Innermost.label, result.type)
          = IF Meant(Innermost, result.type, result.label) THEN "normal" ELSE result.type
  BY <1>1 DEF CompareLabels
<1>3. PICK u : u = CompareLabels(result.label, Innermost.label, result.type)
  OBVIOUS
<1>4. Compared = [result EXCEPT !.type = u]
  BY <1>3 DEF Compared
<1>5. u \in {"normal", "break", "continue"}
  BY <1>2, <1>3
<1> QED
  BY <1>2, <1>3, <1>4, <1>5 DEF ResultType

\* A body gives back a result that the loop goes on after.
LEMMA BodyEndsLands == ASSUME LInv, BodyEnds PROVE LInv' /\ Lands
<1> DEFINE place == IF Innermost.op = "while" THEN "condition" ELSE "post"
           g == [Innermost EXCEPT !.at = place]
<1>1. /\ ctl # << >> /\ Innermost.op \in Loops /\ Innermost.at = "body"
      /\ result.type \in {"normal", "continue"} /\ Goto(place) /\ aim' = aim
      /\ result' = IF result.type = "continue" THEN Compared ELSE result
  BY DEF BodyEnds, At
<1> USE <1>1, Inner
<1>2. place \in Places /\ place \in {"condition", "post"}
  BY DEF Places
<1>3. g.op = Innermost.op /\ g.at = place /\ g.label = Innermost.label
  BY DEF FunctionType
<1> HIDE DEF g, place
<1>4. BetweenRounds(g) /\ Known(g)
  BY <1>2, <1>3 DEF BetweenRounds, Known, Evaluates
<1>5. /\ Stacked(ctl') /\ CallsSettled(ctl') /\ Len(ctl') = Depth /\ ctl'[Depth] = g
      /\ \A i \in 1 .. Depth : Alike(ctl[i], ctl'[i])
  <2>1. g = [Innermost EXCEPT !.at = place]
    BY DEF g
  <2> QED
    BY <2>1, <1>2, <1>4, GoneOn
<1>6. result.type = "continue" => IsAim(ctl, Depth, "continue", result.label, aim)
  BY DEF Settled
<1>7. /\ result' \in ResultType /\ result'.type \in {"normal", "continue"}
      /\ result'.type = "continue" =>
            /\ result.type = "continue" /\ result'.label = result.label
            /\ ~Meant(Innermost, "continue", result.label)
      /\ result.type = "continue" /\ result'.type = "normal" =>
            Meant(Innermost, "continue", result.label)
  BY ComparedIs
<1>8. Settled(ctl', Depth, result', aim')
  <2>1. ASSUME result'.type = "continue"
        PROVE  /\ IsAim(ctl', Depth, result'.type, result'.label, aim')
               /\ ~Meant(g, "continue", result'.label)
    <3>1. IsAim(ctl', Depth, "continue", result.label, aim)
      BY <1>5, <1>6, <1>7, <2>1, AlikeAims
    <3>2. ~Meant(g, "continue", result.label)
      BY <1>3, <1>7, <2>1 DEF Meant
    <3> QED
      BY <3>1, <3>2, <1>7, <2>1
  <2> QED
    BY <1>4, <1>5, <1>7, <2>1 DEF Settled
<1>9. LInv'
  BY <1>5, <1>8 DEF LInv
<1>10. Settles("continue") => Depth = aim
  <2> SUFFICES ASSUME result.type = "continue", result'.type # "continue"
               PROVE  Depth = aim
    BY DEF Settles
  <2>1. Meant(Innermost, "continue", result.label)
    BY <1>7
  <2> QED
    BY <2>1, <1>6, Reached
<1> QED
  BY <1>5, <1>9, <1>10 DEF Lands, Settles

\* A body gives back a result that the loop is left with.
LEMMA BodyLeftLands == ASSUME LInv, BodyLeft PROVE LInv' /\ Lands
<1>1. /\ ctl # << >> /\ Innermost.op \in Loops /\ Innermost.at = "body"
      /\ result.type \in {"break", "return"} /\ Return /\ aim' = aim
      /\ result' = IF result.type = "break" THEN Compared ELSE result
  BY DEF BodyLeft, At
<1> USE <1>1, Inner
<1>2. IsAim(ctl, Depth, result.type, result.label, aim)
  BY DEF Settled
<1>3. result.type = "return" => ~Meant(Innermost, result.type, result.label)
  BY DEF Meant, Loops
<1>4. /\ result' \in ResultType
      /\ result'.type # "normal" =>
            /\ result'.type = result.type /\ result'.label = result.label
            /\ ~Meant(Innermost, result.type, result.label)
      /\ result'.type # result.type =>
            result.type = "break" /\ Meant(Innermost, result.type, result.label)
  BY <1>3, ComparedIs
<1>5. result'.type # "normal" => IsAim(ctl, Depth - 1, result'.type, result'.label, aim)
  BY <1>2, <1>4, Passed
<1>6. Settled(ctl, Depth - 1, result', aim')
  <2>1. Innermost.op # "call"
    BY DEF Loops
  <2> QED
    BY <1>4, <1>5, <2>1, LeavesResult
<1>7. LInv' /\ Len(ctl') = Depth - 1
  BY <1>6, Returned
<1>8. result'.type # result.type => Depth = aim
  BY <1>2, <1>4, Reached
<1>9. Depth >= aim
  BY <1>2 DEF IsAim
<1> QED
  BY <1>3, <1>4, <1>7, <1>8, <1>9 DEF Lands, Settles

\* A loop goes on to its post expression.
LEMMA PostLands == ASSUME LInv, Post PROVE LInv' /\ Lands
<1> DEFINE g == [Innermost EXCEPT !.at = "condition"]
<1>1. /\ ctl # << >> /\ Innermost.op \in Loops /\ Innermost.at = "post"
      /\ Goto("condition") /\ result' = result /\ aim' = aim
  BY DEF Post, At
<1> USE <1>1, Inner
<1>2. g.op = Innermost.op /\ g.at = "condition" /\ g.label = Innermost.label
  BY DEF FunctionType
<1>3. "condition" \in Places
  BY DEF Places
<1> HIDE DEF g
<1>4. BetweenRounds(g) /\ Known(g)
  BY <1>2 DEF BetweenRounds, Known, Evaluates
<1>5. /\ Stacked(ctl') /\ CallsSettled(ctl') /\ Len(ctl') = Depth /\ ctl'[Depth] = g
      /\ \A i \in 1 .. Depth : Alike(ctl[i], ctl'[i])
  <2>1. g = [Innermost EXCEPT !.at = "condition"]
    BY DEF g
  <2> QED
    BY <2>1, <1>3, <1>4, GoneOn
<1>6. ~Runs(Innermost) /\ ~Listing(Innermost)
  BY DEF Runs, Listing, Loops
<1>7. /\ result.type \in {"normal", "continue"}
      /\ result.type = "continue" =>
            /\ IsAim(ctl, Depth, "continue", result.label, aim)
            /\ ~Meant(Innermost, "continue", result.label)
  BY <1>6 DEF Settled, ResultType
<1>8. result.type = "continue" =>
          /\ IsAim(ctl', Depth, "continue", result.label, aim)
          /\ ~Meant(g, "continue", result.label)
  <2>1. result.type = "continue" => IsAim(ctl', Depth, "continue", result.label, aim)
    BY <1>5, <1>7, AlikeAims
  <2> QED
    BY <2>1, <1>2, <1>7 DEF Meant
<1>9. Settled(ctl', Depth, result', aim')
  BY <1>4, <1>5, <1>7, <1>8 DEF Settled
<1>10. LInv'
  BY <1>5, <1>9 DEF LInv
<1> QED
  BY <1>5, <1>7, <1>10 DEF Lands, Settles

\* Nothing is on its way where an if statement decides.
LEMMA Deciding ==
    ASSUME LInv, ctl # << >>, Innermost.op = "if", Innermost.at \in {"if", "elif"}
    PROVE  result.type = "normal"
<1> USE Inner
<1>1. ~Runs(Innermost) /\ ~Listing(Innermost) /\ ~BetweenRounds(Innermost)
  BY DEF Runs, Listing, BetweenRounds, Loops
<1> QED
  BY <1>1 DEF Settled, ResultType

\* An if statement runs one of its blocks.
LEMMA BranchRuns ==
    ASSUME LInv, ctl # << >>, Innermost.op = "if", Innermost.at \in {"if", "elif"},
           NEW g \in FunctionType, Alike(Innermost, g), g.at \in {"branch", "elif ran"}, RunList(g)
    PROVE  LInv' /\ Lands
<1>1. Runs(g)
  BY DEF Runs, Alike
<1>2. LInv' /\ Len(ctl') > Depth
  BY <1>1, ListRun
<1>3. result.type = "normal"
  BY Deciding
<1> QED
  BY <1>2, <1>3, EnteringLands

\* An if statement goes on to its next elif.
LEMMA NextElif ==
    ASSUME LInv, ctl # << >>, Innermost.op = "if", Goto("elif"), result.type = "normal",
           result' = result, aim' = aim
    PROVE  LInv' /\ Lands
<1> USE Inner
<1> DEFINE g == [Innermost EXCEPT !.at = "elif"]
<1>1. g.op = "if" /\ g.at = "elif"
  BY DEF FunctionType
<1>2. "elif" \in Places
  BY DEF Places
<1> HIDE DEF g
<1>3. Known(g)
  BY <1>1 DEF Known
<1>4. Stacked(ctl') /\ CallsSettled(ctl') /\ Len(ctl') = Depth
  <2>1. g = [Innermost EXCEPT !.at = "elif"]
    BY DEF g
  <2> QED
    BY <2>1, <1>2, <1>3, GoneOn
<1>5. Settled(ctl', Depth, result', aim')
  BY DEF Settled
<1>6. LInv'
  BY <1>4, <1>5 DEF LInv
<1> QED
  BY <1>4, <1>6 DEF Lands, Settles

\* The condition of an if statement holds.
LEMMA IfHoldsLands == ASSUME LInv, IfHolds PROVE LInv' /\ Lands
<1> DEFINE g == [Innermost EXCEPT !.at = "branch"]
<1>1. ctl # << >> /\ Innermost.op = "if" /\ Innermost.at = "if" /\ RunList(g)
  BY DEF IfHolds, At
<1>2. g \in FunctionType /\ Alike(Innermost, g) /\ g.at = "branch"
  BY <1>1, Inner DEF FunctionType, Alike, Places
<1> HIDE DEF g
<1> QED
  BY <1>1, <1>2, BranchRuns

\* It does not.
LEMMA IfFailsLands == ASSUME LInv, IfFails PROVE LInv' /\ Lands
<1>1. /\ ctl # << >> /\ Innermost.op = "if" /\ Innermost.at = "if" /\ Goto("elif")
      /\ result' = result /\ aim' = aim
  BY DEF IfFails, At
<1> QED
  BY <1>1, Deciding, NextElif

\* The condition of an elif holds.
LEMMA ElifHoldsLands == ASSUME LInv, ElifHolds PROVE LInv' /\ Lands
<1> DEFINE h == [Innermost EXCEPT !.at = "elif ran"]
           g == [h EXCEPT !.ran = TRUE]
<1>1. /\ ctl # << >> /\ Innermost.op = "if" /\ Innermost.at = "elif"
      /\ RunList([Innermost EXCEPT !.at = "elif ran", !.ran = TRUE])
  BY DEF ElifHolds, At
<1>2. h \in FunctionType /\ Alike(Innermost, h) /\ h.at = "elif ran"
  BY <1>1, Inner DEF FunctionType, Alike, Places
<1>3. [Innermost EXCEPT !.at = "elif ran", !.ran = TRUE] = g
  OBVIOUS
<1> HIDE DEF h
<1>4. g \in FunctionType /\ Alike(Innermost, g) /\ g.at = "elif ran"
  BY <1>2 DEF FunctionType, Alike
<1>5. RunList(g)
  BY <1>1, <1>3
<1> HIDE DEF g
<1> QED
  BY <1>1, <1>4, <1>5, BranchRuns

\* An elif branch ended normally.
LEMMA ElifNormalLands == ASSUME LInv, ElifNormal PROVE LInv' /\ Lands
<1>1. /\ ctl # << >> /\ Innermost.op = "if" /\ Goto("elif") /\ result.type = "normal"
      /\ result' = result /\ aim' = aim
  BY DEF ElifNormal, At
<1> QED
  BY <1>1, NextElif

\* The else branch runs.
LEMMA ElseLands == ASSUME LInv, Else PROVE LInv' /\ Lands
<1> DEFINE g == [Innermost EXCEPT !.at = "branch"]
<1>1. ctl # << >> /\ Innermost.op = "if" /\ Innermost.at = "elif" /\ RunList(g)
  BY DEF Else, At
<1>2. g \in FunctionType /\ Alike(Innermost, g) /\ g.at = "branch"
  BY <1>1, Inner DEF FunctionType, Alike, Places
<1> HIDE DEF g
<1> QED
  BY <1>1, <1>2, BranchRuns

\* An if statement ends.
LEMMA IfReturnsLands == ASSUME LInv, IfReturns PROVE LInv' /\ Lands
<1>1. ctl # << >> /\ Innermost.op = "if" /\ Return /\ result' = result /\ aim' = aim
  BY DEF IfReturns, At
<1>2. ~Meant(Innermost, result.type, result.label)
  BY <1>1 DEF Meant, Loops
<1> QED
  BY <1>1, <1>2, LeavingKeeps

\* A call saves the result of its caller.
LEMMA CallLands == ASSUME LInv, Call PROVE LInv' /\ Lands
<1> DEFINE g == [Function("call", UNLABELED, "body") EXCEPT !.saved = <<result, aim>>]
<1>1. ctl # << >> /\ Evaluates(Innermost) /\ result.type \notin {"break", "return"}
  <2>1. CASE AtStatement
    BY <2>1 DEF AtStatement, At, Evaluates, Listing
  <2>2. CASE At(Loops, "condition") \/ At(Loops, "post")
    <3>1. ctl # << >> /\ BetweenRounds(Innermost) /\ ~Runs(Innermost) /\ ~Listing(Innermost)
      BY <2>2 DEF At, BetweenRounds, Runs, Listing, Loops
    <3> QED
      BY <3>1, Inner DEF Evaluates, Settled
  <2>3. CASE At({"if"}, "if")
    BY <2>3, Deciding DEF At, Evaluates
  <2> QED
    BY <2>1, <2>2, <2>3 DEF Call
<1> USE <1>1, Inner
<1>2. ctl' = ctl \o <<g, List>> /\ result' = Normal /\ aim' = aim
  BY DEF Call
<1>3. g \in FunctionType /\ g.op = "call" /\ g.at = "body" /\ g.saved = <<result, aim>>
  <2>1. "body" \in Places /\ "call" \in Loops \cup {"list", "if", "call"}
    BY DEF Places
  <2>2. Function("call", UNLABELED, "body") \in FunctionType
    BY <2>1, FunctionTyped
  <2>3. <<result, aim>> \in ResultType \X Nat
    OBVIOUS
  <2>4. /\ Function("call", UNLABELED, "body").op = "call"
        /\ Function("call", UNLABELED, "body").at = "body"
    BY DEF Function
  <2> QED
    BY <2>2, <2>3, <2>4 DEF FunctionType
<1> HIDE DEF g
<1>4. Runs(g) /\ Known(g)
  BY <1>3 DEF Runs, Known
<1>5. WaitsFor(ctl[Depth], g.op)
  BY <1>3 DEF WaitsFor, Loops
<1>6. g.op = "call" => Settled(ctl, Depth, g.saved[1], g.saved[2])
  BY <1>3
<1> DEFINE d == Append(ctl, g)
<1>7. Stacked(d) /\ CallsSettled(d) /\ Len(d) = Depth + 1 /\ d[Depth + 1] = g
  BY <1>3, <1>4, <1>5, <1>6, Pushed
<1>8. List \in FunctionType /\ Known(List) /\ List.op = "list"
  BY ListTyped
<1>9. ctl' = Append(d, List)
  BY <1>2, <1>3, <1>8 DEF Stacked
<1> HIDE DEF d
<1>10. WaitsFor(d[Depth + 1], List.op) /\ List.op # "call"
  BY <1>4, <1>7, <1>8 DEF WaitsFor, Loops
<1>11. Stacked(ctl') /\ CallsSettled(ctl') /\ Len(ctl') = Depth + 2
  BY <1>7, <1>8, <1>9, <1>10, Pushed
<1>12. Settled(ctl', Depth + 2, result', aim')
  BY <1>2 DEF Settled, Normal, ResultType
<1>13. LInv'
  BY <1>11, <1>12 DEF LInv
<1> QED
  BY <1>11, <1>13, EnteringLands

\* A call returns, and takes what came out of its body.
LEMMA CallReturnsLands == ASSUME LInv, CallReturns PROVE LInv' /\ Lands
<1>1. /\ ctl # << >> /\ Innermost.op = "call" /\ Return
      /\ result' = Innermost.saved[1] /\ aim' = Innermost.saved[2]
  BY DEF CallReturns, At
<1> USE <1>1, Inner
<1>2. Settled(ctl, Depth - 1, result', aim')
  BY DEF CallsSettled
<1>3. LInv' /\ Len(ctl') = Depth - 1
  BY <1>2, Returned
<1>4. result.type # "normal" => aim = Depth
  <2>1. Meant(Innermost, result.type, result.label)
    BY DEF Meant
  <2> QED
    BY <2>1, Reached DEF Settled
<1> QED
  BY <1>3, <1>4 DEF Lands, Settles

-----------------------------------------------------------------------------
\* The invariant holds at the start.
LEMMA LInvInit == ASSUME LoopInit PROVE LInv
<1>1. ctl = <<List>> /\ result = Normal /\ aim = 0
  BY DEF LoopInit
<1>2. List \in FunctionType /\ Known(List) /\ List.op = "list"
  BY ListTyped
<1>3. Len(ctl) = 1 /\ ctl[1] = List /\ ctl \in Seq(FunctionType)
  BY <1>1, <1>2
<1>4. Stacked(ctl)
  BY <1>2, <1>3 DEF Stacked
<1>5. CallsSettled(ctl)
  BY <1>2, <1>3 DEF CallsSettled
<1>6. Settled(ctl, 1, result, aim)
  BY <1>1 DEF Settled, Normal, ResultType
<1> QED
  BY <1>3, <1>4, <1>5, <1>6 DEF LInv

\* Every step keeps the invariant and lands as promised.
LEMMA LoopStep == ASSUME LInv, LoopNext PROVE LInv' /\ Lands
<1>1. CASE Loop
  BY <1>1, LoopLands
<1>2. CASE If
  BY <1>2, IfLands
<1>3. CASE ListReturns
  BY <1>3, ListReturnsLands
<1>4. CASE \E type \in {"break", "continue", "return"}, label \in Labels \cup {UNLABELED} : Jump(type, label)
  BY <1>4, JumpLands
<1>5. CASE LoopRound
  BY <1>5, LoopRoundLands
<1>6. CASE LoopEnds
  BY <1>6, LoopEndsLands
<1>7. CASE BodyEnds
  BY <1>7, BodyEndsLands
<1>8. CASE BodyLeft
  BY <1>8, BodyLeftLands
<1>9. CASE Post
  BY <1>9, PostLands
<1>10. CASE IfHolds
  BY <1>10, IfHoldsLands
<1>11. CASE IfFails
  BY <1>11, IfFailsLands
<1>12. CASE ElifHolds
  BY <1>12, ElifHoldsLands
<1>13. CASE ElifNormal
  BY <1>13, ElifNormalLands
<1>14. CASE Else
  BY <1>14, ElseLands
<1>15. CASE IfReturns
  BY <1>15, IfReturnsLands
<1>16. CASE Call
  BY <1>16, CallLands
<1>17. CASE CallReturns
  BY <1>17, CallReturnsLands
<1> QED
  BY <1>1, <1>2, <1>3, <1>4, <1>5, <1>6, <1>7, <1>8, <1>9, <1>10, <1>11, <1>12, <1>13,
     <1>14, <1>15, <1>16, <1>17 DEF LoopNext

\* Every break, continue and return goes where it is meant to, however loops,
\* branches and calls are nested and labeled (compare_labels, the loops of
\* texecute.c, call_crowbar_function).
THEOREM JumpsAlwaysLand == LoopSpec => JumpsLand
<1>1. LoopInit => LInv
  BY LInvInit
<1>2. LInv /\ [LoopNext]_loopVars => LInv' /\ [Lands]_loopVars
  <2> SUFFICES ASSUME LInv, [LoopNext]_loopVars
               PROVE  LInv' /\ [Lands]_loopVars
    OBVIOUS
  <2>1. CASE LoopNext
    BY <2>1, LoopStep
  <2>2. CASE UNCHANGED loopVars
    <3>1. ctl' = ctl /\ result' = result /\ aim' = aim
      BY <2>2 DEF loopVars
    <3>2. LInv'
      BY <3>1 DEF LInv
    <3> QED
      BY <2>2, <3>2
  <2> QED
    BY <2>1, <2>2
<1> QED
  BY <1>1, <1>2, PTL DEF LoopSpec, JumpsLand

-----------------------------------------------------------------------------
(* Source text and statements: CrbInput. *)

InputTypes ==
    /\ phase \in Phases /\ file \in Files \cup {NO_TEXT}
    /\ text \in Seq(Characters) \cup {NO_TEXT} /\ at \in Nat
    /\ IF text = NO_TEXT THEN at = 0 ELSE at <= Len(text)
    /\ lines \in Seq(Seq(Characters)) /\ buf \in Seq(Characters) /\ pending \in Seq(Characters)
    /\ typed \in Seq(Typed)

\* What was executed is in order and behind the position.
InOrder(e, last, list) ==
    /\ list \in Seq(Seq(Characters)) /\ last \in 0..Len(list)
    /\ e \in Seq(Nat)
    /\ \A i \in 1..Len(e) : e[i] \in 1..last
    /\ \A i, j \in 1..Len(e) : i < j => e[i] < e[j]

\* A text has no newline before its last character.
OneLine(s) == \A i \in 1..Len(s) - 1 : s[i] # NL
NoNewline(s) == \A i \in 1..Len(s) : s[i] # NL

\* No statement waits for CRB_interpret.
UpToDate == Len(statement_list) <= last_statement_pos

\* The line in hand makes at most one statement: as long as its newline is still to
\* come, all statements were executed.
LineByLine ==
    /\ Len(statement_list) <= last_statement_pos + 1
    /\ text # NO_TEXT => OneLine(text)
    /\ OneLine(buf)
    /\ ~ Exhausted => UpToDate /\ NoNewline(buf)
    /\ ~ NoNewline(buf) => UpToDate

InputInv ==
    /\ InputTypes /\ InOrder(executed, last_statement_pos, statement_list)
    /\ phase = "builtin" => typed = << >>
    /\ phase = "readline" => file = NO_TEXT
    /\ phase = "readline" /\ typed # << >> => LineByLine
    /\ phase = "done" /\ file # NO_TEXT => UpToDate

\* The lesser of two numbers
LEMMA SmallerIs ==
    ASSUME NEW a \in Int, NEW b \in Int
    PROVE  /\ Smaller(a, b) \in {a, b} /\ Smaller(a, b) <= a /\ Smaller(a, b) <= b
BY DEF Smaller

\* The rest of a sequence that is not empty.
LEMMA TailIs ==
    ASSUME NEW S, NEW s \in Seq(S), s # << >>
    PROVE  /\ Tail(s) \in Seq(S) /\ Len(Tail(s)) = Len(s) - 1 /\ Len(s) > 0
           /\ \A i \in 1..Len(s) - 1 : Tail(s)[i] = s[i + 1]
OBVIOUS

\* A part of a sequence.
LEMMA PartIs ==
    ASSUME NEW S, NEW s \in Seq(S), NEW from \in Nat, NEW n \in Nat, from + n <= Len(s)
    PROVE  /\ SubSeq(s, from + 1, from + n) \in Seq(S)
           /\ Len(SubSeq(s, from + 1, from + n)) = n
           /\ \A i \in 1..n : SubSeq(s, from + 1, from + n)[i] = s[from + i]
OBVIOUS

With(e, from, last) == e \o [i \in 1..(last - from) |-> from + i]

\* Positions after `from` are executed up to `last`, and `to` is behind them.
LEMMA MoreExecuted ==
    ASSUME NEW list, NEW from, NEW e, InOrder(e, from, list), NEW last \in Nat, NEW to \in Nat,
           from <= last, last <= to, to <= Len(list),
           NEW d, d = With(e, from, last)
    PROVE  InOrder(d, to, list)
<1>1. from \in Nat /\ e \in Seq(Nat) /\ last - from \in Nat
  BY DEF InOrder
<1> DEFINE new == [i \in 1..(last - from) |-> from + i]
<1>2. /\ new \in Seq(Nat) /\ Len(new) = last - from
      /\ \A i \in 1..(last - from) : new[i] = from + i
  BY <1>1
<1>3. d = e \o new
  BY DEF With
<1> HIDE DEF new
<1>4. /\ d \in Seq(Nat) /\ Len(d) = Len(e) + (last - from)
      /\ \A i \in 1..Len(d) : d[i] = IF i <= Len(e) THEN e[i] ELSE new[i - Len(e)]
  BY <1>1, <1>2, <1>3
<1>5. ASSUME NEW i \in 1..Len(d), i > Len(e)
      PROVE  d[i] = from + (i - Len(e)) /\ d[i] \in 1..to /\ d[i] > from
  <2>1. i - Len(e) \in 1..(last - from)
    BY <1>1, <1>4, <1>5
  <2>2. d[i] = from + (i - Len(e))
    BY <1>2, <1>4, <1>5, <2>1
  <2> QED
    BY <1>1, <2>1, <2>2
<1>6. ASSUME NEW i \in 1..Len(d), i <= Len(e)
      PROVE  d[i] = e[i] /\ d[i] \in 1..from
  <2>1. d[i] = e[i]
    BY <1>4, <1>6
  <2>2. Len(e) \in Nat /\ i \in Nat /\ i >= 1
    BY <1>1
  <2>3. i \in 1..Len(e)
    BY <1>6, <2>2
  <2> QED
    BY <2>1, <2>3 DEF InOrder
<1>7. ASSUME NEW i \in 1..Len(d)
      PROVE  d[i] \in 1..to
  BY <1>1, <1>5, <1>6
<1>8. ASSUME NEW i \in 1..Len(d), NEW j \in 1..Len(d), i < j
      PROVE  d[i] < d[j]
  <2>1. CASE j <= Len(e)
    <3>1. i \in 1..Len(e) /\ j \in 1..Len(e) /\ i <= Len(e)
      BY <1>1, <1>4, <1>8, <2>1
    <3>2. e[i] < e[j]
      BY <1>8, <3>1 DEF InOrder
    <3> QED
      BY <1>6, <2>1, <3>1, <3>2
  <2>2. CASE i <= Len(e) /\ j > Len(e)
    BY <1>1, <1>5, <1>6, <2>2
  <2>3. CASE i > Len(e)
    <3>1. j > Len(e)
      BY <1>1, <1>4, <1>8, <2>3
    <3> QED
      BY <1>1, <1>4, <1>5, <1>8, <2>3, <3>1
  <2>4. Len(e) \in Nat /\ i \in Int /\ j \in Int
    BY <1>1
  <2> QED
    BY <2>1, <2>2, <2>3, <2>4
<1>9. list \in Seq(Seq(Characters)) /\ to \in 0..Len(list)
  BY DEF InOrder
<1> QED
  BY <1>4, <1>7, <1>8, <1>9 DEF InOrder

\* CRB_interpret leaves no statement waiting.
LEMMA Executes ==
    ASSUME InputInv, Interpret
    PROVE  InOrder(executed', last_statement_pos', statement_list') /\ UpToDate'
<1>1. /\ statement_list \in Seq(Seq(Characters))
      /\ last_statement_pos \in 0..Len(statement_list)
      /\ InOrder(executed, last_statement_pos, statement_list)
  BY DEF InputInv, InOrder
<1>2. CASE statement_list = << >>
  <2>1. UNCHANGED statementVars
    BY <1>2 DEF Interpret
  <2> QED
    BY <1>1, <1>2, <2>1 DEF statementVars, UpToDate
<1>3. CASE statement_list # << >>
  <2>1. PICK last \in Smaller(last_statement_pos + 1, Len(statement_list))..Len(statement_list) :
            Interpreted(last)
    BY <1>3 DEF Interpret
  <2>2. /\ last_statement_pos' = Len(statement_list) /\ statement_list' = statement_list
        /\ executed' = With(executed, last_statement_pos, last)
    BY <2>1 DEF Interpreted, With
  <2>3. Smaller(last_statement_pos + 1, Len(statement_list))
            \in {last_statement_pos + 1, Len(statement_list)}
    BY <1>1, SmallerIs
  <2>4. last \in Nat /\ last_statement_pos <= last /\ last <= Len(statement_list)
    BY <1>1, <2>1, <2>3
  <2>5. InOrder(executed', Len(statement_list), statement_list)
    <3>1. Len(statement_list) \in Nat
      BY <1>1
    <3> QED
      BY <1>1, <2>2, <2>4, <3>1, MoreExecuted
  <2> QED
    BY <1>1, <2>2, <2>5 DEF UpToDate
<1> QED
  BY <1>2, <1>3

\* A statement is parsed.
LEMMA OneMore ==
    ASSUME InputInv, NEW tokens \in Seq(Characters), NewStatement(tokens)
    PROVE  /\ InOrder(executed', last_statement_pos', statement_list')
           /\ Len(statement_list') = Len(statement_list) + 1
           /\ last_statement_pos' = last_statement_pos
<1>1. /\ statement_list' = Append(statement_list, tokens)
      /\ last_statement_pos' = last_statement_pos /\ executed' = executed
  BY DEF NewStatement
<1>2. /\ statement_list \in Seq(Seq(Characters))
      /\ last_statement_pos \in 0..Len(statement_list)
      /\ InOrder(executed, last_statement_pos, statement_list)
  BY DEF InputInv, InOrder
<1>3. /\ statement_list' \in Seq(Seq(Characters))
      /\ Len(statement_list') = Len(statement_list) + 1
  BY <1>1, <1>2
<1>4. last_statement_pos' \in 0..Len(statement_list')
  BY <1>1, <1>2, <1>3
<1>5. InOrder(executed', last_statement_pos', statement_list')
  BY <1>1, <1>2, <1>3, <1>4 DEF InOrder
<1> QED
  BY <1>1, <1>3, <1>5

\* No statement is parsed or executed.
LEMMA NoneMore ==
    ASSUME InputInv, UNCHANGED statementVars
    PROVE  /\ InOrder(executed', last_statement_pos', statement_list')
           /\ statement_list' = statement_list /\ last_statement_pos' = last_statement_pos
BY DEF InputInv, statementVars

\* What an input function takes of the text in hand
LEMMA TakenIs ==
    ASSUME InputInv, ~ Exhausted, NEW max_size \in Nat
    PROVE  /\ text \in Seq(Characters) /\ text # NO_TEXT
           /\ Taken(at, max_size) \in Seq(Characters)
           /\ Len(Taken(at, max_size)) \in Nat /\ at + Len(Taken(at, max_size)) <= Len(text)
           /\ \A i \in 1..Len(Taken(at, max_size)) : Taken(at, max_size)[i] = text[at + i]
<1>1. text \in Seq(Characters) /\ text # NO_TEXT /\ at \in Nat /\ at <= Len(text)
  BY DEF InputInv, InputTypes, Exhausted
<1> DEFINE n == Smaller(Len(text) - at, max_size)
<1>2. n \in Nat /\ at + n <= Len(text)
  <2>1. Len(text) - at \in Nat /\ max_size \in Int
    BY <1>1
  <2>2. n \in {Len(text) - at, max_size} /\ n <= Len(text) - at
    BY <2>1, SmallerIs
  <2> QED
    BY <1>1, <2>1, <2>2
<1>3. Taken(at, max_size) = SubSeq(text, at + 1, at + n)
  BY DEF Taken
<1> HIDE DEF n
<1>4. /\ SubSeq(text, at + 1, at + n) \in Seq(Characters)
      /\ Len(SubSeq(text, at + 1, at + n)) = n
      /\ \A i \in 1..n : SubSeq(text, at + 1, at + n)[i] = text[at + i]
  BY <1>1, <1>2, PartIs
<1>5. PICK s : s = SubSeq(text, at + 1, at + n)
  OBVIOUS
<1>6. s \in Seq(Characters) /\ Len(s) = n /\ \A i \in 1..n : s[i] = text[at + i]
  BY <1>4, <1>5
<1>7. Taken(at, max_size) = s
  BY <1>3, <1>5
<1> QED
  BY <1>1, <1>2, <1>6, <1>7

\* Reading from a file keeps InputInv (tlexer.c:60).
LEMMA FileInputKeeps ==
    ASSUME InputInv, NEW max_size \in Nat, FileInput(max_size)
    PROVE  InputInv'
<1>1. /\ phase = "file" /\ phase' = "file" /\ file' = file /\ text' = text /\ lines' = lines
      /\ pending' = pending /\ typed' = typed /\ UNCHANGED statementVars /\ ~ Exhausted
      /\ buf' = Taken(at, max_size) /\ at' = at + Len(Taken(at, max_size))
  BY DEF FileInput, Deliver
<1>2. /\ text \in Seq(Characters) /\ text # NO_TEXT
      /\ Taken(at, max_size) \in Seq(Characters)
      /\ Len(Taken(at, max_size)) \in Nat /\ at + Len(Taken(at, max_size)) <= Len(text)
  BY <1>1, TakenIs
<1>3. InputTypes'
  BY <1>1, <1>2 DEF InputInv, InputTypes
<1>4. InOrder(executed', last_statement_pos', statement_list')
  BY <1>1, NoneMore
<1> QED
  BY <1>1, <1>3, <1>4 DEF InputInv

\* Reading from the built-in script keeps InputInv (tlexer.c:87).
LEMMA StringInputKeeps ==
    ASSUME InputInv, NEW max_size \in Nat, StringInput(max_size)
    PROVE  InputInv'
<1> DEFINE line == IF Exhausted THEN lines[1] ELSE text
           from == IF Exhausted THEN 0 ELSE at
           len == Smaller(Len(line) - from, max_size)
<1>1. /\ phase = "builtin" /\ phase' = "builtin" /\ file' = file /\ ~ (Exhausted /\ lines = << >>)
      /\ pending' = pending /\ typed' = typed /\ UNCHANGED statementVars
      /\ buf' = SubSeq(line, from + 1, from + len) /\ text' = line /\ at' = from + len
      /\ lines' = IF Exhausted THEN Tail(lines) ELSE lines
  BY DEF StringInput, Deliver
<1>2. /\ text \in Seq(Characters) \cup {NO_TEXT} /\ at \in Nat /\ lines \in Seq(Seq(Characters))
      /\ ~ Exhausted => text # NO_TEXT /\ at <= Len(text)
  BY DEF InputInv, InputTypes, Exhausted
<1>3. lines # << >> => Tail(lines) \in Seq(Seq(Characters)) /\ lines[1] \in Seq(Characters)
  BY <1>2
<1>4. line \in Seq(Characters) /\ from \in Nat /\ from <= Len(line) /\ lines' \in Seq(Seq(Characters))
  BY <1>1, <1>2, <1>3
<1> HIDE DEF line, from
<1>5. len \in Nat /\ from + len <= Len(line)
  <2>1. Len(line) - from \in Nat /\ max_size \in Int
    BY <1>4
  <2>2. len \in {Len(line) - from, max_size} /\ len <= Len(line) - from
    BY <2>1, SmallerIs
  <2> QED
    BY <1>4, <2>1, <2>2
<1> HIDE DEF len
<1>6. buf' \in Seq(Characters)
  BY <1>1, <1>4, <1>5, PartIs
<1>7. text' \in Seq(Characters) /\ at' \in Nat /\ at' <= Len(text') /\ text' # NO_TEXT
  BY <1>1, <1>4, <1>5, InputAssumption
<1>8. InputTypes'
  BY <1>1, <1>4, <1>6, <1>7 DEF InputInv, InputTypes
<1>9. InOrder(executed', last_statement_pos', statement_list')
  BY <1>1, NoneMore
<1> QED
  BY <1>1, <1>8, <1>9 DEF InputInv

\* Typing a line keeps InputInv (tlexer.c:118).
LEMMA PromptKeeps ==
    ASSUME InputInv, NEW line \in Typed \cup {NO_TEXT}, Prompt(line)
    PROVE  InputInv'
<1>1. /\ phase = "readline" /\ phase' = "readline" /\ buf = << >> /\ buf' = buf /\ Interpret
      /\ text' = IF line = << >> THEN <<NL>> ELSE line
      /\ at' = 0 /\ typed' = IF line = NO_TEXT THEN typed ELSE Append(typed, line)
      /\ file' = file /\ lines' = lines /\ pending' = pending
  BY DEF Prompt
<1>2. /\ InputTypes /\ file = NO_TEXT
  BY <1>1 DEF InputInv
<1>3. InOrder(executed', last_statement_pos', statement_list') /\ UpToDate'
  BY <1>1, Executes
<1>4. /\ text' \in Seq(Characters) \cup {NO_TEXT}
      /\ text' # NO_TEXT => OneLine(text')
  <2>1. CASE line = << >>
    <3>1. text' = <<NL>> /\ <<NL>> \in Seq(Characters) /\ Len(<<NL>>) = 1
      BY <1>1, <2>1, InputAssumption
    <3> QED
      BY <3>1 DEF OneLine
  <2>2. CASE line # << >> /\ line # NO_TEXT
    <3>1. text' = line /\ line \in Typed /\ line \in Seq(Characters)
      BY <1>1, <2>2, InputAssumption
    <3>2. \A i \in 1..Len(line) : line[i] # NL
      BY <3>1, InputAssumption
    <3> QED
      BY <3>1, <3>2 DEF OneLine
  <2>3. CASE line # << >> /\ line = NO_TEXT
    BY <1>1, <2>3
  <2> QED
    BY <2>1, <2>2, <2>3
<1>5. typed' \in Seq(Typed)
  BY <1>1, <1>2 DEF InputTypes
<1>6. InputTypes'
  BY <1>1, <1>2, <1>4, <1>5 DEF InputTypes
<1>7. OneLine(buf') /\ NoNewline(buf')
  BY <1>1 DEF OneLine, NoNewline
<1>8. Len(statement_list') <= last_statement_pos' + 1
  <2>1. Len(statement_list') \in Nat /\ last_statement_pos' \in Nat
    BY <1>3 DEF InOrder
  <2> QED
    BY <1>3, <2>1 DEF UpToDate
<1>9. LineByLine'
  BY <1>3, <1>4, <1>7, <1>8 DEF LineByLine
<1> QED
  BY <1>1, <1>2, <1>3, <1>6, <1>9 DEF InputInv

\* Reading from a typed line keeps InputInv (tlexer.c:125).
LEMMA ReadlineInputKeeps ==
    ASSUME InputInv, NEW max_size \in Nat, ReadlineInput(max_size)
    PROVE  InputInv'
<1> DEFINE chars == Taken(at, max_size)
           ends == at + Len(chars) = Len(text) /\ text[Len(text)] # NL
           room == Room(chars, max_size)
<1>1. /\ phase = "readline" /\ phase' = "readline" /\ ~ Exhausted
      /\ buf' = (IF ends /\ room THEN Append(chars, NL) ELSE chars)
      /\ text' = (IF ~ ends THEN text ELSE IF room THEN << >> ELSE <<NL>>)
      /\ at' = (IF ends THEN 0 ELSE at + Len(chars))
      /\ file' = file /\ lines' = lines /\ pending' = pending /\ typed' = typed
      /\ UNCHANGED statementVars
  BY DEF ReadlineInput, Deliver
<1>2. /\ text \in Seq(Characters) /\ text # NO_TEXT /\ chars \in Seq(Characters)
      /\ Len(chars) \in Nat /\ at + Len(chars) <= Len(text)
      /\ \A i \in 1..Len(chars) : chars[i] = text[at + i]
  BY <1>1, TakenIs
<1>3. InputTypes /\ file = NO_TEXT /\ at \in Nat /\ at < Len(text)
  <2>1. InputTypes /\ file = NO_TEXT /\ at \in Nat /\ at <= Len(text) /\ at # Len(text)
    BY <1>1, <1>2 DEF InputInv, InputTypes, Exhausted
  <2> QED
    BY <1>2, <2>1
<1>4. /\ InOrder(executed', last_statement_pos', statement_list')
      /\ statement_list' = statement_list /\ last_statement_pos' = last_statement_pos
  BY <1>1, NoneMore
<1> HIDE DEF chars, room
<1>5. <<NL>> \in Seq(Characters) /\ << >> \in Seq(Characters) /\ Len(<<NL>>) = 1 /\ NL \in Characters
  BY InputAssumption
<1>6. buf' \in Seq(Characters)
  BY <1>1, <1>2, <1>5
<1>7. text' \in Seq(Characters) /\ at' \in Nat /\ at' <= Len(text') /\ text' # NO_TEXT
  <2>1. text' \in Seq(Characters) /\ at' \in Nat /\ at' <= Len(text')
    BY <1>1, <1>2, <1>3, <1>5
  <2> QED
    BY <2>1, InputAssumption
<1>8. InputTypes'
  BY <1>1, <1>3, <1>6, <1>7 DEF InputTypes
<1>9. ASSUME typed # << >>
      PROVE  LineByLine'
  <2>1. LineByLine
    BY <1>1, <1>9 DEF InputInv
  <2>2. UpToDate' /\ Len(statement_list') <= last_statement_pos' + 1 /\ OneLine(text)
    BY <1>1, <1>2, <1>4, <2>1 DEF LineByLine, UpToDate
  <2>3. CASE ends
    <3>1. \A i \in 1..Len(text) : text[i] # NL
      BY <1>2, <2>2, <2>3 DEF OneLine
    <3>2. \A i \in 1..Len(chars) : chars[i] # NL
      <4>1. \A i \in 1..Len(chars) : at + i \in 1..Len(text)
        BY <1>2, <1>3
      <4> QED
        BY <1>2, <3>1, <4>1
    <3>3. CASE room
      <4>1. buf' = Append(chars, NL) /\ text' = << >> /\ at' = 0
        BY <1>1, <2>3, <3>3
      <4>2. Len(buf') = Len(chars) + 1 /\ \A i \in 1..Len(chars) : buf'[i] = chars[i]
        BY <1>2, <4>1
      <4>3. OneLine(buf')
        BY <1>2, <3>2, <4>2 DEF OneLine
      <4>4. OneLine(text') /\ Exhausted'
        BY <4>1 DEF OneLine, Exhausted
      <4> QED
        BY <2>2, <4>3, <4>4 DEF LineByLine
    <3>4. CASE ~ room
      <4>1. buf' = chars /\ text' = <<NL>> /\ at' = 0
        BY <1>1, <2>3, <3>4
      <4>2. NoNewline(buf') /\ OneLine(buf')
        BY <1>2, <3>2, <4>1 DEF NoNewline, OneLine
      <4>3. OneLine(text')
        BY <1>5, <4>1 DEF OneLine
      <4> QED
        BY <2>2, <4>2, <4>3 DEF LineByLine
    <3> QED
      BY <3>3, <3>4
  <2>4. CASE ~ ends
    <3>1. buf' = chars /\ text' = text /\ at' = at + Len(chars)
      BY <1>1, <2>4
    <3>2. \A i \in 1..Len(chars) : at + i < Len(text) => chars[i] # NL
      <4>1. \A i \in 1..Len(chars) : at + i < Len(text) => at + i \in 1..Len(text) - 1
        BY <1>2, <1>3
      <4> QED
        BY <1>2, <2>2, <4>1 DEF OneLine
    <3>3. OneLine(buf')
      <4>1. \A i \in 1..Len(chars) - 1 : i \in 1..Len(chars) /\ at + i < Len(text)
        BY <1>2, <1>3
      <4> QED
        BY <3>1, <3>2, <4>1 DEF OneLine
    <3>4. ~ Exhausted' => NoNewline(buf')
      <4> SUFFICES ASSUME ~ Exhausted'
                   PROVE  NoNewline(buf')
        OBVIOUS
      <4>1. at + Len(chars) # Len(text)
        BY <1>2, <3>1 DEF Exhausted
      <4>2. \A i \in 1..Len(chars) : at + i < Len(text)
        BY <1>2, <1>3, <4>1
      <4> QED
        BY <3>1, <3>2, <4>2 DEF NoNewline
    <3> QED
      BY <2>2, <3>1, <3>3, <3>4 DEF LineByLine
  <2> QED
    BY <2>3, <2>4
<1> QED
  BY <1>1, <1>3, <1>4, <1>8, <1>9 DEF InputInv

\* Scanning keeps InputInv.
LEMMA TokenKeeps == ASSUME InputInv, Token PROVE InputInv'
<1> DEFINE char == buf[1]
<1>1. /\ Parsing /\ buf # << >> /\ buf' = Tail(buf)
      /\ pending' = IF char \in {NL, BAD} THEN << >> ELSE Append(pending, char)
      /\ IF char = NL /\ ~ Faulty(pending) THEN NewStatement(pending) ELSE UNCHANGED statementVars
      /\ phase' = PhaseAfter(char) /\ file' = file
      /\ text' = text /\ at' = at /\ lines' = lines /\ typed' = typed
  BY DEF Token, sourceVars
<1>2. InputTypes
  BY DEF InputInv
<1>3. /\ buf \in Seq(Characters) /\ char \in Characters /\ pending \in Seq(Characters)
      /\ buf' \in Seq(Characters) /\ Len(buf') = Len(buf) - 1 /\ Len(buf) \in Nat /\ Len(buf) > 0
      /\ \A i \in 1..Len(buf) - 1 : buf'[i] = buf[i + 1]
  BY <1>1, <1>2, TailIs DEF InputTypes
<1>4. phase' \in {phase, "interpret", "exit"} /\ phase \in {"builtin", "file", "readline"}
  BY <1>1 DEF PhaseAfter, Parsing
<1>5. pending' \in Seq(Characters)
  BY <1>1, <1>3
<1>6. InputTypes'
  BY <1>1, <1>2, <1>3, <1>4, <1>5 DEF InputTypes, Phases
<1>7. /\ InOrder(executed', last_statement_pos', statement_list')
      /\ last_statement_pos' = last_statement_pos
      /\ IF char = NL /\ ~ Faulty(pending)
         THEN Len(statement_list') = Len(statement_list) + 1
         ELSE statement_list' = statement_list
  <2>1. CASE char = NL /\ ~ Faulty(pending)
    BY <1>1, <1>3, <2>1, OneMore
  <2>2. CASE ~ (char = NL /\ ~ Faulty(pending))
    BY <1>1, <2>2, NoneMore
  <2> QED
    BY <2>1, <2>2
<1>8. ASSUME phase' = "readline", typed' # << >>
      PROVE  LineByLine'
  <2>1. phase = "readline" /\ LineByLine
    BY <1>1, <1>4, <1>8 DEF InputInv
  <2>2. /\ text' # NO_TEXT => OneLine(text')
        /\ Exhausted' <=> Exhausted
    BY <1>1, <2>1 DEF LineByLine, Exhausted
  <2>3. last_statement_pos \in Nat /\ Len(statement_list) \in Nat
    BY DEF InputInv, InOrder
  <2>4. CASE char = NL
    <3>1. ~ NoNewline(buf)
      BY <1>3, <2>4 DEF NoNewline
    <3>2. Exhausted /\ UpToDate
      BY <2>1, <3>1 DEF LineByLine
    <3>3. Len(buf) = 1
      <4> SUFFICES ASSUME Len(buf) # 1
                   PROVE  FALSE
        OBVIOUS
      <4>1. 1 \in 1..Len(buf) - 1
        BY <1>3
      <4> QED
        BY <2>1, <2>4, <4>1 DEF LineByLine, OneLine
    <3>4. OneLine(buf') /\ NoNewline(buf')
      BY <1>3, <3>3 DEF OneLine, NoNewline
    <3>5. Len(statement_list') <= last_statement_pos' + 1
      BY <1>7, <2>3, <3>2 DEF UpToDate
    <3> QED
      BY <2>2, <3>2, <3>4, <3>5 DEF LineByLine
  <2>5. CASE char # NL
    <3>1. statement_list' = statement_list /\ last_statement_pos' = last_statement_pos
      BY <1>7, <2>5
    <3>2. OneLine(buf')
      <4> SUFFICES ASSUME NEW i \in 1..Len(buf') - 1
                   PROVE  buf'[i] # NL
        BY DEF OneLine
      <4>1. i \in 1..Len(buf) - 1 /\ i + 1 \in 1..Len(buf) - 1
        BY <1>3
      <4> QED
        BY <1>3, <2>1, <4>1 DEF LineByLine, OneLine
    <3>3. NoNewline(buf) => NoNewline(buf')
      <4> SUFFICES ASSUME NoNewline(buf), NEW i \in 1..Len(buf')
                   PROVE  buf'[i] # NL
        BY DEF NoNewline
      <4>1. i \in 1..Len(buf) - 1 /\ i + 1 \in 1..Len(buf)
        BY <1>3
      <4> QED
        BY <1>3, <4>1 DEF NoNewline
    <3> QED
      BY <2>1, <2>2, <3>1, <3>2, <3>3 DEF LineByLine, UpToDate
  <2> QED
    BY <2>4, <2>5
<1>9. phase' = "builtin" => typed' = << >>
  BY <1>1, <1>4 DEF InputInv
<1>10. phase' = "readline" => file' = NO_TEXT
  BY <1>1, <1>4 DEF InputInv
<1> QED
  BY <1>4, <1>6, <1>7, <1>8, <1>9, <1>10 DEF InputInv

\* The end of a source keeps InputInv.
LEMMA EndOfSourceKeeps == ASSUME InputInv, EndOfSource PROVE InputInv'
<1>1. /\ Parsing /\ buf = << >> /\ Exhausted /\ lines = << >>
      /\ phase = "readline" => text = NO_TEXT
      /\ IF Faulty(pending) THEN UNCHANGED statementVars ELSE NewStatement(pending)
      /\ pending' = << >> /\ file' = file /\ lines' = lines /\ buf' = buf /\ typed' = typed
      /\ phase # "builtin" => /\ phase' = (IF phase = "file" THEN "interpret" ELSE "done")
                              /\ text' = text /\ at' = at
      /\ phase = "builtin" => /\ phase' = (IF file = NO_TEXT THEN "readline" ELSE "file")
                              /\ text' = (IF file = NO_TEXT THEN <<NL>> ELSE file)
                              /\ at' = 0
  BY DEF EndOfSource
<1>2. InputTypes
  BY DEF InputInv
<1>3. phase \in {"builtin", "file", "readline"}
  BY <1>1 DEF Parsing
<1>4. InOrder(executed', last_statement_pos', statement_list')
  BY <1>1, <1>2, NoneMore, OneMore DEF InputTypes
<1>5. /\ text' \in Seq(Characters) \cup {NO_TEXT} /\ at' \in Nat
      /\ IF text' = NO_TEXT THEN at' = 0 ELSE at' <= Len(text')
  <2>1. CASE phase # "builtin"
    BY <1>1, <1>2, <2>1 DEF InputTypes
  <2>2. CASE phase = "builtin"
    <3>1. file = NO_TEXT \/ file \in Seq(Characters)
      BY <1>2, InputAssumption DEF InputTypes
    <3>2. text' \in Seq(Characters) /\ at' = 0
      <4>1. <<NL>> \in Seq(Characters)
        BY InputAssumption
      <4>2. at' = 0 /\ text' = IF file = NO_TEXT THEN <<NL>> ELSE file
        BY <1>1, <2>2
      <4> QED
        BY <3>1, <4>1, <4>2
    <3> QED
      BY <3>2
  <2> QED
    BY <2>1, <2>2
<1>6. InputTypes'
  <2>1. phase' \in Phases
    BY <1>1, <1>3 DEF Phases
  <2>2. pending' \in Seq(Characters)
    BY <1>1
  <2> QED
    BY <1>1, <1>2, <1>5, <2>1, <2>2 DEF InputTypes
<1>7. phase' # "builtin"
  BY <1>1
<1>8. phase' = "readline" => phase = "builtin" /\ file' = NO_TEXT /\ typed' = << >>
  BY <1>1 DEF InputInv
<1>9. phase' = "done" => file' = NO_TEXT
  BY <1>1, <1>3 DEF InputInv
<1> QED
  BY <1>4, <1>6, <1>7, <1>8, <1>9 DEF InputInv

\* Going on to the program keeps InputInv.
LEMMA RunProgramKeeps == ASSUME InputInv, RunProgram PROVE InputInv'
<1>1. /\ phase' = "done" /\ Interpret /\ file' = file /\ buf' = buf /\ pending' = pending
      /\ text' = text /\ at' = at /\ lines' = lines /\ typed' = typed
  BY DEF RunProgram, sourceVars
<1>2. InOrder(executed', last_statement_pos', statement_list') /\ UpToDate'
  BY <1>1, Executes
<1>3. InputTypes'
  BY <1>1 DEF InputInv, InputTypes, Phases
<1> QED
  BY <1>1, <1>2, <1>3 DEF InputInv

\* InputInv holds at the start.
LEMMA InputInvInit == ASSUME InputInit PROVE InputInv
<1>1. /\ phase = "builtin" /\ file \in Files \cup {NO_TEXT}
      /\ text = Builtin[1] /\ at = 0 /\ lines = Tail(Builtin)
      /\ buf = << >> /\ pending = << >> /\ statement_list = << >> /\ last_statement_pos = 0
      /\ typed = << >> /\ executed = << >>
  BY DEF InputInit
<1>2. text \in Seq(Characters) /\ lines \in Seq(Seq(Characters)) /\ text # NO_TEXT
  BY <1>1, InputAssumption
<1>3. InputTypes
  BY <1>1, <1>2 DEF InputTypes, Phases
<1>4. InOrder(executed, last_statement_pos, statement_list)
  BY <1>1 DEF InOrder
<1> QED
  BY <1>1, <1>3, <1>4 DEF InputInv

\* Every step keeps InputInv.
LEMMA InputStep == ASSUME InputInv, InputNext PROVE InputInv'
<1>1. CASE Input
  <2>1. PICK max_size \in BufferSizes :
            FileInput(max_size) \/ StringInput(max_size) \/ ReadlineInput(max_size)
    BY <1>1 DEF Input
  <2>2. max_size \in Nat
    BY InputAssumption
  <2> QED
    BY <2>1, <2>2, FileInputKeeps, StringInputKeeps, ReadlineInputKeeps
<1>2. CASE Token
  BY <1>2, TokenKeeps
<1>3. CASE EndOfSource
  BY <1>3, EndOfSourceKeeps
<1>4. CASE RunProgram
  BY <1>4, RunProgramKeeps
<1>5. CASE \E line \in Typed \cup {NO_TEXT} : Prompt(line)
  BY <1>5, PromptKeeps
<1> QED
  BY <1>1, <1>2, <1>3, <1>4, <1>5 DEF InputNext

\* The invariant gives RunsOnce.
LEMMA InputInvRuns == ASSUME InputInv PROVE RunsOnce
<1>1. last_statement_pos \in 0..Len(statement_list) /\ Len(statement_list) \in Nat
  BY DEF InputInv, InOrder
<1>2. InputTypeOK
  <2>1. IF text = NO_TEXT THEN at = 0 ELSE at \in 0..Len(text)
    BY DEF InputInv, InputTypes
  <2> QED
    BY <1>1, <2>1 DEF InputInv, InputTypes, InOrder, InputTypeOK
<1>3. \A i, j \in 1..Len(executed) : i < j => executed[i] < executed[j]
  BY DEF InputInv, InOrder
<1>4. phase = "readline" /\ typed # << >> => Len(statement_list) <= last_statement_pos + 1
  BY DEF InputInv, LineByLine
<1>5. phase = "done" /\ file # NO_TEXT => last_statement_pos = Len(statement_list)
  BY <1>1 DEF InputInv, UpToDate
<1> QED
  BY <1>2, <1>3, <1>4, <1>5 DEF RunsOnce

\* Every step keeps the invariant.
LEMMA InputAgain ==
    ASSUME InputInv, [InputNext]_inputVars
    PROVE  InputInv'
<1>1. CASE InputNext
  BY <1>1, InputStep
<1>2. CASE UNCHANGED inputVars
  <2>1. /\ phase' = phase /\ file' = file /\ text' = text /\ at' = at /\ lines' = lines
        /\ buf' = buf /\ pending' = pending /\ statement_list' = statement_list
        /\ last_statement_pos' = last_statement_pos /\ typed' = typed /\ executed' = executed
    BY <1>2 DEF inputVars
  <2>2. InputTypes'
    BY <2>1 DEF InputInv, InputTypes
  <2>3. LineByLine => LineByLine'
    BY <2>1 DEF LineByLine, UpToDate, Exhausted
  <2> QED
    BY <2>1, <2>2, <2>3 DEF InputInv, UpToDate
<1> QED
  BY <1>1, <1>2

\* CRB_interpret executes every statement at most once and in its order, whatever
\* is typed and read, however the buffer cuts it, and after errors too; and it has
\* had all statements before the next line is asked for (statement_list and
\* last_statement_pos in tinterpreter.c).
THEOREM StatementsRunOnce == InputSpec => []RunsOnce
<1>1. InputInit => InputInv
  BY InputInvInit
<1>2. InputInv /\ [InputNext]_inputVars => InputInv'
  BY InputAgain
<1>3. InputInv => RunsOnce
  BY InputInvRuns
<1> QED
  BY <1>1, <1>2, <1>3, PTL DEF InputSpec

-----------------------------------------------------------------------------
(* Source text and the scanner: the rest of CrbInput.  CharInv accounts for *)
(* every character and every line.                                         *)

\* The characters of a text from a place on
From(t, a) == SubSeq(t, a + 1, Len(t))

\* A text is used up.
Used(t, a) == IF t = NO_TEXT THEN TRUE ELSE a = Len(t)

\* What is outstanding, the characters of the source, and the history
OutOf(ph, t, a, ls) ==
    LET rest == IF Used(t, a) THEN << >> ELSE From(t, a) IN
    (IF ph = "readline" /\ rest # << >> THEN Line(rest) ELSE rest) \o FlattenSeq(ls)

LinesOf(ts) == FlattenSeq([i \in 1..Len(ts) |-> Line(ts[i])])

WholeOf(ph, ts, f) == CASE ph = "builtin" -> FlattenSeq(Builtin)
                        [] ph = "readline" -> <<NL>> \o LinesOf(ts)
                        [] OTHER -> f

KeptOf(ts) == FlattenSeq([i \in 1..Len(ts) |-> IF ts[i] = << >> THEN << >> ELSE <<ts[i]>>])

Fits(b) == \E max_size \in BufferSizes : Len(b) <= max_size

\* The line in hand enters the history when it is used up; the newline of an empty
\* line, or one that found no room, does not.
HistoryOf(t, a, ts, h) ==
    IF Used(t, a) THEN h = KeptOf(ts)
    ELSE \/ t = <<NL>> /\ h = KeptOf(ts)
         \/ t \in Typed /\ Append(h, t) = KeptOf(ts)

CharInv ==
    /\ delivered \in Seq(Characters)
    /\ Parsing => /\ delivered \o OutOf(phase, text, at, lines) = WholeOf(phase, typed, file)
                  /\ Fits(buf)
    /\ phase \in {"builtin", "file"} => typed = << >> /\ history = << >>
    /\ phase \in {"file", "readline"} => lines = << >>
    /\ phase = "readline" => history \in Seq(Typed) /\ HistoryOf(text, at, typed, history)

\* Parts of a text
LEMMA FromIs ==
    ASSUME NEW t \in Seq(Characters), NEW a \in Nat, a <= Len(t)
    PROVE  /\ From(t, a) \in Seq(Characters) /\ Len(From(t, a)) = Len(t) - a
           /\ a = Len(t) => From(t, a) = << >>
           /\ a < Len(t) => From(t, a) # << >> /\ From(t, a)[Len(From(t, a))] = t[Len(t)]
<1>1. PICK u : u = From(t, a)
  OBVIOUS
<1>2. /\ u \in Seq(Characters) /\ Len(u) = Len(t) - a
      /\ \A i \in 1..(Len(t) - a) : u[i] = t[a + i]
  BY <1>1 DEF From
<1>3. a = Len(t) => u = << >>
  BY <1>2
<1>4. a < Len(t) => u # << >> /\ u[Len(u)] = t[Len(t)]
  <2> SUFFICES ASSUME a < Len(t)
               PROVE  u # << >> /\ u[Len(u)] = t[Len(t)]
    OBVIOUS
  <2>1. Len(t) - a \in 1..(Len(t) - a) /\ a + (Len(t) - a) = Len(t)
    OBVIOUS
  <2>. QED BY <1>2, <2>1
<1>. QED BY <1>1, <1>2, <1>3, <1>4

\* The rest of a text from its start is the text.
LEMMA FromStart ==
    ASSUME NEW t \in Seq(Characters)
    PROVE  From(t, 0) = t
<1>1. From(t, 0) = SubSeq(t, 1, Len(t))
  BY DEF From
<1>. QED BY <1>1, SubSeqFull

\* A rest is its first n characters and the rest behind them.
LEMMA FromSplit ==
    ASSUME NEW t \in Seq(Characters), NEW a \in Nat, NEW n \in Nat, a + n <= Len(t)
    PROVE  SubSeq(t, a + 1, a + n) \o From(t, a + n) = From(t, a)
<1>1. /\ a + 1 \in 1..Len(t) + 1 /\ a + n \in (a + 1) - 1..Len(t)
      /\ Len(t) \in a + n..Len(t)
  OBVIOUS
<1>2. SubSeq(t, a + 1, a + n) \o SubSeq(t, (a + n) + 1, Len(t)) = SubSeq(t, a + 1, Len(t))
  BY <1>1, ConcatAdjacentSubSeq
<1>. QED BY <1>2 DEF From

\* A line with its newline
LEMMA LineIs ==
    ASSUME NEW x \in Seq(Characters)
    PROVE  /\ Line(x) \in Seq(Characters)
           /\ x = << >> => Line(x) = <<NL>>
           /\ x # << >> => IF x[Len(x)] = NL THEN Line(x) = x ELSE Line(x) = x \o <<NL>>
<1>1. NL \in Characters
  BY InputAssumption
<1>2. Append(x, NL) = x \o <<NL>> /\ Append(x, NL) \in Seq(Characters)
  BY <1>1, AppendIsConcat
<1>3. Append(<< >>, NL) = <<NL>>
  OBVIOUS
<1>. QED BY <1>2, <1>3 DEF Line

\* The newline a line lacks is at its end, whatever is in front.
LEMMA LineBehind ==
    ASSUME NEW x \in Seq(Characters), NEW y \in Seq(Characters), y # << >>
    PROVE  Line(x \o y) = x \o Line(y)
<1>1. PICK z : z = x \o y
  OBVIOUS
<1>2. z \in Seq(Characters) /\ z # << >> /\ z[Len(z)] = y[Len(y)]
  <2>1. /\ z \in Seq(Characters) /\ Len(z) = Len(x) + Len(y)
        /\ \A i \in 1..Len(x) + Len(y) : z[i] = IF i <= Len(x) THEN x[i] ELSE y[i - Len(x)]
    BY <1>1, ConcatProperties
  <2>2. Len(x) \in Nat /\ Len(y) \in Nat /\ Len(y) # 0
    OBVIOUS
  <2>3. Len(z) \in 1..Len(x) + Len(y) /\ ~ (Len(z) <= Len(x)) /\ Len(z) - Len(x) = Len(y)
    BY <2>1, <2>2
  <2>. QED BY <2>1, <2>3
<1>3. CASE y[Len(y)] = NL
  BY <1>1, <1>2, <1>3, LineIs
<1>4. CASE y[Len(y)] # NL
  <2>1. Line(z) = z \o <<NL>> /\ Line(y) = y \o <<NL>>
    BY <1>2, <1>4, LineIs
  <2>2. Joined(x, y, <<NL>>)
    <3>1. <<NL>> \in Seq(Characters)
      BY InputAssumption
    <3>. QED BY <3>1, Joins
  <2>. QED BY <1>1, <2>1, <2>2 DEF Joined
<1>. QED BY <1>3, <1>4

\* One more line
LEMMA LinesOne ==
    ASSUME NEW ts \in Seq(Seq(Characters)), NEW x \in Seq(Characters)
    PROVE  /\ LinesOf(ts) \in Seq(Characters)
           /\ LinesOf(Append(ts, x)) = LinesOf(ts) \o Line(x)
<1> DEFINE of(us) == [i \in 1..Len(us) |-> Line(us[i])]
<1>1. \A i \in 1..Len(ts) : Line(ts[i]) \in Seq(Characters)
  <2>1. \A y \in Seq(Characters) : Line(y) \in Seq(Characters)
    BY LineIs
  <2>. QED BY <2>1
<1>2. Line(x) \in Seq(Characters)
  BY LineIs
<1>3. PICK us : us = Append(ts, x)
  OBVIOUS
<1>4. /\ us \in Seq(Seq(Characters)) /\ Len(us) = Len(ts) + 1 /\ Len(ts) \in Nat
      /\ \A i \in 1..Len(ts) : us[i] = ts[i]
      /\ us[Len(ts) + 1] = x
  BY <1>3
<1>5. /\ of(ts) \in Seq(Seq(Characters)) /\ Len(of(ts)) = Len(ts)
      /\ \A i \in 1..Len(ts) : of(ts)[i] = Line(ts[i])
  BY <1>1, <1>4
<1>6. PICK v : v = of(ts)
  OBVIOUS
<1>7. PICK w : w = Append(v, Line(x))
  OBVIOUS
<1>8. /\ v \in Seq(Seq(Characters)) /\ Len(v) = Len(ts)
      /\ \A i \in 1..Len(ts) : v[i] = Line(ts[i])
  BY <1>5, <1>6
<1>9. w \in Seq(Seq(Characters)) /\ Len(w) = Len(us) /\ \A i \in 1..Len(us) : w[i] = Line(us[i])
  <2>1. /\ w \in Seq(Seq(Characters)) /\ Len(w) = Len(v) + 1
        /\ \A i \in 1..Len(v) : w[i] = v[i]
        /\ w[Len(v) + 1] = Line(x)
    BY <1>2, <1>7, <1>8, AppendProperties
  <2>2. \A i \in 1..Len(us) : i = Len(ts) + 1 \/ i \in 1..Len(ts)
    BY <1>4
  <2>. QED BY <1>4, <1>8, <2>1, <2>2
<1>10. w = of(us)
  BY <1>9
<1>11. FlattenSeq(v) \in Seq(Characters) /\ FlattenSeq(w) = FlattenSeq(v) \o Line(x)
  BY <1>2, <1>7, <1>8, FlatAppend
<1>. QED BY <1>3, <1>6, <1>10, <1>11 DEF LinesOf

\* The history with one more line, unless it is empty
LEMMA KeptOne ==
    ASSUME NEW ts \in Seq(Typed), NEW x \in Typed
    PROVE  /\ KeptOf(ts) \in Seq(Typed)
           /\ KeptOf(Append(ts, x)) = IF x = << >> THEN KeptOf(ts) ELSE Append(KeptOf(ts), x)
<1> DEFINE one(y) == IF y = << >> THEN << >> ELSE <<y>>
           of(us) == [i \in 1..Len(us) |-> one(us[i])]
<1>1. \A y \in Typed : one(y) \in Seq(Typed)
  OBVIOUS
<1>2. x = << >> => one(x) = << >>
  OBVIOUS
<1>3. x # << >> => one(x) = <<x>>
  OBVIOUS
<1>4. KeptOf(ts) = FlattenSeq(of(ts)) /\ KeptOf(Append(ts, x)) = FlattenSeq(of(Append(ts, x)))
  BY DEF KeptOf
<1>5. PICK us : us = Append(ts, x)
  OBVIOUS
<1>6. /\ us \in Seq(Typed) /\ Len(us) = Len(ts) + 1 /\ Len(ts) \in Nat
      /\ \A i \in 1..Len(ts) : us[i] = ts[i] /\ ts[i] \in Typed
      /\ us[Len(ts) + 1] = x
  BY <1>5
<1>7. PICK o : o = one(x)
  OBVIOUS
<1> HIDE DEF one
<1>8. PICK v : v = of(ts)
  OBVIOUS
<1>9. PICK w : w = Append(v, o)
  OBVIOUS
<1>10. /\ v \in Seq(Seq(Typed)) /\ Len(v) = Len(ts)
       /\ \A i \in 1..Len(ts) : v[i] = one(ts[i])
  BY <1>1, <1>6, <1>8
<1>11. o \in Seq(Typed)
  BY <1>1, <1>7
<1>12. w \in Seq(Seq(Typed)) /\ Len(w) = Len(us) /\ \A i \in 1..Len(us) : w[i] = one(us[i])
  <2>1. /\ w \in Seq(Seq(Typed)) /\ Len(w) = Len(v) + 1
        /\ \A i \in 1..Len(v) : w[i] = v[i]
        /\ w[Len(v) + 1] = o
    BY <1>9, <1>10, <1>11, AppendProperties
  <2>2. \A i \in 1..Len(us) : i = Len(ts) + 1 \/ i \in 1..Len(ts)
    BY <1>6
  <2>. QED BY <1>6, <1>7, <1>10, <2>1, <2>2
<1>13. w = of(us)
  BY <1>12
<1>14. FlattenSeq(v) \in Seq(Typed) /\ FlattenSeq(w) = FlattenSeq(v) \o o
  BY <1>9, <1>10, <1>11, FlatAppend
<1>15. KeptOf(ts) = FlattenSeq(v) /\ KeptOf(Append(ts, x)) = FlattenSeq(w)
  BY <1>4, <1>5, <1>8, <1>13
<1>16. PICK k : k = FlattenSeq(v)
  OBVIOUS
<1>17. k \in Seq(Typed) /\ k \o << >> = k /\ k \o <<x>> = Append(k, x)
  <2>1. k \in Seq(Typed)
    BY <1>14, <1>16
  <2>. QED BY <2>1, ConcatEmptySeq, AppendIsConcat
<1>. QED BY <1>2, <1>3, <1>7, <1>14, <1>15, <1>16, <1>17

\* What is outstanding when no line was typed, when the text is used up, and in a line
LEMMA OutPlain ==
    ASSUME NEW t \in Seq(Characters), NEW a \in Nat, a <= Len(t), NEW ph, ph # "readline",
           NEW ls \in Seq(Seq(Characters))
    PROVE  OutOf(ph, t, a, ls) = From(t, a) \o FlattenSeq(ls)
<1>1. t # NO_TEXT
  BY InputAssumption
<1>2. Used(t, a) => From(t, a) = << >>
  BY <1>1, FromIs DEF Used
<1>. QED BY <1>2 DEF OutOf

\* A text that is used up has nothing outstanding.
LEMMA OutUsed ==
    ASSUME NEW t, NEW a, Used(t, a), NEW ph, NEW ls \in Seq(Seq(Characters))
    PROVE  OutOf(ph, t, a, ls) = FlattenSeq(ls)
<1>1. FlattenSeq(ls) \in Seq(Characters)
  <2>1. << >> \in Seq(Characters)
    OBVIOUS
  <2>. QED BY <2>1, FlatAppend
<1>2. << >> \o FlattenSeq(ls) = FlattenSeq(ls)
  BY <1>1, ConcatEmptySeq
<1>. QED BY <1>2 DEF OutOf

\* Of a line in hand, the rest and its newline are outstanding.
LEMMA OutLine ==
    ASSUME NEW t \in Seq(Characters), NEW a \in Nat, a < Len(t)
    PROVE  OutOf("readline", t, a, << >>) = Line(From(t, a)) /\ ~ Used(t, a)
<1>1. ~ Used(t, a)
  BY InputAssumption DEF Used
<1>2. From(t, a) \in Seq(Characters) /\ From(t, a) # << >>
  BY FromIs
<1>3. OutOf("readline", t, a, << >>) = Line(From(t, a)) \o << >>
  BY <1>1, <1>2, FlatNone DEF OutOf
<1>4. Line(From(t, a)) \in Seq(Characters)
  BY <1>2, LineIs
<1>. QED BY <1>1, <1>3, <1>4, ConcatEmptySeq

\* Nothing is outstanding when everything is used up.
LEMMA OutNone ==
    ASSUME NEW t, NEW a, Used(t, a), NEW ph
    PROVE  OutOf(ph, t, a, << >>) = << >>
<1>1. << >> \in Seq(Seq(Characters))
  OBVIOUS
<1>2. OutOf(ph, t, a, << >>) = FlattenSeq(<< >>)
  BY <1>1, OutUsed
<1>. QED BY <1>2, FlatNone

\* Characters that are taken from the text in hand
Moves(d, t, a, n, ph, ls) ==
    (d \o SubSeq(t, a + 1, a + n)) \o OutOf(ph, t, a + n, ls) = d \o OutOf(ph, t, a, ls)

\* What is delivered is no longer outstanding.
LEMMA Takes ==
    ASSUME NEW d \in Seq(Characters), NEW t \in Seq(Characters), NEW a \in Nat, NEW n \in Nat,
           a + n <= Len(t), NEW ph, ph # "readline", NEW ls \in Seq(Seq(Characters))
    PROVE  Moves(d, t, a, n, ph, ls)
<1>1. PICK c : c = SubSeq(t, a + 1, a + n)
  OBVIOUS
<1>2. PICK b : b = From(t, a + n)
  OBVIOUS
<1>3. PICK f : f = FlattenSeq(ls)
  OBVIOUS
<1>4. c \in Seq(Characters)
  BY <1>1, PartIs
<1>5. b \in Seq(Characters) /\ a + n \in Nat /\ a <= Len(t)
  BY <1>2, FromIs
<1>6. f \in Seq(Characters)
  <2>1. << >> \in Seq(Characters)
    OBVIOUS
  <2>. QED BY <1>3, <2>1, FlatAppend
<1>7. c \o b = From(t, a)
  BY <1>1, <1>2, FromSplit
<1>8. OutOf(ph, t, a + n, ls) = b \o f
  BY <1>2, <1>3, <1>5, OutPlain
<1>9. OutOf(ph, t, a, ls) = (c \o b) \o f
  <2>1. OutOf(ph, t, a, ls) = From(t, a) \o FlattenSeq(ls)
    BY <1>5, OutPlain
  <2>. QED BY <1>3, <1>7, <2>1
<1>10. PICK g : g = b \o f
  OBVIOUS
<1>11. g \in Seq(Characters)
  BY <1>5, <1>6, <1>10, ConcatProperties
<1>12. Joined(c, b, f) /\ Joined(d, c, g)
  BY <1>4, <1>5, <1>6, <1>11, Joins
<1>. QED BY <1>1, <1>8, <1>9, <1>10, <1>12 DEF Joined, Moves

\* The next line of the built-in script
LEMMA NextLine ==
    ASSUME NEW t, NEW a, Used(t, a), NEW ls \in Seq(Seq(Characters)), ls # << >>,
           NEW ph, ph # "readline"
    PROVE  OutOf(ph, ls[1], 0, Tail(ls)) = OutOf(ph, t, a, ls)
<1>1. PICK x : x = ls[1]
  OBVIOUS
<1>2. PICK r : r = Tail(ls)
  OBVIOUS
<1>3. x \in Seq(Characters) /\ 0 <= Len(x) /\ r \in Seq(Seq(Characters))
  BY <1>1, <1>2
<1>4. OutOf(ph, t, a, ls) = FlattenSeq(ls)
  BY OutUsed
<1>5. FlattenSeq(ls) = x \o FlattenSeq(r)
  BY <1>1, <1>2, FlatHead
<1>6. OutOf(ph, x, 0, r) = From(x, 0) \o FlattenSeq(r)
  BY <1>3, OutPlain
<1>. QED BY <1>1, <1>2, <1>3, <1>4, <1>5, <1>6, FromStart

\* What an input function takes, as a part of the text
LEMMA TakenPart ==
    ASSUME InputInv, ~ Exhausted, NEW max_size \in Nat
    PROVE  \E n \in Nat : /\ n <= max_size /\ at + n <= Len(text)
                          /\ Taken(at, max_size) = SubSeq(text, at + 1, at + n)
                          /\ Len(Taken(at, max_size)) = n
<1>1. text \in Seq(Characters) /\ text # NO_TEXT /\ at \in Nat /\ at <= Len(text)
  BY DEF InputInv, InputTypes, Exhausted
<1>2. Len(text) - at \in Nat
  BY <1>1
<1>3. PICK n : n = Smaller(Len(text) - at, max_size)
  OBVIOUS
<1>4. n \in Nat /\ n <= max_size /\ at + n <= Len(text)
  <2>1. n \in {Len(text) - at, max_size} /\ n <= Len(text) - at /\ n <= max_size
    BY <1>2, <1>3, SmallerIs
  <2>. QED BY <1>1, <1>2, <2>1
<1>5. Taken(at, max_size) = SubSeq(text, at + 1, at + n)
  BY <1>3 DEF Taken
<1>6. Len(SubSeq(text, at + 1, at + n)) = n
  BY <1>1, <1>4, PartIs
<1>. QED BY <1>4, <1>5, <1>6

\* Reading from a file keeps CharInv.
LEMMA FileInputChars ==
    ASSUME InputInv, CharInv, NEW max_size \in BufferSizes, FileInput(max_size)
    PROVE  CharInv'
<1>1. /\ phase = "file" /\ phase' = phase /\ file' = file /\ text' = text /\ lines' = lines
      /\ typed' = typed /\ history' = history /\ ~ Exhausted
      /\ buf' = Taken(at, max_size) /\ at' = at + Len(Taken(at, max_size))
      /\ delivered' = delivered \o Taken(at, max_size)
  BY DEF FileInput, Deliver
<1>2. /\ text \in Seq(Characters) /\ at \in Nat /\ max_size \in Nat
      /\ delivered \in Seq(Characters)
  BY <1>1, InputAssumption DEF InputInv, InputTypes, Exhausted, CharInv
<1>3. PICK n \in Nat : /\ n <= max_size /\ at + n <= Len(text)
                       /\ Taken(at, max_size) = SubSeq(text, at + 1, at + n)
                       /\ Len(Taken(at, max_size)) = n
  BY <1>1, <1>2, TakenPart
<1>4. PICK c : c = SubSeq(text, at + 1, at + n)
  OBVIOUS
<1>5. c \in Seq(Characters) /\ Len(c) = n
  BY <1>2, <1>3, <1>4, PartIs
<1>6. buf' = c /\ at' = at + n /\ delivered' = delivered \o c
  BY <1>1, <1>3, <1>4
<1>7. /\ lines = << >> /\ << >> \in Seq(Seq(Characters)) /\ typed = << >> /\ history = << >>
      /\ delivered \o OutOf(phase, text, at, lines) = WholeOf(phase, typed, file)
  BY <1>1 DEF CharInv, Parsing
<1>8. (delivered \o c) \o OutOf(phase, text, at + n, lines) = delivered \o OutOf(phase, text, at, lines)
  <2>1. phase # "readline" /\ lines \in Seq(Seq(Characters))
    BY <1>1, <1>7
  <2>2. Moves(delivered, text, at, n, phase, lines)
    BY <1>2, <1>3, <2>1, Takes
  <2>. QED BY <1>4, <2>2 DEF Moves
<1>9. delivered' \o OutOf(phase', text', at', lines') = WholeOf(phase', typed', file')
  BY <1>1, <1>6, <1>7, <1>8
<1>10. delivered' \in Seq(Characters)
  BY <1>2, <1>5, <1>6, ConcatProperties
<1>11. Fits(buf')
  BY <1>3, <1>5, <1>6 DEF Fits
<1>. QED BY <1>1, <1>7, <1>9, <1>10, <1>11 DEF CharInv

\* Reading from the built-in script keeps CharInv.
LEMMA StringInputChars ==
    ASSUME InputInv, CharInv, NEW max_size \in BufferSizes, StringInput(max_size)
    PROVE  CharInv'
<1>1. PICK line : line = IF Exhausted THEN lines[1] ELSE text
  OBVIOUS
<1>2. PICK from : from = IF Exhausted THEN 0 ELSE at
  OBVIOUS
<1>3. PICK len : len = Smaller(Len(line) - from, max_size)
  OBVIOUS
<1>4. PICK c : c = SubSeq(line, from + 1, from + len)
  OBVIOUS
<1>5. PICK rest : rest = IF Exhausted THEN Tail(lines) ELSE lines
  OBVIOUS
<1>6. /\ phase = "builtin" /\ phase' = phase /\ file' = file /\ typed' = typed
      /\ history' = history /\ buf' = c /\ text' = line /\ at' = from + len /\ lines' = rest
      /\ delivered' = delivered \o c /\ ~ (Exhausted /\ lines = << >>)
  BY <1>1, <1>2, <1>3, <1>4, <1>5 DEF StringInput, Deliver
<1>7. /\ lines \in Seq(Seq(Characters)) /\ max_size \in Nat /\ delivered \in Seq(Characters)
      /\ at \in Nat /\ typed = << >> /\ history = << >>
      /\ ~ Exhausted => text \in Seq(Characters) /\ at <= Len(text)
      /\ delivered \o OutOf(phase, text, at, lines) = WholeOf(phase, typed, file)
  BY <1>6, InputAssumption DEF InputInv, InputTypes, Exhausted, CharInv, Parsing
<1>8. /\ line \in Seq(Characters) /\ from \in Nat /\ from <= Len(line)
      /\ rest \in Seq(Seq(Characters))
  <2>1. CASE Exhausted
    <3>1. lines # << >>
      BY <1>6, <2>1
    <3>2. lines[1] \in Seq(Characters) /\ Tail(lines) \in Seq(Seq(Characters))
      BY <1>7, <3>1
    <3>. QED BY <1>1, <1>2, <1>5, <2>1, <3>2
  <2>2. CASE ~ Exhausted
    BY <1>1, <1>2, <1>5, <1>7, <2>2
  <2>. QED BY <2>1, <2>2
<1>9. len \in Nat /\ len <= max_size /\ from + len <= Len(line)
  <2>1. Len(line) - from \in Nat
    BY <1>8
  <2>2. len \in {Len(line) - from, max_size} /\ len <= Len(line) - from /\ len <= max_size
    BY <1>3, <1>7, <2>1, SmallerIs
  <2>. QED BY <1>7, <1>8, <2>1, <2>2
<1>10. c \in Seq(Characters) /\ Len(c) = len
  BY <1>4, <1>8, <1>9, PartIs
<1>11. (delivered \o c) \o OutOf(phase, line, from + len, rest) = delivered \o OutOf(phase, line, from, rest)
  <2>1. phase # "readline"
    BY <1>6
  <2>2. Moves(delivered, line, from, len, phase, rest)
    BY <1>7, <1>8, <1>9, <2>1, Takes
  <2>. QED BY <1>4, <2>2 DEF Moves
<1>12. OutOf(phase, line, from, rest) = OutOf(phase, text, at, lines)
  <2>1. CASE Exhausted
    <3>1. Used(text, at) /\ lines # << >> /\ line = lines[1] /\ from = 0 /\ rest = Tail(lines)
      BY <1>1, <1>2, <1>5, <1>6, <2>1 DEF Exhausted, Used
    <3>. QED BY <1>6, <1>7, <3>1, NextLine
  <2>2. CASE ~ Exhausted
    BY <1>1, <1>2, <1>5, <2>2
  <2>. QED BY <2>1, <2>2
<1>13. delivered' \o OutOf(phase', text', at', lines') = WholeOf(phase', typed', file')
  BY <1>6, <1>7, <1>11, <1>12
<1>14. delivered' \in Seq(Characters)
  BY <1>6, <1>7, <1>10, ConcatProperties
<1>15. Fits(buf')
  BY <1>6, <1>9, <1>10 DEF Fits
<1>. QED BY <1>6, <1>7, <1>13, <1>14, <1>15 DEF CharInv

\* Scanning keeps CharInv.
LEMMA TokenChars ==
    ASSUME InputInv, CharInv, Token
    PROVE  CharInv'
<1>1. /\ Parsing /\ buf # << >> /\ buf' = Tail(buf) /\ phase' = PhaseAfter(buf[1])
      /\ file' = file /\ delivered' = delivered /\ text' = text /\ at' = at /\ lines' = lines
      /\ typed' = typed /\ history' = history
  BY DEF Token, sourceVars
<1>2. phase' \in {phase, "interpret", "exit"}
  BY <1>1 DEF PhaseAfter
<1>3. buf \in Seq(Characters) /\ Fits(buf)
  BY <1>1 DEF InputInv, InputTypes, CharInv
<1>4. Fits(buf')
  <2>1. Len(buf') \in Nat /\ Len(buf) \in Nat /\ Len(buf') <= Len(buf)
    BY <1>1, <1>3
  <2>2. PICK max_size \in BufferSizes : Len(buf) <= max_size
    BY <1>3 DEF Fits
  <2>3. max_size \in Nat
    BY InputAssumption
  <2>4. Len(buf') <= max_size
    BY <2>1, <2>2, <2>3
  <2>. QED BY <2>4 DEF Fits
<1>. QED BY <1>1, <1>2, <1>4 DEF CharInv, Parsing

\* Going on to the program keeps CharInv.
LEMMA RunProgramChars ==
    ASSUME CharInv, RunProgram
    PROVE  CharInv'
<1>1. phase' = "done" /\ delivered' = delivered
  BY DEF RunProgram
<1>. QED BY <1>1 DEF CharInv, Parsing

\* A step that does nothing keeps CharInv.
LEMMA SameChars ==
    ASSUME CharInv, UNCHANGED inputVars
    PROVE  CharInv'
BY DEF inputVars, CharInv, Parsing

\* Without lines nothing is typed or kept.
LEMMA NoLines == LinesOf(<< >>) = << >> /\ KeptOf(<< >>) = << >>
<1>1. [i \in 1..Len(<< >>) |-> Line(<< >>[i])] = << >>
  OBVIOUS
<1>2. [i \in 1..Len(<< >>) |-> IF << >>[i] = << >> THEN << >> ELSE << << >>[i]>>] = << >>
  OBVIOUS
<1>. QED BY <1>1, <1>2, FlatNone DEF LinesOf, KeptOf

\* Reading from a typed line keeps CharInv: the line ends with one newline, in this buffer or the next.
LEMMA ReadlineInputChars ==
    ASSUME InputInv, CharInv, NEW max_size \in BufferSizes, ReadlineInput(max_size)
    PROVE  CharInv'
<1> DEFINE chars == Taken(at, max_size)
           ends == at + Len(chars) = Len(text) /\ text[Len(text)] # NL
           room == Room(chars, max_size)
<1>1. /\ phase = "readline" /\ phase' = "readline" /\ ~ Exhausted
      /\ buf' = (IF ends /\ room THEN Append(chars, NL) ELSE chars)
      /\ delivered' = delivered \o (IF ends /\ room THEN Append(chars, NL) ELSE chars)
      /\ text' = (IF ~ ends THEN text ELSE IF room THEN << >> ELSE <<NL>>)
      /\ at' = (IF ends THEN 0 ELSE at + Len(chars))
      /\ history' = (IF ends THEN Append(history, text) ELSE history)
      /\ file' = file /\ lines' = lines /\ typed' = typed
  BY DEF ReadlineInput, Deliver
<1>2. /\ text \in Seq(Characters) /\ at \in Nat /\ max_size \in Nat /\ at < Len(text)
      /\ delivered \in Seq(Characters) /\ ~ Used(text, at) /\ lines = << >>
  <2>1. /\ text \in Seq(Characters) /\ at \in Nat /\ max_size \in Nat /\ at <= Len(text)
        /\ at # Len(text) /\ delivered \in Seq(Characters) /\ lines = << >>
    BY <1>1, InputAssumption DEF InputInv, InputTypes, Exhausted, CharInv
  <2>2. ~ Used(text, at)
    BY <1>1 DEF Exhausted, Used
  <2>. QED BY <2>1, <2>2
<1>3. /\ history \in Seq(Typed) /\ delivered \o OutOf("readline", text, at, << >>) = WholeOf("readline", typed, file)
      /\ \/ text = <<NL>> /\ history = KeptOf(typed)
         \/ text \in Typed /\ Append(history, text) = KeptOf(typed)
  BY <1>1, <1>2 DEF CharInv, Parsing, HistoryOf
<1>4. PICK n \in Nat : /\ n <= max_size /\ at + n <= Len(text)
                       /\ chars = SubSeq(text, at + 1, at + n) /\ Len(chars) = n
  BY <1>1, <1>2, TakenPart
<1>5. PICK c : c = chars
  OBVIOUS
<1>6. room <=> n < max_size
  BY <1>4 DEF Room
<1> HIDE DEF chars, room
<1>7. c = SubSeq(text, at + 1, at + n) /\ c \in Seq(Characters) /\ Len(c) = n
  BY <1>2, <1>4, <1>5, PartIs
<1>8. c \o From(text, at + n) = From(text, at)
  BY <1>2, <1>4, <1>7, FromSplit
<1>9. OutOf("readline", text, at, << >>) = Line(From(text, at))
  BY <1>2, OutLine
<1>10. /\ From(text, at) \in Seq(Characters) /\ From(text, at) # << >>
       /\ From(text, at)[Len(From(text, at))] = text[Len(text)]
       /\ at + n \in Nat
  BY <1>2, FromIs
<1>11. <<NL>> \in Seq(Characters) /\ << >> \in Seq(Characters) /\ Len(<<NL>>) = 1 /\ NL \in Characters
       /\ <<NL>>[1] = NL
  BY InputAssumption
<1>12. PICK d : d = delivered
  OBVIOUS
<1>13. d \in Seq(Characters)
  BY <1>2, <1>12
<1>14. CASE at + n = Len(text)
  <2>1. From(text, at + n) = << >>
    BY <1>2, <1>10, <1>14, FromIs
  <2>2. From(text, at) = c
    BY <1>7, <1>8, <2>1, ConcatEmptySeq
  <2>3. c # << >> /\ c[Len(c)] = text[Len(text)]
    BY <1>10, <2>2
  <2>4. d \o Line(c) = WholeOf("readline", typed, file)
    BY <1>3, <1>9, <1>12, <2>2
  <2>5. CASE text[Len(text)] = NL
    <3>1. ~ ends
      BY <2>5
    <3>2. buf' = c /\ delivered' = d \o c /\ text' = text /\ at' = at + n /\ history' = history
      BY <1>1, <1>4, <1>5, <1>12, <3>1
    <3>3. Used(text', at')
      BY <1>14, <3>2 DEF Used
    <3>4. OutOf("readline", text', at', << >>) = << >>
      BY <3>3, OutNone
    <3>5. Line(c) = c
      BY <1>7, <2>3, <2>5, LineIs
    <3>6. d \o c \in Seq(Characters) /\ (d \o c) \o << >> = d \o c
      <4>1. d \o c \in Seq(Characters)
        BY <1>7, <1>13, ConcatProperties
      <4>. QED BY <4>1, ConcatEmptySeq
    <3>7. ~ (text \in Typed)
      <4>1. Len(text) \in 1..Len(text)
        BY <1>2
      <4>. QED BY <2>5, <4>1, InputAssumption
    <3>8. HistoryOf(text', at', typed', history')
      BY <1>1, <1>3, <3>2, <3>3, <3>7 DEF HistoryOf
    <3>9. Fits(buf')
      BY <1>4, <1>7, <3>2 DEF Fits
    <3>10. delivered' \o OutOf("readline", text', at', << >>) = WholeOf("readline", typed, file)
      BY <2>4, <3>2, <3>4, <3>5, <3>6
    <3>. QED BY <1>1, <1>2, <1>3, <3>2, <3>6, <3>8, <3>9, <3>10 DEF CharInv
  <2>6. CASE text[Len(text)] # NL /\ n < max_size
    <3>1. ends /\ room
      BY <1>4, <1>6, <1>14, <2>6
    <3>2. /\ buf' = Append(c, NL) /\ delivered' = d \o Append(c, NL) /\ text' = << >> /\ at' = 0
          /\ history' = Append(history, text)
      BY <1>1, <1>5, <1>12, <3>1
    <3>3. Used(text', at')
      BY <3>2 DEF Used
    <3>4. OutOf("readline", text', at', << >>) = << >>
      BY <3>3, OutNone
    <3>5. PICK e : e = Append(c, NL)
      OBVIOUS
    <3>6. e \in Seq(Characters) /\ Len(e) = n + 1 /\ Line(c) = e
      <4>1. e \in Seq(Characters) /\ Len(e) = n + 1
        BY <1>7, <1>11, <3>5
      <4>2. Line(c) = c \o <<NL>>
        BY <1>7, <2>3, <2>6, LineIs
      <4>3. e = c \o <<NL>>
        BY <1>7, <1>11, <3>5, AppendIsConcat
      <4>. QED BY <4>1, <4>2, <4>3
    <3>7. d \o e \in Seq(Characters) /\ (d \o e) \o << >> = d \o e
      <4>1. d \o e \in Seq(Characters)
        BY <1>13, <3>6, ConcatProperties
      <4>. QED BY <4>1, ConcatEmptySeq
    <3>8. text \in Typed /\ Append(history, text) = KeptOf(typed)
      BY <1>3, <1>11, <2>6
    <3>9. history' \in Seq(Typed) /\ HistoryOf(text', at', typed', history')
      <4>1. history' \in Seq(Typed)
        <5>1. \A h \in Seq(Typed), x \in Typed : Append(h, x) \in Seq(Typed)
          OBVIOUS
        <5>2. history \in Seq(Typed) /\ text \in Typed
          BY <1>3, <3>8
        <5>. QED BY <3>2, <5>1, <5>2
      <4>2. history' = KeptOf(typed')
        BY <1>1, <3>2, <3>8
      <4>. QED BY <3>2, <3>3, <4>1, <4>2 DEF HistoryOf
    <3>10. Fits(buf')
      <4>1. n + 1 <= max_size
        BY <1>2, <2>6
      <4>2. Len(buf') <= max_size
        BY <3>2, <3>5, <3>6, <4>1
      <4>. QED BY <4>2 DEF Fits
    <3>11. delivered' \o OutOf("readline", text', at', << >>) = WholeOf("readline", typed, file)
      BY <2>4, <3>2, <3>4, <3>5, <3>6, <3>7
    <3>12. delivered' \in Seq(Characters)
      BY <3>2, <3>5, <3>7
    <3>. QED BY <1>1, <1>2, <3>9, <3>10, <3>11, <3>12 DEF CharInv
  <2>7. CASE text[Len(text)] # NL /\ ~ (n < max_size)
    <3>1. ends /\ ~ room
      BY <1>4, <1>6, <1>14, <2>7
    <3>2. /\ buf' = c /\ delivered' = d \o c /\ text' = <<NL>> /\ at' = 0
          /\ history' = Append(history, text)
      BY <1>1, <1>5, <1>12, <3>1
    <3>3. PICK m : m = <<NL>>
      OBVIOUS
    <3>4. m \in Seq(Characters) /\ 0 < Len(m) /\ m # << >> /\ m[Len(m)] = NL
      BY <1>11, <3>3
    <3>5. OutOf("readline", m, 0, << >>) = m /\ ~ Used(m, 0)
      <4>1. OutOf("readline", m, 0, << >>) = Line(From(m, 0)) /\ ~ Used(m, 0)
        BY <3>4, OutLine
      <4>2. From(m, 0) = m
        BY <3>4, FromStart
      <4>3. Line(m) = m
        BY <3>4, LineIs
      <4>. QED BY <4>1, <4>2, <4>3
    <3>6. Line(c) = c \o m
      BY <1>7, <2>3, <2>7, <3>3, LineIs
    <3>7. d \o c \in Seq(Characters) /\ (d \o c) \o m = d \o (c \o m)
      <4>1. d \o c \in Seq(Characters)
        BY <1>7, <1>13, ConcatProperties
      <4>2. Joined(d, c, m)
        BY <1>7, <1>13, <3>4, Joins
      <4>. QED BY <4>1, <4>2 DEF Joined
    <3>8. text \in Typed /\ Append(history, text) = KeptOf(typed)
      BY <1>3, <1>11, <2>7
    <3>9. history' \in Seq(Typed) /\ HistoryOf(text', at', typed', history')
      <4>1. history' \in Seq(Typed)
        <5>1. \A h \in Seq(Typed), x \in Typed : Append(h, x) \in Seq(Typed)
          OBVIOUS
        <5>2. history \in Seq(Typed) /\ text \in Typed
          BY <1>3, <3>8
        <5>. QED BY <3>2, <5>1, <5>2
      <4>2. history' = KeptOf(typed')
        BY <1>1, <3>2, <3>8
      <4>. QED BY <3>2, <3>3, <3>5, <4>1, <4>2 DEF HistoryOf
    <3>10. Fits(buf')
      BY <1>4, <1>7, <3>2 DEF Fits
    <3>11. delivered' \o OutOf("readline", text', at', << >>) = WholeOf("readline", typed, file)
      BY <2>4, <3>2, <3>3, <3>5, <3>6, <3>7
    <3>. QED BY <1>1, <1>2, <3>2, <3>7, <3>9, <3>10, <3>11 DEF CharInv
  <2>. QED BY <2>5, <2>6, <2>7
<1>15. CASE at + n # Len(text)
  <2>1. at + n < Len(text) /\ ~ ends
    BY <1>2, <1>4, <1>15
  <2>2. buf' = c /\ delivered' = d \o c /\ text' = text /\ at' = at + n /\ history' = history
    BY <1>1, <1>4, <1>5, <1>12, <2>1
  <2>3. PICK b : b = From(text, at + n)
    OBVIOUS
  <2>4. b \in Seq(Characters) /\ b # << >> /\ From(text, at) = c \o b
    BY <1>2, <1>8, <1>10, <2>1, <2>3, FromIs
  <2>5. OutOf("readline", text', at', << >>) = Line(b) /\ ~ Used(text', at')
    BY <1>2, <1>10, <2>1, <2>2, <2>3, OutLine
  <2>6. Line(c \o b) = c \o Line(b) /\ Line(b) \in Seq(Characters)
    BY <1>7, <2>4, LineBehind, LineIs
  <2>7. PICK l : l = Line(b)
    OBVIOUS
  <2>8. d \o c \in Seq(Characters) /\ (d \o c) \o l = d \o (c \o l)
    <3>1. d \o c \in Seq(Characters)
      BY <1>7, <1>13, ConcatProperties
    <3>2. Joined(d, c, l)
      BY <1>7, <1>13, <2>6, <2>7, Joins
    <3>. QED BY <3>1, <3>2 DEF Joined
  <2>9. delivered' \o OutOf("readline", text', at', << >>) = WholeOf("readline", typed, file)
    BY <1>3, <1>9, <1>12, <2>2, <2>4, <2>5, <2>6, <2>7, <2>8
  <2>10. Fits(buf')
    BY <1>4, <1>7, <2>2 DEF Fits
  <2>11. HistoryOf(text', at', typed', history')
    BY <1>1, <1>3, <2>2, <2>5 DEF HistoryOf
  <2>. QED BY <1>1, <1>2, <1>3, <2>2, <2>8, <2>9, <2>10, <2>11 DEF CharInv
<1>. QED BY <1>14, <1>15

\* Typing a line keeps CharInv.
LEMMA PromptChars ==
    ASSUME InputInv, CharInv, NEW line \in Typed \cup {NO_TEXT}, Prompt(line)
    PROVE  CharInv'
<1>1. /\ phase = "readline" /\ phase' = "readline" /\ Exhausted
      /\ text' = IF line = << >> THEN <<NL>> ELSE line
      /\ at' = 0 /\ typed' = IF line = NO_TEXT THEN typed ELSE Append(typed, line)
      /\ file' = file /\ lines' = lines /\ buf' = buf /\ delivered' = delivered /\ history' = history
  BY DEF Prompt
<1>2. Used(text, at) /\ lines = << >> /\ typed \in Seq(Typed) /\ file = NO_TEXT
  BY <1>1 DEF Exhausted, Used, CharInv, InputInv, InputTypes
<1>3. /\ delivered \in Seq(Characters) /\ history \in Seq(Typed) /\ history = KeptOf(typed)
      /\ delivered \o OutOf("readline", text, at, << >>) = WholeOf("readline", typed, file)
      /\ Fits(buf)
  BY <1>1, <1>2 DEF CharInv, Parsing, HistoryOf
<1>4. OutOf("readline", text, at, << >>) = << >>
  BY <1>2, OutNone
<1>5. delivered = <<NL>> \o LinesOf(typed)
  <2>1. delivered \o << >> = delivered
    BY <1>3, ConcatEmptySeq
  <2>2. delivered = WholeOf("readline", typed, file)
    BY <1>3, <1>4, <2>1
  <2>. QED BY <2>2 DEF WholeOf
<1>6. CASE line = NO_TEXT
  <2>1. text' = NO_TEXT /\ typed' = typed
    <3>1. << >> \in Seq(Characters)
      OBVIOUS
    <3>2. line # << >>
      BY <1>6, <3>1, InputAssumption
    <3>. QED BY <1>1, <1>6, <3>2
  <2>2. Used(text', at')
    BY <2>1 DEF Used
  <2>3. OutOf("readline", text', at', << >>) = << >>
    BY <2>2, OutNone
  <2>4. delivered' \o OutOf("readline", text', at', << >>) = WholeOf("readline", typed', file')
    BY <1>1, <1>3, <1>4, <2>1, <2>3
  <2>5. HistoryOf(text', at', typed', history')
    BY <1>1, <1>3, <2>1, <2>2 DEF HistoryOf
  <2>. QED BY <1>1, <1>2, <1>3, <2>4, <2>5 DEF CharInv
<1>7. CASE line # NO_TEXT
  <2>1. line \in Typed /\ line \in Seq(Characters) /\ typed' = Append(typed, line)
    BY <1>1, <1>7, InputAssumption
  <2>2. PICK t : t = IF line = << >> THEN <<NL>> ELSE line
    OBVIOUS
  <2>3. NL \in Characters
    BY InputAssumption
  <2>4. t \in Seq(Characters) /\ t # << >> /\ 0 < Len(t) /\ Line(t) = Line(line)
    <3>1. CASE line = << >>
      <4>1. t = <<NL>> /\ t[Len(t)] = NL /\ t \in Seq(Characters) /\ t # << >> /\ 0 < Len(t)
        BY <2>2, <2>3, <3>1
      <4>2. Line(line) = <<NL>> /\ Line(t) = t
        BY <2>1, <3>1, <4>1, LineIs
      <4>. QED BY <4>1, <4>2
    <3>2. CASE line # << >>
      <4>1. t = line
        BY <2>2, <3>2
      <4>. QED BY <2>1, <3>2, <4>1
    <3>. QED BY <3>1, <3>2
  <2>5. OutOf("readline", t, 0, << >>) = Line(line) /\ ~ Used(t, 0)
    <3>1. OutOf("readline", t, 0, << >>) = Line(From(t, 0)) /\ ~ Used(t, 0)
      BY <2>4, OutLine
    <3>. QED BY <2>4, <3>1, FromStart
  <2>6. PICK ls : ls = LinesOf(typed)
    OBVIOUS
  <2>7. PICK l : l = Line(line)
    OBVIOUS
  <2>8. ls \in Seq(Characters) /\ LinesOf(typed') = ls \o l /\ l \in Seq(Characters)
    <3>1. typed \in Seq(Seq(Characters))
      <4>1. Typed \subseteq Seq(Characters)
        BY InputAssumption
      <4>. QED BY <1>2, <4>1
    <3>2. LinesOf(Append(typed, line)) = LinesOf(typed) \o Line(line) /\ LinesOf(typed) \in Seq(Characters)
      BY <2>1, <3>1, LinesOne
    <3>. QED BY <2>1, <2>6, <2>7, <3>2, LineIs
  <2>9. (<<NL>> \o ls) \o l = <<NL>> \o (ls \o l)
    <3>1. PICK m : m = <<NL>>
      OBVIOUS
    <3>2. m \in Seq(Characters)
      BY <2>3, <3>1
    <3>3. Joined(m, ls, l)
      BY <2>8, <3>2, Joins
    <3>. QED BY <3>1, <3>3 DEF Joined
  <2>10. delivered' \o OutOf("readline", text', at', << >>) = WholeOf("readline", typed', file')
    <3>1. delivered' = <<NL>> \o ls /\ OutOf("readline", text', at', << >>) = l
      BY <1>1, <1>5, <2>2, <2>5, <2>6, <2>7
    <3>2. WholeOf("readline", typed', file') = <<NL>> \o (ls \o l)
      BY <2>8 DEF WholeOf
    <3>. QED BY <2>9, <3>1, <3>2
  <2>11. HistoryOf(text', at', typed', history')
    <3>1. text' = t /\ at' = 0 /\ ~ Used(text', at')
      BY <1>1, <2>2, <2>5
    <3>2. KeptOf(typed') = IF line = << >> THEN KeptOf(typed) ELSE Append(KeptOf(typed), line)
      BY <1>2, <2>1, KeptOne
    <3>3. CASE line = << >>
      BY <1>1, <1>3, <2>2, <3>1, <3>2, <3>3 DEF HistoryOf
    <3>4. CASE line # << >>
      BY <1>1, <1>3, <2>1, <2>2, <3>1, <3>2, <3>4 DEF HistoryOf
    <3>. QED BY <3>3, <3>4
  <2>. QED BY <1>1, <1>2, <1>3, <2>10, <2>11 DEF CharInv
<1>. QED BY <1>6, <1>7

\* The end of a source keeps CharInv.
LEMMA EndOfSourceChars ==
    ASSUME InputInv, CharInv, EndOfSource
    PROVE  CharInv'
<1>1. /\ Parsing /\ lines = << >> /\ lines' = lines /\ buf' = buf /\ file' = file
      /\ typed' = typed /\ history' = history
  BY DEF EndOfSource
<1>2. delivered \in Seq(Characters) /\ Fits(buf)
  BY <1>1 DEF CharInv
<1>3. CASE phase # "builtin"
  <2>1. phase' \in {"interpret", "done"} /\ delivered' = delivered
    BY <1>3 DEF EndOfSource
  <2>. QED BY <1>2, <2>1 DEF CharInv, Parsing
<1>4. CASE phase = "builtin"
  <2>1. /\ phase' = (IF file = NO_TEXT THEN "readline" ELSE "file")
        /\ text' = (IF file = NO_TEXT THEN <<NL>> ELSE file)
        /\ at' = 0 /\ delivered' = << >>
    BY <1>4 DEF EndOfSource
  <2>2. typed = << >> /\ history = << >>
    BY <1>4 DEF CharInv
  <2>3. << >> \in Seq(Characters) /\ << >> \in Seq(Seq(Characters))
    OBVIOUS
  <2>4. CASE file = NO_TEXT
    <3>1. PICK m : m = <<NL>>
      OBVIOUS
    <3>2. m \in Seq(Characters) /\ 0 < Len(m) /\ m # << >> /\ m[Len(m)] = NL
      BY <3>1, InputAssumption
    <3>3. OutOf("readline", m, 0, << >>) = m /\ ~ Used(m, 0)
      <4>1. OutOf("readline", m, 0, << >>) = Line(From(m, 0)) /\ ~ Used(m, 0)
        BY <3>2, OutLine
      <4>2. From(m, 0) = m
        BY <3>2, FromStart
      <4>3. Line(m) = m
        BY <3>2, LineIs
      <4>. QED BY <4>1, <4>2, <4>3
    <3>4. << >> \o m = m /\ m \o << >> = m
      BY <3>2, ConcatEmptySeq
    <3>5. phase' = "readline" /\ text' = m
      BY <2>1, <2>4, <3>1
    <3>6. WholeOf("readline", << >>, file) = m
      BY <3>1, <3>4, NoLines DEF WholeOf
    <3>7. delivered' \o OutOf(phase', text', at', lines') = WholeOf(phase', typed', file')
      BY <1>1, <2>1, <2>2, <3>3, <3>4, <3>5, <3>6
    <3>8. HistoryOf(text', at', typed', history')
      BY <1>1, <2>1, <2>2, <3>1, <3>3, <3>5, NoLines DEF HistoryOf
    <3>9. history' \in Seq(Typed)
      BY <1>1, <2>2
    <3>. QED BY <1>1, <1>2, <2>1, <2>3, <3>5, <3>7, <3>8, <3>9 DEF CharInv
  <2>5. CASE file # NO_TEXT
    <3>1. file \in Seq(Characters) /\ 0 <= Len(file)
      BY <2>5, InputAssumption DEF InputInv, InputTypes
    <3>2. phase' = "file" /\ text' = file
      BY <2>1, <2>5
    <3>3. OutOf("file", file, 0, << >>) = file
      <4>1. OutOf("file", file, 0, << >>) = From(file, 0) \o FlattenSeq(<< >>)
        BY <2>3, <3>1, OutPlain
      <4>2. From(file, 0) = file /\ file \o << >> = file
        BY <3>1, FromStart, ConcatEmptySeq
      <4>. QED BY <4>1, <4>2, FlatNone
    <3>4. << >> \o file = file /\ WholeOf("file", << >>, file) = file
      BY <3>1, ConcatEmptySeq DEF WholeOf
    <3>5. delivered' \o OutOf(phase', text', at', lines') = WholeOf(phase', typed', file')
      BY <1>1, <2>1, <2>2, <3>2, <3>3, <3>4
    <3>. QED BY <1>1, <1>2, <2>1, <2>2, <2>3, <3>2, <3>5 DEF CharInv
  <2>. QED BY <2>4, <2>5
<1>. QED BY <1>3, <1>4

\* CharInv holds at the start.
LEMMA CharInvInit ==
    ASSUME InputInit
    PROVE  CharInv
<1>1. /\ phase = "builtin" /\ text = Builtin[1] /\ at = 0 /\ lines = Tail(Builtin)
      /\ buf = << >> /\ delivered = << >> /\ typed = << >> /\ history = << >>
  BY DEF InputInit
<1>2. Builtin \in Seq(Seq(Characters)) /\ Builtin # << >>
  BY InputAssumption
<1>3. PICK x : x = Builtin[1]
  OBVIOUS
<1>4. PICK r : r = Tail(Builtin)
  OBVIOUS
<1>5. x \in Seq(Characters) /\ r \in Seq(Seq(Characters)) /\ 0 <= Len(x)
  BY <1>2, <1>3, <1>4
<1>6. /\ FlattenSeq(Builtin) = x \o FlattenSeq(r) /\ FlattenSeq(Builtin) \in Seq(Characters)
  <2>1. FlattenSeq(Builtin) = x \o FlattenSeq(r)
    BY <1>2, <1>3, <1>4, FlatHead
  <2>2. << >> \in Seq(Characters)
    OBVIOUS
  <2>3. FlattenSeq(Builtin) \in Seq(Characters)
    BY <1>2, <2>2, FlatAppend
  <2>. QED BY <2>1, <2>3
<1>7. OutOf("builtin", x, 0, r) = FlattenSeq(Builtin)
  <2>1. OutOf("builtin", x, 0, r) = From(x, 0) \o FlattenSeq(r)
    BY <1>5, OutPlain
  <2>. QED BY <1>5, <1>6, <2>1, FromStart
<1>8. << >> \o FlattenSeq(Builtin) = FlattenSeq(Builtin)
  BY <1>6, ConcatEmptySeq
<1>9. delivered \o OutOf(phase, text, at, lines) = WholeOf(phase, typed, file)
  BY <1>1, <1>3, <1>4, <1>7, <1>8 DEF WholeOf
<1>10. Fits(buf)
  <2>1. PICK max_size \in BufferSizes : max_size \in Nat
    BY InputAssumption
  <2>2. Len(buf) <= max_size
    BY <1>1, <2>1
  <2>. QED BY <2>2 DEF Fits
<1>. QED BY <1>1, <1>9, <1>10 DEF CharInv

\* Every step keeps CharInv.
LEMMA CharStep ==
    ASSUME InputInv, CharInv, InputNext
    PROVE  CharInv'
<1>1. CASE Input
  <2>1. PICK max_size \in BufferSizes :
            FileInput(max_size) \/ StringInput(max_size) \/ ReadlineInput(max_size)
    BY <1>1 DEF Input
  <2>. QED BY <2>1, FileInputChars, StringInputChars, ReadlineInputChars
<1>2. CASE Token
  BY <1>2, TokenChars
<1>3. CASE EndOfSource
  BY <1>3, EndOfSourceChars
<1>4. CASE RunProgram
  BY <1>4, RunProgramChars
<1>5. CASE \E line \in Typed \cup {NO_TEXT} : Prompt(line)
  BY <1>5, PromptChars
<1>. QED BY <1>1, <1>2, <1>3, <1>4, <1>5 DEF InputNext

\* The invariant gives EachCharacterOnce.
LEMMA CharInvOnce ==
    ASSUME InputInv, CharInv
    PROVE  EachCharacterOnce
<1> SUFFICES ASSUME Parsing
             PROVE  /\ delivered \o Outstanding = Whole
                    /\ \E max_size \in BufferSizes : Len(buf) <= max_size
                    /\ history = IF text # NO_TEXT /\ KeptLines # << >> /\ text = KeptLines[Len(KeptLines)] /\ ~ Exhausted
                                 THEN SubSeq(KeptLines, 1, Len(KeptLines) - 1) ELSE KeptLines
  BY DEF EachCharacterOnce
<1>1. Outstanding = OutOf(phase, text, at, lines)
  BY DEF Outstanding, OutOf, Used, Exhausted, From
<1>2. Whole = WholeOf(phase, typed, file)
  BY DEF Whole, WholeOf, LinesOf
<1>3. KeptLines = KeptOf(typed)
  BY DEF KeptLines, KeptOf
<1>4. delivered \o Outstanding = Whole /\ \E max_size \in BufferSizes : Len(buf) <= max_size
  BY <1>1, <1>2 DEF CharInv, Fits
<1>5. CASE phase # "readline"
  <2>1. typed = << >> /\ history = << >>
    BY <1>5 DEF CharInv, Parsing
  <2>. QED BY <1>3, <1>4, <2>1, NoLines
<1>6. CASE phase = "readline"
  <2>1. history \in Seq(Typed) /\ HistoryOf(text, at, typed, history)
    BY <1>6 DEF CharInv
  <2>2. CASE Exhausted
    <3>1. Used(text, at)
      BY <2>2 DEF Exhausted, Used
    <3>. QED BY <1>3, <1>4, <2>1, <2>2, <3>1 DEF HistoryOf
  <2>3. CASE ~ Exhausted
    <3>1. ~ Used(text, at) /\ text # NO_TEXT
      BY <2>3 DEF Exhausted, Used
    <3>2. CASE text = <<NL>> /\ history = KeptLines
      <4>1. KeptLines \in Seq(Typed)
        BY <2>1, <3>2
      <4>2. KeptLines # << >> => KeptLines[Len(KeptLines)] \in Typed
        BY <4>1
      <4>3. text \notin Typed
        <5>1. Len(text) = 1 /\ text[1] = NL /\ 1 \in 1..Len(text)
          BY <3>2
        <5>. QED BY <5>1, InputAssumption
      <4>. QED BY <1>4, <3>2, <4>2, <4>3
    <3>3. CASE text \in Typed /\ Append(history, text) = KeptLines
      <4>1. PICK k : k = KeptLines
        OBVIOUS
      <4>2. k = Append(history, text)
        BY <3>3, <4>1
      <4>3. k \in Seq(Typed) /\ k # << >> /\ Len(k) = Len(history) + 1 /\ k[Len(k)] = text
        BY <2>1, <3>3, <4>2
      <4>4. SubSeq(k, 1, Len(k) - 1) = history
        BY <2>1, <3>3, <4>2
      <4>. QED BY <1>4, <2>3, <3>1, <4>1, <4>3, <4>4
    <3>. QED BY <1>3, <2>1, <3>1, <3>2, <3>3 DEF HistoryOf
  <2>. QED BY <2>2, <2>3
<1>. QED BY <1>5, <1>6

\* Every character of the built-in script, of the program's file and of the lines
\* that are typed reaches the scanner once and in order, whatever the sizes it asks
\* for; a line gets one newline, and one entry in the history if it is not empty
\* (file_input, string_input and readline_input in tlexer.c).
THEOREM SourceReachesTheScanner == InputSpec => []EachCharacterOnce
<1>1. InputInit => InputInv /\ CharInv
  BY InputInvInit, CharInvInit
<1>2. InputInv /\ CharInv /\ [InputNext]_inputVars => (InputInv /\ CharInv)'
  <2> SUFFICES ASSUME InputInv, CharInv, [InputNext]_inputVars
               PROVE  InputInv' /\ CharInv'
    OBVIOUS
  <2>1. InputInv'
    BY InputAgain
  <2>2. CASE InputNext
    BY <2>1, <2>2, CharStep
  <2>3. CASE UNCHANGED inputVars
    BY <2>1, <2>3, SameChars
  <2>. QED BY <2>2, <2>3
<1>3. InputInv /\ CharInv => EachCharacterOnce
  BY CharInvOnce
<1>. QED BY <1>1, <1>2, <1>3, PTL DEF InputSpec

-----------------------------------------------------------------------------
(* Names, modules and finals: CrbNames.  NInv is what the tables hold at any *)
(* moment.                                                                  *)

\* Only code of a module is top-level code, never that of the interpreter.
ContextsTyped ==
    /\ contexts \in Seq(ContextType) /\ contexts # << >>
    /\ \A i \in DOMAIN contexts : Toplevel(contexts[i]) => contexts[i].module \in Modules

\* A name in a module's table is no function of it.
TablesApart ==
    /\ global_vars \in [Modules \cup {builtin} -> Tables]
    /\ DOMAIN global_vars[builtin] = BuiltinNames
    /\ \A m \in Modules : \A n \in DOMAIN global_vars[m] : <<m, n>> \notin Functions

RefsHeld ==
    \A i \in DOMAIN contexts : \A n \in DOMAIN contexts[i].global_var_refs :
        contexts[i].global_var_refs[n] \in
            {SearchGlobal(contexts[i].module, n), SearchGlobal(builtin, n)}

NInv ==
    /\ variables \in Seq(Variable)
    /\ modules \subseteq Modules
    /\ closures \subseteq Closure
    /\ frames \in Seq(Tables)
    /\ ContextsTyped /\ TablesApart /\ RefsHeld

\* Binding a name in a table: the others keep their place.
LEMMA BindType ==
    \A t \in Tables, n \in Names, a \in Nat :
        /\ Bind(t, n, a) \in Tables
        /\ DOMAIN Bind(t, n, a) = DOMAIN t \cup {n}
        /\ Bind(t, n, a)[n] = a
        /\ \A k \in DOMAIN t \ {n} : Bind(t, n, a)[k] = t[k]
<1> TAKE t \in Tables, n \in Names, a \in Nat
<1>1. PICK S \in SUBSET Names : t \in [S -> Nat]
  BY DEF Tables
<1>2. DOMAIN t = S /\ \A k \in S : t[k] \in Nat
  BY <1>1
<1>3. Bind(t, n, a) = [k \in S \cup {n} |-> IF k = n THEN a ELSE t[k]]
  BY <1>2 DEF Bind
<1>4. Bind(t, n, a) \in [S \cup {n} -> Nat] /\ S \cup {n} \in SUBSET Names
  BY <1>2, <1>3
<1>5. Bind(t, n, a) \in Tables
  BY <1>4 DEF Tables
<1> QED
  BY <1>2, <1>3, <1>5

\* Top is one of the contexts.
LEMMA TopIs ==
    ASSUME NInv
    PROVE  /\ Len(contexts) \in DOMAIN contexts /\ Len(contexts) \in Nat \ {0}
           /\ Top = contexts[Len(contexts)] /\ Top \in ContextType
           /\ Toplevel(Top) => Top.module \in Modules
  BY DEF NInv, ContextsTyped, Top

\* What is searched for in a module is a place, or nothing where it is not there.
LEMMA SearchType ==
    ASSUME NInv, NEW m \in Modules \cup {builtin}, NEW n \in Names
    PROVE  /\ SearchGlobal(m, n) \in Nat \cup {NOTHING}
           /\ SearchGlobal(m, n) = NOTHING <=> n \notin DOMAIN global_vars[m]
           /\ SearchBoth(m, n) \in {SearchGlobal(m, n), SearchGlobal(builtin, n)}
  BY NamesAssumption DEF NInv, TablesApart, Tables, SearchGlobal, SearchBoth

\* NInv holds when the main program starts.
THEOREM NamesInitial == NamesInit => NInv
<1> SUFFICES ASSUME NamesInit PROVE NInv
  OBVIOUS
<1>1. Cardinality(BuiltinNames) \in Nat
  BY FS_CardinalityType, NamesAssumption
<1>2. variables \in Seq(Variable) /\ DOMAIN variables \subseteq Nat
  <2>1. Made(TRUE) \in Variable
    BY DEF Made, Variable
  <2>2. variables \in [1 .. Cardinality(BuiltinNames) -> Variable]
    BY <2>1 DEF NamesInit
  <2> QED
    BY <1>1, <2>2
<1>3. << >> \in Tables /\ DOMAIN << >> = {}
  <2>1. << >> = [n \in {} |-> 0]
    OBVIOUS
  <2>2. [n \in {} |-> 0] \in [{} -> Nat] /\ {} \in SUBSET Names
    OBVIOUS
  <2> QED
    BY <2>1, <2>2 DEF Tables
<1>4. contexts = <<Context(main, << >>)>> /\ Context(main, << >>) \in ContextType
  BY <1>3, NamesAssumption DEF NamesInit, Context, ContextType
<1>5. ContextsTyped
  BY <1>4, NamesAssumption DEF ContextsTyped, Context
<1>6. TablesApart
  <2>1. PICK address \in [BuiltinNames -> DOMAIN variables] :
          global_vars = [m \in Modules \cup {builtin} |->
                            IF m = builtin THEN address ELSE << >>]
    BY DEF NamesInit
  <2>2. address \in Tables
    BY <1>2, <2>1, NamesAssumption DEF Tables
  <2> QED
    BY <1>3, <2>1, <2>2, NamesAssumption DEF TablesApart
<1>7. RefsHeld
  BY <1>3, <1>4 DEF RefsHeld, Context
<1> QED
  BY <1>2, <1>5, <1>6, <1>7, NamesAssumption DEF NInv, NamesInit

-----------------------------------------------------------------------------
(* Every step keeps NInv *)

\* Nothing but variables and frames changes: the tables stay apart.
LEMMA LocalKeeps ==
    ASSUME NInv, variables' \in Seq(Variable), frames' \in Seq(Tables),
           UNCHANGED <<global_vars, modules, contexts, closures>>
    PROVE  NInv'
  BY DEF NInv, ContextsTyped, TablesApart, RefsHeld, SearchGlobal, Toplevel

\* A new variable appended, or one overwritten, leaves a sequence of variables.
LEMMA VariablesTyped ==
    ASSUME NInv, NEW final \in BOOLEAN, NEW a
    PROVE  /\ NewVariable(final) \in Seq(Variable)
           /\ Fresh \in Nat
           /\ [variables EXCEPT ![a].value = "later"] \in Seq(Variable)
<1>1. variables \in Seq(Variable) /\ Len(variables) \in Nat
  BY DEF NInv
<1>2. Made(final) \in Variable
  BY DEF Made, Variable
<1>3. [variables EXCEPT ![a].value = "later"] \in Seq(Variable)
  <2>1. CASE a \in DOMAIN variables
    <3>1. variables[a] \in Variable
      BY <1>1, <2>1
    <3>2. [variables[a] EXCEPT !.value = "later"] \in Variable
      BY <3>1 DEF Variable
    <3> QED
      BY <1>1, <2>1, <3>2
  <2>2. CASE a \notin DOMAIN variables
    <3> DEFINE w == [variables EXCEPT ![a].value = "later"]
    <3>1. DOMAIN w = DOMAIN variables /\ \A i \in DOMAIN variables : w[i] = variables[i]
      BY <2>2
    <3>2. w = [i \in DOMAIN variables |-> w[i]]
      OBVIOUS
    <3>3. variables = [i \in DOMAIN variables |-> variables[i]]
      BY <1>1
    <3>4. w = variables
      BY <3>1, <3>2, <3>3, Zenon
    <3> QED
      BY <1>1, <3>4
  <2> QED
    BY <2>1, <2>2
<1> QED
  BY <1>1, <1>2, <1>3 DEF NewVariable, Fresh

\* A new global variable takes no function's name, and moves no other.
LEMMA AddGlobalKeeps ==
    ASSUME NInv, NEW m \in Modules, NEW n \in Names, NEW final \in BOOLEAN,
           n \notin DOMAIN global_vars[m], <<m, n>> \notin Functions,
           AddGlobal(m, n, final), UNCHANGED <<modules, contexts, closures>>
    PROVE  NInv'
<1>1. variables' \in Seq(Variable) /\ Fresh \in Nat
  BY VariablesTyped DEF AddGlobal
<1> DEFINE mine == global_vars[m]
<1>2. mine \in Tables /\ m # builtin /\ n \notin DOMAIN mine
  BY NamesAssumption DEF NInv, TablesApart
<1> HIDE DEF mine
<1>3. /\ Bind(mine, n, Fresh) \in Tables
      /\ DOMAIN Bind(mine, n, Fresh) = DOMAIN mine \cup {n}
      /\ \A k \in DOMAIN mine : Bind(mine, n, Fresh)[k] = mine[k]
  <2>1. /\ Bind(mine, n, Fresh) \in Tables
        /\ DOMAIN Bind(mine, n, Fresh) = DOMAIN mine \cup {n}
        /\ \A k \in DOMAIN mine \ {n} : Bind(mine, n, Fresh)[k] = mine[k]
    <3>1. Fresh \in Nat
      BY <1>1
    <3>2. mine \in Tables
      BY <1>2
    <3>3. n \in Names
      OBVIOUS
    <3>4. Bind(mine, n, Fresh) \in Tables
      BY <3>1, <3>2, <3>3, BindType
    <3> QED
      BY <3>1, <3>2, <3>3, BindType
  <2> QED
    BY <1>2, <2>1
<1>4. /\ global_vars' \in [Modules \cup {builtin} -> Tables]
      /\ global_vars'[m] = Bind(mine, n, Fresh)
      /\ \A o \in (Modules \cup {builtin}) \ {m} : global_vars'[o] = global_vars[o]
  BY <1>3 DEF mine, AddGlobal, NInv, TablesApart
<1>5. TablesApart'
  BY <1>2, <1>3, <1>4 DEF mine, NInv, TablesApart
<1>6. \A o \in Modules \cup {builtin} : \A k \in DOMAIN global_vars[o] :
         /\ k \in DOMAIN global_vars'[o]
         /\ global_vars'[o][k] = global_vars[o][k]
  BY <1>3, <1>4 DEF mine
<1>7. RefsHeld'
  <2> SUFFICES ASSUME NEW i \in DOMAIN contexts, NEW k \in DOMAIN contexts[i].global_var_refs
               PROVE  contexts[i].global_var_refs[k] \in
                        {SearchGlobal(contexts[i].module, k)', SearchGlobal(builtin, k)'}
    BY DEF RefsHeld, SearchGlobal
  <2>1. contexts[i] \in ContextType
    BY DEF NInv, ContextsTyped
  <2>2. contexts[i].global_var_refs[k] \in Nat /\ contexts[i].module \in Modules \cup {builtin}
    BY <2>1 DEF ContextType, Tables
  <2>3. contexts[i].global_var_refs[k] \in
          {SearchGlobal(contexts[i].module, k), SearchGlobal(builtin, k)}
    BY DEF NInv, RefsHeld
  <2>4. contexts[i].global_var_refs[k] # NOTHING
    BY <2>2, NamesAssumption
  <2> QED
    BY <1>6, <2>2, <2>3, <2>4 DEF SearchGlobal
<1> QED
  BY <1>1, <1>5, <1>7 DEF NInv, ContextsTyped, Toplevel, AddGlobal

\* A new local variable joins the frame of the call, and no other.
LEMMA LocalTyped ==
    ASSUME NInv, NEW n \in Names, NEW final, AddLocal(n, final)
    PROVE  frames' \in Seq(Tables)
<1> DEFINE own == Top.scope_chain[1]
<1> HIDE DEF own
<1>1. frames' = [frames EXCEPT ![own] = Bind(frames[own], n, Fresh)]
  BY DEF AddLocal, own
<1>2. frames \in Seq(Tables) /\ Fresh \in Nat /\ n \in Names
  BY DEF NInv, Fresh
<1>3. CASE own \in DOMAIN frames
  <2>1. frames[own] \in Tables
    BY <1>2, <1>3
  <2>2. Bind(frames[own], n, Fresh) \in Tables
    BY <1>2, <2>1, BindType
  <2> QED
    BY <1>1, <1>2, <1>3, <2>2
<1>4. CASE own \notin DOMAIN frames
  <2>1. frames' = frames
    <3>1. DOMAIN frames' = DOMAIN frames /\ \A i \in DOMAIN frames : frames'[i] = frames[i]
      BY <1>1, <1>4
    <3>2. frames' = [i \in DOMAIN frames |-> frames'[i]]
      BY <1>1
    <3>3. frames = [i \in DOMAIN frames |-> frames[i]]
      BY <1>2
    <3> QED
      BY <3>1, <3>2, <3>3, Zenon
  <2> QED
    BY <1>2, <2>1
<1> QED
  BY <1>3, <1>4

\* An assignment to a name finds a variable that may change, or makes a new one.
LEMMA AssignNameKeeps ==
    ASSUME NInv, NEW n \in Names, NEW final \in BOOLEAN, AssignName(n, final)
    PROVE  NInv'
<1>1. CASE LValue(Top, n) # NOTHING
  <2>1. DoAssign(LValue(Top, n))
    BY <1>1 DEF AssignName
  <2> QED
    BY <2>1, VariablesTyped, LocalKeeps DEF AssignName, DoAssign, NInv
<1>2. CASE LValue(Top, n) = NOTHING /\ Toplevel(Top)
  <2>1. MayDefine(Top.module, n) /\ AddGlobal(Top.module, n, final)
    BY <1>2 DEF AssignName
  <2>2. Top.module \in Modules
    BY <1>2, TopIs
  <2>3. <<Top.module, n>> \notin Functions
    BY <2>1, NamesAssumption DEF MayDefine, FunctionSeen
  <2>4. SearchBoth(Top.module, n) = NOTHING
    BY <1>2, NamesAssumption DEF LValue, GlobalFromEnv, SearchLocal
  <2>5. SearchGlobal(Top.module, n) = NOTHING
    BY <2>4 DEF SearchBoth
  <2>6. n \notin DOMAIN global_vars[Top.module]
    BY <2>2, <2>5, SearchType
  <2> QED
    BY <2>1, <2>2, <2>3, <2>6, AddGlobalKeeps DEF AssignName
<1>3. CASE LValue(Top, n) = NOTHING /\ ~Toplevel(Top)
  <2>1. AddLocal(n, final)
    BY <1>3 DEF AssignName
  <2> QED
    BY <2>1, VariablesTyped, LocalTyped, LocalKeeps DEF AssignName, AddLocal
<1> QED
  BY <1>1, <1>2, <1>3

\* So does one to a member of a module.
LEMMA AssignMemberKeeps ==
    ASSUME NInv, NEW m \in modules, NEW n \in Names, NEW final \in BOOLEAN,
           AssignMember(m, n, final)
    PROVE  NInv'
<1>0. m \in Modules
  BY DEF NInv
<1>1. CASE SearchGlobal(m, n) # NOTHING
  <2>1. DoAssign(SearchGlobal(m, n))
    BY <1>1 DEF AssignMember
  <2> QED
    BY <2>1, VariablesTyped, LocalKeeps DEF AssignMember, DoAssign, NInv
<1>2. CASE SearchGlobal(m, n) = NOTHING
  BY <1>0, <1>2, SearchType, AddGlobalKeeps DEF AssignMember, MayDefineMember
<1> QED
  BY <1>1, <1>2

\* The reference of a global statement is what the search found.
LEMMA GlobalKeeps ==
    ASSUME NInv, NEW n \in Names, GlobalStatement(n)
    PROVE  NInv'
<1> DEFINE place == SearchBoth(Top.module, n)
           last == Len(contexts)
           refs == Bind(Top.global_var_refs, n, place)
<1>1. /\ last \in DOMAIN contexts /\ Top = contexts[last] /\ Top \in ContextType
      /\ ~Toplevel(Top)
  BY TopIs DEF GlobalStatement
<1>2. Top.module \in Modules \cup {builtin} /\ Top.global_var_refs \in Tables
  BY <1>1 DEF ContextType
<1>3. /\ place \in Nat
      /\ place \in {SearchGlobal(Top.module, n), SearchGlobal(builtin, n)}
  <2>1. place # NOTHING
    BY DEF GlobalStatement
  <2>2. n \in Names
    OBVIOUS
  <2>3. /\ place \in {SearchGlobal(Top.module, n), SearchGlobal(builtin, n)}
        /\ SearchGlobal(Top.module, n) \in Nat \cup {NOTHING}
        /\ SearchGlobal(builtin, n) \in Nat \cup {NOTHING}
    BY <1>2, <2>2, SearchType
  <2> QED
    BY <2>1, <2>3
<1>4. /\ refs \in Tables
      /\ DOMAIN refs = DOMAIN Top.global_var_refs \cup {n}
      /\ refs[n] = place
      /\ \A k \in DOMAIN Top.global_var_refs \ {n} : refs[k] = Top.global_var_refs[k]
  <2>1. n \in Names
    OBVIOUS
  <2> HIDE DEF place
  <2> QED
    BY ZenonT(30), <1>2, <1>3, <2>1, BindType
<1> HIDE DEF place, refs
<1>5. contexts' = [contexts EXCEPT ![last].global_var_refs = refs]
  BY <1>1 DEF GlobalStatement, refs, place
<1>6. contexts \in Seq(ContextType) /\ contexts # << >>
  BY DEF NInv, ContextsTyped
<1>7. [contexts[last] EXCEPT !.global_var_refs = refs] \in ContextType
  BY <1>1, <1>4 DEF ContextType
<1>8. contexts' \in Seq(ContextType) /\ contexts' # << >> /\ DOMAIN contexts' = DOMAIN contexts
  BY <1>1, <1>5, <1>6, <1>7
<1>9. \A i \in DOMAIN contexts :
        /\ contexts'[i].module = contexts[i].module
        /\ contexts'[i].scope_chain = contexts[i].scope_chain
        /\ contexts'[i].global_var_refs = IF i = last THEN refs ELSE contexts[i].global_var_refs
  <2> SUFFICES ASSUME NEW i \in DOMAIN contexts
               PROVE  /\ contexts'[i].module = contexts[i].module
                      /\ contexts'[i].scope_chain = contexts[i].scope_chain
                      /\ contexts'[i].global_var_refs =
                            IF i = last THEN refs ELSE contexts[i].global_var_refs
    OBVIOUS
  <2>1. contexts[i] \in ContextType
    BY <1>6
  <2>2. contexts'[i] = IF i = last THEN [contexts[i] EXCEPT !.global_var_refs = refs]
                                   ELSE contexts[i]
    BY <1>5, <1>6
  <2> QED
    BY <2>1, <2>2 DEF ContextType
<1>10. ContextsTyped'
  BY <1>8, <1>9 DEF NInv, ContextsTyped, Toplevel
<1>11. RefsHeld'
  <2> SUFFICES ASSUME NEW i \in DOMAIN contexts, NEW k \in DOMAIN contexts'[i].global_var_refs
               PROVE  contexts'[i].global_var_refs[k] \in
                        {SearchGlobal(contexts[i].module, k), SearchGlobal(builtin, k)}
    BY <1>8, <1>9 DEF RefsHeld, SearchGlobal, GlobalStatement
  <2>1. CASE i = last /\ k = n
    BY <1>1, <1>3, <1>4, <1>9, <2>1
  <2>2. CASE ~(i = last /\ k = n)
    <3>1. /\ k \in DOMAIN contexts[i].global_var_refs
          /\ contexts'[i].global_var_refs[k] = contexts[i].global_var_refs[k]
      BY <1>1, <1>4, <1>9, <2>2
    <3> QED
      BY <3>1 DEF NInv, RefsHeld
  <2> QED
    BY <2>1, <2>2
<1> QED
  BY <1>10, <1>11 DEF NInv, TablesApart, GlobalStatement

\* A context without references joins the others.
LEMMA AppendKeeps ==
    ASSUME NInv, NEW m \in Modules \cup {builtin}, NEW chain \in Seq(Nat),
           chain = << >> => m \in Modules,
           contexts' = Append(contexts, Context(m, chain)),
           UNCHANGED global_vars
    PROVE  ContextsTyped' /\ RefsHeld'
<1>1. << >> \in Tables /\ DOMAIN << >> = {}
  <2>1. << >> = [n \in {} |-> 0]
    OBVIOUS
  <2>2. [n \in {} |-> 0] \in [{} -> Nat] /\ {} \in SUBSET Names
    OBVIOUS
  <2> QED
    BY <2>1, <2>2 DEF Tables
<1> DEFINE new == Context(m, chain)
<1>2. /\ new \in ContextType /\ new.scope_chain = chain /\ new.module = m
      /\ DOMAIN new.global_var_refs = {}
  BY <1>1 DEF Context, ContextType
<1> HIDE DEF new
<1>3. contexts \in Seq(ContextType) /\ contexts' = Append(contexts, new)
  BY DEF NInv, ContextsTyped, new
<1>4. /\ contexts' \in Seq(ContextType) /\ contexts' # << >>
      /\ \A i \in DOMAIN contexts' : contexts'[i] = new \/ (i \in DOMAIN contexts /\ contexts'[i] = contexts[i])
  BY <1>2, <1>3
<1>5. ContextsTyped'
  BY <1>2, <1>4 DEF NInv, ContextsTyped, Toplevel
<1>6. RefsHeld'
  BY <1>2, <1>4 DEF NInv, RefsHeld, SearchGlobal
<1> QED
  BY <1>5, <1>6

\* What a call binds: the closure's name and the parameter, no other name.
LEMMA BindingsType ==
    ASSUME NEW own, NEW parameter, NEW S,
           own \in S \cup {NOTHING}, parameter \in S \cup {NOTHING}
    PROVE  /\ Bindings(own, parameter) \in Seq([name : S, is_final : BOOLEAN])
           /\ \A i \in DOMAIN Bindings(own, parameter) :
                  /\ i \in Nat
                  /\ Bindings(own, parameter)[i].name \in S
                  /\ Bindings(own, parameter)[i].is_final \in BOOLEAN
<1> DEFINE R == [name : S, is_final : BOOLEAN]
           first == IF own \in {NOTHING, parameter} THEN << >>
                    ELSE <<[name |-> own, is_final |-> TRUE]>>
           second == IF parameter = NOTHING THEN << >>
                     ELSE <<[name |-> parameter, is_final |-> FALSE]>>
<1>1. first \in Seq(R)
  <2>1. CASE own \in {NOTHING, parameter}
    BY <2>1
  <2>2. CASE own \notin {NOTHING, parameter}
    <3>1. [name |-> own, is_final |-> TRUE] \in R
      BY <2>2
    <3> HIDE DEF R
    <3> QED
      BY <2>2, <3>1
  <2> QED
    BY <2>1, <2>2
<1>2. second \in Seq(R)
  <2>1. CASE parameter = NOTHING
    BY <2>1
  <2>2. CASE parameter # NOTHING
    <3>1. [name |-> parameter, is_final |-> FALSE] \in R
      BY <2>2
    <3> HIDE DEF R
    <3> QED
      BY <2>2, <3>1
  <2> QED
    BY <2>1, <2>2
<1>3. Bindings(own, parameter) = first \o second
  BY DEF Bindings
<1> HIDE DEF R, first, second
<1>4. Bindings(own, parameter) \in Seq(R)
  BY <1>1, <1>2, <1>3
<1>5. \A i \in DOMAIN Bindings(own, parameter) : i \in Nat /\ Bindings(own, parameter)[i] \in R
  BY <1>4
<1> QED
  BY <1>4, <1>5 DEF R

\* A call has a scope chain, with its own frame before the captured ones.
LEMMA EnterKeeps ==
    ASSUME NInv, NEW m \in Modules \cup {builtin}, NEW chain \in Seq(Nat),
           NEW own \in Names \cup {NOTHING}, NEW parameter \in Names \cup {NOTHING},
           Enter(m, own, chain, parameter)
    PROVE  NInv'
<1> DEFINE bound == Bindings(own, parameter)
           place(n) == CHOOSE i \in DOMAIN bound : bound[i].name = n
           bindings == [i \in DOMAIN bound |-> Made(bound[i].is_final)]
           frame == [n \in {bound[i].name : i \in DOMAIN bound} |-> Len(variables) + place(n)]
<1>1. bound \in Seq([name : Names, is_final : BOOLEAN])
  BY BindingsType
<1>2. DOMAIN bound \subseteq Nat /\ \A i \in DOMAIN bound :
          bound[i].name \in Names /\ bound[i].is_final \in BOOLEAN
  BY BindingsType
<1>3. /\ variables' = variables \o bindings
      /\ frames' = Append(frames, frame)
      /\ contexts' = Append(contexts, Context(m, <<Len(frames) + 1>> \o chain))
      /\ UNCHANGED <<global_vars, modules, closures>>
  BY DEF Enter
<1>4. \A n \in {bound[i].name : i \in DOMAIN bound} : place(n) \in Nat
  <2> SUFFICES ASSUME NEW n \in {bound[i].name : i \in DOMAIN bound}
               PROVE  place(n) \in Nat
    OBVIOUS
  <2>1. \E i \in DOMAIN bound : bound[i].name = n
    OBVIOUS
  <2> QED
    BY <1>2, <2>1
<1>5. bindings \in Seq(Variable)
  <2>1. \A i \in DOMAIN bound : Made(bound[i].is_final) \in Variable
    BY <1>2 DEF Made, Variable
  <2> HIDE DEF bound
  <2> QED
    BY <1>1, <2>1
<1>6. frame \in Tables
  <2> HIDE DEF place
  <2>1. Len(variables) \in Nat
    BY DEF NInv
  <2>2. {bound[i].name : i \in DOMAIN bound} \in SUBSET Names
    BY <1>2
  <2> DEFINE S == {bound[i].name : i \in DOMAIN bound}
  <2>3. frame \in [S -> Nat]
    BY <1>4, <2>1
  <2> HIDE DEF S, frame
  <2> QED
    BY <2>2, <2>3 DEF Tables, S
<1> HIDE DEF bindings, frame
<1>7. variables' \in Seq(Variable) /\ frames' \in Seq(Tables)
  BY <1>3, <1>5, <1>6 DEF NInv
<1>8. <<Len(frames) + 1>> \o chain \in Seq(Nat) /\ <<Len(frames) + 1>> \o chain # << >>
  BY DEF NInv
<1>9. ContextsTyped' /\ RefsHeld'
  <2> DEFINE c == <<Len(frames) + 1>> \o chain
  <2> HIDE DEF c
  <2>1. c \in Seq(Nat) /\ c # << >> /\ contexts' = Append(contexts, Context(m, c))
    BY <1>3, <1>8 DEF c
  <2>2. m \in Modules \cup {builtin}
    OBVIOUS
  <2> QED
    BY <1>3, <2>1, <2>2, AppendKeeps
<1> QED
  BY <1>3, <1>7, <1>9 DEF NInv, TablesApart

\* A closure keeps the scope chain it was made in.
LEMMA ClosureKeeps ==
    ASSUME NInv, NEW own \in Bound \cup {NOTHING}, ClosureExpression(own)
    PROVE  NInv'
<1>1. Top.module \in Modules \cup {builtin} /\ Top.scope_chain \in Seq(Nat)
  BY TopIs DEF ContextType
<1>2. closures' \subseteq Closure
  BY <1>1, NamesAssumption DEF ClosureExpression, Closure
<1> QED
  BY <1>2 DEF ClosureExpression, NInv, ContextsTyped, TablesApart, RefsHeld, SearchGlobal, Toplevel

\* A module that is imported starts with no scope chain.
LEMMA ImportKeeps ==
    ASSUME NInv, NEW m \in Modules, Import(m)
    PROVE  NInv'
<1>1. << >> \in Seq(Nat) /\ m \in Modules
  OBVIOUS
<1>2. ContextsTyped' /\ RefsHeld'
  BY <1>1, AppendKeeps DEF Import
<1> QED
  BY <1>1, <1>2 DEF Import, NInv, TablesApart

\* An exception leaves any number of contexts at once.
LEMMA UnwindKeeps ==
    ASSUME NInv, NEW k \in 1 .. Len(contexts) - 1, Unwind(k)
    PROVE  NInv'
<1>1. /\ contexts' \in Seq(ContextType) /\ contexts' # << >>
      /\ \A i \in DOMAIN contexts' : i \in DOMAIN contexts /\ contexts'[i] = contexts[i]
  <2>1. contexts \in Seq(ContextType) /\ Len(contexts) \in Nat
    BY DEF NInv, ContextsTyped
  <2>2. k \in Nat /\ k >= 1 /\ k <= Len(contexts)
    BY <2>1
  <2>3. contexts' = SubSeq(contexts, 1, k)
    BY DEF Unwind
  <2>4. /\ SubSeq(contexts, 1, k) \in Seq(ContextType) /\ Len(SubSeq(contexts, 1, k)) = k
        /\ \A i \in 1 .. k : SubSeq(contexts, 1, k)[i] = contexts[i]
    BY <2>1, <2>2
  <2>5. DOMAIN SubSeq(contexts, 1, k) = 1 .. k /\ 1 .. k \subseteq DOMAIN contexts
    BY <2>1, <2>2, <2>4
  <2> QED
    BY <2>2, <2>3, <2>4, <2>5
<1>2. ContextsTyped'
  BY <1>1 DEF NInv, ContextsTyped, Toplevel
<1>3. RefsHeld'
  BY <1>1 DEF NInv, RefsHeld, SearchGlobal, Unwind
<1> QED
  BY <1>2, <1>3 DEF Unwind, NInv, TablesApart

-----------------------------------------------------------------------------

\* NInv holds in every reachable state of every program.
THEOREM NamesInductive == NamesSpec => []NInv
<1>1. ASSUME NInv, [NamesNext]_namesVars PROVE NInv'
  <2> USE <1>1
  <2>1. CASE UNCHANGED namesVars
    BY <2>1 DEF namesVars, NInv, ContextsTyped, TablesApart, RefsHeld, SearchGlobal, Toplevel
  <2>2. ASSUME NEW n \in Names, NEW final \in BOOLEAN, AssignName(n, final) PROVE NInv'
    BY <2>2, AssignNameKeeps
  <2>3. ASSUME NEW m \in modules, NEW n \in Names, NEW final \in BOOLEAN,
               AssignMember(m, n, final)
        PROVE NInv'
    BY <2>3, AssignMemberKeeps
  <2>4. ASSUME NEW n \in Names, GlobalStatement(n) PROVE NInv'
    BY <2>4, GlobalKeeps
  <2>5. ASSUME NEW m \in Modules \cup {builtin}, NEW n \in Names, NEW p \in Bound \cup {NOTHING},
               CallFunction(m, n, p)
        PROVE NInv'
    <3>1. /\ m \in Modules \cup {builtin} /\ << >> \in Seq(Nat)
          /\ p \in Names \cup {NOTHING} /\ NOTHING \in Names \cup {NOTHING}
          /\ Enter(m, NOTHING, << >>, p)
      BY <2>5, NamesAssumption DEF CallFunction
    <3> QED
      BY <3>1, EnterKeeps
  <2>6. ASSUME NEW own \in Bound \cup {NOTHING}, ClosureExpression(own) PROVE NInv'
    BY <2>6, ClosureKeeps
  <2>7. ASSUME NEW k \in closures, NEW p \in Bound \cup {NOTHING}, CallClosure(k, p)
        PROVE NInv'
    <3>1. /\ k.module \in Modules \cup {builtin} /\ k.scope_chain \in Seq(Nat)
          /\ k.name \in Names \cup {NOTHING}
      BY <2>7 DEF NInv, Closure
    <3>2. p \in Names \cup {NOTHING} /\ Enter(k.module, k.name, k.scope_chain, p)
      BY <2>7, NamesAssumption DEF CallClosure
    <3> QED
      BY <3>1, <3>2, EnterKeeps
  <2>8. ASSUME NEW m \in Modules, Import(m) PROVE NInv'
    BY <2>8, ImportKeeps
  <2>9. ASSUME NEW k \in 1 .. Len(contexts) - 1, Unwind(k) PROVE NInv'
    BY <2>9, UnwindKeeps
  <2> QED
    BY <2>1, <2>2, <2>3, <2>4, <2>5, <2>6, <2>7, <2>8, <2>9 DEF NamesNext
<1> QED
  BY <1>1, NamesInitial, PTL DEF NamesSpec

\* Every variable keeps its type in every program.
THEOREM NamesTypeCorrect == NamesSpec => []NamesTypeOK
<1>1. NInv => NamesTypeOK
  BY DEF NInv, ContextsTyped, TablesApart, NamesTypeOK
<1> QED
  BY <1>1, NamesInductive, PTL

\* Identifier and member expressions agree in every program, and every global
\* statement's reference is to a variable a table holds.
THEOREM LookupsAlwaysAgree == NamesSpec => []LookupsAgree
<1>1. ASSUME NInv PROVE LookupsAgree
  <2> USE <1>1
  <2> SUFFICES ASSUME NEW m \in modules, NEW n \in Names \ BuiltinNames,
                      Member(m, n) # NOTHING
               PROVE  Identifier(Context(m, << >>), n) = Member(m, n)
    BY DEF NInv, RefsHeld, LookupsAgree
  <2> DEFINE c == Context(m, << >>)
  <2>1. c.module = m /\ c.scope_chain = << >>
    BY DEF Context
  <2> HIDE DEF c
  <2>2. LValue(c, n) = SearchBoth(m, n)
    <3>1. DOMAIN c.scope_chain = {}
      BY <2>1
    <3>2. SearchLocal(c, n) = NOTHING
      BY <3>1 DEF SearchLocal, FramesWith
    <3> QED
      BY <2>1, <3>2 DEF LValue, GlobalFromEnv, Toplevel
  <2>3. m \in Modules /\ n \in Names /\ n \notin DOMAIN global_vars[builtin]
    BY DEF NInv, TablesApart
  <2>4. SearchGlobal(builtin, n) = NOTHING
    BY <2>3 DEF SearchGlobal
  <2>5. CASE <<m, n>> \in Functions
    <3>1. n \notin DOMAIN global_vars[m]
      BY <2>3, <2>5 DEF NInv, TablesApart
    <3>2. LValue(c, n) = NOTHING
      BY <2>2, <2>4, <3>1 DEF SearchBoth, SearchGlobal
    <3> QED
      BY <2>1, <2>5, <3>2 DEF Identifier, Member, FunctionSeen, c
  <2>6. CASE <<m, n>> \notin Functions
    BY <2>2, <2>6 DEF Identifier, Member, VariableAt, SearchBoth, c
  <2> QED
    BY <2>5, <2>6
<1> QED
  BY <1>1, NamesInductive, PTL

\* No step of any program changes a final variable, but for a call that
\* reaches it through a global statement.
THEOREM FinalsAreKept == NamesSpec => FinalsKept
<1> DEFINE Kept == \A a \in DOMAIN variables : variables[a].is_final =>
               \/ variables'[a] = variables[a]
               \/ \E n \in DOMAIN Top.global_var_refs : Top.global_var_refs[n] = a
<1>1. ASSUME NInv, [NamesNext]_namesVars PROVE Kept
  <2> SUFFICES ASSUME NEW a \in DOMAIN variables, variables[a].is_final,
                      \A n \in DOMAIN Top.global_var_refs : Top.global_var_refs[n] # a
               PROVE  variables'[a] = variables[a]
    OBVIOUS
  <2>0. variables \in Seq(Variable)
    BY <1>1 DEF NInv
  <2>1. ASSUME NEW place, place # a, DoAssign(place) PROVE variables'[a] = variables[a]
    BY <2>0, <2>1 DEF DoAssign
  <2>2. ASSUME NEW final, variables' = NewVariable(final) PROVE variables'[a] = variables[a]
    BY <2>0, <2>2 DEF NewVariable
  <2>3. ASSUME NEW n \in Names, NEW final \in BOOLEAN, AssignName(n, final)
        PROVE  variables'[a] = variables[a]
    <3>1. CASE LValue(Top, n) # NOTHING
      <4>1. LValue(Top, n) # a
        <5>1. CASE SearchLocal(Top, n) # NOTHING \/ Toplevel(Top)
          BY <2>3, <3>1, <5>1 DEF AssignName, IsFinal
        <5>2. CASE SearchLocal(Top, n) = NOTHING /\ ~Toplevel(Top)
          BY <3>1, <5>2 DEF LValue, GlobalFromEnv
        <5> QED
          BY <5>1, <5>2
      <4> QED
        BY <2>1, <2>3, <3>1, <4>1 DEF AssignName
    <3>2. CASE LValue(Top, n) = NOTHING
      BY <2>2, <2>3, <3>2 DEF AssignName, AddGlobal, AddLocal
    <3> QED
      BY <3>1, <3>2
  <2>4. ASSUME NEW m \in modules, NEW n \in Names, NEW final \in BOOLEAN,
               AssignMember(m, n, final)
        PROVE  variables'[a] = variables[a]
    <3>1. CASE SearchGlobal(m, n) # NOTHING
      BY <2>1, <2>4, <3>1 DEF AssignMember, MemberFinal
    <3>2. CASE SearchGlobal(m, n) = NOTHING
      BY <2>2, <2>4, <3>2 DEF AssignMember, AddGlobal
    <3> QED
      BY <3>1, <3>2
  <2>5. ASSUME NEW m, NEW own, NEW chain, NEW p, Enter(m, own, chain, p)
        PROVE  variables'[a] = variables[a]
    <3> DEFINE bound == Bindings(own, p)
               bindings == [i \in DOMAIN bound |-> Made(bound[i].is_final)]
    <3>1. variables' = variables \o bindings
      BY <2>5 DEF Enter
    <3>2. /\ bound \in Seq([name : {own, p}, is_final : BOOLEAN])
          /\ \A i \in DOMAIN bound : bound[i].is_final \in BOOLEAN
      <4>1. own \in {own, p} \cup {NOTHING} /\ p \in {own, p} \cup {NOTHING}
        OBVIOUS
      <4> QED
        BY <4>1, BindingsType
    <3> HIDE DEF bound
    <3>3. bindings \in Seq(Variable)
      <4>1. \A i \in DOMAIN bound : Made(bound[i].is_final) \in Variable
        BY <3>2 DEF Made, Variable
      <4> QED
        BY <3>2, <4>1
    <3> HIDE DEF bindings
    <3> QED
      BY <2>0, <3>1, <3>3
  <2>6. CASE UNCHANGED variables
    BY <2>6
  <2> QED
    BY <1>1, <2>3, <2>4, <2>5, <2>6 DEF NamesNext, CallFunction, CallClosure, GlobalStatement,
       ClosureExpression, Import, Unwind, namesVars
<1> HIDE DEF Kept
<1>2. ASSUME NInv, [NamesNext]_namesVars PROVE [Kept]_namesVars
  BY <1>1, <1>2
<1> QED
  BY <1>2, NamesInductive, PTL DEF NamesSpec, FinalsKept, Kept

-----------------------------------------------------------------------------
(* Expressions and constant folding: CrbValues. *)

\* A sequence of anything
IsSeq(s) == \E S : s \in Seq(S)

IsLonger(s, e, t) ==
    /\ IsSeq(t) /\ Len(t) = Len(s) + 1 /\ Len(s) \in Nat
    /\ t[Len(s) + 1] = e
    /\ \A i \in 1..Len(s) : t[i] = s[i]

\* What Append adds
LEMMA LongerIs ==
    ASSUME NEW s, NEW e, IsSeq(s)
    PROVE  IsLonger(s, e, Append(s, e))
<1>1. PICK S : s \in Seq(S)
  BY DEF IsSeq
<1>2. s \in Seq(S \cup {e}) /\ e \in S \cup {e}
  BY <1>1
<1>3. PICK U : U = S \cup {e}
  OBVIOUS
<1>4. s \in Seq(U) /\ e \in U
  BY <1>2, <1>3
<1>5. Append(s, e) \in Seq(U) /\ Len(Append(s, e)) = Len(s) + 1 /\ Len(s) \in Nat
  BY <1>4
<1>6. Append(s, e)[Len(s) + 1] = e /\ \A i \in 1..Len(s) : Append(s, e)[i] = s[i]
  BY <1>4
<1>. QED BY <1>5, <1>6 DEF IsLonger, IsSeq

\* The operands of an expression are earlier ones.
Numbered(es) == \A i \in 1..Len(es) : es[i].left \in 0..(i - 1) /\ es[i].right \in 0..(i - 1)

IsMeanings(f, n, es, x) ==
    /\ DOMAIN f = 0..n
    /\ f[0] = {}
    /\ \A i \in 1..n : f[i] = Eval(es[i], f[es[i].left], f[es[i].right], x)

\* The table of what the first n expressions mean exists.
LEMMA MeaningsExist ==
    ASSUME NEW es, NEW x, Len(es) \in Nat, Numbered(es)
    PROVE  \A n \in 0..Len(es) : \E f : IsMeanings(f, n, es, x)
<1> DEFINE T == {n \in Nat : n <= Len(es) => \E f : IsMeanings(f, n, es, x)}
<1>1. 0 \in T
  <2> DEFINE f == [i \in 0..0 |-> {}]
  <2>1. DOMAIN f = 0..0 /\ f[0] = {} /\ 1..0 = {}
    OBVIOUS
  <2> HIDE DEF f
  <2>2. IsMeanings(f, 0, es, x)
    BY <2>1 DEF IsMeanings
  <2>. QED BY <2>2
<1>2. ASSUME NEW n \in T PROVE n + 1 \in T
  <2> SUFFICES ASSUME n + 1 <= Len(es)
               PROVE  \E f : IsMeanings(f, n + 1, es, x)
    OBVIOUS
  <2>1. PICK f : IsMeanings(f, n, es, x)
    OBVIOUS
  <2>2. n \in Nat /\ n + 1 \in 1..Len(es) /\ n + 1 \notin 0..n
    OBVIOUS
  <2>3. es[n + 1].left \in 0..n /\ es[n + 1].right \in 0..n
    <3>1. es[n + 1].left \in 0..((n + 1) - 1) /\ es[n + 1].right \in 0..((n + 1) - 1)
      BY <2>2 DEF Numbered
    <3>. QED BY <2>2, <3>1
  <2>4. PICK v : v = Eval(es[n + 1], f[es[n + 1].left], f[es[n + 1].right], x)
    OBVIOUS
  <2> DEFINE g == [i \in 0..(n + 1) |-> IF i = n + 1 THEN v ELSE f[i]]
  <2>5. DOMAIN g = 0..(n + 1) /\ g[n + 1] = v /\ \A i \in 0..n : g[i] = f[i]
    BY <2>2
  <2> HIDE DEF g
  <2>6. ASSUME NEW i \in 1..(n + 1)
        PROVE  g[i] = Eval(es[i], g[es[i].left], g[es[i].right], x)
    <3>1. CASE i = n + 1
      <4>1. g[es[i].left] = f[es[i].left] /\ g[es[i].right] = f[es[i].right]
        BY <2>3, <2>5, <3>1
      <4>. QED BY <2>4, <2>5, <3>1, <4>1
    <3>2. CASE i \in 1..n
      <4>1. es[i].left \in 0..(i - 1) /\ es[i].right \in 0..(i - 1)
        BY <2>2, <3>2 DEF Numbered
      <4>2. es[i].left \in 0..n /\ es[i].right \in 0..n /\ i \in 0..n
        BY <2>2, <3>2, <4>1
      <4>3. g[es[i].left] = f[es[i].left] /\ g[es[i].right] = f[es[i].right] /\ g[i] = f[i]
        BY <2>5, <4>2
      <4>4. f[i] = Eval(es[i], f[es[i].left], f[es[i].right], x)
        BY <2>1, <3>2 DEF IsMeanings
      <4>. QED BY <4>3, <4>4
    <3>. QED BY <2>2, <3>1, <3>2
  <2>7. g[0] = {}
    BY <2>1, <2>2, <2>5 DEF IsMeanings
  <2>8. IsMeanings(g, n + 1, es, x)
    BY <2>5, <2>6, <2>7 DEF IsMeanings
  <2>. QED BY <2>8
<1>3. T = Nat
  <2> HIDE DEF T
  <2>1. T \in SUBSET Nat
    BY DEF T
  <2>. QED BY <1>1, <1>2, <2>1, NatSets
<1>. QED BY <1>3

\* What Meanings is
LEMMA MeaningsAre ==
    ASSUME NEW es, NEW x, Len(es) \in Nat, Numbered(es)
    PROVE  IsMeanings(Meanings(es, x), Len(es), es, x)
<1> DEFINE n == Len(es)
           Body(f, i) == IF i = 0 THEN {} ELSE Eval(es[i], f[es[i].left], f[es[i].right], x)
<1>0. n \in 0..Len(es)
  OBVIOUS
<1> HIDE DEF n
<1>1. PICK f : IsMeanings(f, n, es, x)
  BY <1>0, MeaningsExist
<1> USE DEF n
<1>2. \E g : g = [i \in 0..n |-> Body(g, i)]
  <2>1. DOMAIN f = 0..n /\ \A i \in 0..n : f[i] = Body(f, i)
    BY <1>1 DEF IsMeanings
  <2> DEFINE g == [i \in 0..n |-> f[i]]
  <2>2. ASSUME NEW i \in 0..n PROVE Body(g, i) = Body(f, i)
    <3>1. CASE i = 0
      BY <3>1
    <3>2. CASE i # 0
      <4>1. es[i].left \in 0..(i - 1) /\ es[i].right \in 0..(i - 1)
        BY <3>2 DEF Numbered
      <4>2. es[i].left \in 0..n /\ es[i].right \in 0..n
        BY <3>2, <4>1
      <4>3. g[es[i].left] = f[es[i].left] /\ g[es[i].right] = f[es[i].right]
        BY <4>2
      <4> HIDE DEF g
      <4>. QED BY <4>3
    <3>. QED BY <3>1, <3>2
  <2> HIDE DEF Body
  <2>3. \A i \in 0..n : f[i] = Body(g, i)
    BY <2>1, <2>2
  <2>4. g = [i \in 0..n |-> Body(g, i)]
    <3> DEFINE h == [i \in 0..n |-> Body(g, i)]
    <3>1. \A i \in 0..n : g[i] = h[i]
      BY <2>3
    <3>2. DOMAIN g = 0..n /\ DOMAIN h = 0..n /\ h = [i \in 0..n |-> h[i]] /\ g = [i \in 0..n |-> g[i]]
      OBVIOUS
    <3> HIDE DEF g, h
    <3>3. g = h
      BY <3>1, <3>2
    <3>. QED BY <3>3 DEF h
  <2>. QED BY <2>4
<1>3. Meanings(es, x) = [i \in 0..n |-> Body(Meanings(es, x), i)]
  BY <1>2 DEF Meanings
<1>4. PICK m : m = Meanings(es, x)
  OBVIOUS
<1>5. m = [i \in 0..n |-> Body(m, i)]
  BY <1>3, <1>4
<1>6. DOMAIN m = 0..n /\ \A i \in 0..n : m[i] = Body(m, i)
  <2> HIDE DEF Body, n
  <2>. QED BY <1>5
<1>7. IsMeanings(m, n, es, x)
  <2>1. m[0] = {}
    BY <1>6
  <2>2. ASSUME NEW i \in 1..n PROVE m[i] = Eval(es[i], m[es[i].left], m[es[i].right], x)
    <3>1. i \in 0..n /\ i # 0
      OBVIOUS
    <3>2. m[i] = Body(m, i)
      BY <1>6, <3>1
    <3>. QED BY <3>1, <3>2
  <2> HIDE DEF Body
  <2>. QED BY <1>6, <2>1, <2>2 DEF IsMeanings
<1>. QED BY <1>4, <1>7

\* Another expression changes nothing about those before it.
LEMMA MeaningsStay ==
    ASSUME NEW es, NEW fs, NEW x, Len(es) \in Nat, Numbered(es), Len(fs) \in Nat, Numbered(fs),
           Len(es) <= Len(fs), \A i \in 1..Len(es) : fs[i] = es[i]
    PROVE  \A i \in 0..Len(es) : Meanings(fs, x)[i] = Meanings(es, x)[i]
<1>1. PICK m, k : m = Meanings(es, x) /\ k = Meanings(fs, x)
  OBVIOUS
<1>2. IsMeanings(m, Len(es), es, x) /\ IsMeanings(k, Len(fs), fs, x)
  BY <1>1, MeaningsAre
<1> DEFINE T == {n \in Nat : \A i \in 0..n : i <= Len(es) => k[i] = m[i]}
<1>3. 0 \in T
  <2>1. m[0] = {} /\ k[0] = {}
    BY <1>2 DEF IsMeanings
  <2>2. \A i \in 0..0 : i = 0
    OBVIOUS
  <2>. QED BY <2>1, <2>2
<1>4. ASSUME NEW n \in T PROVE n + 1 \in T
  <2> SUFFICES ASSUME n + 1 <= Len(es) PROVE k[n + 1] = m[n + 1]
    <3>1. \A i \in 0..(n + 1) : i = n + 1 \/ i \in 0..n
      OBVIOUS
    <3>. QED BY <3>1
  <2>1. n + 1 \in 1..Len(es) /\ n + 1 \in 1..Len(fs) /\ (n + 1) - 1 = n
    OBVIOUS
  <2>2. es[n + 1].left \in 0..n /\ es[n + 1].right \in 0..n /\ fs[n + 1] = es[n + 1]
    BY <2>1 DEF Numbered
  <2>3. k[es[n + 1].left] = m[es[n + 1].left] /\ k[es[n + 1].right] = m[es[n + 1].right]
    BY <2>1, <2>2
  <2>. QED BY <1>2, <2>1, <2>2, <2>3 DEF IsMeanings
<1>5. T = Nat
  <2> HIDE DEF T
  <2>1. T \in SUBSET Nat
    BY DEF T
  <2>. QED BY <1>3, <1>4, <2>1, NatSets
<1>. QED BY <1>1, <1>5

\* An expression can result in more only if an operand can.
LEMMA EvalGrows ==
    ASSUME NEW e, NEW x, NEW A, NEW B, NEW C, NEW D, A \subseteq C, B \subseteq D
    PROVE  Eval(e, A, B, x) \subseteq Eval(e, C, D, x)
<1>1. /\ Failed(A) \subseteq Failed(C) /\ Failed(B) \subseteq Failed(D)
      /\ Values(A) \subseteq Values(C) /\ Values(B) \subseteq Values(D)
  BY DEF Failed, Values
<1>2. PICK bothA : bothA = Failed(A) \cup (IF Values(A) = {} THEN {} ELSE Failed(B))
  OBVIOUS
<1>3. PICK bothC : bothC = Failed(C) \cup (IF Values(C) = {} THEN {} ELSE Failed(D))
  OBVIOUS
<1>4. bothA \subseteq bothC
  BY <1>1, <1>2, <1>3
<1>5. CASE e.kind = "literal"
  <2>1. \A L, R : Eval(e, L, R, x) = {e.value}
    BY <1>5 DEF Eval, LogicalOps
  <2>. QED BY <2>1
<1>6. CASE e.kind = "x"
  <2>1. \A L, R : Eval(e, L, R, x) = {x}
    BY <1>6 DEF Eval, LogicalOps
  <2>. QED BY <2>1
<1>7. CASE e.kind = "minus"
  <2>1. \A L, R : Eval(e, L, R, x) = Failed(L) \cup {EvalMinus(v) : v \in Values(L)}
    BY <1>7 DEF Eval, LogicalOps
  <2>. QED BY <1>1, <2>1
<1>8. CASE e.kind = "not"
  <2>1. \A L, R : Eval(e, L, R, x) = Failed(L) \cup {EvalNot(v) : v \in Values(L)}
    BY <1>8 DEF Eval, LogicalOps
  <2>. QED BY <1>1, <2>1
<1>9. CASE e.kind \in LogicalOps
  <2>1. \A L, R : Eval(e, L, R, x) = Failed(L) \cup UNION {EvalLogical(e.kind, l, R) : l \in Values(L)}
    BY <1>9 DEF Eval, LogicalOps
  <2>2. \A l : EvalLogical(e.kind, l, B) \subseteq EvalLogical(e.kind, l, D)
    BY <1>1 DEF EvalLogical
  <2>. QED BY <1>1, <2>1, <2>2
<1>10. CASE e.kind = ".."
  <2>1. /\ Eval(e, A, B, x) = bothA \cup {ChainString(l, r) : l \in Values(A), r \in Values(B)}
        /\ Eval(e, C, D, x) = bothC \cup {ChainString(l, r) : l \in Values(C), r \in Values(D)}
    BY <1>2, <1>3, <1>10 DEF Eval, LogicalOps
  <2>. QED BY <1>1, <1>4, <2>1
<1>11. CASE e.kind \notin {"literal", "x", "minus", "not", ".."} \cup LogicalOps
  <2>1. /\ Eval(e, A, B, x) = bothA \cup UNION {EvalBinary(e.kind, l, r) : l \in Values(A), r \in Values(B)}
        /\ Eval(e, C, D, x) = bothC \cup UNION {EvalBinary(e.kind, l, r) : l \in Values(C), r \in Values(D)}
    BY <1>2, <1>3, <1>11 DEF Eval
  <2>. QED BY <1>1, <1>4, <2>1
<1>. QED BY <1>5, <1>6, <1>7, <1>8, <1>9, <1>10, <1>11

\* What an operator of two numbers computes is a number, a truth value or a failure.
LEMMA NumbersGive ==
    ASSUME NEW op, NEW l, NEW r, Numeric(l), Numeric(r), NEW v \in EvalBinary(op, l, r)
    PROVE  /\ Type(v) \in {"int", "float", "boolean", "error", "abort"}
           /\ op \in LogicalOps => Type(v) = "error"
           /\ op = ".." => Type(v) = "abort"
           /\ v # << >>
<1>1. EvalBinary(op, l, r) = EvalBinaryNumeric(op, l, r)
  BY DEF EvalBinary, Numeric, IsObject
<1>2. CASE v \in EvalBinaryDouble(op)
  <2>1. CASE op \in LogicalOps
    <3>1. EvalBinaryDouble(op) = {Error("LOGICAL_OP_DOUBLE_OPERAND_ERR")}
      BY <2>1 DEF EvalBinaryDouble, LogicalOps, CompareOps
    <3>. QED BY <1>2, <2>1, <3>1 DEF Error, Type, LogicalOps
  <2>2. CASE op = ".."
    <3>1. EvalBinaryDouble(op) = {Abort("DBG_assert")}
      BY <2>2 DEF EvalBinaryDouble, LogicalOps, CompareOps
    <3>. QED BY <1>2, <2>2, <3>1 DEF Abort, Type, LogicalOps
  <2>3. CASE op \in CompareOps
    <3>1. EvalBinaryDouble(op) = Booleans
      BY <2>3 DEF EvalBinaryDouble, LogicalOps, CompareOps
    <3>2. \A b : Type(Bool(b)) = "boolean" /\ Bool(b) # << >>
      BY DEF Type, Bool
    <3>3. v = Bool(TRUE) \/ v = Bool(FALSE)
      BY <1>2, <3>1 DEF Booleans
    <3>. QED BY <2>3, <3>2, <3>3 DEF LogicalOps, CompareOps
  <2>4. CASE op \notin LogicalOps \cup {".."} \cup CompareOps
    BY <1>2, <2>4 DEF EvalBinaryDouble, Type
  <2>. QED BY <2>1, <2>2, <2>3, <2>4
<1>3. CASE v \in EvalBinaryInt(op, l[2], r[2])
  BY <1>3 DEF EvalBinaryInt, Bool, Error, Abort, Long, Type, LogicalOps, CompareOps
<1>. QED BY <1>1, <1>2, <1>3 DEF EvalBinaryNumeric

\* x op= v computes what x op v does, or nobody wrote what x becomes.
AssignsAlike(x, v) ==
    \A op \in MathOps :
       \/ AssignOperator(op, x, v) = EvalBinary(op, x, v)
       \/ /\ AssignOperator(op, x, v) = {<<"uninitialized">>}
          /\ \A o \in EvalBinary(op, x, v) : Type(o) \in {"error", "boolean"}

\* do_assign agrees with the operators (teval.c:1051).
LEMMA AssignsAsComputed == \A x, v : AssignsAlike(x, v)
<1> SUFFICES ASSUME NEW x, NEW v, NEW op \in MathOps
             PROVE  \/ AssignOperator(op, x, v) = EvalBinary(op, x, v)
                    \/ /\ AssignOperator(op, x, v) = {<<"uninitialized">>}
                       /\ \A o \in EvalBinary(op, x, v) : Type(o) \in {"error", "boolean"}
  BY DEF AssignsAlike
<1>0. op \notin CompareOps /\ op \notin LogicalOps
  BY DEF MathOps, CompareOps, LogicalOps
<1>1. CASE Type(x) = "string" /\ op = "+"
  <2>1. AssignOperator(op, x, v) = {ChainString(x, v)}
    BY <1>1 DEF AssignOperator
  <2>2. EvalBinary(op, x, v) = {ChainString(x, v)}
    BY <1>1 DEF EvalBinary, Numeric
  <2>. QED BY <2>1, <2>2
<1>2. CASE Numeric(x) /\ Numeric(v)
  <2>1. ~ (Type(x) = "string" /\ op = "+")
    BY <1>2 DEF Numeric
  <2>2. AssignOperator(op, x, v) = EvalBinaryNumeric(op, x, v)
    BY <1>2, <2>1 DEF AssignOperator
  <2>3. EvalBinary(op, x, v) = EvalBinaryNumeric(op, x, v)
    BY <1>2 DEF EvalBinary, Numeric, IsObject
  <2>. QED BY <2>2, <2>3
<1>3. CASE ~ (Type(x) = "string" /\ op = "+") /\ ~ (Numeric(x) /\ Numeric(v))
  <2>1. AssignOperator(op, x, v) = {<<"uninitialized">>}
    BY <1>3 DEF AssignOperator
  <2>2. \A id : Type(Error(id)) = "error"
    BY DEF Type, Error
  <2>3. \A b : Type(Bool(b)) = "boolean"
    BY DEF Type, Bool
  <2>4. ASSUME NEW o \in EvalBinary(op, x, v) PROVE Type(o) \in {"error", "boolean"}
    <3>1. CASE Type(x) = "boolean" /\ Type(v) = "boolean"
      <4>1. EvalBinary(op, x, v) = EvalBinaryBoolean(op, x, v)
        BY <3>1 DEF EvalBinary, Numeric, IsObject
      <4>2. EvalBinaryBoolean(op, x, v) = {Error("NOT_BOOLEAN_OPERATOR_ERR")}
        BY <1>0 DEF EvalBinaryBoolean, CompareOps
      <4>. QED BY <2>2, <2>4, <4>1, <4>2
    <3>2. CASE Type(x) = "string" /\ Type(v) = "string"
      <4>1. EvalBinary(op, x, v) = EvalCompareString(op, x, v)
        BY <1>3, <3>2 DEF EvalBinary, Numeric, IsObject
      <4>2. EvalCompareString(op, x, v) = {Error("BAD_OPERATOR_FOR_STRING_ERR")}
        BY <1>0 DEF EvalCompareString
      <4>. QED BY <2>2, <2>4, <4>1, <4>2
    <3>3. CASE "null" \in {Type(x), Type(v)}
      <4>1. EvalBinary(op, x, v) = EvalBinaryNull(op, x, v)
        BY <1>3, <3>3 DEF EvalBinary, Numeric, IsObject
      <4>2. EvalBinaryNull(op, x, v) = {Error("NOT_NULL_OPERATOR_ERR")}
        BY <1>0 DEF EvalBinaryNull, CompareOps
      <4>. QED BY <2>2, <2>4, <4>1, <4>2
    <3>4. CASE IsObject(x) /\ IsObject(v) /\ {Type(x), Type(v)} # {"string"}
      <4>1. ~ (Type(x) = "string" /\ Type(v) = "string")
        BY <3>4
      <4>2. EvalBinary(op, x, v) = {Bool(x = v)}
        BY <1>3, <3>4, <4>1 DEF EvalBinary, Numeric, IsObject
      <4>. QED BY <2>3, <2>4, <4>2
    <3>5. CASE /\ ~ (Type(x) = "boolean" /\ Type(v) = "boolean") /\ ~ (Type(x) = "string" /\ Type(v) = "string")
               /\ "null" \notin {Type(x), Type(v)}
               /\ ~ (IsObject(x) /\ IsObject(v) /\ {Type(x), Type(v)} # {"string"})
      <4>1. EvalBinary(op, x, v) = {Error("BAD_OPERAND_TYPE_ERR")}
        BY <1>3, <3>5 DEF EvalBinary
      <4>. QED BY <2>2, <2>4, <4>1
    <3>. QED BY <3>1, <3>2, <3>3, <3>4, <3>5
  <2>. QED BY <2>1, <2>4
<1>. QED BY <1>1, <1>2, <1>3

LastAdded(s, e, t, x) ==
    /\ Meanings(t, x)[Len(t)] = Eval(e, Meanings(s, x)[e.left], Meanings(s, x)[e.right], x)
    /\ \A i \in 0..Len(s) : Meanings(t, x)[i] = Meanings(s, x)[i]

\* The last expression means what its operands make it mean, the others what they did.
LEMMA LastMeans ==
    ASSUME NEW s, NEW e, NEW t, NEW x, IsLonger(s, e, t), Numbered(s), Numbered(t)
    PROVE  LastAdded(s, e, t, x)
<1>1. Len(s) \in Nat /\ Len(t) \in Nat /\ Len(t) = Len(s) + 1 /\ t[Len(t)] = e
  BY DEF IsLonger
<1>2. \A i \in 1..Len(s) : t[i] = s[i]
  BY DEF IsLonger
<1>3. \A i \in 0..Len(s) : Meanings(t, x)[i] = Meanings(s, x)[i]
  <2>1. Len(s) <= Len(t)
    BY <1>1
  <2>. QED BY <1>1, <1>2, <2>1, MeaningsStay
<1>4. e.left \in 0..Len(s) /\ e.right \in 0..Len(s)
  BY <1>1 DEF Numbered
<1>5. PICK m : m = Meanings(t, x)
  OBVIOUS
<1>6. IsMeanings(m, Len(t), t, x)
  BY <1>1, <1>5, MeaningsAre
<1>7. Len(t) \in 1..Len(t)
  BY <1>1
<1>8. m[Len(t)] = Eval(e, m[e.left], m[e.right], x)
  BY <1>1, <1>6, <1>7 DEF IsMeanings
<1>9. m[e.left] = Meanings(s, x)[e.left] /\ m[e.right] = Meanings(s, x)[e.right]
  BY <1>3, <1>4, <1>5
<1>. QED BY <1>3, <1>5, <1>8, <1>9 DEF LastAdded

\* An expression whose operands are earlier ones can be added.
LEMMA NumberedLonger ==
    ASSUME NEW s, NEW e, NEW t, IsLonger(s, e, t), Numbered(s), e.left \in 0..Len(s), e.right \in 0..Len(s)
    PROVE  Numbered(t)
<1>1. Len(s) \in Nat /\ Len(t) = Len(s) + 1 /\ t[Len(s) + 1] = e /\ \A i \in 1..Len(s) : t[i] = s[i]
  BY DEF IsLonger
<1>2. ASSUME NEW i \in 1..Len(t) PROVE t[i].left \in 0..(i - 1) /\ t[i].right \in 0..(i - 1)
  <2>1. CASE i = Len(s) + 1
    BY <1>1, <2>1
  <2>2. CASE i \in 1..Len(s)
    BY <1>1, <2>2 DEF Numbered
  <2>. QED BY <1>1, <2>1, <2>2
<1>. QED BY <1>2 DEF Numbered

\* What was built can result in nothing but what was written can.
Within(b, w, x) == \A i \in 1..Len(b) : Meanings(b, x)[i] \subseteq Meanings(w, x)[i]

\* What is added as the expression is written keeps this, and so does a literal
\* that is one of the results of what is written.
LEMMA WithinLonger ==
    ASSUME NEW b, NEW w, NEW b2, NEW w2, NEW x, NEW eb, NEW ew,
           IsLonger(b, eb, b2), IsLonger(w, ew, w2), Len(b) = Len(w),
           Numbered(b), Numbered(w), Numbered(b2), Numbered(w2), Within(b, w, x),
           \/ eb = ew
           \/ eb.kind = "literal" /\ eb.value \in Eval(ew, Meanings(w, x)[ew.left], Meanings(w, x)[ew.right], x)
    PROVE  Within(b2, w2, x)
<1>1. /\ Len(b) \in Nat /\ Len(b2) = Len(b) + 1 /\ Len(w2) = Len(b2)
      /\ b2[Len(b2)] = eb /\ w2[Len(b2)] = ew
  BY DEF IsLonger
<1>2. /\ Meanings(b2, x)[Len(b2)] = Eval(eb, Meanings(b, x)[eb.left], Meanings(b, x)[eb.right], x)
      /\ \A i \in 0..Len(b) : Meanings(b2, x)[i] = Meanings(b, x)[i]
  <2>1. LastAdded(b, eb, b2, x)
    BY LastMeans
  <2>. QED BY <2>1 DEF LastAdded
<1>3. /\ Meanings(w2, x)[Len(b2)] = Eval(ew, Meanings(w, x)[ew.left], Meanings(w, x)[ew.right], x)
      /\ \A i \in 0..Len(b) : Meanings(w2, x)[i] = Meanings(w, x)[i]
  <2>1. LastAdded(w, ew, w2, x)
    BY LastMeans
  <2>. QED BY <1>1, <2>1 DEF LastAdded
<1>4. Eval(eb, Meanings(b, x)[eb.left], Meanings(b, x)[eb.right], x)
        \subseteq Eval(ew, Meanings(w, x)[ew.left], Meanings(w, x)[ew.right], x)
  <2>1. CASE eb = ew
    <3>1. \A i \in 0..Len(b) : Meanings(b, x)[i] \subseteq Meanings(w, x)[i]
      <4>1. IsMeanings(Meanings(b, x), Len(b), b, x)
        BY <1>1, MeaningsAre
      <4>2. Meanings(b, x)[0] = {}
        BY <4>1 DEF IsMeanings
      <4>3. \A i \in 0..Len(b) : i = 0 \/ i \in 1..Len(b)
        BY <1>1
      <4>. QED BY <4>2, <4>3 DEF Within
    <3>2. eb.left \in 0..Len(b) /\ eb.right \in 0..Len(b)
      BY <1>1 DEF Numbered
    <3>3. PICK A, B, C, D : /\ A = Meanings(b, x)[eb.left] /\ B = Meanings(b, x)[eb.right]
                            /\ C = Meanings(w, x)[eb.left] /\ D = Meanings(w, x)[eb.right]
      OBVIOUS
    <3>4. A \subseteq C /\ B \subseteq D
      BY <3>1, <3>2, <3>3
    <3>5. Eval(eb, A, B, x) \subseteq Eval(eb, C, D, x)
      BY <3>4, EvalGrows
    <3>. QED BY <2>1, <3>3, <3>5
  <2>2. CASE eb.kind = "literal" /\ eb.value \in Eval(ew, Meanings(w, x)[ew.left], Meanings(w, x)[ew.right], x)
    <3>1. \A L, R : Eval(eb, L, R, x) = {eb.value}
      BY <2>2 DEF Eval, LogicalOps
    <3>. QED BY <2>2, <3>1
  <2>. QED BY <2>1, <2>2
<1>5. ASSUME NEW i \in 1..Len(b2) PROVE Meanings(b2, x)[i] \subseteq Meanings(w2, x)[i]
  <2>1. CASE i = Len(b2)
    BY <1>2, <1>3, <1>4, <2>1
  <2>2. CASE i \in 1..Len(b)
    <3>1. i \in 0..Len(b)
      BY <2>2
    <3>2. Meanings(b, x)[i] \subseteq Meanings(w, x)[i]
      BY <2>2 DEF Within
    <3>. QED BY <1>2, <1>3, <3>1, <3>2
  <2>. QED BY <1>1, <2>1, <2>2
<1>. QED BY <1>5 DEF Within

\* A literal means its value.
LEMMA LiteralMeans ==
    ASSUME NEW es, NEW x, Len(es) \in Nat, Numbered(es), NEW i \in 1..Len(es), es[i].kind = "literal"
    PROVE  Meanings(es, x)[i] = {es[i].value}
<1>1. PICK m : m = Meanings(es, x)
  OBVIOUS
<1>2. IsMeanings(m, Len(es), es, x)
  BY <1>1, MeaningsAre
<1>3. m[i] = Eval(es[i], m[es[i].left], m[es[i].right], x)
  BY <1>2 DEF IsMeanings
<1>4. \A L, R : Eval(es[i], L, R, x) = {es[i].value}
  BY DEF Eval, LogicalOps
<1>. QED BY <1>1, <1>3, <1>4

\* What folding two numbers computes or raises is among what is written can
\* result in, unless the operator makes no sense for numbers.
LEMMA FoldedMeans ==
    ASSUME NEW op \in BinaryOps, NEW i, NEW j, NEW A, NEW B, NEW x, NEW l \in A, NEW r \in B,
           Numeric(l), Numeric(r), NEW v \in EvalBinary(op, l, r)
    PROVE  /\ op \notin LogicalOps \cup {".."} => v \in Eval(Operator(op, i, j), A, B, x)
           /\ op \in LogicalOps => Failed(Eval(Operator(op, i, j), A, B, x)) # {}
<1>1. l \in Values(A) /\ r \in Values(B)
  BY DEF Values, Failed, Numeric
<1>2. PICK e : e = Operator(op, i, j)
  OBVIOUS
<1>3. e.kind = op
  BY <1>2 DEF Operator
<1>4. ASSUME op \notin LogicalOps \cup {".."} PROVE v \in Eval(e, A, B, x)
  <2>1. op \notin {"literal", "x", "minus", "not", ".."} \cup LogicalOps
    BY <1>4 DEF BinaryOps, MathOps, CompareOps, LogicalOps
  <2>2. PICK both : both = Failed(A) \cup (IF Values(A) = {} THEN {} ELSE Failed(B))
    OBVIOUS
  <2>3. Eval(e, A, B, x) = both \cup UNION {EvalBinary(e.kind, a, b) : a \in Values(A), b \in Values(B)}
    BY <1>3, <2>1, <2>2 DEF Eval
  <2>. QED BY <1>1, <1>3, <2>3
<1>5. ASSUME op \in LogicalOps PROVE Failed(Eval(e, A, B, x)) # {}
  <2>1. Eval(e, A, B, x) = Failed(A) \cup UNION {EvalLogical(e.kind, a, B) : a \in Values(A)}
    BY <1>3, <1>5 DEF Eval, LogicalOps
  <2>2. PICK o : o = Error("NOT_BOOLEAN_TYPE_ERR")
    OBVIOUS
  <2>3. EvalLogical(e.kind, l, B) = {o}
    BY <2>2 DEF EvalLogical, Numeric
  <2>4. Type(o) = "error"
    BY <2>2 DEF Type, Error
  <2>5. o \in Eval(e, A, B, x)
    BY <1>1, <2>1, <2>3
  <2>. QED BY <2>4, <2>5 DEF Failed
<1>. QED BY <1>2, <1>4, <1>5

\* So is a number that minus is folded with.
LEMMA MinusMeans ==
    ASSUME NEW i, NEW A, NEW B, NEW x, NEW l \in A, Numeric(l)
    PROVE  EvalMinus(l) \in Eval(Operator("minus", i, 0), A, B, x)
<1>1. l \in Values(A)
  BY DEF Values, Failed, Numeric
<1>2. PICK e : e = Operator("minus", i, 0)
  OBVIOUS
<1>3. e.kind = "minus"
  BY <1>2 DEF Operator
<1>4. Eval(e, A, B, x) = Failed(A) \cup {EvalMinus(a) : a \in Values(A)}
  BY <1>3 DEF Eval, LogicalOps
<1>. QED BY <1>1, <1>2, <1>4

\* What the parser has raised is among what the last expression can result in.
RaisedSays(w, err, x) ==
    \/ err \in Meanings(w, x)[Len(w)]
    \/ /\ w[Len(w)].kind \in LogicalOps
       /\ Failed(Meanings(w, x)[Len(w)]) # {}
    \/ w[Len(w)].kind = ".."

Grown ==
    /\ IsSeq(written) /\ IsSeq(built) /\ Len(written) \in Nat /\ Len(built) \in Nat
    /\ Numbered(written) /\ Numbered(built)
    /\ operands \in Seq(1..Len(written))
    /\ raised = << >> => Len(built) = Len(written)

ValuesInv ==
    /\ Grown
    /\ \A x \in Candidates :
          /\ Within(built, written, x)
          /\ raised # << >> => RaisedSays(written, raised, x)

\* The invariant with what do_assign computes is FoldingKeepsMeaning.
LEMMA ValuesInvSays == ValuesInv => FoldingKeepsMeaning
<1> SUFFICES ASSUME ValuesInv, NEW x \in Candidates
             PROVE  LET asBuilt == Meanings(built, x)
                        asWritten == Meanings(written, x)
                    IN  /\ \A i \in 1..Len(built) : asBuilt[i] \subseteq asWritten[i]
                        /\ raised # << >> =>
                              \/ raised \in asWritten[Len(written)]
                              \/ /\ written[Len(written)].kind \in LogicalOps
                                 /\ Failed(asWritten[Len(written)]) # {}
                              \/ written[Len(written)].kind = ".."
                        /\ \A i \in 1..Len(built) : \A v \in Values(asBuilt[i]), op \in MathOps :
                              \/ AssignOperator(op, x, v) = EvalBinary(op, x, v)
                              \/ /\ AssignOperator(op, x, v) = {<<"uninitialized">>}
                                 /\ \A o \in EvalBinary(op, x, v) : Type(o) \in {"error", "boolean"}
  BY DEF FoldingKeepsMeaning
<1>1. \A i \in 1..Len(built) : Meanings(built, x)[i] \subseteq Meanings(written, x)[i]
  BY DEF ValuesInv, Within
<1>2. raised # << >> => \/ raised \in Meanings(written, x)[Len(written)]
                        \/ /\ written[Len(written)].kind \in LogicalOps
                           /\ Failed(Meanings(written, x)[Len(written)]) # {}
                        \/ written[Len(written)].kind = ".."
  BY DEF ValuesInv, RaisedSays
<1>3. \A i \in 1..Len(built) : \A v \in Values(Meanings(built, x)[i]), op \in MathOps :
         \/ AssignOperator(op, x, v) = EvalBinary(op, x, v)
         \/ /\ AssignOperator(op, x, v) = {<<"uninitialized">>}
            /\ \A o \in EvalBinary(op, x, v) : Type(o) \in {"error", "boolean"}
  BY AssignsAsComputed DEF AssignsAlike
<1>. QED BY <1>1, <1>2, <1>3

\* The invariant holds at the start.
LEMMA ValuesInvInit == ValuesInit => ValuesInv
<1> SUFFICES ASSUME ValuesInit PROVE ValuesInv
  OBVIOUS
<1>1. written = << >> /\ built = << >> /\ operands = << >> /\ raised = << >>
  BY DEF ValuesInit
<1>2. IsSeq(<< >>)
  BY DEF IsSeq
<1>3. Len(written) = 0 /\ Len(built) = 0 /\ 1..0 = {}
  BY <1>1
<1>4. Numbered(written) /\ Numbered(built)
  BY <1>3 DEF Numbered
<1>5. Grown
  BY <1>1, <1>2, <1>3, <1>4 DEF Grown
<1>6. \A x : Within(built, written, x)
  BY <1>3 DEF Within
<1>. QED BY <1>1, <1>5, <1>6 DEF ValuesInv

\* An expression is parsed, and what is built for it is the same, or a literal
\* with one of its results.
LEMMA ParsedKeeps ==
    ASSUME ValuesInv, raised = << >>, NEW ew, NEW eb,
           written' = Append(written, ew), built' = Append(built, eb), raised' = raised,
           operands' \in Seq(1..(Len(written) + 1)),
           ew.left \in 0..Len(written), ew.right \in 0..Len(written),
           eb.left \in 0..Len(written), eb.right \in 0..Len(written),
           \A x \in Candidates :
              \/ eb = ew
              \/ /\ eb.kind = "literal"
                 /\ eb.value \in Eval(ew, Meanings(written, x)[ew.left], Meanings(written, x)[ew.right], x)
    PROVE  ValuesInv'
<1>1. Grown /\ Len(built) = Len(written) /\ Numbered(written) /\ Numbered(built)
  BY DEF ValuesInv, Grown
<1>2. IsLonger(written, ew, written') /\ IsLonger(built, eb, built')
  BY <1>1, LongerIs DEF Grown
<1>3. Numbered(written') /\ Numbered(built')
  BY <1>1, <1>2, NumberedLonger
<1>4. Grown'
  BY <1>1, <1>2, <1>3 DEF Grown, IsLonger
<1>5. ASSUME NEW x \in Candidates PROVE Within(built', written', x)
  <2>1. Within(built, written, x)
    BY <1>5 DEF ValuesInv
  <2>. QED BY <1>1, <1>2, <1>3, <1>5, <2>1, WithinLonger
<1>. QED BY <1>4, <1>5 DEF ValuesInv

\* A literal or x is parsed.
LEMMA PrimaryKeeps ==
    ASSUME ValuesInv, NEW e, e.left = 0, e.right = 0, Primary(e)
    PROVE  ValuesInv'
<1>1. /\ raised = << >> /\ raised' = raised
      /\ written' = Append(written, e) /\ built' = Append(built, e)
      /\ operands' = Append(operands, Len(written) + 1)
  BY DEF Primary, MayParse
<1>2. operands \in Seq(1..Len(written)) /\ Len(written) \in Nat
  BY DEF ValuesInv, Grown
<1>3. operands' \in Seq(1..(Len(written) + 1))
  <2>1. operands \in Seq(1..(Len(written) + 1)) /\ Len(written) + 1 \in 1..(Len(written) + 1)
    BY <1>2
  <2>. QED BY <1>1, <2>1
<1>4. 0 \in 0..Len(written)
  BY <1>2
<1>. QED BY <1>1, <1>3, <1>4, ParsedKeeps

\* The places of operands are those of expressions.
LEMMA OperandIs ==
    ASSUME ValuesInv, raised = << >>, NEW n \in 1..Len(operands)
    PROVE  /\ operands[n] \in 1..Len(written) /\ operands[n] \in 1..Len(built)
           /\ Len(written) \in Nat /\ Len(built) \in Nat /\ Numbered(built)
  BY DEF ValuesInv, Grown

\* A number that an operand was folded to is among its results as written.
LEMMA OperandMeans ==
    ASSUME ValuesInv, raised = << >>, NEW n \in 1..Len(operands), NumericLiteral(built[operands[n]]),
           NEW x \in Candidates
    PROVE  built[operands[n]].value \in Meanings(written, x)[operands[n]]
<1>1. PICK i : i = operands[n]
  OBVIOUS
<1>2. i \in 1..Len(built) /\ Len(built) \in Nat /\ Numbered(built) /\ built[i].kind = "literal"
  BY <1>1, OperandIs DEF NumericLiteral
<1>3. Meanings(built, x)[i] = {built[i].value}
  BY <1>2, LiteralMeans
<1>4. Meanings(built, x)[i] \subseteq Meanings(written, x)[i]
  <2>1. Within(built, written, x)
    BY DEF ValuesInv
  <2>. QED BY <1>2, <2>1 DEF Within
<1>. QED BY <1>1, <1>3, <1>4

\* What set_expression makes of a literal, given a value of an operator on numbers
LEMMA SetIs ==
    ASSUME NEW e, NEW v, Numeric(v) \/ Type(v) = "boolean"
    PROVE  SetExpression(e, v) = Literal(v)
  BY DEF SetExpression

\* A unary operator is parsed.
LEMMA UnaryKeeps ==
    ASSUME ValuesInv, NEW kind \in {"minus", "not"}, Unary(kind)
    PROVE  ValuesInv'
<1>1. PICK n : n = Len(operands)
  OBVIOUS
<1>2. PICK i : i = operands[n]
  OBVIOUS
<1> DEFINE eb == IF kind = "minus" THEN CreateMinus(i) ELSE CreateNot(i)
           ew == Operator(kind, i, 0)
<1>3. /\ raised = << >> /\ raised' = raised /\ n > 0
      /\ written' = Append(written, ew) /\ built' = Append(built, eb)
      /\ operands' = [operands EXCEPT ![n] = Len(written) + 1]
  BY <1>1, <1>2 DEF Unary, MayParse
<1>4. operands \in Seq(1..Len(written)) /\ Len(written) \in Nat /\ Len(built) = Len(written)
  BY <1>3 DEF ValuesInv, Grown
<1>5. n \in 1..Len(operands)
  BY <1>1, <1>3, <1>4
<1>6. i \in 1..Len(written) /\ i \in 1..Len(built)
  BY <1>2, <1>3, <1>5, OperandIs
<1>7. operands' \in Seq(1..(Len(written) + 1))
  <2>1. operands \in Seq(1..(Len(written) + 1)) /\ Len(written) + 1 \in 1..(Len(written) + 1)
    BY <1>4
  <2>. QED BY <1>3, <1>5, <2>1
<1>8. ew.left = i /\ ew.right = 0
  BY DEF Operator
<1>9. CASE kind = "minus" /\ NumericLiteral(built[i])
  <2>1. PICK v : v = EvalMinus(built[i].value)
    OBVIOUS
  <2>2. Numeric(built[i].value)
    BY <1>9 DEF NumericLiteral
  <2>3. Numeric(v)
    BY <2>1, <2>2 DEF Numeric, EvalMinus, Long, Type
  <2>4. eb = Literal(v)
    BY <1>9, <2>1, <2>3, SetIs DEF CreateMinus
  <2>5. eb.kind = "literal" /\ eb.value = v /\ eb.left = 0 /\ eb.right = 0
    BY <2>4 DEF Literal
  <2>6. ASSUME NEW x \in Candidates
        PROVE  v \in Eval(ew, Meanings(written, x)[ew.left], Meanings(written, x)[ew.right], x)
    <3>1. built[i].value \in Meanings(written, x)[i]
      BY <1>2, <1>3, <1>5, <1>9, <2>6, OperandMeans
    <3>2. PICK A, B : A = Meanings(written, x)[i] /\ B = Meanings(written, x)[0]
      OBVIOUS
    <3>3. v \in Eval(Operator("minus", i, 0), A, B, x)
      BY <2>1, <2>2, <3>1, <3>2, MinusMeans
    <3>. QED BY <1>8, <1>9, <3>2, <3>3
  <2> HIDE DEF eb, ew
  <2>. QED BY <1>3, <1>4, <1>6, <1>7, <1>8, <2>5, <2>6, ParsedKeeps
<1>10. CASE ~ (kind = "minus" /\ NumericLiteral(built[i]))
  <2>1. eb = ew
    BY <1>10 DEF CreateMinus, CreateNot
  <2> HIDE DEF eb, ew
  <2>. QED BY <1>3, <1>4, <1>6, <1>7, <1>8, <2>1, ParsedKeeps
<1>. QED BY <1>9, <1>10

\* A binary operator is parsed, or its folding raises an error.
LEMMA BinaryKeeps ==
    ASSUME ValuesInv, NEW op \in BinaryOps, Binary(op)
    PROVE  ValuesInv'
<1>1. PICK i, j : i = operands[1] /\ j = operands[2]
  OBVIOUS
<1> DEFINE ew == Operator(op, i, j)
<1>2. /\ raised = << >> /\ Len(operands) = 2 /\ written' = Append(written, ew)
      /\ CreateBinary(op, i, j) /\ operands' = <<Len(written) + 1>>
  BY <1>1 DEF Binary, MayParse
<1>3. Grown /\ Len(written) \in Nat /\ Len(built) = Len(written)
  BY <1>2 DEF ValuesInv, Grown
<1>4. /\ i \in 1..Len(written) /\ i \in 1..Len(built)
      /\ j \in 1..Len(written) /\ j \in 1..Len(built)
  <2>1. 1 \in 1..Len(operands) /\ 2 \in 1..Len(operands)
    BY <1>2
  <2>. QED BY <1>1, <1>2, <2>1, OperandIs
<1>5. operands' \in Seq(1..(Len(written) + 1))
  BY <1>2, <1>3
<1>6. ew.left = i /\ ew.right = j /\ ew.kind = op
  BY DEF Operator
<1>7. CASE NumericLiteral(built[i]) /\ NumericLiteral(built[j])
  <2>1. PICK l, r : l = built[i].value /\ r = built[j].value
    OBVIOUS
  <2>2. Numeric(l) /\ Numeric(r)
    BY <1>7, <2>1 DEF NumericLiteral
  <2>3. PICK v \in EvalBinary(op, l, r) :
           IF v \in Failed({v}) THEN raised' = v /\ UNCHANGED built
           ELSE built' = Append(built, SetExpression(built[i], v)) /\ UNCHANGED raised
    BY <1>2, <1>7, <2>1 DEF CreateBinary
  <2>4. /\ Type(v) \in {"int", "float", "boolean", "error", "abort"}
        /\ op \in LogicalOps => Type(v) = "error"
        /\ op = ".." => Type(v) = "abort"
    BY <2>2, <2>3, NumbersGive
  <2>5. ASSUME NEW x \in Candidates
        PROVE  l \in Meanings(written, x)[i] /\ r \in Meanings(written, x)[j]
    <3>1. 1 \in 1..Len(operands) /\ 2 \in 1..Len(operands)
      BY <1>2
    <3>2. l \in Meanings(written, x)[i]
      BY <1>1, <1>2, <1>7, <2>1, <2>5, <3>1, OperandMeans
    <3>3. r \in Meanings(written, x)[j]
      BY <1>1, <1>2, <1>7, <2>1, <2>5, <3>1, OperandMeans
    <3>. QED BY <3>2, <3>3
  <2>6. ASSUME NEW x \in Candidates, NEW A, NEW B,
               A = Meanings(written, x)[ew.left], B = Meanings(written, x)[ew.right]
        PROVE  /\ op \notin LogicalOps \cup {".."} => v \in Eval(ew, A, B, x)
               /\ op \in LogicalOps => Failed(Eval(ew, A, B, x)) # {}
    <3>1. l \in A /\ r \in B
      BY <1>6, <2>5, <2>6
    <3>. QED BY <2>2, <2>3, <3>1, FoldedMeans
  <2>7. CASE v \in Failed({v})
    <3>1. raised' = v /\ built' = built
      BY <2>3, <2>7
    <3>2. IsLonger(written, ew, written')
      BY <1>2, <1>3, LongerIs DEF Grown
    <3>3. Numbered(written)
      BY <1>3 DEF Grown
    <3>4. Numbered(written')
      <4> HIDE DEF ew
      <4>. QED BY <1>3, <1>4, <1>6, <3>2, <3>3, NumberedLonger
    <3>5. v # << >>
      BY <2>2, <2>3, NumbersGive
    <3>6. Grown'
      <4>1. IsSeq(written') /\ Len(written') = Len(written) + 1
        BY <3>2 DEF IsLonger
      <4>2. operands' \in Seq(1..Len(written'))
        BY <1>5, <4>1
      <4>. QED BY <1>3, <3>1, <3>4, <3>5, <4>1, <4>2 DEF Grown
    <3>7. ASSUME NEW x \in Candidates
          PROVE  Within(built, written', x) /\ RaisedSays(written', v, x)
      <4>1. LastAdded(written, ew, written', x)
        BY <3>2, <3>3, <3>4, LastMeans
      <4>2. Within(built, written, x)
        BY <3>7 DEF ValuesInv
      <4>3. Within(built, written', x)
        <5>1. \A k \in 1..Len(built) : k \in 0..Len(written)
          BY <1>3
        <5>. QED BY <4>1, <4>2, <5>1 DEF LastAdded, Within
      <4>4. PICK A, B : A = Meanings(written, x)[ew.left] /\ B = Meanings(written, x)[ew.right]
        OBVIOUS
      <4>5. Meanings(written', x)[Len(written')] = Eval(ew, A, B, x)
        BY <4>1, <4>4 DEF LastAdded
      <4>6. written'[Len(written')].kind = op
        BY <1>6, <3>2 DEF IsLonger
      <4>7. /\ op \notin LogicalOps \cup {".."} => v \in Eval(ew, A, B, x)
            /\ op \in LogicalOps => Failed(Eval(ew, A, B, x)) # {}
        BY <2>6, <3>7, <4>4
      <4>8. RaisedSays(written', v, x)
        BY <4>5, <4>6, <4>7 DEF RaisedSays
      <4>. QED BY <4>3, <4>8
    <3>. QED BY <3>1, <3>6, <3>7 DEF ValuesInv
  <2>8. CASE v \notin Failed({v})
    <3>1. Type(v) \in {"int", "float", "boolean"} /\ op \notin LogicalOps \cup {".."}
      BY <2>4, <2>8 DEF Failed
    <3>2. SetExpression(built[i], v) = Literal(v)
      BY <3>1, SetIs DEF Numeric
    <3>3. raised' = raised /\ built' = Append(built, Literal(v))
      BY <2>3, <2>8, <3>2
    <3> DEFINE eb == Literal(v)
    <3>4. eb.kind = "literal" /\ eb.value = v /\ eb.left = 0 /\ eb.right = 0
      BY DEF Literal
    <3>5. \A x \in Candidates :
             v \in Eval(ew, Meanings(written, x)[ew.left], Meanings(written, x)[ew.right], x)
      BY <2>6, <3>1
    <3>6. built' = Append(built, eb)
      BY <3>3
    <3> HIDE DEF eb, ew
    <3>. QED BY <1>2, <1>3, <1>4, <1>5, <1>6, <3>3, <3>4, <3>5, <3>6, ParsedKeeps
  <2>. QED BY <2>7, <2>8
<1>8. CASE ~ (NumericLiteral(built[i]) /\ NumericLiteral(built[j]))
  <2>1. built' = Append(built, ew) /\ raised' = raised
    BY <1>2, <1>8 DEF CreateBinary
  <2> HIDE DEF ew
  <2>. QED BY <1>2, <1>3, <1>4, <1>5, <1>6, <2>1, ParsedKeeps
<1>. QED BY <1>7, <1>8

\* Every step of the parser keeps the invariant.
LEMMA ValuesInvNext == ValuesInv /\ [ValuesNext]_valueVars => ValuesInv'
<1> SUFFICES ASSUME ValuesInv, [ValuesNext]_valueVars PROVE ValuesInv'
  OBVIOUS
<1>1. ASSUME NEW v \in Literals, Primary(Literal(v)) PROVE ValuesInv'
  <2>1. Literal(v).left = 0 /\ Literal(v).right = 0
    BY DEF Literal
  <2>. QED BY <1>1, <2>1, PrimaryKeeps
<1>2. CASE Primary(Operator("x", 0, 0))
  <2>1. Operator("x", 0, 0).left = 0 /\ Operator("x", 0, 0).right = 0
    BY DEF Operator
  <2>. QED BY <1>2, <2>1, PrimaryKeeps
<1>3. ASSUME NEW kind \in {"minus", "not"}, Unary(kind) PROVE ValuesInv'
  BY <1>3, UnaryKeeps
<1>4. ASSUME NEW op \in BinaryOps, Binary(op) PROVE ValuesInv'
  BY <1>4, BinaryKeeps
<1>5. CASE UNCHANGED valueVars
  BY <1>5 DEF valueVars, ValuesInv, Grown
<1>. QED BY <1>1, <1>2, <1>3, <1>4, <1>5 DEF ValuesNext

(* For every expression, any LONG_MAX and whatever values the literals and     *)
(* the variable have, folding does not change what an expression can result    *)
(* in, and what it raises would have failed in evaluation too; x op= e is      *)
(* x = x op e (crb_create_binary_expression, crb_create_minus_expression,      *)
(* do_assign).                                                                 *)
THEOREM FoldingIsFaithful == ValuesSpec => []FoldingKeepsMeaning
  BY ValuesInvInit, ValuesInvNext, ValuesInvSays, PTL DEF ValuesSpec

=============================================================================
