-------------------------- MODULE CrbRoots_proofs ---------------------------
(***************************************************************************)
(* For every program, however deep: the collector frees nothing that the    *)
(* program can still reach.  Every function in progress finds its values on *)
(* the evaluation stack and its environment on the chain, whatever ran      *)
(* above it and however that ended (Control); the object a C variable holds *)
(* is somewhere the collector looks (Held); and a collection keeps what a   *)
(* root or a live object refers to (HeapOK, RootsLive).                     *)
(***************************************************************************)
EXTENDS CrbRoots, WellFoundedInduction, TLAPS

\* The functions that leave a value on the stack, and those that leave none.
Expr == {"eval", "array", "assoc", "add", "concat", "index", "slice", "variable",
         "member", "element", "call"}
Stmt == {"statement", "return", "throw", "try", "tryfinally"}

\* A function that runs a statement list, its own block or body.
List(f) == \/ f.op \in {"main", "call"} /\ f.at = "body"
           \/ f.op \in {"try", "tryfinally"} /\ f.at \in {"body", "catch", "finally"}

\* A function that waits for an expression's value.
Operand(f) ==
    \/ f.op \in {"array", "assoc"} /\ f.at = "store"
    \/ f.op \in {"add", "concat"} /\ f.at \in {"left", "chain", "convert"}
    \/ f.op \in {"index", "slice"} /\ f.at \in {"array", "index"}
    \/ f.op = "element" /\ f.at \in {"operand", "array", "index"}
    \/ f.op \in {"variable", "member"} /\ f.at = "operand"
    \/ f.op = "member" /\ f.at = "array"
    \/ f.op = "call" /\ f.at \in {"environment", "bind"}
    \/ f.op = "statement" /\ f.at = "drop"
    \/ f.op \in {"return", "throw"} /\ f.at = "pop"

\* The points at which a function has two values of its own on the stack,
Two(f) ==
    \/ f.op \in {"array", "assoc"} /\ f.at = "store"
    \/ f.op \in {"add", "concat"} /\ f.at \in {"convert", "chain", "joined"}
    \/ f.op = "element" /\ f.at \in {"array", "index"}
    \/ f.op = "member" /\ f.at = "array"
    \/ f.op = "call" /\ f.at = "bind"

\* and those at which it has none: at all others it has one.
None(f) ==
    \/ f.op \in {"eval", "main"}
    \/ f.op \in {"index", "slice"} /\ f.at \in {"read", "share"}
    \/ f.op \in {"try", "tryfinally"} /\ f.at \in {"body", "finally"}

\* How many values of its own the innermost function has on the stack,
Own(f) == IF Two(f) THEN 2 ELSE IF None(f) THEN 0 ELSE 1

\* and one that waits for another one: without the value it waits for.
Waits(f) == IF List(f) THEN Own(f) ELSE Own(f) - 1

\* How many environments are its own.
EnvOwn(f) == IF f.op = "call" /\ f.at # "environment" THEN 1 ELSE 0

\* f is the i-th function in progress.
FrameOK(i, f) ==
    /\ f.op = "main" <=> i = 1
    /\ f.run => List(f)
    /\ f.env <= f.envs + EnvOwn(f)
    /\ i # 1 => f.base < MaxStack
    /\ i = 1 => f.env = 0 /\ f.base = 0 /\ f.envs = 0
    /\ f.op = "return" => f.env # 0
    /\ f.op = "call" => f.envs < MaxEnvs

\* f waits for g.
Awaits(f, g) ==
    /\ g.base = f.base + Waits(f) /\ g.envs = f.envs + EnvOwn(f)
    /\ g.env = f.env \/ (g.op = "call" /\ g.at = "body")
    /\ \/ Operand(f) /\ g.op \in Expr
       \/ List(f) /\ f.run /\ g.op \in Stmt

\* c are the functions in progress with n values on the stack and m environments:
\* each has its place on either, above those that wait for it.
Control(c, n, m) ==
    /\ c \in Seq(Function) /\ Len(c) \in 1 .. MaxCtl
    /\ \A i \in 1 .. Len(c) : FrameOK(i, c[i])
    /\ \A i \in 1 .. Len(c) - 1 : Awaits(c[i], c[i + 1])
    /\ \A i, j \in 1 .. Len(c) : i < j =>
          c[i].base + Waits(c[i]) <= c[j].base /\ c[i].envs + EnvOwn(c[i]) <= c[j].envs
    /\ n = c[Len(c)].base + Own(c[Len(c)]) /\ n <= MaxStack
    /\ m = c[Len(c)].envs + EnvOwn(c[Len(c)]) /\ m <= MaxEnvs

\* Where else the object is that a C variable of f holds, on stack s with
\* environments e and heap h.
HeldFor(f, s, e, h) ==
    /\ f.op \in {"array", "assoc"} => f.base < Len(s) /\ s[f.base + 1] = f.held
    /\ f.op = "call" =>
         /\ f.at \in {"environment", "frame", "named", "arguments", "bind", "body", "native"}
         /\ f.at = "environment" => f.held = Plain
         /\ f.at = "native" => f.held \in e[f.envs + 1].native
         /\ f.at \in {"frame", "named", "arguments", "bind"} \/ f.run =>
               f.held = e[f.envs + 1].scope
         /\ f.at = "body" /\ ~f.run /\ f.held \in Objs => IsLive(h, f.held)
    /\ f.op \in {"try", "tryfinally"} /\ f.env = 0 => f.held = Plain
    /\ f.op \notin Unrooted \cup {"array", "assoc", "call"} => f.held = Plain

Frames(c, s, e, h) ==
    Control(c, Len(s), Len(e)) /\ \A i \in 1 .. Len(c) : HeldFor(c[i], s, e, h)

Alive(h, v) == v \in Objs => IsLive(h, v)
StackLive(h, s) == \A i \in 1 .. Len(s) : Alive(h, s[i])
EnvsLive(h, e) ==
    \A i \in 1 .. Len(e) : Alive(h, e[i].scope) /\ \A x \in e[i].native : IsLive(h, x)

\* The four sources of gc_mark_objects, in heap h
RootsLive(h, g, s, e, x) ==
    (\A o \in g : IsLive(h, o)) /\ StackLive(h, s) /\ EnvsLive(h, e) /\ Alive(h, x)

\* What is referred to has not been disposed of.
HeapOK(h) == h \in [Objs -> Object] /\ \A o \in Objs : \A x \in h[o].refs : IsLive(h, x)

Typed(g, s, e, x) ==
    g \subseteq Objs /\ s \in Seq(Value) /\ e \in Seq(Environment) /\ x \in Value

Sound(h, g, s, e, x) == Typed(g, s, e, x) /\ HeapOK(h) /\ RootsLive(h, g, s, e, x)

IInv == Sound(heap, globals, stack, envs, exc) /\ Frames(ctl, stack, envs, heap)

-----------------------------------------------------------------------------
(* Sequences. *)

\* A prefix of a sequence.
LEMMA Prefix ==
    ASSUME NEW S, NEW s \in Seq(S), NEW n \in 0 .. Len(s)
    PROVE  /\ SubSeq(s, 1, n) \in Seq(S) /\ Len(SubSeq(s, 1, n)) = n
           /\ \A i \in 1 .. n : SubSeq(s, 1, n)[i] = s[i] /\ s[i] \in S
<1>1. Len(s) \in Nat /\ \A i \in 1 .. Len(s) : s[i] \in S
  OBVIOUS
<1>2. SubSeq(s, 1, n) = [i \in 1 .. n |-> s[i]]
  BY <1>1
<1> QED
  BY <1>1, <1>2

\* The last member of a sequence, and the others.
LEMMA Ends ==
    ASSUME NEW S, NEW s \in Seq(S), Len(s) # 0
    PROVE  /\ Front(s) \in Seq(S) /\ Len(Front(s)) = Len(s) - 1
           /\ \A i \in 1 .. Len(s) - 1 : Front(s)[i] = s[i] /\ s[i] \in S
           /\ Front(s) = SubSeq(s, 1, Len(s) - 1)
           /\ Last(s) = s[Len(s)] /\ Last(s) \in S
<1>1. Len(s) - 1 \in 0 .. Len(s) /\ Len(s) \in 1 .. Len(s)
  OBVIOUS
<1>2. Front(s) = SubSeq(s, 1, Len(s) - 1) /\ Last(s) = s[Len(s)]
  BY DEF Front, Last
<1>3. Last(s) \in S
  BY <1>1, <1>2
<1> DEFINE n == Len(s) - 1
<1>4. n \in 0 .. Len(s)
  BY <1>1
<1> HIDE DEF n
<1>5. /\ SubSeq(s, 1, n) \in Seq(S) /\ Len(SubSeq(s, 1, n)) = n
      /\ \A i \in 1 .. n : SubSeq(s, 1, n)[i] = s[i] /\ s[i] \in S
  BY <1>4, Prefix
<1> QED
  BY <1>2, <1>3, <1>5 DEF n

\* A sequence with one member more.
LEMMA OneMore ==
    ASSUME NEW S, NEW s \in Seq(S), NEW v \in S
    PROVE  /\ Append(s, v) \in Seq(S) /\ Len(Append(s, v)) = Len(s) + 1
           /\ \A i \in 1 .. Len(s) : Append(s, v)[i] = s[i]
           /\ Append(s, v)[Len(s) + 1] = v
           /\ \A i \in 1 .. Len(s) + 1 : i \in 1 .. Len(s) \/ i = Len(s) + 1
  OBVIOUS

Changed(s, n, v) == [s EXCEPT ![n] = v]

\* A sequence with another n-th member.
LEMMA OneChanged ==
    ASSUME NEW S, NEW s \in Seq(S), NEW n \in 1 .. Len(s), NEW v \in S
    PROVE  /\ Changed(s, n, v) \in Seq(S) /\ Len(Changed(s, n, v)) = Len(s)
           /\ Changed(s, n, v)[n] = v
           /\ \A i \in 1 .. Len(s) : i # n => Changed(s, n, v)[i] = s[i]
  BY DEF Changed

-----------------------------------------------------------------------------
(* The functions in progress. *)

\* How much a function has of its own.
LEMMA Counts ==
    ASSUME NEW f
    PROVE  /\ Own(f) \in 0 .. 2 /\ EnvOwn(f) \in 0 .. 1 /\ Waits(f) \in -1 .. 2
           /\ Operand(f) => Own(f) \in 1 .. 2 /\ Waits(f) = Own(f) - 1
           /\ List(f) => Waits(f) = Own(f)
<1>1. Own(f) \in 0 .. 2 /\ EnvOwn(f) \in 0 .. 1
  BY DEF Own, EnvOwn
<1>2. Waits(f) \in -1 .. 2 /\ (List(f) => Waits(f) = Own(f))
  BY <1>1 DEF Waits
<1>3. Operand(f) => Own(f) # 0 /\ ~ List(f)
  BY DEF Operand, Own, Two, None, List
<1> QED
  BY <1>1, <1>2, <1>3 DEF Waits

\* A function's fields.
LEMMA Fields ==
    ASSUME NEW f \in Function
    PROVE  /\ f.base \in 0 .. MaxStack /\ f.envs \in 0 .. MaxEnvs /\ f.env \in 0 .. MaxEnvs
           /\ f.held \in Value /\ f.run \in BOOLEAN
           /\ f.op \in Operation /\ f.at \in Point
           /\ f.base \in Nat /\ f.envs \in Nat /\ f.env \in Nat
           /\ MaxStack \in Nat /\ MaxEnvs \in Nat
  BY RootsAssumption DEF Function

\* Functions above the i-th have gone; it goes on.
LEMMA Cut ==
    ASSUME NEW c, NEW n, NEW m, Control(c, n, m), NEW i \in 1 .. Len(c),
           NEW k, k = c[i].base + Own(c[i]), k <= MaxStack,
           NEW e, e = c[i].envs + EnvOwn(c[i]), e <= MaxEnvs
    PROVE  Control(SubSeq(c, 1, i), k, e)
<1> DEFINE d == SubSeq(c, 1, i)
<1>1. c \in Seq(Function) /\ i \in 0 .. Len(c) /\ Len(c) \in 1 .. MaxCtl /\ Len(c) \in Nat
      /\ MaxCtl \in Nat
  BY RootsAssumption DEF Control
<1>2. d \in Seq(Function) /\ Len(d) = i /\ \A j \in 1 .. i : d[j] = c[j]
  BY <1>1, Prefix
<1> HIDE DEF d
<1>3. \A j \in 1 .. i : FrameOK(j, d[j])
  BY <1>1, <1>2 DEF Control
<1>4. \A j \in 1 .. i - 1 : Awaits(d[j], d[j + 1])
  <2> TAKE j \in 1 .. i - 1
  <2>1. j \in 1 .. i /\ j + 1 \in 1 .. i /\ j \in 1 .. Len(c) - 1
    BY <1>1
  <2>2. Awaits(c[j], c[j + 1])
    BY <2>1 DEF Control
  <2> QED
    BY <1>2, <2>1, <2>2
<1>5. \A j, l \in 1 .. i : j < l =>
         d[j].base + Waits(d[j]) <= d[l].base /\ d[j].envs + EnvOwn(d[j]) <= d[l].envs
  <2> TAKE j, l \in 1 .. i
  <2>1. d[j] = c[j] /\ d[l] = c[l] /\ j \in 1 .. Len(c) /\ l \in 1 .. Len(c)
    BY <1>1, <1>2
  <2>2. j < l => c[j].base + Waits(c[j]) <= c[l].base /\ c[j].envs + EnvOwn(c[j]) <= c[l].envs
    BY <2>1 DEF Control
  <2> QED
    BY <2>1, <2>2
<1>6. k = d[i].base + Own(d[i]) /\ e = d[i].envs + EnvOwn(d[i]) /\ i \in 1 .. MaxCtl
  BY <1>1, <1>2
<1> QED
  BY <1>2, <1>3, <1>4, <1>5, <1>6 DEF Control, d

InBody(f) == f.op = "call" /\ f.at = "body"

\* The i-th function goes on as f, and those above it have gone.
LEMMA Replaced ==
    ASSUME NEW c, NEW n, NEW m, Control(c, n, m), NEW i \in 1 .. Len(c),
           NEW f \in Function, FrameOK(i, f), f.base = c[i].base, f.envs = c[i].envs,
           f.env = c[i].env \/ InBody(f), InBody(c[i]) => InBody(f),
           f.op \in Expr <=> c[i].op \in Expr, f.op \in Stmt <=> c[i].op \in Stmt,
           NEW k, k = f.base + Own(f), k <= MaxStack,
           NEW e, e = f.envs + EnvOwn(f), e <= MaxEnvs
    PROVE  Control(Append(SubSeq(c, 1, i - 1), f), k, e)
<1> DEFINE p == i - 1
           b == SubSeq(c, 1, p)
           d == Append(b, f)
<1>1. c \in Seq(Function) /\ p \in 0 .. Len(c) /\ Len(c) \in 1 .. MaxCtl /\ Len(c) \in Nat
      /\ MaxCtl \in Nat /\ i = p + 1
  BY RootsAssumption DEF Control
<1> HIDE DEF p
<1>2. b \in Seq(Function) /\ Len(b) = p /\ \A j \in 1 .. p : b[j] = c[j]
  BY <1>1, Prefix
<1> HIDE DEF b
<1>3. /\ d \in Seq(Function) /\ Len(d) = i /\ d[i] = f
      /\ \A j \in 1 .. p : d[j] = c[j]
      /\ \A j \in 1 .. i : j \in 1 .. p \/ j = i
  BY <1>1, <1>2, OneMore
<1> HIDE DEF d
<1>4. \A j \in 1 .. i : FrameOK(j, d[j])
  <2> TAKE j \in 1 .. i
  <2>1. CASE j = i
    BY <1>3, <2>1
  <2>2. CASE j \in 1 .. p
    BY <1>1, <1>3, <2>2 DEF Control
  <2> QED
    BY <1>3, <2>1, <2>2
<1>5. \A j \in 1 .. i - 1 : Awaits(d[j], d[j + 1])
  <2> TAKE j \in 1 .. i - 1
  <2>1. j \in 1 .. p /\ j + 1 \in 1 .. i /\ j \in 1 .. Len(c) - 1 /\ d[j] = c[j]
    BY <1>1, <1>3
  <2>2. Awaits(c[j], c[j + 1])
    BY <2>1 DEF Control
  <2>3. CASE j + 1 \in 1 .. p
    BY <1>3, <2>1, <2>2, <2>3
  <2>4. CASE j + 1 = i
    <3>1. Awaits(c[j], c[i]) /\ d[j] = c[j] /\ d[i] = f
      BY <1>3, <2>1, <2>2, <2>4
    <3>2. Awaits(c[j], f)
      BY <3>1 DEF Awaits, InBody
    <3> QED
      BY <2>4, <3>1, <3>2
  <2> QED
    BY <1>3, <2>1, <2>3, <2>4
<1>6. \A j, l \in 1 .. i : j < l =>
         d[j].base + Waits(d[j]) <= d[l].base /\ d[j].envs + EnvOwn(d[j]) <= d[l].envs
  <2> TAKE j, l \in 1 .. i
  <2> HAVE j < l
  <2>1. d[j] = c[j] /\ j \in 1 .. Len(c) /\ l \in 1 .. Len(c)
    BY <1>1, <1>3
  <2>2. c[j].base + Waits(c[j]) <= c[l].base /\ c[j].envs + EnvOwn(c[j]) <= c[l].envs
    BY <2>1 DEF Control
  <2>3. d[l].base = c[l].base /\ d[l].envs = c[l].envs
    BY <1>3
  <2> QED
    BY <2>1, <2>2, <2>3
<1>7. k = d[i].base + Own(d[i]) /\ e = d[i].envs + EnvOwn(d[i]) /\ i \in 1 .. MaxCtl
  BY <1>1, <1>3
<1>8. Control(d, k, e)
  BY <1>3, <1>4, <1>5, <1>6, <1>7 DEF Control
<1> QED
  BY <1>8 DEF d, b, p

\* Adding to the greater of two numbers.
LEMMA Beyond ==
    ASSUME NEW x \in Int, NEW y \in Int, NEW w \in Int, x <= y, w >= 0
    PROVE  x <= y + w
  OBVIOUS

\* The innermost function waits for g, which begins.
LEMMA Called ==
    ASSUME NEW c, NEW n, NEW m, Control(c, n, m), Len(c) < MaxCtl,
           NEW g \in Function, FrameOK(Len(c) + 1, g), Awaits(c[Len(c)], g),
           NEW k, k = g.base + Own(g), k <= MaxStack,
           NEW e, e = g.envs + EnvOwn(g), e <= MaxEnvs
    PROVE  Control(Append(c, g), k, e)
<1> DEFINE p == Len(c)
           d == Append(c, g)
<1>1. c \in Seq(Function) /\ p \in 1 .. MaxCtl /\ p \in Nat /\ MaxCtl \in Nat /\ p < MaxCtl
  BY RootsAssumption DEF Control
<1>2. /\ d \in Seq(Function) /\ Len(d) = p + 1 /\ d[p + 1] = g
      /\ \A j \in 1 .. p : d[j] = c[j]
      /\ \A j \in 1 .. p + 1 : j \in 1 .. p \/ j = p + 1
  BY <1>1, OneMore
<1>3. /\ \A j \in 1 .. p : FrameOK(j, c[j]) /\ c[j] \in Function
      /\ \A j \in 1 .. p - 1 : Awaits(c[j], c[j + 1])
      /\ \A j, l \in 1 .. p : j < l =>
            c[j].base + Waits(c[j]) <= c[l].base /\ c[j].envs + EnvOwn(c[j]) <= c[l].envs
      /\ FrameOK(p + 1, g) /\ Awaits(c[p], g)
  <2>1. \A j \in 1 .. p : FrameOK(j, c[j]) /\ c[j] \in Function
    BY <1>1 DEF Control
  <2>2. \A j \in 1 .. p - 1 : Awaits(c[j], c[j + 1])
    BY DEF Control
  <2>3. \A j, l \in 1 .. p : j < l =>
            c[j].base + Waits(c[j]) <= c[l].base /\ c[j].envs + EnvOwn(c[j]) <= c[l].envs
    BY DEF Control
  <2> QED
    BY <2>1, <2>2, <2>3
<1> HIDE DEF p, d
<1>4. \A j \in 1 .. p + 1 : FrameOK(j, d[j])
  BY <1>2, <1>3
<1>5. \A j \in 1 .. p : Awaits(d[j], d[j + 1])
  <2> TAKE j \in 1 .. p
  <2>1. CASE j = p
    BY <1>2, <1>3, <2>1
  <2>2. CASE j \in 1 .. p - 1
    <3>1. j + 1 \in 1 .. p
      BY <1>1, <2>2
    <3> QED
      BY <1>2, <1>3, <2>2, <3>1
  <2> QED
    BY <1>1, <2>1, <2>2
<1>6. \A j, l \in 1 .. p + 1 : j < l =>
         d[j].base + Waits(d[j]) <= d[l].base /\ d[j].envs + EnvOwn(d[j]) <= d[l].envs
  <2> TAKE j, l \in 1 .. p + 1
  <2> HAVE j < l
  <2>1. j \in 1 .. p /\ d[j] = c[j]
    BY <1>1, <1>2
  <2>2. CASE l \in 1 .. p
    BY <1>2, <1>3, <2>1, <2>2
  <2>3. CASE l = p + 1
    <3>1. g.base = c[p].base + Waits(c[p]) /\ g.envs = c[p].envs + EnvOwn(c[p]) /\ d[l] = g
      BY <1>2, <1>3, <2>3 DEF Awaits
    <3>2. CASE j = p
      BY <1>1, <2>1, <3>1, <3>2, <1>3, Counts, Fields
    <3>3. CASE j < p
      <4>1. p \in 1 .. p
        BY <1>1
      <4>2. c[j].base + Waits(c[j]) <= c[p].base /\ c[j].envs + EnvOwn(c[j]) <= c[p].envs
        BY <1>3, <2>1, <3>3, <4>1
      <4>3. Waits(c[p]) >= 0 /\ EnvOwn(c[p]) >= 0
        <5>1. Operand(c[p]) \/ List(c[p])
          BY <1>3 DEF Awaits
        <5> QED
          BY <5>1, Counts
      <4>4. c[j] \in Function /\ c[p] \in Function
        BY <1>3, <2>1, <4>1
      <4>5. c[j].base \in Nat /\ c[p].base \in Nat /\ c[j].envs \in Nat /\ c[p].envs \in Nat
        BY <4>4, Fields
      <4>6. /\ Waits(c[j]) \in Int /\ Waits(c[p]) \in Int
            /\ EnvOwn(c[j]) \in Int /\ EnvOwn(c[p]) \in Int
        <5>1. /\ Waits(c[j]) \in -1 .. 2 /\ Waits(c[p]) \in -1 .. 2
              /\ EnvOwn(c[j]) \in 0 .. 1 /\ EnvOwn(c[p]) \in 0 .. 1
          BY Counts
        <5> QED
          BY <5>1
      <4>7. c[j].base + Waits(c[j]) <= g.base /\ c[j].envs + EnvOwn(c[j]) <= g.envs
        <5>1. c[j].base + Waits(c[j]) \in Int /\ c[j].envs + EnvOwn(c[j]) \in Int
          <6>1. \A a \in Nat, b \in Int : a + b \in Int
            OBVIOUS
          <6> QED
            BY ONLY <4>5, <4>6, <6>1
        <5>2. g.base = c[p].base + Waits(c[p]) /\ g.envs = c[p].envs + EnvOwn(c[p])
          BY <3>1
        <5>3. c[p].base \in Int /\ c[p].envs \in Int
          BY <4>5
        <5>4. c[j].base + Waits(c[j]) <= g.base
          BY <4>2, <4>3, <4>6, <5>1, <5>2, <5>3, Beyond
        <5>5. c[j].envs + EnvOwn(c[j]) <= g.envs
          BY <4>2, <4>3, <4>6, <5>1, <5>2, <5>3, Beyond
        <5> QED
          BY <5>4, <5>5
      <4> QED
        BY <2>1, <3>1, <4>7
    <3> QED
      BY <1>1, <2>1, <3>2, <3>3
  <2> QED
    BY <1>2, <2>2, <2>3
<1>7. k = d[p + 1].base + Own(d[p + 1]) /\ e = d[p + 1].envs + EnvOwn(d[p + 1])
      /\ p + 1 \in 1 .. MaxCtl /\ (p + 1) - 1 = p
  BY <1>1, <1>2
<1>8. Control(d, k, e)
  BY <1>2, <1>4, <1>5, <1>6, <1>7 DEF Control
<1> QED
  BY <1>8 DEF d

-----------------------------------------------------------------------------
(* The collector, and what may call it. *)

\* h2 has every object of h1 that is live in it, unchanged.
Spares(h1, h2) == \A o \in Objs : IsLive(h2, o) => h2[o] = h1[o]

\* What is left of heap h when only what the objects of R lead to is kept.
Swept(h, R) == [o \in Objs |-> IF o \in Marked(h, R) THEN h[o] ELSE Free]

\* A sweep: what is left is as it was, refers to what is left, and has R.
LEMMA Sweeps ==
    ASSUME NEW h, HeapOK(h), NEW R \in SUBSET Objs, \A o \in R : IsLive(h, o)
    PROVE  /\ HeapOK(Swept(h, R)) /\ Spares(h, Swept(h, R))
           /\ \A o \in R : IsLive(Swept(h, R), o)
<1> DEFINE M == Marked(h, R)
           g == Swept(h, R)
<1>1. M \subseteq Objs /\ R \subseteq M
  BY DEF Marked
<1>2. ASSUME NEW o \in M, NEW x \in h[o].refs
      PROVE  x \in M
  <2>1. x \in Objs
    BY <1>1 DEF HeapOK, Object
  <2> QED
    BY <1>1, <1>2, <2>1 DEF Marked
<1>3. g = [o \in Objs |-> IF o \in M THEN h[o] ELSE Free]
  BY DEF Swept
<1> HIDE DEF M, g
<1>4. Free \in Object /\ Free.refs = {} /\ Free.kind = "free"
  BY DEF Free, Object
<1>5. g \in [Objs -> Object]
  BY <1>3, <1>4 DEF HeapOK
<1>6. ASSUME NEW o \in Objs, NEW x \in g[o].refs
      PROVE  IsLive(g, x)
  <2>1. o \in M /\ g[o] = h[o]
    BY <1>3, <1>4, <1>6
  <2>2. x \in M /\ IsLive(h, x)
    BY <1>2, <1>6, <2>1 DEF HeapOK
  <2> QED
    BY <1>1, <1>3, <2>2 DEF IsLive
<1>7. Spares(h, g)
  BY <1>3, <1>4 DEF Spares, IsLive
<1>8. \A o \in R : IsLive(g, o)
  BY <1>1, <1>3 DEF IsLive
<1> QED
  BY <1>5, <1>6, <1>7, <1>8 DEF HeapOK, g

\* crb_garbage_collect, if it runs: what is left is as it was, refers to what is
\* left, and has every root.
LEMMA Collects ==
    ASSUME HeapOK(heap), \A o \in Roots : IsLive(heap, o), Roots \subseteq Objs, NEW h \in CheckGC(heap)
    PROVE  HeapOK(h) /\ Spares(heap, h) /\ \A o \in Roots : IsLive(h, o)
<1>1. CASE h = heap
  BY <1>1 DEF Spares
<1>2. CASE h = Collected(heap)
  <2>1. h = Swept(heap, Roots)
    BY <1>2 DEF Collected, Swept
  <2> QED
    BY <2>1, Sweeps
<1> QED
  BY <1>1, <1>2 DEF CheckGC

\* alloc_object: a new object where none was, and the collection before it.
LEMMA Allocates ==
    ASSUME HeapOK(heap), \A o \in Roots : IsLive(heap, o), Roots \subseteq Objs,
           NEW k \in {"string", "box", "scope"}, NEW r \in SUBSET Objs, NEW a \in Alloc(k, r),
           \A x \in r : IsLive(a.heap, x)
    PROVE  /\ HeapOK(a.heap) /\ \A o \in Roots : IsLive(a.heap, o)
           /\ a.obj \in Objs /\ IsLive(a.heap, a.obj)
           /\ a.heap[a.obj] = [kind |-> k, refs |-> r]
           /\ \A o \in Objs : IsLive(a.heap, o) /\ o # a.obj => a.heap[o] = heap[o]
<1>1. PICK h \in CheckGC(heap) : \E o \in Objs :
         ~ IsLive(h, o) /\ a = [heap |-> [h EXCEPT ![o] = [kind |-> k, refs |-> r]], obj |-> o]
  BY DEF Alloc
<1>2. PICK o \in Objs :
         ~ IsLive(h, o) /\ a = [heap |-> [h EXCEPT ![o] = [kind |-> k, refs |-> r]], obj |-> o]
  BY <1>1
<1> DEFINE new == [kind |-> k, refs |-> r]
           g == a.heap
<1>3. HeapOK(h) /\ Spares(heap, h) /\ \A x \in Roots : IsLive(h, x)
  BY Collects
<1>4. a.obj = o /\ g = [h EXCEPT ![o] = new]
  BY <1>2
<1>5. new \in Object /\ new.kind # "free" /\ new.refs = r
  BY DEF Object
<1> HIDE DEF new, g
<1>6. /\ g \in [Objs -> Object] /\ g[o] = new
      /\ \A x \in Objs : x # o => g[x] = h[x]
  BY <1>3, <1>4, <1>5 DEF HeapOK
<1>7. \A x \in Objs : IsLive(h, x) => IsLive(g, x)
  BY <1>5, <1>6 DEF IsLive
<1>8. ASSUME NEW x \in Objs, NEW y \in g[x].refs
      PROVE  IsLive(g, y)
  <2>1. CASE x = o
    BY <1>5, <1>6, <1>8, <2>1 DEF g
  <2>2. CASE x # o
    <3>1. y \in h[x].refs /\ y \in Objs
      BY <1>3, <1>6, <1>8, <2>2 DEF HeapOK, Object
    <3>2. IsLive(h, y)
      BY <1>3, <3>1 DEF HeapOK
    <3> QED
      BY <1>7, <3>1, <3>2
  <2> QED
    BY <2>1, <2>2
<1>9. \A x \in Objs : IsLive(g, x) /\ x # o => g[x] = heap[x]
  BY <1>3, <1>6 DEF IsLive, Spares
<1>10. HeapOK(g) /\ IsLive(g, o)
  BY <1>5, <1>6, <1>8 DEF HeapOK, IsLive
<1> QED
  BY <1>3, <1>4, <1>6, <1>7, <1>9, <1>10 DEF g, new

\* A string, a box or a scope chain that refers to nothing yet.
LEMMA AllocatesEmpty ==
    ASSUME HeapOK(heap), \A o \in Roots : IsLive(heap, o), Roots \subseteq Objs,
           NEW k \in {"string", "box", "scope"}, NEW a \in Alloc(k, {})
    PROVE  /\ HeapOK(a.heap) /\ \A o \in Roots : IsLive(a.heap, o)
           /\ a.obj \in Objs /\ IsLive(a.heap, a.obj)
           /\ \A o \in Objs : IsLive(a.heap, o) /\ o # a.obj => a.heap[o] = heap[o]
<1> DEFINE r == {}
<1>1. r \in SUBSET Objs /\ \A x \in r : IsLive(a.heap, x)
  OBVIOUS
<1>2. a \in Alloc(k, r)
  OBVIOUS
<1> HIDE DEF r
<1> QED
  BY <1>1, <1>2, Allocates

\* A live value is stored: no object goes, and none refers to one that has gone.
LEMMA StoresValue ==
    ASSUME NEW h, HeapOK(h), NEW o, NEW v \in Value, v \in Objs => IsLive(h, v),
           NEW g \in Stored(h, o, v)
    PROVE  /\ HeapOK(g) /\ \A x \in Objs : g[x].kind = h[x].kind
           /\ \A x \in Objs : IsLive(h, x) => IsLive(g, x)
<1>1. PICK k \in {h[o].refs} \cup {h[o].refs \ {x} : x \in h[o].refs} :
         g = [h EXCEPT ![o].refs = k \cup ({v} \cap Objs)]
  BY DEF Stored
<1>2. k \subseteq h[o].refs
  BY <1>1
<1>3. h \in [Objs -> Object] /\ DOMAIN h = Objs
  BY DEF HeapOK
<1> DEFINE R == k \cup ({v} \cap Objs)
<1>4. o \in Objs => R \subseteq Objs /\ \A x \in R : IsLive(h, x)
  BY <1>2, <1>3 DEF HeapOK, Object
<1>5. \A x \in R \ {v} : x \in k
  OBVIOUS
<1> HIDE DEF R
<1>6. /\ g \in [Objs -> Object]
      /\ \A x \in Objs : g[x].kind = h[x].kind /\ g[x].refs = IF x = o THEN R ELSE h[x].refs
  <2> DEFINE new == [h[o] EXCEPT !.refs = R]
  <2>1. g = [h EXCEPT ![o] = new]
    BY <1>1 DEF R
  <2>2. o \in Objs => new \in Object /\ new.kind = h[o].kind /\ new.refs = R
    BY <1>3, <1>4 DEF Object
  <2> HIDE DEF new
  <2>3. g \in [Objs -> Object] /\ \A x \in Objs : g[x] = IF x = o THEN new ELSE h[x]
    BY <1>3, <2>1, <2>2
  <2> QED
    BY <2>2, <2>3
<1>7. \A x \in Objs : IsLive(h, x) => IsLive(g, x)
  BY <1>6 DEF IsLive
<1>8. ASSUME NEW x \in Objs, NEW y \in g[x].refs
      PROVE  IsLive(g, y)
  <2>1. y \in Objs /\ IsLive(h, y)
    BY <1>3, <1>4, <1>6, <1>8 DEF HeapOK, Object
  <2> QED
    BY <1>7, <2>1
<1> QED
  BY <1>6, <1>7, <1>8 DEF HeapOK

\* CRB_add_assoc_member, with the value where the collector finds it.
LEMMA StoresMember ==
    ASSUME HeapOK(heap), \A o \in Roots : IsLive(heap, o), Roots \subseteq Objs, NEW o, NEW v \in Value,
           v \in Objs => v \in Roots, NEW g \in MemberStored(o, v)
    PROVE  HeapOK(g) /\ \A x \in Roots : IsLive(g, x)
<1>1. PICK h \in CheckGC(heap) : g \in Stored(h, o, v)
  BY DEF MemberStored
<1>2. HeapOK(h) /\ \A x \in Roots : IsLive(h, x)
  BY Collects
<1>3. /\ HeapOK(g) /\ \A x \in Objs : g[x].kind = h[x].kind
      /\ \A x \in Objs : IsLive(h, x) => IsLive(g, x)
  BY <1>1, <1>2, StoresValue
<1> QED
  BY <1>2, <1>3

\* eval_array_slice_expression: the array it shares is there, so what that array
\* refers to is there.
LEMMA AllocatesShared ==
    ASSUME HeapOK(heap), \A o \in Roots : IsLive(heap, o), Roots \subseteq Objs,
           NEW b \in Objs, NEW k, NEW a \in Alloc(k, heap[b].refs), k # "free",
           b # a.obj, IsLive(a.heap, b)
    PROVE  \A x \in heap[b].refs : IsLive(a.heap, x)
<1> DEFINE new == [kind |-> k, refs |-> heap[b].refs]
<1>1. PICK h \in CheckGC(heap) : \E o \in Objs :
         ~ IsLive(h, o) /\ a = [heap |-> [h EXCEPT ![o] = new], obj |-> o]
  BY DEF Alloc
<1>2. PICK o \in Objs : ~ IsLive(h, o) /\ a = [heap |-> [h EXCEPT ![o] = new], obj |-> o]
  BY <1>1
<1>3. HeapOK(h) /\ Spares(heap, h)
  BY Collects
<1>4. new.kind # "free"
  OBVIOUS
<1> HIDE DEF new
<1>5. a.obj = o /\ a.heap[o] = new /\ \A x \in Objs : x # o => a.heap[x] = h[x]
  BY <1>2, <1>3 DEF HeapOK
<1>6. IsLive(h, b) /\ h[b] = heap[b]
  BY <1>3, <1>5 DEF IsLive, Spares
<1>7. ASSUME NEW x \in heap[b].refs
      PROVE  IsLive(a.heap, x)
  <2>1. x \in Objs /\ IsLive(h, x)
    BY <1>3, <1>6 DEF HeapOK, Object
  <2> QED
    BY <1>4, <1>5, <2>1 DEF IsLive
<1> QED
  BY <1>7

-----------------------------------------------------------------------------
(* The roots. *)

\* The roots are what gc_mark_objects' four sources hold.
LEMMA RootsOf ==
    ASSUME Typed(globals, stack, envs, exc)
    PROVE  /\ Roots \subseteq Objs
           /\ \A i \in 1 .. Len(stack) : stack[i] \in Objs => stack[i] \in Roots
           /\ \A h : RootsLive(h, globals, stack, envs, exc) <=> \A o \in Roots : IsLive(h, o)
<1>1. /\ globals \subseteq Objs /\ stack \in Seq(Value) /\ envs \in Seq(Environment)
      /\ exc \in Value /\ DOMAIN stack = 1 .. Len(stack) /\ DOMAIN envs = 1 .. Len(envs)
  BY DEF Typed
<1>2. \A i \in 1 .. Len(envs) : envs[i] \in Environment
  BY <1>1
<1>3. \A i \in 1 .. Len(envs) : envs[i].native \subseteq Objs
  BY <1>2 DEF Environment
<1>4. \A o : o \in ObjectsOf(stack) <=> o \in Objs /\ \E i \in 1 .. Len(stack) : stack[i] = o
  BY <1>1 DEF ObjectsOf
<1>5. \A o : o \in EnvRoots <=>
         \E i \in 1 .. Len(envs) : (o \in Objs /\ envs[i].scope = o) \/ o \in envs[i].native
  BY <1>1 DEF EnvRoots
<1>6. Roots \subseteq Objs
  BY <1>1, <1>3, <1>4, <1>5 DEF Roots
<1>7. ASSUME NEW h
      PROVE  RootsLive(h, globals, stack, envs, exc) <=> \A o \in Roots : IsLive(h, o)
  <2>1. ASSUME RootsLive(h, globals, stack, envs, exc), NEW o \in Roots
        PROVE  IsLive(h, o)
    BY <1>1, <1>4, <1>5, <2>1 DEF Roots, RootsLive, StackLive, EnvsLive, Alive
  <2>2. ASSUME \A o \in Roots : IsLive(h, o)
        PROVE  RootsLive(h, globals, stack, envs, exc)
    <3>1. StackLive(h, stack)
      BY <1>4, <2>2 DEF Roots, StackLive, Alive
    <3>2. EnvsLive(h, envs)
      BY <1>5, <2>2 DEF Roots, EnvsLive, Alive
    <3> QED
      BY <2>2, <3>1, <3>2 DEF Roots, RootsLive, Alive
  <2> QED
    BY <2>1, <2>2
<1> QED
  BY <1>4, <1>6, <1>7 DEF Roots

Now == Sound(heap, globals, stack, envs, exc)

\* A new string, box or scope chain.
LEMMA NewObject ==
    ASSUME Now, NEW k \in {"string", "box", "scope"}, NEW a \in Alloc(k, {})
    PROVE  /\ HeapOK(a.heap) /\ RootsLive(a.heap, globals, stack, envs, exc)
           /\ a.obj \in Objs /\ IsLive(a.heap, a.obj)
           /\ \A o \in Objs : IsLive(a.heap, o) /\ o # a.obj => a.heap[o] = heap[o]
<1>1. /\ HeapOK(heap) /\ Typed(globals, stack, envs, exc)
      /\ RootsLive(heap, globals, stack, envs, exc)
  BY DEF Now, Sound
<1>2. /\ Roots \subseteq Objs /\ \A o \in Roots : IsLive(heap, o)
      /\ RootsLive(a.heap, globals, stack, envs, exc) <=> \A o \in Roots : IsLive(a.heap, o)
  BY <1>1, RootsOf
<1> QED
  BY <1>1, <1>2, AllocatesEmpty

\* A new box that shares what box b refers to.
LEMMA NewSlice ==
    ASSUME Now, NEW b \in Objs, NEW a \in Alloc("box", heap[b].refs),
           b # a.obj, IsLive(a.heap, b)
    PROVE  /\ HeapOK(a.heap) /\ RootsLive(a.heap, globals, stack, envs, exc)
           /\ a.obj \in Objs /\ IsLive(a.heap, a.obj)
<1>1. /\ HeapOK(heap) /\ Typed(globals, stack, envs, exc)
      /\ RootsLive(heap, globals, stack, envs, exc)
  BY DEF Now, Sound
<1>2. /\ Roots \subseteq Objs /\ \A o \in Roots : IsLive(heap, o)
      /\ RootsLive(a.heap, globals, stack, envs, exc) <=> \A o \in Roots : IsLive(a.heap, o)
  BY <1>1, RootsOf
<1> DEFINE r == heap[b].refs
           k == "box"
<1>3. r \in SUBSET Objs /\ k \in {"string", "box", "scope"} /\ a \in Alloc(k, r) /\ k # "free"
  BY <1>1 DEF HeapOK, Object
<1>4. \A x \in r : IsLive(a.heap, x)
  BY <1>1, <1>2, <1>3, AllocatesShared
<1> HIDE DEF r, k
<1> QED
  BY <1>1, <1>2, <1>3, <1>4, Allocates

\* A value of the stack becomes a member.
LEMMA NewMember ==
    ASSUME Now, NEW o, NEW i \in 1 .. Len(stack), NEW g \in MemberStored(o, stack[i])
    PROVE  HeapOK(g) /\ RootsLive(g, globals, stack, envs, exc)
<1>1. /\ HeapOK(heap) /\ Typed(globals, stack, envs, exc)
      /\ RootsLive(heap, globals, stack, envs, exc)
  BY DEF Now, Sound
<1>2. /\ Roots \subseteq Objs /\ \A x \in Roots : IsLive(heap, x)
      /\ stack[i] \in Objs => stack[i] \in Roots
      /\ RootsLive(g, globals, stack, envs, exc) <=> \A x \in Roots : IsLive(g, x)
  BY <1>1, RootsOf
<1>3. stack[i] \in Value
  BY <1>1 DEF Typed
<1> QED
  BY <1>1, <1>2, <1>3, StoresMember

\* What is live stays live.
LEMMA RootsStay ==
    ASSUME Typed(globals, stack, envs, exc), NEW h, NEW g,
           RootsLive(h, globals, stack, envs, exc),
           \A x \in Objs : IsLive(h, x) => IsLive(g, x)
    PROVE  RootsLive(g, globals, stack, envs, exc)
  BY RootsOf

-----------------------------------------------------------------------------
(* The stack, and the environments. *)

\* s and t have the same first n members; so do the environments d and e, but
\* for the objects a native function adds to one.
Agree(s, t, n) == n <= Len(s) /\ n <= Len(t) /\ \A i \in 1 .. n : t[i] = s[i]
EnvsAgree(d, e, n) ==
    /\ n <= Len(d) /\ n <= Len(e)
    /\ \A i \in 1 .. n : e[i].scope = d[i].scope /\ d[i].native \subseteq e[i].native

\* The values above the n-th leave the stack.
LEMMA Cuts ==
    ASSUME NEW h, NEW s \in Seq(Value), StackLive(h, s), NEW n \in 0 .. Len(s)
    PROVE  /\ SubSeq(s, 1, n) \in Seq(Value) /\ Len(SubSeq(s, 1, n)) = n
           /\ StackLive(h, SubSeq(s, 1, n)) /\ Agree(s, SubSeq(s, 1, n), n)
<1>1. /\ SubSeq(s, 1, n) \in Seq(Value) /\ Len(SubSeq(s, 1, n)) = n
      /\ \A i \in 1 .. n : SubSeq(s, 1, n)[i] = s[i] /\ i \in 1 .. Len(s)
  BY Prefix
<1> QED
  BY <1>1 DEF StackLive, Agree

\* push_value
LEMMA Pushes ==
    ASSUME NEW h, NEW s \in Seq(Value), StackLive(h, s), NEW v \in Value, Alive(h, v)
    PROVE  /\ Append(s, v) \in Seq(Value) /\ Len(Append(s, v)) = Len(s) + 1
           /\ StackLive(h, Append(s, v)) /\ Agree(s, Append(s, v), Len(s))
           /\ Append(s, v)[Len(s) + 1] = v
<1>1. /\ Append(s, v) \in Seq(Value) /\ Len(Append(s, v)) = Len(s) + 1
      /\ \A i \in 1 .. Len(s) : Append(s, v)[i] = s[i]
      /\ Append(s, v)[Len(s) + 1] = v
      /\ \A i \in 1 .. Len(s) + 1 : i \in 1 .. Len(s) \/ i = Len(s) + 1
      /\ Len(s) \in Nat
  BY OneMore
<1> QED
  BY <1>1 DEF StackLive, Agree

\* The stack s with v above its n-th value.
Leaving(s, n, v) == Append(SubSeq(s, 1, n), v)

\* A value takes the place of those above the n-th.
LEMMA Leaves ==
    ASSUME NEW h, NEW s \in Seq(Value), StackLive(h, s), NEW n \in 0 .. Len(s),
           NEW v \in Value, Alive(h, v)
    PROVE  /\ Leaving(s, n, v) \in Seq(Value) /\ Len(Leaving(s, n, v)) = n + 1
           /\ StackLive(h, Leaving(s, n, v)) /\ Agree(s, Leaving(s, n, v), n)
           /\ Leaving(s, n, v)[n + 1] = v
<1> DEFINE b == SubSeq(s, 1, n)
           t == Leaving(s, n, v)
<1>1. b \in Seq(Value) /\ Len(b) = n /\ StackLive(h, b) /\ Agree(s, b, n)
  BY Cuts
<1> HIDE DEF b
<1>2. /\ t \in Seq(Value) /\ Len(t) = n + 1
      /\ StackLive(h, t) /\ Agree(b, t, n) /\ t[n + 1] = v
  <2> DEFINE r == Append(b, v)
  <2>1. /\ r \in Seq(Value) /\ Len(r) = n + 1
        /\ StackLive(h, r) /\ Agree(b, r, n) /\ r[n + 1] = v
    BY <1>1, Pushes
  <2> HIDE DEF r
  <2>2. t = r
    BY DEF Leaving, r, b
  <2> QED
    BY <2>1, <2>2
<1> QED
  BY <1>1, <1>2 DEF Agree

\* pop_value and peek_stack
LEMMA Pops ==
    ASSUME NEW h, NEW s \in Seq(Value), StackLive(h, s), Len(s) # 0
    PROVE  /\ Front(s) \in Seq(Value) /\ Len(Front(s)) = Len(s) - 1
           /\ StackLive(h, Front(s)) /\ Agree(s, Front(s), Len(s) - 1)
           /\ Last(s) = s[Len(s)] /\ Last(s) \in Value /\ Alive(h, Last(s))
           /\ Len(s) \in 1 .. Len(s) /\ Front(s) = SubSeq(s, 1, Len(s) - 1)
<1>1. Len(s) \in 1 .. Len(s) /\ Len(s) \in Nat
  OBVIOUS
<1> DEFINE n == Len(s) - 1
<1>2. n \in 0 .. Len(s)
  BY <1>1
<1>3. Front(s) = SubSeq(s, 1, n) /\ Last(s) = s[Len(s)] /\ Last(s) \in Value
  BY Ends
<1> HIDE DEF n
<1>4. /\ SubSeq(s, 1, n) \in Seq(Value) /\ Len(SubSeq(s, 1, n)) = n
      /\ StackLive(h, SubSeq(s, 1, n)) /\ Agree(s, SubSeq(s, 1, n), n)
  BY <1>2, Cuts
<1> QED
  BY <1>1, <1>3, <1>4 DEF n, StackLive

\* Two stacks that agree agree on less.
LEMMA AgreeLess ==
    ASSUME NEW s, NEW t, NEW n \in Int, Agree(s, t, n), NEW m \in Int, m <= n,
           Len(s) \in Nat, Len(t) \in Nat
    PROVE  Agree(s, t, m)
  BY DEF Agree

-----------------------------------------------------------------------------
(* What the functions in progress hold. *)

\* A function that waits for another one finds what it holds where it was,
\* if what is below the other one is.
LEMMA Waiting ==
    ASSUME NEW c, NEW n, NEW m, Control(c, n, m), NEW i \in 1 .. Len(c) - 1,
           NEW j \in 1 .. Len(c), i < j,
           NEW s, NEW e, NEW h, HeldFor(c[i], s, e, h),
           NEW t, NEW d, NEW g, Len(s) \in Nat, Len(t) \in Nat, Len(e) \in Nat, Len(d) \in Nat,
           Agree(s, t, c[j].base), EnvsAgree(e, d, c[j].envs)
    PROVE  HeldFor(c[i], t, d, g)
<1> DEFINE f == c[i]
<1>1. /\ c \in Seq(Function) /\ Len(c) \in Nat /\ i \in 1 .. Len(c) /\ Awaits(f, c[i + 1])
      /\ f.base + Waits(f) <= c[j].base /\ f.envs + EnvOwn(f) <= c[j].envs
  <2>1. c \in Seq(Function) /\ Len(c) \in 1 .. MaxCtl
    BY DEF Control
  <2>2. \A k \in 1 .. Len(c) - 1 : Awaits(c[k], c[k + 1])
    BY DEF Control
  <2>3. \A k, l \in 1 .. Len(c) : k < l =>
           c[k].base + Waits(c[k]) <= c[l].base /\ c[k].envs + EnvOwn(c[k]) <= c[l].envs
    BY DEF Control
  <2>4. Len(c) \in Nat /\ i \in 1 .. Len(c)
    BY ONLY <2>1, i \in 1 .. Len(c) - 1
  <2> QED
    BY ONLY <2>1, <2>2, <2>3, <2>4, i \in 1 .. Len(c) - 1, j \in 1 .. Len(c), i < j
<1>2. f \in Function /\ c[j] \in Function
  BY <1>1
<1> HIDE DEF f
<1>3. f.base \in Nat /\ f.envs \in Nat /\ c[j].base \in Nat /\ c[j].envs \in Nat
  BY <1>2, Fields
<1>4. HeldFor(f, s, e, h)
  BY DEF f
<1>5. ASSUME f.op \in {"array", "assoc"}
      PROVE  f.base < Len(t) /\ t[f.base + 1] = f.held
  <2>1. f.at = "store"
    BY <1>1, <1>5 DEF Awaits, Operand, List
  <2>2. Waits(f) = 1
    BY <1>5, <2>1 DEF Waits, Own, Two, List
  <2>3. f.base + 1 \in 1 .. c[j].base
    <3>1. \A a, b \in Nat : a + 1 <= b => a + 1 \in 1 .. b
      OBVIOUS
    <3>2. f.base + 1 <= c[j].base
      BY ONLY <1>1, <2>2
    <3> QED
      BY ONLY <1>3, <3>1, <3>2
  <2>4. f.base < Len(s) /\ s[f.base + 1] = f.held
    BY <1>4, <1>5 DEF HeldFor
  <2> QED
    BY SMTT(30), <1>3, <2>3, <2>4 DEF Agree
<1>6. ASSUME f.op = "call"
      PROVE  /\ f.at = "environment" => f.held = Plain
             /\ f.at = "native" => f.held \in d[f.envs + 1].native
             /\ f.at \in {"frame", "named", "arguments", "bind"} \/ f.run =>
                   f.held = d[f.envs + 1].scope
             /\ f.at # "body" \/ f.run
             /\ f.at # "environment" => f.envs + 1 \in 1 .. c[j].envs
  <2>1. f.at = "environment" => f.held = Plain
    BY <1>4, <1>6 DEF HeldFor
  <2>2. f.at # "body" \/ f.run
    BY <1>1, <1>6 DEF Awaits, Operand
  <2>3. f.at # "environment" => f.envs + 1 \in 1 .. c[j].envs
    BY SMTT(30), <1>1, <1>3, <1>6 DEF EnvOwn
  <2>4. CASE f.at = "environment"
    <3>1. ~ f.run
      BY <1>1, <1>6, <2>4 DEF Awaits, List, Operand, Control, FrameOK, f
    <3> QED
      BY <2>1, <2>2, <2>4, <3>1
  <2>5. CASE f.at # "environment"
    <3>1. /\ f.at = "native" => f.held \in e[f.envs + 1].native
          /\ f.at \in {"frame", "named", "arguments", "bind"} \/ f.run =>
                f.held = e[f.envs + 1].scope
      BY <1>4, <1>6 DEF HeldFor
    <3>2. /\ d[f.envs + 1].scope = e[f.envs + 1].scope
          /\ e[f.envs + 1].native \subseteq d[f.envs + 1].native
      BY <2>3, <2>5 DEF EnvsAgree
    <3> QED
      BY <2>2, <2>3, <2>5, <3>1, <3>2
  <2> QED
    BY <2>4, <2>5
<1>7. HeldFor(f, t, d, g)
  BY <1>4, <1>5, <1>6 DEF HeldFor
<1> QED
  BY <1>7 DEF f

\* Stacks and environments whose first members agree: what a step leaves of s
\* and e, up to what belongs to the function f.
Keeps(f, s, e, t, d) ==
    /\ Len(s) \in Nat /\ Len(t) \in Nat /\ Len(e) \in Nat /\ Len(d) \in Nat
    /\ Agree(s, t, f.base) /\ EnvsAgree(e, d, f.envs)

\* The functions above the i-th have gone, and it goes on as f.
LEMMA GoesOn ==
    ASSUME NEW c, NEW s, NEW e, NEW h, Frames(c, s, e, h), NEW i \in 1 .. Len(c),
           NEW f \in Function, FrameOK(i, f), f.base = c[i].base, f.envs = c[i].envs,
           f.env = c[i].env \/ InBody(f), InBody(c[i]) => InBody(f),
           f.op \in Expr <=> c[i].op \in Expr, f.op \in Stmt <=> c[i].op \in Stmt,
           NEW t, NEW d, NEW g, Keeps(f, s, e, t, d), HeldFor(f, t, d, g),
           Len(t) = f.base + Own(f), Len(t) <= MaxStack,
           Len(d) = f.envs + EnvOwn(f), Len(d) <= MaxEnvs
    PROVE  Frames(Append(SubSeq(c, 1, i - 1), f), t, d, g)
<1> DEFINE p == i - 1
           b == SubSeq(c, 1, p)
           r == Append(b, f)
<1>1. Control(c, Len(s), Len(e)) /\ \A l \in 1 .. Len(c) : HeldFor(c[l], s, e, h)
  BY DEF Frames
<1>2. Control(r, Len(t), Len(d))
  BY <1>1, Replaced
<1>3. c \in Seq(Function) /\ Len(c) \in Nat /\ p \in 0 .. Len(c) /\ p + 1 = i
  BY <1>1 DEF Control
<1> HIDE DEF p
<1>4. b \in Seq(Function) /\ Len(b) = p /\ \A l \in 1 .. p : b[l] = c[l]
  BY <1>3, Prefix
<1> HIDE DEF b
<1>5. /\ Len(r) = p + 1 /\ r[p + 1] = f /\ \A l \in 1 .. p : r[l] = b[l]
      /\ \A l \in 1 .. p + 1 : l \in 1 .. p \/ l = p + 1
  BY <1>4, OneMore
<1> HIDE DEF r
<1>6. ASSUME NEW l \in 1 .. p
      PROVE  HeldFor(c[l], t, d, g)
  <2>1. l \in 1 .. Len(c) - 1 /\ l < i /\ l \in 1 .. Len(c)
    BY <1>3
  <2>2. HeldFor(c[l], s, e, h)
    BY <1>1, <2>1
  <2>3. /\ Len(s) \in Nat /\ Len(t) \in Nat /\ Len(e) \in Nat /\ Len(d) \in Nat
        /\ Agree(s, t, c[i].base) /\ EnvsAgree(e, d, c[i].envs)
    BY DEF Keeps
  <2> QED
    BY <1>1, <2>1, <2>2, <2>3, Waiting
<1>7. \A l \in 1 .. Len(r) : HeldFor(r[l], t, d, g)
  BY <1>4, <1>5, <1>6
<1>8. Frames(r, t, d, g)
  BY <1>2, <1>7 DEF Frames
<1> QED
  BY <1>8 DEF r, b, p

\* The innermost function returns.
LEMMA Returns ==
    ASSUME NEW c, NEW s, NEW e, NEW h, Frames(c, s, e, h), Len(c) > 1,
           NEW t, NEW d, NEW g, Keeps(c[Len(c)], s, e, t, d),
           Len(t) = c[Len(c)].base + (IF c[Len(c)].op \in Expr THEN 1 ELSE 0),
           Len(d) = c[Len(c)].envs
    PROVE  Frames(Front(c), t, d, g)
<1> DEFINE p == Len(c) - 1
           top == c[p + 1]
           f == c[p]
           r == SubSeq(c, 1, p)
<1>1. Control(c, Len(s), Len(e)) /\ \A l \in 1 .. Len(c) : HeldFor(c[l], s, e, h)
  BY DEF Frames
<1>2. c \in Seq(Function) /\ Len(c) \in Nat /\ p \in 1 .. Len(c) /\ p \in 0 .. Len(c)
      /\ p + 1 = Len(c) /\ Len(c) \in 1 .. Len(c) /\ p \in 1 .. Len(c) - 1
  BY <1>1 DEF Control
<1>3. Awaits(f, top)
  BY <1>1, <1>2 DEF Control
<1>4. FrameOK(Len(c), top) /\ Len(c) # 1
  BY <1>1, <1>2 DEF Control
<1>5. Front(c) = r
  BY SMTT(30), <1>2, Ends
<1> HIDE DEF p
<1>6. f \in Function /\ top \in Function
  BY <1>2
<1> HIDE DEF f, top
<1>7. /\ top.base \in Nat /\ f.base \in Nat /\ top.envs \in Nat /\ f.envs \in Nat
      /\ top.envs <= MaxEnvs /\ MaxStack \in Nat /\ top.base < MaxStack
  <2>1. /\ top.base \in Nat /\ f.base \in Nat /\ top.envs \in Nat /\ f.envs \in Nat
        /\ top.envs \in 0 .. MaxEnvs /\ MaxStack \in Nat
    BY <1>6, Fields
  <2>2. top.base < MaxStack
    BY <1>4 DEF FrameOK
  <2> QED
    BY <2>1, <2>2
<1>8. Len(t) = f.base + Own(f) /\ Len(t) <= MaxStack
  <2>1. Own(f) \in 0 .. 2 /\ (Operand(f) => Waits(f) = Own(f) - 1) /\ (List(f) => Waits(f) = Own(f))
    BY Counts
  <2>2. top.base = f.base + Waits(f)
    BY <1>3 DEF Awaits
  <2>3. CASE Operand(f) /\ top.op \in Expr
    <3>1. Len(t) = top.base + 1
      BY <1>2, <2>3 DEF top
    <3> QED
      BY <1>7, <2>1, <2>2, <2>3, <3>1
  <2>4. CASE List(f) /\ top.op \in Stmt
    <3>1. top.op \notin Expr
      BY <2>4 DEF Stmt, Expr
    <3>2. Len(t) = top.base
      <4>1. Len(t) = top.base + 0
        BY <1>2, <3>1 DEF top
      <4> QED
        BY <1>7, <4>1
    <3> QED
      BY <1>7, <2>1, <2>2, <2>4, <3>2
  <2> QED
    BY <1>3, <2>3, <2>4 DEF Awaits
<1>9. Len(d) = f.envs + EnvOwn(f) /\ Len(d) <= MaxEnvs
  <2>1. top.envs = f.envs + EnvOwn(f) /\ Len(d) = top.envs
    BY <1>2, <1>3 DEF Awaits, top
  <2> QED
    BY <1>7, <2>1
<1>10. Control(r, Len(t), Len(d))
  BY <1>1, <1>2, <1>8, <1>9, Cut DEF f
<1>11. Len(r) = p /\ \A l \in 1 .. p : r[l] = c[l]
  BY <1>2, Prefix
<1>12. ASSUME NEW l \in 1 .. p
       PROVE  HeldFor(c[l], t, d, g)
  <2>1. l \in 1 .. Len(c) - 1 /\ l < Len(c) /\ l \in 1 .. Len(c)
    BY <1>2
  <2>2. HeldFor(c[l], s, e, h)
    BY <1>1, <2>1
  <2>3. /\ Len(s) \in Nat /\ Len(t) \in Nat /\ Len(e) \in Nat /\ Len(d) \in Nat
        /\ Agree(s, t, c[Len(c)].base) /\ EnvsAgree(e, d, c[Len(c)].envs)
    BY DEF Keeps
  <2> QED
    BY <1>1, <1>2, <2>1, <2>2, <2>3, Waiting
<1> HIDE DEF r
<1>13. \A l \in 1 .. Len(r) : HeldFor(r[l], t, d, g)
  BY <1>11, <1>12
<1> QED
  BY <1>5, <1>10, <1>13 DEF Frames

\* The evaluation of an expression, which begins.
Begun(e, n, m) ==
    [op |-> "eval", at |-> "start", held |-> Plain, run |-> FALSE, env |-> e, base |-> n, envs |-> m]

\* Its fields.
LEMMA BegunIs ==
    ASSUME NEW e \in 0 .. MaxEnvs, NEW n \in 0 .. MaxStack, NEW m \in 0 .. MaxEnvs
    PROVE  /\ Begun(e, n, m) \in Function
           /\ Begun(e, n, m).op = "eval" /\ Begun(e, n, m).at = "start"
           /\ Begun(e, n, m).held = Plain /\ Begun(e, n, m).run = FALSE
           /\ Begun(e, n, m).env = e /\ Begun(e, n, m).base = n /\ Begun(e, n, m).envs = m
<1>1. Plain \in Value /\ "eval" \in Operation /\ "start" \in Point
  BY DEF Value, Operation, Point
<1> QED
  BY <1>1 DEF Begun, Function

\* It begins with another stack.
LEMMA Lower ==
    ASSUME NEW e, NEW n, NEW m, NEW k
    PROVE  [Begun(e, n, m) EXCEPT !.base = k] = Begun(e, k, m)
<1> DEFINE r(b, i) == [op |-> "eval", at |-> "start", held |-> Plain, run |-> b,
                       env |-> e, base |-> i, envs |-> m]
           no == FALSE
<1> HIDE DEF no
<1>1. [r(no, n) EXCEPT !.base = k] = r(no, k)
  OBVIOUS
<1>2. Begun(e, n, m) = r(no, n) /\ Begun(e, k, m) = r(no, k)
  BY DEF Begun, no
<1> QED
  BY <1>1, <1>2

\* The innermost function goes on as f and waits for an expression's value,
\* with t on the stack.
LEMMA Asks ==
    ASSUME NEW c, NEW s, NEW e, NEW h, Frames(c, s, e, h), Len(c) < MaxCtl,
           NEW f \in Function, FrameOK(Len(c), f),
           f.base = c[Len(c)].base, f.envs = c[Len(c)].envs, f.env = c[Len(c)].env,
           InBody(c[Len(c)]) => InBody(f),
           f.op \in Expr <=> c[Len(c)].op \in Expr, f.op \in Stmt <=> c[Len(c)].op \in Stmt,
           Operand(f),
           NEW t, Keeps(f, s, e, t, e), HeldFor(f, t, e, h),
           Len(t) = f.base + Own(f) - 1, Len(t) < MaxStack, Len(e) = f.envs + EnvOwn(f)
    PROVE  Frames(Append(Append(Front(c), f), Begun(f.env, Len(t), Len(e))), t, e, h)
<1> DEFINE p == Len(c) - 1
           b == SubSeq(c, 1, p)
           r == Append(b, f)
           g == Begun(f.env, Len(t), Len(e))
           k == Len(t) + 1
           m == Len(e)
<1>1. Control(c, Len(s), Len(e)) /\ \A l \in 1 .. Len(c) : HeldFor(c[l], s, e, h)
  BY DEF Frames
<1>2. c \in Seq(Function) /\ Len(c) \in Nat /\ p \in 0 .. Len(c) /\ p + 1 = Len(c)
      /\ Len(c) \in 1 .. Len(c) /\ Len(c) # 0
  BY <1>1 DEF Control
<1>3. Front(c) = b
  BY <1>2, Ends
<1>4. /\ f.base \in Nat /\ f.envs \in Nat /\ f.env \in 0 .. MaxEnvs
      /\ Own(f) \in 1 .. 2 /\ Waits(f) = Own(f) - 1 /\ EnvOwn(f) \in 0 .. 1
      /\ MaxStack \in Nat /\ MaxEnvs \in Nat /\ Len(t) \in Nat /\ Len(e) \in Nat
  BY Counts, Fields DEF Keeps
<1>5. m <= MaxEnvs
  BY <1>1 DEF Control
<1>6. k = f.base + Own(f) /\ k <= MaxStack /\ m = f.envs + EnvOwn(f)
  BY <1>4
<1>7. Control(r, k, m)
  <2> HIDE DEF k, m, p, b, r
  <2>1. Control(Append(SubSeq(c, 1, Len(c) - 1), f), k, m)
    BY <1>1, <1>2, <1>5, <1>6, Replaced
  <2> QED
    BY <2>1 DEF r, b, p
<1> HIDE DEF p
<1>8. b \in Seq(Function) /\ Len(b) = p /\ \A l \in 1 .. p : b[l] = c[l]
  BY <1>2, Prefix
<1> HIDE DEF b
<1>9. /\ r \in Seq(Function) /\ Len(r) = p + 1 /\ r[p + 1] = f
      /\ \A l \in 1 .. p : r[l] = b[l]
      /\ \A l \in 1 .. p + 1 : l \in 1 .. p \/ l = p + 1
  BY <1>8, OneMore
<1> HIDE DEF r
<1>10. g \in Function /\ Own(g) = 0 /\ EnvOwn(g) = 0 /\ g.base = Len(t) /\ g.envs = Len(e)
       /\ g.env = f.env /\ g.op = "eval" /\ g.run = FALSE /\ g.held = Plain /\ g.at = "start"
  <2>1. /\ g.base = Len(t) /\ g.envs = Len(e) /\ g.env = f.env /\ g.op = "eval"
        /\ g.run = FALSE /\ g.held = Plain /\ g.at = "start"
    BY DEF Begun
  <2>2. g \in Function
    <3>1. Len(t) \in 0 .. MaxStack /\ Len(e) \in 0 .. MaxEnvs /\ f.env \in 0 .. MaxEnvs
      BY <1>4, <1>5
    <3> QED
      BY <3>1, BegunIs
  <2>3. Own(g) = 0 /\ EnvOwn(g) = 0
    BY <2>1 DEF Own, Two, None, EnvOwn
  <2> QED
    BY <2>1, <2>2, <2>3
<1> HIDE DEF g
<1>11. FrameOK(Len(r) + 1, g)
  <2>1. f.env <= f.envs + EnvOwn(f)
    BY DEF FrameOK
  <2>2. g.env <= g.envs + EnvOwn(g)
    BY <1>4, <1>10, <2>1
  <2>3. Len(r) + 1 # 1
    BY <1>2, <1>9
  <2> QED
    BY <1>4, <1>10, <2>2, <2>3 DEF FrameOK
<1>12. Awaits(r[Len(r)], g)
  <2>1. r[Len(r)] = f
    BY <1>9
  <2>2. g.base = f.base + Waits(f) /\ g.envs = f.envs + EnvOwn(f)
    BY <1>4, <1>10
  <2> QED
    BY <1>10, <2>1, <2>2 DEF Awaits, Expr
<1>13. Len(r) < MaxCtl
  BY <1>2, <1>9
<1>14. Control(Append(r, g), Len(t), Len(e))
  <2>1. Len(t) = g.base + Own(g) /\ Len(e) = g.envs + EnvOwn(g)
    BY <1>4, <1>10
  <2>2. Len(t) <= MaxStack
    BY <1>4
  <2> HIDE DEF k, m
  <2> QED
    BY <1>5, <1>7, <1>10, <1>11, <1>12, <1>13, <2>1, <2>2, Called DEF m
<1>15. ASSUME NEW l \in 1 .. p
       PROVE  HeldFor(c[l], t, e, h)
  <2>1. l \in 1 .. Len(c) - 1 /\ l < Len(c) /\ l \in 1 .. Len(c)
    BY <1>2
  <2>2. HeldFor(c[l], s, e, h)
    BY <1>1, <2>1
  <2>3. /\ Len(s) \in Nat /\ Len(t) \in Nat /\ Len(e) \in Nat
        /\ Agree(s, t, c[Len(c)].base) /\ EnvsAgree(e, e, c[Len(c)].envs)
    BY DEF Keeps
  <2> QED
    BY <1>1, <1>2, <2>1, <2>2, <2>3, Waiting
<1>16. HeldFor(g, t, e, h)
  BY <1>10 DEF HeldFor, Unrooted
<1> DEFINE d == Append(r, g)
<1>17. /\ Len(d) = Len(r) + 1 /\ d[Len(r) + 1] = g /\ \A l \in 1 .. Len(r) : d[l] = r[l]
       /\ \A l \in 1 .. Len(r) + 1 : l \in 1 .. Len(r) \/ l = Len(r) + 1
  BY <1>9, <1>10, OneMore
<1> HIDE DEF d
<1>18. \A l \in 1 .. Len(d) : HeldFor(d[l], t, e, h)
  BY <1>8, <1>9, <1>15, <1>16, <1>17
<1> QED
  BY <1>3, <1>14, <1>18 DEF Frames, d, r, g

\* A function that runs a statement list waits for the statement g.
LEMMA Starts ==
    ASSUME NEW c, NEW s, NEW e, NEW h, Frames(c, s, e, h), Len(c) < MaxCtl,
           c[Len(c)].run, NEW g \in Function, g.op \in Stmt, g.run => List(g),
           g.env = c[Len(c)].env, g.base = Len(s), g.envs = Len(e), Len(s) < MaxStack,
           g.op = "return" => g.env # 0
    PROVE  /\ Own(g) \in 0 .. 1 => Control(Append(c, g), Len(s) + Own(g), Len(e))
           /\ \A l \in 1 .. Len(c) : HeldFor(Append(c, g)[l], s, e, h)
           /\ Append(c, g)[Len(c) + 1] = g /\ Len(Append(c, g)) = Len(c) + 1
<1> DEFINE p == Len(c)
           f == c[p]
<1>1. Control(c, Len(s), Len(e)) /\ \A l \in 1 .. p : HeldFor(c[l], s, e, h)
  BY DEF Frames
<1>2. c \in Seq(Function) /\ p \in Nat /\ p \in 1 .. p /\ p + 1 # 1 /\ FrameOK(p, f)
  BY <1>1 DEF Control
<1>3. f \in Function
  BY <1>2
<1>4. /\ Len(s) = f.base + Own(f) /\ Len(e) = f.envs + EnvOwn(f)
      /\ Len(s) <= MaxStack /\ Len(e) <= MaxEnvs
  BY <1>1 DEF Control
<1>5. /\ Append(c, g) \in Seq(Function) /\ Len(Append(c, g)) = p + 1
      /\ Append(c, g)[p + 1] = g /\ \A l \in 1 .. p : Append(c, g)[l] = c[l]
  BY <1>2, OneMore
<1> HIDE DEF f
<1>6. List(f) /\ f.run
  BY <1>2 DEF FrameOK, f
<1>7. /\ f.base \in Nat /\ f.envs \in Nat /\ f.env \in Nat /\ g.env \in Nat
      /\ Own(f) \in 0 .. 2 /\ EnvOwn(f) \in 0 .. 1 /\ Waits(f) = Own(f)
      /\ MaxStack \in Nat /\ MaxEnvs \in Nat
  BY <1>3, <1>6, Counts, Fields
<1>8. /\ g.op # "main" /\ g.op # "call" /\ EnvOwn(g) = 0
  BY DEF Stmt, EnvOwn
<1>9. FrameOK(p + 1, g)
  <2>1. f.env <= f.envs + EnvOwn(f) /\ g.env = f.env
    BY <1>2 DEF FrameOK, f
  <2>2. g.env <= g.envs + EnvOwn(g)
    BY <1>4, <1>7, <1>8, <2>1
  <2> QED
    BY <1>2, <1>8, <2>2 DEF FrameOK
<1>10. Awaits(f, g)
  <2>1. g.base = f.base + Waits(f) /\ g.envs = f.envs + EnvOwn(f) /\ g.env = f.env
    BY <1>4, <1>7 DEF f
  <2> QED
    BY <1>6, <2>1 DEF Awaits
<1>11. ASSUME Own(g) \in 0 .. 1
       PROVE  Control(Append(c, g), Len(s) + Own(g), Len(e))
  <2> DEFINE k == Len(s) + Own(g)
             n == Len(s)
             m == Len(e)
  <2>1. k = g.base + Own(g) /\ k <= MaxStack /\ m = g.envs + EnvOwn(g) /\ m <= MaxEnvs
    <3>1. n \in Nat
      BY <1>4, <1>7
    <3> QED
      BY <1>4, <1>7, <1>8, <1>11, <3>1
  <2>2. Control(c, n, m) /\ FrameOK(Len(c) + 1, g) /\ Awaits(c[Len(c)], g)
    BY <1>1, <1>9, <1>10 DEF f
  <2> HIDE DEF k, n, m
  <2>3. Control(Append(c, g), k, m)
    BY <2>1, <2>2, Called
  <2> QED
    BY <2>3 DEF k, m
<1> QED
  BY <1>1, <1>5, <1>11

-----------------------------------------------------------------------------
(* A step of the innermost function. *)

\* What the invariant says of it.
LEMMA Here ==
    ASSUME IInv
    PROVE  /\ Now /\ Frames(ctl, stack, envs, heap)
           /\ ctl \in Seq(Function) /\ Len(ctl) \in Nat /\ Len(ctl) \in 1 .. Len(ctl)
           /\ Top = ctl[Len(ctl)] /\ Front(ctl) = SubSeq(ctl, 1, Len(ctl) - 1)
           /\ Top \in Function /\ FrameOK(Len(ctl), Top) /\ HeldFor(Top, stack, envs, heap)
           /\ Len(stack) = Top.base + Own(Top) /\ Len(stack) <= MaxStack
           /\ Len(envs) = Top.envs + EnvOwn(Top) /\ Len(envs) <= MaxEnvs
           /\ stack \in Seq(Value) /\ envs \in Seq(Environment)
           /\ Top.base \in Nat /\ Top.envs \in Nat /\ MaxStack \in Nat /\ MaxEnvs \in Nat
           /\ Len(stack) \in Nat /\ Len(envs) \in Nat /\ Len(ctl) <= MaxCtl
<1>1. Now /\ Frames(ctl, stack, envs, heap)
  BY DEF IInv, Now
<1>2. stack \in Seq(Value) /\ envs \in Seq(Environment)
  BY <1>1 DEF Now, Sound, Typed
<1>3. Control(ctl, Len(stack), Len(envs)) /\ \A l \in 1 .. Len(ctl) : HeldFor(ctl[l], stack, envs, heap)
  BY <1>1 DEF Frames
<1>4. ctl \in Seq(Function) /\ Len(ctl) \in Nat /\ Len(ctl) \in 1 .. Len(ctl) /\ Len(ctl) <= MaxCtl
  BY <1>3, RootsAssumption DEF Control
<1>5. Top = ctl[Len(ctl)] /\ Front(ctl) = SubSeq(ctl, 1, Len(ctl) - 1) /\ Top \in Function
  BY <1>4, Ends DEF Top
<1>6. FrameOK(Len(ctl), Top) /\ HeldFor(Top, stack, envs, heap)
  BY <1>3, <1>4, <1>5 DEF Control
<1>7. /\ Len(stack) = Top.base + Own(Top) /\ Len(stack) <= MaxStack
      /\ Len(envs) = Top.envs + EnvOwn(Top) /\ Len(envs) <= MaxEnvs
  BY <1>3, <1>5 DEF Control
<1>8. Top.base \in Nat /\ Top.envs \in Nat /\ MaxStack \in Nat /\ MaxEnvs \in Nat
  BY <1>5, Fields
<1>9. Len(stack) \in Nat /\ Len(envs) \in Nat
  BY <1>2
<1> QED
  BY <1>1, <1>2, <1>4, <1>5, <1>6, <1>7, <1>8, <1>9

\* f is what f0 becomes: op o, at p, holding v.
Is(f, f0, o, p, v, b, e) ==
    /\ f \in Function /\ f.op = o /\ f.at = p /\ f.held = v /\ f.run = b /\ f.env = e
    /\ f.base = f0.base /\ f.envs = f0.envs

\* The ways a function goes on: at another point,
LEMMA MovesTo ==
    ASSUME NEW f \in Function, NEW p \in Point
    PROVE  Is([f EXCEPT !.at = p], f, f.op, p, f.held, f.run, f.env)
  BY DEF Is, Function

\* op and at
LEMMA Becomes ==
    ASSUME NEW f \in Function, NEW o \in Operation, NEW p \in Point
    PROVE  Is([f EXCEPT !.op = o, !.at = p], f, o, p, f.held, f.run, f.env)
  BY DEF Is, Function

\* at and held
LEMMA MovesHolding ==
    ASSUME NEW f \in Function, NEW p \in Point, NEW v \in Value
    PROVE  Is([f EXCEPT !.at = p, !.held = v], f, f.op, p, v, f.run, f.env)
  BY DEF Is, Function

\* op, at and held
LEMMA BecomesHolding ==
    ASSUME NEW f \in Function, NEW o \in Operation, NEW p \in Point, NEW v \in Value
    PROVE  Is([f EXCEPT !.op = o, !.at = p, !.held = v], f, o, p, v, f.run, f.env)
  BY DEF Is, Function

\* at and run
LEMMA MovesRunning ==
    ASSUME NEW f \in Function, NEW p \in Point, NEW b \in BOOLEAN
    PROVE  Is([f EXCEPT !.at = p, !.run = b], f, f.op, p, f.held, b, f.env)
  BY DEF Is, Function

\* at, run and env
LEMMA MovesInto ==
    ASSUME NEW f \in Function, NEW p \in Point, NEW b \in BOOLEAN, NEW e \in 0 .. MaxEnvs
    PROVE  Is([f EXCEPT !.at = p, !.run = b, !.env = e], f, f.op, p, f.held, b, e)
  BY DEF Is, Function

\* run
LEMMA Runs ==
    ASSUME NEW f \in Function, NEW b \in BOOLEAN
    PROVE  Is([f EXCEPT !.run = b], f, f.op, f.at, f.held, b, f.env)
  BY DEF Is, Function

\* held
LEMMA Holds ==
    ASSUME NEW f \in Function, NEW v \in Value
    PROVE  Is([f EXCEPT !.held = v], f, f.op, f.at, v, f.run, f.env)
  BY DEF Is, Function

\* f is a legal continuation of the innermost function.
Continues(f) ==
    /\ f \in Function /\ f.base = Top.base /\ f.envs = Top.envs
    /\ f.op = Top.op \/ (Top.op = "eval" /\ f.op \in Expr)
    /\ f.env = Top.env \/ (InBody(f) /\ f.env <= f.envs + EnvOwn(f))
    /\ InBody(Top) => InBody(f)
    /\ f.op # "call" \/ f.at # "environment" \/ Top.op = "eval"
    /\ Top.op = "eval" /\ f.op = "call" => Top.envs < MaxEnvs
    /\ f.run => List(f)

\* It is what the function in its place has to be.
LEMMA ContinuesWell ==
    ASSUME IInv, NEW f, Continues(f)
    PROVE  /\ f \in Function /\ FrameOK(Len(ctl), f)
           /\ f.base = ctl[Len(ctl)].base /\ f.envs = ctl[Len(ctl)].envs
           /\ f.env = ctl[Len(ctl)].env \/ InBody(f)
           /\ InBody(ctl[Len(ctl)]) => InBody(f)
           /\ f.op \in Expr <=> ctl[Len(ctl)].op \in Expr
           /\ f.op \in Stmt <=> ctl[Len(ctl)].op \in Stmt
<1>1. Top = ctl[Len(ctl)] /\ Top \in Function /\ FrameOK(Len(ctl), Top)
  BY Here
<1>2. f \in Function
  BY DEF Continues
<1>3. /\ Top.envs \in Nat /\ Top.env \in Nat /\ EnvOwn(f) \in 0 .. 1 /\ EnvOwn(Top) \in 0 .. 1
  BY <1>1, Fields, Counts
<1>4. f.env <= f.envs + EnvOwn(f)
  <2>1. CASE f.env = Top.env
    <3>1. EnvOwn(f) >= EnvOwn(Top)
      BY DEF Continues, EnvOwn
    <3>2. Top.env <= Top.envs + EnvOwn(Top) /\ f.envs = Top.envs
      BY <1>1 DEF FrameOK, Continues
    <3> QED
      BY <1>3, <2>1, <3>1, <3>2
  <2> QED
    BY <2>1 DEF Continues
<1>5. /\ f.op \in Expr <=> Top.op \in Expr
      /\ f.op \in Stmt <=> Top.op \in Stmt
      /\ f.op = "main" <=> Top.op = "main"
      /\ f.op = "return" => Top.op = "return" /\ f.env = Top.env
      /\ Top.op = "main" => f.env = Top.env
  BY DEF Continues, Expr, Stmt, InBody
<1>6. FrameOK(Len(ctl), f)
  BY <1>1, <1>4, <1>5 DEF FrameOK, Continues
<1> QED
  BY <1>1, <1>2, <1>5, <1>6 DEF Continues

\* Below the innermost function's place, nothing of the stack or of the
\* environments is gone.
Kept == /\ stack' \in Seq(Value) /\ envs' \in Seq(Environment)
        /\ Agree(stack, stack', Top.base) /\ EnvsAgree(envs, envs', Top.envs)

Sound1 == Sound(heap', globals', stack', envs', exc')

\* The innermost function goes on as f.
LEMMA GoOn ==
    ASSUME IInv, Sound1, Kept, NEW f, Continues(f), ctl' = Append(Front(ctl), f),
           HeldFor(f, stack', envs', heap'),
           Len(stack') = f.base + Own(f), Len(stack') <= MaxStack,
           Len(envs') = f.envs + EnvOwn(f), Len(envs') <= MaxEnvs
    PROVE  IInv'
<1>1. /\ f \in Function /\ FrameOK(Len(ctl), f)
      /\ f.base = ctl[Len(ctl)].base /\ f.envs = ctl[Len(ctl)].envs
      /\ f.env = ctl[Len(ctl)].env \/ InBody(f)
      /\ InBody(ctl[Len(ctl)]) => InBody(f)
      /\ f.op \in Expr <=> ctl[Len(ctl)].op \in Expr
      /\ f.op \in Stmt <=> ctl[Len(ctl)].op \in Stmt
  BY ContinuesWell
<1>2. /\ Frames(ctl, stack, envs, heap) /\ Len(ctl) \in 1 .. Len(ctl)
      /\ Top = ctl[Len(ctl)] /\ Front(ctl) = SubSeq(ctl, 1, Len(ctl) - 1)
      /\ Len(stack) \in Nat /\ Len(envs) \in Nat
  BY Here
<1>3. Keeps(f, stack, envs, stack', envs')
  BY <1>1, <1>2 DEF Keeps, Kept
<1>4. Frames(Append(SubSeq(ctl, 1, Len(ctl) - 1), f), stack', envs', heap')
  BY <1>1, <1>2, <1>3, GoesOn
<1> QED
  BY <1>2, <1>4 DEF IInv, Sound1, Sound

\* Only the first function is the main program.
LEMMA Outermost ==
    ASSUME NEW c, NEW i \in 1 .. Len(c), Len(c) \in Nat, NEW f, FrameOK(i, f), f.op # "main"
    PROVE  i > 1
<1>1. i # 1
  BY DEF FrameOK
<1> QED
  BY <1>1

\* The innermost function returns.
LEMMA Back ==
    ASSUME IInv, Sound1, Kept, Top.op # "main", ctl' = Front(ctl), Len(envs') = Top.envs,
           \/ Top.op \in Expr /\ Len(stack') = Top.base + 1
           \/ Top.op \notin Expr /\ Len(stack') = Top.base
    PROVE  IInv'
<1>1. /\ Frames(ctl, stack, envs, heap) /\ Len(ctl) \in 1 .. Len(ctl) /\ Len(ctl) \in Nat
      /\ Top = ctl[Len(ctl)] /\ FrameOK(Len(ctl), Top) /\ Top.base \in Nat
      /\ Len(stack) \in Nat /\ Len(envs) \in Nat
  BY Here
<1>2. Len(ctl) > 1
  BY <1>1, Outermost
<1>3. Keeps(ctl[Len(ctl)], stack, envs, stack', envs')
  BY <1>1 DEF Keeps, Kept
<1>4. Len(stack') = ctl[Len(ctl)].base + (IF ctl[Len(ctl)].op \in Expr THEN 1 ELSE 0)
  BY <1>1
<1>5. Frames(Front(ctl), stack', envs', heap')
  BY <1>1, <1>2, <1>3, <1>4, Returns
<1> QED
  BY <1>5 DEF IInv, Sound1

\* It goes on as f, which waits for an expression's value.
LEMMA Ask ==
    ASSUME IInv, NEW f, Continues(f), f.env = Top.env, Operand(f),
           Len(ctl) < MaxCtl, UNCHANGED <<heap, globals, envs, exc>>,
           stack' \in Seq(Value), Agree(stack, stack', Top.base), StackLive(heap, stack'),
           ctl' = Append(Append(Front(ctl), f), Begun(f.env, Len(stack'), Len(envs))),
           HeldFor(f, stack', envs, heap),
           Len(stack') = f.base + Own(f) - 1, Len(stack') < MaxStack,
           Len(envs) = f.envs + EnvOwn(f)
    PROVE  IInv'
<1>1. /\ f \in Function /\ FrameOK(Len(ctl), f)
      /\ f.base = ctl[Len(ctl)].base /\ f.envs = ctl[Len(ctl)].envs
      /\ InBody(ctl[Len(ctl)]) => InBody(f)
      /\ f.op \in Expr <=> ctl[Len(ctl)].op \in Expr
      /\ f.op \in Stmt <=> ctl[Len(ctl)].op \in Stmt
  BY ContinuesWell
<1>2. /\ Frames(ctl, stack, envs, heap) /\ Top = ctl[Len(ctl)] /\ Now
      /\ Len(stack) \in Nat /\ Len(envs) \in Nat /\ Top.envs \in Nat
      /\ Len(envs) = Top.envs + EnvOwn(Top)
  BY Here
<1>3. EnvsAgree(envs, envs, f.envs)
  <2>1. EnvOwn(Top) \in 0 .. 1
    BY Counts
  <2> QED
    BY <1>1, <1>2, <2>1 DEF EnvsAgree
<1>4. Keeps(f, stack, envs, stack', envs)
  BY <1>1, <1>2, <1>3 DEF Keeps
<1>5. Frames(Append(Append(Front(ctl), f), Begun(f.env, Len(stack'), Len(envs))), stack', envs, heap)
  BY <1>1, <1>2, <1>4, Asks
<1>6. Sound1
  BY <1>2 DEF Now, Sound1, Sound, Typed, RootsLive
<1> QED
  BY <1>5, <1>6 DEF IInv, Sound1

\* Neither the stack nor the environments change, and the heap becomes one where
\* the roots are live.
LEMMA HeapChanges ==
    ASSUME IInv, HeapOK(heap'), RootsLive(heap', globals, stack, envs, exc),
           UNCHANGED <<globals, stack, envs, exc>>
    PROVE  Sound1 /\ Kept
<1>1. /\ Now /\ stack \in Seq(Value) /\ envs \in Seq(Environment)
      /\ Len(stack) = Top.base + Own(Top) /\ Len(envs) = Top.envs + EnvOwn(Top)
      /\ Top.base \in Nat /\ Top.envs \in Nat
  BY Here
<1>2. Sound1
  BY <1>1 DEF Now, Sound1, Sound, Typed
<1>3. Own(Top) \in 0 .. 2 /\ EnvOwn(Top) \in 0 .. 1
  BY Counts
<1>4. Top.base <= Len(stack) /\ Top.envs <= Len(envs)
  BY <1>1, <1>3
<1>5. Agree(stack, stack, Top.base) /\ EnvsAgree(envs, envs, Top.envs)
  BY <1>4 DEF Agree, EnvsAgree
<1> QED
  BY <1>1, <1>2, <1>5 DEF Kept

\* A value is pushed.
LEMMA StackGrows ==
    ASSUME IInv, HeapOK(heap'), RootsLive(heap', globals, stack, envs, exc),
           NEW v \in Value, Alive(heap', v), stack' = Append(stack, v),
           UNCHANGED <<globals, envs, exc>>
    PROVE  /\ Sound1 /\ Kept /\ Len(stack') = Len(stack) + 1
           /\ stack'[Len(stack) + 1] = v
<1>1. /\ Now /\ stack \in Seq(Value) /\ envs \in Seq(Environment)
      /\ Len(stack) = Top.base + Own(Top) /\ Len(envs) = Top.envs + EnvOwn(Top)
      /\ Top.base \in Nat /\ Top.envs \in Nat /\ Len(stack) \in Nat
  BY Here
<1>2. StackLive(heap', stack)
  BY DEF RootsLive
<1>3. /\ stack' \in Seq(Value) /\ Len(stack') = Len(stack) + 1
      /\ StackLive(heap', stack') /\ Agree(stack, stack', Len(stack))
      /\ stack'[Len(stack) + 1] = v
  BY <1>1, <1>2, Pushes
<1>4. Sound1
  BY <1>1, <1>3 DEF Now, Sound1, Sound, Typed, RootsLive
<1>5. Own(Top) \in 0 .. 2 /\ EnvOwn(Top) \in 0 .. 1
  BY Counts
<1>6. Top.base <= Len(stack) /\ Top.envs <= Len(envs) /\ Len(stack) \in Int
  BY <1>1, <1>5
<1>7. Agree(stack, stack', Top.base) /\ EnvsAgree(envs, envs, Top.envs)
  <2>1. EnvsAgree(envs, envs, Top.envs)
    BY <1>6 DEF EnvsAgree
  <2>2. Len(stack') \in Nat /\ Top.base \in Int
    BY <1>1, <1>3
  <2> QED
    BY <1>1, <1>3, <1>6, <2>1, <2>2, AgreeLess
<1> QED
  BY <1>1, <1>3, <1>4, <1>7 DEF Kept

\* The innermost function pops a value of its own.
LEMMA StackShrinks ==
    ASSUME IInv, HeapOK(heap'), RootsLive(heap', globals, stack, envs, exc),
           Own(Top) # 0, stack' = Front(stack), UNCHANGED <<globals, envs, exc>>
    PROVE  /\ Sound1 /\ Kept /\ Len(stack') = Len(stack) - 1
           /\ Agree(stack, stack', Len(stack) - 1)
<1>1. /\ Now /\ stack \in Seq(Value) /\ envs \in Seq(Environment)
      /\ Len(stack) = Top.base + Own(Top) /\ Len(envs) = Top.envs + EnvOwn(Top)
      /\ Top.base \in Nat /\ Top.envs \in Nat /\ Len(stack) \in Nat
  BY Here
<1>2. StackLive(heap', stack)
  BY DEF RootsLive
<1>3. Own(Top) \in 0 .. 2 /\ EnvOwn(Top) \in 0 .. 1
  BY Counts
<1>4. Len(stack) # 0 /\ Top.base <= Len(stack) - 1 /\ Top.envs <= Len(envs)
  BY <1>1, <1>3
<1>5. /\ stack' \in Seq(Value) /\ Len(stack') = Len(stack) - 1
      /\ StackLive(heap', stack') /\ Agree(stack, stack', Len(stack) - 1)
  BY <1>1, <1>2, <1>4, Pops
<1>6. Sound1
  BY <1>1, <1>5 DEF Now, Sound1, Sound, Typed, RootsLive
<1>7. Agree(stack, stack', Top.base) /\ EnvsAgree(envs, envs, Top.envs)
  <2>1. EnvsAgree(envs, envs, Top.envs)
    BY <1>4 DEF EnvsAgree
  <2>2. Len(stack') \in Nat /\ Top.base \in Int /\ Len(stack) - 1 \in Int
    BY <1>1, <1>5
  <2> QED
    BY <1>1, <1>4, <1>5, <2>1, <2>2, AgreeLess
<1> QED
  BY <1>1, <1>5, <1>6, <1>7 DEF Kept

\* The heap does not change.
LEMMA HeapStays ==
    ASSUME IInv, UNCHANGED heap
    PROVE  HeapOK(heap') /\ RootsLive(heap', globals, stack, envs, exc)
  BY Here DEF Now, Sound

\* An object is allocated.
LEMMA HeapGrows ==
    ASSUME IInv, NEW k \in {"string", "box", "scope"}, NEW a \in Alloc(k, {})
    PROVE  /\ HeapOK(a.heap) /\ RootsLive(a.heap, globals, stack, envs, exc)
           /\ a.obj \in Value /\ a.obj \in Objs /\ Alive(a.heap, a.obj)
<1>1. Now
  BY Here
<1>2. /\ HeapOK(a.heap) /\ RootsLive(a.heap, globals, stack, envs, exc)
      /\ a.obj \in Objs /\ IsLive(a.heap, a.obj)
  BY <1>1, NewObject
<1> QED
  BY <1>2 DEF Value, Alive

\* A function with no values of its own returns the value it pushed.
LEMMA ReturnsPushed ==
    ASSUME IInv, HeapOK(heap'), RootsLive(heap', globals, stack, envs, exc),
           NEW v \in Value, Alive(heap', v), stack' = Append(stack, v),
           UNCHANGED <<globals, envs, exc>>, Return,
           Top.op \in Expr, None(Top), ~ Two(Top), Top.op # "call"
    PROVE  IInv'
<1>1. Own(Top) = 0 /\ EnvOwn(Top) = 0 /\ Top.op # "main"
  BY DEF Own, EnvOwn, Expr
<1>2. /\ Len(stack) = Top.base + Own(Top) /\ Len(envs) = Top.envs + EnvOwn(Top)
      /\ Top.base \in Nat /\ Top.envs \in Nat
  BY Here
<1>3. Sound1 /\ Kept /\ Len(stack') = Len(stack) + 1
  BY StackGrows
<1>4. Len(stack') = Top.base + 1 /\ Len(envs') = Top.envs
  BY <1>1, <1>2, <1>3
<1> QED
  BY <1>1, <1>3, <1>4, Back DEF Return

-----------------------------------------------------------------------------
(* Expressions without operands. *)

\* An expression that begins has no value of its own.
LEMMA AtStart ==
    ASSUME IInv, In("eval", "start")
    PROVE  Top.op \in Expr /\ None(Top) /\ ~ Two(Top) /\ Top.op # "call" /\ Top.op # "main"
  BY DEF In, Expr, None, Two

\* The boxes of a scope chain are objects.
LEMMA FramesAre ==
    ASSUME HeapOK(heap), NEW s
    PROVE  FramesOf(s) \subseteq Objs
<1> DEFINE outer(x) == {y \in heap[x].refs : heap[x].kind = "scope" /\ heap[y].kind = "scope"}
           H == [x \in Objs |-> [refs |-> outer(x)]]
           R == {s} \cap Objs
           chain == Marked(H, R)
<1>1. chain \subseteq Objs
  <2> HIDE DEF H, R
  <2> QED
    BY DEF Marked
<1>2. FramesOf(s) = {f \in UNION {heap[c].refs : c \in chain} : heap[f].kind = "box"}
  BY DEF FramesOf
<1> HIDE DEF chain
<1>3. \A c \in chain : heap[c].refs \subseteq Objs
  BY <1>1 DEF HeapOK, Object
<1> QED
  BY <1>2, <1>3

\* What a name refers to is alive.
LEMMA NamedLive ==
    ASSUME IInv, NEW e, NEW v \in Named(e)
    PROVE  v \in Value /\ Alive(heap, v)
<1>1. HeapOK(heap) /\ globals \subseteq Objs /\ \A o \in globals : IsLive(heap, o)
  BY Here DEF Now, Sound, Typed, RootsLive
<1> DEFINE local == UNION {heap[f].refs : f \in FramesOf(ScopeOf(e))}
           direct == local \cup globals
<1>2. FramesOf(ScopeOf(e)) \subseteq Objs
  BY <1>1, FramesAre
<1>3. \A o \in Objs : \A x \in heap[o].refs : x \in Objs /\ IsLive(heap, x)
  BY <1>1 DEF HeapOK, Object
<1>4. \A x \in direct : x \in Objs /\ IsLive(heap, x)
  BY <1>1, <1>2, <1>3
<1>5. v \in direct \/ \E o \in direct : v \in heap[o].refs
  BY DEF Named
<1> HIDE DEF direct
<1> QED
  BY <1>3, <1>4, <1>5 DEF Value, Alive

\* A value without an object: it is pushed.
LEMMA EvalPlainKeeps ==
    ASSUME IInv, EvalPlain
    PROVE  IInv'
<1>1. HeapOK(heap') /\ RootsLive(heap', globals, stack, envs, exc)
  BY HeapStays DEF EvalPlain
<1>2. Plain \in Value /\ Alive(heap', Plain)
  BY RootsAssumption DEF Value, Alive
<1>3. stack' = Append(stack, Plain) /\ UNCHANGED <<globals, envs, exc>> /\ Return
  BY DEF EvalPlain, Push
<1>4. Top.op \in Expr /\ None(Top) /\ ~ Two(Top) /\ Top.op # "call"
  BY AtStart DEF EvalPlain
<1> QED
  BY <1>1, <1>2, <1>3, <1>4, ReturnsPushed

\* eval_string_expression: the new string goes straight onto the stack.
LEMMA EvalStringKeeps ==
    ASSUME IInv, EvalString
    PROVE  IInv'
<1>1. PICK a \in Alloc("string", {}) : heap' = a.heap /\ stack' = Append(stack, a.obj)
  BY DEF EvalString, Push
<1>2. /\ HeapOK(heap') /\ RootsLive(heap', globals, stack, envs, exc)
      /\ a.obj \in Value /\ Alive(heap', a.obj)
  BY <1>1, HeapGrows
<1>3. UNCHANGED <<globals, envs, exc>> /\ Return
  BY DEF EvalString
<1>4. Top.op \in Expr /\ None(Top) /\ ~ Two(Top) /\ Top.op # "call"
  BY AtStart DEF EvalString, Evaluating
<1> QED
  BY <1>1, <1>2, <1>3, <1>4, ReturnsPushed

\* eval_identifier_expression and eval_member_expression push what a root leads to.
LEMMA EvalNamedKeeps ==
    ASSUME IInv, EvalNamed
    PROVE  IInv'
<1>1. HeapOK(heap') /\ RootsLive(heap', globals, stack, envs, exc) /\ heap' = heap
  BY HeapStays DEF EvalNamed
<1>2. PICK v \in Named(Top.env) : stack' = Append(stack, v)
  BY DEF EvalNamed, Push
<1>3. v \in Value /\ Alive(heap', v)
  BY <1>1, NamedLive
<1>4. UNCHANGED <<globals, envs, exc>> /\ Return
  BY DEF EvalNamed
<1>5. Top.op \in Expr /\ None(Top) /\ ~ Two(Top) /\ Top.op # "call"
  BY AtStart DEF EvalNamed
<1> QED
  BY <1>1, <1>2, <1>3, <1>4, <1>5, ReturnsPushed

\* The environment of the innermost function is on the chain.
LEMMA ScopeLive ==
    ASSUME IInv
    PROVE  ScopeOf(Top.env) \in Value /\ Alive(heap, ScopeOf(Top.env))
<1>1. CASE Top.env = 0
  BY <1>1, RootsAssumption DEF ScopeOf, Value, Alive
<1>2. CASE Top.env # 0
  <2>1. /\ Top \in Function /\ FrameOK(Len(ctl), Top) /\ Len(envs) = Top.envs + EnvOwn(Top)
        /\ envs \in Seq(Environment) /\ Len(envs) \in Nat /\ Now
    BY Here
  <2>2. Top.env \in Nat /\ Top.env <= Len(envs)
    BY <2>1, Fields DEF FrameOK
  <2>3. Top.env \in 1 .. Len(envs)
    BY <1>2, <2>1, <2>2
  <2>4. envs[Top.env] \in Environment
    BY <2>1, <2>3
  <2>5. EnvsLive(heap, envs)
    BY <2>1 DEF Now, Sound, RootsLive
  <2> QED
    BY <1>2, <2>3, <2>4, <2>5 DEF ScopeOf, Environment, EnvsLive
<1> QED
  BY <1>1, <1>2

\* eval_closure_expression keeps the scope chain of an environment.
LEMMA EvalClosureKeeps ==
    ASSUME IInv, EvalClosure
    PROVE  IInv'
<1>1. HeapOK(heap') /\ RootsLive(heap', globals, stack, envs, exc) /\ heap' = heap
  BY HeapStays DEF EvalClosure
<1>2. stack' = Append(stack, ScopeOf(Top.env))
  BY DEF EvalClosure, Push
<1>3. ScopeOf(Top.env) \in Value /\ Alive(heap', ScopeOf(Top.env))
  BY <1>1, ScopeLive
<1>4. UNCHANGED <<globals, envs, exc>> /\ Return
  BY DEF EvalClosure
<1>5. Top.op \in Expr /\ None(Top) /\ ~ Two(Top) /\ Top.op # "call"
  BY AtStart DEF EvalClosure, Evaluating
<1> QED
  BY <1>1, <1>2, <1>3, <1>4, <1>5, ReturnsPushed

\* eval_index_expression reads the array after the index was evaluated: if it is
\* there, so is what it refers to.
LEMMA IndexReadKeeps ==
    ASSUME IInv, IndexRead
    PROVE  IInv'
<1>1. HeapOK(heap') /\ RootsLive(heap', globals, stack, envs, exc) /\ heap' = heap
  BY HeapStays DEF IndexRead
<1>2. PICK v \in heap[Top.held].refs \cup {Plain} : stack' = Append(stack, v)
  BY DEF IndexRead, Push
<1>3. Top.held \in Objs /\ In("index", "read")
  BY DEF IndexRead, IsA
<1>4. v \in Value /\ Alive(heap', v)
  BY <1>1, <1>2, <1>3, RootsAssumption DEF HeapOK, Object, Value, Alive
<1>5. UNCHANGED <<globals, envs, exc>> /\ Return
  BY DEF IndexRead
<1>6. Top.op \in Expr /\ None(Top) /\ ~ Two(Top) /\ Top.op # "call"
  BY <1>3 DEF In, Expr, None, Two
<1> QED
  BY <1>1, <1>2, <1>4, <1>5, <1>6, ReturnsPushed

\* eval_array_slice_expression, if its array outlived the allocation.
LEMMA SliceShareKeeps ==
    ASSUME IInv, SliceShare
    PROVE  IInv'
<1>1. PICK a \in Alloc("box", heap[Top.held].refs) :
         /\ Top.held # a.obj /\ IsLive(a.heap, Top.held)
         /\ heap' = a.heap /\ stack' = Append(stack, a.obj)
  BY DEF SliceShare, Push
<1>2. Top.held \in Objs /\ In("slice", "share") /\ Now
  BY Here DEF SliceShare, IsA
<1>3. /\ HeapOK(heap') /\ RootsLive(heap', globals, stack, envs, exc)
      /\ a.obj \in Objs /\ IsLive(heap', a.obj)
  BY <1>1, <1>2, NewSlice
<1>4. a.obj \in Value /\ Alive(heap', a.obj)
  BY <1>3 DEF Value, Alive
<1>5. UNCHANGED <<globals, envs, exc>> /\ Return
  BY DEF SliceShare
<1>6. Top.op \in Expr /\ None(Top) /\ ~ Two(Top) /\ Top.op # "call"
  BY <1>2 DEF In, Expr, None, Two
<1> QED
  BY <1>1, <1>3, <1>4, <1>5, <1>6, ReturnsPushed

\* eval_sub_string_value needs nothing of the string after the allocation.
LEMMA SubStringKeeps ==
    ASSUME IInv, SubString
    PROVE  IInv'
<1>1. PICK a \in Alloc("string", {}) : heap' = a.heap /\ stack' = Append(stack, a.obj)
  BY DEF SubString, Push
<1>2. /\ HeapOK(heap') /\ RootsLive(heap', globals, stack, envs, exc)
      /\ a.obj \in Value /\ Alive(heap', a.obj)
  BY <1>1, HeapGrows
<1>3. UNCHANGED <<globals, envs, exc>> /\ Return /\ (In("index", "read") \/ In("slice", "share"))
  BY DEF SubString
<1>4. Top.op \in Expr /\ None(Top) /\ ~ Two(Top) /\ Top.op # "call"
  BY <1>3 DEF In, Expr, None, Two
<1> QED
  BY <1>1, <1>2, <1>3, <1>4, ReturnsPushed

-----------------------------------------------------------------------------
(* Expressions that evaluate another one. *)

\* A function that runs no list goes on.
LEMMA GoesFurther ==
    ASSUME IInv, ~ List(Top), NEW f, NEW o, NEW p, NEW v,
           Is(f, Top, o, p, v, Top.run, Top.env),
           o = Top.op \/ (Top.op = "eval" /\ o \in Expr),
           o # "call" \/ p # "environment" \/ Top.op = "eval",
           o = "call" /\ Top.op = "eval" => Top.envs < MaxEnvs
    PROVE  Continues(f)
<1>1. ~ Top.run
  BY Here DEF FrameOK
<1>2. ~ InBody(Top)
  BY DEF InBody, List
<1> QED
  BY <1>1, <1>2 DEF Continues, Is

\* It waits for one value more than it has.
LEMMA AsksOneMore ==
    ASSUME IInv, NEW f, Continues(f), f.env = Top.env, Operand(f), Evaluates(f),
           UNCHANGED <<heap, globals, stack, envs, exc>>,
           HeldFor(f, stack, envs, heap), Own(f) = Own(Top) + 1, EnvOwn(f) = EnvOwn(Top)
    PROVE  IInv'
<1>1. /\ stack \in Seq(Value) /\ Len(stack) = Top.base + Own(Top)
      /\ Len(envs) = Top.envs + EnvOwn(Top) /\ Now
      /\ Top.base \in Nat /\ Top.envs \in Nat
  BY Here
<1>2. f.base = Top.base /\ f.envs = Top.envs /\ Own(Top) \in 0 .. 2
  BY Counts DEF Continues
<1>3. Len(stack) = f.base + Own(f) - 1 /\ Len(envs) = f.envs + EnvOwn(f)
  BY <1>1, <1>2
<1>4. StackLive(heap, stack)
  BY <1>1 DEF Now, Sound, RootsLive
<1>5. Agree(stack, stack, Top.base)
  <2>1. Top.base <= Len(stack)
    BY <1>1, <1>2
  <2> QED
    BY <2>1 DEF Agree
<1>6. /\ Len(stack) < MaxStack /\ Len(ctl) < MaxCtl
      /\ ctl' = Append(Append(Front(ctl), f), Begun(f.env, Len(stack), Len(envs)))
  BY DEF Evaluates, Func, Begun
<1>7. stack' = stack /\ UNCHANGED <<heap, globals, envs, exc>>
  OBVIOUS
<1>8. /\ stack' \in Seq(Value) /\ Agree(stack, stack', Top.base) /\ StackLive(heap, stack')
      /\ ctl' = Append(Append(Front(ctl), f), Begun(f.env, Len(stack'), Len(envs)))
      /\ HeldFor(f, stack', envs, heap)
      /\ Len(stack') = f.base + Own(f) - 1 /\ Len(stack') < MaxStack
  BY <1>1, <1>3, <1>4, <1>5, <1>6, <1>7
<1> QED
  BY <1>3, <1>6, <1>7, <1>8, Ask

\* A literal's next element is evaluated above the literal.
LEMMA LiteralElementKeeps ==
    ASSUME IInv, LiteralElement
    PROVE  IInv'
<1> DEFINE f == [Top EXCEPT !.at = "store"]
<1>1. Top \in Function /\ HeldFor(Top, stack, envs, heap)
  BY Here
<1>2. /\ Top.op \in {"array", "assoc"} /\ Top.at = "elements"
      /\ Evaluates(f) /\ UNCHANGED <<heap, globals, stack, envs, exc>>
  BY DEF LiteralElement, In
<1>3. "store" \in Point
  BY DEF Point
<1>4. Is(f, Top, Top.op, "store", Top.held, Top.run, Top.env)
  BY <1>1, <1>3, MovesTo
<1> HIDE DEF f
<1>5. ~ List(Top) /\ Own(Top) = 1 /\ EnvOwn(Top) = 0
  BY <1>2 DEF List, Own, Two, None, EnvOwn
<1>6. Own(f) = 2 /\ EnvOwn(f) = 0 /\ Operand(f)
  BY <1>2, <1>4 DEF Is, Own, Two, EnvOwn, Operand
<1>7. Continues(f) /\ f.env = Top.env
  BY <1>2, <1>4, <1>5, GoesFurther DEF Is
<1>8. HeldFor(f, stack, envs, heap)
  BY <1>1, <1>2, <1>4 DEF HeldFor, Is
<1> QED
  BY <1>2, <1>5, <1>6, <1>7, <1>8, AsksOneMore

\* An expression that begins becomes the operator op, at `at`, which evaluates
\* its first operand.
LEMMA FirstOperand ==
    ASSUME IInv, In("eval", "start"), NEW o \in Operation, NEW p \in Point,
           Evaluates([Top EXCEPT !.op = o, !.at = p]),
           UNCHANGED <<heap, globals, stack, envs, exc>>,
           \/ o \in {"add", "concat"} /\ p = "left"
           \/ o \in {"index", "slice"} /\ p = "array"
           \/ o \in {"variable", "member", "element"} /\ p = "operand"
           \/ o = "call" /\ p = "environment" /\ Len(envs) < MaxEnvs
    PROVE  IInv'
<1> DEFINE f == [Top EXCEPT !.op = o, !.at = p]
<1>1. Top \in Function /\ HeldFor(Top, stack, envs, heap)
  BY Here
<1>2. Top.op = "eval" /\ Top.at = "start" /\ Evaluates(f)
  BY DEF In
<1>3. Is(f, Top, o, p, Top.held, Top.run, Top.env)
  BY <1>1, Becomes
<1> HIDE DEF f
<1>4. ~ List(Top) /\ Own(Top) = 0 /\ EnvOwn(Top) = 0
  BY <1>2 DEF List, Own, Two, None, EnvOwn
<1>5. Own(f) = 1 /\ EnvOwn(f) = 0 /\ Operand(f)
  BY <1>3 DEF Is, Own, Two, None, EnvOwn, Operand
<1>6. o \in Expr
  BY DEF Expr
<1>7. Continues(f) /\ f.env = Top.env
  <2>1. o = "call" => Top.envs < MaxEnvs
    <3>1. Len(envs) = Top.envs + EnvOwn(Top) /\ Top.envs \in Nat
      BY Here
    <3>2. Len(envs) = Top.envs
      BY <1>4, <3>1
    <3> QED
      BY <3>2
  <2> QED
    BY <1>2, <1>3, <1>4, <1>6, <2>1, GoesFurther DEF Is
<1>8. Top.held = Plain /\ ~ Top.run
  BY <1>1, <1>2, <1>4, Here DEF HeldFor, Unrooted, FrameOK
<1>9. HeldFor(f, stack, envs, heap)
  BY <1>3, <1>8 DEF HeldFor, Is, Unrooted
<1> QED
  BY <1>2, <1>4, <1>5, <1>7, <1>9, AsksOneMore

\* The expressions that evaluate their first operand.
LEMMA FirstOperandsKeep ==
    ASSUME IInv, BinaryLeft \/ IndexArray \/ AssignOperand \/ CallFunction
    PROVE  IInv'
<1>1. /\ {"add", "concat", "index", "slice", "variable", "member", "element", "call"} \subseteq Operation
      /\ {"left", "array", "operand", "environment"} \subseteq Point
  BY DEF Operation, Point
<1>2. CASE BinaryLeft
  BY <1>1, <1>2, FirstOperand DEF BinaryLeft, Evaluating
<1>3. CASE IndexArray
  BY <1>1, <1>3, FirstOperand DEF IndexArray, Evaluating
<1>4. CASE AssignOperand
  BY <1>1, <1>4, FirstOperand DEF AssignOperand, Evaluating
<1>5. CASE CallFunction
  BY <1>1, <1>5, FirstOperand DEF CallFunction, Evaluating
<1> QED
  BY <1>2, <1>3, <1>4, <1>5

\* An operator with one value of its own evaluates its second operand.
LEMMA SecondOperand ==
    ASSUME IInv, NEW p \in Point, Evaluates([Top EXCEPT !.at = p]),
           UNCHANGED <<heap, globals, stack, envs, exc>>,
           \/ Top.op \in {"add", "concat"} /\ Top.at = "left" /\ p \in {"chain", "convert"}
           \/ Top.op \in {"member", "element"} /\ Top.at = "operand" /\ p = "array"
           \/ Top.op = "call" /\ Top.at = "arguments" /\ p = "bind"
    PROVE  IInv'
<1> DEFINE f == [Top EXCEPT !.at = p]
<1>1. Top \in Function /\ HeldFor(Top, stack, envs, heap)
  BY Here
<1>2. Is(f, Top, Top.op, p, Top.held, Top.run, Top.env) /\ Evaluates(f)
  BY <1>1, MovesTo
<1> HIDE DEF f
<1>3. ~ List(Top) /\ Own(Top) = 1
  BY DEF List, Own, Two, None
<1>4. Own(f) = 2 /\ EnvOwn(f) = EnvOwn(Top) /\ Operand(f)
  BY <1>2 DEF Is, Own, Two, None, EnvOwn, Operand
<1>5. Continues(f) /\ f.env = Top.env
  BY <1>2, <1>3, GoesFurther DEF Is
<1>6. ~ Top.run
  BY <1>3, Here DEF FrameOK
<1>7. HeldFor(f, stack, envs, heap)
  BY <1>1, <1>2, <1>6 DEF HeldFor, Is, Unrooted
<1> QED
  BY <1>2, <1>3, <1>4, <1>5, <1>7, AsksOneMore

\* The expressions that evaluate their second operand above the first.
LEMMA SecondOperandsKeep ==
    ASSUME IInv, BinaryRight \/ AssignTarget \/ CallArgument
    PROVE  IInv'
<1>1. {"chain", "convert", "array", "bind"} \subseteq Point
  BY DEF Point
<1>2. CASE BinaryRight
  <2> DEFINE p == IF Top.op = "add" THEN "chain" ELSE "convert"
  <2>1. p \in {"chain", "convert"} /\ p \in Point
    BY <1>1
  <2>2. Evaluates([Top EXCEPT !.at = p]) /\ UNCHANGED <<heap, globals, stack, envs, exc>>
        /\ Top.op \in {"add", "concat"} /\ Top.at = "left"
    BY <1>2 DEF BinaryRight, In
  <2> HIDE DEF p
  <2> QED
    BY <2>1, <2>2, SecondOperand
<1>3. CASE AssignTarget
  BY <1>1, <1>3, SecondOperand DEF AssignTarget, In
<1>4. CASE CallArgument
  BY <1>1, <1>4, SecondOperand DEF CallArgument, In
<1> QED
  BY <1>2, <1>3, <1>4

\* The array is popped, and held while the index is evaluated.
LEMMA IndexOperandKeeps ==
    ASSUME IInv, IndexOperand
    PROVE  IInv'
<1> DEFINE f == [Top EXCEPT !.at = "index", !.held = TopValue]
           g == [Func("eval", "start", Top.env) EXCEPT !.base = Len(stack) - 1]
<1>1. /\ Top \in Function /\ HeldFor(Top, stack, envs, heap) /\ Now
      /\ Len(stack) = Top.base + Own(Top) /\ Len(stack) <= MaxStack
      /\ Len(envs) = Top.envs + EnvOwn(Top) /\ stack \in Seq(Value)
      /\ Top.base \in Nat /\ Top.envs \in Nat /\ Len(stack) \in Nat /\ MaxStack \in Nat
  BY Here
<1>2. /\ Top.op \in {"index", "slice", "element"} /\ Top.at = "array"
      /\ stack' = Front(stack) /\ Len(ctl) < MaxCtl
      /\ ctl' = Append(Append(Front(ctl), f), g) /\ UNCHANGED <<heap, globals, envs, exc>>
  BY DEF IndexOperand, In
<1>3. ~ List(Top) /\ Own(Top) \in 1 .. 2 /\ EnvOwn(Top) = 0
      /\ (Top.op = "element" <=> Own(Top) = 2)
  BY <1>2 DEF List, Own, Two, None, EnvOwn
<1>4. HeapOK(heap') /\ RootsLive(heap', globals, stack, envs, exc)
  BY <1>2, HeapStays
<1>5. Own(Top) # 0
  BY <1>3
<1>6. Sound1 /\ Kept /\ Len(stack') = Len(stack) - 1
  BY <1>2, <1>4, <1>5, StackShrinks
<1>7. Len(stack) # 0
  BY <1>1, <1>3
<1>8. TopValue \in Value
  BY <1>1, <1>7, Ends DEF TopValue
<1>9. "index" \in Point
  BY DEF Point
<1>10. Is(f, Top, Top.op, "index", TopValue, Top.run, Top.env)
  BY <1>1, <1>8, <1>9, MovesHolding
<1>11. g = Begun(Top.env, Len(stack'), Len(envs))
  <2> DEFINE q == Len(stack) - 1
  <2>1. [Func("eval", "start", Top.env) EXCEPT !.base = q] = Begun(Top.env, q, Len(envs))
    <3>1. Func("eval", "start", Top.env) = Begun(Top.env, Len(stack), Len(envs))
      BY DEF Func, Begun
    <3> HIDE DEF q
    <3> QED
      BY <3>1, Lower
  <2> QED
    BY <1>6, <2>1
<1> HIDE DEF f, g
<1>12. Own(f) = Own(Top) /\ EnvOwn(f) = 0 /\ Operand(f) /\ f.base = Top.base /\ f.envs = Top.envs
  BY <1>2, <1>10 DEF Is, Own, Two, None, EnvOwn, Operand
<1>13. Continues(f) /\ f.env = Top.env
  BY <1>2, <1>3, <1>10, GoesFurther DEF Is
<1>14. ~ Top.run
  BY <1>3, Here DEF FrameOK
<1>15. HeldFor(f, stack', envs, heap)
  BY <1>2, <1>10 DEF HeldFor, Is, Unrooted
<1>16. Len(stack') = f.base + Own(f) - 1 /\ Len(stack') < MaxStack /\ Len(envs) = f.envs + EnvOwn(f)
  BY <1>1, <1>3, <1>6, <1>12
<1>17. /\ stack' \in Seq(Value) /\ Agree(stack, stack', Top.base) /\ StackLive(heap, stack')
       /\ ctl' = Append(Append(Front(ctl), f), Begun(f.env, Len(stack'), Len(envs)))
  BY <1>2, <1>6, <1>11, <1>13 DEF Kept, Sound1, Sound, RootsLive
<1> QED
  BY <1>2, <1>12, <1>13, <1>15, <1>16, <1>17, Ask

-----------------------------------------------------------------------------
(* Expressions that have evaluated their operands. *)

\* The last two values of the stack.
LEMMA TopValues ==
    ASSUME IInv, Own(Top) # 0
    PROVE  /\ Len(stack) \in 1 .. Len(stack) /\ TopValue = stack[Len(stack)]
           /\ TopValue \in Value /\ Alive(heap, TopValue)
           /\ Own(Top) = 2 => Len(stack) - 1 \in 1 .. Len(stack)
<1>1. /\ stack \in Seq(Value) /\ Len(stack) = Top.base + Own(Top) /\ Now
      /\ Top.base \in Nat /\ Len(stack) \in Nat
  BY Here
<1>2. Own(Top) \in 0 .. 2
  BY Counts
<1>3. Len(stack) # 0 /\ Len(stack) \in 1 .. Len(stack)
  BY <1>1, <1>2
<1>4. Own(Top) = 2 => Len(stack) - 1 \in 1 .. Len(stack)
  BY <1>1
<1>5. StackLive(heap, stack)
  BY <1>1 DEF Now, Sound, RootsLive
<1> QED
  BY <1>1, <1>3, <1>4, <1>5, Pops DEF TopValue

\* A value of the stack is stored in a box, at once
LEMMA HeapStores ==
    ASSUME IInv, NEW v \in Value, Alive(heap, v), NEW o, NEW g \in Stored(heap, o, v)
    PROVE  HeapOK(g) /\ RootsLive(g, globals, stack, envs, exc)
<1>1. HeapOK(heap) /\ Typed(globals, stack, envs, exc) /\ RootsLive(heap, globals, stack, envs, exc)
  BY Here DEF Now, Sound
<1>2. v \in Objs => IsLive(heap, v)
  BY DEF Alive
<1>3. HeapOK(g) /\ \A x \in Objs : IsLive(heap, x) => IsLive(g, x)
  BY <1>1, <1>2, StoresValue
<1> QED
  BY <1>1, <1>3, RootsStay

\* or after a collection.
LEMMA HeapStoresMember ==
    ASSUME IInv, Own(Top) # 0, NEW o, NEW g \in MemberStored(o, TopValue)
    PROVE  HeapOK(g) /\ RootsLive(g, globals, stack, envs, exc)
<1>1. Len(stack) \in 1 .. Len(stack) /\ TopValue = stack[Len(stack)] /\ Now
  BY Here, TopValues
<1> QED
  BY <1>1, NewMember

\* A function whose value is the one on the stack returns.
LEMMA ReturnsTop ==
    ASSUME IInv, HeapOK(heap'), RootsLive(heap', globals, stack, envs, exc),
           UNCHANGED <<globals, stack, envs, exc>>, Return,
           Top.op \in Expr, Own(Top) = 1, Top.op # "call"
    PROVE  IInv'
<1>1. EnvOwn(Top) = 0 /\ Top.op # "main"
  BY DEF EnvOwn, Expr
<1>2. /\ Len(stack) = Top.base + Own(Top) /\ Len(envs) = Top.envs + EnvOwn(Top)
      /\ Top.base \in Nat /\ Top.envs \in Nat
  BY Here
<1>3. Sound1 /\ Kept
  BY HeapChanges
<1>4. Len(stack') = Top.base + 1 /\ Len(envs') = Top.envs
  BY <1>1, <1>2
<1> QED
  BY <1>1, <1>3, <1>4, Back DEF Return

\* A new array or associative array is on the stack, where the literal's
\* variable finds it.
LEMMA LiteralNewKeeps ==
    ASSUME IInv, LiteralNew
    PROVE  IInv'
<1>1. PICK o \in {"array", "assoc"} :
         /\ In("eval", "start")
         /\ \E a \in Alloc("box", {}) :
              /\ heap' = a.heap /\ stack' = Append(stack, a.obj)
              /\ ctl' = Append(Front(ctl), [Top EXCEPT !.op = o, !.at = "elements", !.held = a.obj])
              /\ Len(stack) < MaxStack
  BY DEF LiteralNew, Evaluating, Push, Goto
<1>2. PICK a \in Alloc("box", {}) :
         /\ heap' = a.heap /\ stack' = Append(stack, a.obj)
         /\ ctl' = Append(Front(ctl), [Top EXCEPT !.op = o, !.at = "elements", !.held = a.obj])
         /\ Len(stack) < MaxStack
  BY <1>1
<1> DEFINE v == a.obj
           f == [Top EXCEPT !.op = o, !.at = "elements", !.held = v]
<1>3. /\ HeapOK(heap') /\ RootsLive(heap', globals, stack, envs, exc)
      /\ v \in Value /\ Alive(heap', v)
  BY <1>2, HeapGrows
<1>4. ctl' = Append(Front(ctl), f) /\ stack' = Append(stack, v) /\ UNCHANGED <<globals, envs, exc>>
  BY <1>2 DEF LiteralNew
<1> HIDE DEF v
<1>5. /\ Top \in Function /\ Len(stack) = Top.base + Own(Top) /\ Len(stack) \in Nat
      /\ Len(envs) = Top.envs + EnvOwn(Top) /\ Len(envs) <= MaxEnvs
      /\ Top.base \in Nat /\ Top.envs \in Nat /\ MaxStack \in Nat
  BY Here
<1>6. o \in Operation /\ "elements" \in Point /\ o \in Expr
  BY DEF Operation, Point, Expr
<1>7. Is(f, Top, o, "elements", v, Top.run, Top.env)
  BY <1>3, <1>5, <1>6, BecomesHolding
<1> HIDE DEF f
<1>8. ~ List(Top) /\ Own(Top) = 0 /\ EnvOwn(Top) = 0 /\ Top.op = "eval"
  BY <1>1 DEF In, List, Own, Two, None, EnvOwn
<1>9. Own(f) = 1 /\ EnvOwn(f) = 0
  BY <1>7 DEF Is, Own, Two, None, EnvOwn
<1>10. Continues(f)
  BY <1>6, <1>7, <1>8, GoesFurther
<1>11. Sound1 /\ Kept /\ Len(stack') = Len(stack) + 1 /\ stack'[Len(stack) + 1] = v
  BY <1>3, <1>4, StackGrows
<1>12. Len(stack) < MaxStack
  BY <1>2
<1>13. /\ Len(stack') = f.base + Own(f) /\ Len(stack') <= MaxStack
       /\ Len(envs') = f.envs + EnvOwn(f) /\ Len(envs') <= MaxEnvs
       /\ f.base < Len(stack') /\ f.base + 1 = Len(stack) + 1
  BY <1>4, <1>5, <1>7, <1>8, <1>9, <1>11, <1>12 DEF Is
<1>14. HeldFor(f, stack', envs', heap')
  BY <1>7, <1>11, <1>13 DEF HeldFor, Is
<1> QED
  BY <1>4, <1>10, <1>11, <1>13, <1>14, GoOn

\* The element's value leaves the stack for the literal, which stays on it.
LEMMA LiteralStoreKeeps ==
    ASSUME IInv, ArrayStore \/ AssocStore
    PROVE  IInv'
<1> DEFINE f == [Top EXCEPT !.at = "elements"]
<1>1. /\ Top.op \in {"array", "assoc"} /\ Top.at = "store" /\ stack' = Front(stack)
      /\ ctl' = Append(Front(ctl), f) /\ UNCHANGED <<globals, envs, exc>>
  BY DEF ArrayStore, AssocStore, In, Goto
<1>2. Own(Top) = 2 /\ EnvOwn(Top) = 0 /\ ~ List(Top)
  BY <1>1 DEF Own, Two, EnvOwn, List
<1>3. HeapOK(heap') /\ RootsLive(heap', globals, stack, envs, exc)
  <2>1. TopValue \in Value /\ Alive(heap, TopValue)
    BY <1>2, TopValues
  <2>2. CASE ArrayStore
    BY <2>1, <2>2, HeapStores DEF ArrayStore
  <2>3. CASE AssocStore
    BY <1>2, <2>3, HeapStoresMember DEF AssocStore
  <2> QED
    BY <2>2, <2>3
<1>4. /\ Top \in Function /\ Len(stack) = Top.base + Own(Top) /\ Len(stack) \in Nat
      /\ Len(envs) = Top.envs + EnvOwn(Top) /\ Len(envs) <= MaxEnvs /\ Len(stack) <= MaxStack
      /\ Top.base \in Nat /\ Top.envs \in Nat /\ MaxStack \in Nat
      /\ HeldFor(Top, stack, envs, heap)
  BY Here
<1>5. "elements" \in Point
  BY DEF Point
<1>6. Is(f, Top, Top.op, "elements", Top.held, Top.run, Top.env)
  BY <1>4, <1>5, MovesTo
<1> HIDE DEF f
<1>7. Own(f) = 1 /\ EnvOwn(f) = 0
  BY <1>1, <1>6 DEF Is, Own, Two, None, EnvOwn
<1>8. Continues(f)
  BY <1>1, <1>2, <1>6, GoesFurther
<1>9. Sound1 /\ Kept /\ Len(stack') = Len(stack) - 1 /\ Agree(stack, stack', Len(stack) - 1)
  BY <1>1, <1>2, <1>3, StackShrinks
<1>10. /\ Len(stack') = f.base + Own(f) /\ Len(stack') <= MaxStack
       /\ Len(envs') = f.envs + EnvOwn(f) /\ Len(envs') <= MaxEnvs
       /\ f.base < Len(stack') /\ f.base + 1 \in 1 .. Len(stack) - 1
  BY <1>1, <1>2, <1>4, <1>6, <1>7, <1>9 DEF Is
<1>11. stack[f.base + 1] = f.held
  BY <1>1, <1>4, <1>6 DEF HeldFor, Is
<1>12. HeldFor(f, stack', envs', heap')
  BY <1>1, <1>6, <1>9, <1>10, <1>11 DEF HeldFor, Is, Agree
<1> QED
  BY <1>1, <1>8, <1>9, <1>10, <1>12, GoOn

\* A literal that is complete is the expression's value.
LEMMA LiteralEndKeeps ==
    ASSUME IInv, LiteralEnd
    PROVE  IInv'
<1>1. Top.op \in {"array", "assoc"} /\ Top.at = "elements" /\ Return
      /\ UNCHANGED <<globals, stack, envs, exc>>
  BY DEF LiteralEnd, In
<1>2. Top.op \in Expr /\ Own(Top) = 1 /\ Top.op # "call"
  BY <1>1 DEF Expr, Own, Two, None
<1>3. HeapOK(heap') /\ RootsLive(heap', globals, stack, envs, exc)
  BY HeapStays DEF LiteralEnd
<1> QED
  BY <1>1, <1>2, <1>3, ReturnsTop

\* A function goes on with the values it has.
LEMMA GoesOnHere ==
    ASSUME IInv, HeapOK(heap'), RootsLive(heap', globals, stack, envs, exc),
           UNCHANGED <<globals, stack, envs, exc>>,
           NEW f, Continues(f), ctl' = Append(Front(ctl), f),
           Own(f) = Own(Top), EnvOwn(f) = EnvOwn(Top), HeldFor(f, stack, envs, heap')
    PROVE  IInv'
<1>1. /\ Len(stack) = Top.base + Own(Top) /\ Len(stack) <= MaxStack
      /\ Len(envs) = Top.envs + EnvOwn(Top) /\ Len(envs) <= MaxEnvs
  BY Here
<1>2. Sound1 /\ Kept
  BY HeapChanges
<1>3. f.base = Top.base /\ f.envs = Top.envs
  BY DEF Continues
<1>4. /\ HeldFor(f, stack', envs', heap')
      /\ Len(stack') = f.base + Own(f) /\ Len(stack') <= MaxStack
      /\ Len(envs') = f.envs + EnvOwn(f) /\ Len(envs') <= MaxEnvs
  BY <1>1, <1>3
<1> QED
  BY <1>2, <1>4, GoOn

\* The left operand's string is held by a variable alone; both operands stay.
LEMMA ConcatConvertKeeps ==
    ASSUME IInv, ConcatConvert
    PROVE  IInv'
<1>1. PICK a \in Alloc("string", {}) : heap' = a.heap
         /\ ctl' = Append(Front(ctl), [Top EXCEPT !.at = "chain", !.held = a.obj])
  BY DEF ConcatConvert, Goto
<1> DEFINE v == a.obj
           f == [Top EXCEPT !.at = "chain", !.held = v]
<1>2. /\ HeapOK(heap') /\ RootsLive(heap', globals, stack, envs, exc) /\ v \in Value
  BY <1>1, HeapGrows
<1>3. /\ ctl' = Append(Front(ctl), f) /\ UNCHANGED <<globals, stack, envs, exc>>
      /\ Top.op = "concat" /\ Top.at = "convert" /\ Top \in Function
  BY <1>1, Here DEF ConcatConvert, In
<1>4. "chain" \in Point
  BY DEF Point
<1> HIDE DEF v
<1>5. Is(f, Top, Top.op, "chain", v, Top.run, Top.env)
  BY <1>2, <1>3, <1>4, MovesHolding
<1> HIDE DEF f
<1>6. ~ List(Top) /\ Own(f) = Own(Top) /\ EnvOwn(f) = EnvOwn(Top)
  BY <1>3, <1>5 DEF Is, List, Own, Two, EnvOwn
<1>7. Continues(f)
  BY <1>3, <1>5, <1>6, GoesFurther
<1>8. HeldFor(f, stack, envs, heap')
  BY <1>3, <1>5 DEF HeldFor, Is, Unrooted
<1> QED
  BY <1>2, <1>3, <1>6, <1>7, <1>8, GoesOnHere

\* The right operand's string, with both operands on the stack.
LEMMA ChainRightKeeps ==
    ASSUME IInv, ChainRight
    PROVE  IInv'
<1> DEFINE f == [Top EXCEPT !.at = "joined"]
<1>1. PICK a \in Alloc("string", {}) : heap' = a.heap
  BY DEF ChainRight
<1>2. HeapOK(heap') /\ RootsLive(heap', globals, stack, envs, exc)
  BY <1>1, HeapGrows
<1>3. /\ ctl' = Append(Front(ctl), f) /\ UNCHANGED <<globals, stack, envs, exc>>
      /\ Top.op \in {"add", "concat"} /\ Top.at = "chain"
      /\ Top \in Function /\ HeldFor(Top, stack, envs, heap)
  BY Here DEF ChainRight, In, Goto
<1>4. "joined" \in Point
  BY DEF Point
<1>5. Is(f, Top, Top.op, "joined", Top.held, Top.run, Top.env)
  BY <1>3, <1>4, MovesTo
<1> HIDE DEF f
<1>6. ~ List(Top) /\ Own(f) = Own(Top) /\ EnvOwn(f) = EnvOwn(Top)
  BY <1>3, <1>5 DEF Is, List, Own, Two, EnvOwn
<1>7. Continues(f)
  BY <1>3, <1>5, <1>6, GoesFurther
<1>8. HeldFor(f, stack, envs, heap')
  BY <1>3, <1>5 DEF HeldFor, Is, Unrooted
<1> QED
  BY <1>2, <1>3, <1>6, <1>7, <1>8, GoesOnHere

\* The new string takes the place of both operands.
LEMMA ChainResultKeeps ==
    ASSUME IInv, ChainResult
    PROVE  IInv'
<1>1. PICK a \in Alloc("string", {}) :
         heap' = a.heap /\ stack' = Append(SubSeq(stack, 1, Len(stack) - 2), a.obj)
  BY DEF ChainResult
<1>2. /\ Top.op \in {"add", "concat"} /\ Top.at = "joined" /\ Return
      /\ UNCHANGED <<globals, envs, exc>>
  BY DEF ChainResult, In
<1>3. /\ HeapOK(heap') /\ RootsLive(heap', globals, stack, envs, exc)
      /\ a.obj \in Value /\ Alive(heap', a.obj)
  BY <1>1, HeapGrows
<1>4. /\ stack \in Seq(Value) /\ envs \in Seq(Environment)
      /\ Len(stack) = Top.base + Own(Top) /\ Len(stack) \in Nat
      /\ Len(envs) = Top.envs + EnvOwn(Top) /\ Top.base \in Nat /\ Top.envs \in Nat /\ Now
  BY Here
<1>5. Top.op \in Expr /\ Own(Top) = 2 /\ EnvOwn(Top) = 0 /\ Top.op # "main"
  BY <1>2 DEF Expr, Own, Two, EnvOwn
<1> DEFINE n == Len(stack) - 2
           v == a.obj
           s == stack'
           h == heap'
<1>6. n \in 0 .. Len(stack) /\ n = Top.base /\ s = Leaving(stack, n, v)
      /\ v \in Value /\ Alive(h, v) /\ StackLive(h, stack)
  BY <1>1, <1>3, <1>4, <1>5 DEF RootsLive, Leaving
<1> HIDE DEF n, v, s, h
<1>7. s \in Seq(Value) /\ Len(s) = n + 1 /\ StackLive(h, s) /\ Agree(stack, s, n)
  <2>1. stack \in Seq(Value)
    BY <1>4
  <2>2. n \in 0 .. Len(stack) /\ s = Leaving(stack, n, v)
        /\ v \in Value /\ Alive(h, v) /\ StackLive(h, stack)
    BY <1>6
  <2> QED
    BY <2>1, <2>2, Leaves
<1>8. Sound1
  BY <1>2, <1>3, <1>4, <1>7 DEF Now, Sound1, Sound, Typed, RootsLive, s, h
<1>9. EnvsAgree(envs, envs, Top.envs) /\ Len(envs) = Top.envs
  BY <1>4, <1>5 DEF EnvsAgree
<1>10. Kept
  BY <1>2, <1>4, <1>6, <1>7, <1>9 DEF Kept, s
<1>11. Len(stack') = Top.base + 1 /\ Len(envs') = Top.envs
  BY <1>2, <1>6, <1>7, <1>9 DEF s
<1> QED
  BY <1>2, <1>5, <1>8, <1>10, <1>11, Back DEF Return

\* The index leaves the stack.
LEMMA IndexPoppedKeeps ==
    ASSUME IInv, IndexPopped
    PROVE  IInv'
<1> DEFINE p == IF Top.op = "slice" THEN "share" ELSE "read"
           f == [Top EXCEPT !.at = p]
<1>1. /\ Top.op \in {"index", "slice", "element"} /\ Top.at = "index" /\ stack' = Front(stack)
      /\ ctl' = Append(Front(ctl), f) /\ UNCHANGED <<heap, globals, envs, exc>>
  BY DEF IndexPopped, In, Goto
<1>2. /\ ~ List(Top) /\ EnvOwn(Top) = 0
      /\ Own(Top) = IF Top.op = "element" THEN 2 ELSE 1
  BY <1>1 DEF Own, Two, None, EnvOwn, List
<1>3. HeapOK(heap') /\ RootsLive(heap', globals, stack, envs, exc)
  BY <1>1, HeapStays
<1>4. /\ Top \in Function /\ Len(stack) = Top.base + Own(Top) /\ Len(stack) \in Nat
      /\ Len(envs) = Top.envs + EnvOwn(Top) /\ Len(envs) <= MaxEnvs /\ Len(stack) <= MaxStack
      /\ Top.base \in Nat /\ Top.envs \in Nat /\ MaxStack \in Nat
      /\ HeldFor(Top, stack, envs, heap)
  BY Here
<1>5. /\ p \in Point
      /\ Top.op = "slice" => p = "share"
      /\ Top.op # "slice" => p = "read"
  BY DEF Point
<1> HIDE DEF p
<1>6. Is(f, Top, Top.op, p, Top.held, Top.run, Top.env)
  BY <1>4, <1>5, MovesTo
<1> HIDE DEF f
<1>7. Own(f) = (IF Top.op = "element" THEN 1 ELSE 0) /\ EnvOwn(f) = 0
  BY <1>1, <1>5, <1>6 DEF Is, Own, Two, None, EnvOwn
<1>8. Continues(f)
  BY <1>1, <1>2, <1>6, GoesFurther
<1>9. Own(Top) # 0 /\ Own(f) = Own(Top) - 1
  BY <1>2, <1>7
<1>10. Sound1 /\ Kept /\ Len(stack') = Len(stack) - 1
  BY <1>1, <1>3, <1>9, StackShrinks
<1>11. f.base = Top.base /\ f.envs = Top.envs /\ Own(Top) \in 0 .. 2
  BY <1>6, Counts DEF Is
<1>12. /\ Len(stack') = f.base + Own(f) /\ Len(stack') <= MaxStack
       /\ Len(envs') = f.envs + EnvOwn(f) /\ Len(envs') <= MaxEnvs
  BY <1>1, <1>2, <1>4, <1>7, <1>9, <1>10, <1>11
<1>13. HeldFor(f, stack', envs', heap')
  BY <1>1, <1>6 DEF HeldFor, Is, Unrooted
<1> QED
  BY <1>1, <1>8, <1>10, <1>12, <1>13, GoOn

\* A local variable gets the value, which stays on the stack.
LEMMA AssignLocalKeeps ==
    ASSUME IInv, AssignLocal
    PROVE  IInv'
<1>1. /\ Top.op = "variable" /\ Top.at = "operand" /\ Return
      /\ UNCHANGED <<globals, stack, envs, exc>>
      /\ \E f \in FramesOf(ScopeOf(Top.env)) : heap' \in MemberStored(f, TopValue)
  BY DEF AssignLocal, In
<1>2. Top.op \in Expr /\ Own(Top) = 1 /\ Top.op # "call" /\ Own(Top) # 0
  BY <1>1 DEF Expr, Own, Two, None
<1>3. PICK f : heap' \in MemberStored(f, TopValue)
  BY <1>1
<1>4. HeapOK(heap') /\ RootsLive(heap', globals, stack, envs, exc)
  BY <1>2, <1>3, HeapStoresMember
<1> QED
  BY <1>1, <1>2, <1>4, ReturnsTop

\* A global variable becomes a root with the value it has on the stack.
LEMMA AssignGlobalKeeps ==
    ASSUME IInv, AssignGlobal
    PROVE  IInv'
<1>1. /\ Top.op = "variable" /\ Top.at = "operand" /\ Return
      /\ UNCHANGED <<heap, stack, envs, exc>>
  BY DEF AssignGlobal, In
<1>2. Top.op \in Expr /\ Own(Top) = 1 /\ EnvOwn(Top) = 0 /\ Top.op # "main"
  BY <1>1 DEF Expr, Own, Two, None, EnvOwn
<1>3. globals' \subseteq globals \cup ({TopValue} \cap Objs)
  BY DEF AssignGlobal
<1>4. TopValue \in Value /\ Alive(heap, TopValue)
  BY <1>2, TopValues
<1>5. /\ Now /\ stack \in Seq(Value) /\ envs \in Seq(Environment)
      /\ Len(stack) = Top.base + Own(Top) /\ Len(envs) = Top.envs + EnvOwn(Top)
      /\ Top.base \in Nat /\ Top.envs \in Nat
  BY Here
<1>6. Sound1
  BY <1>1, <1>3, <1>4, <1>5 DEF Now, Sound1, Sound, Typed, RootsLive, Alive
<1>7. Top.base <= Len(stack) /\ Top.envs <= Len(envs) /\ Len(envs) = Top.envs
      /\ Len(stack) = Top.base + 1
  BY <1>2, <1>5
<1>8. Kept
  BY <1>1, <1>5, <1>7 DEF Kept, Agree, EnvsAgree
<1> QED
  BY <1>1, <1>2, <1>6, <1>7, <1>8, Back DEF Return

\* assign_to_member stores with object and value on the stack.
LEMMA AssignMemberKeeps ==
    ASSUME IInv, AssignMember
    PROVE  IInv'
<1>1. /\ Top.op = "member" /\ Top.at = "array" /\ Return /\ stack' = Front(stack)
      /\ UNCHANGED <<globals, envs, exc>> /\ heap' \in MemberStored(TopValue, SecondValue)
  BY DEF AssignMember, In
<1>2. Top.op \in Expr /\ Own(Top) = 2 /\ EnvOwn(Top) = 0 /\ Top.op # "main" /\ Own(Top) # 0
  BY <1>1 DEF Expr, Own, Two, EnvOwn
<1>3. /\ Now /\ Len(stack) = Top.base + Own(Top) /\ Len(envs) = Top.envs + EnvOwn(Top)
      /\ Top.base \in Nat /\ Top.envs \in Nat
  BY Here
<1>4. HeapOK(heap') /\ RootsLive(heap', globals, stack, envs, exc)
  <2> DEFINE i == Len(stack) - 1
  <2>1. i \in 1 .. Len(stack) /\ heap' \in MemberStored(TopValue, stack[i])
    BY <1>1, <1>2, TopValues DEF SecondValue
  <2> HIDE DEF i
  <2> QED
    BY <1>3, <2>1, NewMember
<1>5. Sound1 /\ Kept /\ Len(stack') = Len(stack) - 1
  BY <1>1, <1>2, <1>4, StackShrinks
<1>6. Len(stack') = Top.base + 1 /\ Len(envs') = Top.envs
  BY <1>1, <1>2, <1>3, <1>5
<1> QED
  BY <1>1, <1>2, <1>5, <1>6, Back DEF Return

\* An array element gets the value, which stays on the stack.
LEMMA AssignElementKeeps ==
    ASSUME IInv, AssignElement
    PROVE  IInv'
<1>1. /\ Top.op = "element" /\ Top.at = "read" /\ Return
      /\ UNCHANGED <<globals, stack, envs, exc>> /\ heap' \in Stored(heap, Top.held, TopValue)
  BY DEF AssignElement, In
<1>2. Top.op \in Expr /\ Own(Top) = 1 /\ Top.op # "call" /\ Own(Top) # 0
  BY <1>1 DEF Expr, Own, Two, None
<1>3. TopValue \in Value /\ Alive(heap, TopValue)
  BY <1>2, TopValues
<1>4. HeapOK(heap') /\ RootsLive(heap', globals, stack, envs, exc)
  BY <1>1, <1>3, HeapStores
<1> QED
  BY <1>1, <1>2, <1>4, ReturnsTop

\* So an expression's own steps keep the invariant.
LEMMA ExpressionsKeep ==
    ASSUME IInv, Expressions
    PROVE  IInv'
<1>1. CASE EvalPlain \/ EvalString \/ EvalNamed \/ EvalClosure
  BY <1>1, EvalPlainKeeps, EvalStringKeeps, EvalNamedKeeps, EvalClosureKeeps
<1>2. CASE LiteralNew \/ LiteralElement \/ ArrayStore \/ AssocStore \/ LiteralEnd
  BY <1>2, LiteralNewKeeps, LiteralElementKeeps, LiteralStoreKeeps, LiteralEndKeeps
<1>3. CASE BinaryLeft \/ BinaryRight \/ ConcatConvert \/ ChainRight \/ ChainResult
  BY <1>3, FirstOperandsKeep, SecondOperandsKeep, ConcatConvertKeeps, ChainRightKeeps,
     ChainResultKeeps
<1>4. CASE IndexArray \/ IndexOperand \/ IndexPopped \/ IndexRead \/ SliceShare \/ SubString
  BY <1>4, FirstOperandsKeep, IndexOperandKeeps, IndexPoppedKeeps, IndexReadKeeps,
     SliceShareKeeps, SubStringKeeps
<1>5. CASE AssignOperand \/ AssignLocal \/ AssignGlobal \/ AssignTarget
  BY <1>5, FirstOperandsKeep, SecondOperandsKeep, AssignLocalKeeps, AssignGlobalKeeps
<1>6. CASE AssignMember \/ AssignElement
  BY <1>6, AssignMemberKeeps, AssignElementKeeps
<1> QED
  BY <1>1, <1>2, <1>3, <1>4, <1>5, <1>6 DEF Expressions

-----------------------------------------------------------------------------
(* Calls. *)

\* An environment is put on the chain.
LEMMA EnvsGrow ==
    ASSUME IInv, HeapOK(heap'), RootsLive(heap', globals, stack, envs, exc),
           NEW e \in Environment, Alive(heap', e.scope), \A x \in e.native : IsLive(heap', x),
           envs' = Append(envs, e), UNCHANGED <<globals, stack, exc>>
    PROVE  /\ Sound1 /\ Kept /\ Len(envs') = Len(envs) + 1
           /\ envs'[Len(envs) + 1] = e
<1>1. /\ Now /\ stack \in Seq(Value) /\ envs \in Seq(Environment)
      /\ Len(stack) = Top.base + Own(Top) /\ Len(envs) = Top.envs + EnvOwn(Top)
      /\ Top.base \in Nat /\ Top.envs \in Nat /\ Len(envs) \in Nat
  BY Here
<1>2. /\ envs' \in Seq(Environment) /\ Len(envs') = Len(envs) + 1
      /\ \A i \in 1 .. Len(envs) : envs'[i] = envs[i]
      /\ envs'[Len(envs) + 1] = e
      /\ \A i \in 1 .. Len(envs) + 1 : i \in 1 .. Len(envs) \/ i = Len(envs) + 1
  BY <1>1, OneMore
<1>3. EnvsLive(heap', envs')
  BY <1>2 DEF RootsLive, EnvsLive
<1>4. Sound1
  BY <1>1, <1>2, <1>3 DEF Now, Sound1, Sound, Typed, RootsLive
<1>5. Own(Top) \in 0 .. 2 /\ EnvOwn(Top) \in 0 .. 1
  BY Counts
<1>6. Top.base <= Len(stack) /\ Top.envs <= Len(envs) /\ Top.envs <= Len(envs')
  BY <1>1, <1>2, <1>5
<1>7. \A i \in 1 .. Top.envs : i \in 1 .. Len(envs)
  BY <1>1, <1>6
<1>8. Agree(stack, stack, Top.base) /\ EnvsAgree(envs, envs', Top.envs)
  BY <1>2, <1>6, <1>7 DEF Agree, EnvsAgree
<1> QED
  BY <1>1, <1>2, <1>4, <1>8 DEF Kept

Adding(e, o) == [e EXCEPT ![Len(e)].native = @ \cup {o}]

\* A native function adds an object to the environment of its call.
LEMMA EnvHolds ==
    ASSUME IInv, HeapOK(heap'), RootsLive(heap', globals, stack, envs, exc), EnvOwn(Top) = 1,
           NEW o \in Objs, IsLive(heap', o),
           envs' = Adding(envs, o), UNCHANGED <<globals, stack, exc>>
    PROVE  /\ Sound1 /\ Kept /\ Len(envs') = Len(envs) /\ Len(envs) = Top.envs + 1
           /\ o \in envs'[Top.envs + 1].native
           /\ envs[Top.envs + 1].native \subseteq envs'[Top.envs + 1].native
<1> DEFINE n == Len(envs)
           new == [envs[n] EXCEPT !.native = envs[n].native \cup {o}]
<1>1. /\ Now /\ stack \in Seq(Value) /\ envs \in Seq(Environment)
      /\ Len(stack) = Top.base + Own(Top) /\ n = Top.envs + EnvOwn(Top)
      /\ Top.base \in Nat /\ Top.envs \in Nat /\ n \in Nat
  BY Here
<1>2. n = Top.envs + 1 /\ n \in 1 .. n
  BY <1>1
<1>3. envs[n] \in Environment
  BY <1>1, <1>2
<1>4. /\ new \in Environment /\ new.scope = envs[n].scope
      /\ new.native = envs[n].native \cup {o}
  BY <1>3 DEF Environment
<1>5. envs' = Changed(envs, n, new)
  BY DEF Changed, Adding
<1> HIDE DEF new
<1>6. /\ envs' \in Seq(Environment) /\ Len(envs') = n
      /\ \A i \in 1 .. n : envs'[i] = IF i = n THEN new ELSE envs[i]
  <2>1. envs \in Seq(Environment) /\ n \in 1 .. Len(envs) /\ new \in Environment
    BY <1>1, <1>2, <1>4
  <2>2. /\ Changed(envs, n, new) \in Seq(Environment) /\ Len(Changed(envs, n, new)) = Len(envs)
        /\ Changed(envs, n, new)[n] = new
        /\ \A i \in 1 .. Len(envs) : i # n => Changed(envs, n, new)[i] = envs[i]
    <3> HIDE DEF n
    <3> QED
      BY <2>1, OneChanged
  <2> QED
    BY <1>5, <2>2
<1>7. EnvsLive(heap', envs')
  BY <1>2, <1>4, <1>6 DEF RootsLive, EnvsLive
<1>8. Sound1
  BY <1>1, <1>6, <1>7 DEF Now, Sound1, Sound, Typed, RootsLive
<1>9. Own(Top) \in 0 .. 2
  BY Counts
<1>10. Top.base <= Len(stack) /\ Top.envs <= n /\ \A i \in 1 .. Top.envs : i \in 1 .. n
  BY <1>1, <1>2, <1>9
<1>11. Agree(stack, stack, Top.base)
  BY <1>10 DEF Agree
<1>12. EnvsAgree(envs, envs', Top.envs)
  BY <1>4, <1>6, <1>10 DEF EnvsAgree
<1>13. Kept
  BY <1>1, <1>6, <1>11, <1>12 DEF Kept
<1> QED
  BY <1>2, <1>4, <1>6, <1>8, <1>13

\* alloc_local_environment: the new environment is on the chain before its
\* frame is created.
LEMMA CallEnvironmentKeeps ==
    ASSUME IInv, CallEnvironment
    PROVE  IInv'
<1>1. PICK a \in Alloc("scope", {}) :
         /\ heap' = a.heap /\ envs' = Append(envs, [scope |-> a.obj, native |-> {}])
         /\ ctl' = Append(Front(ctl), [Top EXCEPT !.at = "frame", !.held = a.obj])
  BY DEF CallEnvironment, EnvLinked, Goto
<1> DEFINE v == a.obj
           e == [scope |-> v, native |-> {}]
           f == [Top EXCEPT !.at = "frame", !.held = v]
<1>2. /\ HeapOK(heap') /\ RootsLive(heap', globals, stack, envs, exc)
      /\ v \in Value /\ Alive(heap', v)
  BY <1>1, HeapGrows
<1>3. /\ ctl' = Append(Front(ctl), f) /\ envs' = Append(envs, e)
      /\ UNCHANGED <<globals, stack, exc>> /\ Top.op = "call" /\ Top.at = "environment"
  BY <1>1 DEF CallEnvironment, In
<1> HIDE DEF v
<1>4. e \in Environment /\ e.scope = v /\ e.native = {}
  BY <1>2 DEF Environment
<1> HIDE DEF e
<1>5. Sound1 /\ Kept /\ Len(envs') = Len(envs) + 1 /\ envs'[Len(envs) + 1] = e
  BY <1>2, <1>3, <1>4, EnvsGrow
<1>6. /\ Top \in Function /\ Len(stack) = Top.base + Own(Top) /\ Len(stack) <= MaxStack
      /\ Len(envs) = Top.envs + EnvOwn(Top) /\ Top.envs \in Nat /\ MaxEnvs \in Nat
      /\ FrameOK(Len(ctl), Top)
  BY Here
<1>7. "frame" \in Point
  BY DEF Point
<1>8. Is(f, Top, Top.op, "frame", v, Top.run, Top.env)
  BY <1>2, <1>6, <1>7, MovesHolding
<1> HIDE DEF f
<1>9. ~ List(Top) /\ EnvOwn(Top) = 0 /\ EnvOwn(f) = 1 /\ Own(f) = Own(Top)
  BY <1>3, <1>8 DEF Is, List, EnvOwn, Own, Two, None
<1>10. Top.envs < MaxEnvs
  BY <1>3, <1>6 DEF FrameOK
<1>11. Continues(f)
  BY <1>3, <1>8, <1>9, <1>10, GoesFurther
<1>12. f.base = Top.base /\ f.envs = Top.envs /\ f.held = v
  BY <1>8 DEF Is
<1>13. /\ Len(stack') = f.base + Own(f) /\ Len(stack') <= MaxStack
       /\ Len(envs') = f.envs + EnvOwn(f) /\ Len(envs') <= MaxEnvs
       /\ Len(envs) = f.envs
  BY <1>3, <1>5, <1>6, <1>9, <1>10, <1>12
<1>14. ~ f.run
  BY <1>6, <1>8, <1>9 DEF Is, FrameOK
<1>15. HeldFor(f, stack', envs', heap')
  BY <1>3, <1>4, <1>5, <1>8, <1>12, <1>13, <1>14 DEF HeldFor, Is
<1> QED
  BY <1>3, <1>5, <1>11, <1>13, <1>15, GoOn

Referring(h, o, R) == [h EXCEPT ![o].refs = R]

\* A live object's references become others that are alive.
LEMMA Refers ==
    ASSUME NEW h, HeapOK(h), NEW o, NEW R \in SUBSET Objs, \A x \in R : IsLive(h, x),
           NEW g, g = Referring(h, o, R)
    PROVE  HeapOK(g) /\ \A x \in Objs : IsLive(h, x) => IsLive(g, x)
<1> DEFINE new == [h[o] EXCEPT !.refs = R]
<1>1. h \in [Objs -> Object]
  BY DEF HeapOK
<1>2. g = [h EXCEPT ![o] = new]
  BY DEF Referring
<1>3. o \in Objs => new \in Object /\ new.kind = h[o].kind /\ new.refs = R
  BY <1>1 DEF Object
<1> HIDE DEF new
<1>4. g \in [Objs -> Object] /\ \A x \in Objs : g[x] = IF x = o THEN new ELSE h[x]
  BY <1>1, <1>2, <1>3
<1>5. \A x \in Objs : IsLive(h, x) => IsLive(g, x)
  BY <1>3, <1>4 DEF IsLive
<1>6. ASSUME NEW x \in Objs, NEW y \in g[x].refs
      PROVE  IsLive(g, y)
  <2>1. y \in Objs /\ IsLive(h, y)
    BY <1>1, <1>3, <1>4, <1>6 DEF HeapOK, Object
  <2> QED
    BY <1>5, <2>1
<1> QED
  BY <1>4, <1>5, <1>6 DEF HeapOK

\* The frame of the call, which refers to the scope chain the function on the
\* stack was made in.
LEMMA CallFrameKeeps ==
    ASSUME IInv, CallFrame
    PROVE  IInv'
<1> DEFINE f == [Top EXCEPT !.at = "named"]
           outer == IF TopValue \in Objs /\ heap[TopValue].kind = "scope" THEN {TopValue} ELSE {}
<1>1. PICK a \in Alloc("box", {}) :
         heap' = [a.heap EXCEPT ![Top.held].refs = {a.obj} \cup outer]
  BY DEF CallFrame
<1>2. /\ ctl' = Append(Front(ctl), f) /\ UNCHANGED <<globals, stack, envs, exc>>
      /\ Top.op = "call" /\ Top.at = "frame" /\ Top \in Function
      /\ HeldFor(Top, stack, envs, heap) /\ FrameOK(Len(ctl), Top)
  BY Here DEF CallFrame, In, Goto
<1>3. ~ List(Top) /\ EnvOwn(Top) = 1 /\ Own(Top) = 1 /\ Own(Top) # 0
  BY <1>2 DEF List, EnvOwn, Own, Two, None
<1>4. /\ HeapOK(a.heap) /\ RootsLive(a.heap, globals, stack, envs, exc)
      /\ a.obj \in Objs /\ Alive(a.heap, a.obj)
  BY HeapGrows
<1> DEFINE R == {a.obj} \cup outer
<1>5. R \in SUBSET Objs /\ \A x \in R : IsLive(a.heap, x)
  <2>1. Len(stack) \in 1 .. Len(stack) /\ TopValue = stack[Len(stack)]
    BY <1>3, TopValues
  <2>2. Alive(a.heap, TopValue)
    BY <1>4, <2>1 DEF RootsLive, StackLive
  <2> QED
    BY <1>4, <2>2 DEF Alive
<1> HIDE DEF R
<1>6. heap' = Referring(a.heap, Top.held, R)
  BY <1>1 DEF R, Referring
<1>7. HeapOK(heap') /\ \A x \in Objs : IsLive(a.heap, x) => IsLive(heap', x)
  BY <1>4, <1>5, <1>6, Refers
<1>8. RootsLive(heap', globals, stack, envs, exc)
  <2>1. Typed(globals, stack, envs, exc)
    BY Here DEF Now, Sound
  <2> QED
    BY <1>4, <1>7, <2>1, RootsStay
<1>9. "named" \in Point
  BY DEF Point
<1>10. Is(f, Top, Top.op, "named", Top.held, Top.run, Top.env)
  BY <1>2, <1>9, MovesTo
<1> HIDE DEF f
<1>11. EnvOwn(f) = EnvOwn(Top) /\ Own(f) = Own(Top)
  BY <1>2, <1>3, <1>10 DEF Is, EnvOwn, Own, Two, None
<1>12. Continues(f)
  BY <1>2, <1>3, <1>10, GoesFurther
<1>13. ~ Top.run
  BY <1>2, <1>3 DEF FrameOK
<1>14. HeldFor(f, stack, envs, heap')
  BY <1>2, <1>10, <1>13 DEF HeldFor, Is
<1> QED
  BY <1>2, <1>7, <1>8, <1>11, <1>12, <1>14, GoesOnHere

\* A closure with a name is bound in its own frame.
LEMMA CallNamedKeeps ==
    ASSUME IInv, CallNamed
    PROVE  IInv'
<1> DEFINE f == [Top EXCEPT !.at = "arguments"]
<1>1. /\ ctl' = Append(Front(ctl), f) /\ UNCHANGED <<globals, stack, envs, exc>>
      /\ Top.op = "call" /\ Top.at = "named" /\ Top \in Function
      /\ HeldFor(Top, stack, envs, heap) /\ FrameOK(Len(ctl), Top)
  BY Here DEF CallNamed, In, Goto
<1>2. ~ List(Top) /\ EnvOwn(Top) = 1 /\ Own(Top) = 1 /\ Own(Top) # 0
  BY <1>1 DEF List, EnvOwn, Own, Two, None
<1>3. HeapOK(heap') /\ RootsLive(heap', globals, stack, envs, exc)
  <2>1. CASE UNCHANGED heap
    BY <2>1, HeapStays
  <2>2. CASE heap' \in MemberStored(FrameOf(Top.held), TopValue)
    <3> DEFINE o == FrameOf(Top.held)
    <3>1. heap' \in MemberStored(o, TopValue)
      BY <2>2
    <3> HIDE DEF o
    <3> QED
      BY <1>2, <3>1, HeapStoresMember
  <2> QED
    BY <2>1, <2>2 DEF CallNamed
<1>4. "arguments" \in Point
  BY DEF Point
<1>5. Is(f, Top, Top.op, "arguments", Top.held, Top.run, Top.env)
  BY <1>1, <1>4, MovesTo
<1> HIDE DEF f
<1>6. EnvOwn(f) = EnvOwn(Top) /\ Own(f) = Own(Top)
  BY <1>1, <1>2, <1>5 DEF Is, EnvOwn, Own, Two, None
<1>7. Continues(f)
  BY <1>1, <1>2, <1>5, GoesFurther
<1>8. ~ Top.run
  BY <1>1, <1>2 DEF FrameOK
<1>9. HeldFor(f, stack, envs, heap')
  BY <1>1, <1>5, <1>8 DEF HeldFor, Is
<1> QED
  BY <1>1, <1>3, <1>6, <1>7, <1>9, GoesOnHere

\* An argument is bound in it.
LEMMA CallBindKeeps ==
    ASSUME IInv, CallBind
    PROVE  IInv'
<1> DEFINE f == [Top EXCEPT !.at = "arguments"]
<1>1. /\ Top.op = "call" /\ Top.at = "bind" /\ stack' = Front(stack)
      /\ ctl' = Append(Front(ctl), f) /\ UNCHANGED <<globals, envs, exc>>
      /\ heap' \in MemberStored(FrameOf(Top.held), TopValue)
  BY DEF CallBind, In, Goto
<1>2. Own(Top) = 2 /\ Own(Top) # 0 /\ EnvOwn(Top) = 1 /\ ~ List(Top)
  BY <1>1 DEF Own, Two, EnvOwn, List
<1>3. HeapOK(heap') /\ RootsLive(heap', globals, stack, envs, exc)
  <2> DEFINE o == FrameOf(Top.held)
  <2>1. heap' \in MemberStored(o, TopValue)
    BY <1>1
  <2> HIDE DEF o
  <2> QED
    BY <1>2, <2>1, HeapStoresMember
<1>4. /\ Top \in Function /\ Len(stack) = Top.base + Own(Top) /\ Len(stack) \in Nat
      /\ Len(envs) = Top.envs + EnvOwn(Top) /\ Len(envs) <= MaxEnvs /\ Len(stack) <= MaxStack
      /\ Top.base \in Nat /\ Top.envs \in Nat /\ MaxStack \in Nat
      /\ HeldFor(Top, stack, envs, heap) /\ FrameOK(Len(ctl), Top)
  BY Here
<1>5. "arguments" \in Point
  BY DEF Point
<1>6. Is(f, Top, Top.op, "arguments", Top.held, Top.run, Top.env)
  BY <1>4, <1>5, MovesTo
<1> HIDE DEF f
<1>7. Own(f) = 1 /\ EnvOwn(f) = 1
  BY <1>1, <1>6 DEF Is, Own, Two, None, EnvOwn
<1>8. Continues(f)
  BY <1>1, <1>2, <1>6, GoesFurther
<1>9. Sound1 /\ Kept /\ Len(stack') = Len(stack) - 1
  BY <1>1, <1>2, <1>3, StackShrinks
<1>10. f.base = Top.base /\ f.envs = Top.envs
  BY <1>6 DEF Is
<1>11. /\ Len(stack') = f.base + Own(f) /\ Len(stack') <= MaxStack
       /\ Len(envs') = f.envs + EnvOwn(f) /\ Len(envs') <= MaxEnvs
  BY <1>1, <1>2, <1>4, <1>7, <1>9, <1>10
<1>12. ~ Top.run
  BY <1>2, <1>4 DEF FrameOK
<1>13. HeldFor(f, stack', envs', heap')
  BY <1>1, <1>4, <1>6, <1>10, <1>12 DEF HeldFor, Is
<1> QED
  BY <1>1, <1>8, <1>9, <1>11, <1>13, GoOn

\* The body runs in the new environment.
LEMMA CallBodyKeeps ==
    ASSUME IInv, CallBody
    PROVE  IInv'
<1> DEFINE n == Len(envs)
           f == [Top EXCEPT !.at = "body", !.run = TRUE, !.env = n]
<1>1. /\ ctl' = Append(Front(ctl), f) /\ UNCHANGED <<heap, globals, stack, envs, exc>>
      /\ Top.op = "call" /\ Top.at = "arguments"
  BY DEF CallBody, In, Goto
<1>2. /\ Top \in Function /\ HeldFor(Top, stack, envs, heap)
      /\ n = Top.envs + EnvOwn(Top) /\ n <= MaxEnvs /\ n \in Nat /\ MaxEnvs \in Nat
  BY Here
<1>3. "body" \in Point /\ TRUE \in BOOLEAN /\ n \in 0 .. MaxEnvs
  BY <1>2 DEF Point
<1> HIDE DEF n
<1>4. Is(f, Top, Top.op, "body", Top.held, TRUE, n)
  BY <1>2, <1>3, MovesInto
<1> HIDE DEF f
<1>5. /\ EnvOwn(Top) = 1 /\ EnvOwn(f) = 1 /\ Own(Top) = 1 /\ Own(f) = 1
      /\ List(f) /\ ~ InBody(Top) /\ InBody(f)
  BY <1>1, <1>4 DEF Is, EnvOwn, Own, Two, None, List, InBody
<1>6. f.env <= f.envs + EnvOwn(f)
  BY <1>2, <1>4, <1>5 DEF Is
<1>7. Continues(f)
  BY <1>1, <1>4, <1>5, <1>6 DEF Continues, Is
<1>8. HeldFor(f, stack, envs, heap')
  BY <1>1, <1>2, <1>4 DEF HeldFor, Is
<1>9. HeapOK(heap') /\ RootsLive(heap', globals, stack, envs, exc)
  BY <1>1, HeapStays
<1> QED
  BY <1>1, <1>5, <1>7, <1>8, <1>9, GoesOnHere

\* A call ends: its value takes the function's place, its environment goes.
LEMMA CallLeavesKeeps ==
    ASSUME IInv, CallLeaves, Top.op = "call", Top.at \in {"body", "native"}, Alive(heap, Top.held)
    PROVE  IInv'
<1> DEFINE n == Top.base
           v == Top.held
           s == stack'
<1>1. /\ Top \in Function /\ stack \in Seq(Value) /\ envs \in Seq(Environment)
      /\ Len(stack) = n + Own(Top) /\ Len(envs) = Top.envs + EnvOwn(Top) /\ Now
      /\ n \in Nat /\ Top.envs \in Nat /\ Len(stack) \in Nat /\ Len(envs) \in Nat
  BY Here
<1>2. Own(Top) = 1 /\ EnvOwn(Top) = 1 /\ Top.op \in Expr /\ Top.op # "main"
  BY DEF Own, Two, None, EnvOwn, Expr
<1>3. /\ s = Leaving(stack, n, v) /\ envs' = Front(envs) /\ Return
      /\ UNCHANGED <<heap, globals, exc>>
  BY DEF CallLeaves, EnvDisposed, Leaving
<1>4. n \in 0 .. Len(stack) /\ Len(envs) # 0 /\ Top.envs = Len(envs) - 1
  BY <1>1, <1>2
<1>5. v \in Value /\ Alive(heap, v) /\ StackLive(heap, stack) /\ EnvsLive(heap, envs)
  BY <1>1, Fields DEF Now, Sound, RootsLive
<1> HIDE DEF n, v, s
<1>6. s \in Seq(Value) /\ Len(s) = n + 1 /\ StackLive(heap, s) /\ Agree(stack, s, n)
  <2>1. stack \in Seq(Value)
    BY <1>1
  <2> QED
    BY <1>3, <1>4, <1>5, <2>1, Leaves
<1>7. /\ envs' \in Seq(Environment) /\ Len(envs') = Len(envs) - 1
      /\ \A i \in 1 .. Len(envs) - 1 : envs'[i] = envs[i]
  BY <1>1, <1>3, <1>4, Ends
<1>8. EnvsLive(heap, envs')
  <2>1. \A i \in 1 .. Len(envs') : i \in 1 .. Len(envs) /\ envs'[i] = envs[i]
    BY <1>1, <1>7
  <2> QED
    BY <1>5, <2>1 DEF EnvsLive
<1>9. Sound1
  BY <1>1, <1>3, <1>6, <1>7, <1>8 DEF Now, Sound1, Sound, Typed, RootsLive, s
<1>10. EnvsAgree(envs, envs', Top.envs)
  BY <1>1, <1>4, <1>7 DEF EnvsAgree
<1>11. Kept
  BY <1>6, <1>7, <1>10 DEF Kept, s, n
<1>12. Len(stack') = Top.base + 1 /\ Len(envs') = Top.envs
  BY <1>4, <1>6, <1>7 DEF s, n
<1> QED
  BY <1>2, <1>3, <1>9, <1>11, <1>12, Back DEF Return

\* A function's body is over: its result is the value of the call.
LEMMA CallReturnsKeeps ==
    ASSUME IInv, CallReturns \/ NativeReturns
    PROVE  IInv'
<1>1. HeldFor(Top, stack, envs, heap) /\ Now /\ envs \in Seq(Environment)
      /\ Len(envs) = Top.envs + EnvOwn(Top) /\ Top.envs \in Nat
  BY Here
<1>2. CASE CallReturns
  <2>1. Top.op = "call" /\ Top.at = "body" /\ ~ Top.run /\ CallLeaves
    BY <1>2 DEF CallReturns, ListOver, In
  <2>2. Alive(heap, Top.held)
    BY <1>1, <2>1 DEF HeldFor, Alive
  <2> QED
    BY <2>1, <2>2, CallLeavesKeeps
<1>3. CASE NativeReturns
  <2>1. Top.op = "call" /\ Top.at = "native" /\ CallLeaves
    BY <1>3 DEF NativeReturns, In
  <2>2. Top.held \in envs[Top.envs + 1].native
    BY <1>1, <2>1 DEF HeldFor
  <2>3. EnvOwn(Top) = 1
    BY <2>1 DEF EnvOwn
  <2>4. Top.envs + 1 \in 1 .. Len(envs)
    BY <1>1, <2>3
  <2>5. Alive(heap, Top.held)
    BY <1>1, <2>2, <2>4 DEF Now, Sound, RootsLive, EnvsLive, Alive
  <2> QED
    BY <2>1, <2>5, CallLeavesKeeps
<1> QED
  BY <1>2, <1>3

\* A native function's array is held by the environment of its call.
LEMMA NativeOuterKeeps ==
    ASSUME IInv, NativeOuter
    PROVE  IInv'
<1>1. PICK a \in Alloc("box", {}) : heap' = a.heap
         /\ envs' = [envs EXCEPT ![Len(envs)].native = @ \cup {a.obj}]
         /\ ctl' = Append(Front(ctl), [Top EXCEPT !.at = "native", !.held = a.obj])
  BY DEF NativeOuter, Goto
<1> DEFINE v == a.obj
           f == [Top EXCEPT !.at = "native", !.held = v]
<1>2. /\ HeapOK(heap') /\ RootsLive(heap', globals, stack, envs, exc)
      /\ v \in Value /\ v \in Objs /\ IsLive(heap', v)
  BY <1>1, HeapGrows DEF Alive
<1>3. ctl' = Append(Front(ctl), f)
  BY <1>1
<1> HIDE DEF v
<1>4. envs' = Adding(envs, v)
  BY <1>1 DEF Adding, v
<1>5. UNCHANGED <<globals, stack, exc>> /\ Top.op = "call" /\ Top.at = "arguments"
  BY DEF NativeOuter, In
<1>6. ~ List(Top) /\ EnvOwn(Top) = 1 /\ Own(Top) = 1
  BY <1>5 DEF List, EnvOwn, Own, Two, None
<1>7. /\ Sound1 /\ Kept /\ Len(envs') = Len(envs) /\ v \in envs'[Top.envs + 1].native
  BY <1>2, <1>4, <1>5, <1>6, EnvHolds
<1>8. /\ Top \in Function /\ Len(stack) = Top.base + Own(Top) /\ Len(stack) <= MaxStack
      /\ Len(envs) = Top.envs + EnvOwn(Top) /\ Len(envs) <= MaxEnvs /\ FrameOK(Len(ctl), Top)
  BY Here
<1>9. "native" \in Point
  BY DEF Point
<1>10. Is(f, Top, Top.op, "native", v, Top.run, Top.env)
  BY <1>2, <1>8, <1>9, MovesHolding
<1> HIDE DEF f
<1>11. EnvOwn(f) = 1 /\ Own(f) = 1
  BY <1>5, <1>10 DEF Is, EnvOwn, Own, Two, None
<1>12. Continues(f)
  BY <1>5, <1>6, <1>10, GoesFurther
<1>13. f.base = Top.base /\ f.envs = Top.envs /\ f.held = v
  BY <1>10 DEF Is
<1>14. /\ Len(stack') = f.base + Own(f) /\ Len(stack') <= MaxStack
       /\ Len(envs') = f.envs + EnvOwn(f) /\ Len(envs') <= MaxEnvs
  BY <1>5, <1>6, <1>7, <1>8, <1>11, <1>13
<1>15. ~ f.run
  BY <1>6, <1>8, <1>10 DEF Is, FrameOK
<1>16. HeldFor(f, stack', envs', heap')
  BY <1>5, <1>7, <1>10, <1>13, <1>15 DEF HeldFor, Is
<1> QED
  BY <1>3, <1>7, <1>12, <1>14, <1>16, GoOn

\* A sequence is its last member after the others.
LEMMA Rejoins ==
    ASSUME NEW S, NEW s \in Seq(S), Len(s) # 0
    PROVE  s = Append(Front(s), Last(s))
<1> DEFINE b == Front(s)
           v == Last(s)
<1>1. /\ b \in Seq(S) /\ Len(b) = Len(s) - 1 /\ v = s[Len(s)] /\ v \in S
      /\ \A i \in 1 .. Len(s) - 1 : b[i] = s[i]
  BY Ends
<1> HIDE DEF b, v
<1>2. Append(b, v) \in Seq(S) /\ Len(Append(b, v)) = Len(s)
  BY <1>1
<1>3. \A i \in 1 .. Len(s) : Append(b, v)[i] = s[i]
  BY <1>1
<1>4. s = Append(b, v)
  BY <1>2, <1>3
<1> QED
  BY <1>4 DEF b, v

\* And so are the arrays in it.
LEMMA NativeInnerKeeps ==
    ASSUME IInv, NativeInner
    PROVE  IInv'
<1>1. PICK a \in Alloc("box", {}) : heap' \in Stored(a.heap, Top.held, a.obj)
         /\ envs' = [envs EXCEPT ![Len(envs)].native = @ \cup {a.obj}]
  BY DEF NativeInner
<1> DEFINE v == a.obj
           h == a.heap
<1>2. /\ HeapOK(h) /\ RootsLive(h, globals, stack, envs, exc)
      /\ v \in Value /\ v \in Objs /\ IsLive(h, v)
  BY HeapGrows DEF Alive
<1>3. envs' = Adding(envs, v) /\ heap' \in Stored(h, Top.held, v)
  BY <1>1 DEF Adding
<1> HIDE DEF v, h
<1>4. /\ UNCHANGED <<globals, stack, exc, ctl>> /\ Top.op = "call" /\ Top.at = "native"
      /\ Typed(globals, stack, envs, exc)
  BY Here DEF NativeInner, In, Now, Sound
<1>5. HeapOK(heap') /\ \A x \in Objs : IsLive(h, x) => IsLive(heap', x)
  BY <1>2, <1>3, StoresValue
<1>6. RootsLive(heap', globals, stack, envs, exc) /\ IsLive(heap', v)
  BY <1>2, <1>4, <1>5, RootsStay
<1>7. ~ List(Top) /\ EnvOwn(Top) = 1 /\ Own(Top) = 1
  BY <1>4 DEF List, EnvOwn, Own, Two, None
<1>8. /\ Sound1 /\ Kept /\ Len(envs') = Len(envs)
      /\ envs[Top.envs + 1].native \subseteq envs'[Top.envs + 1].native
  BY <1>2, <1>3, <1>4, <1>5, <1>6, <1>7, EnvHolds
<1>9. /\ Top \in Function /\ Len(stack) = Top.base + Own(Top) /\ Len(stack) <= MaxStack
      /\ Len(envs) = Top.envs + EnvOwn(Top) /\ Len(envs) <= MaxEnvs /\ FrameOK(Len(ctl), Top)
      /\ HeldFor(Top, stack, envs, heap) /\ ctl \in Seq(Function) /\ Len(ctl) \in 1 .. Len(ctl)
  BY Here
<1>10. ctl' = Append(Front(ctl), Top)
  <2>1. Len(ctl) # 0
    BY <1>9
  <2> QED
    BY <1>4, <1>9, <2>1, Rejoins DEF Top
<1>11. ~ Top.run
  BY <1>7, <1>9 DEF FrameOK
<1>12. Continues(Top)
  BY <1>4, <1>7, <1>9, <1>11 DEF Continues, InBody
<1>13. HeldFor(Top, stack', envs', heap')
  BY <1>4, <1>8, <1>9, <1>11 DEF HeldFor
<1>14. /\ Len(stack') = Top.base + Own(Top) /\ Len(stack') <= MaxStack
       /\ Len(envs') = Top.envs + EnvOwn(Top) /\ Len(envs') <= MaxEnvs
  BY <1>4, <1>8, <1>9
<1> QED
  BY <1>8, <1>10, <1>12, <1>13, <1>14, GoOn

\* So the steps of a call keep the invariant.
LEMMA CallStepsKeep ==
    ASSUME IInv, CallSteps
    PROVE  IInv'
<1>1. CASE CallFunction \/ CallArgument
  BY <1>1, FirstOperandsKeep, SecondOperandsKeep
<1>2. CASE CallEnvironment \/ CallFrame \/ CallNamed \/ CallBind \/ CallBody
  BY <1>2, CallEnvironmentKeeps, CallFrameKeeps, CallNamedKeeps, CallBindKeeps, CallBodyKeeps
<1>3. CASE CallReturns \/ NativeOuter \/ NativeInner \/ NativeReturns
  BY <1>3, CallReturnsKeeps, NativeOuterKeeps, NativeInnerKeeps
<1> QED
  BY <1>1, <1>2, <1>3 DEF CallSteps

-----------------------------------------------------------------------------
(* Statements. *)

\* A statement that begins.
Made(o, p, b, e, n, m) ==
    [op |-> o, at |-> p, held |-> Plain, run |-> b, env |-> e, base |-> n, envs |-> m]

\* Its fields.
LEMMA MadeIs ==
    ASSUME NEW o \in Operation, NEW p \in Point, NEW b \in BOOLEAN, NEW e \in 0 .. MaxEnvs,
           NEW n \in 0 .. MaxStack, NEW m \in 0 .. MaxEnvs
    PROVE  /\ Made(o, p, b, e, n, m) \in Function
           /\ Made(o, p, b, e, n, m).op = o /\ Made(o, p, b, e, n, m).at = p
           /\ Made(o, p, b, e, n, m).held = Plain /\ Made(o, p, b, e, n, m).run = b
           /\ Made(o, p, b, e, n, m).env = e /\ Made(o, p, b, e, n, m).base = n
           /\ Made(o, p, b, e, n, m).envs = m
<1>1. Plain \in Value
  BY DEF Value
<1> QED
  BY <1>1 DEF Made, Function

\* Two members more.
LEMMA TwoMore ==
    ASSUME NEW S, NEW s \in Seq(S), NEW a \in S, NEW b \in S
    PROVE  s \o <<a, b>> = Append(Append(s, a), b)
  OBVIOUS

\* A statement of the list that the innermost function runs.
LEMMA StatementBegins ==
    ASSUME IInv, Top.run, Len(stack) < MaxStack, Len(ctl) < MaxCtl,
           NEW g \in Function, g.op \in Stmt, g.run => List(g), g.env = Top.env,
           g.base = Len(stack), g.envs = Len(envs), g.op = "return" => g.env # 0,
           g.held = Plain, Own(g) \in 0 .. 1
    PROVE  /\ Control(Append(ctl, g), Len(stack) + Own(g), Len(envs))
           /\ \A l \in 1 .. Len(ctl) + 1 : HeldFor(Append(ctl, g)[l], stack, envs, heap)
           /\ Append(ctl, g)[Len(ctl) + 1] = g /\ Len(Append(ctl, g)) = Len(ctl) + 1
<1>1. /\ Frames(ctl, stack, envs, heap) /\ Top = ctl[Len(ctl)] /\ Len(ctl) \in Nat
  BY Here
<1>2. /\ Control(Append(ctl, g), Len(stack) + Own(g), Len(envs))
      /\ \A l \in 1 .. Len(ctl) : HeldFor(Append(ctl, g)[l], stack, envs, heap)
      /\ Append(ctl, g)[Len(ctl) + 1] = g /\ Len(Append(ctl, g)) = Len(ctl) + 1
  BY <1>1, Starts
<1>3. HeldFor(g, stack, envs, heap)
  BY DEF HeldFor, Stmt, Unrooted
<1>4. \A l \in 1 .. Len(ctl) + 1 : l \in 1 .. Len(ctl) \/ l = Len(ctl) + 1
  BY <1>1
<1> QED
  BY <1>2, <1>3, <1>4

\* It evaluates an expression.
LEMMA BeginsKeeps ==
    ASSUME IInv, NEW o \in {"statement", "return", "throw"}, NEW p \in {"drop", "pop"},
           Begins(o, p), o = "statement" <=> p = "drop", o = "return" => Top.env # 0
    PROVE  IInv'
<1> DEFINE g == Made(o, p, FALSE, Top.env, Len(stack), Len(envs))
           r == Begun(Top.env, Len(stack), Len(envs))
           c == Append(ctl, g)
           d == Append(c, r)
<1>1. /\ Top \in Function /\ Len(stack) \in Nat /\ Len(envs) \in Nat /\ Len(stack) <= MaxStack
      /\ Len(envs) <= MaxEnvs /\ MaxEnvs \in Nat /\ MaxStack \in Nat /\ Now
      /\ Frames(ctl, stack, envs, heap) /\ FrameOK(Len(ctl), Top)
      /\ ctl \in Seq(Function) /\ Len(ctl) \in Nat /\ Len(envs) = Top.envs + EnvOwn(Top)
  BY Here
<1>2. /\ Top.run /\ Len(ctl) + 1 < MaxCtl /\ Len(stack) < MaxStack
      /\ UNCHANGED <<heap, globals, stack, envs, exc>>
  BY DEF Begins
<1>3. ctl' = ctl \o <<g, r>>
  BY DEF Begins, Func, Made, Begun
<1>4. Len(stack) \in 0 .. MaxStack /\ Len(envs) \in 0 .. MaxEnvs /\ Top.env \in 0 .. MaxEnvs
  BY <1>1, Fields
<1>5. o \in Operation /\ p \in Point /\ o \in Stmt
  BY DEF Operation, Point, Stmt
<1>6. /\ g \in Function /\ g.op = o /\ g.at = p /\ g.held = Plain /\ g.run = FALSE
      /\ g.env = Top.env /\ g.base = Len(stack) /\ g.envs = Len(envs)
  <2> DEFINE no == FALSE
             n == Len(stack)
             m == Len(envs)
  <2>1. no \in BOOLEAN
    OBVIOUS
  <2> HIDE DEF no, n, m
  <2>2. n \in 0 .. MaxStack /\ m \in 0 .. MaxEnvs
    BY <1>4 DEF n, m
  <2>3. g = Made(o, p, no, Top.env, n, m)
    BY DEF no, n, m
  <2> HIDE DEF g
  <2>4. /\ g \in Function /\ g.op = o /\ g.at = p /\ g.held = Plain /\ g.run = no
        /\ g.env = Top.env /\ g.base = n /\ g.envs = m
    BY <1>4, <1>5, <2>1, <2>2, <2>3, MadeIs
  <2> QED
    BY <2>4 DEF no, n, m
<1>7. /\ r \in Function /\ r.op = "eval" /\ r.at = "start" /\ r.held = Plain /\ r.run = FALSE
      /\ r.env = Top.env /\ r.base = Len(stack) /\ r.envs = Len(envs)
  <2> DEFINE n == Len(stack)
             m == Len(envs)
             e == Top.env
  <2>1. e \in 0 .. MaxEnvs /\ n \in 0 .. MaxStack /\ m \in 0 .. MaxEnvs /\ r = Begun(e, n, m)
    BY <1>4
  <2> HIDE DEF n, m, e, r
  <2>2. r \in Function
    BY <2>1, BegunIs
  <2>3. /\ r.op = "eval" /\ r.at = "start" /\ r.held = Plain /\ r.run = FALSE
        /\ r.env = e /\ r.base = n /\ r.envs = m
    BY <2>1 DEF Begun
  <2> QED
    BY <2>2, <2>3 DEF n, m, e
<1> HIDE DEF g, r
<1>8. ctl' = d
  BY <1>1, <1>3, <1>6, <1>7, TwoMore
<1>9. /\ Own(g) = 1 /\ EnvOwn(g) = 0 /\ Own(r) = 0 /\ EnvOwn(r) = 0 /\ Operand(g)
  BY <1>6, <1>7 DEF Own, Two, None, EnvOwn, Operand
<1> DEFINE k == Len(stack) + 1
           m == Len(envs)
           n == Len(stack)
<1>10. /\ Control(c, k, m) /\ c[Len(ctl) + 1] = g /\ Len(c) = Len(ctl) + 1
       /\ \A l \in 1 .. Len(ctl) + 1 : HeldFor(c[l], stack, envs, heap)
  <2>1. /\ Len(ctl) < MaxCtl /\ Own(g) \in 0 .. 1 /\ (g.run => List(g))
        /\ (g.op = "return" => g.env # 0) /\ g.op \in Stmt
    BY <1>1, <1>2, <1>5, <1>6, <1>9, RootsAssumption
  <2> QED
    BY <1>2, <1>6, <1>9, <2>1, StatementBegins
<1> HIDE DEF c
<1>11. c \in Seq(Function)
  BY <1>10 DEF Control
<1>12. FrameOK(Len(c) + 1, r)
  <2>1. Top.env <= m
    BY <1>1 DEF FrameOK
  <2>2. r.env <= r.envs + EnvOwn(r)
    BY <1>1, <1>4, <1>7, <1>9, <2>1
  <2>3. Len(c) + 1 # 1
    BY <1>1, <1>10
  <2> QED
    BY <1>2, <1>7, <2>2, <2>3 DEF FrameOK
<1>13. Awaits(c[Len(c)], r)
  <2>1. Waits(g) = 0
    BY <1>9, Counts
  <2>2. r.base = g.base + Waits(g) /\ r.envs = g.envs + EnvOwn(g)
    BY <1>1, <1>6, <1>7, <1>9, <2>1
  <2> QED
    BY <1>6, <1>7, <1>9, <1>10, <2>2 DEF Awaits, Expr
<1>14. n = r.base + Own(r) /\ m = r.envs + EnvOwn(r) /\ n <= MaxStack /\ m <= MaxEnvs
       /\ Len(c) < MaxCtl
  BY <1>1, <1>2, <1>7, <1>9, <1>10
<1>15. Control(d, n, m)
  <2> HIDE DEF k, m, n
  <2> QED
    BY <1>7, <1>10, <1>12, <1>13, <1>14, Called
<1>16. /\ Len(d) = Len(c) + 1 /\ d[Len(c) + 1] = r /\ \A l \in 1 .. Len(c) : d[l] = c[l]
       /\ \A l \in 1 .. Len(c) + 1 : l \in 1 .. Len(c) \/ l = Len(c) + 1
  BY <1>7, <1>11, OneMore
<1> HIDE DEF d
<1>17. HeldFor(r, stack, envs, heap)
  BY <1>7 DEF HeldFor, Unrooted
<1>18. \A l \in 1 .. Len(d) : HeldFor(d[l], stack, envs, heap)
  BY <1>10, <1>16, <1>17
<1>19. Frames(d, stack, envs, heap)
  BY <1>15, <1>18 DEF Frames
<1> QED
  BY <1>1, <1>2, <1>8, <1>19 DEF IInv, Now, Sound, Typed, RootsLive

\* The statements that evaluate an expression first.
LEMMA StatementKeeps ==
    ASSUME IInv, Statement \/ ReturnStatement \/ ThrowStatement
    PROVE  IInv'
<1>1. CASE Statement
  BY <1>1, BeginsKeeps DEF Statement
<1>2. CASE ReturnStatement
  BY <1>2, BeginsKeeps DEF ReturnStatement
<1>3. CASE ThrowStatement
  BY <1>3, BeginsKeeps DEF ThrowStatement
<1> QED
  BY <1>1, <1>2, <1>3

\* execute_expression_statement drops the value.
LEMMA DropKeeps ==
    ASSUME IInv, Drop
    PROVE  IInv'
<1>1. /\ Top.op = "statement" /\ Top.at = "drop" /\ Return /\ stack' = Front(stack)
      /\ UNCHANGED <<heap, globals, envs, exc>>
  BY DEF Drop, In
<1>2. Top.op \notin Expr /\ Own(Top) = 1 /\ EnvOwn(Top) = 0 /\ Top.op # "main" /\ Own(Top) # 0
  BY <1>1 DEF Expr, Own, Two, None, EnvOwn
<1>3. /\ Len(stack) = Top.base + Own(Top) /\ Len(envs) = Top.envs + EnvOwn(Top)
      /\ Top.base \in Nat /\ Top.envs \in Nat
  BY Here
<1>4. HeapOK(heap') /\ RootsLive(heap', globals, stack, envs, exc)
  BY <1>1, HeapStays
<1>5. Sound1 /\ Kept /\ Len(stack') = Len(stack) - 1
  BY <1>1, <1>2, <1>4, StackShrinks
<1>6. Len(stack') = Top.base /\ Len(envs') = Top.envs
  BY <1>1, <1>2, <1>3, <1>5
<1> QED
  BY <1>1, <1>2, <1>5, <1>6, Back DEF Return

\* A try statement runs its block.
LEMMA TryKeeps ==
    ASSUME IInv, NEW o \in {"try", "tryfinally"}, Try(o)
    PROVE  IInv'
<1> DEFINE n == Len(stack)
           m == Len(envs)
           e == Top.env
           g == Made(o, "body", TRUE, e, n, m)
           c == Append(ctl, g)
<1>1. /\ Top \in Function /\ n \in Nat /\ m \in Nat /\ n <= MaxStack /\ m <= MaxEnvs
      /\ MaxEnvs \in Nat /\ MaxStack \in Nat /\ Now
  BY Here
<1>2. /\ Top.run /\ Len(ctl) < MaxCtl /\ n < MaxStack /\ UNCHANGED <<heap, globals, stack, envs, exc>>
  BY DEF Try
<1>3. ctl' = c
  <2> DEFINE no == FALSE
             yes == TRUE
  <2> HIDE DEF no, yes
  <2>1. [Made(o, "body", no, e, n, m) EXCEPT !.run = yes] = Made(o, "body", yes, e, n, m)
    BY DEF Made
  <2>2. [Func(o, "body", e) EXCEPT !.run = TRUE] = g
    BY <2>1 DEF no, yes, Made, Func
  <2> HIDE DEF g
  <2> QED
    BY <2>2 DEF Try
<1>4. n \in 0 .. MaxStack /\ m \in 0 .. MaxEnvs /\ e \in 0 .. MaxEnvs
  BY <1>1, Fields
<1>5. o \in Operation /\ "body" \in Point /\ o \in Stmt /\ o # "return"
  BY DEF Operation, Point, Stmt
<1> HIDE DEF n, m, e
<1>6. g \in Function
  <2> DEFINE yes == TRUE
  <2>1. yes \in BOOLEAN /\ g = Made(o, "body", yes, e, n, m)
    OBVIOUS
  <2> HIDE DEF yes, g
  <2> QED
    BY <1>4, <1>5, <2>1, MadeIs
<1>7. /\ g.op = o /\ g.at = "body" /\ g.held = Plain
      /\ g.env = e /\ g.base = n /\ g.envs = m
  BY DEF Made
<1> HIDE DEF g
<1>8. Own(g) = 0 /\ List(g)
  BY <1>7 DEF Own, Two, None, List
<1>9. /\ Control(c, Len(stack) + Own(g), Len(envs)) /\ Len(c) = Len(ctl) + 1
      /\ \A l \in 1 .. Len(ctl) + 1 : HeldFor(c[l], stack, envs, heap)
  <2>1. /\ Len(stack) < MaxStack /\ g.env = Top.env /\ g.base = Len(stack) /\ g.envs = Len(envs)
        /\ Own(g) \in 0 .. 1
    BY <1>2, <1>7, <1>8 DEF n, m, e
  <2> QED
    <3>1. g.op \in Stmt /\ g.op # "return" /\ g.held = Plain
      BY <1>5, <1>7
    <3>2. /\ Control(c, Len(stack) + Own(g), Len(envs))
          /\ \A l \in 1 .. Len(ctl) + 1 : HeldFor(c[l], stack, envs, heap)
          /\ c[Len(ctl) + 1] = g /\ Len(c) = Len(ctl) + 1
      BY <1>2, <1>6, <1>8, <2>1, <3>1, StatementBegins
    <3> QED
      BY <3>2
<1>10. Len(stack) + Own(g) = Len(stack)
  BY <1>1, <1>8 DEF n
<1>11. Frames(c, stack, envs, heap)
  BY <1>9, <1>10 DEF Frames
<1> QED
  BY <1>1, <1>2, <1>3, <1>11 DEF IInv, Now, Sound, Typed, RootsLive

\* The finally block runs, the exception gone from the stack.
LEMMA TryBlockEndsKeeps ==
    ASSUME IInv, TryBlockEnds
    PROVE  IInv'
<1> DEFINE f == [Top EXCEPT !.at = "finally", !.run = TRUE]
<1>1. /\ Top.op \in {"try", "tryfinally"} /\ Top.at \in {"body", "catch"}
      /\ stack' = IF Top.at = "catch" THEN Front(stack) ELSE stack
      /\ ctl' = Append(Front(ctl), f) /\ UNCHANGED <<heap, globals, envs, exc>>
  BY DEF TryBlockEnds, ListOver, In, Goto
<1>2. /\ EnvOwn(Top) = 0 /\ Own(Top) = IF Top.at = "catch" THEN 1 ELSE 0
  BY <1>1 DEF Own, Two, None, EnvOwn
<1>3. /\ Top \in Function /\ Len(stack) = Top.base + Own(Top) /\ Len(stack) \in Nat
      /\ Len(envs) = Top.envs + EnvOwn(Top) /\ Len(envs) <= MaxEnvs /\ Len(stack) <= MaxStack
      /\ Top.base \in Nat /\ Top.envs \in Nat /\ MaxStack \in Nat
      /\ HeldFor(Top, stack, envs, heap)
  BY Here
<1>4. HeapOK(heap') /\ RootsLive(heap', globals, stack, envs, exc)
  BY <1>1, HeapStays
<1>5. "finally" \in Point /\ TRUE \in BOOLEAN
  BY DEF Point
<1>6. Is(f, Top, Top.op, "finally", Top.held, TRUE, Top.env)
  BY <1>3, <1>5, MovesRunning
<1> HIDE DEF f
<1>7. Own(f) = 0 /\ EnvOwn(f) = 0 /\ List(f) /\ ~ InBody(Top)
  BY <1>1, <1>6 DEF Is, Own, Two, None, EnvOwn, List, InBody
<1>8. Continues(f)
  BY <1>1, <1>6, <1>7 DEF Continues, Is
<1>9. Sound1 /\ Kept /\ Len(stack') = Top.base
  <2>1. CASE Top.at = "catch"
    <3>1. stack' = Front(stack) /\ Own(Top) # 0 /\ Own(Top) = 1
      BY <1>1, <1>2, <2>1
    <3>2. Sound1 /\ Kept /\ Len(stack') = Len(stack) - 1
      BY <1>1, <1>4, <3>1, StackShrinks
    <3> QED
      BY <1>3, <3>1, <3>2
  <2>2. CASE Top.at # "catch"
    <3>1. stack' = stack /\ Own(Top) = 0
      BY <1>1, <1>2, <2>2
    <3>2. Sound1 /\ Kept
      BY <1>1, <1>4, <3>1, HeapChanges
    <3> QED
      BY <1>3, <3>1, <3>2
  <2> QED
    BY <2>1, <2>2
<1>10. f.base = Top.base /\ f.envs = Top.envs
  BY <1>6 DEF Is
<1>11. /\ Len(stack') = f.base + Own(f) /\ Len(stack') <= MaxStack
       /\ Len(envs') = f.envs + EnvOwn(f) /\ Len(envs') <= MaxEnvs
  <2>1. Own(Top) \in 0 .. 2
    BY Counts
  <2> QED
    BY <1>1, <1>2, <1>3, <1>7, <1>9, <1>10, <2>1
<1>12. HeldFor(f, stack', envs', heap')
  BY <1>1, <1>3, <1>6 DEF HeldFor, Is, Unrooted
<1> QED
  BY <1>1, <1>8, <1>9, <1>11, <1>12, GoOn

\* The exception, which is on the stack, gets its name.
LEMMA CatchBindKeeps ==
    ASSUME IInv, CatchBind
    PROVE  IInv'
<1> DEFINE f == [Top EXCEPT !.at = "catch", !.run = TRUE]
<1>1. /\ Top.op = "try" /\ Top.at = "bind"
      /\ ctl' = Append(Front(ctl), f) /\ UNCHANGED <<stack, envs, exc>>
  BY DEF CatchBind, In, Goto
<1>2. EnvOwn(Top) = 0 /\ Own(Top) = 1 /\ Own(Top) # 0
  BY <1>1 DEF Own, Two, None, EnvOwn
<1>3. /\ Top \in Function /\ Len(stack) = Top.base + Own(Top) /\ Len(stack) \in Nat
      /\ Len(envs) = Top.envs + EnvOwn(Top) /\ Len(envs) <= MaxEnvs /\ Len(stack) <= MaxStack
      /\ Top.base \in Nat /\ Top.envs \in Nat /\ MaxStack \in Nat /\ Now
      /\ HeldFor(Top, stack, envs, heap) /\ stack \in Seq(Value) /\ envs \in Seq(Environment)
  BY Here
<1>4. "catch" \in Point /\ TRUE \in BOOLEAN
  BY DEF Point
<1>5. Is(f, Top, Top.op, "catch", Top.held, TRUE, Top.env)
  BY <1>3, <1>4, MovesRunning
<1> HIDE DEF f
<1>6. Own(f) = 1 /\ EnvOwn(f) = 0 /\ List(f) /\ ~ InBody(Top)
  BY <1>1, <1>5 DEF Is, Own, Two, None, EnvOwn, List, InBody
<1>7. Continues(f)
  BY <1>1, <1>5, <1>6 DEF Continues, Is
<1>8. Sound1 /\ Kept
  <2>1. CASE Top.env # 0
    <3>1. UNCHANGED globals /\ \E o \in FramesOf(ScopeOf(Top.env)) : heap' \in MemberStored(o, TopValue)
      BY <2>1 DEF CatchBind
    <3>2. PICK o : heap' \in MemberStored(o, TopValue)
      BY <3>1
    <3>3. HeapOK(heap') /\ RootsLive(heap', globals, stack, envs, exc)
      BY <1>2, <3>2, HeapStoresMember
    <3> QED
      BY <1>1, <3>1, <3>3, HeapChanges
  <2>2. CASE Top.env = 0
    <3>1. globals' = globals \cup ({TopValue} \cap Objs) /\ UNCHANGED heap
      BY <2>2 DEF CatchBind
    <3>2. TopValue \in Value /\ Alive(heap, TopValue)
      BY <1>2, TopValues
    <3>3. Sound1
      BY <1>1, <1>3, <3>1, <3>2 DEF Now, Sound1, Sound, Typed, RootsLive, Alive
    <3>4. Top.base <= Len(stack) /\ Top.envs <= Len(envs)
      BY <1>2, <1>3
    <3>5. Kept
      BY <1>1, <1>3, <3>4 DEF Kept, Agree, EnvsAgree
    <3> QED
      BY <3>3, <3>5
  <2> QED
    BY <2>1, <2>2
<1>9. f.base = Top.base /\ f.envs = Top.envs
  BY <1>5 DEF Is
<1>10. /\ Len(stack') = f.base + Own(f) /\ Len(stack') <= MaxStack
       /\ Len(envs') = f.envs + EnvOwn(f) /\ Len(envs') <= MaxEnvs
  BY <1>1, <1>2, <1>3, <1>6, <1>9
<1>11. HeldFor(f, stack', envs', heap')
  BY <1>1, <1>3, <1>5 DEF HeldFor, Is, Unrooted
<1> QED
  BY <1>1, <1>7, <1>8, <1>10, <1>11, GoOn

\* The innermost list ends with value v, which is no object at the top level.
LEMMA ListEnds ==
    ASSUME NEW c, NEW s, NEW e, NEW h, Frames(c, s, e, h), Len(s) \in Nat, Len(e) \in Nat,
           List(c[Len(c)]), NEW v \in Value, Alive(h, v), c[Len(c)].env = 0 => v = Plain
    PROVE  Frames(ListEndsWith(c, v), s, e, h)
<1> DEFINE i == Len(c)
           top == c[i]
           f1 == [top EXCEPT !.run = FALSE]
           f2 == [f1 EXCEPT !.held = v]
           f == IF f1.at = "finally" THEN f1 ELSE f2
           b == SubSeq(c, 1, i - 1)
<1>1. Control(c, Len(s), Len(e)) /\ \A l \in 1 .. Len(c) : HeldFor(c[l], s, e, h)
  BY DEF Frames
<1>2. c \in Seq(Function) /\ i \in 1 .. Len(c) /\ Len(c) # 0
  BY <1>1 DEF Control
<1>3. /\ top \in Function /\ FrameOK(i, top) /\ HeldFor(top, s, e, h)
      /\ Len(s) = top.base + Own(top) /\ Len(s) <= MaxStack
      /\ Len(e) = top.envs + EnvOwn(top) /\ Len(e) <= MaxEnvs
  BY <1>1, <1>2 DEF Control
<1>4. /\ List(top) /\ (top.env = 0 => v = Plain)
  OBVIOUS
<1>5. Front(c) = b /\ Last(c) = top
  BY <1>2, Ends
<1>6. ListEndsWith(c, v) = Append(b, f)
  BY <1>5 DEF ListEndsWith
<1> HIDE DEF top
<1>7. FALSE \in BOOLEAN
  OBVIOUS
<1>8. Is(f1, top, top.op, top.at, top.held, FALSE, top.env)
  BY <1>3, <1>7, Runs
<1> HIDE DEF f1
<1>9. f1 \in Function
  BY <1>8 DEF Is
<1>10. Is(f2, f1, f1.op, f1.at, v, f1.run, f1.env)
  BY <1>9, Holds
<1> HIDE DEF f2
<1>11. /\ f \in Function /\ f.op = top.op /\ f.at = top.at /\ f.env = top.env /\ ~ f.run
       /\ f.base = top.base /\ f.envs = top.envs
       /\ f.held = IF top.at = "finally" THEN top.held ELSE v
  BY <1>8, <1>10 DEF Is
<1> HIDE DEF f
<1>12. Own(f) = Own(top) /\ EnvOwn(f) = EnvOwn(top) /\ (InBody(top) => InBody(f))
  BY <1>11 DEF Own, EnvOwn, Two, None, InBody
<1>13. FrameOK(i, f)
  BY <1>3, <1>11, <1>12 DEF FrameOK
<1>14. HeldFor(f, s, e, h)
  <2>1. \/ top.op \in {"main", "call"} /\ top.at = "body"
        \/ top.op \in {"try", "tryfinally"} /\ top.at \in {"body", "catch", "finally"}
    BY <1>4 DEF List
  <2>2. CASE top.op = "main"
    <3>1. i = 1
      BY <1>3, <2>2 DEF FrameOK
    <3>2. top.env = 0
      BY <1>3, <3>1 DEF FrameOK
    <3>3. v = Plain /\ top.held = Plain
      BY <1>3, <1>4, <2>2, <3>2 DEF HeldFor, Unrooted
    <3> QED
      BY <1>11, <2>2, <3>3 DEF HeldFor, Unrooted
  <2>3. CASE top.op = "call"
    BY <1>11, <2>1, <2>3 DEF HeldFor, Alive
  <2>4. CASE top.op \in {"try", "tryfinally"}
    BY <1>3, <1>4, <1>11, <2>4 DEF HeldFor, Unrooted
  <2> QED
    BY <2>1, <2>2, <2>3, <2>4
<1>15. Keeps(f, s, e, s, e)
  <2>1. /\ top.base \in Nat /\ top.envs \in Nat /\ Own(top) \in 0 .. 2 /\ EnvOwn(top) \in 0 .. 1
    BY <1>3, Fields, Counts
  <2>2. top.base <= Len(s) /\ top.envs <= Len(e)
    BY <1>3, <2>1
  <2> QED
    BY <1>11, <2>2 DEF Keeps, Agree, EnvsAgree
<1>16. Frames(Append(SubSeq(c, 1, i - 1), f), s, e, h)
  <2>1. f.base = c[i].base /\ f.envs = c[i].envs /\ f.env = c[i].env /\ f.op = c[i].op
        /\ (InBody(c[i]) => InBody(f))
    BY <1>11, <1>12 DEF top
  <2>2. /\ Len(s) = f.base + Own(f) /\ Len(s) <= MaxStack
        /\ Len(e) = f.envs + EnvOwn(f) /\ Len(e) <= MaxEnvs
    BY <1>3, <1>11, <1>12
  <2> HIDE DEF i
  <2> QED
    BY <1>2, <1>11, <1>13, <1>14, <1>15, <2>1, <2>2, GoesOn
<1> QED
  BY <1>6, <1>16

\* A statement list ends without a result.
LEMMA ListEndKeeps ==
    ASSUME IInv, ListEnd
    PROVE  IInv'
<1>1. /\ Now /\ Frames(ctl, stack, envs, heap) /\ Top = ctl[Len(ctl)] /\ FrameOK(Len(ctl), Top)
      /\ Len(stack) \in Nat /\ Len(envs) \in Nat
  BY Here
<1>2. /\ Top.run /\ ctl' = ListEndsWith(ctl, Plain) /\ UNCHANGED <<heap, globals, stack, envs, exc>>
  BY DEF ListEnd
<1>3. List(ctl[Len(ctl)])
  BY <1>1, <1>2 DEF FrameOK
<1>4. Plain \in Value /\ Alive(heap, Plain)
  BY RootsAssumption DEF Value, Alive
<1>5. Frames(ListEndsWith(ctl, Plain), stack, envs, heap)
  BY <1>1, <1>3, <1>4, ListEnds
<1> QED
  BY <1>1, <1>2, <1>5 DEF IInv, Now, Sound, Typed, RootsLive

\* The function that waits for the innermost one.
LEMMA Caller ==
    ASSUME IInv, Top.op # "main"
    PROVE  /\ Len(Front(ctl)) = Len(ctl) - 1 /\ Len(ctl) > 1
           /\ Awaits(Front(ctl)[Len(Front(ctl))], Top)
           /\ Front(ctl)[Len(Front(ctl))] \in Function
           /\ Len(Front(ctl)) \in 1 .. Len(ctl) - 1
<1>1. /\ Frames(ctl, stack, envs, heap) /\ Top = ctl[Len(ctl)] /\ FrameOK(Len(ctl), Top)
      /\ ctl \in Seq(Function) /\ Len(ctl) \in Nat /\ Len(ctl) \in 1 .. Len(ctl)
  BY Here
<1>2. Len(ctl) > 1
  BY <1>1, Outermost
<1> DEFINE p == Len(ctl) - 1
<1>3. p \in 1 .. Len(ctl) - 1 /\ p + 1 = Len(ctl) /\ Len(ctl) # 0
  BY <1>1, <1>2
<1>4. Len(Front(ctl)) = p /\ Front(ctl)[p] = ctl[p] /\ ctl[p] \in Function
  BY <1>1, <1>3, Ends
<1>5. Awaits(ctl[p], ctl[p + 1])
  BY <1>1, <1>3 DEF Frames, Control
<1> QED
  BY <1>1, <1>2, <1>3, <1>4, <1>5

\* execute_return_statement: the value returned leaves the stack for the result
\* of the list.
LEMMA ReturnPopKeeps ==
    ASSUME IInv, ReturnPop
    PROVE  IInv'
<1> DEFINE c == Front(ctl)
           f == c[Len(c)]
           v == TopValue
<1>1. /\ Top.op = "return" /\ Top.at = "pop" /\ stack' = Front(stack)
      /\ ctl' = ListEndsWith(c, v) /\ UNCHANGED <<heap, globals, envs, exc>>
  BY DEF ReturnPop, In
<1>2. Top.op \notin Expr /\ Own(Top) = 1 /\ EnvOwn(Top) = 0 /\ Top.op # "main" /\ Own(Top) # 0
  BY <1>1 DEF Expr, Own, Two, None, EnvOwn
<1>3. /\ Len(stack) = Top.base + Own(Top) /\ Len(envs) = Top.envs + EnvOwn(Top)
      /\ Top.base \in Nat /\ Top.envs \in Nat /\ Len(stack) \in Nat /\ Len(envs) \in Nat
      /\ Frames(ctl, stack, envs, heap) /\ Top = ctl[Len(ctl)] /\ FrameOK(Len(ctl), Top)
  BY Here
<1>4. HeapOK(heap') /\ RootsLive(heap', globals, stack, envs, exc)
  BY <1>1, HeapStays
<1>5. Sound1 /\ Kept /\ Len(stack') = Len(stack) - 1
  BY <1>1, <1>2, <1>4, StackShrinks
<1>6. Len(ctl) > 1 /\ Awaits(f, Top)
  BY <1>2, Caller
<1>7. v \in Value /\ Alive(heap, v)
  BY <1>2, TopValues
<1>8. List(f) /\ f.env # 0
  <2>1. Top.env # 0
    BY <1>1, <1>3 DEF FrameOK
  <2> QED
    BY <1>1, <1>2, <1>6, <2>1 DEF Awaits
<1>9. Frames(c, stack', envs, heap)
  <2>1. Keeps(ctl[Len(ctl)], stack, envs, stack', envs)
    BY <1>1, <1>3, <1>5 DEF Keeps, Kept
  <2>2. Len(stack') = Top.base /\ Len(envs) = Top.envs
    BY <1>2, <1>3, <1>5
  <2>3. Len(stack') = ctl[Len(ctl)].base + (IF ctl[Len(ctl)].op \in Expr THEN 1 ELSE 0)
    BY <1>2, <1>3, <2>2
  <2> QED
    BY <1>3, <1>6, <2>1, <2>2, <2>3, Returns
<1> HIDE DEF c, v
<1>10. Len(stack') \in Nat
  BY <1>2, <1>3, <1>5
<1>11. Frames(ListEndsWith(c, v), stack', envs, heap)
  BY <1>3, <1>7, <1>8, <1>9, <1>10, ListEnds
<1> QED
  BY <1>1, <1>5, <1>11 DEF IInv, Sound1, Sound

-----------------------------------------------------------------------------
(* longjmp. *)

\* A set of positions has a last one.
LEMMA LastOne ==
    ASSUME NEW n \in Nat, NEW C \in SUBSET (1 .. n), C # {}
    PROVE  \E x \in C : \A y \in C : y <= x
<1> DEFINE U == {k \in Nat : n - k \in C}
           R == {ss \in Nat \X Nat : ss[1] < ss[2]}
<1>1. U # {} /\ U \subseteq Nat
  <2>1. PICK y \in C : TRUE
    OBVIOUS
  <2>2. y \in Int /\ n - y \in Nat /\ n - (n - y) = y
    OBVIOUS
  <2> QED
    BY <2>2
<1>2. IsWellFoundedOn(R, Nat)
  BY NatLessThanWellFounded DEF OpToRel
<1>3. \E x \in U : \A y \in U : <<y, x>> \notin R
  <2> HIDE DEF R, U
  <2> QED
    BY <1>1, <1>2, WFMin
<1>4. PICK x \in U : \A y \in U : <<y, x>> \notin R
  BY <1>3
<1>5. x \in Nat /\ n - x \in C
  OBVIOUS
<1>6. ASSUME NEW y \in C
      PROVE  y <= n - x
  <2>1. y \in Int /\ n - y \in Nat /\ n - (n - y) = y
    OBVIOUS
  <2>2. n - y \in U
    BY <2>1
  <2>3. ~(n - y < x)
    BY <1>4, <1>5, <2>1, <2>2
  <2> QED
    BY <1>5, <2>1, <2>3
<1> QED
  BY <1>5, <1>6

\* The last of the try statements in force.
Catcher(c) == CHOOSE n \in Catchers(c) : \A m \in Catchers(c) : m <= n

\* Its jmp_buf's function is still in progress, and its place on the stack and
\* its environment are still there.
LEMMA Catches ==
    ASSUME NEW c, NEW n, NEW m, Control(c, n, m), Catchers(c) # {}
    PROVE  /\ Catcher(c) \in 1 .. Len(c)
           /\ c[Catcher(c)].op \in {"try", "tryfinally"} /\ c[Catcher(c)].at = "body"
           /\ c[Catcher(c)].base \in 0 .. n /\ c[Catcher(c)].envs \in 0 .. m
           /\ c[Catcher(c)].base < MaxStack /\ n \in Nat /\ m \in Nat
<1> DEFINE i == Catcher(c)
           l == Len(c)
<1>1. c \in Seq(Function) /\ l \in Nat /\ l \in 1 .. l /\ DOMAIN c = 1 .. l
  BY DEF Control
<1>2. Catchers(c) \subseteq 1 .. l
  BY <1>1 DEF Catchers
<1>3. i \in Catchers(c)
  <2>1. \E x \in Catchers(c) : \A y \in Catchers(c) : y <= x
    <3> HIDE DEF l
    <3> QED
      BY <1>1, <1>2, LastOne
  <2> QED
    BY <2>1 DEF Catcher
<1>4. i \in 1 .. l /\ c[i].op \in {"try", "tryfinally"} /\ c[i].at = "body"
  BY <1>1, <1>3 DEF Catchers
<1> HIDE DEF i
<1>5. FrameOK(i, c[i]) /\ c[i] \in Function /\ c[l] \in Function
  BY <1>1, <1>4 DEF Control
<1>6. /\ c[i].base \in Nat /\ c[i].envs \in Nat /\ c[l].base \in Nat /\ c[l].envs \in Nat
      /\ Own(c[l]) \in 0 .. 2 /\ EnvOwn(c[l]) \in 0 .. 1
  BY <1>5, Fields, Counts
<1>7. Own(c[i]) = 0 /\ EnvOwn(c[i]) = 0 /\ Waits(c[i]) = 0
  BY <1>4 DEF Own, Two, None, EnvOwn, Waits, List
<1>8. n = c[l].base + Own(c[l]) /\ m = c[l].envs + EnvOwn(c[l])
  BY DEF Control
<1>9. c[i].base <= c[l].base /\ c[i].envs <= c[l].envs
  <2>1. CASE i = l
    BY <1>6, <2>1
  <2>2. CASE i # l
    <3>1. i < l
      <4>1. i \in Int /\ i <= l
        BY <1>1, <1>4
      <4> HIDE DEF l
      <4> QED
        BY <1>1, <2>2, <4>1
    <3>2. c[i].base + Waits(c[i]) <= c[l].base /\ c[i].envs + EnvOwn(c[i]) <= c[l].envs
      BY <1>1, <1>4, <3>1 DEF Control
    <3> QED
      BY <1>6, <1>7, <3>2
  <2> QED
    BY <2>1, <2>2
<1>10. n \in Nat /\ m \in Nat /\ c[i].base <= n /\ c[i].envs <= m
  BY <1>6, <1>8, <1>9
<1>11. i # 1
  BY <1>4, <1>5 DEF FrameOK
<1>12. c[i].base < MaxStack
  BY <1>5, <1>11 DEF FrameOK
<1> QED
  BY <1>4, <1>6, <1>10, <1>12 DEF i

\* What is left of the environments.
LEMMA EnvsCut ==
    ASSUME NEW h, NEW e \in Seq(Environment), EnvsLive(h, e), NEW n \in 0 .. Len(e)
    PROVE  /\ SubSeq(e, 1, n) \in Seq(Environment) /\ Len(SubSeq(e, 1, n)) = n
           /\ EnvsLive(h, SubSeq(e, 1, n)) /\ EnvsAgree(e, SubSeq(e, 1, n), n)
<1>1. /\ SubSeq(e, 1, n) \in Seq(Environment) /\ Len(SubSeq(e, 1, n)) = n
      /\ \A i \in 1 .. n : SubSeq(e, 1, n)[i] = e[i] /\ i \in 1 .. Len(e)
  BY Prefix
<1> QED
  BY <1>1 DEF EnvsLive, EnvsAgree

\* Nobody catches the exception: the main program is alone, with what the
\* global variables lead to.
LEMMA Uncaught ==
    ASSUME NEW c, Frames(c, stack, envs, heap), Typed(globals, stack, envs, exc),
           NEW h, HeapOK(h), RootsLive(h, globals, stack, envs, exc),
           NEW v, Unwind(h, c, v), Catchers(c) = {}, UNCHANGED globals
    PROVE  IInv'
<1> DEFINE d == SubSeq(c, 1, 1)
           none == << >>
<1>1. /\ stack' = none /\ envs' = none /\ exc' = Plain /\ ctl' = d
      /\ heap' = Swept(h, globals)
  <2>1. stack' = << >> /\ envs' = << >> /\ exc' = Plain /\ ctl' = SubSeq(c, 1, 1)
    BY Zenon DEF Unwind
  <2>2. heap' = [o \in Objs |-> IF o \in Marked(h, globals) THEN h[o] ELSE Free]
    BY Zenon DEF Unwind
  <2> QED
    BY <2>1, <2>2 DEF Swept
<1>2. Control(c, Len(stack), Len(envs)) /\ \A l \in 1 .. Len(c) : HeldFor(c[l], stack, envs, heap)
  BY DEF Frames
<1>3. c \in Seq(Function) /\ 1 \in 0 .. Len(c) /\ 1 \in 1 .. Len(c)
  BY <1>2, RootsAssumption DEF Control
<1>4. c[1].op = "main" /\ c[1].base = 0 /\ c[1].envs = 0
  BY <1>2, <1>3 DEF Control, FrameOK
<1>5. Own(c[1]) = 0 /\ EnvOwn(c[1]) = 0
  BY <1>4 DEF Own, Two, None, EnvOwn
<1>6. c[1].held = Plain
  BY <1>2, <1>3, <1>4 DEF HeldFor, Unrooted
<1>7. MaxStack \in Nat /\ MaxEnvs \in Nat
  BY RootsAssumption
<1> DEFINE k == 0
<1>8. k = c[1].base + Own(c[1]) /\ k <= MaxStack /\ k = c[1].envs + EnvOwn(c[1]) /\ k <= MaxEnvs
  BY <1>4, <1>5, <1>7
<1> HIDE DEF k
<1>9. Control(d, k, k)
  BY <1>2, <1>3, <1>8, Cut
<1>10. Len(d) = 1 /\ \A l \in 1 .. 1 : d[l] = c[l]
  BY <1>3, Prefix
<1> HIDE DEF d
<1>11. d[1] = c[1]
  BY <1>10
<1>12. HeldFor(d[1], none, none, heap')
  BY <1>4, <1>6, <1>11 DEF HeldFor, Unrooted
<1>13. Len(none) = 0 /\ none \in Seq(Value) /\ none \in Seq(Environment)
  OBVIOUS
<1> HIDE DEF none
<1>14. Frames(d, none, none, heap')
  BY <1>9, <1>10, <1>12, <1>13 DEF Frames, k
<1>15. HeapOK(heap') /\ \A o \in globals : IsLive(heap', o)
  <2>1. globals \subseteq Objs /\ \A o \in globals : IsLive(h, o)
    BY DEF Typed, RootsLive
  <2> QED
    BY <1>1, <2>1, Sweeps
<1>16. Plain \in Value /\ Plain \notin Objs
  BY RootsAssumption DEF Value
<1>17. Sound1
  BY <1>1, <1>13, <1>15, <1>16
     DEF Sound1, Sound, Typed, RootsLive, StackLive, EnvsLive, Alive
<1> QED
  BY <1>1, <1>14, <1>17 DEF IInv, Sound1

\* A catch block gets the exception, on the stack as it was when the try
\* statement began.
LEMMA Caught ==
    ASSUME NEW c, Frames(c, stack, envs, heap), Typed(globals, stack, envs, exc),
           NEW h, HeapOK(h), RootsLive(h, globals, stack, envs, exc),
           NEW v \in Value, Alive(h, v), Unwind(h, c, v), Catchers(c) # {}, UNCHANGED globals
    PROVE  IInv'
<1> DEFINE i == Catcher(c)
           f0 == c[i]
           f1 == [f0 EXCEPT !.at = "bind", !.run = FALSE]
           f2 == [f0 EXCEPT !.at = "finally", !.run = TRUE]
           t1 == Leaving(stack, f0.base, v)
           t2 == SubSeq(stack, 1, f0.base)
           e == SubSeq(envs, 1, f0.envs)
<1>1. /\ envs' = e /\ heap' = h
      /\ f0.op = "try" => /\ stack' = t1 /\ exc' = Plain
                          /\ ctl' = Append(SubSeq(c, 1, i - 1), f1)
      /\ f0.op # "try" => /\ stack' = t2 /\ exc' = v
                          /\ ctl' = Append(SubSeq(c, 1, i - 1), f2)
  BY DEF Unwind, Catcher, Leaving
<1>2. Control(c, Len(stack), Len(envs)) /\ \A l \in 1 .. Len(c) : HeldFor(c[l], stack, envs, heap)
  BY DEF Frames
<1>3. /\ i \in 1 .. Len(c) /\ f0.op \in {"try", "tryfinally"} /\ f0.at = "body"
      /\ f0.base \in 0 .. Len(stack) /\ f0.envs \in 0 .. Len(envs)
      /\ f0.base < MaxStack /\ Len(stack) \in Nat /\ Len(envs) \in Nat
  BY <1>2, Catches
<1>4. /\ f0 \in Function /\ FrameOK(i, f0) /\ HeldFor(f0, stack, envs, heap)
  BY <1>2, <1>3 DEF Control
<1>5. /\ stack \in Seq(Value) /\ envs \in Seq(Environment) /\ globals \subseteq Objs
      /\ StackLive(h, stack) /\ EnvsLive(h, envs) /\ \A o \in globals : IsLive(h, o)
  BY DEF Typed, RootsLive
<1> HIDE DEF i
<1>6. "bind" \in Point /\ "finally" \in Point /\ FALSE \in BOOLEAN /\ TRUE \in BOOLEAN
  BY DEF Point
<1> HIDE DEF f0
<1>7. Is(f1, f0, f0.op, "bind", f0.held, FALSE, f0.env)
  BY <1>4, <1>6, MovesRunning
<1>8. Is(f2, f0, f0.op, "finally", f0.held, TRUE, f0.env)
  BY <1>4, <1>6, MovesRunning
<1> HIDE DEF f1, f2
<1>9. /\ t1 \in Seq(Value) /\ Len(t1) = f0.base + 1 /\ StackLive(h, t1) /\ Agree(stack, t1, f0.base)
  BY <1>3, <1>5, Leaves
<1>10. /\ t2 \in Seq(Value) /\ Len(t2) = f0.base /\ StackLive(h, t2) /\ Agree(stack, t2, f0.base)
  BY <1>3, <1>5, Cuts
<1>11. /\ e \in Seq(Environment) /\ Len(e) = f0.envs /\ EnvsLive(h, e) /\ EnvsAgree(envs, e, f0.envs)
  BY <1>3, <1>5, EnvsCut
<1> HIDE DEF t1, t2, e
<1>12. MaxStack \in Nat /\ MaxEnvs \in Nat /\ f0.base \in Nat /\ f0.envs \in Nat /\ f0.envs <= MaxEnvs
  BY <1>4, Fields
<1>13. CASE f0.op = "try"
  <2>1. EnvOwn(f1) = 0 /\ Own(f1) = 1 /\ ~ InBody(f0) /\ EnvOwn(f0) = 0
    BY <1>7, <1>13 DEF Is, EnvOwn, Own, Two, None, InBody
  <2>2. f1 \in Function /\ f1.base = f0.base /\ f1.envs = f0.envs /\ f1.env = f0.env /\ f1.op = f0.op
    BY <1>7 DEF Is
  <2>3. FrameOK(i, f1)
    BY <1>4, <1>7, <1>13, <2>1, <2>2 DEF FrameOK, Is
  <2>4. HeldFor(f1, t1, e, h)
    BY <1>4, <1>7, <1>13 DEF HeldFor, Is, Unrooted
  <2>5. Keeps(f1, stack, envs, t1, e)
    BY <1>3, <1>9, <1>11, <1>12, <2>2 DEF Keeps
  <2>6. /\ Len(t1) = f1.base + Own(f1) /\ Len(t1) <= MaxStack
        /\ Len(e) = f1.envs + EnvOwn(f1) /\ Len(e) <= MaxEnvs
    BY <1>3, <1>9, <1>11, <1>12, <2>1, <2>2
  <2>7. Frames(Append(SubSeq(c, 1, i - 1), f1), t1, e, h)
    BY <1>3, <2>1, <2>2, <2>3, <2>4, <2>5, <2>6, GoesOn DEF f0
  <2>8. Plain \in Value /\ Plain \notin Objs
    BY RootsAssumption DEF Value
  <2>9. Sound1
    BY <1>1, <1>5, <1>9, <1>11, <1>13, <2>8 DEF Sound1, Sound, Typed, RootsLive, Alive
  <2> QED
    BY <1>1, <1>13, <2>7, <2>9 DEF IInv, Sound1
<1>14. CASE f0.op = "tryfinally"
  <2>1. EnvOwn(f2) = 0 /\ Own(f2) = 0 /\ ~ InBody(f0) /\ EnvOwn(f0) = 0 /\ List(f2)
    BY <1>8, <1>14 DEF Is, EnvOwn, Own, Two, None, InBody, List
  <2>2. f2 \in Function /\ f2.base = f0.base /\ f2.envs = f0.envs /\ f2.env = f0.env /\ f2.op = f0.op
    BY <1>8 DEF Is
  <2>3. FrameOK(i, f2)
    BY <1>4, <1>8, <1>14, <2>1, <2>2 DEF FrameOK, Is
  <2>4. HeldFor(f2, t2, e, h)
    BY <1>4, <1>8, <1>14 DEF HeldFor, Is, Unrooted
  <2>5. Keeps(f2, stack, envs, t2, e)
    BY <1>3, <1>10, <1>11, <1>12, <2>2 DEF Keeps
  <2>6. /\ Len(t2) = f2.base + Own(f2) /\ Len(t2) <= MaxStack
        /\ Len(e) = f2.envs + EnvOwn(f2) /\ Len(e) <= MaxEnvs
    BY <1>3, <1>10, <1>11, <1>12, <2>1, <2>2
  <2>7. Frames(Append(SubSeq(c, 1, i - 1), f2), t2, e, h)
    BY <1>3, <2>1, <2>2, <2>3, <2>4, <2>5, <2>6, GoesOn DEF f0
  <2>8. Sound1
    BY <1>1, <1>5, <1>10, <1>11, <1>14 DEF Sound1, Sound, Typed, RootsLive
  <2> QED
    BY <1>1, <1>14, <2>7, <2>8 DEF IInv, Sound1
<1> QED
  BY <1>3, <1>13, <1>14

\* longjmp keeps the invariant.
LEMMA Unwinds ==
    ASSUME NEW c, Frames(c, stack, envs, heap), Typed(globals, stack, envs, exc),
           NEW h, HeapOK(h), RootsLive(h, globals, stack, envs, exc),
           NEW v \in Value, Alive(h, v), Unwind(h, c, v), UNCHANGED globals
    PROVE  IInv'
<1>1. CASE Catchers(c) = {}
  BY <1>1, Uncaught
<1>2. CASE Catchers(c) # {}
  BY <1>2, Caught
<1> QED
  BY <1>1, <1>2

\* execute_throw_statement
LEMMA ThrowPopKeeps ==
    ASSUME IInv, ThrowPop
    PROVE  IInv'
<1> DEFINE v == TopValue
<1>1. Top.op = "throw" /\ Top.at = "pop" /\ Unwind(heap, ctl, v) /\ UNCHANGED globals
  BY DEF ThrowPop, In
<1>2. Own(Top) # 0
  BY <1>1 DEF Own, Two, None
<1>3. v \in Value /\ Alive(heap, v)
  BY <1>2, TopValues
<1> HIDE DEF v
<1>4. Now /\ Frames(ctl, stack, envs, heap)
  BY Here
<1>5. Typed(globals, stack, envs, exc) /\ HeapOK(heap) /\ RootsLive(heap, globals, stack, envs, exc)
  BY <1>4 DEF Now, Sound
<1> QED
  BY <1>1, <1>3, <1>4, <1>5, Unwinds

\* crb_runtime_error: the exception is a new object.
LEMMA TypeErrorKeeps ==
    ASSUME IInv, TypeError
    PROVE  IInv'
<1> DEFINE k == "box"
<1>1. PICK a \in Alloc(k, {}) : Unwind(a.heap, ctl, a.obj)
  BY DEF TypeError
<1>2. UNCHANGED globals
  BY DEF TypeError
<1>3. k \in {"string", "box", "scope"}
  OBVIOUS
<1> HIDE DEF k
<1>4. Now /\ Frames(ctl, stack, envs, heap)
  BY Here
<1>5. /\ HeapOK(a.heap) /\ RootsLive(a.heap, globals, stack, envs, exc)
      /\ a.obj \in Objs /\ IsLive(a.heap, a.obj)
  BY <1>3, <1>4, NewObject
<1>6. Typed(globals, stack, envs, exc)
  BY <1>4 DEF Now, Sound
<1>7. a.obj \in Value /\ Alive(a.heap, a.obj)
  BY <1>5 DEF Value, Alive
<1> QED
  BY <1>1, <1>2, <1>4, <1>5, <1>6, <1>7, Unwinds

\* The end of a finally block: a pending exception goes on, or the statement
\* ends with the result that waited.
LEMMA FinallyEndsKeeps ==
    ASSUME IInv, FinallyEnds
    PROVE  IInv'
<1> DEFINE c == Front(ctl)
           f == c[Len(c)]
<1>1. /\ Top.op \in {"try", "tryfinally"} /\ Top.at = "finally" /\ UNCHANGED globals
      /\ \/ exc # Plain /\ Unwind(heap, c, exc)
         \/ /\ Top.held \in Objs => IsLive(heap, Top.held)
            /\ ctl' = IF Top.held = Plain THEN c ELSE ListEndsWith(c, Top.held)
            /\ UNCHANGED <<heap, stack, envs, exc>>
  BY DEF FinallyEnds, ListOver, In
<1>2. Top.op \notin Expr /\ Own(Top) = 0 /\ EnvOwn(Top) = 0 /\ Top.op # "main"
  BY <1>1 DEF Expr, Own, Two, None, EnvOwn
<1>3. /\ Len(stack) = Top.base + Own(Top) /\ Len(envs) = Top.envs + EnvOwn(Top)
      /\ Top.base \in Nat /\ Top.envs \in Nat /\ Len(stack) \in Nat /\ Len(envs) \in Nat
      /\ Frames(ctl, stack, envs, heap) /\ Top = ctl[Len(ctl)] /\ Top \in Function
      /\ HeldFor(Top, stack, envs, heap) /\ Now
  BY Here
<1>4. /\ Typed(globals, stack, envs, exc) /\ HeapOK(heap)
      /\ RootsLive(heap, globals, stack, envs, exc)
  BY <1>3 DEF Now, Sound
<1>5. Len(ctl) > 1 /\ Awaits(f, Top)
  BY <1>2, Caller
<1>6. Frames(c, stack, envs, heap)
  <2>1. Len(stack) = Top.base /\ Len(envs) = Top.envs
    BY <1>2, <1>3
  <2>2. Keeps(ctl[Len(ctl)], stack, envs, stack, envs)
    BY <1>3, <2>1 DEF Keeps, Agree, EnvsAgree
  <2>3. Len(stack) = ctl[Len(ctl)].base + (IF ctl[Len(ctl)].op \in Expr THEN 1 ELSE 0)
    BY <1>2, <1>3, <2>1
  <2> QED
    BY <1>3, <1>5, <2>1, <2>2, <2>3, Returns
<1>7. CASE Unwind(heap, c, exc)
  <2>1. exc \in Value /\ Alive(heap, exc)
    BY <1>4 DEF Typed, RootsLive
  <2> HIDE DEF c
  <2> QED
    BY <1>1, <1>4, <1>6, <1>7, <2>1, Unwinds
<1>8. CASE /\ Alive(heap, Top.held)
           /\ ctl' = IF Top.held = Plain THEN c ELSE ListEndsWith(c, Top.held)
           /\ UNCHANGED <<heap, stack, envs, exc>>
  <2>1. CASE Top.held = Plain
    BY <1>1, <1>4, <1>6, <1>8, <2>1 DEF IInv, Sound
  <2>2. CASE Top.held # Plain
    <3>1. List(f)
      BY <1>2, <1>5 DEF Awaits
    <3>2. f.env = 0 => Top.held = Plain
      <4>1. Top.env = f.env
        BY <1>1, <1>5 DEF Awaits
      <4> QED
        BY <1>1, <1>3, <4>1 DEF HeldFor
    <3>3. Top.held \in Value /\ Alive(heap, Top.held)
      BY <1>3, <1>8, Fields
    <3> DEFINE v == Top.held
    <3> HIDE DEF c, v
    <3>4. Frames(ListEndsWith(c, v), stack, envs, heap)
      BY <1>3, <1>6, <3>1, <3>2, <3>3, ListEnds DEF v
    <3>5. ctl' = ListEndsWith(c, v)
      BY <1>8, <2>2 DEF v
    <3> QED
      BY <1>1, <1>4, <1>8, <3>4, <3>5 DEF IInv, Sound
  <2> QED
    BY <2>1, <2>2
<1> QED
  BY <1>1, <1>7, <1>8 DEF Alive

\* The statements keep the invariant.
LEMMA StatementsKeep ==
    ASSUME IInv, Statements
    PROVE  IInv'
<1>1. CASE Statement \/ ReturnStatement \/ ThrowStatement
  BY <1>1, StatementKeeps
<1>2. CASE Drop
  BY <1>2, DropKeeps
<1>3. CASE ReturnPop
  BY <1>3, ReturnPopKeeps
<1>4. CASE ListEnd
  BY <1>4, ListEndKeeps
<1>5. CASE \E op \in {"try", "tryfinally"} : Try(op)
  BY <1>5, TryKeeps
<1>6. CASE TryBlockEnds
  BY <1>6, TryBlockEndsKeeps
<1>7. CASE CatchBind
  BY <1>7, CatchBindKeeps
<1>8. CASE ThrowPop
  BY <1>8, ThrowPopKeeps
<1>9. CASE TypeError
  BY <1>9, TypeErrorKeeps
<1>10. CASE FinallyEnds
  BY <1>10, FinallyEndsKeeps
<1> QED
  BY <1>1, <1>2, <1>3, <1>4, <1>5, <1>6, <1>7, <1>8, <1>9, <1>10 DEF Statements

-----------------------------------------------------------------------------
(* The theorems. *)

\* The main program begins, with nothing allocated.
LEMMA Started == ASSUME Init PROVE IInv
<1> DEFINE f == [op |-> "main", at |-> "body", held |-> Plain, run |-> TRUE,
                 env |-> 0, base |-> 0, envs |-> 0]
<1>1. /\ heap = [o \in Objs |-> Free] /\ globals = {} /\ stack = << >> /\ envs = << >>
      /\ exc = Plain
  BY DEF Init
<1>2. ctl = <<f>>
  <2> DEFINE r(b, n, m) == [op |-> "main", at |-> "body", held |-> Plain, run |-> b,
                            env |-> 0, base |-> n, envs |-> m]
             no == FALSE
             yes == TRUE
  <2> HIDE DEF no, yes
  <2>1. Len(stack) = 0 /\ Len(envs) = 0
    BY <1>1
  <2>2. ctl = <<[r(no, Len(stack), Len(envs)) EXCEPT !.run = yes]>>
    BY DEF Init, Func, no, yes
  <2>3. [r(no, Len(stack), Len(envs)) EXCEPT !.run = yes] = r(yes, Len(stack), Len(envs))
    OBVIOUS
  <2>4. r(yes, 0, 0) = f
    BY DEF yes
  <2> QED
    BY <2>1, <2>2, <2>3, <2>4
<1>3. /\ f.op = "main" /\ f.at = "body" /\ f.held = Plain /\ f.run = TRUE /\ f.env = 0
      /\ f.base = 0 /\ f.envs = 0
  OBVIOUS
<1>4. f \in Function
  <2>1. "main" \in Operation /\ "body" \in Point /\ Plain \in Value
    BY DEF Operation, Point, Value
  <2>2. 0 \in 0 .. MaxEnvs /\ 0 \in 0 .. MaxStack
    BY RootsAssumption
  <2> QED
    BY <2>1, <2>2 DEF Function
<1> HIDE DEF f
<1>5. Len(ctl) = 1 /\ ctl[1] = f /\ ctl \in Seq(Function)
  BY <1>2, <1>4
<1>6. /\ Len(stack) = 0 /\ Len(envs) = 0 /\ stack \in Seq(Value) /\ envs \in Seq(Environment)
  BY <1>1
<1>7. MaxStack \in Nat /\ MaxEnvs \in Nat /\ MaxCtl \in Nat /\ MaxCtl # 0
  BY RootsAssumption
<1>8. Own(f) = 0 /\ EnvOwn(f) = 0 /\ List(f)
  BY <1>3 DEF Own, Two, None, EnvOwn, List
<1>9. FrameOK(1, f)
  BY <1>3, <1>8 DEF FrameOK
<1>10. Control(ctl, 0, 0)
  BY <1>3, <1>5, <1>7, <1>8, <1>9 DEF Control
<1>11. HeldFor(f, stack, envs, heap)
  BY <1>3 DEF HeldFor, Unrooted
<1>12. Frames(ctl, stack, envs, heap)
  BY <1>5, <1>6, <1>10, <1>11 DEF Frames
<1>13. Free \in Object /\ Free.refs = {}
  BY DEF Free, Object
<1>14. HeapOK(heap)
  BY <1>1, <1>13 DEF HeapOK
<1>15. Plain \in Value /\ Plain \notin Objs
  BY RootsAssumption DEF Value
<1>16. Typed(globals, stack, envs, exc) /\ RootsLive(heap, globals, stack, envs, exc)
  BY <1>1, <1>6, <1>15 DEF Typed, RootsLive, StackLive, EnvsLive, Alive
<1> QED
  BY <1>12, <1>14, <1>16 DEF IInv, Sound

\* The inductive invariant of every run of the evaluator: what Sound says of
\* the heap and the roots, and Frames of the functions in progress.
THEOREM Invariance == Spec => []IInv
<1>1. Init => IInv
  BY Started
<1>2. IInv /\ [Next]_vars => IInv'
  <2> SUFFICES ASSUME IInv, [Next]_vars PROVE IInv'
    OBVIOUS
  <2>1. CASE Expressions
    BY <2>1, ExpressionsKeep
  <2>2. CASE CallSteps
    BY <2>2, CallStepsKeep
  <2>3. CASE Statements
    BY <2>3, StatementsKeep
  <2>4. CASE UNCHANGED vars
    <3>1. /\ heap' = heap /\ globals' = globals /\ stack' = stack /\ envs' = envs
          /\ exc' = exc /\ ctl' = ctl
      BY <2>4 DEF vars
    <3>2. /\ Sound(heap, globals, stack, envs, exc) /\ Frames(ctl, stack, envs, heap)
      BY DEF IInv
    <3> QED
      BY <3>1, <3>2 DEF IInv
  <2> QED
    BY <2>1, <2>2, <2>3, <2>4 DEF Next
<1> QED
  BY <1>1, <1>2, PTL DEF Spec

\* What the invariant says of the types: the environment a function looks names
\* up in is on the chain.
LEMMA Types == ASSUME IInv PROVE TypeOK
<1>1. /\ Now /\ Frames(ctl, stack, envs, heap) /\ Len(stack) \in Nat /\ Len(envs) \in Nat
      /\ Len(stack) <= MaxStack /\ Len(envs) <= MaxEnvs
      /\ ctl \in Seq(Function) /\ Len(ctl) \in Nat /\ Len(ctl) \in 1 .. Len(ctl)
  BY Here
<1>2. Control(ctl, Len(stack), Len(envs))
  BY <1>1 DEF Frames
<1> DEFINE l == Len(ctl)
<1>3. ASSUME NEW i \in 1 .. l
      PROVE  ctl[i].env <= Len(envs)
  <2>1. FrameOK(i, ctl[i]) /\ ctl[i] \in Function /\ ctl[l] \in Function
    BY <1>1, <1>2 DEF Control
  <2>2. /\ ctl[i].env \in Nat /\ ctl[i].envs \in Nat /\ ctl[l].envs \in Nat
        /\ EnvOwn(ctl[i]) \in 0 .. 1 /\ EnvOwn(ctl[l]) \in 0 .. 1
    BY <2>1, Fields, Counts
  <2>3. ctl[i].env <= ctl[i].envs + EnvOwn(ctl[i])
    BY <2>1 DEF FrameOK
  <2>4. Len(envs) = ctl[l].envs + EnvOwn(ctl[l])
    BY <1>2 DEF Control
  <2>5. CASE i = l
    BY <2>3, <2>4, <2>5
  <2>6. CASE i # l
    <3>1. i < l
      <4>1. i \in Int /\ i <= l /\ l \in Int
        BY <1>1
      <4> HIDE DEF l
      <4> QED
        BY <2>6, <4>1
    <3>2. ctl[i].envs + EnvOwn(ctl[i]) <= ctl[l].envs
      BY <1>1, <1>2, <3>1 DEF Control
    <3> QED
      BY <2>2, <2>3, <2>4, <3>2
  <2> QED
    BY <2>5, <2>6
<1>4. /\ heap \in [Objs -> Object] /\ globals \subseteq Objs /\ stack \in Seq(Value)
      /\ envs \in Seq(Environment) /\ exc \in Value
  BY <1>1 DEF Now, Sound, Typed, HeapOK
<1>5. Len(ctl) \in 1 .. MaxCtl /\ DOMAIN ctl = 1 .. l
  BY <1>1, <1>2 DEF Control
<1> QED
  BY <1>1, <1>3, <1>4, <1>5 DEF TypeOK

\* Whatever is evaluated, called, thrown or caught, and wherever a collection
\* falls, no root and no live object ever refers to an object that was disposed
\* of.
THEOREM NothingEverDangles == Spec => []NothingDangles
<1>1. IInv => NothingDangles
  <2> SUFFICES ASSUME IInv PROVE NothingDangles
    OBVIOUS
  <2>1. TypeOK
    BY Types
  <2>2. /\ Typed(globals, stack, envs, exc) /\ HeapOK(heap)
        /\ RootsLive(heap, globals, stack, envs, exc)
    BY DEF IInv, Sound
  <2>3. \A o \in Roots : IsLive(heap, o)
    BY <2>2, RootsOf
  <2>4. \A o \in Objs : \A x \in heap[o].refs : IsLive(heap, x)
    BY <2>2 DEF HeapOK
  <2> QED
    BY <2>1, <2>3, <2>4 DEF NothingDangles
<1> QED
  BY <1>1, Invariance, PTL

\* The literal under construction, the scope chain of a call in progress, the
\* array a native function fills and the value a function returns stay alive,
\* though a C variable refers to them: each is where a root finds it.
THEOREM HeldObjectsStay == Spec => []HeldObjectsLive
<1>1. IInv => HeldObjectsLive
  <2> SUFFICES ASSUME IInv, NEW i \in DOMAIN ctl, ctl[i].op \notin Unrooted, ctl[i].held \in Objs
               PROVE  IsLive(heap, ctl[i].held)
    BY DEF HeldObjectsLive
  <2> DEFINE f == ctl[i]
             l == Len(ctl)
  <2>1. /\ Now /\ Frames(ctl, stack, envs, heap) /\ Len(stack) \in Nat /\ Len(envs) \in Nat
        /\ ctl \in Seq(Function) /\ Len(ctl) \in Nat /\ Len(ctl) \in 1 .. Len(ctl)
    BY Here
  <2>2. Control(ctl, Len(stack), Len(envs)) /\ i \in 1 .. Len(ctl)
    BY <2>1 DEF Frames
  <2>3. HeldFor(f, stack, envs, heap) /\ f \in Function /\ FrameOK(i, f)
    BY <2>1, <2>2 DEF Frames, Control
  <2>4. f.base \in Nat /\ f.envs \in Nat /\ EnvOwn(f) \in 0 .. 1
    BY <2>3, Fields, Counts
  <2>5. StackLive(heap, stack) /\ EnvsLive(heap, envs)
    BY <2>1 DEF Now, Sound, RootsLive
  <2>6. f.envs + EnvOwn(f) <= Len(envs)
    <3>1. Len(envs) = ctl[l].envs + EnvOwn(ctl[l])
      BY <2>2 DEF Control
    <3>2. ctl[l].envs \in Nat /\ EnvOwn(ctl[l]) \in 0 .. 1
      <4>1. ctl[l] \in Function
        BY <2>1
      <4> QED
        BY <4>1, Fields, Counts
    <3>3. CASE i = l
      BY <2>4, <3>1, <3>3
    <3>4. CASE i # l
      <4>1. i < l
        <5>1. i \in Int /\ i <= l /\ l \in Int
          BY <2>1, <2>2
        <5> HIDE DEF l
        <5> QED
          BY <3>4, <5>1
      <4>2. f.envs + EnvOwn(f) <= ctl[l].envs
        BY <2>1, <2>2, <4>1 DEF Control
      <4> QED
        BY <2>4, <3>1, <3>2, <4>2
    <3> QED
      BY <3>3, <3>4
  <2>7. Plain \notin Objs /\ f.held # Plain
    BY RootsAssumption
  <2> HIDE DEF f
  <2>8. CASE f.op \in {"array", "assoc"}
    <3>1. f.base + 1 \in 1 .. Len(stack) /\ stack[f.base + 1] = f.held
      BY <2>1, <2>3, <2>4, <2>8 DEF HeldFor
    <3> QED
      BY <2>5, <3>1 DEF StackLive, Alive, f
  <2>9. CASE f.op = "call"
    <3>1. f.at # "environment"
      BY <2>3, <2>7, <2>9 DEF HeldFor
    <3>2. f.envs + 1 \in 1 .. Len(envs)
      <4>1. EnvOwn(f) = 1
        BY <2>9, <3>1 DEF EnvOwn
      <4> QED
        BY <2>1, <2>4, <2>6, <4>1
    <3>3. \/ f.held \in envs[f.envs + 1].native
          \/ f.held = envs[f.envs + 1].scope
          \/ IsLive(heap, f.held)
      BY <2>3, <2>9, <3>1 DEF HeldFor, f
    <3> QED
      BY <2>5, <3>2, <3>3 DEF EnvsLive, Alive, f
  <2>10. CASE f.op \notin {"array", "assoc", "call"}
    BY <2>3, <2>7, <2>10 DEF HeldFor, f
  <2> QED
    BY <2>8, <2>9, <2>10
<1> QED
  BY <1>1, Invariance, PTL

=============================================================================
