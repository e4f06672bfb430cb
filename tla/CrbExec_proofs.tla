--------------------------- MODULE CrbExec_proofs ---------------------------
(***************************************************************************)
(* For every nesting of calls, blocks and imports: exceptions go to the     *)
(* innermost handler that is live, and unwinding restores the evaluation    *)
(* stack and the environments.  None of CrbExec's invariants is inductive   *)
(* alone.  What a handler restores was saved when its frame was entered, so *)
(* the invariant says of EVERY frame what it saved (WellNested), and then   *)
(* what the interpreter's registers are with those frames (Control).        *)
(***************************************************************************)
EXTENDS CrbExec, FiniteSetTheorems, TLAPS

\* r is the innermost of the first n functions whose setjmp is in force.
Innermost(fs, n, r) ==
    /\ r \in 1 .. n
    /\ Guards(fs[r])
    /\ \A k \in r + 1 .. n : ~Guards(fs[k])

\* Frame i of fs belongs where it is: the program first, its report second, a
\* try statement has something after its block.
Placed(fs, i) ==
    /\ fs[i].kind = "main" <=> i = 1
    /\ fs[i].kind = "show" => i = 2
    /\ fs[i].kind = "try" => fs[i].has # {}

\* Frame i saved the recovery environment that is the innermost below it.
SavedRecovery(fs, i) ==
    fs[i].kind \notin {"main", "show"} => Innermost(fs, i - 1, fs[i].rec)

\* What is said of the evaluation stack is said when imports come only while it
\* is empty: otherwise one that does not compile empties it under its callers.
Same(a, b) == ImportAnywhere \/ a = b
Depths(a) == a \in Int /\ (ImportAnywhere \/ a \in Nat)

\* Frame i saved the stack pointer that the frames below it account for.
SavedStack(fs, i) ==
    /\ Depths(fs[i].sp)
    /\ i = 1 => Same(fs[i].sp, 0)
    /\ i > 1 /\ fs[i].kind # "show" => Same(fs[i].sp, Above(fs[i - 1]))

USE DEF Same, Depths

WellNested(fs) ==
    /\ fs \in Seq(Frame) /\ Len(fs) <= MaxFrames
    /\ \A i \in 1 .. Len(fs) : Placed(fs, i) /\ SavedRecovery(fs, i) /\ SavedStack(fs, i)

\* The frames that have an environment.
Calls(fs) == {i \in 1 .. Len(fs) : IsCall(fs[i])}

\* The registers: at rest between programs, running the innermost function, or
\* unwinding to the innermost handler; then the recovery environment is that
\* handler's or, in a function that has returned, nobody's.
Control ==
    \/ frames = << >> /\ jump = 0 /\ rec = 0 /\ sp = 0
    \/ Running /\ Innermost(frames, Depth, rec) /\ Same(sp, Above(Top))
    \/ jump # 0 /\ Innermost(frames, Depth, jump) /\ rec \in {0, jump}

IInv ==
    /\ WellNested(frames)
    /\ Control
    /\ Depths(sp)
    /\ env = Cardinality(Calls(frames))
    /\ exc \in {"none", "ex"}
    /\ modules \subseteq Modules

-----------------------------------------------------------------------------
(* The three things steps do to the stack of functions. *)

\* Returning to a function keeps what lies below.
LEMMA UptoNested ==
    ASSUME NEW fs, WellNested(fs), NEW n \in 0 .. Len(fs)
    PROVE  /\ WellNested(SubSeq(fs, 1, n))
           /\ Len(SubSeq(fs, 1, n)) = n
           /\ \A i \in 1 .. n : SubSeq(fs, 1, n)[i] = fs[i]
<1> DEFINE gs == SubSeq(fs, 1, n)
<1>1. fs \in Seq(Frame) /\ Len(fs) \in Nat /\ n \in Nat /\ n <= Len(fs)
  BY DEF WellNested
<1>2. gs \in Seq(Frame) /\ Len(gs) = n /\ \A i \in 1 .. n : gs[i] = fs[i]
  BY <1>1
<1>3. Len(gs) <= MaxFrames
  BY <1>1, <1>2, ExecAssumption DEF WellNested
<1> HIDE DEF gs
<1>4. ASSUME NEW i \in 1 .. Len(gs)
      PROVE  Placed(gs, i) /\ SavedRecovery(gs, i) /\ SavedStack(gs, i)
  <2>1. i \in 1 .. Len(fs) /\ i \in 1 .. n /\ gs[i] = fs[i]
    BY <1>1, <1>2, <1>4
  <2>2. \A k \in 1 .. i : gs[k] = fs[k]
    BY <1>1, <1>2, <1>4
  <2>3. Placed(fs, i) /\ SavedRecovery(fs, i) /\ SavedStack(fs, i)
    BY <2>1 DEF WellNested
  <2>4. Placed(gs, i)
    BY <2>1, <2>3 DEF Placed
  <2>5. SavedRecovery(gs, i)
    BY <2>1, <2>2, <2>3 DEF SavedRecovery, Innermost
  <2>6. SavedStack(gs, i)
    BY <2>1, <2>2, <2>3 DEF SavedStack
  <2> QED
    BY <2>4, <2>5, <2>6
<1> QED
  BY <1>2, <1>3, <1>4 DEF WellNested, gs

\* A function is entered: it saved the innermost recovery environment and the
\* stack pointer its callers account for.
LEMMA AppendNested ==
    ASSUME NEW fs, WellNested(fs), Len(fs) < MaxFrames, NEW f \in Frame,
           f.kind = "main" <=> fs = << >>,
           f.kind = "show" => Len(fs) = 1,
           f.kind = "try" => f.has # {},
           f.kind \notin {"main", "show"} => Innermost(fs, Len(fs), f.rec),
           Depths(f.sp),
           fs = << >> => Same(f.sp, 0),
           fs # << >> /\ f.kind # "show" => Same(f.sp, Above(fs[Len(fs)]))
    PROVE  /\ WellNested(Append(fs, f))
           /\ Len(Append(fs, f)) = Len(fs) + 1
           /\ Append(fs, f)[Len(fs) + 1] = f
           /\ \A i \in 1 .. Len(fs) : Append(fs, f)[i] = fs[i]
<1> DEFINE gs == Append(fs, f)
           n == Len(fs)
<1>1. fs \in Seq(Frame) /\ n \in Nat
  BY DEF WellNested
<1>2. gs \in Seq(Frame) /\ Len(gs) = n + 1 /\ gs[n + 1] = f
      /\ \A i \in 1 .. n : gs[i] = fs[i]
  BY <1>1
<1>0. (fs = << >> <=> n = 0) /\ MaxFrames \in Nat
  BY <1>1, ExecAssumption
<1>3. Len(gs) <= MaxFrames
  BY <1>0, <1>1, <1>2
<1>n. Len(fs) = n
  OBVIOUS
<1> HIDE DEF gs, n
<1>4. ASSUME NEW i \in 1 .. n
      PROVE  Placed(gs, i) /\ SavedRecovery(gs, i) /\ SavedStack(gs, i)
  <2>1. i \in Nat /\ i >= 1 /\ i - 1 \in Nat /\ gs[i] = fs[i]
    BY <1>1, <1>2
  <2>2. \A k \in 1 .. i : gs[k] = fs[k]
    BY <1>1, <1>2
  <2>3. Placed(fs, i) /\ SavedRecovery(fs, i) /\ SavedStack(fs, i)
    BY <1>n DEF WellNested
  <2>4. Placed(gs, i)
    BY <2>1, <2>3 DEF Placed
  <2>5. SavedRecovery(gs, i)
    <3>1. \A r : Innermost(fs, i - 1, r) => Innermost(gs, i - 1, r)
      BY <2>1, <2>2 DEF Innermost
    <3> QED
      BY <2>1, <2>3, <3>1 DEF SavedRecovery
  <2>6. SavedStack(gs, i)
    <3>1. i > 1 => gs[i - 1] = fs[i - 1]
      BY <2>1, <2>2
    <3> QED
      BY <2>1, <2>3, <3>1 DEF SavedStack
  <2> QED
    BY <2>4, <2>5, <2>6
<1>5. Placed(gs, n + 1) /\ SavedRecovery(gs, n + 1) /\ SavedStack(gs, n + 1)
  <2>1. Placed(gs, n + 1)
    BY <1>0, <1>1, <1>2, <1>n DEF Placed
  <2>2. SavedRecovery(gs, n + 1)
    <3> SUFFICES ASSUME f.kind \notin {"main", "show"}
                 PROVE  Innermost(gs, n, f.rec)
      BY <1>1, <1>2 DEF SavedRecovery
    <3>1. Innermost(fs, n, f.rec)
      BY <1>n
    <3> QED
      BY <3>1, <1>1, <1>2 DEF Innermost
  <2>3. SavedStack(gs, n + 1)
    BY <1>0, <1>1, <1>2, <1>n DEF SavedStack
  <2> QED
    BY <2>1, <2>2, <2>3
<1>6. \A i \in 1 .. Len(gs) : i \in 1 .. n \/ i = n + 1
  BY <1>1, <1>2
<1> QED
  BY <1>n, <1>2, <1>3, <1>4, <1>5, <1>6 DEF WellNested, gs

\* The innermost function changes, but not its kind or what it saved.
LEMMA TopNested ==
    ASSUME NEW fs, WellNested(fs), fs # << >>, NEW f \in Frame,
           f.kind = fs[Len(fs)].kind, f.rec = fs[Len(fs)].rec,
           f.sp = fs[Len(fs)].sp, f.has = fs[Len(fs)].has
    PROVE  /\ WellNested([fs EXCEPT ![Len(fs)] = f])
           /\ Len([fs EXCEPT ![Len(fs)] = f]) = Len(fs)
           /\ [fs EXCEPT ![Len(fs)] = f][Len(fs)] = f
           /\ \A i \in 1 .. Len(fs) - 1 : [fs EXCEPT ![Len(fs)] = f][i] = fs[i]
<1> DEFINE n == Len(fs)
           gs == [fs EXCEPT ![n] = f]
<1>1. fs \in Seq(Frame) /\ n \in Nat /\ n > 0
  BY DEF WellNested
<1>2. gs \in Seq(Frame) /\ Len(gs) = n /\ gs[n] = f
      /\ \A i \in 1 .. n - 1 : gs[i] = fs[i]
  BY <1>1
<1>3. Len(gs) <= MaxFrames
  BY <1>2 DEF WellNested
<1>n. Len(fs) = n
  OBVIOUS
<1> HIDE DEF gs, n
<1>4. ASSUME NEW i \in 1 .. n
      PROVE  Placed(gs, i) /\ SavedRecovery(gs, i) /\ SavedStack(gs, i)
  <2>1. \A k \in 1 .. i - 1 : gs[k] = fs[k]
    BY <1>1, <1>2
  <2>2. /\ gs[i].kind = fs[i].kind /\ gs[i].rec = fs[i].rec
        /\ gs[i].sp = fs[i].sp /\ gs[i].has = fs[i].has
    BY <1>1, <1>2, <1>n
  <2>3. Placed(fs, i) /\ SavedRecovery(fs, i) /\ SavedStack(fs, i)
    BY <1>n DEF WellNested
  <2>4. Placed(gs, i)
    BY <2>2, <2>3 DEF Placed
  <2>5. SavedRecovery(gs, i)
    BY <2>1, <2>2, <2>3 DEF SavedRecovery, Innermost
  <2>6. SavedStack(gs, i)
    BY <2>1, <2>2, <2>3 DEF SavedStack
  <2> QED
    BY <2>4, <2>5, <2>6
<1> QED
  BY <1>n, <1>2, <1>3, <1>4 DEF WellNested, gs

\* Of two stacks that agree as far as the shorter one goes, the longer one has
\* one environment more if a call begins where the shorter one ends and no other
\* call lies beyond it, and none if no call lies there.
LEMMA CallsCounted ==
    ASSUME NEW fs, NEW gs, WellNested(fs), WellNested(gs), Len(gs) <= Len(fs),
           \A i \in 1 .. Len(gs) : gs[i].kind = fs[i].kind,
           \A i \in Len(gs) + 2 .. Len(fs) : ~IsCall(fs[i])
    PROVE  /\ Cardinality(Calls(fs)) \in Nat
           /\ Cardinality(Calls(gs)) \in Nat
           /\ Cardinality(Calls(fs)) = Cardinality(Calls(gs)) +
                  (IF Len(gs) < Len(fs) /\ IsCall(fs[Len(gs) + 1]) THEN 1 ELSE 0)
<1> DEFINE n == Len(gs)
           m == Len(fs)
<1>1. n \in Nat /\ m \in Nat
  BY DEF WellNested
<1>2. ASSUME NEW S \in SUBSET (1 .. m)
      PROVE  IsFiniteSet(S) /\ Cardinality(S) \in Nat
  <2>1. IsFiniteSet(1 .. m)
    BY <1>1, FS_Interval
  <2>2. IsFiniteSet(S)
    BY <2>1, FS_Subset
  <2> QED
    BY <2>2, FS_CardinalityType
<1>3. Calls(gs) \subseteq 1 .. m /\ Calls(fs) \subseteq 1 .. m /\ n + 1 \notin Calls(gs)
  BY <1>1 DEF Calls
<1>4. IsFiniteSet(Calls(gs)) /\ Cardinality(Calls(gs)) \in Nat /\ Cardinality(Calls(fs)) \in Nat
  BY <1>2, <1>3
<1>5. \A i \in 1 .. m : i \in 1 .. n \/ (n < m /\ i = n + 1) \/ i \in n + 2 .. m
  BY <1>1
<1>6. \A i \in 1 .. n : i \in 1 .. m /\ (IsCall(gs[i]) <=> IsCall(fs[i]))
  BY <1>1 DEF IsCall
<1>7. CASE n < m /\ IsCall(fs[n + 1])
  <2>1. n + 1 \in 1 .. m
    BY <1>1, <1>7
  <2>2. Calls(fs) = Calls(gs) \cup {n + 1}
    BY <1>5, <1>6, <1>7, <2>1 DEF Calls
  <2> QED
    BY <1>3, <1>4, <1>7, <2>2, FS_AddElement
<1>8. CASE ~(n < m /\ IsCall(fs[n + 1]))
  <2>1. Calls(fs) = Calls(gs)
    BY <1>5, <1>6, <1>8 DEF Calls
  <2> QED
    BY <1>4, <1>8, <2>1
<1> QED
  BY <1>7, <1>8

-----------------------------------------------------------------------------
(* The states that steps lead to. *)

\* What the invariant says of the innermost function.
LEMMA TopFacts ==
    ASSUME IInv, frames # << >>
    PROVE  /\ frames \in Seq(Frame) /\ Depth \in Nat /\ Depth >= 1 /\ Depth <= MaxFrames
           /\ Top \in Frame /\ Depth \in 1 .. Depth
           /\ Placed(frames, Depth) /\ SavedRecovery(frames, Depth)
           /\ SavedStack(frames, Depth)
           /\ env \in Nat
           /\ jump = 0 => Innermost(frames, Depth, rec) /\ Same(sp, Above(Top))
<1>1. frames \in Seq(Frame) /\ Depth \in Nat /\ Depth >= 1
  BY DEF IInv, WellNested, Depth
<1>2. Depth \in 1 .. Depth /\ Depth <= MaxFrames
  BY <1>1 DEF IInv, WellNested, Depth
<1>3. Top \in Frame
  BY <1>1, <1>2 DEF Top, Depth
<1>4. Placed(frames, Depth) /\ SavedRecovery(frames, Depth) /\ SavedStack(frames, Depth)
  BY <1>2 DEF IInv, WellNested, Depth
<1>5. env \in Nat
  BY <1>1, CallsCounted DEF IInv, Depth
<1>6. jump = 0 => Innermost(frames, Depth, rec) /\ Same(sp, Above(Top))
  BY DEF IInv, Control
<1> QED
  BY <1>1, <1>2, <1>3, <1>4, <1>5, <1>6

\* A function has been entered, or a handler has taken over in its frame.
LEMMA Entered ==
    ASSUME NEW fs, WellNested(fs), Len(fs) < MaxFrames, NEW f \in Frame,
           f.kind = "main" <=> fs = << >>,
           f.kind = "show" => Len(fs) = 1,
           f.kind = "try" => f.has # {},
           f.kind \notin {"main", "show"} => Innermost(fs, Len(fs), f.rec),
           Depths(f.sp),
           fs = << >> => Same(f.sp, 0),
           fs # << >> /\ f.kind # "show" => Same(f.sp, Above(fs[Len(fs)])),
           frames' = Append(fs, f),
           rec' = IF Guards(f) THEN Len(fs) + 1 ELSE f.rec,
           jump' = 0, Same(sp', Above(f)), sp' \in Int, exc' \in {"none", "ex"}, modules' \subseteq Modules,
           env' = Cardinality(Calls(fs)) + (IF IsCall(f) THEN 1 ELSE 0)
    PROVE  IInv'
<1> DEFINE gs == Append(fs, f)
           n == Len(fs)
<1>1. WellNested(gs) /\ Len(gs) = n + 1 /\ gs[n + 1] = f /\ \A i \in 1 .. n : gs[i] = fs[i]
  BY AppendNested
<1>2. n \in Nat /\ gs \in Seq(Frame)
  BY <1>1 DEF WellNested
<1>3. frames' = gs /\ gs # << >> /\ Depth' = n + 1 /\ Top' = f
  BY <1>1, <1>2 DEF Depth, Top
<1> HIDE DEF gs
<1>4. Cardinality(Calls(gs)) = env'
  <2>1. n <= Len(gs) /\ n < Len(gs) /\ \A i \in n + 2 .. Len(gs) : ~IsCall(gs[i])
    BY <1>1, <1>2
  <2>2. \A i \in 1 .. n : fs[i].kind = gs[i].kind
    BY <1>1
  <2>3. Cardinality(Calls(gs)) = Cardinality(Calls(fs)) + (IF IsCall(f) THEN 1 ELSE 0)
    BY <1>1, <2>1, <2>2, CallsCounted
  <2> QED
    BY <2>3
<1>5. Innermost(gs, n + 1, rec')
  <2>1. CASE Guards(f)
    BY <1>1, <1>2, <2>1 DEF Innermost
  <2>2. CASE ~Guards(f)
    <3>1. Innermost(fs, n, f.rec)
      BY <2>2 DEF Guards
    <3> QED
      BY <1>1, <1>2, <2>2, <3>1 DEF Innermost
  <2> QED
    BY <2>1, <2>2
<1>6. Depths(sp')
  BY ExecAssumption DEF Above, OwnValues, Frame
<1> QED
  BY <1>1, <1>3, <1>4, <1>5, <1>6 DEF IInv, Control, Running

\* The innermost of the functions fs goes on, changed to f; or its setjmp went
\* out of force.
LEMMA Resumed ==
    ASSUME NEW fs, WellNested(fs), fs # << >>, NEW f \in Frame,
           f.kind = fs[Len(fs)].kind, f.rec = fs[Len(fs)].rec,
           f.sp = fs[Len(fs)].sp, f.has = fs[Len(fs)].has,
           frames' = [fs EXCEPT ![Len(fs)] = f],
           \/ Innermost(fs, Len(fs), rec') /\ (Guards(f) <=> Guards(fs[Len(fs)]))
           \/ ~Guards(f) /\ rec' = f.rec,
           jump' = 0, Same(sp', Above(f)), sp' \in Int, exc' \in {"none", "ex"}, modules' \subseteq Modules,
           env' = Cardinality(Calls(fs))
    PROVE  IInv'
<1> DEFINE n == Len(fs)
           gs == [fs EXCEPT ![n] = f]
<1>1. WellNested(gs) /\ Len(gs) = n /\ gs[n] = f /\ \A i \in 1 .. n - 1 : gs[i] = fs[i]
  BY TopNested
<1>2. n \in Nat /\ n >= 1 /\ gs \in Seq(Frame)
  BY <1>1 DEF WellNested
<1>3. frames' = gs /\ gs # << >> /\ Depth' = n /\ Top' = f
  BY <1>1, <1>2 DEF Depth, Top
<1> HIDE DEF gs
<1>4. Cardinality(Calls(gs)) = env'
  <2>1. \A i \in 1 .. n : gs[i].kind = fs[i].kind
    BY <1>1, <1>2
  <2> QED
    BY <1>1, <1>2, <2>1, CallsCounted
<1>5. Innermost(gs, n, rec')
  <2>1. CASE Innermost(fs, n, rec') /\ (Guards(f) <=> Guards(fs[n]))
    BY <1>1, <1>2, <2>1 DEF Innermost
  <2>2. CASE ~Guards(f) /\ rec' = f.rec
    <3>1. Innermost(fs, n - 1, f.rec)
      BY <1>2, <2>2 DEF Guards, WellNested, SavedRecovery
    <3> QED
      BY <1>1, <1>2, <2>2, <3>1 DEF Innermost
  <2> QED
    BY <2>1, <2>2
<1>6. Depths(sp')
  <2>1. Depths(f.sp)
    BY <1>2 DEF WellNested, SavedStack
  <2> QED
    BY <2>1, ExecAssumption DEF Above, OwnValues, Frame
<1> QED
  BY <1>1, <1>3, <1>4, <1>5, <1>6 DEF IInv, Control, Running

\* The functions up to n, when no call beyond the next one is in progress.
LEMMA Below ==
    ASSUME IInv, NEW n \in 0 .. Depth, \A i \in n + 2 .. Depth : ~IsCall(frames[i])
    PROVE  /\ WellNested(Upto(n)) /\ Len(Upto(n)) = n
           /\ Upto(n) \in Seq(Frame) /\ (Upto(n) = << >> <=> n = 0)
           /\ \A i \in 1 .. n : Upto(n)[i] = frames[i]
           /\ \A i \in 1 .. n : Upto(n)[i] \in Frame
           /\ Cardinality(Calls(Upto(n))) =
                  env - (IF n < Depth /\ IsCall(frames[n + 1]) THEN 1 ELSE 0)
<1>1. WellNested(frames) /\ Depth \in Nat /\ Depth = Len(frames)
  BY DEF IInv, WellNested, Depth
<1>2. WellNested(Upto(n)) /\ Len(Upto(n)) = n /\ \A i \in 1 .. n : Upto(n)[i] = frames[i]
  BY <1>1, UptoNested DEF Upto
<1>3. Upto(n) \in Seq(Frame)
  BY <1>2 DEF WellNested
<1>4. n <= Depth /\ n \in Nat
  BY <1>1
<1>5. \A i \in 1 .. n : Upto(n)[i].kind = frames[i].kind
  BY <1>2
<1>6. env = Cardinality(Calls(frames))
  BY DEF IInv
<1> DEFINE gs == Upto(n)
<1>7. \A i \in Len(gs) + 2 .. Len(frames) : ~IsCall(frames[i])
  BY <1>1, <1>2
<1>8. \A i \in 1 .. Len(gs) : gs[i].kind = frames[i].kind
  BY <1>2, <1>5
<1>9. Len(gs) <= Len(frames)
  BY <1>1, <1>2, <1>4
<1>10. WellNested(gs)
  BY <1>2
<1>11. /\ Cardinality(Calls(frames)) \in Nat /\ Cardinality(Calls(gs)) \in Nat
       /\ Cardinality(Calls(frames)) = Cardinality(Calls(gs)) +
                  (IF Len(gs) < Len(frames) /\ IsCall(frames[Len(gs) + 1]) THEN 1 ELSE 0)
  <2> HIDE DEF gs
  <2> QED
    BY <1>1, <1>7, <1>8, <1>9, <1>10, CallsCounted
<1>12. \A i \in 1 .. n : Upto(n)[i] \in Frame
  BY <1>2, <1>3
<1> QED
  BY <1>1, <1>2, <1>3, <1>4, <1>6, <1>11, <1>12

\* A raised exception, or one that a handler passes on: the functions up to n
\* are left, and r among them is to handle it.
LEMMA Thrown ==
    ASSUME IInv, NEW n \in 1 .. Depth, NEW r,
           frames' = Upto(n), Innermost(frames, n, r),
           jump' = r, rec' \in {0, r}, Depths(sp'),
           exc' \in {"none", "ex"}, modules' \subseteq Modules,
           env' = Cardinality(Calls(Upto(n)))
    PROVE  IInv'
<1>1. WellNested(frames) /\ Depth \in Nat /\ Depth = Len(frames)
  BY DEF IInv, WellNested, Depth
<1>2. WellNested(Upto(n)) /\ Len(Upto(n)) = n /\ \A i \in 1 .. n : Upto(n)[i] = frames[i]
  BY <1>1, UptoNested DEF Upto
<1>3. Innermost(Upto(n), n, r)
  BY <1>1, <1>2 DEF Innermost
<1>4. r # 0
  BY <1>1 DEF Innermost
<1>5. Depth' = n
  BY <1>2 DEF Depth
<1> QED
  BY <1>2, <1>3, <1>4, <1>5 DEF IInv, Control

\* A program has ended.
LEMMA Ended ==
    ASSUME frames' = << >>, rec' = 0, jump' = 0, sp' = 0, env' = 0,
           exc' \in {"none", "ex"}, modules' \subseteq Modules
    PROVE  IInv'
<1>1. << >> \in Seq(Frame) /\ Len(<< >>) = 0
  OBVIOUS
<1>2. WellNested(<< >>)
  BY <1>1, ExecAssumption DEF WellNested
<1>3. Calls(<< >>) = {}
  BY <1>1 DEF Calls
<1> QED
  BY <1>2, <1>3, FS_EmptySet DEF IInv, Control

\* The invariant holds initially.
LEMMA InitIInv == Init => IInv
<1> SUFFICES ASSUME Init PROVE IInv
  OBVIOUS
<1>1. << >> \in Seq(Frame) /\ Len(<< >>) = 0
  OBVIOUS
<1>2. WellNested(<< >>)
  BY <1>1, ExecAssumption DEF WellNested
<1>3. Calls(<< >>) = {}
  BY <1>1 DEF Calls
<1> QED
  BY <1>2, <1>3, FS_EmptySet DEF IInv, Control, Init

-----------------------------------------------------------------------------
(* Each step. *)

\* The fields of a frame that a function enters with.
LEMMA NewFrameFacts ==
    ASSUME NEW k \in Kinds, NEW s \in Int, rec \in 0 .. MaxFrames
    PROVE  /\ NewFrame(k, s) \in Frame
           /\ NewFrame(k, s).kind = k /\ NewFrame(k, s).sp = s
           /\ NewFrame(k, s).rec = rec /\ NewFrame(k, s).mode = "body"
           /\ NewFrame(k, s).tmp = 0
  BY ExecAssumption DEF NewFrame, Frame

\* Operands come and go, a statement list ends early.
LEMMA TopSteps ==
    ASSUME IInv, Push \/ EndExpression \/ Leave
    PROVE  IInv'
<1> DEFINE G(f) == /\ frames' = [frames EXCEPT ![Depth] = f]
                   /\ f \in Frame
                   /\ f.kind = Top.kind /\ f.rec = Top.rec /\ f.sp = Top.sp
                   /\ f.has = Top.has /\ f.mode = Top.mode
                   /\ Same(sp', Above(f)) /\ sp' \in Int
<1>1. frames # << >> /\ jump = 0 /\ Running /\ rec' = rec /\ env' = env /\ exc' = exc
      /\ jump' = jump /\ modules' = modules
  BY DEF Push, EndExpression, Leave, AtStatement, InList, Running
<1>2. Top \in Frame /\ Innermost(frames, Depth, rec) /\ Same(sp, Above(Top))
      /\ sp \in Int /\ Top.sp \in Int
  BY <1>1, TopFacts DEF SavedStack, Top, IInv
<1>3. \E f : G(f)
  <2>1. CASE Push
    <3> DEFINE f == [Top EXCEPT !.tmp = @ + 1]
    <3>0. f \in Frame
      BY <1>2, <2>1, ExecAssumption DEF Frame, Push
    <3>1. /\ f.kind = Top.kind /\ f.rec = Top.rec /\ f.sp = Top.sp
          /\ f.has = Top.has /\ f.mode = Top.mode /\ f.tmp = Top.tmp + 1
      BY <1>2 DEF Frame
    <3>2. Top.tmp \in Nat /\ Top.sp \in Int
      BY <1>2, ExecAssumption DEF Frame
    <3>3. sp' = sp + 1
      BY <2>1 DEF Push
    <3>4. Above(f) = Above(Top) + 1
      <4> HIDE DEF f
      <4> QED
        BY <1>2, <3>1, <3>2 DEF Above, OwnValues
    <3>5. sp' \in Int
      BY <1>2, <3>2, <3>3
    <3>6. Same(sp', Above(f))
      BY <1>2, <3>3, <3>4
    <3>7. G(f)
      BY <1>2, <2>1, <3>0, <3>1, <3>5, <3>6 DEF Push, WithTop
    <3> QED
      BY <3>7
  <2>2. CASE EndExpression
    <3> DEFINE f == [Top EXCEPT !.tmp = 0]
    <3>0. f \in Frame
      BY <1>2, ExecAssumption DEF Frame
    <3>1. /\ f.kind = Top.kind /\ f.rec = Top.rec /\ f.sp = Top.sp
          /\ f.has = Top.has /\ f.mode = Top.mode /\ f.tmp = 0
      BY <1>2 DEF Frame
    <3>2. Top.tmp \in Nat /\ Top.sp \in Int
      BY <1>2, ExecAssumption DEF Frame
    <3>3. sp' = sp - Top.tmp
      BY <2>2 DEF EndExpression
    <3>4. Above(f) = Above(Top) - Top.tmp
      <4> HIDE DEF f
      <4> QED
        BY <1>2, <3>1, <3>2 DEF Above, OwnValues
    <3>5. sp' \in Int
      BY <1>2, <3>2, <3>3
    <3>6. Same(sp', Above(f))
      BY <1>2, <3>3, <3>4
    <3>7. G(f)
      BY <1>2, <2>2, <3>0, <3>1, <3>5, <3>6 DEF EndExpression, WithTop
    <3> QED
      BY <3>7
  <2>3. CASE Leave
    <3>1. G([Top EXCEPT !.res = "left"])
      BY <1>2, <2>3 DEF Leave, WithTop, Frame, Above, OwnValues
    <3> QED
      BY <3>1
  <2> QED
    BY <2>1, <2>2, <2>3
<1>4. PICK f : G(f)
  BY <1>3
<1>5. Guards(f) <=> Guards(Top)
  BY <1>4 DEF Guards
<1> QED
  BY <1>1, <1>2, <1>4, <1>5, Resumed DEF IInv, Depth, Top

\* The recovery environment and the target of a jump are frames that exist.
LEMMA RegisterRange ==
    ASSUME IInv
    PROVE  /\ rec \in 0 .. Depth /\ jump \in 0 .. Depth /\ Depth \in Nat
           /\ rec \in 0 .. MaxFrames /\ Depth <= MaxFrames
<1>1. Depth \in Nat /\ Depth <= MaxFrames
  BY DEF IInv, WellNested, Depth
<1>2. rec \in 0 .. Depth /\ jump \in 0 .. Depth
  BY <1>1 DEF IInv, Control, Running, Innermost
<1> QED
  BY <1>1, <1>2, ExecAssumption

\* A function with a setjmp is entered from the innermost one.
LEMMA GuardEntered ==
    ASSUME IInv, Running, Depth < MaxFrames, NEW f \in Frame,
           f.kind \in {"call", "try", "module"}, f.kind = "try" => f.has # {},
           f.mode = "body", f.rec = rec, f.tmp = 0, f.sp = sp', Same(sp', sp), sp' \in Int,
           frames' = Append(frames, f), rec' = Depth + 1, jump' = 0,
           exc' \in {"none", "ex"}, modules' \subseteq Modules,
           env' = env + (IF IsCall(f) THEN 1 ELSE 0)
    PROVE  IInv'
<1>1. frames # << >> /\ jump = 0
  BY DEF Running
<1>2. Innermost(frames, Depth, rec) /\ Same(sp, Above(Top)) /\ Depths(sp)
  BY <1>1, TopFacts DEF IInv
<1>3. Guards(f)
  BY DEF Guards
<1>4. sp' = Above(f) /\ Depths(f.sp)
  BY <1>2 DEF Above, OwnValues
<1>5. f.kind \notin {"main", "show"}
  OBVIOUS
<1>6. WellNested(frames) /\ env = Cardinality(Calls(frames))
  BY DEF IInv
<1> QED
  BY <1>1, <1>2, <1>3, <1>4, <1>5, <1>6, Entered DEF Depth, Top

\* eval_function_call_expression, CRB_call_method
LEMMA CallStep == ASSUME IInv, Call PROVE IInv'
<1>1. Running /\ sp \in Int /\ "call" \in Kinds
  BY DEF Call, InList, IInv, Kinds
<1> DEFINE f == NewFrame("call", sp)
<1>3. f \in Frame /\ f.kind = "call" /\ f.sp = sp /\ f.rec = rec /\ f.mode = "body"
      /\ f.tmp = 0
  BY <1>1, RegisterRange, NewFrameFacts
<1>4. frames' = Append(frames, f) /\ rec' = Depth + 1 /\ sp' = f.sp /\ env' = env + 1
      /\ exc' = exc /\ jump' = 0 /\ modules' = modules /\ Depth < MaxFrames
  BY <1>1, <1>3 DEF Call, Enter, Depth, Running
<1> HIDE DEF f
<1>5. f.sp = sp /\ IsCall(f)
  BY <1>1, <1>3 DEF IsCall
<1> QED
  BY <1>1, <1>3, <1>4, <1>5, GuardEntered DEF IInv

\* execute_try_statement
LEMMA TryStep == ASSUME IInv, Try PROVE IInv'
<1>1. Running /\ sp \in Int /\ "try" \in Kinds
  BY DEF Try, AtStatement, InList, IInv, Kinds
<1>2. PICK has \in {{"catch"}, {"finally"}, {"catch", "finally"}} :
          Enter(frames, [NewFrame("try", sp) EXCEPT !.has = has])
  BY DEF Try
<1> DEFINE g == NewFrame("try", sp)
           f == [g EXCEPT !.has = has]
<1>3. g \in Frame /\ g.kind = "try" /\ g.sp = sp /\ g.rec = rec /\ g.mode = "body"
      /\ g.tmp = 0
  BY <1>1, RegisterRange, NewFrameFacts
<1>4. frames' = Append(frames, f) /\ rec' = Depth + 1 /\ sp' = sp /\ env' = env
      /\ exc' = exc /\ jump' = 0 /\ modules' = modules /\ Depth < MaxFrames
  BY <1>1, <1>2 DEF Try, Enter, Depth, Running
<1> HIDE DEF g
<1>5. f \in Frame /\ f.kind = "try" /\ f.sp = sp /\ f.rec = rec /\ f.mode = "body"
      /\ f.tmp = 0 /\ f.has # {}
  BY <1>3 DEF Frame
<1> HIDE DEF f
<1>6. f.sp = sp /\ ~IsCall(f) /\ env \in Nat
  BY <1>1, <1>5, TopFacts DEF IsCall, Running
<1> QED
  BY <1>1, <1>4, <1>5, <1>6, GuardEntered DEF IInv

\* CRB_import_model of a file that is there. Where imports come only while the
\* stack is empty, emptying it changes nothing.
LEMMA ImportStep == ASSUME IInv, NEW m \in Modules, Import(m) PROVE IInv'
<1>1. Running /\ frames # << >> /\ jump = 0 /\ jump' = jump /\ env' = env
      /\ (ImportAnywhere \/ sp = 0) /\ modules' \subseteq Modules
  BY DEF Import, AtImport, AtStatement, InList, Running, IInv
<1>2. Same(sp', sp) /\ Depths(sp') /\ exc' \in {"none", "ex"}
  BY <1>1 DEF Import, Compiled, IInv
<1>3. CASE Depth < MaxFrames /\ Enter(frames, NewFrame("module", sp'))
  <2> DEFINE f == NewFrame("module", sp')
  <2>1. f \in Frame /\ f.kind = "module" /\ f.sp = sp' /\ f.rec = rec /\ f.mode = "body"
        /\ f.tmp = 0
    BY <1>2, RegisterRange, NewFrameFacts DEF Kinds
  <2>2. frames' = Append(frames, f) /\ rec' = Depth + 1
    BY <1>3 DEF Enter, Depth
  <2> HIDE DEF f
  <2>3. ~IsCall(f) /\ env \in Nat
    BY <1>1, <2>1, TopFacts DEF IsCall
  <2> QED
    BY <1>1, <1>2, <1>3, <2>1, <2>2, <2>3, GuardEntered
<1>4. CASE UNCHANGED <<frames, rec>>
  <2>1. Innermost(frames, Depth, rec) /\ Same(sp, Above(Top))
    BY <1>1, TopFacts
  <2>2. Depth' = Depth /\ Top' = Top
    BY <1>4 DEF Depth, Top
  <2> QED
    BY <1>1, <1>2, <1>4, <2>1, <2>2 DEF IInv, Control, Running
<1> QED
  BY <1>3, <1>4 DEF Import

\* The innermost function returns to the one below, whose statement list then
\* stands at r: the stack is what that one had there, and the recovery
\* environment is the one it had.
LEMMA ReturnedTo ==
    ASSUME IInv, Running, Top.kind \notin {"main", "show"}, NEW r \in {"normal", "left"},
           frames' = Returned(r),
           rec' = Top.rec, jump' = 0, Same(sp', Top.sp), sp' \in Int,
           exc' \in {"none", "ex"}, modules' \subseteq Modules,
           env' = env - (IF IsCall(Top) THEN 1 ELSE 0)
    PROVE  IInv'
<1> DEFINE n == Depth - 1
           fs == Upto(n)
           f == [fs[n] EXCEPT !.res = r]
<1>1. frames # << >> /\ jump = 0
  BY DEF Running
<1>2. /\ Depth \in Nat /\ Depth >= 1 /\ Placed(frames, Depth)
      /\ SavedRecovery(frames, Depth) /\ SavedStack(frames, Depth)
  BY <1>1, TopFacts
<1>3. n \in 1 .. Depth /\ n \in 0 .. Depth /\ n + 1 = Depth /\ Top = frames[Depth]
  BY <1>2 DEF Placed, Top
<1>4. Innermost(frames, n, Top.rec) /\ Same(Top.sp, Above(frames[n]))
  BY <1>2, <1>3 DEF SavedRecovery, SavedStack
<1>5. \A i \in n + 2 .. Depth : ~IsCall(frames[i])
  BY <1>2
<1>6. WellNested(fs) /\ Len(fs) = n /\ fs # << >> /\ fs \in Seq(Frame)
      /\ (\A i \in 1 .. n : fs[i] = frames[i])
      /\ Cardinality(Calls(fs)) = env'
  BY <1>2, <1>3, <1>5, Below
<1>7. fs[n] \in Frame /\ fs[n] = frames[n]
  BY <1>3, <1>6
<1>8. frames' = [fs EXCEPT ![n] = f]
  BY <1>6 DEF Returned
<1>9. Innermost(fs, n, Top.rec)
  BY <1>3, <1>4, <1>6 DEF Innermost
<1> HIDE DEF fs, n
<1>10. f \in Frame /\ f.kind = fs[n].kind /\ f.rec = fs[n].rec /\ f.sp = fs[n].sp
       /\ f.has = fs[n].has /\ f.mode = fs[n].mode /\ f.tmp = fs[n].tmp
  BY <1>7 DEF Frame
<1> HIDE DEF f
<1>11. Above(f) = Above(fs[n]) /\ (Guards(f) <=> Guards(fs[n]))
  BY <1>10 DEF Above, OwnValues, Guards
<1>12. Same(sp', Above(f))
  BY <1>4, <1>7, <1>11
<1>13. Innermost(fs, Len(fs), rec') /\ frames' = [fs EXCEPT ![Len(fs)] = f]
  BY <1>6, <1>8, <1>9
<1>14. f.kind = fs[Len(fs)].kind /\ f.rec = fs[Len(fs)].rec /\ f.sp = fs[Len(fs)].sp
       /\ f.has = fs[Len(fs)].has /\ (Guards(f) <=> Guards(fs[Len(fs)]))
  BY <1>6, <1>10, <1>11
<1> QED
  BY <1>6, <1>10, <1>12, <1>13, <1>14, Resumed

\* A function that returns without an effect on its caller's statement list
\* gives back the caller as it was.
LEMMA ReturnedUnchanged ==
    ASSUME IInv, frames # << >>, Top.kind \notin {"main", "show"}
    PROVE  /\ Upto(Depth - 1) = Returned(frames[Depth - 1].res)
           /\ frames[Depth - 1].res \in {"normal", "left"}
<1> DEFINE n == Depth - 1
           fs == Upto(n)
<1>1. Depth \in Nat /\ Depth >= 1 /\ Placed(frames, Depth)
  BY TopFacts
<1>2. n \in 1 .. Depth /\ n \in 0 .. Depth
  BY <1>1 DEF Placed, Top
<1>3. Len(fs) = n /\ fs \in Seq(Frame) /\ fs[n] = frames[n]
  <2>1. \A i \in n + 2 .. Depth : ~IsCall(frames[i])
    BY <1>1
  <2> QED
    BY <1>2, <2>1, Below
<1>4. fs[n] \in Frame
  BY <1>2, <1>3
<1> HIDE DEF fs
<1>5. [fs[n] EXCEPT !.res = fs[n].res] = fs[n]
  BY <1>4 DEF Frame
<1>6. [fs EXCEPT ![n] = fs[n]] = fs
  BY <1>3
<1>7. [fs EXCEPT ![n].res = fs[n].res] = fs
  BY <1>5, <1>6
<1> QED
  BY <1>3, <1>4, <1>7 DEF Returned, Frame, fs

\* The call returned; the module's statements are over.
LEMMA PlainReturns == ASSUME IInv, CallReturns \/ ModuleEnds PROVE IInv'
<1>1. Running /\ frames # << >> /\ jump = 0 /\ Top.kind \in {"call", "module"} /\ Top.tmp = 0
  BY DEF CallReturns, ModuleEnds, ListOver, Running
<1>2. frames' = Upto(Depth - 1) /\ rec' = Top.rec /\ jump' = 0 /\ sp' = sp /\ exc' = exc
      /\ modules' = modules /\ env' = env - (IF IsCall(Top) THEN 1 ELSE 0)
  <2>1. CASE CallReturns
    BY <1>1, <2>1 DEF CallReturns, RecoveryAfter, IsCall, ListOver
  <2>2. CASE ModuleEnds
    <3>1. ~IsCall(Top) /\ env \in Nat
      BY <1>1, <2>2, TopFacts DEF ModuleEnds, ListOver, IsCall
    <3> QED
      BY <1>1, <2>2, <3>1 DEF ModuleEnds, RecoveryAfter
  <2> QED
    BY <2>1, <2>2
<1>3. Same(sp, Top.sp) /\ sp \in Int
  BY <1>1, TopFacts DEF Above, OwnValues, Frame, IInv
<1> QED
  BY <1>1, <1>2, <1>3, ReturnedTo, ReturnedUnchanged DEF IInv

\* What follows a try block, a catch block and a finally block, and a loop.
LEMMA BlockEnds ==
    ASSUME IInv, TryBodyEnds \/ CatchEnds PROVE IInv'
<1>1. Running /\ frames # << >> /\ jump = 0 /\ Top.kind = "try" /\ Top.tmp = 0
      /\ rec' = Top.rec /\ jump' = 0 /\ exc' = exc /\ modules' = modules /\ env' = env
  BY DEF TryBodyEnds, CatchEnds, ListOver, Running, AfterBlock, RecoveryAfter
<1>2. Top \in Frame /\ Same(sp, Above(Top)) /\ env \in Nat /\ Top = frames[Len(frames)]
  BY <1>1, TopFacts DEF Top, Depth
<1>3. Same(sp', Top.sp) /\ sp' \in Int
  <2>1. CASE TryBodyEnds
    BY <1>1, <1>2, <2>1 DEF TryBodyEnds, Above, OwnValues, Frame, IInv
  <2>2. CASE CatchEnds
    BY <1>1, <1>2, <2>2 DEF CatchEnds, Above, OwnValues, Frame, IInv
  <2> QED
    BY <2>1, <2>2
<1>4. frames' = IF "finally" \in Top.has
                THEN WithTop([Top EXCEPT !.mode = "finally", !.out = Top.res, !.res = "normal"])
                ELSE Returned(Top.res)
  BY DEF TryBodyEnds, CatchEnds, AfterBlock
<1>5. CASE "finally" \in Top.has
  <2> DEFINE f == [Top EXCEPT !.mode = "finally", !.out = Top.res, !.res = "normal"]
  <2>1. /\ f \in Frame /\ f.kind = "try" /\ f.rec = Top.rec /\ f.sp = Top.sp /\ f.has = Top.has
        /\ f.mode = "finally" /\ f.tmp = 0
    BY <1>1, <1>2 DEF Frame
  <2>2. frames' = [frames EXCEPT ![Len(frames)] = f]
    BY <1>4, <1>5 DEF WithTop, Depth
  <2> HIDE DEF f
  <2>3. ~Guards(f) /\ Above(f) = Top.sp
    BY <1>2, <2>1 DEF Guards, Above, OwnValues, Frame
  <2>4. WellNested(frames) /\ env = Cardinality(Calls(frames)) /\ exc \in {"none", "ex"}
        /\ modules \subseteq Modules
    BY DEF IInv
  <2> QED
    BY <1>1, <1>2, <1>3, <2>1, <2>2, <2>3, <2>4, Resumed
<1>6. CASE "finally" \notin Top.has
  <2>1. ~IsCall(Top) /\ Top.res \in {"normal", "left"} /\ Top.kind \notin {"main", "show"}
    BY <1>1, <1>2 DEF IsCall, Frame
  <2> QED
    BY <1>1, <1>2, <1>3, <1>4, <1>6, <2>1, ReturnedTo DEF IInv
<1> QED
  BY <1>5, <1>6

\* There is one innermost function whose setjmp is in force.
LEMMA InnermostUnique ==
    ASSUME NEW fs, NEW n \in Nat, NEW r, NEW q, Innermost(fs, n, r), Innermost(fs, n, q)
    PROVE  r = q
  BY DEF Innermost

\* When the innermost function has no setjmp in force, the recovery environment
\* is the one it found.
LEMMA NoGuardNoChange ==
    ASSUME IInv, Running, ~Guards(Top), Top.kind \notin {"main", "show"}
    PROVE  rec = Top.rec /\ Depth - 1 \in 1 .. Depth /\ Innermost(frames, Depth - 1, rec)
<1>1. frames # << >> /\ jump = 0
  BY DEF Running
<1>2. /\ Depth \in Nat /\ Depth >= 1 /\ Placed(frames, Depth)
      /\ SavedRecovery(frames, Depth) /\ Innermost(frames, Depth, rec)
      /\ Top = frames[Depth]
  BY <1>1, TopFacts DEF Top
<1>3. Depth # 1
  BY <1>2 DEF Placed
<1>4. Innermost(frames, Depth - 1, Top.rec)
  BY <1>2 DEF SavedRecovery
<1>5. Innermost(frames, Depth - 1, rec)
  BY <1>2 DEF Innermost
<1>6. Depth - 1 \in Nat
  BY <1>2
<1> QED
  BY <1>2, <1>3, <1>4, <1>5, <1>6, InnermostUnique

\* execute_foreach_statement: the loop ends.
LEMMA ForeachEndsStep == ASSUME IInv, ForeachEnds PROVE IInv'
<1>1. Running /\ frames # << >> /\ jump = 0 /\ Top.kind = "foreach" /\ Top.tmp = 0
      /\ rec' = rec /\ jump' = 0 /\ exc' = exc /\ modules' = modules /\ env' = env
      /\ sp' = sp - 2
  BY DEF ForeachEnds, ListOver, Running
<1>2. PICK r \in {"normal", Top.res} : frames' = Returned(r)
  BY DEF ForeachEnds
<1>3. Top \in Frame /\ Same(sp, Above(Top)) /\ env \in Nat
  BY <1>1, TopFacts
<1>4. Same(sp', Top.sp) /\ sp' \in Int
  BY <1>1, <1>3 DEF Above, OwnValues, Frame, IInv
<1>5. r \in {"normal", "left"}
  BY <1>2, <1>3 DEF Frame
<1>6. rec' = Top.rec
  BY <1>1, NoGuardNoChange DEF Guards
<1>7. ~IsCall(Top) /\ Top.kind \notin {"main", "show"}
  BY <1>1 DEF IsCall
<1> QED
  BY <1>1, <1>2, <1>3, <1>4, <1>5, <1>6, <1>7, ReturnedTo DEF IInv

\* execute_try_statement: the finally block is over.
LEMMA FinallyEndsStep == ASSUME IInv, FinallyEnds PROVE IInv'
<1>1. Running /\ frames # << >> /\ jump = 0 /\ Top.kind = "try" /\ Top.mode = "finally"
      /\ rec' = rec /\ exc' = exc /\ modules' = modules /\ env' = env
      /\ sp' = sp /\ Top.tmp = 0
  BY DEF FinallyEnds, ListOver, Running
<1>2. Top \in Frame /\ Same(sp, Above(Top)) /\ env \in Nat /\ Depths(sp)
      /\ Depth \in Nat /\ Depth >= 1 /\ exc \in {"none", "ex"} /\ modules \subseteq Modules
  BY <1>1, TopFacts DEF IInv
<1>3. Same(sp', Top.sp) /\ Depths(sp')
  BY <1>1, <1>2 DEF Above, OwnValues, Frame
<1>4. ~IsCall(Top) /\ Top.kind \notin {"main", "show"} /\ ~Guards(Top)
  BY <1>1 DEF IsCall, Guards
<1>5. rec = Top.rec /\ Depth - 1 \in 1 .. Depth /\ Innermost(frames, Depth - 1, rec)
  BY <1>1, <1>4, NoGuardNoChange
<1>6. CASE frames' = Upto(Depth - 1) /\ jump' = Top.rec
  <2>1. \A i \in (Depth - 1) + 2 .. Depth : ~IsCall(frames[i])
    BY <1>2
  <2>2. Depth - 1 \in 0 .. Depth /\ ~IsCall(frames[(Depth - 1) + 1])
    BY <1>2, <1>4, <1>5 DEF Top
  <2>3. env' = Cardinality(Calls(Upto(Depth - 1)))
    BY <1>1, <1>2, <2>1, <2>2, Below
  <2> QED
    BY <1>1, <1>2, <1>5, <1>6, <2>3, Thrown
<1>7. CASE frames' = Returned(Top.out) /\ jump' = jump
  <2>1. Top.out \in {"normal", "left"}
    BY <1>2 DEF Frame
  <2> QED
    BY <1>1, <1>2, <1>3, <1>4, <1>5, <1>7, <2>1, ReturnedTo
<1> QED
  BY <1>6, <1>7 DEF FinallyEnds

\* execute_throw_statement, crb_runtime_error, CRB_error and the longjmp of
\* throw_runtime_exception, wherever they may be called
LEMMA RaiseSteps ==
    ASSUME IInv, \/ Throw \/ RuntimeError \/ LeftToplevel \/ ShowRaises
                 \/ \E m \in Modules : ImportMissing(m)
    PROVE  IInv'
<1>1. Running /\ jump = 0 /\ frames # << >> /\ frames' = frames /\ rec' = rec /\ sp' = sp
      /\ env' = env /\ jump' = rec /\ exc' \in {"ex", "none"}
  BY DEF Throw, RuntimeError, LeftToplevel, ShowRaises, Raise, ImportMissing, AtImport,
         AtStatement, InList, ListOver, Running
<1>2. modules' \subseteq Modules
  BY DEF Throw, RuntimeError, LeftToplevel, ShowRaises, Raise, ImportMissing, AtImport, IInv
<1>3. Innermost(frames, Depth, rec) /\ Depth \in Nat
  BY <1>1, TopFacts
<1>4. rec # 0 /\ Depth' = Depth
  BY <1>1, <1>3 DEF Innermost, Depth
<1> QED
  BY <1>1, <1>2, <1>3, <1>4 DEF IInv, Control

\* execute_foreach_statement: the loop begins.
LEMMA ForeachStep == ASSUME IInv, Foreach PROVE IInv'
<1> DEFINE g == [Top EXCEPT !.tmp = 0]
           fs == [frames EXCEPT ![Len(frames)] = g]
           f == NewFrame("foreach", sp - 1)
<1>1. Running /\ jump = 0 /\ frames # << >> /\ Top.tmp = 1 /\ Depth < MaxFrames
      /\ frames' = Append(fs, f) /\ sp' = sp + 1 /\ rec' = rec /\ env' = env /\ exc' = exc
      /\ jump' = 0 /\ modules' = modules
  BY DEF Foreach, InList, Running, WithTop, Depth
<1>2. /\ Top \in Frame /\ Same(sp, Above(Top)) /\ Depth \in Nat /\ Depth >= 1
      /\ Innermost(frames, Depth, rec) /\ SavedStack(frames, Depth)
      /\ Top = frames[Len(frames)] /\ Depth = Len(frames) /\ frames \in Seq(Frame)
  BY <1>1, TopFacts DEF Top, Depth
<1>3. g \in Frame /\ g.kind = Top.kind /\ g.rec = Top.rec /\ g.sp = Top.sp
      /\ g.has = Top.has /\ g.mode = Top.mode /\ g.tmp = 0
  <2>1. 0 \in 0 .. MaxTemps
    BY ExecAssumption
  <2>2. g \in Frame
    BY <1>2, <2>1 DEF Frame
  <2>3. g.kind = Top.kind /\ g.rec = Top.rec /\ g.sp = Top.sp /\ g.has = Top.has
        /\ g.mode = Top.mode /\ g.tmp = 0
    BY <1>2 DEF Frame
  <2> QED
    BY <2>2, <2>3
<1> HIDE DEF g
<1>4. (Guards(g) <=> Guards(Top)) /\ (IsCall(g) <=> IsCall(Top))
  BY <1>3 DEF Guards, IsCall
<1>5. Same(Above(g), sp - 1) /\ Depths(sp - 1)
  <2>1. Depths(Top.sp) /\ Depths(sp)
    BY <1>2 DEF SavedStack, IInv
  <2> QED
    BY <1>1, <1>2, <1>3, <1>4, <2>1 DEF Above, OwnValues
<1>6. WellNested(frames) /\ env = Cardinality(Calls(frames)) /\ exc \in {"none", "ex"}
      /\ modules \subseteq Modules
  BY DEF IInv
<1>7. WellNested(fs) /\ Len(fs) = Depth /\ fs[Depth] = g
      /\ \A i \in 1 .. Depth - 1 : fs[i] = frames[i]
  <2> HIDE DEF f
  <2>1. g.kind = frames[Len(frames)].kind /\ g.rec = frames[Len(frames)].rec
        /\ g.sp = frames[Len(frames)].sp /\ g.has = frames[Len(frames)].has
    BY <1>1, <1>2, <1>3
  <2>2. frames # << >> /\ WellNested(frames) /\ g \in Frame
    BY <1>1, <1>3, <1>6
  <2>3. /\ WellNested(fs) /\ Len(fs) = Len(frames) /\ fs[Len(frames)] = g
        /\ \A i \in 1 .. Len(frames) - 1 : fs[i] = frames[i]
    BY <2>1, <2>2, TopNested
  <2> QED
    BY <1>2, <2>3
<1> HIDE DEF fs
<1>8. \A i \in 1 .. Depth : fs[i].kind = frames[i].kind
  BY <1>2, <1>3, <1>7
<1>9. Cardinality(Calls(fs)) = env
  <2>1. \A i \in 1 .. Len(fs) : fs[i].kind = frames[i].kind
    BY <1>7, <1>8
  <2>2. \A i \in Len(fs) + 2 .. Len(frames) : ~IsCall(frames[i])
    BY <1>2, <1>7
  <2>3. Len(fs) = Len(frames) /\ Len(fs) <= Len(frames) /\ ~(Len(fs) < Len(frames))
    BY <1>2, <1>7
  <2> QED
    BY <1>6, <1>7, <2>1, <2>2, <2>3, CallsCounted
<1>10. Innermost(fs, Depth, rec)
  BY <1>2, <1>4, <1>7 DEF Innermost
<1>11. f \in Frame /\ f.kind = "foreach" /\ f.sp = sp - 1 /\ f.rec = rec /\ f.mode = "body"
       /\ f.tmp = 0
  BY <1>5, RegisterRange, NewFrameFacts DEF Kinds
<1> HIDE DEF f
<1>12. ~Guards(f) /\ ~IsCall(f) /\ f.sp = sp - 1 /\ sp' = Above(f)
  <2>1. ~Guards(f) /\ ~IsCall(f) /\ f.sp = sp - 1
    BY <1>11 DEF Guards, IsCall
  <2>2. sp \in Int
    BY DEF IInv
  <2>3. OwnValues(f) = 2
    BY <1>11 DEF OwnValues
  <2> QED
    BY <1>1, <2>1, <2>2, <2>3 DEF Above
<1>13. fs # << >> /\ env \in Nat
  BY <1>1, <1>2, <1>7, TopFacts DEF WellNested
<1> QED
  <2>1. /\ f.kind \notin {"main", "show", "try"} /\ Innermost(fs, Len(fs), f.rec)
        /\ Depths(f.sp) /\ Same(f.sp, Above(fs[Len(fs)])) /\ Len(fs) < MaxFrames
    BY <1>1, <1>5, <1>7, <1>10, <1>11, <1>12
  <2>2. /\ rec' = (IF Guards(f) THEN Len(fs) + 1 ELSE f.rec) /\ sp' = Above(f) /\ sp' \in Int
        /\ env' = Cardinality(Calls(fs)) + (IF IsCall(f) THEN 1 ELSE 0)
    BY <1>1, <1>9, <1>11, <1>12, <1>13
  <2> QED
    BY <1>1, <1>6, <1>7, <1>11, <1>13, <2>1, <2>2, Entered

\* show_error_stack_trace calls the exception's method.
LEMMA ShowCallsStep == ASSUME IInv, ShowCalls PROVE IInv'
<1> DEFINE g == [Top EXCEPT !.mode = "printed"]
           fs == [frames EXCEPT ![Len(frames)] = g]
           f == NewFrame("call", sp)
<1>1. Running /\ jump = 0 /\ frames # << >> /\ Top.kind = "show" /\ Depth < MaxFrames
      /\ frames' = Append(fs, f) /\ rec' = Len(fs) + 1 /\ sp' = sp /\ env' = env + 1
      /\ exc' = exc /\ jump' = 0 /\ modules' = modules
  BY DEF ShowCalls, Running, WithTop, Depth, Enter
<1>2. /\ Top \in Frame /\ Same(sp, Above(Top)) /\ Depth \in Nat /\ Depth >= 1
      /\ Innermost(frames, Depth, rec) /\ Depths(sp)
      /\ Top = frames[Len(frames)] /\ Depth = Len(frames) /\ frames \in Seq(Frame)
  BY <1>1, TopFacts DEF Top, Depth, IInv
<1>3. g \in Frame /\ g.kind = "show" /\ g.rec = Top.rec /\ g.sp = Top.sp
      /\ g.has = Top.has /\ g.mode = "printed" /\ g.tmp = Top.tmp
  BY <1>1, <1>2 DEF Frame
<1> HIDE DEF g
<1>4. Same(Above(g), sp) /\ (Guards(g) <=> Guards(Top)) /\ (IsCall(g) <=> IsCall(Top))
  BY <1>1, <1>2, <1>3 DEF Guards, IsCall, Above, OwnValues
<1>6. WellNested(frames) /\ env = Cardinality(Calls(frames)) /\ exc \in {"none", "ex"}
      /\ modules \subseteq Modules
  BY DEF IInv
<1>7. WellNested(fs) /\ Len(fs) = Depth /\ fs[Depth] = g
      /\ \A i \in 1 .. Depth - 1 : fs[i] = frames[i]
  <2> HIDE DEF f
  <2>1. g.kind = frames[Len(frames)].kind /\ g.rec = frames[Len(frames)].rec
        /\ g.sp = frames[Len(frames)].sp /\ g.has = frames[Len(frames)].has
    BY <1>1, <1>2, <1>3
  <2>2. frames # << >> /\ WellNested(frames) /\ g \in Frame
    BY <1>1, <1>3, <1>6
  <2>3. /\ WellNested(fs) /\ Len(fs) = Len(frames) /\ fs[Len(frames)] = g
        /\ \A i \in 1 .. Len(frames) - 1 : fs[i] = frames[i]
    BY <2>1, <2>2, TopNested
  <2> QED
    BY <1>2, <2>3
<1> HIDE DEF fs
<1>8. \A i \in 1 .. Depth : fs[i].kind = frames[i].kind
  BY <1>1, <1>2, <1>3, <1>7
<1>9. Cardinality(Calls(fs)) = env
  <2>1. \A i \in 1 .. Len(fs) : fs[i].kind = frames[i].kind
    BY <1>7, <1>8
  <2>2. \A i \in Len(fs) + 2 .. Len(frames) : ~IsCall(frames[i])
    BY <1>2, <1>7
  <2>3. Len(fs) = Len(frames) /\ Len(fs) <= Len(frames) /\ ~(Len(fs) < Len(frames))
    BY <1>2, <1>7
  <2> QED
    BY <1>6, <1>7, <2>1, <2>2, <2>3, CallsCounted
<1>10. Innermost(fs, Depth, rec)
  BY <1>2, <1>4, <1>7 DEF Innermost
<1>11. f \in Frame /\ f.kind = "call" /\ f.sp = sp /\ f.rec = rec /\ f.mode = "body"
       /\ f.tmp = 0
  BY <1>2, RegisterRange, NewFrameFacts DEF Kinds
<1> HIDE DEF f
<1>12. Guards(f) /\ IsCall(f) /\ f.sp = sp /\ sp' = Above(f) /\ Depths(f.sp)
  BY <1>1, <1>2, <1>11 DEF Guards, IsCall, Above, OwnValues
<1>13. fs # << >>
  BY <1>1, <1>2, <1>7 DEF WellNested
<1> QED
  BY <1>1, <1>2, <1>4, <1>6, <1>7, <1>9, <1>10, <1>11, <1>12, <1>13, Entered

\* CRB_interpret begins.
LEMMA InterpretStep == ASSUME IInv, Interpret PROVE IInv'
<1> DEFINE f == NewFrame("main", sp)
<1>1. frames = << >> /\ frames' = Append(<< >>, f) /\ rec' = Len(<< >>) + 1 /\ sp' = sp
      /\ env' = env /\ exc' = exc /\ jump' = jump /\ modules' = modules
  BY DEF Interpret, Enter
<1>2. jump = 0 /\ sp = 0
  BY <1>1 DEF IInv, Control, Running, Innermost, Depth
<1>3. WellNested(<< >>) /\ env = Cardinality(Calls(<< >>)) /\ env \in Nat
  <2>1. WellNested(<< >>) /\ env = Cardinality(Calls(<< >>))
    BY <1>1 DEF IInv
  <2>2. Calls(<< >>) = {}
    BY DEF Calls
  <2> QED
    BY <2>1, <2>2, FS_EmptySet
<1>4. f \in Frame /\ f.kind = "main" /\ f.sp = 0 /\ f.mode = "body" /\ f.tmp = 0
  BY <1>2, RegisterRange, NewFrameFacts DEF Kinds
<1> HIDE DEF f
<1>5. Guards(f) /\ ~IsCall(f) /\ f.sp = 0 /\ Above(f) = 0
  BY <1>4 DEF Guards, IsCall, Above, OwnValues
<1>6. Len(<< >>) = 0 /\ Len(<< >>) < MaxFrames
  BY ExecAssumption
<1>7. exc' \in {"none", "ex"} /\ modules' \subseteq Modules
  BY <1>1 DEF IInv
<1> QED
  BY <1>1, <1>2, <1>3, <1>4, <1>5, <1>6, <1>7, Entered

\* CRB_interpret returns.
LEMMA EndSteps == ASSUME IInv, MainEnds \/ ShowEnds PROVE IInv'
<1>1. Running /\ jump = 0 /\ frames # << >> /\ Top.kind \in {"main", "show"}
      /\ frames' = << >> /\ rec' = 0 /\ env' = env /\ jump' = 0 /\ modules' = modules
      /\ (Top.kind = "main" => Top.tmp = 0 /\ sp' = sp /\ exc' = exc)
      /\ (Top.kind = "show" => sp' = 0 /\ exc' = "none")
  BY DEF MainEnds, ShowEnds, ListOver, Running
<1>2. /\ Top \in Frame /\ Same(sp, Above(Top)) /\ Depth \in Nat /\ Depth >= 1
      /\ Placed(frames, Depth) /\ SavedStack(frames, Depth) /\ Top = frames[Depth]
      /\ env \in Nat
  BY <1>1, TopFacts DEF Top
<1>3. sp' = 0
  <2>1. CASE Top.kind = "main"
    BY <1>1, <2>1 DEF MainEnds, ShowEnds, ListOver
  <2> QED
    BY <1>1, <2>1
<1>4. \A i \in 1 .. Depth : ~IsCall(frames[i])
  <2>1. Depth \in {1, 2} /\ Depth \in 1 .. Depth
    BY <1>1, <1>2 DEF Placed
  <2>2. Placed(frames, 1)
    BY <2>1 DEF IInv, WellNested, Depth
  <2> QED
    BY <1>1, <1>2, <2>1, <2>2 DEF Placed, IsCall
<1>5. Calls(frames) = {} /\ env = Cardinality(Calls(frames))
  BY <1>4 DEF Calls, IInv, Depth
<1>6. env = 0
  BY <1>5, FS_EmptySet
<1> QED
  BY <1>1, <1>3, <1>6, Ended DEF IInv

\* Where a jump is going: the functions beyond have no setjmp in force, so none
\* of them is a call; and what its frame saved.
LEMMA LandingFacts ==
    ASSUME IInv, jump # 0
    PROVE  /\ frames # << >> /\ Depth \in Nat /\ Depth >= 1 /\ jump \in 1 .. Depth
           /\ jump - 1 \in 0 .. Depth /\ Depth <= MaxFrames
           /\ frames[jump] \in Frame /\ rec \in {0, jump}
           /\ \A i \in jump + 1 .. Depth : ~Guards(frames[i]) /\ ~IsCall(frames[i])
           /\ Placed(frames, jump) /\ SavedRecovery(frames, jump) /\ SavedStack(frames, jump)
           /\ WellNested(Upto(jump - 1)) /\ Len(Upto(jump - 1)) = jump - 1
           /\ (Upto(jump - 1) = << >> <=> jump = 1)
           /\ \A i \in 1 .. jump - 1 : Upto(jump - 1)[i] = frames[i]
           /\ Cardinality(Calls(Upto(jump - 1))) =
                  env - (IF IsCall(frames[jump]) THEN 1 ELSE 0)
           /\ env \in Nat
<1>1. Innermost(frames, Depth, jump) /\ rec \in {0, jump}
  BY DEF IInv, Control, Running
<1>2. WellNested(frames) /\ Depth = Len(frames) /\ Depth \in Nat /\ Depth <= MaxFrames
  BY DEF IInv, WellNested, Depth
<1>3. jump \in 1 .. Depth /\ jump - 1 \in 0 .. Depth /\ Depth >= 1 /\ frames # << >>
      /\ jump - 1 < Depth /\ (jump - 1) + 1 = jump
  BY <1>1, <1>2 DEF Innermost
<1>4. \A i \in jump + 1 .. Depth : ~Guards(frames[i]) /\ ~IsCall(frames[i])
  BY <1>1 DEF Innermost, Guards, IsCall
<1>5. Placed(frames, jump) /\ SavedRecovery(frames, jump) /\ SavedStack(frames, jump)
      /\ frames[jump] \in Frame
  BY <1>2, <1>3 DEF WellNested
<1>6. \A i \in (jump - 1) + 2 .. Depth : ~IsCall(frames[i])
  BY <1>3, <1>4
<1>7. /\ WellNested(Upto(jump - 1)) /\ Len(Upto(jump - 1)) = jump - 1
      /\ (Upto(jump - 1) = << >> <=> jump = 1)
      /\ \A i \in 1 .. jump - 1 : Upto(jump - 1)[i] = frames[i]
      /\ Cardinality(Calls(Upto(jump - 1))) =
             env - (IF jump - 1 < Depth /\ IsCall(frames[(jump - 1) + 1]) THEN 1 ELSE 0)
  BY <1>3, <1>6, Below
<1>8. env \in Nat
  BY <1>3, TopFacts
<1> QED
  BY <1>1, <1>2, <1>3, <1>4, <1>5, <1>7, <1>8

\* The handlers that pass the exception on.
LEMMA PassedOn == ASSUME IInv, LandCall \/ LandModule PROVE IInv'
<1> DEFINE f == frames[jump]
<1>1. jump # 0 /\ f.kind \in {"call", "module"} /\ frames' = Upto(jump - 1)
      /\ jump' = f.rec /\ exc' = exc /\ modules' = modules
      /\ env' = env - (IF IsCall(f) THEN 1 ELSE 0)
  <2>1. CASE LandCall
    BY <2>1 DEF LandCall, Landing, NextTarget, EnvDisposed, IsCall
  <2>2. CASE LandModule
    <3>1. jump # 0 /\ ~IsCall(f)
      BY <2>2 DEF LandModule, Landing, IsCall
    <3>2. env \in Nat
      BY <3>1, LandingFacts
    <3> QED
      BY <2>2, <3>1, <3>2 DEF LandModule, Landing, NextTarget
  <2> QED
    BY <2>1, <2>2
<1>2. f \in Frame /\ jump \in 1 .. Depth /\ Depth \in Nat /\ rec \in {0, jump}
      /\ Placed(frames, jump) /\ SavedRecovery(frames, jump)
      /\ Cardinality(Calls(Upto(jump - 1))) = env'
  BY <1>1, LandingFacts
<1>3. jump - 1 \in 1 .. Depth /\ Innermost(frames, jump - 1, f.rec)
  BY <1>1, <1>2 DEF Placed, SavedRecovery
<1>4. rec' \in {0, f.rec} /\ Depths(sp')
  <2>1. CASE LandCall
    BY <1>1, <1>2, <2>1, LandingFacts DEF LandCall, Dangling, SavedStack
  <2>2. CASE LandModule
    BY <2>2 DEF LandModule
  <2> QED
    BY <2>1, <2>2
<1> QED
  BY <1>1, <1>2, <1>3, <1>4, Thrown DEF IInv

\* The handler of a try statement
LEMMA LandTryStep == ASSUME IInv, LandTry PROVE IInv'
<1> DEFINE e == frames[jump]
           fs == Upto(jump - 1)
<1>1. jump # 0 /\ e.kind = "try" /\ rec' = e.rec /\ jump' = 0 /\ env' = env
      /\ modules' = modules
  BY DEF LandTry, Landing
<1>2. /\ e \in Frame /\ jump \in 1 .. Depth /\ Depth \in Nat /\ Depth <= MaxFrames
      /\ Placed(frames, jump) /\ SavedRecovery(frames, jump) /\ SavedStack(frames, jump)
      /\ WellNested(fs) /\ Len(fs) = jump - 1 /\ (fs = << >> <=> jump = 1)
      /\ (\A i \in 1 .. jump - 1 : fs[i] = frames[i])
      /\ Cardinality(Calls(fs)) = env - (IF IsCall(e) THEN 1 ELSE 0)
      /\ env \in Nat
  BY <1>1, LandingFacts
<1>3. PICK f :
         /\ \E m \in {"catch", "finally"}, r \in {"normal", "left"} :
               f = [e EXCEPT !.tmp = 0, !.res = "normal", !.mode = m, !.out = r]
         /\ frames' = Append(fs, f)
         /\ sp' = e.sp + (IF f.mode = "catch" THEN 1 ELSE 0)
         /\ exc' \in {"none", exc}
  <2> DEFINE h == [e EXCEPT !.tmp = 0, !.res = "normal"]
  <2>0. h.sp = e.sp /\ e.out \in {"normal", "left"}
    BY <1>2 DEF Frame
  <2>1. CASE /\ frames' = Append(fs, [h EXCEPT !.mode = "catch"])
             /\ sp' = StackRestored(h) + 1 /\ exc' = "none"
    <3> DEFINE f == [h EXCEPT !.mode = "catch"]
    <3>1. f = [e EXCEPT !.tmp = 0, !.res = "normal", !.mode = "catch", !.out = e.out]
      BY <1>2 DEF Frame
    <3>2. f.mode = "catch"
      BY <1>2 DEF Frame
    <3> QED
      BY <2>0, <2>1, <3>1, <3>2 DEF StackRestored
  <2>2. CASE /\ \E r \in {"normal", "left"} :
                   frames' = Append(fs, [h EXCEPT !.mode = "finally", !.out = r])
             /\ sp' = StackRestored(h) /\ exc' = exc
    <3>1. PICK r \in {"normal", "left"} :
              frames' = Append(fs, [h EXCEPT !.mode = "finally", !.out = r])
      BY <2>2
    <3> DEFINE f == [h EXCEPT !.mode = "finally", !.out = r]
    <3>2. f = [e EXCEPT !.tmp = 0, !.res = "normal", !.mode = "finally", !.out = r]
      BY <1>2 DEF Frame
    <3>3. f.mode = "finally" /\ e.sp + 0 = e.sp
      BY <1>2 DEF Frame
    <3> QED
      BY <2>0, <2>2, <3>1, <3>2, <3>3 DEF StackRestored
  <2> QED
    BY <2>1, <2>2 DEF LandTry
<1>4. f \in Frame /\ f.kind = "try" /\ f.rec = e.rec /\ f.sp = e.sp /\ f.has = e.has
      /\ f.tmp = 0 /\ f.mode \in {"catch", "finally"}
  <2>1. PICK m \in {"catch", "finally"}, r \in {"normal", "left"} :
            f = [e EXCEPT !.tmp = 0, !.res = "normal", !.mode = m, !.out = r]
    BY <1>3
  <2>2. e \in Frame /\ e.kind = "try" /\ 0 \in 0 .. MaxTemps
    BY <1>1, <1>2, ExecAssumption
  <2> HIDE DEF e
  <2> QED
    BY <2>1, <2>2 DEF Frame
<1>5. ~Guards(f) /\ ~IsCall(f) /\ ~IsCall(e) /\ f.sp = e.sp
      /\ Depths(e.sp)
  BY <1>1, <1>2, <1>4 DEF Guards, IsCall, SavedStack
<1>6. sp' = Above(f) /\ sp' \in Int
  BY <1>3, <1>4, <1>5 DEF Above, OwnValues
<1>7. jump > 1 /\ fs # << >> /\ Len(fs) < MaxFrames /\ f.has # {} /\ jump - 1 \in Nat
  <2>1. jump # 1 /\ e.has # {}
    BY <1>1, <1>2 DEF Placed
  <2> HIDE DEF e, fs
  <2> QED
    BY <1>2, <1>4, <2>1, ExecAssumption
<1> HIDE DEF e, fs
<1>8. Innermost(fs, Len(fs), f.rec)
  <2>1. Innermost(frames, jump - 1, e.rec)
    BY <1>1, <1>2 DEF SavedRecovery, e
  <2> QED
    BY <1>2, <1>4, <1>7, <2>1 DEF Innermost
<1>9. Same(f.sp, Above(fs[Len(fs)]))
  <2>1. Same(e.sp, Above(frames[jump - 1]))
    BY <1>1, <1>2, <1>7 DEF SavedStack, e
  <2>2. fs[jump - 1] = frames[jump - 1]
    BY <1>2, <1>7
  <2> QED
    BY <1>2, <1>5, <2>1, <2>2
<1>10. exc' \in {"none", "ex"} /\ modules' \subseteq Modules
  BY <1>1, <1>3 DEF IInv
<1>11. env' = Cardinality(Calls(fs)) + (IF IsCall(f) THEN 1 ELSE 0)
  BY <1>1, <1>2, <1>5
<1>12. rec' = (IF Guards(f) THEN Len(fs) + 1 ELSE f.rec) /\ jump' = 0 /\ frames' = Append(fs, f)
  BY <1>1, <1>3, <1>4, <1>5
<1> QED
  BY <1>2, <1>4, <1>5, <1>6, <1>7, <1>8, <1>9, <1>10, <1>11, <1>12, Entered

\* The handlers of CRB_interpret and of show_error_stack_trace
LEMMA LandMainStep == ASSUME IInv, LandMain PROVE IInv'
<1> DEFINE f == [NewFrame("show", sp) EXCEPT !.rec = 0]
           fs == Upto(1)
<1>1. jump # 0 /\ frames[jump].kind \in {"main", "show"}
      /\ frames' = Append(fs, f) /\ rec' = Len(fs) + 1 /\ jump' = 0 /\ sp' = sp /\ env' = env
      /\ exc' = exc /\ modules' = modules
  BY DEF LandMain, Landing, Enter
<1>2. /\ frames # << >> /\ jump \in 1 .. Depth /\ Depth \in Nat /\ Depth >= 1
      /\ \A i \in jump + 1 .. Depth : ~IsCall(frames[i])
      /\ Placed(frames, jump) /\ env \in Nat
  BY <1>1, LandingFacts
<1>3. Placed(frames, 1) /\ 1 \in 0 .. Depth
  BY <1>2 DEF IInv, WellNested, Depth
<1>4. \A i \in 1 .. Depth : ~IsCall(frames[i])
  <2>1. jump \in {1, 2}
    BY <1>1, <1>2 DEF Placed
  <2>2. ~IsCall(frames[1]) /\ ~IsCall(frames[jump])
    BY <1>1, <1>3 DEF Placed, IsCall
  <2> QED
    BY <1>2, <2>1, <2>2
<1>5. WellNested(fs) /\ Len(fs) = 1 /\ fs # << >> /\ Cardinality(Calls(fs)) = env
  <2>1. \A i \in 1 + 2 .. Depth : ~IsCall(frames[i])
    BY <1>2, <1>4
  <2>2. ~(1 < Depth /\ IsCall(frames[1 + 1]))
    BY <1>2, <1>4
  <2>3. /\ WellNested(Upto(1)) /\ Len(Upto(1)) = 1 /\ (Upto(1) = << >> <=> 1 = 0)
        /\ Cardinality(Calls(Upto(1))) = env - (IF 1 < Depth /\ IsCall(frames[1 + 1]) THEN 1 ELSE 0)
    BY <1>3, <2>1, Below
  <2> QED
    BY <1>2, <2>2, <2>3
<1>6. Depths(sp)
  BY DEF IInv
<1>7. f \in Frame /\ f.kind = "show" /\ f.sp = sp /\ f.tmp = 0
  <2> DEFINE g == NewFrame("show", sp)
  <2>1. g \in Frame /\ g.kind = "show" /\ g.sp = sp /\ g.tmp = 0
    BY <1>6, RegisterRange, NewFrameFacts DEF Kinds
  <2>2. 0 \in 0 .. MaxFrames /\ f = [g EXCEPT !.rec = 0]
    BY ExecAssumption
  <2> HIDE DEF f, g
  <2> QED
    BY <2>1, <2>2 DEF Frame
<1> HIDE DEF f, fs
<1>8. Guards(f) /\ ~IsCall(f) /\ f.sp = sp /\ Above(f) = sp
  BY <1>6, <1>7 DEF Guards, IsCall, Above, OwnValues
<1>9. Len(fs) < MaxFrames
  BY <1>5, ExecAssumption
<1>10. exc' \in {"none", "ex"} /\ modules' \subseteq Modules
  BY <1>1 DEF IInv
<1>11. /\ rec' = (IF Guards(f) THEN Len(fs) + 1 ELSE f.rec) /\ sp' = Above(f)
       /\ env' = Cardinality(Calls(fs)) + (IF IsCall(f) THEN 1 ELSE 0)
       /\ Depths(f.sp) /\ sp' \in Int
  BY <1>1, <1>2, <1>5, <1>6, <1>8
<1> QED
  BY <1>1, <1>5, <1>7, <1>9, <1>10, <1>11, Entered

-----------------------------------------------------------------------------
(* Theorems. *)

\* Every step of the interpreter, and every stutter, preserves the invariant.
LEMMA NextIInv == IInv /\ [Next]_vars => IInv'
<1> SUFFICES ASSUME IInv, [Next]_vars PROVE IInv'
  OBVIOUS
<1>1. CASE Evaluate
  BY <1>1, TopSteps, CallStep, PlainReturns DEF Evaluate
<1>2. CASE RaiseStep
  BY <1>2, RaiseSteps DEF RaiseStep
<1>3. CASE Execute
  BY <1>3, TopSteps, TryStep, BlockEnds, FinallyEndsStep, ForeachStep, ForeachEndsStep
  DEF Execute
<1>4. CASE Toplevel
  BY <1>4, InterpretStep, EndSteps, RaiseSteps, PlainReturns, ShowCallsStep, ImportStep
  DEF Toplevel
<1>5. CASE Land
  BY <1>5, PassedOn, LandTryStep, LandMainStep DEF Land
<1>6. CASE UNCHANGED vars
  BY <1>6 DEF vars, IInv, Control, Running, Depth, Top
<1> QED
  BY <1>1, <1>2, <1>3, <1>4, <1>5, <1>6 DEF Next

\* The invariant of the interpreter: every active function has saved what its
\* handler will need, and the registers are what those functions account for.
THEOREM Invariance == Spec => []IInv
<1> QED
  BY InitIInv, NextIInv, PTL DEF Spec

\* Every variable keeps its type: the stack pointer, the environment chain and
\* the target of a jump are never out of range, when modules are imported only
\* while the evaluation stack is empty.
THEOREM TypeCorrect == ASSUME ~ImportAnywhere PROVE Spec => []TypeOK
<1>1. IInv => TypeOK
  <2> SUFFICES ASSUME IInv PROVE TypeOK
    OBVIOUS
  <2>1. frames \in Seq(Frame) /\ Depth \in Nat /\ Depth <= MaxFrames
        /\ rec \in 0 .. Depth /\ jump \in 0 .. Depth
    BY RegisterRange DEF IInv, WellNested
  <2>2. env \in 0 .. MaxFrames
    <3>1. Calls(frames) \subseteq 1 .. Depth
      BY DEF Calls, Depth
    <3>2. IsFiniteSet(1 .. Depth) /\ Cardinality(1 .. Depth) = Depth
      BY <2>1, FS_Interval
    <3>3. Cardinality(Calls(frames)) <= Depth
      BY <3>1, <3>2, FS_Subset
    <3>4. Cardinality(Calls(frames)) \in Nat
      BY <3>1, <3>2, FS_Subset, FS_CardinalityType
    <3> QED
      BY <2>1, <3>3, <3>4, ExecAssumption DEF IInv
  <2>3. sp \in Nat /\ \A i \in 1 .. Depth : frames[i].sp \in Nat
    BY DEF IInv, WellNested, SavedStack, Depth
  <2> QED
    BY <2>1, <2>2, <2>3 DEF TypeOK, IInv
<1> QED
  BY <1>1, Invariance, PTL

\* Whatever mix of returns, breaks, errors, catch and finally blocks and imports
\* led to a state, the recovery environment is the innermost live setjmp.
THEOREM RecoveryAlwaysInnermost == Spec => []RecoveryIsInnermost
<1>1. IInv => RecoveryIsInnermost
  BY DEF IInv, Control, RecoveryIsInnermost, Innermost, Running
<1> QED
  BY <1>1, Invariance, PTL

\* A longjmp never goes to a function that has returned.
THEOREM JumpsAlwaysLive == Spec => []JumpsIntoLiveFrame
<1>1. IInv => JumpsIntoLiveFrame
  <2> SUFFICES ASSUME IInv, jump # 0 PROVE jump <= Depth /\ Guards(frames[jump])
    BY DEF JumpsIntoLiveFrame
  <2>1. Innermost(frames, Depth, jump) /\ jump \in 0 .. Depth
    BY RegisterRange DEF IInv, Control, Running
  <2> QED
    BY <2>1, RegisterRange DEF Innermost
<1> QED
  BY <1>1, Invariance, PTL

\* The evaluation stack holds what the active functions put there, after any
\* unwinding, and never goes below its bottom, when modules are imported only
\* while it is empty.
THEOREM StackAlwaysAccounted == ASSUME ~ImportAnywhere PROVE Spec => []StackAccounted
<1>1. IInv /\ TypeOK => StackAccounted
  <2> SUFFICES ASSUME IInv, TypeOK, Running, \A i \in 1 .. Depth : frames[i].kind # "show"
               PROVE  /\ frames[1].sp = 0
                      /\ \A i \in 1 .. Depth - 1 : frames[i + 1].sp = Above(frames[i])
                      /\ Same(sp, Above(Top))
    BY DEF StackAccounted
  <2>1. frames # << >> /\ jump = 0
    BY DEF Running
  <2>2. Depth \in Nat /\ Depth >= 1 /\ sp = Above(Top) /\ Depth = Len(frames)
    BY <2>1, TopFacts DEF Depth
  <2>3. \A i \in 1 .. Depth : SavedStack(frames, i)
    BY <2>2 DEF IInv, WellNested
  <2>4. frames[1].sp = 0
    BY <2>2, <2>3 DEF SavedStack
  <2>5. ASSUME NEW i \in 1 .. Depth - 1
        PROVE  frames[i + 1].sp = Above(frames[i])
    <3>1. i + 1 \in 1 .. Depth /\ i + 1 > 1 /\ (i + 1) - 1 = i
      BY <2>2
    <3>2. SavedStack(frames, i + 1) /\ frames[i + 1].kind # "show"
      BY <2>3, <3>1
    <3> QED
      BY <3>1, <3>2 DEF SavedStack
  <2> QED
    BY <2>2, <2>4, <2>5
<1> QED
  BY <1>1, Invariance, TypeCorrect, PTL

\* The environment chain has one environment for each call in progress, in
\* every running state and between programs.
THEOREM EnvironmentPerCall == Spec => []EnvPerCall
<1>1. IInv => EnvPerCall
  BY DEF IInv, EnvPerCall, Calls, Depth
<1> QED
  BY <1>1, Invariance, PTL

-----------------------------------------------------------------------------
(* A try block with a finally block is not left without one of its blocks. *)

\* Frame i is executing the block of a try statement that has a finally block.
InTryBlock(i) ==
    frames[i].kind = "try" /\ frames[i].mode = "body" /\ frames[i].has # {"catch"}

StillTry(i) == i <= Len(frames') /\ frames'[i].kind = "try"

\* The innermost function becomes g, of its kind, and may have entered f.
GoesOn(g, f) ==
    /\ g.kind = Top.kind
    /\ frames' \in {frames, WithTop(g), Append(frames, f), Append(WithTop(g), f)}

\* A step that leaves the functions below the innermost one alone, and of that
\* one the kind, keeps every try statement.
LEMMA KeptBelow ==
    ASSUME IInv, NEW i \in 1 .. Depth, frames[i].kind = "try",
           NEW g, NEW f, GoesOn(g, f)
    PROVE  StillTry(i)
<1>1. frames \in Seq(Frame) /\ Depth = Len(frames) /\ Depth \in Nat /\ Top = frames[Depth]
  BY DEF IInv, WellNested, Depth, Top
<1>2. Len(WithTop(g)) = Depth /\ WithTop(g) \in Seq(Frame \cup {g})
      /\ \A k \in 1 .. Depth : WithTop(g)[k] = IF k = Depth THEN g ELSE frames[k]
  BY <1>1 DEF WithTop
<1>3. WithTop(g)[i].kind = "try"
  BY <1>1, <1>2 DEF GoesOn
<1>4. \A s \in Seq(Frame \cup {g}) :
         Len(s) = Depth => i <= Len(Append(s, f)) /\ Append(s, f)[i] = s[i]
  BY <1>1
<1>5. frames \in Seq(Frame \cup {g})
  BY <1>1
<1>6. ASSUME NEW s \in {frames, WithTop(g)}
      PROVE  /\ i <= Len(s) /\ s[i].kind = "try"
             /\ i <= Len(Append(s, f)) /\ Append(s, f)[i].kind = "try"
  <2>1. s \in Seq(Frame \cup {g}) /\ Len(s) = Depth /\ s[i].kind = "try" /\ i <= Len(s)
    BY <1>1, <1>2, <1>3, <1>5, <1>6
  <2>2. i <= Len(Append(s, f)) /\ Append(s, f)[i] = s[i]
    BY <1>4, <2>1
  <2> QED
    BY <2>1, <2>2
<1>7. \E s \in {frames, WithTop(g)} : frames' = s \/ frames' = Append(s, f)
  BY DEF GoesOn
<1> QED
  BY <1>6, <1>7 DEF StillTry

\* A step that returns from a function that is not this try statement keeps it.
LEMMA KeptOnReturn ==
    ASSUME IInv, NEW i \in 1 .. Depth - 1, frames[i].kind = "try", NEW r,
           frames' \in {Upto(Depth - 1), Returned(r)}
    PROVE  StillTry(i)
<1> DEFINE n == Depth - 1
           fs == Upto(n)
<1>1. Depth \in Nat
  BY RegisterRange
<1>2. n \in 1 .. Depth /\ n \in 0 .. Depth /\ \A k \in n + 2 .. Depth : ~IsCall(frames[k])
  BY <1>1
<1>3. Len(fs) = n /\ fs \in Seq(Frame) /\ (\A k \in 1 .. n : fs[k] = frames[k])
      /\ \A k \in 1 .. n : fs[k] \in Frame
  BY <1>2, Below
<1> HIDE DEF fs
<1>4. i <= Len(fs) /\ fs[i] = frames[i]
  BY <1>1, <1>3
<1>5. Len([fs EXCEPT ![n].res = r]) = n
      /\ \A k \in 1 .. n : [fs EXCEPT ![n].res = r][k].kind = fs[k].kind
  BY <1>3 DEF Frame
<1> QED
  BY <1>3, <1>4, <1>5 DEF StillTry, Returned, fs

\* In a step of the innermost function that is not a landing.
LEMMA TryKeptRunning ==
    ASSUME IInv, Evaluate \/ RaiseStep \/ Execute \/ Toplevel,
           NEW i \in 1 .. Depth, InTryBlock(i)
    PROVE  StillTry(i)
<1>0. frames[i].kind = "try" /\ Depth \in Nat /\ frames # << >> /\ Depth >= 1
      /\ Top = frames[Depth]
  <2>1. Depth \in Nat /\ Depth >= 1
    BY RegisterRange
  <2> QED
    BY <2>1 DEF InTryBlock, Depth, Top
<1>1. /\ Top \in Frame /\ Placed(frames, Depth)
  BY <1>0, TopFacts
<1>2. CASE \/ Push \/ EndExpression \/ Leave \/ Call \/ RuntimeError \/ LeftToplevel
           \/ ShowRaises \/ ShowCalls \/ Throw \/ Try \/ Foreach
           \/ \E m \in Modules : ImportMissing(m) \/ Import(m)
  <2>1. CASE Push
    <3>1. GoesOn([Top EXCEPT !.tmp = @ + 1], Top)
      BY <1>1, <2>1 DEF GoesOn, Push, Frame
    <3> QED
      BY <1>0, <3>1, KeptBelow
  <2>2. CASE EndExpression
    <3>1. GoesOn([Top EXCEPT !.tmp = 0], Top)
      BY <1>1, <2>2 DEF GoesOn, EndExpression, Frame
    <3> QED
      BY <1>0, <3>1, KeptBelow
  <2>3. CASE Leave
    <3>1. GoesOn([Top EXCEPT !.res = "left"], Top)
      BY <1>1, <2>3 DEF GoesOn, Leave, Frame
    <3> QED
      BY <1>0, <3>1, KeptBelow
  <2>4. CASE Call
    <3>1. GoesOn(Top, NewFrame("call", sp))
      BY <2>4 DEF GoesOn, Call, Enter
    <3> QED
      BY <1>0, <3>1, KeptBelow
  <2>5. CASE RuntimeError \/ LeftToplevel \/ ShowRaises
    <3>1. GoesOn(Top, Top)
      BY <2>5 DEF GoesOn, RuntimeError, LeftToplevel, ShowRaises, Raise
    <3> QED
      BY <1>0, <3>1, KeptBelow
  <2>6. CASE ShowCalls
    <3>1. GoesOn([Top EXCEPT !.mode = "printed"], NewFrame("call", sp))
      BY <1>1, <2>6 DEF GoesOn, ShowCalls, Enter, Frame
    <3> QED
      BY <1>0, <3>1, KeptBelow
  <2>7. CASE Throw
    <3>1. GoesOn(Top, Top)
      BY <2>7 DEF GoesOn, Throw
    <3> QED
      BY <1>0, <3>1, KeptBelow
  <2>8. CASE Try
    <3>1. PICK has : Enter(frames, [NewFrame("try", sp) EXCEPT !.has = has])
      BY <2>8 DEF Try
    <3>2. GoesOn(Top, [NewFrame("try", sp) EXCEPT !.has = has])
      BY <3>1 DEF GoesOn, Enter
    <3> QED
      BY <1>0, <3>2, KeptBelow
  <2>9. CASE Foreach
    <3>1. GoesOn([Top EXCEPT !.tmp = 0], NewFrame("foreach", sp - 1))
      BY <1>1, <2>9 DEF GoesOn, Foreach, Frame
    <3> QED
      BY <1>0, <3>1, KeptBelow
  <2>10. CASE \E m \in Modules : ImportMissing(m) \/ Import(m)
    <3>1. GoesOn(Top, Top) \/ GoesOn(Top, NewFrame("module", sp'))
      BY <2>10 DEF GoesOn, ImportMissing, Import, Enter
    <3> QED
      BY <1>0, <3>1, KeptBelow
  <2> QED
    BY <1>2, <2>1, <2>2, <2>3, <2>4, <2>5, <2>6, <2>7, <2>8, <2>9, <2>10
<1>3. CASE CallReturns \/ FinallyEnds \/ ForeachEnds \/ ModuleEnds
  <2>1. ~InTryBlock(Depth)
    BY <1>0, <1>3 DEF CallReturns, FinallyEnds, ForeachEnds, ModuleEnds,
                      ListOver, InTryBlock
  <2>2. i \in 1 .. Depth - 1
    BY <1>0, <2>1
  <2>3. \E r : frames' \in {Upto(Depth - 1), Returned(r)}
    BY <1>3 DEF CallReturns, FinallyEnds, ForeachEnds, ModuleEnds
  <2> QED
    BY <1>0, <2>2, <2>3, KeptOnReturn
<1>4. CASE TryBodyEnds \/ CatchEnds
  <2>1. Top.kind = "try" /\ Top.mode \in {"body", "catch"} /\ AfterBlock
    BY <1>4 DEF TryBodyEnds, CatchEnds, ListOver
  <2>2. CASE "finally" \in Top.has
    <3> DEFINE g == [Top EXCEPT !.mode = "finally", !.out = Top.res, !.res = "normal"]
    <3>1. g.kind = Top.kind /\ frames' = WithTop(g)
      BY <1>1, <2>1, <2>2 DEF AfterBlock, Frame
    <3>2. GoesOn(g, Top)
      BY <3>1 DEF GoesOn
    <3> QED
      BY <1>0, <3>2, KeptBelow
  <2>3. CASE "finally" \notin Top.has
    <3>1. ~InTryBlock(Depth)
      <4>1. Top.has \in SUBSET {"catch", "finally"} /\ Top.has # {}
        BY <1>0, <1>1, <2>1 DEF Frame, Placed
      <4>2. Top.has = {"catch"}
        BY <2>3, <4>1
      <4> QED
        BY <1>0, <4>2 DEF InTryBlock
    <3>2. i \in 1 .. Depth - 1
      BY <1>0, <3>1
    <3> QED
      BY <1>0, <2>1, <2>3, <3>2, KeptOnReturn DEF AfterBlock
  <2> QED
    BY <2>2, <2>3
<1>5. ~(Interpret \/ MainEnds \/ ShowEnds)
  <2>1. ASSUME MainEnds \/ ShowEnds PROVE FALSE
    <3>1. Top.kind \in {"main", "show"}
      BY <2>1 DEF MainEnds, ShowEnds, ListOver
    <3>2. Depth \in {1, 2} /\ i \in {1, Depth} /\ 1 \in 1 .. Depth
      BY <1>0, <1>1, <3>1 DEF Placed
    <3>3. Placed(frames, 1)
      BY <3>2 DEF IInv, WellNested, Depth
    <3> QED
      BY <1>0, <3>1, <3>2, <3>3 DEF Placed
  <2> QED
    BY <1>0, <2>1 DEF Interpret
<1> QED
  BY <1>2, <1>3, <1>4, <1>5 DEF Evaluate, RaiseStep, Execute, Toplevel

\* A landing: what is cut lies beyond the handler, and the handler of a try
\* statement stays in it.
LEMMA TryKeptLanding ==
    ASSUME IInv, Land, NEW i \in 1 .. Depth, InTryBlock(i)
    PROVE  StillTry(i)
<1>1. jump # 0
  BY DEF Land, LandCall, LandTry, LandModule, LandMain, Landing
<1>2. /\ Depth \in Nat /\ jump \in 1 .. Depth
      /\ \A k \in jump + 1 .. Depth : ~Guards(frames[k])
      /\ Placed(frames, jump) /\ frames[jump] \in Frame
      /\ WellNested(Upto(jump - 1)) /\ Len(Upto(jump - 1)) = jump - 1
      /\ \A k \in 1 .. jump - 1 : Upto(jump - 1)[k] = frames[k]
  BY <1>1, LandingFacts
<1>3. frames[i].kind = "try" /\ Guards(frames[i])
  BY DEF InTryBlock, Guards
<1>4. i \in 1 .. jump
  BY <1>2, <1>3
<1>5. CASE LandCall \/ LandModule
  <2>1. frames[jump].kind # "try" /\ frames' = Upto(jump - 1)
    BY <1>5 DEF LandCall, LandModule, Landing
  <2>2. i \in 1 .. jump - 1
    BY <1>2, <1>3, <1>4, <2>1
  <2> QED
    BY <1>2, <1>3, <2>1, <2>2 DEF StillTry
<1>6. CASE LandTry
  <2>1. PICK f : frames' = Append(Upto(jump - 1), f) /\ f.kind = "try"
    <3> DEFINE h == [frames[jump] EXCEPT !.tmp = 0, !.res = "normal"]
    <3>1. frames[jump].kind = "try"
      BY <1>6 DEF LandTry, Landing
    <3>2. CASE frames' = Append(Upto(jump - 1), [h EXCEPT !.mode = "catch"])
      <4>1. [h EXCEPT !.mode = "catch"].kind = "try"
        BY <1>2, <3>1 DEF Frame
      <4> QED
        BY <3>2, <4>1
    <3>3. CASE \E r \in {"normal", "left"} :
                  frames' = Append(Upto(jump - 1), [h EXCEPT !.mode = "finally", !.out = r])
      <4>1. PICK r \in {"normal", "left"} :
                  frames' = Append(Upto(jump - 1), [h EXCEPT !.mode = "finally", !.out = r])
        BY <3>3
      <4>2. [h EXCEPT !.mode = "finally", !.out = r].kind = "try"
        BY <1>2, <3>1 DEF Frame
      <4> QED
        BY <4>1, <4>2
    <3> QED
      BY <1>6, <3>2, <3>3 DEF LandTry
  <2>2. Upto(jump - 1) \in Seq(Frame)
    BY <1>2 DEF WellNested
  <2>3. Len(frames') = jump /\ frames'[jump] = f
        /\ \A k \in 1 .. jump - 1 : frames'[k] = frames[k]
    BY <1>2, <2>1, <2>2
  <2> QED
    BY <1>2, <1>3, <1>4, <2>1, <2>3 DEF StillTry
<1>7. ~LandMain
  <2> SUFFICES ASSUME LandMain PROVE FALSE
    OBVIOUS
  <2>1. frames[jump].kind \in {"main", "show"}
    BY DEF LandMain, Landing
  <2>2. jump \in {1, 2} /\ i \in {1, jump} /\ 1 \in 1 .. Depth
    BY <1>2, <1>4, <2>1 DEF Placed
  <2>3. Placed(frames, 1)
    BY <2>2 DEF IInv, WellNested, Depth
  <2> QED
    BY <1>3, <2>1, <2>2, <2>3 DEF Placed
<1> QED
  BY <1>5, <1>6, <1>7 DEF Land

\* A try statement that has a finally block is never left from its try block,
\* whatever returned, broke out of it or was thrown in it.
THEOREM TryNeverSkipped == Spec => TryNotSkipped
<1> DEFINE A == \A i \in 1 .. Depth :
        (frames[i].kind = "try" /\ frames[i].mode = "body" /\ frames[i].has # {"catch"})
        => i <= Len(frames') /\ frames'[i].kind = "try"
<1>1. IInv /\ [Next]_vars => [A]_vars
  BY TryKeptRunning, TryKeptLanding DEF Next, InTryBlock, StillTry
<1> QED
  BY <1>1, Invariance, PTL DEF Spec, TryNotSkipped
=============================================================================
