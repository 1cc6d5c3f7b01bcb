---------------------------- MODULE LibraryProofs ----------------------------
(***************************************************************************)
(* Proofs about the parts of the board support package that Library puts   *)
(* side by side, each for any value of its constants, and from them what   *)
(* Library promises of all of them together.                               *)
(***************************************************************************)
EXTENDS LibraryInvariants, SequenceTheorems, FiniteSetTheorems, WellFoundedInduction, TLAPS

-----------------------------------------------------------------------------
(* Induction and recursion                                                 *)
(*                                                                         *)
(* The library states induction for an operator, which cannot be cited     *)
(* here; about the set of the numbers for which something holds it follows *)
(* from the least-number principle.  So does recursion: there is a         *)
(* function with a given first value and a given step from each value to   *)
(* the next, and what satisfies the equation of a recursive function is    *)
(* that function.                                                          *)

\* The least-number principle, from the theorem on well-founded relations.
LEMMA Smallest ==
  ASSUME NEW T \in SUBSET Nat, T # {}
  PROVE  \E x \in T : \A y \in T : x <= y
<1>1. PICK x \in T : \A y \in T : ~ (<<y, x>> \in OpToRel(<, Nat))
  BY WFMin, NatLessThanWellFounded, Zenon
<1>2. \A y \in T : <<y, x>> \in OpToRel(<, Nat) <=> y < x
  BY Zenon DEF OpToRel
<1>3. \A y \in T : ~(y < x)  BY <1>1, <1>2, Zenon
<1>4. \A y \in T : y \in Nat /\ x \in Nat  OBVIOUS
<1>5. \A y \in T : x <= y
  <2> HIDE <1>1, <1>2
  <2> QED  BY <1>3, <1>4
<1>6. QED  BY <1>5, Zenon

\* Induction, about the set of the numbers for which something holds.
LEMMA Induction ==
  ASSUME NEW T, 0 \in T, \A n \in Nat : n \in T => n + 1 \in T
  PROVE  Nat \subseteq T
<1> DEFINE U == Nat \ T
<1> SUFFICES ASSUME U # {} PROVE FALSE
  OBVIOUS
<1>1. PICK x \in U : \A y \in U : x <= y
  <2>1. U \in SUBSET Nat  OBVIOUS
  <2> HIDE DEF U
  <2>2. QED  BY <2>1, Smallest
<1>2. x # 0 /\ x \in Nat  OBVIOUS
<1>3. x - 1 \in Nat /\ (x - 1) + 1 = x /\ ~(x <= x - 1)  BY <1>2
<1>4. x - 1 \in T  BY <1>1, <1>3
<1>5. QED  BY <1>3, <1>4

\* Definition by recursion: there is a function with a given first value and a
\* given step from each value to the next.
Unfolds(g, base, next) == g[0] = base /\ \A n \in Nat : g[n + 1] = next[n][g[n]]

LEMMA Recursion ==
  ASSUME NEW S, NEW base \in S, NEW next \in [Nat -> [S -> S]]
  PROVE  \E g \in [Nat -> S] : Unfolds(g, base, next)
<1> DEFINE Begins(n, g) == /\ g \in [0..n -> S] /\ g[0] = base
                           /\ \A k \in 0..(n - 1) : g[k + 1] = next[k][g[k]]
           Defined == {n \in Nat : \E g : Begins(n, g)}
<1>1. Nat \subseteq Defined
  <2>1. 0 \in Defined
    <3>1. Begins(0, [k \in 0..0 |-> base])  OBVIOUS
    <3>2. QED  BY <3>1
  <2>2. ASSUME NEW n \in Nat, n \in Defined PROVE n + 1 \in Defined
    <3>1. PICK g : Begins(n, g)  BY <2>2
    <3> DEFINE h == [k \in 0..(n + 1) |-> IF k <= n THEN g[k] ELSE next[n][g[n]]]
    <3>1a. g \in [0..n -> S] /\ g[0] = base /\ \A k \in 0..(n - 1) : g[k + 1] = next[k][g[k]]
      BY <3>1
    <3>2. g[n] \in S /\ next[n][g[n]] \in S  BY <3>1a
    <3>3. h \in [0..(n + 1) -> S]  BY <3>1a, <3>2
    <3>4. h[0] = base  BY <3>1a
    <3>5. ASSUME NEW k \in 0..n PROVE h[k + 1] = next[k][h[k]]
      <4>1. CASE k = n  BY <3>1a, <4>1
      <4>2. CASE k # n
        <5>1. k \in 0..(n - 1) /\ k + 1 \in 0..(n + 1) /\ k \in 0..(n + 1) /\ k + 1 <= n /\ k <= n
          BY <4>2
        <5>2. h[k + 1] = g[k + 1] /\ h[k] = g[k]  BY <5>1
        <5>3. QED  BY <3>1a, <5>1, <5>2
      <4>3. QED  BY <4>1, <4>2
    <3>6. (n + 1) - 1 = n  OBVIOUS
    <3> HIDE DEF h
    <3>7. Begins(n + 1, h)  BY <3>3, <3>4, <3>5, <3>6
    <3> HIDE DEF Begins
    <3>8. QED  BY <3>7, n + 1 \in Nat
  <2> HIDE DEF Defined
  <2>3. QED  BY <2>1, <2>2, Induction
<1>2. ASSUME NEW n \in Nat, NEW m \in Nat, NEW g, NEW h, Begins(n, g), Begins(m, h)
      PROVE  \A k \in Nat : k <= n /\ k <= m => g[k] = h[k]
  <2> DEFINE Agree == {k \in Nat : k <= n /\ k <= m => g[k] = h[k]}
  <2>1. 0 \in Agree  BY <1>2
  <2>2. ASSUME NEW k \in Nat, k \in Agree PROVE k + 1 \in Agree
    <3>1. CASE k + 1 <= n /\ k + 1 <= m
      <4>1. k \in 0..(n - 1) /\ k \in 0..(m - 1) /\ g[k] = h[k]  BY <2>2, <3>1
      <4>2. g[k + 1] = next[k][g[k]] /\ h[k + 1] = next[k][h[k]]  BY <1>2, <4>1
      <4>3. QED  BY <4>1, <4>2
    <3>2. CASE ~(k + 1 <= n /\ k + 1 <= m)  BY <3>2
    <3>3. QED  BY <3>1, <3>2
  <2>3. Nat \subseteq Agree
    <3> HIDE DEF Agree
    <3> QED  BY <2>1, <2>2, Induction
  <2>4. QED  BY <2>3
<1> DEFINE begun == [n \in Nat |-> CHOOSE g : Begins(n, g)]
           whole == [n \in Nat |-> begun[n][n]]
<1>3. \A n \in Nat : Begins(n, begun[n])
  <2>1. \A n \in Nat : \E g : Begins(n, g)  BY <1>1
  <2> HIDE DEF Begins
  <2>2. TAKE n \in Nat
  <2>3. begun[n] = CHOOSE g : Begins(n, g)  BY Zenon
  <2>4. Begins(n, CHOOSE g : Begins(n, g))  BY <2>1, Zenon
  <2>5. QED  BY <2>3, <2>4, Zenon
<1>4. \A n \in Nat : whole[n] = begun[n][n]  OBVIOUS
<1> HIDE DEF begun
<1>5. whole \in [Nat -> S]
  <2>1. ASSUME NEW n \in Nat PROVE begun[n][n] \in S
    <3>1. Begins(n, begun[n])  BY <1>3
    <3>2. begun[n] \in [0..n -> S]  BY <3>1
    <3>3. QED  BY <3>2
  <2>2. QED  BY <2>1
<1> HIDE DEF whole
<1>6. whole[0] = base  BY <1>3, <1>4
<1>7. ASSUME NEW n \in Nat PROVE whole[n + 1] = next[n][whole[n]]
  <2>1. Begins(n + 1, begun[n + 1]) /\ Begins(n, begun[n])
    <3> HIDE DEF Begins
    <3> QED  BY <1>3, n + 1 \in Nat
  <2>2. begun[n + 1][n] = begun[n][n]
    <3>1. n + 1 \in Nat /\ n <= n + 1 /\ n <= n  OBVIOUS
    <3> HIDE DEF Begins
    <3>2. QED  BY <1>2, <2>1, <3>1
  <2>3. begun[n + 1][n + 1] = next[n][begun[n + 1][n]]
    <3>1. n \in 0..((n + 1) - 1)  OBVIOUS
    <3>2. QED  BY <2>1, <3>1
  <2>4. QED  BY <1>4, <2>2, <2>3
<1>8. QED  BY <1>5, <1>6, <1>7 DEF Unfolds

LEMMA PowerStep ==
  ASSUME NEW base \in Nat \ {0}
  PROVE  /\ Power(base) \in [Nat -> Nat \ {0}] /\ Power(base)[0] = 1
         /\ \A n \in Nat : Power(base)[n + 1] = base * Power(base)[n]
<1> DEFINE Positive == Nat \ {0}
<1> DEFINE times == [n \in Nat |-> [x \in Positive |-> base * x]]
<1>1. \A x \in Positive : base * x \in Positive
  OBVIOUS
<1>2. 1 \in Positive /\ times \in [Nat -> [Positive -> Positive]]
  BY <1>1
<1>3. PICK g \in [Nat -> Positive] : Unfolds(g, 1, times)
  <2> HIDE DEF times, Positive
  <2> QED  BY <1>2, Recursion
<1>4. \A n \in Nat : g[n + 1] = base * g[n]
  BY <1>3 DEF Unfolds
<1>5. g = [n \in Nat |-> IF n = 0 THEN 1 ELSE base * g[n - 1]]
  <2>1. ASSUME NEW n \in Nat PROVE g[n] = IF n = 0 THEN 1 ELSE base * g[n - 1]
    <3>1. CASE n = 0  BY <1>3, <3>1 DEF Unfolds
    <3>2. CASE n # 0
      <4>1. n - 1 \in Nat /\ (n - 1) + 1 = n  BY <3>2
      <4>2. QED  BY <1>4, <3>2, <4>1
    <3>3. QED  BY <3>1, <3>2
  <2>2. QED  BY <1>3, <2>1
<1> DEFINE P == Power(base)
<1>6. P = [n \in Nat |-> IF n = 0 THEN 1 ELSE base * P[n - 1]]
  BY <1>5, Zenon DEF Power
<1> HIDE DEF P
<1>7. P[0] = 1 /\ DOMAIN P = Nat /\ \A n \in Nat : P[n + 1] = base * P[n]
  <2>1. P[0] = 1 /\ DOMAIN P = Nat  BY <1>6
  <2>2. ASSUME NEW n \in Nat PROVE P[n + 1] = base * P[n]
    <3>1. n + 1 \in Nat /\ n + 1 # 0 /\ (n + 1) - 1 = n  OBVIOUS
    <3>2. P[n + 1] = IF n + 1 = 0 THEN 1 ELSE base * P[(n + 1) - 1]  BY <1>6, <3>1
    <3>3. QED  BY <3>1, <3>2
  <2>3. QED  BY <2>1, <2>2
<1> DEFINE Same == {n \in Nat : P[n] = g[n]}
<1>8. Nat \subseteq Same
  <2>1. 0 \in Same  BY <1>3, <1>7 DEF Unfolds
  <2>2. ASSUME NEW n \in Nat, n \in Same PROVE n + 1 \in Same
    <3>1. P[n] = g[n]  BY <2>2
    <3>2. P[n + 1] = g[n + 1]  BY <3>1, <1>4, <1>7
    <3>3. QED  BY <3>2
  <2> HIDE DEF Same
  <2>3. QED  BY <2>1, <2>2, Induction
<1>9. P = g
  <2>1. \A n \in Nat : P[n] = g[n]  BY <1>8
  <2>2. P = [n \in Nat |-> P[n]]
    <3>1. P = [n \in DOMAIN P |-> P[n]]  BY <1>6
    <3>2. QED  BY <3>1, <1>7
  <2>3. QED  BY <2>1, <2>2
<1>10. QED
  <2>1. P \in [Nat -> Nat \ {0}] /\ P[0] = 1 /\ \A n \in Nat : P[n + 1] = base * P[n]
    BY <1>9, <1>7
  <2>2. QED  BY <2>1 DEF P

LEMMA PowerGrows ==
  ASSUME NEW base \in Nat \ {0}, NEW m \in Nat
  PROVE  \A n \in Nat : n <= m => Power(base)[n] <= Power(base)[m]
<1> DEFINE P == Power(base)
           UpTo == {k \in Nat : \A n \in Nat : n <= k => P[n] <= P[k]}
<1>1. P \in [Nat -> Nat \ {0}] /\ \A n \in Nat : P[n + 1] = base * P[n]
  BY PowerStep
<1> HIDE DEF P
<1>2. 0 \in UpTo
  BY <1>1
<1>3. ASSUME NEW k \in Nat, k \in UpTo PROVE k + 1 \in UpTo
  <2>1. P[k + 1] = base * P[k] /\ P[k] \in Nat \ {0} /\ P[k + 1] \in Nat
    BY <1>1
  <2>2. P[k] <= P[k + 1]
    <3>1. \A x \in Nat : x <= base * x  OBVIOUS
    <3>2. QED  BY <2>1, <3>1
  <2>3. ASSUME NEW n \in Nat, n <= k + 1 PROVE P[n] <= P[k + 1]
    <3>1. CASE n = k + 1  BY <3>1, <2>1
    <3>2. CASE n <= k
      <4>1. P[n] <= P[k] /\ P[n] \in Nat  BY <1>1, <1>3, <3>2
      <4>2. QED  BY <4>1, <2>1, <2>2
    <3>3. QED  BY <3>1, <3>2, <2>3
  <2>4. QED  BY <2>3
<1>4. Nat \subseteq UpTo
  <2> HIDE DEF UpTo
  <2> QED  BY <1>2, <1>3, Induction
<1>5. QED  BY <1>4 DEF P

LEMMA FlattenLast ==
  ASSUME NEW S, NEW F \in [Nat \ {0} -> Seq(S)], NEW m \in Nat
  PROVE  LET Flat(n) == FlattenSeq([k \in 1..n |-> F[k]]) IN
           Flat(0) = <<>> /\ Flat(m) \in Seq(S) /\ Flat(m + 1) = Flat(m) \o F[m + 1]
<1> DEFINE next == [n \in Nat |-> [x \in Seq(S) |-> x \o F[n + 1]]]
           Flat(n) == FlattenSeq([k \in 1..n |-> F[k]])
<1>1. next \in [Nat -> [Seq(S) -> Seq(S)]]
  OBVIOUS
<1>2. <<>> \in Seq(S)  OBVIOUS
<1>3. PICK g \in [Nat -> Seq(S)] : Unfolds(g, <<>>, next)
  <2> HIDE DEF next
  <2> QED  BY <1>1, <1>2, Recursion
<1>4. g[0] = <<>> /\ \A n \in Nat : g[n + 1] = g[n] \o F[n + 1]
  BY <1>3 DEF Unfolds
<1> HIDE DEF next
<1>5. ASSUME NEW n \in Nat PROVE Flat(n) = g[n]
  <2> DEFINE seqs == [k \in 1..n |-> F[k]]
  <2>1. Len(seqs) = n /\ \A i \in 1..n : seqs[i] = F[i]  OBVIOUS
  <2>2. CASE n = 0
    <3>1. seqs = <<>>  BY <2>2
    <3>2. FlattenSeq(seqs) = seqs
      <4> HIDE DEF seqs
      <4> QED  BY <2>1, <2>2 DEF FlattenSeq
    <3>3. QED  BY <3>1, <3>2, <2>2, <1>4
  <2>3. CASE n # 0
    <3> DEFINE Eq(f) == f = [i \in 1..n |-> IF i = 1 THEN seqs[i] ELSE f[i-1] \o seqs[i]]
    <3>1. FlattenSeq(seqs) = (CHOOSE f : Eq(f))[n]
      <4> HIDE DEF seqs
      <4> QED  BY <2>1, <2>3 DEF FlattenSeq
    <3>2. Eq([i \in 1..n |-> g[i]])
      <4>1. ASSUME NEW i \in 1..n PROVE g[i] = IF i = 1 THEN seqs[i] ELSE [j \in 1..n |-> g[j]][i-1] \o seqs[i]
        <5>1. i - 1 \in Nat /\ (i - 1) + 1 = i  OBVIOUS
        <5>2. g[i] = g[i - 1] \o F[i]  BY <5>1, <1>4
        <5>3. CASE i = 1
          <6>1. F[1] \in Seq(S)  OBVIOUS
          <6>2. g[1] = F[1]
            <7> HIDE DEF seqs, Eq
            <7>0. i - 1 = 0  BY <5>3
            <7>1. g[1] = g[0] \o F[1]  BY <5>2, <5>3, <7>0, Zenon
            <7>2. <<>> \o F[1] = F[1]  BY <6>1
            <7>3. QED  BY <7>1, <7>2, <1>4
          <6>3. QED  BY <6>2, <5>3, <2>1
        <5>4. CASE i # 1
          <6>1. i - 1 \in 1..n  BY <5>4
          <6>2. [j \in 1..n |-> g[j]][i - 1] = g[i - 1]  BY <6>1
          <6>3. QED  BY <6>2, <5>2, <5>4, <2>1
        <5>5. QED  BY <5>3, <5>4
      <4> HIDE DEF seqs
      <4>2. QED  BY <4>1
    <3> DEFINE flatten == CHOOSE f : Eq(f)
    <3>3. Eq(flatten)
      <4> HIDE DEF Eq
      <4> QED  BY <3>2, Zenon
    <3>4. \A i \in 1..n : flatten[i] = IF i = 1 THEN seqs[i] ELSE flatten[i-1] \o seqs[i]
      <4> HIDE DEF flatten, seqs
      <4> QED  BY <3>3
    <3> HIDE DEF flatten
    <3> DEFINE Same == {i \in Nat : i + 1 <= n => flatten[i + 1] = g[i + 1]}
    <3>5. 0 \in Same
      <4>1. flatten[1] = F[1]  BY <3>4, <2>3, <2>1
      <4>2. g[0 + 1] = g[0] \o F[0 + 1]  BY <1>4
      <4>3. F[1] \in Seq(S)  OBVIOUS
      <4>4. QED  BY <4>1, <4>2, <4>3, <1>4
    <3>6. ASSUME NEW i \in Nat, i \in Same PROVE i + 1 \in Same
      <4>1. SUFFICES ASSUME (i + 1) + 1 <= n PROVE flatten[(i + 1) + 1] = g[(i + 1) + 1]
        OBVIOUS
      <4>2. (i + 1) + 1 \in 1..n /\ ((i + 1) + 1) - 1 = i + 1 /\ (i + 1) + 1 # 1 /\ i + 1 <= n /\ i + 1 \in Nat
        BY <4>1
      <4>3. flatten[i + 1] = g[i + 1]  BY <3>6, <4>2
      <4>4. flatten[(i + 1) + 1] = flatten[i + 1] \o F[(i + 1) + 1]
        <5> HIDE DEF seqs
        <5> QED  BY <3>4, <4>2, <2>1
      <4>5. g[(i + 1) + 1] = g[i + 1] \o F[(i + 1) + 1]  BY <1>4, <4>2
      <4>6. QED  BY <4>3, <4>4, <4>5
    <3>7. Nat \subseteq Same
      <4> HIDE DEF Same
      <4> QED  BY <3>5, <3>6, Induction
    <3>8. n - 1 \in Nat /\ (n - 1) + 1 = n  BY <2>3
    <3>9. flatten[n] = g[n]
      <4>1. n - 1 \in Same  BY <3>7, <3>8
      <4>2. QED  BY <4>1, <3>8
    <3>10. QED  BY <3>1, <3>9 DEF flatten
  <2>4. QED  BY <2>2, <2>3
<1> HIDE DEF Flat
<1>6. Flat(0) = <<>> /\ Flat(m) \in Seq(S) /\ Flat(m + 1) = Flat(m) \o F[m + 1]
  <2>1. m + 1 \in Nat  OBVIOUS
  <2>2. Flat(0) = g[0] /\ Flat(m) = g[m] /\ Flat(m + 1) = g[m + 1]  BY <1>5, <2>1
  <2>3. QED  BY <2>2, <1>4
<1>7. QED  BY <1>6 DEF Flat

-----------------------------------------------------------------------------
(* Descriptors                                                             *)
(*                                                                         *)
(* For every number of descriptors, drivers and modes: the mark alt_max_fd *)
(* covers what alt_file_locked looks for, and although alt_fd_lock misses  *)
(* the descriptor at the mark, no device is ever locked twice.             *)
(*                                                                         *)
(* The lock alone is not inductive.  What carries it is SharersAbove: the  *)
(* only other users of a locked device have higher descriptors than the    *)
(* holder, because only the highest was missed.  So the holder lies below  *)
(* the mark for every sharer that asks for the lock, and is seen.          *)
(*                                                                         *)
(* SpecImplementsDescriptors takes the same invariant and FreeIsBlank:     *)
(* with the holder of a device unique, Holder names it whichever way the   *)
(* pool changes (HolderIs, HolderSame), and AllowedIsFree makes sure that  *)
(* open and stat find the device unlocked.                                 *)

-----------------------------------------------------------------------------

\* A new entry refers to a driver and holds no lock (alt_open.c:139).
LEMMA EntryType ==
  ASSUME NEW f \in File, NEW m \in Mode, NEW s \in SUBSET Flag
  PROVE  /\ Entry(f, m, s) \in Descriptor
         /\ Entry(f, m, s).dev = f /\ Entry(f, m, s).dev # None
         /\ Entry(f, m, s).isdev <=> f \notin FileSystem
         /\ ~Entry(f, m, s).excl
<1>1. f # None  BY FilesAssumption
<1>2. QED  BY <1>1 DEF Entry, Descriptor

LEMMA UnusedType ==
  Unused \in Descriptor /\ Unused.dev = None /\ ~Unused.isdev /\ ~Unused.excl
BY FilesAssumption DEF Unused, Descriptor

\* Descriptor i comes to refer to f, no lock stands in the way, and the mark
\* covers i if f is a device or i is not a standard descriptor.
LEMMA AttachKeeps ==
  ASSUME FilesInv, NEW i \in FD, NEW f \in File, NEW m \in Mode, NEW s \in SUBSET Flag,
         fd_list' = [fd_list EXCEPT ![i] = Entry(f, m, s)],
         max_fd' \in FD, max_fd' >= max_fd, max_fd' >= i \/ (i <= 2 /\ f \in FileSystem),
         \A j \in FD : j # i /\ fd_list[j].dev = f => ~fd_list[j].excl,
         registered' = registered,
         pc \in {"main", "exit"} => pc' \in {"main", "exit"},
         pc' \in {"sys_init", "stdout", "stdin", "stderr", "main", "exit"}
  PROVE  FilesInv'
<1> DEFINE e == Entry(f, m, s)
<1>1. /\ e \in Descriptor /\ e.dev = f /\ e.dev # None
      /\ (e.isdev <=> f \notin FileSystem) /\ ~e.excl
  BY EntryType
<1> HIDE DEF e
<1>2. fd_list \in [FD -> Descriptor]  BY DEF FilesInv, TypeOK, Descriptor
<1>3. \A j \in FD : fd_list'[j] = IF j = i THEN e ELSE fd_list[j]  BY <1>2 DEF e
<1>4. TypeOK'
  <2>1. fd_list' \in [FD -> Descriptor]  BY <1>1, <1>2 DEF e
  <2>2. QED  BY <2>1 DEF FilesInv, TypeOK, Descriptor
<1>5. StdInUse'
  <2>1. Std \subseteq FD  BY FilesAssumption DEF Std, FD
  <2>2. QED  BY <1>1, <1>3, <2>1 DEF FilesInv, StdInUse, InUse
<1>6. Marked'
  <2> SUFFICES ASSUME NEW j \in FD, (j > 2 /\ InUse(j)') \/ fd_list'[j].isdev
               PROVE  j <= max_fd'
    BY DEF Marked
  <2>1. CASE j = i
    BY <2>1, <1>1, <1>3 DEF FD
  <2>2. CASE j # i
    <3>1. j <= max_fd  BY <2>2, <1>3 DEF FilesInv, Marked, InUse
    <3>2. max_fd \in Int /\ max_fd' \in Int /\ j \in Int  BY FilesAssumption DEF FilesInv, TypeOK, FD
    <3>3. QED  BY <3>1, <3>2
  <2>3. QED  BY <2>1, <2>2
<1>7. IsDevice'  BY <1>1, <1>3 DEF FilesInv, IsDevice, InUse
<1>8. LockedInMain'  BY <1>1, <1>3 DEF FilesInv, LockedInMain
<1>9. SharersAbove'
  <2> SUFFICES ASSUME NEW j \in FD, NEW k \in FD,
                      fd_list'[j].excl, k # j, fd_list'[k].dev = fd_list'[j].dev
               PROVE  k > j
    BY DEF SharersAbove
  <2>1. j # i  BY <1>1, <1>3
  <2>2. k # i  BY <1>1, <1>3, <2>1
  <2>3. QED  BY <1>3, <2>1, <2>2 DEF FilesInv, SharersAbove
<1>10. QED  BY <1>4, <1>5, <1>6, <1>7, <1>8, <1>9 DEF FilesInv

\* Releasing a descriptor, or none, keeps everything (alt_release_fd.c:46).
LEMMA ReleaseKeeps ==
  ASSUME FilesInv, NEW i \in FD, fd_list' = Released(i), UNCHANGED <<max_fd, registered>>,
         pc = "main", pc' \in {"main", "exit"}
  PROVE  FilesInv'
<1>1. fd_list \in [FD -> Descriptor]  BY DEF FilesInv, TypeOK, Descriptor
<1>2. \A j \in FD : fd_list'[j] = IF j = i /\ i > 2 THEN Unused ELSE fd_list[j]
  BY <1>1 DEF Released
<1>3. TypeOK'
  <2>1. fd_list' \in [FD -> Descriptor]  BY <1>1, UnusedType DEF Released
  <2>2. QED  BY <2>1 DEF FilesInv, TypeOK, Descriptor
<1>4. StdInUse'
  <2>1. Std \subseteq FD /\ \A j \in Std : ~(j > 2)  BY FilesAssumption DEF Std, FD
  <2>2. QED  BY <1>2, <2>1 DEF FilesInv, StdInUse, InUse
<1>5. Marked'  BY <1>2, UnusedType DEF FilesInv, Marked, InUse
<1>6. IsDevice'  BY <1>2, UnusedType DEF FilesInv, IsDevice, InUse
<1>7. LockedInMain'  BY <1>2, UnusedType DEF FilesInv, LockedInMain
<1>8. SharersAbove'
  <2> SUFFICES ASSUME NEW j \in FD, NEW k \in FD,
                      fd_list'[j].excl, k # j, fd_list'[k].dev = fd_list'[j].dev
               PROVE  k > j
    BY DEF SharersAbove
  <2>1. fd_list'[j] = fd_list[j]  BY <1>2, UnusedType
  <2>2. fd_list[j].dev # None  BY <2>1 DEF FilesInv, LockedInMain, IsDevice, InUse
  <2>3. fd_list'[k] = fd_list[k]  BY <1>2, <2>1, <2>2, UnusedType
  <2>4. QED  BY <2>1, <2>3 DEF FilesInv, SharersAbove
<1>9. QED  BY <1>3, <1>4, <1>5, <1>6, <1>7, <1>8 DEF FilesInv

\* The mark moves up to a descriptor and nothing else of the pool changes.
LEMMA RaiseKeeps ==
  ASSUME FilesInv, NEW i \in FD, max_fd' = Raised(i), fd_list' = fd_list, registered' = registered,
         pc \in {"main", "exit"} => pc' \in {"main", "exit"},
         pc' \in {"sys_init", "stdout", "stdin", "stderr", "main", "exit"}
  PROVE  FilesInv'
<1>1. max_fd' \in {-1} \cup FD /\ max_fd' >= max_fd
  BY FilesAssumption DEF FilesInv, TypeOK, Raised, FD
<1>2. TypeOK'  BY <1>1 DEF FilesInv, TypeOK
<1>3. Marked'
  <2>1. max_fd \in Int /\ max_fd' \in Int /\ FD \subseteq Int
    BY <1>1, FilesAssumption DEF FilesInv, TypeOK, FD
  <2>2. QED  BY <1>1, <2>1 DEF FilesInv, Marked, InUse
<1>4. StdInUse' /\ IsDevice' /\ LockedInMain' /\ SharersAbove'
  BY DEF FilesInv, StdInUse, IsDevice, LockedInMain, SharersAbove, InUse
<1>5. QED  BY <1>2, <1>3, <1>4 DEF FilesInv

-----------------------------------------------------------------------------

LEMMA FilesStart == Init => FilesInv
<1> SUFFICES ASSUME Init PROVE FilesInv  OBVIOUS
<1> DEFINE std == [Unused EXCEPT !.dev = DevNull]
<1>1. /\ std \in Descriptor /\ std.dev = DevNull /\ ~std.isdev /\ ~std.excl
  BY FilesAssumption DEF Unused, Descriptor, File
<1> HIDE DEF std
<1>2. \A i \in FD : fd_list[i] = IF i \in Std THEN std ELSE Unused  BY DEF Init, std
<1>3. fd_list \in [FD -> Descriptor]  BY <1>1, UnusedType DEF Init, std
<1>4. DevNull # None /\ DevNull \in File  BY FilesAssumption DEF File
<1>5. TypeOK  BY <1>3, <1>4 DEF Init, TypeOK, Descriptor
<1>6. StdInUse
  <2>1. Std \subseteq FD  BY FilesAssumption DEF Std, FD
  <2>2. QED  BY <1>1, <1>2, <1>4, <2>1 DEF StdInUse, InUse
<1>7. Marked
  <2>1. \A i \in FD : ~fd_list[i].isdev /\ (InUse(i) => i \in Std)
    BY <1>1, <1>2, UnusedType DEF InUse
  <2>2. QED  BY <2>1 DEF Marked, Std
<1>8. IsDevice /\ LockedInMain /\ SharersAbove
  BY <1>1, <1>2, UnusedType DEF IsDevice, LockedInMain, SharersAbove
<1>9. QED  BY <1>5, <1>6, <1>7, <1>8 DEF FilesInv

\* alt_open goes on only with a device that nobody has locked: below the mark,
\* raised to the descriptor it took, lies every lock.
LEMMA AllowedIsFree ==
  ASSUME FilesInv, NEW f \in File, NEW i \in FD, FirstFree(i), Allowed(f, i),
         NEW j \in FD, fd_list[j].dev = f
  PROVE  ~fd_list[j].excl
<1> SUFFICES ASSUME fd_list[j].excl PROVE FALSE  OBVIOUS
<1>1. fd_list[j].isdev /\ j # i  BY DEF FilesInv, LockedInMain, IsDevice, FirstFree
<1>2. f \notin FileSystem /\ j <= max_fd  BY <1>1 DEF FilesInv, IsDevice, Marked
<1>3. max_fd \in Int /\ i \in Int /\ j \in Nat  BY FilesAssumption DEF FilesInv, TypeOK, FD
<1>4. j \in 0..Raised(i)  BY <1>2, <1>3 DEF Raised
<1>5. QED  BY <1>1, <1>2, <1>4 DEF Allowed, FileLocked

LEMMA OpenKeeps ==
  ASSUME FilesInv, NEW f \in File, NEW m \in Mode, NEW s \in SUBSET Flag, Open(f, m, s)
  PROVE  FilesInv'
<1>1. PICK i \in FD : /\ FirstFree(i) /\ Allowed(f, i)
                      /\ fd_list' = [fd_list EXCEPT ![i] = Entry(f, m, s)]
                      /\ max_fd' = Raised(i)
  BY DEF Open
<1>2. max_fd' \in FD /\ max_fd' >= max_fd /\ max_fd' >= i
  BY <1>1, FilesAssumption DEF FilesInv, TypeOK, Raised, FD
<1>3. ASSUME NEW j \in FD, j # i, fd_list[j].dev = f PROVE ~fd_list[j].excl
  BY <1>1, <1>3, AllowedIsFree
<1>4. QED  BY <1>1, <1>2, <1>3, AttachKeeps DEF Open

LEMMA RedirectKeeps ==
  ASSUME FilesInv, NEW from \in {"stdout", "stdin", "stderr"}, NEW std \in Std, NEW m \in Mode,
         NEW then \in {"stdin", "stderr", "main"}, Redirect(from, std, m, then)
  PROVE  FilesInv'
<1>1. pc' = then /\ pc \notin {"main", "exit"} /\ registered' = registered  BY DEF Redirect
<1>2. CASE UNCHANGED <<max_fd, fd_list>>
  <2>1. TypeOK'  BY <1>1, <1>2 DEF FilesInv, TypeOK
  <2>2. StdInUse' /\ Marked' /\ IsDevice' /\ SharersAbove'
    BY <1>2 DEF FilesInv, StdInUse, Marked, IsDevice, SharersAbove, InUse
  <2>3. LockedInMain'  BY <1>1, <1>2 DEF FilesInv, LockedInMain
  <2>4. QED  BY <2>1, <2>2, <2>3 DEF FilesInv
<1>3. ASSUME NEW i \in FD, FirstFree(i), max_fd' = Raised(i),
             fd_list' = [fd_list EXCEPT ![std] = Entry(Console, m, {})]
      PROVE  FilesInv'
  <2>1. Console \in File /\ {} \in SUBSET Flag  BY FilesAssumption DEF File
  <2>2. std \in FD  BY FilesAssumption DEF Std, FD
  <2>3. i \notin Std  BY <1>3 DEF FilesInv, StdInUse, FirstFree
  <2>4. max_fd' \in FD /\ max_fd' >= max_fd /\ max_fd' >= std
    BY <1>3, <2>3, FilesAssumption DEF FilesInv, TypeOK, Raised, FD, Std
  <2>5. \A j \in FD : ~fd_list[j].excl  BY <1>1 DEF FilesInv, LockedInMain
  <2>6. QED  BY <1>1, <1>3, <2>1, <2>2, <2>4, <2>5, AttachKeeps
<1>4. ASSUME NEW i \in FD, max_fd' = Raised(i), UNCHANGED fd_list PROVE FilesInv'
  BY <1>1, <1>4, RaiseKeeps
<1>5. QED  BY <1>2, <1>3, <1>4 DEF Redirect

\* The step the argument is about.
LEMMA LockKeeps ==
  ASSUME FilesInv, NEW i \in FD, Lock(i) PROVE FilesInv'
<1>1. CASE Others(i) = {}
  <2>1. fd_list \in [FD -> Descriptor]  BY DEF FilesInv, TypeOK, Descriptor
  <2>2. fd_list' = [fd_list EXCEPT ![i].excl = TRUE]  BY <1>1 DEF Lock
  <2>3. \A j \in FD : /\ fd_list'[j].dev = fd_list[j].dev /\ fd_list'[j].isdev = fd_list[j].isdev
                      /\ j # i => fd_list'[j].excl = fd_list[j].excl
    BY <2>1, <2>2 DEF Descriptor
  <2>4. TypeOK'
    <3>1. fd_list' \in [FD -> Descriptor]  BY <2>1, <2>2 DEF Descriptor
    <3>2. QED  BY <3>1 DEF FilesInv, TypeOK, Descriptor, Lock
  <2>5. StdInUse'
    <3>1. Std \subseteq FD  BY FilesAssumption DEF Std, FD
    <3>2. QED  BY <2>3, <3>1 DEF FilesInv, StdInUse, InUse
  <2>6. Marked' /\ IsDevice'  BY <2>3 DEF FilesInv, Marked, IsDevice, InUse, Lock
  <2>7. LockedInMain'  BY <2>3 DEF FilesInv, LockedInMain, Lock
  <2>8. SharersAbove'
    <3> SUFFICES ASSUME NEW j \in FD, NEW k \in FD,
                        fd_list'[j].excl, k # j, fd_list'[k].dev = fd_list'[j].dev
                 PROVE  k > j
      BY DEF SharersAbove
    <3>1. fd_list[k].dev = fd_list[j].dev  BY <2>3
    <3>2. CASE j # i  BY <2>3, <3>1, <3>2 DEF FilesInv, SharersAbove
    <3>3. CASE j = i
      <4>1. i <= max_fd  BY DEF FilesInv, Marked, Lock
      <4>2. k \notin 0..(max_fd - 1)  BY <1>1, <3>1, <3>3 DEF Others
      <4>3. QED  BY <3>3, <4>1, <4>2, FilesAssumption DEF FilesInv, TypeOK, FD
    <3>4. QED  BY <3>2, <3>3
  <2>9. QED  BY <2>4, <2>5, <2>6, <2>7, <2>8 DEF FilesInv
<1>2. CASE Others(i) # {}
  <2>1. UNCHANGED <<fd_list, max_fd, registered, pc>>  BY <1>2 DEF Lock
  <2>2. QED
    BY <2>1 DEF FilesInv, TypeOK, StdInUse, Marked, IsDevice, LockedInMain, SharersAbove, InUse
<1>3. QED  BY <1>1, <1>2

\* Changes of the flags and of the lock bit to FALSE.
LEMMA RelaxKeeps ==
  ASSUME FilesInv, NEW i \in FD,
         (\E s \in SUBSET Flag : SetFlags(i, s)) \/ Unlock(i)
  PROVE  FilesInv'
<1>1. fd_list \in [FD -> Descriptor]  BY DEF FilesInv, TypeOK, Descriptor
<1>2. fd_list' \in [FD -> Descriptor]  BY <1>1 DEF SetFlags, Unlock, Descriptor
<1>3. \A j \in FD : /\ fd_list'[j].dev = fd_list[j].dev /\ fd_list'[j].isdev = fd_list[j].isdev
                    /\ fd_list'[j].excl => fd_list[j].excl
  BY <1>1 DEF SetFlags, Unlock, Descriptor
<1>4. UNCHANGED <<max_fd, registered, pc>>  BY DEF SetFlags, Unlock
<1>5. TypeOK'  BY <1>2, <1>4 DEF FilesInv, TypeOK, Descriptor
<1>6. StdInUse'
  <2>1. Std \subseteq FD  BY FilesAssumption DEF Std, FD
  <2>2. QED  BY <1>3, <2>1 DEF FilesInv, StdInUse, InUse
<1>7. Marked' /\ IsDevice'  BY <1>3, <1>4 DEF FilesInv, Marked, IsDevice, InUse
<1>8. LockedInMain'  BY <1>3, <1>4 DEF FilesInv, LockedInMain
<1>9. SharersAbove'  BY <1>3 DEF FilesInv, SharersAbove
<1>10. QED  BY <1>5, <1>6, <1>7, <1>8, <1>9 DEF FilesInv

LEMMA FilesStep == FilesInv /\ [Next]_vars => FilesInv'
<1> SUFFICES ASSUME FilesInv, [Next]_vars PROVE FilesInv'  OBVIOUS
<1>1. CASE UNCHANGED <<fd_list, max_fd, registered, pc>>
  BY <1>1 DEF FilesInv, TypeOK, StdInUse, Marked, IsDevice, LockedInMain, SharersAbove, InUse
<1>2. CASE SysInitEnds \/ \E f \in File : DevReg(f) \/ FsReg(f)
  <2>1. TypeOK'  BY <1>2, FilesAssumption DEF FilesInv, TypeOK, DevReg, FsReg, SysInitEnds, File
  <2>2. UNCHANGED <<fd_list, max_fd>> /\ pc \notin {"main", "exit"}
    BY <1>2 DEF DevReg, FsReg, SysInitEnds
  <2>3. QED
    BY <2>1, <2>2 DEF FilesInv, StdInUse, Marked, IsDevice, LockedInMain, SharersAbove, InUse
<1>3. CASE Redirect("stdout", 1, "WRONLY", "stdin")
  BY <1>3, RedirectKeeps, FilesAssumption DEF Std
<1>4. CASE Redirect("stdin", 0, "RDONLY", "stderr")
  BY <1>4, RedirectKeeps, FilesAssumption DEF Std
<1>5. CASE Redirect("stderr", 2, "WRONLY", "main")
  BY <1>5, RedirectKeeps, FilesAssumption DEF Std
<1>6. ASSUME NEW f \in File, NEW m \in Mode, NEW s \in SUBSET Flag, Open(f, m, s) PROVE FilesInv'
  BY <1>6, OpenKeeps
<1>7. ASSUME NEW f \in File, OpenFails(f) \/ Stat(f) PROVE FilesInv'
  <2>1. PICK i \in FD : max_fd' = Raised(i)  BY <1>7 DEF OpenFails, Stat
  <2>2. UNCHANGED <<fd_list, registered, pc>> /\ pc = "main"  BY <1>7 DEF OpenFails, Stat
  <2>3. QED  BY <2>1, <2>2, RaiseKeeps
<1>8. ASSUME NEW i \in FD, Close(i) PROVE FilesInv'
  BY <1>8, ReleaseKeeps DEF Close
<1>9. ASSUME NEW i \in FD, NEW req, Ioctl(i, req) PROVE FilesInv'
  <2>1. CASE Lock(i)  BY <2>1, LockKeeps
  <2>2. CASE Unlock(i)  BY <2>2, RelaxKeeps
  <2>3. CASE UNCHANGED <<fd_list, max_fd, registered, pc>>  BY <1>1, <2>3
  <2>4. QED  BY <1>9, <2>1, <2>2, <2>3 DEF Ioctl
<1>10. ASSUME NEW i \in FD, NEW s \in SUBSET Flag, SetFlags(i, s) PROVE FilesInv'
  BY <1>10, RelaxKeeps
<1>11. CASE MainReturns
  <2>1. 1 \in FD  BY FilesAssumption DEF FD
  <2>2. QED  BY <1>11, <2>1, ReleaseKeeps DEF MainReturns, Exit
<1>12. ASSUME NEW f \in File, OpenFindsNothing(f) PROVE FilesInv'
  BY <1>1, <1>12 DEF OpenFindsNothing
<1>13. ASSUME NEW i \in FD, Read(i) \/ Write(i) \/ Lseek(i) \/ Fstat(i) \/ Isatty(i) PROVE FilesInv'
  BY <1>1, <1>13 DEF Read, Write, Lseek, Fstat, Isatty
<1>14. CASE UseFailedOpen  BY <1>1, <1>14 DEF UseFailedOpen
<1>15. CASE UNCHANGED vars  BY <1>1, <1>15 DEF vars
<1>16. ASSUME NEW fatal \in BOOLEAN, Kill(fatal) PROVE FilesInv'
  <2>1. UNCHANGED <<fd_list, max_fd, registered>> /\ pc = "main" /\ pc' \in {"main", "exit"}
    BY <1>16 DEF Kill, Exit
  <2>2. TypeOK'  BY <2>1 DEF FilesInv, TypeOK
  <2>3. QED
    BY <2>1, <2>2 DEF FilesInv, StdInUse, Marked, IsDevice, LockedInMain, SharersAbove, InUse
<1>17. ASSUME NEW f \in File,
              \/ OpenFindsNothing(f) \/ OpenFails(f) \/ Stat(f)
              \/ \E m \in Mode, s \in SUBSET Flag : Open(f, m, s)
       PROVE  FilesInv'
  BY <1>6, <1>7, <1>12, <1>17
<1>18. ASSUME NEW i \in FD,
              \/ Close(i) \/ Read(i) \/ Write(i) \/ Lseek(i) \/ Fstat(i) \/ Isatty(i)
              \/ \E req \in {"TIOCEXCL", "TIOCNXCL", "other"} : Ioctl(i, req)
              \/ \E s \in SUBSET Flag : SetFlags(i, s)
       PROVE  FilesInv'
  BY <1>8, <1>9, <1>10, <1>13, <1>18
<1>19. QED
  BY <1>2, <1>3, <1>4, <1>5, <1>11, <1>14, <1>15, <1>16, <1>17, <1>18 DEF Next

LEMMA SpecFilesInv == Spec => []FilesInv
BY FilesStart, FilesStep, PTL DEF Spec

-----------------------------------------------------------------------------

\* The pool, the mark and the lists of drivers keep their types (TypeOK).
THEOREM SpecTypeOK == Spec => []TypeOK
<1>1. FilesInv => TypeOK  BY DEF FilesInv
<1>2. QED  BY <1>1, SpecFilesInv, PTL

\* alt_max_fd covers every descriptor in use and every lock.
THEOREM SpecMarkIsHigh == Spec => []MarkIsHigh
<1>1. FilesInv => MarkIsHigh  BY DEF FilesInv, MarkIsHigh, Marked, LockedInMain
<1>2. QED  BY <1>1, SpecFilesInv, PTL

\* No device is locked by two descriptors, although alt_fd_lock misses one.
THEOREM SpecOneHolder == Spec => []OneHolder
<1>1. FilesInv => OneHolder
  <2> SUFFICES ASSUME FilesInv, NEW i \in FD, NEW j \in FD, fd_list[i].excl, fd_list[j].excl,
                      fd_list[i].dev = fd_list[j].dev, i # j
               PROVE  FALSE
    BY DEF OneHolder
  <2>1. j > i /\ i > j  BY DEF FilesInv, SharersAbove
  <2>2. QED  BY <2>1, FilesAssumption DEF FD
<1>2. QED  BY <1>1, SpecFilesInv, PTL
-----------------------------------------------------------------------------
(* Standard input, output and error                                        *)
(*                                                                         *)
(* A step of main never changes the driver of a standard descriptor.  At   *)
(* start-up alt_open_fd needs a fourth descriptor for a moment: before     *)
(* main no other is in use, so it is free if MAX_FD > 3.                   *)

LEMMA KeptStdInv == StdInv /\ StdKept => StdInv'
<1> SUFFICES ASSUME StdInv, StdKept PROVE StdInv'  OBVIOUS
<1>1. StdOpen'  BY DEF StdInv, StdKept, StdOpen
<1>2. OthersFree'  BY DEF StdKept, OthersFree
<1>3. StdAgree'
  <2>1. Redirected = Std /\ Redirected' = Std  BY DEF StdKept, Redirected
  <2>2. QED  BY <2>1 DEF StdInv, StdKept, StdAgree
<1>4. QED  BY <1>1, <1>2, <1>3 DEF StdInv

LEMMA StdInFD == Std \subseteq FD /\ \A i \in Std : ~(i > 2)
BY FilesAssumption DEF Std, FD

LEMMA OneStdChanges ==
  ASSUME TypeOK, NEW i \in FD \ Std, NEW e, fd_list' = [fd_list EXCEPT ![i] = e]
  PROVE  \A j \in Std : fd_list'[j].dev = fd_list[j].dev
<1>1. fd_list \in [FD -> Descriptor]  BY DEF TypeOK, Descriptor
<1>2. \A j \in Std : fd_list'[j] = fd_list[j]  BY <1>1, StdInFD
<1>3. QED  BY <1>2

LEMMA RedirectStd ==
  ASSUME MAX_FD > 3, TypeOK, StdInUse, StdInv,
         NEW from \in {"stdout", "stdin", "stderr"}, NEW std \in Std, NEW m \in Mode,
         NEW then \in {"stdin", "stderr", "main"},
         <<from, std, then>> \in {<<"stdout", 1, "stdin">>, <<"stdin", 0, "stderr">>, <<"stderr", 2, "main">>},
         Redirect(from, std, m, then)
  PROVE  StdInv'
<1> USE StdInFD
<1>1. pc = from /\ pc' = then /\ registered' = registered  BY DEF Redirect
<1>2. fd_list \in [FD -> Descriptor]  BY DEF TypeOK, Descriptor
<1>3. ~Full
  <2>1. 3 \in FD  BY FilesAssumption DEF FD
  <2>2. ~InUse(3)  BY <1>1, <2>1 DEF StdInv, OthersFree
  <2>3. QED  BY <2>1, <2>2 DEF Full
<1>4. Console # None /\ Console \notin FileSystem  BY FilesAssumption DEF File
<1>5. Entry(Console, m, {}).dev = Console  BY DEF Entry
<1>6. \/ UNCHANGED fd_list /\ (Console \in registered => "open" \in Provides[Console])
      \/ Console \in registered /\ fd_list' = [fd_list EXCEPT ![std] = Entry(Console, m, {})]
  BY <1>3, <1>4 DEF Redirect, Finds, FindDev, FindFile
<1>7. \/ /\ \A i \in FD : fd_list'[i].dev = fd_list[i].dev
         /\ Console \in registered => "open" \in Provides[Console]
      \/ /\ Console \in registered /\ fd_list'[std].dev = Console
         /\ \A i \in FD : i # std => fd_list'[i].dev = fd_list[i].dev
  <2>1. CASE UNCHANGED fd_list  BY <1>6, <2>1, <1>5, <1>2
  <2>2. CASE fd_list' = [fd_list EXCEPT ![std] = Entry(Console, m, {})] /\ Console \in registered
    <3>1. \A i \in FD : fd_list'[i] = IF i = std THEN Entry(Console, m, {}) ELSE fd_list[i]
      BY <1>2, <2>2
    <3>2. QED  BY <2>2, <3>1, <1>5
  <2>3. QED  BY <1>6, <2>1, <2>2
<1>8. StdOpen'  BY <1>1, <1>7 DEF StdInv, StdOpen
<1>9. OthersFree'  BY <1>1, <1>7 DEF StdInv, OthersFree, InUse
<1>10. StdAgree'
  <2> SUFFICES ASSUME "open" \notin Provides[Console], Console \in registered, NEW i \in Redirected'
               PROVE  fd_list'[i].dev = Console
    BY <1>1 DEF StdAgree
  <2>1. i \in Std /\ (i = std \/ i \in Redirected)  BY <1>1 DEF Redirected, Std
  <2>2. QED  BY <1>7, <2>1 DEF StdInv, StdAgree
<1>11. QED  BY <1>8, <1>9, <1>10 DEF StdInv

LEMMA NextStdInv ==
  ASSUME MAX_FD > 3, FilesInv, StdInv, [Next]_vars PROVE StdInv'
<1> USE StdInFD
<1>1. fd_list \in [FD -> Descriptor] /\ TypeOK /\ StdInUse  BY DEF FilesInv, TypeOK, Descriptor
<1>2. CASE SysInitEnds \/ \E f \in File : DevReg(f) \/ FsReg(f)
  <2>1. UNCHANGED fd_list /\ registered \subseteq registered' /\ pc = "sys_init" /\ pc' \in {"sys_init", "stdout"}
    BY <1>2 DEF DevReg, FsReg, SysInitEnds
  <2>2. Redirected' = {}  BY <2>1 DEF Redirected
  <2>3. QED  BY <2>1, <2>2 DEF StdInv, StdOpen, OthersFree, StdAgree, InUse
<1>3. CASE Redirect("stdout", 1, "WRONLY", "stdin")
  BY <1>1, <1>3, RedirectStd, FilesAssumption DEF Std
<1>4. CASE Redirect("stdin", 0, "RDONLY", "stderr")
  BY <1>1, <1>4, RedirectStd, FilesAssumption DEF Std
<1>5. CASE Redirect("stderr", 2, "WRONLY", "main")
  BY <1>1, <1>5, RedirectStd, FilesAssumption DEF Std
<1>6. ASSUME NEW f \in File, NEW m \in Mode, NEW s \in SUBSET Flag, Open(f, m, s) PROVE StdKept
  <2>1. PICK i \in FD : FirstFree(i) /\ fd_list' = [fd_list EXCEPT ![i] = Entry(f, m, s)]
    BY <1>6 DEF Open
  <2>2. i \in FD \ Std  BY <1>1, <2>1 DEF StdInUse, FirstFree
  <2>3. QED  BY <1>1, <1>6, <2>1, <2>2, OneStdChanges DEF StdKept, Open
<1>7. ASSUME NEW i \in FD, pc = "main", pc' \in {"main", "exit"}, registered' = registered, fd_list' = Released(i)
      PROVE  StdKept
  <2>1. CASE i \in Std  BY <1>7, <2>1 DEF StdKept, Released
  <2>2. CASE i \notin Std
    <3>1. i \in FD \ Std /\ i > 2  BY <2>2, FilesAssumption DEF FD, Std
    <3>2. fd_list' = [fd_list EXCEPT ![i] = Unused]  BY <1>7, <3>1 DEF Released
    <3>3. QED  BY <1>1, <1>7, <3>1, <3>2, OneStdChanges DEF StdKept
  <2>3. QED  BY <2>1, <2>2
<1>8. ASSUME NEW i \in FD, Lock(i) PROVE StdKept
  <2>1. \A j \in Std : fd_list'[j].dev = fd_list[j].dev
    <3>1. CASE fd_list' = fd_list  BY <3>1
    <3>2. CASE fd_list' = [fd_list EXCEPT ![i].excl = TRUE]  BY <1>1, <3>2 DEF Descriptor
    <3>3. QED  BY <1>8, <3>1, <3>2 DEF Lock
  <2>2. QED  BY <1>8, <2>1 DEF Lock, StdKept
<1>9. ASSUME NEW i \in FD, Unlock(i) PROVE StdKept
  BY <1>1, <1>9 DEF Unlock, StdKept, Descriptor
<1>10. ASSUME NEW i \in FD, NEW s, SetFlags(i, s) PROVE StdKept
  BY <1>1, <1>10 DEF SetFlags, StdKept, Descriptor
<1>11. ASSUME pc = "main", pc' \in {"main", "exit"}, UNCHANGED <<fd_list, registered>> PROVE StdKept
  BY <1>11 DEF StdKept
<1>12. CASE UNCHANGED vars
  <2>1. Redirected' = Redirected  BY <1>12 DEF vars, Redirected
  <2>2. QED  BY <1>12, <2>1 DEF vars, StdInv, StdOpen, OthersFree, StdAgree, InUse
<1>13. ASSUME NEW f \in File,
              \/ OpenFindsNothing(f) \/ OpenFails(f) \/ Stat(f)
              \/ \E m \in Mode, s \in SUBSET Flag : Open(f, m, s)
       PROVE  StdKept
  <2>1. CASE OpenFindsNothing(f) \/ OpenFails(f) \/ Stat(f)
    BY <1>11, <2>1 DEF OpenFindsNothing, OpenFails, Stat
  <2>2. QED  BY <1>6, <1>13, <2>1
<1>14. ASSUME NEW i \in FD,
              \/ Close(i) \/ Read(i) \/ Write(i) \/ Lseek(i) \/ Fstat(i) \/ Isatty(i)
              \/ \E req \in {"TIOCEXCL", "TIOCNXCL", "other"} : Ioctl(i, req)
              \/ \E s \in SUBSET Flag : SetFlags(i, s)
       PROVE  StdKept
  <2>1. CASE Close(i)  BY <1>7, <2>1 DEF Close
  <2>2. CASE Read(i) \/ Write(i) \/ Lseek(i) \/ Fstat(i) \/ Isatty(i)
    BY <1>11, <2>2 DEF Read, Write, Lseek, Fstat, Isatty
  <2>3. ASSUME NEW req, Ioctl(i, req) PROVE StdKept
    BY <1>8, <1>9, <1>11, <2>3 DEF Ioctl
  <2>4. QED  BY <1>10, <1>14, <2>1, <2>2, <2>3
<1>15. CASE MainReturns
  <2>1. 1 \in FD  BY FilesAssumption DEF FD
  <2>2. QED  BY <1>7, <1>15, <2>1, KeptStdInv DEF MainReturns, Exit
<1>16. CASE UseFailedOpen  BY <1>11, <1>16, KeptStdInv DEF UseFailedOpen
<1>17. ASSUME NEW fatal \in BOOLEAN, Kill(fatal) PROVE StdInv'
  BY <1>11, <1>17, KeptStdInv DEF Kill, Exit
<1>18. QED
  BY <1>2, <1>3, <1>4, <1>5, <1>12, <1>13, <1>14, <1>15, <1>16, <1>17, KeptStdInv DEF Next

LEMMA InitStdInv == Init => StdInv
<1> SUFFICES ASSUME Init PROVE StdInv  OBVIOUS
<1> DEFINE std == [Unused EXCEPT !.dev = DevNull]
<1>1. std.dev = DevNull  BY DEF Unused
<1> HIDE DEF std
<1>2. \A i \in FD : fd_list[i] = IF i \in Std THEN std ELSE Unused  BY DEF Init, std
<1>3. StdOpen  BY <1>1, <1>2, StdInFD DEF StdOpen, Init
<1>4. OthersFree  BY <1>2, UnusedType, StdInFD DEF OthersFree, InUse
<1>5. StdAgree  BY DEF Init, StdAgree, Redirected
<1>6. QED  BY <1>3, <1>4, <1>5 DEF StdInv

\* printf never meets a descriptor without a driver, and with a console whose
\* open cannot fail the three standard descriptors all reach it from main on.
\* With exactly three descriptors the pool would be full at start-up and the
\* redirection fail, hence MAX_FD > 3 (alt_io_redirect.c:56).
THEOREM SpecStdHasDriver == ASSUME MAX_FD > 3 PROVE Spec => []StdHasDriver
<1>1. FilesInv /\ StdInv /\ [Next]_vars => StdInv'  BY NextStdInv
<1>2. StdInv => StdHasDriver
  <2> SUFFICES ASSUME StdInv PROVE StdHasDriver  OBVIOUS
  <2>1. pc \in {"main", "exit"} => Redirected = Std  BY DEF Redirected
  <2>2. QED  BY <2>1 DEF StdInv, StdOpen, StdAgree, StdHasDriver
<1>3. QED  BY <1>1, <1>2, InitStdInv, SpecFilesInv, PTL DEF Spec

-----------------------------------------------------------------------------
(* What the descriptors promise                                            *)
(*                                                                         *)
(* A descriptor of the promise is FilesQ[i], the holder of a lock LockQ[f]. *)

FilesQ == [i \in FD |-> [file |-> fd_list[i].dev, set |-> fd_list[i].set,
                         mode |-> IF InUse(i) THEN fd_list[i].mode ELSE None]]
LockQ  == [f \in File |-> Holder(f)]

\* A free descriptor has no flags left from its last user (alt_release_fd.c:50).
FreeIsBlank == \A i \in FD : ~InUse(i) => fd_list[i].set = {}

\* The holder of f in the pool L.
HolderIn(L, f) ==
  LET H == {i \in FD : L[i].dev = f /\ L[i].excl} IN
    IF H = {} THEN None ELSE CHOOSE i \in H : TRUE

LEMMA HolderNone ==
  ASSUME NEW L, NEW f, \A i \in FD : L[i].dev = f => ~L[i].excl PROVE HolderIn(L, f) = None
<1>1. {i \in FD : L[i].dev = f /\ L[i].excl} = {}  OBVIOUS
<1>2. QED  BY <1>1 DEF HolderIn

LEMMA HolderIs ==
  ASSUME NEW L, NEW i \in FD, L[i].excl, \A j \in FD : L[j].excl /\ L[j].dev = L[i].dev => j = i
  PROVE  HolderIn(L, L[i].dev) = i
<1> DEFINE H == {j \in FD : L[j].dev = L[i].dev /\ L[j].excl}
<1>1. H = {i}  OBVIOUS
<1>2. HolderIn(L, L[i].dev) = IF H = {} THEN None ELSE CHOOSE j \in H : TRUE  BY DEF HolderIn
<1> HIDE DEF H
<1>3. (CHOOSE j \in {i} : TRUE) = i  OBVIOUS
<1>4. QED  BY <1>1, <1>2, <1>3

LEMMA HolderAmong ==
  ASSUME NEW L, NEW f
  PROVE  \/ HolderIn(L, f) = None /\ \A i \in FD : ~(L[i].dev = f /\ L[i].excl)
         \/ HolderIn(L, f) \in {i \in FD : L[i].dev = f /\ L[i].excl}
<1> DEFINE H == {i \in FD : L[i].dev = f /\ L[i].excl}
<1>1. HolderIn(L, f) = IF H = {} THEN None ELSE CHOOSE i \in H : TRUE  BY DEF HolderIn
<1>2. CASE H = {}  BY <1>1, <1>2
<1>3. CASE H # {}
  <2> HIDE DEF H
  <2>1. \E i \in H : TRUE  BY <1>3
  <2>2. (CHOOSE i \in H : TRUE) \in H  BY <2>1, Zenon
  <2>3. HolderIn(L, f) \in H  BY <1>1, <1>3, <2>2
  <2>4. QED  BY <2>3 DEF H
<1>4. QED  BY <1>2, <1>3

LEMMA HolderSame ==
  ASSUME NEW L, NEW M, NEW f,
         \A i \in FD : (M[i].dev = f /\ M[i].excl) <=> (L[i].dev = f /\ L[i].excl)
  PROVE  HolderIn(M, f) = HolderIn(L, f)
<1> DEFINE H == {i \in FD : L[i].dev = f /\ L[i].excl}  K == {i \in FD : M[i].dev = f /\ M[i].excl}
<1>1. K = H  OBVIOUS
<1>2. HolderIn(L, f) = IF H = {} THEN None ELSE CHOOSE i \in H : TRUE  BY DEF HolderIn
<1>3. HolderIn(M, f) = IF K = {} THEN None ELSE CHOOSE i \in K : TRUE  BY DEF HolderIn
<1> HIDE DEF H, K
<1>4. QED  BY <1>1, <1>2, <1>3

LEMMA QueuesOfPool ==
  /\ LockQ = [f \in File |-> HolderIn(fd_list, f)]
  /\ LockQ' = [f \in File |-> HolderIn(fd_list', f)]
BY DEF LockQ, Holder, HolderIn

-----------------------------------------------------------------------------

\* Free descriptors stay blank.
LEMMA NextFreeIsBlank == ASSUME FilesInv, FreeIsBlank, [Next]_vars PROVE FreeIsBlank'
<1>1. fd_list \in [FD -> Descriptor]  BY DEF FilesInv, TypeOK, Descriptor
<1>2. CASE UNCHANGED fd_list  BY <1>2 DEF FreeIsBlank, InUse
<1>3. ASSUME NEW i \in FD, NEW f \in File, NEW m, NEW s, fd_list' = [fd_list EXCEPT ![i] = Entry(f, m, s)]
      PROVE  FreeIsBlank'
  <2>1. f # None /\ Entry(f, m, s).dev = f  BY FilesAssumption DEF Entry
  <2>2. \A j \in FD : fd_list'[j] = IF j = i THEN Entry(f, m, s) ELSE fd_list[j]  BY <1>1, <1>3
  <2>3. QED  BY <2>1, <2>2 DEF FreeIsBlank, InUse
<1>4. ASSUME NEW i \in FD, fd_list' = Released(i) PROVE FreeIsBlank'
  <2>1. Unused.set = {}  BY DEF Unused
  <2>2. \A j \in FD : fd_list'[j] = IF j = i /\ i > 2 THEN Unused ELSE fd_list[j]
    BY <1>1, <1>4 DEF Released
  <2>3. QED  BY <2>1, <2>2 DEF FreeIsBlank, InUse
<1>5. ASSUME NEW i \in FD, Lock(i) \/ Unlock(i) PROVE FreeIsBlank'
  <2>1. CASE UNCHANGED fd_list  BY <1>2, <2>1
  <2>2. ASSUME NEW b \in BOOLEAN, fd_list' = [fd_list EXCEPT ![i].excl = b] PROVE FreeIsBlank'
    BY <1>1, <2>2 DEF FreeIsBlank, InUse, Descriptor
  <2>3. QED  BY <1>5, <2>1, <2>2 DEF Lock, Unlock
<1>6. ASSUME NEW i \in FD, NEW s, SetFlags(i, s) PROVE FreeIsBlank'
  <2>1. InUse(i) /\ fd_list' = [fd_list EXCEPT ![i].set = s]  BY <1>6 DEF SetFlags
  <2>2. QED  BY <1>1, <2>1 DEF FreeIsBlank, InUse, Descriptor
<1>7. ASSUME NEW from, NEW std \in Std, NEW m, NEW then, Redirect(from, std, m, then) PROVE FreeIsBlank'
  <2>1. std \in FD /\ Console \in File  BY StdInFD, FilesAssumption DEF File
  <2>2. QED  BY <1>2, <1>3, <1>7, <2>1 DEF Redirect
<1>8. ASSUME NEW f \in File,
             \/ OpenFindsNothing(f) \/ OpenFails(f) \/ Stat(f)
             \/ \E m \in Mode, s \in SUBSET Flag : Open(f, m, s)
      PROVE  FreeIsBlank'
  BY <1>2, <1>3, <1>8 DEF OpenFindsNothing, OpenFails, Stat, Open
<1>9. ASSUME NEW i \in FD,
             \/ Close(i) \/ Read(i) \/ Write(i) \/ Lseek(i) \/ Fstat(i) \/ Isatty(i)
             \/ \E req \in {"TIOCEXCL", "TIOCNXCL", "other"} : Ioctl(i, req)
             \/ \E s \in SUBSET Flag : SetFlags(i, s)
      PROVE  FreeIsBlank'
  BY <1>2, <1>4, <1>5, <1>6, <1>9 DEF Close, Read, Write, Lseek, Fstat, Isatty, Ioctl
<1>10. CASE MainReturns
  <2>1. 1 \in FD  BY FilesAssumption DEF FD
  <2>2. QED  BY <1>4, <1>10, <2>1 DEF MainReturns
<1>11. CASE \/ SysInitEnds \/ UseFailedOpen \/ UNCHANGED vars
            \/ \E f \in File : DevReg(f) \/ FsReg(f)
            \/ \E fatal \in BOOLEAN : Kill(fatal)
  BY <1>2, <1>11 DEF SysInitEnds, UseFailedOpen, vars, DevReg, FsReg, Kill
<1>12. 0 \in Std /\ 1 \in Std /\ 2 \in Std  BY DEF Std
<1>13. QED  BY <1>7, <1>8, <1>9, <1>10, <1>11, <1>12 DEF Next

LEMMA InitFreeIsBlank == Init => FreeIsBlank
<1> SUFFICES ASSUME Init PROVE FreeIsBlank  OBVIOUS
<1> DEFINE std == [Unused EXCEPT !.dev = DevNull]
<1>1. std.set = {} /\ Unused.set = {}  BY DEF Unused
<1> HIDE DEF std
<1>2. \A i \in FD : fd_list[i] = IF i \in Std THEN std ELSE Unused  BY DEF Init, std
<1>3. QED  BY <1>1, <1>2 DEF FreeIsBlank

-----------------------------------------------------------------------------
(* Every step is one of the promise, or none *)

FileOf(d) == [file |-> d.dev, set |-> d.set, mode |-> IF d.dev # None THEN d.mode ELSE None]

LEMMA FilesOfPool ==
  /\ FilesQ = [i \in FD |-> FileOf(fd_list[i])]
  /\ FilesQ' = [i \in FD |-> FileOf(fd_list'[i])]
BY DEF FilesQ, FileOf, InUse

\* Only descriptor i changes.
LEMMA OneFileChanges ==
  ASSUME NEW i \in FD, \A j \in FD : j # i => fd_list'[j] = fd_list[j]
  PROVE  /\ FilesQ' = [FilesQ EXCEPT ![i] = FileOf(fd_list'[i])]
         /\ FilesQ'[i] = FileOf(fd_list'[i]) /\ FilesQ[i] = FileOf(fd_list[i])
<1>1. \A j \in FD : FileOf(fd_list'[j]) = IF j = i THEN FileOf(fd_list'[i]) ELSE FileOf(fd_list[j])
  OBVIOUS
<1>2. [j \in FD |-> FileOf(fd_list'[j])] = [FilesQ EXCEPT ![i] = FileOf(fd_list'[i])]
  BY <1>1, FilesOfPool
<1>3. QED  BY <1>2, FilesOfPool

\* Actions of the promise in the words above.
LEMMA PromiseAttach ==
  ASSUME NEW i, FilesQ'[i] \in Promise!Opened, LockQ[FilesQ'[i].file] = None,
         FilesQ' = [FilesQ EXCEPT ![i] = FilesQ'[i]], UNCHANGED LockQ
  PROVE  Promise!Attach(i)
BY Zenon DEF Promise!Attach, FilesQ, LockQ

LEMMA PromiseRefuse == ASSUME served'.by = None, UNCHANGED <<FilesQ, LockQ>> PROVE Promise!Next
<1>1. Promise!Refuse  BY DEF Promise!Refuse, Promise!Quiet, FilesQ, LockQ
<1>2. QED  BY <1>1 DEF Promise!Next

LEMMA PromiseServe ==
  ASSUME NEW i \in FD, NEW op \in {"read", "write", "lseek", "fstat", "ioctl"}, InUse(i),
         op = "read" => fd_list[i].mode # "WRONLY", op = "write" => fd_list[i].mode # "RDONLY",
         served' = [op |-> op, fd |-> i, by |-> fd_list[i].dev], UNCHANGED <<FilesQ, LockQ>>
  PROVE  Promise!Next
<1>1. FilesQ[i].file = fd_list[i].dev /\ FilesQ[i].mode = fd_list[i].mode /\ fd_list[i].dev # None
  BY DEF FilesQ, InUse
<1>2. FilesQ[i] # Promise!Closed  BY <1>1 DEF Promise!Closed
<1>3. Promise!Serve(i, op)  BY <1>1, <1>2 DEF Promise!Serve, FilesQ, LockQ
<1>4. QED  BY <1>3 DEF Promise!Next

\* What a call on descriptor i does to a pool it leaves alone.
LEMMA ServedOrRefused ==
  ASSUME NEW i \in FD, NEW op \in {"read", "write", "lseek", "fstat", "ioctl"}, InUse(i),
         op = "read" => fd_list[i].mode # "WRONLY", op = "write" => fd_list[i].mode # "RDONLY",
         Calls(op, i), UNCHANGED fd_list
  PROVE  Promise!Next
<1>1. UNCHANGED <<FilesQ, LockQ>>  BY FilesOfPool, QueuesOfPool
<1>2. CASE op \in Provides[fd_list[i].dev]
  <2>1. served' = [op |-> op, fd |-> i, by |-> fd_list[i].dev]  BY <1>2 DEF Calls
  <2>2. QED  BY <1>1, <2>1, PromiseServe
<1>3. CASE op \notin Provides[fd_list[i].dev]
  <2>1. served'.by = None  BY <1>3 DEF Calls, NoCall
  <2>2. QED  BY <1>1, <2>1, PromiseRefuse
<1>4. QED  BY <1>2, <1>3

\* A descriptor without a lock comes to refer to a device nobody has locked.
LEMMA AttachPromised ==
  ASSUME FilesInv, NEW i \in FD, NEW f \in File, NEW m \in Mode, NEW s \in SUBSET Flag,
         fd_list' = [fd_list EXCEPT ![i] = Entry(f, m, s)], ~fd_list[i].excl,
         \A j \in FD : fd_list[j].dev = f => ~fd_list[j].excl
  PROVE  Promise!Attach(i) /\ FilesQ'[i].file = f
<1> DEFINE e == Entry(f, m, s)
<1>1. e.dev = f /\ f # None /\ e.mode = m /\ e.set = s /\ ~e.excl  BY FilesAssumption DEF Entry
<1>2. fd_list \in [FD -> Descriptor]  BY DEF FilesInv, TypeOK, Descriptor
<1> HIDE DEF e
<1>3. \A j \in FD : fd_list'[j] = IF j = i THEN e ELSE fd_list[j]  BY <1>2 DEF e
<1>4. FileOf(e) = [file |-> f, set |-> s, mode |-> m]  BY <1>1 DEF FileOf
<1>5. FilesQ' = [FilesQ EXCEPT ![i] = FileOf(e)] /\ FilesQ'[i] = FileOf(e)  BY <1>3, OneFileChanges
<1>6. FilesQ'[i] \in Promise!Opened /\ FilesQ'[i].file = f  BY <1>4, <1>5 DEF Promise!Opened
<1>7. LockQ[f] = None
  <2>1. HolderIn(fd_list, f) = None  BY HolderNone
  <2>2. QED  BY <2>1, QueuesOfPool
<1>8. UNCHANGED LockQ
  <2>1. \A g \in File : HolderIn(fd_list', g) = HolderIn(fd_list, g)
    <3> SUFFICES ASSUME NEW g \in File PROVE HolderIn(fd_list', g) = HolderIn(fd_list, g)  OBVIOUS
    <3> DEFINE L == fd_list  M == fd_list'
    <3>1. \A j \in FD : (M[j].dev = g /\ M[j].excl) <=> (L[j].dev = g /\ L[j].excl)  BY <1>1, <1>3
    <3> HIDE DEF L, M
    <3>2. HolderIn(M, g) = HolderIn(L, g)  BY <3>1, HolderSame
    <3>3. QED  BY <3>2 DEF L, M
  <2>2. QED  BY <2>1, QueuesOfPool
<1>9. QED  BY <1>5, <1>6, <1>7, <1>8, PromiseAttach

LEMMA OpenPromised ==
  ASSUME FilesInv, FreeIsBlank, NEW f \in File, NEW m \in Mode, NEW s \in SUBSET Flag, Open(f, m, s)
  PROVE  Promise!Next
<1>1. PICK i \in FD : /\ FirstFree(i) /\ Allowed(f, i)
                      /\ fd_list' = [fd_list EXCEPT ![i] = Entry(f, m, s)]
                      /\ max_fd' = Raised(i)
                      /\ served' = [op |-> "open", fd |-> i, by |-> f]
  BY DEF Open
<1>2. ~InUse(i) /\ ~fd_list[i].excl  BY <1>1 DEF FirstFree, FilesInv, LockedInMain, IsDevice
<1>3. ASSUME NEW j \in FD, fd_list[j].dev = f PROVE ~fd_list[j].excl  BY <1>1, <1>3, AllowedIsFree
<1>4. Promise!Attach(i) /\ FilesQ'[i].file = f  BY <1>1, <1>2, <1>3, AttachPromised
<1>5. FilesQ[i] = Promise!Closed
  <2>1. fd_list[i].dev = None /\ fd_list[i].set = {}  BY <1>2 DEF InUse, FreeIsBlank
  <2>2. QED  BY <2>1, FilesOfPool DEF FileOf, Promise!Closed
<1>6. i \in FD \ Promise!Std
  <2>1. i \notin Std  BY <1>2 DEF FilesInv, StdInUse
  <2>2. QED  BY <2>1 DEF Std, Promise!Std
<1>7. served'.op = "open" /\ served'.fd = i /\ served'.by = FilesQ'[i].file  BY <1>1, <1>4
<1>8. Promise!Open(i)  BY <1>4, <1>5, <1>7, Zenon DEF Promise!Open, FilesQ
<1>9. QED  BY <1>6, <1>8 DEF Promise!Next

LEMMA RedirectPromised ==
  ASSUME FilesInv, NEW from \in {"stdout", "stdin", "stderr"}, NEW std \in Std, NEW m \in Mode, NEW then,
         Redirect(from, std, m, then)
  PROVE  Promise!Next \/ UNCHANGED <<FilesQ, LockQ, served>>
<1>1. UNCHANGED served  BY DEF Redirect
<1>2. CASE UNCHANGED fd_list  BY <1>1, <1>2, FilesOfPool, QueuesOfPool
<1>3. CASE fd_list' = [fd_list EXCEPT ![std] = Entry(Console, m, {})]
  <2>1. std \in FD /\ Console \in File /\ {} \in SUBSET Flag /\ std \in Promise!Std
    BY StdInFD, FilesAssumption DEF File, Std, Promise!Std
  <2>2. \A j \in FD : ~fd_list[j].excl  BY DEF FilesInv, LockedInMain, Redirect
  <2>3. Promise!Attach(std)  BY <1>3, <2>1, <2>2, AttachPromised
  <2>4. Promise!Redirect(std)  BY <1>1, <2>3 DEF Promise!Redirect
  <2>5. QED  BY <2>1, <2>4 DEF Promise!Next
<1>4. QED  BY <1>2, <1>3 DEF Redirect

\* The lock of the promise after descriptor i gave up its own.
LEMMA LockDropped ==
  ASSUME FilesInv, NEW i \in FD,
         \A j \in FD, g \in File :
            (fd_list'[j].dev = g /\ fd_list'[j].excl) <=> (j # i /\ fd_list[j].dev = g /\ fd_list[j].excl)
  PROVE  LockQ' = [f \in File |-> IF LockQ[f] = i THEN None ELSE LockQ[f]]
<1>1. \A j \in FD : fd_list[i].excl /\ fd_list[j].excl /\ fd_list[j].dev = fd_list[i].dev => j = i
  <2> SUFFICES ASSUME NEW j \in FD, fd_list[i].excl, fd_list[j].excl, fd_list[j].dev = fd_list[i].dev, j # i
               PROVE  FALSE
    OBVIOUS
  <2>1. j > i /\ i > j  BY DEF FilesInv, SharersAbove
  <2>2. QED  BY <2>1, FilesAssumption DEF FD
<1>2. ASSUME NEW f \in File
      PROVE  HolderIn(fd_list', f) = IF HolderIn(fd_list, f) = i THEN None ELSE HolderIn(fd_list, f)
  <2> DEFINE L == fd_list  M == fd_list'
  <2>1. \A j \in FD : (M[j].dev = f /\ M[j].excl) <=> (j # i /\ L[j].dev = f /\ L[j].excl)  OBVIOUS
  <2>2. \A j \in FD : L[i].excl /\ L[j].excl /\ L[j].dev = L[i].dev => j = i  BY <1>1
  <2> HIDE DEF L, M
  <2>3. CASE L[i].dev = f /\ L[i].excl
    <3>1. HolderIn(L, f) = i  BY <2>2, <2>3, HolderIs
    <3>2. \A j \in FD : M[j].dev = f => ~M[j].excl  BY <2>1, <2>2, <2>3
    <3>3. HolderIn(M, f) = None  BY <3>2, HolderNone
    <3>4. QED  BY <3>1, <3>3 DEF L, M
  <2>4. CASE ~(L[i].dev = f /\ L[i].excl)
    <3>1. \A j \in FD : (M[j].dev = f /\ M[j].excl) <=> (L[j].dev = f /\ L[j].excl)  BY <2>1, <2>4
    <3>2. HolderIn(M, f) = HolderIn(L, f)  BY <3>1, HolderSame
    <3>3. HolderIn(L, f) = None \/ HolderIn(L, f) # i  BY <2>4, HolderAmong
    <3>4. QED  BY <3>2, <3>3 DEF L, M
  <2>5. QED  BY <2>3, <2>4
<1>3. \A f \in File : LockQ[f] = HolderIn(fd_list, f)  BY QueuesOfPool
<1>4. QED  BY <1>2, <1>3, QueuesOfPool

LEMMA ClosePromised ==
  ASSUME FilesInv, NEW i \in FD, InUse(i), fd_list' = Released(i), Calls("close", i)
  PROVE  Promise!Next
<1>1. FilesQ[i].file = fd_list[i].dev /\ FilesQ[i] # Promise!Closed
  BY FilesOfPool DEF FileOf, InUse, Promise!Closed
<1>2. served'.by = None \/ served' = [op |-> "close", fd |-> i, by |-> FilesQ[i].file]
  BY <1>1 DEF Calls, NoCall
<1>3. IF i \in Promise!Std THEN UNCHANGED <<FilesQ, LockQ>>
      ELSE /\ FilesQ' = [FilesQ EXCEPT ![i] = Promise!Closed]
           /\ LockQ' = [f \in File |-> IF LockQ[f] = i THEN None ELSE LockQ[f]]
  <2>1. i \in Promise!Std <=> ~(i > 2)  BY FilesAssumption DEF FD, Promise!Std
  <2>2. CASE ~(i > 2)
    <3>1. UNCHANGED fd_list  BY <2>2 DEF Released
    <3>2. QED  BY <2>1, <2>2, <3>1, FilesOfPool, QueuesOfPool
  <2>3. CASE i > 2
    <3>1. fd_list \in [FD -> Descriptor]  BY DEF FilesInv, TypeOK, Descriptor
    <3>2. \A j \in FD : fd_list'[j] = IF j = i THEN Unused ELSE fd_list[j]  BY <2>3, <3>1 DEF Released
    <3>3. FileOf(Unused) = Promise!Closed  BY DEF FileOf, Unused, Promise!Closed
    <3>4. FilesQ' = [FilesQ EXCEPT ![i] = Promise!Closed]  BY <3>2, <3>3, OneFileChanges
    <3>5. LockQ' = [f \in File |-> IF LockQ[f] = i THEN None ELSE LockQ[f]]
      <4>1. \A j \in FD, g \in File :
              (fd_list'[j].dev = g /\ fd_list'[j].excl) <=> (j # i /\ fd_list[j].dev = g /\ fd_list[j].excl)
        BY <3>2, UnusedType
      <4>2. QED  BY <4>1, LockDropped
    <3>6. QED  BY <2>1, <2>3, <3>4, <3>5
  <2>4. QED  BY <2>2, <2>3
<1>4. Promise!Close(i)  BY <1>1, <1>2, <1>3, Zenon DEF Promise!Close, Promise!Quiet, FilesQ, LockQ
<1>5. QED  BY <1>4 DEF Promise!Next

\* A change of the bit of the lock does not show in the descriptors.
LEMMA BitIsNotShown ==
  ASSUME FilesInv, NEW i \in FD, NEW b \in BOOLEAN, fd_list' = [fd_list EXCEPT ![i].excl = b]
  PROVE  /\ UNCHANGED FilesQ
         /\ \A j \in FD : fd_list'[j].dev = fd_list[j].dev /\ (fd_list'[j].excl <=> IF j = i THEN b ELSE fd_list[j].excl)
<1>1. fd_list \in [FD -> Descriptor]  BY DEF FilesInv, TypeOK, Descriptor
<1>2. \A j \in FD : /\ fd_list'[j].dev = fd_list[j].dev /\ fd_list'[j].set = fd_list[j].set
                    /\ fd_list'[j].mode = fd_list[j].mode
                    /\ fd_list'[j].excl = IF j = i THEN b ELSE fd_list[j].excl
  BY <1>1 DEF Descriptor
<1>3. \A j \in FD : FileOf(fd_list'[j]) = FileOf(fd_list[j])  BY <1>2 DEF FileOf
<1>4. QED  BY <1>2, <1>3, FilesOfPool

LEMMA UnlockPromised == ASSUME FilesInv, NEW i \in FD, Unlock(i) PROVE Promise!Next
<1>1. fd_list' = [fd_list EXCEPT ![i].excl = FALSE] /\ served'.by = None  BY DEF Unlock, NoCall
<1>2. UNCHANGED FilesQ  BY <1>1, BitIsNotShown
<1>3. LockQ' = [f \in File |-> IF LockQ[f] = i THEN None ELSE LockQ[f]]
  <2>1. \A j \in FD : fd_list'[j].dev = fd_list[j].dev /\ (fd_list'[j].excl <=> IF j = i THEN FALSE ELSE fd_list[j].excl)
    BY <1>1, BitIsNotShown
  <2>2. \A j \in FD, g \in File :
          (fd_list'[j].dev = g /\ fd_list'[j].excl) <=> (j # i /\ fd_list[j].dev = g /\ fd_list[j].excl)
    BY <2>1
  <2>3. QED  BY <2>2, LockDropped
<1>4. Promise!Unlock(i)  BY <1>1, <1>2, <1>3 DEF Promise!Unlock, Promise!Quiet, FilesQ, LockQ
<1>5. QED  BY <1>4 DEF Promise!Next

LEMMA LockPromised == ASSUME FilesInv, NEW i \in FD, Lock(i) PROVE Promise!Next
<1>1. InUse(i) /\ fd_list[i].isdev /\ served'.by = None  BY DEF Lock, NoCall
<1>2. CASE Others(i) # {}
  <2>1. UNCHANGED fd_list  BY <1>2 DEF Lock
  <2>2. QED  BY <1>1, <2>1, FilesOfPool, QueuesOfPool, PromiseRefuse
<1>3. CASE Others(i) = {}
  <2> DEFINE d == fd_list[i].dev
  <2>1. fd_list' = [fd_list EXCEPT ![i].excl = TRUE]  BY <1>3 DEF Lock
  <2>2. UNCHANGED FilesQ  BY <2>1, BitIsNotShown
  <2>3. \A j \in FD : fd_list'[j].dev = fd_list[j].dev /\ (fd_list'[j].excl <=> IF j = i THEN TRUE ELSE fd_list[j].excl)
    BY <2>1, BitIsNotShown
  <2>4. \A j \in FD : fd_list[j].excl /\ fd_list[j].dev = d => j = i
    <3> SUFFICES ASSUME NEW j \in FD, fd_list[j].excl, fd_list[j].dev = d, j # i PROVE FALSE  OBVIOUS
    <3>1. i > j  BY DEF FilesInv, SharersAbove
    <3>2. i <= max_fd  BY <1>1 DEF FilesInv, Marked
    <3>3. j \in 0..(max_fd - 1)  BY <3>1, <3>2, FilesAssumption DEF FilesInv, TypeOK, FD
    <3>4. QED  BY <1>3, <3>3 DEF Others
  <2>5. d \in File /\ FilesQ[i].file = d /\ FilesQ[i] # Promise!Closed
    <3>1. d \in File /\ d # None  BY <1>1 DEF FilesInv, TypeOK, InUse
    <3>2. QED  BY <3>1, FilesOfPool DEF FileOf, Promise!Closed
  <2>6. LockQ[d] \in {None, i}
    <3>1. HolderIn(fd_list, d) \in {None, i}  BY <2>4, HolderAmong
    <3>2. QED  BY <2>5, <3>1, QueuesOfPool
  <2>7. HolderIn(fd_list', d) = i
    <3>1. fd_list'[i].excl /\ fd_list'[i].dev = d  BY <2>3
    <3>2. \A j \in FD : fd_list'[j].excl /\ fd_list'[j].dev = fd_list'[i].dev => j = i  BY <2>3, <2>4
    <3>3. HolderIn(fd_list', fd_list'[i].dev) = i  BY <3>1, <3>2, HolderIs, Zenon
    <3>4. QED  BY <3>1, <3>3
  <2>8. ASSUME NEW f \in File, f # d PROVE HolderIn(fd_list', f) = HolderIn(fd_list, f)
    <3>1. \A j \in FD : (fd_list'[j].dev = f /\ fd_list'[j].excl) <=> (fd_list[j].dev = f /\ fd_list[j].excl)
      BY <2>3, <2>8
    <3>2. QED  BY <3>1, HolderSame, Zenon
  <2> HIDE DEF d
  <2>9. LockQ' = [LockQ EXCEPT ![d] = i]  BY <2>5, <2>7, <2>8, QueuesOfPool
  <2>10. Promise!Lock(i)
    <3>1. LockQ[FilesQ[i].file] \in {None, i} /\ LockQ' = [LockQ EXCEPT ![FilesQ[i].file] = i]
      BY <2>5, <2>6, <2>9
    <3>2. QED  BY <1>1, <2>2, <2>5, <3>1, Zenon DEF Promise!Lock, Promise!Quiet, FilesQ, LockQ
  <2>11. QED  BY <2>10 DEF Promise!Next
<1>4. QED  BY <1>2, <1>3

LEMMA SetFlagsPromised ==
  ASSUME FilesInv, NEW i \in FD, NEW s \in SUBSET Flag, SetFlags(i, s) PROVE Promise!Next
<1>1. InUse(i) /\ fd_list' = [fd_list EXCEPT ![i].set = s] /\ served'.by = None  BY DEF SetFlags, NoCall
<1>2. fd_list \in [FD -> Descriptor]  BY DEF FilesInv, TypeOK, Descriptor
<1>3. \A j \in FD : /\ fd_list'[j].dev = fd_list[j].dev /\ fd_list'[j].mode = fd_list[j].mode
                    /\ fd_list'[j].excl = fd_list[j].excl
                    /\ fd_list'[j].set = IF j = i THEN s ELSE fd_list[j].set
                    /\ j # i => fd_list'[j] = fd_list[j]
  BY <1>1, <1>2 DEF Descriptor
<1>4. FileOf(fd_list'[i]) = [FileOf(fd_list[i]) EXCEPT !.set = s] /\ FileOf(fd_list'[i]).set = s
  BY <1>3 DEF FileOf
<1>5. /\ FilesQ' = [FilesQ EXCEPT ![i] = FileOf(fd_list'[i])]
      /\ FilesQ'[i] = FileOf(fd_list'[i]) /\ FilesQ[i] = FileOf(fd_list[i])
  BY <1>3, OneFileChanges
<1>6. FilesQ' = [FilesQ EXCEPT ![i].set = FilesQ'[i].set] /\ FilesQ'[i].set \subseteq Flag
  BY <1>4, <1>5
<1>7. FilesQ[i] # Promise!Closed  BY <1>1, <1>5 DEF FileOf, InUse, Promise!Closed
<1>8. UNCHANGED LockQ
  <2>1. \A f \in File : HolderIn(fd_list', f) = HolderIn(fd_list, f)
    <3> SUFFICES ASSUME NEW f \in File PROVE HolderIn(fd_list', f) = HolderIn(fd_list, f)  OBVIOUS
    <3>1. \A j \in FD : (fd_list'[j].dev = f /\ fd_list'[j].excl) <=> (fd_list[j].dev = f /\ fd_list[j].excl)
      BY <1>3
    <3>2. QED  BY <3>1, HolderSame, Zenon
  <2>2. QED  BY <2>1, QueuesOfPool
<1>9. Promise!SetFlags(i)  BY <1>1, <1>6, <1>7, <1>8, Zenon DEF Promise!SetFlags, Promise!Quiet, FilesQ, LockQ
<1>10. QED  BY <1>9 DEF Promise!Next

LEMMA PromiseStep ==
  ASSUME FilesInv, FreeIsBlank, [Next]_vars PROVE Promise!Next \/ UNCHANGED <<FilesQ, LockQ, served>>
<1> USE FilesOfPool, QueuesOfPool
<1>1. ASSUME UNCHANGED fd_list, served'.by = None PROVE Promise!Next  BY <1>1, PromiseRefuse
<1>2. CASE SysInitEnds \/ UNCHANGED vars \/ \E f \in File : DevReg(f) \/ FsReg(f)
  BY <1>2 DEF SysInitEnds, vars, DevReg, FsReg
<1>3. CASE \/ Redirect("stdout", 1, "WRONLY", "stdin") \/ Redirect("stdin", 0, "RDONLY", "stderr")
           \/ Redirect("stderr", 2, "WRONLY", "main")
  BY <1>3, RedirectPromised, FilesAssumption DEF Std
<1>4. CASE \E f \in File, m \in Mode, s \in SUBSET Flag : Open(f, m, s)  BY <1>4, OpenPromised
<1>5. ASSUME NEW f \in File, OpenFindsNothing(f) \/ OpenFails(f) PROVE Promise!Next
  BY <1>1, <1>5 DEF OpenFindsNothing, OpenFails, NoCall
<1>6. ASSUME NEW f \in File, Stat(f) PROVE Promise!Next
  <2>1. UNCHANGED fd_list  BY <1>6 DEF Stat
  <2>2. CASE served' = NoCall  BY <1>1, <2>1, <2>2 DEF NoCall
  <2>3. CASE served' # NoCall
    <3>1. PICK i \in FD : FirstFree(i) /\ Allowed(f, i)  BY <1>6, <2>3 DEF Stat
    <3>2. served' = [op |-> "fstat", fd |-> -1, by |-> f]  BY <1>6, <2>3 DEF Stat
    <3>3. ASSUME NEW j \in FD, fd_list[j].dev = f PROVE ~fd_list[j].excl  BY <3>1, <3>3, AllowedIsFree
    <3>4. HolderIn(fd_list, f) = None  BY <3>3, HolderNone
    <3>5. LockQ[f] = None  BY <3>4
    <3>6. UNCHANGED <<FilesQ, LockQ>>  BY <2>1
    <3>7. Promise!Describe(f)  BY <3>2, <3>5, <3>6, Zenon DEF Promise!Describe, FilesQ, LockQ
    <3>8. QED  BY <3>7 DEF Promise!Next
  <2>4. QED  BY <2>2, <2>3
<1>7. ASSUME NEW i \in FD, Close(i) PROVE Promise!Next  BY <1>7, ClosePromised DEF Close
<1>8. ASSUME NEW i \in FD, Read(i) \/ Write(i) \/ Lseek(i) \/ Fstat(i) \/ Isatty(i) PROVE Promise!Next
  <2>1. InUse(i) /\ UNCHANGED fd_list  BY <1>8 DEF Read, Write, Lseek, Fstat, Isatty
  <2>2. CASE served' = NoCall  BY <1>1, <2>1, <2>2 DEF NoCall
  <2>3. CASE served' # NoCall
    <3>1. \/ fd_list[i].mode # "WRONLY" /\ Calls("read", i)
          \/ fd_list[i].mode # "RDONLY" /\ Calls("write", i)
          \/ Calls("lseek", i) \/ Calls("fstat", i)
      BY <1>8, <2>3 DEF Read, Write, Lseek, Fstat, Isatty
    <3>2. QED  BY <2>1, <3>1, ServedOrRefused
  <2>4. QED  BY <2>2, <2>3
<1>9. ASSUME NEW i \in FD, NEW req, Ioctl(i, req) PROVE Promise!Next
  <2>1. CASE Lock(i)  BY <2>1, LockPromised
  <2>2. CASE Unlock(i)  BY <2>2, UnlockPromised
  <2>3. CASE InUse(i) /\ Calls("ioctl", i) /\ UNCHANGED fd_list  BY <2>3, ServedOrRefused
  <2>4. QED  BY <1>9, <2>1, <2>2, <2>3 DEF Ioctl
<1>10. ASSUME NEW i \in FD, NEW s \in SUBSET Flag, SetFlags(i, s) PROVE Promise!Next
  BY <1>10, SetFlagsPromised
<1>11. CASE MainReturns
  <2>1. 1 \in FD /\ 1 \in Std  BY FilesAssumption DEF FD, Std
  <2>2. InUse(1)  BY <2>1 DEF FilesInv, StdInUse
  <2>3. QED  BY <1>11, <2>1, <2>2, ClosePromised DEF MainReturns
<1>12. CASE UseFailedOpen \/ \E fatal \in BOOLEAN : Kill(fatal)
  BY <1>1, <1>12 DEF UseFailedOpen, Kill, NoCall
<1>13. ASSUME NEW i \in FD,
              \/ Close(i) \/ Read(i) \/ Write(i) \/ Lseek(i) \/ Fstat(i) \/ Isatty(i)
              \/ \E req \in {"TIOCEXCL", "TIOCNXCL", "other"} : Ioctl(i, req)
              \/ \E s \in SUBSET Flag : SetFlags(i, s)
       PROVE  Promise!Next
  BY <1>7, <1>8, <1>9, <1>10, <1>13
<1>14. ASSUME NEW f \in File,
              \/ OpenFindsNothing(f) \/ OpenFails(f) \/ Stat(f)
              \/ \E m \in Mode, s \in SUBSET Flag : Open(f, m, s)
       PROVE  Promise!Next \/ UNCHANGED <<FilesQ, LockQ, served>>
  BY <1>4, <1>5, <1>6, <1>14
<1>15. QED  BY <1>2, <1>3, <1>11, <1>12, <1>13, <1>14 DEF Next

LEMMA PromiseStart == Init => Promise!Init
<1> SUFFICES ASSUME Init PROVE Promise!Init  OBVIOUS
<1> DEFINE std == [Unused EXCEPT !.dev = DevNull]
<1>1. /\ std.dev = DevNull /\ std.mode = "RDONLY" /\ std.set = {} /\ ~std.excl
      /\ DevNull # None /\ DevNull \in File /\ "RDONLY" \in Mode
  BY FilesAssumption DEF Unused, File
<1> HIDE DEF std
<1>2. \A i \in FD : fd_list[i] = IF i \in Std THEN std ELSE Unused  BY DEF Init, std
<1>3. FileOf(std) = [file |-> DevNull, mode |-> "RDONLY", set |-> {}]  BY <1>1 DEF FileOf
<1>4. FileOf(Unused) = Promise!Closed  BY DEF FileOf, Unused, Promise!Closed
<1>5. FilesQ = [i \in FD |-> IF i \in Promise!Std THEN [file |-> DevNull, mode |-> "RDONLY", set |-> {}]
                             ELSE Promise!Closed]
  <2>1. \A i \in FD : FileOf(fd_list[i]) = IF i \in Std THEN FileOf(std) ELSE FileOf(Unused)  BY <1>2
  <2>2. Std = Promise!Std  BY DEF Std, Promise!Std
  <2>3. QED  BY <1>3, <1>4, <2>1, <2>2, FilesOfPool
<1>6. LockQ = [f \in File |-> None]
  <2>1. \A i \in FD : ~fd_list[i].excl  BY <1>1, <1>2, UnusedType
  <2>2. \A f \in File : HolderIn(fd_list, f) = None  BY <2>1, HolderNone
  <2>3. QED  BY <2>2, QueuesOfPool
<1>7. served.by = None  BY DEF Init, NoCall
<1>8. \E f \in File, m \in Mode :
        FilesQ = [i \in FD |-> IF i \in Promise!Std THEN [file |-> f, mode |-> m, set |-> {}] ELSE Promise!Closed]
  BY <1>1, <1>5
<1>9. QED  BY <1>6, <1>7, <1>8, Zenon DEF Promise!Init, FilesQ, LockQ

\* ImplementsDescriptors: whatever fails on the way, a descriptor stays with its
\* file until it is closed, calls reach that file's driver and no other, nothing is
\* leaked by a call that fails, and a locked device takes no new descriptors.
THEOREM SpecImplementsDescriptors == Spec => ImplementsDescriptors
<1>1. FilesInv /\ FreeIsBlank /\ [Next]_vars => FreeIsBlank'  BY NextFreeIsBlank
<1>2. FilesInv /\ FreeIsBlank /\ [Next]_vars
        => [Promise!Next]_<<[i \in FD |-> [file |-> fd_list[i].dev, set |-> fd_list[i].set,
                                           mode |-> IF InUse(i) THEN fd_list[i].mode ELSE None]],
                            [f \in File |-> Holder(f)], served>>
  BY PromiseStep DEF FilesQ, LockQ
<1>3. QED
  BY <1>1, <1>2, InitFreeIsBlank, PromiseStart, SpecFilesInv, PTL DEF Spec, ImplementsDescriptors, Promise!Spec

-----------------------------------------------------------------------------
(* The interrupt interface                                                 *)
(*                                                                         *)
(* For every number of lines and of nested sections.  The handlers that    *)
(* run form a stack: every one below the top has opened itself, and the    *)
(* mask it left admits only lines of a higher priority than its own.       *)

-----------------------------------------------------------------------------

\* A stack without its top.
LEMMA Popped ==
  ASSUME NEW S, NEW s \in Seq(S), s # <<>>
  PROVE  LET t == SubSeq(s, 1, Len(s) - 1) IN
         /\ Len(s) \in Nat \ {0} /\ s[Len(s)] \in S
         /\ t \in Seq(S) /\ Len(t) = Len(s) - 1 /\ DOMAIN t = 1..(Len(s) - 1)
         /\ \A n \in 1..(Len(s) - 1) : t[n] = s[n]
<1>1. Len(s) \in Nat \ {0} /\ s[Len(s)] \in S
  BY EmptySeq, LenProperties, ElementOfSeq
<1>2. \A n \in 1..(Len(s) - 1) : s[n] \in S
  BY <1>1, ElementOfSeq
<1>3. /\ SubSeq(s, 1, Len(s) - 1) \in Seq(S)
      /\ Len(SubSeq(s, 1, Len(s) - 1)) = Len(s) - 1
      /\ \A n \in 1..(Len(s) - 1) : SubSeq(s, 1, Len(s) - 1)[n] = s[n]
  <2>1. SubSeq(s, 1, Len(s) - 1) \in Seq(S)
    BY <1>1, <1>2, SubSeqProperties
  <2>2. Len(SubSeq(s, 1, Len(s) - 1)) = Len(s) - 1
    <3> DEFINE k == Len(s) - 1
    <3>1. k \in Nat  BY <1>1
    <3>2. \A i \in 1..k : s[i] \in S  BY <1>2
    <3> HIDE DEF k
    <3>3. Len(SubSeq(s, 1, k)) = k
      BY <3>1, <3>2, SubSeqProperties
    <3>4. QED  BY <3>3, Zenon DEF k
  <2>3. ASSUME NEW n \in 1..(Len(s) - 1) PROVE SubSeq(s, 1, Len(s) - 1)[n] = s[n]
    BY <1>1, <2>3
  <2>4. QED  BY <2>1, <2>2, <2>3
<1>4. QED
  BY <1>1, <1>3, LenProperties

\* The line found first is one of those looked for (alt_irq_handler.c:141).
LEMMA FirstOfLines ==
  ASSUME NEW S \in SUBSET Line, S # {}
  PROVE  FirstOf(S) \in S
<1>1. S \in SUBSET Nat  BY InterruptsAssumption DEF Line
<1>2. \E x \in S : \A y \in S : x <= y  BY <1>1, Smallest
<1>3. QED  BY <1>2 DEF FirstOf, Min


LEMMA LinesAreNumbers == Line \subseteq Nat /\ \A i \in Line : Higher(i) \subseteq Line
BY InterruptsAssumption DEF Line, Higher

\* A handler of a line that the mask lets through goes on top.
LEMMA Pushed ==
  ASSUME NEW r, NEW m, Stack(r, TRUE, m), NEW i \in Line, i \in m,
         NEW h \in Handlers, h.line = i, ~h.open
  PROVE  Stack(Append(r, h), FALSE, m)
<1> DEFINE t == Append(r, h)
<1>1. r \in Seq(Handlers)  BY DEF Stack
<1>2. /\ t \in Seq(Handlers) /\ t # <<>>
      /\ Len(t) = Len(r) + 1 /\ DOMAIN t = 1..(Len(r) + 1)
      /\ \A n \in 1..Len(r) : t[n] = r[n]
      /\ t[Len(r) + 1] = h
  BY <1>1, AppendProperties, LenProperties
<1>3. Len(r) \in Nat /\ DOMAIN r = 1..Len(r) /\ (r = <<>> <=> Len(r) = 0)
  BY <1>1, LenProperties, EmptySeq
<1> HIDE DEF t
<1>4. \A n \in 1..Len(r) : r[n].open
  BY <1>3 DEF Stack, TopOf
<1>5. \A n \in 1..Len(r) : i < r[n].line
  <2>1. SUFFICES ASSUME NEW n \in 1..Len(r) PROVE i < r[n].line
    OBVIOUS
  <2>2. r[n] \in Handlers /\ TopOf(r) \in Handlers
    BY <1>1, <1>3, ElementOfSeq DEF TopOf
  <2>3. i \in Higher(TopOf(r).line)
    BY <1>3, <1>4 DEF Stack, TopOf
  <2>4. TopOf(r).line \in Nat /\ r[n].line \in Nat /\ i \in Nat
    BY <2>2, LinesAreNumbers DEF Handlers
  <2>5. i < TopOf(r).line
    BY <2>3, <2>4 DEF Higher
  <2>6. n = Len(r) \/ TopOf(r).line < r[n].line
    <3>1. \A a, b \in DOMAIN r : a < b => r[b].line < r[a].line  BY DEF Stack
    <3> DEFINE k == Len(r)
    <3>2. k \in Nat /\ n \in 1..k /\ DOMAIN r = 1..k  BY <1>3, Zenon
    <3> HIDE DEF k
    <3>3. n \in DOMAIN r /\ k \in DOMAIN r /\ (n = k \/ n < k)  BY <3>2
    <3>4. QED  BY <3>1, <3>3, Zenon DEF TopOf, k
  <2>7. QED  BY <2>4, <2>5, <2>6 DEF TopOf
<1>6. \A a, b \in DOMAIN t : a < b => t[b].line < t[a].line
  BY <1>2, <1>3, <1>5 DEF Stack
<1>7. \A n \in DOMAIN t : n < Len(t) => t[n].open
  BY <1>2, <1>3, <1>4
<1>8. \A n \in DOMAIN t : t[n].open => t[n].old = Below(t, n)
  BY <1>2, <1>3 DEF Stack, Below
<1>9. m = Below(t, Len(t))
  BY <1>2, <1>3, <1>4 DEF Stack, Below, TopOf
<1>10. QED
  BY <1>2, <1>6, <1>7, <1>8, <1>9, Zenon DEF Stack, TopOf, t

\* A handler that is not open leaves.
LEMMA Pops ==
  ASSUME NEW r, NEW m, Stack(r, FALSE, m), r # <<>>
  PROVE  Stack(SubSeq(r, 1, Len(r) - 1), TRUE, m)
<1> DEFINE t == SubSeq(r, 1, Len(r) - 1)
<1>1. r \in Seq(Handlers)  BY DEF Stack
<1>2. /\ Len(r) \in Nat \ {0} /\ t \in Seq(Handlers) /\ Len(t) = Len(r) - 1
      /\ DOMAIN t = 1..(Len(r) - 1) /\ \A n \in 1..(Len(r) - 1) : t[n] = r[n]
  BY <1>1, Popped
<1>3. DOMAIN r = 1..Len(r) /\ (t = <<>> <=> Len(t) = 0)
  BY <1>1, <1>2, LenProperties, EmptySeq
<1> HIDE DEF t
<1>4. ~TopOf(r).open /\ m = Below(r, Len(r))
  BY DEF Stack
<1>5. \A a, b \in DOMAIN t : a < b => t[b].line < t[a].line
  BY <1>2, <1>3 DEF Stack
<1>6. \A n \in DOMAIN t : t[n].open /\ t[n].old = Below(t, n)
  BY <1>2, <1>3 DEF Stack, Below
<1>7. t # <<>> => TopOf(t).open /\ m = Higher(TopOf(t).line)
  BY <1>2, <1>3, <1>4, <1>6 DEF Below, TopOf
<1>8. t = <<>> => m = Line
  BY <1>2, <1>3, <1>4 DEF Below
<1>9. QED
  BY <1>2, <1>5, <1>6, <1>7, <1>8 DEF Stack, t

\* The top of a stack changes in everything but its line.
LEMMA TopChanges ==
  ASSUME NEW r, NEW m, NEW on \in BOOLEAN, Stack(r, on, m), r # <<>>,
         NEW h \in Handlers, h.line = TopOf(r).line, h.open <=> ~on,
         h.open => h.old = Below(r, Len(r))
  PROVE  Stack([r EXCEPT ![Len(r)] = h], ~on,
               IF h.open THEN Higher(h.line) ELSE Below(r, Len(r)))
<1> DEFINE t == [r EXCEPT ![Len(r)] = h]
<1>1. r \in Seq(Handlers)  BY DEF Stack
<1>2. Len(r) \in Nat \ {0} /\ DOMAIN r = 1..Len(r)
  BY <1>1, Popped, LenProperties
<1>3. /\ t \in Seq(Handlers) /\ Len(t) = Len(r)
      /\ \A n \in 1..Len(r) : t[n] = IF n = Len(r) THEN h ELSE r[n]
  BY <1>1, <1>2, ExceptSeq
<1>4. DOMAIN t = 1..Len(r) /\ t # <<>>
  BY <1>2, <1>3, LenProperties, EmptySeq
<1> HIDE DEF t
<1>5. \A n \in 1..Len(r) : t[n].line = r[n].line
  BY <1>3 DEF TopOf
<1>6. \A a, b \in DOMAIN t : a < b => t[b].line < t[a].line
  BY <1>2, <1>4, <1>5 DEF Stack
<1>7. \A n \in DOMAIN t : n < Len(t) => t[n].open
  <2> DEFINE k == Len(r)
  <2>1. /\ k \in Nat \ {0} /\ DOMAIN r = 1..k /\ DOMAIN t = 1..k /\ Len(t) = k
        /\ \A n \in 1..k : t[n] = IF n = k THEN h ELSE r[n]
        /\ \A n \in DOMAIN r : n < k => r[n].open
    BY <1>2, <1>3, <1>4, Zenon DEF Stack
  <2> HIDE DEF k
  <2>2. QED  BY <2>1
<1>8. \A n \in 1..Len(r) : Below(t, n) = Below(r, n)
  BY <1>2, <1>5 DEF Below
<1>9. \A n \in DOMAIN t : t[n].open => t[n].old = Below(t, n)
  BY <1>2, <1>3, <1>4, <1>8 DEF Stack
<1>10. TopOf(t) = h /\ Below(t, Len(t)) = Below(r, Len(r))
  <2> DEFINE k == Len(r)
  <2>1. k \in Nat \ {0} /\ \A n \in 1..k : t[n] = IF n = k THEN h ELSE r[n]
    BY <1>2, <1>3, Zenon
  <2>2. \A n \in 1..k : Below(t, n) = Below(r, n)  BY <1>8, Zenon
  <2> HIDE DEF k
  <2>3. t[k] = h /\ Below(t, k) = Below(r, k)  BY <2>1, <2>2
  <2>4. QED  BY <1>3, <2>3, Zenon DEF TopOf, k
<1>11. QED
  BY <1>3, <1>4, <1>6, <1>7, <1>9, <1>10, Zenon DEF Stack, t

-----------------------------------------------------------------------------

LEMMA InterruptsStart == InterruptsInit => InterruptsInv
BY DEF InterruptsInit, InterruptsInv, Stack, TablesAgree, SectionKept, SectionsNest, InProgram

\* A handler begins: at alt_irq_handler's entry or at a turn of its loop.
LEMMA HandlerBegins ==
  ASSUME InterruptsInv, NEW r, Stack(r, TRUE, mask), sections = <<>>,
         \A n \in DOMAIN r : r[n].line \in table,
         NEW asking \in SUBSET Line, Pending(asking) # {}
  PROVE  LET t == Append(r, Handler(FirstOf(Pending(asking)))) IN
         Stack(t, FALSE, mask) /\ t # <<>> /\ \A n \in DOMAIN t : t[n].line \in table
<1> DEFINE i == FirstOf(Pending(asking))
<1>1. Pending(asking) \in SUBSET Line  BY DEF Pending
<1>2. i \in Pending(asking)  BY <1>1, FirstOfLines
<1>3. i \in Line /\ i \in mask /\ i \in table
  BY <1>1, <1>2 DEF InterruptsInv, TablesAgree, Pending
<1> HIDE DEF i
<1>4. Handler(i) \in Handlers /\ Handler(i).line = i /\ ~Handler(i).open
  BY <1>3 DEF Handler, Handlers
<1>5. Stack(Append(r, Handler(i)), FALSE, mask)
  BY <1>3, <1>4, Pushed
<1>6. r \in Seq(Handlers)  BY DEF Stack
<1>7. /\ Append(r, Handler(i)) # <<>> /\ DOMAIN Append(r, Handler(i)) = 1..(Len(r) + 1)
      /\ \A n \in 1..Len(r) : Append(r, Handler(i))[n] = r[n]
      /\ Append(r, Handler(i))[Len(r) + 1] = Handler(i)
      /\ DOMAIN r = 1..Len(r) /\ Len(r) \in Nat
  BY <1>4, <1>6, AppendProperties, LenProperties
<1>8. \A n \in DOMAIN Append(r, Handler(i)) : Append(r, Handler(i))[n].line \in table
  BY <1>3, <1>4, <1>7
<1>9. QED  BY <1>5, <1>7, <1>8 DEF i

LEMMA InterruptsStep == InterruptsInv /\ [InterruptsNext]_interrupts => InterruptsInv'
<1> SUFFICES ASSUME InterruptsInv, [InterruptsNext]_interrupts PROVE InterruptsInv'
  OBVIOUS
<1>1. ASSUME NEW i \in Line, Asks(i) PROVE InterruptsInv'
  BY <1>1 DEF Asks, controller, InterruptsInv, TablesAgree, SectionsNest, SectionKept, InProgram
<1>2. ASSUME NEW i \in Line,
             EnableLine(i) \/ DisableLine(i) \/ Isr_register(i) \/ Isr_unregister(i)
      PROVE  InterruptsInv'
  <2>1. UNCHANGED <<mask, status, requests, running, sections>>
    BY <1>2 DEF EnableLine, DisableLine, Isr_register, Isr_unregister
  <2>2. mask = Line
    BY <1>2 DEF EnableLine, DisableLine, Isr_register, Isr_unregister, InHandler, InProgram,
                InterruptsInv, Stack
  <2>3. table' \subseteq Line /\ active' \subseteq table' /\ ienable' = active' \cap mask'
    BY <1>2, <2>1, <2>2 DEF EnableLine, DisableLine, Isr_register, Isr_unregister, Irq_enable,
                            Irq_disable, InterruptsInv, TablesAgree
  <2>4. \A n \in DOMAIN running : running[n].line \in table'
    BY <1>2 DEF EnableLine, DisableLine, Isr_register, Isr_unregister, InProgram,
                InterruptsInv, TablesAgree
  <2>5. QED
    BY <2>1, <2>3, <2>4 DEF InterruptsInv, TablesAgree, SectionsNest, SectionKept, InProgram
<1>3. CASE Disable_all
  <2>1. /\ sections' \in Seq(BOOLEAN) /\ sections' # <<>>
        /\ DOMAIN sections' = 1..(Len(sections) + 1)
        /\ \A n \in 1..Len(sections) : sections'[n] = sections[n]
        /\ sections'[Len(sections) + 1] = status
    BY <1>3, AppendProperties, LenProperties DEF Disable_all, InterruptsInv, SectionsNest
  <2>2. /\ sections = <<>> <=> Len(sections) = 0
        /\ DOMAIN sections = 1..Len(sections) /\ Len(sections) \in Nat
    BY EmptySeq, LenProperties DEF InterruptsInv, SectionsNest
  <2>3. SectionsNest'
    BY <1>3, <2>1, <2>2 DEF Disable_all, InterruptsInv, SectionsNest, InProgram
  <2>4. Stack(running', status', mask')
    BY <1>3 DEF Disable_all, InterruptsInv, Stack, InProgram
  <2>5. QED
    BY <1>3, <2>3, <2>4 DEF Disable_all, InterruptsInv, TablesAgree, SectionKept, InProgram
<1>4. CASE Enable_all
  <2>1. /\ Len(sections) \in Nat \ {0} /\ sections[Len(sections)] \in BOOLEAN
        /\ sections' \in Seq(BOOLEAN) /\ Len(sections') = Len(sections) - 1
        /\ DOMAIN sections' = 1..(Len(sections) - 1)
        /\ \A n \in 1..(Len(sections) - 1) : sections'[n] = sections[n]
    BY <1>4, Popped DEF Enable_all, InterruptsInv, SectionsNest
  <2>2. /\ sections' = <<>> <=> Len(sections') = 0
        /\ DOMAIN sections = 1..Len(sections)
    BY <2>1, EmptySeq, LenProperties DEF InterruptsInv, SectionsNest
  <2>3. SectionsNest' /\ status' \in BOOLEAN
    BY <1>4, <2>1, <2>2 DEF Enable_all, InterruptsInv, SectionsNest, InProgram
  <2>4. Stack(running', status', mask')
    BY <1>4 DEF Enable_all, InterruptsInv, Stack, InProgram
  <2>5. QED
    BY <1>4, <2>3, <2>4 DEF Enable_all, InterruptsInv, TablesAgree, SectionKept, InProgram
<1>5. CASE Irq_handler
  <2>1. Stack(running, TRUE, mask) /\ sections = <<>>
    BY <1>5 DEF Irq_handler, InterruptsInv, SectionsNest, SectionKept, InProgram
  <2>2. /\ Stack(running', FALSE, mask) /\ running' # <<>>
        /\ \A n \in DOMAIN running' : running'[n].line \in table
    BY <1>5, <2>1, HandlerBegins DEF Irq_handler, InterruptsInv, TablesAgree
  <2>3. QED
    BY <1>5, <2>1, <2>2
    DEF Irq_handler, InterruptsInv, TablesAgree, SectionsNest, SectionKept, InProgram
<1>6. CASE HandlerDone
  <2> DEFINE rest == SubSeq(running, 1, Len(running) - 1)
             left == requests \ {Current.line}
  <2>1. Stack(running, FALSE, mask) /\ ~status /\ running # <<>> /\ sections = <<>>
    BY <1>6 DEF HandlerDone, InterruptsInv, Stack, Current, TopOf, SectionKept
  <2>2. Stack(rest, TRUE, mask)
    BY <2>1, Pops
  <2>3. \A n \in DOMAIN rest : rest[n].line \in table
    <3>1. DOMAIN rest \subseteq DOMAIN running /\ \A n \in DOMAIN rest : rest[n] = running[n]
      BY <2>1, Popped, LenProperties DEF Stack
    <3>2. QED  BY <3>1 DEF InterruptsInv, TablesAgree
  <2>4. CASE Pending(left) # {}
    <3>1. running' = Append(rest, Handler(FirstOf(Pending(left)))) /\ UNCHANGED status
      BY <1>6, <2>4 DEF HandlerDone
    <3>2. left \in SUBSET Line
      BY DEF InterruptsInv
    <3> HIDE DEF rest, left
    <3>3. /\ Stack(running', FALSE, mask) /\ running' # <<>>
          /\ \A n \in DOMAIN running' : running'[n].line \in table
      BY <2>1, <2>2, <2>3, <2>4, <3>1, <3>2, HandlerBegins
    <3>4. QED
      BY <1>6, <2>1, <3>1, <3>2, <3>3
      DEF HandlerDone, left, InterruptsInv, TablesAgree, SectionsNest, SectionKept, InProgram
  <2>5. CASE Pending(left) = {}
    <3>1. running' = rest /\ status' = TRUE
      BY <1>6, <2>5 DEF HandlerDone
    <3>2. QED
      BY <1>6, <2>1, <2>2, <2>3, <3>1
      DEF HandlerDone, InterruptsInv, TablesAgree, SectionsNest, SectionKept, InProgram
  <2>6. QED  BY <2>4, <2>5
<1>7. CASE Irq_interruptible
  <2> DEFINE h == [Current EXCEPT !.open = TRUE, !.old = mask]
  <2>1. /\ running # <<>> /\ ~Current.open /\ running' = [running EXCEPT ![Len(running)] = h]
        /\ mask' = Higher(Current.line) /\ ienable' = active \cap mask' /\ status' = TRUE
        /\ UNCHANGED <<table, active, requests, sections>>
    BY <1>7 DEF Irq_interruptible, SetCurrent
  <2>2. Current = TopOf(running) /\ Current \in Handlers /\ ~status /\ mask = Below(running, Len(running))
    BY <2>1, Popped DEF Current, TopOf, InterruptsInv, Stack
  <2>3. h \in Handlers /\ h.line = Current.line /\ h.open /\ h.old = mask
    BY <2>2 DEF Handlers, InterruptsInv
  <2> HIDE DEF h
  <2>4. Stack(running', TRUE, mask')
    <3>1. Stack(running, FALSE, mask)  BY <2>2 DEF InterruptsInv
    <3>2. Stack([running EXCEPT ![Len(running)] = h], ~FALSE,
                IF h.open THEN Higher(h.line) ELSE Below(running, Len(running)))
      BY <2>1, <2>2, <2>3, <3>1, TopChanges
    <3>3. QED  BY <2>1, <2>3, <3>2
  <2>5. running' # <<>> /\ \A n \in DOMAIN running' : running'[n].line \in table
    <3>1. /\ DOMAIN running' = DOMAIN running
          /\ \A n \in DOMAIN running : running'[n].line = running[n].line
      BY <2>1, <2>2, <2>3 DEF TopOf
    <3>2. QED  BY <2>1, <3>1 DEF InterruptsInv, TablesAgree
  <2>6. QED
    BY <2>1, <2>2, <2>4, <2>5, LinesAreNumbers
    DEF Handlers, InterruptsInv, TablesAgree, SectionsNest, SectionKept, InProgram
<1>8. CASE Irq_non_interruptible
  <2> DEFINE h == [Current EXCEPT !.open = FALSE]
  <2>1. /\ running # <<>> /\ Current.open /\ running' = [running EXCEPT ![Len(running)] = h]
        /\ mask' = Current.old /\ ienable' = active \cap mask' /\ status' = FALSE
        /\ UNCHANGED <<table, active, requests, sections>>
    BY <1>8 DEF Irq_non_interruptible, SetCurrent
  <2>2. /\ Current = TopOf(running) /\ Current \in Handlers /\ status
        /\ Current.old = Below(running, Len(running))
    BY <2>1, Popped, LenProperties DEF Current, TopOf, InterruptsInv, Stack
  <2>3. h \in Handlers /\ h.line = Current.line /\ ~h.open
    BY <2>2 DEF Handlers
  <2> HIDE DEF h
  <2>4. Stack(running', FALSE, mask')
    <3>1. Stack(running, TRUE, mask)  BY <2>2 DEF InterruptsInv
    <3>2. Stack([running EXCEPT ![Len(running)] = h], ~TRUE,
                IF h.open THEN Higher(h.line) ELSE Below(running, Len(running)))
      BY <2>1, <2>2, <2>3, <3>1, TopChanges
    <3>3. QED  BY <2>1, <2>2, <2>3, <3>2
  <2>5. running' # <<>> /\ \A n \in DOMAIN running' : running'[n].line \in table
    <3>1. /\ DOMAIN running' = DOMAIN running
          /\ \A n \in DOMAIN running : running'[n].line = running[n].line
      BY <2>1, <2>2, <2>3 DEF TopOf
    <3>2. QED  BY <2>1, <3>1 DEF InterruptsInv, TablesAgree
  <2>6. QED
    BY <2>1, <2>2, <2>4, <2>5
    DEF Handlers, InterruptsInv, TablesAgree, SectionsNest, SectionKept, InProgram
<1>9. CASE UNCHANGED interrupts
  BY <1>9 DEF interrupts, controller, InterruptsInv, TablesAgree, SectionsNest, SectionKept, InProgram
<1>10. QED
  BY <1>1, <1>2, <1>3, <1>4, <1>5, <1>6, <1>7, <1>8, <1>9 DEF InterruptsNext

\* For any number of lines and of nested sections, however registration,
\* sections and handlers that open themselves interleave, handlers run by
\* priority, for lines that are enabled, and outside critical sections.
THEOREM SpecInterruptsSound == InterruptsSpec => []InterruptsSound
<1>1. InterruptsInv => InterruptsSound
  <2> SUFFICES ASSUME InterruptsInv PROVE InterruptsSound
    OBVIOUS
  <2>1. PriorityKept
    BY DEF InterruptsInv, Stack, SectionsNest, InProgram, PriorityKept
  <2>2. QED  BY <2>1 DEF InterruptsInv, InterruptsSound
<1>2. QED
  BY <1>1, InterruptsStart, InterruptsStep, PTL DEF InterruptsSpec

-----------------------------------------------------------------------------
(* Start and end of the program                                            *)
(*                                                                         *)
(* For every number of constructors and every layout of the sections: the  *)
(* copy of .rwdata reads an image nothing has written.                     *)

LEMMA MemoryLayout ==
  /\ Ram_rwdata_start = 0 /\ Data = 0..(DataWords - 1)
  /\ Flash_rwdata_start = DataWords /\ Bss_start = 2 * DataWords
  /\ Bss_end = 2 * DataWords + BssWords
  /\ \A n \in Data : n \in Address /\ DataWords + n \in Address
  /\ Bss \subseteq Address
  /\ \A a \in Bss \cup Data, n \in Data : DataWords + n # a
  /\ Bss \cap Data = {}
BY ProcessAssumption
DEF Ram_rwdata_start, Flash_rwdata_start, Bss_start, Bss_end, Data, Bss, Address

LEMMA CalledNext ==
  ASSUME NEW what \in {"ctor", "dtor"}, NEW k \in 1..Ctors
  PROVE  /\ Called(what, k) \in Seq(CallsOf)
         /\ Append(Called(what, k), <<what, k>>) = Called(what, k - 1)
<1>1. ASSUME NEW j \in 0..Ctors
      PROVE  Called(what, j) \in Seq(CallsOf) /\ Len(Called(what, j)) = Ctors - j
  <2> DEFINE m == Ctors - j
  <2>1. m \in Nat  BY ProcessAssumption
  <2>2. \A n \in 1..m : <<what, Ctors + 1 - n>> \in CallsOf
    BY ProcessAssumption DEF CallsOf
  <2> HIDE DEF m
  <2>3. [n \in 1..m |-> <<what, Ctors + 1 - n>>] \in Seq(CallsOf)
    BY <2>1, <2>2
  <2>4. Len([n \in 1..m |-> <<what, Ctors + 1 - n>>]) = m
    BY <2>1
  <2>5. QED  BY <2>3, <2>4 DEF Called, m
<1> DEFINE s == Called(what, k)  t == Called(what, k - 1)  m == Ctors - k
<1>2. m \in Nat /\ k - 1 \in 0..Ctors /\ k \in 0..Ctors  BY ProcessAssumption
<1>3. s \in Seq(CallsOf) /\ Len(s) = m /\ \A n \in 1..m : s[n] = <<what, Ctors + 1 - n>>
  BY <1>1, <1>2 DEF Called
<1>4. t \in Seq(CallsOf) /\ Len(t) = m + 1
  <2>1. Ctors - (k - 1) = m + 1  BY ProcessAssumption
  <2>2. t \in Seq(CallsOf) /\ Len(t) = Ctors - (k - 1)  BY <1>1, <1>2
  <2>3. QED  BY <2>1, <2>2, Zenon
<1>5. \A n \in 1..(m + 1) : t[n] = <<what, Ctors + 1 - n>>
  BY <1>2, ProcessAssumption DEF Called
<1>6. <<what, k>> \in CallsOf /\ Ctors + 1 - (m + 1) = k
  BY ProcessAssumption DEF CallsOf
<1> HIDE DEF s, t, m
<1> DEFINE e == <<what, k>>  u == Append(s, e)
<1> HIDE DEF e
<1>7. /\ u \in Seq(CallsOf) /\ Len(u) = m + 1
      /\ \A n \in 1..m : u[n] = s[n]
      /\ u[m + 1] = e
  <2>1. e \in CallsOf  BY <1>6 DEF e
  <2>2. u \in Seq(CallsOf) /\ Len(u) = Len(s) + 1
    BY <1>3, <2>1, AppendProperties, Zenon
  <2>3. \A n \in 1..Len(s) : u[n] = s[n]
    BY <1>3, <2>1, SMT
  <2>4. u[Len(s) + 1] = e
    BY <1>3, <2>1, AppendProperties, Zenon
  <2>5. QED  BY <1>3, <2>2, <2>3, <2>4, Zenon
<1> HIDE DEF u
<1>8. \A n \in 1..(m + 1) : u[n] = t[n]
  <2>1. t[m + 1] = e  BY <1>2, <1>5, <1>6 DEF e
  <2>2. \A n \in 1..m : n \in 1..(m + 1)  BY <1>2
  <2>5. \A n \in 1..m : u[n] = t[n]
    BY <1>3, <1>5, <1>7, <2>2, Zenon
  <2>3. \A n \in 1..(m + 1) : n \in 1..m \/ n = m + 1  BY <1>2
  <2>4. QED  BY <1>7, <2>1, <2>5, <2>3, Zenon
<1>9. u = t
  BY <1>4, <1>7, <1>8, SeqEqual, Zenon
<1>10. QED  BY <1>3, <1>9, Zenon DEF s, t, u, e

LEMMA CalledSeq ==
  ASSUME NEW what \in {"ctor", "dtor"}, NEW j \in 0..Ctors
  PROVE  Called(what, j) \in Seq(CallsOf)
<1> DEFINE m == Ctors - j
<1>1. m \in Nat  BY ProcessAssumption
<1>2. \A n \in 1..m : <<what, Ctors + 1 - n>> \in CallsOf
  BY ProcessAssumption DEF CallsOf
<1> HIDE DEF m
<1>3. [n \in 1..m |-> <<what, Ctors + 1 - n>>] \in Seq(CallsOf)
  BY <1>1, <1>2
<1>4. QED  BY <1>3 DEF Called, m

LEMMA DtorCalled ==
  ASSUME NEW k \in 1..Ctors
  PROVE  Append(Called("ctor", 0) \o Called("dtor", k), <<"dtor", k>>)
           = Called("ctor", 0) \o Called("dtor", k - 1)
<1>1. \A s, t \in Seq(CallsOf), e \in CallsOf : Append(s \o t, e) = s \o Append(t, e)
  OBVIOUS
<1>2. Called("ctor", 0) \in Seq(CallsOf)  BY CalledSeq, ProcessAssumption
<1>3. <<"dtor", k>> \in CallsOf  BY DEF CallsOf
<1>4. QED  BY <1>1, <1>2, <1>3, CalledNext, Zenon

LEMMA NoneCalled == \A what : Called(what, Ctors) = <<>>
BY ProcessAssumption DEF Called

LEMMA ProcessStart == ProcessInit => ProcessInv
<1> SUFFICES ASSUME ProcessInit PROVE ProcessInv
  OBVIOUS
<1>1. ImageKept
  <2>1. \A n \in Data : (Flash_rwdata_start + n) - Flash_rwdata_start = n
    BY ProcessAssumption DEF Data, Flash_rwdata_start, Ram_rwdata_start
  <2>2. \A n \in Data : /\ Flash_rwdata_start + n \in Address
                       /\ Flash_rwdata_start + n \in Flash_rwdata_start..(Flash_rwdata_start + DataWords - 1)
    BY MemoryLayout, ProcessAssumption
  <2>3. \A n \in Data : ram[Flash_rwdata_start + n] = Initial(n)
    <3>1. \A a \in Address :
             a \in Flash_rwdata_start..(Flash_rwdata_start + DataWords - 1)
               => ram[a] = Initial(a - Flash_rwdata_start)
      BY Zenon DEF ProcessInit
    <3>2. QED  BY <2>1, <2>2, <3>1, Zenon
  <2>4. \A a \in Address : a \in Flash_rwdata_start..(Flash_rwdata_start + DataWords - 1)
           => a - Flash_rwdata_start \in Data
    BY MemoryLayout, ProcessAssumption
  <2>5. ram \in [Address -> {<<"zero">>, <<"written">>} \cup {Initial(n) : n \in Data}]
    BY <2>4, Zenon DEF ProcessInit
  <2>6. QED  BY <2>3, <2>5 DEF ImageKept
<1>2. step = "bss" /\ next_ = Bss_start /\ log = <<>>  BY DEF ProcessInit
<1>3. Bss_start \in Bss_start..Bss_end /\ \A a \in Bss_start..(Bss_start - 1) : FALSE
  BY MemoryLayout, ProcessAssumption
<1>4. LoopAt  BY <1>2, <1>3 DEF LoopAt
<1>5. StartsFresh /\ RunsOnce  BY <1>2 DEF StartsFresh, RunsOnce
<1>6. QED  BY <1>1, <1>2, <1>4, <1>5 DEF ProcessInv

LEMMA ProcessStep == ProcessInv /\ [ProcessNext]_process => ProcessInv'
<1> SUFFICES ASSUME ProcessInv, [ProcessNext]_process PROVE ProcessInv'
  OBVIOUS
<1> USE ProcessAssumption
<1>1. CASE DebugReset
  BY <1>1, MemoryLayout DEF DebugReset, ProcessInv, ImageKept, LoopAt, StartsFresh, RunsOnce
<1>2. CASE ClearBss
  <2>1. next_ \in Bss /\ \A n \in Data : Flash_rwdata_start + n # next_
    BY <1>2, MemoryLayout DEF ClearBss, ProcessInv, LoopAt, Bss
  <2>2. ImageKept'
    BY <1>2, <2>1, MemoryLayout DEF ClearBss, ProcessInv, ImageKept
  <2>3. LoopAt'
    BY <1>2, <2>1, MemoryLayout DEF ClearBss, ProcessInv, ImageKept, LoopAt
  <2>4. QED
    BY <1>2, <2>2, <2>3 DEF ClearBss, ProcessInv, StartsFresh, RunsOnce
<1>3. CASE BssCleared
  BY <1>3, MemoryLayout DEF BssCleared, ProcessInv, ImageKept, LoopAt, StartsFresh, RunsOnce, Bss
<1>4. CASE LoadWord
  <2>1. /\ next_ \in Data /\ ram' = [ram EXCEPT ![next_] = Initial(next_)]
        /\ next_' = next_ + 1 /\ UNCHANGED <<step, log, errno>> /\ step = "load"
    <3>1. step = "load" /\ next_ < DataWords /\ next_ \in 0..DataWords
      BY <1>4 DEF LoadWord, ProcessInv, LoopAt
    <3>2. next_ \in Data /\ Ram_rwdata_start + next_ = next_
      BY <3>1, MemoryLayout
    <3>3. ram[Flash_rwdata_start + next_] = Initial(next_)
      BY <3>2 DEF ProcessInv, ImageKept
    <3>4. QED  BY <1>4, <3>1, <3>2, <3>3 DEF LoadWord
  <2>2. ImageKept'
    BY <2>1, MemoryLayout DEF ProcessInv, ImageKept
  <2>3. LoopAt'
    BY <2>1, MemoryLayout DEF ProcessInv, ImageKept, LoopAt
  <2>4. QED
    BY <2>1, <2>2, <2>3 DEF ProcessInv, StartsFresh, RunsOnce
<1>5. CASE Loaded
  <2>1. /\ step = "load" /\ next_ = DataWords /\ step' = "ctors" /\ next_' = Ctors
        /\ UNCHANGED <<ram, log>>
    BY <1>5, MemoryLayout DEF Loaded, ProcessInv, LoopAt
  <2>2. StartsFresh'
    BY <2>1, MemoryLayout DEF ProcessInv, LoopAt, StartsFresh
  <2>3. RunsOnce'
    BY <2>1, NoneCalled DEF ProcessInv, RunsOnce, Called
  <2>4. QED
    BY <2>1, <2>2, <2>3 DEF ProcessInv, ImageKept, LoopAt
<1>6. CASE Ctor
  <2>1. next_ \in 0..Ctors /\ step = "ctors" /\ log = Called("ctor", next_)
    BY <1>6 DEF Ctor, ProcessInv, LoopAt, RunsOnce, Called
  <2>2. CASE next_ >= 1
    <3>1. next_ \in 1..Ctors /\ next_' = next_ - 1 /\ UNCHANGED <<step, ram>>
          /\ log' = Append(log, <<"ctor", next_>>)
      BY <1>6, <2>1, <2>2 DEF Ctor
    <3>2. log' = Called("ctor", next_')
      BY <2>1, <3>1, CalledNext
    <3>3. RunsOnce'
      BY <2>1, <3>1, <3>2 DEF RunsOnce, Called
    <3>4. QED
      BY <2>1, <3>1, <3>3 DEF ProcessInv, ImageKept, LoopAt, StartsFresh
  <2>3. CASE ~(next_ >= 1)
    <3>1. next_ = 0 /\ next_' = 0 /\ step' = "main" /\ UNCHANGED <<ram, log>>
      BY <1>6, <2>1, <2>3 DEF Ctor
    <3>2. RunsOnce'
      BY <2>1, <3>1 DEF RunsOnce, Called
    <3>3. QED
      BY <3>1, <3>2 DEF ProcessInv, ImageKept, LoopAt, StartsFresh
  <2>4. QED  BY <2>2, <2>3
<1>7. ASSUME NEW a \in Data \cup Bss, Writes(a) PROVE ProcessInv'
  <2>1. step = "main" /\ step' = "main" /\ UNCHANGED <<next_, log>>
        /\ ram' = [ram EXCEPT ![a] = <<"written">>]
    BY <1>7 DEF Writes
  <2>2. ImageKept'
    BY <2>1, MemoryLayout DEF ProcessInv, ImageKept
  <2>3. QED
    BY <2>1, <2>2 DEF ProcessInv, LoopAt, StartsFresh, RunsOnce
<1>8. CASE Exits
  <2>1. step = "main" /\ step' = "dtors" /\ next_' = Ctors /\ UNCHANGED <<ram, log>>
    BY <1>8 DEF Exits
  <2>2. log' = Called("ctor", 0) \o Called("dtor", next_')
    <3>1. Called("ctor", 0) \in Seq(CallsOf)  BY CalledSeq
    <3>2. log = Called("ctor", 0)  BY <2>1 DEF ProcessInv, RunsOnce, Called
    <3>3. QED  BY <2>1, <3>1, <3>2, NoneCalled, ConcatEmptySeq
  <2>3. RunsOnce'
    BY <2>1, <2>2 DEF RunsOnce, Called
  <2>4. QED
    BY <2>1, <2>3 DEF ProcessInv, ImageKept, LoopAt, StartsFresh
<1>9. CASE Dtor
  <2>1. next_ \in 0..Ctors /\ step = "dtors"
        /\ log = Called("ctor", 0) \o Called("dtor", next_)
    BY <1>9 DEF Dtor, ProcessInv, LoopAt, RunsOnce, Called
  <2>2. CASE next_ >= 1
    <3>1. next_ \in 1..Ctors /\ next_' = next_ - 1 /\ UNCHANGED <<step, ram>>
          /\ log' = Append(log, <<"dtor", next_>>)
      BY <1>9, <2>1, <2>2 DEF Dtor
    <3>2. log' = Called("ctor", 0) \o Called("dtor", next_')
      BY <2>1, <3>1, DtorCalled
    <3>3. RunsOnce'
      BY <2>1, <3>1, <3>2 DEF RunsOnce, Called
    <3>4. QED
      BY <2>1, <3>1, <3>3 DEF ProcessInv, ImageKept, LoopAt, StartsFresh
  <2>3. CASE ~(next_ >= 1)
    <3>1. next_ = 0 /\ next_' = 0 /\ step' = "spin" /\ UNCHANGED <<ram, log>>
      BY <1>9, <2>1, <2>3 DEF Dtor
    <3>2. RunsOnce'
      BY <2>1, <3>1 DEF RunsOnce, Called
    <3>3. QED
      BY <3>1, <3>2 DEF ProcessInv, ImageKept, LoopAt, StartsFresh
  <2>4. QED  BY <2>2, <2>3
<1>10. ASSUME NEW e, Fails(e) PROVE ProcessInv'
  BY <1>10 DEF Fails, ProcessInv, ImageKept, LoopAt, StartsFresh, RunsOnce
<1>11. CASE UNCHANGED process
  BY <1>11 DEF process, ProcessInv, ImageKept, LoopAt, StartsFresh, RunsOnce
<1>12. QED
  BY <1>1, <1>2, <1>3, <1>4, <1>5, <1>6, <1>7, <1>8, <1>9, <1>10, <1>11
  DEF ProcessNext, Fork, Execve, Link_, Unlink, Rename, Wait, Dma_txchan_open, Dma_rxchan_open

\* Whenever a debugger resets it, the constructors and main find the variables
\* with their initial values; every constructor and destructor runs once, each
\* list from its end.
THEOREM SpecStartsFresh == ProcessSpec => [](StartsFresh /\ RunsOnce)
<1>1. ProcessInv => StartsFresh /\ RunsOnce  BY DEF ProcessInv
<1>2. QED  BY <1>1, ProcessStart, ProcessStep, PTL DEF ProcessSpec

-----------------------------------------------------------------------------
(* Exception entry                                                         *)
(*                                                                         *)
(* For every program and every length of the handlers.  Only the program   *)
(* has its interrupts on, so the interrupt routine runs directly above it  *)
(* or not at all, and each frame says where its routine goes on: at the    *)
(* instruction an interrupt stopped, or behind one that was handled.       *)

LEMMA Instructions ==
  /\ \A i \in Routine \X Int : /\ After(i) \in Routine \X Int /\ Before(i) \in Routine \X Int
                               /\ After(i)[1] = i[1] /\ Before(After(i)) = i
  /\ \A i \in Instruction : /\ i \in Routine \X Int
                            /\ After(i) \in Instruction /\ i[1] \in Routine
BY DEF Instruction, Routine, After, Before

\* A frame is put on top.
LEMMA OrderedPush ==
  ASSUME NEW k \in Nat, NEW s, NEW t, Ordered(s, k),
         \A n \in 1..k : t[n] = s[n],
         t[k + 1] \in AnyFrame,
         t[k + 1].from[1] = "program" <=> k = 0,
         t[k + 1].pie <=> k = 0,
         t[k + 1].from[1] = "isr" => k = 1,
         k > 0 => Handles(s[k], t[k + 1].from[1])
  PROVE  Ordered(t, k + 1)
BY DEF Ordered

\* The frame on top changes in nothing the others rely on.
LEMMA OrderedTop ==
  ASSUME NEW k \in Nat \ {0}, NEW s, NEW t, Ordered(s, k),
         \A n \in 1..(k - 1) : t[n] = s[n],
         t[k] \in AnyFrame, t[k].from = s[k].from, t[k].pie = s[k].pie
  PROVE  Ordered(t, k)
BY DEF Ordered

\* The frame on top leaves, the one below is marked.
LEMMA OrderedPop ==
  ASSUME NEW k \in Nat \ {0}, NEW s, NEW t, Ordered(s, k),
         \A n \in 1..(k - 1) : t[n] = IF n = k - 1 THEN [s[n] EXCEPT !.nested = TRUE] ELSE s[n]
  PROVE  Ordered(t, k - 1)
<1>1. \A n \in 1..(k - 1) : /\ t[n] \in AnyFrame
                            /\ t[n].from = s[n].from /\ t[n].pie = s[n].pie
                            /\ t[n].ret = s[n].ret /\ t[n].skip = s[n].skip
                            /\ t[n].raised = s[n].raised
  <2>1. SUFFICES ASSUME NEW n \in 1..(k - 1), NEW f \in AnyFrame, f = s[n]
                 PROVE  /\ t[n] \in AnyFrame
                        /\ t[n].from = f.from /\ t[n].pie = f.pie
                        /\ t[n].ret = f.ret /\ t[n].skip = f.skip
                        /\ t[n].raised = f.raised
    <3>1. \A n \in 1..(k - 1) : s[n] \in AnyFrame  BY DEF Ordered
    <3>2. QED  BY <3>1
  <2>2. t[n] = [f EXCEPT !.nested = TRUE] \/ t[n] = f  BY <2>1, Zenon
  <2>3. QED  BY <2>1, <2>2 DEF AnyFrame
<1>2. QED
  BY <1>1 DEF Ordered, Handles

LEMMA ExceptionsStart == ExceptionsInit => ExceptionsInv
<1> SUFFICES ASSUME ExceptionsInit PROVE ExceptionsInv
  OBVIOUS
<1>1. frames = <<>> /\ Height = 0 /\ frames \in Seq(AnyFrame)
  BY DEF ExceptionsInit, Height
<1>2. at = <<"program", 0>> /\ ea = at /\ at \in Instruction /\ at[1] = "program"
      /\ pie = TRUE /\ estatus = FALSE /\ pending = FALSE /\ state = "runs"
  BY DEF ExceptionsInit, Instruction, Routine
<1>3. Ordered(frames, Height)  BY <1>1 DEF Ordered
<1>4. Running  BY <1>1, <1>2 DEF Running
<1>5. QED
  BY <1>1, <1>2, <1>3, <1>4, Instructions DEF ExceptionsInv

LEMMA FramesKept ==
  UNCHANGED frames => Height' = Height /\ Top' = Top /\ (Ordered(frames, Height) => Ordered(frames, Height)')
BY DEF Height, Top, Ordered, Handles, AnyFrame, Instruction, Routine, After

LEMMA TopSet ==
  ASSUME ExceptionsInv, Height > 0, NEW g \in AnyFrame, SetTop(g), g.from = Top.from, g.pie = Top.pie
  PROVE  /\ frames' \in Seq(AnyFrame) /\ Height' = Height /\ Top' = g
         /\ Ordered(frames, Height)'
<1>1. frames \in Seq(AnyFrame) /\ Height \in Nat \ {0} /\ DOMAIN frames = 1..Height
  BY LenProperties DEF ExceptionsInv, Height
<1>2. frames' = [frames EXCEPT ![Height] = g]  BY DEF SetTop, Height
<1>3. /\ frames' \in Seq(AnyFrame) /\ Len(frames') = Len(frames)
      /\ \A n \in 1..Height : frames'[n] = IF n = Height THEN g ELSE frames[n]
  <2>1. Height = Len(frames) /\ Height \in 1..Len(frames)  BY <1>1 DEF Height
  <2>2. QED  BY <1>1, <1>2, <2>1, ExceptSeq
<1>4. Height' = Height  BY <1>3 DEF Height
<1>5. Top = frames[Height] /\ Top' = frames'[Height']  BY DEF Top, Height
<1>6. Top' = g  BY <1>1, <1>3, <1>4, <1>5
<1>7. Ordered(frames', Height)
  <2>1. \A n \in 1..(Height - 1) : frames'[n] = frames[n]  BY <1>1, <1>3
  <2>2. frames'[Height] = g  BY <1>1, <1>3
  <2>3. Ordered(frames, Height)  BY DEF ExceptionsInv
  <2>4. QED  BY <1>1, <1>5, <2>1, <2>2, <2>3, OrderedTop
<1>8. QED
  BY <1>3, <1>4, <1>6, <1>7 DEF Ordered, Handles, After

LEMMA Entered ==
  ASSUME ExceptionsInv, state = "runs", NEW irq \in BOOLEAN, Enter(irq), irq => pie /\ pending
  PROVE  ExceptionsInv'
<1> DEFINE f == Frame(at, irq)
<1>1. frames \in Seq(AnyFrame) /\ Height \in Nat /\ Running /\ Ordered(frames, Height)
      /\ at \in Instruction /\ at[1] \in Routine
  BY LenProperties, Instructions DEF ExceptionsInv, Height
<1>2. /\ f \in AnyFrame /\ f.ret = at /\ f.from = at /\ (f.pie <=> pie) /\ ~f.skip /\ ~f.nested
      /\ (f.raised <=> ~irq)
  BY Instructions DEF ExceptionsInv, Frame, AnyFrame
<1>3. frames' = Append(frames, f)  BY DEF Enter
<1> HIDE DEF f
<1>4. /\ frames' \in Seq(AnyFrame) /\ Len(frames') = Len(frames) + 1
      /\ \A n \in 1..Len(frames) : frames'[n] = frames[n]
      /\ frames'[Len(frames) + 1] = f
  BY <1>1, <1>2, <1>3, AppendProperties
<1>5. /\ Height' = Height + 1 /\ \A n \in 1..Height : frames'[n] = frames[n]
      /\ frames'[Height + 1] = f
  BY <1>4, Zenon DEF Height
<1>6. Top = frames[Height] /\ Top' = frames'[Height']  BY DEF Top, Height
<1>7. Top' = f  BY <1>5, <1>6
<1>8. Ordered(frames', Height + 1)
  <2>1. /\ f.from[1] = "program" <=> Height = 0
        /\ f.pie <=> Height = 0
        /\ f.from[1] = "isr" => Height = 1
        /\ Height > 0 => Handles(frames[Height], f.from[1])
    BY <1>1, <1>2, <1>6 DEF Running
  <2>2. QED  BY <1>1, <1>2, <1>5, <2>1, OrderedPush
<1>9. Ordered(frames, Height)'
  BY <1>5, <1>8 DEF Ordered, Handles, After
<1>10. Testing'
  <2>1. /\ Height' > 0 /\ ~pie' /\ ea' = After(Top'.from) /\ (estatus' <=> Top'.pie)
        /\ Top'.ret = Top'.from /\ ~Top'.skip /\ ~Top'.nested
        /\ (~Top'.raised => Top'.pie /\ pending')
    BY <1>1, <1>2, <1>5, <1>7 DEF Enter
  <2>2. QED  BY <2>1 DEF Testing, After
<1>11. QED
  BY <1>1, <1>4, <1>9, <1>10, Instructions DEF ExceptionsInv, Enter

LEMMA ExceptionsStep == ExceptionsInv /\ [ExceptionsNext]_exceptions => ExceptionsInv'
<1> SUFFICES ASSUME ExceptionsInv, [ExceptionsNext]_exceptions PROVE ExceptionsInv'
  OBVIOUS
<1>0. /\ frames \in Seq(AnyFrame) /\ Height \in Nat /\ DOMAIN frames = 1..Height
      /\ Ordered(frames, Height) /\ Top = frames[Height] /\ (Height > 0 => Top \in AnyFrame)
  BY LenProperties DEF ExceptionsInv, Height, Top, Ordered
<1>1. CASE Execute
  <2>1. at' \in Instruction /\ at'[1] = at[1]
    BY <1>1, Instructions DEF Execute, ExceptionsInv, Instruction, Routine
  <2>2. Running'
    <3>1. Running /\ Height' = Height /\ Top' = Top /\ UNCHANGED <<pie, ea>>
      BY <1>1, FramesKept DEF Execute, registers, ExceptionsInv
    <3>2. QED  BY <2>1, <3>1 DEF Running, Handles, After
  <2>3. QED
    BY <1>1, <2>1, <2>2, FramesKept DEF Execute, registers, ExceptionsInv
<1>2. CASE Request
  BY <1>2, FramesKept
  DEF Request, control, registers, ExceptionsInv, Running, Testing, Leaving, StaleEa, Handles, After
<1>3. CASE Interrupt
  BY <1>3, Entered DEF Interrupt
<1>4. CASE Raise
  BY <1>4, Entered DEF Raise
<1>5. CASE GoToIsr
  <2>1. /\ Testing /\ at' = <<"isr", 0>> /\ at' \in Instruction /\ state' = "runs" /\ estatus
        /\ UNCHANGED <<pie, frames, ea, estatus, pending>>
    BY <1>5 DEF GoToIsr, IsInterrupt, ExceptionsInv, registers, Instruction, Routine
  <2>2. Height = 1 /\ ~pie /\ ~Top.skip /\ Top.ret = Top.from
    BY <1>0, <2>1 DEF Testing, Ordered
  <2>3. Running'
    BY <2>1, <2>2, FramesKept DEF Running, Handles, After
  <2>4. QED
    BY <2>1, <2>3, FramesKept DEF ExceptionsInv
<1>6. CASE GoToHandler
  <2>1. Testing /\ ~IsInterrupt  BY <1>6 DEF GoToHandler, ExceptionsInv
  <2> DEFINE g == [Top EXCEPT !.ret = ea]
  <2>2. g \in AnyFrame /\ g.from = Top.from /\ g.pie = Top.pie /\ g.ret = After(Top.from)
        /\ g.raised /\ ~g.skip /\ ~g.nested
    BY <1>0, <2>1 DEF Testing, IsInterrupt, AnyFrame, ExceptionsInv
  <2>3. SetTop(g) /\ Height > 0  BY <1>6, <2>1 DEF GoToHandler, Testing
  <2> HIDE DEF g
  <2>4. frames' \in Seq(AnyFrame) /\ Height' = Height /\ Top' = g /\ Ordered(frames, Height)'
    BY <2>2, <2>3, TopSet
  <2>5. CASE handled
    <3>1. at' = <<"handler", 0>> /\ at' \in Instruction /\ state' = "runs"
          /\ UNCHANGED <<pie, ea, estatus, pending>>
      BY <1>6, <2>5 DEF GoToHandler, registers, Instruction, Routine
    <3>2. Running'
      BY <1>0, <2>1, <2>2, <2>4, <3>1 DEF Running, Testing, Handles, After
    <3>3. QED  BY <2>4, <3>1, <3>2 DEF ExceptionsInv
  <2>6. CASE ~handled
    BY <1>6, <2>4, <2>6 DEF GoToHandler, registers, ExceptionsInv
  <2>7. QED  BY <2>5, <2>6
<1>7. CASE IsrReturns
  <2>1. Running /\ at[1] = "isr" /\ state' = "exit" /\ pending' = FALSE
        /\ UNCHANGED <<at, pie, frames, ea, estatus>>
    BY <1>7 DEF IsrReturns, ExceptionsInv, registers
  <2>2. Height = 1 /\ Handles(Top, "isr")  BY <2>1 DEF Running
  <2>3. Leaving'
    BY <2>1, <2>2, FramesKept DEF Leaving, Handles
  <2>4. QED  BY <2>1, <2>3, FramesKept DEF ExceptionsInv
<1>8. ASSUME NEW skip \in BOOLEAN, HandlerReturns(skip) PROVE ExceptionsInv'
  <2>1. Running /\ at[1] = "handler" /\ state' = "exit" /\ Verdict(skip)
        /\ UNCHANGED <<at, pie, ea, estatus, pending>>
    BY <1>8 DEF HandlerReturns, ExceptionsInv, registers
  <2>2. Height > 0 /\ Handles(Top, "handler") /\ (~Top.nested => ea = After(Top.from))
    BY <1>0, <2>1 DEF Running
  <2> DEFINE g == IF skip THEN [Top EXCEPT !.skip = skip]
                          ELSE [Top EXCEPT !.skip = skip, !.ret = Before(ea)]
  <2>3. /\ g \in AnyFrame /\ g.from = Top.from /\ g.pie = Top.pie
        /\ g.raised /\ (g.skip <=> skip) /\ (g.nested <=> Top.nested)
        /\ g.ret = IF skip THEN After(Top.from) ELSE Before(ea)
    BY <1>0, <2>2, Instructions DEF Handles, AnyFrame, ExceptionsInv
  <2>4. SetTop(g)  BY <2>1 DEF Verdict, SetTop
  <2> HIDE DEF g
  <2>5. frames' \in Seq(AnyFrame) /\ Height' = Height /\ Top' = g /\ Ordered(frames, Height)'
    BY <2>2, <2>3, <2>4, TopSet
  <2>6. Top.from \in Routine \X Int /\ Before(After(Top.from)) = Top.from
    BY <1>0, <2>2, Instructions DEF AnyFrame
  <2>7. Leaving'
    BY <1>0, <2>1, <2>2, <2>3, <2>5, <2>6 DEF Leaving, StaleEa, After
  <2>8. QED  BY <2>1, <2>5, <2>7 DEF ExceptionsInv
<1>9. CASE Exit_eret
  <2> DEFINE f == Top
  <2>1. /\ Leaving /\ Height > 0 /\ Top \in AnyFrame /\ state' = "runs" /\ UNCHANGED pending
        /\ at' = Top.ret /\ ea' = Top.ret /\ pie' = Top.pie /\ estatus' = Top.pie
        /\ Top.ret = IF Top.raised /\ Top.skip THEN After(Top.from) ELSE Top.from
    BY <1>0, <1>9 DEF Exit_eret, ExceptionsInv, Leaving
  <2>2. at' \in Instruction /\ at'[1] = Top.from[1] /\ ea' \in Routine \X Int
        /\ pie' \in BOOLEAN /\ estatus' \in BOOLEAN
    BY <2>1, Instructions DEF AnyFrame
  <2>3. frames' = [n \in 1..(Height - 1) |->
                     IF n = Height - 1 THEN [frames[n] EXCEPT !.nested = TRUE] ELSE frames[n]]
    BY <1>9 DEF Exit_eret, Height
  <2>4. \A n \in 1..(Height - 1) :
          frames'[n] = IF n = Height - 1 THEN [frames[n] EXCEPT !.nested = TRUE] ELSE frames[n]
    BY <2>3, Zenon
  <2>5. Height - 1 \in Nat /\ Height \in Nat \ {0}  BY <1>0, <2>1
  <2>8. Ordered(frames', Height - 1)
    BY <1>0, <2>4, <2>5, OrderedPop, Zenon
  <2>13. \A n \in 1..(Height - 1) : frames'[n] \in AnyFrame
    BY <2>8 DEF Ordered
  <2>6. frames' \in Seq(AnyFrame) /\ Len(frames') = Height - 1
    <3> DEFINE k == Height - 1
    <3>1. k \in Nat /\ frames' = [n \in 1..k |-> frames'[n]]
          /\ \A n \in 1..k : frames'[n] \in AnyFrame
      BY <2>3, <2>5, <2>13, Zenon
    <3> HIDE DEF k
    <3>2. frames' \in Seq(AnyFrame) /\ Len(frames') = k
      BY <3>1
    <3>3. QED  BY <3>2, Zenon DEF k
  <2>7. Height' = Height - 1  BY <2>6 DEF Height
  <2>9. Ordered(frames, Height)'
    BY <2>7, <2>8 DEF Ordered, Handles, After
  <2>10. Top' = frames'[Height']  BY DEF Top, Height
  <2>11. Running'
    <3>1. /\ Top.from[1] = "program" <=> Height = 1
          /\ Top.pie <=> Height = 1
          /\ Top.from[1] = "isr" => Height = 2
      BY <1>0, <2>1 DEF Ordered
    <3>2. ASSUME Height > 1
          PROVE  /\ Top'.nested /\ Handles(Top', Top.from[1])
      <4>1. Handles(frames[Height - 1], frames[Height].from[1]) /\ frames[Height - 1] \in AnyFrame
        BY <1>0, <3>2 DEF Ordered
      <4>2. Top' = [frames[Height - 1] EXCEPT !.nested = TRUE]
        BY <1>0, <2>4, <2>7, <2>10, <3>2
      <4>3. QED  BY <1>0, <4>1, <4>2 DEF Handles, AnyFrame
    <3>3. QED
      BY <1>0, <2>1, <2>2, <2>7, <3>1, <3>2 DEF Running, Handles, After
  <2>12. QED
    BY <2>1, <2>2, <2>6, <2>9, <2>11 DEF ExceptionsInv
<1>10. ASSUME NEW b \in BOOLEAN, Register(b) PROVE ExceptionsInv'
  BY <1>10, FramesKept DEF Register, control, registers, ExceptionsInv, Running, Handles, After
<1>11. CASE UNCHANGED exceptions
  BY <1>11, FramesKept
  DEF exceptions, control, registers, ExceptionsInv, Running, Testing, Leaving, StaleEa, Handles, After
<1>12. QED
  BY <1>1, <1>2, <1>3, <1>4, <1>5, <1>6, <1>7, <1>8, <1>9, <1>10, <1>11 DEF ExceptionsNext

\* What an exception interrupts goes on as if nothing had happened.
THEOREM SpecExceptionsTransparent == ExceptionsSpec => []ExceptionsTransparent
<1>1. ASSUME ExceptionsInv PROVE ExceptionsTransparent
  <2>1. Height \in Nat /\ DOMAIN frames = 1..Height /\ Top = frames[Height]
    BY <1>1, LenProperties DEF ExceptionsInv, Height, Top
  <2>2. ReturnsWhereItShould
    BY <1>1 DEF ExceptionsInv, Leaving, ReturnsWhereItShould
  <2>3. HandlerOnlyForRaised
    BY <1>1, <2>1 DEF ExceptionsInv, Running, Handles, HandlerOnlyForRaised
  <2>4. IsrNotReentered
    <3>1. \A n \in DOMAIN frames : frames[n].from[1] # "program" => ~frames[n].pie
      BY <1>1, <2>1 DEF ExceptionsInv, Ordered
    <3>2. at[1] = "isr" /\ state = "runs" => ~ \E n \in DOMAIN frames : frames[n].from[1] = "isr"
      BY <1>1, <2>1 DEF ExceptionsInv, Running, Ordered
    <3>3. Height = 0 => frames = <<>>
      BY <1>1, EmptySeq DEF ExceptionsInv, Height
    <3>4. state = "runs" /\ at[1] = "program" => pie /\ frames = <<>>
      BY <1>1, <3>3 DEF ExceptionsInv, Running
    <3>5. QED  BY <3>1, <3>2, <3>4 DEF IsrNotReentered
  <2>5. QED  BY <2>2, <2>3, <2>4 DEF ExceptionsTransparent
<1>2. QED
  BY <1>1, ExceptionsStart, ExceptionsStep, PTL DEF ExceptionsSpec

-----------------------------------------------------------------------------
(* The board's ports and the reset of the MAX3421E                         *)

LEMMA DigitsOf ==
  ASSUME NEW v \in -127..127
  PROVE  /\ TwoDigits(v) \in 0..255
         /\ TwoDigits(v) = 16 * ((Magnitude(v) \div 10) % 10) + (Magnitude(v) % 10)
<1>1. Magnitude(v) \in 0..127  BY DEF Magnitude
<1>2. \A m \in 0..127 : /\ (m % 100) \div 10 \in 0..9 /\ m % 10 \in 0..9
                        /\ (m % 100) \div 10 = (m \div 10) % 10
  OBVIOUS
<1>3. QED  BY <1>1, <1>2 DEF TwoDigits, Tens, Ones

LEMMA Quotient ==
  ASSUME NEW a \in Nat, NEW b \in Nat \ {0}, NEW q \in Nat, NEW m \in 0..(b - 1), a = b * q + m
  PROVE  a \div b = q /\ a % b = m
OBVIOUS

LEMMA OneMore ==
  ASSUME NEW r \in Nat, NEW u \in Nat \ {0}
  PROVE  /\ ((r % u) + 1) % u = (r + 1) % u
         /\ (r + 1) \div u = IF (r + 1) % u = 0 THEN (r \div u) + 1 ELSE r \div u
<1>1. PICK q \in Nat, m \in 0..(u - 1) : r = u * q + m /\ q = r \div u /\ m = r % u
  OBVIOUS
<1>2. CASE m + 1 < u
  <2>1. r + 1 = u * q + (m + 1) /\ m + 1 \in 0..(u - 1)  BY <1>1, <1>2
  <2>2. (r + 1) \div u = q /\ (r + 1) % u = m + 1  BY <2>1
  <2>3. (m + 1) % u = m + 1  BY <1>2
  <2>4. QED  BY <1>1, <2>2, <2>3
<1>3. CASE m + 1 = u
  <2>1. r + 1 = u * (q + 1) + 0  BY <1>1, <1>3
  <2>2. r + 1 \in Nat /\ q + 1 \in Nat /\ 0 \in 0..(u - 1)  OBVIOUS
  <2>5. (r + 1) \div u = q + 1 /\ (r + 1) % u = 0  BY <2>1, <2>2, Quotient, Zenon
  <2>3. (m + 1) % u = 0  BY <1>3
  <2>4. QED  BY <1>1, <2>3, <2>5
<1>4. QED  BY <1>1, <1>2, <1>3

\* How the loops of a microsecond are rounded.
LEMMA Calibration ==
  /\ LoopsPerUs \in Nat \ {0} /\ IntMax \in Nat /\ IntMax > LoopsPerUs
  /\ CyclesPerLoop * Million \in Nat \ {0} /\ CpuFreq \in Nat
  /\ LoopsPerUs * (CyclesPerLoop * Million) <= CpuFreq
  /\ CpuFreq < LoopsPerUs * (CyclesPerLoop * Million) + CyclesPerLoop * Million
<1> DEFINE p == CyclesPerLoop * Million
<1>1. /\ CpuFreq \in Nat \ {0} /\ CyclesPerLoop \in Nat \ {0} /\ Million \in Nat \ {0}
      /\ p <= CpuFreq /\ IntMax \in Nat /\ IntMax > CpuFreq \div p
  BY BoardAssumption
<1>2. p \in Nat \ {0}  BY <1>1
<1>3. LoopsPerUs = CpuFreq \div p  BY DEF LoopsPerUs
<1> HIDE DEF p
<1>4. /\ CpuFreq \div p \in Nat \ {0} /\ (CpuFreq \div p) * p <= CpuFreq
      /\ CpuFreq < (CpuFreq \div p) * p + p
  BY <1>1, <1>2
<1>5. QED  BY <1>1, <1>2, <1>3, <1>4 DEF p

\* What the last loops come to, where no time is left for them.
Extra(us) ==
  CASE us % Chunk # 0 -> 0
    [] us = 0 -> 1
    [] us > 0 /\ us % Chunk = 0 -> 2 * (IntMax + 1)

\* The chunks waited for, in loops.
LEMMA LoopsAsAsked ==
  ASSUME NEW us \in Nat
  PROVE  /\ Loops(us) \in Nat /\ Loops(us) > 0 /\ Loops(us) >= us * LoopsPerUs
         /\ us \div Chunk \in Nat /\ Extra(us) \in Nat
         /\ Loops(us) <= us * LoopsPerUs + (us \div Chunk) * LoopsPerUs + Extra(us)
<1> DEFINE c == Chunk  big == us \div c  rem == us % c  L == LoopsPerUs  M == IntMax
           left == (us - big * c) * L
<1>1. L \in Nat \ {0} /\ M \in Nat /\ M > L  BY Calibration
<1>2. c = M \div L  BY DEF Chunk
<1> HIDE DEF c, L, M
<1>3. c \in Nat \ {0} /\ c * L <= M /\ M < c * L + L
  BY <1>1, <1>2
<1>4. big \in Nat /\ rem \in 0..(c - 1) /\ us = c * big + rem
  BY <1>3
<1>5. left = rem * L
  BY <1>1, <1>3, <1>4
<1>6. Loops(us) = big * M + (CASE left > 0            -> left
                               [] left = 0 /\ big = 0 -> 1
                               [] left = 0 /\ big > 0 -> 2 * (M + 1))
  BY DEF Loops, c, L, M
<1>e. Extra(us) = CASE rem # 0 -> 0 [] us = 0 -> 1 [] us > 0 /\ rem = 0 -> 2 * (M + 1)
  BY DEF Extra, c, M
<1> HIDE DEF big, rem, left
<1>7. us * L = big * (c * L) + rem * L  BY <1>1, <1>3, <1>4
<1>8. big * (c * L) <= big * M /\ big * M <= big * (c * L) + big * L
  BY <1>1, <1>3, <1>4
<1>9. /\ Loops(us) \in Nat /\ Loops(us) > 0 /\ Loops(us) >= us * L /\ Extra(us) \in Nat
      /\ Loops(us) <= us * L + big * L + Extra(us)
  <2> DEFINE x == big * M  y == big * (c * L)  z == rem * L  u == big * L
  <2>1. /\ x \in Nat /\ y \in Nat /\ z \in Nat /\ u \in Nat
        /\ us * L = y + z /\ y <= x /\ x <= y + u /\ left = z
        /\ (z > 0 <=> rem # 0) /\ u = big * L
    BY <1>1, <1>3, <1>4, <1>5, <1>7, <1>8
  <2>2. Loops(us) = x + (CASE left > 0            -> left
                           [] left = 0 /\ big = 0 -> 1
                           [] left = 0 /\ big > 0 -> 2 * (M + 1))
    BY <1>6, Zenon
  <2>0. us = 0 <=> rem = 0 /\ big = 0
    <3>1. us = 0 => big = 0 /\ rem = 0
      BY <1>3 DEF big, rem
    <3>2. rem = 0 /\ big = 0 => us = 0  BY <1>3, <1>4
    <3>3. QED  BY <3>1, <3>2
  <2> HIDE DEF x, y, z, u
  <2>3. CASE z > 0
    <3>1. Loops(us) = x + z  BY <2>1, <2>2, <2>3
    <3>2. rem # 0  BY <2>1, <2>3, Zenon
    <3>3. Extra(us) = 0  BY <1>e, <2>0, <3>2
    <3>4. QED  BY <1>1, <2>1, <2>3, <3>1, <3>3
  <2>4. CASE z = 0 /\ big = 0
    <3>1. Loops(us) = x + 1  BY <2>1, <2>2, <2>4
    <3>2. u = 0 /\ x = 0  BY <1>1, <2>4 DEF u, x
    <3>3. Extra(us) = 1  BY <1>e, <2>0, <2>1, <2>4
    <3>4. QED  BY <2>1, <2>4, <3>1, <3>2, <3>3
  <2>5. CASE z = 0 /\ big > 0
    <3>1. Loops(us) = x + 2 * (M + 1)  BY <1>4, <2>1, <2>2, <2>5
    <3>2. Extra(us) = 2 * (M + 1)  BY <1>e, <2>0, <2>1, <2>5
    <3>3. QED  BY <1>1, <2>1, <2>5, <3>1, <3>2
  <2>6. QED  BY <1>4, <2>1, <2>3, <2>4, <2>5
<1>10. QED  BY <1>4, <1>9 DEF big, rem, c, L

\* The same in time.
LEMMA TimeAsAsked ==
  ASSUME NEW us \in Nat
  PROVE  LET aLoop == CyclesPerLoop * Million
             took  == Loops(us) * aLoop
             due   == us * CpuFreq
         IN  /\ took > due - us * aLoop
             /\ took <= due + ((us \div Chunk) * LoopsPerUs + Extra(us)) * aLoop
<1> DEFINE p == CyclesPerLoop * Million
           n == Loops(us)
           r == (us \div Chunk) * LoopsPerUs + Extra(us)
           m == us * LoopsPerUs
<1>1. /\ LoopsPerUs \in Nat \ {0} /\ p \in Nat \ {0} /\ CpuFreq \in Nat
      /\ LoopsPerUs * p <= CpuFreq /\ CpuFreq < LoopsPerUs * p + p
  BY Calibration
<1>2. n \in Nat /\ n > 0 /\ n >= m /\ r \in Nat /\ n <= m + r
  BY <1>1, LoopsAsAsked
<1>3. m * p = us * (LoopsPerUs * p) /\ m \in Nat  BY <1>1
<1> HIDE DEF p, n, r, m
<1>4. m * p <= us * CpuFreq  BY <1>1, <1>3
<1>5. us = 0 \/ us * CpuFreq < m * p + us * p
  <2>1. us * (LoopsPerUs * p + p) = m * p + us * p  BY <1>1, <1>3
  <2>2. us > 0 => us * CpuFreq < us * (LoopsPerUs * p + p)  BY <1>1
  <2>3. QED  BY <2>1, <2>2
<1>6. n * p >= m * p /\ n * p > 0 /\ n * p <= m * p + r * p
  <2>1. n * p >= m * p  BY <1>1, <1>2, <1>3
  <2>2. n * p > 0  BY <1>1, <1>2
  <2>3. n * p <= (m + r) * p  BY <1>1, <1>2, <1>3
  <2>4. (m + r) * p = m * p + r * p  BY <1>1, <1>2, <1>3
  <2>5. QED  BY <2>1, <2>2, <2>3, <2>4
<1>7. /\ n * p \in Nat /\ m * p \in Nat /\ r * p \in Nat /\ us * p \in Nat /\ us * CpuFreq \in Nat
      /\ (us = 0 => us * p = 0 /\ us * CpuFreq = 0)
  BY <1>1, <1>2, <1>3
<1>8. n * p > us * CpuFreq - us * p /\ n * p <= us * CpuFreq + r * p
  <2> DEFINE np == n * p  mp == m * p  rp == r * p  up == us * p  uf == us * CpuFreq
  <2>1. /\ np \in Nat /\ mp \in Nat /\ rp \in Nat /\ up \in Nat /\ uf \in Nat
        /\ mp <= uf /\ (us = 0 \/ uf < mp + up) /\ np >= mp /\ np > 0 /\ np <= mp + rp
        /\ (us = 0 => up = 0 /\ uf = 0)
    BY <1>4, <1>5, <1>6, <1>7
  <2> HIDE DEF np, mp, rp, up, uf
  <2>2. np > uf - up /\ np <= uf + rp  BY <2>1
  <2>3. QED  BY <2>2 DEF np, rp, up, uf
<1>9. QED  BY <1>8 DEF p, n, r

LEMMA BoardStart == BoardInit => BoardInv
<1> SUFFICES ASSUME BoardInit PROVE BoardInv
  OBVIOUS
<1>1. DisplayKept
  BY DEF BoardInit, DisplayKept, TwoDigits, Tens, Ones, Magnitude
<1>2. ResetKept
  BY DEF BoardInit, ResetKept
<1>3. SleepsAsAsked
  <2>1. slept.us = 0 /\ slept.loops = 1  BY DEF BoardInit
  <2>2. Chunk \in Nat \ {0}  BY Calibration DEF Chunk
  <2>3. 0 % Chunk = 0 /\ 0 \div Chunk = 0  BY <2>2
  <2>4. Loops(0) = 1  BY <2>2, <2>3, Calibration DEF Loops
  <2>5. slept.us \in Nat /\ slept.loops = Loops(slept.us)  BY <2>1, <2>4
  <2>6. QED  BY <2>5, TimeAsAsked DEF SleepsAsAsked, Extra
<1>4. QED  BY <1>1, <1>2, <1>3 DEF BoardInv

LEMMA Sleep ==
  ASSUME NEW us \in Delays, Sleeps(us)
  PROVE  SleepsAsAsked'
<1>1. us \in Nat  BY BoardAssumption
<1>2. slept'.us = us /\ slept'.loops = Loops(us)  BY DEF Sleeps
<1>3. QED  BY <1>1, <1>2, TimeAsAsked DEF SleepsAsAsked, Extra, Chunk, LoopsPerUs

LEMMA BoardStep == BoardInv /\ [BoardNext]_board => BoardInv'
<1> SUFFICES ASSUME BoardInv, [BoardNext]_board PROVE BoardInv'
  OBVIOUS
<1> USE DEF BoardInv
<1>1. UNCHANGED display => DisplayKept'
  BY DEF display, DisplayKept, TwoDigits, Tens, Ones, Magnitude
<1>2. UNCHANGED reset => ResetKept'
  BY DEF reset, ResetKept
<1>3. UNCHANGED slept => SleepsAsAsked'
  BY DEF SleepsAsAsked, Chunk, LoopsPerUs
<1>0. CASE InitAgain
  BY <1>0, <1>1, <1>3 DEF InitAgain, ResetKept
<1>4. CASE PullLow
  <2>1. SleepsAsAsked'
    BY <1>4, Sleep, BoardAssumption DEF PullLow
  <2>2. ResetKept'
    BY <1>4 DEF PullLow, ResetKept
  <2>3. QED  BY <1>1, <1>4, <2>1, <2>2 DEF PullLow
<1>5. CASE ChipReset
  <2>1. ResetKept'
    <3>1. 0 % ByteWrap = 0 /\ 0 \div ByteWrap = 0  BY BoardAssumption
    <3>2. QED  BY <1>5, <3>1 DEF ChipReset, ResetKept
  <2>2. QED  BY <1>1, <1>3, <1>5, <2>1 DEF ChipReset
<1>6. CASE OscillatorStarts
  <2>1. ResetKept'
    BY <1>6 DEF OscillatorStarts, ResetKept
  <2>2. QED  BY <1>1, <1>3, <1>6, <2>1 DEF OscillatorStarts
<1>7. CASE NotYet
  <2>1. ResetKept'
    <3>1. /\ stage = "wait" /\ UNCHANGED <<stage, rst>> /\ reads \in Nat /\ reads' = reads + 1
          /\ rst = 1 /\ tmp = reads % ByteWrap /\ warned = reads \div ByteWrap
          /\ tmp' = (tmp + 1) % ByteWrap
          /\ warned' = IF tmp' = 0 THEN warned + 1 ELSE warned
      BY <1>7 DEF NotYet, ResetKept
    <3>2. tmp' = reads' % ByteWrap
      BY <3>1, OneMore, BoardAssumption, Zenon
    <3>3. warned' = reads' \div ByteWrap
      BY <3>1, <3>2, OneMore, BoardAssumption, Zenon
    <3>4. QED  BY <3>1, <3>2, <3>3 DEF ResetKept
  <2>2. QED  BY <1>1, <1>3, <1>7, <2>1 DEF NotYet
<1>8. CASE ResetEnds
  <2>1. ResetKept'
    BY <1>8 DEF ResetEnds, ResetKept
  <2>2. QED  BY <1>1, <1>3, <1>8, <2>1 DEF ResetEnds
<1>9. ASSUME NEW us \in Delays, usleep(us) PROVE BoardInv'
  BY <1>1, <1>2, <1>9, Sleep DEF usleep
<1>10. ASSUME NEW n \in LED, Led(n) PROVE BoardInv'
  <2>1. n \notin 10..13  BY BoardAssumption
  <2>2. DisplayKept'
    BY <1>10, <2>1 DEF Led, setLED, clearLED, DisplayKept, TwoDigits, Tens, Ones, Magnitude
  <2>3. QED  BY <1>2, <1>3, <1>10, <2>2 DEF Led
<1>11. ASSUME NEW v \in Value, printSignedHex0(v) PROVE BoardInv'
  <2>1. v \in -127..127  BY BoardAssumption
  <2>2. /\ shown' = <<v, shown[2]>> /\ leds' = Lit(v, 11, 13)
        /\ hex' = (hex % 256) + 256 * TwoDigits(v)
        /\ shown \in (-127..127) \X (-127..127)
    BY <1>11 DEF printSignedHex0, Hex0, DisplayKept
  <2>3. hex' = 256 * TwoDigits(v) + TwoDigits(shown[2])
    <3>1. TwoDigits(v) \in 0..255 /\ TwoDigits(shown[1]) \in 0..255 /\ TwoDigits(shown[2]) \in 0..255
      BY <2>1, <2>2, DigitsOf
    <3>2. hex % 256 = TwoDigits(shown[2])
      <4>1. hex = 256 * TwoDigits(shown[1]) + TwoDigits(shown[2])  BY DEF DisplayKept
      <4> DEFINE x == TwoDigits(shown[1])  y == TwoDigits(shown[2])
      <4>2. x \in 0..255 /\ y \in 0..255 /\ hex = 256 * x + y  BY <3>1, <4>1
      <4> HIDE DEF x, y
      <4>3. hex \div 256 = x /\ hex % 256 = y  BY <4>2
      <4>4. QED  BY <4>3, Zenon DEF x, y
    <3>3. hex' = TwoDigits(shown[2]) + 256 * TwoDigits(v)
      BY <2>2, <3>2, Zenon
    <3>4. QED
      <4> DEFINE x == TwoDigits(shown[2])  y == TwoDigits(v)
      <4>1. x \in Nat /\ y \in Nat /\ hex' = x + 256 * y  BY <3>1, <3>3
      <4> HIDE DEF x, y
      <4>2. hex' = 256 * y + x  BY <4>1
      <4>3. QED  BY <4>2, Zenon DEF x, y
  <2>4. DisplayKept'
    BY <2>1, <2>2, <2>3 DEF DisplayKept, Lit, TwoDigits, Tens, Ones, Magnitude
  <2>5. QED  BY <1>2, <1>3, <1>11, <2>4 DEF printSignedHex0
<1>12. ASSUME NEW v \in Value, printSignedHex1(v) PROVE BoardInv'
  <2>1. v \in -127..127  BY BoardAssumption
  <2>2. /\ shown' = <<shown[1], v>> /\ leds' = Lit(v, 10, 12)
        /\ hex' = 256 * (hex \div 256) + TwoDigits(v)
        /\ shown \in (-127..127) \X (-127..127)
    BY <1>12 DEF printSignedHex1, Hex1, DisplayKept
  <2>3. hex' = 256 * TwoDigits(shown[1]) + TwoDigits(v)
    <3>1. TwoDigits(shown[1]) \in 0..255 /\ TwoDigits(shown[2]) \in 0..255
      BY <2>2, DigitsOf
    <3>2. hex \div 256 = TwoDigits(shown[1])
      <4>1. hex = 256 * TwoDigits(shown[1]) + TwoDigits(shown[2])  BY DEF DisplayKept
      <4> DEFINE x == TwoDigits(shown[1])  y == TwoDigits(shown[2])
      <4>2. x \in 0..255 /\ y \in 0..255 /\ hex = 256 * x + y  BY <3>1, <4>1
      <4> HIDE DEF x, y
      <4>3. hex \div 256 = x /\ hex % 256 = y  BY <4>2
      <4>4. QED  BY <4>3, Zenon DEF x, y
    <3>3. QED  BY <2>2, <3>2, Zenon
  <2>4. DisplayKept'
    BY <2>1, <2>2, <2>3 DEF DisplayKept, Lit, TwoDigits, Tens, Ones, Magnitude
  <2>5. QED  BY <1>2, <1>3, <1>12, <2>4 DEF printSignedHex1
<1>13. ASSUME NEW k \in Keycode, setKeycode(k) PROVE BoardInv'
  <2>1. DisplayKept'
    BY <1>13 DEF setKeycode, DisplayKept, TwoDigits, Tens, Ones, Magnitude
  <2>2. QED  BY <1>2, <1>3, <1>13, <2>1 DEF setKeycode
<1>14. CASE UNCHANGED board
  BY <1>1, <1>2, <1>3, <1>14 DEF board
<1>15. QED
  BY <1>0, <1>4, <1>5, <1>6, <1>7, <1>8, <1>9, <1>10, <1>11, <1>12, <1>13, <1>14 DEF BoardNext

\* The board does what it is asked: display, reset of the chip and delays.
THEOREM SpecBoardAsAsked == BoardSpec => []BoardAsAsked
<1>1. ASSUME BoardInv PROVE BoardAsAsked
  <2>1. ShowsBoth
    <3>1. shown[1] \in -127..127 /\ shown[2] \in -127..127
      BY <1>1 DEF BoardInv, DisplayKept
    <3>2. hex = 256 * (16 * ((Magnitude(shown[1]) \div 10) % 10) + (Magnitude(shown[1]) % 10))
                + (16 * ((Magnitude(shown[2]) \div 10) % 10) + (Magnitude(shown[2]) % 10))
      BY <1>1, <3>1, DigitsOf, Zenon DEF BoardInv, DisplayKept
    <3>3. \A n \in 1..2 : /\ 12 - n \in leds <=> shown[n] < 0
                          /\ 14 - n \in leds <=> Magnitude(shown[n]) > 99
      <4>1. \A v \in -127..127 : Magnitude(v) \in Nat  BY DEF Magnitude
      <4>2. \A n \in 1..2 : n = 1 \/ n = 2  OBVIOUS
      <4>3. QED
        BY <1>1, <3>1, <4>1, <4>2 DEF BoardInv, DisplayKept
    <3>4. QED
      BY <3>2, <3>3 DEF ShowsBoth
  <2>2. StableWhenUsed
    BY <1>1 DEF BoardInv, ResetKept, StableWhenUsed
  <2>3. QED  BY <1>1, <2>1, <2>2 DEF BoardInv, BoardAsAsked
<1>2. QED
  BY <1>1, BoardStart, BoardStep, PTL DEF BoardSpec

-----------------------------------------------------------------------------
(* The timestamp                                                           *)

LEMMA Scale == FullScale \in Nat \ {0}
<1>1. Half \in Nat /\ Half >= 2  BY TimestampAssumption
<1>2. Half * Half >= 2 * 2  BY <1>1
<1>3. QED  BY <1>1, <1>2 DEF FullScale

LEMMA TwoHalves == \A c \in Nat : (c \div Half) * Half + (c % Half) = c /\ c % Half \in 0..(Half - 1)
BY TimestampAssumption

\* The upper half of the larger number counts as much at least.
LEMMA UpperGrows ==
  \A c, d \in Nat : c <= d => (c \div Half) * Half <= (d \div Half) * Half
<1> SUFFICES ASSUME NEW c \in Nat, NEW d \in Nat, c <= d
             PROVE  (c \div Half) * Half <= (d \div Half) * Half
  OBVIOUS
<1> DEFINE m == c \div Half
           n == d \div Half
<1>1. Half \in Nat /\ Half >= 2  BY TimestampAssumption
<1>2. m \in Nat /\ n \in Nat  BY <1>1
<1>3. m * Half <= c /\ d < n * Half + Half  BY <1>1
<1> HIDE DEF m, n
<1>4. ~(m >= n + 1)
  <2> SUFFICES ASSUME m >= n + 1 PROVE FALSE
    OBVIOUS
  <2>1. m * Half >= (n + 1) * Half  BY <1>1, <1>2
  <2>2. (n + 1) * Half = n * Half + Half /\ m * Half \in Nat /\ n * Half \in Nat  BY <1>1, <1>2
  <2>3. QED  BY <1>1, <1>2, <1>3, <2>1, <2>2
<1>5. m <= n  BY <1>2, <1>4
<1>6. m * Half <= n * Half  BY <1>1, <1>2, <1>5
<1>7. QED  BY <1>6 DEF m, n

LEMMA TimestampStart == TimestampInit => TimestampInv
<1> SUFFICES ASSUME TimestampInit PROVE TimestampInv
  OBVIOUS
<1>1. OwnPeriod \in Nat /\ 1 <= OwnPeriod /\ OwnPeriod <= FullScale /\ FullScale \in Nat
  BY Scale, TimestampAssumption
<1>2. /\ doing = "nothing" /\ ~counting /\ counting \in BOOLEAN /\ period = OwnPeriod
      /\ counter = OwnPeriod /\ latch = 0 /\ elapsed = 0 /\ asked = 0 /\ snapped = 0 /\ taken = 0
  BY DEF TimestampInit
<1>3. counter = After_(elapsed, period)  BY <1>1, <1>2 DEF After_
<1>4. QED  BY <1>1, <1>2, <1>3 DEF TimestampInv, DoingSteps

LEMMA TimestampStep == TimestampInv /\ [TimestampNext]_timestamp => TimestampInv'
<1> SUFFICES ASSUME TimestampInv, [TimestampNext]_timestamp PROVE TimestampInv'
  OBVIOUS
<1> USE Scale DEF TimestampInv, DoingSteps, After_, At, core, seen
<1>1. CASE StopTimer
  BY <1>1 DEF StopTimer
<1>2. CASE SetPeriod
  BY <1>2 DEF SetPeriod
<1>3. CASE StartTimer
  BY <1>3 DEF StartTimer
<1>4. CASE NoTimestamp
  BY <1>4 DEF NoTimestamp
<1>5. CASE Snapshot
  <2>1. doing = "nothing" /\ counter \in Nat /\ counter <= FullScale
        /\ counter = IF elapsed > period THEN period ELSE period - elapsed
    BY <1>5 DEF Snapshot
  <2>2. /\ latch' = counter /\ asked' = elapsed /\ snapped' = elapsed /\ doing' = "snapped" /\ freq # 0
        /\ UNCHANGED <<freq, counter, period, counting, elapsed, taken>>
    BY <1>5 DEF Snapshot
  <2>3. latch' \in 0..FullScale  BY <2>1, <2>2
  <2>4. QED  BY <2>1, <2>2, <2>3
<1>6. CASE ReadLower
  BY <1>6 DEF ReadLower
<1>7. CASE ReadUpper
  BY <1>7 DEF ReadUpper
<1>8. CASE HandlerSnapshot
  <2>1. counter \in 0..FullScale  OBVIOUS
  <2>2. /\ latch' = counter /\ snapped' = elapsed
        /\ UNCHANGED <<freq, counter, period, counting, doing, lower, elapsed, asked, taken>>
    BY <1>8 DEF HandlerSnapshot
  <2>3. QED  BY <2>1, <2>2
<1>9. CASE Count_down
  <2>1. /\ counting /\ doing # "set" /\ elapsed <= period /\ counter = period - elapsed
        /\ UNCHANGED <<freq, period, latch, doing, lower, asked, snapped, taken>>
    BY <1>9 DEF Count_down
  <2>2. CASE counter = 0
    <3>1. period \in Nat /\ elapsed \in Nat /\ elapsed = period
      BY <2>1, <2>2
    <3>2. counter' = period /\ ~counting' /\ counting' \in BOOLEAN /\ elapsed' = period + 1
      <4>1. counter' = period /\ counting' = FALSE  BY <1>9, <2>2 DEF Count_down
      <4>2. elapsed' = IF elapsed > period THEN elapsed ELSE elapsed + 1  BY <1>9 DEF Count_down
      <4>3. elapsed' = period + 1
        <5> HIDE DEF TimestampInv
        <5>1. QED  BY <3>1, <4>2
      <4>4. QED  BY <4>1, <4>3
    <3>3. QED  BY <2>1, <3>1, <3>2
  <2>3. CASE counter # 0
    <3>1. counter' = counter - 1 /\ counting' = counting /\ elapsed' = elapsed + 1
      BY <1>9, <2>1, <2>3 DEF Count_down
    <3>2. QED  BY <2>1, <2>3, <3>1
  <2>4. QED  BY <2>2, <2>3
<1>10. CASE UNCHANGED timestamp
  BY <1>10 DEF timestamp
<1>11. QED
  BY <1>1, <1>2, <1>3, <1>4, <1>5, <1>6, <1>7, <1>8, <1>9, <1>10 DEF TimestampNext

NearCall ==
  IF freq = 0 THEN stamp' = FullScale
  ELSE /\ snapped <= period => Reading(asked) <= stamp'
       /\ stamp' < Reading(snapped) + Half
       /\ UpperHalf(taken) = UpperHalf(snapped) => stamp' = Reading(taken)

\* Both halves are known by the moments of their snapshots, and those are in order.
LEMMA ReadNearCall ==
  ASSUME TimestampInv, ReadUpper
  PROVE  NearCall
<1> DEFINE c == After_(taken, period)
           d == After_(snapped, period)
           a == After_(asked, period)
           up == (d \div Half) * Half
           low == c % Half
<1>1. /\ freq # 0 /\ stamp' = FullScale - (up + low)
      /\ asked \in Nat /\ snapped \in Nat /\ taken \in Nat /\ asked <= taken /\ taken <= snapped
  BY DEF ReadUpper, At, TimestampInv
<1>2. period \in Nat /\ period <= FullScale /\ FullScale \in Nat
  BY Scale DEF TimestampInv
<1>3. /\ c \in Nat /\ d \in Nat /\ a \in Nat
      /\ Reading(taken) = FullScale - c /\ Reading(snapped) = FullScale - d /\ Reading(asked) = FullScale - a
      /\ snapped <= period => d <= c /\ c <= a
  BY <1>1, <1>2 DEF After_, Reading
<1>4. /\ (c \div Half) * Half + low = c /\ low \in 0..(Half - 1)
      /\ up + (d % Half) = d /\ d % Half \in 0..(Half - 1)
  BY <1>3, TwoHalves, Zenon
<1>5. snapped <= period => up <= (c \div Half) * Half
  BY <1>3, UpperGrows, Zenon
<1>6. UpperHalf(taken) = UpperHalf(snapped) => up = (c \div Half) * Half
  <2>1. FullScale - Reading(taken) = c /\ FullScale - Reading(snapped) = d
    BY <1>2, <1>3
  <2>2. QED  BY <2>1, Zenon DEF UpperHalf
<1>7. Half \in Nat /\ c \div Half \in Nat /\ d \div Half \in Nat
  BY <1>3, TimestampAssumption
<1>8. up \in Nat /\ (c \div Half) * Half \in Nat  BY <1>7
<1> DEFINE top == (c \div Half) * Half
           rest == d % Half
<1>9. /\ top + low = c /\ low \in 0..(Half - 1) /\ up + rest = d /\ rest \in 0..(Half - 1)
      /\ (snapped <= period => up <= top) /\ top \in Nat
  BY <1>4, <1>5, <1>8
<1>10. UpperHalf(taken) = UpperHalf(snapped) => up = top
  BY <1>6
<1> HIDE DEF c, d, a, up, low, top, rest
<1>11. snapped <= period => Reading(asked) <= stamp'
  BY <1>1, <1>2, <1>3, <1>7, <1>8, <1>9
<1>12. stamp' < Reading(snapped) + Half
  BY <1>1, <1>2, <1>3, <1>7, <1>8, <1>9
<1>13. UpperHalf(taken) = UpperHalf(snapped) => stamp' = Reading(taken)
  BY <1>1, <1>2, <1>3, <1>7, <1>8, <1>9, <1>10
<1>14. QED  BY <1>1, <1>11, <1>12, <1>13 DEF NearCall

\* A timestamp lies in its call, or less than half a word ahead of its return.
THEOREM SpecStampNearCall == TimestampSpec => StampNearCall
<1>1. TimestampInv /\ [TimestampNext]_timestamp =>
        [stamp' # stamp \/ (doing = "half" /\ doing' = "nothing") => NearCall]_timestamp
  <2> SUFFICES ASSUME TimestampInv, TimestampNext,
                      stamp' # stamp \/ (doing = "half" /\ doing' = "nothing")
               PROVE  NearCall
    OBVIOUS
  <2>1. CASE NoTimestamp
    BY <2>1 DEF NoTimestamp, NearCall
  <2>2. CASE ReadUpper
    BY <2>2, ReadNearCall
  <2>3. ~(NoTimestamp \/ ReadUpper) => stamp' = stamp /\ ~(doing = "half" /\ doing' = "nothing")
    BY DEF TimestampNext, StopTimer, SetPeriod, StartTimer, Snapshot, ReadLower, HandlerSnapshot,
           Count_down, At
  <2>4. QED  BY <2>1, <2>2, <2>3
<1>2. QED
  BY <1>1, TimestampStart, TimestampStep, PTL DEF TimestampSpec, StampNearCall, NearCall

-----------------------------------------------------------------------------
(* alt_printf                                                              *)
(*                                                                         *)
(* For every format and every argument: between two characters of the      *)
(* format what came before is printed, and the next one is not escaped.    *)
(* In the loop over digits, the zeros or the digits behind it are known    *)
(* from the size.                                                          *)

Symbol    == STRING \cup {"%"} \cup 0..15

LEMMA PercentsIs ==
  ASSUME NEW f, NEW n \in Nat
  PROVE  /\ Percents(f, n) \in 0..n
         /\ \A j \in (n - Percents(f, n) + 1)..n : f[j] = "%"
         /\ Percents(f, n) < n => f[n - Percents(f, n)] # "%"
<1> DEFINE T == {k \in 0..n : k < n => f[n - k] # "%"}
<1>1. PICK k \in T : \A j \in T : k <= j
  <2>1. n \in T  OBVIOUS
  <2>1a. \A k \in T : k \in Nat  OBVIOUS
  <2> HIDE DEF T
  <2>2. T # {} /\ T \in SUBSET Nat  BY <2>1, <2>1a
  <2> HIDE DEF T
  <2>3. QED  BY <2>2, Smallest
<1>2. ASSUME NEW j \in (n - k + 1)..n PROVE f[j] = "%"
  <2>1. n - j \in 0..n /\ ~(k <= n - j) /\ n - j < n /\ n - (n - j) = j
    BY DEF T
  <2>2. n - j \notin T  BY <1>1, <2>1
  <2>3. QED  BY <2>1, <2>2
<1>3. k \in 0..n /\ (k < n => f[n - k] # "%")
  OBVIOUS
<1>4. QED  BY <1>2, <1>3 DEF Percents

LEMMA PercentsUnique ==
  ASSUME NEW f, NEW n \in Nat, NEW k \in 0..n, \A j \in (n - k + 1)..n : f[j] = "%",
         k < n => f[n - k] # "%"
  PROVE  Percents(f, n) = k
<1> DEFINE m == Percents(f, n)
<1>1. m \in 0..n /\ (\A j \in (n - m + 1)..n : f[j] = "%") /\ (m < n => f[n - m] # "%")
  BY PercentsIs
<1> HIDE DEF m
<1>2. ~(m < k)
  <2> SUFFICES ASSUME m < k PROVE FALSE  OBVIOUS
  <2>1. n - m \in (n - k + 1)..n /\ m < n  BY <1>1
  <2>2. QED  BY <1>1, <2>1
<1>3. ~(k < m)
  <2> SUFFICES ASSUME k < m PROVE FALSE  OBVIOUS
  <2>1. n - k \in (n - m + 1)..n /\ k < n  BY <1>1
  <2>2. QED  BY <1>1, <2>1
<1>4. m = k  BY <1>1, <1>2, <1>3
<1>5. QED  BY <1>4 DEF m

\* Of the characters of a row of %, every other one begins an escape.
LEMMA EscapesAlternate ==
  ASSUME NEW f, NEW n \in Nat \ {0}
  PROVE  EscapeAt(f, n) <=> f[n] = "%" /\ ~EscapedAt(f, n)
<1>1. CASE f[n] # "%"
  BY <1>1 DEF EscapeAt
<1>2. CASE f[n] = "%"
  <2> DEFINE k == Percents(f, n - 1)
  <2>1. /\ n - 1 \in Nat /\ k \in 0..(n - 1) /\ (\A j \in (n - 1 - k + 1)..(n - 1) : f[j] = "%")
        /\ (k < n - 1 => f[n - 1 - k] # "%")
    <3>1. n - 1 \in Nat  OBVIOUS
    <3>2. QED  BY <3>1, PercentsIs
  <2> HIDE DEF k
  <2>2. Percents(f, n) = k + 1
    <3>1. k + 1 \in 0..n /\ (k + 1 < n => f[n - (k + 1)] # "%")
      <4>1. n - (k + 1) = n - 1 - k /\ (k + 1 < n => k < n - 1)  BY <2>1
      <4>2. QED  BY <2>1, <4>1
    <3>2. ASSUME NEW j \in (n - (k + 1) + 1)..n PROVE f[j] = "%"
      <4>1. j = n \/ j \in (n - 1 - k + 1)..(n - 1)  BY <2>1
      <4>2. QED  BY <4>1, <2>1, <1>2
    <3>3. QED  BY <3>1, <3>2, PercentsUnique
  <2>3. EscapeAt(f, n) <=> k % 2 = 0
    <3>1. (k + 1) % 2 = 1 <=> k % 2 = 0  BY <2>1
    <3>2. QED  BY <3>1, <2>2, <1>2 DEF EscapeAt
  <2>4. CASE n = 1
    <3>1. k = 0  BY <2>1, <2>4
    <3>2. k % 2 = 0  BY <3>1
    <3>3. QED  BY <3>2, <2>3, <2>4, <1>2 DEF EscapedAt
  <2>5. CASE n # 1
    <3>1. EscapedAt(f, n) <=> f[n - 1] = "%" /\ k % 2 = 1
      BY <2>5 DEF EscapedAt, EscapeAt, k
    <3>2. f[n - 1] # "%" => k = 0
      <4>1. k # 0 => n - 1 \in (n - 1 - k + 1)..(n - 1)  BY <2>1
      <4>2. QED  BY <4>1, <2>1
    <3>3. k % 2 = 1 <=> ~(k % 2 = 0)  BY <2>1
    <3>4. k = 0 => k % 2 = 0  OBVIOUS
    <3>5. QED  BY <3>1, <3>2, <3>3, <3>4, <2>3, <1>2
  <2>6. QED  BY <2>4, <2>5
<1>3. QED  BY <1>1, <1>2

LEMMA SixteenTo ==
  /\ Power(16) \in [Nat -> Nat \ {0}] /\ Power(16)[0] = 1
  /\ \A n \in Nat : Power(16)[n + 1] = 16 * Power(16)[n]
<1>1. 16 \in Nat \ {0}  OBVIOUS
<1>2. QED  BY <1>1, PowerStep

LEMMA HexDigitsIs ==
  ASSUME NEW v \in Nat, NEW n \in 1..(TopShift + 1),
         v < Power(16)[n], n = 1 \/ v >= Power(16)[n - 1]
  PROVE  HexDigits(v) = n
<1> DEFINE P == Power(16)
           Size(k) == k \in 1..(TopShift + 1) /\ v < P[k] /\ (k = 1 \/ v >= P[k - 1])
<1>1. P \in [Nat -> Nat \ {0}] /\ \A m \in Nat, k \in Nat : k <= m => P[k] <= P[m]
  <2>1. 16 \in Nat \ {0}  OBVIOUS
  <2>2. QED  BY <2>1, SixteenTo, PowerGrows
<1>2. Size(n)  OBVIOUS
<1>3. Size(HexDigits(v))
  <2>1. HexDigits(v) = CHOOSE k \in 1..(TopShift + 1) : v < P[k] /\ (k = 1 \/ v >= P[k - 1])
    BY DEF HexDigits
  <2> HIDE DEF P
  <2>2. QED  BY <1>2, <2>1
<1> HIDE DEF P
<1>4. ASSUME NEW j, NEW k, Size(j), Size(k) PROVE ~(j < k)
  <2> SUFFICES ASSUME j < k PROVE FALSE  OBVIOUS
  <2>0. TopShift \in Nat  BY TextAssumption
  <2>1. j \in Nat /\ k - 1 \in Nat /\ j <= k - 1 /\ k # 1 BY <1>4, <2>0
  <2>2. P[j] <= P[k - 1] /\ P[j] \in Nat /\ P[k - 1] \in Nat  BY <1>1, <2>1
  <2>3. QED  BY <1>4, <2>1, <2>2
<1>5. QED
  <2>0. TopShift \in Nat  BY TextAssumption
  <2>1. ~(HexDigits(v) < n) /\ ~(n < HexDigits(v))  BY <1>2, <1>3, <1>4
  <2>2. HexDigits(v) \in 1..(TopShift + 1)  BY <1>3
  <2>3. QED  BY <2>0, <2>1, <2>2

LEMMA WordsAre ==
  ASSUME NEW v \in Words
  PROVE  v \in Nat /\ v < Power(16)[TopShift + 1]
<1> DEFINE P == Power(16)
<1>1. TopShift \in Nat /\ v \in 0..(P[TopShift + 1] - 1)  BY TextAssumption
<1>2. TopShift + 1 \in Nat /\ P[TopShift + 1] \in Nat  BY <1>1, SixteenTo
<1> HIDE DEF P
<1>3. v \in Nat /\ v < P[TopShift + 1]  BY <1>1, <1>2
<1>4. QED  BY <1>3 DEF P

LEMMA HexDigitsExist ==
  ASSUME NEW v \in Words
  PROVE  /\ HexDigits(v) \in 1..(TopShift + 1) /\ v < Power(16)[HexDigits(v)]
         /\ HexDigits(v) = 1 \/ v >= Power(16)[HexDigits(v) - 1]
<1> DEFINE P == Power(16)
           T == {k \in 1..(TopShift + 1) : v < P[k]}
<1>0. TopShift \in Nat /\ v \in Nat /\ v < P[TopShift + 1]
  BY WordsAre, TextAssumption
<1>1. PICK n \in T : \A j \in T : n <= j
  <2>1. TopShift + 1 \in T  BY <1>0
  <2>2. T # {} /\ T \in SUBSET Nat  BY <2>1
  <2> HIDE DEF T
  <2>3. QED  BY <2>2, Smallest
<1>2. n = 1 \/ v >= P[n - 1]
  <2> SUFFICES ASSUME n # 1 PROVE v >= P[n - 1]  OBVIOUS
  <2>1. n - 1 \in 1..(TopShift + 1) /\ ~(n <= n - 1) /\ n - 1 \in Nat  BY <1>0
  <2>2. P[n - 1] \in Nat  BY <2>1, SixteenTo
  <2>3. n - 1 \notin T  BY <1>1, <2>1
  <2> HIDE DEF P
  <2>4. QED  BY <2>1, <2>2, <2>3, <1>0
<1>3. n \in 1..(TopShift + 1) /\ v < P[n]  OBVIOUS
<1>4. HexDigits(v) = n  BY <1>0, <1>2, <1>3, HexDigitsIs
<1>5. QED  BY <1>2, <1>3, <1>4

LEMMA ShowsType ==
  ASSUME NEW f \in Formats, NEW a \in Arguments, NEW n \in 1..Len(f)
  PROVE  Shows(f, a, n) \in Seq(Symbol)
<1>1. f \in Seq(STRING) /\ f[n] \in STRING  BY TextAssumption
<1>2. a.c \in STRING /\ a.s \in Seq(STRING) /\ a.x \in Words  BY TextAssumption DEF Arguments
<1>3. Hexadecimal(a.x) \in Seq(Symbol)
  <2> DEFINE size == HexDigits(a.x)
             digit == [k \in 1..size |-> (a.x \div Power(16)[size - k]) % 16]
  <2>1. size \in Nat /\ a.x \in Nat
    <3>2. a.x \in Nat  BY <1>2, WordsAre
    <3>3. HexDigits(a.x) \in 1..(TopShift + 1)  BY <1>2, HexDigitsExist
    <3>4. TopShift \in Nat  BY TextAssumption
    <3>5. QED  BY <3>2, <3>3, <3>4
  <2>2. Hexadecimal(a.x) = digit  BY DEF Hexadecimal
  <2> HIDE DEF size
  <2>3. ASSUME NEW k \in 1..size PROVE (a.x \div Power(16)[size - k]) % 16 \in Symbol
    <3>1. size - k \in Nat  BY <2>1
    <3>2. Power(16)[size - k] \in Nat \ {0}  BY <3>1, SixteenTo
    <3>3. a.x \div Power(16)[size - k] \in Nat  BY <2>1, <3>2
    <3>4. (a.x \div Power(16)[size - k]) % 16 \in 0..15
      <4> DEFINE q == a.x \div Power(16)[size - k]
      <4>0. q \in Nat  BY <3>3
      <4> HIDE DEF q
      <4>1. q % 16 \in 0..15  BY <4>0
      <4>2. QED  BY <4>1 DEF q
    <3>5. QED  BY <3>4, Zenon DEF Symbol
  <2>4. digit \in Seq(Symbol)  BY <2>1, <2>3
  <2>5. QED  BY <2>2, <2>4
<1>4. <<>> \in Seq(Symbol) /\ <<"%">> \in Seq(Symbol) /\ <<a.c>> \in Seq(Symbol) /\ <<f[n]>> \in Seq(Symbol)
  <2>1. "%" \in Symbol /\ a.c \in Symbol /\ f[n] \in Symbol
    BY <1>1, <1>2 DEF Symbol
  <2> HIDE DEF Symbol
  <2>2. \A c \in Symbol : <<c>> \in Seq(Symbol)  OBVIOUS
  <2>3. QED  BY <2>1, <2>2
<1>5. a.s \in Seq(Symbol)  BY <1>2 DEF Symbol
<1>6. QED  BY <1>3, <1>4, <1>5, Zenon DEF Shows

LEMMA PrintedNext ==
  ASSUME NEW f \in Formats, NEW a \in Arguments, NEW n \in 0..Len(f)
  PROVE  /\ Printed(f, a, 0) = <<>> /\ Printed(f, a, n) \in Seq(Symbol)
         /\ n < Len(f) => Printed(f, a, n + 1) = Printed(f, a, n) \o Shows(f, a, n + 1)
<1> DEFINE F == [k \in Nat \ {0} |-> IF k \in 1..Len(f) THEN Shows(f, a, k) ELSE <<>>]
           Flat(m) == FlattenSeq([k \in 1..m |-> F[k]])
<1>0. f \in Seq(STRING) /\ Len(f) \in Nat  BY TextAssumption
<1>1. F \in [Nat \ {0} -> Seq(Symbol)]
  <2>1. \A k \in 1..Len(f) : Shows(f, a, k) \in Seq(Symbol)  BY ShowsType
  <2>2. <<>> \in Seq(Symbol)  OBVIOUS
  <2> HIDE DEF Symbol
  <2>3. QED  BY <2>1, <2>2
<1>2. ASSUME NEW m \in 0..Len(f) PROVE Flat(m) = Printed(f, a, m)
  <2>1. \A k \in 1..m : F[k] = Shows(f, a, k)  BY <1>0
  <2>2. [k \in 1..m |-> F[k]] = [k \in 1..m |-> Shows(f, a, k)]
    <3> HIDE DEF F
    <3> QED  BY <2>1
  <2>3. QED  BY <2>2 DEF Printed
<1>3. n < Len(f) => F[n + 1] = Shows(f, a, n + 1)  BY <1>0
<1>4. n \in Nat  BY <1>0
<1>5. Flat(0) = <<>> /\ Flat(n) \in Seq(Symbol) /\ Flat(n + 1) = Flat(n) \o F[n + 1]
  <2> HIDE DEF F, Symbol
  <2> QED  BY <1>1, <1>4, FlattenLast
<1>6. 0 \in 0..Len(f) /\ (n < Len(f) => n + 1 \in 0..Len(f))  BY <1>0
<1> HIDE DEF F, Flat
<1>7. QED  BY <1>2, <1>3, <1>5, <1>6

LEMMA TextStart == TextInit => TextInv
<1> SUFFICES ASSUME TextInit PROVE TextInv
  OBVIOUS
<1>1. TextTypes
  <2>1. fmt \in Formats /\ args \in Arguments  BY DEF TextInit, Arguments
  <2>2. Len(fmt) \in Nat  BY <2>1, TextAssumption
  <2>3. w = 1 /\ shift = Hidden /\ ~digits /\ digits \in BOOLEAN /\ done \in BOOLEAN  BY DEF TextInit
  <2>4. w \in 1..(Len(fmt) + 1) /\ shift \in {Hidden} \cup 0..TopShift  BY <2>2, <2>3
  <2>5. QED  BY <2>1, <2>3, <2>4 DEF TextTypes
<1>2. BetweenCharacters
  <2>1. 0 \in 0..Len(fmt)  BY <1>1, TextAssumption DEF TextTypes
  <2>2. Printed(fmt, args, 0) = <<>>  BY <2>1, <1>1, PrintedNext DEF TextTypes
  <2>3. w - 1 = 0 /\ ~(w > 1) /\ out = <<>>  BY DEF TextInit
  <2>4. QED  BY <2>2, <2>3 DEF BetweenCharacters, EscapedAt
<1>3. BetweenDigits /\ AtTheEnd  BY DEF TextInit, BetweenDigits, AtTheEnd
<1>4. QED  BY <1>1, <1>2, <1>3 DEF TextInv

\* Past a character that is no %, and not escaped.
LEMMA PastPlain ==
  ASSUME NEW f \in Formats, NEW a \in Arguments, NEW n \in 1..Len(f),
         ~EscapedAt(f, n), f[n] # "%"
  PROVE  Printed(f, a, n) = Printed(f, a, n - 1) \o <<f[n]>> /\ ~EscapedAt(f, n + 1)
<1>0. Len(f) \in Nat /\ n - 1 \in 0..Len(f) /\ n - 1 < Len(f) /\ (n - 1) + 1 = n /\ (n + 1) - 1 = n
  BY TextAssumption
<1>1. ~EscapeAt(f, n)  BY DEF EscapeAt
<1>2. Shows(f, a, n) = <<f[n]>>  BY <1>1 DEF Shows
<1>3. QED  BY <1>0, <1>1, <1>2, PrintedNext DEF EscapedAt

\* Past a % that is not escaped and what it escapes.
LEMMA PastEscape ==
  ASSUME NEW f \in Formats, NEW a \in Arguments, NEW n \in 1..Len(f),
         ~EscapedAt(f, n), f[n] = "%"
  PROVE  /\ Printed(f, a, n) = Printed(f, a, n - 1)
         /\ n < Len(f) =>
              /\ Printed(f, a, n + 1) = Printed(f, a, n - 1) \o Shows(f, a, n + 1)
              /\ ~EscapeAt(f, n + 1) /\ EscapedAt(f, n + 1) /\ ~EscapedAt(f, n + 2)
<1>0. Len(f) \in Nat /\ n - 1 \in 0..Len(f) /\ n - 1 < Len(f) /\ (n - 1) + 1 = n /\ (n + 1) - 1 = n
      /\ n \in Nat \ {0} /\ n \in 0..Len(f) /\ n + 1 \in Nat \ {0} /\ (n + 2) - 1 = n + 1 /\ n + 1 > 1
  BY TextAssumption
<1>1. EscapeAt(f, n)  BY <1>0, EscapesAlternate
<1>2. Shows(f, a, n) = <<>>  BY <1>1 DEF Shows
<1>3. Printed(f, a, n - 1) \in Seq(Symbol)  BY <1>0, PrintedNext
<1>4. Printed(f, a, n) = Printed(f, a, n - 1) \o <<>>  BY <1>0, <1>2, PrintedNext
<1>5. Printed(f, a, n) = Printed(f, a, n - 1)  BY <1>3, <1>4
<1>6. EscapedAt(f, n + 1)  BY <1>0, <1>1 DEF EscapedAt
<1>7. ~EscapeAt(f, n + 1)  BY <1>0, <1>6, EscapesAlternate
<1>8. ~EscapedAt(f, n + 2)  BY <1>0, <1>7 DEF EscapedAt
<1>9. n < Len(f) => Printed(f, a, n + 1) = Printed(f, a, n) \o Shows(f, a, n + 1)
  BY <1>0, PrintedNext
<1>10. QED  BY <1>5, <1>6, <1>7, <1>8, <1>9

LEMMA LeadingDigit ==
  ASSUME NEW x \in Nat, NEW p \in Nat \ {0}, x < 16 * p
  PROVE  (x \div p) % 16 = 0 <=> x < p
<1>1. x \div p \in Nat /\ p * (x \div p) <= x /\ x < p * (x \div p) + p  OBVIOUS
<1> DEFINE q == x \div p
<1>2. q \in Nat /\ p * q <= x /\ x < p * q + p  BY <1>1
<1> HIDE DEF q
<1>3. q < 16
  <2> SUFFICES ASSUME q >= 16 PROVE FALSE  BY <1>2
  <2>1. p * 16 <= p * q  BY <1>2
  <2>2. QED  BY <1>2, <2>1
<1>4. q % 16 = q  BY <1>2, <1>3
<1>5. q = 0 <=> x < p
  <2>1. q = 0 => x < p  BY <1>2
  <2>2. q # 0 => p <= p * q  BY <1>2
  <2>3. QED  BY <1>2, <2>1, <2>2
<1>6. QED  BY <1>4, <1>5 DEF q

LEMMA FirstDigit ==
  ASSUME NEW v \in Words, NEW s \in 0..TopShift, v # 0, v < Power(16)[s + 1]
  PROVE  IF (v \div Power(16)[s]) % 16 = 0 THEN s # 0 /\ v < Power(16)[s]
                                           ELSE HexDigits(v) = s + 1
<1> DEFINE P == Power(16)
<1>1. v \in Nat /\ s \in Nat /\ s + 1 \in 1..(TopShift + 1) /\ TopShift \in Nat /\ (s + 1) - 1 = s
  BY WordsAre, TextAssumption
<1>2. P[s] \in Nat \ {0} /\ P[s + 1] = 16 * P[s] /\ P[0] = 1  BY <1>1, SixteenTo
<1> HIDE DEF P
<1>3. (v \div P[s]) % 16 = 0 <=> v < P[s]
  <2>1. v < 16 * P[s]  BY <1>2 DEF P
  <2>2. QED  BY <1>1, <1>2, <2>1, LeadingDigit
<1>4. v < P[s] => s # 0  BY <1>1, <1>2
<1>5. ~(v < P[s]) => HexDigits(v) = s + 1
  <2>1. ~(v < P[s]) => v >= P[(s + 1) - 1]  BY <1>1, <1>2
  <2>2. v < P[s + 1]  BY DEF P
  <2>3. QED  BY <1>1, <2>1, <2>2, HexDigitsIs DEF P
<1>6. QED  BY <1>3, <1>4, <1>5 DEF P

\* The step of the invariant, where fmt, args and the type of the rest are known.
LEMMA TextStep == TextInv /\ [TextNext]_text => TextInv'
<1> SUFFICES ASSUME TextInv, [TextNext]_text PROVE TextInv'
  OBVIOUS
<1>0. /\ fmt \in Formats /\ fmt' = fmt /\ args \in Arguments /\ args' = args
      /\ w \in 1..(Len(fmt) + 1) /\ Len(fmt) \in Nat /\ TopShift \in Nat /\ args.x \in Words
      /\ shift \in {Hidden} \cup 0..TopShift /\ digits \in BOOLEAN /\ done \in BOOLEAN
      /\ done => shift = Hidden
  <2>1. /\ fmt \in Formats /\ args \in Arguments /\ w \in 1..(Len(fmt) + 1)
        /\ shift \in {Hidden} \cup 0..TopShift /\ digits \in BOOLEAN /\ done \in BOOLEAN
        /\ done => shift = Hidden
    BY DEF TextInv, TextTypes
  <2>2. fmt' = fmt /\ args' = args
    BY DEF TextNext, text, Plain, Percent, Character, String, Unknown, HexZero, HexBegins,
           SkipZero, PrintDigit, Ends
  <2>3. Len(fmt) \in Nat /\ TopShift \in Nat  BY <2>1, TextAssumption
  <2>4. args.x \in Words  BY <2>1 DEF Arguments
  <2>5. QED  BY <2>1, <2>2, <2>3, <2>4
<1>h. Hidden \notin 0..TopShift  BY <1>0 DEF Hidden
<1>b. shift = Hidden => /\ out = Printed(fmt, args, w - 1)
                        /\ ~EscapedAt(fmt, w)
  BY DEF TextInv, BetweenCharacters
\* It is enough to say what the walk has printed and where it goes on.
<1>w. ASSUME shift' = Hidden, w' \in 1..(Len(fmt) + 1), digits' \in BOOLEAN, done' = done,
             ~done, out' = Printed(fmt, args, w' - 1), ~EscapedAt(fmt, w')
      PROVE  TextInv'
  <2>1. TextTypes'  BY <1>0, <1>w DEF TextTypes
  <2>2. BetweenCharacters'  BY <1>0, <1>w DEF BetweenCharacters
  <2>3. BetweenDigits' /\ AtTheEnd'  BY <1>0, <1>w DEF BetweenDigits, AtTheEnd
  <2>4. QED  BY <2>1, <2>2, <2>3 DEF TextInv
<1>e. ASSUME NEW c, Escape(c), shift' = shift, w' = w + 2, digits' = digits, done' = done,
             out' = out \o Shows(fmt, args, w + 1)
      PROVE  TextInv'
  <2>1. shift = Hidden /\ ~done /\ w \in 1..Len(fmt) /\ w < Len(fmt) /\ fmt[w] = "%"
    BY <1>0, <1>e DEF Escape, Next_c
  <2>2. Printed(fmt, args, w + 1) = out' /\ ~EscapedAt(fmt, w + 2)
    BY <1>0, <1>b, <1>e, <2>1, PastEscape
  <2>3. w' \in 1..(Len(fmt) + 1) /\ w' - 1 = w + 1  BY <1>0, <1>e, <2>1
  <2>4. QED  BY <1>0, <1>e, <1>w, <2>1, <2>2, <2>3
\* What the character behind the % shows.
<1>s. ASSUME NEW c, Escape(c)
      PROVE  Shows(fmt, args, w + 1) = CASE c = "c" -> <<args.c>>
                                         [] c = "s" -> args.s
                                         [] c = "x" -> Hexadecimal(args.x)
                                         [] c = "%" -> <<"%">>
                                         [] OTHER -> <<>>
  <2>1. shift = Hidden /\ w \in 1..Len(fmt) /\ w < Len(fmt) /\ fmt[w] = "%" /\ fmt[w + 1] = c
    BY <1>0, <1>s DEF Escape, Next_c
  <2>2. ~EscapeAt(fmt, w + 1) /\ EscapedAt(fmt, w + 1)
    BY <1>0, <1>b, <2>1, PastEscape
  <2>3. QED  BY <2>1, <2>2, Zenon DEF Shows
<1>1. CASE Plain
  <2>1. shift = Hidden /\ w \in 1..Len(fmt) /\ fmt[w] # "%" /\ out' = out \o <<fmt[w]>> /\ w' = w + 1
        /\ shift' = shift /\ digits' = digits /\ done' = done
    BY <1>0, <1>1 DEF Plain, Put, Past, Next_c
  <2>2. ~done
    BY <1>0, <2>1 DEF TextInv, AtTheEnd
  <2>3. Printed(fmt, args, w) = out' /\ ~EscapedAt(fmt, w + 1)
    BY <1>0, <1>b, <2>1, PastPlain
  <2>4. w' \in 1..(Len(fmt) + 1) /\ w' - 1 = w  BY <1>0, <2>1
  <2>5. QED  BY <1>0, <1>w, <2>1, <2>2, <2>3, <2>4
<1>2. CASE Percent
  <2>1. Escape("%") /\ shift' = shift /\ w' = w + 2 /\ digits' = digits /\ done' = done
        /\ out' = out \o <<"%">>
    BY <1>2 DEF Percent, Put, Past
  <2>2. Shows(fmt, args, w + 1) = <<"%">>  BY <1>s, <2>1
  <2>3. QED  BY <1>e, <2>1, <2>2
<1>3. CASE Character
  <2>1. Escape("c") /\ shift' = shift /\ w' = w + 2 /\ digits' = digits /\ done' = done
        /\ out' = out \o <<args.c>>
    BY <1>3 DEF Character, Put, Past
  <2>2. Shows(fmt, args, w + 1) = <<args.c>>  BY <1>s, <2>1
  <2>3. QED  BY <1>e, <2>1, <2>2
<1>4. CASE String
  <2>1. Escape("s") /\ shift' = shift /\ w' = w + 2 /\ digits' = digits /\ done' = done
        /\ out' = out \o args.s
    BY <1>4 DEF String, Put, Past
  <2>2. Shows(fmt, args, w + 1) = args.s  BY <1>s, <2>1
  <2>3. QED  BY <1>e, <2>1, <2>2
<1>5. CASE Unknown
  <2>1. PICK c \in {fmt[n] : n \in DOMAIN fmt} \ {"%", "c", "s", "x"} : Escape(c)
    BY <1>5 DEF Unknown
  <2>2. shift' = shift /\ w' = w + 2 /\ digits' = digits /\ done' = done /\ out' = out
    BY <1>5 DEF Unknown, Past
  <2>3. Shows(fmt, args, w + 1) = <<>>  BY <1>s, <2>1
  <2>4. out \in Seq(Symbol)
    <3>1. shift = Hidden /\ w - 1 \in 0..Len(fmt)  BY <1>0, <2>1 DEF Escape
    <3>2. QED  BY <1>0, <1>b, <3>1, PrintedNext
  <2>5. out' = out \o <<>>  BY <2>2, <2>4
  <2>6. QED  BY <1>e, <2>1, <2>2, <2>3, <2>5
<1>6. CASE HexZero
  <2>1. Escape("x") /\ shift' = shift /\ w' = w + 2 /\ digits' = digits /\ done' = done
        /\ out' = out \o <<0>> /\ args.x = 0
    BY <1>6 DEF HexZero, Put, Past
  <2>2. Shows(fmt, args, w + 1) = Hexadecimal(args.x)  BY <1>s, <2>1
  <2>3. Hexadecimal(args.x) = <<0>>
    <3>1. 0 \in Nat /\ 1 \in 1..(TopShift + 1) /\ 0 < Power(16)[1]
      <4>1. Power(16)[0 + 1] = 16 * Power(16)[0] /\ Power(16)[0] = 1  BY SixteenTo
      <4>2. QED  BY <4>1, <1>0
    <3>2. HexDigits(0) = 1  BY <3>1, HexDigitsIs
    <3>3. Hexadecimal(0) = [n \in 1..1 |-> (0 \div Power(16)[1 - n]) % 16]
      BY <3>2 DEF Hexadecimal
    <3>4. ASSUME NEW n \in 1..1 PROVE (0 \div Power(16)[1 - n]) % 16 = 0
      <4>1. 1 - n = 0  OBVIOUS
      <4>2. Power(16)[1 - n] = 1  BY <4>1, SixteenTo
      <4>3. QED  BY <4>2
    <3>5. [n \in 1..1 |-> (0 \div Power(16)[1 - n]) % 16] = [n \in 1..1 |-> 0]
      BY <3>4, Zenon
    <3>6. [n \in 1..1 |-> 0] = <<0>>  OBVIOUS
    <3>7. QED  BY <2>1, <3>3, <3>5, <3>6
  <2>4. QED  BY <1>e, <2>1, <2>2, <2>3
<1>7. CASE HexBegins
  <2>1. /\ shift = Hidden /\ ~done /\ w < Len(fmt) /\ fmt[w] = "%" /\ fmt[w + 1] = "x"
        /\ args.x # 0 /\ shift' = TopShift /\ digits' = FALSE /\ w' = w /\ out' = out /\ done' = done
    BY <1>7 DEF HexBegins, Escape, Next_c
  <2>2. TextTypes'
    <3>1. TopShift \in {Hidden} \cup 0..TopShift  BY <1>0
    <3>2. QED  BY <1>0, <2>1, <3>1 DEF TextTypes
  <2>3. BetweenCharacters'  BY <1>0, <1>h, <2>1 DEF BetweenCharacters
  <2>4. BetweenDigits'
    <3>1. args.x < Power(16)[TopShift + 1]  BY <1>0, WordsAre
    <3>2. out \in Seq(Symbol)
      <4>1. w - 1 \in 0..Len(fmt)  BY <1>0
      <4>2. QED  BY <1>0, <1>b, <4>1, <2>1, PrintedNext
    <3>3. out = out \o [n \in 1..0 |-> Hexadecimal(args.x)[n]]
      <4>1. [n \in 1..0 |-> Hexadecimal(args.x)[n]] = <<>>  OBVIOUS
      <4>2. QED  BY <3>2, <4>1
    <3>4. QED  BY <1>0, <1>b, <2>1, <3>1, <3>3 DEF BetweenDigits
  <2>5. AtTheEnd'  BY <2>1 DEF AtTheEnd
  <2>6. QED  BY <2>2, <2>3, <2>4, <2>5 DEF TextInv
<1>d. ASSUME shift # Hidden
      PROVE  /\ shift \in 0..TopShift /\ ~done /\ shift \in Nat
             /\ w < Len(fmt) /\ fmt[w] = "%" /\ fmt[w + 1] = "x" /\ ~EscapedAt(fmt, w) /\ args.x # 0
             /\ args.x < Power(16)[shift + 1] \/ digits
             /\ digits => HexDigits(args.x) - 1 - shift \in 0..HexDigits(args.x)
             /\ out = Printed(fmt, args, w - 1) \o
                      [n \in 1..(IF digits THEN HexDigits(args.x) - 1 - shift ELSE 0) |->
                         Hexadecimal(args.x)[n]]
  <2>1. shift \in 0..TopShift /\ ~done /\ shift \in Nat  BY <1>0, <1>d
  <2>2. QED  BY <1>d, <2>1 DEF TextInv, BetweenDigits
<1>k. HexDigits(args.x) \in 1..(TopShift + 1) /\ HexDigits(args.x) \in Nat
  BY <1>0, HexDigitsExist
<1>8. CASE SkipZero
  <2>1. /\ shift # Hidden /\ ~digits /\ w' = w /\ out' = out /\ done' = done
        /\ IF Digit(shift) = 0 THEN shift' = shift - 1 /\ digits' = digits
                               ELSE digits' = TRUE /\ shift' = shift
    BY <1>8 DEF SkipZero
  <2>2. IF Digit(shift) = 0 THEN shift # 0 /\ args.x < Power(16)[shift]
                            ELSE HexDigits(args.x) = shift + 1
    BY <1>0, <1>d, <2>1, FirstDigit DEF Digit
  <2>3. /\ shift' \in 0..TopShift /\ digits' \in BOOLEAN /\ (args.x < Power(16)[shift' + 1] \/ digits')
        /\ digits' => HexDigits(args.x) - 1 - shift' = 0
    <3>1. CASE Digit(shift) = 0
      <4>1. shift' = shift - 1 /\ shift # 0 /\ digits' = FALSE  BY <2>1, <2>2, <3>1
      <4>2. shift' \in 0..TopShift /\ shift' + 1 = shift  BY <4>1, <1>0, <1>d, <2>1
      <4>3. QED  BY <4>1, <4>2, <2>2, <3>1
    <3>2. CASE Digit(shift) # 0
      <4>1. shift' = shift /\ digits' = TRUE /\ HexDigits(args.x) = shift + 1  BY <2>1, <2>2, <3>2
      <4>2. QED  BY <4>1, <1>0, <1>d, <2>1
    <3>3. QED  BY <3>1, <3>2
  <2>4. TextTypes'  BY <1>0, <1>d, <2>1, <2>3 DEF TextTypes
  <2>5. BetweenCharacters'  BY <1>h, <2>3 DEF BetweenCharacters
  <2>6. BetweenDigits'
    <3>1. (IF digits' THEN HexDigits(args.x) - 1 - shift' ELSE 0) = 0  BY <2>3
    <3>2. out' = Printed(fmt, args, w - 1) \o [n \in 1..0 |-> Hexadecimal(args.x)[n]]
      BY <1>d, <2>1
    <3>3. HexDigits(args.x) - 1 - shift' = 0 => HexDigits(args.x) - 1 - shift' \in 0..HexDigits(args.x)
      BY <1>k
    <3>4. out' = Printed(fmt, args, w - 1) \o
                 [n \in 1..(IF digits' THEN HexDigits(args.x) - 1 - shift' ELSE 0) |->
                    Hexadecimal(args.x)[n]]
      BY <3>1, <3>2, Zenon
    <3>5. QED  BY <1>0, <1>d, <2>1, <2>3, <3>3, <3>4 DEF BetweenDigits
  <2>7. AtTheEnd'  BY <1>d, <2>1 DEF AtTheEnd
  <2>8. QED  BY <2>4, <2>5, <2>6, <2>7 DEF TextInv
<1>9. CASE PrintDigit
  <2> DEFINE s == shift
             H == HexDigits(args.x)
             len == H - 1 - shift
             Prefix(m) == [n \in 1..m |-> Hexadecimal(args.x)[n]]
             before == Printed(fmt, args, w - 1)
  <2>1. /\ shift # Hidden /\ digits = TRUE /\ digits' = digits /\ done' = done
        /\ out' = out \o <<Digit(shift)>> /\ shift' = shift - 1
        /\ w' = IF shift = 0 THEN w + 2 ELSE w
    BY <1>0, <1>9 DEF PrintDigit, Put
  <2>2. len \in 0..H /\ out = before \o Prefix(len) /\ s \in 0..TopShift /\ H \in Nat
    BY <1>d, <1>k, <2>1
  <2>3. len + 1 \in 1..H /\ H - (len + 1) = s /\ len \in Nat
    BY <2>2
  <2>4. Hexadecimal(args.x) \in Seq(Symbol) /\ before \in Seq(Symbol)
        /\ Shows(fmt, args, w + 1) = Hexadecimal(args.x)
    <3>1. w - 1 \in 0..Len(fmt) /\ w \in 1..Len(fmt) /\ w + 1 \in 1..Len(fmt)  BY <1>0, <1>d, <2>1
    <3>2. ~EscapeAt(fmt, w + 1) /\ EscapedAt(fmt, w + 1) /\ fmt[w + 1] = "x"
      BY <1>0, <1>d, <2>1, <3>1, PastEscape
    <3>3. Shows(fmt, args, w + 1) = Hexadecimal(args.x)  BY <3>2, Zenon DEF Shows
    <3>4. Shows(fmt, args, w + 1) \in Seq(Symbol)  BY <1>0, <3>1, ShowsType
    <3>5. QED  BY <1>0, <3>1, <3>3, <3>4, PrintedNext
  <2>5. Hexadecimal(args.x)[len + 1] = Digit(s)
    <3> HIDE DEF len, H, s
    <3>1. Hexadecimal(args.x) = [n \in 1..H |-> (args.x \div Power(16)[H - n]) % 16]
      BY DEF Hexadecimal, H
    <3>2. Hexadecimal(args.x)[len + 1] = (args.x \div Power(16)[H - (len + 1)]) % 16
      BY <3>1, <2>3
    <3>3. QED  BY <3>2, <2>3 DEF Digit
  <2>6. Len(Hexadecimal(args.x)) = H  BY <1>k DEF Hexadecimal
  <2>7. out' = before \o Prefix(len + 1)
    <3> DEFINE numeral == Hexadecimal(args.x)
    <3>1. numeral \in Seq(Symbol) /\ Len(numeral) = H  BY <2>4, <2>6
    <3> HIDE DEF numeral, before, len, H, s
    <3>2. \A n \in 1..H : numeral[n] \in Symbol  BY <3>1, <2>2
    <3>3. Prefix(len) \in Seq(Symbol) /\ <<numeral[len + 1]>> \in Seq(Symbol)
      <4> HIDE DEF Symbol
      <4>1. \A n \in 1..len : Hexadecimal(args.x)[n] \in Symbol  BY <3>2, <2>2, <2>3 DEF numeral
      <4>2. Prefix(len) \in Seq(Symbol)  BY <4>1, <2>3
      <4>3. QED  BY <4>2, <3>2, <2>3
    <3>4. Prefix(len + 1) = Prefix(len) \o <<numeral[len + 1]>>
      BY <2>3 DEF numeral
    <3>5. out' = (before \o Prefix(len)) \o <<numeral[len + 1]>>  BY <2>1, <2>2, <2>5 DEF numeral, s
    <3> HIDE DEF Prefix, Symbol
    <3>6. (before \o Prefix(len)) \o <<numeral[len + 1]>> = before \o (Prefix(len) \o <<numeral[len + 1]>>)
      BY <2>4, <3>3
    <3>7. QED  BY <3>4, <3>5, <3>6
  <2>8. CASE shift = 0
    <3>1. len + 1 = H /\ shift' = Hidden /\ w' = w + 2
      <4>1. shift' = 0 - 1 /\ w' = w + 2  BY <2>1, <2>8
      <4>2. len + 1 = H
        <5>1. H - (len + 1) = 0 /\ H \in Nat /\ len \in Nat  BY <2>2, <2>3, <2>8
        <5> HIDE DEF len, H
        <5>2. QED  BY <5>1
      <4>3. QED  BY <4>1, <4>2 DEF Hidden
    <3>2. Prefix(H) = Hexadecimal(args.x)
      <4>1. \A n \in 1..H : Prefix(H)[n] = Hexadecimal(args.x)[n]  OBVIOUS
      <4>2. QED  BY <2>4, <2>6 DEF Hexadecimal
    <3>3. out' = before \o Shows(fmt, args, w + 1)  BY <2>4, <2>7, <3>1, <3>2
    <3>4. w \in 1..Len(fmt) /\ w < Len(fmt) /\ w' - 1 = w + 1 /\ w' \in 1..(Len(fmt) + 1)
      BY <1>0, <1>d, <2>1, <3>1
    <3>5. out' = Printed(fmt, args, w' - 1) /\ ~EscapedAt(fmt, w')
      BY <1>0, <1>d, <2>1, <3>1, <3>3, <3>4, PastEscape
    <3>6. QED  BY <1>0, <1>d, <1>w, <2>1, <3>1, <3>4, <3>5
  <2>9. CASE shift # 0
    <3>1. /\ shift' \in 0..TopShift /\ w' = w /\ H - 1 - shift' = len + 1 /\ len + 1 \in 0..H
      <4>1. shift' = shift - 1 /\ shift \in 0..TopShift /\ w' = w  BY <1>d, <2>1, <2>9
      <4>2. shift' \in 0..TopShift  BY <4>1, <2>9, <1>0
      <4>3. H \in Nat /\ len + 1 \in 1..H  BY <2>2, <2>3
      <4>4. H - 1 - shift' = len + 1  BY <4>1, <4>3
      <4>5. len + 1 \in 0..H
        <5> HIDE DEF len, H
        <5> QED  BY <4>3
      <4>6. QED  BY <4>1, <4>2, <4>4, <4>5
    <3>2. TextTypes'  BY <1>0, <1>d, <2>1, <3>1 DEF TextTypes
    <3>3. BetweenCharacters'  BY <1>h, <3>1 DEF BetweenCharacters
    <3>4. BetweenDigits'
      <4>1. (IF digits' THEN H - 1 - shift' ELSE 0) = len + 1  BY <2>1, <3>1
      <4>2. out' = before \o Prefix(IF digits' THEN H - 1 - shift' ELSE 0)
        <5> HIDE DEF Prefix
        <5> QED  BY <4>1, <2>7
      <4>3. QED  BY <1>0, <1>d, <2>1, <3>1, <4>2 DEF BetweenDigits
    <3>5. AtTheEnd'  BY <1>d, <2>1 DEF AtTheEnd
    <3>6. QED  BY <3>2, <3>3, <3>4, <3>5 DEF TextInv
  <2>10. QED  BY <2>8, <2>9
<1>10. CASE Ends
  <2>1. shift = Hidden /\ (w > Len(fmt) \/ (w = Len(fmt) /\ fmt[w] = "%"))
        /\ done' = TRUE /\ w' = w /\ shift' = shift /\ digits' = digits /\ out' = out
    BY <1>10 DEF Ends, Next_c
  <2>2. TextTypes'  BY <1>0, <2>1 DEF TextTypes
  <2>3. BetweenCharacters' /\ BetweenDigits' /\ AtTheEnd'
    BY <1>0, <1>b, <2>1 DEF BetweenCharacters, BetweenDigits, AtTheEnd
  <2>4. QED  BY <2>2, <2>3 DEF TextInv
<1>11. CASE UNCHANGED text
  BY <1>11 DEF text, TextInv, TextTypes, BetweenCharacters, BetweenDigits, AtTheEnd
<1>12. QED
  BY <1>1, <1>2, <1>3, <1>4, <1>5, <1>6, <1>7, <1>8, <1>9, <1>10, <1>11 DEF TextNext

\* For every format and argument: the whole of what alt_printf should print.
THEOREM SpecPrintsFormat == TextSpec => []PrintsFormat
<1>1. TextInv => PrintsFormat
  <2> SUFFICES ASSUME TextInv, done PROVE out = Printed(fmt, args, Len(fmt))
    BY DEF PrintsFormat, Printed
  <2>1. /\ fmt \in Formats /\ args \in Arguments /\ w \in 1..(Len(fmt) + 1) /\ Len(fmt) \in Nat
        /\ out = Printed(fmt, args, w - 1) /\ ~EscapedAt(fmt, w)
        /\ w > Len(fmt) \/ (w = Len(fmt) /\ fmt[w] = "%")
    BY TextAssumption DEF TextInv, TextTypes, BetweenCharacters, AtTheEnd
  <2>2. CASE w > Len(fmt)
    <3>1. w - 1 = Len(fmt)  BY <2>1, <2>2
    <3>2. QED  BY <2>1, <3>1
  <2>3. CASE w = Len(fmt) /\ fmt[w] = "%"
    <3>1. w \in 1..Len(fmt)  BY <2>1, <2>3
    <3>2. QED  BY <2>1, <2>3, <3>1, PastEscape
  <2>4. QED  BY <2>1, <2>2, <2>3
<1>2. QED  BY <1>1, TextStart, TextStep, PTL DEF TextSpec

-----------------------------------------------------------------------------
(* The profiler                                                            *)
(*                                                                         *)
(* What the lists hold, and what the heap has given out, is stated for any *)
(* list and any heap first, and what each of the three ways to change a    *)
(* list does to the number of copies, of elements and of calls. The        *)
(* inductive invariant then says which element a suspended walk has found  *)
(* and that none like it is missed more than once, how the flag of the     *)
(* sampler, the clock and interrupts go together before the first          *)
(* interrupt, and that the heap's blocks and the elements of the lists are *)
(* in the order they were allocated in.                                    *)

\* The sums of the beginnings of a sequence.
Runs_(g, s) ==
  /\ g \in [Nat -> Int] /\ g[0] = 0
  /\ \A n \in Nat : n + 1 <= Len(s) => g[n + 1] = g[n] + s[n + 1]

LEMMA TotalRuns ==
  ASSUME NEW s \in Seq(Int), NEW g, Runs_(g, s)
  PROVE  Total(s) = g[Len(s)]
<1> DEFINE m == Len(s)
           Eq(f) == f = [n \in 0..m |-> IF n = 0 THEN 0 ELSE f[n - 1] + s[n]]
           h == [n \in 0..m |-> g[n]]
<1>0. m \in Nat /\ \A n \in 1..m : s[n] \in Int  OBVIOUS
<1>1. g \in [Nat -> Int] /\ g[0] = 0 /\ \A n \in Nat : n + 1 <= m => g[n + 1] = g[n] + s[n + 1]
  BY DEF Runs_
<1> HIDE DEF m
<1>2. Eq(h)
  <2>1. ASSUME NEW n \in 0..m PROVE g[n] = IF n = 0 THEN 0 ELSE h[n - 1] + s[n]
    <3>1. CASE n = 0  BY <1>1, <3>1
    <3>2. CASE n # 0
      <4>1. n - 1 \in 0..m /\ n - 1 \in Nat /\ (n - 1) + 1 = n /\ n <= m  BY <1>0, <3>2
      <4>2. h[n - 1] = g[n - 1]  BY <4>1
      <4>3. g[n] = g[n - 1] + s[n]  BY <1>1, <4>1
      <4>4. QED  BY <3>2, <4>2, <4>3
    <3>3. QED  BY <3>1, <3>2
  <2>2. QED  BY <2>1
<1> DEFINE t == CHOOSE f : Eq(f)
<1>3. Total(s) = t[m]
  BY Zenon DEF Total, m
<1>4. Eq(t)
  <2> HIDE DEF Eq, h
  <2> QED  BY <1>2, Zenon
<1>5. \A n \in 0..m : t[n] = IF n = 0 THEN 0 ELSE t[n - 1] + s[n]
  <2> HIDE DEF t
  <2> QED  BY <1>4
<1> HIDE DEF t
<1> DEFINE Same == {n \in Nat : n <= m => t[n] = g[n]}
<1>6. Nat \subseteq Same
  <2>1. 0 \in Same  BY <1>0, <1>1, <1>5
  <2>2. ASSUME NEW n \in Nat, n \in Same PROVE n + 1 \in Same
    <3> SUFFICES ASSUME n + 1 <= m PROVE t[n + 1] = g[n + 1]
      OBVIOUS
    <3>1. n + 1 \in 0..m /\ (n + 1) - 1 = n /\ n + 1 # 0 /\ n <= m  BY <1>0
    <3>2. t[n] = g[n]  BY <2>2, <3>1
    <3>3. t[n + 1] = t[n] + s[n + 1]  BY <1>5, <3>1
    <3>4. QED  BY <1>1, <3>2, <3>3
  <2> HIDE DEF Same
  <2>3. QED  BY <2>1, <2>2, Induction
<1>7. t[m] = g[m]  BY <1>0, <1>6
<1>8. QED  BY <1>3, <1>7 DEF m

LEMMA HasRuns ==
  ASSUME NEW s \in Seq(Int)
  PROVE  \E g : Runs_(g, s)
<1> DEFINE next == [n \in Nat |-> [x \in Int |-> IF n + 1 <= Len(s) THEN x + s[n + 1] ELSE x]]
<1>1. next \in [Nat -> [Int -> Int]]
  <2>1. ASSUME NEW n \in Nat, NEW x \in Int
        PROVE  (IF n + 1 <= Len(s) THEN x + s[n + 1] ELSE x) \in Int
    <3>1. n + 1 <= Len(s) => n + 1 \in 1..Len(s)  OBVIOUS
    <3>2. n + 1 <= Len(s) => s[n + 1] \in Int  BY <3>1
    <3>3. QED  BY <3>2
  <2>2. QED  BY <2>1
<1>2. PICK g \in [Nat -> Int] : Unfolds(g, 0, next)
  <2> DEFINE integers == Int
  <2>1. 0 \in integers /\ next \in [Nat -> [integers -> integers]]  BY <1>1
  <2> HIDE DEF next, integers
  <2>2. \E g \in [Nat -> integers] : Unfolds(g, 0, next)  BY <2>1, Recursion
  <2>3. QED  BY <2>2 DEF integers
<1>3. \A n \in Nat : n + 1 <= Len(s) => g[n + 1] = g[n] + s[n + 1]
  BY <1>2 DEF Unfolds
<1>4. QED  BY <1>2, <1>3 DEF Runs_, Unfolds

LEMMA TotalType ==
  ASSUME NEW s \in Seq(Int) PROVE Total(s) \in Int
<1>1. PICK g : Runs_(g, s)  BY HasRuns
<1>2. Len(s) \in Nat /\ g \in [Nat -> Int]  BY <1>1 DEF Runs_
<1>3. QED  BY <1>1, <1>2, TotalRuns

\* A number at the end adds to the sum.
LEMMA TotalAppend ==
  ASSUME NEW s \in Seq(Int), NEW x \in Int, NEW t \in Seq(Int),
         Len(t) = Len(s) + 1, \A n \in 1..Len(s) : t[n] = s[n], t[Len(s) + 1] = x
  PROVE  Total(t) = Total(s) + x
<1>1. PICK g : Runs_(g, t)  BY HasRuns
<1>2. Runs_(g, s)
  <2>1. ASSUME NEW n \in Nat, n + 1 <= Len(s) PROVE g[n + 1] = g[n] + s[n + 1]
    <3>1. n + 1 \in 1..Len(s) /\ n + 1 <= Len(t)  BY <2>1
    <3>2. QED  BY <1>1, <3>1 DEF Runs_
  <2>2. QED  BY <1>1, <2>1 DEF Runs_
<1>3. Total(s) = g[Len(s)] /\ Total(t) = g[Len(s) + 1]  BY <1>1, <1>2, TotalRuns
<1>4. Len(s) \in Nat /\ Len(s) + 1 <= Len(t)  OBVIOUS
<1>5. g[Len(s) + 1] = g[Len(s)] + x  BY <1>1, <1>4 DEF Runs_
<1>6. QED  BY <1>3, <1>5

\* A number that changes changes the sum by as much.
LEMMA TotalExcept ==
  ASSUME NEW s \in Seq(Int), NEW t \in Seq(Int), NEW k \in 1..Len(s),
         Len(t) = Len(s), \A n \in 1..Len(s) : n # k => t[n] = s[n]
  PROVE  Total(t) = Total(s) - s[k] + t[k]
<1>0. Len(s) \in Nat /\ s[k] \in Int /\ t[k] \in Int /\ k \in Nat  OBVIOUS
<1>1. PICK g : Runs_(g, s)  BY HasRuns
<1> DEFINE h == [n \in Nat |-> IF n < k THEN g[n] ELSE g[n] - s[k] + t[k]]
<1>2. Runs_(h, t)
  <2>1. g \in [Nat -> Int] /\ g[0] = 0  BY <1>1 DEF Runs_
  <2>2. h \in [Nat -> Int] /\ h[0] = 0  BY <1>0, <2>1
  <2>3. ASSUME NEW n \in Nat, n + 1 <= Len(t) PROVE h[n + 1] = h[n] + t[n + 1]
    <3>1. n + 1 \in 1..Len(s)  BY <2>3
    <3>2. g[n + 1] = g[n] + s[n + 1] /\ g[n] \in Int /\ g[n + 1] \in Int /\ s[n + 1] \in Int
      BY <1>1, <3>1 DEF Runs_
    <3>3. /\ h[n] = IF n < k THEN g[n] ELSE g[n] - s[k] + t[k]
          /\ h[n + 1] = IF n + 1 < k THEN g[n + 1] ELSE g[n + 1] - s[k] + t[k]
      OBVIOUS
    <3> HIDE DEF h
    <3>4. CASE n + 1 = k
      <4>1. h[n] = g[n] /\ h[n + 1] = g[n + 1] - s[k] + t[k]  BY <1>0, <3>3, <3>4
      <4>2. s[n + 1] = s[k] /\ t[n + 1] = t[k]  BY <3>4
      <4>3. g[n + 1] = g[n] + s[k]  BY <3>2, <4>2
      <4>4. h[n + 1] = g[n] + t[k]  BY <1>0, <3>2, <4>1, <4>3
      <4>5. QED  BY <4>1, <4>2, <4>4
    <3>5. CASE n + 1 # k
      <4>1. t[n + 1] = s[n + 1]  BY <3>1, <3>5
      <4>2. n < k <=> n + 1 < k  BY <1>0, <3>5
      <4>3. CASE n < k
        <5>1. h[n] = g[n] /\ h[n + 1] = g[n + 1]  BY <3>3, <4>2, <4>3
        <5>2. QED  BY <3>2, <4>1, <5>1
      <4>4. CASE ~(n < k)
        <5>1. h[n] = g[n] - s[k] + t[k] /\ h[n + 1] = g[n + 1] - s[k] + t[k]  BY <3>3, <4>2, <4>4
        <5> DEFINE a == g[n]
                   b == s[n + 1]
                   c == s[k]
                   d == t[k]
        <5>2. a \in Int /\ b \in Int /\ c \in Int /\ d \in Int  BY <1>0, <3>2
        <5>3. h[n] = a - c + d /\ h[n + 1] = (a + b) - c + d /\ t[n + 1] = b  BY <3>2, <4>1, <5>1
        <5> HIDE DEF a, b, c, d
        <5>4. (a + b) - c + d = (a - c + d) + b  BY <5>2
        <5>5. QED  BY <5>3, <5>4
      <4>5. QED  BY <4>3, <4>4
    <3>6. QED  BY <3>4, <3>5
  <2> HIDE DEF h
  <2>4. QED  BY <2>2, <2>3 DEF Runs_
<1>3. Total(s) = g[Len(s)] /\ Total(t) = h[Len(s)]
  <2>1. Total(s) = g[Len(s)]  BY <1>1, TotalRuns
  <2> HIDE DEF h
  <2>2. Total(t) = h[Len(t)]  BY <1>2, TotalRuns
  <2>3. QED  BY <2>1, <2>2
<1>4. h[Len(s)] = g[Len(s)] - s[k] + t[k]  BY <1>0
<1>5. QED  BY <1>3, <1>4


\* The counts of an element, in a sequence.
Counts(e, s) == [j \in 1..Len(e.arcs) |-> IF e.arcs[j].from = s THEN e.arcs[j].count ELSE 0]

LEMMA CountsType ==
  ASSUME NEW e \in FnEntry, NEW s
  PROVE  /\ Counts(e, s) \in Seq(Int) /\ Len(Counts(e, s)) = Len(e.arcs)
         /\ \A j \in 1..Len(e.arcs) :
              Counts(e, s)[j] = IF e.arcs[j].from = s THEN e.arcs[j].count ELSE 0
         /\ \A f : CountIn(e, f, s) \in Int
<1>1. e.arcs \in Seq(ArcEntry) /\ Len(e.arcs) \in Nat  BY DEF FnEntry
<1>2. ASSUME NEW j \in 1..Len(e.arcs)
      PROVE  (IF e.arcs[j].from = s THEN e.arcs[j].count ELSE 0) \in Int
  <2>1. e.arcs[j] \in ArcEntry  BY <1>1
  <2>2. e.arcs[j].count \in Nat  BY <2>1 DEF ArcEntry
  <2>3. QED  BY <2>2
<1>3. Counts(e, s) \in Seq(Int) /\ Len(Counts(e, s)) = Len(e.arcs)
  BY <1>1, <1>2 DEF Counts
<1>4. ASSUME NEW f PROVE CountIn(e, f, s) \in Int
  <2>1. Total(Counts(e, s)) \in Int  BY <1>3, TotalType
  <2>2. CountIn(e, f, s) = IF e.self = f THEN Total(Counts(e, s)) ELSE 0  BY Zenon DEF CountIn, Counts
  <2>3. QED  BY <2>1, <2>2
<1>5. QED  BY <1>3, <1>4 DEF Counts

\* The element d is e but for the count of its arc j.
CountSet(e, d, j, c) ==
  /\ d.self = e.self /\ Len(d.arcs) = Len(e.arcs)
  /\ \A i \in 1..Len(e.arcs) : /\ d.arcs[i].from = e.arcs[i].from
                               /\ d.arcs[i].count = IF i = j THEN c ELSE e.arcs[i].count

LEMMA CountChanges ==
  ASSUME NEW e \in FnEntry, NEW d \in FnEntry, NEW j \in 1..Len(e.arcs), NEW c \in Nat,
         CountSet(e, d, j, c), NEW f, NEW s
  PROVE  CountIn(d, f, s) = CountIn(e, f, s) +
           IF f = e.self /\ s = e.arcs[j].from THEN c - e.arcs[j].count ELSE 0
<1>1. e.arcs \in Seq(ArcEntry) /\ e.arcs[j] \in ArcEntry
  <2>1. e.arcs \in Seq(ArcEntry)  BY DEF FnEntry
  <2>2. QED  BY <2>1
<1>2. d.self = e.self /\ Len(d.arcs) = Len(e.arcs)
  BY DEF CountSet
<1>3. \A i \in 1..Len(e.arcs) : /\ d.arcs[i].from = e.arcs[i].from
                                /\ d.arcs[i].count = IF i = j THEN c ELSE e.arcs[i].count
  BY DEF CountSet
<1> DEFINE p == Counts(e, s)
           q == Counts(d, s)
           x == IF e.arcs[j].from = s THEN e.arcs[j].count ELSE 0
           y == IF e.arcs[j].from = s THEN c ELSE 0
<1>a. /\ p \in Seq(Int) /\ Len(p) = Len(e.arcs)
      /\ \A i \in 1..Len(e.arcs) : p[i] = IF e.arcs[i].from = s THEN e.arcs[i].count ELSE 0
  BY CountsType
<1>b. /\ q \in Seq(Int) /\ Len(q) = Len(e.arcs)
      /\ \A i \in 1..Len(e.arcs) : q[i] = IF d.arcs[i].from = s THEN d.arcs[i].count ELSE 0
  <2>1. /\ q \in Seq(Int) /\ Len(q) = Len(d.arcs)
        /\ \A i \in 1..Len(d.arcs) : q[i] = IF d.arcs[i].from = s THEN d.arcs[i].count ELSE 0
    <3>1. \A h \in FnEntry :
            /\ Counts(h, s) \in Seq(Int) /\ Len(Counts(h, s)) = Len(h.arcs)
            /\ \A i \in 1..Len(h.arcs) : Counts(h, s)[i] = IF h.arcs[i].from = s THEN h.arcs[i].count ELSE 0
      BY CountsType
    <3>2. QED  BY <3>1, Zenon
  <2> HIDE DEF q
  <2>2. QED  BY <1>2, <2>1
<1> HIDE DEF p, q
<1>4. p[j] = x /\ q[j] = y /\ \A i \in 1..Len(e.arcs) : i # j => q[i] = p[i]
  BY <1>a, <1>b, <1>3
<1>5. Total(q) = Total(p) - p[j] + q[j]
  <2> HIDE DEF x, y
  <2> QED  BY <1>a, <1>b, <1>4, TotalExcept
<1>6. Total(q) = Total(p) + IF s = e.arcs[j].from THEN c - e.arcs[j].count ELSE 0
  <2>1. Total(p) \in Int  BY <1>a, TotalType
  <2>2. e.arcs[j].count \in Nat  BY <1>1 DEF ArcEntry
  <2> DEFINE n == e.arcs[j].count
             t == Total(p)
  <2>3. n \in Nat /\ t \in Int  BY <2>1, <2>2
  <2>4. Total(q) = t - x + y  BY <1>4, <1>5
  <2>5. CASE s = e.arcs[j].from
    <3>1. x = n /\ y = c  BY <2>5
    <3> HIDE DEF x, y, n, t
    <3>2. t - n + c = t + (c - n)  BY <2>3
    <3>3. Total(q) = t + (c - n)  BY <2>4, <3>1, <3>2
    <3>4. QED  BY <3>3, <2>5 DEF n, t
  <2>6. CASE s # e.arcs[j].from
    <3>1. x = 0 /\ y = 0  BY <2>6
    <3> HIDE DEF x, y, n, t
    <3>2. Total(q) = t + 0  BY <2>3, <2>4, <3>1
    <3>3. QED  BY <3>2, <2>6 DEF t
  <2>7. QED  BY <2>5, <2>6
<1>7. /\ CountIn(e, f, s) = IF e.self = f THEN Total(Counts(e, s)) ELSE 0
      /\ CountIn(d, f, s) = IF d.self = f THEN Total(Counts(d, s)) ELSE 0
  BY Zenon DEF CountIn, Counts
<1>8. Total(p) \in Int  BY <1>a, TotalType
<1>9. QED  BY <1>2, <1>6, <1>7, <1>8 DEF p, q

LEMMA CountGrows ==
  ASSUME NEW e \in FnEntry, NEW from \in Site, NEW d \in FnEntry,
         d.self = e.self, Len(d.arcs) = Len(e.arcs) + 1,
         \A i \in 1..Len(e.arcs) : d.arcs[i] = e.arcs[i],
         d.arcs[Len(e.arcs) + 1] = NewArc(from), NEW f, NEW s
  PROVE  CountIn(d, f, s) = CountIn(e, f, s) + IF f = e.self /\ s = from THEN 1 ELSE 0
<1>1. e.arcs \in Seq(ArcEntry) /\ Len(e.arcs) \in Nat
  <2>1. e.arcs \in Seq(ArcEntry)  BY DEF FnEntry
  <2>2. QED  BY <2>1
<1>2. /\ d.self = e.self /\ Len(d.arcs) = Len(e.arcs) + 1
      /\ \A i \in 1..Len(e.arcs) : d.arcs[i] = e.arcs[i]
      /\ d.arcs[Len(e.arcs) + 1] = NewArc(from)
  OBVIOUS
<1> DEFINE x == IF s = from THEN 1 ELSE 0
           p == Counts(e, s)
           q == Counts(d, s)
           n == Len(e.arcs)
<1>a. /\ p \in Seq(Int) /\ Len(p) = n
      /\ \A i \in 1..n : p[i] = IF e.arcs[i].from = s THEN e.arcs[i].count ELSE 0
  BY CountsType
<1>b. /\ q \in Seq(Int) /\ Len(q) = n + 1
      /\ \A i \in 1..(n + 1) : q[i] = IF d.arcs[i].from = s THEN d.arcs[i].count ELSE 0
  <2>1. /\ q \in Seq(Int) /\ Len(q) = Len(d.arcs)
        /\ \A i \in 1..Len(d.arcs) : q[i] = IF d.arcs[i].from = s THEN d.arcs[i].count ELSE 0
    <3>1. \A h \in FnEntry :
            /\ Counts(h, s) \in Seq(Int) /\ Len(Counts(h, s)) = Len(h.arcs)
            /\ \A i \in 1..Len(h.arcs) : Counts(h, s)[i] = IF h.arcs[i].from = s THEN h.arcs[i].count ELSE 0
      BY CountsType
    <3>2. QED  BY <3>1, Zenon
  <2> HIDE DEF q
  <2>2. QED  BY <1>2, <2>1
<1>c. n \in Nat /\ d.arcs[n + 1] = NewArc(from) /\ \A i \in 1..n : d.arcs[i] = e.arcs[i]
  BY <1>1, <1>2
<1>5. x \in Int  OBVIOUS
<1> HIDE DEF p, q, n
<1>3. \A i \in 1..n : q[i] = p[i]
  <2>1. \A i \in 1..n : i \in 1..(n + 1)  BY <1>c
  <2>2. QED  BY <1>a, <1>b, <1>c, <2>1
<1>4. q[n + 1] = x
  <2>1. n + 1 \in 1..(n + 1)  BY <1>c
  <2>2. q[n + 1] = IF NewArc(from).from = s THEN NewArc(from).count ELSE 0  BY <1>b, <1>c, <2>1
  <2>3. QED  BY <2>2 DEF NewArc
<1> HIDE DEF x
<1>6. Total(q) = Total(p) + x  BY <1>a, <1>b, <1>3, <1>4, <1>5, TotalAppend
<1>7. /\ CountIn(e, f, s) = IF e.self = f THEN Total(Counts(e, s)) ELSE 0
      /\ CountIn(d, f, s) = IF d.self = f THEN Total(Counts(d, s)) ELSE 0
  BY Zenon DEF CountIn, Counts
<1>8. Total(p) \in Int  BY <1>a, TotalType
<1>9. QED  BY <1>2, <1>6, <1>7, <1>8 DEF x, p, q

\* The counts and the arcs of the elements of a list, in sequences.
CountsOf(F, f, s) == [k \in 1..Len(F) |-> CountIn(F[k], f, s)]
ArcsOf(F)         == [k \in 1..Len(F) |-> Len(F[k].arcs)]

LEMMA SumsOf ==
  ASSUME NEW F \in Seq(FnEntry), NEW f, NEW s
  PROVE  /\ Len(F) \in Nat /\ \A k \in 1..Len(F) : F[k] \in FnEntry
         /\ CountsOf(F, f, s) \in Seq(Int) /\ Len(CountsOf(F, f, s)) = Len(F)
         /\ \A k \in 1..Len(F) : CountsOf(F, f, s)[k] = CountIn(F[k], f, s)
         /\ ArcsOf(F) \in Seq(Int) /\ Len(ArcsOf(F)) = Len(F)
         /\ \A k \in 1..Len(F) : ArcsOf(F)[k] = Len(F[k].arcs)
         /\ Counted(F, f, s) = Total(CountsOf(F, f, s)) /\ Counted(F, f, s) \in Int
         /\ Elements(F) = Len(F) + Total(ArcsOf(F)) /\ Total(ArcsOf(F)) \in Int
<1>1. Len(F) \in Nat /\ \A k \in 1..Len(F) : F[k] \in FnEntry  OBVIOUS
<1>2. \A k \in 1..Len(F) : CountIn(F[k], f, s) \in Int  BY <1>1, CountsType
<1>3. \A k \in 1..Len(F) : Len(F[k].arcs) \in Int  BY <1>1 DEF FnEntry
<1>4. /\ CountsOf(F, f, s) \in Seq(Int) /\ Len(CountsOf(F, f, s)) = Len(F)
      /\ \A k \in 1..Len(F) : CountsOf(F, f, s)[k] = CountIn(F[k], f, s)
  BY <1>1, <1>2 DEF CountsOf
<1>5. /\ ArcsOf(F) \in Seq(Int) /\ Len(ArcsOf(F)) = Len(F)
      /\ \A k \in 1..Len(F) : ArcsOf(F)[k] = Len(F[k].arcs)
  BY <1>1, <1>3 DEF ArcsOf
<1>6. Counted(F, f, s) = Total(CountsOf(F, f, s))  BY Zenon DEF Counted, CountsOf
<1>7. Elements(F) = Len(F) + Total(ArcsOf(F))  BY Zenon DEF Elements, ArcsOf
<1>8. Total(CountsOf(F, f, s)) \in Int /\ Total(ArcsOf(F)) \in Int  BY <1>4, <1>5, TotalType
<1>9. QED  BY <1>1, <1>4, <1>5, <1>6, <1>7, <1>8

\* One element of a list changes.
LEMMA OneElement ==
  ASSUME NEW F \in Seq(FnEntry), NEW G \in Seq(FnEntry), NEW i \in 1..Len(F),
         Len(G) = Len(F), \A k \in 1..Len(F) : k # i => G[k] = F[k], NEW f, NEW s
  PROVE  /\ Counted(G, f, s) = Counted(F, f, s) - CountIn(F[i], f, s) + CountIn(G[i], f, s)
         /\ Elements(G) = Elements(F) - Len(F[i].arcs) + Len(G[i].arcs)
<1> DEFINE p == CountsOf(F, f, s)
           q == CountsOf(G, f, s)
           x == ArcsOf(F)
           y == ArcsOf(G)
<1>0. i \in 1..Len(G)  OBVIOUS
<1>1. /\ p \in Seq(Int) /\ Len(p) = Len(F) /\ \A k \in 1..Len(F) : p[k] = CountIn(F[k], f, s)
      /\ x \in Seq(Int) /\ Len(x) = Len(F) /\ \A k \in 1..Len(F) : x[k] = Len(F[k].arcs)
      /\ Counted(F, f, s) = Total(p) /\ Elements(F) = Len(F) + Total(x) /\ Total(x) \in Int /\ Len(F) \in Nat
  BY SumsOf, SMTT(60)
<1>2. /\ q \in Seq(Int) /\ Len(q) = Len(G) /\ \A k \in 1..Len(G) : q[k] = CountIn(G[k], f, s)
      /\ y \in Seq(Int) /\ Len(y) = Len(G) /\ \A k \in 1..Len(G) : y[k] = Len(G[k].arcs)
      /\ Counted(G, f, s) = Total(q) /\ Elements(G) = Len(G) + Total(y)
  BY SumsOf, SMTT(60)
<1> HIDE DEF p, q, x, y
<1>3. \A k \in 1..Len(p) : k # i => q[k] = p[k] /\ y[k] = x[k]
  BY <1>1, <1>2
<1>4. Total(q) = Total(p) - p[i] + q[i]
  BY <1>1, <1>2, <1>3, TotalExcept
<1>5. Total(y) = Total(x) - x[i] + y[i]
  BY <1>1, <1>2, <1>3, TotalExcept
<1>6. p[i] = CountIn(F[i], f, s) /\ q[i] = CountIn(G[i], f, s)
  BY <1>0, <1>1, <1>2
<1>7. x[i] = Len(F[i].arcs) /\ y[i] = Len(G[i].arcs) /\ x[i] \in Int /\ y[i] \in Int
  BY <1>0, <1>1, <1>2
<1>8. Elements(G) = Elements(F) - Len(F[i].arcs) + Len(G[i].arcs)
  <2> DEFINE n == Len(F)
             t == Total(x)
             u == x[i]
             v == y[i]
  <2>1. n \in Int /\ t \in Int /\ u \in Int /\ v \in Int  BY <1>1, <1>7
  <2>2. Elements(F) = n + t /\ Elements(G) = n + (t - u + v)  BY <1>1, <1>2, <1>5
  <2>3. Len(F[i].arcs) = u /\ Len(G[i].arcs) = v  BY <1>7
  <2> HIDE DEF n, t, u, v
  <2>4. QED  BY <2>1, <2>2, <2>3
<1>9. QED  BY <1>1, <1>2, <1>4, <1>6, <1>8

\* The list G keeps every element of F in its place, with its arcs.
Keeps(F, G) ==
  \A k \in 1..Len(F) :
    /\ k \in 1..Len(G) /\ G[k].self = F[k].self
    /\ \A j \in 1..Len(F[k].arcs) : j \in 1..Len(G[k].arcs) /\ G[k].arcs[j].from = F[k].arcs[j].from

LEMMA Replaced ==
  ASSUME NEW S, NEW F \in Seq(S), NEW i \in 1..Len(F), NEW d \in S
  PROVE  /\ [F EXCEPT ![i] = d] \in Seq(S) /\ Len([F EXCEPT ![i] = d]) = Len(F)
         /\ [F EXCEPT ![i] = d][i] = d
         /\ \A k \in 1..Len(F) : k # i => [F EXCEPT ![i] = d][k] = F[k]
OBVIOUS

LEMMA Appended ==
  ASSUME NEW S, NEW F \in Seq(S), NEW d \in S
  PROVE  /\ Append(F, d) \in Seq(S) /\ Len(Append(F, d)) = Len(F) + 1 /\ Len(F) \in Nat
         /\ Append(F, d)[Len(F) + 1] = d
         /\ \A k \in 1..Len(F) : Append(F, d)[k] = F[k] /\ k \in 1..(Len(F) + 1)
OBVIOUS

LEMMA EntryIs ==
  ASSUME NEW e \in FnEntry
  PROVE  /\ e.self \in Fn /\ e.arcs \in Seq(ArcEntry) /\ Len(e.arcs) \in Nat
         /\ \A j \in 1..Len(e.arcs) : /\ e.arcs[j] \in ArcEntry
                                      /\ e.arcs[j].from \in Site /\ e.arcs[j].count \in Nat
<1>1. e.self \in Fn /\ e.arcs \in Seq(ArcEntry)  BY DEF FnEntry
<1>2. Len(e.arcs) \in Nat /\ \A j \in 1..Len(e.arcs) : e.arcs[j] \in ArcEntry  BY <1>1
<1>3. QED  BY <1>1, <1>2 DEF ArcEntry

LEMMA EntriesAre ==
  ASSUME NEW F \in Seq(FnEntry)
  PROVE  /\ Len(F) \in Nat
         /\ \A i \in 1..Len(F) :
              /\ F[i] \in FnEntry /\ F[i].self \in Fn /\ F[i].arcs \in Seq(ArcEntry) /\ Len(F[i].arcs) \in Nat
              /\ \A j \in 1..Len(F[i].arcs) : /\ F[i].arcs[j] \in ArcEntry
                                              /\ F[i].arcs[j].from \in Site /\ F[i].arcs[j].count \in Nat
<1>1. Len(F) \in Nat /\ \A i \in 1..Len(F) : F[i] \in FnEntry  OBVIOUS
<1>2. QED  BY <1>1, EntryIs

LEMMA WithArcs ==
  ASSUME NEW e \in FnEntry, NEW a \in Seq(ArcEntry)
  PROVE  [e EXCEPT !.arcs = a] \in FnEntry /\ [e EXCEPT !.arcs = a].self = e.self
         /\ [e EXCEPT !.arcs = a].arcs = a
BY DEF FnEntry

\* What the three ways to change a list make of it.
StoredIn(F, G, i, j, c) ==
  /\ G \in Seq(FnEntry) /\ Len(G) = Len(F) /\ \A k \in 1..Len(F) : k # i => G[k] = F[k]
  /\ G[i].self = F[i].self /\ Len(G[i].arcs) = Len(F[i].arcs)
  /\ \A n \in 1..Len(F[i].arcs) : /\ G[i].arcs[n].from = F[i].arcs[n].from
                                  /\ G[i].arcs[n].count = IF n = j THEN c ELSE F[i].arcs[n].count

ArcLinkedIn(F, G, i, from) ==
  /\ G \in Seq(FnEntry) /\ Len(G) = Len(F) /\ \A k \in 1..Len(F) : k # i => G[k] = F[k]
  /\ G[i].self = F[i].self /\ Len(G[i].arcs) = Len(F[i].arcs) + 1
  /\ \A n \in 1..Len(F[i].arcs) : G[i].arcs[n] = F[i].arcs[n]
  /\ G[i].arcs[Len(F[i].arcs) + 1] = NewArc(from)

FnLinkedIn(F, G, self, from) ==
  /\ G \in Seq(FnEntry) /\ Len(G) = Len(F) + 1 /\ \A k \in 1..Len(F) : G[k] = F[k]
  /\ G[Len(F) + 1] = [self |-> self, arcs |-> <<NewArc(from)>>]

LEMMA NewArcIs ==
  ASSUME NEW from \in Site
  PROVE  NewArc(from) \in ArcEntry /\ NewArc(from).from = from /\ NewArc(from).count = 1
BY DEF NewArc, ArcEntry

LEMMA Stored ==
  ASSUME NEW F \in Seq(FnEntry), NEW i \in 1..Len(F), NEW j \in 1..Len(F[i].arcs), NEW c \in Nat
  PROVE  StoredIn(F, [F EXCEPT ![i].arcs[j].count = c], i, j, c)
<1> DEFINE e == F[i]
           x == e.arcs[j]
           y == [x EXCEPT !.count = c]
           a == [e.arcs EXCEPT ![j] = y]
           d == [e EXCEPT !.arcs = a]
           G == [F EXCEPT ![i] = d]
<1>1. e \in FnEntry /\ e.arcs \in Seq(ArcEntry) /\ j \in 1..Len(e.arcs) /\ x \in ArcEntry
  BY EntriesAre
<1>2. G = [F EXCEPT ![i].arcs[j].count = c]  OBVIOUS
<1> HIDE DEF e
<1>3. y \in ArcEntry /\ y.from = x.from /\ y.count = c
  <2> HIDE DEF x
  <2> QED  BY <1>1 DEF ArcEntry
<1>4. /\ a \in Seq(ArcEntry) /\ Len(a) = Len(e.arcs) /\ a[j] = y
      /\ \A n \in 1..Len(e.arcs) : n # j => a[n] = e.arcs[n]
  <2> HIDE DEF y, x
  <2> QED  BY <1>1, <1>3, Replaced
<1>5. d \in FnEntry /\ d.self = e.self /\ d.arcs = a
  <2> HIDE DEF a
  <2> QED  BY <1>1, <1>4, WithArcs
<1>6. /\ G \in Seq(FnEntry) /\ Len(G) = Len(F) /\ G[i] = d
      /\ \A k \in 1..Len(F) : k # i => G[k] = F[k]
  <2> HIDE DEF d
  <2> QED  BY <1>5, Replaced
<1>7. \A n \in 1..Len(e.arcs) : a[n].from = e.arcs[n].from /\ a[n].count = IF n = j THEN c ELSE e.arcs[n].count
  <2>1. x = e.arcs[j]  OBVIOUS
  <2> HIDE DEF a, y, x
  <2>2. QED  BY <1>3, <1>4, <2>1
<1>8. StoredIn(F, G, i, j, c)
  <2>1. e = F[i]  BY DEF e
  <2> HIDE DEF G, d, a, y, x
  <2>2. QED  BY <1>4, <1>5, <1>6, <1>7, <2>1 DEF StoredIn
<1>9. QED  BY <1>2, <1>8, Zenon

LEMMA ArcLinked ==
  ASSUME NEW F \in Seq(FnEntry), NEW i \in 1..Len(F), NEW from \in Site
  PROVE  ArcLinkedIn(F, [F EXCEPT ![i].arcs = Append(@, NewArc(from))], i, from)
<1> DEFINE e == F[i]
           y == NewArc(from)
           a == Append(e.arcs, y)
           d == [e EXCEPT !.arcs = a]
           G == [F EXCEPT ![i] = d]
<1>1. e \in FnEntry /\ e.arcs \in Seq(ArcEntry) /\ y \in ArcEntry
  BY EntriesAre, NewArcIs
<1>2. G = [F EXCEPT ![i].arcs = Append(@, NewArc(from))]  OBVIOUS
<1> HIDE DEF e, y
<1>3. /\ a \in Seq(ArcEntry) /\ Len(a) = Len(e.arcs) + 1 /\ a[Len(e.arcs) + 1] = y
      /\ \A n \in 1..Len(e.arcs) : a[n] = e.arcs[n]
  BY <1>1, Appended
<1>4. d \in FnEntry /\ d.self = e.self /\ d.arcs = a
  <2> HIDE DEF a
  <2> QED  BY <1>1, <1>3, WithArcs
<1>5. /\ G \in Seq(FnEntry) /\ Len(G) = Len(F) /\ G[i] = d
      /\ \A k \in 1..Len(F) : k # i => G[k] = F[k]
  <2> HIDE DEF d
  <2> QED  BY <1>4, Replaced
<1>6. ArcLinkedIn(F, G, i, from)
  <2>1. e = F[i] /\ y = NewArc(from)  BY DEF e, y
  <2> HIDE DEF G, d, a
  <2>2. QED  BY <1>3, <1>4, <1>5, <2>1 DEF ArcLinkedIn
<1>7. QED  BY <1>2, <1>6, Zenon

LEMMA FnLinked ==
  ASSUME NEW F \in Seq(FnEntry), NEW self \in Fn, NEW from \in Site
  PROVE  FnLinkedIn(F, Append(F, [self |-> self, arcs |-> <<NewArc(from)>>]), self, from)
<1> DEFINE d == [self |-> self, arcs |-> <<NewArc(from)>>]
<1>1. d \in FnEntry
  <2>1. <<NewArc(from)>> \in Seq(ArcEntry)  BY NewArcIs
  <2>2. QED  BY <2>1 DEF FnEntry
<1>2. d = [self |-> self, arcs |-> <<NewArc(from)>>]  OBVIOUS
<1> HIDE DEF d
<1>3. FnLinkedIn(F, Append(F, d), self, from)
  BY <1>1, <1>2, Appended DEF FnLinkedIn
<1>4. QED  BY <1>2, <1>3



LEMMA AtMostTwoCounted ==
  ASSUME NEW S, AtMostTwo(S)
  PROVE  IsFiniteSet(S) /\ Cardinality(S) <= 2
<1>0. IsFiniteSet({}) /\ Cardinality({}) = 0  BY FS_EmptySet
<1>1. CASE S = {}
  BY <1>0, <1>1
<1>2. CASE S # {}
  <2>1. PICK x : x \in S  BY <1>2
  <2>2. PICK y \in S : S = {x} \cup {y}
    <3>1. CASE \E y \in S : y # x
      <4>1. PICK y \in S : y # x  BY <3>1
      <4>2. \A z \in S : z = x \/ z = y  BY <2>1, <4>1 DEF AtMostTwo
      <4>3. S = {x} \cup {y}  BY <2>1, <4>1, <4>2
      <4>4. QED  BY <4>3
    <3>2. CASE \A y \in S : y = x
      <4>1. S = {x} \cup {x}  BY <2>1, <3>2
      <4>2. QED  BY <2>1, <4>1
    <3>3. QED  BY <3>1, <3>2
  <2>3. IsFiniteSet({x}) /\ Cardinality({x}) = 1  BY FS_Singleton
  <2>4. IsFiniteSet({x} \cup {y}) /\ Cardinality({x} \cup {y}) = IF y \in {x} THEN 1 ELSE 1 + 1
    BY <2>3, FS_AddElement
  <2>5. QED  BY <2>2, <2>4
<1>3. QED  BY <1>1, <1>2

LEMMA StoredEffect ==
  ASSUME NEW F \in Seq(FnEntry), NEW i \in 1..Len(F), NEW j \in 1..Len(F[i].arcs), NEW c \in Nat,
         NEW G, StoredIn(F, G, i, j, c)
  PROVE  /\ G \in Seq(FnEntry) /\ Keeps(F, G) /\ Len(G) = Len(F)
         /\ \A f : FnCopies(G, f) = FnCopies(F, f)
         /\ \A k \in 1..Len(F), s \in Site : ArcCopies(G, k, s) = ArcCopies(F, k, s)
         /\ Elements(G) = Elements(F)
         /\ \A f, s : Counted(G, f, s) = Counted(F, f, s) +
              IF f = F[i].self /\ s = F[i].arcs[j].from THEN c - F[i].arcs[j].count ELSE 0
<1>1. G \in Seq(FnEntry) /\ Len(G) = Len(F) /\ \A k \in 1..Len(F) : k # i => G[k] = F[k]
  BY DEF StoredIn
<1>2. /\ G[i].self = F[i].self /\ Len(G[i].arcs) = Len(F[i].arcs)
      /\ \A n \in 1..Len(F[i].arcs) : /\ G[i].arcs[n].from = F[i].arcs[n].from
                                      /\ G[i].arcs[n].count = IF n = j THEN c ELSE F[i].arcs[n].count
  BY DEF StoredIn
<1>3. \A k \in 1..Len(F) : /\ G[k].self = F[k].self /\ Len(G[k].arcs) = Len(F[k].arcs)
                           /\ \A n \in 1..Len(F[k].arcs) : G[k].arcs[n].from = F[k].arcs[n].from
  BY <1>1, <1>2
<1>4. Keeps(F, G)  BY <1>1, <1>3 DEF Keeps
<1>5. \A f : FnCopies(G, f) = FnCopies(F, f)  BY <1>1, <1>3 DEF FnCopies
<1>6. \A k \in 1..Len(F), s \in Site : ArcCopies(G, k, s) = ArcCopies(F, k, s)  BY <1>3 DEF ArcCopies
<1>7. /\ F[i] \in FnEntry /\ G[i] \in FnEntry /\ Len(F[i].arcs) \in Nat
      /\ F[i].arcs[j].count \in Nat
  BY <1>1, EntriesAre
<1>8. Elements(G) = Elements(F)
  <2> DEFINE n == Len(F[i].arcs)
             t == Elements(F)
  <2>1. Elements(G) = t - n + n  BY <1>1, <1>2, OneElement
  <2>2. t \in Int /\ n \in Int
    <3>1. t \in Int  BY SumsOf
    <3>2. n \in Int  BY <1>7
    <3>3. QED  BY <3>1, <3>2
  <2> HIDE DEF t, n
  <2>3. Elements(G) = t  BY <2>1, <2>2
  <2>4. QED  BY <2>3 DEF t
<1>9. ASSUME NEW f, NEW s
      PROVE  Counted(G, f, s) = Counted(F, f, s) +
               IF f = F[i].self /\ s = F[i].arcs[j].from THEN c - F[i].arcs[j].count ELSE 0
  <2> DEFINE x == IF f = F[i].self /\ s = F[i].arcs[j].from THEN c - F[i].arcs[j].count ELSE 0
             u == CountIn(F[i], f, s)
             t == Counted(F, f, s)
  <2>1. Counted(G, f, s) = t - u + CountIn(G[i], f, s)  BY <1>1, OneElement
  <2>2. CountIn(G[i], f, s) = u + x
    <3> DEFINE e == F[i]
               d == G[i]
    <3>1. e \in FnEntry /\ d \in FnEntry /\ j \in 1..Len(e.arcs) /\ CountSet(e, d, j, c)
      BY <1>2, <1>7 DEF CountSet
    <3> HIDE DEF e, d
    <3>2. CountIn(d, f, s) = CountIn(e, f, s) +
            IF f = e.self /\ s = e.arcs[j].from THEN c - e.arcs[j].count ELSE 0
      BY <3>1, CountChanges
    <3>3. QED  BY <3>2 DEF e, d
  <2>3. t \in Int /\ u \in Int
    <3>1. t \in Int  BY SumsOf
    <3>2. u \in Int  BY <1>7, CountsType
    <3>3. QED  BY <3>1, <3>2
  <2>4. x \in Int  BY <1>7
  <2> HIDE DEF x, u, t
  <2>5. Counted(G, f, s) = t + x  BY <2>1, <2>2, <2>3, <2>4
  <2>6. QED  BY <2>5 DEF x, t
<1>10. QED  BY <1>1, <1>4, <1>5, <1>6, <1>8, <1>9

LEMMA ArcLinkedEffect ==
  ASSUME NEW F \in Seq(FnEntry), NEW i \in 1..Len(F), NEW from \in Site,
         NEW G, ArcLinkedIn(F, G, i, from)
  PROVE  /\ G \in Seq(FnEntry) /\ Keeps(F, G) /\ Len(G) = Len(F)
         /\ \A f : FnCopies(G, f) = FnCopies(F, f)
         /\ \A k \in 1..Len(F), s \in Site :
              IF k = i /\ s = from THEN ArcCopies(G, k, s) = ArcCopies(F, k, s) \cup {Len(F[i].arcs) + 1}
                                   ELSE ArcCopies(G, k, s) = ArcCopies(F, k, s)
         /\ Elements(G) = Elements(F) + 1
         /\ \A f, s : Counted(G, f, s) = Counted(F, f, s) + IF f = F[i].self /\ s = from THEN 1 ELSE 0
<1>1. G \in Seq(FnEntry) /\ Len(G) = Len(F) /\ \A k \in 1..Len(F) : k # i => G[k] = F[k]
  BY DEF ArcLinkedIn
<1>2. /\ G[i].self = F[i].self /\ Len(G[i].arcs) = Len(F[i].arcs) + 1
      /\ \A n \in 1..Len(F[i].arcs) : G[i].arcs[n] = F[i].arcs[n]
      /\ G[i].arcs[Len(F[i].arcs) + 1] = NewArc(from) /\ NewArc(from).from = from
  BY NewArcIs DEF ArcLinkedIn
<1>7. /\ F[i] \in FnEntry /\ G[i] \in FnEntry /\ Len(F[i].arcs) \in Nat
  BY <1>1, EntriesAre
<1>3. \A k \in 1..Len(F) : /\ G[k].self = F[k].self
                           /\ \A n \in 1..Len(F[k].arcs) : n \in 1..Len(G[k].arcs) /\ G[k].arcs[n].from = F[k].arcs[n].from
  <2>1. \A n \in 1..Len(F[i].arcs) : n \in 1..(Len(F[i].arcs) + 1)  BY <1>7
  <2>2. QED  BY <1>1, <1>2, <2>1
<1>4. Keeps(F, G)  BY <1>1, <1>3 DEF Keeps
<1>5. \A f : FnCopies(G, f) = FnCopies(F, f)  BY <1>1, <1>3 DEF FnCopies
<1>6. ASSUME NEW k \in 1..Len(F), NEW s \in Site
      PROVE  IF k = i /\ s = from THEN ArcCopies(G, k, s) = ArcCopies(F, k, s) \cup {Len(F[i].arcs) + 1}
                                  ELSE ArcCopies(G, k, s) = ArcCopies(F, k, s)
  <2>1. CASE k # i  BY <1>1, <2>1 DEF ArcCopies
  <2>2. CASE k = i
    <3> DEFINE n == Len(F[i].arcs)
               a == F[i].arcs
               b == G[i].arcs
    <3>1. n \in Nat /\ Len(b) = n + 1 /\ (\A m \in 1..n : b[m] = a[m]) /\ b[n + 1].from = from /\ Len(a) = n
      BY <1>2, <1>7
    <3>2. ArcCopies(G, k, s) = {m \in 1..(n + 1) : b[m].from = s} /\ ArcCopies(F, k, s) = {m \in 1..n : a[m].from = s}
      BY <2>2, <3>1 DEF ArcCopies
    <3> HIDE DEF n, a, b
    <3>3. IF s = from THEN {m \in 1..(n + 1) : b[m].from = s} = {m \in 1..n : a[m].from = s} \cup {n + 1}
                      ELSE {m \in 1..(n + 1) : b[m].from = s} = {m \in 1..n : a[m].from = s}
      <4>1. \A m \in 1..(n + 1) : m = n + 1 \/ m \in 1..n  BY <3>1
      <4>2. \A m \in 1..n : m \in 1..(n + 1)  BY <3>1
      <4>3. n + 1 \in 1..(n + 1)  BY <3>1
      <4>4. CASE s = from  BY <3>1, <4>1, <4>2, <4>3, <4>4
      <4>5. CASE s # from  BY <3>1, <4>1, <4>2, <4>3, <4>5
      <4>6. QED  BY <4>4, <4>5
    <3>4. QED  BY <2>2, <3>2, <3>3 DEF n
  <2>3. QED  BY <2>1, <2>2
<1>8. Elements(G) = Elements(F) + 1
  <2> DEFINE n == Len(F[i].arcs)
             t == Elements(F)
  <2>1. Elements(G) = t - n + (n + 1)  BY <1>1, <1>2, OneElement
  <2>2. t \in Int /\ n \in Int
    <3>1. t \in Int  BY SumsOf
    <3>2. n \in Int  BY <1>7
    <3>3. QED  BY <3>1, <3>2
  <2> HIDE DEF t, n
  <2>3. Elements(G) = t + 1  BY <2>1, <2>2
  <2>4. QED  BY <2>3 DEF t
<1>9. ASSUME NEW f, NEW s
      PROVE  Counted(G, f, s) = Counted(F, f, s) + IF f = F[i].self /\ s = from THEN 1 ELSE 0
  <2> DEFINE x == IF f = F[i].self /\ s = from THEN 1 ELSE 0
             u == CountIn(F[i], f, s)
             t == Counted(F, f, s)
  <2>1. Counted(G, f, s) = t - u + CountIn(G[i], f, s)  BY <1>1, OneElement
  <2>2. CountIn(G[i], f, s) = u + x
    <3> DEFINE e == F[i]
               d == G[i]
    <3>1. /\ e \in FnEntry /\ d \in FnEntry /\ d.self = e.self /\ Len(d.arcs) = Len(e.arcs) + 1
          /\ \A m \in 1..Len(e.arcs) : d.arcs[m] = e.arcs[m]
          /\ d.arcs[Len(e.arcs) + 1] = NewArc(from)
      BY <1>2, <1>7
    <3> HIDE DEF e, d
    <3>2. CountIn(d, f, s) = CountIn(e, f, s) + IF f = e.self /\ s = from THEN 1 ELSE 0
      BY <3>1, CountGrows
    <3>3. QED  BY <3>2 DEF e, d
  <2>3. t \in Int /\ u \in Int /\ x \in Int
    <3>1. t \in Int  BY SumsOf
    <3>2. u \in Int  BY <1>7, CountsType
    <3>3. QED  BY <3>1, <3>2
  <2> HIDE DEF x, u, t
  <2>4. Counted(G, f, s) = t + x  BY <2>1, <2>2, <2>3
  <2>5. QED  BY <2>4 DEF x, t
<1>10. QED  BY <1>1, <1>4, <1>5, <1>6, <1>8, <1>9

LEMMA FnLinkedEffect ==
  ASSUME NEW F \in Seq(FnEntry), NEW self \in Fn, NEW from \in Site,
         NEW G, FnLinkedIn(F, G, self, from)
  PROVE  /\ G \in Seq(FnEntry) /\ Keeps(F, G) /\ Len(G) = Len(F) + 1
         /\ \A f : IF f = self THEN FnCopies(G, f) = FnCopies(F, f) \cup {Len(F) + 1}
                               ELSE FnCopies(G, f) = FnCopies(F, f)
         /\ \A k \in 1..Len(F), s \in Site : ArcCopies(G, k, s) = ArcCopies(F, k, s)
         /\ \A s \in Site : AtMostOne(ArcCopies(G, Len(F) + 1, s))
         /\ Elements(G) = Elements(F) + 2
         /\ \A f, s : Counted(G, f, s) = Counted(F, f, s) + IF f = self /\ s = from THEN 1 ELSE 0
<1> DEFINE d == [self |-> self, arcs |-> <<NewArc(from)>>]
           n == Len(F)
<1>1. G \in Seq(FnEntry) /\ Len(G) = n + 1 /\ (\A k \in 1..n : G[k] = F[k]) /\ G[n + 1] = d
  BY DEF FnLinkedIn
<1>2. n \in Nat /\ \A k \in 1..(n + 1) : G[k] \in FnEntry  BY <1>1
<1>3. d \in FnEntry /\ d.self = self /\ Len(d.arcs) = 1 /\ d.arcs[1] = NewArc(from)
  <2>1. n + 1 \in 1..(n + 1)  BY <1>2
  <2>2. d \in FnEntry  BY <1>1, <1>2, <2>1
  <2>3. QED  BY <2>2
<1> HIDE DEF d
<1>4. \A k \in 1..n : k \in 1..(n + 1)  BY <1>2
<1>5. Keeps(F, G)
  <2>1. ASSUME NEW k \in 1..Len(F)
        PROVE  /\ k \in 1..Len(G) /\ G[k].self = F[k].self
               /\ \A j \in 1..Len(F[k].arcs) : j \in 1..Len(G[k].arcs) /\ G[k].arcs[j].from = F[k].arcs[j].from
    BY <1>1, <1>4
  <2>2. QED  BY <2>1 DEF Keeps
<1>6. ASSUME NEW f
      PROVE  IF f = self THEN FnCopies(G, f) = FnCopies(F, f) \cup {n + 1}
                         ELSE FnCopies(G, f) = FnCopies(F, f)
  <2>1. FnCopies(G, f) = {k \in 1..(n + 1) : G[k].self = f} /\ FnCopies(F, f) = {k \in 1..n : F[k].self = f}
    BY <1>1 DEF FnCopies
  <2>2. \A m \in 1..(n + 1) : m = n + 1 \/ m \in 1..n  BY <1>2
  <2>3. n + 1 \in 1..(n + 1) /\ G[n + 1].self = self  BY <1>1, <1>2, <1>3
  <2> HIDE DEF n
  <2>4. CASE f = self  BY <1>1, <1>4, <2>1, <2>2, <2>3, <2>4
  <2>5. CASE f # self
    <3>1. n + 1 \notin {k \in 1..(n + 1) : G[k].self = f}  BY <2>3, <2>5
    <3>2. QED  BY <1>1, <1>4, <2>1, <2>2, <2>5, <3>1
  <2>6. QED  BY <2>4, <2>5
<1>7. \A k \in 1..n, s \in Site : ArcCopies(G, k, s) = ArcCopies(F, k, s)
  BY <1>1 DEF ArcCopies
<1>8. \A s \in Site : AtMostOne(ArcCopies(G, n + 1, s))
  BY <1>1, <1>3 DEF ArcCopies, AtMostOne
<1>9. Elements(G) = Elements(F) + 2
  <2> DEFINE p == ArcsOf(F)
             q == ArcsOf(G)
  <2>1. /\ p \in Seq(Int) /\ Len(p) = n /\ (\A k \in 1..n : p[k] = Len(F[k].arcs))
        /\ Elements(F) = n + Total(p) /\ Total(p) \in Int
    BY SumsOf
  <2>2. /\ q \in Seq(Int) /\ Len(q) = n + 1 /\ (\A k \in 1..(n + 1) : q[k] = Len(G[k].arcs))
        /\ Elements(G) = (n + 1) + Total(q)
    <3>1. /\ q \in Seq(Int) /\ Len(q) = Len(G) /\ (\A k \in 1..Len(G) : q[k] = Len(G[k].arcs))
          /\ Elements(G) = Len(G) + Total(q)
      BY <1>1, SumsOf
    <3> HIDE DEF q
    <3>2. QED  BY <1>1, <3>1
  <2> HIDE DEF p, q, n
  <2>3. \A k \in 1..n : q[k] = p[k]  BY <1>1, <1>4, <2>1, <2>2
  <2>4. q[n + 1] = 1
    <3>1. n + 1 \in 1..(n + 1)  BY <1>2
    <3>2. QED  BY <1>1, <1>3, <2>2, <3>1
  <2>5. Total(q) = Total(p) + 1
    <3> DEFINE one == 1
    <3>1. q[n + 1] = one /\ one \in Int  BY <2>4
    <3> HIDE DEF one
    <3>2. Total(q) = Total(p) + one  BY <2>1, <2>2, <2>3, <3>1, TotalAppend
    <3>3. QED  BY <3>2 DEF one
  <2>6. QED  BY <1>2, <2>1, <2>2, <2>5
<1>10. ASSUME NEW f, NEW s
       PROVE  Counted(G, f, s) = Counted(F, f, s) + IF f = self /\ s = from THEN 1 ELSE 0
  <2> DEFINE p == CountsOf(F, f, s)
             q == CountsOf(G, f, s)
             x == IF f = self /\ s = from THEN 1 ELSE 0
  <2>1. /\ p \in Seq(Int) /\ Len(p) = n /\ (\A k \in 1..n : p[k] = CountIn(F[k], f, s))
        /\ Counted(F, f, s) = Total(p)
    BY SumsOf
  <2>2. /\ q \in Seq(Int) /\ Len(q) = n + 1 /\ (\A k \in 1..(n + 1) : q[k] = CountIn(G[k], f, s))
        /\ Counted(G, f, s) = Total(q)
    <3>1. /\ q \in Seq(Int) /\ Len(q) = Len(G) /\ (\A k \in 1..Len(G) : q[k] = CountIn(G[k], f, s))
          /\ Counted(G, f, s) = Total(q)
      BY <1>1, SumsOf
    <3> HIDE DEF q
    <3>2. QED  BY <1>1, <3>1
  <2> HIDE DEF p, q, n
  <2>3. \A k \in 1..n : q[k] = p[k]  BY <1>1, <1>4, <2>1, <2>2
  <2>4. q[n + 1] = x
    <3>1. n + 1 \in 1..(n + 1)  BY <1>2
    <3>2. q[n + 1] = CountIn(d, f, s)  BY <1>1, <2>2, <3>1
    <3>3. CountIn(d, f, s) = IF d.self = f THEN Total(Counts(d, s)) ELSE 0  BY Zenon DEF CountIn, Counts
    <3> DEFINE r == Counts(d, s)
    <3>4. r \in Seq(Int) /\ Len(r) = 1 /\ r[1] = IF s = from THEN 1 ELSE 0
      <4>1. r \in Seq(Int) /\ Len(r) = Len(d.arcs)
            /\ \A j \in 1..Len(d.arcs) : r[j] = IF d.arcs[j].from = s THEN d.arcs[j].count ELSE 0
        BY <1>3, CountsType
      <4> HIDE DEF r
      <4>2. 1 \in 1..Len(d.arcs)  BY <1>3
      <4>3. r[1] = IF d.arcs[1].from = s THEN d.arcs[1].count ELSE 0  BY <4>1, <4>2
      <4>4. QED  BY <1>3, <4>1, <4>3, NewArcIs
    <3> HIDE DEF r
    <3>5. Total(r) = IF s = from THEN 1 ELSE 0
      <4>1. PICK g : Runs_(g, r)  BY <3>4, HasRuns
      <4>2. Total(r) = g[1]  BY <3>4, <4>1, TotalRuns
      <4>3. g[0 + 1] = g[0] + r[0 + 1] /\ g[0] = 0  BY <3>4, <4>1 DEF Runs_
      <4>4. QED  BY <3>4, <4>2, <4>3
    <3>6. QED  BY <1>3, <3>2, <3>3, <3>5 DEF r
  <2>5. x \in Int  OBVIOUS
  <2> HIDE DEF x
  <2>6. Total(q) = Total(p) + x  BY <2>1, <2>2, <2>3, <2>4, <2>5, TotalAppend
  <2>7. QED  BY <2>1, <2>2, <2>6 DEF x
<1>11. QED  BY <1>1, <1>5, <1>6, <1>7, <1>8, <1>9, <1>10

-----------------------------------------------------------------------------


-----------------------------------------------------------------------------
LEMMA MaxOf ==
  ASSUME NEW n \in Nat, NEW T \in SUBSET (1..n)
  PROVE  Max(T \cup {0}) \in T \cup {0} /\ \A y \in T : y <= Max(T \cup {0})
<1> DEFINE U == T \cup {0}
           V == {v \in Nat : n - v \in U}
<1>1. V \in SUBSET Nat /\ V # {}
  <2>1. n \in V  OBVIOUS
  <2>2. QED  BY <2>1
<1>2. PICK v \in V : \A y \in V : v <= y
  <2> HIDE DEF V
  <2> QED  BY <1>1, Smallest
<1>3. n - v \in U /\ \A y \in U : n - v >= y
  <2>1. \A y \in U : y \in 0..n  OBVIOUS
  <2>2. \A y \in U : n - y \in V
    <3> SUFFICES ASSUME NEW y \in U PROVE n - y \in V  OBVIOUS
    <3>1. n - y \in Nat /\ n - (n - y) = y  BY <2>1
    <3>2. QED  BY <3>1
  <2>3. v \in Nat /\ n - v \in U  OBVIOUS
  <2> HIDE DEF V, U
  <2>4. \A y \in U : v <= n - y  BY <1>2, <2>2
  <2>5. QED  BY <2>1, <2>3, <2>4
<1>4. Max(U) \in U /\ \A y \in U : Max(U) >= y
  <2> HIDE DEF U
  <2>1. \E x \in U : \A y \in U : x >= y  BY <1>3
  <2>2. QED  BY <2>1, Zenon DEF Max
<1>5. \A y \in T : y \in U /\ y \in Int  OBVIOUS
<1>6. Max(U) \in Int
  <2>1. \A y \in U : y \in Int  OBVIOUS
  <2> HIDE DEF U
  <2>2. QED  BY <1>4, <2>1
<1> DEFINE m == Max(U)
<1>7. m \in Int /\ \A y \in T : m >= y /\ y \in Int  BY <1>4, <1>5, <1>6
<1>8. \A y \in T : y <= m
  <2> HIDE DEF m, U
  <2> QED  BY <1>7
<1>9. QED  BY <1>4, <1>8 DEF m

\* What a walk along a list finds.
LEMMA WalkFinds ==
  ASSUME fns \in Seq(FnEntry)
  PROVE  /\ \A f : /\ FindFn(f) \in Nat
                   /\ FindFn(f) = 0 => FnCopies(fns, f) = {}
                   /\ FindFn(f) # 0 => FindFn(f) \in 1..Len(fns) /\ fns[FindFn(f)].self = f
         /\ \A s : \A i \in 1..Len(fns) :
              /\ FindArc(i, s) \in Nat
              /\ FindArc(i, s) = 0 => ArcCopies(fns, i, s) = {}
              /\ FindArc(i, s) # 0 => FindArc(i, s) \in 1..Len(fns[i].arcs) /\ fns[i].arcs[FindArc(i, s)].from = s
<1>1. /\ Len(fns) \in Nat /\ DOMAIN fns = 1..Len(fns)
      /\ \A i \in 1..Len(fns) : Len(fns[i].arcs) \in Nat /\ DOMAIN fns[i].arcs = 1..Len(fns[i].arcs)
  <2>1. \A i \in 1..Len(fns) : fns[i].arcs \in Seq(ArcEntry)  BY EntriesAre
  <2>2. QED  BY <2>1
<1>2. ASSUME NEW f
      PROVE  /\ FindFn(f) \in Nat
             /\ FindFn(f) = 0 => FnCopies(fns, f) = {}
             /\ FindFn(f) # 0 => FindFn(f) \in 1..Len(fns) /\ fns[FindFn(f)].self = f
  <2> DEFINE T == FnCopies(fns, f)
             n == Len(fns)
  <2>1. FindFn(f) = Max(T \cup {0})  BY <1>1, Zenon DEF FindFn, FnCopies
  <2>2. n \in Nat /\ T \in SUBSET (1..n) /\ \A k \in T : k \in 1..n /\ fns[k].self = f
    BY <1>1 DEF FnCopies
  <2> HIDE DEF T, n
  <2>3. FindFn(f) \in T \cup {0} /\ \A y \in T : y <= FindFn(f)
    <3>1. Max(T \cup {0}) \in T \cup {0} /\ \A y \in T : y <= Max(T \cup {0})  BY <2>2, MaxOf
    <3>2. QED  BY <2>1, <3>1, Zenon
  <2>4. FindFn(f) = 0 => T = {}  BY <2>2, <2>3
  <2>5. QED  BY <2>2, <2>3, <2>4 DEF T, n
<1>3. ASSUME NEW i \in 1..Len(fns), NEW s
      PROVE  /\ FindArc(i, s) \in Nat
             /\ FindArc(i, s) = 0 => ArcCopies(fns, i, s) = {}
             /\ FindArc(i, s) # 0 => FindArc(i, s) \in 1..Len(fns[i].arcs) /\ fns[i].arcs[FindArc(i, s)].from = s
  <2> DEFINE T == ArcCopies(fns, i, s)
             n == Len(fns[i].arcs)
  <2>0. DOMAIN fns[i].arcs = 1..Len(fns[i].arcs)  BY <1>1
  <2>1. FindArc(i, s) = Max(T \cup {0})  BY <2>0, Zenon DEF FindArc, ArcCopies
  <2>2. n \in Nat /\ T \in SUBSET (1..n) /\ \A k \in T : k \in 1..n /\ fns[i].arcs[k].from = s
    BY <1>1 DEF ArcCopies
  <2> HIDE DEF T, n
  <2>3. FindArc(i, s) \in T \cup {0} /\ \A y \in T : y <= FindArc(i, s)
    <3>1. Max(T \cup {0}) \in T \cup {0} /\ \A y \in T : y <= Max(T \cup {0})  BY <2>2, MaxOf
    <3>2. QED  BY <2>1, <3>1, Zenon
  <2>4. FindArc(i, s) = 0 => T = {}  BY <2>2, <2>3
  <2>5. QED  BY <2>2, <2>3, <2>4 DEF T, n
<1>4. QED  BY <1>2, <1>3

-----------------------------------------------------------------------------
\* The heap.
LEMMA AlignedIs ==
  ASSUME NEW a \in Nat
  PROVE  Aligned(a) \in Nat /\ a <= Aligned(a) /\ Aligned(a) % 4 = 0
<1> DEFINE q == (a + 3) \div 4
<1>1. q \in Nat /\ 4 * q <= a + 3 /\ a + 3 < 4 * q + 4  OBVIOUS
<1>2. Aligned(a) = 4 * q  BY DEF Aligned
<1> HIDE DEF q
<1>3. (4 * q) % 4 = 0  BY <1>1
<1>4. QED  BY <1>1, <1>2, <1>3

LEMMA SbrkIs ==
  ASSUME NEW m \in Memory, NEW n \in Nat
  PROVE  /\ Sbrk(m, n) \in Memory /\ m.end <= Sbrk(m, n).end
         /\ Sbrk(m, n).slab = m.slab /\ Sbrk(m, n).left = m.left
         /\ \/ Sbrk(m, n).got = -1
            \/ /\ Sbrk(m, n).got \in Nat /\ Sbrk(m, n).got % 4 = 0 /\ m.end <= Sbrk(m, n).got
               /\ Sbrk(m, n).end = Sbrk(m, n).got + n /\ Sbrk(m, n).end <= HeapLimit
<1> DEFINE e == Aligned(m.end)
<1>1. m.end \in Nat /\ m.slab \in Nat /\ m.left \in Nat /\ HeapLimit \in Nat  BY ProfileAssumption DEF Memory
<1>2. e \in Nat /\ m.end <= e /\ e % 4 = 0  BY <1>1, AlignedIs
<1>3. Sbrk(m, n) = IF e + n > HeapLimit THEN [m EXCEPT !.end = e, !.got = -1]
                                        ELSE [m EXCEPT !.end = e + n, !.got = e]
  BY DEF Sbrk
<1> HIDE DEF e
<1>4. CASE e + n > HeapLimit
  <2> DEFINE v == -1
             s == [m EXCEPT !.end = e, !.got = v]
  <2>1. s \in Memory /\ s.end = e /\ s.got = v /\ s.slab = m.slab /\ s.left = m.left
    <3>1. v \in Int  OBVIOUS
    <3> HIDE DEF v
    <3>2. QED  BY <1>2, <3>1 DEF Memory
  <2>2. Sbrk(m, n) = s  BY <1>3, <1>4
  <2> HIDE DEF s
  <2>3. QED  BY <1>2, <2>1, <2>2
<1>5. CASE ~(e + n > HeapLimit)
  <2> DEFINE u == e + n
             s == [m EXCEPT !.end = u, !.got = e]
  <2>0. u \in Nat /\ m.end <= u /\ u <= HeapLimit  BY <1>1, <1>2, <1>5
  <2>1. s \in Memory /\ s.end = u /\ s.got = e /\ s.slab = m.slab /\ s.left = m.left
    <3>1. u \in Nat /\ e \in Int  BY <1>2, <2>0
    <3> HIDE DEF u
    <3>2. QED  BY <3>1 DEF Memory
  <2>2. Sbrk(m, n) = s  BY <1>3, <1>5
  <2> HIDE DEF s
  <2>3. QED  BY <1>2, <2>0, <2>1, <2>2
<1>6. QED  BY <1>4, <1>5

LEMMA SbrkKeeps ==
  ASSUME NEW m \in Memory, NEW n \in Nat, NEW B, BlocksKept(m, B),
         NEW who \in {"program", "histogram", "mcount"}, who = "histogram" => n = 2 * Histogram
  PROVE  BlocksKept(Sbrk(m, n), B \cup Block(Sbrk(m, n).got, n, who))
<1> DEFINE s == Sbrk(m, n)
           b == [lo |-> s.got, hi |-> s.got + n, for |-> who]
<1>1. /\ s \in Memory /\ m.end <= s.end /\ m.end \in Nat /\ s.end \in Nat
      /\ \/ s.got = -1
         \/ /\ s.got \in Nat /\ s.got % 4 = 0 /\ m.end <= s.got
            /\ s.end = s.got + n /\ s.end <= HeapLimit
  BY SbrkIs DEF Memory
<1> HIDE DEF s
<1>0. \A c \in B : /\ c.lo \in Nat /\ c.hi \in Nat
                   /\ c \in HeapBlock /\ c.lo % 4 = 0 /\ c.lo <= c.hi /\ c.hi <= m.end /\ c.hi <= HeapLimit
                   /\ c.for = "histogram" => c.hi = c.lo + 2 * Histogram
  BY DEF BlocksKept, HeapBlock
<1>2. CASE s.got = -1
  <2>1. Block(s.got, n, who) = {}  BY <1>2 DEF Block
  <2>2. \A c \in B : c.hi <= s.end  BY <1>0, <1>1
  <2>3. BlocksKept(s, B)  BY <1>0, <2>2 DEF BlocksKept
  <2>4. QED  BY <2>1, <2>3 DEF s
<1>3. CASE /\ s.got \in Nat /\ s.got % 4 = 0 /\ m.end <= s.got
           /\ s.end = s.got + n /\ s.end <= HeapLimit
  <2>1. Block(s.got, n, who) = {b}  BY <1>3 DEF Block
  <2>2. \A c \in B : c.hi <= s.end  BY <1>0, <1>1
  <2>3. /\ b \in HeapBlock /\ b.lo % 4 = 0 /\ b.lo <= b.hi /\ b.hi <= s.end /\ b.hi <= HeapLimit
        /\ b.for = "histogram" => b.hi = b.lo + 2 * Histogram
    <3>1. b.lo = s.got /\ b.hi = s.got + n /\ b.for = who  OBVIOUS
    <3>2. b \in HeapBlock  BY <1>3 DEF HeapBlock
    <3> HIDE DEF b
    <3>3. b.for = "histogram" => b.hi = b.lo + 2 * Histogram  BY <3>1
    <3>4. QED  BY <1>3, <3>1, <3>2, <3>3
  <2>4. \A c \in B : Apart(c, b)
    <3>1. b.lo = s.got  OBVIOUS
    <3> HIDE DEF b
    <3>2. \A c \in B : c.hi <= b.lo  BY <1>0, <1>1, <1>3, <3>1
    <3>3. QED  BY <3>2 DEF Apart
  <2> HIDE DEF b
  <2>5. \A c, d \in B : c = d \/ Apart(c, d)  BY DEF BlocksKept
  <2>6. \A c, d : Apart(c, d) => Apart(d, c)  BY DEF Apart
  <2>7. \A c, d \in B \cup {b} : c = d \/ Apart(c, d)  BY <2>4, <2>5, <2>6, Zenon
  <2>8. \A c \in B \cup {b} : /\ c \in HeapBlock /\ c.lo % 4 = 0 /\ c.lo <= c.hi /\ c.hi <= s.end /\ c.hi <= HeapLimit
                              /\ c.for = "histogram" => c.hi = c.lo + 2 * Histogram
    BY <1>0, <2>2, <2>3
  <2>9. BlocksKept(s, B \cup {b})  BY <2>7, <2>8 DEF BlocksKept
  <2>10. QED  BY <2>1, <2>9 DEF s
<1>4. QED  BY <1>1, <1>2, <1>3

LEMMA SbrkLeaves ==
  ASSUME NEW m \in Memory, NEW n \in Nat, NEW B, NEW B2, B \subseteq B2, NEW N, NodesKept(m, B, N)
  PROVE  NodesKept(Sbrk(m, n), B2, N)
<1> DEFINE s == Sbrk(m, n)
<1>1. s.slab = m.slab /\ s.left = m.left /\ m.end <= s.end /\ m.end \in Nat /\ s.end \in Nat
      /\ m.slab \in Nat /\ m.left \in Nat
  BY SbrkIs DEF Memory
<1> HIDE DEF s
<1>2. \A x, y : InSlab(x, y, B) => InSlab(x, y, B2)  BY DEF InSlab
<1>3. m.slab + m.left <= s.end  BY <1>1 DEF NodesKept
<1>4. NodesKept(s, B2, N)  BY <1>1, <1>2, <1>3 DEF NodesKept
<1>5. QED  BY <1>4 DEF s

\* One element more.
SlabBlock(m) == IF NewSlab(m) THEN Block(Allocate(m).got, Slab, "mcount") ELSE {}

LEMMA AllocateKeeps ==
  ASSUME NEW m \in Memory, NEW B, NEW N, BlocksKept(m, B), NodesKept(m, B, N), Allocated(m) >= 0
  PROVE  /\ Allocate(m) \in Memory /\ BlocksKept(Allocate(m), B \cup SlabBlock(m))
         /\ NodesKept(Allocate(m), B \cup SlabBlock(m), N \cup {Allocated(m)})
         /\ Cardinality(N \cup {Allocated(m)}) = Cardinality(N) + 1
<1> DEFINE p == Allocate(m)
           B2 == B \cup SlabBlock(m)
           x == Allocated(m)
<1>0. /\ m.end \in Nat /\ m.slab \in Nat /\ m.left \in Nat /\ m.slab + m.left <= m.end
      /\ Node \in Nat /\ Node > 0 /\ Slab \in Nat /\ Node <= Slab
  BY ProfileAssumption DEF Memory, NodesKept
<1>1. /\ p \in Memory /\ BlocksKept(p, B2) /\ B \subseteq B2
      /\ x \in Nat /\ m.slab <= x /\ p.slab = x + Node /\ p.slab + p.left <= p.end
      /\ InSlab(x, x + Node, B2) /\ (Node <= p.left => InSlab(p.slab, p.slab + p.left, B2))
  <2>1. CASE NewSlab(m)
    <3> DEFINE s == Sbrk(m, Slab)
    <3>1. p = [s EXCEPT !.slab = s.got + Node, !.left = Slab - Node]  BY <2>1 DEF Allocate
    <3>2. /\ s \in Memory
          /\ \/ s.got = -1
             \/ /\ s.got \in Nat /\ s.got % 4 = 0 /\ m.end <= s.got
                /\ s.end = s.got + Slab /\ s.end <= HeapLimit
      BY <1>0, SbrkIs
    <3>3. BlocksKept(s, B \cup Block(s.got, Slab, "mcount"))
      <4> DEFINE who == "mcount"
      <4>1. who \in {"program", "histogram", "mcount"} /\ (who = "histogram" => Slab = 2 * Histogram)  OBVIOUS
      <4> HIDE DEF who
      <4>2. BlocksKept(Sbrk(m, Slab), B \cup Block(Sbrk(m, Slab).got, Slab, who))  BY <1>0, <4>1, SbrkKeeps
      <4>3. QED  BY <4>2 DEF who
    <3> HIDE DEF s
    <3>4. p.slab = s.got + Node /\ p.left = Slab - Node /\ p.end = s.end /\ p.got = s.got
      BY <3>1, <3>2 DEF Memory
    <3>5. x = s.got
      <4>1. x = (s.got + Node) - Node  BY <3>4 DEF Allocated
      <4>2. s.got \in Int  BY <3>2
      <4>3. QED  BY <1>0, <4>1, <4>2
    <3>6. /\ s.got \in Nat /\ s.got % 4 = 0 /\ m.end <= s.got
          /\ s.end = s.got + Slab /\ s.end <= HeapLimit
      BY <3>2, <3>5
    <3>7. p \in Memory
      <4>1. s.got + Node \in Nat /\ Slab - Node \in Nat  BY <1>0, <3>6
      <4>2. QED  BY <3>1, <3>2, <4>1 DEF Memory
    <3>8. B2 = B \cup Block(s.got, Slab, "mcount")  BY <2>1, <3>4 DEF SlabBlock
    <3>9. BlocksKept(p, B2)  BY <3>3, <3>4, <3>8 DEF BlocksKept
    <3> DEFINE b == [lo |-> s.got, hi |-> s.got + Slab, for |-> "mcount"]
    <3>10. b \in B2 /\ b.lo = s.got /\ b.hi = s.got + Slab /\ b.for = "mcount"  BY <3>6, <3>8 DEF Block
    <3> HIDE DEF b, B2, p, x
    <3>11. InSlab(x, x + Node, B2)
      <4>1. b.lo <= x /\ x + Node <= b.hi  BY <1>0, <3>5, <3>6, <3>10
      <4>2. QED  BY <3>10, <4>1 DEF InSlab
    <3>12. InSlab(p.slab, p.slab + p.left, B2)
      <4>1. b.lo <= p.slab /\ p.slab + p.left <= b.hi  BY <1>0, <3>4, <3>6, <3>10
      <4>2. QED  BY <3>10, <4>1 DEF InSlab
    <3>13. m.slab <= x /\ p.slab = x + Node /\ p.slab + p.left <= p.end
      BY <1>0, <3>4, <3>5, <3>6
    <3>14. B \subseteq B2  BY <3>8
    <3>15. QED  BY <3>5, <3>6, <3>7, <3>9, <3>11, <3>12, <3>13, <3>14
  <2>2. CASE ~NewSlab(m)
    <3>1. p = [m EXCEPT !.slab = m.slab + Node, !.left = m.left - Node]  BY <2>2 DEF Allocate
    <3>2. Node <= m.left  BY <1>0, <2>2 DEF NewSlab
    <3>3. p \in Memory /\ p.slab = m.slab + Node /\ p.left = m.left - Node /\ p.end = m.end
      <4> DEFINE u == m.slab + Node
                 v == m.left - Node
      <4>1. u \in Nat /\ v \in Nat  BY <1>0, <3>2
      <4>2. p = [m EXCEPT !.slab = u, !.left = v]  BY <3>1
      <4> HIDE DEF u, v, p
      <4>3. p \in Memory /\ p.slab = u /\ p.left = v /\ p.end = m.end  BY <4>1, <4>2 DEF Memory
      <4>4. QED  BY <4>3 DEF u, v
    <3>4. B2 = B  BY <2>2 DEF SlabBlock
    <3>5. x = m.slab
      <4>1. x = (m.slab + Node) - Node  BY <3>3 DEF Allocated
      <4>2. QED  BY <1>0, <4>1
    <3> HIDE DEF p, B2, x
    <3>6. BlocksKept(p, B2)  BY <3>3, <3>4 DEF BlocksKept
    <3>7. PICK b \in B : b.for = "mcount" /\ b.lo <= m.slab /\ m.slab + m.left <= b.hi
      BY <3>2 DEF NodesKept, InSlab
    <3>8. b.lo \in Nat /\ b.hi \in Nat  BY DEF BlocksKept, HeapBlock
    <3>9. InSlab(x, x + Node, B2)
      <4>1. b.lo <= x /\ x + Node <= b.hi  BY <1>0, <3>2, <3>5, <3>7, <3>8
      <4>2. QED  BY <3>4, <3>7, <4>1 DEF InSlab
    <3>10. InSlab(p.slab, p.slab + p.left, B2)
      <4>1. b.lo <= p.slab /\ p.slab + p.left <= b.hi  BY <1>0, <3>2, <3>3, <3>7, <3>8
      <4>2. QED  BY <3>4, <3>7, <4>1 DEF InSlab
    <3>11. m.slab <= x /\ p.slab = x + Node /\ p.slab + p.left <= p.end /\ x \in Nat
      BY <1>0, <3>2, <3>3, <3>5
    <3>12. B \subseteq B2  BY <3>4
    <3>13. QED  BY <3>3, <3>6, <3>9, <3>10, <3>11, <3>12
  <2>3. QED  BY <2>1, <2>2
<1> HIDE DEF p, B2, x
<1>2. p.slab \in Nat /\ p.left \in Nat /\ p.end \in Nat  BY <1>1 DEF Memory
<1>3. \A n \in N : n \in Nat /\ n + Node <= m.slab /\ InSlab(n, n + Node, B)  BY DEF NodesKept
<1>4. \A lo, hi : InSlab(lo, hi, B) => InSlab(lo, hi, B2)  BY <1>1 DEF InSlab
<1>5. \A n \in N : n + Node <= x /\ n # x  BY <1>0, <1>1, <1>3
<1>6. NodesKept(p, B2, N \cup {x})
  <2>1. \A n \in N : n + Node <= p.slab  BY <1>0, <1>1, <1>3, <1>5
  <2>2. \A n \in N \cup {x} : n \in Nat /\ n + Node <= p.slab /\ InSlab(n, n + Node, B2)
    <3>1. x + Node <= p.slab  BY <1>0, <1>1
    <3>2. QED  BY <1>1, <1>3, <1>4, <2>1, <3>1
  <2>3. \A n, o \in N : n = o \/ o + Node <= n \/ n + Node <= o  BY DEF NodesKept
  <2>4. \A n, o \in N \cup {x} : n = o \/ o + Node <= n \/ n + Node <= o
    BY <1>5, <2>3
  <2>5. IsFiniteSet(N \cup {x})
    <3>1. IsFiniteSet(N)  BY DEF NodesKept
    <3>2. QED  BY <3>1, FS_AddElement
  <2>6. QED  BY <1>1, <2>2, <2>4, <2>5 DEF NodesKept
<1>7. Cardinality(N \cup {x}) = Cardinality(N) + 1
  <2>1. IsFiniteSet(N) /\ x \notin N  BY <1>5 DEF NodesKept
  <2>2. QED  BY <2>1, FS_AddElement
<1>8. QED  BY <1>1, <1>6, <1>7 DEF p, B2, x

-----------------------------------------------------------------------------
\* What the steps do to the two mcounts.
LEMMA ActIs ==
  ASSUME act \in [1..2 -> Mcount], NEW l \in 1..2
  PROVE  /\ act[l] \in Mcount /\ act[l].pc \in Pcs /\ act[l].self \in Fn /\ act[l].from \in Site
         /\ act[l].fn \in Nat /\ act[l].arc \in Nat /\ act[l].count \in Nat
<1>1. act[l] \in Mcount  OBVIOUS
<1>2. QED  BY <1>1 DEF Mcount

LEMMA IdleIs == Idle \in Mcount /\ Idle.pc = "idle" /\ Idle.self = RegisterFn /\ Idle.fn = 0
BY ProfileAssumption DEF Idle, Mcount, Pcs

LEMMA Becomes ==
  ASSUME act \in [1..2 -> Mcount], NEW l \in 1..2, NEW b \in Mcount, act' = [act EXCEPT ![l] = b]
  PROVE  /\ act' \in [1..2 -> Mcount] /\ act'[l] = b
         /\ \A m \in 1..2 : m # l => act'[m] = act[m]
OBVIOUS

LEMMA GoesIs ==
  ASSUME act \in [1..2 -> Mcount], NEW l \in 1..2, NEW p \in Pcs, Goes(l, p)
  PROVE  /\ act' \in [1..2 -> Mcount] /\ \A m \in 1..2 : m # l => act'[m] = act[m]
         /\ act'[l].pc = p /\ act'[l].self = act[l].self /\ act'[l].from = act[l].from
         /\ act'[l].fn = act[l].fn /\ act'[l].arc = act[l].arc
<1> DEFINE a == act[l]
           b == [a EXCEPT !.pc = p]
<1>1. a \in Mcount  OBVIOUS
<1>2. act' = [act EXCEPT ![l] = b]  BY DEF Goes
<1>3. a = act[l]  OBVIOUS
<1> HIDE DEF a
<1>4. b \in Mcount /\ b.pc = p /\ b.self = a.self /\ b.from = a.from /\ b.fn = a.fn /\ b.arc = a.arc
  BY <1>1 DEF Mcount
<1> HIDE DEF b
<1>5. QED  BY <1>2, <1>3, <1>4, Becomes

LEMMA CallIs ==
  ASSUME act \in [1..2 -> Mcount], fns \in Seq(FnEntry), NEW l \in 1..2, NEW f \in Fn, NEW s \in Site, Call(l, f, s)
  PROVE  /\ act' \in [1..2 -> Mcount] /\ \A m \in 1..2 : m # l => act'[m] = act[m]
         /\ act'[l].pc = (IF FindFn(f) = 0 THEN "record" ELSE "arcs")
         /\ act'[l].self = f /\ act'[l].from = s /\ act'[l].fn = FindFn(f)
<1> DEFINE k == FindFn(f)
           p == IF k = 0 THEN "record" ELSE "arcs"
           b == [Idle EXCEPT !.pc = p, !.self = f, !.from = s, !.fn = k]
<1>1. k \in Nat  BY WalkFinds
<1>2. p \in Pcs  BY DEF Pcs
<1>3. act' = [act EXCEPT ![l] = b]  BY Zenon DEF Call
<1> HIDE DEF k, p
<1>4. b \in Mcount /\ b.pc = p /\ b.self = f /\ b.from = s /\ b.fn = k
  <2>1. Idle \in Mcount  BY IdleIs
  <2>2. QED  BY <1>1, <1>2, <2>1 DEF Mcount
<1> HIDE DEF b
<1>5. QED  BY <1>3, <1>4, Becomes DEF k, p

LEMMA WalkIs ==
  ASSUME act \in [1..2 -> Mcount], fns \in Seq(FnEntry), NEW l \in 1..2, act[l].fn \in 1..Len(fns), WalkArcs(l)
  PROVE  /\ act' \in [1..2 -> Mcount] /\ \A m \in 1..2 : m # l => act'[m] = act[m]
         /\ act'[l].self = act[l].self /\ act'[l].from = act[l].from /\ act'[l].fn = act[l].fn
         /\ act'[l].arc = FindArc(act[l].fn, act[l].from)
         /\ act'[l].pc = IF act'[l].arc = 0 THEN "record" ELSE "load"
<1> DEFINE a == act[l]
           k == FindArc(a.fn, a.from)
           p == IF k = 0 THEN "record" ELSE "load"
           b == [a EXCEPT !.arc = k, !.pc = p]
<1>1. a \in Mcount /\ k \in Nat /\ p \in Pcs
  <2>1. k \in Nat  BY WalkFinds
  <2>2. QED  BY <2>1 DEF Pcs
<1>2. act' = [act EXCEPT ![l] = b]  BY DEF WalkArcs
<1>3. a = act[l] /\ k = FindArc(a.fn, a.from)  OBVIOUS
<1> HIDE DEF a, k, p
<1>4. b \in Mcount /\ b.pc = p /\ b.self = a.self /\ b.from = a.from /\ b.fn = a.fn /\ b.arc = k
  BY <1>1 DEF Mcount
<1> HIDE DEF b
<1>5. act' \in [1..2 -> Mcount] /\ act'[l] = b /\ \A m \in 1..2 : m # l => act'[m] = act[m]
  BY <1>2, <1>4, Becomes
<1>6. QED  BY <1>3, <1>4, <1>5 DEF p

LEMMA LoadIs ==
  ASSUME act \in [1..2 -> Mcount], fns \in Seq(FnEntry), NEW l \in 1..2, LoadCount(l),
         act[l].fn \in 1..Len(fns), act[l].arc \in 1..Len(fns[act[l].fn].arcs)
  PROVE  /\ act' \in [1..2 -> Mcount] /\ \A m \in 1..2 : m # l => act'[m] = act[m]
         /\ act'[l].pc = "store" /\ act'[l].self = act[l].self /\ act'[l].from = act[l].from
         /\ act'[l].fn = act[l].fn /\ act'[l].arc = act[l].arc
<1> DEFINE a == act[l]
           c == Count(l)
           p == "store"
           b == [a EXCEPT !.count = c, !.pc = p]
<1>1. a \in Mcount /\ c \in Nat /\ p \in Pcs
  <2>1. c \in Nat  BY EntriesAre DEF Count
  <2>2. QED  BY <2>1 DEF Pcs
<1>2. act' = [act EXCEPT ![l] = b]  BY DEF LoadCount
<1>3. a = act[l]  OBVIOUS
<1> HIDE DEF a, c, p
<1>4. b \in Mcount /\ b.pc = p /\ b.self = a.self /\ b.from = a.from /\ b.fn = a.fn /\ b.arc = a.arc
  BY <1>1 DEF Mcount
<1> HIDE DEF b
<1>5. QED  BY <1>2, <1>3, <1>4, Becomes DEF p

LEMMA ReturnsIs ==
  ASSUME act \in [1..2 -> Mcount], NEW l \in 1..2, Returns(l)
  PROVE  /\ act' \in [1..2 -> Mcount] /\ act'[l] = Idle /\ \A m \in 1..2 : m # l => act'[m] = act[m]
         /\ irqs' = (irqs \/ act[l].self = RegisterFn)
<1>1. act' = [act EXCEPT ![l] = Idle] /\ irqs' = (irqs \/ act[l].self = RegisterFn)  BY DEF Returns
<1> DEFINE b == Idle
<1>2. b \in Mcount  BY IdleIs
<1>3. act' = [act EXCEPT ![l] = b]  BY <1>1
<1> HIDE DEF b
<1>4. act' \in [1..2 -> Mcount] /\ act'[l] = b /\ \A m \in 1..2 : m # l => act'[m] = act[m]
  BY <1>2, <1>3, Becomes
<1>5. QED  BY <1>1, <1>4 DEF b

LEMMA CallsGrow ==
  ASSUME act \in [1..2 -> Mcount], calls \in [Arc -> Int], NEW l \in 1..2, Returns(l)
  PROVE  /\ calls' \in [Arc -> Int]
         /\ \A f \in Fn, s \in Site : calls'[<<f, s>>] = calls[<<f, s>>] +
              IF f = act[l].self /\ s = act[l].from THEN 1 ELSE 0
<1> DEFINE x == act[l].self
           y == act[l].from
<1>1. x \in Fn /\ y \in Site  BY ActIs
<1>2. calls' = [calls EXCEPT ![<<x, y>>] = @ + 1]  BY DEF Returns
<1> HIDE DEF x, y
<1>3. <<x, y>> \in Arc /\ \A f \in Fn, s \in Site : <<f, s>> \in Arc /\ calls[<<f, s>>] \in Int
  BY <1>1 DEF Arc
<1>4. calls' \in [Arc -> Int]
  <2>1. calls[<<x, y>>] + 1 \in Int  BY <1>1, <1>3
  <2>2. QED  BY <1>2, <2>1
<1>5. ASSUME NEW f \in Fn, NEW s \in Site
      PROVE  calls'[<<f, s>>] = calls[<<f, s>>] + IF f = x /\ s = y THEN 1 ELSE 0
  <2>1. CASE f = x /\ s = y  BY <1>2, <1>3, <2>1
  <2>2. CASE ~(f = x /\ s = y)
    <3>1. <<f, s>> # <<x, y>>  BY <2>2
    <3>2. calls'[<<f, s>>] = calls[<<f, s>>]  BY <1>2, <1>3, <3>1
    <3>3. QED  BY <1>3, <2>2, <3>2
  <2>3. QED  BY <2>1, <2>2
<1>6. QED  BY <1>4, <1>5 DEF x, y

\* What the steps do to the lists.
LEMMA StoreIs ==
  ASSUME ProfileTypes, WalksFound, NEW l \in 1..2, StoreCount(l)
  PROVE  /\ act[l].fn \in 1..Len(fns) /\ act[l].arc \in 1..Len(fns[act[l].fn].arcs) /\ act[l].count + 1 \in Nat
         /\ fns[act[l].fn].self = act[l].self /\ fns[act[l].fn].arcs[act[l].arc].from = act[l].from
         /\ StoredIn(fns, fns', act[l].fn, act[l].arc, act[l].count + 1)
<1>1. fns \in Seq(FnEntry) /\ act \in [1..2 -> Mcount] /\ act[l].count \in Nat  BY ActIs DEF ProfileTypes
<1>2. Walked(fns, act[l]) /\ act[l].pc = "store"
  <2>1. l = 1 \/ l = 2  OBVIOUS
  <2>2. QED  BY <2>1 DEF WalksFound, StoreCount, Runs
<1>3. /\ act[l].fn \in 1..Len(fns) /\ act[l].arc \in 1..Len(fns[act[l].fn].arcs)
      /\ fns[act[l].fn].self = act[l].self /\ fns[act[l].fn].arcs[act[l].arc].from = act[l].from
  BY <1>2 DEF Walked
<1>4. fns' = [fns EXCEPT ![act[l].fn].arcs[act[l].arc].count = act[l].count + 1]  BY DEF StoreCount
<1>5. act[l].count + 1 \in Nat  BY <1>1
<1> DEFINE i == act[l].fn
           j == act[l].arc
           c == act[l].count + 1
<1>6. i \in 1..Len(fns) /\ j \in 1..Len(fns[i].arcs) /\ c \in Nat  BY <1>3, <1>5
<1>7. fns' = [fns EXCEPT ![i].arcs[j].count = c]  BY <1>4
<1> HIDE DEF i, j, c
<1>8. StoredIn(fns, [fns EXCEPT ![i].arcs[j].count = c], i, j, c)  BY <1>1, <1>6, Stored
<1>9. StoredIn(fns, fns', i, j, c)  BY <1>7, <1>8, Zenon
<1>10. QED  BY <1>3, <1>5, <1>9 DEF i, j, c

LEMMA LinkIs ==
  ASSUME ProfileTypes, WalksFound, NEW l \in 1..2, fns' = Linked(l)
  PROVE  /\ act[l].self \in Fn /\ act[l].from \in Site
         /\ act[l].fn = 0 => FnLinkedIn(fns, fns', act[l].self, act[l].from)
         /\ act[l].fn # 0 => /\ act[l].fn \in 1..Len(fns) /\ fns[act[l].fn].self = act[l].self
                             /\ ArcLinkedIn(fns, fns', act[l].fn, act[l].from)
<1>1. fns \in Seq(FnEntry) /\ act[l].self \in Fn /\ act[l].from \in Site  BY ActIs DEF ProfileTypes
<1>2. Walked(fns, act[l])
  <2>1. l = 1 \/ l = 2  OBVIOUS
  <2>2. QED  BY <2>1 DEF WalksFound
<1>3. CASE act[l].fn = 0
  <2>1. fns' = Append(fns, [self |-> act[l].self, arcs |-> <<NewArc(act[l].from)>>])  BY <1>3 DEF Linked
  <2>2. FnLinkedIn(fns, fns', act[l].self, act[l].from)  BY <1>1, <2>1, FnLinked
  <2>3. QED  BY <1>1, <1>3, <2>2
<1>4. CASE act[l].fn # 0
  <2> DEFINE i == act[l].fn
             s == act[l].from
  <2>1. fns' = [fns EXCEPT ![i].arcs = Append(@, NewArc(s))]  BY <1>4 DEF Linked
  <2>2. i \in 1..Len(fns) /\ s \in Site /\ fns[i].self = act[l].self  BY <1>1, <1>2, <1>4 DEF Walked
  <2> HIDE DEF i, s
  <2>3. ArcLinkedIn(fns, [fns EXCEPT ![i].arcs = Append(@, NewArc(s))], i, s)  BY <1>1, <2>2, ArcLinked
  <2>4. ArcLinkedIn(fns, fns', i, s)  BY <2>1, <2>3, Zenon
  <2>5. QED  BY <1>1, <1>4, <2>2, <2>4 DEF i, s
<1>5. QED  BY <1>3, <1>4

\* Nothing that is in a list is ever lost.
LEMMA ListsKeep ==
  ASSUME ProfileTypes, WalksFound, NEW l \in 1..2, StoreCount(l) \/ fns' = Linked(l)
  PROVE  fns' \in Seq(FnEntry) /\ Keeps(fns, fns')
<1>0. fns \in Seq(FnEntry)  BY DEF ProfileTypes
<1> DEFINE a == act[l]
<1>1. CASE StoreCount(l)
  <2>1. a.fn \in 1..Len(fns) /\ a.arc \in 1..Len(fns[a.fn].arcs) /\ a.count + 1 \in Nat
        /\ StoredIn(fns, fns', a.fn, a.arc, a.count + 1)
    BY <1>1, StoreIs
  <2> HIDE DEF a
  <2>2. QED  BY <1>0, <2>1, StoredEffect
<1>2. CASE fns' = Linked(l)
  <2>1. /\ a.self \in Fn /\ a.from \in Site
        /\ a.fn = 0 => FnLinkedIn(fns, fns', a.self, a.from)
        /\ a.fn # 0 => a.fn \in 1..Len(fns) /\ ArcLinkedIn(fns, fns', a.fn, a.from)
    BY <1>2, LinkIs
  <2> HIDE DEF a
  <2>2. CASE a.fn = 0  BY <1>0, <2>1, <2>2, FnLinkedEffect
  <2>3. CASE a.fn # 0  BY <1>0, <2>1, <2>3, ArcLinkedEffect
  <2>4. QED  BY <2>2, <2>3
<1>3. QED  BY <1>1, <1>2

LEMMA FoundKept ==
  ASSUME NEW F, NEW G, Keeps(F, G), NEW a \in Mcount, Walked(F, a)
  PROVE  Walked(G, a)
<1>1. CASE a.fn = 0  BY <1>1 DEF Walked
<1>2. CASE a.fn # 0
  <2>1. a.fn \in 1..Len(F) /\ F[a.fn].self = a.self  BY <1>2 DEF Walked
  <2>2. a.fn \in 1..Len(G) /\ G[a.fn].self = a.self  BY <2>1 DEF Keeps
  <2>3. ASSUME a.pc \in {"load", "store"}
        PROVE  a.arc \in 1..Len(G[a.fn].arcs) /\ G[a.fn].arcs[a.arc].from = a.from
    <3>1. a.arc \in 1..Len(F[a.fn].arcs) /\ F[a.fn].arcs[a.arc].from = a.from  BY <2>3 DEF Walked
    <3>2. QED  BY <2>1, <3>1 DEF Keeps
  <2>4. QED  BY <1>2, <2>2, <2>3 DEF Walked
<1>3. QED  BY <1>1, <1>2

-----------------------------------------------------------------------------
\* The steps: calls and walks, the steps that only go on, the two that change a
\* list, and those outside mcount.
Goers(l) == TestNeedInit(l) \/ ClearNeedInit(l) \/ SamplerWaits(l) \/ SamplerStarts(l) \/ OutOfHeap(l)
Outside == \/ \E n \in Requests : ProgramAsks(n)
          \/ ClockSet
          \/ \E k \in 0..Histogram : PcSample(BucketBytes * k)

LEMMA StepIs ==
  ASSUME ProfileNext
  PROVE  \/ \E l \in 1..2 : \/ \E f \in Fn, s \in Site : Call(l, f, s)
                            \/ WalkArcs(l) \/ LoadCount(l) \/ StoreCount(l) \/ Goers(l) \/ Link(l)
         \/ Outside
BY DEF ProfileNext, Goers, Outside

LEMMA GoersGo ==
  ASSUME NEW l \in 1..2, Goers(l)
  PROVE  /\ Links(act[l]) /\ (l = 1 => act[2].pc = "idle")
         /\ \E p \in {"init", "start", "link", "astray"} : Goes(l, p)
         /\ UNCHANGED <<fns, clock, irqs, nodes, hit, calls, lost>>
<1>1. CASE TestNeedInit(l)  BY <1>1 DEF TestNeedInit, Runs, Links, sampler, history, memory
<1>2. CASE ClearNeedInit(l)  BY <1>2 DEF ClearNeedInit, Runs, Links, history, memory
<1>3. CASE SamplerWaits(l)  BY <1>3 DEF SamplerWaits, Runs, Links, history, memory
<1>4. CASE SamplerStarts(l)  BY <1>4 DEF SamplerStarts, Runs, Links, history
<1>5. CASE OutOfHeap(l)
  <2>1. Runs(l, "start") \/ Runs(l, "link")  BY <1>5 DEF OutOfHeap
  <2>2. Goes(l, "astray") /\ UNCHANGED <<fns, clock, irqs, memory, sampler, history>>  BY <1>5 DEF OutOfHeap
  <2>3. QED  BY <2>1, <2>2 DEF Runs, Links, sampler, history, memory
<1>6. QED  BY <1>1, <1>2, <1>3, <1>4, <1>5 DEF Goers

LEMMA OutsideDo ==
  ASSUME Outside
  PROVE  /\ UNCHANGED <<fns, act, irqs, nodes, need_init, started, calls, lost>>
         /\ clock' = clock \/ clock' = TRUE
<1>1. ASSUME NEW n \in Requests, ProgramAsks(n)
      PROVE  UNCHANGED <<fns, act, irqs, nodes, need_init, started, calls, lost, clock>>
  BY <1>1 DEF ProgramAsks, sampler, history
<1>2. ASSUME ClockSet
      PROVE  UNCHANGED <<fns, act, irqs, nodes, need_init, started, calls, lost>> /\ clock' = TRUE
  BY <1>2 DEF ClockSet, sampler, history, memory
<1>3. ASSUME NEW k \in 0..Histogram, PcSample(BucketBytes * k)
      PROVE  UNCHANGED <<fns, act, irqs, nodes, need_init, started, calls, lost, clock>>
  BY <1>3 DEF PcSample, history, memory
<1>4. QED  BY <1>1, <1>2, <1>3 DEF Outside

-----------------------------------------------------------------------------
\* The walks.
LEMMA WalksFoundStep ==
  ASSUME ProfileInv, ProfileNext
  PROVE  fns' \in Seq(FnEntry) /\ act' \in [1..2 -> Mcount] /\ irqs' \in BOOLEAN /\ WalksFound'
<1>1. /\ fns \in Seq(FnEntry) /\ act \in [1..2 -> Mcount] /\ irqs \in BOOLEAN
      /\ ProfileTypes /\ WalksFound
      /\ Walked(fns, act[1]) /\ Walked(fns, act[2]) /\ (~irqs => act[2].pc = "idle")
      /\ 1 \in 1..2 /\ 2 \in 1..2
  BY DEF ProfileInv, ProfileTypes, WalksFound
\* A step of level l that leaves the lists alone.
<1>2. ASSUME NEW l \in 1..2, fns' = fns, irqs' = irqs, act' \in [1..2 -> Mcount],
             \A m \in 1..2 : m # l => act'[m] = act[m],
             Walked(fns, act'[l]), l = 2 => irqs
      PROVE  fns' \in Seq(FnEntry) /\ act' \in [1..2 -> Mcount] /\ irqs' \in BOOLEAN /\ WalksFound'
  <2>1. Walked(fns', act'[1]) /\ Walked(fns', act'[2])
    <3>1. CASE l = 1  BY <1>1, <1>2, <3>1
    <3>2. CASE l = 2  BY <1>1, <1>2, <3>2
    <3>3. QED  BY <3>1, <3>2
  <2>2. ~irqs' => act'[2].pc = "idle"
    <3>1. CASE l = 1  BY <1>1, <1>2, <3>1
    <3>2. CASE l = 2  BY <1>1, <1>2, <3>2
    <3>3. QED  BY <3>1, <3>2
  <2>3. QED  BY <1>1, <1>2, <2>1, <2>2 DEF WalksFound
\* One that returns.
<1>3. ASSUME NEW l \in 1..2, fns' \in Seq(FnEntry), Keeps(fns, fns'), Returns(l)
      PROVE  fns' \in Seq(FnEntry) /\ act' \in [1..2 -> Mcount] /\ irqs' \in BOOLEAN /\ WalksFound'
  <2>1. /\ act' \in [1..2 -> Mcount] /\ act'[l] = Idle /\ \A m \in 1..2 : m # l => act'[m] = act[m]
        /\ irqs' = (irqs \/ act[l].self = RegisterFn)
    BY <1>1, <1>3, ReturnsIs
  <2>2. Walked(fns', Idle)  BY DEF Walked, Idle
  <2>3. ASSUME NEW m \in 1..2 PROVE Walked(fns', act'[m])
    <3>1. CASE m = l  BY <2>1, <2>2, <3>1
    <3>2. CASE m # l
      <4>1. act'[m] = act[m] /\ act[m] \in Mcount  BY <1>1, <2>1, <3>2
      <4>2. Walked(fns, act[m])
        <5>1. m = 1 \/ m = 2  OBVIOUS
        <5>2. QED  BY <1>1, <5>1
      <4>3. QED  BY <1>3, <4>1, <4>2, FoundKept
    <3>3. QED  BY <3>1, <3>2
  <2>4. ~irqs' => act'[2].pc = "idle"
    <3>1. CASE l = 2  BY <2>1, <3>1, IdleIs
    <3>2. CASE l # 2  BY <1>1, <2>1, <3>2
    <3>3. QED  BY <3>1, <3>2
  <2>5. Walked(fns', act'[1]) /\ Walked(fns', act'[2])  BY <1>1, <2>3
  <2>6. irqs' \in BOOLEAN  BY <2>1
  <2>7. WalksFound'  BY <2>4, <2>5 DEF WalksFound
  <2>8. QED  BY <1>3, <2>1, <2>6, <2>7
<1> DEFINE Then == fns' \in Seq(FnEntry) /\ act' \in [1..2 -> Mcount] /\ irqs' \in BOOLEAN /\ WalksFound'
<1>4. ASSUME NEW l \in 1..2, NEW f \in Fn, NEW s \in Site, Call(l, f, s) PROVE Then
  <2>1. /\ act' \in [1..2 -> Mcount] /\ \A m \in 1..2 : m # l => act'[m] = act[m]
        /\ act'[l].pc = (IF FindFn(f) = 0 THEN "record" ELSE "arcs")
        /\ act'[l].self = f /\ act'[l].from = s /\ act'[l].fn = FindFn(f)
    BY <1>1, <1>4, CallIs
  <2>2. FindFn(f) # 0 => FindFn(f) \in 1..Len(fns) /\ fns[FindFn(f)].self = f  BY <1>1, WalkFinds
  <2>3. Walked(fns, act'[l])  BY <2>1, <2>2 DEF Walked
  <2>4. fns' = fns /\ irqs' = irqs /\ (l = 2 => irqs)  BY <1>4 DEF Call
  <2>5. QED  BY <1>2, <2>1, <2>3, <2>4
<1>5. ASSUME NEW l \in 1..2, WalkArcs(l) PROVE Then
  <2>0. Walked(fns, act[l]) /\ act[l].pc = "arcs" /\ (l = 2 => irqs)
    <3>1. l = 1 \/ l = 2  OBVIOUS
    <3>2. act[l].pc = "arcs"  BY <1>5 DEF WalkArcs, Runs
    <3>3. QED  BY <1>1, <3>1, <3>2
  <2>1. act[l].fn \in 1..Len(fns) /\ fns[act[l].fn].self = act[l].self  BY <2>0 DEF Walked
  <2>2. /\ act' \in [1..2 -> Mcount] /\ \A m \in 1..2 : m # l => act'[m] = act[m]
        /\ act'[l].self = act[l].self /\ act'[l].from = act[l].from /\ act'[l].fn = act[l].fn
        /\ act'[l].arc = FindArc(act[l].fn, act[l].from)
        /\ act'[l].pc = IF act'[l].arc = 0 THEN "record" ELSE "load"
    BY <1>1, <1>5, <2>1, WalkIs
  <2> DEFINE k == FindArc(act[l].fn, act[l].from)
  <2>3. k # 0 => k \in 1..Len(fns[act[l].fn].arcs) /\ fns[act[l].fn].arcs[k].from = act[l].from
    BY <1>1, <2>1, WalkFinds
  <2>4. Walked(fns, act'[l])  BY <2>1, <2>2, <2>3 DEF Walked
  <2>5. fns' = fns /\ irqs' = irqs  BY <1>5 DEF WalkArcs
  <2>6. QED  BY <1>2, <2>0, <2>2, <2>4, <2>5
<1>6. ASSUME NEW l \in 1..2, LoadCount(l) PROVE Then
  <2>0. Walked(fns, act[l]) /\ act[l].pc = "load" /\ (l = 2 => irqs)
    <3>1. l = 1 \/ l = 2  OBVIOUS
    <3>2. act[l].pc = "load"  BY <1>6 DEF LoadCount, Runs
    <3>3. QED  BY <1>1, <3>1, <3>2
  <2>1. /\ act[l].fn \in 1..Len(fns) /\ fns[act[l].fn].self = act[l].self
        /\ act[l].arc \in 1..Len(fns[act[l].fn].arcs) /\ fns[act[l].fn].arcs[act[l].arc].from = act[l].from
    BY <2>0 DEF Walked
  <2>2. /\ act' \in [1..2 -> Mcount] /\ \A m \in 1..2 : m # l => act'[m] = act[m]
        /\ act'[l].pc = "store" /\ act'[l].self = act[l].self /\ act'[l].from = act[l].from
        /\ act'[l].fn = act[l].fn /\ act'[l].arc = act[l].arc
    BY <1>1, <1>6, <2>1, LoadIs
  <2>4. Walked(fns, act'[l])  BY <2>0, <2>1, <2>2 DEF Walked
  <2>5. fns' = fns /\ irqs' = irqs  BY <1>6 DEF LoadCount
  <2>6. QED  BY <1>2, <2>0, <2>2, <2>4, <2>5
<1>7. ASSUME NEW l \in 1..2, StoreCount(l) PROVE Then
  <2>1. fns' \in Seq(FnEntry) /\ Keeps(fns, fns')  BY <1>1, <1>7, ListsKeep
  <2>2. Returns(l)  BY <1>7 DEF StoreCount
  <2>3. QED  BY <1>3, <2>1, <2>2
<1>8. ASSUME NEW l \in 1..2, Link(l) PROVE Then
  <2>0. fns' = Linked(l) /\ Returns(l)  BY <1>8 DEF Link
  <2>1. fns' \in Seq(FnEntry) /\ Keeps(fns, fns')  BY <1>1, <2>0, ListsKeep
  <2>3. QED  BY <1>3, <2>0, <2>1
<1>9. ASSUME NEW l \in 1..2, Goers(l) PROVE Then
  <2>1. Links(act[l]) /\ fns' = fns /\ irqs' = irqs  BY <1>9, GoersGo
  <2>2. PICK p \in {"init", "start", "link", "astray"} : Goes(l, p)  BY <1>9, GoersGo
  <2>3. p \in Pcs  BY DEF Pcs
  <2>4. /\ act' \in [1..2 -> Mcount] /\ \A m \in 1..2 : m # l => act'[m] = act[m]
        /\ act'[l].pc = p /\ act'[l].self = act[l].self /\ act'[l].from = act[l].from
        /\ act'[l].fn = act[l].fn /\ act'[l].arc = act[l].arc
    BY <1>1, <2>2, <2>3, GoesIs
  <2>5. Walked(fns, act[l]) /\ (l = 2 => irqs)
    <3>1. l = 1 \/ l = 2  OBVIOUS
    <3>2. act[l].pc # "idle"  BY <2>1 DEF Links
    <3>3. QED  BY <1>1, <3>1, <3>2
  <2>6. Walked(fns, act'[l])  BY <2>4, <2>5 DEF Walked
  <2>7. QED  BY <1>2, <2>1, <2>4, <2>5, <2>6
<1>10. ASSUME Outside PROVE Then
  <2>1. fns' = fns /\ act' = act /\ irqs' = irqs  BY <1>10, OutsideDo
  <2>2. QED  BY <1>1, <2>1 DEF WalksFound
<1>11. QED
  <2> HIDE DEF Then
  <2>1. Then  BY <1>4, <1>5, <1>6, <1>7, <1>8, <1>9, <1>10, StepIs
  <2>2. QED  BY <2>1 DEF Then

-----------------------------------------------------------------------------
\* The copies.
LEMMA OneMoreCopy ==
  ASSUME NEW S, NEW x
  PROVE  /\ AtMostOne(S) => AtMostTwo(S) /\ AtMostTwo(S \cup {x})
         /\ AtMostOne({}) /\ AtMostOne({} \cup {x})
BY DEF AtMostOne, AtMostTwo

\* What an action links has at most one copy, and for the interrupt routine none.
LEMMA LinkCopies ==
  ASSUME ProfileTypes, WalksFound, NEW l \in 1..2, fns' = Linked(l),
         \A f \in Fn : AtMostTwo(FnCopies(fns, f)),
         \A k \in 1..Len(fns), s \in Site : AtMostTwo(ArcCopies(fns, k, s)),
         act[l].fn = 0 => AtMostOne(FnCopies(fns, act[l].self)),
         act[l].fn # 0 => AtMostOne(ArcCopies(fns, act[l].fn, act[l].from))
  PROVE  /\ \A f \in Fn : AtMostTwo(FnCopies(fns', f))
         /\ \A k \in 1..Len(fns'), s \in Site : AtMostTwo(ArcCopies(fns', k, s))
         /\ \A f \in Fn : AtMostOne(FnCopies(fns, f)) /\ (act[l].fn = 0 => FnCopies(fns, act[l].self) = {})
              => AtMostOne(FnCopies(fns', f))
         /\ \A k \in 1..Len(fns), s \in Site :
              AtMostOne(ArcCopies(fns, k, s)) /\ (act[l].fn # 0 => ArcCopies(fns, act[l].fn, act[l].from) = {})
              => AtMostOne(ArcCopies(fns', k, s))
<1> DEFINE a == act[l]
           i == a.fn
           g == a.self
           r == a.from
           F == fns
           G == fns'
<1>1. F \in Seq(FnEntry) /\ Len(F) \in Nat  BY DEF ProfileTypes
<1>2. /\ g \in Fn /\ r \in Site
      /\ i = 0 => FnLinkedIn(F, G, g, r)
      /\ i # 0 => i \in 1..Len(F) /\ ArcLinkedIn(F, G, i, r)
  BY LinkIs
<1>3. /\ \A f \in Fn : AtMostTwo(FnCopies(F, f))
      /\ \A k \in 1..Len(F), s \in Site : AtMostTwo(ArcCopies(F, k, s))
      /\ i = 0 => AtMostOne(FnCopies(F, g))
      /\ i # 0 => AtMostOne(ArcCopies(F, i, r))
  OBVIOUS
<1> SUFFICES
       /\ \A f \in Fn : AtMostTwo(FnCopies(G, f))
       /\ \A k \in 1..Len(G), s \in Site : AtMostTwo(ArcCopies(G, k, s))
       /\ \A f \in Fn : AtMostOne(FnCopies(F, f)) /\ (i = 0 => FnCopies(F, g) = {})
            => AtMostOne(FnCopies(G, f))
       /\ \A k \in 1..Len(F), s \in Site :
            AtMostOne(ArcCopies(F, k, s)) /\ (i # 0 => ArcCopies(F, i, r) = {})
            => AtMostOne(ArcCopies(G, k, s))
  OBVIOUS
<1> HIDE DEF a, i, g, r, F, G
<1>4. CASE i = 0
  <2>1. /\ Len(G) = Len(F) + 1
        /\ \A f : IF f = g THEN FnCopies(G, f) = FnCopies(F, f) \cup {Len(F) + 1}
                           ELSE FnCopies(G, f) = FnCopies(F, f)
        /\ \A k \in 1..Len(F), s \in Site : ArcCopies(G, k, s) = ArcCopies(F, k, s)
        /\ \A s \in Site : AtMostOne(ArcCopies(G, Len(F) + 1, s))
    BY <1>1, <1>2, <1>4, FnLinkedEffect
  <2>2. ASSUME NEW f \in Fn
        PROVE  /\ AtMostTwo(FnCopies(G, f))
               /\ AtMostOne(FnCopies(F, f)) /\ FnCopies(F, g) = {} => AtMostOne(FnCopies(G, f))
    <3>1. CASE f = g
      <4>1. FnCopies(G, f) = FnCopies(F, f) \cup {Len(F) + 1}  BY <2>1, <3>1
      <4>2. AtMostOne(FnCopies(F, f))  BY <1>3, <1>4, <3>1
      <4>3. QED  BY <3>1, <4>1, <4>2, OneMoreCopy
    <3>2. CASE f # g  BY <1>3, <2>1, <3>2
    <3>3. QED  BY <3>1, <3>2
  <2>3. ASSUME NEW k \in 1..Len(G), NEW s \in Site PROVE AtMostTwo(ArcCopies(G, k, s))
    <3>1. k \in 1..Len(F) \/ k = Len(F) + 1  BY <1>1, <2>1
    <3>2. AtMostOne(ArcCopies(G, Len(F) + 1, s)) => AtMostTwo(ArcCopies(G, Len(F) + 1, s))  BY OneMoreCopy
    <3>3. QED  BY <1>3, <2>1, <3>1, <3>2
  <2>4. QED  BY <1>4, <2>1, <2>2, <2>3
<1>5. CASE i # 0
  <2>1. /\ Len(G) = Len(F) /\ i \in 1..Len(F)
        /\ \A f : FnCopies(G, f) = FnCopies(F, f)
        /\ \A k \in 1..Len(F), s \in Site :
             IF k = i /\ s = r THEN ArcCopies(G, k, s) = ArcCopies(F, k, s) \cup {Len(F[i].arcs) + 1}
                               ELSE ArcCopies(G, k, s) = ArcCopies(F, k, s)
    BY <1>1, <1>2, <1>5, ArcLinkedEffect
  <2>2. ASSUME NEW k \in 1..Len(F), NEW s \in Site
        PROVE  /\ AtMostTwo(ArcCopies(G, k, s))
               /\ AtMostOne(ArcCopies(F, k, s)) /\ ArcCopies(F, i, r) = {} => AtMostOne(ArcCopies(G, k, s))
    <3>1. CASE k = i /\ s = r
      <4>1. ArcCopies(G, k, s) = ArcCopies(F, k, s) \cup {Len(F[i].arcs) + 1}  BY <2>1, <3>1
      <4>2. AtMostOne(ArcCopies(F, k, s))  BY <1>3, <1>5, <3>1
      <4>3. QED  BY <3>1, <4>1, <4>2, OneMoreCopy
    <3>2. CASE ~(k = i /\ s = r)
      <4>1. ArcCopies(G, k, s) = ArcCopies(F, k, s)  BY <2>1, <3>2
      <4>2. QED  BY <1>3, <4>1
    <3>3. QED  BY <3>1, <3>2
  <2>3. QED  BY <1>3, <1>5, <2>1, <2>2
<1>6. QED  BY <1>4, <1>5

LEMMA CopiesKeptStep ==
  ASSUME ProfileInv, ProfileNext
  PROVE  CopiesKept'
<1>1. /\ fns \in Seq(FnEntry) /\ act \in [1..2 -> Mcount] /\ ProfileTypes /\ WalksFound
      /\ Walked(fns, act[1]) /\ Walked(fns, act[2]) /\ 1 \in 1..2 /\ 2 \in 1..2
      /\ CopiesFew(fns, act[1], act[2])
  BY DEF ProfileInv, ProfileTypes, WalksFound, CopiesKept
<1>2. /\ \A f \in Fn : AtMostTwo(FnCopies(fns, f))
      /\ \A k \in 1..Len(fns), s \in Site : AtMostTwo(ArcCopies(fns, k, s))
      /\ NewFn(act[1]) => AtMostOne(FnCopies(fns, act[1].self))
      /\ NewFn(act[2]) => FnCopies(fns, act[2].self) = {}
      /\ NewArcOf(act[1]) => AtMostOne(ArcCopies(fns, act[1].fn, act[1].from))
      /\ NewArcOf(act[2]) => ArcCopies(fns, act[2].fn, act[2].from) = {}
  BY <1>1 DEF CopiesFew
\* A step of level l that leaves the lists alone: what is to be linked then was
\* to be linked before, or has no copy.
<1>3. ASSUME NEW l \in 1..2, fns' = fns, \A m \in 1..2 : m # l => act'[m] = act[m],
             \/ NewFn(act[l]) /\ act'[l].self = act[l].self
             \/ NewFn(act'[l]) => FnCopies(fns, act'[l].self) = {},
             \/ NewArcOf(act[l]) /\ act'[l].fn = act[l].fn /\ act'[l].from = act[l].from
             \/ NewArcOf(act'[l]) => ArcCopies(fns, act'[l].fn, act'[l].from) = {}
      PROVE  CopiesKept'
  <2>0. AtMostOne({})  BY OneMoreCopy
  <2>1. CASE l = 1
    <3>1. act'[2] = act[2]  BY <1>1, <1>3, <2>1
    <3>2. NewFn(act'[1]) => AtMostOne(FnCopies(fns, act'[1].self))  BY <1>2, <1>3, <2>0, <2>1
    <3>3. NewArcOf(act'[1]) => AtMostOne(ArcCopies(fns, act'[1].fn, act'[1].from))  BY <1>2, <1>3, <2>0, <2>1
    <3>4. CopiesFew(fns, act'[1], act'[2])  BY <1>2, <3>1, <3>2, <3>3 DEF CopiesFew
    <3>5. QED  BY <1>3, <3>4 DEF CopiesKept
  <2>2. CASE l = 2
    <3>1. act'[1] = act[1]  BY <1>1, <1>3, <2>2
    <3>2. NewFn(act'[2]) => FnCopies(fns, act'[2].self) = {}  BY <1>2, <1>3, <2>2
    <3>3. NewArcOf(act'[2]) => ArcCopies(fns, act'[2].fn, act'[2].from) = {}  BY <1>2, <1>3, <2>2
    <3>4. CopiesFew(fns, act'[1], act'[2])  BY <1>2, <3>1, <3>2, <3>3 DEF CopiesFew
    <3>5. QED  BY <1>3, <3>4 DEF CopiesKept
  <2>3. QED  BY <2>1, <2>2
<1>i. ~NewFn(Idle) /\ ~NewArcOf(Idle)  BY DEF NewFn, NewArcOf, Links, Idle
<1>4. ASSUME NEW l \in 1..2, NEW f \in Fn, NEW s \in Site, Call(l, f, s) PROVE CopiesKept'
  <2>1. /\ act' \in [1..2 -> Mcount] /\ \A m \in 1..2 : m # l => act'[m] = act[m]
        /\ act'[l].pc = (IF FindFn(f) = 0 THEN "record" ELSE "arcs")
        /\ act'[l].self = f /\ act'[l].from = s /\ act'[l].fn = FindFn(f)
    BY <1>1, <1>4, CallIs
  <2>2. FindFn(f) = 0 => FnCopies(fns, f) = {}  BY <1>1, WalkFinds
  <2>3. NewFn(act'[l]) => FnCopies(fns, act'[l].self) = {}  BY <2>1, <2>2 DEF NewFn, Links
  <2>4. ~NewArcOf(act'[l])  BY <2>1 DEF NewArcOf, Links
  <2>5. fns' = fns  BY <1>4 DEF Call
  <2>6. QED  BY <1>3, <2>1, <2>3, <2>4, <2>5
<1>5. ASSUME NEW l \in 1..2, WalkArcs(l) PROVE CopiesKept'
  <2>0. Walked(fns, act[l]) /\ act[l].pc = "arcs"
    <3>1. l = 1 \/ l = 2  OBVIOUS
    <3>2. act[l].pc = "arcs"  BY <1>5 DEF WalkArcs, Runs
    <3>3. QED  BY <1>1, <3>1, <3>2
  <2>1. act[l].fn \in 1..Len(fns) /\ act[l].fn # 0  BY <2>0 DEF Walked
  <2>2. /\ act' \in [1..2 -> Mcount] /\ \A m \in 1..2 : m # l => act'[m] = act[m]
        /\ act'[l].self = act[l].self /\ act'[l].from = act[l].from /\ act'[l].fn = act[l].fn
        /\ act'[l].arc = FindArc(act[l].fn, act[l].from)
        /\ act'[l].pc = IF act'[l].arc = 0 THEN "record" ELSE "load"
    BY <1>1, <1>5, <2>1, WalkIs
  <2>3. FindArc(act[l].fn, act[l].from) = 0 => ArcCopies(fns, act[l].fn, act[l].from) = {}
    BY <1>1, <2>1, WalkFinds
  <2>4. NewArcOf(act'[l]) => ArcCopies(fns, act'[l].fn, act'[l].from) = {}
    BY <2>2, <2>3 DEF NewArcOf, Links
  <2>5. ~NewFn(act'[l])  BY <2>1, <2>2 DEF NewFn
  <2>6. fns' = fns  BY <1>5 DEF WalkArcs
  <2>7. QED  BY <1>3, <2>2, <2>4, <2>5, <2>6
<1>6. ASSUME NEW l \in 1..2, LoadCount(l) PROVE CopiesKept'
  <2>0. Walked(fns, act[l]) /\ act[l].pc = "load"
    <3>1. l = 1 \/ l = 2  OBVIOUS
    <3>2. act[l].pc = "load"  BY <1>6 DEF LoadCount, Runs
    <3>3. QED  BY <1>1, <3>1, <3>2
  <2>1. act[l].fn \in 1..Len(fns) /\ act[l].arc \in 1..Len(fns[act[l].fn].arcs)
    BY <2>0 DEF Walked
  <2>2. act'[l].pc = "store" /\ \A m \in 1..2 : m # l => act'[m] = act[m]
    BY <1>1, <1>6, <2>1, LoadIs
  <2>3. ~NewFn(act'[l]) /\ ~NewArcOf(act'[l])  BY <2>2 DEF NewFn, NewArcOf, Links
  <2>4. fns' = fns  BY <1>6 DEF LoadCount
  <2>5. QED  BY <1>3, <2>2, <2>3, <2>4
<1>7. ASSUME NEW l \in 1..2, StoreCount(l) PROVE CopiesKept'
  <2> DEFINE a == act[l]
  <2>1. a.fn \in 1..Len(fns) /\ a.arc \in 1..Len(fns[a.fn].arcs) /\ a.count + 1 \in Nat
        /\ StoredIn(fns, fns', a.fn, a.arc, a.count + 1)
    BY <1>1, <1>7, StoreIs
  <2>2. Returns(l)  BY <1>7 DEF StoreCount
  <2>3. act'[l] = Idle /\ \A m \in 1..2 : m # l => act'[m] = act[m]  BY <1>1, <2>2, ReturnsIs
  <2> HIDE DEF a
  <2>4. /\ Len(fns') = Len(fns) /\ \A f : FnCopies(fns', f) = FnCopies(fns, f)
        /\ \A k \in 1..Len(fns), s \in Site : ArcCopies(fns', k, s) = ArcCopies(fns, k, s)
    BY <1>1, <2>1, StoredEffect
  <2>5. ASSUME NEW m \in 1..2, m # l, NewArcOf(act[m])
        PROVE  ArcCopies(fns', act[m].fn, act[m].from) = ArcCopies(fns, act[m].fn, act[m].from)
    <3>1. m = 1 \/ m = 2  OBVIOUS
    <3>2. Walked(fns, act[m]) /\ act[m].fn # 0  BY <1>1, <2>5, <3>1 DEF NewArcOf
    <3>3. act[m].fn \in 1..Len(fns) /\ act[m].from \in Site  BY <1>1, <3>2, ActIs DEF Walked
    <3>4. QED  BY <2>4, <3>3
  <2>6. CASE l = 1
    <3>1. act'[1] = Idle /\ act'[2] = act[2]  BY <1>1, <2>3, <2>6
    <3>2. NewArcOf(act[2]) => ArcCopies(fns', act[2].fn, act[2].from) = {}  BY <1>1, <1>2, <2>5, <2>6
    <3>3. CopiesFew(fns', act'[1], act'[2])  BY <1>2, <1>i, <2>4, <3>1, <3>2 DEF CopiesFew
    <3>4. QED  BY <3>3 DEF CopiesKept
  <2>7. CASE l = 2
    <3>1. act'[2] = Idle /\ act'[1] = act[1]  BY <1>1, <2>3, <2>7
    <3>2. NewArcOf(act[1]) => AtMostOne(ArcCopies(fns', act[1].fn, act[1].from))  BY <1>1, <1>2, <2>5, <2>7
    <3>3. CopiesFew(fns', act'[1], act'[2])  BY <1>2, <1>i, <2>4, <3>1, <3>2 DEF CopiesFew
    <3>4. QED  BY <3>3 DEF CopiesKept
  <2>8. QED  BY <2>6, <2>7
<1>8. ASSUME NEW l \in 1..2, Link(l) PROVE CopiesKept'
  <2>1. fns' = Linked(l) /\ Returns(l) /\ act[l].pc = "link" /\ (l = 1 => act[2].pc = "idle")
    BY <1>8 DEF Link, Runs
  <2>2. act'[l] = Idle /\ \A m \in 1..2 : m # l => act'[m] = act[m]  BY <1>1, <2>1, ReturnsIs
  <2>3. Links(act[l])  BY <2>1 DEF Links
  <2>4. /\ act[l].fn = 0 => AtMostOne(FnCopies(fns, act[l].self))
        /\ act[l].fn # 0 => AtMostOne(ArcCopies(fns, act[l].fn, act[l].from))
        /\ l = 2 => /\ act[l].fn = 0 => FnCopies(fns, act[l].self) = {}
                    /\ act[l].fn # 0 => ArcCopies(fns, act[l].fn, act[l].from) = {}
    <3>1. l = 1 \/ l = 2  OBVIOUS
    <3>2. AtMostOne({})  BY OneMoreCopy
    <3>3. (act[l].fn = 0 => NewFn(act[l])) /\ (act[l].fn # 0 => NewArcOf(act[l]))  BY <2>3 DEF NewFn, NewArcOf
    <3>4. QED  BY <1>2, <3>1, <3>2, <3>3
  <2>5. /\ \A f \in Fn : AtMostTwo(FnCopies(fns', f))
        /\ \A k \in 1..Len(fns'), s \in Site : AtMostTwo(ArcCopies(fns', k, s))
        /\ \A f \in Fn : AtMostOne(FnCopies(fns, f)) /\ (act[l].fn = 0 => FnCopies(fns, act[l].self) = {})
              => AtMostOne(FnCopies(fns', f))
        /\ \A k \in 1..Len(fns), s \in Site :
              AtMostOne(ArcCopies(fns, k, s)) /\ (act[l].fn # 0 => ArcCopies(fns, act[l].fn, act[l].from) = {})
              => AtMostOne(ArcCopies(fns', k, s))
    BY <1>1, <1>2, <2>1, <2>4, LinkCopies
  <2>6. CASE l = 1
    <3>1. act'[1] = Idle /\ act'[2] = act[2] /\ act[2].pc = "idle"  BY <1>1, <2>1, <2>2, <2>6
    <3>2. ~NewFn(act'[2]) /\ ~NewArcOf(act'[2])  BY <3>1 DEF NewFn, NewArcOf, Links
    <3>3. CopiesFew(fns', act'[1], act'[2])  BY <1>i, <2>5, <3>1, <3>2 DEF CopiesFew
    <3>4. QED  BY <3>3 DEF CopiesKept
  <2>7. CASE l = 2
    <3>1. act'[2] = Idle /\ act'[1] = act[1]  BY <1>1, <2>2, <2>7
    <3>2. NewFn(act[1]) => AtMostOne(FnCopies(fns', act[1].self))
      <4>1. act[1].self \in Fn  BY <1>1, ActIs
      <4>2. QED  BY <1>2, <2>4, <2>5, <2>7, <4>1
    <3>3. NewArcOf(act[1]) => AtMostOne(ArcCopies(fns', act[1].fn, act[1].from))
      <4>1. act[1].from \in Site  BY <1>1, ActIs
      <4>2. NewArcOf(act[1]) => act[1].fn \in 1..Len(fns)  BY <1>1 DEF NewArcOf, Walked
      <4>3. QED  BY <1>2, <2>4, <2>5, <2>7, <4>1, <4>2
    <3>4. CopiesFew(fns', act'[1], act'[2])  BY <1>i, <2>5, <3>1, <3>2, <3>3 DEF CopiesFew
    <3>5. QED  BY <3>4 DEF CopiesKept
  <2>8. QED  BY <2>6, <2>7
<1>9. ASSUME NEW l \in 1..2, Goers(l) PROVE CopiesKept'
  <2>1. Links(act[l]) /\ fns' = fns  BY <1>9, GoersGo
  <2>2. PICK p \in {"init", "start", "link", "astray"} : Goes(l, p)  BY <1>9, GoersGo
  <2>3. p \in Pcs  BY DEF Pcs
  <2>4. /\ \A m \in 1..2 : m # l => act'[m] = act[m]
        /\ act'[l].self = act[l].self /\ act'[l].from = act[l].from /\ act'[l].fn = act[l].fn
    BY <1>1, <2>2, <2>3, GoesIs
  <2>5. (NewFn(act[l]) \/ ~NewFn(act'[l])) /\ (NewArcOf(act[l]) \/ ~NewArcOf(act'[l]))
    BY <2>1, <2>4 DEF NewFn, NewArcOf
  <2>6. QED  BY <1>3, <2>1, <2>4, <2>5
<1>10. ASSUME Outside PROVE CopiesKept'
  <2>1. fns' = fns /\ act' = act  BY <1>10, OutsideDo
  <2>2. QED  BY <1>1, <2>1 DEF CopiesKept
<1>11. QED  BY <1>4, <1>5, <1>6, <1>7, <1>8, <1>9, <1>10, StepIs

-----------------------------------------------------------------------------
\* The sampler.
LEMMA SamplerKeptStep ==
  ASSUME ProfileInv, ProfileNext
  PROVE  SamplerKept'
<1>1. /\ fns \in Seq(FnEntry) /\ act \in [1..2 -> Mcount] /\ ProfileTypes /\ WalksFound
      /\ irqs \in BOOLEAN /\ need_init \in BOOLEAN
      /\ Walked(fns, act[1]) /\ Walked(fns, act[2]) /\ 1 \in 1..2 /\ 2 \in 1..2
      /\ ~irqs => act[2].pc = "idle"
  BY DEF ProfileInv, ProfileTypes, WalksFound
<1>2. /\ started \in {0, 1} /\ (need_init => started = 0)
      /\ irqs => started = 1 /\ ~need_init /\ act[1].pc \notin {"init", "start"} /\ act[2].pc \notin {"init", "start"}
      /\ ~irqs => FnCopies(fns, RegisterFn) = {}
      /\ ~need_init => started = 1 \/ act[1].pc \in {"start", "astray"}
      /\ act[1].pc = "start" => ~need_init /\ started = 0
      /\ act[1].pc = "init" => need_init
      /\ ~irqs /\ act[1].pc = "link" /\ act[1].self = RegisterFn => started = 1
      /\ act[1].pc # "idle" /\ act[1].self = RegisterFn => clock
      /\ act[2].pc # "idle" => act[2].self # RegisterFn
  BY DEF ProfileInv, SamplerKept
\* A step that leaves the lists, the clock and the sampler alone.
<1>3. ASSUME NEW l \in 1..2, UNCHANGED <<fns, irqs, clock, need_init, started>>,
             \A m \in 1..2 : m # l => act'[m] = act[m],
             act'[l].pc \in {"arcs", "load", "store", "record"},
             act[l].pc \in {"idle", "arcs", "load", "store"},
             \/ act[l].pc # "idle" /\ act'[l].self = act[l].self
             \/ act'[l].self = RegisterFn => l = 1 /\ clock
      PROVE  SamplerKept'
  <2>1. CASE l = 1
    <3>1. act'[2] = act[2]  BY <1>1, <1>3, <2>1
    <3>2. act'[1].pc \in {"arcs", "load", "store", "record"} /\ act[1].pc \in {"idle", "arcs", "load", "store"}
      BY <1>3, <2>1
    <3>3. act'[1].self = RegisterFn => clock  BY <1>2, <1>3, <2>1
    <3>4. QED  BY <1>2, <1>3, <3>1, <3>2, <3>3 DEF SamplerKept
  <2>2. CASE l = 2
    <3>1. act'[1] = act[1]  BY <1>1, <1>3, <2>2
    <3>2. act'[2].pc \in {"arcs", "load", "store", "record"}  BY <1>3, <2>2
    <3>3. act'[2].self # RegisterFn  BY <1>2, <1>3, <2>2
    <3>4. QED  BY <1>2, <1>3, <3>1, <3>2, <3>3 DEF SamplerKept
  <2>3. QED  BY <2>1, <2>2
<1>4. ASSUME NEW l \in 1..2, NEW f \in Fn, NEW s \in Site, Call(l, f, s) PROVE SamplerKept'
  <2>1. /\ \A m \in 1..2 : m # l => act'[m] = act[m]
        /\ act'[l].pc = (IF FindFn(f) = 0 THEN "record" ELSE "arcs") /\ act'[l].self = f
    BY <1>1, <1>4, CallIs
  <2>2. /\ UNCHANGED <<fns, irqs, clock, need_init, started>> /\ act[l].pc = "idle"
        /\ (f = RegisterFn => l = 1 /\ clock)
    BY <1>4 DEF Call, Runs, sampler
  <2>3. act'[l].pc \in {"arcs", "load", "store", "record"}  BY <2>1
  <2>4. QED  BY <1>3, <2>1, <2>2, <2>3
<1>5. ASSUME NEW l \in 1..2, WalkArcs(l) PROVE SamplerKept'
  <2>0. Walked(fns, act[l]) /\ act[l].pc = "arcs"
    <3>1. l = 1 \/ l = 2  OBVIOUS
    <3>2. act[l].pc = "arcs"  BY <1>5 DEF WalkArcs, Runs
    <3>3. QED  BY <1>1, <3>1, <3>2
  <2>1. act[l].fn \in 1..Len(fns)  BY <2>0 DEF Walked
  <2>2. /\ \A m \in 1..2 : m # l => act'[m] = act[m]
        /\ act'[l].self = act[l].self /\ act'[l].pc = IF act'[l].arc = 0 THEN "record" ELSE "load"
    BY <1>1, <1>5, <2>1, WalkIs
  <2>3. UNCHANGED <<fns, irqs, clock, need_init, started>>  BY <1>5 DEF WalkArcs, sampler
  <2>4. act'[l].pc \in {"arcs", "load", "store", "record"}  BY <2>2
  <2>5. QED  BY <1>3, <2>0, <2>2, <2>3, <2>4
<1>6. ASSUME NEW l \in 1..2, LoadCount(l) PROVE SamplerKept'
  <2>0. Walked(fns, act[l]) /\ act[l].pc = "load"
    <3>1. l = 1 \/ l = 2  OBVIOUS
    <3>2. act[l].pc = "load"  BY <1>6 DEF LoadCount, Runs
    <3>3. QED  BY <1>1, <3>1, <3>2
  <2>1. act[l].fn \in 1..Len(fns) /\ act[l].arc \in 1..Len(fns[act[l].fn].arcs)  BY <2>0 DEF Walked
  <2>2. /\ act'[l].pc = "store" /\ act'[l].self = act[l].self
        /\ \A m \in 1..2 : m # l => act'[m] = act[m]
    BY <1>1, <1>6, <2>1, LoadIs
  <2>3. UNCHANGED <<fns, irqs, clock, need_init, started>>  BY <1>6 DEF LoadCount, sampler
  <2>4. QED  BY <1>3, <2>0, <2>2, <2>3
\* A step that returns.
<1>7. ASSUME NEW l \in 1..2, Returns(l), UNCHANGED <<clock, need_init, started>>, act[l].pc \in {"store", "link"},
             l = 1 => act[2].pc = "idle",
             ~irqs /\ act[l].self = RegisterFn => started = 1,
             ~irqs /\ act[l].self # RegisterFn => FnCopies(fns', RegisterFn) = {}
      PROVE  SamplerKept'
  <2>1. /\ act'[l] = Idle /\ (\A m \in 1..2 : m # l => act'[m] = act[m])
        /\ irqs' = (irqs \/ act[l].self = RegisterFn)
    BY <1>1, <1>7, ReturnsIs
  <2>2. CASE l = 1
    <3>1. act'[2] = act[2] /\ act[2].pc = "idle" /\ act'[1].pc = "idle"  BY <1>1, <1>7, <2>1, <2>2, IdleIs
    <3>2. act[1].pc \in {"store", "link"} /\ irqs' = (irqs \/ act[1].self = RegisterFn)  BY <1>7, <2>1, <2>2
    <3>3. irqs' => started = 1 /\ ~need_init  BY <1>2, <1>7, <2>2, <3>2
    <3>4. ~irqs' => FnCopies(fns', RegisterFn) = {}  BY <1>7, <2>2, <3>2
    <3>5. QED  BY <1>2, <1>7, <3>1, <3>2, <3>3, <3>4 DEF SamplerKept
  <2>3. CASE l = 2
    <3>1. act'[1] = act[1] /\ act'[2].pc = "idle"  BY <1>1, <2>1, <2>3, IdleIs
    <3>2. irqs /\ irqs'  BY <1>1, <1>7, <2>1, <2>3
    <3>3. QED  BY <1>2, <1>7, <3>1, <3>2 DEF SamplerKept
  <2>4. QED  BY <2>2, <2>3
<1>8. ASSUME NEW l \in 1..2, StoreCount(l) PROVE SamplerKept'
  <2> DEFINE a == act[l]
  <2>1. a.fn \in 1..Len(fns) /\ a.arc \in 1..Len(fns[a.fn].arcs) /\ a.count + 1 \in Nat
        /\ StoredIn(fns, fns', a.fn, a.arc, a.count + 1) /\ fns[a.fn].self = a.self
    BY <1>1, <1>8, StoreIs
  <2>2. /\ Returns(l) /\ UNCHANGED <<clock, need_init, started>> /\ act[l].pc = "store"
        /\ l = 1 => act[2].pc = "idle"
    BY <1>8 DEF StoreCount, Runs, sampler
  <2> HIDE DEF a
  <2>4. \A f : FnCopies(fns', f) = FnCopies(fns, f)  BY <1>1, <2>1, StoredEffect
  <2>5. a.self = RegisterFn => irqs
    <3>1. a.fn \in FnCopies(fns, a.self)  BY <2>1 DEF FnCopies
    <3>2. QED  BY <1>2, <3>1
  <2>6. ~irqs => FnCopies(fns', RegisterFn) = {}  BY <1>2, <2>4
  <2>7. ~irqs /\ act[l].self = RegisterFn => started = 1  BY <2>5 DEF a
  <2>8. QED  BY <1>7, <2>2, <2>6, <2>7
<1>9. ASSUME NEW l \in 1..2, Link(l) PROVE SamplerKept'
  <2>1. /\ fns' = Linked(l) /\ Returns(l) /\ act[l].pc = "link" /\ (l = 1 => act[2].pc = "idle")
        /\ UNCHANGED <<clock, need_init, started>>
    BY <1>9 DEF Link, Runs, sampler
  <2>2. ~irqs /\ act[l].self = RegisterFn => started = 1
    <3>1. l = 1 \/ l = 2  OBVIOUS
    <3>2. QED  BY <1>2, <2>1, <3>1
  <2>3. ~irqs /\ act[l].self # RegisterFn => FnCopies(fns', RegisterFn) = {}
    <3> DEFINE a == act[l]
    <3>1. /\ a.self \in Fn /\ a.from \in Site
          /\ a.fn = 0 => FnLinkedIn(fns, fns', a.self, a.from)
          /\ a.fn # 0 => a.fn \in 1..Len(fns) /\ ArcLinkedIn(fns, fns', a.fn, a.from)
      BY <1>1, <2>1, LinkIs
    <3> HIDE DEF a
    <3>2. a.self # RegisterFn => FnCopies(fns', RegisterFn) = FnCopies(fns, RegisterFn)
      <4>1. CASE a.fn = 0
        <5>1. \A f : IF f = a.self THEN FnCopies(fns', f) = FnCopies(fns, f) \cup {Len(fns) + 1}
                                   ELSE FnCopies(fns', f) = FnCopies(fns, f)
          BY <1>1, <3>1, <4>1, FnLinkedEffect
        <5>2. QED  BY <5>1
      <4>2. CASE a.fn # 0
        <5>1. \A f : FnCopies(fns', f) = FnCopies(fns, f)  BY <1>1, <3>1, <4>2, ArcLinkedEffect
        <5>2. QED  BY <5>1
      <4>3. QED  BY <4>1, <4>2
    <3>3. QED  BY <1>2, <3>2 DEF a
  <2>4. QED  BY <1>7, <2>1, <2>2, <2>3
\* The steps of __mcount_record.
<1>10. ASSUME NEW l \in 1..2, Goers(l) PROVE SamplerKept'
  <2>1. Links(act[l]) /\ UNCHANGED <<fns, irqs, clock>> /\ (l = 1 => act[2].pc = "idle")  BY <1>10, GoersGo
  <2>2. \A p \in {"init", "start", "link", "astray"} : Goes(l, p) =>
          /\ \A m \in 1..2 : m # l => act'[m] = act[m]
          /\ act'[l].pc = p /\ act'[l].self = act[l].self
    <3>1. \A p \in {"init", "start", "link", "astray"} : p \in Pcs  BY DEF Pcs
    <3>2. QED  BY <1>1, <3>1, GoesIs
  <2>3. \/ Goes(l, IF need_init THEN "init" ELSE "link") /\ act[l].pc = "record" /\ UNCHANGED <<need_init, started>>
        \/ Goes(l, "start") /\ act[l].pc = "init" /\ need_init' = FALSE /\ started' = started
        \/ Goes(l, "link") /\ act[l].pc = "start" /\ ~clock /\ need_init' = TRUE /\ started' = started
        \/ Goes(l, "link") /\ act[l].pc = "start" /\ clock /\ need_init' = need_init /\ started' = started + 1
        \/ Goes(l, "astray") /\ act[l].pc \in {"start", "link"} /\ UNCHANGED <<need_init, started>>
    <3>1. CASE TestNeedInit(l)  BY <3>1 DEF TestNeedInit, Runs, sampler
    <3>2. CASE ClearNeedInit(l)  BY <3>2 DEF ClearNeedInit, Runs
    <3>3. CASE SamplerWaits(l)  BY <3>3 DEF SamplerWaits, Runs
    <3>4. CASE SamplerStarts(l)  BY <3>4 DEF SamplerStarts, Runs
    <3>5. CASE OutOfHeap(l)
      <4>1. Runs(l, "start") \/ Runs(l, "link")  BY <3>5 DEF OutOfHeap
      <4>2. Goes(l, "astray") /\ UNCHANGED sampler  BY <3>5 DEF OutOfHeap
      <4>3. QED  BY <4>1, <4>2 DEF Runs, sampler
    <3>6. QED  BY <1>10, <3>1, <3>2, <3>3, <3>4, <3>5 DEF Goers
  <2>4. \/ act'[l].pc = (IF need_init THEN "init" ELSE "link") /\ act[l].pc = "record" /\ UNCHANGED <<need_init, started>>
        \/ act'[l].pc = "start" /\ act[l].pc = "init" /\ need_init' = FALSE /\ started' = started
        \/ act'[l].pc = "link" /\ act[l].pc = "start" /\ ~clock /\ need_init' = TRUE /\ started' = started
        \/ act'[l].pc = "link" /\ act[l].pc = "start" /\ clock /\ need_init' = need_init /\ started' = started + 1
        \/ act'[l].pc = "astray" /\ act[l].pc \in {"start", "link"} /\ UNCHANGED <<need_init, started>>
    BY <2>2, <2>3
  <2>5. act'[l].self = act[l].self /\ \A m \in 1..2 : m # l => act'[m] = act[m]
    BY <2>2, <2>3
  <2>6. CASE l = 1
    <3>1. act'[2] = act[2] /\ act[2].pc = "idle" /\ act'[1].self = act[1].self  BY <1>1, <2>1, <2>5, <2>6
    <3>2. CASE act'[1].pc = (IF need_init THEN "init" ELSE "link") /\ act[1].pc = "record" /\ UNCHANGED <<need_init, started>>
      BY <1>2, <2>1, <3>1, <3>2 DEF SamplerKept
    <3>3. CASE act'[1].pc = "start" /\ act[1].pc = "init" /\ need_init' = FALSE /\ started' = started
      BY <1>2, <2>1, <3>1, <3>3 DEF SamplerKept
    <3>4. CASE act'[1].pc = "link" /\ act[1].pc = "start" /\ ~clock /\ need_init' = TRUE /\ started' = started
      BY <1>2, <2>1, <3>1, <3>4 DEF SamplerKept
    <3>5. CASE act'[1].pc = "link" /\ act[1].pc = "start" /\ clock /\ need_init' = need_init /\ started' = started + 1
      BY <1>2, <2>1, <3>1, <3>5 DEF SamplerKept
    <3>6. CASE act'[1].pc = "astray" /\ act[1].pc \in {"start", "link"} /\ UNCHANGED <<need_init, started>>
      BY <1>2, <2>1, <3>1, <3>6 DEF SamplerKept
    <3>7. QED  BY <2>4, <2>6, <3>2, <3>3, <3>4, <3>5, <3>6
  <2>7. CASE l = 2
    <3>1. act'[1] = act[1] /\ act'[2].self = act[2].self /\ act[2].pc # "idle"
      BY <1>1, <2>1, <2>5, <2>7 DEF Links
    <3>2. irqs  BY <1>1, <3>1
    <3>3. /\ act'[2].pc \in {"link", "astray"} /\ UNCHANGED <<need_init, started>>
      BY <1>2, <2>4, <2>7, <3>2
    <3>4. QED  BY <1>2, <2>1, <3>1, <3>2, <3>3 DEF SamplerKept
  <2>8. QED  BY <2>6, <2>7
<1>11. ASSUME Outside PROVE SamplerKept'
  <2>1. UNCHANGED <<fns, act, irqs, need_init, started>> /\ (clock' = clock \/ clock' = TRUE)  BY <1>11, OutsideDo
  <2>2. QED  BY <1>2, <2>1 DEF SamplerKept
<1>12. QED  BY <1>4, <1>5, <1>6, <1>8, <1>9, <1>10, <1>11, StepIs

-----------------------------------------------------------------------------
\* The heap.
LEMMA HistogramIs ==
  Histogram \in Nat /\ \A k \in Nat : BucketOf(BucketBytes * k) = k
    /\ (TextBytes % BucketBytes = 0 /\ BucketBytes * k < TextBytes => k < Histogram)
<1>1. TextBytes \in Nat /\ BucketBytes \in Nat /\ BucketBytes > 0  BY ProfileAssumption
<1> DEFINE t == TextBytes
           u == BucketBytes
           h == t \div u
<1>2. h \in Nat /\ t = u * h + (t % u)  BY <1>1
<1>3. ASSUME NEW k \in Nat PROVE BucketOf(u * k) = k
  <2>1. u * k \in Nat  BY <1>1
  <2>2. (u * k) \div u = k  BY <1>1, <2>1
  <2>3. QED  BY <2>2 DEF BucketOf
<1>4. ASSUME NEW k \in Nat, t % u = 0, u * k < t PROVE k < h
  <2>1. t = u * h  BY <1>1, <1>2, <1>4
  <2>2. u * k < u * h  BY <1>4, <2>1
  <2> HIDE DEF h
  <2>3. QED  BY <1>1, <1>2, <2>2
<1>5. QED  BY <1>2, <1>3, <1>4 DEF Histogram

LEMMA HeapKeptStep ==
  ASSUME ProfileInv, ProfileNext
  PROVE  mem' \in Memory /\ blocks \subseteq blocks' /\ HeapKept'
<1> DEFINE Then == mem' \in Memory /\ blocks \subseteq blocks' /\ HeapKept'
<1>1. /\ fns \in Seq(FnEntry) /\ act \in [1..2 -> Mcount] /\ ProfileTypes /\ WalksFound
      /\ mem \in Memory /\ BlocksKept(mem, blocks) /\ NodesKept(mem, blocks, nodes)
      /\ Cardinality(nodes) = Elements(fns)
  BY DEF ProfileInv, ProfileTypes, HeapKept
<1>2. ASSUME UNCHANGED <<mem, blocks, nodes>>, Elements(fns') = Elements(fns) PROVE Then
  BY <1>1, <1>2 DEF HeapKept
<1>3. ASSUME NEW n \in Nat, NEW who \in {"program", "histogram", "mcount"}, who = "histogram" => n = 2 * Histogram,
             mem' = Sbrk(mem, n), blocks' = blocks \cup Block(mem'.got, n, who), UNCHANGED <<nodes, fns>>
      PROVE  Then
  <2>1. mem' \in Memory  BY <1>1, <1>3, SbrkIs
  <2>2. BlocksKept(mem', blocks')
    <3>1. BlocksKept(Sbrk(mem, n), blocks \cup Block(Sbrk(mem, n).got, n, who))  BY <1>1, <1>3, SbrkKeeps
    <3>2. QED  BY <1>3, <3>1
  <2>3. blocks \subseteq blocks'  BY <1>3
  <2>4. NodesKept(mem', blocks', nodes)
    <3>1. NodesKept(Sbrk(mem, n), blocks', nodes)  BY <1>1, <2>3, SbrkLeaves
    <3>2. QED  BY <1>3, <3>1
  <2>5. QED  BY <1>1, <1>3, <2>1, <2>2, <2>3, <2>4 DEF HeapKept
<1>4. ASSUME NEW l \in 1..2, NEW f \in Fn, NEW s \in Site, Call(l, f, s) PROVE Then
  BY <1>2, <1>4 DEF Call, memory
<1>5. ASSUME NEW l \in 1..2, WalkArcs(l) PROVE Then  BY <1>2, <1>5 DEF WalkArcs, memory
<1>6. ASSUME NEW l \in 1..2, LoadCount(l) PROVE Then  BY <1>2, <1>6 DEF LoadCount, memory
<1>7. ASSUME NEW l \in 1..2, StoreCount(l) PROVE Then
  <2> DEFINE a == act[l]
  <2>1. a.fn \in 1..Len(fns) /\ a.arc \in 1..Len(fns[a.fn].arcs) /\ a.count + 1 \in Nat
        /\ StoredIn(fns, fns', a.fn, a.arc, a.count + 1)
    BY <1>1, <1>7, StoreIs
  <2> HIDE DEF a
  <2>2. Elements(fns') = Elements(fns)  BY <1>1, <2>1, StoredEffect
  <2>3. QED  BY <1>2, <1>7, <2>2 DEF StoreCount, memory
<1>8. ASSUME NEW l \in 1..2, Goers(l) PROVE Then
  <2>1. CASE TestNeedInit(l)  BY <1>2, <2>1 DEF TestNeedInit, memory
  <2>2. CASE ClearNeedInit(l)  BY <1>2, <2>2 DEF ClearNeedInit, memory
  <2>3. CASE SamplerWaits(l)  BY <1>2, <2>3 DEF SamplerWaits, memory
  <2>4. CASE SamplerStarts(l)
    <3> DEFINE n == 2 * Histogram
               who == "histogram"
    <3>1. n \in Nat /\ who \in {"program", "histogram", "mcount"} /\ (who = "histogram" => n = 2 * Histogram)
      BY HistogramIs
    <3>2. mem' = Sbrk(mem, n) /\ blocks' = blocks \cup Block(mem'.got, n, who) /\ UNCHANGED <<nodes, fns>>
      BY <2>4 DEF SamplerStarts
    <3> HIDE DEF n, who
    <3>3. QED  BY <1>3, <3>1, <3>2
  <2>5. CASE OutOfHeap(l)
    <3>1. UNCHANGED <<fns, memory>>  BY <2>5 DEF OutOfHeap
    <3>2. QED  BY <1>2, <3>1 DEF memory
  <2>6. QED  BY <1>8, <2>1, <2>2, <2>3, <2>4, <2>5 DEF Goers
<1>9. ASSUME NEW l \in 1..2, Link(l) PROVE Then
  <2> DEFINE m1 == Allocate(mem)
             m2 == Allocate(m1)
             C1 == blocks \cup SlabBlock(mem)
             N1 == nodes \cup {Allocated(mem)}
             C2 == C1 \cup SlabBlock(m1)
             N2 == N1 \cup {Allocated(m1)}
  <2>1. fns' = Linked(l) /\ Allocated(mem) >= 0  BY <1>9 DEF Link
  <2>2. /\ m1 \in Memory /\ BlocksKept(m1, C1) /\ NodesKept(m1, C1, N1) /\ Cardinality(N1) = Cardinality(nodes) + 1
    BY <1>1, <2>1, AllocateKeeps
  <2> DEFINE a == act[l]
  <2>3. /\ a.self \in Fn /\ a.from \in Site
        /\ a.fn = 0 => FnLinkedIn(fns, fns', a.self, a.from)
        /\ a.fn # 0 => a.fn \in 1..Len(fns) /\ ArcLinkedIn(fns, fns', a.fn, a.from)
    BY <1>1, <2>1, LinkIs
  <2>4. Elements(fns) \in Int
    <3>1. Len(fns) \in Nat /\ Elements(fns) = Len(fns) + Total(ArcsOf(fns)) /\ Total(ArcsOf(fns)) \in Int  BY <1>1, SumsOf
    <3>2. QED  BY <3>1
  <2>5. CASE a.fn = 0
    <3>1. mem' = m2 /\ nodes' = N2 /\ blocks' = C2 /\ Allocated(m1) >= 0
      <4>1. /\ mem' = m2 /\ Allocated(m1) >= 0
            /\ nodes' = nodes \cup {Allocated(mem)} \cup {Allocated(m1)}
            /\ blocks' = blocks \cup (IF NewSlab(mem) THEN Block(m1.got, Slab, "mcount") ELSE {})
                                \cup (IF NewSlab(m1) THEN Block(m2.got, Slab, "mcount") ELSE {})
        BY <1>9, <2>5 DEF Link
      <4>2. QED  BY <4>1 DEF SlabBlock
    <3>2. Elements(fns') = Elements(fns) + 2
      <4> HIDE DEF a
      <4>1. QED  BY <1>1, <2>3, <2>5, FnLinkedEffect
    <3> HIDE DEF m1, C1, N1
    <3>3. /\ m2 \in Memory /\ BlocksKept(m2, C2) /\ NodesKept(m2, C2, N2) /\ Cardinality(N2) = Cardinality(N1) + 1
      BY <2>2, <3>1, AllocateKeeps
    <3>4. Cardinality(nodes') = Elements(fns')  BY <1>1, <2>2, <2>4, <3>1, <3>2, <3>3
    <3>5. blocks \subseteq blocks'  BY <3>1 DEF C1
    <3> HIDE DEF m2, C2, N2
    <3>6. QED  BY <3>1, <3>3, <3>4, <3>5 DEF HeapKept
  <2>6. CASE a.fn # 0
    <3>1. mem' = m1 /\ nodes' = N1 /\ blocks' = C1
      <4>1. /\ mem' = m1
            /\ nodes' = nodes \cup {Allocated(mem)} \cup {}
            /\ blocks' = blocks \cup (IF NewSlab(mem) THEN Block(m1.got, Slab, "mcount") ELSE {}) \cup {}
        BY <1>9, <2>6 DEF Link
      <4>2. QED  BY <4>1 DEF SlabBlock
    <3>2. Elements(fns') = Elements(fns) + 1
      <4> HIDE DEF a
      <4>1. QED  BY <1>1, <2>3, <2>6, ArcLinkedEffect
    <3>4. Cardinality(nodes') = Elements(fns')  BY <1>1, <2>2, <3>1, <3>2
    <3>5. blocks \subseteq blocks'  BY <3>1
    <3> HIDE DEF m1, C1, N1
    <3>6. QED  BY <2>2, <3>1, <3>4, <3>5 DEF HeapKept
  <2>7. QED  BY <2>5, <2>6
<1>10. ASSUME Outside PROVE Then
  <2>1. ASSUME NEW n \in Requests, ProgramAsks(n) PROVE Then
    <3> DEFINE who == "program"
    <3>1. n \in Nat /\ who \in {"program", "histogram", "mcount"} /\ (who = "histogram" => n = 2 * Histogram)
      BY ProfileAssumption
    <3>2. mem' = Sbrk(mem, n) /\ blocks' = blocks \cup Block(mem'.got, n, who) /\ UNCHANGED <<nodes, fns>>
      BY <2>1 DEF ProgramAsks
    <3> HIDE DEF who
    <3>3. QED  BY <1>3, <3>1, <3>2
  <2>2. ASSUME ClockSet PROVE Then  BY <1>2, <2>2 DEF ClockSet, memory
  <2>3. ASSUME NEW k \in 0..Histogram, PcSample(BucketBytes * k) PROVE Then  BY <1>2, <2>3 DEF PcSample, memory
  <2>4. QED  BY <1>10, <2>1, <2>2, <2>3 DEF Outside
<1>11. QED
  <2> HIDE DEF Then
  <2>1. Then  BY <1>4, <1>5, <1>6, <1>7, <1>8, <1>9, <1>10, StepIs
  <2>2. QED  BY <2>1 DEF Then

\* Only the timer takes samples.
LEMMA SampleSteps ==
  ASSUME ProfileNext
  PROVE  \/ hit' = hit
         \/ \E k \in 0..Histogram : PcSample(BucketBytes * k)
<1>1. ASSUME NEW l \in 1..2, NEW f \in Fn, NEW s \in Site, Call(l, f, s) PROVE hit' = hit
  BY <1>1 DEF Call, sampler
<1>2. ASSUME NEW l \in 1..2, WalkArcs(l) \/ LoadCount(l) \/ StoreCount(l) \/ Link(l) PROVE hit' = hit
  BY <1>2 DEF WalkArcs, LoadCount, StoreCount, Link, sampler
<1>3. ASSUME NEW l \in 1..2, Goers(l) PROVE hit' = hit  BY <1>3, GoersGo
<1>4. ASSUME NEW n \in Requests, ProgramAsks(n) PROVE hit' = hit  BY <1>4 DEF ProgramAsks, sampler
<1>5. ASSUME ClockSet PROVE hit' = hit  BY <1>5 DEF ClockSet, sampler
<1>6. QED  BY <1>1, <1>2, <1>3, <1>4, <1>5, StepIs DEF Outside

\* The bucket behind the histogram reaches the next block only if nothing is
\* lost to its alignment.
LEMMA SampleInPlaceStep ==
  ASSUME ProfileInv, ProfileNext
  PROVE  SampleInPlace'
<1>1. SampleInPlace /\ blocks \subseteq blocks'  BY HeapKeptStep DEF ProfileInv
<1>2. CASE hit' = hit
  BY <1>1, <1>2 DEF SampleInPlace
<1>3. ASSUME NEW k \in 0..Histogram, PcSample(BucketBytes * k) PROVE SampleInPlace'
  <2>1. k \in Nat /\ k <= Histogram /\ Histogram \in Nat  BY HistogramIs
  <2>2. PICK h \in blocks : h.for = "histogram" /\ hit' = BlocksAt(h.lo + 2 * BucketOf(BucketBytes * k))
    BY <1>3 DEF PcSample
  <2>3. BucketBytes * k < TextBytes  BY <1>3 DEF PcSample
  <2>4. BucketOf(BucketBytes * k) = k /\ (TextBytes % BucketBytes = 0 => k < Histogram)
    BY <2>1, <2>3, HistogramIs
  <2>5. hit' = BlocksAt(h.lo + 2 * k)  BY <2>2, <2>4, Zenon
  <2>6. /\ h.lo \in Nat /\ h.lo % 4 = 0 /\ h.hi = h.lo + 2 * Histogram
        /\ \A b \in blocks : b.lo \in Nat /\ b.hi \in Nat /\ b.lo % 4 = 0 /\ b.lo <= b.hi
    BY <2>2 DEF ProfileInv, HeapKept, BlocksKept, HeapBlock
  <2>7. \A b \in blocks : b = h \/ b.hi <= h.lo \/ h.hi <= b.lo
    BY DEF ProfileInv, HeapKept, BlocksKept, Apart
  <2>8. ASSUME NEW n \in hit', n.for # "histogram"
        PROVE  TextBytes % BucketBytes # 0 /\ Histogram % 2 = 0 /\ n.lo = h.hi /\ n.at = h.hi
    <3>1. PICK b \in blocks : /\ n = [lo |-> b.lo, for |-> b.for, at |-> h.lo + 2 * k]
                              /\ b.lo < h.lo + 2 * k + 2 /\ h.lo + 2 * k < b.hi
      BY <2>5, <2>8 DEF BlocksAt
    <3>2. b.lo \in Nat /\ b.hi \in Nat /\ b.lo % 4 = 0  BY <2>6, <3>1
    <3>3. n.lo = b.lo /\ n.at = h.lo + 2 * k /\ n.for = b.for  BY <3>1
    <3>4. b.hi <= h.lo \/ h.hi <= b.lo  BY <2>2, <2>7, <2>8, <3>3
    <3> DEFINE x == h.lo
               y == b.lo
               z == Histogram
               u == b.hi
               v == h.hi
    <3>5. /\ x \in Nat /\ y \in Nat /\ z \in Nat /\ u \in Nat /\ x % 4 = 0 /\ y % 4 = 0 /\ v = x + 2 * z
          /\ y < x + 2 * k + 2 /\ x + 2 * k < u /\ k <= z /\ (u <= x \/ v <= y)
      BY <2>1, <2>6, <3>1, <3>2, <3>4
    <3>6. k = z /\ z % 2 = 0 /\ y = v /\ x + 2 * k = v
      <4> HIDE DEF x, y, z, u, v
      <4>1. k = z /\ (y = v \/ y = v + 1)  BY <2>1, <3>5
      <4>2. QED  BY <3>5, <4>1
    <3>7. QED  BY <2>1, <2>4, <3>3, <3>6
  <2>9. h \in blocks'  BY <1>1
  <2>10. QED  BY <2>2, <2>8, <2>9 DEF SampleInPlace
<1>4. QED  BY <1>2, <1>3, SampleSteps

-----------------------------------------------------------------------------
\* The counts.
CountTypes == calls \in [Arc -> Int] /\ lost \in [Arc -> Int]

LEMMA CountsAddUpStep ==
  ASSUME ProfileInv, ProfileNext
  PROVE  CountTypes' /\ CountsAddUp'
<1>1. /\ fns \in Seq(FnEntry) /\ act \in [1..2 -> Mcount] /\ ProfileTypes /\ WalksFound
      /\ calls \in [Arc -> Int] /\ lost \in [Arc -> Int]
      /\ \A f \in Fn, s \in Site : Counted(fns, f, s) = calls[<<f, s>>] - lost[<<f, s>>]
  BY DEF ProfileInv, ProfileTypes, CountsAddUp
<1>t. \A f \in Fn, s \in Site : <<f, s>> \in Arc  BY DEF Arc
<1>2. ASSUME UNCHANGED <<fns, calls, lost>> PROVE CountTypes' /\ CountsAddUp'
  BY <1>1, <1>2 DEF CountTypes, CountsAddUp
<1>3. ASSUME NEW l \in 1..2, NEW f \in Fn, NEW s \in Site, Call(l, f, s) PROVE UNCHANGED <<fns, calls, lost>>
  BY <1>3 DEF Call, history
<1>4. ASSUME NEW l \in 1..2, WalkArcs(l) \/ LoadCount(l) PROVE UNCHANGED <<fns, calls, lost>>
  BY <1>4 DEF WalkArcs, LoadCount, history
<1>5. ASSUME NEW l \in 1..2, Goers(l) PROVE UNCHANGED <<fns, calls, lost>>
  BY <1>5, GoersGo
<1>6. ASSUME Outside PROVE UNCHANGED <<fns, calls, lost>>
  BY <1>6, OutsideDo
<1>7. ASSUME NEW l \in 1..2, StoreCount(l) PROVE CountTypes' /\ CountsAddUp'
  <2> DEFINE a == act[l]
             g == a.self
             r == a.from
             n == a.count
             i == a.fn
             j == a.arc
             c == fns[i].arcs[j].count
  <2>1. /\ i \in 1..Len(fns) /\ j \in 1..Len(fns[i].arcs) /\ n + 1 \in Nat
        /\ fns[i].self = g /\ fns[i].arcs[j].from = r
        /\ StoredIn(fns, fns', i, j, n + 1)
    BY <1>1, <1>7, StoreIs
  <2>2. g \in Fn /\ r \in Site /\ n \in Nat  BY <1>1, ActIs
  <2>3. c \in Nat  BY <1>1, <2>1, EntriesAre
  <2>4. Returns(l) /\ lost' = [lost EXCEPT ![<<g, r>>] = @ + c - n]  BY <1>7 DEF StoreCount, Count
  <2>5. /\ calls' \in [Arc -> Int]
        /\ \A f \in Fn, s \in Site : calls'[<<f, s>>] = calls[<<f, s>>] + IF f = g /\ s = r THEN 1 ELSE 0
    BY <1>1, <2>4, CallsGrow
  <2>6. \A f, s : Counted(fns', f, s) = Counted(fns, f, s) + IF f = g /\ s = r THEN (n + 1) - c ELSE 0
    <3>1. \A f, s : Counted(fns', f, s) = Counted(fns, f, s) +
                      IF f = fns[i].self /\ s = fns[i].arcs[j].from THEN (n + 1) - fns[i].arcs[j].count ELSE 0
      <4> DEFINE d == n + 1
      <4>1. d \in Nat /\ StoredIn(fns, fns', i, j, d)  BY <2>1
      <4> HIDE DEF d, n, i, j, c, g, r, a
      <4>2. \A f, s : Counted(fns', f, s) = Counted(fns, f, s) +
                        IF f = fns[i].self /\ s = fns[i].arcs[j].from THEN d - fns[i].arcs[j].count ELSE 0
        BY <1>1, <2>1, <4>1, StoredEffect
      <4>3. QED  BY <4>2 DEF d
    <3>2. QED  BY <2>1, <3>1
  <2> HIDE DEF a, g, r, n, i, j, c
  <2>7. lost' \in [Arc -> Int]
    <3>1. lost[<<g, r>>] + c - n \in Int  BY <1>1, <1>t, <2>2, <2>3
    <3>2. QED  BY <1>1, <2>4, <3>1
  <2>8. \A f \in Fn, s \in Site : lost'[<<f, s>>] = IF f = g /\ s = r THEN lost[<<f, s>>] + c - n ELSE lost[<<f, s>>]
    BY <1>1, <1>t, <2>2, <2>4
  <2>9. ASSUME NEW f \in Fn, NEW s \in Site PROVE Counted(fns', f, s) = calls'[<<f, s>>] - lost'[<<f, s>>]
    <3> DEFINE x == calls[<<f, s>>]
               y == lost[<<f, s>>]
    <3>1. x \in Int /\ y \in Int /\ Counted(fns, f, s) = x - y  BY <1>1, <1>t
    <3>2. CASE f = g /\ s = r
      <4>1. /\ Counted(fns', f, s) = Counted(fns, f, s) + ((n + 1) - c)
            /\ calls'[<<f, s>>] = x + 1 /\ lost'[<<f, s>>] = y + c - n
        BY <2>5, <2>6, <2>8, <3>2
      <4> HIDE DEF x, y
      <4>2. (x - y) + ((n + 1) - c) = (x + 1) - (y + c - n)  BY <2>2, <2>3, <3>1
      <4>3. QED  BY <3>1, <4>1, <4>2
    <3>3. CASE ~(f = g /\ s = r)
      <4>1. Counted(fns', f, s) = Counted(fns, f, s) + 0 /\ calls'[<<f, s>>] = x + 0 /\ lost'[<<f, s>>] = y
        BY <2>5, <2>6, <2>8, <3>3
      <4> HIDE DEF x, y
      <4>2. QED  BY <3>1, <4>1
    <3>4. QED  BY <3>2, <3>3
  <2>10. QED  BY <2>5, <2>7, <2>9 DEF CountTypes, CountsAddUp
<1>8. ASSUME NEW l \in 1..2, Link(l) PROVE CountTypes' /\ CountsAddUp'
  <2> DEFINE a == act[l]
             g == a.self
             r == a.from
             i == a.fn
  <2>1. fns' = Linked(l) /\ Returns(l) /\ lost' = lost  BY <1>8 DEF Link
  <2>2. /\ g \in Fn /\ r \in Site
        /\ i = 0 => FnLinkedIn(fns, fns', g, r)
        /\ i # 0 => /\ i \in 1..Len(fns) /\ fns[i].self = g
                    /\ ArcLinkedIn(fns, fns', i, r)
    BY <1>1, <2>1, LinkIs
  <2>3. /\ calls' \in [Arc -> Int]
        /\ \A f \in Fn, s \in Site : calls'[<<f, s>>] = calls[<<f, s>>] + IF f = g /\ s = r THEN 1 ELSE 0
    BY <1>1, <2>1, CallsGrow
  <2> HIDE DEF a, g, r, i
  <2>4. \A f, s : Counted(fns', f, s) = Counted(fns, f, s) + IF f = g /\ s = r THEN 1 ELSE 0
    <3>1. CASE i = 0  BY <1>1, <2>2, <3>1, FnLinkedEffect
    <3>2. CASE i # 0
      <4>1. \A f, s : Counted(fns', f, s) = Counted(fns, f, s) + IF f = fns[i].self /\ s = r THEN 1 ELSE 0
        BY <1>1, <2>2, <3>2, ArcLinkedEffect
      <4>2. QED  BY <2>2, <3>2, <4>1
    <3>3. QED  BY <3>1, <3>2
  <2>5. ASSUME NEW f \in Fn, NEW s \in Site PROVE Counted(fns', f, s) = calls'[<<f, s>>] - lost'[<<f, s>>]
    <3> DEFINE x == calls[<<f, s>>]
               y == lost[<<f, s>>]
               z == IF f = g /\ s = r THEN 1 ELSE 0
    <3>1. x \in Int /\ y \in Int /\ z \in Int /\ Counted(fns, f, s) = x - y  BY <1>1, <1>t
    <3>2. Counted(fns', f, s) = Counted(fns, f, s) + z /\ calls'[<<f, s>>] = x + z /\ lost'[<<f, s>>] = y
      BY <2>1, <2>3, <2>4
    <3> HIDE DEF x, y, z
    <3>3. (x - y) + z = (x + z) - y  BY <3>1
    <3>4. QED  BY <3>1, <3>2, <3>3
  <2>6. QED  BY <1>1, <2>1, <2>3, <2>5 DEF CountTypes, CountsAddUp
<1>9. QED  BY <1>2, <1>3, <1>4, <1>5, <1>6, <1>7, <1>8, StepIs

-----------------------------------------------------------------------------
\* Together.
LEMMA ProfileInvInit == ProfileInit => ProfileInv
<1> SUFFICES ASSUME ProfileInit PROVE ProfileInv  OBVIOUS
<1>1. /\ fns = <<>> /\ act = <<Idle, Idle>> /\ clock = FALSE /\ irqs = FALSE /\ need_init = TRUE
      /\ started = 0 /\ hit = {} /\ mem = [end |-> 0, got |-> 0, slab |-> 0, left |-> 0]
      /\ blocks = {} /\ nodes = {} /\ calls = [a \in Arc |-> 0] /\ lost = [a \in Arc |-> 0]
  BY DEF ProfileInit
<1>2. act[1] = Idle /\ act[2] = Idle /\ act \in [1..2 -> Mcount]  BY <1>1, IdleIs
<1>3. fns \in Seq(FnEntry) /\ Len(fns) = 0 /\ 1..Len(fns) = {}  BY <1>1
<1>4. ProfileTypes
  <2>1. mem \in Memory  BY <1>1 DEF Memory
  <2>2. calls \in [Arc -> Int] /\ lost \in [Arc -> Int]  BY <1>1
  <2>3. started \in Int /\ clock \in BOOLEAN /\ irqs \in BOOLEAN /\ need_init \in BOOLEAN
    <3>1. started \in Int  BY <1>1
    <3>2. clock \in BOOLEAN /\ irqs \in BOOLEAN /\ need_init \in BOOLEAN  BY <1>1, Zenon
    <3>3. QED  BY <3>1, <3>2
  <2>4. QED  BY <1>2, <1>3, <2>1, <2>2, <2>3 DEF ProfileTypes
<1>5. WalksFound
  <2>1. Walked(fns, Idle)  BY DEF Walked, Idle
  <2>2. QED  BY <1>2, <2>1, IdleIs DEF WalksFound
<1>6. \A f : FnCopies(fns, f) = {}  BY <1>3 DEF FnCopies
<1>7. CopiesKept
  <2>1. ~NewFn(Idle) /\ ~NewArcOf(Idle)  BY DEF NewFn, NewArcOf, Links, Idle
  <2>2. AtMostTwo({})  BY DEF AtMostTwo
  <2>3. QED  BY <1>2, <1>3, <1>6, <2>1, <2>2 DEF CopiesKept, CopiesFew
<1>8. SamplerKept  BY <1>1, <1>2, <1>6, IdleIs DEF SamplerKept
<1>9. Total(<<>>) = 0
  <2> DEFINE e == <<>>
  <2>1. e \in Seq(Int) /\ Len(e) = 0  OBVIOUS
  <2> HIDE DEF e
  <2>2. PICK g : Runs_(g, e)  BY <2>1, HasRuns
  <2>3. Total(e) = g[0] /\ g[0] = 0  BY <2>1, <2>2, TotalRuns DEF Runs_
  <2>4. QED  BY <2>3 DEF e
<1>10. Elements(fns) = 0 /\ \A f, s : Counted(fns, f, s) = 0
  <2>1. Elements(fns) = Len(fns) + Total(ArcsOf(fns)) /\ \A f, s : Counted(fns, f, s) = Total(CountsOf(fns, f, s))
    BY <1>3, SumsOf
  <2>2. ArcsOf(fns) = <<>> /\ \A f, s : CountsOf(fns, f, s) = <<>>  BY <1>3 DEF ArcsOf, CountsOf
  <2>3. QED  BY <1>3, <1>9, <2>1, <2>2
<1>11. HeapKept
  <2>1. IsFiniteSet(nodes) /\ Cardinality(nodes) = 0  BY <1>1, FS_EmptySet
  <2>2. BlocksKept(mem, blocks)  BY <1>1 DEF BlocksKept
  <2>3. NodesKept(mem, blocks, nodes)
    <3>1. ~(Node <= mem.left) /\ mem.slab + mem.left <= mem.end  BY <1>1, ProfileAssumption
    <3>2. QED  BY <1>1, <2>1, <3>1 DEF NodesKept
  <2>4. QED  BY <1>10, <2>1, <2>2, <2>3 DEF HeapKept
<1>12. SampleInPlace  BY <1>1 DEF SampleInPlace
<1>13. CountsAddUp
  <2>1. \A f \in Fn, s \in Site : <<f, s>> \in Arc  BY DEF Arc
  <2>2. \A f \in Fn, s \in Site : calls[<<f, s>>] = 0 /\ lost[<<f, s>>] = 0  BY <1>1, <2>1
  <2>3. \A f \in Fn, s \in Site : Counted(fns, f, s) = 0  BY <1>10
  <2>4. ASSUME NEW f \in Fn, NEW s \in Site PROVE calls[<<f, s>>] - lost[<<f, s>>] = 0
    <3> DEFINE x == calls[<<f, s>>]
               y == lost[<<f, s>>]
    <3>1. x = 0 /\ y = 0  BY <2>2
    <3> HIDE DEF x, y
    <3>2. x - y = 0  BY <3>1
    <3>3. QED  BY <3>2 DEF x, y
  <2>5. QED  BY <2>3, <2>4 DEF CountsAddUp
<1>14. QED  BY <1>4, <1>5, <1>7, <1>8, <1>11, <1>12, <1>13 DEF ProfileInv

LEMMA FlagsStep ==
  ASSUME ProfileInv, ProfileNext
  PROVE  clock' \in BOOLEAN /\ need_init' \in BOOLEAN
<1>1. clock \in BOOLEAN /\ need_init \in BOOLEAN  BY DEF ProfileInv, ProfileTypes
<1>2. ASSUME NEW l \in 1..2, NEW f \in Fn, NEW s \in Site, Call(l, f, s) PROVE UNCHANGED <<clock, need_init>>
  BY <1>2 DEF Call, sampler
<1>3. ASSUME NEW l \in 1..2, WalkArcs(l) \/ LoadCount(l) \/ StoreCount(l) \/ Link(l) PROVE UNCHANGED <<clock, need_init>>
  BY <1>3 DEF WalkArcs, LoadCount, StoreCount, Link, sampler
<1>4. ASSUME NEW l \in 1..2, Goers(l)
      PROVE  clock' = clock /\ (need_init' = need_init \/ need_init' = FALSE \/ need_init' = TRUE)
  <2>1. clock' = clock  BY <1>4, GoersGo
  <2>2. CASE TestNeedInit(l)  BY <2>1, <2>2 DEF TestNeedInit, sampler
  <2>3. CASE ClearNeedInit(l)  BY <2>1, <2>3 DEF ClearNeedInit
  <2>4. CASE SamplerWaits(l)  BY <2>1, <2>4 DEF SamplerWaits
  <2>5. CASE SamplerStarts(l)  BY <2>1, <2>5 DEF SamplerStarts
  <2>6. CASE OutOfHeap(l)
    <3>1. UNCHANGED sampler  BY <2>6 DEF OutOfHeap
    <3>2. QED  BY <2>1, <3>1 DEF sampler
  <2>7. QED  BY <1>4, <2>2, <2>3, <2>4, <2>5, <2>6 DEF Goers
<1>5. ASSUME Outside PROVE (clock' = clock \/ clock' = TRUE) /\ need_init' = need_init
  BY <1>5, OutsideDo
<1>6. QED  BY <1>1, <1>2, <1>3, <1>4, <1>5, StepIs

LEMMA ProfileInvStep == ProfileInv /\ [ProfileNext]_profile => ProfileInv'
<1>1. ASSUME ProfileInv, ProfileNext PROVE ProfileInv'
  <2>1. fns' \in Seq(FnEntry) /\ act' \in [1..2 -> Mcount] /\ irqs' \in BOOLEAN /\ WalksFound'
    BY <1>1, WalksFoundStep
  <2>2. CopiesKept'  BY <1>1, CopiesKeptStep
  <2>3. SamplerKept'  BY <1>1, SamplerKeptStep
  <2>4. mem' \in Memory /\ HeapKept'  BY <1>1, HeapKeptStep
  <2>5. SampleInPlace'  BY <1>1, SampleInPlaceStep
  <2>6. CountTypes' /\ CountsAddUp'  BY <1>1, CountsAddUpStep
  <2>7. started' \in Int  BY <2>3 DEF SamplerKept
  <2>8. clock' \in BOOLEAN /\ need_init' \in BOOLEAN  BY <1>1, FlagsStep
  <2>9. ProfileTypes'  BY <2>1, <2>4, <2>5, <2>6, <2>7, <2>8 DEF ProfileTypes, CountTypes
  <2>10. QED  BY <2>1, <2>2, <2>3, <2>4, <2>5, <2>6, <2>9 DEF ProfileInv
<1>2. ASSUME ProfileInv, UNCHANGED profile PROVE ProfileInv'
  <2>1. UNCHANGED <<fns, act, clock, irqs, need_init, started, hit, mem, blocks, nodes, calls, lost>>
    BY <1>2 DEF profile, memory, sampler, history
  <2>2. QED
    BY <1>2, <2>1 DEF ProfileInv, ProfileTypes, WalksFound, CopiesKept, SamplerKept, HeapKept, SampleInPlace, CountsAddUp
<1>3. QED  BY <1>1, <1>2

LEMMA ProfileInvSound == ProfileInv => ProfilerSound
<1> SUFFICES ASSUME ProfileInv PROVE ProfilerSound  OBVIOUS
<1>0. fns \in Seq(FnEntry)  BY DEF ProfileInv, ProfileTypes
<1>1. CountsAddUp  BY DEF ProfileInv
<1>2. FewCopies
  <2>1. DOMAIN fns = 1..Len(fns) /\ \A k \in 1..Len(fns) : DOMAIN fns[k].arcs = 1..Len(fns[k].arcs)
    <3>1. \A k \in 1..Len(fns) : fns[k].arcs \in Seq(ArcEntry)  BY <1>0, EntriesAre
    <3>2. QED  BY <1>0, <3>1
  <2>2. /\ \A f \in Fn : AtMostTwo(FnCopies(fns, f))
        /\ \A k \in 1..Len(fns), s \in Site : AtMostTwo(ArcCopies(fns, k, s))
    BY DEF ProfileInv, CopiesKept, CopiesFew
  <2>3. ASSUME NEW f \in Fn PROVE Cardinality({k \in DOMAIN fns : fns[k].self = f}) <= 2
    <3>1. {k \in DOMAIN fns : fns[k].self = f} = FnCopies(fns, f)  BY <2>1 DEF FnCopies
    <3>2. Cardinality(FnCopies(fns, f)) <= 2  BY <2>2, AtMostTwoCounted
    <3>3. QED  BY <3>1, <3>2, Zenon
  <2>4. ASSUME NEW k \in DOMAIN fns, NEW s \in Site
        PROVE  Cardinality({j \in DOMAIN fns[k].arcs : fns[k].arcs[j].from = s}) <= 2
    <3>0. k \in 1..Len(fns) /\ DOMAIN fns[k].arcs = 1..Len(fns[k].arcs)  BY <2>1
    <3>1. {j \in DOMAIN fns[k].arcs : fns[k].arcs[j].from = s} = ArcCopies(fns, k, s)  BY <3>0, Zenon DEF ArcCopies
    <3>2. Cardinality(ArcCopies(fns, k, s)) <= 2
      <4>1. AtMostTwo(ArcCopies(fns, k, s))  BY <2>2, <3>0
      <4>2. QED  BY <4>1, AtMostTwoCounted
    <3>3. QED  BY <3>1, <3>2, Zenon
  <2>5. QED  BY <2>3, <2>4 DEF FewCopies
<1>3. SamplerOnce  BY DEF ProfileInv, SamplerKept, SamplerOnce
<1>4. \A b \in blocks : /\ b.lo \in Nat /\ b.hi \in Nat /\ b.lo % 4 = 0 /\ b.lo <= b.hi /\ b.hi <= HeapLimit
                        /\ b.for = "histogram" => b.hi = b.lo + 2 * Histogram
  BY DEF ProfileInv, HeapKept, BlocksKept, HeapBlock
<1>5. \A b, c \in blocks : b = c \/ b.hi <= c.lo \/ c.hi <= b.lo
  BY DEF ProfileInv, HeapKept, BlocksKept, Apart
<1>6. HeapDisjoint
  <2>1. \A b, c \in blocks : b.lo < c.hi /\ c.lo < b.hi => b = c \/ b.lo = b.hi \/ c.lo = c.hi
    BY <1>4, <1>5
  <2>2. \A n \in nodes : /\ \E b \in blocks : b.for = "mcount" /\ b.lo <= n /\ n + Node <= b.hi
                         /\ \A o \in nodes : o # n => o + Node <= n \/ n + Node <= o
    BY DEF ProfileInv, HeapKept, NodesKept, InSlab
  <2>3. Cardinality(nodes) = Elements(fns)  BY DEF ProfileInv, HeapKept
  <2>4. QED  BY <1>4, <2>1, <2>2, <2>3 DEF HeapDisjoint
<1>7. SampleInPlace  BY DEF ProfileInv
<1>8. QED  BY <1>1, <1>2, <1>3, <1>6, <1>7 DEF ProfilerSound

\* The graph of calls and the heap are sound, whatever interrupts come while a
\* list is walked, extended or allocated for, up to the first sample that falls
\* behind the histogram.
THEOREM SpecProfilerSound == ProfileSpec => []ProfilerSound
<1>1. ProfileInit => ProfileInv  BY ProfileInvInit
<1>2. ProfileInv /\ [ProfileNext]_profile => ProfileInv'  BY ProfileInvStep
<1>3. ProfileInv => ProfilerSound  BY ProfileInvSound
<1>4. QED  BY <1>1, <1>2, <1>3, PTL DEF ProfileSpec

-----------------------------------------------------------------------------
(* Logging                                                                 *)
(*                                                                         *)
(* For every format, argument and text, and whatever handlers come between *)
(* two steps of the program: what is printed so far is determined by the   *)
(* place of the walk in the message (Printing). Behind the % of a          *)
(* conversion the locals hold what was passed: the flag, the value of the  *)
(* digits of the width so far, and a precision once a point has come       *)
(* (Parsing), so that a digit counts for the width exactly where it        *)
(* belongs to it. At the letter the width is known and the text is that of *)
(* printf. A character that is written only moves from tx to given, so the *)
(* invariant speaks of both together.                                      *)

Bases == {8, 10, 16}

\* The number x has n places.
Places(x, base, n) ==
  n \in Nat \ {0} /\ x < Power(base)[n] /\ (n = 1 \/ Power(base)[n - 1] <= x)

LEMMA BasePowers ==
  ASSUME NEW base \in Bases
  PROVE  /\ Power(base) \in [Nat -> Nat \ {0}] /\ Power(base)[0] = 1 /\ Power(base)[1] = base
         /\ \A n \in Nat : Power(base)[n + 1] = base * Power(base)[n]
         /\ \A m \in Nat, n \in Nat : n <= m => Power(base)[n] <= Power(base)[m]
         /\ \A n \in Nat : n < Power(base)[n] /\ Power(2)[n] <= Power(base)[n]
<1> DEFINE P == Power(base)
           T == Power(2)
           Above == {n \in Nat : n < P[n] /\ T[n] <= P[n]}
<1>1. base \in Nat \ {0}  BY DEF Bases
<1>2. P \in [Nat -> Nat \ {0}] /\ P[0] = 1 /\ \A n \in Nat : P[n + 1] = base * P[n]
  BY <1>1, PowerStep
<1>3. T \in [Nat -> Nat \ {0}] /\ T[0] = 1 /\ \A n \in Nat : T[n + 1] = 2 * T[n]
  <2>1. 2 \in Nat \ {0}  OBVIOUS
  <2>2. QED  BY <2>1, PowerStep
<1>4. \A m \in Nat, n \in Nat : n <= m => P[n] <= P[m]
  BY <1>1, PowerGrows
<1> HIDE DEF P, T
<1>5. P[1] = base
  <2>1. P[0 + 1] = base * P[0]  BY <1>2
  <2>2. QED  BY <2>1, <1>1, <1>2
<1>6. Nat \subseteq Above
  <2>1. 0 \in Above  BY <1>2, <1>3
  <2>2. ASSUME NEW n \in Nat, n \in Above PROVE n + 1 \in Above
    <3> DEFINE p == P[n]
               t == T[n]
    <3>1. p \in Nat \ {0} /\ t \in Nat \ {0} /\ n < p /\ t <= p  BY <1>2, <1>3, <2>2
    <3>2. P[n + 1] = base * p /\ T[n + 1] = 2 * t  BY <1>2, <1>3
    <3> HIDE DEF p, t
    <3>3. n + 1 < base * p /\ 2 * t <= base * p
      <4>1. CASE base = 8  BY <3>1, <4>1
      <4>2. CASE base = 10  BY <3>1, <4>2
      <4>3. CASE base = 16  BY <3>1, <4>3
      <4>4. QED  BY <4>1, <4>2, <4>3 DEF Bases
    <3>4. QED  BY <3>2, <3>3
  <2> HIDE DEF Above
  <2>3. QED  BY <2>1, <2>2, Induction
<1>7. \A n \in Nat : n < P[n] /\ T[n] <= P[n]  BY <1>6
<1>8. QED  BY <1>2, <1>4, <1>5, <1>7 DEF P, T

LEMMA PlacesExist ==
  ASSUME NEW base \in Bases, NEW x \in Nat
  PROVE  \E n : Places(x, base, n)
<1> DEFINE P == Power(base)
           T == {n \in Nat \ {0} : x < P[n]}
<1>1. P \in [Nat -> Nat \ {0}] /\ \A n \in Nat : n < P[n]  BY BasePowers
<1> HIDE DEF P
<1>2. x + 1 \in T
  <2>1. x + 1 \in Nat \ {0} /\ x + 1 < P[x + 1] /\ P[x + 1] \in Nat  BY <1>1
  <2>2. QED  BY <2>1
<1>3. PICK n \in T : \A k \in T : n <= k
  <2>1. T # {} /\ T \in SUBSET Nat  BY <1>2
  <2> HIDE DEF T
  <2>2. QED  BY <2>1, Smallest
<1>4. n = 1 \/ P[n - 1] <= x
  <2>1. SUFFICES ASSUME n # 1 PROVE P[n - 1] <= x  OBVIOUS
  <2>2. n - 1 \in Nat \ {0} /\ ~(n <= n - 1)  BY <2>1
  <2>3. n - 1 \notin T  BY <1>3, <2>2
  <2>4. P[n - 1] \in Nat  BY <1>1, <2>2
  <2>5. QED  BY <2>2, <2>3, <2>4
<1>5. n \in Nat \ {0} /\ x < P[n]  OBVIOUS
<1>6. QED  BY <1>4, <1>5 DEF Places, P

LEMMA PlacesUnique ==
  ASSUME NEW base \in Bases, NEW x \in Nat, NEW m, NEW n, Places(x, base, m), Places(x, base, n)
  PROVE  m = n
<1> DEFINE P == Power(base)
           Has(k) == k \in Nat \ {0} /\ x < P[k] /\ (k = 1 \/ P[k - 1] <= x)
<1>1. P \in [Nat -> Nat \ {0}] /\ \A j \in Nat, k \in Nat : k <= j => P[k] <= P[j]
  BY BasePowers
<1>2. Has(m) /\ Has(n)  BY DEF Places
<1> HIDE DEF P
<1>3. ASSUME NEW j, NEW k, Has(j), Has(k) PROVE ~(j < k)
  <2> SUFFICES ASSUME j < k PROVE FALSE  OBVIOUS
  <2>1. j \in Nat /\ k - 1 \in Nat /\ j <= k - 1 /\ k # 1  BY <1>3
  <2>2. P[j] <= P[k - 1] /\ P[j] \in Nat /\ P[k - 1] \in Nat  BY <1>1, <2>1
  <2>3. QED  BY <1>3, <2>1, <2>2
<1>4. ~(m < n) /\ ~(n < m)  BY <1>2, <1>3
<1>5. QED  BY <1>2, <1>4

\* One more place than the quotient, as the loop counts them.
LEMMA PlacesStep ==
  ASSUME NEW base \in Bases, NEW x \in Nat
  PROVE  /\ x \div base \in 0..x
         /\ ~(x \div base > 0) => Places(x, base, 1)
         /\ \A n : x \div base > 0 /\ Places(x \div base, base, n) => Places(x, base, n + 1)
<1> DEFINE P == Power(base)
           q == x \div base
<1>1. P \in [Nat -> Nat \ {0}] /\ P[0] = 1 /\ P[1] = base /\ \A n \in Nat : P[n + 1] = base * P[n]
  BY BasePowers
<1>2. q \in Nat /\ base * q <= x /\ x < base * q + base
  <2>1. CASE base = 8  BY <2>1
  <2>2. CASE base = 10  BY <2>2
  <2>3. CASE base = 16  BY <2>3
  <2>4. QED  BY <2>1, <2>2, <2>3 DEF Bases
<1> HIDE DEF P, q
<1>3. q \in 0..x
  <2>1. base * q >= q
    <3>1. CASE base = 8  BY <3>1, <1>2
    <3>2. CASE base = 10  BY <3>2, <1>2
    <3>3. CASE base = 16  BY <3>3, <1>2
    <3>4. QED  BY <3>1, <3>2, <3>3 DEF Bases
  <2>2. base * q \in Nat  BY <1>2 DEF Bases
  <2>3. QED  BY <2>1, <2>2, <1>2
<1>4. ~(q > 0) => Places(x, base, 1)
  <2>1. ASSUME ~(q > 0) PROVE x < P[1]
    <3>1. q = 0  BY <2>1, <1>2
    <3>2. base * q + base = base  BY <3>1 DEF Bases
    <3>3. QED  BY <3>2, <1>1, <1>2
  <2>2. QED  BY <2>1 DEF Places, P
<1>5. ASSUME NEW n, q > 0, Places(q, base, n) PROVE Places(x, base, n + 1)
  <2>1. n \in Nat \ {0} /\ q < P[n] /\ (n = 1 \/ P[n - 1] <= q)
    BY <1>5 DEF Places, P
  <2>2. P[n] \in Nat /\ P[n + 1] = base * P[n] /\ (n + 1) - 1 = n  BY <1>1, <2>1
  <2> DEFINE p == P[n]
  <2>3. x < base * p
    <3>1. p \in Nat /\ q < p  BY <2>1, <2>2
    <3> HIDE DEF p
    <3>2. CASE base = 8  BY <3>1, <3>2, <1>2
    <3>3. CASE base = 10  BY <3>1, <3>3, <1>2
    <3>4. CASE base = 16  BY <3>1, <3>4, <1>2
    <3>5. QED  BY <3>2, <3>3, <3>4 DEF Bases
  <2>4. P[n] <= x
    <3>1. CASE n = 1
      <4>1. base <= base * q
        <5>1. CASE base = 8  BY <5>1, <1>2, <1>5
        <5>2. CASE base = 10  BY <5>2, <1>2, <1>5
        <5>3. CASE base = 16  BY <5>3, <1>2, <1>5
        <5>4. QED  BY <5>1, <5>2, <5>3 DEF Bases
      <4>2. base \in Nat /\ base * q \in Nat  BY <1>2 DEF Bases
      <4>3. QED  BY <4>1, <4>2, <3>1, <1>1, <1>2
    <3>2. CASE n # 1
      <4> DEFINE r == P[n - 1]
      <4>1. n - 1 \in Nat /\ (n - 1) + 1 = n /\ r \in Nat /\ r <= q  BY <3>2, <2>1, <1>1
      <4>2. P[n] = base * r  BY <4>1, <1>1
      <4> HIDE DEF r
      <4>3. base * r <= base * q /\ base * r \in Nat /\ base * q \in Nat
        <5>1. CASE base = 8  BY <5>1, <1>2, <4>1
        <5>2. CASE base = 10  BY <5>2, <1>2, <4>1
        <5>3. CASE base = 16  BY <5>3, <1>2, <4>1
        <5>4. QED  BY <5>1, <5>2, <5>3 DEF Bases
      <4>4. QED  BY <4>2, <4>3, <1>2
    <3>3. QED  BY <3>1, <3>2
  <2>5. n + 1 \in Nat \ {0}  BY <2>1
  <2>6. QED  BY <2>2, <2>3, <2>4, <2>5 DEF Places, P
<1>6. QED  BY <1>3, <1>4, <1>5 DEF q

\* The places that the loop counts are those of the number.
LEMMA NumeralsAre ==
  ASSUME NEW base \in Bases, NEW v \in 0..(Power(2)[LogWord] - 1), NEW tab
  PROVE  /\ Numerals(v, base, tab) = Numeral(v, base, tab)
         /\ \E n \in Nat \ {0} : Numeral(v, base, tab) =
              [k \in 1..n |-> tab[1 + ((v \div Power(base)[n - k]) % base)]]
<1> DEFINE S == LET size[x \in 0..v] == IF x \div base > 0 THEN 1 + size[x \div base] ELSE 1
                IN  size
           g == [x \in 0..v |-> CHOOSE n : Places(x, base, n)]
           N == CHOOSE n \in 1..LogWord :
                v < Power(base)[n] /\ (n = 1 \/ v >= Power(base)[n - 1])
<1>0. LogWord \in Nat /\ Power(2)[LogWord] \in Nat /\ v \in Nat
  <2>1. LogWord \in Nat  BY LogAssumption
  <2>2. 2 \in Nat \ {0}  OBVIOUS
  <2>3. Power(2)[LogWord] \in Nat  BY <2>1, <2>2, PowerStep
  <2>4. QED  BY <2>1, <2>3
<1>1. \A x \in 0..v : Places(x, base, g[x])
  <2>1. \A x \in 0..v : Places(x, base, CHOOSE n : Places(x, base, n))
    <3>1. \A x \in 0..v : x \in Nat  BY <1>0
    <3>2. QED  BY <3>1, PlacesExist, Zenon
  <2>2. QED  BY <2>1, Zenon
<1>1a. DOMAIN g = 0..v  OBVIOUS
<1> HIDE DEF g
<1>2. g = [x \in 0..v |-> IF x \div base > 0 THEN 1 + g[x \div base] ELSE 1]
  <2>1. ASSUME NEW x \in 0..v PROVE g[x] = IF x \div base > 0 THEN 1 + g[x \div base] ELSE 1
    <3>1. x \in Nat /\ Places(x, base, g[x])  BY <1>0, <1>1
    <3>2. x \div base \in 0..x  BY <3>1, PlacesStep
    <3>3. x \div base \in 0..v  BY <3>1, <3>2, <1>0
    <3>4. CASE x \div base > 0
      <4>1. Places(x, base, g[x \div base] + 1)  BY <3>1, <3>3, <3>4, <1>1, PlacesStep
      <4>2. g[x] = g[x \div base] + 1  BY <3>1, <4>1, PlacesUnique
      <4>3. g[x \div base] \in Nat  BY <3>3, <1>1 DEF Places
      <4>4. QED  BY <4>2, <4>3, <3>4
    <3>5. CASE ~(x \div base > 0)
      <4>1. Places(x, base, 1)  BY <3>1, <3>5, PlacesStep
      <4>2. g[x] = 1  BY <3>1, <4>1, PlacesUnique
      <4>3. QED  BY <4>2, <3>5
    <3>6. QED  BY <3>4, <3>5
  <2>2. g = [x \in 0..v |-> g[x]]  BY <1>1a DEF g
  <2>3. QED  BY <2>1, <2>2
<1>3. S = [x \in 0..v |-> IF x \div base > 0 THEN 1 + S[x \div base] ELSE 1]
  BY <1>2, Zenon
<1>4. Numerals(v, base, tab) = [n \in 1..S[v] |-> tab[1 + ((v \div Power(base)[S[v] - n]) % base)]]
  BY DEF Numerals
<1> HIDE DEF S
<1>5. \A x \in 0..v : Places(x, base, S[x])
  <2> DEFINE Bad == {x \in 0..v : ~Places(x, base, S[x])}
  <2> SUFFICES ASSUME Bad # {} PROVE FALSE  OBVIOUS
  <2>1. PICK x \in Bad : \A y \in Bad : x <= y
    <3>1. Bad \in SUBSET Nat  BY <1>0
    <3> HIDE DEF Bad
    <3>2. QED  BY <3>1, Smallest
  <2>2. x \in 0..v /\ x \in Nat /\ ~Places(x, base, S[x])  BY <1>0
  <2> HIDE DEF Bad
  <2>3. x \div base \in 0..x  BY <2>2, PlacesStep
  <2>4. S[x] = IF x \div base > 0 THEN 1 + S[x \div base] ELSE 1  BY <1>3, <2>2
  <2>5. CASE x \div base > 0
    <3> DEFINE y == x \div base
    <3>1. y \in Nat /\ y < x /\ y \in 0..v
      <4>1. y < x
        <5>1. CASE base = 8  BY <5>1, <2>2, <2>5
        <5>2. CASE base = 10  BY <5>2, <2>2, <2>5
        <5>3. CASE base = 16  BY <5>3, <2>2, <2>5
        <5>4. QED  BY <5>1, <5>2, <5>3 DEF Bases
      <4>2. y \in 0..x  BY <2>3
      <4> HIDE DEF y
      <4>3. QED  BY <4>1, <4>2, <2>2, <1>0
    <3>2. y \notin Bad
      <4> HIDE DEF y
      <4>1. ~(x <= y)  BY <3>1, <2>2
      <4>2. QED  BY <4>1, <2>1
    <3>3. Places(y, base, S[y])  BY <3>1, <3>2 DEF Bad
    <3>4. Places(x, base, S[y] + 1)  BY <3>3, <2>2, <2>5, PlacesStep
    <3>5. S[x] = S[y] + 1
      <4>1. S[x] = 1 + S[y]  BY <2>4, <2>5
      <4>2. S[y] \in Nat  BY <3>3 DEF Places
      <4> HIDE DEF y
      <4>3. QED  BY <4>1, <4>2
    <3>6. QED  BY <3>4, <3>5, <2>2
  <2>6. CASE ~(x \div base > 0)
    <3>1. Places(x, base, 1)  BY <2>2, <2>6, PlacesStep
    <3>2. QED  BY <3>1, <2>2, <2>4, <2>6
  <2>7. QED  BY <2>5, <2>6
<1> DEFINE s == S[v]
<1>6. s \in 1..LogWord /\ v < Power(base)[s] /\ (s = 1 \/ v >= Power(base)[s - 1])
  <2> DEFINE P == Power(base)
             T == Power(2)
  <2>1. v \in 0..v  BY <1>0
  <2>2. s \in Nat \ {0} /\ v < P[s] /\ (s = 1 \/ P[s - 1] <= v)  BY <2>1, <1>5 DEF Places
  <2>3. P \in [Nat -> Nat \ {0}] /\ (\A m \in Nat, n \in Nat : n <= m => P[n] <= P[m])
        /\ \A n \in Nat : T[n] <= P[n]
    BY BasePowers
  <2>4. v < T[LogWord] /\ T[LogWord] \in Nat  BY <1>0
  <2>4a. LogWord # 0  BY LogAssumption
  <2> HIDE DEF P, T, s
  <2>5. s <= LogWord
    <3> SUFFICES ASSUME ~(s <= LogWord) PROVE FALSE  OBVIOUS
    <3>1. s # 1 /\ s - 1 \in Nat /\ LogWord <= s - 1  BY <2>2, <1>0, <2>4a
    <3>2. P[LogWord] <= P[s - 1] /\ T[LogWord] <= P[LogWord] /\ P[s - 1] <= v
      BY <3>1, <2>2, <2>3, <1>0
    <3>3. P[LogWord] \in Nat /\ P[s - 1] \in Nat  BY <3>1, <2>3, <1>0
    <3>4. QED  BY <3>2, <3>3, <2>4, <1>0
  <2>6. s = 1 \/ v >= P[s - 1]
    <3>1. s # 1 => s - 1 \in Nat  BY <2>2
    <3>2. QED  BY <3>1, <2>2, <2>3, <1>0
  <2>7. QED  BY <2>2, <2>5, <2>6, <1>0 DEF P
<1> HIDE DEF s
<1>7. N \in 1..LogWord /\ v < Power(base)[N] /\ (N = 1 \/ v >= Power(base)[N - 1])
  BY <1>6
<1> HIDE DEF N
<1>8. Places(v, base, N) /\ Places(v, base, s)
  <2> DEFINE P == Power(base)
  <2>1. P \in [Nat -> Nat \ {0}]  BY BasePowers
  <2>2. ASSUME NEW n \in 1..LogWord, v < P[n], n = 1 \/ v >= P[n - 1] PROVE Places(v, base, n)
    <3>1. n \in Nat \ {0} /\ (n # 1 => n - 1 \in Nat)  BY <1>0
    <3> HIDE DEF P
    <3>2. n # 1 => P[n - 1] \in Nat  BY <3>1, <2>1
    <3>3. n = 1 \/ P[n - 1] <= v  BY <3>1, <3>2, <2>2, <1>0
    <3>4. QED  BY <3>1, <3>3, <2>2 DEF Places, P
  <2>3. QED  BY <2>2, <1>6, <1>7
<1>9. N = s  BY <1>8, <1>0, PlacesUnique
<1>10. Numeral(v, base, tab) = [n \in 1..N |-> tab[1 + ((v \div Power(base)[N - n]) % base)]]
  BY DEF Numeral, N
<1>11. N \in Nat \ {0}  BY <1>7, <1>0
<1>12. QED  BY <1>4, <1>9, <1>10, <1>11 DEF s

Digits       == ToSet(Digit10)
DigitOf(c) == (CHOOSE n \in 1..10 : Digit10[n] = c) - 1

LEMMA DigitsAre ==
  /\ \A c \in Digits : /\ DigitOf(c) \in 0..9
                       /\ (CHOOSE k \in 0..9 : Digit10[k + 1] = c) = DigitOf(c)
  /\ Digits = {"0", "1", "2", "3", "4", "5", "6", "7", "8", "9"}
<1> DEFINE D == Digit10
<1>1. DOMAIN D = 1..10  BY DEF Digit10
<1>2. \A m \in 1..10, n \in 1..10 : D[m] = D[n] => m = n
  BY DEF Digit10
<1>3. Digits = {D[n] : n \in 1..10}  BY <1>1 DEF Digits, ToSet
<1>4. {D[n] : n \in 1..10} = {"0", "1", "2", "3", "4", "5", "6", "7", "8", "9"}
  <2>1. \A n \in 1..10 : n = 1 \/ n = 2 \/ n = 3 \/ n = 4 \/ n = 5 \/ n = 6 \/ n = 7 \/ n = 8 \/ n = 9 \/ n = 10
    OBVIOUS
  <2>2. /\ D[1] = "0" /\ D[2] = "1" /\ D[3] = "2" /\ D[4] = "3" /\ D[5] = "4" /\ D[6] = "5"
        /\ D[7] = "6" /\ D[8] = "7" /\ D[9] = "8" /\ D[10] = "9"
    BY DEF Digit10
  <2>3. 1 \in 1..10 /\ 2 \in 1..10 /\ 3 \in 1..10 /\ 4 \in 1..10 /\ 5 \in 1..10 /\ 6 \in 1..10
        /\ 7 \in 1..10 /\ 8 \in 1..10 /\ 9 \in 1..10 /\ 10 \in 1..10
    OBVIOUS
  <2> HIDE DEF D
  <2>4. QED  BY <2>1, <2>2, <2>3
<1>5. ASSUME NEW c \in Digits
      PROVE DigitOf(c) \in 0..9 /\ (CHOOSE k \in 0..9 : Digit10[k + 1] = c) = DigitOf(c)
  <2> DEFINE j == CHOOSE n \in 1..10 : D[n] = c
             i == CHOOSE k \in 0..9 : D[k + 1] = c
  <2>1. PICK n \in 1..10 : D[n] = c  BY <1>3
  <2>2. j \in 1..10 /\ D[j] = c
    <3> HIDE DEF D
    <3> QED  BY <2>1
  <2>3. i \in 0..9 /\ D[i + 1] = c
    <3>1. n - 1 \in 0..9 /\ (n - 1) + 1 = n  OBVIOUS
    <3>2. D[(n - 1) + 1] = c  BY <2>1, <3>1
    <3> DEFINE m == n - 1
    <3> HIDE DEF D, m
    <3>3. m \in 0..9 /\ D[m + 1] = c  BY <3>1, <3>2 DEF m
    <3>4. QED  BY <3>3
  <2>4. DigitOf(c) = j - 1  BY DEF DigitOf
  <2>4a. i = CHOOSE k \in 0..9 : Digit10[k + 1] = c  OBVIOUS
  <2> HIDE DEF D, i, j
  <2>5. i + 1 \in 1..10 /\ i + 1 = j  BY <2>2, <2>3, <1>2
  <2>6. QED  BY <2>2, <2>3, <2>4, <2>4a, <2>5
<1>6. QED  BY <1>3, <1>4, <1>5

LEMMA PartWidthIs ==
  ASSUME NEW f, f.width \in Seq(Digits)
  PROVE  /\ \A n \in 0..Len(f.width) : PartWidth(f)[n] \in Nat
         /\ PartWidth(f)[0] = 0 /\ WidthOf(f) = PartWidth(f)[Len(f.width)]
         /\ \A n \in 1..Len(f.width) :
              PartWidth(f)[n] = 10 * PartWidth(f)[n - 1] + DigitOf(f.width[n])
<1> DEFINE W == PartWidth(f)
           size == Len(f.width)
           val == [n \in Nat |-> IF n + 1 \in 1..size THEN DigitOf(f.width[n + 1]) ELSE 0]
           next == [n \in Nat |-> [x \in Nat |-> 10 * x + val[n]]]
<1>0. size \in Nat  OBVIOUS
<1>1. \A n \in 1..size : f.width[n] \in Digits  OBVIOUS
<1>2. val \in [Nat -> Nat]
  <2>1. ASSUME NEW n \in Nat, n + 1 \in 1..size PROVE DigitOf(f.width[n + 1]) \in Nat
    <3>1. f.width[n + 1] \in Digits  BY <1>1, <2>1
    <3>2. DigitOf(f.width[n + 1]) \in 0..9  BY <3>1, DigitsAre
    <3>3. QED  BY <3>2
  <2>2. QED  BY <2>1
<1>2a. \A n \in 1..size : val[n - 1] = DigitOf(f.width[n])
  <2>1. \A n \in 1..size : n - 1 \in Nat /\ (n - 1) + 1 = n  OBVIOUS
  <2>2. QED  BY <2>1
<1> HIDE DEF val
<1>3. next \in [Nat -> [Nat -> Nat]]  BY <1>2
<1>4. \A n \in Nat, x \in Nat : next[n][x] = 10 * x + val[n]  OBVIOUS
<1> HIDE DEF next
<1>5. PICK g \in [Nat -> Nat] : Unfolds(g, 0, next)
  <2>1. 0 \in Nat  OBVIOUS
  <2>2. QED  BY <2>1, <1>3, Recursion
<1>6. g[0] = 0 /\ \A n \in Nat : g[n + 1] = 10 * g[n] + val[n]
  BY <1>4, <1>5 DEF Unfolds
<1> DEFINE h == [n \in 0..size |-> g[n]]
           Eq(d) == d = [n \in 0..size |-> IF n = 0 THEN 0
                           ELSE 10 * d[n - 1] + (CHOOSE k \in 0..9 : Digit10[k + 1] = f.width[n])]
<1>7. Eq(h)
  <2>1. ASSUME NEW n \in 0..size
        PROVE h[n] = IF n = 0 THEN 0
                     ELSE 10 * h[n - 1] + (CHOOSE k \in 0..9 : Digit10[k + 1] = f.width[n])
    <3>1. CASE n = 0  BY <3>1, <1>6
    <3>2. CASE n # 0
      <4>1. n - 1 \in Nat /\ (n - 1) + 1 = n /\ n - 1 \in 0..size /\ n \in 1..size  BY <3>2
      <4>2. g[n] = 10 * g[n - 1] + val[n - 1]  BY <1>6, <4>1
      <4>3. (CHOOSE k \in 0..9 : Digit10[k + 1] = f.width[n]) = DigitOf(f.width[n])
        BY <1>1, <4>1, DigitsAre
      <4>4. h[n - 1] = g[n - 1] /\ h[n] = g[n]  BY <4>1
      <4>5. QED  BY <3>2, <4>1, <4>2, <4>3, <4>4, <1>2a
    <3>3. QED  BY <3>1, <3>2
  <2>2. h = [n \in 0..size |-> h[n]]  OBVIOUS
  <2> HIDE DEF h
  <2>3. QED  BY <2>1, <2>2
<1>8. W = CHOOSE d : Eq(d)  BY DEF PartWidth
<1>9. Eq(W)
  <2> HIDE DEF Eq, h, W
  <2> QED  BY <1>7, <1>8, Zenon
<1>10. WidthOf(f) = W[size]  BY DEF WidthOf, PartWidth
<1> HIDE DEF W, size
<1>11. W[0] = 0 /\ \A n \in 1..size : W[n] = 10 * W[n - 1] + DigitOf(f.width[n])
  <2>1. W[0] = 0
    <3>1. 0 \in 0..size  BY <1>0
    <3>2. QED  BY <3>1, <1>9
  <2>2. ASSUME NEW n \in 1..size PROVE W[n] = 10 * W[n - 1] + DigitOf(f.width[n])
    <3>1. n \in 0..size /\ n # 0  BY <1>0
    <3>2. W[n] = 10 * W[n - 1] + (CHOOSE k \in 0..9 : Digit10[k + 1] = f.width[n])
      BY <1>9, <3>1
    <3>3. (CHOOSE k \in 0..9 : Digit10[k + 1] = f.width[n]) = DigitOf(f.width[n])
      BY <1>1, DigitsAre
    <3>4. QED  BY <3>2, <3>3
  <2>3. QED  BY <2>1, <2>2
<1> DEFINE T == {n \in Nat : n <= size => W[n] \in Nat}
<1>12. Nat \subseteq T
  <2>1. 0 \in T  BY <1>11
  <2>2. ASSUME NEW n \in Nat, n \in T PROVE n + 1 \in T
    <3>1. SUFFICES ASSUME n + 1 <= size PROVE W[n + 1] \in Nat  OBVIOUS
    <3>2. n + 1 \in 1..size /\ (n + 1) - 1 = n /\ W[n] \in Nat  BY <2>2, <3>1, <1>0
    <3>3. W[n + 1] = 10 * W[n] + DigitOf(f.width[n + 1])  BY <3>2, <1>11
    <3>4. DigitOf(f.width[n + 1]) \in 0..9  BY <3>2, <1>1, DigitsAre
    <3> DEFINE d == DigitOf(f.width[n + 1])
               old == W[n]
    <3>5. d \in 0..9  BY <3>4
    <3>6. old \in Nat /\ W[n + 1] = 10 * old + d  BY <3>2, <3>3
    <3> HIDE DEF d, old
    <3>7. 10 * old + d \in Nat  BY <3>5, <3>6
    <3>8. QED  BY <3>6, <3>7
  <2> HIDE DEF T
  <2>3. QED  BY <2>1, <2>2, Induction
<1>13. \A n \in 0..size : W[n] \in Nat
  <2>1. \A n \in 0..size : n \in Nat /\ n <= size  BY <1>0
  <2>2. QED  BY <2>1, <1>12
<1>14. QED  BY <1>10, <1>11, <1>13 DEF W, size

Joins(S, s, t, r) ==
  /\ r \in Seq(S) /\ Len(r) = Len(s) + Len(t)
  /\ \A n \in 1..Len(s) : r[n] = s[n]
  /\ \A n \in 1..Len(t) : r[Len(s) + n] = t[n]

LEMMA Joined ==
  ASSUME NEW S, NEW s \in Seq(S), NEW t \in Seq(S), NEW r, r = s \o t
  PROVE  Joins(S, s, t, r)
BY DEF Joins

\* Where the characters of a format are.
Placed(f, m) ==
  /\ FlagEnd(f) \in {1, 2} /\ WidthEnd(f) \in Nat /\ Span(f) \in Nat /\ Len(f.width) \in Nat
  /\ Len(f.rest) \in Nat
  /\ FlagEnd(f) <= WidthEnd(f) /\ WidthEnd(f) < Span(f) /\ Span(f) >= 2
  /\ m \in Seq(LogChar) /\ Len(m) = Span(f) + 1 /\ Len(Text2(f)) = Span(f)
  /\ m[1] = "%" /\ (f.zero => m[2] = "0")
  /\ \A n \in 1..Len(f.width) : m[FlagEnd(f) + n] = f.width[n] /\ f.width[n] \in Digits
  /\ \A n \in 1..Len(f.rest) : m[WidthEnd(f) + n] = f.rest[n] /\ f.rest[n] \in Digits \cup {".", "l"}
  /\ m[Span(f)] = f.letter /\ m[Span(f) + 1] = "\n"

LEMMA MessageIs ==
  ASSUME NEW f, IsConversion(f), NEW m, m = Text2(f) \o <<"\n">>
  PROVE  Placed(f, m)
<1> DEFINE zeros == IF f.zero THEN <<"0">> ELSE <<>>
           T0 == <<"%">> \o zeros
           wd == f.width
           rs == f.rest
           T1 == T0 \o wd
           T2 == T1 \o rs
           T3 == T2 \o <<f.letter>>
           fe == FlagEnd(f)
           we == WidthEnd(f)
           sz == Span(f)
           wl == Len(f.width)
           rl == Len(f.rest)
<1>0. /\ f.zero \in BOOLEAN /\ f.letter \in {"d", "u", "o", "x", "X", "c", "s", "q", "%"}
      /\ f.width \in Seq(Digits) /\ f.rest \in Seq(Digits \cup {".", "l"})
  BY DEF IsConversion, Digits
<1>1. f.letter \in LogChar /\ "\n" \in LogChar /\ "%" \in LogChar /\ "0" \in LogChar
      /\ Digits \subseteq LogChar /\ Digits \cup {".", "l"} \subseteq LogChar
  <2>1. \A c \in Literals : c \in LogChar  BY DEF LogChar, Literals
  <2>2. f.letter \in Literals  BY <1>0 DEF Literals
  <2>3. \A c \in Digits : c \in Literals  BY DigitsAre DEF Literals
  <2>4. "\n" \in Literals /\ "%" \in Literals /\ "0" \in Literals /\ "." \in Literals /\ "l" \in Literals
    BY DEF Literals
  <2> HIDE DEF LogChar, Literals
  <2>5. QED  BY <2>1, <2>2, <2>3, <2>4
<1>2. wd \in Seq(LogChar) /\ rs \in Seq(LogChar) /\ <<f.letter>> \in Seq(LogChar)
      /\ <<"\n">> \in Seq(LogChar)
  <2> HIDE DEF LogChar, Digits
  <2>1. \A s \in Seq(Digits) : s \in Seq(LogChar)  BY <1>1
  <2>2. \A s \in Seq(Digits \cup {".", "l"}) : s \in Seq(LogChar)  BY <1>1
  <2>3. QED  BY <1>0, <1>1, <2>1, <2>2
<1>3. T0 \in Seq(LogChar) /\ Len(T0) = fe /\ T0[1] = "%" /\ (f.zero => T0[2] = "0")
  <2> DEFINE first == <<"%">>
  <2>1. first \in Seq(LogChar) /\ Len(first) = 1 /\ first[1] = "%"
    <3>1. \A x \in LogChar : <<x>> \in Seq(LogChar)  OBVIOUS
    <3>2. QED  BY <3>1, <1>1
  <2>2. /\ zeros \in Seq(LogChar) /\ Len(zeros) = (IF f.zero THEN 1 ELSE 0)
        /\ (f.zero => zeros[1] = "0")
    <3>1. CASE f.zero
      <4>1. zeros = <<"0">>  BY <3>1
      <4>2. \A x \in LogChar : <<x>> \in Seq(LogChar)  OBVIOUS
      <4>3. QED  BY <4>1, <4>2, <3>1, <1>1
    <3>2. CASE ~f.zero
      <4>1. zeros = <<>>  BY <3>2
      <4>2. QED  BY <4>1, <3>2
    <3>3. QED  BY <3>1, <3>2
  <2>3. T0 = first \o zeros  OBVIOUS
  <2> HIDE DEF first, zeros, T0
  <2>4. T0 \in Seq(LogChar) /\ Len(T0) = 1 + Len(zeros) /\ T0[1] = "%"
    <3>1. 1 \in 1..Len(first)  BY <2>1
    <3>2. Joins(LogChar, first, zeros, T0)  BY <2>1, <2>2, <2>3, Joined
    <3>3. QED  BY <2>1, <3>1, <3>2 DEF Joins
  <2>5. f.zero => T0[2] = "0"
    <3>1. f.zero => 1 \in 1..Len(zeros) /\ Len(first) + 1 = 2  BY <2>1, <2>2
    <3>2. \A n \in 1..Len(zeros) : T0[Len(first) + n] = zeros[n]
      <4>1. Joins(LogChar, first, zeros, T0)  BY <2>1, <2>2, <2>3, Joined
      <4>2. QED  BY <4>1 DEF Joins
    <3>3. QED  BY <3>1, <3>2, <2>2
  <2>6. 1 + (IF f.zero THEN 1 ELSE 0) = FlagEnd(f)  BY DEF FlagEnd
  <2>7. QED  BY <2>2, <2>4, <2>5, <2>6
<1>4. fe \in {1, 2} /\ wl \in Nat /\ rl \in Nat
  BY <1>0 DEF FlagEnd
<1>5. we = fe + wl /\ sz = we + rl + 1
  BY DEF WidthEnd, Span
<1> HIDE DEF fe, we, sz, wl, rl
<1>6. m = T3 \o <<"\n">> /\ Text2(f) = T3  BY DEF Text2
<1>6e. T1 = T0 \o wd /\ T2 = T1 \o rs /\ T3 = T2 \o <<f.letter>>  OBVIOUS
<1>6f. wd \in Seq(Digits) /\ rs \in Seq(Digits \cup {".", "l"})  BY <1>0
<1> HIDE DEF T0, T1, T2, T3, wd, rs
<1>6a. Len(wd) = wl /\ Len(rs) = rl  BY DEF wl, rl, wd, rs
<1>6b. we \in Nat /\ sz \in Nat /\ fe <= we /\ we < sz /\ sz >= 2
  BY <1>4, <1>5
<1>7. /\ T1 \in Seq(LogChar) /\ Len(T1) = we
      /\ \A n \in 1..fe : T1[n] = T0[n]
      /\ \A n \in 1..wl : T1[fe + n] = wd[n]
  <2>1. Joins(LogChar, T0, wd, T1)  BY <1>2, <1>3, <1>6e, Joined
  <2>2. QED  BY <2>1, <1>3, <1>5, <1>6a DEF Joins
<1>8. /\ T2 \in Seq(LogChar) /\ Len(T2) = we + rl
      /\ \A n \in 1..we : T2[n] = T1[n]
      /\ \A n \in 1..rl : T2[we + n] = rs[n]
  <2>1. Joins(LogChar, T1, rs, T2)  BY <1>2, <1>7, <1>6e, Joined
  <2>2. QED  BY <2>1, <1>7, <1>6a DEF Joins
<1>9. /\ T3 \in Seq(LogChar) /\ Len(T3) = sz /\ T3[sz] = f.letter
      /\ \A n \in 1..(sz - 1) : T3[n] = T2[n]
  <2>1. Len(<<f.letter>>) = 1 /\ <<f.letter>>[1] = f.letter  OBVIOUS
  <2>2. /\ T3 \in Seq(LogChar) /\ Len(T3) = Len(T2) + 1
        /\ (\A n \in 1..Len(T2) : T3[n] = T2[n]) /\ T3[Len(T2) + 1] = f.letter
    <3> DEFINE last == <<f.letter>>
    <3>2. last \in Seq(LogChar) /\ Len(last) = 1 /\ 1 \in 1..Len(last) /\ last[1] = f.letter /\ T3 = T2 \o last
      BY <1>2, <1>6e
    <3> HIDE DEF last
    <3>3. Joins(LogChar, T2, last, T3)  BY <1>8, <3>2, Joined
    <3>4. QED  BY <3>2, <3>3 DEF Joins
  <2>3. sz = Len(T2) + 1 /\ sz - 1 = Len(T2)  BY <1>4, <1>5, <1>8
  <2>4. QED  BY <2>2, <2>3
<1>10. /\ m \in Seq(LogChar) /\ Len(m) = sz + 1 /\ m[sz + 1] = "\n"
       /\ \A n \in 1..sz : m[n] = T3[n]
  <2> DEFINE nl == <<"\n">>
  <2>1. Len(nl) = 1 /\ nl[1] = "\n" /\ nl \in Seq(LogChar)  BY <1>2
  <2>2. m = T3 \o nl  BY <1>6
  <2> HIDE DEF nl
  <2>3. 1 \in 1..Len(nl)  BY <2>1
  <2>4. Joins(LogChar, T3, nl, m)  BY <1>9, <2>1, <2>2, Joined
  <2>5. QED  BY <1>9, <2>1, <2>3, <2>4 DEF Joins
<1>11. we \in Nat /\ sz \in Nat /\ fe <= we /\ we < sz /\ sz >= 2
  BY <1>6b
<1>12. \A n \in 1..fe : m[n] = T0[n]
  <2>1. TAKE n \in 1..fe
  <2>2. n \in 1..we /\ n \in 1..(sz - 1) /\ n \in 1..sz  BY <1>4, <1>11
  <2>3. QED  BY <2>2, <1>7, <1>8, <1>9, <1>10
<1>13. \A n \in 1..wl : m[fe + n] = wd[n] /\ wd[n] \in Digits
  <2>1. TAKE n \in 1..wl
  <2>2. fe + n \in 1..we /\ fe + n \in 1..(sz - 1) /\ fe + n \in 1..sz
    BY <1>4, <1>5
  <2>3. wd[n] \in Digits  BY <1>6f, <1>6a
  <2>4. QED  BY <2>2, <2>3, <1>7, <1>8, <1>9, <1>10
<1>14. \A n \in 1..rl : m[we + n] = rs[n] /\ rs[n] \in Digits \cup {".", "l"}
  <2>1. TAKE n \in 1..rl
  <2>2. we + n \in 1..(sz - 1) /\ we + n \in 1..sz
    BY <1>4, <1>5
  <2>3. rs[n] \in Digits \cup {".", "l"}  BY <1>6f, <1>6a
  <2>4. QED  BY <2>2, <2>3, <1>8, <1>9, <1>10
<1>15. m[1] = "%" /\ (f.zero => m[2] = "0")
  <2>1. 1 \in 1..fe /\ (f.zero => 2 \in 1..fe)
    BY <1>4, <1>0 DEF fe, FlagEnd
  <2>2. QED  BY <2>1, <1>12, <1>3
<1>16. m[sz] = f.letter
  <2>1. sz \in 1..sz  BY <1>11
  <2>2. QED  BY <2>1, <1>9, <1>10
<1>17. QED  BY <1>4, <1>6, <1>9, <1>10, <1>11, <1>13, <1>14, <1>15, <1>16, <1>6a DEF fe, we, sz, wl, rl, wd, rs, Placed

\* What the character at a place of a conversion can be.
Place(f, m, i) ==
  \/ f.zero /\ i = 2 /\ m[i] = "0"
  \/ /\ i - FlagEnd(f) \in 1..Len(f.width) /\ m[i] = f.width[i - FlagEnd(f)]
     /\ m[i] \in Digits /\ (i = 2 => m[i] # "0")
  \/ /\ i - WidthEnd(f) \in 1..Len(f.rest) /\ m[i] = f.rest[i - WidthEnd(f)]
     /\ m[i] \in Digits \cup {".", "l"}
     /\ m[i] \in Digits => \E n \in 1..Len(f.rest) : f.rest[n] = "." /\ WidthEnd(f) + n < i
  \/ i = Span(f) /\ m[i] = f.letter

LEMMA PlaceOf ==
  ASSUME NEW f, IsConversion(f), NEW m, m = Text2(f) \o <<"\n">>, NEW i \in 2..Span(f)
  PROVE  Place(f, m, i)
<1> DEFINE fe == FlagEnd(f)
           we == WidthEnd(f)
           sz == Span(f)
           wl == Len(f.width)
           rl == Len(f.rest)
<1>0. Placed(f, m)  BY MessageIs
<1>1. /\ fe \in {1, 2} /\ we \in Nat /\ sz \in Nat /\ wl \in Nat
      /\ rl \in Nat /\ we = fe + wl
      /\ sz = we + rl + 1 /\ (fe = 2 <=> f.zero)
  <2>1. fe \in {1, 2} /\ we \in Nat /\ sz \in Nat /\ wl \in Nat /\ rl \in Nat
    BY <1>0 DEF Placed
  <2>2. we = fe + wl /\ sz = we + rl + 1  BY DEF WidthEnd, Span
  <2>3. fe = 2 <=> f.zero  BY DEF FlagEnd, IsConversion
  <2>4. QED  BY <2>1, <2>2, <2>3
<1>1a. m[1] = "%" /\ (f.zero => m[2] = "0") /\ m[sz] = f.letter
  BY <1>0 DEF Placed
<1>1b. \A n \in 1..wl : m[fe + n] = f.width[n] /\ f.width[n] \in Digits  BY <1>0 DEF Placed
<1>1c. \A n \in 1..rl : m[we + n] = f.rest[n] /\ f.rest[n] \in Digits \cup {".", "l"}  BY <1>0 DEF Placed
<1>1d. f.rest \in Seq(Digits \cup {".", "l"}) /\ DOMAIN f.rest = 1..rl  BY DEF IsConversion, Digits
<1>1e. f.width # <<>> => f.width[1] # "0"  BY DEF IsConversion
<1>1f. wl > 0 => f.width # <<>>  OBVIOUS
<1>1g. i \in 2..sz  OBVIOUS
<1> HIDE DEF fe, we, sz, wl, rl
<1>2. CASE i <= fe
  <2>1. f.zero /\ i = 2  BY <1>1, <1>1g, <1>2
  <2>2. QED  BY <2>1, <1>1a DEF Place, fe, we, sz, wl, rl
<1>3. CASE i > fe /\ i <= we
  <2> DEFINE n == i - fe
  <2>1. n \in 1..wl /\ fe + n = i  BY <1>1, <1>1g, <1>3
  <2>2. m[fe + n] = f.width[n] /\ f.width[n] \in Digits
    <3> HIDE DEF n
    <3> QED  BY <2>1, <1>1b
  <2>3. i = 2 => m[i] # "0"
    <3>1. i = 2 => n = 1  BY <1>1, <1>1g, <1>3
    <3>2. f.width[1] # "0"
      <4> wl > 0  BY <2>1, <1>1
      <4> QED  BY <1>1e, <1>1f
    <3> HIDE DEF n
    <3>4. QED  BY <3>1, <3>2, <2>1, <2>2
  <2>4. QED  BY <2>1, <2>2, <2>3 DEF Place, fe, we, sz, wl, rl
<1>4. CASE i > we /\ i < sz
  <2> DEFINE n == i - we
  <2>1. n \in 1..rl /\ we + n = i  BY <1>1, <1>1g, <1>4
  <2>2. m[we + n] = f.rest[n] /\ f.rest[n] \in Digits \cup {".", "l"}
    <3> HIDE DEF n
    <3> QED  BY <2>1, <1>1c
  <2>3. ASSUME m[i] \in Digits PROVE \E k \in 1..rl : f.rest[k] = "." /\ we + k < i
    <3>1. n \in DOMAIN f.rest
      BY <1>1d, <2>1
    <3>2. f.rest[n] \in Digits  BY <2>1, <2>2, <2>3
    <3>3. PICK k \in 1..n : f.rest[k] = "."
      <4> HIDE DEF n
      <4> QED  BY <3>1, <3>2 DEF IsConversion, Digits
    <3>4. "." \notin Digits  BY DigitsAre
    <3>5. k # n  BY <3>2, <3>3, <3>4
    <3>6. k \in 1..rl /\ we + k < i  BY <3>5, <2>1, <1>1
    <3>7. QED  BY <3>3, <3>6
  <2>4. QED  BY <2>1, <2>2, <2>3 DEF Place, fe, we, sz, wl, rl
<1>5. CASE i = sz  BY <1>5, <1>1a DEF Place, fe, we, sz, wl, rl
<1>6. i <= fe \/ (i > fe /\ i <= we) \/ (i > we /\ i < sz) \/ i = sz  BY <1>1, <1>1g
<1>7. QED  BY <1>2, <1>3, <1>4, <1>5, <1>6

\* Which numbers bound a conversion.
LEMMA Bounds ==
  ASSUME NEW f, IsConversion(f)
  PROVE  /\ FlagEnd(f) \in {1, 2} /\ (FlagEnd(f) = 2 <=> f.zero) /\ f.zero \in BOOLEAN
         /\ Len(f.width) \in Nat /\ Len(f.rest) \in Nat /\ WidthEnd(f) \in Nat /\ Span(f) \in Nat
         /\ WidthEnd(f) = FlagEnd(f) + Len(f.width) /\ Span(f) = WidthEnd(f) + Len(f.rest) + 1
         /\ (f.width = <<>> <=> Len(f.width) = 0)
<1>1. Placed(f, Text2(f) \o <<"\n">>)  BY MessageIs
<1>2. f.width \in Seq(Digits) /\ f.zero \in BOOLEAN  BY DEF IsConversion, Digits
<1>3. f.width = <<>> <=> Len(f.width) = 0  BY <1>2
<1>4. WidthEnd(f) = FlagEnd(f) + Len(f.width) /\ Span(f) = WidthEnd(f) + Len(f.rest) + 1
  BY DEF WidthEnd, Span
<1>5. FlagEnd(f) = 2 <=> f.zero  BY <1>2 DEF FlagEnd
<1>6. QED  BY <1>1, <1>2, <1>3, <1>4, <1>5 DEF Placed

\* The width from the digits passed, before place i.
Width(f, i) ==
  IF f.width = <<>> \/ i <= FlagEnd(f) + 1 THEN -1
  ELSE IF i > WidthEnd(f) THEN WidthOf(f) ELSE PartWidth(f)[i - 1 - FlagEnd(f)]

PointPassed(f, i) == \E n \in 1..Len(f.rest) : f.rest[n] = "." /\ WidthEnd(f) + n < i

LEMMA ParsingIs ==
  ASSUME NEW f, NEW p
  PROVE  Parsing(f, p) <=>
           /\ p.w \in 2..Span(f) /\ p.state = IF p.w = 2 THEN "first" ELSE "other"
           /\ p.zero = (f.zero /\ p.w > 2) /\ p.before = Width(f, p.w) /\ p.after >= -1
           /\ p.w <= WidthEnd(f) + 1 => p.after = -1
           /\ PointPassed(f, p.w) => p.after >= 0
BY DEF Parsing, Width, PointPassed

LEMMA WidthNext ==
  ASSUME NEW f, IsConversion(f), NEW i \in 2..Span(f), i - FlagEnd(f) \in 1..Len(f.width)
  PROVE  /\ Width(f, i) \in Int
         /\ Width(f, i + 1) = (IF Width(f, i) < 0 THEN 0 ELSE Width(f, i) * 10)
                                + DigitOf(f.width[i - FlagEnd(f)])
<1> DEFINE fe == FlagEnd(f)
           we == WidthEnd(f)
           wl == Len(f.width)
           n == i - fe
           d == DigitOf(f.width[n])
           W == PartWidth(f)
<1>1. fe \in {1, 2} /\ wl \in Nat /\ we = fe + wl /\ (f.width = <<>> <=> wl = 0) /\ i \in Nat /\ n \in 1..wl
  BY Bounds
<1>2. f.width \in Seq(Digits) BY DEF IsConversion, Digits
<1>3. /\ \A k \in 0..wl : W[k] \in Nat
      /\ W[0] = 0 /\ WidthOf(f) = W[wl] /\ W[n] = 10 * W[n - 1] + d
  BY <1>1, <1>2, PartWidthIs
<1>4. d \in 0..9
  <2>1. f.width[n] \in Digits  BY <1>1, <1>2
  <2> HIDE DEF n
  <2>2. QED  BY <2>1, DigitsAre
<1>5. Width(f, i) = IF i <= fe + 1 THEN -1 ELSE IF i > we THEN W[wl] ELSE W[i - 1 - fe]
  <2>1. f.width # <<>>  BY <1>1
  <2>2. QED  BY <2>1, <1>3 DEF Width
<1>6. Width(f, i + 1) = IF i + 1 <= fe + 1 THEN -1 ELSE IF i + 1 > we THEN W[wl] ELSE W[(i + 1) - 1 - fe]
  <2>1. f.width # <<>>  BY <1>1
  <2>2. QED  BY <2>1, <1>3 DEF Width
<1>6a. f.width[i - FlagEnd(f)] = f.width[n]  OBVIOUS
<1>7. n \in 1..wl /\ n = i - fe  BY <1>1
<1> HIDE DEF fe, we, wl, W, d, n
<1>8. Width(f, i + 1) = W[n]
  <2>1. ~(i + 1 <= fe + 1) /\ (i + 1 > we => n = wl) /\ (i + 1) - 1 - fe = n  BY <1>1, <1>7
  <2>2. QED  BY <2>1, <1>6
<1>9. CASE n = 1
  <2>1. i <= fe + 1 /\ n - 1 = 0  BY <1>1, <1>7, <1>9
  <2>2. Width(f, i) = -1  BY <2>1, <1>5
  <2>3. W[n] = d  BY <2>1, <1>3, <1>4
  <2>4. QED  BY <2>2, <2>3, <1>8, <1>4 DEF d, fe, n
<1>10. CASE n # 1
  <2>1. ~(i <= fe + 1) /\ ~(i > we) /\ i - 1 - fe = n - 1 /\ n - 1 \in 0..wl  BY <1>1, <1>7, <1>10
  <2>2. Width(f, i) = W[n - 1]  BY <2>1, <1>5
  <2> DEFINE x == W[n - 1]
  <2>3. x \in Nat /\ W[n] = 10 * x + d  BY <2>1, <1>3
  <2> HIDE DEF x
  <2>4. W[n] = (IF x < 0 THEN 0 ELSE x * 10) + d  BY <2>3, <1>4
  <2>5. QED  BY <2>2, <2>3, <2>4, <1>8 DEF d, x, fe, n
<1>11. QED  BY <1>9, <1>10

LEMMA ParsesZero ==
  ASSUME NEW f, IsConversion(f), NEW p \in Locals, NEW q \in Locals, Parsing(f, p), p.w = 2, f.zero,
         q.w = p.w + 1, q.state = "other", q.zero = TRUE, q.before = p.before, q.after = p.after
  PROVE  Parsing(f, q)
<1>1. /\ p.w \in 2..Span(f) /\ p.before = Width(f, p.w) /\ p.after >= -1
      /\ (p.w <= WidthEnd(f) + 1 => p.after = -1) /\ p.after \in Int /\ q.w = 3
  BY ParsingIs DEF Locals
<1>2. FlagEnd(f) = 2 /\ WidthEnd(f) >= 2 /\ Span(f) >= 3 /\ WidthEnd(f) \in Nat /\ Span(f) \in Nat
  BY Bounds
<1>3. Width(f, 2) = -1 /\ Width(f, 3) = -1  BY <1>2 DEF Width
<1>4. ~PointPassed(f, 3)  BY <1>2 DEF PointPassed
<1>5. p.after = -1  BY <1>1, <1>2
<1>6. q.w = 3 /\ q.state = "other" /\ q.zero = TRUE /\ q.before = -1 /\ q.after = -1
  BY <1>1, <1>3, <1>5
<1>7. q.w \in 2..Span(f) /\ q.zero = (f.zero /\ q.w > 2) /\ q.before = Width(f, q.w)
      /\ q.after >= -1 /\ ~PointPassed(f, q.w) /\ q.state = (IF q.w = 2 THEN "first" ELSE "other")
  <2>1. q.w \in 2..Span(f)  BY <1>2, <1>6
  <2>2. q.zero = (f.zero /\ q.w > 2)
    <3>1. q.w > 2  BY <1>6
    <3>2. QED  BY <3>1, <1>6
  <2>3. q.before = Width(f, q.w) /\ ~PointPassed(f, q.w)  BY <1>3, <1>4, <1>6
  <2>4. q.after >= -1 /\ q.state = (IF q.w = 2 THEN "first" ELSE "other")  BY <1>6
  <2>5. QED  BY <2>1, <2>2, <2>3, <2>4
<1>8. QED  BY <1>6, <1>7, ParsingIs

LEMMA ParsesWidth ==
  ASSUME NEW f, IsConversion(f), NEW p \in Locals, NEW q \in Locals, Parsing(f, p),
         p.w - FlagEnd(f) \in 1..Len(f.width),
         q.w = p.w + 1, q.state = "other", q.zero = p.zero, q.after = p.after,
         q.before = (IF p.before < 0 THEN 0 ELSE p.before * 10) + DigitOf(f.width[p.w - FlagEnd(f)])
  PROVE  Parsing(f, q)
<1> DEFINE i == p.w
<1>1. /\ i \in 2..Span(f) /\ p.before = Width(f, i) /\ p.zero = (f.zero /\ i > 2) /\ q.w = i + 1
      /\ (i <= WidthEnd(f) + 1 => p.after = -1)
  BY ParsingIs
<1>2. /\ FlagEnd(f) \in {1, 2} /\ (FlagEnd(f) = 2 <=> f.zero) /\ f.zero \in BOOLEAN
      /\ Len(f.width) \in Nat /\ Len(f.rest) \in Nat /\ WidthEnd(f) \in Nat /\ Span(f) \in Nat
      /\ WidthEnd(f) = FlagEnd(f) + Len(f.width) /\ Span(f) = WidthEnd(f) + Len(f.rest) + 1
  BY Bounds
<1>3. q.before = Width(f, i + 1)  BY <1>1, WidthNext
<1>3a. i - FlagEnd(f) \in 1..Len(f.width)  OBVIOUS
<1>4. i + 1 \in 2..Span(f) /\ i + 1 # 2 /\ i <= WidthEnd(f)
  <2> DEFINE fe == FlagEnd(f)
             wl == Len(f.width)
             rl == Len(f.rest)
             we == WidthEnd(f)
             sz == Span(f)
  <2>1. i \in 2..sz /\ fe \in {1, 2} /\ wl \in Nat /\ rl \in Nat /\ we = fe + wl /\ sz = we + rl + 1
        /\ i - fe \in 1..wl
    BY <1>1, <1>2, <1>3a
  <2> HIDE DEF i, fe, wl, rl, we, sz
  <2>2. i + 1 \in 2..sz /\ i + 1 # 2 /\ i <= we  BY <2>1
  <2>3. QED  BY <2>2 DEF sz, we
<1>5. q.zero = (f.zero /\ i + 1 > 2)
  <2>1. f.zero => i > 2  BY <1>1, <1>2
  <2>2. i + 1 > 2  BY <1>1
  <2>3. QED  BY <2>1, <2>2, <1>1
<1>6. ~PointPassed(f, i + 1)  BY <1>1, <1>2, <1>4 DEF PointPassed
<1>7. p.after = -1  BY <1>1, <1>2, <1>4
<1> HIDE DEF i
<1>8. QED  BY <1>1, <1>3, <1>4, <1>5, <1>6, <1>7, ParsingIs

LEMMA ParsesRest ==
  ASSUME NEW f, IsConversion(f), NEW p \in Locals, NEW q \in Locals, Parsing(f, p),
         p.w - WidthEnd(f) \in 1..Len(f.rest),
         q.w = p.w + 1, q.state = "other", q.zero = p.zero, q.before = p.before,
         q.after >= -1, f.rest[p.w - WidthEnd(f)] = "." \/ p.after >= 0 => q.after >= 0
  PROVE  Parsing(f, q)
<1> DEFINE i == p.w
           we == WidthEnd(f)
<1>1. /\ i \in 2..Span(f) /\ p.before = Width(f, i) /\ p.zero = (f.zero /\ i > 2) /\ q.w = i + 1
      /\ (PointPassed(f, i) => p.after >= 0)
  BY ParsingIs
<1>2. /\ FlagEnd(f) \in {1, 2} /\ (FlagEnd(f) = 2 <=> f.zero) /\ f.zero \in BOOLEAN
      /\ Len(f.width) \in Nat /\ Len(f.rest) \in Nat /\ we \in Nat /\ Span(f) \in Nat
      /\ we = FlagEnd(f) + Len(f.width) /\ Span(f) = we + Len(f.rest) + 1
      /\ (f.width = <<>> <=> Len(f.width) = 0)
  BY Bounds
<1>3. i - we \in 1..Len(f.rest)  OBVIOUS
<1>3a. f.rest[i - we] = "." \/ p.after >= 0 => q.after >= 0  OBVIOUS
<1>4. i > we /\ i + 1 \in 2..Span(f) /\ i + 1 # 2 /\ ~(i + 1 <= we + 1) /\ i + 1 > 2
  <2> DEFINE fe == FlagEnd(f)
             wl == Len(f.width)
             rl == Len(f.rest)
             sz == Span(f)
  <2>1. i \in 2..sz /\ fe \in {1, 2} /\ wl \in Nat /\ rl \in Nat /\ we = fe + wl /\ sz = we + rl + 1
        /\ i - we \in 1..rl
    BY <1>1, <1>2, <1>3
  <2> HIDE DEF i, fe, wl, rl, we, sz
  <2>2. i > we /\ i + 1 \in 2..sz /\ i + 1 # 2 /\ ~(i + 1 <= we + 1) /\ i + 1 > 2  BY <2>1
  <2>3. QED  BY <2>2 DEF sz
<1>4a. i \in Nat  BY <1>1, <1>2
<1> HIDE DEF i
<1>5. Width(f, i + 1) = Width(f, i)
  <2>1. CASE f.width = <<>>  BY <2>1 DEF Width
  <2>2. CASE f.width # <<>>
    <3>1. ~(i <= FlagEnd(f) + 1) /\ ~(i + 1 <= FlagEnd(f) + 1) /\ i > we /\ i + 1 > we
      <4> DEFINE fe == FlagEnd(f)
                 wl == Len(f.width)
      <4>1. fe \in {1, 2} /\ wl \in Nat /\ wl # 0 /\ we = fe + wl /\ we \in Nat  BY <1>2, <2>2
      <4> HIDE DEF fe, wl, we
      <4>2. ~(i <= fe + 1) /\ ~(i + 1 <= fe + 1) /\ i > we /\ i + 1 > we  BY <4>1, <1>4, <1>4a
      <4>3. QED  BY <4>2 DEF fe
    <3>2. QED  BY <3>1, <2>2 DEF Width
  <2>3. QED  BY <2>1, <2>2
<1>6. q.zero = (f.zero /\ i + 1 > 2)
  <2>1. f.zero => i > 2  BY <1>1, <1>2, <1>4
  <2>2. QED  BY <2>1, <1>1, <1>4
<1>7. PointPassed(f, i + 1) => q.after >= 0
  <2>1. SUFFICES ASSUME PointPassed(f, i + 1), ~PointPassed(f, i) PROVE f.rest[i - we] = "."
    BY <1>1, <1>3a
  <2>2. PICK n \in 1..Len(f.rest) : f.rest[n] = "." /\ we + n < i + 1
    BY <2>1 DEF PointPassed
  <2>3. ~(we + n < i)  BY <2>1, <2>2 DEF PointPassed
  <2>4. n = i - we
    <3>1. we \in Nat /\ n \in Nat  BY <1>2
    <3> HIDE DEF we
    <3>2. QED  BY <3>1, <2>2, <2>3, <1>4a
  <2>5. QED  BY <2>2, <2>4
<1> HIDE DEF we
<1>8. i + 1 <= WidthEnd(f) + 1 => q.after = -1  BY <1>4 DEF we
<1>9. QED  BY <1>1, <1>4, <1>5, <1>6, <1>7, <1>8, ParsingIs DEF i

LEMMA RepeatIs ==
  ASSUME NEW S, NEW c \in S, NEW r \in Int
  PROVE  Repeat(c, r) \in Seq(S) /\ (r <= 0 => Repeat(c, r) = <<>>)
<1>1. CASE r <= 0
  <2>1. 1..r = {}  BY <1>1
  <2>2. Repeat(c, r) = <<>>  BY <2>1 DEF Repeat
  <2>3. QED  BY <2>2
<1>2. CASE r > 0
  <2>1. r \in Nat  BY <1>2
  <2>2. QED  BY <2>1, <1>2 DEF Repeat
<1>3. QED  BY <1>1, <1>2

\* At its letter, the width of a conversion is known; none is as good as zero.
LEMMA FillIs ==
  ASSUME NEW f, IsConversion(f), NEW c, NEW k \in Nat
  PROVE  /\ WidthOf(f) \in Nat /\ Width(f, Span(f)) \in Int
         /\ Repeat(c, Width(f, Span(f)) - k) = Repeat(c, WidthOf(f) - k)
<1>1. f.width \in Seq(Digits)  BY DEF IsConversion, Digits
<1>2. /\ FlagEnd(f) \in {1, 2} /\ Len(f.width) \in Nat /\ Len(f.rest) \in Nat
      /\ WidthEnd(f) = FlagEnd(f) + Len(f.width) /\ Span(f) = WidthEnd(f) + Len(f.rest) + 1
      /\ (f.width = <<>> <=> Len(f.width) = 0)
  BY Bounds
<1>3. WidthOf(f) \in Nat /\ (Len(f.width) = 0 => WidthOf(f) = 0)
  <2>1. /\ \A n \in 0..Len(f.width) : PartWidth(f)[n] \in Nat
        /\ PartWidth(f)[0] = 0 /\ WidthOf(f) = PartWidth(f)[Len(f.width)]
    BY <1>1, PartWidthIs
  <2>2. Len(f.width) \in 0..Len(f.width)  BY <1>2
  <2>3. QED  BY <2>1, <2>2
<1>4. CASE f.width = <<>>
  <2> DEFINE x == Width(f, Span(f))
             y == WidthOf(f)
  <2>1. x = -1 /\ y = 0  BY <1>2, <1>3, <1>4 DEF Width
  <2>2. x \in Int
    <3>1. -1 \in Int  OBVIOUS
    <3>2. QED  BY <2>1, <3>1
  <2> HIDE DEF x, y
  <2>3. 1..(x - k) = {} /\ 1..(y - k) = {}  BY <2>1
  <2>4. Repeat(c, x - k) = Repeat(c, y - k)  BY <2>3 DEF Repeat
  <2>5. QED  BY <2>2, <2>4, <1>3 DEF x, y
<1>5. CASE f.width # <<>>
  <2> DEFINE fe == FlagEnd(f)
             wl == Len(f.width)
             rl == Len(f.rest)
             we == WidthEnd(f)
             sz == Span(f)
  <2>1. fe \in {1, 2} /\ wl \in Nat \ {0} /\ rl \in Nat /\ we = fe + wl /\ sz = we + rl + 1
    BY <1>2, <1>5
  <2> HIDE DEF fe, wl, rl, we, sz
  <2>2. ~(sz <= fe + 1) /\ sz > we  BY <2>1
  <2>3. Width(f, Span(f)) = WidthOf(f)  BY <2>2, <1>5 DEF Width, fe, we, sz
  <2>4. WidthOf(f) \in Int  BY <1>3
  <2>5. QED  BY <2>3, <2>4, <1>3
<1>6. QED  BY <1>4, <1>5

LEMMA TableIs ==
  /\ \A n \in 1..10 : Lower[n] \in LogChar /\ Upper[n] \in LogChar
  /\ \A n \in 1..16 : Lower[n] \in LogChar /\ Upper[n] \in LogChar
<1>1. \A c \in Literals : c \in LogChar  BY DEF LogChar, Literals
<1> DEFINE low == <<"a", "b", "c", "d", "e", "f">>
           up == <<"A", "B", "C", "D", "E", "F">>
           D == Digit10
<1>2. D \in Seq(Literals) /\ Len(D) = 10
  <2>1. /\ "0" \in Literals /\ "1" \in Literals /\ "2" \in Literals /\ "3" \in Literals /\ "4" \in Literals
        /\ "5" \in Literals /\ "6" \in Literals /\ "7" \in Literals /\ "8" \in Literals /\ "9" \in Literals
    BY DEF Literals
  <2> HIDE DEF Literals
  <2>2. QED  BY <2>1 DEF Digit10
<1>3. low \in Seq(Literals) /\ Len(low) = 6
  <2>1. /\ "a" \in Literals /\ "b" \in Literals /\ "c" \in Literals /\ "d" \in Literals /\ "e" \in Literals
        /\ "f" \in Literals
    BY DEF Literals
  <2> HIDE DEF Literals
  <2>2. QED  BY <2>1
<1>4. up \in Seq(Literals) /\ Len(up) = 6
  <2>1. /\ "A" \in Literals /\ "B" \in Literals /\ "C" \in Literals /\ "D" \in Literals /\ "E" \in Literals
        /\ "F" \in Literals
    BY DEF Literals
  <2> HIDE DEF Literals
  <2>2. QED  BY <2>1
<1>5. Lower = D \o low /\ Upper = D \o up  BY DEF Lower, Upper
<1> HIDE DEF D, low, up, Literals, LogChar
<1>6. Joins(Literals, D, low, Lower) /\ Joins(Literals, D, up, Upper)
  BY <1>2, <1>3, <1>4, <1>5, Joined
<1>7. Lower \in Seq(Literals) /\ Len(Lower) = 16 /\ Upper \in Seq(Literals) /\ Len(Upper) = 16
  BY <1>2, <1>3, <1>4, <1>6 DEF Joins
<1>8. \A n \in 1..16 : Lower[n] \in Literals /\ Upper[n] \in Literals
  <2>1. \A s \in Seq(Literals) : \A n \in 1..Len(s) : s[n] \in Literals  OBVIOUS
  <2>2. QED  BY <1>7, <2>1
<1>9. \A n \in 1..10 : n \in 1..16  OBVIOUS
<1>10. QED  BY <1>1, <1>8, <1>9

LEMMA NumeralType ==
  ASSUME NEW base \in Bases, NEW v \in 0..(Power(2)[LogWord] - 1), NEW tab \in {Lower, Upper}
  PROVE  Numeral(v, base, tab) \in Seq(LogChar) /\ Len(Numeral(v, base, tab)) \in Nat
<1>1. PICK n \in Nat \ {0} : Numeral(v, base, tab) =
              [k \in 1..n |-> tab[1 + ((v \div Power(base)[n - k]) % base)]]
  BY NumeralsAre
<1>2. v \in Nat
  <2>1. LogWord \in Nat  BY LogAssumption
  <2>2. 2 \in Nat \ {0}  OBVIOUS
  <2>3. Power(2)[LogWord] \in Nat  BY <2>1, <2>2, PowerStep
  <2>4. QED  BY <2>3
<1>3. ASSUME NEW k \in 1..n PROVE tab[1 + ((v \div Power(base)[n - k]) % base)] \in LogChar
  <2> DEFINE p == Power(base)[n - k]
             q == v \div p
             d == 1 + (q % base)
  <2>1. p \in Nat \ {0}
    <3>1. n - k \in Nat  OBVIOUS
    <3>2. QED  BY <3>1, BasePowers
  <2>2. q \in Nat
    <3> HIDE DEF p
    <3>1. QED  BY <2>1, <1>2
  <2> HIDE DEF p, q
  <2>3. d \in 1..16
    <3>1. CASE base = 8  BY <3>1, <2>2
    <3>2. CASE base = 10  BY <3>2, <2>2
    <3>3. CASE base = 16  BY <3>3, <2>2
    <3>4. QED  BY <3>1, <3>2, <3>3 DEF Bases
  <2> HIDE DEF d
  <2>4. tab[d] \in LogChar  BY <2>3, TableIs
  <2>5. QED  BY <2>4 DEF d, q, p
<1>4. QED
  <2> DEFINE g == [k \in 1..n |-> tab[1 + ((v \div Power(base)[n - k]) % base)]]
  <2>1. g \in [1..n -> LogChar]  BY <1>3
  <2>2. Numeral(v, base, tab) = g  BY <1>1
  <2> HIDE DEF g
  <2>3. g \in Seq(LogChar) /\ Len(g) \in Nat  BY <2>1
  <2>4. QED  BY <2>2, <2>3

IntegerLetters == {"d", "u", "o", "x", "X"}

\* The sign, the magnitude and the digits of an integer.
Negative(c, v)  == c = "d" /\ v >= Power(2)[LogWord - 1]
MagnitudeOf(c, v) == IF Negative(c, v) THEN Power(2)[LogWord] - v ELSE v
TableOf(c)      == IF c = "X" THEN Upper ELSE Lower
SignOf(c, v)    == IF Negative(c, v) THEN <<"-">> ELSE <<>>
IntegerDigits(c, v)  == Numeral(MagnitudeOf(c, v), LogBase(c), TableOf(c))

LEMMA IntegerIs ==
  ASSUME NEW c \in IntegerLetters, NEW v \in 0..(Power(2)[LogWord] - 1)
  PROVE  /\ LogBase(c) \in Bases /\ TableOf(c) \in {Lower, Upper}
         /\ MagnitudeOf(c, v) \in 0..(Power(2)[LogWord] - 1)
         /\ SignOf(c, v) \in Seq(LogChar) /\ IntegerDigits(c, v) \in Seq(LogChar)
         /\ Numerals(MagnitudeOf(c, v), LogBase(c), TableOf(c)) = IntegerDigits(c, v)
<1>1. LogBase(c) \in Bases /\ TableOf(c) \in {Lower, Upper}
  BY DEF LogBase, Bases, TableOf
<1>2. MagnitudeOf(c, v) \in 0..(Power(2)[LogWord] - 1)
  <2> DEFINE p == Power(2)[LogWord]
             h == Power(2)[LogWord - 1]
  <2>1. p \in Nat /\ h \in Nat \ {0} /\ p = 2 * h
    <3>1. LogWord \in Nat \ {0}  BY LogAssumption
    <3>2. LogWord - 1 \in Nat /\ (LogWord - 1) + 1 = LogWord /\ 2 \in Nat \ {0} /\ LogWord \in Nat  BY <3>1
    <3>3. Power(2) \in [Nat -> Nat \ {0}] /\ \A n \in Nat : Power(2)[n + 1] = 2 * Power(2)[n]
      BY <3>2, PowerStep
    <3>4. QED  BY <3>2, <3>3
  <2>2. v \in 0..(p - 1)  OBVIOUS
  <2>3. MagnitudeOf(c, v) = IF c = "d" /\ v >= h THEN p - v ELSE v  BY DEF MagnitudeOf, Negative
  <2> HIDE DEF p, h
  <2>4. MagnitudeOf(c, v) \in 0..(p - 1)  BY <2>1, <2>2, <2>3
  <2>5. QED  BY <2>4 DEF p
<1>3. SignOf(c, v) \in Seq(LogChar)
  <2>1. "-" \in LogChar  BY DEF LogChar, Literals
  <2> HIDE DEF LogChar
  <2>2. <<"-">> \in Seq(LogChar) /\ <<>> \in Seq(LogChar)  BY <2>1
  <2>3. QED  BY <2>2 DEF SignOf
<1>4. IntegerDigits(c, v) \in Seq(LogChar)  BY <1>1, <1>2, NumeralType DEF IntegerDigits
<1>5. Numerals(MagnitudeOf(c, v), LogBase(c), TableOf(c)) = IntegerDigits(c, v)
  BY <1>1, <1>2, NumeralsAre DEF IntegerDigits
<1>6. QED  BY <1>1, <1>2, <1>3, <1>4, <1>5

\* What printf prints for an integer and a width, none included.
IntegerText(zero, c, v, wide) ==
  LET room == wide - Len(IntegerDigits(c, v)) - Len(SignOf(c, v)) IN
    IF zero THEN SignOf(c, v) \o Repeat("0", room) \o IntegerDigits(c, v)
            ELSE Repeat(" ", room) \o SignOf(c, v) \o IntegerDigits(c, v)

LEMMA IntegerTextIs ==
  ASSUME NEW f, IsConversion(f), f.letter \in IntegerLetters, NEW v \in 0..(Power(2)[LogWord] - 1), NEW s
  PROVE  /\ IntegerText(f.zero, f.letter, v, Width(f, Span(f))) = WithoutPrecision(f, v, s)
         /\ WithoutPrecision(f, v, s) \in Seq(LogChar)
<1> DEFINE c == f.letter
           sg == SignOf(c, v)
           dg == IntegerDigits(c, v)
           x == Width(f, Span(f))
           y == WidthOf(f)
           room == y - Len(sg \o dg)
           fill == x - Len(dg) - Len(sg)
<1>1. sg \in Seq(LogChar) /\ dg \in Seq(LogChar)  BY IntegerIs
<1>2. WithoutPrecision(f, v, s) = IF f.zero THEN sg \o Repeat("0", room) \o dg
                                    ELSE Repeat(" ", room) \o sg \o dg
  <2> DEFINE negative == c = "d" /\ v >= Power(2)[LogWord - 1]
             integer == c \in {"d", "u", "o", "x", "X"}
             body == IF integer THEN Numeral(IF negative THEN Power(2)[LogWord] - v ELSE v, LogBase(c),
                                             IF c = "X" THEN Upper ELSE Lower)
                     ELSE IF c = "c" THEN <<s[1]>> ELSE s
             sign == IF negative THEN <<"-">> ELSE <<>>
             free == WidthOf(f) - Len(sign \o body)
  <2>1. WithoutPrecision(f, v, s) =
          CASE f.letter = "q" -> <<>>
            [] f.letter = "%" -> IF Len(Text2(f)) = 2 THEN <<"%">> ELSE <<>>
            [] integer /\ f.zero -> sign \o Repeat("0", free) \o body
            [] OTHER -> Repeat(" ", free) \o sign \o body
    BY DEF WithoutPrecision
  <2>2. integer /\ c # "q" /\ c # "%"  BY DEF IntegerLetters
  <2>3. body = dg
    <3>1. body = Numeral(IF negative THEN Power(2)[LogWord] - v ELSE v, LogBase(c),
                         IF c = "X" THEN Upper ELSE Lower)
      <4> HIDE DEF integer, negative
      <4> QED  BY <2>2
    <3>2. QED  BY <3>1 DEF IntegerDigits, MagnitudeOf, Negative, TableOf
  <2>4. sign = sg  BY DEF SignOf, Negative
  <2>5. free = room  BY <2>3, <2>4
  <2> HIDE DEF negative, integer, body, sign, free, sg, dg, room
  <2>6. f.zero \in BOOLEAN  BY DEF IsConversion
  <2>7. CASE f.zero
    <3>1. WithoutPrecision(f, v, s) = sign \o Repeat("0", free) \o body
      BY <2>1, <2>2, <2>7, Zenon
    <3>2. QED  BY <3>1, <2>3, <2>4, <2>5, <2>7
  <2>8. CASE ~f.zero
    <3>1. WithoutPrecision(f, v, s) = Repeat(" ", free) \o sign \o body
      BY <2>1, <2>2, <2>8, Zenon
    <3>2. QED  BY <3>1, <2>3, <2>4, <2>5, <2>8
  <2>9. QED  BY <2>7, <2>8
<1>3. Len(sg) \in Nat /\ Len(dg) \in Nat /\ Len(sg \o dg) = Len(sg) + Len(dg)  BY <1>1
<1>4. IntegerText(f.zero, f.letter, v, x) =
        IF f.zero THEN sg \o Repeat("0", fill) \o dg ELSE Repeat(" ", fill) \o sg \o dg
  BY DEF IntegerText
<1>5. x \in Int /\ y \in Nat  BY FillIs, 0 \in Nat
<1> DEFINE k == Len(sg) + Len(dg)
<1>6. fill = x - k /\ room = y - k /\ k \in Nat
  <2> DEFINE a == Len(sg)
             b == Len(dg)
  <2>1. a \in Nat /\ b \in Nat /\ k = a + b /\ room = y - (a + b) /\ fill = x - b - a  BY <1>3
  <2> HIDE DEF a, b, x, y, room, fill, k
  <2>2. QED  BY <2>1, <1>5
<1> HIDE DEF sg, dg, fill, room, k
<1>7. \A ch : Repeat(ch, x - k) = Repeat(ch, y - k)  BY <1>6, FillIs
<1>7a. Repeat("0", fill) = Repeat("0", room) /\ Repeat(" ", fill) = Repeat(" ", room)
  <2>1. fill = x - k /\ room = y - k  BY <1>6
  <2>2. QED  BY <2>1, <1>7, Zenon
<1> HIDE DEF x, y, c
<1>8. IntegerText(f.zero, f.letter, v, x) = WithoutPrecision(f, v, s)  
  <2> DEFINE z1 == Repeat("0", fill)
             z2 == Repeat("0", room)
             b1 == Repeat(" ", fill)
             b2 == Repeat(" ", room)
  <2>1. z1 = z2 /\ b1 = b2  BY <1>7a
  <2>2. IntegerText(f.zero, f.letter, v, x) = IF f.zero THEN sg \o z1 \o dg ELSE b1 \o sg \o dg
    BY <1>4
  <2>3. WithoutPrecision(f, v, s) = IF f.zero THEN sg \o z2 \o dg ELSE b2 \o sg \o dg
    BY <1>2
  <2> HIDE DEF z1, z2, b1, b2
  <2>4. QED  BY <2>1, <2>2, <2>3
<1>9. Repeat("0", room) \in Seq(LogChar) /\ Repeat(" ", room) \in Seq(LogChar)
  <2>1. "0" \in LogChar /\ " " \in LogChar  BY DEF LogChar, Literals
  <2>2. room \in Int  BY <1>5, <1>6
  <2>3. QED  BY <2>1, <2>2, RepeatIs
<1>10. WithoutPrecision(f, v, s) \in Seq(LogChar)
  <2> DEFINE z == Repeat("0", room)
             b == Repeat(" ", room)
  <2>1. z \in Seq(LogChar) /\ b \in Seq(LogChar)  BY <1>9
  <2>2. WithoutPrecision(f, v, s) = IF f.zero THEN sg \o z \o dg ELSE b \o sg \o dg  BY <1>2
  <2> HIDE DEF LogChar, z, b
  <2>3. \A u1, u2 \in Seq(LogChar) : u1 \o u2 \in Seq(LogChar)  OBVIOUS
  <2>4. sg \o z \o dg \in Seq(LogChar) /\ b \o sg \o dg \in Seq(LogChar)  BY <1>1, <2>1, <2>3
  <2>5. QED  BY <2>2, <2>4
<1>11. QED  BY <1>8, <1>10 DEF x, c

LEMMA TextIs ==
  ASSUME NEW f, IsConversion(f), f.letter \in {"c", "s"}, NEW v, NEW s \in Seq(LogChar), s # <<>>
  PROVE  LET t == IF f.letter = "c" THEN <<Head(s)>> ELSE s IN
           /\ Repeat(" ", Width(f, Span(f)) - Len(t)) \o t = WithoutPrecision(f, v, s)
           /\ WithoutPrecision(f, v, s) \in Seq(LogChar)
<1> DEFINE t == IF f.letter = "c" THEN <<Head(s)>> ELSE s
           k == Len(t)
           y == WidthOf(f)
           x == Width(f, Span(f))
<1>1. t \in Seq(LogChar) /\ k \in Nat /\ t = IF f.letter = "c" THEN <<s[1]>> ELSE s
  <2>1. Head(s) = s[1] /\ s[1] \in LogChar
    <3> HIDE DEF LogChar
    <3> QED  OBVIOUS
  <2>2. <<s[1]>> \in Seq(LogChar)
    <3> HIDE DEF LogChar
    <3> QED  BY <2>1
  <2>3. t = IF f.letter = "c" THEN <<s[1]>> ELSE s  BY <2>1
  <2>4. t \in Seq(LogChar)  BY <2>2, <2>3
  <2> HIDE DEF t
  <2>5. QED  BY <2>3, <2>4
<1> HIDE DEF t
<1>2. WithoutPrecision(f, v, s) = Repeat(" ", y - k) \o t
  <2> DEFINE negative == f.letter = "d" /\ v >= Power(2)[LogWord - 1]
             integer == f.letter \in {"d", "u", "o", "x", "X"}
             body == IF integer THEN Numeral(IF negative THEN Power(2)[LogWord] - v ELSE v, LogBase(f.letter),
                                             IF f.letter = "X" THEN Upper ELSE Lower)
                     ELSE IF f.letter = "c" THEN <<s[1]>> ELSE s
             sign == IF negative THEN <<"-">> ELSE <<>>
             free == WidthOf(f) - Len(sign \o body)
  <2>1. WithoutPrecision(f, v, s) =
          CASE f.letter = "q" -> <<>>
            [] f.letter = "%" -> IF Len(Text2(f)) = 2 THEN <<"%">> ELSE <<>>
            [] integer /\ f.zero -> sign \o Repeat("0", free) \o body
            [] OTHER -> Repeat(" ", free) \o sign \o body
    BY DEF WithoutPrecision
  <2>2. ~integer /\ f.letter # "q" /\ f.letter # "%" /\ f.letter # "d"  OBVIOUS
  <2>3. body = t
    <3>1. body = IF f.letter = "c" THEN <<s[1]>> ELSE s
      <4> HIDE DEF integer, negative
      <4> QED  BY <2>2
    <3>2. QED  BY <3>1, <1>1
  <2>4. sign = <<>>  BY <2>2
  <2> HIDE DEF negative, integer, body, sign
  <2>5. sign \o body = t  BY <2>3, <2>4, <1>1
  <2>6. free = y - k  BY <2>5
  <2> HIDE DEF free, y, k
  <2>7. WithoutPrecision(f, v, s) = Repeat(" ", free) \o sign \o body
    BY <2>1, <2>2, Zenon
  <2>7a. Repeat(" ", free) \in Seq(LogChar)
    <3>1. " " \in LogChar  BY DEF LogChar, Literals
    <3>2. free \in Int
      <4>1. y \in Nat  BY FillIs, 0 \in Nat DEF y
      <4>2. QED  BY <4>1, <1>1, <2>6
    <3>3. QED  BY <3>1, <3>2, RepeatIs
  <2>8. Repeat(" ", free) \o sign = Repeat(" ", free)
    <3> DEFINE b == Repeat(" ", free)
    <3>1. b \in Seq(LogChar)  BY <2>7a
    <3> HIDE DEF b
    <3>2. b \o <<>> = b  BY <3>1
    <3>3. QED  BY <3>2, <2>4 DEF b
  <2>9. QED  BY <2>3, <2>6, <2>7, <2>8
<1>3. y \in Nat /\ Repeat(" ", x - k) = Repeat(" ", y - k)  BY <1>1, FillIs
<1>4. Repeat(" ", y - k) \in Seq(LogChar)
  <2>1. " " \in LogChar  BY DEF LogChar, Literals
  <2>2. y - k \in Int
    <3>1. k \in Nat  BY <1>1
    <3>2. y \in Nat  BY <1>3
    <3> HIDE DEF y, k
    <3>3. QED  BY <3>1, <3>2
  <2>3. QED  BY <2>1, <2>2, RepeatIs
<1> HIDE DEF x, y, k
<1>5. WithoutPrecision(f, v, s) \in Seq(LogChar)
  <2> DEFINE b == Repeat(" ", y - k)
  <2>1. b \in Seq(LogChar) /\ WithoutPrecision(f, v, s) = b \o t  BY <1>2, <1>4
  <2> HIDE DEF LogChar, b
  <2>2. QED  BY <2>1, <1>1
<1>6. QED  BY <1>2, <1>3, <1>5 DEF x, k, t

LEMMA NothingIs ==
  ASSUME NEW f, IsConversion(f), f.letter \in {"q", "%"}, NEW v, NEW s
  PROVE  WithoutPrecision(f, v, s) = IF f.letter = "%" /\ Span(f) = 2 THEN <<"%">> ELSE <<>>
<1>1. Len(Text2(f)) = Span(f)
  <2>1. Placed(f, Text2(f) \o <<"\n">>)  BY MessageIs
  <2>2. QED  BY <2>1 DEF Placed
<1>2. CASE f.letter = "q"  BY <1>2 DEF WithoutPrecision
<1>3. CASE f.letter = "%"
  <2>1. f.letter # "q"  BY <1>3
  <2>2. QED  BY <2>1, <1>1, <1>3 DEF WithoutPrecision
<1>4. QED  BY <1>2, <1>3

\* What an assignment to the locals leaves.
Advances(p, q, st, z, b, a) ==
  /\ q \in Locals /\ q.w = p.w + 1 /\ q.state = st /\ q.zero = z /\ q.before = b /\ q.after = a

LEMMA AdvanceIs ==
  ASSUME NEW p \in Locals, NEW st \in {"chars", "first", "other"}, NEW q
  PROVE  /\ q = [p EXCEPT !.w = p.w + 1] => Advances(p, q, p.state, p.zero, p.before, p.after)
         /\ q = [p EXCEPT !.w = p.w + 1, !.state = st] => Advances(p, q, st, p.zero, p.before, p.after)
         /\ q = [p EXCEPT !.w = p.w + 1, !.state = st, !.zero = TRUE]
              => Advances(p, q, st, TRUE, p.before, p.after)
         /\ \A a \in Int : q = [p EXCEPT !.w = p.w + 1, !.state = st, !.after = a]
              => Advances(p, q, st, p.zero, p.before, a)
         /\ \A b \in Int : q = [p EXCEPT !.w = p.w + 1, !.state = st, !.before = b]
              => Advances(p, q, st, p.zero, b, p.after)
<1> DEFINE n == p.w + 1
<1>1. n \in Nat \ {0} /\ TRUE \in BOOLEAN
  <2>1. p.w \in Nat \ {0}  BY DEF Locals
  <2>2. QED  BY <2>1
<1>1a. n = p.w + 1  OBVIOUS
<1> HIDE DEF n
<1>2. q = [p EXCEPT !.w = n] => Advances(p, q, p.state, p.zero, p.before, p.after)
  BY <1>1, <1>1a DEF Advances, Locals
<1>3. q = [p EXCEPT !.w = n, !.state = st] => Advances(p, q, st, p.zero, p.before, p.after)
  BY <1>1, <1>1a DEF Advances, Locals
<1>4. q = [p EXCEPT !.w = n, !.state = st, !.zero = TRUE] => Advances(p, q, st, TRUE, p.before, p.after)
  BY <1>1, <1>1a DEF Advances, Locals
<1>5. ASSUME NEW a \in Int, q = [p EXCEPT !.w = n, !.state = st, !.after = a]
      PROVE  Advances(p, q, st, p.zero, p.before, a)
  BY <1>1, <1>1a, <1>5 DEF Advances, Locals
<1>6. ASSUME NEW b \in Int, q = [p EXCEPT !.w = n, !.state = st, !.before = b]
      PROVE  Advances(p, q, st, p.zero, b, p.after)
  BY <1>1, <1>1a, <1>6 DEF Advances, Locals
<1>7. QED  BY <1>1a, <1>2, <1>3, <1>4, <1>5, <1>6

\* Where a walk may be that has not passed the end of the message.
AtText == InText(message, arg, pf, given) /\ pf.state = "chars" /\ message[pf.w] # "%"

AtEcho ==
  /\ arg.conversion = {} /\ message = <<"%", "s">> /\ given = <<>>
  /\ \/ pf.w = 1 /\ message[pf.w] = "%" /\ pf.state = "chars"
     \/ pf.w = 2 /\ message[pf.w] = "s" /\ pf.state = "first" /\ pf.before = -1

AtConversion(f) ==
  /\ IsConversion(f) /\ arg.conversion = {f} /\ message = Text2(f) \o <<"\n">>
  /\ arg.s # <<>> /\ arg.v \in 0..(Power(2)[LogWord] - 1)
  /\ \/ pf.w = 1 /\ pf.state = "chars" /\ given = <<>> /\ message[pf.w] = "%"
     \/ Parsing(f, pf) /\ given = <<>> /\ Place(f, message, pf.w)
     \/ /\ pf.w = Span(f) + 1 /\ pf.state = "chars" /\ message[pf.w] = "\n"
        /\ given = WithoutPrecision(f, arg.v, arg.s)

LEMMA WhereIs ==
  ASSUME LogTypes, LogText, Formatting
  PROVE  /\ pf \in Locals /\ given \in Seq(LogChar) /\ arg.s \in Seq(LogChar) /\ message \in Seq(LogChar)
         /\ message # <<>> /\ tx = <<>>
         /\ AtText \/ AtEcho \/ \E f \in arg.conversion : AtConversion(f)
<1>1. /\ pf \in Locals /\ given \in Seq(LogChar) /\ arg.s \in Seq(LogChar) /\ message \in Seq(LogChar)
      /\ message # <<>> /\ tx = <<>> /\ pf.w <= Len(message)
  BY DEF LogTypes, Formatting
<1>2. given \o tx = given
  <2> HIDE DEF LogChar
  <2> QED  BY <1>1
<1>3. Printing(message, arg, pf, given)  BY <1>1, <1>2 DEF LogText
<1>4. pf.w \in Nat \ {0} /\ pf.w \in 1..Len(message)
  <2>1. pf.w \in Nat \ {0} /\ Len(message) \in Nat  BY <1>1 DEF Locals
  <2>2. QED  BY <2>1, <1>1
<1>5. ASSUME InText(message, arg, pf, given)  PROVE  AtText
  BY <1>4, <1>5 DEF AtText, InText
<1>6. ASSUME InEcho(message, arg, pf, given)  PROVE  AtEcho
  <2>1. Len(message) = 2 /\ message[1] = "%" /\ message[2] = "s" BY <1>6 DEF InEcho
  <2>2. pf.w # 3  BY <2>1, <1>1
  <2>3. QED  BY <2>1, <2>2, <1>6 DEF InEcho, AtEcho
<1>7. ASSUME NEW f \in arg.conversion, InConversion(message, arg, pf, given, f)
      PROVE  AtConversion(f)
  <2>1. IsConversion(f) /\ message = Text2(f) \o <<"\n">>  BY <1>7 DEF InConversion
  <2>2. Placed(f, message)  BY <2>1, MessageIs
  <2>3. Len(message) = Span(f) + 1 /\ Span(f) \in Nat /\ message[1] = "%" /\ message[Span(f) + 1] = "\n"
    BY <2>2 DEF Placed
  <2>4. pf.w # Span(f) + 2  BY <2>3, <1>1, <1>4
  <2>5. Parsing(f, pf) => Place(f, message, pf.w)
    <3>1. Parsing(f, pf) => pf.w \in 2..Span(f)  BY ParsingIs
    <3>2. QED  BY <2>1, <3>1, PlaceOf
  <2>6. QED  BY <2>3, <2>4, <2>5, <1>7 DEF InConversion, AtConversion
<1>8. QED  BY <1>1, <1>3, <1>5, <1>6, <1>7 DEF Printing

\* After a step that prints what is left for the end of a conversion, or goes on.
Prints ==
  pf' \in Locals /\ tx' \in Seq(LogChar) /\ Printing(message, arg, pf', given \o tx')

LEMMA NothingPrinted ==
  ASSUME LogTypes, tx = <<>>, UNCHANGED tx, pf' \in Locals, Printing(message, arg, pf', given)
  PROVE  Prints
<1>1. tx' = <<>> /\ tx' \in Seq(LogChar) /\ given \in Seq(LogChar)  BY DEF LogTypes
<1>2. given \o tx' = given
  <2> HIDE DEF LogChar
  <2> QED  BY <1>1
<1>3. QED  BY <1>1, <1>2 DEF Prints

\* In a conversion a step goes on parsing.
LEMMA GoesOn ==
  ASSUME NEW f \in arg.conversion, AtConversion(f), given = <<>>, LogTypes, tx = <<>>, UNCHANGED tx,
         pf' \in Locals, Parsing(f, pf')
  PROVE  Prints
<1>1. InConversion(message, arg, pf', given, f)  BY DEF InConversion, AtConversion
<1>2. Printing(message, arg, pf', given)  BY <1>1 DEF Printing
<1>3. QED  BY <1>2, NothingPrinted

\* A step prints the text of the conversion.
LEMMA Converts ==
  ASSUME NEW f \in arg.conversion, AtConversion(f), given = <<>>, pf.w = Span(f),
         tx' = WithoutPrecision(f, arg.v, arg.s), tx' \in Seq(LogChar),
         Advances(pf, pf', "chars", pf.zero, pf.before, pf.after)
  PROVE  Prints
<1>1. given \o tx' = WithoutPrecision(f, arg.v, arg.s)
  <2> HIDE DEF LogChar
  <2>1. <<>> \o tx' = tx'  OBVIOUS
  <2>2. QED  BY <2>1
<1>2. pf'.w = Span(f) + 1 /\ pf'.state = "chars" /\ pf' \in Locals  BY DEF Advances
<1>3. InConversion(message, arg, pf', given \o tx', f)
  BY <1>1, <1>2 DEF InConversion, AtConversion
<1>4. QED  BY <1>2, <1>3 DEF Prints, Printing

LEMMA OneCharacter ==
  ASSUME NEW S, NEW m \in Seq(S), NEW i \in 1..Len(m)
  PROVE  SubSeq(m, 1, i - 1) \o <<m[i]>> = SubSeq(m, 1, i)
<1> DEFINE a == SubSeq(m, 1, i - 1)
           b == <<m[i]>>
           r == a \o b
           t == SubSeq(m, 1, i)
<1>1. a \in Seq(S) /\ Len(a) = i - 1 /\ \A n \in 1..i - 1 : a[n] = m[n]  OBVIOUS
<1>2. b \in Seq(S) /\ Len(b) = 1 /\ b[1] = m[i]  OBVIOUS
<1>3. t \in Seq(S) /\ Len(t) = i /\ \A n \in 1..i : t[n] = m[n]  OBVIOUS
<1> HIDE DEF a, b, t
<1>4. r \in Seq(S) /\ Len(r) = i /\ (\A n \in 1..i - 1 : r[n] = a[n]) /\ r[i] = b[1]
  <2>1. Joins(S, a, b, r)  BY <1>1, <1>2, Joined
  <2> HIDE DEF r
  <2>2. Len(r) = i /\ r \in Seq(S)  BY <2>1, <1>1, <1>2 DEF Joins
  <2>3. \A n \in 1..i - 1 : r[n] = a[n]  BY <2>1, <1>1 DEF Joins
  <2>4. r[i - 1 + 1] = b[1]  BY <2>1, <1>1, <1>2 DEF Joins
  <2>5. QED  BY <2>2, <2>3, <2>4
<1> HIDE DEF r
<1>5. \A n \in 1..i : r[n] = t[n]
  <2>1. \A n \in 1..i : n \in 1..i - 1 \/ n = i  OBVIOUS
  <2>2. QED  BY <1>1, <1>2, <1>3, <1>4, <2>1
<1>6. r = t  BY <1>3, <1>4, <1>5
<1>7. QED  BY <1>6 DEF r, a, b, t

\* What the place in the message is.
LEMMA Placing ==
  ASSUME LogTypes, Formatting
  PROVE  pf.w \in 1..Len(message) /\ Len(message) \in Nat /\ message[pf.w] \in LogChar
<1>1. message \in Seq(LogChar) /\ pf.w \in Nat \ {0} /\ pf.w <= Len(message)
  BY DEF LogTypes, Formatting, Locals
<1> HIDE DEF LogChar
<1>2. QED  BY <1>1

LEMMA PrintsPlain ==
  ASSUME LogTypes, LogText, LogPlain
  PROVE  Prints
<1>1. /\ Formatting /\ pf.state = "chars" /\ message[pf.w] # "%" /\ tx' = <<message[pf.w]>>
      /\ pf' = [pf EXCEPT !.w = pf.w + 1]
  BY DEF LogPlain, Send, Next_w
<1>2. /\ pf \in Locals /\ given \in Seq(LogChar) /\ message \in Seq(LogChar)
      /\ AtText \/ AtEcho \/ \E f \in arg.conversion : AtConversion(f)
  BY <1>1, WhereIs
<1>3. Advances(pf, pf', "chars", pf.zero, pf.before, pf.after)  BY <1>1, <1>2, AdvanceIs
<1>4. pf.w \in 1..Len(message) /\ Len(message) \in Nat /\ message[pf.w] \in LogChar  BY <1>1, Placing
<1>5. pf' \in Locals /\ tx' \in Seq(LogChar) /\ pf'.w = pf.w + 1 /\ pf'.state = "chars"
  <2> HIDE DEF LogChar
  <2> QED  BY <1>1, <1>3, <1>4 DEF Advances
<1>6. ASSUME AtText  PROVE Printing(message, arg, pf', given \o tx')
  <2>1. given = SubSeq(message, 1, pf.w - 1)  BY <1>6 DEF AtText, InText
  <2>2. given \o tx' = SubSeq(message, 1, pf.w)  BY <1>1, <1>2, <1>4, <2>1, OneCharacter
  <2>3. pf'.w - 1 = pf.w /\ pf'.w <= Len(message) + 1  BY <1>4, <1>5
  <2>4. InText(message, arg, pf', given \o tx')  BY <1>6, <1>5, <2>2, <2>3 DEF AtText, InText
  <2>5. QED  BY <2>4 DEF Printing
<1>7. ASSUME AtEcho  PROVE FALSE
  BY <1>7, <1>1 DEF AtEcho
<1>8. ASSUME NEW f \in arg.conversion, AtConversion(f)  PROVE Printing(message, arg, pf', given \o tx')
  <2>1. ~Parsing(f, pf)
    <3>1. Parsing(f, pf) => pf.state = IF pf.w = 2 THEN "first" ELSE "other"  BY ParsingIs
    <3>2. QED  BY <3>1, <1>1
  <2>2. /\ pf.w = Span(f) + 1 /\ message[pf.w] = "\n" /\ given = WithoutPrecision(f, arg.v, arg.s)
    BY <2>1, <1>1, <1>8 DEF AtConversion
  <2>3. given \o tx' = WithoutPrecision(f, arg.v, arg.s) \o <<"\n">>  BY <2>2, <1>1
  <2>4. IsConversion(f) /\ Span(f) \in Nat  BY <1>8, Bounds DEF AtConversion
  <2>5. pf'.w = Span(f) + 2  BY <2>2, <2>4, <1>5
  <2>6. InConversion(message, arg, pf', given \o tx', f)
    BY <1>5, <1>8, <2>3, <2>5 DEF InConversion, AtConversion
  <2>7. QED  BY <2>6 DEF Printing
<1>9. QED  BY <1>2, <1>5, <1>6, <1>7, <1>8 DEF Prints

LEMMA PrintsOpens ==
  ASSUME LogTypes, LogText, LogOpens
  PROVE  Prints
<1>1. /\ Formatting /\ message[pf.w] = "%" /\ pf.state = "chars" /\ UNCHANGED tx
      /\ pf' = [Begin EXCEPT !.w = pf.w + 1, !.state = "first"]
  BY DEF LogOpens, C, Quiet, Next_w
<1>2. /\ pf \in Locals /\ tx = <<>>
      /\ AtText \/ AtEcho \/ \E f \in arg.conversion : AtConversion(f)
  BY <1>1, WhereIs
<1>3. Begin \in Locals /\ Begin.zero = FALSE /\ Begin.before = -1 /\ Begin.after = -1
  BY DEF Begin, Locals
<1>4. /\ pf' \in Locals /\ pf'.w = pf.w + 1 /\ pf'.state = "first" /\ pf'.zero = FALSE
      /\ pf'.before = -1 /\ pf'.after = -1
  <2> DEFINE n == pf.w + 1
             b == Begin
  <2>1. n \in Nat \ {0}
    <3>1. pf.w \in Nat \ {0}  BY <1>2 DEF Locals
    <3>2. QED  BY <3>1
  <2>2. pf' = [b EXCEPT !.w = n, !.state = "first"] /\ n = pf.w + 1  BY <1>1
  <2>3. b \in Locals /\ b.zero = FALSE /\ b.before = -1 /\ b.after = -1  BY <1>3
  <2> HIDE DEF n, b
  <2>4. pf' \in Locals /\ pf'.w = n /\ pf'.state = "first" /\ pf'.zero = b.zero
        /\ pf'.before = b.before /\ pf'.after = b.after
    BY <2>1, <2>2, <2>3 DEF Locals
  <2>5. QED  BY <2>2, <2>3, <2>4
<1>5. ASSUME AtText  PROVE FALSE
  BY <1>5, <1>1 DEF AtText
<1>6. ASSUME AtEcho  PROVE Prints
  <2>1. pf.w = 1
    BY <1>6, <1>1 DEF AtEcho
  <2>2. InEcho(message, arg, pf', given)  BY <2>1, <1>4, <1>6 DEF InEcho, AtEcho
  <2>3. QED  BY <2>2, <1>1, <1>2, <1>4, NothingPrinted DEF Printing
<1>7. ASSUME NEW f \in arg.conversion, AtConversion(f)  PROVE Prints
  <2>1. ~Parsing(f, pf)
    <3>1. Parsing(f, pf) => pf.state = IF pf.w = 2 THEN "first" ELSE "other"  BY ParsingIs
    <3>2. QED  BY <3>1, <1>1
  <2>2. pf.w = 1 /\ given = <<>>  BY <2>1, <1>1, <1>7 DEF AtConversion
  <2>3. IsConversion(f)  BY <1>7 DEF AtConversion
  <2>4. /\ FlagEnd(f) \in {1, 2} /\ Len(f.width) \in Nat /\ Len(f.rest) \in Nat
        /\ WidthEnd(f) = FlagEnd(f) + Len(f.width) /\ Span(f) = WidthEnd(f) + Len(f.rest) + 1
    BY <2>3, Bounds
  <2>5. Width(f, 2) = -1  BY <2>4 DEF Width
  <2>6. ~PointPassed(f, 2)  BY <2>4 DEF PointPassed
  <2>7. 2 \in 2..Span(f)  BY <2>4
  <2>8. pf'.w = 2 /\ pf'.after >= -1  BY <2>2, <1>4
  <2>9. Parsing(f, pf')
    <3>1. pf'.zero = (f.zero /\ pf'.w > 2)
      <4>1. ~(pf'.w > 2)  BY <2>8
      <4>2. (f.zero /\ pf'.w > 2) = FALSE  BY <4>1, Zenon
      <4>3. pf'.zero = FALSE  BY <1>4
      <4>4. QED  BY <4>2, <4>3, Zenon
    <3>2. pf'.before = Width(f, pf'.w) /\ ~PointPassed(f, pf'.w) /\ pf'.w \in 2..Span(f)
      BY <2>5, <2>6, <2>7, <2>8, <1>4
    <3>3. (pf'.w <= WidthEnd(f) + 1 => pf'.after = -1) /\ pf'.state = IF pf'.w = 2 THEN "first" ELSE "other"
      BY <2>8, <1>4
    <3>4. QED  BY <2>8, <3>1, <3>2, <3>3, ParsingIs
  <2>10. QED  BY <2>2, <2>9, <1>1, <1>2, <1>4, <1>7, GoesOn
<1>8. QED  BY <1>2, <1>5, <1>6, <1>7

\* A walk in a conversion that has not found its letter.
LEMMA WhereIn ==
  ASSUME LogTypes, LogText, Formatting, pf.state # "chars"
  PROVE  /\ pf \in Locals /\ given \in Seq(LogChar) /\ arg.s \in Seq(LogChar) /\ tx = <<>> /\ given = <<>>
         /\ \/ AtEcho /\ pf.w = 2 /\ message[pf.w] = "s" /\ pf.before = -1
            \/ \E f \in arg.conversion : /\ AtConversion(f) /\ Parsing(f, pf) /\ Place(f, message, pf.w)
                                         /\ IsConversion(f)
<1>1. /\ pf \in Locals /\ given \in Seq(LogChar) /\ arg.s \in Seq(LogChar) /\ tx = <<>>
      /\ AtText \/ AtEcho \/ \E f \in arg.conversion : AtConversion(f)
  BY WhereIs
<1>2. ~AtText  BY DEF AtText
<1>3. ASSUME AtEcho
      PROVE  given = <<>> /\ pf.w = 2 /\ message[pf.w] = "s" /\ pf.before = -1
  BY <1>3 DEF AtEcho
<1>4. ASSUME NEW f \in arg.conversion, AtConversion(f)
      PROVE  given = <<>> /\ Parsing(f, pf) /\ Place(f, message, pf.w) /\ IsConversion(f)
  BY <1>4 DEF AtConversion
<1>5. QED  BY <1>1, <1>2, <1>3, <1>4

LEMMA LettersAre ==
  \A f : IsConversion(f) => /\ f.letter \in IntegerLetters \cup {"c", "s", "q", "%"}
                            /\ f.letter \notin Digits \cup {".", "l"}
  BY DigitsAre DEF IsConversion, IntegerLetters

\* The places of the characters of a conversion.
LEMMA PlaceIs ==
  ASSUME NEW f, IsConversion(f), NEW m, NEW i \in 2..Span(f), Place(f, m, i)
  PROVE  /\ m[i] \in Digits \cup {".", "l"} \/ (i = Span(f) /\ m[i] = f.letter)
         /\ i = 2 /\ m[i] = "0" => f.zero
         /\ m[i] \in Digits /\ ~(i = 2 /\ m[i] = "0") /\ ~(f.zero /\ i = 2) =>
              \/ i - FlagEnd(f) \in 1..Len(f.width) /\ m[i] = f.width[i - FlagEnd(f)]
              \/ /\ i - WidthEnd(f) \in 1..Len(f.rest) /\ m[i] = f.rest[i - WidthEnd(f)]
                 /\ PointPassed(f, i)
         /\ m[i] \in {".", "l"} =>
              i - WidthEnd(f) \in 1..Len(f.rest) /\ m[i] = f.rest[i - WidthEnd(f)]
         /\ m[i] \notin Digits \cup {".", "l"} => i = Span(f) /\ m[i] = f.letter
<1>1. f.letter \notin Digits \cup {".", "l"}  BY LettersAre
<1>2. "0" \in Digits /\ "." \notin Digits /\ "l" \notin Digits  BY DigitsAre
<1>3. /\ FlagEnd(f) \in {1, 2} /\ Len(f.width) \in Nat /\ Len(f.rest) \in Nat
      /\ WidthEnd(f) = FlagEnd(f) + Len(f.width) /\ Span(f) = WidthEnd(f) + Len(f.rest) + 1
  BY Bounds
<1>4. PointPassed(f, 2) => FALSE  BY <1>3 DEF PointPassed
<1>5. CASE f.zero /\ i = 2 /\ m[i] = "0"
  BY <1>2, <1>5
<1>6. CASE /\ i - FlagEnd(f) \in 1..Len(f.width) /\ m[i] = f.width[i - FlagEnd(f)]
           /\ m[i] \in Digits /\ (i = 2 => m[i] # "0")
  BY <1>2, <1>6
<1>7. CASE /\ i - WidthEnd(f) \in 1..Len(f.rest) /\ m[i] = f.rest[i - WidthEnd(f)]
           /\ m[i] \in Digits \cup {".", "l"}
           /\ m[i] \in Digits => PointPassed(f, i)
  BY <1>2, <1>4, <1>7
<1>8. CASE i = Span(f) /\ m[i] = f.letter
  BY <1>1, <1>2, <1>8
<1>9. QED  BY <1>5, <1>6, <1>7, <1>8 DEF Place, PointPassed

LEMMA PrintsZero ==
  ASSUME LogTypes, LogText, LeadingZero
  PROVE  Prints
<1>1. /\ Formatting /\ message[pf.w] = "0" /\ pf.state = "first" /\ UNCHANGED tx
      /\ pf' = [pf EXCEPT !.w = pf.w + 1, !.state = "other", !.zero = TRUE]
  BY DEF LeadingZero, C, Quiet, Next_w
<1>2. /\ pf \in Locals /\ tx = <<>> /\ given = <<>>
      /\ \/ AtEcho /\ pf.w = 2 /\ message[pf.w] = "s"
         \/ \E f \in arg.conversion : /\ AtConversion(f) /\ Parsing(f, pf) /\ Place(f, message, pf.w)
                                      /\ IsConversion(f)
  BY <1>1, WhereIn
<1>3. Advances(pf, pf', "other", TRUE, pf.before, pf.after)  BY <1>1, <1>2, AdvanceIs
<1>4. ASSUME NEW f \in arg.conversion, AtConversion(f), Parsing(f, pf), Place(f, message, pf.w), IsConversion(f)
      PROVE  Prints
  <2>1. pf.w \in 2..Span(f) /\ pf.state = IF pf.w = 2 THEN "first" ELSE "other"  BY <1>4, ParsingIs
  <2>2. pf.w = 2  BY <2>1, <1>1
  <2>3. f.zero  BY <2>1, <2>2, <1>1, <1>4, PlaceIs
  <2>4. Parsing(f, pf')  BY <2>2, <2>3, <1>2, <1>3, <1>4, ParsesZero DEF Advances
  <2>5. QED  BY <2>4, <1>1, <1>2, <1>3, <1>4, GoesOn DEF Advances
<1>5. QED  BY <1>1, <1>2, <1>4

\* What a character after the flag finds.
LEMMA OtherIs ==
  ASSUME LogTypes, LogText, NEW chars, Other(chars)
  PROVE  /\ Formatting /\ message[pf.w] \in chars /\ pf.state # "chars"
         /\ pf \in Locals /\ given \in Seq(LogChar) /\ arg.s \in Seq(LogChar) /\ tx = <<>> /\ given = <<>>
         /\ \/ AtEcho /\ pf.w = 2 /\ message[pf.w] = "s" /\ pf.before = -1
            \/ \E f \in arg.conversion :
                 /\ AtConversion(f) /\ Parsing(f, pf) /\ Place(f, message, pf.w) /\ IsConversion(f)
                 /\ pf.w \in 2..Span(f) /\ ~(pf.w = 2 /\ message[pf.w] \in {"0", "%"})
<1>1. Formatting /\ message[pf.w] \in chars /\ pf.state # "chars"
      /\ ~(pf.state = "first" /\ message[pf.w] \in {"0", "%"})
  BY DEF Other, C
<1>2. /\ pf \in Locals /\ given \in Seq(LogChar) /\ arg.s \in Seq(LogChar) /\ tx = <<>> /\ given = <<>>
      /\ \/ AtEcho /\ pf.w = 2 /\ message[pf.w] = "s" /\ pf.before = -1
         \/ \E f \in arg.conversion : /\ AtConversion(f) /\ Parsing(f, pf) /\ Place(f, message, pf.w)
                                      /\ IsConversion(f)
  BY <1>1, WhereIn
<1>3. ASSUME NEW f \in arg.conversion, Parsing(f, pf)
      PROVE  pf.w \in 2..Span(f) /\ ~(pf.w = 2 /\ message[pf.w] \in {"0", "%"})
  <2>1. pf.w \in 2..Span(f) /\ pf.state = IF pf.w = 2 THEN "first" ELSE "other"  BY <1>3, ParsingIs
  <2>2. QED  BY <2>1, <1>1
<1>4. QED  BY <1>1, <1>2, <1>3

LEMMA PrintsPoint ==
  ASSUME LogTypes, LogText, Point
  PROVE  Prints
<1>1. /\ Other({"."}) /\ UNCHANGED tx
      /\ pf' = [pf EXCEPT !.w = pf.w + 1, !.state = "other", !.after = 0]
  BY DEF Point, Quiet, Next_w
<1>2. message[pf.w] = "." /\ pf \in Locals /\ tx = <<>> /\ given = <<>>  BY <1>1, OtherIs
<1>3. Advances(pf, pf', "other", pf.zero, pf.before, 0)
  <2>1. \A a \in Int : pf' = [pf EXCEPT !.w = pf.w + 1, !.state = "other", !.after = a]
           => Advances(pf, pf', "other", pf.zero, pf.before, a)
    BY <1>2, AdvanceIs
  <2>2. 0 \in Int  OBVIOUS
  <2>3. QED  BY <1>1, <2>1, <2>2
<1>4. ~AtEcho \/ message[pf.w] # "s"  BY <1>2
<1>5. PICK f \in arg.conversion :
        /\ AtConversion(f) /\ Parsing(f, pf) /\ Place(f, message, pf.w) /\ IsConversion(f)
        /\ pf.w \in 2..Span(f)
  BY <1>1, <1>4, OtherIs
<1>6. pf.w - WidthEnd(f) \in 1..Len(f.rest)  BY <1>2, <1>5, PlaceIs
<1>7. Parsing(f, pf')
  <2>1. pf' \in Locals /\ pf'.w = pf.w + 1 /\ pf'.state = "other" /\ pf'.zero = pf.zero
        /\ pf'.before = pf.before /\ pf'.after >= -1 /\ pf'.after >= 0
    BY <1>3 DEF Advances
  <2>2. QED  BY <2>1, <1>2, <1>5, <1>6, ParsesRest
<1>8. QED  BY <1>1, <1>2, <1>3, <1>5, <1>7, GoesOn DEF Advances

LEMMA PrintsLong ==
  ASSUME LogTypes, LogText, LongFlag
  PROVE  Prints
<1>1. /\ Other({"l"}) /\ UNCHANGED tx
      /\ pf' = [pf EXCEPT !.w = pf.w + 1, !.state = "other"]
  BY DEF LongFlag, Quiet, Next_w
<1>2. message[pf.w] = "l" /\ pf \in Locals /\ tx = <<>> /\ given = <<>>  BY <1>1, OtherIs
<1>3. Advances(pf, pf', "other", pf.zero, pf.before, pf.after)  BY <1>1, <1>2, AdvanceIs
<1>4. ~AtEcho \/ message[pf.w] # "s"  BY <1>2
<1>5. PICK f \in arg.conversion :
        /\ AtConversion(f) /\ Parsing(f, pf) /\ Place(f, message, pf.w) /\ IsConversion(f)
        /\ pf.w \in 2..Span(f)
  BY <1>1, <1>4, OtherIs
<1>6. /\ pf.w - WidthEnd(f) \in 1..Len(f.rest) /\ message[pf.w] = f.rest[pf.w - WidthEnd(f)]
  BY <1>2, <1>5, PlaceIs
<1>7. Parsing(f, pf')
  <2>1. pf' \in Locals /\ pf'.w = pf.w + 1 /\ pf'.state = "other" /\ pf'.zero = pf.zero
        /\ pf'.before = pf.before /\ pf'.after = pf.after
    BY <1>3 DEF Advances
  <2>2. pf.after >= -1  BY <1>5, ParsingIs
  <2>3. f.rest[pf.w - WidthEnd(f)] # "."  BY <1>2, <1>6
  <2>4. QED  BY <2>1, <2>2, <2>3, <1>2, <1>5, <1>6, ParsesRest
<1>8. QED  BY <1>1, <1>2, <1>3, <1>5, <1>7, GoesOn DEF Advances

LEMMA DigitCounts ==
  ASSUME NEW c \in Digits
  PROVE  (CHOOSE n \in 1..10 : Digit10[n] = c) - 1 = DigitOf(c) /\ DigitOf(c) \in 0..9
<1> DEFINE D == Digit10
           k == CHOOSE n \in 1..10 : D[n] = c
           j == CHOOSE n \in 0..9 : D[n + 1] = c
<1>1. DigitOf(c) \in 0..9 /\ j = DigitOf(c)  BY DigitsAre
<1>2. \A m \in 1..10, n \in 1..10 : D[m] = D[n] => m = n
  BY DEF Digit10
<1>3. \E n \in 0..9 : D[n + 1] = c
  <2>1. c \in {D[n] : n \in 1..10}
    <3>1. DOMAIN D = 1..10  BY DEF Digit10
    <3>2. QED  BY <3>1 DEF Digits, ToSet
  <2>2. PICK n \in 1..10 : D[n] = c  BY <2>1
  <2>3. n - 1 \in 0..9 /\ (n - 1) + 1 = n  OBVIOUS
  <2>4. QED  BY <2>2, <2>3
<1>4. j \in 0..9 /\ D[j + 1] = c  BY <1>3
<1>4a. j \in 0..9  BY <1>4
<1> HIDE DEF j
<1>5. j + 1 \in 1..10  BY <1>4a
<1>6. k \in 1..10 /\ D[k] = c
  <2>1. \E n \in 1..10 : D[n] = c  BY <1>4, <1>5
  <2>2. QED  BY <2>1
<1> HIDE DEF k
<1>7. k = j + 1  BY <1>2, <1>4, <1>5, <1>6
<1>7a. k - 1 = DigitOf(c) /\ DigitOf(c) \in 0..9  BY <1>1, <1>4a, <1>7
<1>8. QED  BY <1>7a DEF k

LEMMA PrintsDigit ==
  ASSUME LogTypes, LogText, WidthDigit
  PROVE  Prints
<1> DEFINE c == message[pf.w]
           d == (CHOOSE n \in 1..10 : Digit10[n] = c) - 1
           b == (IF pf.before < 0 THEN 0 ELSE pf.before * 10) + d
           a == pf.after * 10 + d
<1>1. Other(Digits) /\ UNCHANGED tx
  BY DEF WidthDigit, Quiet, Digits
<1>2. pf' = IF pf.after < 0 THEN [pf EXCEPT !.w = pf.w + 1, !.state = "other", !.before = b]
            ELSE [pf EXCEPT !.w = pf.w + 1, !.state = "other", !.after = a]
  BY DEF WidthDigit, Next_w
<1>3. c \in Digits /\ pf \in Locals /\ tx = <<>> /\ given = <<>>  BY <1>1, OtherIs
<1>4. d = DigitOf(c) /\ d \in 0..9  BY <1>3, DigitCounts
<1>5. pf.before \in Int /\ pf.after \in Int  BY <1>3 DEF Locals
<1>6. "s" \notin Digits  BY DigitsAre
<1>7. PICK f \in arg.conversion :
        /\ AtConversion(f) /\ Parsing(f, pf) /\ Place(f, message, pf.w) /\ IsConversion(f)
        /\ pf.w \in 2..Span(f) /\ ~(pf.w = 2 /\ message[pf.w] \in {"0", "%"})
  BY <1>1, <1>3, <1>6, OtherIs
<1> HIDE DEF d
<1>8. a \in Int /\ b \in Int  BY <1>4, <1>5
<1>9. ASSUME pf.after < 0  PROVE Advances(pf, pf', "other", pf.zero, b, pf.after)
  BY <1>2, <1>3, <1>8, <1>9, AdvanceIs
<1>10. ASSUME ~(pf.after < 0)  PROVE Advances(pf, pf', "other", pf.zero, pf.before, a)
  BY <1>2, <1>3, <1>8, <1>10, AdvanceIs
<1> HIDE DEF a, b
<1>11. \/ pf.w - FlagEnd(f) \in 1..Len(f.width) /\ c = f.width[pf.w - FlagEnd(f)]
       \/ /\ pf.w - WidthEnd(f) \in 1..Len(f.rest) /\ c = f.rest[pf.w - WidthEnd(f)]
          /\ PointPassed(f, pf.w)
  <2>1. ~(f.zero /\ pf.w = 2) \/ message[2] = "0" \/ pf.w - FlagEnd(f) \in 1..Len(f.width)
         \/ pf.w - WidthEnd(f) \in 1..Len(f.rest) \/ pf.w = Span(f)
    BY <1>7 DEF Place
  <2>2. ~(f.zero /\ pf.w = 2)
    <3>1. Placed(f, message)  BY <1>7, MessageIs DEF AtConversion
    <3>2. f.zero => message[2] = "0"  BY <3>1 DEF Placed
    <3>3. QED  BY <3>2, <1>7
  <2>3. QED  BY <2>2, <1>3, <1>7, PlaceIs
<1>12. Parsing(f, pf')
  <2>1. CASE pf.w - FlagEnd(f) \in 1..Len(f.width) /\ c = f.width[pf.w - FlagEnd(f)]
    <3>1. pf.w <= WidthEnd(f) + 1
      BY <2>1, <1>7, Bounds
    <3>2. pf.after = -1  BY <3>1, <1>7, ParsingIs
    <3>3. Advances(pf, pf', "other", pf.zero, b, pf.after)  BY <3>2, <1>9
    <3>4. b = (IF pf.before < 0 THEN 0 ELSE pf.before * 10) + DigitOf(f.width[pf.w - FlagEnd(f)])
      BY <2>1, <1>4 DEF b
    <3>5. QED  BY <2>1, <3>3, <3>4, <1>3, <1>7, ParsesWidth DEF Advances
  <2>2. CASE /\ pf.w - WidthEnd(f) \in 1..Len(f.rest) /\ PointPassed(f, pf.w)
    <3>1. pf.after >= 0  BY <2>2, <1>7, ParsingIs
    <3>2. a >= 0  BY <3>1, <1>4, <1>5 DEF a
    <3>3. Advances(pf, pf', "other", pf.zero, pf.before, a)  BY <3>1, <1>5, <1>10
    <3>4. a >= -1  BY <3>2, <1>8
    <3>5. QED  BY <2>2, <3>2, <3>3, <3>4, <1>3, <1>7, ParsesRest DEF Advances
  <2>3. QED  BY <2>1, <2>2, <1>11
<1>13. pf' \in Locals  BY <1>9, <1>10 DEF Advances
<1>14. QED  BY <1>1, <1>3, <1>7, <1>12, <1>13, GoesOn

LEMMA PrintsPercent ==
  ASSUME LogTypes, LogText, LogPercent
  PROVE  Prints
<1>1. /\ Formatting /\ message[pf.w] = "%" /\ pf.state = "first" /\ tx' = <<"%">>
      /\ pf' = [pf EXCEPT !.w = pf.w + 1, !.state = "chars"]
  BY DEF LogPercent, C, Send, Next_w
<1>2. /\ pf \in Locals /\ given = <<>>
      /\ \/ AtEcho /\ pf.w = 2 /\ message[pf.w] = "s"
         \/ \E f \in arg.conversion : /\ AtConversion(f) /\ Parsing(f, pf) /\ Place(f, message, pf.w)
                                      /\ IsConversion(f)
  BY <1>1, WhereIn
<1>3. Advances(pf, pf', "chars", pf.zero, pf.before, pf.after)  BY <1>1, <1>2, AdvanceIs
<1>4. tx' \in Seq(LogChar)
  <2>1. "%" \in LogChar  BY DEF LogChar, Literals
  <2> HIDE DEF LogChar
  <2>2. QED  BY <2>1, <1>1
<1>5. ASSUME NEW f \in arg.conversion, AtConversion(f), Parsing(f, pf), Place(f, message, pf.w), IsConversion(f)
      PROVE  Prints
  <2>1. pf.w \in 2..Span(f) /\ pf.state = IF pf.w = 2 THEN "first" ELSE "other"  BY <1>5, ParsingIs
  <2>2. pf.w = 2  BY <2>1, <1>1
  <2>3. "%" \notin Digits \cup {".", "l"}  BY DigitsAre
  <2>4. pf.w = Span(f) /\ f.letter = "%"  BY <2>1, <2>3, <1>1, <1>5, PlaceIs
  <2>5. WithoutPrecision(f, arg.v, arg.s) = <<"%">>  BY <2>2, <2>4, <1>5, NothingIs
  <2>6. QED  BY <2>4, <2>5, <1>1, <1>2, <1>3, <1>4, <1>5, Converts
<1>6. QED  BY <1>1, <1>2, <1>5

LEMMA PrintsNothing ==
  ASSUME LogTypes, LogText, ConvertNothing
  PROVE  Prints
<1>1. /\ Other({"q", "%"}) /\ UNCHANGED tx /\ pf' = [pf EXCEPT !.w = pf.w + 1, !.state = "chars"]
  BY DEF ConvertNothing, Quiet, Next_w
<1>2. message[pf.w] \in {"q", "%"} /\ pf \in Locals /\ tx = <<>> /\ given = <<>>  BY <1>1, OtherIs
<1>3. Advances(pf, pf', "chars", pf.zero, pf.before, pf.after)  BY <1>1, <1>2, AdvanceIs
<1>4. PICK f \in arg.conversion :
        /\ AtConversion(f) /\ Parsing(f, pf) /\ Place(f, message, pf.w) /\ IsConversion(f)
        /\ pf.w \in 2..Span(f) /\ ~(pf.w = 2 /\ message[pf.w] \in {"0", "%"})
  BY <1>1, <1>2, OtherIs
<1>5. "%" \notin Digits \cup {".", "l"} /\ "q" \notin Digits \cup {".", "l"}  BY DigitsAre
<1>6. pf.w = Span(f) /\ f.letter = message[pf.w]  BY <1>2, <1>4, <1>5, PlaceIs
<1>7. ~(f.letter = "%" /\ Span(f) = 2)  BY <1>4, <1>6
<1>8. WithoutPrecision(f, arg.v, arg.s) = <<>>  BY <1>2, <1>4, <1>6, <1>7, NothingIs
<1>9. tx' = <<>> /\ tx' \in Seq(LogChar)  BY <1>1, <1>2
<1>10. QED  BY <1>2, <1>3, <1>4, <1>6, <1>8, <1>9, Converts

LEMMA PrintsInteger ==
  ASSUME LogTypes, LogText, ConvertInteger
  PROVE  Prints
<1> DEFINE c == message[pf.w]
           sign == c \in {"d", "i"} /\ arg.v >= Power(2)[LogWord - 1]
           v == IF sign THEN Power(2)[LogWord] - arg.v ELSE arg.v
           num == Numerals(v, LogBase(c), IF c = "X" THEN Upper ELSE Lower)
           minus == IF sign THEN <<"-">> ELSE <<>>
           fill == pf.before - Len(num) - Len(minus)
           prose == IF pf.zero THEN minus \o Repeat("0", fill) \o num
                              ELSE Repeat(" ", fill) \o minus \o num
<1>1. Other({"d", "i", "u", "o", "x", "X"}) /\ pf' = [pf EXCEPT !.w = pf.w + 1, !.state = "chars"]
  BY DEF ConvertInteger, Next_w
<1>1a. tx' = prose
  BY DEF ConvertInteger, Send
<1>2. /\ c \in {"d", "i", "u", "o", "x", "X"} /\ c \notin {"s", "c", "q", "%", ".", "l"}
      /\ pf \in Locals /\ given = <<>>
  BY <1>1, OtherIs
<1>3. Advances(pf, pf', "chars", pf.zero, pf.before, pf.after)  BY <1>1, <1>2, AdvanceIs
<1>4. PICK f \in arg.conversion :
        /\ AtConversion(f) /\ Parsing(f, pf) /\ Place(f, message, pf.w) /\ IsConversion(f)
        /\ pf.w \in 2..Span(f)
  BY <1>1, <1>2, OtherIs
<1>5. c \notin Digits \cup {".", "l"}  BY <1>2, DigitsAre
<1>6. pf.w = Span(f) /\ f.letter = c  BY <1>4, <1>5, PlaceIs
<1>7. c \in IntegerLetters  BY <1>2, <1>4, <1>6, LettersAre DEF IntegerLetters
<1>8. arg.v \in 0..(Power(2)[LogWord] - 1)  BY <1>4 DEF AtConversion
<1>9. sign <=> Negative(c, arg.v)
  <2>1. c # "i"  BY <1>7 DEF IntegerLetters
  <2>2. QED  BY <2>1 DEF Negative
<1>10. v = MagnitudeOf(c, arg.v) /\ minus = SignOf(c, arg.v)
  BY <1>9 DEF MagnitudeOf, SignOf
<1>11. num = IntegerDigits(c, arg.v)
  BY <1>7, <1>8, <1>10, IntegerIs DEF TableOf
<1>12. pf.before = Width(f, Span(f)) /\ (pf.zero <=> f.zero)
  <2>1. pf.zero = (f.zero /\ pf.w > 2) /\ pf.before = Width(f, pf.w)  BY <1>4, ParsingIs
  <2>2. f.zero => pf.w > 2
    <3>1. f.zero => FlagEnd(f) = 2  BY <1>4, Bounds
    <3>2. QED  BY <3>1, <1>4, <1>6, Bounds
  <2>3. QED  BY <2>1, <2>2, <1>6
<1>13. prose = IntegerText(f.zero, c, arg.v, Width(f, Span(f)))
  <2> DEFINE mm == minus
             nn == num
  <2>1. fill = Width(f, Span(f)) - Len(IntegerDigits(c, arg.v)) - Len(SignOf(c, arg.v))
    BY <1>10, <1>11, <1>12
  <2> HIDE DEF fill, num, minus
  <2>2. QED  BY <2>1, <1>10, <1>11, <1>12 DEF IntegerText
<1> HIDE DEF prose
<1>14. tx' = WithoutPrecision(f, arg.v, arg.s) /\ tx' \in Seq(LogChar)
  BY <1>1a, <1>4, <1>6, <1>7, <1>8, <1>13, IntegerTextIs
<1>15. QED  BY <1>2, <1>3, <1>4, <1>6, <1>14, Converts

LEMMA PrintsText ==
  ASSUME LogTypes, LogText, ConvertText
  PROVE  Prints
<1> DEFINE c == message[pf.w]
           s == IF c = "c" THEN <<Head(arg.s)>> ELSE arg.s
           prose == Repeat(" ", pf.before - Len(s)) \o s
<1>1. Other({"c", "s"}) /\ pf' = [pf EXCEPT !.w = pf.w + 1, !.state = "chars"] /\ tx' = prose
  BY DEF ConvertText, Send, Next_w
<1>2. /\ c \in {"c", "s"} /\ pf \in Locals /\ given = <<>> /\ arg.s \in Seq(LogChar)
      /\ \/ AtEcho /\ pf.w = 2 /\ c = "s" /\ pf.before = -1
         \/ \E f \in arg.conversion :
              /\ AtConversion(f) /\ Parsing(f, pf) /\ Place(f, message, pf.w) /\ IsConversion(f)
              /\ pf.w \in 2..Span(f)
  BY <1>1, OtherIs
<1>3. Advances(pf, pf', "chars", pf.zero, pf.before, pf.after)  BY <1>1, <1>2, AdvanceIs
<1>4. ASSUME AtEcho, pf.w = 2, c = "s", pf.before = -1
      PROVE  Prints
  <2>1. s = arg.s /\ Len(s) \in Nat  BY <1>2, <1>4
  <2>2. Repeat(" ", pf.before - Len(s)) = <<>>
    <3> DEFINE r == pf.before - Len(s)
    <3>1. r \in Int /\ r <= 0  BY <2>1, <1>4
    <3> HIDE DEF r
    <3>2. Repeat(" ", r) = <<>>  BY <3>1, RepeatIs
    <3>3. QED  BY <3>2 DEF r
  <2>3. tx' = arg.s
    <3>1. <<>> \o arg.s = arg.s
      <4> HIDE DEF LogChar
      <4> QED  BY <1>2
    <3>2. QED  BY <2>1, <2>2, <3>1, <1>1
  <2>4. given \o tx' = arg.s
    <3>1. <<>> \o arg.s = arg.s
      <4> HIDE DEF LogChar
      <4> QED  BY <1>2
    <3>2. QED  BY <2>3, <3>1, <1>2
  <2>5. pf'.w = 3 /\ pf'.state = "chars" /\ pf' \in Locals  BY <1>3, <1>4 DEF Advances
  <2>6. InEcho(message, arg, pf', given \o tx')  BY <2>4, <2>5, <1>4 DEF InEcho, AtEcho
  <2>7. QED  BY <2>3, <2>5, <2>6, <1>2 DEF Prints, Printing
<1>5. ASSUME NEW f \in arg.conversion,
             AtConversion(f), Parsing(f, pf), Place(f, message, pf.w), IsConversion(f), pf.w \in 2..Span(f)
      PROVE  Prints
  <2>1. c \notin Digits \cup {".", "l"}  BY <1>2, DigitsAre
  <2>2. pf.w = Span(f) /\ f.letter = c  BY <2>1, <1>5, PlaceIs
  <2>3. pf.before = Width(f, Span(f))  BY <2>2, <1>5, ParsingIs
  <2>4. arg.s # <<>>  BY <1>5 DEF AtConversion
  <2>5. /\ prose = WithoutPrecision(f, arg.v, arg.s) /\ WithoutPrecision(f, arg.v, arg.s) \in Seq(LogChar)
    BY <2>2, <2>3, <2>4, <1>2, <1>5, TextIs
  <2> HIDE DEF prose
  <2>6. QED  BY <2>2, <2>5, <1>1, <1>2, <1>3, <1>5, Converts
<1>6. QED  BY <1>2, <1>4, <1>5

\* Where a call begins, and that nothing else is under way then.
LEMMA Starting ==
  ASSUME LogInv, LogIdle, NEW format, NEW a, CallPrintf(format, a),
         format \in Seq(LogChar), a.s \in Seq(LogChar), Printing(format, a, Begin, <<>>)
  PROVE  LogInv'
<1>1. /\ message' = format /\ arg' = a /\ pf' = Begin /\ level' = level /\ tx' = tx
      /\ ready' = ready /\ raced' = raced /\ fifo' = fifo /\ given' = given /\ dropped' = dropped
      /\ races' = races /\ beat' = beat
  BY DEF CallPrintf, Wire, Irq
<1>2. message = <<>> /\ given = <<>> /\ tx = <<>> /\ level \in Level
  BY DEF LogIdle, LogInv, LogTypes
<1>3. tx' = <<>> /\ given' = <<>> /\ given' \o tx' = <<>>
  BY <1>1, <1>2
<1>4. Begin \in Locals  BY DEF Begin, Locals
<1>5. LogTypes'
  <2>1. <<>> \in Seq(LogChar)
    <3> HIDE DEF LogChar
    <3> QED  OBVIOUS
  <2>2. QED  BY <2>1, <1>1, <1>2, <1>3, <1>4 DEF LogTypes
<1>6. SpaceSeen'
  BY <1>1 DEF LogInv, SpaceSeen
<1>7. BeatCounted'
  BY <1>1 DEF LogInv, BeatCounted, HeartbeatCounts
<1>8. LogText'
  BY <1>1, <1>3 DEF LogText
<1>9. QED  BY <1>5, <1>6, <1>7, <1>8 DEF LogInv

LEMMA LogStart == LogInit => LogInv
<1> SUFFICES ASSUME LogInit PROVE LogInv  OBVIOUS
<1>1. /\ level \in Level /\ message = <<>> /\ arg = NoArg /\ pf = Begin /\ tx = <<>>
      /\ ready = FALSE /\ fifo = 0 /\ given = <<>> /\ dropped = 0 /\ races = 0
      /\ beat = [count |-> 0, sec |-> 0, ticks |-> 0]
  BY DEF LogInit
<1>2. LogTypes
  <2>1. <<>> \in Seq(LogChar) /\ arg.s = <<>>
    <3> HIDE DEF LogChar
    <3> QED  BY <1>1 DEF NoArg
  <2>2. pf \in Locals  BY <1>1 DEF Begin, Locals
  <2>3. QED  BY <1>1, <2>1, <2>2 DEF LogTypes
<1>3. SpaceSeen
  <2>1. Depth \in Nat  BY LogAssumption
  <2>2. QED  BY <1>1, <2>1 DEF SpaceSeen
<1>4. BeatCounted
  <2>1. Interval \in Nat  BY LogAssumption
  <2>2. QED  BY <1>1, <2>1 DEF BeatCounted, HeartbeatCounts
<1>5. LogText  BY <1>1 DEF LogText
<1>6. QED  BY <1>2, <1>3, <1>4, <1>5 DEF LogInv

LEMMA ControlRegisterIs ==
  ASSUME LogInv
  PROVE  /\ ControlRegister("Startup") \in Seq(LogChar) /\ Len(ControlRegister("Startup")) = 2
         /\ \A n \in 1..2 : ControlRegister("Startup")[n] # "%"
<1> DEFINE t == ToString(Depth - fifo)
           u == "Startup"
           s == <<u, t>>
<1>1. Depth \in Nat /\ fifo \in 0..Depth  BY LogAssumption DEF LogInv, SpaceSeen
<1>2. Depth - fifo \in 0..Depth  BY <1>1
<1>3. t \in LogChar /\ t # "%"  BY <1>2, NumbersPrinted DEF LogChar
<1>4. u \in LogChar /\ u # "%"  BY DEF LogChar, Literals
<1> HIDE DEF t, u, LogChar
<1>5. s \in Seq(LogChar) /\ Len(s) = 2 /\ s[1] # "%" /\ s[2] # "%"  BY <1>3, <1>4
<1>6. ControlRegister("Startup") = s  BY DEF ControlRegister, s, t, u
<1> HIDE DEF s
<1>7. \A n \in 1..2 : n = 1 \/ n = 2  OBVIOUS
<1>8. QED  BY <1>5, <1>6, <1>7

LEMMA StartsInfo == LogInv /\ StartupInfo => LogInv'
<1> SUFFICES ASSUME LogInv, StartupInfo PROVE LogInv'  OBVIOUS
<1> DEFINE s == ControlRegister("Startup")
           a == [NoArg EXCEPT !.s = s]
<1>1. LogIdle /\ CallPrintf(s, a)  BY DEF StartupInfo
<1>2. s \in Seq(LogChar) /\ Len(s) = 2 /\ \A n \in 1..2 : s[n] # "%"  BY ControlRegisterIs
<1> HIDE DEF s
<1>3. a.s = s /\ a.conversion = {}  BY DEF NoArg
<1> HIDE DEF a
<1>4. InText(s, a, Begin, <<>>)
  <2>1. Begin.w = 1 /\ Begin.state = "chars"  BY DEF Begin
  <2>2. SubSeq(s, 1, 0) = <<>>  BY <1>2
  <2>3. 1 <= Len(s) + 1 /\ 1 - 1 = 0  BY <1>2
  <2>4. QED  BY <1>2, <1>3, <2>1, <2>2, <2>3 DEF InText
<1>5. QED  BY <1>1, <1>2, <1>3, <1>4, Starting DEF Printing

LEMMA StartsBoot == LogInv /\ PrintBoot => LogInv'
<1> SUFFICES ASSUME LogInv, PrintBoot PROVE LogInv'  OBVIOUS
<1>1. PICK f \in Conversion[level] : \E v \in IF f.letter \in {"d", "u", "o", "x", "X"} THEN Number ELSE {0} :
         CallPrintf(Text2(f) \o <<"\n">>, [conversion |-> {f}, v |-> v, s |-> <<"h", "i">>])
  BY DEF PrintBoot
<1>2. PICK v \in IF f.letter \in {"d", "u", "o", "x", "X"} THEN Number ELSE {0} :
         CallPrintf(Text2(f) \o <<"\n">>, [conversion |-> {f}, v |-> v, s |-> <<"h", "i">>])
  BY <1>1
<1> DEFINE hi == <<"h", "i">>
           a == [conversion |-> {f}, v |-> v, s |-> hi]
           m == Text2(f) \o <<"\n">>
<1>3. LogIdle /\ level \in Level  BY DEF PrintBoot, LogInv, LogTypes
<1>4. IsConversion(f)  BY <1>3, LogAssumption
<1>5. v \in 0..(Power(2)[LogWord] - 1)
  <2> DEFINE p == Power(2)[LogWord]
  <2>1. Number \subseteq 0..(p - 1) /\ LogWord \in Nat /\ 2 \in Nat \ {0}  BY LogAssumption
  <2>2. p \in Nat \ {0}
    <3>1. Power(2) \in [Nat -> Nat \ {0}]  BY <2>1, PowerStep
    <3>2. QED  BY <2>1, <3>1
  <2> HIDE DEF p
  <2>3. v \in 0..(p - 1)  BY <2>1, <2>2
  <2>4. QED  BY <2>3 DEF p
<1>6. hi \in Seq(LogChar) /\ hi # <<>>
  <2>1. "h" \in LogChar /\ "i" \in LogChar  BY DEF LogChar, Literals
  <2> HIDE DEF LogChar
  <2>2. QED  BY <2>1
<1>7. CallPrintf(m, a)  BY <1>2
<1> HIDE DEF hi
<1>8. a.conversion = {f} /\ a.v = v /\ a.s = hi  OBVIOUS
<1> HIDE DEF a
<1>9. m \in Seq(LogChar)  BY <1>4, MessageIs DEF Placed
<1>10. Begin.w = 1 /\ Begin.state = "chars"  BY DEF Begin
<1>11. InConversion(m, a, Begin, <<>>, f)
  BY <1>4, <1>5, <1>6, <1>8, <1>10 DEF InConversion
<1>12. Printing(m, a, Begin, <<>>)  BY <1>8, <1>11 DEF Printing
<1> HIDE DEF m
<1>13. QED  BY <1>3, <1>6, <1>7, <1>8, <1>9, <1>12, Starting

LEMMA EchoIs ==
  ASSUME NEW t \in Written, Len(t) >= 2
  PROVE  Echo(t) \in Seq(LogChar)
<1> DEFINE length == IF EchoLen > Len(t) THEN Len(t) ELSE EchoLen
           zeros == {n \in 1..length - 1 : t[n] = "NUL"}
           first == Min(zeros)
           size == IF zeros = {} THEN length + 1 ELSE first - 1
           char == [n \in 1..size |->
                      CASE n = length -> "\n" [] n = length + 1 -> "\r"
                        [] t[n] = "EOT" -> "D" [] OTHER -> t[n]]
<1>1. t \in Seq(STRING) /\ EchoLen \in Nat \ {0}  BY LogAssumption
<1>2. length \in Nat /\ length <= Len(t) /\ length >= 1  BY <1>1
<1> HIDE DEF length
<1>3. zeros # {} => first \in zeros /\ first \in Nat
  <2>1. ASSUME zeros # {} PROVE \E x \in zeros : \A y \in zeros : x <= y
    <3>1. zeros \subseteq Nat  BY <1>2
    <3> HIDE DEF zeros
    <3>2. QED  BY <2>1, <3>1, Smallest
  <2>2. zeros \subseteq Nat  BY <1>2
  <2> HIDE DEF zeros
  <2>3. QED  BY <2>1, <2>2 DEF Min
<1>4. size \in Nat /\ size <= length + 1
  <2>1. zeros # {} => first \in 1..length - 1  BY <1>3
  <2> HIDE DEF first, zeros
  <2>2. QED  BY <2>1, <1>2
<1>5. "\n" \in LogChar /\ "\r" \in LogChar /\ "D" \in LogChar  BY DEF LogChar, Literals
<1> HIDE DEF size
<1>6. ASSUME NEW n \in 1..size PROVE char[n] \in LogChar
  <2>1. CASE n = length  BY <2>1, <1>5
  <2>2. CASE n # length /\ n = length + 1  BY <2>2, <1>2, <1>5
  <2>3. CASE n # length /\ n # length + 1
    <3>1. n \in 1..Len(t)  BY <2>3, <1>2, <1>4
    <3>2. t[n] \in STRING  BY <3>1, <1>1
    <3>3. CASE t[n] = "EOT"  BY <2>3, <3>3, <1>5
    <3>4. CASE t[n] # "EOT"
      <4>1. t[n] \in LogChar  BY <3>2, <3>4 DEF LogChar
      <4> HIDE DEF LogChar
      <4>2. QED  BY <2>3, <3>4, <4>1
    <3>5. QED  BY <3>3, <3>4
  <2>4. QED  BY <2>1, <2>2, <2>3
<1>7. char \in Seq(LogChar)
  <2> HIDE DEF LogChar
  <2>1. char \in [1..size -> LogChar]  BY <1>6
  <2> HIDE DEF char
  <2>2. QED  BY <2>1, <1>4
<1>8. Echo(t) = char  BY DEF Echo, size, length
<1>9. QED  BY <1>7, <1>8

LEMMA StartsEcho == LogInv /\ WriteEcho => LogInv'
<1> SUFFICES ASSUME LogInv, WriteEcho PROVE LogInv'  OBVIOUS
<1>1. PICK t \in Written : Len(t) >= 2 /\ CallPrintf(<<"%", "s">>, [NoArg EXCEPT !.s = Echo(t)])
  BY DEF WriteEcho
<1> DEFINE m == <<"%", "s">>
           e == Echo(t)
           a == [NoArg EXCEPT !.s = e]
<1>2. e \in Seq(LogChar)  BY <1>1, EchoIs
<1>3. LogIdle /\ CallPrintf(m, a)  BY <1>1 DEF WriteEcho
<1> HIDE DEF e
<1>4. a.s = e /\ a.conversion = {}  BY DEF NoArg
<1> HIDE DEF a
<1>5. m \in Seq(LogChar)
  <2>1. "%" \in LogChar /\ "s" \in LogChar  BY DEF LogChar, Literals
  <2> HIDE DEF LogChar
  <2>2. QED  BY <2>1
<1>6. InEcho(m, a, Begin, <<>>)  BY <1>4 DEF InEcho, Begin
<1>7. QED  BY <1>2, <1>3, <1>4, <1>5, <1>6, Starting DEF Printing

\* A step of alt_log_private_printf through its format.
Walk ==
  \/ LogPlain \/ LogOpens \/ LeadingZero \/ LogPercent \/ Point \/ WidthDigit \/ LongFlag
  \/ ConvertInteger \/ ConvertText \/ ConvertNothing

LEMMA WalkPrints ==
  ASSUME LogTypes, LogText, Walk
  PROVE  Prints /\ Formatting
<1>1. CASE LogPlain        BY <1>1, PrintsPlain DEF LogPlain
<1>2. CASE LogOpens        BY <1>2, PrintsOpens DEF LogOpens, C
<1>3. CASE LeadingZero     BY <1>3, PrintsZero DEF LeadingZero, C
<1>4. CASE LogPercent      BY <1>4, PrintsPercent DEF LogPercent, C
<1>5. CASE Point           BY <1>5, PrintsPoint DEF Point, Other, C
<1>6. CASE WidthDigit      BY <1>6, PrintsDigit DEF WidthDigit, Other, C
<1>7. CASE LongFlag        BY <1>7, PrintsLong DEF LongFlag, Other, C
<1>8. CASE ConvertInteger  BY <1>8, PrintsInteger DEF ConvertInteger, Other, C
<1>9. CASE ConvertText     BY <1>9, PrintsText DEF ConvertText, Other, C
<1>10. CASE ConvertNothing BY <1>10, PrintsNothing DEF ConvertNothing, Other, C
<1>11. QED
  BY <1>1, <1>2, <1>3, <1>4, <1>5, <1>6, <1>7, <1>8, <1>9, <1>10 DEF Walk

LEMMA WalkLeaves ==
  ASSUME Walk
  PROVE  UNCHANGED level /\ UNCHANGED TheCall /\ UNCHANGED Wire /\ UNCHANGED Irq
BY DEF Walk, LogPlain, LogOpens, LeadingZero, LogPercent, Point, WidthDigit, LongFlag,
       ConvertInteger, ConvertText, ConvertNothing, Quiet, Send

LEMMA WalkKeeps == LogInv /\ Walk => LogInv'
<1> SUFFICES ASSUME LogInv, Walk PROVE LogInv'  OBVIOUS
<1>1. Prints /\ Formatting  BY WalkPrints DEF LogInv
<1>2. /\ level' = level /\ message' = message /\ arg' = arg /\ ready' = ready /\ raced' = raced
      /\ fifo' = fifo /\ given' = given /\ dropped' = dropped /\ races' = races /\ beat' = beat
  BY WalkLeaves DEF TheCall, Wire, Irq
<1>3. message # <<>> /\ tx = <<>>  BY <1>1 DEF Formatting
<1>4. /\ pf' \in Locals /\ tx' \in Seq(LogChar) /\ Printing(message, arg, pf', given \o tx')
  BY <1>1 DEF Prints
<1>5. LogTypes'  BY <1>2, <1>3, <1>4 DEF LogInv, LogTypes
<1>6. SpaceSeen'  BY <1>2, <1>3 DEF LogInv, SpaceSeen
<1>7. BeatCounted'  BY <1>2 DEF LogInv, BeatCounted, HeartbeatCounts
<1>8. LogText'  BY <1>2, <1>3, <1>4 DEF LogText
<1>9. QED  BY <1>5, <1>6, <1>7, <1>8 DEF LogInv

\* The walk ends past the end of the message: all of it is printed.
LEMMA CallReturns == LogInv /\ PrintfReturns => LogInv'
<1> SUFFICES ASSUME LogInv, PrintfReturns PROVE LogInv'  OBVIOUS
<1>1. /\ level' = level /\ message' = <<>> /\ arg' = arg /\ pf' = pf /\ tx' = tx /\ ready' = ready
      /\ raced' = raced
      /\ fifo' = fifo /\ given' = given /\ dropped' = dropped /\ races' = races /\ beat' = beat
  BY DEF PrintfReturns, Wire, Irq
<1>2. message # <<>> /\ tx = <<>> /\ pf.w > Len(message)  BY DEF PrintfReturns
<1>3. given \in Seq(LogChar) /\ message \in Seq(LogChar) /\ pf.w \in Nat /\ Len(message) \in Nat
  BY DEF LogInv, LogTypes, Locals
<1>4. given \o tx = given
  <2> HIDE DEF LogChar
  <2> QED  BY <1>2, <1>3
<1>5. Printing(message, arg, pf, given)  BY <1>2, <1>4 DEF LogInv, LogText
<1>6. ASSUME InText(message, arg, pf, given)  PROVE given = WholeOf(arg)
  <2>1. pf.w = Len(message) + 1  BY <1>6, <1>2, <1>3 DEF InText
  <2>2. pf.w - 1 = Len(message)  BY <2>1, <1>3
  <2>3. SubSeq(message, 1, Len(message)) = message
    <3> HIDE DEF LogChar
    <3> QED  BY <1>3
  <2>4. given = message /\ message = arg.s /\ arg.conversion = {}  BY <2>2, <2>3, <1>6 DEF InText
  <2>5. QED  BY <2>4 DEF WholeOf
<1>7. ASSUME InEcho(message, arg, pf, given)  PROVE given = WholeOf(arg)
  <2>1. Len(message) = 2  BY <1>7 DEF InEcho
  <2>2. pf.w # 1 /\ pf.w # 2  BY <2>1, <1>2
  <2>3. given = arg.s /\ arg.conversion = {}  BY <2>2, <1>7 DEF InEcho
  <2>4. QED  BY <2>3 DEF WholeOf
<1>8. ASSUME NEW f \in arg.conversion, InConversion(message, arg, pf, given, f)
      PROVE  given = WholeOf(arg)
  <2>1. IsConversion(f) /\ message = Text2(f) \o <<"\n">> /\ arg.conversion = {f}  BY <1>8 DEF InConversion
  <2>2. Len(message) = Span(f) + 1 /\ Span(f) \in Nat  BY <2>1, MessageIs DEF Placed
  <2>3. pf.w # 1 /\ pf.w # Span(f) + 1 /\ pf.w \notin 2..Span(f)  BY <2>2, <1>2, <1>3
  <2>4. ~Parsing(f, pf)  BY <2>3, ParsingIs
  <2>5. given = WithoutPrecision(f, arg.v, arg.s) \o <<"\n">>  BY <2>3, <2>4, <1>8 DEF InConversion
  <2>6. (CHOOSE g \in arg.conversion : TRUE) = f /\ arg.conversion # {}  BY <2>1
  <2>7. WholeOf(arg) = WithoutPrecision(CHOOSE g \in arg.conversion : TRUE, arg.v, arg.s) \o <<"\n">>
    BY <2>6, Zenon DEF WholeOf
  <2>8. QED  BY <2>5, <2>6, <2>7, Zenon
<1>9. given = WholeOf(arg)  BY <1>5, <1>6, <1>7, <1>8 DEF Printing
<1>10. LogTypes'
  <2>1. <<>> \in Seq(LogChar)
    <3> HIDE DEF LogChar
    <3> QED  OBVIOUS
  <2>2. QED  BY <2>1, <1>1, <1>2 DEF LogInv, LogTypes
<1>11. SpaceSeen'  BY <1>1 DEF LogInv, SpaceSeen
<1>12. BeatCounted'  BY <1>1 DEF LogInv, BeatCounted, HeartbeatCounts
<1>13. LogText'
  <2>1. WholeOf(arg)' = WholeOf(arg)  BY <1>1 DEF WholeOf, WithoutPrecision
  <2>2. QED  BY <2>1, <1>1, <1>9 DEF LogText
<1>14. QED  BY <1>10, <1>11, <1>12, <1>13 DEF LogInv

\* What a step leaves of a call.
LEMMA CallKept ==
  ASSUME LogTypes, LogText, UNCHANGED <<level, message, arg, pf>>, tx' \in Seq(LogChar),
         given' \in Seq(LogChar), given' \o tx' = given \o tx, message # <<>>
  PROVE  LogTypes' /\ LogText'
<1>1. LogTypes'  BY DEF LogTypes
<1>2. LogText'  BY DEF LogText
<1>3. QED  BY <1>1, <1>2

LEMMA Untouched ==
  ASSUME LogTypes, LogText, UNCHANGED <<level, message, arg, pf, tx, given>>
  PROVE  LogTypes' /\ LogText'
<1>1. LogTypes'  BY DEF LogTypes
<1>2. WholeOf(arg)' = WholeOf(arg)  BY DEF WholeOf, WithoutPrecision
<1>3. LogText'  BY <1>2 DEF LogText
<1>4. QED  BY <1>1, <1>3

\* The character that is written was the next to give.
LEMMA OneGiven ==
  ASSUME NEW S, NEW s \in Seq(S), NEW t \in Seq(S), t # <<>>
  PROVE  /\ Append(s, Head(t)) \in Seq(S) /\ Tail(t) \in Seq(S)
         /\ Append(s, Head(t)) \o Tail(t) = s \o t
<1> DEFINE a == Append(s, Head(t))
           b == Tail(t)
           r == a \o b
           k == s \o t
<1>1. /\ a \in Seq(S) /\ Len(a) = Len(s) + 1 /\ Len(s) \in Nat /\ Len(t) \in Nat \ {0}
      /\ a[Len(s) + 1] = t[1] /\ \A n \in 1..Len(s) : a[n] = s[n]
  OBVIOUS
<1>2. b \in Seq(S) /\ Len(b) = Len(t) - 1 /\ \A n \in 1..Len(t) - 1 : b[n] = t[n + 1]
  OBVIOUS
<1> HIDE DEF a, b
<1>3. Joins(S, a, b, r) /\ Joins(S, s, t, k)  BY <1>1, <1>2, Joined
<1> HIDE DEF r, k
<1>4. r \in Seq(S) /\ k \in Seq(S) /\ Len(r) = Len(k) /\ Len(k) = Len(s) + Len(t)
  BY <1>1, <1>2, <1>3 DEF Joins
<1>5. ASSUME NEW n \in 1..Len(s) + Len(t) PROVE r[n] = k[n]
  <2>1. CASE n \in 1..Len(s)
    BY <1>1, <1>3, <2>1 DEF Joins
  <2>2. CASE n = Len(s) + 1
    <3>1. n \in 1..Len(a) /\ 1 \in 1..Len(t)  BY <1>1, <2>2
    <3>2. r[n] = a[n]  BY <1>3, <3>1 DEF Joins
    <3>3. k[n] = t[1]  BY <1>3, <3>1, <2>2 DEF Joins
    <3>4. QED  BY <3>2, <3>3, <1>1, <2>2
  <2>3. CASE n > Len(s) + 1
    <3> DEFINE j == n - Len(s) - 1
    <3>1. j \in 1..Len(b) /\ n = Len(a) + j /\ j + 1 \in 1..Len(t) /\ n = Len(s) + (j + 1)
          /\ j \in 1..Len(t) - 1
      BY <1>1, <1>2, <2>3
    <3> HIDE DEF j
    <3>2. r[Len(a) + j] = b[j]  BY <1>3, <3>1 DEF Joins
    <3>3. k[Len(s) + (j + 1)] = t[j + 1]  BY <1>3, <3>1 DEF Joins
    <3>4. QED  BY <3>1, <3>2, <3>3, <1>2
  <2>4. QED  BY <1>1, <2>1, <2>2, <2>3
<1>6. r = k  BY <1>4, <1>5
<1>7. QED  BY <1>1, <1>2, <1>6 DEF r, k, a, b

LEMMA SpaceTested == LogInv /\ TxTest => LogInv'
<1> SUFFICES ASSUME LogInv, TxTest PROVE LogInv'  OBVIOUS
<1>1. UNCHANGED <<level, message, arg, pf, tx, given>> /\ beat' = beat
  BY DEF TxTest, TheCall, Irq
<1>2. LogTypes' /\ LogText'  BY <1>1, Untouched DEF LogInv
<1>3. SpaceSeen'  BY DEF TxTest, LogInv, SpaceSeen
<1>4. BeatCounted'  BY <1>1 DEF LogInv, BeatCounted, HeartbeatCounts
<1>5. QED  BY <1>2, <1>3, <1>4 DEF LogInv

LEMMA CharacterWritten == LogInv /\ TxWrite => LogInv'
<1> SUFFICES ASSUME LogInv, TxWrite PROVE LogInv'  OBVIOUS
<1>1. /\ ready /\ ready' = FALSE /\ tx' = Tail(tx) /\ given' = Append(given, Head(tx))
      /\ UNCHANGED <<level, message, arg, pf>> /\ beat' = beat
      /\ IF fifo < Depth THEN fifo' = fifo + 1 /\ dropped' = dropped
                         ELSE dropped' = dropped + 1 /\ fifo' = fifo
      /\ races' = IF raced THEN races + 1 ELSE races
  BY DEF TxWrite, TheCall, Irq
<1>2. tx # <<>> /\ tx \in Seq(LogChar) /\ given \in Seq(LogChar) /\ message # <<>>
  BY <1>1 DEF LogInv, SpaceSeen, LogTypes
<1>3. tx' \in Seq(LogChar) /\ given' \in Seq(LogChar) /\ given' \o tx' = given \o tx
  BY <1>1, <1>2, OneGiven
<1>4. LogTypes' /\ LogText'  BY <1>1, <1>2, <1>3, CallKept DEF LogInv
<1>5. SpaceSeen'
  <2>1. fifo \in 0..Depth /\ dropped \in Nat /\ races \in Nat /\ (raced \/ fifo < Depth) /\ dropped <= races
        /\ Depth \in Nat
    BY <1>1, LogAssumption DEF LogInv, SpaceSeen
  <2>2. CASE raced  BY <1>1, <2>1, <2>2 DEF SpaceSeen
  <2>3. CASE ~raced  BY <1>1, <2>1, <2>3 DEF SpaceSeen
  <2>4. QED  BY <2>2, <2>3
<1>6. BeatCounted'  BY <1>1 DEF LogInv, BeatCounted, HeartbeatCounts
<1>7. QED  BY <1>4, <1>5, <1>6 DEF LogInv

LEMMA HostOrHandler == LogInv /\ (HostReads \/ HandlerWrites) => LogInv'
<1> SUFFICES ASSUME LogInv, HostReads \/ HandlerWrites PROVE LogInv'  OBVIOUS
<1>1. UNCHANGED <<level, message, arg, pf, tx, given>> /\ beat' = beat
  BY DEF HostReads, HandlerWrites, TheCall, Irq
<1>2. LogTypes' /\ LogText'  BY <1>1, Untouched DEF LogInv
<1>3. SpaceSeen'
  <2>1. Depth \in Nat  BY LogAssumption
  <2>2. CASE HostReads  BY <2>1, <2>2 DEF HostReads, LogInv, SpaceSeen
  <2>3. CASE HandlerWrites  BY <2>1, <2>3 DEF HandlerWrites, LogInv, SpaceSeen
  <2>4. QED  BY <2>2, <2>3
<1>4. BeatCounted'  BY <1>1 DEF LogInv, BeatCounted, HeartbeatCounts
<1>5. QED  BY <1>2, <1>3, <1>4 DEF LogInv

\* A handler leaves the call alone; the heartbeat wraps at Interval exactly.
LEMMA Interrupted == LogInv /\ (Report \/ IsrReport \/ Heartbeat) => LogInv'
<1> SUFFICES ASSUME LogInv, Report \/ IsrReport \/ Heartbeat PROVE LogInv'  OBVIOUS
<1>1. /\ UNCHANGED <<level, message, arg, pf, tx, given, ready, raced, fifo, dropped, races>>
  BY DEF Report, IsrReport, Heartbeat, InterruptLogs, TheCall, Wire
<1>2. LogTypes' /\ LogText'  BY <1>1, Untouched DEF LogInv
<1>3. SpaceSeen'  BY <1>1 DEF LogInv, SpaceSeen
<1>4. BeatCounted'
  <2>1. CASE Report \/ IsrReport
    BY <2>1 DEF Report, IsrReport, LogInv, BeatCounted, HeartbeatCounts
  <2>2. CASE Heartbeat
    <3> DEFINE k == Interval + 1
               x == beat.sec
               c == beat.count
    <3>1. /\ x \in Nat /\ c \in 0..Interval /\ beat.ticks \in Nat /\ beat.ticks = x * k + c
          /\ Interval \in Nat
      BY LogAssumption DEF LogInv, BeatCounted, HeartbeatCounts
    <3>2. CASE c + 1 > Interval
      <4>1. beat' = [count |-> 0, sec |-> x + 1, ticks |-> beat.ticks + 1]
        BY <2>2, <3>2 DEF Heartbeat
      <4>2. c = Interval  BY <3>1, <3>2
      <4>3. beat.ticks + 1 = (x + 1) * k + 0
        <5>1. c + 1 = k  BY <4>2
        <5>2. k \in Nat  BY <3>1
        <5> HIDE DEF k, x, c
        <5>3. (x + 1) * k = x * k + k /\ x * k \in Nat  BY <3>1, <5>2
        <5>4. c \in Nat  BY <3>1
        <5>5. QED  BY <3>1, <5>1, <5>2, <5>3, <5>4
      <4>4. x + 1 \in Nat /\ 0 \in 0..Interval /\ beat.ticks + 1 \in Nat  BY <3>1
      <4> HIDE DEF x, k, c
      <4>5. QED  BY <4>1, <4>3, <4>4 DEF BeatCounted, HeartbeatCounts, k
    <3>3. CASE ~(c + 1 > Interval)
      <4>1. beat' = [beat EXCEPT !.count = c + 1, !.ticks = beat.ticks + 1]
        BY <2>2, <3>3 DEF Heartbeat
      <4>2. beat \in [count : 0..Interval, sec : Nat, ticks : Nat]
        BY DEF LogInv, BeatCounted
      <4>3. c + 1 \in 0..Interval /\ beat.ticks + 1 \in Nat  BY <3>1, <3>3
      <4>4. beat.ticks + 1 = x * k + (c + 1)
        <5>1. k \in Nat  BY <3>1
        <5> HIDE DEF k, x, c
        <5>2. x * k \in Nat  BY <3>1, <5>1
        <5>3. c \in Nat  BY <3>1
        <5>4. QED  BY <3>1, <5>2, <5>3
      <4>5. /\ beat' \in [count : 0..Interval, sec : Nat, ticks : Nat]
            /\ beat'.sec = x /\ beat'.count = c + 1 /\ beat'.ticks = beat.ticks + 1
        BY <4>1, <4>2, <4>3
      <4> HIDE DEF x, k, c
      <4>6. QED  BY <4>4, <4>5 DEF BeatCounted, HeartbeatCounts, k
    <3>4. QED  BY <3>2, <3>3
  <2>3. QED  BY <2>1, <2>2
<1>5. QED  BY <1>2, <1>3, <1>4 DEF LogInv

LEMMA LogStep == LogInv /\ [LogNext]_logging => LogInv'
<1> SUFFICES ASSUME LogInv, [LogNext]_logging PROVE LogInv'  OBVIOUS
<1>1. CASE StartupInfo  BY <1>1, StartsInfo
<1>2. CASE PrintBoot  BY <1>2, StartsBoot
<1>3. CASE WriteEcho  BY <1>3, StartsEcho
<1>4. CASE Walk  BY <1>4, WalkKeeps
<1>5. CASE PrintfReturns  BY <1>5, CallReturns
<1>6. CASE TxTest  BY <1>6, SpaceTested
<1>7. CASE TxWrite  BY <1>7, CharacterWritten
<1>8. CASE HostReads \/ HandlerWrites  BY <1>8, HostOrHandler
<1>9. CASE Report \/ IsrReport \/ Heartbeat  BY <1>9, Interrupted
<1>10. CASE UNCHANGED logging
  <2>1. /\ UNCHANGED <<level, message, arg, pf, tx, given, ready, raced, fifo, dropped, races, beat>>
    BY <1>10 DEF logging
  <2>2. LogTypes' /\ LogText'  BY <2>1, Untouched DEF LogInv
  <2>3. SpaceSeen' /\ BeatCounted'
    BY <2>1 DEF LogInv, SpaceSeen, BeatCounted, HeartbeatCounts
  <2>4. QED  BY <2>2, <2>3 DEF LogInv
<1>11. QED
  BY <1>1, <1>2, <1>3, <1>4, <1>5, <1>6, <1>7, <1>8, <1>9, <1>10 DEF LogNext, Walk

LEMMA LogInvIsSound == LogInv => LogSound
<1> SUFFICES ASSUME LogInv PROVE LogSound  OBVIOUS
<1>1. LogPrintsFormat
  BY DEF LogInv, LogText, WholeOf, LogPrintsFormat
<1>2. LossNeedsRace  BY DEF LogInv, SpaceSeen, LossNeedsRace
<1>3. NoCtrlD
  <2>1. given \in Seq(LogChar)  BY DEF LogInv, LogTypes
  <2>2. "EOT" \notin LogChar  BY DEF LogChar
  <2> HIDE DEF LogChar
  <2>3. \A n \in DOMAIN given : given[n] \in LogChar  BY <2>1
  <2>4. ToSet(given) = {given[n] : n \in DOMAIN given}  BY DEF ToSet
  <2>5. QED  BY <2>2, <2>3, <2>4 DEF NoCtrlD
<1>4. HeartbeatCounts  BY DEF LogInv, BeatCounted
<1>5. QED  BY <1>1, <1>2, <1>3, <1>4 DEF LogSound

\* Nothing but a race loses a character, and the others are what the conversions
\* give without their precision (alt_log_printf.c).
THEOREM SpecLogSound == LogSpec => []LogSound
BY LogStart, LogStep, LogInvIsSound, PTL DEF LogSpec

-----------------------------------------------------------------------------
(* The library                                                             *)
(*                                                                         *)
(* A behaviour of Library is one of each part: the parts share no state.   *)

LEMMA StartsEveryPart ==
  LibraryInit => /\ Init /\ ExceptionsInit /\ BoardInit /\ InterruptsInit
                 /\ ProcessInit /\ TimestampInit /\ LogInit /\ ProfileInit /\ TextInit
BY DEF LibraryInit

LEMMA StepsEveryPart ==
  [LibraryNext]_library => /\ [Next]_vars
                           /\ [ExceptionsNext]_exceptions
                           /\ [BoardNext]_board
                           /\ [InterruptsNext]_interrupts
                           /\ [ProcessNext]_process
                           /\ [TimestampNext]_timestamp
                           /\ [LogNext]_logging
                           /\ [ProfileNext]_profile
                           /\ [TextNext]_text
<1> SUFFICES ASSUME [LibraryNext]_library
             PROVE  /\ [Next]_vars
                    /\ [ExceptionsNext]_exceptions
                    /\ [BoardNext]_board
                    /\ [InterruptsNext]_interrupts
                    /\ [ProcessNext]_process
                    /\ [TimestampNext]_timestamp
                    /\ [LogNext]_logging
                    /\ [ProfileNext]_profile
                    /\ [TextNext]_text
  OBVIOUS
<1>1. CASE FilesSteps  BY <1>1 DEF FilesSteps
<1>2. CASE ProfileSteps  BY <1>2 DEF ProfileSteps
<1>3. CASE ExceptionsSteps  BY <1>3 DEF ExceptionsSteps
<1>4. CASE BoardSteps  BY <1>4 DEF BoardSteps
<1>5. CASE InterruptsSteps  BY <1>5 DEF InterruptsSteps
<1>6. CASE ProcessSteps  BY <1>6 DEF ProcessSteps
<1>7. CASE TextSteps  BY <1>7 DEF TextSteps
<1>8. CASE LogSteps  BY <1>8 DEF LogSteps
<1>9. CASE TimestampSteps  BY <1>9 DEF TimestampSteps
<1>10. CASE UNCHANGED library  BY <1>10 DEF library
<1>11. QED
  BY <1>1, <1>2, <1>3, <1>4, <1>5, <1>6, <1>7, <1>8, <1>9, <1>10 DEF LibraryNext

LEMMA LibraryIsEveryPart ==
  LibrarySpec => /\ Spec /\ ExceptionsSpec /\ BoardSpec /\ InterruptsSpec
                 /\ ProcessSpec /\ TimestampSpec /\ LogSpec /\ ProfileSpec /\ TextSpec
BY StartsEveryPart, StepsEveryPart, PTL
   DEF LibrarySpec, Spec, ExceptionsSpec, BoardSpec, InterruptsSpec, ProcessSpec, TimestampSpec, LogSpec, ProfileSpec, TextSpec

\* main finds its variables, constructors and standard descriptors ready,
\* whenever a debugger reset it and whichever driver failed to register.
THEOREM LibraryStartedUp == ASSUME MAX_FD > 3 PROVE LibrarySpec => []StartedUp
<1>1. StartsFresh /\ RunsOnce /\ StdHasDriver => StartedUp  BY DEF StartedUp
<1>2. QED  BY <1>1, LibraryIsEveryPart, SpecStdHasDriver, SpecStartsFresh, PTL

\* No device of the library is locked by two descriptors.
THEOREM LibraryOneHolder == LibrarySpec => []OneHolder
BY LibraryIsEveryPart, SpecOneHolder, PTL

\* The descriptors of the library keep what Descriptors promises.
THEOREM LibraryImplementsDescriptors == LibrarySpec => ImplementsDescriptors
BY LibraryIsEveryPart, SpecImplementsDescriptors, PTL

\* What an exception interrupts goes on as if nothing had happened.
THEOREM LibraryExceptionsTransparent == LibrarySpec => []ExceptionsTransparent
BY LibraryIsEveryPart, SpecExceptionsTransparent, PTL

\* Handlers run by priority, for enabled lines, outside critical sections.
THEOREM LibraryInterruptsSound == LibrarySpec => []InterruptsSound
BY LibraryIsEveryPart, SpecInterruptsSound, PTL

\* The display, the reset of the chip and the delays are as asked.
THEOREM LibraryBoardAsAsked == LibrarySpec => []BoardAsAsked
BY LibraryIsEveryPart, SpecBoardAsAsked, PTL

\* A timestamp is the time of one moment.
THEOREM LibraryStampNearCall == LibrarySpec => StampNearCall
BY LibraryIsEveryPart, SpecStampNearCall, PTL

\* Calls are counted, and the heap is sound, whatever interrupts come.
THEOREM LibraryProfilerSound == LibrarySpec => []ProfilerSound
BY LibraryIsEveryPart, SpecProfilerSound, PTL

\* alt_printf prints what its format and its arguments say.
THEOREM LibraryPrintsFormat == LibrarySpec => []PrintsFormat
BY LibraryIsEveryPart, SpecPrintsFormat, PTL

\* The log prints what printf would but for precisions, whatever handlers log in
\* between, and its heartbeat counts Interval + 1 ticks each.
THEOREM LibraryLogSound == LibrarySpec => []LogSound
BY LibraryIsEveryPart, SpecLogSound, PTL
=============================================================================
