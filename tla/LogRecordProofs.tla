-------------------------- MODULE LogRecordProofs --------------------------
(***************************************************************************)
(* What the logger of src/utils/log.c has written, proved for any threads, *)
(* levels, sizes, bounds, failures and restarts.                           *)
(*                                                                         *)
(* The files: a flush puts the same pieces behind the files and behind all *)
(* that was written, a rename moves nothing, and cleanDirectory takes away *)
(* the first file, so that what is left is a suffix.  The facts about      *)
(* flattening hold because the recursive function exists and is unique:    *)
(* otherwise there were a least number at which it did not.                *)
(*                                                                         *)
(* The record: whole messages, but for the heading of the caller that is   *)
(* formatting.  What distinguishes the pieces is whether their place is    *)
(* odd; before and behind an even place the messages are different ones,   *)
(* so the record can be cut there: where a message that is only printed is *)
(* taken back, and where the process ends and the buffer is lost.          *)
(***************************************************************************)
EXTENDS LogProofs, WellFoundedInduction

(* A set of numbers that is not empty has a least element. *)
LEMMA Least ==
  ASSUME NEW T \in SUBSET Nat, T # {}
  PROVE  \E n \in T : \A k \in T : n <= k
<1>1. PICK n \in T : \A k \in T : ~ (<<k, n>> \in OpToRel(<, Nat))
  <2>1. IsWellFoundedOn(OpToRel(<, Nat), Nat)
    BY NatLessThanWellFounded
  <2> HIDE DEF OpToRel
  <2> QED
    BY <2>1, WFMin
<1>2. ASSUME NEW k \in T PROVE n <= k
  <2>1. n \in Nat /\ k \in Nat
    OBVIOUS
  <2>2. ~ (<<k, n>> \in OpToRel(<, Nat))
    BY <1>1
  <2>3. ~ (k < n)
    BY <2>1, <2>2 DEF OpToRel
  <2> QED
    BY <2>1, <2>3
<1> QED
  BY <1>2

-----------------------------------------------------------------------------
(* Flattening a sequence of files. *)

FileSeqs == Seq(Seq(Pieces))

(* f[i] is what the first i of the files hold together. *)
Joins(f, s, n) ==
  /\ f \in [1 .. n -> Seq(Pieces)]
  /\ \A i \in 1 .. n : f[i] = IF i = 1 THEN s[i] ELSE f[i - 1] \o s[i]

(* Such a function exists ... *)
LEMMA Joined ==
  ASSUME NEW s \in FileSeqs, NEW n \in 0 .. Len(s)
  PROVE  \E f : Joins(f, s, n)
<1> DEFINE T == {k \in 0 .. Len(s) : ~ \E f : Joins(f, s, k)}
<1> SUFFICES ASSUME T # {} PROVE FALSE
  OBVIOUS
<1>1. PICK k \in T : \A j \in T : k <= j
  <2>1. T \subseteq Nat
    OBVIOUS
  <2> HIDE DEF T
  <2> QED
    BY <2>1, Least
<1>2. k # 0
  <2> DEFINE e == [i \in 1 .. 0 |-> << >>]
  <2>1. Joins(e, s, 0)
    BY DEF Joins
  <2> QED
    BY <1>1, <2>1
<1>3. k \in 1 .. Len(s) /\ k - 1 \in 0 .. Len(s) /\ k - 1 \notin T
  BY <1>1, <1>2
<1>4. PICK f : Joins(f, s, k - 1)
  BY <1>3
<1>5. s[k] \in Seq(Pieces)
  BY <1>3 DEF FileSeqs
<1> DEFINE g == [i \in 1 .. k |-> IF i < k THEN f[i] ELSE IF k = 1 THEN s[k] ELSE f[k - 1] \o s[k]]
<1>6. k > 1 => f[k - 1] \in Seq(Pieces)
  BY <1>3, <1>4 DEF Joins
<1>7. (IF k = 1 THEN s[k] ELSE f[k - 1] \o s[k]) \in Seq(Pieces)
  BY <1>3, <1>5, <1>6, ConcatProperties
<1>8. \A i \in 1 .. k - 1 : f[i] \in Seq(Pieces) /\ f[i] = IF i = 1 THEN s[i] ELSE f[i - 1] \o s[i]
  BY <1>4 DEF Joins
<1>9. g \in [1 .. k -> Seq(Pieces)]
  BY <1>3, <1>7, <1>8
<1>10. ASSUME NEW i \in 1 .. k PROVE g[i] = IF i = 1 THEN s[i] ELSE g[i - 1] \o s[i]
  <2>1. CASE i < k
    <3>1. i \in 1 .. k - 1 /\ (i # 1 => i - 1 \in 1 .. k - 1)
      BY <1>3, <2>1
    <3>2. g[i] = f[i] /\ (i # 1 => g[i - 1] = f[i - 1])
      BY <1>3, <2>1, <3>1
    <3> QED
      BY <1>8, <3>1, <3>2
  <2>2. CASE i = k
    <3>1. k # 1 => k - 1 \in 1 .. k /\ g[k - 1] = f[k - 1]
      BY <1>3
    <3>2. g[k] = IF k = 1 THEN s[k] ELSE f[k - 1] \o s[k]
      BY <1>3
    <3> HIDE DEF g
    <3> QED
      BY <2>2, <3>1, <3>2
  <2> QED
    BY <1>3, <2>1, <2>2
<1>11. Joins(g, s, k)
  BY <1>9, <1>10 DEF Joins
<1> QED
  BY <1>1, <1>11

(* ... there is only one ... *)
LEMMA JoinedAlike ==
  ASSUME NEW s, NEW n \in Nat, NEW f, NEW g, Joins(f, s, n),
         \A i \in 1 .. n : g[i] = IF i = 1 THEN s[i] ELSE g[i - 1] \o s[i]
  PROVE  \A i \in 1 .. n : f[i] = g[i]
<1> DEFINE T == {k \in 1 .. n : f[k] # g[k]}
<1> SUFFICES ASSUME T # {} PROVE FALSE
  OBVIOUS
<1>1. PICK k \in T : \A j \in T : k <= j
  <2>1. T \subseteq Nat
    OBVIOUS
  <2> HIDE DEF T
  <2> QED
    BY <2>1, Least
<1>2. k \in 1 .. n /\ f[k] = IF k = 1 THEN s[k] ELSE f[k - 1] \o s[k]
  BY DEF Joins
<1>3. g[k] = IF k = 1 THEN s[k] ELSE g[k - 1] \o s[k]
  OBVIOUS
<1>4. k # 1 => k - 1 \in 1 .. n /\ k - 1 \notin T
  BY <1>1, <1>2
<1> QED
  BY <1>1, <1>2, <1>3, <1>4

(* ... and its last value is what FlattenSeq is. *)
LEMMA FlattenIs ==
  ASSUME NEW s \in FileSeqs, NEW f, Joins(f, s, Len(s)), s # << >>
  PROVE  FlattenSeq(s) = f[Len(s)]
<1> DEFINE E(h) == h = [i \in 1 .. Len(s) |-> IF i = 1 THEN s[i] ELSE h[i - 1] \o s[i]]
<1>1. Len(s) \in Nat /\ Len(s) # 0
  BY EmptySeq DEF FileSeqs
<1>2. E(f)
  BY DEF Joins
<1> DEFINE h == CHOOSE h : E(h)
<1>3. E(h)
  BY <1>2
<1>4. \A i \in 1 .. Len(s) : h[i] = IF i = 1 THEN s[i] ELSE h[i - 1] \o s[i]
  BY <1>3
<1>5. f[Len(s)] = h[Len(s)]
  <2> HIDE DEF h, E
  <2> QED
    BY <1>1, <1>4, JoinedAlike
<1>6. FlattenSeq(s) = h[Len(s)]
  BY <1>1, Zenon DEF FlattenSeq
<1> QED
  BY <1>5, <1>6

LEMMA FlattenNothing == FlattenSeq(<< >>) = << >>
BY EmptySeq DEF FlattenSeq

LEMMA FlattenType ==
  ASSUME NEW s \in FileSeqs
  PROVE  FlattenSeq(s) \in Seq(Pieces)
<1>1. Len(s) \in Nat /\ (s # << >> => Len(s) # 0)
  BY EmptySeq DEF FileSeqs
<1>2. CASE s = << >>
  BY <1>2, FlattenNothing, EmptySeq
<1>3. CASE s # << >>
  <2>1. PICK f : Joins(f, s, Len(s))
    BY <1>1, Joined
  <2>2. f[Len(s)] \in Seq(Pieces)
    BY <1>1, <1>3, <2>1 DEF Joins
  <2> QED
    BY <1>3, <2>1, <2>2, FlattenIs
<1> QED
  BY <1>2, <1>3

(* A file behind the others adds what it holds ... *)
LEMMA FlattenAppend ==
  ASSUME NEW s \in FileSeqs, NEW e \in Seq(Pieces)
  PROVE  Append(s, e) \in FileSeqs /\ FlattenSeq(Append(s, e)) = FlattenSeq(s) \o e
<1> DEFINE t == Append(s, e)
<1>1. /\ t \in FileSeqs /\ t # << >> /\ Len(t) = Len(s) + 1
      /\ \A i \in 1 .. Len(s) : t[i] = s[i]
      /\ t[Len(s) + 1] = e
  BY AppendProperties DEF FileSeqs
<1>2. PICK n \in Nat : n = Len(s)
  BY LenProperties DEF FileSeqs
<1>3. PICK f : Joins(f, s, n)
  BY <1>2, Joined
<1> DEFINE g == [i \in 1 .. n + 1 |-> IF i <= n THEN f[i] ELSE FlattenSeq(s) \o e]
<1>4. n # 0 => FlattenSeq(s) = f[n]
  BY <1>2, <1>3, FlattenIs, EmptySeq
<1>5. n = 0 => FlattenSeq(s) \o e = e
  <2> SUFFICES ASSUME n = 0 PROVE FlattenSeq(s) \o e = e
    OBVIOUS
  <2>1. s = << >>
    BY <1>2, EmptySeq DEF FileSeqs
  <2> QED
    BY <2>1, FlattenNothing, ConcatEmptySeq
<1>6. FlattenSeq(s) \o e \in Seq(Pieces)
  BY FlattenType, ConcatProperties
<1>7. \A i \in 1 .. n : f[i] \in Seq(Pieces) /\ f[i] = IF i = 1 THEN s[i] ELSE f[i - 1] \o s[i]
  BY <1>3 DEF Joins
<1>8. g \in [1 .. n + 1 -> Seq(Pieces)]
  BY <1>6, <1>7
<1>9. ASSUME NEW i \in 1 .. n + 1 PROVE g[i] = IF i = 1 THEN t[i] ELSE g[i - 1] \o t[i]
  <2>1. CASE i <= n
    <3>1. i \in 1 .. n /\ (i # 1 => i - 1 \in 1 .. n)
      BY <2>1
    <3>2. g[i] = f[i] /\ (i # 1 => g[i - 1] = f[i - 1]) /\ t[i] = s[i]
      BY <1>1, <1>2, <2>1, <3>1
    <3> HIDE DEF g, t
    <3> QED
      BY <1>7, <3>1, <3>2
  <2>2. CASE i = n + 1
    <3>1. g[i] = FlattenSeq(s) \o e /\ t[i] = e
      BY <1>1, <1>2, <2>2
    <3>2. i # 1 => g[i - 1] = f[n] /\ n # 0
      BY <2>2
    <3> HIDE DEF g, t
    <3>3. CASE i = 1
      BY <1>5, <2>2, <3>1, <3>3
    <3>4. CASE i # 1
      BY <1>4, <2>2, <3>1, <3>2, <3>4
    <3> QED
      BY <3>3, <3>4
  <2>3. i <= n \/ i = n + 1
    OBVIOUS
  <2> HIDE DEF g, t
  <2> QED
    BY <2>1, <2>2, <2>3
<1>10. Joins(g, t, Len(t))
  <2>1. Len(t) = n + 1
    BY <1>1, <1>2
  <2> HIDE DEF g, t
  <2> QED
    BY <1>8, <1>9, <2>1 DEF Joins
<1>11. FlattenSeq(t) = g[n + 1]
  <2>1. Len(t) = n + 1
    BY <1>1, <1>2
  <2> HIDE DEF g, t
  <2> QED
    BY <1>1, <1>10, <2>1, FlattenIs
<1>12. g[n + 1] = FlattenSeq(s) \o e
  OBVIOUS
<1> QED
  BY <1>1, <1>11, <1>12

LEMMA Associative ==
  ASSUME NEW a \in Seq(Pieces), NEW b \in Seq(Pieces), NEW c \in Seq(Pieces)
  PROVE  (a \o b) \o c = a \o (b \o c)
BY ConcatAssociative

(* ... and without the first file its pieces are missing at the front. *)
LEMMA FlattenTail ==
  ASSUME NEW s \in FileSeqs, s # << >>
  PROVE  /\ Head(s) \in Seq(Pieces) /\ Tail(s) \in FileSeqs
         /\ FlattenSeq(s) = Head(s) \o FlattenSeq(Tail(s))
<1> DEFINE t == Tail(s)
<1>1. /\ Head(s) = s[1] /\ s[1] \in Seq(Pieces) /\ t \in FileSeqs
      /\ Len(t) = Len(s) - 1 /\ \A i \in 1 .. Len(t) : t[i] = s[i + 1]
  BY HeadTailProperties DEF FileSeqs
<1>2. PICK n \in Nat : n = Len(t)
  BY <1>1, LenProperties DEF FileSeqs
<1>3. Len(s) = n + 1
  BY <1>1, <1>2, LenProperties DEF FileSeqs
<1>4. PICK h : Joins(h, t, n)
  <2> HIDE DEF t
  <2> QED
    BY <1>1, <1>2, Joined
<1>5. \A i \in 1 .. n : h[i] \in Seq(Pieces) /\ h[i] = IF i = 1 THEN t[i] ELSE h[i - 1] \o t[i]
  BY <1>4 DEF Joins
<1>6. n # 0 => FlattenSeq(t) = h[n]
  <2> HIDE DEF t
  <2>1. n # 0 => t # << >>
    BY <1>2, EmptySeq
  <2> QED
    BY <1>1, <1>2, <1>4, <2>1, FlattenIs
<1>7. n = 0 => FlattenSeq(t) = << >>
  <2> HIDE DEF t
  <2>1. n = 0 => t = << >>
    BY <1>1, <1>2, EmptySeq DEF FileSeqs
  <2> QED
    BY <2>1, FlattenNothing
<1> DEFINE g == [i \in 1 .. n + 1 |-> IF i = 1 THEN s[1] ELSE s[1] \o h[i - 1]]
<1>13. g[1] = s[1]
  OBVIOUS
<1>14. ASSUME NEW k \in 1 .. n PROVE g[k + 1] = s[1] \o h[k]
  <2>1. k + 1 \in 1 .. n + 1 /\ k + 1 # 1 /\ (k + 1) - 1 = k
    OBVIOUS
  <2>2. g[k + 1] = IF k + 1 = 1 THEN s[1] ELSE s[1] \o h[(k + 1) - 1]
    BY <2>1
  <2> HIDE DEF g
  <2> QED
    BY <2>1, <2>2
<1>8. ASSUME NEW i \in 1 .. n + 1 PROVE g[i] \in Seq(Pieces)
  <2>1. CASE i = 1
    BY <1>1, <2>1
  <2>2. CASE i # 1
    <3>1. i - 1 \in 1 .. n /\ h[i - 1] \in Seq(Pieces)
      BY <1>5, <2>2
    <3> QED
      BY <1>1, <2>2, <3>1, ConcatProperties
  <2> QED
    BY <2>1, <2>2
<1>9. ASSUME NEW i \in 1 .. n + 1 PROVE g[i] = IF i = 1 THEN s[i] ELSE g[i - 1] \o s[i]
  <2>1. CASE i = 1
    BY <2>1
  <2>2. CASE i = 2
    <3>3. 1 \in 1 .. n /\ 1 + 1 = 2 /\ 2 - 1 = 1
      BY <2>2
    <3> HIDE DEF g
    <3>4. g[1 + 1] = s[1] \o h[1]
      BY <1>14, <3>3
    <3>1. g[1] = s[1] /\ g[2] = s[1] \o h[1] /\ 1 \in 1 .. n
      BY <1>13, <3>3, <3>4
    <3>2. h[1] = s[2]
      BY <1>1, <1>2, <1>5, <3>1
    <3> QED
      BY <2>2, <3>1, <3>2, <3>3
  <2>3. CASE i > 2
    <3> DEFINE j == i - 1
    <3>2. j - 1 \in 1 .. n /\ j \in 1 .. n /\ j # 1 /\ j + 1 = i /\ (j - 1) + 1 = j
      BY <2>3
    <3>7. i # 1 /\ j = i - 1
      BY <2>3
    <3> HIDE DEF g, t, j
    <3>8. g[j + 1] = s[1] \o h[j] /\ g[(j - 1) + 1] = s[1] \o h[j - 1]
      BY <1>14, <3>2
    <3>3. g[i] = s[1] \o h[j] /\ g[j] = s[1] \o h[j - 1]
      BY <3>2, <3>8
    <3>4. h[j] = h[j - 1] \o t[j] /\ s[i] = t[j]
      BY <1>1, <1>2, <1>5, <3>2
    <3>5. t[j] \in Seq(Pieces) /\ h[j - 1] \in Seq(Pieces)
      <4>1. h[j - 1] \in Seq(Pieces)
        BY <1>5, <3>2
      <4>2. t[j] \in Seq(Pieces)
        BY <1>1, <1>2, <3>2, ElementOfSeq DEF FileSeqs
      <4> QED
        BY <4>1, <4>2
    <3>6. (s[1] \o h[j - 1]) \o t[j] = s[1] \o (h[j - 1] \o t[j])
      <4>1. s[1] \in Seq(Pieces)
        BY <1>1
      <4> QED
        BY <4>1, <3>5, Associative
    <3> QED
      BY <3>3, <3>4, <3>6, <3>7
  <2>4. i = 1 \/ i = 2 \/ i > 2
    OBVIOUS
  <2> HIDE DEF g
  <2> QED
    BY <2>1, <2>2, <2>3, <2>4
<1>10. Joins(g, s, n + 1)
  <2>1. g \in [1 .. n + 1 -> Seq(Pieces)]
    BY <1>8
  <2> HIDE DEF g
  <2> QED
    BY <1>9, <2>1 DEF Joins
<1>11. FlattenSeq(s) = g[n + 1]
  <2> HIDE DEF g
  <2> QED
    BY <1>3, <1>10, FlattenIs
<1>12. g[n + 1] = s[1] \o FlattenSeq(t)
  <2>1. CASE n = 0
    BY <1>1, <1>7, <2>1, ConcatEmptySeq
  <2>2. CASE n # 0
    <3>2. n \in 1 .. n
      BY <2>2
    <3> HIDE DEF t, g
    <3>1. g[n + 1] = s[1] \o h[n]
      BY <1>14, <3>2
    <3> QED
      BY <1>6, <2>2, <3>1
  <2> QED
    BY <2>1, <2>2
<1> QED
  BY <1>1, <1>11, <1>12

-----------------------------------------------------------------------------
(* The end of a sequence. *)

(* By places: the last of t are those of s. *)
LEMMA SuffixIs ==
  ASSUME NEW s \in Seq(Pieces), NEW t \in Seq(Pieces)
  PROVE  IsSuffix(s, t) <=>
           Len(s) <= Len(t) /\ \A i \in 1 .. Len(s) : s[i] = t[Len(t) - Len(s) + i]
<1>1. PICK m \in Nat : m = Len(s)
  BY LenProperties
<1>2. PICK n \in Nat : n = Len(t)
  BY LenProperties
<1> DEFINE a == Reverse(s)
           b == Reverse(t)
<1>3. a \in Seq(Pieces) /\ Len(a) = m /\ \A i \in 1 .. m : a[i] = s[m - i + 1]
  <2>1. a = [i \in 1 .. m |-> s[m - i + 1]]
    BY <1>1 DEF Reverse
  <2>2. \A i \in 1 .. m : m - i + 1 \in 1 .. m
    OBVIOUS
  <2>3. \A i \in 1 .. m : s[m - i + 1] \in Pieces
    BY <1>1, <2>2, ElementOfSeq
  <2> HIDE DEF a
  <2> QED
    BY <2>1, <2>3
<1>4. b \in Seq(Pieces) /\ Len(b) = n /\ \A i \in 1 .. n : b[i] = t[n - i + 1]
  <2>1. b = [i \in 1 .. n |-> t[n - i + 1]]
    BY <1>2 DEF Reverse
  <2>2. \A i \in 1 .. n : n - i + 1 \in 1 .. n
    OBVIOUS
  <2>3. \A i \in 1 .. n : t[n - i + 1] \in Pieces
    BY <1>2, <2>2, ElementOfSeq
  <2> HIDE DEF b
  <2> QED
    BY <2>1, <2>3
<1>5. IsSuffix(s, t) <=> m <= n /\ SubSeq(a, 1, m) = SubSeq(b, 1, m)
  BY <1>3, <1>4 DEF IsSuffix, IsPrefix
<1> HIDE DEF a, b
<1>6. ASSUME m <= n
      PROVE  SubSeq(a, 1, m) = SubSeq(b, 1, m) <=> \A i \in 1 .. m : a[i] = b[i]
  <2>1. SubSeq(a, 1, m) = [i \in 1 .. m |-> a[i]]
    BY <1>3
  <2>2. SubSeq(b, 1, m) = [i \in 1 .. m |-> b[i]]
    BY <1>4, <1>6
  <2> QED
    BY <2>1, <2>2
<1>7. ASSUME m <= n
      PROVE  (\A i \in 1 .. m : a[i] = b[i]) <=> \A i \in 1 .. m : s[i] = t[n - m + i]
  <2>1. ASSUME \A i \in 1 .. m : a[i] = b[i], NEW i \in 1 .. m
        PROVE  s[i] = t[n - m + i]
    <3>1. PICK k \in 1 .. m : k = m - i + 1
      OBVIOUS
    <3>2. m - k + 1 = i /\ n - k + 1 = n - m + i /\ k \in 1 .. n
      BY <1>7, <3>1
    <3> QED
      BY <1>3, <1>4, <2>1, <3>1, <3>2
  <2>2. ASSUME \A i \in 1 .. m : s[i] = t[n - m + i], NEW i \in 1 .. m
        PROVE  a[i] = b[i]
    <3>1. PICK k \in 1 .. m : k = m - i + 1
      OBVIOUS
    <3>2. n - i + 1 = n - m + k /\ i \in 1 .. n
      BY <1>7, <3>1
    <3>3. a[i] = s[k] /\ b[i] = t[n - m + k]
      BY <1>3, <1>4, <3>1, <3>2
    <3> QED
      BY <2>2, <3>3
  <2> QED
    BY <2>1, <2>2
<1> QED
  BY <1>1, <1>2, <1>5, <1>6, <1>7

LEMMA SuffixGrows ==
  ASSUME NEW s \in Seq(Pieces), NEW t \in Seq(Pieces), NEW x \in Seq(Pieces), IsSuffix(s, t)
  PROVE  s \o x \in Seq(Pieces) /\ t \o x \in Seq(Pieces) /\ IsSuffix(s \o x, t \o x)
<1>1. PICK m \in Nat, n \in Nat, k \in Nat : m = Len(s) /\ n = Len(t) /\ k = Len(x)
  BY LenProperties
<1>2. m <= n /\ \A i \in 1 .. m : s[i] = t[n - m + i]
  BY <1>1, SuffixIs
<1>3. /\ s \o x \in Seq(Pieces) /\ Len(s \o x) = m + k
      /\ \A i \in 1 .. m + k : (s \o x)[i] = IF i <= m THEN s[i] ELSE x[i - m]
  BY <1>1, ConcatProperties
<1>4. /\ t \o x \in Seq(Pieces) /\ Len(t \o x) = n + k
      /\ \A i \in 1 .. n + k : (t \o x)[i] = IF i <= n THEN t[i] ELSE x[i - n]
  BY <1>1, ConcatProperties
<1> DEFINE a == s \o x
           b == t \o x
<1> HIDE DEF a, b
<1>5. ASSUME NEW i \in 1 .. m + k PROVE a[i] = b[(n + k) - (m + k) + i]
  <2>1. PICK j \in 1 .. n + k : j = n - m + i
    BY <1>2
  <2>2. j = (n + k) - (m + k) + i /\ j - n = i - m /\ (i <= m <=> j <= n)
    BY <2>1
  <2>3. a[i] = (IF i <= m THEN s[i] ELSE x[i - m])
    BY <1>3 DEF a
  <2>4. b[j] = IF j <= n THEN t[j] ELSE x[j - n]
    BY <1>4 DEF b
  <2>5. i <= m => s[i] = t[j]
    BY <1>2, <2>1
  <2> QED
    BY <2>2, <2>3, <2>4, <2>5
<1>6. m + k <= n + k
  BY <1>2
<1>7. a \in Seq(Pieces) /\ b \in Seq(Pieces) /\ Len(a) = m + k /\ Len(b) = n + k
  BY <1>3, <1>4 DEF a, b
<1>8. IsSuffix(a, b)
  BY <1>5, <1>6, <1>7, SuffixIs
<1> QED
  BY <1>7, <1>8 DEF a, b

LEMMA SuffixShrinks ==
  ASSUME NEW s \in Seq(Pieces), NEW t \in Seq(Pieces), NEW x \in Seq(Pieces), IsSuffix(x \o s, t)
  PROVE  IsSuffix(s, t)
<1>1. PICK m \in Nat, n \in Nat, k \in Nat : m = Len(s) /\ n = Len(t) /\ k = Len(x)
  BY LenProperties
<1>3. /\ x \o s \in Seq(Pieces) /\ Len(x \o s) = k + m
      /\ \A i \in 1 .. k + m : (x \o s)[i] = IF i <= k THEN x[i] ELSE s[i - k]
  BY <1>1, ConcatProperties
<1> DEFINE a == x \o s
<1> HIDE DEF a
<1>4. a \in Seq(Pieces) /\ Len(a) = k + m
  BY <1>3 DEF a
<1>5. k + m <= n /\ \A i \in 1 .. k + m : a[i] = t[n - (k + m) + i]
  <2>1. IsSuffix(a, t)
    BY DEF a
  <2>2. Len(a) <= Len(t) /\ \A i \in 1 .. Len(a) : a[i] = t[Len(t) - Len(a) + i]
    BY <1>4, <2>1, SuffixIs
  <2> QED
    BY <1>1, <1>4, <2>2
<1>6. ASSUME NEW i \in 1 .. m PROVE s[i] = t[n - m + i]
  <2>1. PICK j \in 1 .. k + m : j = k + i
    OBVIOUS
  <2>2. j - k = i /\ ~ (j <= k) /\ n - (k + m) + j = n - m + i
    BY <2>1
  <2>3. a[j] = IF j <= k THEN x[j] ELSE s[j - k]
    BY <1>3 DEF a
  <2>4. a[j] = t[n - (k + m) + j]
    BY <1>5
  <2> QED
    BY <2>2, <2>3, <2>4
<1>7. Len(s) <= Len(t) /\ \A i \in 1 .. Len(s) : s[i] = t[Len(t) - Len(s) + i]
  BY <1>1, <1>5, <1>6
<1> QED
  BY <1>7, SuffixIs

LEMMA SuffixSelf == ASSUME NEW s \in Seq(Pieces) PROVE IsSuffix(s, s)
<1>1. PICK n \in Nat : n = Len(s)
  BY LenProperties
<1>2. \A i \in 1 .. n : n - n + i = i
  OBVIOUS
<1> QED
  BY <1>1, <1>2, SuffixIs

-----------------------------------------------------------------------------
(* Rotation. *)

DiskInv ==
  /\ backups \in FileSeqs /\ current \in Seq(Pieces)
  /\ FilesHoldLatest
  /\ \A t \in Threads : pc[t] = "rename" => Len(backups) <= MaxBackups

LEMMA InitDisk == Init => DiskInv
<1> SUFFICES ASSUME Init PROVE DiskInv
  OBVIOUS
<1>1. backups = << >> /\ current = << >> /\ written = << >>
  BY DEF Init
<1>2. << >> \in Seq(Pieces) /\ << >> \in FileSeqs /\ Len(<< >>) = 0
  BY EmptySeq DEF FileSeqs
<1>3. Files = << >> /\ IsSuffix(Files, written)
  <2>1. Files = << >>
    BY <1>1, <1>2, FlattenNothing, ConcatEmptySeq DEF Files
  <2> QED
    BY <1>1, <1>2, <2>1, SuffixSelf
<1>4. FilesHoldLatest
  BY <1>1, <1>2, <1>3, LogAssumption DEF FilesHoldLatest
<1>5. \A t \in Threads : pc[t] # "rename"
  BY DEF Init, Idle
<1> QED
  BY <1>1, <1>2, <1>4, <1>5 DEF DiskInv

(* Most steps leave the files alone. *)
LEMMA DiskStays ==
  ASSUME DiskInv, UNCHANGED <<backups, current, written>>,
         \A t \in Threads : pc[t]' = "rename" => pc[t] = "rename"
  PROVE  DiskInv'
BY DEF DiskInv, FilesHoldLatest, Files

(* A flush puts the same pieces behind the files and behind all that was   *)
(* written.                                                                *)
LEMMA DiskFlushed ==
  ASSUME EInv, DiskInv, NEW t \in Threads, flushBuffer(t)
  PROVE  DiskInv'
<1>1. PICK k \in 0 .. Len(buffer) : Written(k)
  BY FlushWrites DEF EInv, LInv
<1> DEFINE x == SubSeq(buffer, 1, k)
<1>2. x \in Seq(Pieces)
  BY Prefix DEF EInv, LInv
<1>3. current' = current \o x /\ written' = written \o x /\ backups' = backups
  BY <1>1 DEF Written, flushBuffer
<1>4. FlattenSeq(backups) \in Seq(Pieces) /\ current \in Seq(Pieces) /\ written \in Seq(Pieces)
  BY FlattenType DEF DiskInv, EInv
<1> HIDE DEF x
<1>5. Files \in Seq(Pieces) /\ Files' = Files \o x
  <2>1. Files' = FlattenSeq(backups) \o (current \o x)
    BY <1>3 DEF Files
  <2> QED
    BY <1>2, <1>4, <2>1, Associative, ConcatProperties DEF Files
<1>6. IsSuffix(Files', written')
  BY <1>2, <1>3, <1>4, <1>5, SuffixGrows DEF DiskInv, FilesHoldLatest
<1>7. Files' # written' => Files # written
  BY <1>3, <1>5
<1>8. FilesHoldLatest'
  BY <1>3, <1>6, <1>7 DEF DiskInv, FilesHoldLatest
<1>9. \A u \in Threads : pc[u]' = "rename" => pc[u] = "rename"
  <2>1. pc \in [Threads -> CallerAt \cup WriterAt]
    BY DEF EInv, LInv, Places
  <2> QED
    BY <2>1 DEF flushBuffer, Flushed
<1>10. current' \in Seq(Pieces)
  BY <1>2, <1>3, <1>4, ConcatProperties
<1> QED
  BY <1>3, <1>8, <1>9, <1>10 DEF DiskInv

(* Only the oldest backup is deleted, and never the last of MaxBackups.    *)
LEMMA DiskCleaned ==
  ASSUME EInv, DiskInv, NEW t \in Threads, cleanDirectory(t)
  PROVE  DiskInv'
<1>1. current' = current /\ written' = written
  BY DEF cleanDirectory, history
<1>2. MaxBackups \in Nat /\ Len(backups) \in Nat /\ Len(backups) <= MaxBackups + 1
  BY LogAssumption, LenProperties DEF DiskInv, FilesHoldLatest, FileSeqs
<1>3. CASE Len(backups) > MaxBackups
  <2>1. backups' = Tail(backups) /\ backups # << >>
    BY <1>2, <1>3, EmptySeq DEF cleanDirectory
  <2>2. /\ Head(backups) \in Seq(Pieces) /\ Tail(backups) \in FileSeqs
        /\ FlattenSeq(backups) = Head(backups) \o FlattenSeq(Tail(backups))
        /\ Len(Tail(backups)) = Len(backups) - 1
    BY <2>1, FlattenTail, HeadTailProperties DEF DiskInv, FileSeqs
  <2>3. current \in Seq(Pieces) /\ FlattenSeq(Tail(backups)) \in Seq(Pieces) /\ written \in Seq(Pieces)
    BY <2>2, FlattenType DEF DiskInv, EInv
  <2>4. Files = Head(backups) \o Files' /\ Files' \in Seq(Pieces)
    <3>1. Files' = FlattenSeq(Tail(backups)) \o current
      BY <1>1, <2>1 DEF Files
    <3>2. Files = (Head(backups) \o FlattenSeq(Tail(backups))) \o current
      BY <2>2 DEF Files
    <3> QED
      BY <2>2, <2>3, <3>1, <3>2, Associative, ConcatProperties
  <2>5. IsSuffix(Files', written')
    BY <1>1, <2>2, <2>3, <2>4, SuffixShrinks DEF DiskInv, FilesHoldLatest
  <2>6. Len(backups') >= MaxBackups /\ Len(backups') <= MaxBackups
    BY <1>2, <1>3, <2>1, <2>2
  <2>7. FilesHoldLatest'
    BY <1>2, <2>1, <2>2, <2>5, <2>6 DEF FilesHoldLatest
  <2> QED
    BY <1>1, <2>1, <2>2, <2>6, <2>7 DEF DiskInv
<1>4. CASE ~ (Len(backups) > MaxBackups)
  <2>1. backups' = backups
    BY <1>4 DEF cleanDirectory
  <2>2. Files' = Files
    BY <1>1, <2>1 DEF Files
  <2> QED
    BY <1>1, <1>2, <1>4, <2>1, <2>2 DEF DiskInv, FilesHoldLatest
<1> QED
  BY <1>3, <1>4

(* Renaming log.txt leaves the files, in the order of their names, as they *)
(* are.                                                                    *)
LEMMA DiskRenamed ==
  ASSUME EInv, DiskInv, NEW t \in Threads, Rename(t)
  PROVE  DiskInv'
<1>1. pc[t] = "rename" /\ pc' = [pc EXCEPT ![t] = Flushed(t)] /\ written' = written
  BY DEF Rename
<1>2. \A u \in Threads : pc[u]' # "rename"
  <2>1. pc \in [Threads -> CallerAt \cup WriterAt]
    BY DEF EInv, LInv, Places
  <2>2. \A u \in Threads : pc[u] = "rename" => u = t
    BY <1>1 DEF EInv, LInv, OneWriter
  <2> QED
    BY <1>1, <2>1, <2>2 DEF Flushed
<1>3. CASE UNCHANGED <<backups, current>>
  BY <1>1, <1>2, <1>3, DiskStays
<1>4. CASE backups' = Append(backups, current) /\ current' = << >>
  <2>1. /\ backups \in FileSeqs /\ current \in Seq(Pieces) /\ << >> \in Seq(Pieces)
        /\ Len(backups) <= MaxBackups /\ MaxBackups \in Nat /\ Len(backups) \in Nat
    BY <1>1, LogAssumption, EmptySeq, LenProperties DEF DiskInv, FileSeqs
  <2>2. /\ Append(backups, current) \in FileSeqs
        /\ FlattenSeq(Append(backups, current)) = FlattenSeq(backups) \o current
    BY <2>1, FlattenAppend
  <2>3. Len(Append(backups, current)) = Len(backups) + 1
    BY <2>1, AppendProperties DEF FileSeqs
  <2>4. Files' = Files
    <3>1. Files' = (FlattenSeq(backups) \o current) \o << >>
      BY <1>4, <2>2 DEF Files
    <3>2. FlattenSeq(backups) \o current \in Seq(Pieces)
      BY <2>1, FlattenType, ConcatProperties
    <3> QED
      BY <3>1, <3>2, ConcatEmptySeq DEF Files
  <2>5. FilesHoldLatest'
    BY <1>1, <1>4, <2>1, <2>3, <2>4 DEF DiskInv, FilesHoldLatest
  <2> QED
    BY <1>2, <1>4, <2>1, <2>2, <2>5 DEF DiskInv
<1> QED
  BY <1>3, <1>4 DEF Rename

LEMMA DiskStep == EInv /\ DiskInv /\ [Next]_vars => DiskInv'
<1> SUFFICES ASSUME EInv, DiskInv, [Next]_vars PROVE DiskInv'
  OBVIOUS
<1> DEFINE Still == /\ UNCHANGED <<backups, current, written>>
                    /\ \A t \in Threads : pc[t]' = "rename" => pc[t] = "rename"
<1> USE DEF Threads, disk, history
<1>0. pc \in [Threads -> CallerAt \cup WriterAt]
  BY DEF EInv, LInv, Places
<1>1. ASSUME LOG_CONFIG PROVE Still
  BY <1>1 DEF LOG_CONFIG
<1>2. ASSUME NEW t \in Callers, Call(t) PROVE Still
  BY <1>0, <1>2 DEF Call
<1>3. ASSUME NEW t \in Callers, CreateMutex(t) PROVE Still
  BY <1>0, <1>3 DEF CreateMutex
<1>4. ASSUME NEW t \in Threads, Lock(t) PROVE Still
  BY <1>0, <1>4 DEF Lock
<1>5. ASSUME NEW t \in Callers, PushHead(t) PROVE Still
  BY <1>0, <1>5 DEF PushHead
<1>6. ASSUME NEW t \in Callers, PushText(t) PROVE Still
  BY <1>0, <1>6 DEF PushText
<1>7. ASSUME NEW t \in Callers, PrintOnly(t) PROVE Still
  BY <1>0, <1>7 DEF PrintOnly
<1>8. ASSUME NEW t \in Callers, WakeWriter(t) PROVE Still
  BY <1>0, <1>8 DEF WakeWriter
<1>9. ASSUME NEW t \in Callers, UnlockCaller(t) PROVE Still
  BY <1>0, <1>9 DEF UnlockCaller
<1>10. ASSUME UnlockWriter PROVE Still
  BY <1>0, <1>10 DEF UnlockWriter
<1>11. ASSUME ClearThread PROVE Still
  BY <1>0, <1>11 DEF ClearThread
<1>12. ASSUME EndProcess PROVE Still
  BY <1>12 DEF EndProcess, Idle
<1>13. ASSUME UNCHANGED vars PROVE Still
  BY <1>13 DEF vars, memory
<1>14. ASSUME Still PROVE DiskInv'
  BY <1>14, DiskStays
<1> HIDE DEF Still
<1> QED
  BY <1>1, <1>2, <1>3, <1>4, <1>5, <1>6, <1>7, <1>8, <1>9, <1>10, <1>11, <1>12, <1>13, <1>14,
     DiskFlushed, DiskCleaned, DiskRenamed
     DEF Next, WriterStep, CallerStep, Crash, Exit

(* The files, in the order of their names, hold the latest part of all     *)
(* that was written, for any size of a file, number of backups and         *)
(* threads, whatever fails and whenever the process ends: rotation deletes *)
(* the oldest backup, and only when there are more than MaxBackups         *)
(* (flushBuffer and cleanDirectory, lines 227-301).                        *)
THEOREM LatestIsKept == Spec => []FilesHoldLatest
<1>1. DiskInv => FilesHoldLatest
  BY DEF DiskInv
<1> QED
  BY <1>1, InitErrors, StepErrors, InitDisk, DiskStep, PTL DEF Spec

-----------------------------------------------------------------------------
(* The record. *)

Odd(i) == i % 2 = 1

(* Pieces at odd places are headings, each is followed by its text, and the *)
(* messages come in the order of their numbers.                            *)
Whole(r) ==
  /\ \A i \in 1 .. Len(r) : r[i] = IF Odd(i) THEN Heading(r[i][1]) ELSE Text(r[i - 1][1])
  /\ \A i, j \in 1 .. Len(r) : i < j => r[i][1] <= r[j][1]
  /\ \A i, j \in 1 .. Len(r) : i < j /\ Odd(j) => r[i][1] < r[j][1]

Numbered(r) == {r[i][1] : i \in 1 .. Len(r)}

Record == written \o buffer
Kept == Recorded \ lost

(* The callers whose message is in the buffer and may be taken back. *)
Working == {t \in Callers : pc[t] \in {"text", "print"}}

AtWork ==
  /\ lost \subseteq 1 .. Len(logged)
  /\ \A t \in Working : number[t] = Len(logged) /\ number[t] > 0 /\ number[t] \notin lost

Faithful ==
  /\ Whole(Record) /\ ~ Odd(Len(written))
  /\ Odd(Len(Record)) <=> \E t \in Callers : pc[t] = "text"
  /\ Numbered(Record) = Kept \cup {number[t] : t \in Working}
  /\ \A t \in Callers :
       /\ pc[t] = "text" => buffer # << >> /\ buffer[Len(buffer)] = Heading(number[t])
       /\ pc[t] = "print" => /\ buffer # << >> /\ buffer[Len(buffer)] = Text(number[t])
                             /\ number[t] \notin Recorded

RecordInv == AtWork /\ ("partial" \notin faults => Faithful)

(* Odd and even places. *)

LEMMA OddNext ==
  ASSUME NEW i \in Nat
  PROVE  Odd(i + 1) <=> ~ Odd(i)
BY DEF Odd

LEMMA OddSum ==
  ASSUME NEW i \in Nat, NEW j \in Nat, ~ Odd(i)
  PROVE  Odd(i + j) <=> Odd(j)
BY DEF Odd

LEMMA OddTwo ==
  ASSUME NEW i \in Nat, ~ Odd(i), i # 0
  PROVE  i >= 2 /\ Odd(i - 1) /\ ~ Odd(i - 2)
BY DEF Odd

LEMMA NumberOf ==
  ASSUME NEW r \in Seq(Pieces), NEW i \in 1 .. Len(r)
  PROVE  r[i] \in Pieces /\ r[i][1] \in Nat
<1>1. r[i] \in Pieces
  BY ElementOfSeq
<1> QED
  BY <1>1 DEF Pieces

LEMMA NumberOfPiece ==
  ASSUME NEW m
  PROVE  Heading(m)[1] = m /\ Text(m)[1] = m /\ Heading(m)[2] = "head" /\ Text(m)[2] = "text"
BY DEF Heading, Text

(* The heading of the next message. *)
LEMMA WholeWithHeading ==
  ASSUME NEW r \in Seq(Pieces), NEW m \in Nat, Whole(r), ~ Odd(Len(r)),
         \A i \in 1 .. Len(r) : r[i][1] < m
  PROVE  LET u == Append(r, Heading(m)) IN
         u \in Seq(Pieces) /\ Whole(u) /\ Odd(Len(u)) /\ Numbered(u) = Numbered(r) \cup {m}
<1> DEFINE u == Append(r, Heading(m))
<1>1. PICK n \in Nat : n = Len(r)
  BY LenProperties
<1>2. /\ u \in Seq(Pieces) /\ Len(u) = n + 1
      /\ \A i \in 1 .. n : u[i] = r[i]
      /\ u[n + 1] = Heading(m)
  BY <1>1, PiecesOf, AppendProperties
<1>3. Odd(n + 1)
  BY <1>1, OddNext
<1>4. \A i \in 1 .. n : r[i][1] \in Nat /\ r[i][1] < m
  BY <1>1, NumberOf
<1>5. Heading(m)[1] = m
  BY NumberOfPiece
<1> HIDE DEF u
<1>6. ASSUME NEW i \in 1 .. n + 1
      PROVE  u[i] = IF Odd(i) THEN Heading(u[i][1]) ELSE Text(u[i - 1][1])
  <2>1. CASE i = n + 1
    BY <1>2, <1>3, <1>5, <2>1
  <2>2. CASE i \in 1 .. n
    <3>1. r[i] = IF Odd(i) THEN Heading(r[i][1]) ELSE Text(r[i - 1][1])
      BY <1>1, <2>2 DEF Whole
    <3>2. ~ Odd(i) => i - 1 \in 1 .. n
      BY <2>2 DEF Odd
    <3> QED
      BY <1>2, <2>2, <3>1, <3>2
  <2> QED
    BY <2>1, <2>2
<1>7. ASSUME NEW i \in 1 .. n + 1, NEW j \in 1 .. n + 1, i < j
      PROVE  u[i][1] <= u[j][1] /\ (Odd(j) => u[i][1] < u[j][1])
  <2>1. i \in 1 .. n /\ u[i][1] = r[i][1]
    BY <1>2, <1>7
  <2>2. CASE j = n + 1
    BY <1>2, <1>4, <1>5, <2>1, <2>2
  <2>3. CASE j \in 1 .. n
    BY <1>1, <1>2, <1>7, <2>1, <2>3 DEF Whole
  <2> QED
    BY <2>2, <2>3
<1>8. Whole(u)
  BY <1>2, <1>6, <1>7 DEF Whole
<1>9. Numbered(u) = Numbered(r) \cup {m}
  <2>1. Numbered(u) = {u[i][1] : i \in 1 .. n + 1}
    BY <1>2 DEF Numbered
  <2>2. Numbered(r) = {r[i][1] : i \in 1 .. n}
    BY <1>1 DEF Numbered
  <2>3. 1 .. n + 1 = (1 .. n) \cup {n + 1}
    OBVIOUS
  <2>4. \A i \in 1 .. n : u[i][1] = r[i][1]
    BY <1>2
  <2>5. u[n + 1][1] = m
    BY <1>2, <1>5
  <2> QED
    BY <2>1, <2>2, <2>3, <2>4, <2>5
<1>10. u \in Seq(Pieces) /\ Whole(u) /\ Odd(Len(u)) /\ Numbered(u) = Numbered(r) \cup {m}
  BY <1>2, <1>3, <1>8, <1>9
<1> QED
  BY <1>10 DEF u

(* The text behind its heading. *)
LEMMA WholeWithText ==
  ASSUME NEW r \in Seq(Pieces), NEW m \in Nat, Whole(r), Odd(Len(r)), r[Len(r)] = Heading(m)
  PROVE  LET u == Append(r, Text(m)) IN
         u \in Seq(Pieces) /\ Whole(u) /\ ~ Odd(Len(u)) /\ Numbered(u) = Numbered(r)
<1> DEFINE u == Append(r, Text(m))
<1>1. PICK n \in Nat : n = Len(r)
  BY LenProperties
<1>2. /\ u \in Seq(Pieces) /\ Len(u) = n + 1
      /\ \A i \in 1 .. n : u[i] = r[i]
      /\ u[n + 1] = Text(m)
  BY <1>1, PiecesOf, AppendProperties
<1>3. ~ Odd(n + 1) /\ n \in 1 .. n
  BY <1>1, OddNext DEF Odd
<1>4. \A i \in 1 .. n : r[i][1] \in Nat
  BY <1>1, NumberOf
<1>5. Text(m)[1] = m /\ r[n][1] = m
  BY <1>1, NumberOfPiece
<1> HIDE DEF u
<1>6. ASSUME NEW i \in 1 .. n + 1
      PROVE  u[i] = IF Odd(i) THEN Heading(u[i][1]) ELSE Text(u[i - 1][1])
  <2>1. CASE i = n + 1
    <3>1. i - 1 = n
      BY <2>1
    <3> QED
      BY <1>2, <1>3, <1>5, <2>1, <3>1
  <2>2. CASE i \in 1 .. n
    <3>1. r[i] = IF Odd(i) THEN Heading(r[i][1]) ELSE Text(r[i - 1][1])
      BY <1>1, <2>2 DEF Whole
    <3>2. ~ Odd(i) => i - 1 \in 1 .. n
      BY <2>2 DEF Odd
    <3> QED
      BY <1>2, <2>2, <3>1, <3>2
  <2> QED
    BY <2>1, <2>2
<1>7. ASSUME NEW i \in 1 .. n + 1, NEW j \in 1 .. n + 1, i < j
      PROVE  u[i][1] <= u[j][1] /\ (Odd(j) => u[i][1] < u[j][1])
  <2>1. i \in 1 .. n /\ u[i][1] = r[i][1]
    BY <1>2, <1>7
  <2>2. CASE j = n + 1
    <3>1. r[i][1] <= r[n][1]
      <4>1. CASE i = n
        BY <1>4, <2>1, <4>1
      <4>2. CASE i < n
        BY <1>1, <1>3, <2>1, <4>2 DEF Whole
      <4> QED
        BY <2>1, <4>1, <4>2
    <3> QED
      BY <1>2, <1>3, <1>5, <2>1, <2>2, <3>1
  <2>3. CASE j \in 1 .. n
    BY <1>1, <1>2, <1>7, <2>1, <2>3 DEF Whole
  <2> QED
    BY <2>2, <2>3
<1>8. Whole(u)
  BY <1>2, <1>6, <1>7 DEF Whole
<1>9. Numbered(u) = Numbered(r)
  <2>1. Numbered(u) = {u[i][1] : i \in 1 .. n + 1}
    BY <1>2 DEF Numbered
  <2>2. Numbered(r) = {r[i][1] : i \in 1 .. n}
    BY <1>1 DEF Numbered
  <2>3. 1 .. n + 1 = (1 .. n) \cup {n + 1}
    OBVIOUS
  <2>4. \A i \in 1 .. n : u[i][1] = r[i][1]
    BY <1>2
  <2>5. u[n + 1][1] = r[n][1]
    BY <1>2, <1>5
  <2> QED
    BY <1>3, <2>1, <2>2, <2>3, <2>4, <2>5
<1>10. u \in Seq(Pieces) /\ Whole(u) /\ ~ Odd(Len(u)) /\ Numbered(u) = Numbered(r)
  BY <1>2, <1>3, <1>8, <1>9
<1> QED
  BY <1>10 DEF u

(* The messages before and behind an even place are different ones. *)
LEMMA WholeApart ==
  ASSUME NEW r \in Seq(Pieces), Whole(r), NEW k \in Nat, ~ Odd(k), k <= Len(r),
         NEW i \in 1 .. k, NEW j \in k + 1 .. Len(r)
  PROVE  r[i][1] < r[j][1]
<1>1. PICK n \in Nat : n = Len(r)
  BY LenProperties
<1>2. i \in 1 .. n /\ j \in 1 .. n /\ i < j
  BY <1>1
<1>3. CASE Odd(j)
  BY <1>1, <1>2, <1>3 DEF Whole
<1>4. CASE ~ Odd(j)
  <2>1. PICK l \in Nat : l = j - 1
    OBVIOUS
  <2>2. Odd(l)
    BY <1>4, <2>1, OddNext
  <2>3. l # k /\ l \in 1 .. n /\ i < l
    BY <1>1, <1>2, <2>1, <2>2
  <2>4. r[i][1] < r[l][1]
    BY <1>1, <1>2, <2>2, <2>3 DEF Whole
  <2>5. r[j] = Text(r[l][1])
    BY <1>1, <1>2, <1>4, <2>1 DEF Whole
  <2> QED
    BY <2>4, <2>5, NumberOfPiece
<1> QED
  BY <1>3, <1>4

(* The first pieces, up to an even place, are whole messages again. *)
LEMMA WholePrefix ==
  ASSUME NEW r \in Seq(Pieces), Whole(r), NEW k \in Nat, ~ Odd(k), k <= Len(r)
  PROVE  LET u == SubSeq(r, 1, k) IN
         /\ u \in Seq(Pieces) /\ Len(u) = k /\ Whole(u)
         /\ Numbered(u) = Numbered(r) \ {r[j][1] : j \in k + 1 .. Len(r)}
<1> DEFINE u == SubSeq(r, 1, k)
<1>1. PICK n \in Nat : n = Len(r)
  BY LenProperties
<1>2. u \in Seq(Pieces) /\ Len(u) = k /\ \A i \in 1 .. k : u[i] = r[i]
  <2>1. \A i \in 1 .. k : r[i] \in Pieces
    BY <1>1, ElementOfSeq
  <2>2. /\ u \in Seq(Pieces) /\ Len(u) = IF 1 <= k THEN k - 1 + 1 ELSE 0
        /\ \A i \in 1 .. k - 1 + 1 : u[i] = r[1 + i - 1]
    BY <2>1, SubSeqProperties
  <2>3. k - 1 + 1 = k /\ \A i \in 1 .. k : 1 + i - 1 = i
    OBVIOUS
  <2> HIDE DEF u
  <2> QED
    BY <2>2, <2>3
<1> HIDE DEF u
<1>3. ASSUME NEW i \in 1 .. k
      PROVE  u[i] = IF Odd(i) THEN Heading(u[i][1]) ELSE Text(u[i - 1][1])
  <2>1. i \in 1 .. n /\ (~ Odd(i) => i - 1 \in 1 .. k)
    BY <1>1 DEF Odd
  <2>2. r[i] = IF Odd(i) THEN Heading(r[i][1]) ELSE Text(r[i - 1][1])
    BY <1>1, <2>1 DEF Whole
  <2> QED
    BY <1>2, <2>1, <2>2
<1>4. ASSUME NEW i \in 1 .. k, NEW j \in 1 .. k, i < j
      PROVE  u[i][1] <= u[j][1] /\ (Odd(j) => u[i][1] < u[j][1])
  <2>1. i \in 1 .. n /\ j \in 1 .. n
    BY <1>1
  <2> QED
    BY <1>1, <1>2, <1>4, <2>1 DEF Whole
<1>5. Whole(u)
  BY <1>2, <1>3, <1>4 DEF Whole
<1>6. Numbered(u) = Numbered(r) \ {r[j][1] : j \in k + 1 .. n}
  <2>1. Numbered(u) = {r[i][1] : i \in 1 .. k}
    <3>1. Numbered(u) = {u[i][1] : i \in 1 .. k}
      BY <1>2 DEF Numbered
    <3> QED
      BY <1>2, <3>1
  <2>2. Numbered(r) = {r[i][1] : i \in 1 .. n}
    BY <1>1 DEF Numbered
  <2>3. 1 .. n = (1 .. k) \cup (k + 1 .. n)
    BY <1>1
  <2>4. \A i \in 1 .. k, j \in k + 1 .. n : r[i][1] # r[j][1]
    <3> SUFFICES ASSUME NEW i \in 1 .. k, NEW j \in k + 1 .. n PROVE r[i][1] # r[j][1]
      OBVIOUS
    <3>1. i \in 1 .. n /\ j \in 1 .. n
      BY <1>1
    <3>2. r[i][1] \in Nat /\ r[j][1] \in Nat
      BY <1>1, <3>1, NumberOf
    <3>3. r[i][1] < r[j][1]
      BY <1>1, WholeApart
    <3> QED
      BY <3>2, <3>3
  <2>5. \A x : x \in {r[i][1] : i \in 1 .. n} <=>
               x \in {r[i][1] : i \in 1 .. k} \/ x \in {r[j][1] : j \in k + 1 .. n}
    BY <2>3, Zenon
  <2>6. \A x : ~ (x \in {r[i][1] : i \in 1 .. k} /\ x \in {r[j][1] : j \in k + 1 .. n})
    BY <2>4, Zenon
  <2> QED
    BY <2>1, <2>2, <2>5, <2>6
<1>7. u \in Seq(Pieces) /\ Len(u) = k /\ Whole(u)
      /\ Numbered(u) = Numbered(r) \ {r[j][1] : j \in k + 1 .. Len(r)}
  BY <1>1, <1>2, <1>5, <1>6
<1> QED
  BY <1>7 DEF u

-----------------------------------------------------------------------------
(* What happens to the record. *)

LEMMA RecordIs ==
  ASSUME EInv
  PROVE  /\ Record \in Seq(Pieces) /\ Len(Record) = Len(written) + Len(buffer)
         /\ \A i \in 1 .. Len(written) : Record[i] = written[i]
         /\ \A i \in 1 .. Len(buffer) : Record[Len(written) + i] = buffer[i]
         /\ Len(written) \in Nat /\ Len(buffer) \in Nat
<1>1. written \in Seq(Pieces) /\ buffer \in Seq(Pieces)
  BY DEF EInv, LInv
<1>2. PICK w \in Nat, b \in Nat : w = Len(written) /\ b = Len(buffer)
  BY <1>1, LenProperties
<1>3. /\ Record \in Seq(Pieces) /\ Len(Record) = w + b
      /\ \A i \in 1 .. w + b : Record[i] = IF i <= w THEN written[i] ELSE buffer[i - w]
  BY <1>1, <1>2, ConcatProperties DEF Record
<1>4. \A i \in 1 .. w : Record[i] = written[i]
  BY <1>3
<1>5. ASSUME NEW i \in 1 .. b PROVE Record[w + i] = buffer[i]
  <2>1. w + i \in 1 .. w + b /\ ~ (w + i <= w) /\ (w + i) - w = i
    OBVIOUS
  <2> QED
    BY <1>3, <2>1
<1> QED
  BY <1>2, <1>3, <1>4, <1>5

(* Callers take turns in the buffer. *)
LEMMA WorksAlone ==
  ASSUME EInv, NEW t \in Threads,
         pc[t] \in {"head", "text", "print", "flush"}
  PROVE  \A u \in Working : u = t
BY DEF EInv, LInv, OneWriter, Working, Threads

LEMMA LoggedIs ==
  ASSUME EInv
  PROVE  /\ logged \in Seq(Levels) /\ Len(logged) \in Nat /\ LogLevel \in Nat
         /\ \A n \in 1 .. Len(logged) : logged[n] \in Nat
         /\ Recorded \subseteq 1 .. Len(logged)
<1>1. logged \in Seq(Levels)
  BY DEF EInv, LInv, Numbers
<1>2. \A n \in 1 .. Len(logged) : logged[n] \in Levels
  BY <1>1, ElementOfSeq
<1>3. LogLevel \in Nat /\ \A x \in Levels : x \in Nat
  BY LogAssumption
<1>4. Len(logged) \in Nat
  BY <1>1, LenProperties
<1>5. Recorded \subseteq 1 .. Len(logged)
  BY DEF Recorded
<1> QED
  BY <1>1, <1>2, <1>3, <1>4, <1>5

LEMMA CallersPlaces ==
  ASSUME EInv
  PROVE  pc \in [Threads -> CallerAt \cup WriterAt] /\ number \in [Callers -> 0 .. MaxMessages]
BY DEF EInv, LInv, Places, LogTypeOK

(* Most steps leave the record and the messages that are worked on alone. *)
LEMMA RecordStays ==
  ASSUME RecordInv, UNCHANGED <<written, buffer, logged, lost>>, faults \subseteq faults',
         \A t \in Callers : pc[t] \in {"text", "print"} \/ pc'[t] \in {"text", "print"}
                              => pc'[t] = pc[t] /\ number'[t] = number[t]
  PROVE  RecordInv'
<1>1. Working' = Working /\ \A t \in Working : number'[t] = number[t]
  BY DEF Working
<1>2. Record' = Record /\ Recorded' = Recorded /\ Kept' = Kept
  BY DEF Record, Recorded, Kept
<1>3. AtWork'
  BY <1>1 DEF RecordInv, AtWork
<1>4. ASSUME Faithful PROVE Faithful'
  <2>1. {number'[t] : t \in Working'} = {number[t] : t \in Working}
    BY <1>1
  <2>2. Numbered(Record)' = Numbered(Record) /\ Whole(Record)'
    BY <1>2, <1>4 DEF Numbered, Whole, Faithful
  <2>3. \A t \in Callers : pc'[t] = "text" <=> pc[t] = "text"
    OBVIOUS
  <2>4. Odd(Len(Record))' <=> \E t \in Callers : pc'[t] = "text"
    BY <1>2, <1>4, <2>3 DEF Faithful, Odd
  <2>5. ~ Odd(Len(written))'
    BY <1>4 DEF Faithful, Odd
  <2>6. (Numbered(Record) = Kept \cup {number[t] : t \in Working})'
    BY <1>2, <1>4, <2>1, <2>2 DEF Faithful
  <2>7. \A t \in Callers :
          /\ pc'[t] = "text" => buffer' # << >> /\ buffer'[Len(buffer')] = Heading(number'[t])
          /\ pc'[t] = "print" => /\ buffer' # << >> /\ buffer'[Len(buffer')] = Text(number'[t])
                                /\ number'[t] \notin Recorded'
    BY <1>2, <1>4 DEF Faithful
  <2> QED
    BY <2>2, <2>4, <2>5, <2>6, <2>7 DEF Faithful
<1> QED
  BY <1>3, <1>4 DEF RecordInv

LEMMA InitRecord == Init => RecordInv
<1> SUFFICES ASSUME Init PROVE RecordInv
  OBVIOUS
<1>1. written = << >> /\ buffer = << >> /\ logged = << >> /\ lost = {}
  BY DEF Init
<1>2. Working = {} /\ \A t \in Callers : pc[t] \notin {"text", "print"}
  BY DEF Init, Idle, Working, Threads
<1>3. Record = << >> /\ Len(<< >>) = 0
  BY <1>1, EmptySeq, ConcatEmptySeq DEF Record
<1>4. Recorded = {} /\ Kept = {}
  BY <1>1, <1>3 DEF Recorded, Kept
<1>5. Whole(Record) /\ Numbered(Record) = {}
  BY <1>3 DEF Whole, Numbered
<1>6. ~ Odd(0)
  BY DEF Odd
<1>7. Faithful
  BY <1>1, <1>2, <1>3, <1>4, <1>5, <1>6 DEF Faithful
<1> QED
  BY <1>1, <1>2, <1>7 DEF RecordInv, AtWork

(* A heading is pushed: its message is the last of the record. *)
LEMMA RecordWithHeading ==
  ASSUME EInv, RecordInv, NEW t \in Callers, PushHead(t)
  PROVE  RecordInv'
<1>1. PICK m \in Nat : m = Len(logged) + 1
  BY LoggedIs
<1>2. PICK l \in Levels : logged' = Append(logged, l)
  BY DEF PushHead
<1>3. /\ pc[t] = "head" /\ pc' = [pc EXCEPT ![t] = "text"]
      /\ number' = [number EXCEPT ![t] = m] /\ buffer' = Append(buffer, Heading(m))
      /\ written' = written /\ lost' = lost /\ faults' = faults
  BY <1>1 DEF PushHead
<1>4. Working = {} /\ \A u \in Callers : pc[u] \notin {"text", "print"}
  BY <1>3, WorksAlone DEF Working, Threads
<1>5. Working' = {t} /\ number'[t] = m
      /\ \A u \in Callers : (pc'[u] = "text" => u = t) /\ pc'[u] # "print"
  <2>1. pc'[t] = "text" /\ \A u \in Callers : u # t => pc'[u] = pc[u]
    BY <1>3, CallersPlaces DEF Threads
  <2>2. number'[t] = m
    BY <1>3, CallersPlaces
  <2> QED
    BY <1>4, <2>1, <2>2 DEF Working
<1>6. Len(logged') = m /\ \A n \in 1 .. m - 1 : logged'[n] = logged[n]
  BY <1>1, <1>2, LoggedIs, AppendProperties
<1>7. AtWork'
  BY <1>1, <1>3, <1>5, <1>6 DEF RecordInv, AtWork
<1>8. ASSUME Faithful PROVE Faithful'
  <2>1. Record \in Seq(Pieces) /\ Whole(Record) /\ ~ Odd(Len(Record)) /\ Numbered(Record) = Kept
    BY <1>4, <1>8, RecordIs DEF Faithful
  <2>2. \A i \in 1 .. Len(Record) : Record[i][1] < m
    <3> SUFFICES ASSUME NEW i \in 1 .. Len(Record) PROVE Record[i][1] < m
      OBVIOUS
    <3>1. Record[i][1] \in Kept
      BY <2>1 DEF Numbered
    <3> QED
      BY <1>1, <3>1, LoggedIs DEF Kept
  <2>3. Record' = Append(Record, Heading(m))
    <3>1. written \in Seq(Pieces) /\ buffer \in Seq(Pieces) /\ Heading(m) \in Pieces
      BY PiecesOf DEF EInv, LInv
    <3>2. Append(buffer, Heading(m)) = buffer \o <<Heading(m)>> /\ <<Heading(m)>> \in Seq(Pieces)
      BY <3>1, AppendIsConcat
    <3>3. Append(Record, Heading(m)) = Record \o <<Heading(m)>>
      BY <2>1, <3>1, AppendIsConcat
    <3>4. (written \o buffer) \o <<Heading(m)>> = written \o (buffer \o <<Heading(m)>>)
      BY <3>1, <3>2, Associative
    <3> QED
      BY <1>3, <3>2, <3>3, <3>4 DEF Record
  <2>4. Whole(Record') /\ Odd(Len(Record')) /\ Numbered(Record') = Kept \cup {m}
    BY <2>1, <2>2, <2>3, WholeWithHeading
  <2>5. Kept' \cup {m} = Kept \cup {m}
    <3>1. \A n \in 1 .. m - 1 : n \in Recorded' <=> n \in Recorded
      BY <1>1, <1>6 DEF Recorded
    <3>2. Recorded' \subseteq (1 .. m - 1) \cup {m} /\ Recorded \subseteq 1 .. m - 1
      BY <1>1, <1>6 DEF Recorded
    <3> QED
      BY <1>3, <3>1, <3>2 DEF Kept
  <2>6. {number'[u] : u \in Working'} = {m}
    BY <1>5
  <2>7. buffer' # << >> /\ buffer'[Len(buffer')] = Heading(m)
    <3>1. buffer \in Seq(Pieces) /\ Heading(m) \in Pieces
      BY PiecesOf DEF EInv, LInv
    <3> QED
      BY <1>3, <3>1, AppendProperties
  <2>8. ~ Odd(Len(written')) /\ \E u \in Callers : pc'[u] = "text"
    BY <1>3, <1>5, <1>8 DEF Faithful, Working
  <2> QED
    BY <1>5, <2>4, <2>5, <2>6, <2>7, <2>8 DEF Faithful
<1> QED
  BY <1>3, <1>7, <1>8 DEF RecordInv

(* The text becomes the last piece of the record. *)
LEMMA TextPushed ==
  ASSUME EInv, NEW m \in Nat, Whole(Record), Odd(Len(Record)),
         buffer # << >>, buffer[Len(buffer)] = Heading(m), buffer' = Append(buffer, Text(m)),
         written' = written
  PROVE  /\ Whole(Record') /\ ~ Odd(Len(Record')) /\ Numbered(Record') = Numbered(Record)
         /\ buffer' # << >> /\ buffer'[Len(buffer')] = Text(m)
<1>1. written \in Seq(Pieces) /\ buffer \in Seq(Pieces) /\ Text(m) \in Pieces
  BY PiecesOf DEF EInv, LInv
<1>2. Record \in Seq(Pieces)
  BY RecordIs
<1>3. PICK w \in Nat, b \in Nat : w = Len(written) /\ b = Len(buffer)
  BY RecordIs
<1>4. b \in 1 .. b
  BY <1>1, <1>3, EmptySeq
<1>5. Record[Len(Record)] = Heading(m)
  BY <1>3, <1>4, RecordIs
<1>6. Record' = Append(Record, Text(m))
  <2>1. Append(buffer, Text(m)) = buffer \o <<Text(m)>> /\ <<Text(m)>> \in Seq(Pieces)
    BY <1>1, AppendIsConcat
  <2>2. Append(Record, Text(m)) = Record \o <<Text(m)>>
    BY <1>1, <1>2, AppendIsConcat
  <2>3. (written \o buffer) \o <<Text(m)>> = written \o (buffer \o <<Text(m)>>)
    BY <1>1, <2>1, Associative
  <2> QED
    BY <2>1, <2>2, <2>3 DEF Record
<1>7. buffer' # << >> /\ buffer'[Len(buffer')] = Text(m)
  BY <1>1, AppendProperties
<1> QED
  BY <1>2, <1>5, <1>6, <1>7, WholeWithText

(* The text follows; a message that is only printed may still be taken     *)
(* back, any other one is in the record for good.                          *)
LEMMA RecordWithText ==
  ASSUME EInv, RecordInv, NEW t \in Callers, PushText(t)
  PROVE  RecordInv'
<1>1. PICK m \in Nat : m = number[t]
  BY CallersPlaces
<1> DEFINE place == IF level(t) > LogLevel THEN "print" ELSE IF level(t) <= 3 THEN "flush" ELSE "wake"
<1>2. /\ pc[t] = "text" /\ pc' = [pc EXCEPT ![t] = place]
      /\ buffer' = Append(buffer, Text(m))
      /\ UNCHANGED <<number, logged, written, lost, faults>>
  BY <1>1 DEF PushText, history
<1>3. Working = {t} /\ \A u \in Callers : pc[u] = "text" => u = t
  BY <1>2, WorksAlone DEF Working, Threads
<1>4. pc'[t] = place /\ \A u \in Callers : u # t => pc'[u] = pc[u] /\ pc'[u] \notin {"text", "print"}
  BY <1>2, <1>3, CallersPlaces DEF Threads, Working
<1>5. m = Len(logged) /\ m > 0 /\ m \notin lost /\ m \in 1 .. Len(logged)
  BY <1>1, <1>3 DEF RecordInv, AtWork
<1>6. level(t) = logged[m] /\ logged[m] \in Nat /\ LogLevel \in Nat
  BY <1>1, <1>5, LoggedIs DEF level
<1>7. CASE level(t) > LogLevel
  <2>1. place = "print" /\ m \notin Recorded
    BY <1>6, <1>7 DEF Recorded
  <2>2. Working' = {t}
    BY <1>4, <2>1 DEF Working
  <2>3. Recorded' = Recorded /\ Kept' = Kept
    BY <1>2 DEF Recorded, Kept
  <2>4. AtWork'
    BY <1>1, <1>2, <1>5, <2>2 DEF RecordInv, AtWork
  <2>5. ASSUME Faithful PROVE Faithful'
    <3>1. /\ Record \in Seq(Pieces) /\ Whole(Record) /\ Odd(Len(Record))
          /\ Numbered(Record) = Kept \cup {m} /\ buffer # << >> /\ buffer[Len(buffer)] = Heading(m)
      BY <1>1, <1>2, <1>3, <2>5, RecordIs DEF Faithful
    <3>2. Whole(Record') /\ ~ Odd(Len(Record')) /\ Numbered(Record') = Numbered(Record)
          /\ buffer' # << >> /\ buffer'[Len(buffer')] = Text(m)
      BY <1>2, <3>1, TextPushed
    <3>3. ~ Odd(Len(written')) /\ \A u \in Callers : pc'[u] # "text"
      BY <1>2, <1>4, <2>1, <2>5 DEF Faithful
    <3>4. {number'[u] : u \in Working'} = {m} /\ \A u \in Callers : pc'[u] = "print" => number'[u] = m
      BY <1>1, <1>2, <1>4, <2>2
    <3> QED
      BY <2>1, <2>3, <3>1, <3>2, <3>3, <3>4 DEF Faithful
  <2> QED
    BY <1>2, <2>4, <2>5 DEF RecordInv
<1>8. CASE ~ (level(t) > LogLevel)
  <2>1. place \in {"flush", "wake"} /\ m \in Recorded
    BY <1>5, <1>6, <1>8 DEF Recorded
  <2>2. Working' = {} /\ \A u \in Callers : pc'[u] \notin {"text", "print"}
    BY <1>4, <2>1 DEF Working
  <2>3. Kept' = Kept /\ m \in Kept
    BY <1>2, <1>5, <2>1 DEF Recorded, Kept
  <2>4. AtWork'
    BY <1>2, <2>2 DEF RecordInv, AtWork
  <2>5. ASSUME Faithful PROVE Faithful'
    <3>1. /\ Record \in Seq(Pieces) /\ Whole(Record) /\ Odd(Len(Record))
          /\ Numbered(Record) = Kept \cup {m} /\ buffer # << >> /\ buffer[Len(buffer)] = Heading(m)
      BY <1>1, <1>2, <1>3, <2>5, RecordIs DEF Faithful
    <3>2. Whole(Record') /\ ~ Odd(Len(Record')) /\ Numbered(Record') = Numbered(Record)
      BY <1>2, <3>1, TextPushed
    <3>3. ~ Odd(Len(written'))
      BY <1>2, <2>5 DEF Faithful
    <3> QED
      BY <2>2, <2>3, <3>1, <3>2, <3>3 DEF Faithful
  <2> QED
    BY <1>2, <2>4, <2>5 DEF RecordInv
<1> QED
  BY <1>7, <1>8

(* A message that is only printed leaves nothing behind. *)
LEMMA RecordWithout ==
  ASSUME EInv, RecordInv, NEW t \in Callers, PrintOnly(t)
  PROVE  RecordInv'
<1>1. PICK m \in Nat : m = number[t]
  BY CallersPlaces
<1>2. /\ pc[t] = "print" /\ pc' = [pc EXCEPT ![t] = "unlock"]
      /\ buffer' = SubSeq(buffer, 1, Len(buffer) - 2)
      /\ UNCHANGED <<number, logged, written, lost, faults>>
  BY DEF PrintOnly, history
<1>3. Working = {t} /\ \A u \in Callers : pc[u] # "text"
  BY <1>2, WorksAlone DEF Working, Threads
<1>4. Working' = {} /\ \A u \in Callers : pc'[u] \notin {"text", "print"}
  BY <1>2, <1>3, CallersPlaces DEF Threads, Working
<1>5. Kept' = Kept
  BY <1>2 DEF Recorded, Kept
<1>6. AtWork'
  BY <1>2, <1>4 DEF RecordInv, AtWork
<1>7. ASSUME Faithful PROVE Faithful'
  <2>1. /\ Whole(Record) /\ ~ Odd(Len(written)) /\ ~ Odd(Len(Record))
        /\ Numbered(Record) = Kept \cup {m} /\ m \notin Kept
        /\ buffer # << >> /\ buffer[Len(buffer)] = Text(m)
    BY <1>1, <1>2, <1>3, <1>7 DEF Faithful, Kept
  <2>2. PICK w \in Nat, b \in Nat : w = Len(written) /\ b = Len(buffer)
    BY RecordIs
  <2>3. Record \in Seq(Pieces) /\ Len(Record) = w + b /\ b # 0 /\ buffer \in Seq(Pieces)
    BY <2>1, <2>2, RecordIs, EmptySeq DEF EInv, LInv
  <2>4. b >= 2 /\ ~ Odd(w + b) /\ ~ Odd(w) /\ ~ Odd(b)
    <3>1. w \in Nat /\ b \in Nat /\ ~ Odd(w) /\ ~ Odd(w + b) /\ b # 0
      BY <2>1, <2>2, <2>3
    <3>2. ~ Odd(b)
      BY <3>1, OddSum
    <3> QED
      BY <3>1, <3>2, OddTwo
  <2>5. PICK k \in Nat : k + 2 = w + b
    BY <2>4
  <2>6. k <= Len(Record) /\ ~ Odd(k) /\ k >= w /\ k - w = b - 2 /\ Odd(k + 1) /\ w + b - 1 = k + 1
    BY <2>3, <2>4, <2>5 DEF Odd
  <2>7. Record[k + 2] = Text(m) /\ Record[k + 1][1] = m
    <3>1. Record[w + b] = Text(m)
      BY <2>1, <2>2, <2>3, RecordIs
    <3>2. k + 2 \in 1 .. Len(Record) /\ ~ Odd(k + 2) /\ (k + 2) - 1 = k + 1
      BY <2>3, <2>4, <2>5
    <3>3. Record[k + 2] = Text(Record[k + 1][1])
      BY <2>1, <3>2 DEF Whole
    <3> QED
      BY <2>5, <3>1, <3>3, NumberOfPiece
  <2>8. {Record[j][1] : j \in k + 1 .. Len(Record)} = {m}
    <3>1. k + 1 .. Len(Record) = {k + 1, k + 2}
      BY <2>3, <2>5
    <3>2. Record[k + 2][1] = m
      BY <2>7, NumberOfPiece
    <3> QED
      BY <2>7, <3>1, <3>2
  <2>9. Record' = SubSeq(Record, 1, k)
    <3>1. PICK x : x = SubSeq(buffer, 1, b - 2)
      OBVIOUS
    <3>2. x \in Seq(Pieces) /\ Len(x) = b - 2 /\ \A i \in 1 .. b - 2 : x[i] = buffer[i]
      <4>1. b - 2 \in Nat /\ \A i \in 1 .. b - 2 : i \in 1 .. b
        BY <2>4
      <4>2. \A i \in 1 .. b - 2 : buffer[i] \in Pieces
        BY <2>2, <2>3, <4>1, ElementOfSeq
      <4> QED
        BY <3>1, <4>1, <4>2
    <3>3. /\ written \o x \in Seq(Pieces) /\ Len(written \o x) = k
          /\ \A i \in 1 .. k : (written \o x)[i] = IF i <= w THEN written[i] ELSE x[i - w]
      <4>1. written \in Seq(Pieces) /\ Len(written) + Len(x) = k
        BY <2>2, <2>6, <3>2 DEF EInv, LInv
      <4> QED
        BY <2>2, <3>2, <4>1, ConcatProperties
    <3>4. PICK y : y = SubSeq(Record, 1, k)
      OBVIOUS
    <3>5. y \in Seq(Pieces) /\ Len(y) = k /\ \A i \in 1 .. k : y[i] = Record[i]
      <4>1. \A i \in 1 .. k : Record[i] \in Pieces
        BY <2>3, <2>6, ElementOfSeq
      <4> QED
        BY <3>4, <4>1
    <3>6. ASSUME NEW i \in 1 .. k PROVE (written \o x)[i] = y[i]
      <4>1. CASE i <= w
        <5>1. i \in 1 .. w
          BY <4>1
        <5>2. Record[i] = written[i]
          BY <2>2, <5>1, RecordIs
        <5>3. (written \o x)[i] = written[i] /\ y[i] = Record[i]
          BY <3>3, <3>5, <4>1
        <5> QED
          BY <5>2, <5>3
      <4>2. CASE i > w
        <5>1. PICK j \in 1 .. b - 2 : j = i - w
          BY <2>6, <4>2
        <5>2. j \in 1 .. b /\ w + j = i
          BY <5>1
        <5>3. Record[w + j] = buffer[j]
          BY <2>2, <5>2, RecordIs
        <5>4. (written \o x)[i] = x[i - w] /\ y[i] = Record[i]
          BY <3>3, <3>5, <4>2
        <5>5. x[j] = buffer[j] /\ Record[i] = buffer[j]
          BY <3>2, <5>2, <5>3
        <5>6. (written \o x)[i] = x[j]
          BY <5>1, <5>4
        <5> QED
          BY <5>4, <5>5, <5>6
      <4>3. i <= w \/ i > w
        OBVIOUS
      <4> QED
        BY <4>1, <4>2, <4>3, Zenon
    <3>7. written \o x = y
      BY <3>3, <3>5, <3>6, SeqEqual
    <3> QED
      BY <1>2, <2>2, <3>1, <3>4, <3>7 DEF Record
  <2>10. Whole(Record') /\ Len(Record') = k /\ Numbered(Record') = Kept
    <3>1. /\ Len(SubSeq(Record, 1, k)) = k /\ Whole(SubSeq(Record, 1, k))
          /\ Numbered(SubSeq(Record, 1, k)) = Numbered(Record) \ {Record[j][1] : j \in k + 1 .. Len(Record)}
      BY <2>1, <2>3, <2>6, WholePrefix
    <3>2. Numbered(Record) \ {m} = Kept
      BY <2>1
    <3> QED
      BY <2>8, <2>9, <3>1, <3>2
  <2>11. ~ Odd(Len(written'))
    BY <1>2, <2>1
  <2> QED
    BY <1>4, <1>5, <2>6, <2>10, <2>11 DEF Faithful
<1> QED
  BY <1>2, <1>6, <1>7 DEF RecordInv

(* A flush moves all of the buffer into the file, or nothing, unless it    *)
(* stops half way.                                                         *)
LEMMA RecordFlushed ==
  ASSUME EInv, RecordInv, NEW t \in Threads, flushBuffer(t)
  PROVE  RecordInv'
<1>1. pc[t] = "flush" /\ UNCHANGED <<number, logged, lost>> /\ faults \subseteq faults'
  BY DEF flushBuffer, OpenFile, Fails
<1>2. Working = {} /\ \A u \in Callers : pc[u] \notin {"text", "print"}
  BY <1>1, WorksAlone DEF Working, Threads
<1>3. Working' = {} /\ \A u \in Callers : pc'[u] \notin {"text", "print"}
  <2>1. \A u \in Callers : pc'[u] = pc[u] \/ pc'[u] \in {"clean", "sleep", "unlock"}
    BY CallersPlaces DEF flushBuffer, Flushed, Threads
  <2> QED
    BY <1>2, <2>1 DEF Working
<1>4. Kept' = Kept
  BY <1>1 DEF Recorded, Kept
<1>5. AtWork'
  BY <1>1, <1>3 DEF RecordInv, AtWork
<1>6. ASSUME "partial" \notin faults', Faithful PROVE Faithful'
  <2>1. Written(0) \/ Written(Len(buffer))
    <3>1. ~ Fails("partial")
      BY <1>6 DEF Fails
    <3> QED
      BY <3>1 DEF flushBuffer
  <2>2. written \in Seq(Pieces) /\ buffer \in Seq(Pieces) /\ Len(buffer) \in Nat
    BY LenProperties DEF EInv, LInv
  <2>3. SubSeq(buffer, 1, 0) = << >> /\ SubSeq(buffer, 1, Len(buffer)) = buffer
    BY <2>2, SubSeqEmpty, SubSeqFull
  <2>4. Whole(Record) /\ ~ Odd(Len(written)) /\ ~ Odd(Len(Record)) /\ Numbered(Record) = Kept
    BY <1>2, <1>6 DEF Faithful
  <2>5. Record' = Record /\ ~ Odd(Len(written'))
    <3>1. CASE Written(0)
      <4>1. written' = written \o << >> /\ buffer' = SubSeq(buffer, 1, Len(buffer) - 0)
        BY <2>3, <3>1 DEF Written
      <4>2. Len(buffer) - 0 = Len(buffer)
        BY <2>2
      <4>3. written' = written /\ buffer' = buffer
        BY <2>2, <2>3, <4>1, <4>2, ConcatEmptySeq
      <4> QED
        BY <2>4, <4>3 DEF Record
    <3>2. CASE Written(Len(buffer))
      <4>1. written' = written \o buffer /\ buffer' = SubSeq(buffer, 1, Len(buffer) - Len(buffer))
        BY <2>3, <3>2 DEF Written
      <4>2. Len(buffer) - Len(buffer) = 0
        BY <2>2
      <4>3. buffer' = << >> /\ written' = Record
        BY <2>3, <4>1, <4>2 DEF Record
      <4>4. Record \o << >> = Record
        BY RecordIs, ConcatEmptySeq
      <4> QED
        BY <2>4, <4>3, <4>4 DEF Record
    <3> QED
      BY <2>1, <3>1, <3>2
  <2> QED
    BY <1>3, <1>4, <2>4, <2>5 DEF Faithful
<1> QED
  BY <1>1, <1>5, <1>6 DEF RecordInv

(* The end of the process: what was written is the record that is left,    *)
(* and the messages of the buffer are the lost ones.                       *)
LEMMA RecordEnds ==
  ASSUME EInv, RecordInv, EndProcess, faults \subseteq faults'
  PROVE  RecordInv'
<1> DEFINE new == {n \in 1 .. Len(logged) : {Heading(n), Text(n)} \cap ToSet(buffer) # {}}
<1>1. /\ lost' = lost \cup new /\ buffer' = << >> /\ pc' = Idle
      /\ UNCHANGED <<logged, written>>
  BY DEF EndProcess
<1>2. Working' = {} /\ \A u \in Callers : pc'[u] \notin {"text", "print"}
  BY <1>1 DEF Idle, Working, Threads
<1>3. Recorded' = Recorded /\ Kept' = Kept \ new
  BY <1>1 DEF Recorded, Kept
<1>4. AtWork'
  <2>1. lost' \subseteq 1 .. Len(logged')
    BY <1>1 DEF RecordInv, AtWork
  <2> QED
    BY <1>2, <2>1 DEF AtWork
<1> HIDE DEF new
<1>5. ASSUME Faithful PROVE Faithful'
  <2>1. Whole(Record) /\ ~ Odd(Len(written)) /\ Numbered(Record) = Kept \cup {number[t] : t \in Working}
    BY <1>5 DEF Faithful
  <2>2. PICK w \in Nat, b \in Nat : w = Len(written) /\ b = Len(buffer)
    BY RecordIs
  <2>3. /\ Record \in Seq(Pieces) /\ Len(Record) = w + b
        /\ \A i \in 1 .. w : Record[i] = written[i]
        /\ \A i \in 1 .. b : Record[w + i] = buffer[i]
        /\ written \in Seq(Pieces) /\ buffer \in Seq(Pieces)
    BY <2>2, RecordIs DEF EInv, LInv
  <2> DEFINE B == {Record[j][1] : j \in w + 1 .. w + b}
  <2>4. SubSeq(Record, 1, w) = written
    <3>1. \A i \in 1 .. w : Record[i] \in Pieces
      BY <2>3, ElementOfSeq
    <3>2. PICK y : y = SubSeq(Record, 1, w)
      OBVIOUS
    <3>3. y \in Seq(Pieces) /\ Len(y) = w /\ \A i \in 1 .. w : y[i] = Record[i]
      BY <3>1, <3>2
    <3>4. y = written
      BY <2>2, <2>3, <3>3, SeqEqual
    <3> QED
      BY <3>2, <3>4
  <2>5. Whole(written) /\ Numbered(written) = Numbered(Record) \ B
    <3>1. w <= Len(Record) /\ ~ Odd(w)
      BY <2>1, <2>2, <2>3
    <3>2. /\ Whole(SubSeq(Record, 1, w))
          /\ Numbered(SubSeq(Record, 1, w)) = Numbered(Record) \ {Record[j][1] : j \in w + 1 .. Len(Record)}
      BY <2>1, <2>3, <3>1, WholePrefix
    <3> QED
      BY <2>3, <2>4, <3>2
  <2>6. ASSUME NEW j \in w + 1 .. w + b PROVE Record[j][1] \in new
    <3>1. PICK i \in 1 .. b : w + i = j
      <4>1. j - w \in 1 .. b /\ w + (j - w) = j
        OBVIOUS
      <4> QED
        BY <4>1
    <3>2. buffer[i] = Record[j] /\ buffer[i] \in ToSet(buffer)
      <4>1. buffer[i] = Record[j]
        BY <2>3, <3>1
      <4>2. i \in DOMAIN buffer
        BY <2>2, <2>3, <3>1, LenProperties
      <4> QED
        BY <4>1, <4>2 DEF ToSet
    <3>3. j \in 1 .. Len(Record)
      BY <2>3
    <3>4. Record[j] \in {Heading(Record[j][1]), Text(Record[j][1])}
      <4>1. CASE Odd(j)
        BY <2>1, <3>3, <4>1 DEF Whole
      <4>2. CASE ~ Odd(j)
        <5>1. Record[j] = Text(Record[j - 1][1])
          BY <2>1, <3>3, <4>2 DEF Whole
        <5> QED
          BY <5>1, NumberOfPiece
      <4> QED
        BY <4>1, <4>2
    <3>5. Record[j][1] \in 1 .. Len(logged)
      <4>1. Record[j][1] \in Kept \cup {number[t] : t \in Working}
        BY <2>1, <3>3 DEF Numbered
      <4>2. Kept \subseteq 1 .. Len(logged)
        BY LoggedIs DEF Kept
      <4>3. \A t \in Working : number[t] \in 1 .. Len(logged)
        BY LoggedIs DEF RecordInv, AtWork
      <4> QED
        BY <4>1, <4>2, <4>3
    <3> QED
      BY <3>2, <3>4, <3>5 DEF new
  <2>7. ASSUME NEW n \in new PROVE n \in B
    <3>1. PICK i \in 1 .. b : buffer[i] = Heading(n) \/ buffer[i] = Text(n)
      BY <2>2, <2>3 DEF new, ToSet
    <3>2. Record[w + i][1] = n
      BY <2>3, <3>1, NumberOfPiece
    <3>3. w + i \in w + 1 .. w + b
      OBVIOUS
    <3> QED
      BY <3>2, <3>3
  <2>8. B = new
    BY <2>6, <2>7
  <2>9. ASSUME NEW t \in Working PROVE number[t] \in B
    <3>1. buffer # << >> /\ (buffer[b] = Heading(number[t]) \/ buffer[b] = Text(number[t]))
      BY <1>5, <2>2 DEF Faithful, Working
    <3>2. b \in 1 .. b /\ w + b \in w + 1 .. w + b
      BY <2>2, <2>3, <3>1, EmptySeq
    <3>3. Record[w + b][1] = number[t]
      BY <2>3, <3>1, <3>2, NumberOfPiece
    <3> QED
      BY <3>2, <3>3
  <2> HIDE DEF B
  <2>10. Numbered(written) = Kept'
    BY <1>3, <2>1, <2>5, <2>8, <2>9
  <2>11. Record' = written
    <3>1. Record' = written \o << >>
      BY <1>1 DEF Record
    <3> QED
      BY <2>3, <3>1, ConcatEmptySeq
  <2> QED
    BY <1>1, <1>2, <2>1, <2>5, <2>10, <2>11 DEF Faithful
<1>6. "partial" \notin faults' => "partial" \notin faults
  OBVIOUS
<1> QED
  BY <1>4, <1>5, <1>6 DEF RecordInv

LEMMA RecordStep == EInv /\ RecordInv /\ [Next]_vars => RecordInv'
<1> SUFFICES ASSUME EInv, RecordInv, [Next]_vars PROVE RecordInv'
  OBVIOUS
<1> DEFINE Still ==
  /\ UNCHANGED <<written, buffer, logged, lost>> /\ faults \subseteq faults'
  /\ \A t \in Callers : pc[t] \in {"text", "print"} \/ pc'[t] \in {"text", "print"}
                          => pc'[t] = pc[t] /\ number'[t] = number[t]
<1> USE DEF Threads, disk, history
<1>0. pc \in [Threads -> CallerAt \cup WriterAt] /\ number \in [Callers -> 0 .. MaxMessages]
  BY CallersPlaces
<1>1. ASSUME LOG_CONFIG PROVE Still
  BY <1>1 DEF LOG_CONFIG
<1>2. ASSUME NEW t \in Callers, Call(t) PROVE Still
  BY <1>0, <1>2 DEF Call
<1>3. ASSUME NEW t \in Callers, CreateMutex(t) PROVE Still
  BY <1>0, <1>3 DEF CreateMutex
<1>4. ASSUME NEW t \in Threads, Lock(t) PROVE Still
  BY <1>0, <1>4 DEF Lock
<1>5. ASSUME NEW t \in Callers, WakeWriter(t) PROVE Still
  BY <1>0, <1>5, LogAssumption DEF WakeWriter, Fails
<1>6. ASSUME NEW t \in Threads, cleanDirectory(t) PROVE Still
  BY <1>0, <1>6 DEF cleanDirectory
<1>7. ASSUME NEW t \in Threads, Rename(t) PROVE Still
  BY <1>0, <1>7 DEF Rename, Flushed, Fails
<1>8. ASSUME NEW t \in Callers, UnlockCaller(t) PROVE Still
  BY <1>0, <1>8 DEF UnlockCaller
<1>9. ASSUME UnlockWriter PROVE Still
  BY <1>0, <1>9 DEF UnlockWriter
<1>10. ASSUME ClearThread PROVE Still
  BY <1>0, <1>10 DEF ClearThread
<1>11. ASSUME UNCHANGED vars PROVE Still
  BY <1>11 DEF vars, memory
<1>12. ASSUME Still PROVE RecordInv'
  BY <1>12, RecordStays
<1>13. ASSUME NEW t \in Callers, Exit(t) PROVE RecordInv'
  BY <1>13, RecordEnds DEF Exit
<1>14. ASSUME Crash PROVE RecordInv'
  BY <1>14, RecordEnds DEF Crash, Fails
<1> HIDE DEF Still
<1> QED
  BY <1>1, <1>2, <1>3, <1>4, <1>5, <1>6, <1>7, <1>8, <1>9, <1>10, <1>11, <1>12, <1>13, <1>14,
     RecordWithHeading, RecordWithText, RecordWithout, RecordFlushed
     DEF Next, WriterStep, CallerStep

(* The record, as the property states it. *)
LEMMA RecordIsFaithful ==
  ASSUME EInv, RecordInv
  PROVE  RecordFaithful
<1> SUFFICES ASSUME "partial" \notin faults, ~ Formatting
    PROVE  /\ Len(Record) % 2 = 0
           /\ \A i \in 1 .. Len(Record) \div 2 :
                Record[2 * i - 1] = Heading(Record[2 * i][1]) /\ Record[2 * i][2] = "text"
           /\ \A i, j \in DOMAIN Record :
                i < j => Record[i] # Record[j] /\ Record[i][1] <= Record[j][1]
           /\ ToSet(Record) = {Heading(n) : n \in Kept} \cup {Text(n) : n \in Kept}
  BY DEF RecordFaithful, Record, Kept
<1>1. Working = {} /\ \A t \in Callers : pc[t] # "text"
  BY DEF Formatting, Working
<1>2. Whole(Record) /\ ~ Odd(Len(Record)) /\ Numbered(Record) = Kept
  BY <1>1 DEF RecordInv, Faithful
<1>3. PICK r \in Seq(Pieces) : r = Record
  BY RecordIs
<1>4. PICK n \in Nat : n = Len(r)
  BY LenProperties
<1>5. /\ \A i \in 1 .. n : r[i] = IF Odd(i) THEN Heading(r[i][1]) ELSE Text(r[i - 1][1])
      /\ \A i, j \in 1 .. n : i < j => r[i][1] <= r[j][1]
      /\ \A i, j \in 1 .. n : i < j /\ Odd(j) => r[i][1] < r[j][1]
      /\ ~ Odd(n) /\ {r[i][1] : i \in 1 .. n} = Kept
  BY <1>2, <1>3, <1>4 DEF Whole, Numbered
<1>6. ASSUME NEW i \in 1 .. n, ~ Odd(i)
      PROVE  i - 1 \in 1 .. n /\ r[i - 1] = Heading(r[i][1]) /\ r[i] = Text(r[i][1])
  <2>1. i - 1 \in 1 .. n /\ Odd(i - 1)
    BY <1>6 DEF Odd
  <2>2. r[i] = Text(r[i - 1][1]) /\ r[i - 1] = Heading(r[i - 1][1])
    BY <1>5, <1>6, <2>1
  <2>3. r[i][1] = r[i - 1][1]
    BY <2>2, NumberOfPiece
  <2> QED
    BY <2>1, <2>2, <2>3
<1>7. ASSUME NEW i \in 1 .. n, Odd(i)
      PROVE  r[i] = Heading(r[i][1]) /\ i + 1 \in 1 .. n /\ r[i + 1] = Text(r[i][1])
  <2>1. i + 1 \in 1 .. n /\ ~ Odd(i + 1) /\ (i + 1) - 1 = i
    BY <1>5, <1>7 DEF Odd
  <2>2. r[i + 1] = IF Odd(i + 1) THEN Heading(r[i + 1][1]) ELSE Text(r[(i + 1) - 1][1])
    BY <1>5, <2>1
  <2> QED
    BY <1>5, <1>7, <2>1, <2>2
<1>8. n % 2 = 0
  BY <1>5 DEF Odd
<1>9. ASSUME NEW i \in 1 .. n \div 2
      PROVE  r[2 * i - 1] = Heading(r[2 * i][1]) /\ r[2 * i][2] = "text"
  <2>1. PICK k \in 1 .. n : k = 2 * i
    <3>1. 2 * i \in 1 .. n
      OBVIOUS
    <3> QED
      BY <3>1
  <2>2. ~ Odd(k)
    BY <2>1 DEF Odd
  <2>3. r[k - 1] = Heading(r[k][1]) /\ r[k] = Text(r[k][1])
    BY <1>6, <2>2
  <2> QED
    BY <2>1, <2>3, NumberOfPiece
<1>10. ASSUME NEW i \in 1 .. n, NEW j \in 1 .. n, i < j
       PROVE  r[i] # r[j] /\ r[i][1] <= r[j][1]
  <2>0. r[i][1] \in Nat /\ r[j][1] \in Nat
    BY <1>4, NumberOf
  <2>1. r[i][1] <= r[j][1]
    BY <1>5, <1>10
  <2>2. CASE Odd(j)
    <3>1. r[i][1] < r[j][1]
      BY <1>5, <1>10, <2>2
    <3>2. r[i][1] # r[j][1]
      BY <2>0, <3>1
    <3> QED
      BY <2>1, <3>2
  <2>3. CASE ~ Odd(j) /\ Odd(i)
    <3>1. r[j] = Text(r[j][1]) /\ r[i] = Heading(r[i][1])
      BY <1>6, <1>7, <2>3
    <3>2. r[j][2] = "text" /\ r[i][2] = "head"
      BY <3>1, NumberOfPiece
    <3> QED
      BY <2>1, <3>2
  <2>4. CASE ~ Odd(j) /\ ~ Odd(i)
    <3>1. PICK l \in 1 .. n : l = j - 1
      BY <1>6, <2>4
    <3>2. Odd(l) /\ i < l
      BY <1>10, <2>4, <3>1 DEF Odd
    <3>3. r[i][1] < r[l][1]
      BY <1>5, <3>2
    <3>4. r[j] = Text(r[l][1])
      BY <1>5, <2>4, <3>1
    <3>5. r[j][1] = r[l][1]
      BY <3>4, NumberOfPiece
    <3>6. r[i][1] # r[j][1]
      BY <2>0, <3>3, <3>5
    <3> QED
      BY <2>1, <3>6
  <2> QED
    BY <2>2, <2>3, <2>4
<1>11. ASSUME NEW i \in 1 .. n
       PROVE  r[i] \in {Heading(m) : m \in Kept} \cup {Text(m) : m \in Kept}
  <2>1. r[i][1] \in Kept
    BY <1>5
  <2>2. r[i] = Heading(r[i][1]) \/ r[i] = Text(r[i][1])
    BY <1>6, <1>7
  <2> QED
    BY <2>1, <2>2
<1>12. ASSUME NEW m \in Kept
       PROVE  \E i, j \in 1 .. n : r[i] = Heading(m) /\ r[j] = Text(m)
  <2>1. PICK i \in 1 .. n : r[i][1] = m
    BY <1>5
  <2>2. CASE Odd(i)
    BY <1>7, <2>1, <2>2
  <2>3. CASE ~ Odd(i)
    BY <1>6, <2>1, <2>3
  <2> QED
    BY <2>2, <2>3
<1>13. ToSet(r) = {r[i] : i \in 1 .. n} /\ DOMAIN r = 1 .. n
  BY <1>4, LenProperties DEF ToSet
<1>14. {r[i] : i \in 1 .. n} = {Heading(m) : m \in Kept} \cup {Text(m) : m \in Kept}
  <2>1. \A x \in {r[i] : i \in 1 .. n} : x \in {Heading(m) : m \in Kept} \cup {Text(m) : m \in Kept}
    BY <1>11
  <2>2. \A m \in Kept : Heading(m) \in {r[i] : i \in 1 .. n} /\ Text(m) \in {r[i] : i \in 1 .. n}
    BY <1>12, Zenon
  <2> QED
    BY <2>1, <2>2
<1> QED
  BY <1>3, <1>4, <1>8, <1>9, <1>10, <1>13, <1>14

(* What was written and what is buffered is one record of whole messages,  *)
(* each once and in the order of logging, without those that are only      *)
(* printed and those that were in memory when the process ended, for any   *)
(* callers, levels and sizes, as long as no write stops half way (_log,    *)
(* flushBuffer and writeThread, lines 87-301).                             *)
THEOREM TheRecordIsFaithful == Spec => []RecordFaithful
<1> QED
  BY InitErrors, StepErrors, InitRecord, RecordStep, RecordIsFaithful, PTL DEF Spec
=============================================================================
