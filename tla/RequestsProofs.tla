---------------------------- MODULE RequestsProofs ----------------------------
(***************************************************************************)
(* How texts are cut, what mrhc_query makes of any address, and what the   *)
(* VNC server is told of a click, a key or a poll.                         *)
(***************************************************************************)
EXTENDS Requests, SequenceTheorems, WellFoundedInduction, TLAPS

-----------------------------------------------------------------------------

(***************************************************************************)
(* Induction over the naturals, with a set for the statement.              *)
(***************************************************************************)

LEMMA LessThanWellFounded == IsWellFoundedOn({p \in Nat \X Nat : p[1] < p[2]}, Nat)
  BY NatLessThanWellFounded DEF OpToRel

LEMMA LeastElement ==
  ASSUME NEW T, T \subseteq Nat, T # {}
  PROVE  \E x \in T : \A y \in T : x <= y
<1> DEFINE R == {p \in Nat \X Nat : p[1] < p[2]}
<1>1. IsWellFoundedOn(R, Nat)
  BY LessThanWellFounded
<1>2. \A x, y \in Nat : y < x => <<y, x>> \in R
  OBVIOUS
<1> HIDE DEF R
<1>3. PICK x \in T : \A y \in T : ~ (<<y, x>> \in R)
  BY <1>1, WFMin
<1>4. \A y \in T : ~(y < x)
  BY <1>2, <1>3, Zenon
<1> QED
  BY <1>4

LEMMA SetInduction ==
  ASSUME NEW S, 0 \in S, \A n \in Nat : n \in S => n + 1 \in S
  PROVE  Nat \subseteq S
<1> SUFFICES ASSUME ~(Nat \subseteq S) PROVE FALSE
  OBVIOUS
<1>1. PICK x \in Nat \ S : \A y \in Nat \ S : x <= y
  BY LeastElement
<1>2. x # 0 /\ x - 1 \in Nat
  BY <1>1
<1>3. x - 1 \in S
  BY <1>1, <1>2
<1> QED
  BY <1>1, <1>2, <1>3

\* The same for sequences: a set with the empty one and, with each, those that are one
\* longer, has them all.
LEMMA SeqInduction ==
  ASSUME NEW T, NEW S, <<>> \in S,
         \A s \in Seq(T), e \in T : s \in S => Append(s, e) \in S
  PROVE  Seq(T) \subseteq S
<1> DEFINE N == {n \in Nat : \A s \in Seq(T) : Len(s) = n => s \in S}
<1>1. 0 \in N
  BY EmptySeq
<1>2. ASSUME NEW n \in Nat, n \in N PROVE n + 1 \in N
  <2> SUFFICES ASSUME NEW s \in Seq(T), Len(s) = n + 1 PROVE s \in S
    OBVIOUS
  <2>1. s # <<>>
    BY EmptySeq
  <2>2. PICK t \in Seq(T), e \in T : s = Append(t, e)
    BY <2>1, SequenceEmptyOrAppend
  <2>3. Len(s) = Len(t) + 1 /\ Len(t) \in Nat
    BY <2>2, AppendProperties, LenProperties
  <2>4. Len(t) = n
    BY <2>3
  <2>5. t \in S
    BY <1>2, <2>4
  <2> QED
    BY <2>2, <2>5
<1> HIDE DEF N
<1>3. Nat \subseteq N
  BY <1>1, <1>2, SetInduction
<1>4. ASSUME NEW s \in Seq(T) PROVE s \in S
  <2>1. Len(s) \in N
    BY <1>3, LenProperties
  <2> QED
    BY <2>1 DEF N
<1> QED
  BY <1>4

\* Two functions that start alike and go on alike end alike.
LEMMA SameBySteps ==
  ASSUME NEW f, NEW g, NEW n \in Nat, f[0] = g[0],
         \A i \in 1..n : f[i - 1] = g[i - 1] => f[i] = g[i]
  PROVE  \A i \in 0..n : f[i] = g[i]
<1> DEFINE S == {i \in Nat : i <= n => f[i] = g[i]}
<1>1. 0 \in S
  OBVIOUS
<1>2. ASSUME NEW i \in Nat, i \in S PROVE i + 1 \in S
  <2> SUFFICES ASSUME i + 1 <= n PROVE f[i + 1] = g[i + 1]
    OBVIOUS
  <2>1. i + 1 \in 1..n /\ i <= n /\ (i + 1) - 1 = i
    OBVIOUS
  <2> QED
    BY <1>2, <2>1
<1> HIDE DEF S
<1>3. Nat \subseteq S
  BY <1>1, <1>2, SetInduction
<1> QED
  BY <1>3 DEF S

\* A function of a sequence defined from its value for what comes before each element.
Folds(f, base, step, s) ==
  f = [n \in 0..Len(s) |-> IF n = 0 THEN base ELSE step[<<f[n - 1], s[n]>>]]

\* There is one.
LEMMA FoldExists ==
  ASSUME NEW T, NEW E, NEW base \in T, NEW step \in [T \X E -> T], NEW s \in Seq(E)
  PROVE  \E f \in [0..Len(s) -> T] : Folds(f, base, step, s)
<1> DEFINE S == {t \in Seq(E) : \E f \in [0..Len(t) -> T] : Folds(f, base, step, t)}
<1>1. <<>> \in S
  <2> DEFINE f == [n \in 0..0 |-> base]
  <2>1. f \in [0..0 -> T] /\ f = [n \in 0..0 |-> IF n = 0 THEN base ELSE step[<<f[n - 1], <<>>[n]>>]]
    OBVIOUS
  <2>2. Len(<<>>) = 0 /\ <<>> \in Seq(E)
    BY EmptySeq
  <2> HIDE DEF f
  <2> QED
    BY <2>1, <2>2 DEF Folds
<1>2. ASSUME NEW t \in Seq(E), NEW e \in E, t \in S PROVE Append(t, e) \in S
  <2>1. PICK f \in [0..Len(t) -> T] : Folds(f, base, step, t)
    BY <1>2
  <2> DEFINE u == Append(t, e)
             m == Len(t)
  <2>2. /\ u \in Seq(E) /\ Len(u) = m + 1 /\ m \in Nat
        /\ \A i \in 1..m : u[i] = t[i] /\ t[i] \in E
        /\ u[m + 1] = e
    BY AppendProperties, LenProperties, ElementOfSeq
  <2> DEFINE more == step[<<f[m], e>>]
             g == [n \in 0..m + 1 |-> IF n <= m THEN f[n] ELSE more]
  <2>3. f[m] \in T /\ more \in T
    BY <2>2
  <2>4. /\ \A n \in 0..m : g[n] = f[n]
        /\ g[m + 1] = more
        /\ g \in [0..m + 1 -> T]
    BY <2>2, <2>3
  <2>5. \A n \in 0..m : f[n] = IF n = 0 THEN base ELSE step[<<f[n - 1], t[n]>>]
    BY <2>1 DEF Folds
  <2>6. DOMAIN g = 0..m + 1 /\ g = [n \in 0..m + 1 |-> g[n]]
    OBVIOUS
  <2> HIDE DEF g, u, m
  <2>7. ASSUME NEW n \in 0..m + 1
        PROVE  g[n] = IF n = 0 THEN base ELSE step[<<g[n - 1], u[n]>>]
    <3>1. CASE n = 0
      <4>1. 0 \in 0..m
        BY <2>2
      <4> QED
        BY <2>4, <2>5, <3>1, <4>1
    <3>2. CASE n \in 1..m
      <4>1. n \in 0..m /\ n - 1 \in 0..m /\ n # 0
        BY <2>2, <3>2
      <4>2. g[n] = f[n] /\ g[n - 1] = f[n - 1] /\ u[n] = t[n]
        BY <2>2, <2>4, <3>2, <4>1
      <4>3. f[n] = step[<<f[n - 1], t[n]>>]
        BY <2>5, <4>1
      <4> QED
        BY <4>1, <4>2, <4>3
    <3>3. CASE n = m + 1
      <4>1. m \in 0..m /\ n - 1 = m /\ n # 0
        BY <2>2, <3>3
      <4>2. g[n - 1] = f[m] /\ u[n] = e
        BY <2>2, <2>4, <3>3, <4>1
      <4> QED
        BY <2>4, <3>3, <4>1, <4>2 DEF m
    <3> QED
      BY <2>2, <3>1, <3>2, <3>3
  <2>8. g = [n \in 0..m + 1 |-> IF n = 0 THEN base ELSE step[<<g[n - 1], u[n]>>]]
    BY <2>6, <2>7
  <2>9. Folds(g, base, step, u) /\ g \in [0..Len(u) -> T]
    BY <2>2, <2>4, <2>8 DEF Folds
  <2> QED
    BY <2>2, <2>9 DEF u
<1> HIDE DEF S
<1>3. Seq(E) \subseteq S
  BY <1>1, <1>2, SeqInduction
<1> QED
  BY <1>3 DEF S

-----------------------------------------------------------------------------

(***************************************************************************)
(* Cutting a text.                                                         *)
(***************************************************************************)

\* The items of a text: at least one.
Texts(T) == {items \in Seq(Seq(T)) : items # <<>>}

LEMMA TextsParts ==
  ASSUME NEW T, NEW items \in Texts(T)
  PROVE  /\ Front(items) \in Seq(Seq(T))
         /\ Last(items) \in Seq(T)
         /\ items = Append(Front(items), Last(items))
<1>1. PICK t \in Seq(Seq(T)), e \in Seq(T) : items = Append(t, e)
  BY SequenceEmptyOrAppend DEF Texts
<1>2. /\ Len(items) = Len(t) + 1 /\ Len(t) \in Nat
      /\ \A i \in 1..Len(t) : items[i] = t[i]
      /\ items[Len(t) + 1] = e
  BY <1>1, AppendProperties, LenProperties
<1>3. Last(items) = e
  BY <1>2 DEF Last
<1>4. Front(items) = SubSeq(items, 1, Len(t))
  BY <1>2 DEF Front
<1>5. items \in Seq(Seq(T))
  BY DEF Texts
<1>6. SubSeq(items, 1, Len(t)) = t
  <2>1. \A i \in 1..Len(t) : SubSeq(items, 1, Len(t))[i] = items[i]
    BY <1>2, <1>5
  <2>2. /\ SubSeq(items, 1, Len(t)) \in Seq(Seq(T))
        /\ Len(SubSeq(items, 1, Len(t))) = Len(t)
    BY <1>2, <1>5
  <2> QED
    BY <1>2, <2>1, <2>2, SeqEqual
<1> QED
  BY <1>1, <1>3, <1>4, <1>6

LEMMA TextsAppend ==
  ASSUME NEW T, NEW q \in Seq(Seq(T)), NEW e \in Seq(T)
  PROVE  Append(q, e) \in Texts(T) /\ Front(Append(q, e)) = q /\ Last(Append(q, e)) = e
<1>1. Append(q, e) \in Texts(T)
  BY AppendProperties DEF Texts
<1>2. /\ Append(q, e) = Append(Front(Append(q, e)), Last(Append(q, e)))
      /\ Front(Append(q, e)) \in Seq(Seq(T)) /\ Last(Append(q, e)) \in Seq(T)
  BY <1>1, TextsParts
<1> QED
  BY <1>1, <1>2, AppendInjective

LEMMA CutTyped ==
  ASSUME NEW T, NEW items \in Texts(T), NEW token \in T, NEW delim
  PROVE  Cut(items, token, delim) \in Texts(T)
<1>1. <<>> \in Seq(T) /\ items \in Seq(Seq(T))
  BY EmptySeq DEF Texts
<1>2. Append(items, <<>>) \in Texts(T)
  BY <1>1, TextsAppend
<1>3. Append(Last(items), token) \in Seq(T)
  BY TextsParts, AppendProperties
<1>4. Append(Front(items), Append(Last(items), token)) \in Texts(T)
  BY <1>3, TextsParts, TextsAppend
<1> QED
  BY <1>2, <1>4 DEF Cut

\* The function by which Items is defined.
IsItems(f, s, delim) ==
  f = [n \in 0..Len(s) |-> IF n = 0 THEN << <<>> >> ELSE Cut(f[n - 1], s[n], delim)]

Follows(f, s, m, delim) ==
  \A n \in 0..m : f[n] = IF n = 0 THEN << <<>> >> ELSE Cut(f[n - 1], s[n], delim)

Alike(f, g, m, n) == \A i \in m..n : f[i] = g[i]

\* Two functions that follow the same tokens are the same.
LEMMA FollowsAlike ==
  ASSUME NEW f, NEW g, NEW s, NEW u, NEW delim, NEW m \in Nat,
         Alike(s, u, 1, m), Follows(f, s, m, delim), Follows(g, u, m, delim)
  PROVE  Alike(f, g, 0, m)
<1>1. 0 \in 0..m
  OBVIOUS
<1>2. f[0] = g[0]
  BY <1>1 DEF Follows
<1>3. ASSUME NEW n \in 1..m, f[n - 1] = g[n - 1] PROVE f[n] = g[n]
  <2>1. n \in 0..m /\ n # 0
    OBVIOUS
  <2> QED
    BY <1>3, <2>1 DEF Follows, Alike
<1> QED
  BY <1>2, <1>3, SameBySteps DEF Alike

LEMMA ItemsFunction ==
  ASSUME NEW T, NEW s \in Seq(T), NEW delim
  PROVE  \E f \in [0..Len(s) -> Texts(T)] : IsItems(f, s, delim) /\ Items(s, delim) = f[Len(s)]
<1> DEFINE step == [p \in Texts(T) \X T |-> Cut(p[1], p[2], delim)]
<1>1. \A items \in Texts(T), token \in T : step[<<items, token>>] = Cut(items, token, delim)
  OBVIOUS
<1>2. step \in [Texts(T) \X T -> Texts(T)]
  BY CutTyped
<1>3. << <<>> >> \in Texts(T)
  BY EmptySeq DEF Texts
<1> HIDE DEF step
<1>4. PICK f \in [0..Len(s) -> Texts(T)] : Folds(f, << <<>> >>, step, s)
  BY <1>2, <1>3, FoldExists
<1>5. Len(s) \in Nat /\ \A n \in 1..Len(s) : s[n] \in T
  BY LenProperties, ElementOfSeq
<1>6. /\ f[0] = << <<>> >>
      /\ \A n \in 1..Len(s) : f[n] = step[<<f[n - 1], s[n]>>]
  <2>1. f = [n \in 0..Len(s) |-> IF n = 0 THEN << <<>> >> ELSE step[<<f[n - 1], s[n]>>]]
    BY <1>4 DEF Folds
  <2>2. ASSUME NEW n \in 0..Len(s)
        PROVE  f[n] = IF n = 0 THEN << <<>> >> ELSE step[<<f[n - 1], s[n]>>]
    BY <2>1
  <2>3. 0 \in 0..Len(s) /\ \A n \in 1..Len(s) : n \in 0..Len(s) /\ n # 0
    BY <1>5
  <2> QED
    BY <2>2, <2>3
<1>7. ASSUME NEW n \in 1..Len(s) PROVE f[n] = Cut(f[n - 1], s[n], delim)
  <2>1. n - 1 \in 0..Len(s)
    BY <1>5
  <2>2. f[n - 1] \in Texts(T)
    BY <2>1
  <2> QED
    BY <1>1, <1>5, <1>6, <2>2
<1>8. IsItems(f, s, delim)
  <2>1. ASSUME NEW n \in 0..Len(s)
        PROVE  f[n] = IF n = 0 THEN << <<>> >> ELSE Cut(f[n - 1], s[n], delim)
    <3>1. n = 0 \/ n \in 1..Len(s)
      BY <1>5
    <3> QED
      BY <1>5, <1>6, <1>7, <3>1
  <2>2. f = [n \in 0..Len(s) |-> f[n]]
    OBVIOUS
  <2> QED
    BY <2>1, <2>2 DEF IsItems
<1>9. PICK g : IsItems(g, s, delim) /\ Items(s, delim) = g[Len(s)]
  BY <1>8 DEF Items, IsItems
<1>10. Follows(f, s, Len(s), delim) /\ Follows(g, s, Len(s), delim)
  BY <1>8, <1>9 DEF IsItems, Follows
<1>11. Alike(f, g, 0, Len(s))
  <2>1. Alike(s, s, 1, Len(s))
    BY DEF Alike
  <2> QED
    BY <1>5, <1>10, <2>1, FollowsAlike, Zenon
<1>12. Len(s) \in 0..Len(s)
  BY <1>5
<1> QED
  BY <1>8, <1>9, <1>11, <1>12 DEF Alike

LEMMA ItemsTyped ==
  ASSUME NEW T, NEW s \in Seq(T), NEW delim PROVE Items(s, delim) \in Texts(T)
<1>1. Len(s) \in 0..Len(s)
  BY LenProperties
<1> QED
  BY <1>1, ItemsFunction

\* The empty text is one empty item.
LEMMA ItemsEmpty == ASSUME NEW delim PROVE Items(<<>>, delim) = << <<>> >>
<1> DEFINE T == {0}
<1>1. <<>> \in Seq(T) /\ Len(<<>>) = 0
  BY EmptySeq
<1> HIDE DEF T
<1>2. PICK f \in [0..Len(<<>>) -> Texts(T)] : IsItems(f, <<>>, delim) /\ Items(<<>>, delim) = f[Len(<<>>)]
  BY <1>1, ItemsFunction
<1>3. f = [n \in 0..0 |-> IF n = 0 THEN << <<>> >> ELSE Cut(f[n - 1], <<>>[n], delim)]
  BY <1>1, <1>2 DEF IsItems
<1>4. 0 \in 0..0
  OBVIOUS
<1>5. f[0] = << <<>> >>
  BY <1>3, <1>4
<1> QED
  BY <1>1, <1>2, <1>5

\* What one more token does to the items of a text.
LEMMA ItemsAppend ==
  ASSUME NEW T, NEW s \in Seq(T), NEW token \in T, NEW delim
  PROVE  Items(Append(s, token), delim) = Cut(Items(s, delim), token, delim)
<1> DEFINE u == Append(s, token)
<1>0. PICK m \in Nat : m = Len(s)
  BY LenProperties
<1>1. /\ u \in Seq(T) /\ m \in Nat /\ Len(u) = m + 1 /\ u[m + 1] = token
      /\ \A i \in 1..m : u[i] = s[i]
  <2>2. /\ u \in Seq(T) /\ Len(u) = m + 1 /\ u[m + 1] = token
        /\ \A i \in 1..m : u[i] = s[i]
    BY <1>0, AppendProperties
  <2> QED
    BY <2>2
<1>2. PICK f \in [0..m -> Texts(T)] : IsItems(f, s, delim) /\ Items(s, delim) = f[m]
  BY <1>0, ItemsFunction
<1>3. PICK g \in [0..m + 1 -> Texts(T)] : IsItems(g, u, delim) /\ Items(u, delim) = g[m + 1]
  <2> HIDE DEF u
  <2>1. PICK g \in [0..Len(u) -> Texts(T)] : IsItems(g, u, delim) /\ Items(u, delim) = g[Len(u)]
    BY <1>1, ItemsFunction
  <2> QED
    BY <1>1, <2>1
<1> HIDE DEF u
<1>4. \A n \in 0..m : f[n] = IF n = 0 THEN << <<>> >> ELSE Cut(f[n - 1], s[n], delim)
  BY <1>0, <1>2 DEF IsItems
<1>5. \A n \in 0..m + 1 : g[n] = IF n = 0 THEN << <<>> >> ELSE Cut(g[n - 1], u[n], delim)
  BY <1>1, <1>3 DEF IsItems
<1>6. Alike(f, g, 0, m)
  <2>1. Alike(s, u, 1, m)
    BY <1>1 DEF Alike
  <2>2. Follows(f, s, m, delim)
    BY <1>4 DEF Follows
  <2>3. Follows(g, u, m, delim)
    BY <1>1, <1>5 DEF Follows
  <2> QED
    BY <1>1, <2>1, <2>2, <2>3, FollowsAlike, Zenon
<1>7. m + 1 \in 0..m + 1 /\ m + 1 # 0 /\ (m + 1) - 1 = m /\ m \in 0..m
  BY <1>1
<1>8. g[m + 1] = Cut(g[m], u[m + 1], delim)
  BY <1>5, <1>7
<1> QED
  BY <1>1, <1>2, <1>3, <1>6, <1>7, <1>8 DEF u, Alike

Values(f, T, base, step, s) ==
  /\ \A n \in 0..Len(s) : f[n] \in T
  /\ f[0] = base
  /\ \A n \in 1..Len(s) : f[n] = step[<<f[n - 1], s[n]>>]

LEMMA FoldValues ==
  ASSUME NEW T, NEW E, NEW base \in T, NEW step \in [T \X E -> T], NEW s \in Seq(E)
  PROVE  \E f : Values(f, T, base, step, s)
<1>1. PICK f \in [0..Len(s) -> T] : Folds(f, base, step, s)
  BY FoldExists
<1>2. \A n \in 0..Len(s) : f[n] = IF n = 0 THEN base ELSE step[<<f[n - 1], s[n]>>]
  BY <1>1 DEF Folds
<1>3. \A n \in 0..Len(s) : f[n] \in T
  OBVIOUS
<1>4. 0 \in 0..Len(s) /\ \A n \in 1..Len(s) : n \in 0..Len(s) /\ n # 0
  BY LenProperties
<1>5. f[0] = base /\ \A n \in 1..Len(s) : f[n] = step[<<f[n - 1], s[n]>>]
  BY <1>2, <1>4
<1> QED
  BY <1>3, <1>5 DEF Values

\* FlattenSeq puts one sequence behind the other.
LEMMA FlattenFunction ==
  ASSUME NEW T, NEW seqs \in Seq(Seq(T))
  PROVE  \E g :
           /\ \A n \in 0..Len(seqs) : g[n] \in Seq(T)
           /\ g[0] = <<>>
           /\ \A n \in 1..Len(seqs) : g[n] = g[n - 1] \o seqs[n]
           /\ FlattenSeq(seqs) = g[Len(seqs)]
<1> DEFINE step == [p \in Seq(T) \X Seq(T) |-> p[1] \o p[2]]
<1>1. \A a \in Seq(T), b \in Seq(T) : step[<<a, b>>] = a \o b
  OBVIOUS
<1>2. step \in [Seq(T) \X Seq(T) -> Seq(T)] /\ <<>> \in Seq(T)
  BY ConcatProperties, EmptySeq
<1> HIDE DEF step
<1>3. PICK g : /\ \A n \in 0..Len(seqs) : g[n] \in Seq(T)
               /\ g[0] = <<>>
               /\ \A n \in 1..Len(seqs) : g[n] = step[<<g[n - 1], seqs[n]>>]
  <2>1. PICK g : Values(g, Seq(T), <<>>, step, seqs)
    BY <1>2, FoldValues, Zenon
  <2> QED
    BY <2>1 DEF Values
<1>4. Len(seqs) \in Nat /\ \A n \in 1..Len(seqs) : seqs[n] \in Seq(T)
  BY LenProperties, ElementOfSeq
<1>6. g[0] = <<>>
  BY <1>3
<1>7. ASSUME NEW n \in 1..Len(seqs) PROVE g[n] = g[n - 1] \o seqs[n]
  <2>1. n \in 0..Len(seqs) /\ n # 0 /\ n - 1 \in 0..Len(seqs)
    BY <1>4
  <2>2. g[n - 1] \in Seq(T)
    BY <1>3, <2>1
  <2> QED
    BY <1>1, <1>3, <1>4, <2>1, <2>2
<1>8. CASE Len(seqs) = 0
  <2>1. seqs = <<>>
    BY <1>8, EmptySeq
  <2>2. FlattenSeq(seqs) = seqs
    BY <1>8 DEF FlattenSeq
  <2> QED
    BY <1>3, <1>7, <1>8, <2>1, <2>2
<1>9. CASE Len(seqs) # 0
  <2> DEFINE D(f) == f = [i \in 1..Len(seqs) |-> IF i = 1 THEN seqs[i] ELSE f[i - 1] \o seqs[i]]
             f0 == [i \in 1..Len(seqs) |-> g[i]]
  <2>1. D(f0)
    <3>1. ASSUME NEW i \in 1..Len(seqs)
          PROVE  g[i] = IF i = 1 THEN seqs[i] ELSE f0[i - 1] \o seqs[i]
      <4>1. CASE i = 1
        <5>1. g[i] = g[i - 1] \o seqs[i] /\ i - 1 = 0 /\ seqs[i] \in Seq(T)
          <6>1. g[i] = g[i - 1] \o seqs[i]
            BY <1>7
          <6>2. i - 1 = 0 /\ seqs[i] \in Seq(T)
            BY <1>4, <4>1
          <6> QED
            BY <6>1, <6>2
        <5>2. g[i] = <<>> \o seqs[i]
          BY <1>6, <5>1
        <5> QED
          BY <4>1, <5>1, <5>2, ConcatEmptySeq
      <4>2. CASE i # 1
        <5>1. i - 1 \in 1..Len(seqs)
          BY <1>4, <4>2
        <5>2. f0[i - 1] = g[i - 1]
          BY <5>1
        <5> QED
          BY <1>7, <4>2, <5>2
      <4> QED
        BY <4>1, <4>2
    <3> HIDE DEF f0
    <3>2. f0 = [i \in 1..Len(seqs) |-> IF i = 1 THEN seqs[i] ELSE f0[i - 1] \o seqs[i]]
      BY <3>1 DEF f0
    <3> QED
      BY <3>2
  <2>2. FlattenSeq(seqs) = (CHOOSE f : D(f))[Len(seqs)]
    BY <1>9 DEF FlattenSeq
  <2> HIDE DEF f0
  <2>3. PICK h : D(h) /\ FlattenSeq(seqs) = h[Len(seqs)]
    <3>1. D(CHOOSE f : D(f))
      <4> HIDE DEF D
      <4> QED
        BY <2>1
    <3> QED
      BY <2>2, <3>1
  <2>4. \A i \in 1..Len(seqs) : h[i] = IF i = 1 THEN seqs[i] ELSE h[i - 1] \o seqs[i]
    BY <2>3
  <2> HIDE DEF D
  <2> DEFINE S == {i \in Nat : i < Len(seqs) => h[i + 1] = g[i + 1]}
  <2>5. 0 \in S
    <3>1. 1 \in 1..Len(seqs)
      BY <1>4, <1>9
    <3>2. h[1] = seqs[1] /\ g[1] = g[1 - 1] \o seqs[1] /\ seqs[1] \in Seq(T) /\ 1 - 1 = 0
      <4>1. h[1] = seqs[1]
        BY <2>4, <3>1
      <4>2. g[1] = g[1 - 1] \o seqs[1]
        BY <1>7, <3>1
      <4>3. seqs[1] \in Seq(T) /\ 1 - 1 = 0
        BY <1>4, <3>1
      <4> QED
        BY <4>1, <4>2, <4>3
    <3>3. g[1] = <<>> \o seqs[1]
      BY <1>6, <3>2
    <3>4. g[1] = seqs[1]
      BY <3>2, <3>3, ConcatEmptySeq
    <3> QED
      BY <3>2, <3>4
  <2>6. ASSUME NEW i \in Nat, i \in S PROVE i + 1 \in S
    <3> SUFFICES ASSUME i + 1 < Len(seqs) PROVE h[(i + 1) + 1] = g[(i + 1) + 1]
      OBVIOUS
    <3> DEFINE k == (i + 1) + 1
    <3>1. k \in 1..Len(seqs) /\ k # 1 /\ k - 1 = i + 1 /\ i < Len(seqs)
      BY <1>4
    <3>2. h[k - 1] = g[k - 1]
      BY <2>6, <3>1
    <3> HIDE DEF k
    <3>3. h[k] = h[k - 1] \o seqs[k] /\ g[k] = g[k - 1] \o seqs[k]
      BY <1>7, <2>4, <3>1
    <3> QED
      BY <3>2, <3>3 DEF k
  <2> HIDE DEF S
  <2>7. Nat \subseteq S
    BY <2>5, <2>6, SetInduction
  <2>8. Len(seqs) - 1 \in S /\ Len(seqs) - 1 < Len(seqs) /\ (Len(seqs) - 1) + 1 = Len(seqs)
    BY <1>4, <1>9, <2>7
  <2>9. h[Len(seqs)] = g[Len(seqs)]
    BY <2>8 DEF S
  <2> QED
    BY <1>3, <1>7, <2>3, <2>9
<1> QED
  BY <1>8, <1>9

LEMMA FlattenTyped ==
  ASSUME NEW T, NEW seqs \in Seq(Seq(T)) PROVE FlattenSeq(seqs) \in Seq(T)
<1>1. Len(seqs) \in 0..Len(seqs)
  BY LenProperties
<1> QED
  BY <1>1, FlattenFunction

LEMMA FlattenAppend ==
  ASSUME NEW T, NEW seqs \in Seq(Seq(T)), NEW s \in Seq(T)
  PROVE  FlattenSeq(Append(seqs, s)) = FlattenSeq(seqs) \o s
<1> DEFINE u == Append(seqs, s)
<1>0. PICK m \in Nat : m = Len(seqs)
  BY LenProperties
<1>1. /\ u \in Seq(Seq(T)) /\ Len(u) = m + 1 /\ u[m + 1] = s
      /\ \A i \in 1..m : u[i] = seqs[i]
  BY <1>0, AppendProperties
<1> HIDE DEF u
<1>2. PICK g : /\ g[0] = <<>>
               /\ \A n \in 1..m : g[n] = g[n - 1] \o seqs[n]
               /\ FlattenSeq(seqs) = g[m]
  BY <1>0, FlattenFunction
<1>3. PICK h : /\ h[0] = <<>>
               /\ \A n \in 1..m + 1 : h[n] = h[n - 1] \o u[n]
               /\ FlattenSeq(u) = h[m + 1]
  <2>1. PICK h :
               /\ h[0] = <<>>
               /\ \A n \in 1..Len(u) : h[n] = h[n - 1] \o u[n]
               /\ FlattenSeq(u) = h[Len(u)]
    BY <1>1, FlattenFunction
  <2> QED
    BY <1>1, <2>1
<1>4. \A n \in 0..m : g[n] = h[n]
  <2>1. ASSUME NEW n \in 1..m, g[n - 1] = h[n - 1] PROVE g[n] = h[n]
    <3>1. n \in 1..m + 1
      BY <1>1
    <3> QED
      BY <1>1, <1>2, <1>3, <2>1, <3>1
  <2>2. g[0] = h[0] /\ m \in Nat
    BY <1>1, <1>2, <1>3
  <2> QED
    BY <2>1, <2>2, SameBySteps
<1>5. m \in 0..m /\ m + 1 \in 1..m + 1 /\ (m + 1) - 1 = m
  BY <1>1
<1>6. h[m + 1] = h[m] \o u[m + 1]
  BY <1>3, <1>5
<1> QED
  BY <1>1, <1>2, <1>3, <1>4, <1>5, <1>6 DEF u

\* Each item with the delimiter before it.
Led(items, delim) == [i \in 1..Len(items) |-> <<delim>> \o items[i]]

LEMMA LedAppend ==
  ASSUME NEW T, NEW items \in Seq(Seq(T)), NEW e \in Seq(T), NEW delim \in T
  PROVE  /\ Led(items, delim) \in Seq(Seq(T))
         /\ Led(Append(items, e), delim) = Append(Led(items, delim), <<delim>> \o e)
<1>0. PICK m \in Nat : m = Len(items)
  BY LenProperties
<1>1. <<delim>> \in Seq(T)
  OBVIOUS
<1>2. \A q \in Seq(T) : <<delim>> \o q \in Seq(T)
  BY <1>1, ConcatProperties
<1>3. \A i \in 1..m : items[i] \in Seq(T)
  BY <1>0, ElementOfSeq
<1>4. Led(items, delim) \in Seq(Seq(T)) /\ Len(Led(items, delim)) = m
  <2>1. Led(items, delim) = [i \in 1..m |-> <<delim>> \o items[i]]
    BY <1>0 DEF Led
  <2>2. \A i \in 1..m : <<delim>> \o items[i] \in Seq(T)
    BY <1>2, <1>3
  <2>3. Led(items, delim) \in Seq(Seq(T))
    BY <2>1, <2>2, IsASeq
  <2>4. DOMAIN Led(items, delim) = 1..m
    BY <2>1
  <2> QED
    BY <2>3, <2>4, LenProperties
<1> DEFINE u == Append(items, e)
           w == Append(Led(items, delim), <<delim>> \o e)
<1>5. /\ u \in Seq(Seq(T)) /\ Len(u) = m + 1 /\ u[m + 1] = e
      /\ \A i \in 1..m : u[i] = items[i]
  BY <1>0, AppendProperties
<1>6. /\ w \in Seq(Seq(T)) /\ Len(w) = m + 1 /\ w[m + 1] = <<delim>> \o e
      /\ \A i \in 1..m : w[i] = Led(items, delim)[i]
  <2>1. <<delim>> \o e \in Seq(T)
    BY <1>2
  <2> QED
    BY <1>4, <2>1, AppendProperties
<1>7. \A i \in 1..m : Led(items, delim)[i] = <<delim>> \o items[i]
  BY <1>0 DEF Led
<1> HIDE DEF u, w
<1>8. \A i \in 1..m + 1 : w[i] = <<delim>> \o u[i]
  <2>1. \A i \in 1..m : w[i] = <<delim>> \o u[i]
    BY <1>5, <1>6, <1>7
  <2>2. w[m + 1] = <<delim>> \o u[m + 1]
    BY <1>5, <1>6
  <2>3. \A i \in 1..m + 1 : i \in 1..m \/ i = m + 1
    BY <1>0
  <2> QED
    BY <2>1, <2>2, <2>3
<1>9. w = [i \in 1..m + 1 |-> w[i]]
  BY <1>6
<1>10. w = [i \in 1..Len(u) |-> <<delim>> \o u[i]]
  BY <1>5, <1>8, <1>9
<1> QED
  BY <1>4, <1>10 DEF Led, u, w

\* No item has the delimiter in it.
Clean(items, delim) == \A i \in 1..Len(items) : ~Contains(items[i], delim)

LEMMA CleanAppend ==
  ASSUME NEW T, NEW items \in Seq(Seq(T)), NEW e \in Seq(T), NEW delim
  PROVE  Clean(Append(items, e), delim) <=> Clean(items, delim) /\ ~Contains(e, delim)
<1>0. PICK m \in Nat : m = Len(items)
  BY LenProperties
<1> DEFINE u == Append(items, e)
<1>1. /\ Len(u) = m + 1 /\ u[m + 1] = e
      /\ \A i \in 1..m : u[i] = items[i]
  BY <1>0, AppendProperties
<1> HIDE DEF u
<1>2. m + 1 \in 1..m + 1 /\ \A i \in 1..m + 1 : i \in 1..m \/ i = m + 1
  BY <1>0
<1>3. \A i \in 1..m : i \in 1..m + 1
  BY <1>0
<1>4. ASSUME Clean(u, delim) PROVE Clean(items, delim) /\ ~Contains(e, delim)
  BY <1>0, <1>1, <1>2, <1>3, <1>4 DEF Clean
<1>5. ASSUME Clean(items, delim), ~Contains(e, delim) PROVE Clean(u, delim)
  BY <1>0, <1>1, <1>2, <1>5 DEF Clean
<1> QED
  BY <1>4, <1>5 DEF u

LEMMA ContainsAppend ==
  ASSUME NEW T, NEW s \in Seq(T), NEW e \in T, NEW delim
  PROVE  Contains(Append(s, e), delim) <=> Contains(s, delim) \/ e = delim
<1>0. PICK m \in Nat : m = Len(s)
  BY LenProperties
<1> DEFINE u == Append(s, e)
<1>1. /\ Len(u) = m + 1 /\ u[m + 1] = e
      /\ \A i \in 1..m : u[i] = s[i]
  BY <1>0, AppendProperties
<1> HIDE DEF u
<1>2. m + 1 \in 1..m + 1 /\ \A i \in 1..m + 1 : i \in 1..m \/ i = m + 1
  BY <1>0
<1>3. \A i \in 1..m : i \in 1..m + 1
  BY <1>0
<1>4. ASSUME Contains(u, delim) PROVE Contains(s, delim) \/ e = delim
  <2>1. PICK i \in 1..m + 1 : u[i] = delim
    BY <1>1, <1>4 DEF Contains
  <2>2. CASE i \in 1..m
    BY <1>0, <1>1, <2>1, <2>2 DEF Contains
  <2>3. CASE i = m + 1
    BY <1>1, <2>1, <2>3
  <2> QED
    BY <1>2, <2>2, <2>3
<1>5. ASSUME Contains(s, delim) PROVE Contains(u, delim)
  <2>1. PICK i \in 1..m : s[i] = delim
    BY <1>0, <1>5 DEF Contains
  <2> QED
    BY <1>1, <1>3, <2>1 DEF Contains
<1>6. ASSUME e = delim PROVE Contains(u, delim)
  BY <1>1, <1>2, <1>6 DEF Contains
<1> QED
  BY <1>4, <1>5, <1>6 DEF u

LEMMA ContainsEmpty == ASSUME NEW delim PROVE ~Contains(<<>>, delim)
<1>1. Len(<<>>) = 0
  OBVIOUS
<1> QED
  BY <1>1 DEF Contains

LEMMA CleanEmpty == ASSUME NEW delim PROVE Clean(<< <<>> >>, delim)
<1>1. Len(<< <<>> >>) = 1 /\ << <<>> >>[1] = <<>> /\ \A i \in 1..1 : i = 1
  OBVIOUS
<1> QED
  BY <1>1, ContainsEmpty DEF Clean

\* The items, each with the delimiter before it, are the text with one before it.
Exact(s, delim) ==
  /\ FlattenSeq(Led(Items(s, delim), delim)) = <<delim>> \o s
  /\ Clean(Items(s, delim), delim)

LEMMA ExactEmpty == ASSUME NEW T, NEW delim \in T PROVE Exact(<<>>, delim)
<1>1. Items(<<>>, delim) = << <<>> >>
  BY ItemsEmpty
<1>2. <<>> \in Seq(Seq(T)) /\ <<>> \in Seq(T) /\ <<delim>> \in Seq(T)
  OBVIOUS
<1>3. Append(<<>>, <<>>) = << <<>> >>
  OBVIOUS
<1>4. Led(<< <<>> >>, delim) = Append(Led(<<>>, delim), <<delim>> \o <<>>) /\ Led(<<>>, delim) \in Seq(Seq(T))
  <2>1. Led(Append(<<>>, <<>>), delim) = Append(Led(<<>>, delim), <<delim>> \o <<>>)
        /\ Led(<<>>, delim) \in Seq(Seq(T))
    BY <1>2, LedAppend
  <2> QED
    BY <1>3, <2>1
<1>5. Led(<<>>, delim) = <<>>
  BY DEF Led
<1>6. FlattenSeq(<<>>) = <<>>
  <2>1. Len(<<>>) = 0
    OBVIOUS
  <2> QED
    BY <2>1 DEF FlattenSeq
<1>7. <<delim>> \o <<>> \in Seq(T)
  BY <1>2, ConcatProperties
<1>8. FlattenSeq(Led(<< <<>> >>, delim)) = <<>> \o (<<delim>> \o <<>>)
  <2>1. FlattenSeq(Append(Led(<<>>, delim), <<delim>> \o <<>>))
          = FlattenSeq(Led(<<>>, delim)) \o (<<delim>> \o <<>>)
    BY <1>4, <1>7, FlattenAppend
  <2> QED
    BY <1>4, <1>5, <1>6, <2>1
<1>9. <<>> \o (<<delim>> \o <<>>) = <<delim>> \o <<>>
  BY <1>7, ConcatEmptySeq
<1> QED
  BY <1>1, <1>8, <1>9, CleanEmpty DEF Exact

LEMMA ExactAppend ==
  ASSUME NEW T, NEW delim \in T, NEW s \in Seq(T), NEW e \in T, Exact(s, delim)
  PROVE  Exact(Append(s, e), delim)
<1> DEFINE items == Items(s, delim)
<1>1. items \in Texts(T) /\ items \in Seq(Seq(T))
  BY ItemsTyped DEF Texts
<1>2. Items(Append(s, e), delim) = Cut(items, e, delim)
  BY ItemsAppend
<1>3. FlattenSeq(Led(items, delim)) = <<delim>> \o s /\ Clean(items, delim)
  BY DEF Exact
<1> HIDE DEF items
<1>4. /\ <<>> \in Seq(T) /\ <<delim>> \in Seq(T) /\ <<e>> \in Seq(T)
      /\ <<delim>> \o s \in Seq(T)
  BY ConcatProperties
<1>5. <<delim>> \o Append(s, e) = (<<delim>> \o s) \o <<e>>
  <2>1. Append(s, e) = s \o <<e>>
    BY AppendIsConcat
  <2> QED
    BY <1>4, <2>1, ConcatAssociative
<1>6. CASE e = delim
  <2>1. Items(Append(s, e), delim) = Append(items, <<>>)
    BY <1>2, <1>6 DEF Cut
  <2>2. <<delim>> \o <<>> = <<delim>> /\ Led(items, delim) \in Seq(Seq(T))
    BY <1>1, <1>4, LedAppend, ConcatEmptySeq
  <2>3. Led(Append(items, <<>>), delim) = Append(Led(items, delim), <<delim>>)
    BY <1>1, <1>4, <2>2, LedAppend
  <2>4. FlattenSeq(Led(Append(items, <<>>), delim)) = (<<delim>> \o s) \o <<delim>>
    BY <1>3, <1>4, <2>2, <2>3, FlattenAppend
  <2>5. Clean(Append(items, <<>>), delim)
    BY <1>1, <1>3, <1>4, CleanAppend, ContainsEmpty
  <2> QED
    BY <1>5, <1>6, <2>1, <2>4, <2>5 DEF Exact
<1>7. CASE e # delim
  <2>1. Items(Append(s, e), delim) = Append(Front(items), Append(Last(items), e))
    BY <1>2, <1>7 DEF Cut
  <2> DEFINE q == Front(items)
             z == Last(items)
  <2>2. q \in Seq(Seq(T)) /\ z \in Seq(T) /\ items = Append(q, z)
    BY <1>1, TextsParts
  <2> HIDE DEF q, z
  <2>3. Append(z, e) \in Seq(T) /\ Append(z, e) = z \o <<e>>
    BY <2>2, AppendProperties, AppendIsConcat
  <2>4. /\ Led(q, delim) \in Seq(Seq(T))
        /\ Led(items, delim) = Append(Led(q, delim), <<delim>> \o z)
    BY <2>2, LedAppend
  <2>5. Led(Append(q, Append(z, e)), delim) = Append(Led(q, delim), <<delim>> \o Append(z, e))
    BY <2>2, <2>3, LedAppend
  <2>6. <<delim>> \o z \in Seq(T) /\ <<delim>> \o Append(z, e) \in Seq(T)
    BY <1>4, <2>2, <2>3, ConcatProperties
  <2> DEFINE F == FlattenSeq(Led(q, delim))
  <2>7. F \in Seq(T)
    BY <2>4, FlattenTyped
  <2>8. FlattenSeq(Led(items, delim)) = F \o (<<delim>> \o z)
    BY <2>4, <2>6, FlattenAppend
  <2>9. FlattenSeq(Led(Append(q, Append(z, e)), delim)) = F \o (<<delim>> \o Append(z, e))
    BY <2>4, <2>5, <2>6, FlattenAppend
  <2> HIDE DEF F
  <2>10. F \o (<<delim>> \o Append(z, e)) = (F \o (<<delim>> \o z)) \o <<e>>
    <3>1. <<delim>> \o (z \o <<e>>) = (<<delim>> \o z) \o <<e>>
      BY <1>4, <2>2, ConcatAssociative
    <3>2. F \o ((<<delim>> \o z) \o <<e>>) = (F \o (<<delim>> \o z)) \o <<e>>
      BY <1>4, <2>6, <2>7, ConcatAssociative
    <3> QED
      BY <2>3, <3>1, <3>2
  <2>11. Clean(Append(q, Append(z, e)), delim)
    <3>1. Clean(q, delim) /\ ~Contains(z, delim)
      BY <1>3, <2>2, CleanAppend
    <3>2. ~Contains(Append(z, e), delim)
      BY <1>7, <2>2, <3>1, ContainsAppend
    <3> QED
      BY <2>2, <2>3, <3>1, <3>2, CleanAppend
  <2>12. Items(Append(s, e), delim) = Append(q, Append(z, e))
    BY <2>1 DEF q, z
  <2> QED
    BY <1>3, <1>5, <2>8, <2>9, <2>10, <2>11, <2>12 DEF Exact
<1> QED
  BY <1>6, <1>7

\* Cutting a text loses nothing and makes nothing up.
LEMMA SplitIsExact ==
  ASSUME NEW T, NEW delim \in T, NEW s \in Seq(T) PROVE Exact(s, delim)
<1> DEFINE S == {t \in Seq(T) : Exact(t, delim)}
<1>1. <<>> \in S
  BY ExactEmpty, EmptySeq
<1>2. ASSUME NEW t \in Seq(T), NEW e \in T, t \in S PROVE Append(t, e) \in S
  <2>1. Exact(Append(t, e), delim)
    BY <1>2, ExactAppend
  <2> QED
    BY <2>1, AppendProperties
<1> HIDE DEF S
<1>3. Seq(T) \subseteq S
  BY <1>1, <1>2, SeqInduction
<1> QED
  BY <1>3 DEF S

\* Tokens that are no delimiters go to the last item.
Longer(s, a, delim) ==
  Items(s \o a, delim) = Append(Front(Items(s, delim)), Last(Items(s, delim)) \o a)

LEMMA ItemsMore ==
  ASSUME NEW T, NEW s \in Seq(T), NEW a \in Seq(T), NEW delim, ~Contains(a, delim)
  PROVE  Longer(s, a, delim)
<1> DEFINE S == {t \in Seq(T) : ~Contains(t, delim) => Longer(s, t, delim)}
           items == Items(s, delim)
<1>1. items \in Texts(T)
  BY ItemsTyped
<1>2. /\ Front(items) \in Seq(Seq(T)) /\ Last(items) \in Seq(T)
      /\ items = Append(Front(items), Last(items))
  BY <1>1, TextsParts
<1>3. <<>> \in S
  <2>1. s \o <<>> = s /\ Last(items) \o <<>> = Last(items) /\ <<>> \in Seq(T)
    BY <1>2, ConcatEmptySeq, EmptySeq
  <2>2. Items(s \o <<>>, delim) = Append(Front(items), Last(items) \o <<>>)
    BY <1>2, <2>1
  <2> QED
    BY <2>1, <2>2 DEF Longer
<1>4. ASSUME NEW t \in Seq(T), NEW e \in T, t \in S PROVE Append(t, e) \in S
  <2>0. Append(t, e) \in Seq(T)
    BY AppendProperties
  <2> SUFFICES ASSUME ~Contains(Append(t, e), delim) PROVE Longer(s, Append(t, e), delim)
    BY <2>0
  <2>1. ~Contains(t, delim) /\ e # delim
    BY ContainsAppend
  <2>2. Longer(s, t, delim)
    BY <1>4, <2>1
  <2> HIDE DEF S
  <2>3. /\ s \o t \in Seq(T) /\ <<e>> \in Seq(T)
        /\ Last(items) \o t \in Seq(T)
    BY <1>2, ConcatProperties
  <2>4. s \o Append(t, e) = Append(s \o t, e)
    <3>1. Append(t, e) = t \o <<e>> /\ Append(s \o t, e) = (s \o t) \o <<e>>
      BY <2>3, AppendIsConcat
    <3>2. s \o (t \o <<e>>) = (s \o t) \o <<e>>
      BY <2>3, ConcatAssociative
    <3> QED
      BY <3>1, <3>2
  <2>5. Last(items) \o Append(t, e) = Append(Last(items) \o t, e)
    <3>1. Append(t, e) = t \o <<e>> /\ Append(Last(items) \o t, e) = (Last(items) \o t) \o <<e>>
      BY <2>3, AppendIsConcat
    <3>2. Last(items) \o (t \o <<e>>) = (Last(items) \o t) \o <<e>>
      BY <1>2, <2>3, ConcatAssociative
    <3> QED
      BY <3>1, <3>2
  <2>6. Items(Append(s \o t, e), delim) = Cut(Items(s \o t, delim), e, delim)
    BY <2>3, ItemsAppend
  <2>7. Items(s \o t, delim) = Append(Front(items), Last(items) \o t)
    BY <2>2 DEF Longer
  <2>8. /\ Front(Items(s \o t, delim)) = Front(items)
        /\ Last(Items(s \o t, delim)) = Last(items) \o t
    BY <1>2, <2>3, <2>7, TextsAppend
  <2>9. Items(Append(s \o t, e), delim) = Append(Front(items), Append(Last(items) \o t, e))
    BY <2>1, <2>6, <2>8 DEF Cut
  <2> QED
    BY <2>4, <2>5, <2>9 DEF Longer
<1> HIDE DEF S
<1>5. Seq(T) \subseteq S
  BY <1>3, <1>4, SeqInduction
<1> QED
  BY <1>5 DEF S

\* A text with no delimiter is one item.
LEMMA SplitNone ==
  ASSUME NEW T, NEW a \in Seq(T), NEW delim, ~Contains(a, delim) PROVE Split(a, delim) = <<a>>
<1>1. <<>> \in Seq(T) /\ <<>> \in Seq(Seq(T)) /\ <<>> \o a = a
  BY ConcatEmptySeq, EmptySeq
<1>2. Longer(<<>>, a, delim)
  BY <1>1, ItemsMore
<1>3. Items(<<>>, delim) = Append(<<>>, <<>>)
  <2>1. Append(<<>>, <<>>) = << <<>> >>
    OBVIOUS
  <2> QED
    BY <2>1, ItemsEmpty
<1>4. Front(Items(<<>>, delim)) = <<>> /\ Last(Items(<<>>, delim)) = <<>>
  <2>1. Front(Append(<<>>, <<>>)) = <<>> /\ Last(Append(<<>>, <<>>)) = <<>>
    BY <1>1, TextsAppend
  <2> QED
    BY <1>3, <2>1
<1>5. Append(<<>>, a) = <<a>>
  OBVIOUS
<1> QED
  BY <1>1, <1>2, <1>4, <1>5 DEF Longer, Split

\* A delimiter and a text without one are one more item.
LEMMA SplitJoin ==
  ASSUME NEW T, NEW s \in Seq(T), NEW a \in Seq(T), NEW delim \in T, ~Contains(a, delim)
  PROVE  Split(s \o <<delim>> \o a, delim) = Append(Split(s, delim), a)
<1> DEFINE u == Append(s, delim)
           items == Items(s, delim)
<1>1. u \in Seq(T) /\ u = s \o <<delim>>
  BY AppendProperties, AppendIsConcat
<1>2. Items(u, delim) = Append(items, <<>>)
  <2>1. Items(u, delim) = Cut(items, delim, delim)
    BY ItemsAppend
  <2> QED
    BY <2>1 DEF Cut
<1>3. items \in Seq(Seq(T)) /\ <<>> \in Seq(T)
  BY ItemsTyped, EmptySeq DEF Texts
<1> HIDE DEF u, items
<1>4. Front(Items(u, delim)) = items /\ Last(Items(u, delim)) = <<>>
  BY <1>2, <1>3, TextsAppend
<1>5. Longer(u, a, delim)
  BY <1>1, ItemsMore
<1>6. <<>> \o a = a
  BY ConcatEmptySeq
<1> QED
  BY <1>1, <1>4, <1>5, <1>6 DEF Longer, Split, items

-----------------------------------------------------------------------------

(***************************************************************************)
(* Reading a query.                                                        *)
(***************************************************************************)

Words == Seq(Token)

LEMMA WordsTyped ==
  /\ <<>> \in Words
  /\ \A t \in Token : <<t>> \in Words
<1>1. \A t \in Token : <<t>> \in Seq(Token)
  OBVIOUS
<1> QED
  BY <1>1, EmptySeq DEF Words

LEMMA NumberTyped ==
  ASSUME NEW s, IsNumber(s) PROVE s # <<>> /\ s[1] \in DOMAIN Number /\ stoi(s) \in Int
  BY NumberAssumption DEF IsNumber, stoi

Operations ==
  [end : {"ok", "undefined", "abort"}, x : Short, y : Short, b : 0..255, key : Words]

LEMMA NoOperationTyped == NoOperation \in Operations
<1>1. <<>> \in Words /\ 0 \in Short
  BY WordsTyped DEF Short
<1> QED
  BY <1>1 DEF NoOperation, Operation, Operations

\* What an assignment can do to an operation.
LEMMA ChangeTyped ==
  ASSUME NEW o \in Operations
  PROVE  /\ [o EXCEPT !.end = "undefined"] \in Operations
         /\ [o EXCEPT !.end = "abort"] \in Operations
         /\ \A key \in Words : [o EXCEPT !.key = key] \in Operations
         /\ \A x \in Short : [o EXCEPT !.x = x] \in Operations
         /\ \A y \in Short : [o EXCEPT !.y = y] \in Operations
         /\ \A b \in 0..255 : [o EXCEPT !.b = b] \in Operations
  BY DEF Operations

LEMMA KeyTyped == ASSUME NEW value \in Words PROVE KeyOf(value) \in Words
<1>1. <<"Space">> \in Words
  BY TokenAssumption, WordsTyped
<1> QED
  BY <1>1 DEF KeyOf

LEMMA NarrowTyped ==
  ASSUME NEW n \in Int
  PROVE  /\ Narrow("x", n) = n % 65536 /\ Narrow("y", n) = n % 65536
         /\ Narrow("b", n) = n % 256
         /\ n % 65536 \in Short /\ n % 256 \in 0..255
<1>1. Narrow("x", n) = n % 65536 /\ Narrow("y", n) = n % 65536 /\ Narrow("b", n) = n % 256
  BY SMT DEF Narrow, Modulus
<1>2. n % 256 \in 0..255
  BY SMT
<1>3. n % 65536 \in Short
  <2>1. PICK m \in Int : m = n % 65536 /\ m >= 0 /\ m <= 65535
    BY SMT
  <2>2. m \in Short
    BY <2>1, SMT DEF Short
  <2> QED
    BY <2>1, <2>2, SMT
<1> QED
  BY <1>1, <1>2, <1>3, SMT

LEMMA AssignTyped ==
  ASSUME NEW o \in Operations, NEW param \in Texts(Token) PROVE Assign(o, param) \in Operations
<1>1. CASE o.end # "ok" \/ ~Named(param)
  BY <1>1 DEF Assign
<1>2. CASE ~(o.end # "ok" \/ ~Named(param)) /\ Len(param) = 1
  <2>1. Assign(o, param) = [o EXCEPT !.end = "undefined"]
    BY <1>2 DEF Assign
  <2> QED
    BY <2>1, ChangeTyped
<1>3. CASE ~(o.end # "ok" \/ ~Named(param)) /\ Len(param) # 1
  <2> DEFINE name == param[1][1]
             value == param[2]
  <2>1. name \in {"x", "y", "b", "k"}
    BY <1>3 DEF Named, Names
  <2>2. value \in Words
    <3>1. param \in Seq(Words) /\ param # <<>>
      BY DEF Texts, Words
    <3> HIDE DEF value
    <3>2. PICK n \in Nat : n = Len(param)
      BY <3>1, LenProperties
    <3>3. n # 0 /\ n # 1
      BY <1>3, <3>1, <3>2, EmptySeq
    <3>4. 2 \in 1..n
      BY <3>3
    <3> QED
      BY <3>1, <3>2, <3>4, ElementOfSeq DEF value
  <2>3. Assign(o, param) = IF name = "k" THEN [o EXCEPT !.key = KeyOf(value)]
                           ELSE IF IsNumber(value)
                                THEN [o EXCEPT ![name] = Narrow(name, stoi(value))]
                                ELSE [o EXCEPT !.end = "abort"]
    BY <1>3 DEF Assign
  <2> DEFINE assigned == Assign(o, param)
  <2> HIDE DEF name, value, assigned
  <2>4. CASE name = "k"
    <3>1. assigned = [o EXCEPT !.key = KeyOf(value)]
      BY <2>3, <2>4 DEF assigned
    <3>2. KeyOf(value) \in Words
      BY <2>2, KeyTyped
    <3> QED
      BY <3>1, <3>2, ChangeTyped DEF assigned
  <2>5. CASE name # "k" /\ ~IsNumber(value)
    <3>1. assigned = [o EXCEPT !.end = "abort"]
      BY <2>3, <2>5 DEF assigned
    <3> QED
      BY <3>1, ChangeTyped DEF assigned
  <2>6. CASE name # "k" /\ IsNumber(value)
    <3>1. PICK n \in Int : n = stoi(value)
      BY <2>6, NumberTyped
    <3>2. assigned = [o EXCEPT ![name] = Narrow(name, n)]
      BY <2>3, <2>6, <3>1 DEF assigned
    <3>3. CASE name = "x"
      <4>1. PICK w \in Short : w = Narrow("x", n)
        BY NarrowTyped, SMT
      <4>2. Narrow(name, n) = w
        BY <3>3, <4>1
      <4>3. assigned = [o EXCEPT !.x = w]
        BY <3>2, <3>3, <4>2
      <4>4. [o EXCEPT !.x = w] \in Operations
        BY <4>1, ChangeTyped, Zenon
      <4> QED
        BY <4>3, <4>4 DEF assigned
    <3>4. CASE name = "y"
      <4>1. PICK w \in Short : w = Narrow("y", n)
        BY NarrowTyped, SMT
      <4>2. Narrow(name, n) = w
        BY <3>4, <4>1
      <4>3. assigned = [o EXCEPT !.y = w]
        BY <3>2, <3>4, <4>2
      <4>4. [o EXCEPT !.y = w] \in Operations
        BY <4>1, ChangeTyped, Zenon
      <4> QED
        BY <4>3, <4>4 DEF assigned
    <3>5. CASE name = "b"
      <4>1. PICK w \in 0..255 : w = Narrow("b", n)
        BY NarrowTyped, SMT
      <4>2. Narrow(name, n) = w
        BY <3>5, <4>1
      <4>3. assigned = [o EXCEPT !.b = w]
        BY <3>2, <3>5, <4>2
      <4>4. [o EXCEPT !.b = w] \in Operations
        BY <4>1, ChangeTyped, Zenon
      <4> QED
        BY <4>3, <4>4 DEF assigned
    <3> QED
      BY <2>1, <2>6, <3>3, <3>4, <3>5
  <2> QED
    BY <2>4, <2>5, <2>6
<1> QED
  BY <1>1, <1>2, <1>3

\* One parameter after another: f[n] is the operation after the first n.
Reading(f, params) ==
  /\ f[0] = NoOperation
  /\ \A n \in 1..Len(params) : f[n] = Assign(f[n - 1], Split(params[n], "="))

LEMMA QueryFunction ==
  ASSUME NEW query \in Words
  PROVE  \E f : /\ Reading(f, Split(query, "&"))
                /\ \A n \in 0..Len(Split(query, "&")) : f[n] \in Operations
                /\ mrhc_query(query) = f[Len(Split(query, "&"))]
<1> DEFINE params == Split(query, "&")
           step == [p \in Operations \X Words |-> Assign(p[1], Split(p[2], "="))]
<1>1. params \in Seq(Words)
  BY ItemsTyped DEF Split, Texts, Words
<1>2. PICK k \in Nat : k = Len(params)
  BY <1>1, LenProperties
<1>3. \A o \in Operations, s \in Words : step[<<o, s>>] = Assign(o, Split(s, "="))
  OBVIOUS
<1>4. step \in [Operations \X Words -> Operations]
  <2>1. ASSUME NEW o \in Operations, NEW s \in Words
        PROVE  Assign(o, Split(s, "=")) \in Operations
    <3>1. Split(s, "=") \in Texts(Token)
      BY ItemsTyped DEF Split, Words
    <3> QED
      BY <3>1, AssignTyped
  <2> QED
    BY <2>1
<1> HIDE DEF step, params
<1>5. PICK f : Values(f, Operations, NoOperation, step, params)
  BY <1>1, <1>4, NoOperationTyped, FoldValues, Zenon
<1>6. \A n \in 1..k : params[n] \in Words
  BY <1>1, <1>2, ElementOfSeq
<1>7. f[0] = NoOperation /\ \A n \in 0..k : f[n] \in Operations
  BY <1>2, <1>5 DEF Values
<1>8. ASSUME NEW n \in 1..k PROVE f[n] = Assign(f[n - 1], Split(params[n], "="))
  <2>1. f[n] = step[<<f[n - 1], params[n]>>]
    BY <1>2, <1>5 DEF Values
  <2>2. n - 1 \in 0..k
    BY <1>2
  <2>3. f[n - 1] \in Operations
    BY <1>7, <2>2
  <2> QED
    BY <1>3, <1>6, <2>1, <2>3
<1> DEFINE D(g) == g = [n \in 0..k |-> IF n = 0 THEN NoOperation
                                        ELSE Assign(g[n - 1], Split(params[n], "="))]
           f0 == [n \in 0..k |-> f[n]]
<1>9. D(f0)
  <2>1. ASSUME NEW n \in 0..k
        PROVE  f[n] = IF n = 0 THEN NoOperation ELSE Assign(f0[n - 1], Split(params[n], "="))
    <3>1. CASE n = 0
      BY <1>7, <3>1
    <3>2. CASE n # 0
      <4>1. n \in 1..k /\ n - 1 \in 0..k
        BY <1>2, <3>2
      <4>2. f0[n - 1] = f[n - 1]
        BY <4>1
      <4> HIDE DEF f0
      <4> QED
        BY <1>8, <3>2, <4>1, <4>2
    <3> QED
      BY <3>1, <3>2
  <2> HIDE DEF f0
  <2>2. f0 = [n \in 0..k |-> IF n = 0 THEN NoOperation ELSE Assign(f0[n - 1], Split(params[n], "="))]
    BY <2>1 DEF f0
  <2> QED
    BY <2>2
<1> HIDE DEF f0
<1>10. mrhc_query(query) = (CHOOSE g : D(g))[k]
  BY <1>2 DEF mrhc_query, params
<1>11. PICK h : D(h) /\ mrhc_query(query) = h[k]
  <2>1. D(CHOOSE g : D(g))
    <3> HIDE DEF D
    <3> QED
      BY <1>9
  <2> QED
    BY <1>10, <2>1
<1>12. \A n \in 0..k : h[n] = IF n = 0 THEN NoOperation ELSE Assign(h[n - 1], Split(params[n], "="))
  BY <1>11
<1> HIDE DEF D
<1>13. \A n \in 0..k : f[n] = h[n]
  <2>1. 0 \in 0..k /\ f[0] = NoOperation
    BY <1>2, <1>7
  <2>2. f[0] = h[0]
    BY <1>12, <2>1
  <2>3. ASSUME NEW n \in 1..k, f[n - 1] = h[n - 1] PROVE f[n] = h[n]
    <3>1. n \in 0..k /\ n # 0
      BY <1>2
    <3> QED
      BY <1>8, <1>12, <2>3, <3>1
  <2> QED
    BY <1>2, <2>2, <2>3, SameBySteps
<1>14. mrhc_query(query) = f[k]
  BY <1>2, <1>11, <1>13
<1>15. Reading(f, params)
  BY <1>2, <1>7, <1>8 DEF Reading
<1> QED
  BY <1>2, <1>7, <1>14, <1>15 DEF params

\* Whatever is typed, mrhc_query returns an operation with fields of their width.
LEMMA QueryTyped == ASSUME NEW query \in Words PROVE mrhc_query(query) \in Operations
<1> DEFINE params == Split(query, "&")
<1>1. params \in Seq(Words)
  BY ItemsTyped DEF Split, Texts, Words
<1> HIDE DEF params
<1>2. Len(params) \in 0..Len(params)
  BY <1>1, LenProperties
<1> QED
  BY <1>2, QueryFunction DEF params

\* Queries of one, two and three parameters.
LEMMA QueryOne ==
  ASSUME NEW query \in Words, NEW p, Split(query, "&") = <<p>>
  PROVE  mrhc_query(query) = Assign(NoOperation, Split(p, "="))
<1>1. Len(<<p>>) = 1 /\ <<p>>[1] = p /\ 1 \in 1..1 /\ 1 - 1 = 0
  OBVIOUS
<1>2. PICK f : Reading(f, <<p>>) /\ mrhc_query(query) = f[Len(<<p>>)]
  BY QueryFunction
<1>3. f[0] = NoOperation /\ f[1] = Assign(f[1 - 1], Split(<<p>>[1], "="))
  BY <1>1, <1>2 DEF Reading
<1> QED
  BY <1>1, <1>2, <1>3

LEMMA QueryTwo ==
  ASSUME NEW query \in Words, NEW p, NEW q, Split(query, "&") = <<p, q>>
  PROVE  mrhc_query(query) = Assign(Assign(NoOperation, Split(p, "=")), Split(q, "="))
<1>1. Len(<<p, q>>) = 2 /\ <<p, q>>[1] = p /\ <<p, q>>[2] = q
      /\ 1 \in 1..2 /\ 2 \in 1..2 /\ 1 - 1 = 0 /\ 2 - 1 = 1
  OBVIOUS
<1>2. PICK f : Reading(f, <<p, q>>) /\ mrhc_query(query) = f[Len(<<p, q>>)]
  BY QueryFunction
<1>3. /\ f[0] = NoOperation /\ f[1] = Assign(f[1 - 1], Split(<<p, q>>[1], "="))
      /\ f[2] = Assign(f[2 - 1], Split(<<p, q>>[2], "="))
  BY <1>1, <1>2 DEF Reading
<1> QED
  BY <1>1, <1>2, <1>3

LEMMA QueryThree ==
  ASSUME NEW query \in Words, NEW p, NEW q, NEW r, Split(query, "&") = <<p, q, r>>
  PROVE  mrhc_query(query) =
           Assign(Assign(Assign(NoOperation, Split(p, "=")), Split(q, "=")), Split(r, "="))
<1>1. Len(<<p, q, r>>) = 3 /\ <<p, q, r>>[1] = p /\ <<p, q, r>>[2] = q /\ <<p, q, r>>[3] = r
      /\ 1 \in 1..3 /\ 2 \in 1..3 /\ 3 \in 1..3 /\ 1 - 1 = 0 /\ 2 - 1 = 1 /\ 3 - 1 = 2
  OBVIOUS
<1>2. PICK f : Reading(f, <<p, q, r>>) /\ mrhc_query(query) = f[Len(<<p, q, r>>)]
  BY QueryFunction
<1>3. /\ f[0] = NoOperation /\ f[1] = Assign(f[1 - 1], Split(<<p, q, r>>[1], "="))
      /\ f[2] = Assign(f[2 - 1], Split(<<p, q, r>>[2], "="))
      /\ f[3] = Assign(f[3 - 1], Split(<<p, q, r>>[3], "="))
  BY <1>1, <1>2 DEF Reading
<1> QED
  BY <1>1, <1>2, <1>3

-----------------------------------------------------------------------------

(***************************************************************************)
(* What the page's script writes is read as it was meant.                  *)
(***************************************************************************)

LEMMA ContainsOne ==
  ASSUME NEW t, NEW delim PROVE Contains(<<t>>, delim) <=> t = delim
<1>1. Len(<<t>>) = 1 /\ <<t>>[1] = t /\ 1 \in 1..1 /\ \A i \in 1..1 : i = 1
  OBVIOUS
<1> QED
  BY <1>1 DEF Contains

LEMMA ContainsParts ==
  ASSUME NEW T, NEW s \in Seq(T), NEW t \in Seq(T), NEW delim, ~Contains(s \o t, delim)
  PROVE  ~Contains(s, delim) /\ ~Contains(t, delim)
<1>1. PICK m \in Nat, n \in Nat : m = Len(s) /\ n = Len(t)
  BY LenProperties
<1>2. /\ Len(s \o t) = m + n
      /\ \A i \in 1..m : (s \o t)[i] = s[i]
      /\ \A i \in 1..n : i + m \in 1..m + n /\ (s \o t)[i + m] = t[i]
  <2>1. /\ Len(s \o t) = m + n
        /\ \A i \in 1..m + n : (s \o t)[i] = IF i <= m THEN s[i] ELSE t[i - m]
    BY <1>1, ConcatProperties
  <2>2. \A i \in 1..n : i + m \in 1..m + n /\ ~(i + m <= m) /\ (i + m) - m = i
    BY <1>1
  <2>3. \A i \in 1..m : i \in 1..m + n /\ i <= m
    BY <1>1
  <2>4. \A i \in 1..m : (s \o t)[i] = s[i]
    BY <2>1, <2>3
  <2>5. \A i \in 1..n : (s \o t)[i + m] = t[i]
    BY <2>1, <2>2
  <2> QED
    BY <2>1, <2>2, <2>4, <2>5
<1>3. \A i \in 1..m + n : (s \o t)[i] # delim
  BY <1>2 DEF Contains
<1>4. ASSUME NEW i \in 1..m PROVE s[i] # delim
  <2>1. i \in 1..m + n
    BY <1>1
  <2> QED
    BY <1>2, <1>3, <2>1
<1>5. ASSUME NEW i \in 1..n PROVE t[i] # delim
  BY <1>2, <1>3
<1> QED
  BY <1>1, <1>4, <1>5 DEF Contains

\* Short sequences written out.
LEMMA PairJoin ==
  ASSUME NEW T, NEW a \in T, NEW b \in T
  PROVE  <<a>> \o <<b>> = <<a, b>>
<1> DEFINE s == <<a>> \o <<b>>
           t == <<a, b>>
<1>1. t \in Seq(T) /\ Len(t) = 2
  OBVIOUS
<1>2. s \in Seq(T) /\ Len(s) = 2
  OBVIOUS
<1>3. \A n \in 1..2 : s[n] = t[n]
  OBVIOUS
<1> HIDE DEF s, t
<1>4. s = t
  BY <1>1, <1>2, <1>3, SeqEqual
<1> QED
  BY <1>4 DEF s, t

LEMMA PairAppend ==
  ASSUME NEW T, NEW a \in T, NEW b \in T
  PROVE  Append(<<a>>, b) = <<a, b>>
<1> DEFINE s == Append(<<a>>, b)
           t == <<a, b>>
<1>1. t \in Seq(T) /\ Len(t) = 2
  OBVIOUS
<1>2. s \in Seq(T) /\ Len(s) = 2
  OBVIOUS
<1>3. \A n \in 1..2 : s[n] = t[n]
  OBVIOUS
<1> HIDE DEF s, t
<1>4. s = t
  BY <1>1, <1>2, <1>3, SeqEqual
<1> QED
  BY <1>4 DEF s, t

LEMMA TripleAppend ==
  ASSUME NEW T, NEW a \in T, NEW b \in T, NEW c \in T
  PROVE  Append(<<a, b>>, c) = <<a, b, c>>
<1> DEFINE s == Append(<<a, b>>, c)
           t == <<a, b, c>>
<1>1. t \in Seq(T) /\ Len(t) = 3
  OBVIOUS
<1>2. s \in Seq(T) /\ Len(s) = 3
  OBVIOUS
<1>3. \A n \in 1..3 : s[n] = t[n]
  OBVIOUS
<1> HIDE DEF s, t
<1>4. s = t
  BY <1>1, <1>2, <1>3, SeqEqual
<1> QED
  BY <1>4 DEF s, t

LEMMA TripleJoin ==
  ASSUME NEW T, NEW a \in T, NEW b \in T, NEW c \in T
  PROVE  <<a, b>> \o <<c>> = <<a, b, c>>
<1> DEFINE s == <<a, b>> \o <<c>>
           t == <<a, b, c>>
<1>1. t \in Seq(T) /\ Len(t) = 3
  OBVIOUS
<1>2. s \in Seq(T) /\ Len(s) = 3
  OBVIOUS
<1>3. \A n \in 1..3 : s[n] = t[n]
  OBVIOUS
<1> HIDE DEF s, t
<1>4. s = t
  BY <1>1, <1>2, <1>3, SeqEqual
<1> QED
  BY <1>4 DEF s, t

LEMMA ClickText ==
  ASSUME NEW T, NEW a \in T, NEW b \in T, NEW c \in T, NEW d \in T, NEW e \in T, NEW f \in T,
         NEW h \in T, NEW i \in T
  PROVE  <<a, b, c>> \o <<d>> \o <<e, b, f>> \o <<d>> \o <<h, b, i>>
           = <<a, b, c, d, e, b, f, d, h, b, i>>
<1> DEFINE s == <<a, b, c>> \o <<d>> \o <<e, b, f>> \o <<d>> \o <<h, b, i>>
           t == <<a, b, c, d, e, b, f, d, h, b, i>>
<1>1. t \in Seq(T) /\ Len(t) = 11
  OBVIOUS
<1>2. s \in Seq(T) /\ Len(s) = 11
  OBVIOUS
<1>3. \A n \in 1..11 : s[n] = t[n]
  OBVIOUS
<1> HIDE DEF s, t
<1>4. s = t
  BY <1>1, <1>2, <1>3, SeqEqual
<1> QED
  BY <1>4 DEF s, t

\* A parameter with a value.
LEMMA ParamIs ==
  ASSUME NEW name \in Token, NEW value \in Words, name # "=", ~Contains(value, "=")
  PROVE  Split(<<name, "=">> \o value, "=") = << <<name>>, value >>
<1>1. <<name>> \in Seq(Token) /\ value \in Seq(Token) /\ "=" \in Token
  BY TokenAssumption DEF Words, Delimiters
<1>2. <<name>> \o <<"=">> = <<name, "=">>
  BY <1>1, PairJoin
<1>3. Split(<<name>>, "=") = << <<name>> >>
  BY <1>1, ContainsOne, SplitNone
<1>4. Split(<<name>> \o <<"=">> \o value, "=") = Append(Split(<<name>>, "="), value)
  BY <1>1, SplitJoin
<1>5. Append(<< <<name>> >>, value) = << <<name>>, value >>
  BY <1>1, PairAppend
<1> QED
  BY <1>2, <1>3, <1>4, <1>5

LEMMA DigitsAre ==
  ASSUME NEW n \in {Number[token] : token \in DOMAIN Number}
  PROVE  /\ Digits(n) \in DOMAIN Number /\ Number[Digits(n)] = n
         /\ Digits(n) \in Token /\ Digits(n) \notin Delimiters
<1>1. PICK token \in DOMAIN Number : Number[token] = n
  OBVIOUS
<1>2. Digits(n) \in DOMAIN Number /\ Number[Digits(n)] = n
  BY <1>1 DEF Digits
<1> QED
  BY <1>2, NumberAssumption

\* The items of a parameter with a number.
NumberItem(name, token) == << <<name>>, <<token>> >>

LEMMA AssignNumber ==
  ASSUME NEW x, NEW y, NEW b, NEW key, NEW token \in DOMAIN Number
  PROVE  /\ Assign(Operation("ok", x, y, b, key), NumberItem("x", token))
              = Operation("ok", Narrow("x", Number[token]), y, b, key)
         /\ Assign(Operation("ok", x, y, b, key), NumberItem("y", token))
              = Operation("ok", x, Narrow("y", Number[token]), b, key)
         /\ Assign(Operation("ok", x, y, b, key), NumberItem("b", token))
              = Operation("ok", x, y, Narrow("b", Number[token]), key)
<1> DEFINE o == Operation("ok", x, y, b, key)
<1>1. o.end = "ok"
  BY DEF Operation
<1>2. IsNumber(<<token>>) /\ stoi(<<token>>) = Number[token]
  BY DEF IsNumber, stoi
<1>3. ASSUME NEW name \in {"x", "y", "b"}
      PROVE  Assign(o, NumberItem(name, token)) = [o EXCEPT ![name] = Narrow(name, Number[token])]
  <2> DEFINE param == << <<name>>, <<token>> >>
  <2>1. /\ Len(param) = 2 /\ Len(param[1]) = 1 /\ param[1][1] = name
        /\ param[2] = <<token>>
    OBVIOUS
  <2> HIDE DEF param, o
  <2>2. Named(param) /\ name # "k" /\ Len(param) # 1
    BY <2>1 DEF Named, Names
  <2>3. Assign(o, param) = [o EXCEPT ![name] = Narrow(name, stoi(<<token>>))]
    BY <1>1, <1>2, <2>1, <2>2 DEF Assign
  <2> QED
    BY <1>2, <2>3 DEF param, NumberItem
<1>4. \A n : [o EXCEPT !.x = n] = Operation("ok", n, y, b, key)
  BY DEF Operation
<1>5. \A n : [o EXCEPT !.y = n] = Operation("ok", x, n, b, key)
  BY DEF Operation
<1>6. \A n : [o EXCEPT !.b = n] = Operation("ok", x, y, n, key)
  BY DEF Operation
<1> HIDE DEF o
<1>7. Assign(o, NumberItem("x", token)) = [o EXCEPT !.x = Narrow("x", Number[token])]
  BY <1>3
<1>8. Assign(o, NumberItem("y", token)) = [o EXCEPT !.y = Narrow("y", Number[token])]
  BY <1>3
<1>9. Assign(o, NumberItem("b", token)) = [o EXCEPT !.b = Narrow("b", Number[token])]
  BY <1>3
<1> QED
  BY <1>4, <1>5, <1>6, <1>7, <1>8, <1>9 DEF o

LEMMA AssignKey ==
  ASSUME NEW value, NEW param, Len(param) >= 2, Len(param) \in Nat, param[1] = <<"k">>, param[2] = value
  PROVE  Assign(NoOperation, param) = Operation("ok", 0, 0, 0, KeyOf(value))
<1> DEFINE o == NoOperation
<1>1. o.end = "ok"
  BY DEF Operation, NoOperation
<1>2. Len(param[1]) = 1 /\ param[1][1] = "k" /\ Len(param) # 1
  OBVIOUS
<1>3. Named(param)
  BY <1>2 DEF Named, Names
<1>4. \A n : [o EXCEPT !.key = n] = Operation("ok", 0, 0, 0, n)
  BY DEF Operation, NoOperation
<1> HIDE DEF o
<1>5. Assign(o, param) = [o EXCEPT !.key = KeyOf(value)]
  BY <1>1, <1>2, <1>3 DEF Assign
<1> QED
  BY <1>4, <1>5 DEF o

LEMMA AssignNothing ==
  ASSUME NEW o, NEW param, ~Named(param) PROVE Assign(o, param) = o
  BY DEF Assign

LEMMA ContainsTwo ==
  ASSUME NEW a, NEW b, NEW delim PROVE Contains(<<a, b>>, delim) <=> a = delim \/ b = delim
<1>1. /\ Len(<<a, b>>) = 2 /\ <<a, b>>[1] = a /\ <<a, b>>[2] = b /\ 1 \in 1..2 /\ 2 \in 1..2
      /\ \A i \in 1..2 : i = 1 \/ i = 2
  OBVIOUS
<1> QED
  BY <1>1 DEF Contains

LEMMA ContainsThree ==
  ASSUME NEW a, NEW b, NEW c, NEW delim
  PROVE  Contains(<<a, b, c>>, delim) <=> a = delim \/ b = delim \/ c = delim
<1>1. /\ Len(<<a, b, c>>) = 3 /\ <<a, b, c>>[1] = a /\ <<a, b, c>>[2] = b /\ <<a, b, c>>[3] = c
      /\ 1 \in 1..3 /\ 2 \in 1..3 /\ 3 \in 1..3
      /\ \A i \in 1..3 : i = 1 \/ i = 2 \/ i = 3
  OBVIOUS
<1> QED
  BY <1>1 DEF Contains

\* A poll is no operation.
LEMMA PollRead ==
  /\ <<"t", "=", "1600000000000">> \in Words
  /\ mrhc_query(<<"t", "=", "1600000000000">>) = NoOperation
<1> DEFINE time == "1600000000000"
           poll == <<"t", "=", time>>
           param == << <<"t">>, <<time>> >>
<1>1. "t" \in Token /\ "=" \in Token /\ time \in Token /\ time # "=" /\ time # "&"
  BY TokenAssumption DEF Delimiters
<1> HIDE DEF time
<1>2. poll \in Words /\ poll = <<"t", "=">> \o <<time>> /\ <<time>> \in Words
  BY <1>1, TripleJoin DEF Words
<1>3. ~Contains(poll, "&") /\ ~Contains(<<time>>, "=")
  BY <1>1, ContainsOne, ContainsThree
<1> HIDE DEF poll
<1>4. Split(poll, "&") = <<poll>>
  BY <1>2, <1>3, SplitNone DEF Words
<1>5. Split(poll, "=") = param
  BY <1>1, <1>2, <1>3, ParamIs
<1>6. param[1] = <<"t">> /\ <<"t">>[1] = "t"
  OBVIOUS
<1>7. ~Named(param)
  BY <1>6 DEF Named, Names
<1> HIDE DEF param
<1>8. mrhc_query(poll) = Assign(NoOperation, param)
  BY <1>2, <1>4, <1>5, QueryOne
<1> QED
  BY <1>2, <1>7, <1>8, AssignNothing DEF poll, time

\* A number as a parameter.
LEMMA NumberParam ==
  ASSUME NEW name \in Token \ Delimiters, NEW token \in DOMAIN Number
  PROVE  /\ <<name, "=", token>> \in Words /\ ~Contains(<<name, "=", token>>, "&")
         /\ Split(<<name, "=", token>>, "=") = NumberItem(name, token)
<1>1. name \in Token /\ "=" \in Token /\ token \in Token /\ token # "=" /\ token # "&"
      /\ name # "=" /\ name # "&"
  BY TokenAssumption, NumberAssumption DEF Delimiters
<1>2. <<name, "=", token>> \in Words /\ <<name, "=", token>> = <<name, "=">> \o <<token>>
      /\ <<token>> \in Words
  BY <1>1, TripleJoin DEF Words
<1>3. ~Contains(<<name, "=", token>>, "&") /\ ~Contains(<<token>>, "=")
  BY <1>1, ContainsOne, ContainsThree
<1> QED
  BY <1>1, <1>2, <1>3, ParamIs DEF NumberItem

LEMMA NarrowShort ==
  ASSUME NEW n \in Short PROVE Narrow("x", n) = n /\ Narrow("y", n) = n
<1>1. n \in Int /\ n >= 0 /\ n <= 65535
  BY SMT DEF Short
<1>2. n % 65536 = n
  BY <1>1, SMT
<1>3. Narrow("x", n) = n % 65536 /\ Narrow("y", n) = n % 65536
  BY <1>1, NarrowTyped, SMT
<1> QED
  BY <1>2, <1>3, SMT

LEMMA NarrowButton == ASSUME NEW n \in 0..7 PROVE Narrow("b", n) = n
  BY SMT DEF Narrow, Modulus

LEMMA ClickTyped ==
  ASSUME NEW at \in Click PROVE at.x \in Short /\ at.y \in Short /\ at.b \in 0..7
<1>1. at \in [x : Short, y : Short, b : 0..7]
  BY ClickAssumption
<1> QED
  BY <1>1

LEMMA AssignNumbers ==
  ASSUME NEW dx \in DOMAIN Number, NEW dy \in DOMAIN Number, NEW db \in DOMAIN Number
  PROVE  Assign(Assign(Assign(NoOperation, NumberItem("x", dx)), NumberItem("y", dy)),
                NumberItem("b", db))
         = Operation("ok", Narrow("x", Number[dx]), Narrow("y", Number[dy]), Narrow("b", Number[db]), <<>>)
<1> DEFINE X == Narrow("x", Number[dx])
           Y == Narrow("y", Number[dy])
           B == Narrow("b", Number[db])
<1>1. Assign(Operation("ok", 0, 0, 0, <<>>), NumberItem("x", dx)) = Operation("ok", X, 0, 0, <<>>)
  BY AssignNumber, SMT
<1>2. Assign(Operation("ok", X, 0, 0, <<>>), NumberItem("y", dy)) = Operation("ok", X, Y, 0, <<>>)
  BY AssignNumber, SMT
<1>3. Assign(Operation("ok", X, Y, 0, <<>>), NumberItem("b", db)) = Operation("ok", X, Y, B, <<>>)
  BY AssignNumber, SMT
<1> HIDE DEF X, Y, B
<1> QED
  BY <1>1, <1>2, <1>3 DEF NoOperation, X, Y, B

ClickQuery(at) ==
  <<"x", "=", Digits(at.x), "&", "y", "=", Digits(at.y), "&", "b", "=", Digits(at.b)>>

\* A click is an operation with its position and its button.
LEMMA ClickRead ==
  ASSUME NEW at \in Click
  PROVE  /\ ClickQuery(at) \in Words
         /\ mrhc_query(ClickQuery(at)) = Operation("ok", at.x, at.y, at.b, <<>>)
<1>1. /\ at.x \in {Number[token] : token \in DOMAIN Number}
      /\ at.y \in {Number[token] : token \in DOMAIN Number}
      /\ at.b \in {Number[token] : token \in DOMAIN Number}
  <2>1. {at.x, at.y, at.b} \subseteq {Number[token] : token \in DOMAIN Number}
    BY DigitsAssumption, Zenon
  <2> QED
    BY <2>1
<1>2. Narrow("x", at.x) = at.x /\ Narrow("y", at.y) = at.y /\ Narrow("b", at.b) = at.b
  <2>1. at.x \in Short /\ at.y \in Short /\ at.b \in 0..7
    BY ClickTyped
  <2> QED
    BY <2>1, NarrowShort, NarrowButton
<1>3. PICK dx, dy, db :
        /\ dx = Digits(at.x) /\ dx \in DOMAIN Number /\ Number[dx] = at.x
        /\ dy = Digits(at.y) /\ dy \in DOMAIN Number /\ Number[dy] = at.y
        /\ db = Digits(at.b) /\ db \in DOMAIN Number /\ Number[db] = at.b
  BY <1>1, DigitsAre
<1>4. /\ "x" \in Token \ Delimiters /\ "y" \in Token \ Delimiters /\ "b" \in Token \ Delimiters
      /\ "&" \in Token /\ "=" \in Token
      /\ dx \in Token /\ dy \in Token /\ db \in Token
  BY <1>3, TokenAssumption, NumberAssumption DEF Delimiters
<1> DEFINE p == <<"x", "=", dx>>
           q == <<"y", "=", dy>>
           r == <<"b", "=", db>>
<1>5. ClickQuery(at) = p \o <<"&">> \o q \o <<"&">> \o r
  <2>1. p \o <<"&">> \o q \o <<"&">> \o r
          = <<"x", "=", dx, "&", "y", "=", dy, "&", "b", "=", db>>
    BY <1>4, ClickText
  <2> QED
    BY <1>3, <2>1 DEF ClickQuery
<1>6. p \in Words /\ ~Contains(p, "&") /\ Split(p, "=") = NumberItem("x", dx)
  BY <1>3, <1>4, NumberParam
<1>7. q \in Words /\ ~Contains(q, "&") /\ Split(q, "=") = NumberItem("y", dy)
  BY <1>3, <1>4, NumberParam
<1>8. r \in Words /\ ~Contains(r, "&") /\ Split(r, "=") = NumberItem("b", db)
  BY <1>3, <1>4, NumberParam
<1> HIDE DEF p, q, r
<1> DEFINE u == p \o <<"&">> \o q
           v == u \o <<"&">> \o r
<1>9. <<"&">> \in Seq(Token) /\ p \in Seq(Token) /\ q \in Seq(Token) /\ r \in Seq(Token)
  BY <1>4, <1>6, <1>7, <1>8 DEF Words
<1>10. u \in Seq(Token)
  BY <1>9, ConcatProperties
<1>11. v \in Seq(Token)
  <2> HIDE DEF u
  <2> QED
    BY <1>9, <1>10, ConcatProperties
<1>12. Split(u, "&") = <<p, q>>
  <2>1. Split(p, "&") = <<p>>
    BY <1>6, <1>9, SplitNone
  <2>2. Split(u, "&") = Append(Split(p, "&"), q)
    BY <1>4, <1>7, <1>9, SplitJoin, Zenon
  <2> QED
    BY <1>9, <2>1, <2>2, PairAppend
<1> HIDE DEF u
<1>13. Split(v, "&") = <<p, q, r>>
  <2>1. Split(v, "&") = Append(Split(u, "&"), r)
    BY <1>4, <1>8, <1>9, <1>10, SplitJoin, Zenon
  <2> QED
    BY <1>9, <1>12, <2>1, TripleAppend
<1> HIDE DEF v
<1>14. mrhc_query(v) = Assign(Assign(Assign(NoOperation, NumberItem("x", dx)), NumberItem("y", dy)),
                              NumberItem("b", db))
  <2>1. v \in Words
    BY <1>11 DEF Words
  <2>2. mrhc_query(v) = Assign(Assign(Assign(NoOperation, Split(p, "=")), Split(q, "=")), Split(r, "="))
    BY <1>13, <2>1, QueryThree
  <2> QED
    BY <1>6, <1>7, <1>8, <2>2, Zenon
<1>15. Assign(Assign(Assign(NoOperation, NumberItem("x", dx)), NumberItem("y", dy)),
              NumberItem("b", db))
         = Operation("ok", Narrow("x", Number[dx]), Narrow("y", Number[dy]), Narrow("b", Number[db]), <<>>)
  BY <1>3, AssignNumbers
<1>18. ClickQuery(at) = v
  BY <1>5 DEF u, v
<1> QED
  BY <1>11, <1>2, <1>3, <1>14, <1>15, <1>18 DEF Words

KeyQuery(key) == <<"k", "=">> \o Encode(key)

\* What the browser or the address keeps of a key.
Typed(key) == IF key \in {" ", "#", "&", "="} THEN "Space" ELSE key

\* A key is an operation with that key, but for the delimiters of an address.
LEMMA KeyRead ==
  ASSUME NEW key \in Token
  PROVE  /\ KeyQuery(key) \in Words
         /\ mrhc_query(KeyQuery(key)) = Operation("ok", 0, 0, 0, <<Typed(key)>>)
<1> DEFINE s == <<"k", "=">>
<1>1. "k" \in Token /\ "&" \in Token /\ "=" \in Token
  BY TokenAssumption DEF Delimiters
<1>2. <<>> \in Words /\ <<key>> \in Words /\ s \in Words /\ s \in Seq(Token) /\ <<>> \in Seq(Token)
  BY <1>1, EmptySeq DEF Words
<1>3. ~Contains(s, "&")
  BY ContainsTwo
<1>4. s \o <<>> = s
  BY <1>2, ConcatEmptySeq
<1>5. Split(s, "=") = << <<"k">>, <<>> >>
  BY <1>1, <1>2, <1>4, ContainsEmpty, ParamIs
<1>6. Split(s, "&") = <<s>>
  BY <1>2, <1>3, SplitNone
<1>7. KeyQuery(key) \in Words
  <2>1. Encode(key) \in Seq(Token)
    BY <1>2 DEF Encode, Words
  <2> QED
    BY <1>2, <2>1, ConcatProperties DEF KeyQuery, Words
<1>8. KeyOf(<<>>) = <<"Space">>
  BY DEF KeyOf
<1>9. Assign(NoOperation, << <<"k">>, <<>> >>) = Operation("ok", 0, 0, 0, <<"Space">>)
  <2>1. /\ Len(<< <<"k">>, <<>> >>) = 2 /\ << <<"k">>, <<>> >>[1] = <<"k">>
        /\ << <<"k">>, <<>> >>[2] = <<>>
    OBVIOUS
  <2> QED
    BY <1>8, <2>1, AssignKey
<1> HIDE DEF s
<1>10. CASE key \in {" ", "#"}
  <2>1. KeyQuery(key) = s /\ Typed(key) = "Space"
    BY <1>4, <1>10 DEF KeyQuery, Encode, Typed, s
  <2>2. mrhc_query(s) = Assign(NoOperation, Split(s, "="))
    BY <1>2, <1>6, QueryOne
  <2> QED
    BY <1>5, <1>7, <1>9, <2>1, <2>2
<1>11. CASE key = "&"
  <2>1. KeyQuery(key) = s \o <<"&">> \o <<>> /\ Typed(key) = "Space"
    <3>1. KeyQuery(key) = s \o <<"&">> /\ Typed(key) = "Space"
      BY <1>11 DEF KeyQuery, Encode, Typed, s
    <3>2. s \o <<"&">> \in Seq(Token)
      BY <1>2, <1>11, ConcatProperties DEF Words
    <3> QED
      BY <3>1, <3>2, ConcatEmptySeq
  <2>2. Split(KeyQuery(key), "&") = << s, <<>> >>
    <3>1. Split(s \o <<"&">> \o <<>>, "&") = Append(Split(s, "&"), <<>>)
      BY <1>1, <1>2, ContainsEmpty, SplitJoin
    <3>2. Append(<<s>>, <<>>) = << s, <<>> >>
      BY <1>2, PairAppend
    <3> QED
      BY <1>6, <2>1, <3>1, <3>2
  <2>3. mrhc_query(KeyQuery(key)) = Assign(Assign(NoOperation, Split(s, "=")), Split(<<>>, "="))
    BY <1>7, <2>2, QueryTwo
  <2>4. Split(<<>>, "=") = << <<>> >>
    BY ItemsEmpty DEF Split
  <2>5. ~Named(<< <<>> >>)
    <3>1. << <<>> >>[1] = <<>> /\ Len(<<>>) = 0
      OBVIOUS
    <3> QED
      BY <3>1 DEF Named
  <2> QED
    BY <1>5, <1>7, <1>9, <2>1, <2>3, <2>4, <2>5, AssignNothing
<1>12. CASE key = "="
  <2>1. KeyQuery(key) = s \o <<"=">> /\ KeyQuery(key) = s \o <<"=">> \o <<>> /\ Typed(key) = "Space"
    <3>1. KeyQuery(key) = s \o <<"=">> /\ Typed(key) = "Space"
      BY <1>12 DEF KeyQuery, Encode, Typed, s
    <3>2. s \o <<"=">> \in Seq(Token)
      BY <1>2, <1>12, ConcatProperties DEF Words
    <3> QED
      BY <3>1, <3>2, ConcatEmptySeq
  <2>2. KeyQuery(key) = <<"k", "=", "=">>
    BY <1>1, <2>1, TripleJoin DEF s
  <2>3. Split(KeyQuery(key), "&") = <<KeyQuery(key)>>
    <3>1. ~Contains(KeyQuery(key), "&")
      BY <2>2, ContainsThree
    <3> QED
      BY <1>7, <3>1, SplitNone DEF Words
  <2>4. Split(KeyQuery(key), "=") = << <<"k">>, <<>>, <<>> >>
    <3>1. Split(s \o <<"=">> \o <<>>, "=") = Append(Split(s, "="), <<>>)
      BY <1>1, <1>2, ContainsEmpty, SplitJoin
    <3>2. Append(<< <<"k">>, <<>> >>, <<>>) = << <<"k">>, <<>>, <<>> >>
      <4>1. <<"k">> \in Seq(Token)
        BY <1>1
      <4> QED
        BY <1>2, <4>1, TripleAppend
    <3> QED
      BY <1>5, <2>1, <3>1, <3>2
  <2>5. mrhc_query(KeyQuery(key)) = Assign(NoOperation, Split(KeyQuery(key), "="))
    BY <1>7, <2>3, QueryOne
  <2> DEFINE param == << <<"k">>, <<>>, <<>> >>
  <2>6. Len(param) = 3 /\ param[1] = <<"k">> /\ param[2] = <<>>
    OBVIOUS
  <2> HIDE DEF param
  <2>7. Assign(NoOperation, param) = Operation("ok", 0, 0, 0, <<"Space">>)
    BY <1>8, <2>6, AssignKey
  <2> QED
    BY <1>7, <2>1, <2>4, <2>5, <2>7 DEF param
<1>13. CASE key \notin {" ", "#", "&", "="}
  <2>1. KeyQuery(key) = s \o <<key>> /\ Typed(key) = key
    BY <1>13 DEF KeyQuery, Encode, Typed, s
  <2>2. KeyQuery(key) = <<"k", "=", key>>
    BY <1>1, <2>1, TripleJoin DEF s
  <2>3. Split(KeyQuery(key), "&") = <<KeyQuery(key)>>
    <3>1. key # "&"
      BY <1>13
    <3>2. ~Contains(KeyQuery(key), "&")
      BY <2>2, <3>1, ContainsThree
    <3> QED
      BY <1>7, <3>2, SplitNone DEF Words
  <2>4. Split(KeyQuery(key), "=") = << <<"k">>, <<key>> >>
    <3>1. ~Contains(<<key>>, "=")
      BY <1>13, ContainsOne
    <3> QED
      BY <1>1, <1>2, <2>1, <3>1, ParamIs DEF s
  <2>5. mrhc_query(KeyQuery(key)) = Assign(NoOperation, Split(KeyQuery(key), "="))
    BY <1>7, <2>3, QueryOne
  <2> DEFINE param == << <<"k">>, <<key>> >>
  <2>6. Len(param) = 2 /\ param[1] = <<"k">> /\ param[2] = <<key>> /\ <<key>> # <<>>
    OBVIOUS
  <2> HIDE DEF param
  <2>7. Assign(NoOperation, param) = Operation("ok", 0, 0, 0, <<key>>)
    BY <2>6, AssignKey DEF KeyOf
  <2> QED
    BY <1>7, <2>1, <2>4, <2>5, <2>7 DEF param
<1> QED
  BY <1>10, <1>11, <1>12, <1>13

-----------------------------------------------------------------------------

(***************************************************************************)
(* Joining texts.                                                          *)
(***************************************************************************)

LEMMA ItemsList ==
  ASSUME NEW T, NEW s \in Seq(T), NEW delim
  PROVE  /\ Items(s, delim) \in Seq(Seq(T))
         /\ Len(Items(s, delim)) \in Nat /\ Len(Items(s, delim)) >= 1
         /\ \A i \in 1..Len(Items(s, delim)) : Items(s, delim)[i] \in Seq(T)
<1> DEFINE items == Items(s, delim)
<1>1. items \in Seq(Seq(T)) /\ items # <<>>
  BY ItemsTyped DEF Texts
<1> HIDE DEF items
<1>2. Len(items) \in Nat /\ Len(items) # 0
  BY <1>1, EmptySeq, LenProperties
<1>3. \A i \in 1..Len(items) : items[i] \in Seq(T)
  BY <1>1, ElementOfSeq
<1> QED
  BY <1>1, <1>2, <1>3 DEF items

\* What one more token does to each of n items.
MoreBy(cut, items, n, e, delim) ==
  /\ e = delim => /\ Len(cut) = n + 1 /\ cut[n + 1] = <<>>
                  /\ \A i \in 1..n : cut[i] = items[i]
  /\ e # delim => /\ Len(cut) = n /\ cut[n] = Append(items[n], e)
                  /\ \A i \in 1..n - 1 : cut[i] = items[i]

LEMMA CutElements ==
  ASSUME NEW T, NEW items \in Texts(T), NEW e \in T, NEW delim, NEW n \in Nat, n = Len(items)
  PROVE  n >= 1 /\ MoreBy(Cut(items, e, delim), items, n, e, delim)
<1>1. items \in Seq(Seq(T)) /\ items # <<>>
  BY DEF Texts
<1>2. n >= 1
  BY <1>1, EmptySeq, LenProperties
<1>3. CASE e = delim
  <2>1. Cut(items, e, delim) = Append(items, <<>>) /\ <<>> \in Seq(T)
    BY <1>3, EmptySeq DEF Cut
  <2>2. /\ Len(Append(items, <<>>)) = n + 1 /\ Append(items, <<>>)[n + 1] = <<>>
        /\ \A i \in 1..n : Append(items, <<>>)[i] = items[i]
    BY <1>1, <2>1, AppendProperties
  <2> QED
    BY <1>2, <1>3, <2>1, <2>2 DEF MoreBy
<1>4. CASE e # delim
  <2>1. PICK f, l : f = Front(items) /\ l = Last(items)
    OBVIOUS
  <2>2. f \in Seq(Seq(T)) /\ l \in Seq(T) /\ items = Append(f, l)
    BY <2>1, TextsParts
  <2>3. PICK m \in Nat : m = Len(f)
    BY <2>2, LenProperties
  <2>4. Len(items) = m + 1 /\ items[m + 1] = l /\ \A i \in 1..m : items[i] = f[i]
    BY <2>2, <2>3, AppendProperties
  <2>5. n = m + 1 /\ n - 1 = m
    BY <2>4
  <2> DEFINE g == Append(l, e)
             cut == Append(f, g)
  <2>6. g \in Seq(T)
    BY <2>2, AppendProperties
  <2> HIDE DEF g
  <2>7. Len(cut) = m + 1 /\ cut[m + 1] = g /\ \A i \in 1..m : cut[i] = f[i]
    BY <2>2, <2>3, <2>6, AppendProperties
  <2>8. Cut(items, e, delim) = cut
    BY <1>4, <2>1 DEF Cut, g
  <2> HIDE DEF cut
  <2> QED
    BY <1>2, <1>4, <2>4, <2>5, <2>7, <2>8 DEF g, MoreBy
<1> QED
  BY <1>3, <1>4

\* One text behind the other: the last item of the first runs into the first of the second.
Joined(c, a, b) ==
  /\ Len(c) = Len(a) + Len(b) - 1
  /\ \A i \in 1..Len(a) - 1 : c[i] = a[i]
  /\ c[Len(a)] = a[Len(a)] \o b[1]
  /\ \A i \in 2..Len(b) : c[Len(a) + i - 1] = b[i]

LEMMA JoinedCut ==
  ASSUME NEW T, NEW a \in Texts(T), NEW b \in Texts(T), NEW c \in Texts(T), Joined(c, a, b),
         NEW e \in T, NEW delim
  PROVE  Joined(Cut(c, e, delim), a, Cut(b, e, delim))
<1>1. PICK k \in Nat, m \in Nat, n \in Nat : k = Len(a) /\ m = Len(b) /\ n = Len(c)
  BY LenProperties DEF Texts
<1>2. k >= 1 /\ m >= 1 /\ n = k + m - 1
  BY <1>1, CutElements DEF Joined
<1>3. PICK u, v : u = Cut(b, e, delim) /\ v = Cut(c, e, delim)
  OBVIOUS
<1>7. MoreBy(u, b, m, e, delim) /\ MoreBy(v, c, n, e, delim)
  BY <1>1, <1>3, CutElements
<1>4. /\ \A i \in 1..k - 1 : c[i] = a[i]
      /\ c[k] = a[k] \o b[1]
      /\ \A i \in 2..m : c[k + i - 1] = b[i]
  BY <1>1 DEF Joined
<1>5. CASE e = delim
  <2>1. Len(u) = m + 1 /\ u[m + 1] = <<>> /\ \A i \in 1..m : u[i] = b[i]
    BY <1>5, <1>7 DEF MoreBy
  <2>2. Len(v) = n + 1 /\ v[n + 1] = <<>> /\ \A i \in 1..n : v[i] = c[i]
    BY <1>5, <1>7 DEF MoreBy
  <2>3. \A i \in 1..k - 1 : i \in 1..n /\ v[i] = a[i]
    BY <1>2, <1>4, <2>2
  <2>4. v[k] = a[k] \o u[1]
    <3>1. k \in 1..n /\ 1 \in 1..m
      BY <1>2
    <3> QED
      BY <1>4, <2>1, <2>2, <3>1
  <2>5. ASSUME NEW i \in 2..m + 1 PROVE v[k + i - 1] = u[i]
    <3>1. CASE i = m + 1
      <4>1. k + i - 1 = n + 1
        BY <1>2, <3>1
      <4> QED
        BY <2>1, <2>2, <3>1, <4>1
    <3>2. CASE i # m + 1
      <4>1. i \in 2..m /\ i \in 1..m /\ k + i - 1 \in 1..n
        BY <1>2, <3>2
      <4> QED
        BY <1>4, <2>1, <2>2, <4>1
    <3> QED
      BY <3>1, <3>2
  <2>6. n + 1 = k + (m + 1) - 1
    BY <1>2
  <2> QED
    BY <1>1, <1>3, <2>1, <2>2, <2>3, <2>4, <2>5, <2>6 DEF Joined
<1>6. CASE e # delim
  <2>1. Len(u) = m /\ u[m] = Append(b[m], e) /\ \A i \in 1..m - 1 : u[i] = b[i]
    BY <1>6, <1>7 DEF MoreBy
  <2>2. Len(v) = n /\ v[n] = Append(c[n], e) /\ \A i \in 1..n - 1 : v[i] = c[i]
    BY <1>6, <1>7 DEF MoreBy
  <2>3. \A i \in 1..k - 1 : i \in 1..n - 1 /\ v[i] = a[i]
    BY <1>2, <1>4, <2>2
  <2>4. v[k] = a[k] \o u[1]
    <3>1. CASE m = 1
      <4>7. n = k
        BY <1>2, <3>1
      <4>1. v[k] = Append(a[k] \o b[1], e) /\ u[1] = Append(b[1], e)
        <5>1. v[k] = Append(c[k], e)
          BY <2>2, <4>7
        <5>2. u[1] = Append(b[1], e)
          BY <2>1, <3>1
        <5> QED
          BY <1>4, <5>1, <5>2
      <4>2. a[k] \in Seq(T) /\ b[1] \in Seq(T) /\ <<e>> \in Seq(T)
        <5>1. a \in Seq(Seq(T)) /\ b \in Seq(Seq(T)) /\ k \in 1..k /\ 1 \in 1..m
          BY <1>2 DEF Texts
        <5>2. a[k] \in Seq(T) /\ b[1] \in Seq(T)
          BY <1>1, <5>1, ElementOfSeq
        <5> QED
          BY <5>2
      <4>3. PICK p \in Seq(T), q \in Seq(T) : p = a[k] /\ q = b[1]
        BY <4>2
      <4>4. p \o q \in Seq(T)
        BY ConcatProperties
      <4>5. Append(p \o q, e) = (p \o q) \o <<e>> /\ Append(q, e) = q \o <<e>>
        BY <4>4, AppendIsConcat
      <4>6. (p \o q) \o <<e>> = p \o (q \o <<e>>)
        BY <4>2, ConcatAssociative
      <4> QED
        BY <4>1, <4>3, <4>5, <4>6
    <3>2. CASE m # 1
      <4>1. k \in 1..n - 1 /\ 1 \in 1..m - 1
        BY <1>2, <3>2
      <4> QED
        BY <1>4, <2>1, <2>2, <4>1
    <3> QED
      BY <3>1, <3>2
  <2>5. ASSUME NEW i \in 2..m PROVE v[k + i - 1] = u[i]
    <3>1. CASE i = m
      <4>1. k + i - 1 = n
        BY <1>2, <3>1
      <4>2. c[n] = b[m]
        BY <1>4, <3>1, <4>1
      <4> QED
        BY <2>1, <2>2, <3>1, <4>1, <4>2
    <3>2. CASE i # m
      <4>1. i \in 1..m - 1 /\ k + i - 1 \in 1..n - 1
        BY <1>2, <3>2
      <4> QED
        BY <1>4, <2>1, <2>2, <4>1
    <3> QED
      BY <3>1, <3>2
  <2> QED
    BY <1>1, <1>2, <1>3, <2>1, <2>2, <2>3, <2>4, <2>5 DEF Joined
<1> QED
  BY <1>5, <1>6

LEMMA ItemsJoin ==
  ASSUME NEW T, NEW s \in Seq(T), NEW t \in Seq(T), NEW delim
  PROVE  Joined(Items(s \o t, delim), Items(s, delim), Items(t, delim))
<1> DEFINE S == {u \in Seq(T) : Joined(Items(s \o u, delim), Items(s, delim), Items(u, delim))}
<1>1. <<>> \in S
  <2>1. s \o <<>> = s /\ <<>> \in Seq(T)
    BY ConcatEmptySeq, EmptySeq
  <2>2. PICK a \in Seq(Seq(T)), n \in Nat : a = Items(s, delim) /\ n = Len(a) /\ n >= 1
    BY ItemsList
  <2>3. a[n] \in Seq(T)
    BY <2>2, ElementOfSeq
  <2>4. a[n] \o <<>> = a[n]
    BY <2>3, ConcatEmptySeq
  <2>5. Len(<< <<>> >>) = 1 /\ << <<>> >>[1] = <<>> /\ 2..1 = {}
    OBVIOUS
  <2>6. Items(<<>>, delim) = << <<>> >>
    BY ItemsEmpty
  <2>7. Joined(a, a, << <<>> >>)
    BY <2>2, <2>4, <2>5 DEF Joined
  <2> QED
    BY <2>1, <2>2, <2>6, <2>7
<1>2. ASSUME NEW u \in Seq(T), NEW e \in T, u \in S PROVE Append(u, e) \in S
  <2>1. Append(u, e) \in Seq(T) /\ s \o u \in Seq(T) /\ <<e>> \in Seq(T)
    BY AppendProperties, ConcatProperties
  <2>2. s \o Append(u, e) = Append(s \o u, e)
    <3>1. Append(u, e) = u \o <<e>> /\ Append(s \o u, e) = (s \o u) \o <<e>>
      BY <2>1, AppendIsConcat
    <3>2. s \o (u \o <<e>>) = (s \o u) \o <<e>>
      BY <2>1, ConcatAssociative
    <3> QED
      BY <3>1, <3>2
  <2>3. /\ Items(Append(s \o u, e), delim) = Cut(Items(s \o u, delim), e, delim)
        /\ Items(Append(u, e), delim) = Cut(Items(u, delim), e, delim)
    BY <2>1, ItemsAppend
  <2>4. /\ Items(s, delim) \in Texts(T) /\ Items(u, delim) \in Texts(T)
        /\ Items(s \o u, delim) \in Texts(T)
    BY <2>1, ItemsTyped
  <2>5. Joined(Items(s \o u, delim), Items(s, delim), Items(u, delim))
    BY <1>2
  <2> HIDE DEF S
  <2>6. Joined(Cut(Items(s \o u, delim), e, delim), Items(s, delim), Cut(Items(u, delim), e, delim))
    BY <2>4, <2>5, JoinedCut
  <2> QED
    BY <2>1, <2>2, <2>3, <2>6 DEF S
<1> HIDE DEF S
<1>3. Seq(T) \subseteq S
  BY <1>1, <1>2, SeqInduction
<1> QED
  BY <1>3 DEF S

-----------------------------------------------------------------------------

(***************************************************************************)
(* The parameters mrhc_query gets through.                                 *)
(***************************************************************************)

\* Is this a parameter mrhc_query gets through?
Fine(param) ==
  Named(param) => Len(param) # 1 /\ (param[1][1] = "k" \/ IsNumber(param[2]))

LEMMA AssignFine ==
  ASSUME NEW o \in Operations, NEW param
  PROVE  Assign(o, param).end = "ok" <=> o.end = "ok" /\ Fine(param)
<1> DEFINE name == param[1][1]
           value == param[2]
<1>1. /\ [o EXCEPT !.end = "undefined"].end = "undefined"
      /\ [o EXCEPT !.end = "abort"].end = "abort"
      /\ \A key : [o EXCEPT !.key = key].end = o.end
      /\ \A n : [o EXCEPT !.x = n].end = o.end
      /\ \A n : [o EXCEPT !.y = n].end = o.end
      /\ \A n : [o EXCEPT !.b = n].end = o.end
  BY DEF Operations
<1>2. CASE o.end # "ok" \/ ~Named(param)
  <2>1. Assign(o, param) = o
    BY <1>2 DEF Assign
  <2> QED
    BY <1>2, <2>1 DEF Fine
<1>3. CASE o.end = "ok" /\ Named(param) /\ Len(param) = 1
  <2>1. Assign(o, param) = [o EXCEPT !.end = "undefined"]
    BY <1>3 DEF Assign
  <2> QED
    BY <1>1, <1>3, <2>1 DEF Fine
<1>4. CASE o.end = "ok" /\ Named(param) /\ Len(param) # 1
  <2>1. name \in {"x", "y", "b", "k"}
    BY <1>4 DEF Named, Names
  <2>2. Fine(param) <=> name = "k" \/ IsNumber(value)
    BY <1>4 DEF Fine
  <2>3. Assign(o, param) = IF name = "k" THEN [o EXCEPT !.key = KeyOf(value)]
                           ELSE IF IsNumber(value)
                                THEN [o EXCEPT ![name] = Narrow(name, stoi(value))]
                                ELSE [o EXCEPT !.end = "abort"]
    BY <1>4 DEF Assign
  <2> HIDE DEF name, value
  <2>4. CASE name = "k"
    BY <1>1, <1>4, <2>2, <2>3, <2>4
  <2>5. CASE name # "k" /\ ~IsNumber(value)
    BY <1>1, <2>2, <2>3, <2>5
  <2>6. CASE name # "k" /\ IsNumber(value)
    <3> DEFINE n == Narrow(name, stoi(value))
    <3> HIDE DEF n
    <3>1. Assign(o, param) = [o EXCEPT ![name] = n]
      BY <2>3, <2>6 DEF n
    <3>2. [o EXCEPT ![name] = n].end = o.end
      <4>1. CASE name = "x"
        BY <1>1, <4>1
      <4>2. CASE name = "y"
        BY <1>1, <4>2
      <4>3. CASE name = "b"
        BY <1>1, <4>3
      <4> QED
        BY <2>1, <2>6, <4>1, <4>2, <4>3
    <3> QED
      BY <1>4, <2>2, <2>6, <3>1, <3>2
  <2> QED
    BY <2>4, <2>5, <2>6
<1> QED
  BY <1>2, <1>3, <1>4

\* A query is read to its end if each of its parameters can be.
LEMMA QueryFine ==
  ASSUME NEW query \in Words
  PROVE  mrhc_query(query).end = "ok" <=>
           \A i \in 1..Len(Split(query, "&")) : Fine(Split(Split(query, "&")[i], "="))
<1> DEFINE params == Split(query, "&")
           FineTo(n) == \A i \in 1..n : Fine(Split(params[i], "="))
<1>1. PICK f : /\ Reading(f, params)
               /\ \A n \in 0..Len(params) : f[n] \in Operations
               /\ mrhc_query(query) = f[Len(params)]
  BY QueryFunction
<1>2. PICK k \in Nat : k = Len(params)
  BY ItemsList DEF Split, Words
<1> HIDE DEF params
<1> DEFINE S == {n \in Nat : n <= k => (f[n].end = "ok" <=> FineTo(n))}
<1>3. 0 \in S
  <2>1. f[0] = NoOperation /\ NoOperation.end = "ok"
    BY <1>1 DEF Reading, NoOperation, Operation
  <2> QED
    BY <2>1
<1>4. ASSUME NEW n \in Nat, n \in S PROVE n + 1 \in S
  <2> SUFFICES ASSUME n + 1 <= k PROVE f[n + 1].end = "ok" <=> FineTo(n + 1)
    OBVIOUS
  <2>1. n + 1 \in 1..k /\ n \in 0..k /\ (n + 1) - 1 = n /\ n <= k
    OBVIOUS
  <2>2. f[n + 1] = Assign(f[n], Split(params[n + 1], "="))
    BY <1>1, <1>2, <2>1 DEF Reading
  <2>3. f[n].end = "ok" <=> FineTo(n)
    BY <1>4, <2>1
  <2>4. f[n] \in Operations
    BY <1>1, <1>2, <2>1
  <2>5. f[n + 1].end = "ok" <=> f[n].end = "ok" /\ Fine(Split(params[n + 1], "="))
    BY <2>2, <2>4, AssignFine
  <2>6. FineTo(n + 1) <=> FineTo(n) /\ Fine(Split(params[n + 1], "="))
    <3>1. \A i \in Nat : i \in 1..n + 1 <=> i \in 1..n \/ i = n + 1
      OBVIOUS
    <3> QED
      BY <3>1
  <2> QED
    BY <2>3, <2>5, <2>6
<1> HIDE DEF S
<1>5. k \in S
  BY <1>3, <1>4, SetInduction
<1>6. f[k].end = "ok" <=> FineTo(k)
  BY <1>5 DEF S
<1> QED
  BY <1>1, <1>2, <1>6 DEF params

\* Of a text that begins with "?" so does the first item.
Marked(items, list) ==
  /\ Len(items) = Len(list)
  /\ items[1] = <<"?">> \o list[1]
  /\ \A i \in 2..Len(items) : items[i] = list[i]

LEMMA MarkItem ==
  ASSUME NEW s \in Words, NEW delim, delim # "?"
  PROVE  Marked(Items(<<"?">> \o s, delim), Items(s, delim))
<1> DEFINE mark == <<"?">>
           items == Items(mark \o s, delim)
<1>1. mark \in Seq(Token) /\ s \in Seq(Token)
  BY TokenAssumption DEF Words
<1>2. Items(mark, delim) = <<mark>>
  BY <1>1, ContainsOne, SplitNone DEF Split
<1>3. Len(<<mark>>) = 1 /\ <<mark>>[1] = mark
  OBVIOUS
<1> HIDE DEF mark, items
<1>4. PICK b \in Seq(Seq(Token)), n \in Nat : b = Items(s, delim) /\ n = Len(b) /\ n >= 1
  BY <1>1, ItemsList
<1>5. Joined(items, <<mark>>, b)
  BY <1>1, <1>2, <1>4, ItemsJoin DEF items
<1>6. Len(items) = n /\ items[1] = mark \o b[1]
  BY <1>3, <1>4, <1>5 DEF Joined
<1>7. ASSUME NEW i \in 2..n PROVE items[i] = b[i]
  <2>1. items[1 + i - 1] = b[i] /\ 1 + i - 1 = i
    BY <1>3, <1>4, <1>5 DEF Joined
  <2> QED
    BY <2>1
<1> QED
  BY <1>4, <1>6, <1>7 DEF mark, items, Marked

\* A parameter that can be read still can be with "?" and more behind it.
LEMMA FineMore ==
  ASSUME NEW p \in Words, NEW t \in Words, Fine(Split(p, "="))
  PROVE  Fine(Split(p \o (<<"?">> \o t), "="))
<1>1. <<"?">> \in Words /\ "=" # "?"
  BY TokenAssumption DEF Words
<1>2. <<"?">> \o t \in Words
  BY <1>1, ConcatProperties DEF Words
<1>3. PICK a \in Seq(Words), k \in Nat : a = Split(p, "=") /\ k = Len(a) /\ k >= 1 /\ \A i \in 1..k : a[i] \in Words
  BY ItemsList DEF Split, Words
<1>4. PICK b \in Seq(Words), m \in Nat : b = Split(<<"?">> \o t, "=") /\ m = Len(b) /\ m >= 1
  BY <1>2, ItemsList DEF Split, Words
<1>5. PICK c : c = Split(p \o (<<"?">> \o t), "=")
  OBVIOUS
<1>6. Joined(c, a, b)
  BY <1>2, <1>3, <1>4, <1>5, ItemsJoin DEF Split, Words
<1>7. PICK w \in Words : b[1] = <<"?">> \o w
  <2>1. b[1] = <<"?">> \o Items(t, "=")[1]
    BY <1>1, <1>4, MarkItem DEF Split, Marked
  <2>2. Items(t, "=")[1] \in Seq(Token)
    BY ItemsList DEF Words
  <2> QED
    BY <2>1, <2>2 DEF Words
<1>8. /\ Len(c) = k + m - 1
      /\ \A i \in 1..k - 1 : c[i] = a[i]
      /\ c[k] = a[k] \o (<<"?">> \o w)
  BY <1>3, <1>4, <1>6, <1>7 DEF Joined
<1>9. PICK h \in Words : h = a[k]
  BY <1>3
<1>10. PICK l \in Nat : l = Len(h)
  BY LenProperties DEF Words
<1> DEFINE long == h \o (<<"?">> \o w)
<1>11. /\ Len(long) \in Nat /\ Len(long) > l /\ long # <<>>
       /\ l # 0 => long[1] = h[1]
       /\ l = 0 => long[1] = "?"
  <2>1. PICK v \in Words, n \in Nat : v = <<"?">> \o w /\ n = Len(v) /\ n >= 1 /\ v[1] = "?"
    <3>1. <<"?">> \in Seq(Token) /\ Len(<<"?">>) = 1 /\ <<"?">>[1] = "?" /\ w \in Seq(Token)
      BY <1>1 DEF Words
    <3>2. PICK j \in Nat : j = Len(w)
      BY <3>1, LenProperties
    <3>3. /\ <<"?">> \o w \in Seq(Token) /\ Len(<<"?">> \o w) = 1 + j
          /\ \A i \in 1..1 + j : (<<"?">> \o w)[i] = IF i <= 1 THEN <<"?">>[i] ELSE w[i - 1]
      BY <3>1, <3>2, ConcatProperties
    <3>4. 1 \in 1..1 + j
      BY <3>2
    <3>5. (<<"?">> \o w)[1] = "?"
      BY <3>1, <3>3, <3>4
    <3>6. 1 + j \in Nat /\ 1 + j >= 1 /\ <<"?">> \o w \in Words
      BY <3>2, <3>3 DEF Words
    <3> QED
      BY <3>3, <3>5, <3>6, Zenon
  <2>2. /\ Len(h \o v) = l + n
        /\ \A i \in 1..l + n : (h \o v)[i] = IF i <= l THEN h[i] ELSE v[i - l]
    BY <1>10, <2>1, ConcatProperties DEF Words
  <2>3. 1 \in 1..l + n /\ l + n > l
    BY <2>1
  <2>4. l # 0 => (h \o v)[1] = h[1]
    BY <2>2, <2>3
  <2>5. l = 0 => (h \o v)[1] = v[1]
    BY <2>2, <2>3
  <2>6. Len(<<>>) = 0
    OBVIOUS
  <2> QED
    BY <2>1, <2>2, <2>3, <2>4, <2>5, <2>6
<1> HIDE DEF long
<1>12. c[k] = long
  BY <1>8, <1>9 DEF long
<1> SUFFICES ASSUME Named(c) PROVE Len(c) # 1 /\ (c[1][1] = "k" \/ IsNumber(c[2]))
  BY <1>5 DEF Fine
<1>13. k # 1
  <2> SUFFICES ASSUME k = 1 PROVE FALSE
    OBVIOUS
  <2>1. c[1] = long /\ Len(long) = 1
    BY <1>12 DEF Named
  <2>2. long[1] = "?"
    BY <1>11, <2>1
  <2> QED
    BY <2>1, <2>2 DEF Named, Names
<1>14. c[1] = a[1] /\ Len(c) # 1 /\ 2 \in 1..k
  <2>1. 1 \in 1..k - 1 /\ 2 \in 1..k /\ k + m - 1 # 1
    BY <1>3, <1>4, <1>13
  <2> QED
    BY <1>8, <2>1
<1>15. Named(a)
  BY <1>14 DEF Named
<1>16. a[1][1] = "k" \/ IsNumber(a[2])
  BY <1>3, <1>15 DEF Fine
<1>17. IsNumber(a[2]) => IsNumber(c[2])
  <2>1. CASE k = 2
    <3> SUFFICES ASSUME IsNumber(h) PROVE IsNumber(long)
      BY <1>9, <1>12, <2>1
    <3>1. h # <<>> /\ h[1] \in DOMAIN Number
      BY DEF IsNumber
    <3>2. l # 0
      BY <1>10, <3>1, EmptySeq DEF Words
    <3> QED
      BY <1>11, <3>1, <3>2 DEF IsNumber
  <2>2. CASE k # 2
    <3>1. 2 \in 1..k - 1
      BY <1>14, <2>2
    <3> QED
      BY <1>8, <3>1
  <2> QED
    BY <2>1, <2>2
<1> QED
  BY <1>14, <1>16, <1>17

\* What the script appends to a query that can be read leaves one that can be.
LEMMA PageFine ==
  ASSUME NEW q \in Words, NEW s \in Words, mrhc_query(q).end = "ok", mrhc_query(s).end = "ok"
  PROVE  /\ q \o (<<"?">> \o s) \in Words
         /\ mrhc_query(q \o (<<"?">> \o s)).end = "ok"
<1>1. <<"?">> \in Words /\ "&" # "?"
  BY TokenAssumption DEF Words
<1>2. <<"?">> \o s \in Words
  BY <1>1, ConcatProperties DEF Words
<1>3. q \o (<<"?">> \o s) \in Words
  BY <1>2, ConcatProperties DEF Words
<1>4. PICK a \in Seq(Words), k \in Nat : a = Split(q, "&") /\ k = Len(a) /\ k >= 1 /\ \A i \in 1..k : a[i] \in Words
  BY ItemsList DEF Split, Words
<1>5. PICK d \in Seq(Words), m \in Nat : d = Split(s, "&") /\ m = Len(d) /\ m >= 1 /\ \A i \in 1..m : d[i] \in Words
  BY ItemsList DEF Split, Words
<1>6. PICK b : b = Split(<<"?">> \o s, "&")
  OBVIOUS
<1>7. Len(b) = m /\ b[1] = <<"?">> \o d[1] /\ \A i \in 2..m : b[i] = d[i]
  <2>1. Marked(b, d)
    BY <1>1, <1>5, <1>6, MarkItem, Zenon DEF Split
  <2> QED
    BY <1>5, <2>1 DEF Marked
<1>8. PICK c : c = Split(q \o (<<"?">> \o s), "&")
  OBVIOUS
<1>9. Joined(c, a, b)
  BY <1>2, <1>4, <1>6, <1>8, ItemsJoin DEF Split, Words
<1>10. /\ Len(c) = k + m - 1
       /\ \A i \in 1..k - 1 : c[i] = a[i]
       /\ c[k] = a[k] \o (<<"?">> \o d[1])
       /\ \A i \in 2..m : c[k + i - 1] = d[i]
  BY <1>4, <1>7, <1>9 DEF Joined
<1>11. /\ \A i \in 1..k : Fine(Split(a[i], "="))
       /\ \A i \in 1..m : Fine(Split(d[i], "="))
  BY <1>4, <1>5, QueryFine
<1>12. ASSUME NEW i \in 1..k + m - 1 PROVE Fine(Split(c[i], "="))
  <2>1. CASE i < k
    <3>1. i \in 1..k - 1 /\ i \in 1..k
      BY <2>1
    <3> QED
      BY <1>10, <1>11, <3>1
  <2>2. CASE i = k
    <3>1. k \in 1..k /\ 1 \in 1..m
      BY <1>4, <1>5
    <3>2. a[k] \in Words /\ d[1] \in Words /\ Fine(Split(a[k], "="))
      BY <1>4, <1>5, <1>11, <3>1
    <3>3. Fine(Split(a[k] \o (<<"?">> \o d[1]), "="))
      BY <3>2, FineMore
    <3> QED
      BY <1>10, <2>2, <3>3
  <2>3. CASE i > k
    <3>1. PICK j \in 2..m : i = k + j - 1
      <4>1. i - k + 1 \in 2..m /\ i = k + (i - k + 1) - 1
        BY <2>3
      <4> QED
        BY <4>1
    <3>2. c[i] = d[j] /\ j \in 1..m
      BY <1>10, <3>1
    <3> QED
      BY <1>11, <3>2
  <2> QED
    BY <2>1, <2>2, <2>3
<1> QED
  BY <1>3, <1>8, <1>10, <1>12, QueryFine

-----------------------------------------------------------------------------

(***************************************************************************)
(* The credentials.                                                        *)
(***************************************************************************)

\* The bytes of the first n tokens.
Sums(f, s) ==
  /\ f[0] = 0
  /\ \A n \in 1..Len(s) : f[n] = f[n - 1] + Size[s[n]]
  /\ \A n \in 0..Len(s) : f[n] \in Nat

LEMMA BytesFunction ==
  ASSUME NEW s \in Words PROVE \E f : Sums(f, s) /\ Bytes(s) = f[Len(s)]
<1> DEFINE step == [p \in Nat \X Token |-> p[1] + Size[p[2]]]
<1>1. \A n \in Nat, t \in Token : Size[t] \in Nat /\ step[<<n, t>>] = n + Size[t]
  BY SizeAssumption
<1>2. step \in [Nat \X Token -> Nat]
  BY SizeAssumption
<1> HIDE DEF step
<1>3. PICK k \in Nat : k = Len(s) /\ \A n \in 1..k : s[n] \in Token
  BY LenProperties, ElementOfSeq DEF Words
<1>4. PICK f : Values(f, Nat, 0, step, s)
  BY <1>2, FoldValues DEF Words
<1>5. f[0] = 0 /\ \A n \in 0..k : f[n] \in Nat
  BY <1>3, <1>4 DEF Values
<1>6. ASSUME NEW n \in 1..k PROVE f[n] = f[n - 1] + Size[s[n]]
  <2>1. f[n] = step[<<f[n - 1], s[n]>>] /\ s[n] \in Token
    BY <1>3, <1>4 DEF Values
  <2>2. n - 1 \in 0..k
    BY <1>3
  <2>3. f[n - 1] \in Nat
    BY <1>5, <2>2
  <2> QED
    BY <1>1, <2>1, <2>3
<1> DEFINE D(g) == g = [n \in 0..k |-> IF n = 0 THEN 0 ELSE g[n - 1] + Size[s[n]]]
           f0 == [n \in 0..k |-> f[n]]
<1>7. D(f0)
  <2>1. ASSUME NEW n \in 0..k
        PROVE  f[n] = IF n = 0 THEN 0 ELSE f0[n - 1] + Size[s[n]]
    <3>1. CASE n = 0
      BY <1>5, <3>1
    <3>2. CASE n # 0
      <4>1. n \in 1..k /\ n - 1 \in 0..k
        BY <1>3, <3>2
      <4>2. f0[n - 1] = f[n - 1]
        BY <4>1
      <4> HIDE DEF f0
      <4> QED
        BY <1>6, <3>2, <4>1, <4>2
    <3> QED
      BY <3>1, <3>2
  <2> HIDE DEF f0
  <2>2. f0 = [n \in 0..k |-> IF n = 0 THEN 0 ELSE f0[n - 1] + Size[s[n]]]
    BY <2>1 DEF f0
  <2> QED
    BY <2>2
<1> HIDE DEF f0
<1>8. Bytes(s) = (CHOOSE g : D(g))[k]
  BY <1>3 DEF Bytes
<1>9. PICK h : D(h) /\ Bytes(s) = h[k]
  <2>1. D(CHOOSE g : D(g))
    <3> HIDE DEF D
    <3> QED
      BY <1>7
  <2> QED
    BY <1>8, <2>1
<1>10. \A n \in 0..k : h[n] = IF n = 0 THEN 0 ELSE h[n - 1] + Size[s[n]]
  BY <1>9
<1> HIDE DEF D
<1>11. \A n \in 0..k : f[n] = h[n]
  <2>1. f[0] = h[0]
    BY <1>5, <1>10
  <2>2. ASSUME NEW n \in 1..k, f[n - 1] = h[n - 1] PROVE f[n] = h[n]
    <3>1. n \in 0..k /\ n # 0
      BY <1>3
    <3> QED
      BY <1>6, <1>10, <2>2, <3>1
  <2> QED
    BY <1>3, <2>1, <2>2, SameBySteps
<1>12. Sums(f, s)
  BY <1>3, <1>5, <1>6 DEF Sums
<1>13. Bytes(s) = f[k]
  BY <1>3, <1>9, <1>11
<1> QED
  BY <1>3, <1>12, <1>13

LEMMA BytesAppend ==
  ASSUME NEW s \in Words, NEW e \in Token
  PROVE  /\ Bytes(s) \in Nat /\ Size[e] \in Nat
         /\ Bytes(Append(s, e)) = Bytes(s) + Size[e]
<1>1. PICK u \in Words, m \in Nat :
        u = Append(s, e) /\ m = Len(s) /\ Len(u) = m + 1 /\ u[m + 1] = e /\ \A i \in 1..m : u[i] = s[i]
  <2>1. Append(s, e) \in Words /\ Len(s) \in Nat
    BY AppendProperties, LenProperties DEF Words
  <2>2. /\ Len(Append(s, e)) = Len(s) + 1 /\ Append(s, e)[Len(s) + 1] = e
        /\ \A i \in 1..Len(s) : Append(s, e)[i] = s[i]
    BY AppendProperties DEF Words
  <2> QED
    BY <2>1, <2>2
<1>2. PICK f : Sums(f, s) /\ Bytes(s) = f[m]
  BY <1>1, BytesFunction
<1>3. PICK g : Sums(g, u) /\ Bytes(u) = g[m + 1]
  BY <1>1, BytesFunction
<1>4. ASSUME NEW n \in 1..m, f[n - 1] = g[n - 1] PROVE f[n] = g[n]
  <2>1. n \in 1..m + 1
    BY <1>1
  <2> QED
    BY <1>1, <1>2, <1>3, <1>4, <2>1 DEF Sums
<1>5. f[0] = g[0]
  BY <1>2, <1>3 DEF Sums
<1>6. \A n \in 0..m : f[n] = g[n]
  BY <1>4, <1>5, SameBySteps
<1>7. g[m + 1] = g[m] + Size[e]
  <2>1. m + 1 \in 1..m + 1 /\ (m + 1) - 1 = m
    BY <1>1
  <2> QED
    BY <1>1, <1>3, <2>1 DEF Sums
<1>8. f[m] \in Nat /\ f[m] = g[m]
  BY <1>1, <1>2, <1>6 DEF Sums
<1> QED
  BY <1>1, <1>2, <1>3, <1>7, <1>8, SizeAssumption

\* What the first item is, and that it has no more bytes than the text.
FirstOf(s, first, n) ==
  /\ BeforeColon(s, first)
  /\ n = 1 <=> Len(first) = Len(s)
  /\ Bytes(first) <= Bytes(s)

LEMMA FirstAppend ==
  ASSUME NEW s \in Words, NEW items \in Texts(Token), NEW e \in Token,
         FirstOf(s, items[1], Len(items))
  PROVE  FirstOf(Append(s, e), Cut(items, e, ":")[1], Len(Cut(items, e, ":")))
<1>1. PICK n \in Nat, cut \in Texts(Token) : n = Len(items) /\ cut = Cut(items, e, ":")
  BY LenProperties, CutTyped DEF Texts
<1>2. n >= 1 /\ MoreBy(cut, items, n, e, ":")
  BY <1>1, CutElements
<1>3. PICK h \in Words : h = items[1]
  <2>1. items \in Seq(Seq(Token)) /\ 1 \in 1..n
    BY <1>2 DEF Texts
  <2> QED
    BY <1>1, <2>1, ElementOfSeq DEF Words
<1>4. PICK l \in Nat, j \in Nat : l = Len(s) /\ j = Len(h)
  BY LenProperties DEF Words
<1>5. PICK u \in Words :
        u = Append(s, e) /\ Len(u) = l + 1 /\ u[l + 1] = e /\ \A i \in 1..l : u[i] = s[i]
  <2>1. /\ Append(s, e) \in Words /\ Len(Append(s, e)) = l + 1 /\ Append(s, e)[l + 1] = e
        /\ \A i \in 1..l : Append(s, e)[i] = s[i]
    BY <1>4, AppendProperties DEF Words
  <2> QED
    BY <2>1
<1>6. /\ j <= l
      /\ \A i \in 1..j : h[i] = s[i] /\ s[i] # ":"
      /\ j = l \/ s[j + 1] = ":"
      /\ n = 1 <=> j = l
  BY <1>1, <1>3, <1>4 DEF FirstOf, BeforeColon
<1>7. Bytes(h) \in Nat /\ Bytes(s) \in Nat /\ Size[e] \in Nat /\ Bytes(h) <= Bytes(s)
      /\ Bytes(u) = Bytes(s) + Size[e] /\ Bytes(Append(h, e)) = Bytes(h) + Size[e]
  BY <1>3, <1>5, BytesAppend DEF FirstOf
<1>8. CASE e = ":" \/ n # 1
  <2>1. cut[1] = h
    <3>1. CASE e = ":"
      <4>1. 1 \in 1..n
        BY <1>2
      <4> QED
        BY <1>2, <1>3, <3>1, <4>1 DEF MoreBy
    <3>2. CASE e # ":"
      <4>1. 1 \in 1..n - 1
        BY <1>2, <1>8, <3>2
      <4> QED
        BY <1>2, <1>3, <3>2, <4>1 DEF MoreBy
    <3> QED
      BY <3>1, <3>2
  <2>2. Len(cut) # 1
    BY <1>2, <1>8 DEF MoreBy
  <2>3. u[j + 1] = ":"
    <3>1. CASE j = l
      BY <1>5, <1>6, <1>8, <3>1
    <3>2. CASE j # l
      <4>1. j + 1 \in 1..l
        BY <1>4, <1>6, <3>2
      <4> QED
        BY <1>5, <1>6, <3>2, <4>1
    <3> QED
      BY <3>1, <3>2
  <2>4. \A i \in 1..j : i \in 1..l /\ h[i] = u[i] /\ u[i] # ":"
    BY <1>5, <1>6
  <2>5. BeforeColon(u, h)
    BY <1>4, <1>5, <1>6, <2>3, <2>4 DEF BeforeColon
  <2>6. j # l + 1
    BY <1>6
  <2> QED
    BY <1>1, <1>4, <1>5, <1>7, <2>1, <2>2, <2>5, <2>6 DEF FirstOf
<1>9. CASE e # ":" /\ n = 1
  <2>1. cut[1] = Append(h, e) /\ Len(cut) = 1
    BY <1>2, <1>3, <1>9 DEF MoreBy
  <2>2. PICK v : v = Append(h, e)
    OBVIOUS
  <2>3. Len(v) = j + 1 /\ v[j + 1] = e /\ \A i \in 1..j : v[i] = h[i]
    BY <1>4, <2>2, AppendProperties DEF Words
  <2>4. ASSUME NEW i \in 1..l + 1 PROVE v[i] = u[i] /\ u[i] # ":"
    <3>1. CASE i = l + 1
      BY <1>5, <1>6, <1>9, <2>3, <3>1
    <3>2. CASE i # l + 1
      <4>1. i \in 1..l
        BY <3>2
      <4> QED
        BY <1>5, <1>6, <1>9, <2>3, <4>1
    <3> QED
      BY <3>1, <3>2
  <2>5. BeforeColon(u, v)
    BY <1>5, <1>6, <1>9, <2>3, <2>4 DEF BeforeColon
  <2>6. Len(v) = Len(u) /\ Bytes(v) <= Bytes(u)
    BY <1>5, <1>6, <1>7, <1>9, <2>2, <2>3
  <2>7. FirstOf(u, v, 1)
    BY <2>5, <2>6 DEF FirstOf
  <2> QED
    BY <1>1, <1>5, <2>1, <2>2, <2>7
<1> QED
  BY <1>8, <1>9

LEMMA FirstItem ==
  ASSUME NEW s \in Words PROVE FirstOf(s, Items(s, ":")[1], Len(Items(s, ":")))
<1> DEFINE S == {t \in Words : FirstOf(t, Items(t, ":")[1], Len(Items(t, ":")))}
<1>1. <<>> \in S
  <2>1. <<>> \in Words /\ Len(<<>>) = 0 /\ Len(<< <<>> >>) = 1 /\ << <<>> >>[1] = <<>>
    BY EmptySeq DEF Words
  <2>2. BeforeColon(<<>>, <<>>)
    BY <2>1 DEF BeforeColon
  <2>3. PICK f : Sums(f, <<>>) /\ Bytes(<<>>) = f[0]
    BY <2>1, BytesFunction
  <2>4. Bytes(<<>>) <= Bytes(<<>>)
    BY <2>3 DEF Sums
  <2>5. FirstOf(<<>>, << <<>> >>[1], Len(<< <<>> >>))
    BY <2>1, <2>2, <2>4 DEF FirstOf
  <2> QED
    BY <2>1, <2>5, ItemsEmpty
<1>2. ASSUME NEW t \in Seq(Token), NEW e \in Token, t \in S PROVE Append(t, e) \in S
  <2>1. Items(t, ":") \in Texts(Token) /\ Append(t, e) \in Words
        /\ Items(Append(t, e), ":") = Cut(Items(t, ":"), e, ":")
    BY ItemsTyped, ItemsAppend, AppendProperties DEF Words
  <2>2. t \in Words /\ FirstOf(t, Items(t, ":")[1], Len(Items(t, ":")))
    BY <1>2
  <2> HIDE DEF S
  <2>3. FirstOf(Append(t, e), Cut(Items(t, ":"), e, ":")[1], Len(Cut(Items(t, ":"), e, ":")))
    BY <2>1, <2>2, FirstAppend
  <2> QED
    BY <2>1, <2>3 DEF S
<1> HIDE DEF S
<1>3. Seq(Token) \subseteq S
  BY <1>1, <1>2, SeqInduction
<1> QED
  BY <1>3 DEF S, Words

\* What the browser sends of a user name and a password.
Entered(login) == login.host \o <<":">> \o login.port \o <<":">> \o login.password

LEMMA LoginTyped ==
  ASSUME NEW login \in Login
  PROVE  login.host \in Words /\ login.port \in Words /\ login.password \in Words
<1>1. {login.host, login.port, login.password} \subseteq Seq(Token)
  BY TypedAssumption, Zenon
<1> QED
  BY <1>1 DEF Words

LEMMA EnteredTyped == ASSUME NEW login \in Login PROVE Entered(login) \in Words
<1>1. PICK h \in Seq(Token), p \in Seq(Token), w \in Seq(Token) :
        h = login.host /\ p = login.port /\ w = login.password
  BY LoginTyped DEF Words
<1>2. <<":">> \in Seq(Token)
  <2>1. ":" \in Token
    BY TokenAssumption DEF Delimiters
  <2> QED
    BY <2>1
<1>3. PICK c \in Seq(Token) : c = <<":">>
  BY <1>2
<1>4. h \o c \in Seq(Token)
  BY ConcatProperties
<1>5. h \o c \o p \in Seq(Token)
  BY <1>4, ConcatProperties
<1>6. h \o c \o p \o c \in Seq(Token)
  BY <1>5, ConcatProperties
<1>7. h \o c \o p \o c \o w \in Seq(Token)
  BY <1>6, ConcatProperties
<1> QED
  BY <1>1, <1>3, <1>7 DEF Entered, Words

\* Host and port without a colon are the first two items, and what the password has before
\* its first colon is the third.
ThreeItems(items, h, p, w) ==
  Len(items) \in Nat /\ Len(items) >= 3 /\ items[1] = h /\ items[2] = p /\ items[3] = w

LEMMA EnteredSplit ==
  ASSUME NEW login \in Login, ~Contains(login.host \o login.port, ":")
  PROVE  ThreeItems(Split(Entered(login), ":"), login.host, login.port,
                    Items(login.password, ":")[1])
<1>1. PICK h \in Seq(Token), p \in Seq(Token), w \in Seq(Token) :
        h = login.host /\ p = login.port /\ w = login.password
  BY LoginTyped DEF Words
<1>2. ":" \in Token /\ <<":">> \in Seq(Token)
  <2>1. ":" \in Token
    BY TokenAssumption DEF Delimiters
  <2> QED
    BY <2>1
<1>3. ~Contains(h, ":") /\ ~Contains(p, ":")
  <2>1. ~Contains(h \o p, ":")
    BY <1>1
  <2> QED
    BY <2>1, ContainsParts, Zenon
<1> DEFINE u == h \o <<":">> \o p
           v == u \o <<":">>
<1>4. u \in Seq(Token) /\ v \in Seq(Token)
  <2>1. h \o <<":">> \in Seq(Token)
    BY <1>2, ConcatProperties
  <2>2. u \in Seq(Token)
    BY <2>1, ConcatProperties
  <2> HIDE DEF u
  <2> QED
    BY <1>2, <2>2, ConcatProperties
<1>5. Split(u, ":") = <<h, p>>
  <2>1. Split(h, ":") = <<h>>
    BY <1>3, SplitNone
  <2>2. Split(u, ":") = Append(Split(h, ":"), p)
    BY <1>2, <1>3, SplitJoin, Zenon
  <2> QED
    BY <2>1, <2>2, PairAppend
<1> HIDE DEF u
<1>6. Items(v, ":") = <<h, p, <<>> >>
  <2>1. v = Append(u, ":")
    BY <1>4, AppendIsConcat
  <2>2. Items(v, ":") = Cut(Items(u, ":"), ":", ":")
    BY <1>2, <1>4, <2>1, ItemsAppend
  <2>3. Items(v, ":") = Append(<<h, p>>, <<>>)
    BY <1>5, <2>2 DEF Cut, Split
  <2>4. <<>> \in Seq(Token)
    BY EmptySeq
  <2> QED
    BY <2>3, <2>4, TripleAppend
<1>7. Entered(login) = v \o w
  BY <1>1 DEF Entered, u
<1> HIDE DEF v
<1>8. PICK b \in Seq(Seq(Token)), n \in Nat :
        b = Items(w, ":") /\ n = Len(b) /\ n >= 1 /\ b[1] \in Seq(Token)
  <2>1. /\ Items(w, ":") \in Seq(Seq(Token))
        /\ Len(Items(w, ":")) \in Nat /\ Len(Items(w, ":")) >= 1
        /\ Items(w, ":")[1] \in Seq(Token)
    BY ItemsList
  <2> QED
    BY <2>1
<1>9. PICK a, c : a = <<h, p, <<>> >> /\ c = Items(v \o w, ":")
  OBVIOUS
<1>10. Len(a) = 3 /\ a[1] = h /\ a[2] = p /\ a[3] = <<>>
  BY <1>9
<1>11. Joined(c, a, b)
  BY <1>4, <1>6, <1>8, <1>9, ItemsJoin
<1>12. Len(c) = 3 + n - 1 /\ c[3] = <<>> \o b[1] /\ \A i \in 1..2 : c[i] = a[i]
  BY <1>8, <1>10, <1>11 DEF Joined
<1>13. <<>> \o b[1] = b[1]
  BY <1>8, ConcatEmptySeq
<1>14. Len(c) \in Nat /\ Len(c) >= 3 /\ c[1] = h /\ c[2] = p /\ c[3] = b[1]
  BY <1>8, <1>10, <1>12, <1>13
<1> QED
  BY <1>1, <1>7, <1>8, <1>9, <1>14 DEF ThreeItems, Split

\* How reading the credentials can end.
LEMMA CredentialsEnd == ASSUME NEW header PROVE Credentials(header).end \in Ends
<1> DEFINE params == Split(header.text, ":")
           end == Credentials(header).end
<1>1. /\ [NoCredentials EXCEPT !.end = "refused"].end \in Ends
      /\ [NoCredentials EXCEPT !.end = "undefined"].end \in Ends
      /\ [NoCredentials EXCEPT !.end = "abort"].end \in Ends
  BY DEF NoCredentials, Ends
<1>2. \A h, p, w : [end |-> "ok", host |-> h, port |-> p, password |-> w].end \in Ends
  BY DEF Ends
<1>3. \/ Credentials(header) = [NoCredentials EXCEPT !.end = "refused"]
      \/ Credentials(header) = [NoCredentials EXCEPT !.end = "undefined"]
      \/ Credentials(header) = [NoCredentials EXCEPT !.end = "abort"]
      \/ \E h, p, w : Credentials(header) = [end |-> "ok", host |-> h, port |-> p, password |-> w]
  BY DEF Credentials
<1> QED
  BY <1>1, <1>2, <1>3

LEMMA CredentialsAre ==
  ASSUME NEW header, NEW h, NEW p, NEW w, header.scheme = "Basic",
         ThreeItems(Split(header.text, ":"), h, p, w), IsNumber(p), Fits(h), Fits(w)
  PROVE  Credentials(header) = [end |-> "ok", host |-> h, port |-> stoi(p), password |-> w]
<1>1. PICK params : params = Split(header.text, ":")
  OBVIOUS
<1>2. ~IsHuge(p)
  BY NumberAssumption DEF IsHuge, IsNumber
<1>3. params[1] = h /\ params[2] = p /\ PasswordOf(params) = w
      /\ ~(Len(params) < 2) /\ ~(Len(params) < 3)
  BY <1>1 DEF ThreeItems, PasswordOf
<1> QED
  BY <1>1, <1>2, <1>3 DEF Credentials

-----------------------------------------------------------------------------

(***************************************************************************)
(* From the browser to the VNC server.                                     *)
(***************************************************************************)

\* operate sends at most two events.
LEMMA EventsFew == ASSUME NEW o, NEW mask PROVE Len(Events(o, mask)) <= 2
<1>1. Len(<<>>) = 0 /\ \A a, b : Len(<<a, b>>) = 2
  OBVIOUS
<1> QED
  BY <1>1 DEF Events, KeyEvents, PointerEvents

LEMMA EventTyped ==
  ASSUME event \in Event
  PROVE  /\ event.kind \in {"load", "poll", "click", "key", "login"}
         /\ event.kind = "click" => event.at \in Click
         /\ event.kind = "key" => event.key \in Token
         /\ event.kind # "login" => event.path \in Words
         /\ event.kind = "login" => event.login \in Login
<1>1. /\ event.kind \in {"load", "poll", "click", "key", "login"}
      /\ event.kind = "click" => event.at \in Click
      /\ event.kind = "key" => event.key \in Key
      /\ event.kind # "login" => event.path \in Path
      /\ event.kind = "login" => event.login \in Login
  BY DEF Event
<1>2. Key \subseteq Token /\ Path \subseteq Words
  BY TypedAssumption DEF Words
<1> QED
  BY <1>1, <1>2

LEMMA AppendedIs ==
  ASSUME event \in Event, event.kind \in {"poll", "click", "key"}
  PROVE  /\ Appended \in Words
         /\ event.kind = "poll" => Appended = <<"t", "=", "1600000000000">>
         /\ event.kind = "click" => Appended = ClickQuery(event.at)
         /\ event.kind = "key" => Appended = KeyQuery(event.key)
<1>1. CASE event.kind = "poll"
  <2>1. Appended = <<"t", "=", "1600000000000">>
    BY <1>1 DEF Appended
  <2> QED
    BY <1>1, <2>1, PollRead
<1>2. CASE event.kind = "click"
  <2>1. Appended = ClickQuery(event.at)
    BY <1>2 DEF Appended, ClickQuery
  <2>2. event.at \in Click
    BY <1>2, EventTyped
  <2> QED
    BY <1>2, <2>1, <2>2, ClickRead
<1>3. CASE event.kind = "key"
  <2>1. Appended = KeyQuery(event.key)
    BY <1>3 DEF Appended, KeyQuery
  <2>2. event.key \in Token
    BY <1>3, EventTyped
  <2> QED
    BY <1>3, <2>1, <2>2, KeyRead
<1> QED
  BY <1>1, <1>2, <1>3

LEMMA TailJoin ==
  ASSUME NEW s \in Words, NEW t \in Words, s # <<>>
  PROVE  /\ Tail(s) \in Words /\ s \o t # <<>>
         /\ Tail(s \o t) = Tail(s) \o t
<1>1. PICK m \in Nat, n \in Nat : m = Len(s) /\ n = Len(t) /\ m # 0
  BY EmptySeq, LenProperties DEF Words
<1>2. PICK r \in Words : r = Tail(s) /\ Len(r) = m - 1 /\ \A i \in 1..m - 1 : r[i] = s[i + 1]
  <2>1. Tail(s) \in Seq(Token) /\ Len(Tail(s)) = m - 1 /\ \A i \in 1..m - 1 : Tail(s)[i] = s[i + 1]
    BY <1>1 DEF Words
  <2> QED
    BY <2>1 DEF Words
<1>3. PICK u \in Words : /\ u = s \o t /\ Len(u) = m + n
                         /\ \A i \in 1..m + n : u[i] = IF i <= m THEN s[i] ELSE t[i - m]
  <2>1. /\ s \o t \in Seq(Token) /\ Len(s \o t) = m + n
        /\ \A i \in 1..m + n : (s \o t)[i] = IF i <= m THEN s[i] ELSE t[i - m]
    BY <1>1, ConcatProperties DEF Words
  <2> QED
    BY <2>1 DEF Words
<1>4. u # <<>>
  <2>1. Len(<<>>) = 0 /\ m + n # 0
    BY <1>1
  <2> QED
    BY <1>3, <2>1
<1>5. /\ Tail(u) \in Seq(Token) /\ Len(Tail(u)) = m + n - 1
      /\ \A i \in 1..m + n - 1 : Tail(u)[i] = u[i + 1]
  BY <1>1, <1>3, <1>4 DEF Words
<1>6. /\ r \o t \in Seq(Token) /\ Len(r \o t) = m - 1 + n
      /\ \A i \in 1..m - 1 + n : (r \o t)[i] = IF i <= m - 1 THEN r[i] ELSE t[i - (m - 1)]
  BY <1>1, <1>2, ConcatProperties DEF Words
<1>7. m - 1 + n = m + n - 1
  BY <1>1
<1>8. ASSUME NEW i \in 1..m + n - 1 PROVE Tail(u)[i] = (r \o t)[i]
  <2>1. i + 1 \in 1..m + n /\ i \in 1..m - 1 + n
    BY <1>1
  <2>2. Tail(u)[i] = u[i + 1]
    BY <1>5
  <2>3. CASE i <= m - 1
    <3>1. i \in 1..m - 1 /\ i + 1 <= m
      BY <1>1, <2>3
    <3>2. u[i + 1] = s[i + 1] /\ (r \o t)[i] = r[i] /\ r[i] = s[i + 1]
      BY <1>2, <1>3, <1>6, <2>1, <2>3, <3>1
    <3> QED
      BY <2>2, <3>2
  <2>4. CASE ~(i <= m - 1)
    <3>1. ~(i + 1 <= m) /\ (i + 1) - m = i - (m - 1)
      BY <1>1, <2>4
    <3>2. u[i + 1] = t[(i + 1) - m] /\ (r \o t)[i] = t[i - (m - 1)]
      BY <1>3, <1>6, <2>1, <2>4, <3>1
    <3> QED
      BY <2>2, <3>1, <3>2
  <2> QED
    BY <2>3, <2>4
<1>9. Tail(u) = r \o t
  <2> DEFINE v == Tail(u)
             w == r \o t
  <2>1. /\ v \in Seq(Token) /\ w \in Seq(Token) /\ Len(v) = Len(w)
        /\ \A i \in 1..Len(v) : v[i] = w[i]
    BY <1>5, <1>6, <1>7, <1>8
  <2> HIDE DEF v, w
  <2>2. v = w
    BY <2>1, SeqEqual
  <2> QED
    BY <2>2 DEF v, w
<1> QED
  BY <1>2, <1>3, <1>4, <1>9

\* What the handler gets of an address: the page's own query, what the script appends to
\* no query, or one behind the other.
Query == QueryOf(Address)

LEMMA QueryIs ==
  ASSUME event \in Event, event.kind # "login"
  PROVE  /\ Query \in Words /\ QueryOf(event.path) \in Words
         /\ event.kind = "load" => Query = QueryOf(event.path)
         /\ event.kind # "load" /\ event.path = <<>> => Query = Appended
         /\ event.kind # "load" /\ event.path # <<>> =>
              Query = QueryOf(event.path) \o (<<"?">> \o Appended)
<1>1. PICK path \in Words : path = event.path
  BY EventTyped
<1>2. <<"?">> \in Words /\ <<"?">> # <<>> /\ Tail(<<"?">>) = <<>> /\ <<>> \in Words
  BY TokenAssumption, EmptySeq DEF Words
<1>3. QueryOf(path) \in Words
  BY <1>2, TailJoin DEF QueryOf
<1>4. CASE event.kind = "load"
  BY <1>1, <1>3, <1>4 DEF Query, Address
<1>5. CASE event.kind # "load"
  <2>1. PICK more \in Words : more = Appended
    BY <1>5, EventTyped, AppendedIs
  <2>2. Query = QueryOf(path \o <<"?">> \o more)
    BY <1>1, <1>5, <2>1 DEF Query, Address
  <2>3. <<"?">> \o more \in Words
    BY <1>2, ConcatProperties DEF Words
  <2>4. path \o <<"?">> \o more = path \o (<<"?">> \o more)
    BY <1>2, ConcatAssociative DEF Words
  <2>5. CASE path = <<>>
    <3>1. path \o <<"?">> = <<"?">> /\ <<>> \o more = more
      BY <1>2, <2>5, ConcatEmptySeq DEF Words
    <3>2. <<"?">> \o more # <<>> /\ Tail(<<"?">> \o more) = Tail(<<"?">>) \o more
      BY <1>2, TailJoin
    <3>3. Query = more
      BY <1>2, <2>2, <3>1, <3>2 DEF QueryOf
    <3> QED
      BY <1>1, <1>3, <1>5, <2>1, <2>5, <3>3
  <2>6. CASE path # <<>>
    <3>1. PICK u : u = <<"?">> \o more
      OBVIOUS
    <3>2. /\ Tail(path) \in Words /\ path \o u # <<>>
          /\ Tail(path \o u) = Tail(path) \o u
      BY <2>3, <2>6, <3>1, TailJoin
    <3>3. Query = QueryOf(path) \o u
      BY <2>2, <2>4, <2>6, <3>1, <3>2 DEF QueryOf
    <3>4. QueryOf(path) \o u \in Words
      BY <1>3, <2>3, <3>1, ConcatProperties DEF Words
    <3> QED
      BY <1>1, <1>3, <1>5, <2>1, <2>6, <3>1, <3>3, <3>4
  <2> QED
    BY <2>5, <2>6
<1> QED
  BY <1>4, <1>5

\* How far the program is with what the user did.
Nothing == op = NoOperation /\ creds = NoCredentials /\ sent = <<>>

Header == [scheme |-> event.login.scheme, text |-> Entered(event.login)]

Told == IF op.end = "ok" THEN \E mask \in Masks(op.b) : sent = Events(op, mask) ELSE sent = <<>>

Progress ==
  /\ event \in Event
  /\ pc \in {"browser", "query", "header", "operate", "done"}
  /\ pc = "browser" => text = <<>> /\ Nothing
  /\ pc = "query" => event.kind # "login" /\ text = Query /\ Nothing
  /\ pc = "header" => event.kind = "login" /\ text = Entered(event.login) /\ Nothing
  /\ pc = "operate" => /\ event.kind # "login" /\ text = Query /\ op = mrhc_query(Query)
                       /\ op.end = "ok" /\ creds = NoCredentials /\ sent = <<>>
  /\ pc = "done" => IF event.kind = "login"
                    THEN /\ text = Entered(event.login) /\ creds = Credentials(Header)
                         /\ op = NoOperation /\ sent = <<>>
                    ELSE /\ text = Query /\ creds = NoCredentials
                         /\ op = mrhc_query(Query) /\ Told

LEMMA ProgressInit == Init => Progress
  BY DEF Init, Progress, Nothing

LEMMA ProgressNext == Progress /\ [Next]_vars => Progress'
<1> SUFFICES ASSUME Progress, [Next]_vars PROVE Progress'
  OBVIOUS
<1>1. CASE Ask
  <2>1. /\ pc = "browser" /\ event.kind # "login" /\ text' = Query /\ pc' = "query"
        /\ event' = event /\ op' = op /\ creds' = creds /\ sent' = sent
    BY <1>1 DEF Ask, Query
  <2>2. Query' = Query
    BY <2>1 DEF Query, Address, Appended
  <2> QED
    BY <2>1, <2>2 DEF Progress, Nothing
<1>2. CASE Enter
  <2>1. /\ pc = "browser" /\ event.kind = "login" /\ text' = Entered(event.login) /\ pc' = "header"
        /\ event' = event /\ op' = op /\ creds' = creds /\ sent' = sent
    BY <1>2 DEF Enter, Entered
  <2> QED
    BY <2>1 DEF Progress, Nothing
<1>3. CASE Authenticate
  <2>1. /\ pc = "header" /\ pc' = "done"
        /\ creds' = Credentials([scheme |-> event.login.scheme, text |-> text])
        /\ event' = event /\ text' = text /\ op' = op /\ sent' = sent
    BY <1>3 DEF Authenticate
  <2>2. event.kind = "login" /\ text = Entered(event.login) /\ op = NoOperation /\ sent = <<>>
    BY <2>1 DEF Progress, Nothing
  <2>3. creds' = Credentials(Header') /\ Header' = Header
    BY <2>1, <2>2 DEF Header
  <2> QED
    BY <2>1, <2>2, <2>3 DEF Progress
<1>4. CASE Parse
  <2>1. /\ pc = "query" /\ op' = mrhc_query(text) /\ pc' = IF op'.end = "ok" THEN "operate" ELSE "done"
        /\ event' = event /\ text' = text /\ creds' = creds /\ sent' = sent
    BY <1>4 DEF Parse
  <2>2. event.kind # "login" /\ text = Query /\ creds = NoCredentials /\ sent = <<>>
    BY <2>1 DEF Progress, Nothing
  <2>3. Query' = Query
    BY <2>1 DEF Query, Address, Appended
  <2>4. op' = mrhc_query(Query')
    BY <2>1, <2>2, <2>3
  <2>5. CASE op'.end = "ok"
    BY <2>1, <2>2, <2>3, <2>4, <2>5 DEF Progress
  <2>6. CASE op'.end # "ok"
    <3>1. Told'
      BY <2>1, <2>2, <2>6 DEF Told
    <3> QED
      BY <2>1, <2>2, <2>3, <2>4, <2>6, <3>1 DEF Progress
  <2> QED
    BY <2>5, <2>6
<1>5. CASE Operate
  <2>1. /\ pc = "operate" /\ pc' = "done" /\ \E mask \in Masks(op.b) : sent' = Events(op, mask)
        /\ event' = event /\ text' = text /\ op' = op /\ creds' = creds
    BY <1>5 DEF Operate
  <2>2. /\ event.kind # "login" /\ text = Query /\ op = mrhc_query(Query)
        /\ op.end = "ok" /\ creds = NoCredentials
    BY <2>1 DEF Progress
  <2>3. Query' = Query
    BY <2>1 DEF Query, Address, Appended
  <2>4. Told'
    BY <2>1, <2>2 DEF Told
  <2> QED
    BY <2>1, <2>2, <2>3, <2>4 DEF Progress
<1>6. CASE UNCHANGED vars
  <2>1. /\ event' = event /\ text' = text /\ op' = op /\ creds' = creds /\ sent' = sent /\ pc' = pc
    BY <1>6 DEF vars
  <2>2. Query' = Query /\ Header' = Header /\ Told' = Told /\ Nothing' = Nothing
    BY <2>1 DEF Query, Address, Appended, Header, Told, Nothing
  <2> QED
    BY <2>1, <2>2 DEF Progress
<1> QED
  BY <1>1, <1>2, <1>3, <1>4, <1>5, <1>6 DEF Next

LEMMA ProgressAlways == Spec => []Progress
  BY ProgressInit, ProgressNext, PTL DEF Spec

-----------------------------------------------------------------------------

(***************************************************************************)
(* The theorems.                                                           *)
(***************************************************************************)

LEMMA EmptyText == <<>> \in Words
  BY EmptySeq DEF Words

LEMMA EnteredText ==
  ASSUME event \in Event, event.kind = "login" PROVE Entered(event.login) \in Words
  BY EventTyped, EnteredTyped

LEMMA TextTyped == ASSUME Progress PROVE text \in Words
<1>1. /\ event \in Event
      /\ \/ text = <<>>
         \/ event.kind # "login" /\ text = Query
         \/ event.kind = "login" /\ text = Entered(event.login)
  BY DEF Progress
<1> QED
  BY <1>1, EmptyText, EnteredText, QueryIs

\* What the server makes of a query.
LEMMA OpIs ==
  ASSUME Progress
  PROVE  \/ op = NoOperation
         \/ event.kind # "login" /\ op = mrhc_query(Query)
  BY DEF Progress, Nothing

LEMMA OpTyped == ASSUME Progress PROVE op \in Operations
<1>1. event \in Event
  BY DEF Progress
<1> QED
  BY <1>1, OpIs, NoOperationTyped, QueryIs, QueryTyped

LEMMA CredsEnd == ASSUME Progress PROVE creds.end \in Ends
<1>1. creds = NoCredentials \/ \E header : creds = Credentials(header)
  BY DEF Progress, Nothing
<1>2. NoCredentials.end \in Ends
  BY DEF NoCredentials, Ends
<1> QED
  BY <1>1, <1>2, CredentialsEnd

LEMMA SentFew == ASSUME Progress PROVE Len(sent) <= 2
<1>1. sent = <<>> \/ \E mask : sent = Events(op, mask)
  <2>1. Told => sent = <<>> \/ \E mask : sent = Events(op, mask)
    BY DEF Told
  <2>2. sent = <<>> \/ Told
    BY DEF Progress, Nothing
  <2> QED
    BY <2>1, <2>2
<1>2. Len(<<>>) = 0
  OBVIOUS
<1> QED
  BY <1>1, <1>2, EventsFew

\* Whatever is typed, entered, pressed or clicked, the fields of an operation keep
\* their widths and a text is a text.
THEOREM RequestTypes == Spec => []TypeOK
<1>1. Progress => TypeOK
  <2> SUFFICES ASSUME Progress PROVE TypeOK
    OBVIOUS
  <2>1. op.x \in Short /\ op.y \in Short /\ op.b \in 0..255 /\ op.end \in {"ok", "undefined", "abort"}
    BY OpTyped DEF Operations
  <2>2. op.end \in Ends /\ creds.end \in Ends
    BY <2>1, CredsEnd DEF Ends
  <2>3. event \in Event /\ pc \in {"browser", "query", "header", "operate", "done"}
    BY DEF Progress
  <2> QED
    BY <2>1, <2>2, <2>3, TextTyped, SentFew, Zenon DEF TypeOK, Words
<1> QED
  BY <1>1, ProgressAlways, PTL

LEMMA ExactSplit ==
  ASSUME NEW T, NEW delim \in T, NEW s \in Seq(T)
  PROVE  LET items == Split(s, delim)
         IN  /\ s = Tail(FlattenSeq([i \in 1..Len(items) |-> <<delim>> \o items[i]]))
             /\ \A i \in 1..Len(items) : \A j \in 1..Len(items[i]) : items[i][j] # delim
<1> DEFINE items == Split(s, delim)
<1>1. Exact(s, delim)
  BY SplitIsExact
<1>2. FlattenSeq(Led(items, delim)) = <<delim>> \o s /\ Clean(items, delim)
  BY <1>1 DEF Exact, Split
<1>3. Tail(<<delim>> \o s) = s
  <2>1. <<delim>> \in Seq(T) /\ Len(<<delim>>) = 1
    OBVIOUS
  <2>2. <<delim>> \o s \in Seq(T) /\ Len(<<delim>> \o s) = 1 + Len(s)
        /\ \A i \in 1..Len(s) : (<<delim>> \o s)[i + 1] = s[i]
    BY <2>1, ConcatProperties
  <2> DEFINE t == <<delim>> \o s
  <2> HIDE DEF t
  <2>3. t \in Seq(T) /\ Len(t) = 1 + Len(s) /\ \A i \in 1..Len(s) : t[i + 1] = s[i]
    BY <2>2 DEF t
  <2>4. Tail(t) \in Seq(T) /\ Len(Tail(t)) = Len(s) /\ \A i \in 1..Len(s) : Tail(t)[i] = s[i]
    BY <2>3
  <2> QED
    BY <2>4, SeqEqual DEF t
<1>4. FlattenSeq([i \in 1..Len(items) |-> <<delim>> \o items[i]]) = <<delim>> \o s
  BY <1>2 DEF Led
<1>5. \A i \in 1..Len(items) : \A j \in 1..Len(items[i]) : items[i][j] # delim
  <2> HIDE DEF items
  <2> QED
    BY <1>2, Zenon DEF Clean, Contains
<1> QED
  BY <1>3, <1>4, <1>5, Zenon

\* Cutting any address or any credentials at a delimiter loses and makes up nothing,
\* and leaves no delimiter in an item.
THEOREM SplitsExact == Spec => []SplitExact
<1>1. Progress => SplitExact
  <2> SUFFICES ASSUME Progress PROVE SplitExact
    OBVIOUS
  <2>1. text \in Seq(Token)
    BY TextTyped DEF Words
  <2>2. {"&", "=", ":"} \subseteq Token
    BY TokenAssumption DEF Delimiters
  <2> QED
    BY <2>1, <2>2, ExactSplit, Zenon DEF SplitExact
<1> QED
  BY <1>1, ProgressAlways, PTL

\* What the page's script appends is always read.
LEMMA AppendedReads ==
  ASSUME event \in Event, event.kind \in {"poll", "click", "key"}
  PROVE  /\ Appended \in Words
         /\ event.kind = "poll" => mrhc_query(Appended) = NoOperation
         /\ event.kind = "click" =>
              mrhc_query(Appended) = Operation("ok", event.at.x, event.at.y, event.at.b, <<>>)
         /\ event.kind = "key" =>
              mrhc_query(Appended) = Operation("ok", 0, 0, 0, <<Typed(event.key)>>)
<1>1. CASE event.kind = "poll"
  BY <1>1, AppendedIs, PollRead
<1>2. CASE event.kind = "click"
  <2>1. event.at \in Click /\ Appended = ClickQuery(event.at)
    BY <1>2, EventTyped, AppendedIs
  <2> QED
    BY <1>2, <2>1, ClickRead
<1>3. CASE event.kind = "key"
  <2>1. event.key \in Token /\ Appended = KeyQuery(event.key)
    BY <1>3, EventTyped, AppendedIs
  <2> QED
    BY <1>3, <2>1, KeyRead
<1> QED
  BY <1>1, <1>2, <1>3

\* No query is no operation.
LEMMA EmptyRead == mrhc_query(<<>>) = NoOperation
<1>1. <<>> \in Words /\ <<>> \in Seq(Token)
  BY EmptySeq DEF Words
<1>2. Split(<<>>, "&") = << <<>> >> /\ Split(<<>>, "=") = << <<>> >>
  BY ItemsEmpty DEF Split
<1>3. mrhc_query(<<>>) = Assign(NoOperation, << <<>> >>)
  BY <1>1, <1>2, QueryOne
<1>4. Len(<<>>) = 0 /\ << <<>> >>[1] = <<>>
  OBVIOUS
<1>5. ~Named(<< <<>> >>)
  BY <1>4 DEF Named
<1> QED
  BY <1>3, <1>5, AssignNothing

LEMMA Ok ==
  /\ NoOperation.end = "ok"
  /\ \A x, y, b, key : Operation("ok", x, y, b, key).end = "ok"
  BY DEF NoOperation, Operation

\* Whatever query the page was loaded with, if the parser gets through it, it gets through
\* every poll, click and key of the page's script, though the two run into each other.
THEOREM PageParsed == Spec => []PageNeverAborts
<1>1. Progress => PageNeverAborts
  <2> SUFFICES ASSUME Progress, event.kind \in {"poll", "click", "key"},
                      mrhc_query(QueryOf(event.path)).end = "ok"
               PROVE  op.end = "ok"
    BY DEF PageNeverAborts
  <2>1. event \in Event
    BY DEF Progress
  <2>2. Appended \in Words /\ mrhc_query(Appended).end = "ok"
    <3>1. CASE event.kind = "poll"
      BY <2>1, <3>1, AppendedReads, Ok
    <3>2. CASE event.kind = "click"
      BY <2>1, <3>2, AppendedReads, Ok
    <3>3. CASE event.kind = "key"
      BY <2>1, <3>3, AppendedReads, Ok
    <3> QED
      BY <3>1, <3>2, <3>3
  <2>3. mrhc_query(Query).end = "ok"
    <3>1. QueryOf(event.path) \in Words /\ event.kind \notin {"load", "login"}
      BY <2>1, QueryIs
    <3>2. CASE event.path = <<>>
      BY <2>1, <2>2, <3>1, <3>2, QueryIs
    <3>3. CASE event.path # <<>>
      <4>1. Query = QueryOf(event.path) \o (<<"?">> \o Appended)
        BY <2>1, <3>1, <3>3, QueryIs
      <4> QED
        BY <2>2, <3>1, <4>1, PageFine
    <3> QED
      BY <3>2, <3>3
  <2> QED
    BY <2>3, OpIs, Ok
<1> QED
  BY <1>1, ProgressAlways, PTL

\* One of eight buttons is one bit of the mask.
LEMMA OneMask == ASSUME NEW b \in 0..7 PROVE Masks(b) = {2 ^ b}
<1>1. b \in Int /\ 0 <= b /\ b <= 7 /\ b % 32 = b /\ b < 8 /\ b < 32
  BY SMT
<1> QED
  BY <1>1 DEF Masks

\* What is sent for the three things the page's script knows of.
LEMMA NothingSent == ASSUME NEW mask PROVE Events(NoOperation, mask) = <<>>
  BY DEF Events, NoOperation, Operation

LEMMA ClickSent ==
  ASSUME NEW at \in Click, NEW mask, <<at.x, at.y>> # <<0, 0>>
  PROVE  Events(Operation("ok", at.x, at.y, at.b, <<>>), mask) = PointerEvents(at, mask)
<1> DEFINE o == Operation("ok", at.x, at.y, at.b, <<>>)
<1>1. o.x = at.x /\ o.y = at.y /\ o.key = <<>>
  BY DEF Operation
<1>2. ~(at.x = 0 /\ at.y = 0)
  OBVIOUS
<1> HIDE DEF o
<1>3. Events(o, mask) = PointerEvents(o, mask)
  BY <1>1, <1>2 DEF Events
<1>4. PointerEvents(o, mask) = PointerEvents(at, mask)
  BY <1>1 DEF PointerEvents
<1> QED
  BY <1>3, <1>4 DEF o

LEMMA KeySent ==
  ASSUME NEW key, NEW mask
  PROVE  Events(Operation("ok", 0, 0, 0, <<key>>), mask) = KeyEvents(convert_key_to_code(<<key>>))
<1>1. Operation("ok", 0, 0, 0, <<key>>).key = <<key>> /\ <<key>> # <<>>
  BY DEF Operation
<1> QED
  BY <1>1 DEF Events

LEMMA TypedIs ==
  ASSUME NEW key, key \notin {"&", "=", "#"}
  PROVE  Typed(key) = IF key = " " THEN "Space" ELSE key
  BY DEF Typed

\* On a page loaded without a query: for every click but one at (0, 0), with any of eight
\* buttons anywhere on the picture, and for every key but the three that are lost in an
\* address, the VNC server is told of that click or that key, if the key has a code, and of
\* nothing else.
THEOREM InputToldAsMade == Spec => []InputArrives
<1>1. Progress => InputArrives
  <2> SUFFICES ASSUME Progress, pc = "done", event.kind # "login", event.path = <<>>
               PROVE  /\ event.kind \in {"load", "poll"} => sent = <<>>
                      /\ event.kind = "click" /\ <<event.at.x, event.at.y>> # <<0, 0>> =>
                           sent = PointerEvents(event.at, 2 ^ event.at.b)
                      /\ event.kind = "key" /\ event.key \notin {"&", "=", "#"} =>
                           sent = KeyEvents(convert_key_to_code(<<IF event.key = " " THEN "Space" ELSE event.key>>))
    BY DEF InputArrives
  <2>1. event \in Event /\ op = mrhc_query(Query) /\ Told
    BY DEF Progress
  <2>2. CASE event.kind \in {"load", "poll"}
    <3>1. op = NoOperation
      <4>1. CASE event.kind = "load"
        BY <2>1, <4>1, QueryIs, EmptyRead DEF QueryOf
      <4>2. CASE event.kind = "poll"
        BY <2>1, <4>2, QueryIs, AppendedReads
      <4> QED
        BY <2>2, <4>1, <4>2
    <3> QED
      BY <2>1, <2>2, <3>1, Ok, NothingSent DEF Told
  <2>3. CASE event.kind = "click"
    <3> DEFINE o == Operation("ok", event.at.x, event.at.y, event.at.b, <<>>)
    <3>1. op = o
      <4>1. Query = Appended
        BY <2>1, <2>3, QueryIs
      <4> QED
        BY <2>1, <2>3, <4>1, AppendedReads
    <3>2. event.at \in Click /\ event.at.b \in 0..7
      BY <2>1, <2>3, EventTyped, ClickTyped
    <3>3. o.b = event.at.b /\ o.end = "ok"
      BY DEF Operation
    <3> HIDE DEF o
    <3>4. PICK mask \in Masks(event.at.b) : sent = Events(o, mask)
      BY <2>1, <3>1, <3>3 DEF Told
    <3>5. mask = 2 ^ event.at.b
      BY <3>2, <3>4, OneMask
    <3> SUFFICES ASSUME <<event.at.x, event.at.y>> # <<0, 0>>
                 PROVE  sent = PointerEvents(event.at, 2 ^ event.at.b)
      BY <2>3
    <3>6. Events(o, mask) = PointerEvents(event.at, mask)
      BY <3>2, ClickSent DEF o
    <3> QED
      BY <3>4, <3>5, <3>6
  <2>4. CASE event.kind = "key"
    <3>1. op = Operation("ok", 0, 0, 0, <<Typed(event.key)>>)
      <4>1. Query = Appended
        BY <2>1, <2>4, QueryIs
      <4> QED
        BY <2>1, <2>4, <4>1, AppendedReads
    <3>2. op.end = "ok"
      BY <3>1, Ok
    <3>3. sent = KeyEvents(convert_key_to_code(<<Typed(event.key)>>))
      BY <2>1, <3>1, <3>2, KeySent DEF Told
    <3> QED
      BY <2>4, <3>3, TypedIs
  <2>5. event.kind \in {"load", "poll", "click", "key"}
    BY <2>1, EventTyped
  <2> QED
    BY <2>2, <2>3, <2>4, <2>5
<1> QED
  BY <1>1, ProgressAlways, PTL

\* Any host without a colon, any port that is an int and any password that fit the 1024
\* bytes of their buffers are read as they were entered, the password up to its first
\* colon.
THEOREM EnteredAsRead == Spec => []CredentialsRead
<1>1. Progress => CredentialsRead
  <2> DEFINE login == event.login
  <2> SUFFICES ASSUME Progress, pc = "done", event.kind = "login", login.scheme = "Basic",
                      IsNumber(login.port), ~Contains(login.host \o login.port, ":"),
                      Fits(login.host), Fits(login.password)
               PROVE  /\ creds.end = "ok" /\ creds.host = login.host
                      /\ creds.port = stoi(login.port)
                      /\ BeforeColon(login.password, creds.password)
    BY DEF CredentialsRead
  <2>1. event \in Event /\ creds = Credentials(Header)
    BY DEF Progress
  <2>2. login \in Login /\ login.password \in Words
    BY <2>1, EventTyped, LoginTyped
  <2>3. Header.scheme = "Basic" /\ Header.text = Entered(login)
    BY DEF Header
  <2> DEFINE first == Items(login.password, ":")[1]
  <2>4. ThreeItems(Split(Header.text, ":"), login.host, login.port, first)
    BY <2>2, <2>3, EnteredSplit
  <2>5. BeforeColon(login.password, first) /\ Fits(first)
    <3>1. FirstOf(login.password, first, Len(Items(login.password, ":")))
      BY <2>2, FirstItem
    <3>2. BeforeColon(login.password, first) /\ Bytes(first) <= Bytes(login.password)
      BY <3>1 DEF FirstOf
    <3>3. Bytes(first) \in Nat /\ Bytes(login.password) \in Nat
      <4>1. first \in Words /\ login.password \in Words
        BY <2>2, ItemsList DEF Words
      <4>2. ASSUME NEW s \in Words PROVE Bytes(s) \in Nat
        BY BytesAppend, TokenAssumption
      <4> QED
        BY <4>1, <4>2
    <3>4. Bytes(login.password) < BUF_SIZE
      BY DEF Fits
    <3> QED
      BY <3>2, <3>3, <3>4 DEF Fits, BUF_SIZE
  <2> HIDE DEF first
  <2>6. creds = [end |-> "ok", host |-> login.host, port |-> stoi(login.port), password |-> first]
    BY <2>1, <2>3, <2>4, <2>5, CredentialsAre
  <2> QED
    BY <2>5, <2>6
<1> QED
  BY <1>1, ProgressAlways, PTL

=============================================================================
