---------------------------- MODULE VncClientProofs ----------------------------
(***************************************************************************)
(* How the client reads the stream of RfbStream: facts about sequences of  *)
(* steps, that each message of the server takes a reader from the start of *)
(* a message to the start of the next, and that the client, one recv at a  *)
(* time, is such a reader.                                                 *)
(***************************************************************************)
EXTENDS VncClient, RfbStream, SequenceTheorems, WellFoundedInduction, TLAPS

-----------------------------------------------------------------------------

(***************************************************************************)
(* A place in the stream: which unit of a message comes next, and, inside  *)
(* an update, the rectangles and pixels still to come, the pixels drawn so *)
(* far and the number of the update.                                       *)
(***************************************************************************)
Places ==
  [at : {"type", "update", "number", "size", "encoding", "pixels", "other", "length", "item"},
   todo : Nat, want : Nat, drawn : Nat, count : Nat]

Place(at, more, pixels, drawn, count) ==
  [at |-> at, todo |-> more, want |-> pixels, drawn |-> drawn, count |-> count]

\* Between two messages, after so many updates.
Between(count) == Place("type", 0, 0, 0, count)

\* So many rectangles are left.  An update that is over and has not covered the screen
\* leaves the reader where nothing can follow.
Rectangles(size, more, drawn, count) ==
  IF more = 0 /\ drawn = size THEN Between(count) ELSE Place("size", more, 0, drawn, count)

\* So many pixels of a rectangle are left.
Pixels(size, more, pixels, drawn, count) ==
  IF pixels > 0 THEN Place("pixels", more, pixels, drawn, count)
  ELSE Rectangles(size, more - 1, drawn, count)

\* So many colours or letters are left.
Items(more, count) == IF more > 0 THEN Place("item", more, 0, 0, count) ELSE Between(count)

\* The unit u takes a reader from place p to place q, in a stream for a screen of this
\* size that has been drawn so many times at most.
Reads(size, limit, p, u, q) ==
  /\ u.head <=> p.at = "type"
  /\ \/ p.at = "type" /\ u.v = 0 /\ q = Place("update", 0, 0, 0, p.count + 1)
     \/ p.at = "type" /\ u.v = 2 /\ q = Between(p.count)
     \/ p.at = "type" /\ u.v \in {1, 3} /\ q = Place("other", 0, 0, 0, p.count)
     \/ p.at = "update" /\ q = Place("number", 0, 0, 0, p.count)
     \/ p.at = "number" /\ q = Rectangles(size, u.v, 0, p.count)
     \/ p.at = "size" /\ p.todo > 0 /\ q = Place("encoding", p.todo, u.v, p.drawn, p.count)
     \/ p.at = "encoding" /\ u.v = 0 /\ q = Pixels(size, p.todo, p.want, p.drawn, p.count)
     \/ /\ p.at = "pixels" /\ u.v \in p.count..limit
        /\ q = Pixels(size, p.todo, p.want - 1, p.drawn + 1, p.count)
     \/ p.at = "other" /\ q = Place("length", 0, 0, 0, p.count)
     \/ p.at = "length" /\ q = Items(u.v, p.count)
     \/ p.at = "item" /\ q = Items(p.todo - 1, p.count)

Steps(size, limit) == {s \in Places \X Unit \X Places : Reads(size, limit, s[1], s[2], s[3])}

\* The units of s take a reader from p to q, each by one of these steps and through
\* these places.
Run(places, steps, s, p, q) ==
  \E at \in [1..Len(s) + 1 -> places] :
    /\ at[1] = p /\ at[Len(s) + 1] = q
    /\ \A i \in 1..Len(s) : <<at[i], s[i], at[i + 1]>> \in steps

-----------------------------------------------------------------------------

(***************************************************************************)
(* Induction over the naturals, with a set for the statement.              *)
(***************************************************************************)

LEMMA LessThanWellFounded == IsWellFoundedOn({p \in Nat \X Nat : p[1] < p[2]}, Nat)
  BY NatLessThanWellFounded DEF OpToRel

LEMMA LeastElement ==
  ASSUME NEW T, T \subseteq Nat, T # {}
  PROVE  \E x \in T : \A y \in T : x <= y
<1> DEFINE R == {p \in Nat \X Nat : p[1] < p[2]}
<1>1. IsWellFoundedOn(R, Nat)
  BY LessThanWellFounded
<1>2. \A x, y \in Nat : y < x => <<y, x>> \in R
  OBVIOUS
<1> HIDE DEF R
<1>3. PICK x \in T : \A y \in T : ~ (<<y, x>> \in R)
  BY <1>1, WFMin
<1>4. \A y \in T : ~(y < x)
  BY <1>2, <1>3, Zenon
<1> QED
  BY <1>4

LEMMA SetInduction ==
  ASSUME NEW S, 0 \in S, \A n \in Nat : n \in S => n + 1 \in S
  PROVE  Nat \subseteq S
<1> SUFFICES ASSUME ~(Nat \subseteq S) PROVE FALSE
  OBVIOUS
<1>1. PICK x \in Nat \ S : \A y \in Nat \ S : x <= y
  BY LeastElement
<1>2. x # 0 /\ x - 1 \in Nat
  BY <1>1
<1>3. x - 1 \in S
  BY <1>1, <1>2
<1> QED
  BY <1>1, <1>2, <1>3

-----------------------------------------------------------------------------

(***************************************************************************)
(* Runs, of any steps through any places.                                  *)
(***************************************************************************)

LEMMA RunEmpty == ASSUME NEW P, NEW R, NEW p \in P PROVE Run(P, R, <<>>, p, p)
<1> DEFINE at == [i \in 1..1 |-> p]
<1>1. at \in [1..1 -> P] /\ at[1] = p
  OBVIOUS
<1>2. Len(<<>>) = 0 /\ 0 + 1 = 1
  OBVIOUS
<1> HIDE DEF at
<1> QED
  BY <1>1, <1>2 DEF Run

LEMMA RunEnds ==
  ASSUME NEW P, NEW R, NEW U, NEW s \in Seq(U), NEW p, NEW q, Run(P, R, s, p, q)
  PROVE  p \in P /\ q \in P
<1>1. Len(s) \in Nat
  OBVIOUS
<1>2. 1 \in 1..Len(s) + 1 /\ Len(s) + 1 \in 1..Len(s) + 1
  BY <1>1
<1> QED
  BY <1>2 DEF Run

LEMMA RunOfNothing ==
  ASSUME NEW P, NEW R, NEW p, NEW q, Run(P, R, <<>>, p, q) PROVE p = q
  BY DEF Run

\* The first step of a run, and the rest of it.
LEMMA RunHead ==
  ASSUME NEW P, NEW R, NEW U, NEW s \in Seq(U), s # <<>>, NEW p, NEW q, Run(P, R, s, p, q)
  PROVE  \E m \in P : <<p, s[1], m>> \in R /\ Run(P, R, Tail(s), m, q)
<1>1. PICK at \in [1..Len(s) + 1 -> P] :
        /\ at[1] = p /\ at[Len(s) + 1] = q
        /\ \A i \in 1..Len(s) : <<at[i], s[i], at[i + 1]>> \in R
  BY DEF Run
<1>2. /\ Len(s) \in Nat \ {0} /\ Len(Tail(s)) = Len(s) - 1
      /\ \A i \in 1..Len(s) - 1 : Tail(s)[i] = s[i + 1]
  BY EmptySeq, HeadTailProperties
<1> DEFINE rest == [i \in 1..Len(Tail(s)) + 1 |-> at[i + 1]]
<1>3. rest \in [1..Len(Tail(s)) + 1 -> P]
  BY <1>2
<1>4. rest[1] = at[2] /\ rest[Len(Tail(s)) + 1] = q
  BY <1>1, <1>2
<1>5. \A i \in 1..Len(Tail(s)) : <<rest[i], Tail(s)[i], rest[i + 1]>> \in R
  <2> SUFFICES ASSUME NEW i \in 1..Len(Tail(s)) PROVE <<rest[i], Tail(s)[i], rest[i + 1]>> \in R
    OBVIOUS
  <2>1. rest[i] = at[i + 1] /\ rest[i + 1] = at[i + 1 + 1] /\ Tail(s)[i] = s[i + 1]
    BY <1>2
  <2> QED
    BY <1>1, <1>2, <2>1
<1>6. Run(P, R, Tail(s), at[2], q)
  BY <1>3, <1>4, <1>5 DEF Run
<1>7. 2 \in 1..Len(s) + 1 /\ 1 \in 1..Len(s) /\ 1 + 1 = 2
  BY <1>2
<1>8. at[2] \in P /\ <<p, s[1], at[2]>> \in R
  BY <1>1, <1>7
<1> QED
  BY <1>6, <1>8

\* A run with more behind it.
LEMMA RunJoin ==
  ASSUME NEW P, NEW R, NEW U, NEW s \in Seq(U), NEW t \in Seq(U), NEW p, NEW m, NEW q,
         Run(P, R, s, p, m), Run(P, R, t, m, q)
  PROVE  Run(P, R, s \o t, p, q)
<1> DEFINE k == Len(s)
           l == Len(t)
<1>1. PICK f \in [1..k + 1 -> P] :
        f[1] = p /\ f[k + 1] = m /\ \A i \in 1..k : <<f[i], s[i], f[i + 1]>> \in R
  BY DEF Run
<1>2. PICK g \in [1..l + 1 -> P] :
        g[1] = m /\ g[l + 1] = q /\ \A i \in 1..l : <<g[i], t[i], g[i + 1]>> \in R
  BY DEF Run
<1>3. /\ k \in Nat /\ l \in Nat /\ Len(s \o t) = k + l
      /\ \A i \in 1..k + l : (s \o t)[i] = IF i <= k THEN s[i] ELSE t[i - k]
  BY ConcatProperties
<1> HIDE DEF k, l
<1> DEFINE at == [i \in 1..k + l + 1 |-> IF i <= k THEN f[i] ELSE g[i - k]]
<1>4. at \in [1..k + l + 1 -> P]
  <2> SUFFICES ASSUME NEW i \in 1..k + l + 1 PROVE (IF i <= k THEN f[i] ELSE g[i - k]) \in P
    OBVIOUS
  <2>1. IF i <= k THEN i \in 1..k + 1 ELSE i - k \in 1..l + 1
    BY <1>3
  <2> QED
    BY <1>1, <1>2, <2>1
<1>5. \A i \in 1..k + l + 1 : at[i] = IF i <= k THEN f[i] ELSE g[i - k]
  OBVIOUS
<1> HIDE DEF at
<1>6. \A i \in 1..k + 1 : at[i] = f[i]
  <2> SUFFICES ASSUME NEW i \in 1..k + 1 PROVE at[i] = f[i]
    OBVIOUS
  <2>1. i \in 1..k + l + 1 /\ (i <= k \/ (i = k + 1 /\ ~(i <= k) /\ i - k = 1))
    BY <1>3
  <2> QED
    BY <1>1, <1>2, <1>5, <2>1
<1>7. \A i \in 1..l + 1 : at[k + i] = g[i]
  <2> SUFFICES ASSUME NEW i \in 1..l + 1 PROVE at[k + i] = g[i]
    OBVIOUS
  <2>1. k + i \in 1..k + l + 1 /\ ~(k + i <= k) /\ (k + i) - k = i
    BY <1>3
  <2> QED
    BY <1>3, <1>5, <2>1
<1>8. at[1] = p /\ at[k + l + 1] = q
  <2>1. 1 \in 1..k + 1 /\ l + 1 \in 1..l + 1 /\ k + (l + 1) = k + l + 1
    BY <1>3
  <2>2. at[1] = f[1]
    BY <1>6, <2>1
  <2>3. at[k + (l + 1)] = g[l + 1]
    BY <1>7, <2>1
  <2> QED
    BY <1>1, <1>2, <2>1, <2>2, <2>3
<1>9. ASSUME NEW i \in 1..k + l PROVE <<at[i], (s \o t)[i], at[i + 1]>> \in R
  <2>1. CASE i <= k
    <3>1. i \in 1..k /\ i \in 1..k + 1 /\ i + 1 \in 1..k + 1
      BY <1>3, <2>1
    <3>2. at[i] = f[i] /\ at[i + 1] = f[i + 1]
      BY <1>6, <3>1
    <3>3. (s \o t)[i] = s[i]
      BY <1>3, <2>1
    <3> QED
      BY <1>1, <3>1, <3>2, <3>3
  <2>2. CASE ~(i <= k)
    <3>1. i - k \in 1..l /\ i - k \in 1..l + 1 /\ i - k + 1 \in 1..l + 1
      BY <1>3, <2>2
    <3>2. k + (i - k) = i /\ k + (i - k + 1) = i + 1
      BY <1>3
    <3>3. at[k + (i - k)] = g[i - k] /\ at[k + (i - k + 1)] = g[i - k + 1]
      BY <1>7, <3>1
    <3>4. (s \o t)[i] = t[i - k]
      BY <1>3, <2>2
    <3>5. <<g[i - k], t[i - k], g[i - k + 1]>> \in R
      BY <1>2, <3>1
    <3> QED
      BY <3>2, <3>3, <3>4, <3>5
  <2> QED
    BY <2>1, <2>2
<1>10. at \in [1..Len(s \o t) + 1 -> P] /\ at[Len(s \o t) + 1] = q
  BY <1>3, <1>4, <1>8
<1>11. \A i \in 1..Len(s \o t) : <<at[i], (s \o t)[i], at[i + 1]>> \in R
  BY <1>3, <1>9
<1> QED
  BY <1>8, <1>10, <1>11 DEF Run

\* A run by one step.
LEMMA RunOne ==
  ASSUME NEW P, NEW R, NEW p \in P, NEW q \in P, NEW u, <<p, u, q>> \in R
  PROVE  Run(P, R, <<u>>, p, q)
<1> DEFINE at == [i \in 1..2 |-> IF i = 1 THEN p ELSE q]
<1>1. at \in [1..2 -> P] /\ at[1] = p /\ at[2] = q
  OBVIOUS
<1>2. Len(<<u>>) = 1 /\ <<u>>[1] = u /\ 1 + 1 = 2 /\ \A i \in 1..1 : i = 1
  OBVIOUS
<1> HIDE DEF at
<1>3. \A i \in 1..1 : <<at[i], <<u>>[i], at[i + 1]>> \in R
  BY <1>1, <1>2
<1> QED
  BY <1>1, <1>2, <1>3 DEF Run

LEMMA RunAppend ==
  ASSUME NEW P, NEW R, NEW U, NEW s \in Seq(U), NEW u \in U, NEW p, NEW m, NEW q \in P,
         Run(P, R, s, p, m), <<m, u, q>> \in R
  PROVE  Run(P, R, Append(s, u), p, q)
<1>1. m \in P
  BY RunEnds
<1>2. Run(P, R, <<u>>, m, q)
  BY <1>1, RunOne
<1>3. <<u>> \in Seq(U) /\ Append(s, u) = s \o <<u>>
  OBVIOUS
<1> QED
  BY <1>2, <1>3, RunJoin

\* What holds of a run still holds when more steps, through more places, are allowed.
LEMMA RunWiden ==
  ASSUME NEW P, NEW R, NEW Q, NEW S, P \subseteq Q, R \subseteq S,
         NEW s, NEW p, NEW q, Run(P, R, s, p, q)
  PROVE  Run(Q, S, s, p, q)
<1>1. PICK at \in [1..Len(s) + 1 -> P] :
        /\ at[1] = p /\ at[Len(s) + 1] = q
        /\ \A i \in 1..Len(s) : <<at[i], s[i], at[i + 1]>> \in R
  BY DEF Run
<1>2. at \in [1..Len(s) + 1 -> Q] /\ \A i \in 1..Len(s) : <<at[i], s[i], at[i + 1]>> \in S
  BY <1>1
<1> QED
  BY <1>1, <1>2 DEF Run

\* A run by two steps.
LEMMA RunPair ==
  ASSUME NEW P, NEW R, NEW s, Len(s) = 2, NEW p \in P, NEW q \in P, NEW r \in P,
         <<p, s[1], q>> \in R, <<q, s[2], r>> \in R
  PROVE  Run(P, R, s, p, r)
<1> DEFINE at == [i \in 1..3 |-> IF i = 1 THEN p ELSE IF i = 2 THEN q ELSE r]
<1>1. at \in [1..3 -> P] /\ at[1] = p /\ at[2] = q /\ at[3] = r
  OBVIOUS
<1>2. 1 + 1 = 2 /\ 2 + 1 = 3 /\ \A i \in 1..2 : i \in {1, 2}
  OBVIOUS
<1> HIDE DEF at
<1>3. \A i \in 1..2 : <<at[i], s[i], at[i + 1]>> \in R
  BY <1>1, <1>2
<1> QED
  BY <1>1, <1>2, <1>3 DEF Run

\* What is left of s when n units have been read.
Rest(s, n) == SubSeq(s, n + 1, Len(s))

LEMMA RestTyped ==
  ASSUME NEW U, NEW s \in Seq(U), NEW n \in 0..Len(s)
  PROVE  /\ Rest(s, n) \in Seq(U) /\ Len(Rest(s, n)) = Len(s) - n
         /\ \A i \in 1..Len(s) - n : Rest(s, n)[i] = s[n + i]
         /\ Rest(s, 0) = s
<1>1. Len(s) \in Nat /\ \A i \in n + 1..Len(s) : s[i] \in U
  OBVIOUS
<1>2. /\ SubSeq(s, n + 1, Len(s)) \in Seq(U)
      /\ Len(SubSeq(s, n + 1, Len(s))) = IF n + 1 <= Len(s) THEN Len(s) - (n + 1) + 1 ELSE 0
      /\ \A i \in 1..Len(s) - (n + 1) + 1 : SubSeq(s, n + 1, Len(s))[i] = s[n + 1 + i - 1]
  BY <1>1, SubSeqProperties
<1>3. Len(Rest(s, n)) = Len(s) - n
  BY <1>1, <1>2 DEF Rest
<1>4. ASSUME NEW i \in 1..Len(s) - n PROVE Rest(s, n)[i] = s[n + i]
  <2>1. i \in 1..Len(s) - (n + 1) + 1 /\ n + 1 + i - 1 = n + i
    BY <1>1
  <2> QED
    BY <1>2, <2>1 DEF Rest
<1>5. Rest(s, 0) = s
  <2>1. 0 + 1 = 1
    OBVIOUS
  <2> QED
    BY <2>1, SubSeqFull DEF Rest
<1> QED
  BY <1>2, <1>3, <1>4, <1>5 DEF Rest

LEMMA RestTail ==
  ASSUME NEW U, NEW s \in Seq(U), NEW n \in Nat, n < Len(s)
  PROVE  Rest(s, n) # <<>> /\ Rest(s, n)[1] = s[n + 1] /\ Tail(Rest(s, n)) = Rest(s, n + 1)
<1>1. Len(s) \in Nat /\ n \in 0..Len(s) /\ n + 1 \in 1..Len(s) /\ Len(s) \in n + 1..Len(s)
  OBVIOUS
<1>2. Len(Rest(s, n)) = Len(s) - n /\ Rest(s, n)[1] = s[n + 1] /\ Len(s) - n > 0
  BY <1>1, RestTyped
<1>3. Tail(SubSeq(s, n + 1, Len(s))) = SubSeq(s, n + 1 + 1, Len(s))
  BY <1>1, HeadTailOfSubSeq
<1>4. Rest(s, n) # <<>>
  BY <1>2
<1> QED
  BY <1>2, <1>3, <1>4 DEF Rest

\* The first two steps of a run.
LEMMA RunTwo ==
  ASSUME NEW P, NEW R, NEW U, NEW s \in Seq(U), Len(s) >= 2, NEW p, NEW q, Run(P, R, s, p, q)
  PROVE  \E m \in P, n \in P :
           <<p, s[1], m>> \in R /\ <<m, s[2], n>> \in R /\ Run(P, R, Rest(s, 2), n, q)
<1>1. s # <<>> /\ 0 < Len(s) /\ 1 < Len(s) /\ 0 + 1 = 1 /\ 1 + 1 = 2
  OBVIOUS
<1>2. Rest(s, 0) = s /\ Tail(s) = Rest(s, 1) /\ Rest(s, 1) \in Seq(U)
  BY <1>1, RestTyped, RestTail
<1>3. Rest(s, 1) # <<>> /\ Rest(s, 1)[1] = s[2] /\ Tail(Rest(s, 1)) = Rest(s, 2)
  BY <1>1, RestTail
<1>4. PICK m \in P : <<p, s[1], m>> \in R /\ Run(P, R, Rest(s, 1), m, q)
  BY <1>1, <1>2, RunHead
<1>5. PICK n \in P : <<m, Rest(s, 1)[1], n>> \in R /\ Run(P, R, Tail(Rest(s, 1)), n, q)
  BY <1>2, <1>3, <1>4, RunHead
<1> QED
  BY <1>3, <1>4, <1>5

-----------------------------------------------------------------------------

(***************************************************************************)
(* The messages of the server.                                             *)
(***************************************************************************)

\* A part of a message that does not begin it.
Plain(units) == [i \in 1..Len(units) |-> [v |-> units[i], head |-> FALSE]]

LEMMA PlainTyped ==
  ASSUME NEW a \in Seq(Nat)
  PROVE  /\ Plain(a) \in Seq(Unit) /\ Len(Plain(a)) = Len(a)
         /\ \A i \in 1..Len(a) : Plain(a)[i] = [v |-> a[i], head |-> FALSE]
<1>1. Len(a) \in Nat /\ \A i \in 1..Len(a) : [v |-> a[i], head |-> FALSE] \in Unit
  BY DEF Unit
<1> QED
  BY <1>1 DEF Plain

LEMMA MessageTyped ==
  ASSUME NEW a \in Seq(Nat)
  PROVE  /\ Message(a) \in Seq(Unit) /\ Len(Message(a)) = Len(a)
         /\ \A i \in 1..Len(a) : Message(a)[i] = [v |-> a[i], head |-> i = 1]
<1>1. Len(a) \in Nat /\ \A i \in 1..Len(a) : [v |-> a[i], head |-> i = 1] \in Unit
  BY DEF Unit
<1> QED
  BY <1>1 DEF Message

LEMMA PlainUnit ==
  ASSUME NEW a \in Seq(Nat), NEW i \in 1..Len(a)
  PROVE  Plain(a)[i] \in Unit /\ Plain(a)[i].v = a[i] /\ ~Plain(a)[i].head
<1>1. Plain(a)[i] = [v |-> a[i], head |-> FALSE] /\ a[i] \in Nat
  BY PlainTyped
<1> QED
  BY <1>1 DEF Unit

LEMMA MessageUnit ==
  ASSUME NEW a \in Seq(Nat), NEW i \in 1..Len(a)
  PROVE  Message(a)[i] \in Unit /\ Message(a)[i].v = a[i] /\ (Message(a)[i].head <=> i = 1)
<1>1. Message(a)[i] = [v |-> a[i], head |-> i = 1] /\ a[i] \in Nat
  BY MessageTyped
<1>2. CASE i = 1
  <2>1. Message(a)[i] = [v |-> a[i], head |-> TRUE]
    BY <1>1, <1>2
  <2> QED
    BY <1>1, <1>2, <2>1 DEF Unit
<1>3. CASE i # 1
  <2>1. Message(a)[i] = [v |-> a[i], head |-> FALSE]
    BY <1>1, <1>3
  <2> QED
    BY <1>1, <1>3, <2>1 DEF Unit
<1> QED
  BY <1>2, <1>3

LEMMA PlainJoin ==
  ASSUME NEW a \in Seq(Nat), NEW b \in Seq(Nat) PROVE Plain(a \o b) = Plain(a) \o Plain(b)
<1>1. /\ a \o b \in Seq(Nat) /\ Len(a \o b) = Len(a) + Len(b) /\ Len(a) \in Nat /\ Len(b) \in Nat
      /\ \A i \in 1..Len(a) + Len(b) : (a \o b)[i] = IF i <= Len(a) THEN a[i] ELSE b[i - Len(a)]
  BY ConcatProperties
<1>2. /\ Plain(a \o b) \in Seq(Unit) /\ Len(Plain(a \o b)) = Len(a) + Len(b)
      /\ \A i \in 1..Len(a) + Len(b) : Plain(a \o b)[i] = [v |-> (a \o b)[i], head |-> FALSE]
  BY <1>1, PlainTyped
<1>3. /\ Plain(a) \in Seq(Unit) /\ Len(Plain(a)) = Len(a)
      /\ \A i \in 1..Len(a) : Plain(a)[i] = [v |-> a[i], head |-> FALSE]
  BY PlainTyped
<1>4. /\ Plain(b) \in Seq(Unit) /\ Len(Plain(b)) = Len(b)
      /\ \A i \in 1..Len(b) : Plain(b)[i] = [v |-> b[i], head |-> FALSE]
  BY PlainTyped
<1>5. /\ Plain(a) \o Plain(b) \in Seq(Unit) /\ Len(Plain(a) \o Plain(b)) = Len(a) + Len(b)
      /\ \A i \in 1..Len(a) + Len(b) :
           (Plain(a) \o Plain(b))[i] = IF i <= Len(a) THEN Plain(a)[i] ELSE Plain(b)[i - Len(a)]
  BY <1>3, <1>4, ConcatProperties
<1>6. ASSUME NEW i \in 1..Len(a) + Len(b) PROVE Plain(a \o b)[i] = (Plain(a) \o Plain(b))[i]
  <2>1. CASE i <= Len(a)
    <3>1. i \in 1..Len(a)
      BY <1>1, <2>1
    <3>2. (a \o b)[i] = a[i] /\ (Plain(a) \o Plain(b))[i] = Plain(a)[i]
      BY <1>1, <1>5, <2>1
    <3> QED
      BY <1>2, <1>3, <3>1, <3>2
  <2>2. CASE ~(i <= Len(a))
    <3>1. i - Len(a) \in 1..Len(b)
      BY <1>1, <2>2
    <3>2. (a \o b)[i] = b[i - Len(a)] /\ (Plain(a) \o Plain(b))[i] = Plain(b)[i - Len(a)]
      BY <1>1, <1>5, <2>2
    <3>3. Plain(a \o b)[i] = [v |-> b[i - Len(a)], head |-> FALSE]
      BY <1>2, <3>1, <3>2
    <3>4. Plain(b)[i - Len(a)] = [v |-> b[i - Len(a)], head |-> FALSE]
      BY <1>4, <3>1
    <3> QED
      BY <3>2, <3>3, <3>4
  <2> QED
    BY <2>1, <2>2
<1> QED
  BY <1>2, <1>5, <1>6, SeqEqual

LEMMA MessageJoin ==
  ASSUME NEW a \in Seq(Nat), NEW b \in Seq(Nat), a # <<>>
  PROVE  Message(a \o b) = Message(a) \o Plain(b)
<1>1. /\ a \o b \in Seq(Nat) /\ Len(a \o b) = Len(a) + Len(b)
      /\ Len(a) \in Nat \ {0} /\ Len(b) \in Nat
      /\ \A i \in 1..Len(a) + Len(b) : (a \o b)[i] = IF i <= Len(a) THEN a[i] ELSE b[i - Len(a)]
  BY ConcatProperties, EmptySeq
<1>2. /\ Message(a \o b) \in Seq(Unit) /\ Len(Message(a \o b)) = Len(a) + Len(b)
      /\ \A i \in 1..Len(a) + Len(b) : Message(a \o b)[i] = [v |-> (a \o b)[i], head |-> i = 1]
  BY <1>1, MessageTyped
<1>3. /\ Message(a) \in Seq(Unit) /\ Len(Message(a)) = Len(a)
      /\ \A i \in 1..Len(a) : Message(a)[i] = [v |-> a[i], head |-> i = 1]
  BY MessageTyped
<1>4. /\ Plain(b) \in Seq(Unit) /\ Len(Plain(b)) = Len(b)
      /\ \A i \in 1..Len(b) : Plain(b)[i] = [v |-> b[i], head |-> FALSE]
  BY PlainTyped
<1>5. /\ Message(a) \o Plain(b) \in Seq(Unit) /\ Len(Message(a) \o Plain(b)) = Len(a) + Len(b)
      /\ \A i \in 1..Len(a) + Len(b) :
           (Message(a) \o Plain(b))[i] = IF i <= Len(a) THEN Message(a)[i] ELSE Plain(b)[i - Len(a)]
  <2> DEFINE m == Message(a)
             p == Plain(b)
  <2>1. m \in Seq(Unit) /\ p \in Seq(Unit) /\ Len(m) = Len(a) /\ Len(p) = Len(b)
    BY <1>3, <1>4
  <2> HIDE DEF m, p
  <2>2. /\ m \o p \in Seq(Unit) /\ Len(m \o p) = Len(m) + Len(p)
        /\ \A i \in 1..Len(m) + Len(p) : (m \o p)[i] = IF i <= Len(m) THEN m[i] ELSE p[i - Len(m)]
    BY <2>1, ConcatProperties
  <2> QED
    BY <2>1, <2>2 DEF m, p
<1>6. ASSUME NEW i \in 1..Len(a) + Len(b) PROVE Message(a \o b)[i] = (Message(a) \o Plain(b))[i]
  <2>1. CASE i <= Len(a)
    <3>1. i \in 1..Len(a)
      BY <1>1, <2>1
    <3>2. (a \o b)[i] = a[i] /\ (Message(a) \o Plain(b))[i] = Message(a)[i]
      BY <1>1, <1>5, <2>1
    <3> QED
      BY <1>2, <1>3, <3>1, <3>2
  <2>2. CASE ~(i <= Len(a))
    <3>1. i - Len(a) \in 1..Len(b) /\ i # 1
      BY <1>1, <2>2
    <3>2. (a \o b)[i] = b[i - Len(a)] /\ (Message(a) \o Plain(b))[i] = Plain(b)[i - Len(a)]
      BY <1>1, <1>5, <2>2
    <3>3. Message(a \o b)[i] = [v |-> b[i - Len(a)], head |-> FALSE]
      BY <1>2, <3>1, <3>2
    <3>4. Plain(b)[i - Len(a)] = [v |-> b[i - Len(a)], head |-> FALSE]
      BY <1>4, <3>1
    <3> QED
      BY <3>2, <3>3, <3>4
  <2> QED
    BY <2>1, <2>2
<1> QED
  BY <1>2, <1>5, <1>6, SeqEqual

LEMMA PlacesTyped ==
  ASSUME NEW size \in Nat, NEW more \in Nat, NEW pixels \in Nat, NEW drawn \in Nat, NEW count \in Nat
  PROVE  /\ \A at \in {"type", "update", "number", "size", "encoding", "pixels",
                       "other", "length", "item"} : Place(at, more, pixels, drawn, count) \in Places
         /\ Between(count) \in Places
         /\ Rectangles(size, more, drawn, count) \in Places
         /\ more > 0 => Pixels(size, more, pixels, drawn, count) \in Places
         /\ Items(more, count) \in Places
  BY DEF Places, Place, Between, Rectangles, Pixels, Items

LEMMA StepIs ==
  ASSUME NEW size, NEW limit, NEW p \in Places, NEW u \in Unit, NEW q \in Places,
         Reads(size, limit, p, u, q)
  PROVE  <<p, u, q>> \in Steps(size, limit)
  BY DEF Steps

LEMMA IsStep ==
  ASSUME NEW size, NEW limit, NEW p, NEW u, NEW q, <<p, u, q>> \in Steps(size, limit)
  PROVE  p \in Places /\ u \in Unit /\ q \in Places /\ Reads(size, limit, p, u, q)
  BY DEF Steps

\* More may have been drawn.
LEMMA StepsWiden ==
  ASSUME NEW size \in Nat, NEW limit \in Nat, NEW more \in Nat, limit <= more
  PROVE  Steps(size, limit) \subseteq Steps(size, more)
<1> SUFFICES ASSUME NEW s \in Places \X Unit \X Places, Reads(size, limit, s[1], s[2], s[3])
             PROVE  Reads(size, more, s[1], s[2], s[3])
  BY DEF Steps
<1>1. s[1].count \in Nat /\ s[2].v \in Nat
  BY DEF Places, Unit
<1>2. s[2].v \in s[1].count..limit => s[2].v \in s[1].count..more
  BY <1>1
<1> QED
  BY <1>2 DEF Reads

-----------------------------------------------------------------------------

(***************************************************************************)
(* Where each message takes a reader.                                      *)
(***************************************************************************)

\* The pixels of a rectangle, from the first to the last.
LEMMA PixelsRun ==
  ASSUME NEW size \in Nat, NEW limit \in Nat, NEW more \in Nat \ {0}, NEW n \in Nat,
         NEW drawn \in Nat, NEW count \in Nat, NEW tag \in count..limit
  PROVE  Run(Places, Steps(size, limit), Plain([i \in 1..n |-> tag]),
             Pixels(size, more, n, drawn, count), Rectangles(size, more - 1, drawn + n, count))
<1> DEFINE s == [i \in 1..n |-> tag]
           R == Steps(size, limit)
           at == [i \in 1..n + 1 |-> Pixels(size, more, n + 1 - i, drawn + i - 1, count)]
<1>1. s \in Seq(Nat) /\ Len(s) = n /\ \A i \in 1..n : s[i] = tag
  OBVIOUS
<1>2. /\ Plain(s) \in Seq(Unit) /\ Len(Plain(s)) = n
      /\ \A i \in 1..n : Plain(s)[i] = [v |-> tag, head |-> FALSE]
  BY <1>1, PlainTyped
<1>3. \A i \in 1..n + 1 : n + 1 - i \in Nat /\ drawn + i - 1 \in Nat
  OBVIOUS
<1>4. at \in [1..n + 1 -> Places]
  BY <1>3, PlacesTyped
<1>5. \A i \in 1..n + 1 : at[i] = Pixels(size, more, n + 1 - i, drawn + i - 1, count)
  OBVIOUS
<1> HIDE DEF at, s, R
<1>6. ASSUME NEW i \in 1..n PROVE <<at[i], Plain(s)[i], at[i + 1]>> \in R
  <2>1. i \in 1..n + 1 /\ i + 1 \in 1..n + 1 /\ n + 1 - i > 0
    OBVIOUS
  <2>2. at[i] = Place("pixels", more, n + 1 - i, drawn + i - 1, count)
    BY <1>5, <2>1 DEF Pixels
  <2>3. n + 1 - (i + 1) = (n + 1 - i) - 1 /\ drawn + (i + 1) - 1 = (drawn + i - 1) + 1
    OBVIOUS
  <2>4. at[i + 1] = Pixels(size, more, (n + 1 - i) - 1, (drawn + i - 1) + 1, count)
    BY <1>5, <2>1, <2>3
  <2>5. Plain(s)[i] \in Unit /\ Plain(s)[i].v = tag /\ Plain(s)[i].head = FALSE
    BY <1>2 DEF Unit
  <2>6. at[i] \in Places /\ at[i + 1] \in Places
    BY <1>4, <2>1
  <2>7. Reads(size, limit, at[i], Plain(s)[i], at[i + 1])
    BY <2>2, <2>4, <2>5 DEF Reads, Place
  <2> QED
    BY <2>5, <2>6, <2>7, StepIs DEF R
<1>7. at[1] = Pixels(size, more, n, drawn, count)
  <2>1. 1 \in 1..n + 1 /\ n + 1 - 1 = n /\ drawn + 1 - 1 = drawn
    OBVIOUS
  <2> QED
    BY <1>5, <2>1
<1>8. at[n + 1] = Rectangles(size, more - 1, drawn + n, count)
  <2>1. n + 1 \in 1..n + 1 /\ n + 1 - (n + 1) = 0 /\ drawn + (n + 1) - 1 = drawn + n
    OBVIOUS
  <2> QED
    BY <1>5, <2>1 DEF Pixels
<1> QED
  BY <1>2, <1>4, <1>6, <1>7, <1>8 DEF Run, s, R

\* A rectangle with its header.
LEMMA RectangleRun ==
  ASSUME NEW size \in Nat, NEW limit \in Nat, NEW more \in Nat \ {0}, NEW n \in Nat,
         NEW drawn \in Nat, NEW count \in Nat, NEW tag \in count..limit
  PROVE  /\ Rectangle(n, tag) \in Seq(Nat)
         /\ Run(Places, Steps(size, limit), Plain(Rectangle(n, tag)),
                Place("size", more, 0, drawn, count), Rectangles(size, more - 1, drawn + n, count))
<1> DEFINE R == Steps(size, limit)
           s == [i \in 1..n |-> tag]
           h == <<n, 0>>
           p == Place("size", more, 0, drawn, count)
           q == Place("encoding", more, n, drawn, count)
           r == Pixels(size, more, n, drawn, count)
<1>1. s \in Seq(Nat) /\ h \in Seq(Nat) /\ Len(h) = 2 /\ h[1] = n /\ h[2] = 0
  OBVIOUS
<1>2. Rectangle(n, tag) = h \o s /\ h \o s \in Seq(Nat)
  BY <1>1 DEF Rectangle
<1> HIDE DEF h, s
<1>3. /\ Plain(h) \in Seq(Unit) /\ Len(Plain(h)) = 2 /\ Plain(h)[1].v = n /\ Plain(h)[2].v = 0
      /\ ~Plain(h)[1].head /\ ~Plain(h)[2].head /\ Plain(h)[1] \in Unit /\ Plain(h)[2] \in Unit
  <2>1. 1 \in 1..Len(h) /\ 2 \in 1..Len(h)
    BY <1>1
  <2> QED
    BY <1>1, <2>1, PlainTyped, PlainUnit
<1>4. p \in Places /\ q \in Places /\ r \in Places
  BY PlacesTyped
<1>5. Reads(size, limit, p, Plain(h)[1], q) /\ Reads(size, limit, q, Plain(h)[2], r)
  BY <1>3 DEF Reads, Place
<1> HIDE DEF p, q, r, R
<1>6. Run(Places, R, Plain(h), p, r)
  BY <1>3, <1>4, <1>5, StepIs, RunPair DEF R
<1>7. Run(Places, R, Plain(s), r, Rectangles(size, more - 1, drawn + n, count))
  BY PixelsRun DEF r, R, s
<1>8. Plain(h \o s) = Plain(h) \o Plain(s) /\ Plain(s) \in Seq(Unit)
  BY <1>1, PlainJoin, PlainTyped
<1>9. Run(Places, R, Plain(h \o s), p, Rectangles(size, more - 1, drawn + n, count))
  BY <1>3, <1>6, <1>7, <1>8, RunJoin
<1> QED
  BY <1>2, <1>9 DEF p, R

\* FlattenSeq puts one sequence behind the other.
LEMMA FlattenIs ==
  ASSUME NEW T, NEW seqs \in Seq(T), Len(seqs) > 0
  PROVE  \E f : /\ f = [i \in 1..Len(seqs) |-> IF i = 1 THEN seqs[i] ELSE f[i - 1] \o seqs[i]]
                /\ FlattenSeq(seqs) = f[Len(seqs)]
<1> DEFINE D(n, f) == f = [i \in 1..n |-> IF i = 1 THEN seqs[i] ELSE f[i - 1] \o seqs[i]]
           S == {n \in Nat : \E f : D(n, f)}
<1>1. 0 \in S
  <2>1. D(0, [i \in 1..0 |-> 0])
    OBVIOUS
  <2> QED
    BY <2>1
<1>2. ASSUME NEW n \in Nat, n \in S PROVE n + 1 \in S
  <2>1. PICK f : D(n, f)
    BY <1>2
  <2> DEFINE more == IF n = 0 THEN seqs[1] ELSE f[n] \o seqs[n + 1]
             g == [i \in 1..n + 1 |-> IF i <= n THEN f[i] ELSE more]
  <2>2. \A i \in 1..n + 1 : g[i] = IF i <= n THEN f[i] ELSE more
    OBVIOUS
  <2>3. \A i \in 1..n : f[i] = IF i = 1 THEN seqs[i] ELSE f[i - 1] \o seqs[i]
    BY <2>1
  <2>4. DOMAIN g = 1..n + 1
    OBVIOUS
  <2> HIDE DEF g
  <2>5. ASSUME NEW i \in 1..n + 1
        PROVE  g[i] = IF i = 1 THEN seqs[i] ELSE g[i - 1] \o seqs[i]
    <3>1. CASE i <= n
      <4>1. i \in 1..n /\ g[i] = f[i] /\ (i = 1 \/ (i - 1 \in 1..n + 1 /\ i - 1 <= n))
        BY <2>2, <3>1
      <4>2. i = 1 \/ g[i - 1] = f[i - 1]
        BY <2>2, <4>1
      <4> QED
        BY <2>3, <4>1, <4>2
    <3>2. CASE i = n + 1
      <4>1. g[i] = more
        BY <2>2, <3>2
      <4>2. CASE n = 0
        BY <3>2, <4>1, <4>2
      <4>3. CASE n # 0
        <5>1. i - 1 = n /\ n \in 1..n + 1 /\ n <= n
          BY <3>2, <4>3
        <5>2. g[n] = f[n]
          BY <2>2, <5>1
        <5>3. i # 1 /\ seqs[i] = seqs[n + 1] /\ g[i - 1] = f[n]
          BY <3>2, <5>1, <5>2
        <5>4. more = f[n] \o seqs[n + 1]
          BY <4>3
        <5> HIDE DEF more
        <5> QED
          BY <4>1, <5>3, <5>4
      <4> QED
        BY <4>2, <4>3
    <3> QED
      BY <3>1, <3>2
  <2>6. D(n + 1, g)
    BY <2>2, <2>4, <2>5 DEF g
  <2> HIDE DEF D
  <2> QED
    BY <2>6
<1> HIDE DEF S
<1>3. Nat \subseteq S
  BY <1>1, <1>2, SetInduction
<1>4. Len(seqs) \in S
  BY <1>3
<1>5. \E f : D(Len(seqs), f)
  BY <1>4 DEF S
<1>6. FlattenSeq(seqs) = (CHOOSE f : D(Len(seqs), f))[Len(seqs)]
  BY DEF FlattenSeq
<1> QED
  BY <1>5, <1>6

\* The header of an update takes a reader to the first rectangle.
LEMMA HeaderRun ==
  ASSUME NEW size \in Nat, NEW limit \in Nat, NEW n \in Nat, NEW count \in Nat
  PROVE  Run(Places, Steps(size, limit), Message(<<0, 0, n>>), Between(count),
             Rectangles(size, n, 0, count + 1))
<1> DEFINE R == Steps(size, limit)
           h == <<0, 0, n>>
           at == [i \in 1..4 |-> CASE i = 1 -> Between(count)
                                   [] i = 2 -> Place("update", 0, 0, 0, count + 1)
                                   [] i = 3 -> Place("number", 0, 0, 0, count + 1)
                                   [] i = 4 -> Rectangles(size, n, 0, count + 1)]
<1>1. h \in Seq(Nat) /\ Len(h) = 3 /\ h[1] = 0 /\ h[2] = 0 /\ h[3] = n
  OBVIOUS
<1> HIDE DEF h
<1>2. /\ Message(h) \in Seq(Unit) /\ Len(Message(h)) = 3
      /\ Message(h)[1].v = 0 /\ Message(h)[3].v = n
      /\ Message(h)[1].head /\ ~Message(h)[2].head /\ ~Message(h)[3].head
  <2>1. 1 \in 1..Len(h) /\ 2 \in 1..Len(h) /\ 3 \in 1..Len(h)
    BY <1>1
  <2> QED
    BY <1>1, <2>1, MessageTyped, MessageUnit
<1>3. /\ Message(h)[1] \in Unit /\ Message(h)[2] \in Unit /\ Message(h)[3] \in Unit
  <2>1. 1 \in 1..Len(h) /\ 2 \in 1..Len(h) /\ 3 \in 1..Len(h)
    BY <1>1
  <2> QED
    BY <1>1, <2>1, MessageUnit
<1>4. /\ at[1] = Between(count) /\ at[2] = Place("update", 0, 0, 0, count + 1)
      /\ at[3] = Place("number", 0, 0, 0, count + 1) /\ at[4] = Rectangles(size, n, 0, count + 1)
      /\ DOMAIN at = 1..4 /\ at = [i \in 1..4 |-> at[i]]
  OBVIOUS
<1> HIDE DEF at
<1>5. at[1] \in Places /\ at[2] \in Places /\ at[3] \in Places /\ at[4] \in Places
  <2>1. 0 \in Nat /\ count + 1 \in Nat
    OBVIOUS
  <2>2. /\ Between(count) \in Places /\ Place("update", 0, 0, 0, count + 1) \in Places
        /\ Place("number", 0, 0, 0, count + 1) \in Places
        /\ Rectangles(size, n, 0, count + 1) \in Places
    BY <2>1, PlacesTyped
  <2> QED
    BY <1>4, <2>2
<1>6. at \in [1..4 -> Places]
  <2>1. \A i \in 1..4 : i \in {1, 2, 3, 4}
    OBVIOUS
  <2> QED
    BY <1>4, <1>5, <2>1
<1>7. /\ Reads(size, limit, at[1], Message(h)[1], at[2])
      /\ Reads(size, limit, at[2], Message(h)[2], at[3])
      /\ Reads(size, limit, at[3], Message(h)[3], at[4])
  BY <1>2, <1>4 DEF Reads, Place, Between
<1>8. \A i \in 1..3 : <<at[i], Message(h)[i], at[i + 1]>> \in R
  <2>1. \A i \in 1..3 : i \in {1, 2, 3}
    OBVIOUS
  <2>2. 1 + 1 = 2 /\ 2 + 1 = 3 /\ 3 + 1 = 4
    OBVIOUS
  <2> QED
    BY <1>3, <1>5, <1>7, <2>1, <2>2, StepIs
<1> HIDE DEF R
<1>9. 3 + 1 = 4
  OBVIOUS
<1>10. Run(Places, R, Message(h), Between(count), Rectangles(size, n, 0, count + 1))
  BY <1>2, <1>4, <1>6, <1>8, <1>9 DEF Run
<1> QED
  BY <1>10 DEF h, R

\* The rectangles of an update, laid side by side, take a reader across the screen.
LEMMA RectanglesRun ==
  ASSUME NEW size \in Nat, NEW limit \in Nat, NEW split \in Seq(Nat), Len(split) > 0,
         Covers(split, size), NEW count \in Nat, NEW tag \in count..limit
  PROVE  LET units == FlattenSeq([i \in 1..Len(split) |-> Rectangle(split[i], tag)])
         IN  /\ units \in Seq(Nat)
             /\ Run(Places, Steps(size, limit), Plain(units),
                    Rectangles(size, Len(split), 0, count), Between(count))
<1> DEFINE R == Steps(size, limit)
           n == Len(split)
           seqs == [i \in 1..n |-> Rectangle(split[i], tag)]
           p == Place("size", n, 0, 0, count)
<1>1. n \in Nat /\ n > 0 /\ \A i \in 1..n : split[i] \in Nat
  OBVIOUS
<1>2. PICK edge \in [0..n -> 0..size] :
        edge[0] = 0 /\ edge[n] = size /\ \A i \in 1..n : edge[i] = edge[i - 1] + split[i]
  BY DEF Covers
<1>3. \A i \in 1..n : seqs[i] = Rectangle(split[i], tag) /\ seqs[i] \in Seq(Nat)
  <2>1. 1 \in Nat \ {0} /\ 0 \in Nat
    OBVIOUS
  <2> QED
    BY <1>1, <2>1, RectangleRun
<1>4. seqs \in Seq(Seq(Nat)) /\ Len(seqs) = n
  BY <1>1, <1>3
<1> HIDE DEF n, seqs, R, p
<1>5. PICK f : /\ f = [i \in 1..n |-> IF i = 1 THEN seqs[i] ELSE f[i - 1] \o seqs[i]]
               /\ FlattenSeq(seqs) = f[n]
  BY <1>1, <1>4, FlattenIs
<1> DEFINE Good(k) == /\ f[k] \in Seq(Nat)
                      /\ Run(Places, R, Plain(f[k]), p, Rectangles(size, n - k, edge[k], count))
           S == {k \in Nat : k + 1 > n \/ Good(k + 1)}
<1>6. ASSUME NEW k \in 1..n
      PROVE  /\ seqs[k] \in Seq(Nat) /\ Plain(seqs[k]) \in Seq(Unit)
             /\ Run(Places, R, Plain(seqs[k]), Place("size", n - (k - 1), 0, edge[k - 1], count),
                    Rectangles(size, n - k, edge[k], count))
  <2>1. n - (k - 1) \in Nat \ {0} /\ n - (k - 1) - 1 = n - k /\ k - 1 \in 0..n
    BY <1>1
  <2>2. edge[k - 1] \in Nat /\ edge[k] = edge[k - 1] + split[k] /\ split[k] \in Nat
    BY <1>1, <1>2, <2>1
  <2>3. Run(Places, R, Plain(Rectangle(split[k], tag)),
            Place("size", n - (k - 1), 0, edge[k - 1], count),
            Rectangles(size, n - (k - 1) - 1, edge[k - 1] + split[k], count))
    BY <2>1, <2>2, RectangleRun DEF R
  <2>4. seqs[k] \in Seq(Nat) /\ seqs[k] = Rectangle(split[k], tag)
    BY <1>3
  <2> QED
    BY <2>1, <2>2, <2>3, <2>4, PlainTyped
<1>7. \A k \in Nat : k \in S <=> k + 1 > n \/ Good(k + 1)
  OBVIOUS
<1> HIDE DEF S, Good
<1>8. 0 \in S
  <2>1. 1 \in 1..n /\ 1 - 1 = 0 /\ n - 0 = n /\ 0 + 1 = 1
    BY <1>1
  <2>2. f[1] = seqs[1]
    BY <1>5, <2>1
  <2>3. Good(1)
    BY <1>2, <1>6, <2>1, <2>2 DEF p, Good
  <2> QED
    BY <1>7, <2>1, <2>3
<1>9. ASSUME NEW k \in Nat, k \in S PROVE k + 1 \in S
  <2> DEFINE j == k + 1
  <2>1. CASE j + 1 > n
    BY <1>7, <2>1
  <2>2. CASE ~(j + 1 > n)
    <3>1. j + 1 \in 1..n /\ j \in 1..n /\ (j + 1) - 1 = j /\ n - j > 0 /\ j + 1 # 1
      BY <1>1, <2>2
    <3>2. Good(j)
      BY <1>1, <1>7, <1>9, <3>1
    <3>3. f[j + 1] = f[j] \o seqs[j + 1]
      BY <1>5, <3>1
    <3>4. Rectangles(size, n - j, edge[j], count) = Place("size", n - j, 0, edge[j], count)
      BY <3>1 DEF Rectangles
    <3>5. /\ seqs[j + 1] \in Seq(Nat) /\ Plain(seqs[j + 1]) \in Seq(Unit)
          /\ Run(Places, R, Plain(seqs[j + 1]), Place("size", n - j, 0, edge[j], count),
                 Rectangles(size, n - (j + 1), edge[j + 1], count))
      BY <1>6, <3>1
    <3>9. j + 1 \in Nat /\ j \in Nat
      OBVIOUS
    <3> HIDE DEF j
    <3>6. f[j + 1] \in Seq(Nat) /\ Plain(f[j + 1]) = Plain(f[j]) \o Plain(seqs[j + 1])
      BY <3>2, <3>3, <3>5, PlainJoin, ConcatProperties DEF Good
    <3>7. Plain(f[j]) \in Seq(Unit)
      BY <3>2, PlainTyped DEF Good
    <3>8. Run(Places, R, Plain(f[j + 1]), p, Rectangles(size, n - (j + 1), edge[j + 1], count))
      BY <3>2, <3>4, <3>5, <3>6, <3>7, RunJoin DEF Good
    <3> QED
      <4>1. Good(j + 1)
        BY <3>6, <3>8 DEF Good
      <4>2. j \in S
        BY <1>7, <3>9, <4>1
      <4> QED
        BY <4>2 DEF j
  <2> QED
    BY <2>1, <2>2
<1>10. Nat \subseteq S
  BY <1>8, <1>9, SetInduction
<1>11. Good(n)
  <2>1. n - 1 \in Nat /\ n - 1 + 1 = n
    BY <1>1
  <2>2. n - 1 \in S
    BY <1>10, <2>1
  <2> QED
    BY <1>7, <2>1, <2>2
<1>12. n - n = 0 /\ Rectangles(size, 0, edge[n], count) = Between(count)
  BY <1>1, <1>2 DEF Rectangles
<1>13. Rectangles(size, n, 0, count) = p
  BY <1>1 DEF Rectangles, p
<1>14. FlattenSeq(seqs) \in Seq(Nat) /\ Run(Places, R, Plain(FlattenSeq(seqs)), p, Between(count))
  BY <1>5, <1>11, <1>12 DEF Good
<1> QED
  BY <1>13, <1>14 DEF n, seqs, R

\* An update takes a reader to the start of the next message, with the whole screen drawn.
LEMMA UpdateRun ==
  ASSUME NEW size \in Nat, NEW limit \in Nat, NEW split \in Seq(Nat), Covers(split, size),
         NEW count \in Nat, NEW tag \in count + 1..limit
  PROVE  /\ Message(Update(split, tag)) \in Seq(Unit)
         /\ Run(Places, Steps(size, limit), Message(Update(split, tag)), Between(count),
                Between(count + 1))
<1> DEFINE R == Steps(size, limit)
           n == Len(split)
           h == <<0, 0, n>>
           seqs == [i \in 1..n |-> Rectangle(split[i], tag)]
           units == FlattenSeq(seqs)
<1>1. n \in Nat /\ h \in Seq(Nat) /\ h # <<>> /\ Update(split, tag) = h \o units
  BY DEF Update
<1>2. Run(Places, R, Message(h), Between(count), Rectangles(size, n, 0, count + 1))
  BY <1>1, HeaderRun
<1>3. /\ units \in Seq(Nat)
      /\ Run(Places, R, Plain(units), Rectangles(size, n, 0, count + 1), Between(count + 1))
  <2>1. CASE n > 0
    <3>1. count + 1 \in Nat
      OBVIOUS
    <3> QED
      BY <2>1, <3>1, RectanglesRun
  <2>2. CASE n = 0
    <3>1. seqs = <<>> /\ Len(seqs) = 0
      BY <2>2
    <3>2. units = <<>>
      BY <3>1 DEF FlattenSeq
    <3>3. Plain(<<>>) = <<>> /\ <<>> \in Seq(Nat)
      BY DEF Plain
    <3>4. PICK edge \in [0..n -> 0..size] : edge[0] = 0 /\ edge[n] = size
      BY DEF Covers
    <3>5. Rectangles(size, n, 0, count + 1) = Between(count + 1)
      BY <2>2, <3>4 DEF Rectangles
    <3>6. Between(count + 1) \in Places
      BY DEF Places, Place, Between
    <3> QED
      BY <3>2, <3>3, <3>5, <3>6, RunEmpty
  <2> QED
    BY <1>1, <2>1, <2>2
<1> HIDE DEF units, h, R
<1>4. Message(h \o units) = Message(h) \o Plain(units)
  BY <1>1, <1>3, MessageJoin
<1>5. Message(h) \in Seq(Unit) /\ Plain(units) \in Seq(Unit)
  BY <1>1, <1>3, MessageTyped, PlainTyped
<1>6. Run(Places, R, Message(h \o units), Between(count), Between(count + 1))
  BY <1>2, <1>3, <1>4, <1>5, RunJoin
<1>7. Message(h \o units) \in Seq(Unit)
  BY <1>4, <1>5
<1> QED
  BY <1>1, <1>6, <1>7 DEF R

\* A colour map, or a text.
LEMMA OtherRun ==
  ASSUME NEW size \in Nat, NEW limit \in Nat, NEW units \in Seq(Nat), NEW n \in Nat,
         Len(units) = n + 3, units[1] \in {1, 3}, units[3] = n, NEW count \in Nat
  PROVE  Run(Places, Steps(size, limit), Message(units), Between(count), Between(count))
<1> DEFINE R == Steps(size, limit)
           s == Message(units)
           at == [i \in 1..n + 4 |-> IF i = 1 THEN Between(count)
                                     ELSE IF i = 2 THEN Place("other", 0, 0, 0, count)
                                     ELSE IF i = 3 THEN Place("length", 0, 0, 0, count)
                                     ELSE Items(n + 4 - i, count)]
<1>1. s \in Seq(Unit) /\ Len(s) = n + 3
  BY MessageTyped
<1>2. \A i \in 1..n + 3 : s[i] \in Unit /\ s[i].v = units[i] /\ (s[i].head <=> i = 1)
  BY MessageUnit
<1> HIDE DEF s
<1>3. /\ at[1] = Between(count) /\ at[2] = Place("other", 0, 0, 0, count)
      /\ at[3] = Place("length", 0, 0, 0, count)
      /\ \A i \in 4..n + 4 : at[i] = Items(n + 4 - i, count)
  OBVIOUS
<1>4. at \in [1..n + 4 -> Places]
  <2> SUFFICES ASSUME NEW i \in 1..n + 4 PROVE at[i] \in Places
    BY DEF at
  <2>1. Between(count) \in Places /\ Place("other", 0, 0, 0, count) \in Places
    BY DEF Places, Place, Between
  <2>2. Place("length", 0, 0, 0, count) \in Places
    BY DEF Places, Place
  <2>3. n + 4 - i \in Nat
    OBVIOUS
  <2>4. Items(n + 4 - i, count) \in Places
    BY <2>3 DEF Places, Place, Between, Items
  <2>5. i \in {1, 2, 3} \/ i \in 4..n + 4
    OBVIOUS
  <2> QED
    BY <1>3, <2>1, <2>2, <2>4, <2>5
<1> HIDE DEF at
<1>5. ASSUME NEW i \in 1..n + 3 PROVE <<at[i], s[i], at[i + 1]>> \in R
  <2>1. at[i] \in Places /\ at[i + 1] \in Places
    BY <1>4
  <2>2. CASE i = 1
    <3>1. Reads(size, limit, at[1], s[1], at[2])
      BY <1>2, <1>3, <2>2 DEF Reads, Place, Between
    <3> QED
      BY <1>2, <2>1, <2>2, <3>1, StepIs
  <2>3. CASE i = 2
    <3>1. Reads(size, limit, at[2], s[2], at[3])
      BY <1>2, <1>3, <2>3 DEF Reads, Place
    <3> QED
      BY <1>2, <2>1, <2>3, <3>1, StepIs
  <2>4. CASE i = 3
    <3>1. n + 4 - 4 = n /\ 4 \in 4..n + 4
      OBVIOUS
    <3>2. at[4] = Items(n, count)
      BY <1>3, <3>1
    <3>3. Reads(size, limit, at[3], s[3], at[4])
      BY <1>2, <1>3, <2>4, <3>2 DEF Reads, Place
    <3> QED
      BY <1>2, <2>1, <2>4, <3>3, StepIs
  <2>5. CASE i > 3
    <3>1. i \in 4..n + 4 /\ i + 1 \in 4..n + 4 /\ n + 4 - i > 0 /\ n + 4 - (i + 1) = n + 4 - i - 1
      BY <2>5
    <3>2. at[i] = Place("item", n + 4 - i, 0, 0, count) /\ at[i + 1] = Items(n + 4 - i - 1, count)
      BY <1>3, <3>1 DEF Items
    <3>3. Reads(size, limit, at[i], s[i], at[i + 1])
      BY <1>2, <2>5, <3>2 DEF Reads, Place
    <3> QED
      BY <1>2, <2>1, <3>3, StepIs
  <2> QED
    BY <2>2, <2>3, <2>4, <2>5
<1>6. at[n + 4] = Between(count)
  <2>1. n + 4 \in 4..n + 4 /\ n + 4 - (n + 4) = 0
    OBVIOUS
  <2> QED
    BY <1>3, <2>1 DEF Items
<1>7. n + 3 + 1 = n + 4
  OBVIOUS
<1> QED
  BY <1>1, <1>3, <1>4, <1>5, <1>6, <1>7 DEF Run, s, R

LEMMA ListingIs ==
  ASSUME NEW type \in Nat, NEW n \in Nat
  PROVE  /\ Listing(type, n) \in Seq(Nat) /\ Len(Listing(type, n)) = n + 3
         /\ Listing(type, n)[1] = type /\ Listing(type, n)[3] = n
<1> DEFINE h == <<type, 0, n>>
           t == [i \in 1..n |-> 6]
<1>1. h \in Seq(Nat) /\ Len(h) = 3 /\ h[1] = type /\ h[3] = n
  OBVIOUS
<1>2. t \in Seq(Nat) /\ Len(t) = n
  BY IsASeq
<1> HIDE DEF h, t
<1>3. h \o t \in Seq(Nat) /\ Len(h \o t) = n + 3 /\ (h \o t)[1] = type /\ (h \o t)[3] = n
  <2>1. /\ h \o t \in Seq(Nat) /\ Len(h \o t) = Len(h) + Len(t)
        /\ \A i \in 1..Len(h) + Len(t) : (h \o t)[i] = IF i <= Len(h) THEN h[i] ELSE t[i - Len(h)]
    BY <1>1, <1>2, ConcatProperties
  <2>2. 1 \in 1..3 + n /\ 3 \in 1..3 + n /\ 3 + n = n + 3
    OBVIOUS
  <2> QED
    BY <1>1, <1>2, <2>1, <2>2
<1>4. Listing(type, n) = h \o t
  BY DEF Listing, h, t
<1> QED
  BY <1>3, <1>4

\* A message nobody asked for takes a reader to the start of the next, however long it is.
LEMMA NewsRun ==
  ASSUME NEW size \in Nat, NEW limit \in Nat, NEW colours, colours \subseteq Nat,
         NEW texts, texts \subseteq Nat, NEW units \in News(colours, texts), NEW count \in Nat
  PROVE  /\ Message(units) \in Seq(Unit)
         /\ Run(Places, Steps(size, limit), Message(units), Between(count), Between(count))
<1>1. CASE units = <<2>>
  <2>1. units \in Seq(Nat) /\ Len(units) = 1 /\ units[1] = 2 /\ 1 \in 1..Len(units)
    BY <1>1
  <2>2. /\ Message(units) \in Seq(Unit) /\ Len(Message(units)) = 1
        /\ Message(units)[1] \in Unit /\ Message(units)[1].v = 2 /\ Message(units)[1].head
    BY <2>1, MessageTyped, MessageUnit
  <2>3. Between(count) \in Places
    BY DEF Places, Place, Between
  <2>4. Reads(size, limit, Between(count), Message(units)[1], Between(count))
    BY <2>2 DEF Reads, Place, Between
  <2>5. <<Between(count), Message(units)[1], Between(count)>> \in Steps(size, limit)
    BY <2>2, <2>3, <2>4, StepIs
  <2>6. Run(Places, Steps(size, limit), <<Message(units)[1]>>, Between(count), Between(count))
    BY <2>3, <2>5, RunOne
  <2>7. Message(units) = <<Message(units)[1]>>
    BY <2>2
  <2> QED
    BY <2>2, <2>6, <2>7
<1>2. ASSUME NEW type \in {1, 3}, NEW n \in Nat, units = Listing(type, n)
      PROVE  /\ Message(units) \in Seq(Unit)
             /\ Run(Places, Steps(size, limit), Message(units), Between(count), Between(count))
  <2>1. units \in Seq(Nat) /\ Len(units) = n + 3 /\ units[1] \in {1, 3} /\ units[3] = n
    <3>1. type \in Nat
      OBVIOUS
    <3> QED
      BY <1>2, <3>1, ListingIs
  <2> QED
    BY <2>1, OtherRun, MessageTyped
<1>3. units = <<2>> \/ \E type \in {1, 3}, n \in Nat : units = Listing(type, n)
  BY DEF News
<1> QED
  BY <1>1, <1>2, <1>3

-----------------------------------------------------------------------------

(***************************************************************************)
(* What a reader finds, and where it is once it has read it.               *)
(***************************************************************************)

\* At the start of a message stands its type.
LEMMA AtType ==
  ASSUME NEW size, NEW limit, NEW s \in Seq(Unit), s # <<>>, NEW k, NEW q,
         Run(Places, Steps(size, limit), s, Between(k), q)
  PROVE  /\ s[1].head /\ s[1].v \in 0..3
         /\ Run(Places, Steps(size, limit), Tail(s),
                IF s[1].v = 0 THEN Place("update", 0, 0, 0, k + 1)
                ELSE IF s[1].v = 2 THEN Between(k) ELSE Place("other", 0, 0, 0, k), q)
<1> DEFINE R == Steps(size, limit)
<1>1. PICK m \in Places : <<Between(k), s[1], m>> \in R /\ Run(Places, R, Tail(s), m, q)
  BY RunHead
<1>2. Reads(size, limit, Between(k), s[1], m)
  BY <1>1, IsStep
<1>3. /\ s[1].head /\ s[1].v \in 0..3
      /\ m = IF s[1].v = 0 THEN Place("update", 0, 0, 0, k + 1)
             ELSE IF s[1].v = 2 THEN Between(k) ELSE Place("other", 0, 0, 0, k)
  BY <1>2 DEF Reads, Between, Place
<1> QED
  BY <1>1, <1>3

\* At the header of an update.
LEMMA AtUpdate ==
  ASSUME NEW size, NEW limit, NEW s \in Seq(Unit), Len(s) >= 2, NEW k, NEW q,
         Run(Places, Steps(size, limit), s, Place("update", 0, 0, 0, k), q)
  PROVE  Run(Places, Steps(size, limit), Rest(s, 2), Rectangles(size, s[2].v, 0, k), q)
<1> DEFINE R == Steps(size, limit)
           p == Place("update", 0, 0, 0, k)
<1>1. PICK m \in Places, n \in Places :
        <<p, s[1], m>> \in R /\ <<m, s[2], n>> \in R /\ Run(Places, R, Rest(s, 2), n, q)
  BY RunTwo
<1>2. Reads(size, limit, p, s[1], m) /\ Reads(size, limit, m, s[2], n)
  BY <1>1, IsStep
<1>3. m = Place("number", 0, 0, 0, k)
  BY <1>2 DEF Reads, Place
<1>4. n = Rectangles(size, s[2].v, 0, k)
  BY <1>2, <1>3 DEF Reads, Place
<1> QED
  BY <1>1, <1>4

\* At the header of a colour map or of a text.
LEMMA AtOther ==
  ASSUME NEW size, NEW limit, NEW s \in Seq(Unit), Len(s) >= 2, NEW k, NEW q,
         Run(Places, Steps(size, limit), s, Place("other", 0, 0, 0, k), q)
  PROVE  Run(Places, Steps(size, limit), Rest(s, 2), Items(s[2].v, k), q)
<1> DEFINE R == Steps(size, limit)
           p == Place("other", 0, 0, 0, k)
<1>1. PICK m \in Places, n \in Places :
        <<p, s[1], m>> \in R /\ <<m, s[2], n>> \in R /\ Run(Places, R, Rest(s, 2), n, q)
  BY RunTwo
<1>2. Reads(size, limit, p, s[1], m) /\ Reads(size, limit, m, s[2], n)
  BY <1>1, IsStep
<1>3. m = Place("length", 0, 0, 0, k)
  BY <1>2 DEF Reads, Place
<1>4. n = Items(s[2].v, k)
  BY <1>2, <1>3 DEF Reads, Place
<1> QED
  BY <1>1, <1>4

\* At the header of a rectangle, which is raw.
LEMMA AtSize ==
  ASSUME NEW size, NEW limit, NEW s \in Seq(Unit), Len(s) >= 2,
         NEW more, NEW drawn, NEW k, NEW q,
         Run(Places, Steps(size, limit), s, Place("size", more, 0, drawn, k), q)
  PROVE  /\ s[2].v = 0
         /\ Run(Places, Steps(size, limit), Rest(s, 2), Pixels(size, more, s[1].v, drawn, k), q)
<1> DEFINE R == Steps(size, limit)
           p == Place("size", more, 0, drawn, k)
<1>1. PICK m \in Places, n \in Places :
        <<p, s[1], m>> \in R /\ <<m, s[2], n>> \in R /\ Run(Places, R, Rest(s, 2), n, q)
  BY RunTwo
<1>2. Reads(size, limit, p, s[1], m) /\ Reads(size, limit, m, s[2], n)
  BY <1>1, IsStep
<1>3. m = Place("encoding", more, s[1].v, drawn, k)
  BY <1>2 DEF Reads, Place
<1>4. s[2].v = 0 /\ n = Pixels(size, more, s[1].v, drawn, k)
  BY <1>2, <1>3 DEF Reads, Place
<1> QED
  BY <1>1, <1>4

\* Among the pixels of a rectangle: however many are read, they are of this update.
LEMMA AtPixels ==
  ASSUME NEW size, NEW limit, NEW s \in Seq(Unit), NEW more, NEW pixels \in Nat,
         NEW drawn \in Nat, NEW k, NEW q,
         Run(Places, Steps(size, limit), s, Place("pixels", more, pixels, drawn, k), q),
         NEW n \in 0..pixels, n <= Len(s), n > 0
  PROVE  /\ \A i \in 1..n : s[i].v \in k..limit
         /\ Run(Places, Steps(size, limit), Rest(s, n),
                Pixels(size, more, pixels - n, drawn + n, k), q)
<1> DEFINE R == Steps(size, limit)
           Good(j) == /\ \A i \in 1..j : s[i].v \in k..limit
                      /\ Run(Places, R, Rest(s, j), Pixels(size, more, pixels - j, drawn + j, k), q)
           S == {j \in Nat : j <= n => Good(j)}
<1>1. \A j \in Nat : j \in S <=> (j <= n => Good(j))
  OBVIOUS
<1> HIDE DEF S, R, Good
<1>2. Len(s) \in Nat /\ pixels > 0
  OBVIOUS
<1>3. 0 \in S
  <2>1. Rest(s, 0) = s
    BY <1>2, RestTyped
  <2>2. pixels - 0 = pixels /\ drawn + 0 = drawn /\ 1..0 = {}
    OBVIOUS
  <2>3. Pixels(size, more, pixels, drawn, k) = Place("pixels", more, pixels, drawn, k)
    BY <1>2 DEF Pixels
  <2>4. Good(0)
    BY <2>1, <2>2, <2>3 DEF Good, R
  <2> QED
    BY <1>1, <2>4
<1>4. ASSUME NEW j \in Nat, j \in S PROVE j + 1 \in S
  <2> SUFFICES ASSUME j + 1 <= n PROVE Good(j + 1)
    BY <1>1
  <2>1. j < Len(s) /\ pixels - j > 0 /\ j \in 0..Len(s)
    BY <1>2
  <2>2. Good(j)
    BY <1>1, <1>4
  <2>3. Rest(s, j) \in Seq(Unit)
    BY <2>1, RestTyped
  <2>4. Rest(s, j) # <<>> /\ Rest(s, j)[1] = s[j + 1] /\ Tail(Rest(s, j)) = Rest(s, j + 1)
    BY <2>1, RestTail
  <2>5. Pixels(size, more, pixels - j, drawn + j, k) = Place("pixels", more, pixels - j, drawn + j, k)
    BY <2>1 DEF Pixels
  <2>6. Run(Places, R, Rest(s, j), Place("pixels", more, pixels - j, drawn + j, k), q)
    BY <2>2, <2>5 DEF Good
  <2>7. PICK m \in Places : /\ <<Place("pixels", more, pixels - j, drawn + j, k), s[j + 1], m>> \in R
                            /\ Run(Places, R, Rest(s, j + 1), m, q)
    BY <2>3, <2>4, <2>6, RunHead
  <2>8. Reads(size, limit, Place("pixels", more, pixels - j, drawn + j, k), s[j + 1], m)
    BY <2>7, IsStep DEF R
  <2>9. pixels - j - 1 = pixels - (j + 1) /\ drawn + j + 1 = drawn + (j + 1)
    OBVIOUS
  <2>10. s[j + 1].v \in k..limit /\ m = Pixels(size, more, pixels - (j + 1), drawn + (j + 1), k)
    BY <2>8, <2>9 DEF Reads, Place
  <2>11. \A i \in 1..j + 1 : s[i].v \in k..limit
    <3>1. \A i \in 1..j + 1 : i \in 1..j \/ i = j + 1
      OBVIOUS
    <3> QED
      BY <2>2, <2>10, <3>1 DEF Good
  <2> QED
    BY <2>7, <2>10, <2>11 DEF Good
<1>5. Nat \subseteq S
  BY <1>3, <1>4, SetInduction
<1>6. Good(n)
  BY <1>1, <1>5
<1> QED
  BY <1>6 DEF Good, R

\* Among the colours of a map or the letters of a text.
LEMMA AtItems ==
  ASSUME NEW size, NEW limit, NEW s \in Seq(Unit), NEW more \in Nat, NEW k, NEW q,
         Run(Places, Steps(size, limit), s, Items(more, k), q),
         NEW n \in 0..more, n <= Len(s)
  PROVE  Run(Places, Steps(size, limit), Rest(s, n), Items(more - n, k), q)
<1> DEFINE R == Steps(size, limit)
           Good(j) == Run(Places, R, Rest(s, j), Items(more - j, k), q)
           S == {j \in Nat : j <= n => Good(j)}
<1>1. \A j \in Nat : j \in S <=> (j <= n => Good(j))
  OBVIOUS
<1> HIDE DEF S, R, Good
<1>2. Len(s) \in Nat
  OBVIOUS
<1>3. 0 \in S
  <2>1. Rest(s, 0) = s
    BY <1>2, RestTyped
  <2>2. more - 0 = more
    OBVIOUS
  <2>3. Good(0)
    BY <2>1, <2>2 DEF Good, R
  <2> QED
    BY <1>1, <2>3
<1>4. ASSUME NEW j \in Nat, j \in S PROVE j + 1 \in S
  <2> SUFFICES ASSUME j + 1 <= n PROVE Good(j + 1)
    BY <1>1
  <2>1. j < Len(s) /\ more - j > 0 /\ j \in 0..Len(s)
    BY <1>2
  <2>2. Good(j)
    BY <1>1, <1>4
  <2>3. Rest(s, j) \in Seq(Unit)
    BY <2>1, RestTyped
  <2>4. Rest(s, j) # <<>> /\ Rest(s, j)[1] = s[j + 1] /\ Tail(Rest(s, j)) = Rest(s, j + 1)
    BY <2>1, RestTail
  <2>5. Run(Places, R, Rest(s, j), Place("item", more - j, 0, 0, k), q)
    BY <2>1, <2>2 DEF Items, Good
  <2>6. PICK m \in Places : /\ <<Place("item", more - j, 0, 0, k), s[j + 1], m>> \in R
                            /\ Run(Places, R, Rest(s, j + 1), m, q)
    BY <2>3, <2>4, <2>5, RunHead
  <2>7. Reads(size, limit, Place("item", more - j, 0, 0, k), s[j + 1], m)
    BY <2>6, IsStep DEF R
  <2>8. more - j - 1 = more - (j + 1)
    OBVIOUS
  <2>9. m = Items(more - (j + 1), k)
    BY <2>7, <2>8 DEF Reads, Place
  <2> QED
    BY <2>6, <2>9 DEF Good
<1>5. Nat \subseteq S
  BY <1>3, <1>4, SetInduction
<1>6. Good(n)
  BY <1>1, <1>5
<1> QED
  BY <1>6 DEF Good, R

\* An update that is over has drawn the whole screen.
LEMMA UpdateOver ==
  ASSUME NEW size, NEW limit, NEW s \in Seq(Unit), NEW drawn, NEW k, NEW c,
         Run(Places, Steps(size, limit), s, Rectangles(size, 0, drawn, k), Between(c))
  PROVE  drawn = size /\ Rectangles(size, 0, drawn, k) = Between(k)
<1> SUFFICES ASSUME drawn # size PROVE FALSE
  BY DEF Rectangles
<1> DEFINE p == Place("size", 0, 0, drawn, k)
<1>1. Run(Places, Steps(size, limit), s, p, Between(c))
  BY DEF Rectangles
<1>2. CASE s = <<>>
  <2>1. p = Between(c)
    BY <1>1, <1>2, RunOfNothing
  <2> QED
    BY <2>1 DEF Place, Between
<1>3. CASE s # <<>>
  <2>1. PICK m \in Places : <<p, s[1], m>> \in Steps(size, limit)
    BY <1>1, <1>3, RunHead
  <2>2. Reads(size, limit, p, s[1], m)
    BY <2>1, IsStep
  <2> QED
    BY <2>2 DEF Reads, Place
<1> QED
  BY <1>2, <1>3

-----------------------------------------------------------------------------

(***************************************************************************)
(* Types.                                                                  *)
(***************************************************************************)

\* TypeOK, a variable at a time; while there is something to count down, the count is
\* positive.
Typed ==
  /\ spun \in {"no", "ok", "failed"}
  /\ conn \in {"down", "connecting", "up", "closed"}
  /\ s2c \in Seq(Unit)
  /\ version \in {0, 33, 37, 38}
  /\ challenge \in Nat \X Nat
  /\ width \in Nat /\ configured \in BOOLEAN /\ image_buf \in Seq(Nat)
  /\ message_type \in Nat /\ todo \in Nat /\ want \in Nat
  /\ throws \in Nat /\ reqs \in Nat /\ missed \in Nat
  /\ frags \in Nat /\ torn \in BOOLEAN /\ overlong \in BOOLEAN
  /\ pc \in {"recv_rectangle", "recv_pixels", "recv_colour"} => todo > 0
  /\ pc = "recv_pixels" => want > 0

LEMMA TypedInit == Init => Typed
<1>1. <<>> \in Seq(Unit) /\ <<>> \in Seq(Nat) /\ <<0, 0>> \in Nat \X Nat
  OBVIOUS
<1> QED
  BY <1>1 DEF Init, Typed

\* What a read that returned n units leaves and returns.
LEMMA ReadTyped ==
  ASSUME s2c \in Seq(Unit), frags \in Nat, torn \in BOOLEAN,
         NEW max \in Nat, NEW n \in Lengths(max), Read(n, max)
  PROVE  /\ n \in 0..Len(s2c) /\ n <= max
         /\ s2c' = Rest(s2c, n) /\ s2c' \in Seq(Unit)
         /\ frags' \in Nat /\ torn' \in BOOLEAN
         /\ \A i \in Nat \ {0} : Field(n, i) \in Nat
<1>1. Len(s2c) \in Nat
  OBVIOUS
<1>2. n \in 0..Len(s2c) /\ n <= max
  BY <1>1 DEF Lengths, Least
<1>3. s2c' = Rest(s2c, n)
  BY DEF Read, Rest
<1>4. s2c' \in Seq(Unit)
  BY <1>2, <1>3, RestTyped
<1>5. ASSUME NEW i \in Nat \ {0} PROVE Field(n, i) \in Nat
  <2>1. CASE i <= n
    <3>1. s2c[i] \in Unit
      BY <1>1, <1>2, <1>5, <2>1, ElementOfSeq
    <3>2. s2c[i].v \in Nat
      BY <3>1 DEF Unit
    <3> QED
      BY <2>1, <3>2 DEF Field
  <2>2. CASE ~(i <= n)
    BY <2>2 DEF Field
  <2> QED
    BY <2>1, <2>2
<1>6. frags' \in Nat /\ torn' \in BOOLEAN
  BY DEF Read
<1> QED
  BY <1>2, <1>3, <1>4, <1>5, <1>6

LEMMA SendTyped ==
  ASSUME NEW from, NEW msg, NEW to, Send(from, msg, to), spun \in {"no", "ok", "failed"}
  PROVE  /\ UNCHANGED <<conn, s2c, frags, torn>> /\ spun' \in {"no", "ok", "failed"}
         /\ pc' \in {to, "idle"}
  BY DEF Send, Goto, Fail

LEMMA TypedConnect ==
  ASSUME Typed, ConnectToServer \/ Select \/ Throw \/ Destroy PROVE Typed'
<1>1. CASE ConnectToServer
  BY <1>1 DEF Typed, ConnectToServer, Goto, Fail, client, progress, history
<1>2. CASE Select
  BY <1>2 DEF Typed, Select, Goto, Fail, client, progress, history
<1>3. CASE Throw
  BY <1>3 DEF Typed, Throw, Goto, client, progress
<1>4. CASE Destroy
  <2>1. <<>> \in Seq(Unit)
    OBVIOUS
  <2> QED
    BY <1>4, <2>1 DEF Typed, Destroy, Close, client, progress, history
<1> QED
  BY <1>1, <1>2, <1>3, <1>4

\* The steps that send.
LEMMA TypedSend ==
  ASSUME Typed,
         \/ SendProtocolVersion \/ SendSecurityType \/ SendVncAuthResponse \/ SendClientInit
         \/ SendSetPixelFormat \/ SendSetEncodings
         \/ SendKeyEvent \/ SendPointerEvent \/ SendFrameBufferUpdateRequest
  PROVE  Typed'
<1>1. ASSUME NEW from, NEW msg, NEW to \in {"recv_types", "recv_challenge", "recv_result",
               "recv_server_init", "key_up", "idle", "pointer_up", "send_request"},
             Send(from, msg, to), UNCHANGED <<client, progress, history>>
      PROVE  Typed'
  <2>1. /\ UNCHANGED <<conn, s2c, frags, torn>> /\ spun' \in {"no", "ok", "failed"}
        /\ pc' \in {to, "idle"}
    BY <1>1, SendTyped DEF Typed
  <2> QED
    BY <1>1, <2>1 DEF Typed, client, progress, history
<1>2. CASE SendSetPixelFormat
  <2>1. /\ UNCHANGED <<conn, s2c, frags, torn>> /\ spun' \in {"no", "ok", "failed"}
        /\ pc' \in {"send_encodings", "idle"}
    BY <1>2, SendTyped DEF Typed, SendSetPixelFormat
  <2> QED
    BY <1>2, <2>1 DEF Typed, SendSetPixelFormat, progress, history
<1>3. CASE SendSetEncodings
  BY <1>3 DEF Typed, SendSetEncodings, client, progress, history
<1>4. CASE SendFrameBufferUpdateRequest
  <2>1. /\ UNCHANGED <<conn, s2c, frags, torn>> /\ spun' \in {"no", "ok", "failed"}
        /\ pc' \in {"recv_type", "idle"}
    BY <1>4, SendTyped DEF Typed, SendFrameBufferUpdateRequest
  <2>2. <<>> \in Seq(Nat)
    OBVIOUS
  <2> QED
    BY <1>4, <2>1, <2>2 DEF Typed, SendFrameBufferUpdateRequest, progress
<1>5. CASE SendProtocolVersion
  BY <1>1, <1>5 DEF SendProtocolVersion
<1>6. CASE SendSecurityType
  BY <1>1, <1>6 DEF SendSecurityType
<1>7. CASE SendVncAuthResponse
  BY <1>1, <1>7 DEF SendVncAuthResponse
<1>8. CASE SendClientInit
  BY <1>1, <1>8 DEF SendClientInit
<1>9. CASE SendKeyEvent
  BY <1>1, <1>9 DEF SendKeyEvent
<1>10. CASE SendPointerEvent
  BY <1>1, <1>10 DEF SendPointerEvent
<1> QED
  BY <1>2, <1>3, <1>4, <1>5, <1>6, <1>7, <1>8, <1>9, <1>10

\* The steps that read one field and nothing else of note.
LEMMA ErrorTyped ==
  ASSUME RecvError, spun \in {"no", "ok", "failed"}
  PROVE  UNCHANGED <<s2c, frags, torn>> /\ spun' \in {"no", "ok", "failed"} /\ pc' = "idle"
  BY DEF RecvError, Fail

LEMMA TypedHandshake ==
  ASSUME Typed,
         \/ RecvProtocolVersion \/ RecvSupportedSecurityTypes \/ RecvVncAuthChallenge
         \/ RecvSecurityResult \/ RecvServerInit \/ RecvServerInitCrashes
  PROVE  Typed'
<1> USE DEF Typed
<1>1. ASSUME NEW max \in Nat, NEW n \in Lengths(max), Read(n, max)
      PROVE  /\ s2c' \in Seq(Unit) /\ frags' \in Nat /\ torn' \in BOOLEAN
             /\ Field(n, 1) \in Nat /\ Field(n, 2) \in Nat
  BY <1>1, ReadTyped
<1>2. CASE RecvProtocolVersion
  <2>1. ASSUME NEW n \in Lengths(2), Read(n, 2),
               IF Field(n, 1) = 82 /\ Field(n, 2) \in {33, 37, 38}
               THEN version' = Field(n, 2) /\ Goto("send_version")
               ELSE UNCHANGED version /\ Fail
        PROVE  Typed'
    <3>1. s2c' \in Seq(Unit) /\ frags' \in Nat /\ torn' \in BOOLEAN
      BY <1>1, <2>1
    <3> QED
      BY <1>2, <2>1, <3>1 DEF RecvProtocolVersion, Goto, Fail, progress, history
  <2>2. CASE RecvError /\ UNCHANGED version
    BY <1>2, <2>2, ErrorTyped DEF RecvProtocolVersion, progress, history
  <2> QED
    BY <1>2, <2>1, <2>2 DEF RecvProtocolVersion
<1>3. ASSUME NEW max \in {2, 4}, UNCHANGED <<conn, client, progress, history>>,
             RecvError \/ \E n \in Lengths(max) :
                            Read(n, max) /\ (Goto("send_type") \/ Goto("send_client_init") \/ Fail)
      PROVE  Typed'
  <2>1. ASSUME NEW n \in Lengths(max), Read(n, max),
               Goto("send_type") \/ Goto("send_client_init") \/ Fail
        PROVE  Typed'
    <3>1. s2c' \in Seq(Unit) /\ frags' \in Nat /\ torn' \in BOOLEAN
      BY <1>1, <2>1
    <3> QED
      BY <1>3, <2>1, <3>1 DEF Goto, Fail, client, progress, history
  <2>2. CASE RecvError
    BY <1>3, <2>2, ErrorTyped DEF client, progress, history
  <2> QED
    BY <1>3, <2>1, <2>2
<1>4. CASE RecvSupportedSecurityTypes
  BY <1>3, <1>4 DEF RecvSupportedSecurityTypes
<1>5. CASE RecvSecurityResult
  BY <1>3, <1>5 DEF RecvSecurityResult
<1>6. CASE RecvVncAuthChallenge
  <2>1. ASSUME NEW n \in Lengths(2), Read(n, 2), Goto("send_response"),
               challenge' = <<Field(n, 1), Field(n, 2)>>
        PROVE  Typed'
    <3>1. /\ s2c' \in Seq(Unit) /\ frags' \in Nat /\ torn' \in BOOLEAN
          /\ Field(n, 1) \in Nat /\ Field(n, 2) \in Nat
      BY <1>1, <2>1
    <3>2. challenge' \in Nat \X Nat
      BY <2>1, <3>1
    <3> QED
      BY <1>6, <2>1, <3>1, <3>2 DEF RecvVncAuthChallenge, Goto, progress, history
  <2>2. CASE RecvError /\ UNCHANGED challenge
    BY <1>6, <2>2, ErrorTyped DEF RecvVncAuthChallenge, progress, history
  <2> QED
    BY <1>6, <2>1, <2>2 DEF RecvVncAuthChallenge
<1>7. CASE RecvServerInit
  <2>1. ASSUME NEW n \in Lengths(2 + NameRoom), Read(n, 2 + NameRoom), width' = Field(n, 1),
               overlong' = (overlong \/ Field(n, 2) > NameRoom), Goto("send_format")
        PROVE  Typed'
    <3>1. /\ s2c' \in Seq(Unit) /\ frags' \in Nat /\ torn' \in BOOLEAN
          /\ Field(n, 1) \in Nat
      BY <1>1, <2>1, RoomAssumption
    <3>2. overlong' \in BOOLEAN
      BY <2>1
    <3> QED
      BY <1>7, <2>1, <3>1, <3>2 DEF RecvServerInit, Goto, progress
  <2>2. CASE RecvError /\ UNCHANGED <<width, overlong>>
    BY <1>7, <2>2, ErrorTyped DEF RecvServerInit, progress
  <2> QED
    BY <1>7, <2>1, <2>2 DEF RecvServerInit
<1>8. CASE RecvServerInitCrashes
  <2>1. <<>> \in Seq(Unit)
    OBVIOUS
  <2> QED
    BY <1>8, <2>1 DEF RecvServerInitCrashes, Close, client, progress
<1> QED
  BY <1>2, <1>4, <1>5, <1>6, <1>7, <1>8

\* The steps that read a message, or a part of one.
LEMMA TypedMessage ==
  ASSUME Typed,
         \/ RecvServerToClientMessage \/ RecvFrameBufferUpdate \/ RecvSetColourMapEntries
         \/ RecvServerCutText \/ RecvColour \/ RecvText \/ RecvTextCrashes
  PROVE  Typed'
<1> USE DEF Typed
<1>1. CASE RecvServerToClientMessage
  <2>1. ASSUME NEW n \in Lengths(1), Read(n, 1), message_type' = Field(n, 1),
               missed' = missed + (IF Field(n, 1) = 0 THEN 0 ELSE 1),
               IF Field(n, 1) \in 0..3 THEN Goto(Handler(Field(n, 1))) ELSE Fail
        PROVE  Typed'
    <3>1. /\ s2c' \in Seq(Unit) /\ frags' \in Nat /\ torn' \in BOOLEAN
          /\ Field(n, 1) \in Nat
      BY <2>1, ReadTyped
    <3>2. /\ spun' \in {"no", "ok", "failed"}
          /\ pc' \notin {"recv_rectangle", "recv_pixels", "recv_colour"}
      <4>1. \A type \in 0..3 : Handler(type) \notin {"recv_rectangle", "recv_pixels", "recv_colour"}
        BY DEF Handler
      <4> QED
        BY <2>1, <4>1 DEF Goto, Fail
    <3>3. missed' \in Nat
      BY <2>1
    <3> QED
      BY <1>1, <2>1, <3>1, <3>2, <3>3 DEF RecvServerToClientMessage, client
  <2>2. CASE RecvError /\ UNCHANGED <<message_type, missed>>
    BY <1>1, <2>2, ErrorTyped DEF RecvServerToClientMessage, client
  <2> QED
    BY <1>1, <2>1, <2>2 DEF RecvServerToClientMessage
<1>2. ASSUME NEW from, NEW more, NEW none, RecvHeader(from, more, none), more # "recv_pixels",
             none \notin {"recv_rectangle", "recv_pixels", "recv_colour"},
             more = none => more = "recv_text"
      PROVE  Typed'
  <2>1. ASSUME NEW n \in Lengths(2), Read(n, 2), todo' = Field(n, 2),
               Goto(IF Field(n, 2) > 0 THEN more ELSE none)
        PROVE  Typed'
    <3>1. /\ s2c' \in Seq(Unit) /\ frags' \in Nat /\ torn' \in BOOLEAN
          /\ Field(n, 2) \in Nat
      BY <2>1, ReadTyped
    <3> QED
      BY <1>2, <2>1, <3>1 DEF RecvHeader, Goto, client, history
  <2>2. CASE RecvError /\ UNCHANGED todo
    BY <1>2, <2>2, ErrorTyped DEF RecvHeader, client, history
  <2> QED
    BY <1>2, <2>1, <2>2 DEF RecvHeader
<1>3. CASE RecvFrameBufferUpdate
  BY <1>2, <1>3 DEF RecvFrameBufferUpdate
<1>4. CASE RecvSetColourMapEntries
  BY <1>2, <1>4 DEF RecvSetColourMapEntries
<1>5. CASE RecvServerCutText
  BY <1>2, <1>5 DEF RecvServerCutText
<1>6. CASE RecvColour
  <2>1. ASSUME NEW n \in Lengths(1), Read(n, 1), todo' = todo - 1,
               Goto(IF todo > 1 THEN "recv_colour" ELSE "draw")
        PROVE  Typed'
    <3>1. s2c' \in Seq(Unit) /\ frags' \in Nat /\ torn' \in BOOLEAN
      BY <2>1, ReadTyped
    <3>2. todo > 0
      BY <1>6 DEF RecvColour
    <3> QED
      BY <1>6, <2>1, <3>1, <3>2 DEF RecvColour, Goto, client, history
  <2>2. CASE RecvError /\ UNCHANGED todo
    BY <1>6, <2>2, ErrorTyped DEF RecvColour, client, history
  <2> QED
    BY <1>6, <2>1, <2>2 DEF RecvColour
<1>7. CASE RecvText
  <2>1. ASSUME NEW n \in Lengths(todo), Read(n, todo), overlong' = (overlong \/ n >= BufRoom),
               Goto("draw")
        PROVE  Typed'
    <3>1. s2c' \in Seq(Unit) /\ frags' \in Nat /\ torn' \in BOOLEAN
      BY <2>1, ReadTyped
    <3>2. overlong' \in BOOLEAN
      BY <2>1
    <3> QED
      BY <1>7, <2>1, <3>1, <3>2 DEF RecvText, Goto, client, progress
  <2>2. CASE RecvError /\ UNCHANGED overlong
    BY <1>7, <2>2, ErrorTyped DEF RecvText, client, progress
  <2> QED
    BY <1>7, <2>1, <2>2 DEF RecvText
<1>8. CASE RecvTextCrashes
  <2>1. <<>> \in Seq(Unit)
    OBVIOUS
  <2> QED
    BY <1>8, <2>1 DEF RecvTextCrashes, Close, client, progress
<1> QED
  BY <1>1, <1>3, <1>4, <1>5, <1>6, <1>7, <1>8

\* The steps that read rectangles, and those that draw them.
LEMMA TypedPicture ==
  ASSUME Typed,
         RecvRectangle \/ RecvPixels \/ RecvPixelsSpins \/ DrawImage \/ DrawImageCrashes
  PROVE  Typed'
<1> USE DEF Typed
<1>1. CASE RecvRectangle
  <2>1. ASSUME NEW n \in Lengths(2), Read(n, 2), want' = IF configured THEN Field(n, 1) ELSE 0,
               \/ Fail /\ UNCHANGED todo
               \/ want' > 0 /\ Goto("recv_pixels") /\ UNCHANGED todo
               \/ NextRectangle
        PROVE  Typed'
    <3>1. s2c' \in Seq(Unit) /\ frags' \in Nat /\ torn' \in BOOLEAN /\ Field(n, 1) \in Nat
      BY <2>1, ReadTyped
    <3>2. todo > 0
      BY <1>1 DEF RecvRectangle
    <3> QED
      BY <1>1, <2>1, <3>1, <3>2 DEF RecvRectangle, Goto, Fail, NextRectangle, client, history
  <2>2. CASE RecvError /\ UNCHANGED <<todo, want>>
    BY <1>1, <2>2, ErrorTyped DEF RecvRectangle, client, history
  <2> QED
    BY <1>1, <2>1, <2>2 DEF RecvRectangle
<1>2. CASE RecvPixels
  <2>1. ASSUME NEW n \in Lengths(want) \ {0}, NEW m \in {n, n - 1}, TakePixels(n, m)
        PROVE  Typed'
    <3>1. n \in 1..Len(s2c) /\ n <= want /\ Len(s2c) \in Nat
      BY <2>1 DEF Lengths, Least
    <3>2. todo > 0
      BY <1>2 DEF RecvPixels
    <3>3. image_buf' \in Seq(Nat)
      <4>1. ASSUME NEW i \in 1..n PROVE s2c[i].v \in Nat
        <5>1. s2c[i] \in Unit
          BY <3>1, ElementOfSeq
        <5> QED
          BY <5>1 DEF Unit
      <4>2. [i \in 1..n |-> s2c[i].v] \in Seq(Nat)
        BY <3>1, <4>1, IsASeq
      <4> QED
        BY <2>1, <4>2, ConcatProperties DEF TakePixels
    <3>4. s2c' \in Seq(Unit)
      <4>1. m \in 0..Len(s2c) /\ s2c' = Rest(s2c, m)
        BY <2>1, <3>1 DEF TakePixels, Rest
      <4> QED
        BY <4>1, RestTyped
    <3>5. frags' \in Nat /\ torn' \in BOOLEAN /\ want' \in Nat /\ want' = want - m
      BY <2>1, <3>1 DEF TakePixels
    <3>6. m < want => UNCHANGED <<pc, spun, todo>>
      BY <2>1 DEF TakePixels
    <3>7. ~(m < want) => NextRectangle
      BY <2>1 DEF TakePixels
    <3>8. CASE m < want
      <4>1. want' > 0
        BY <3>1, <3>5, <3>8
      <4> QED
        BY <1>2, <3>3, <3>4, <3>5, <3>6, <3>8, <4>1 DEF RecvPixels, history
    <3>9. CASE ~(m < want)
      BY <1>2, <3>2, <3>3, <3>4, <3>5, <3>7, <3>9 DEF RecvPixels, Goto, NextRectangle, history
    <3> QED
      BY <3>8, <3>9
  <2>2. CASE RecvError /\ UNCHANGED <<image_buf, want, todo>>
    BY <1>2, <2>2, ErrorTyped DEF RecvPixels, history
  <2> QED
    BY <1>2, <2>1, <2>2 DEF RecvPixels
<1>3. CASE RecvPixelsSpins
  BY <1>3 DEF RecvPixelsSpins, clientVars, client, progress, history
<1>4. CASE DrawImage
  BY <1>4 DEF DrawImage, Goto, client, progress, history
<1>5. CASE DrawImageCrashes
  <2>1. <<>> \in Seq(Unit)
    OBVIOUS
  <2> QED
    BY <1>5, <2>1 DEF DrawImageCrashes, Close, client, progress, history
<1> QED
  BY <1>1, <1>2, <1>3, <1>4, <1>5

-----------------------------------------------------------------------------

(***************************************************************************)
(* The client as a reader of the stream.                                   *)
(***************************************************************************)

\* Where a capture reads.
Receiving == {"recv_type", "recv_update", "recv_rectangle", "recv_pixels", "recv_colour_map",
              "recv_colour", "recv_cut_text", "recv_text"}

Receive ==
  \/ RecvServerToClientMessage \/ RecvFrameBufferUpdate \/ RecvRectangle \/ RecvPixels
  \/ RecvSetColourMapEntries \/ RecvColour \/ RecvServerCutText \/ RecvText

\* The place where a client stands that is to do this next, in the middle of the update of
\* this number, or after it.
Standing(l, more, pixels, drawn, count) ==
  CASE l = "recv_type" -> Between(count - 1)
    [] l = "recv_update" -> Place("update", 0, 0, 0, count)
    [] l = "recv_rectangle" -> Place("size", more, 0, drawn, count)
    [] l = "recv_pixels" -> Place("pixels", more, pixels, drawn, count)
    [] l \in {"recv_colour_map", "recv_cut_text"} -> Place("other", 0, 0, 0, count)
    [] l \in {"recv_colour", "recv_text"} -> Items(more, count)
    [] OTHER -> Between(count)

\* The units of s take it from there to the end of a message.
Ahead(s, place, limit, size) ==
  \E c \in 0..limit : Run(Places, Steps(size, limit), s, place, Between(c))

\* What a client that does l next has received of the update of this number: all its pixels
\* are of this update or a later one, and when it draws, they fill the screen.
Received(l, type, buf, count, limit, size) ==
  /\ l \in {"recv_type", "recv_update"} => buf = <<>>
  /\ l \in {"recv_update", "recv_rectangle", "recv_pixels"} => type = 0
  /\ l \in {"recv_colour_map", "recv_colour", "recv_cut_text", "recv_text"} => type # 0
  /\ l \in {"recv_rectangle", "recv_pixels"} \/ (l = "draw" /\ type = 0) =>
       \A i \in 1..Len(buf) : buf[i] \in count..limit
  /\ l = "draw" /\ type = 0 => Len(buf) = size

\* A client on a connection that is up, before its next recv.
Poised(count, limit, size) ==
  /\ Typed /\ conn = "up" /\ ~torn /\ configured /\ pc \in Receiving
  /\ limit \in Nat /\ count \in Int
  /\ Ahead(s2c, Standing(pc, todo, want, Len(image_buf), count), limit, size)
  /\ Received(pc, message_type, image_buf, count, limit, size)

LEMMA StandingIs ==
  ASSUME NEW more, NEW pixels, NEW drawn, NEW count
  PROVE  /\ Standing("recv_type", more, pixels, drawn, count) = Between(count - 1)
         /\ Standing("recv_update", more, pixels, drawn, count) = Place("update", 0, 0, 0, count)
         /\ Standing("recv_rectangle", more, pixels, drawn, count)
              = Place("size", more, 0, drawn, count)
         /\ Standing("recv_pixels", more, pixels, drawn, count)
              = Place("pixels", more, pixels, drawn, count)
         /\ \A l \in {"recv_colour_map", "recv_cut_text"} :
              Standing(l, more, pixels, drawn, count) = Place("other", 0, 0, 0, count)
         /\ \A l \in {"recv_colour", "recv_text"} :
              Standing(l, more, pixels, drawn, count) = Items(more, count)
         /\ \A l \in {"idle", "key_down", "key_up", "pointer_down", "pointer_up", "send_request",
                      "draw", "gone", "send_format", "send_encodings"} :
              Standing(l, more, pixels, drawn, count) = Between(count)
  BY DEF Standing

\* A read on a whole stream takes all it asks for, or ends between two messages.
LEMMA WholeField ==
  ASSUME Typed, NEW max \in Nat \ {0}, NEW n \in Lengths(max), Read(n, max), conn = "up", ~torn'
  PROVE  /\ ~torn /\ n \in 1..Len(s2c) /\ s2c # <<>> /\ n <= max
         /\ s2c' = Rest(s2c, n) /\ s2c' \in Seq(Unit)
         /\ n < max => s2c' = <<>> \/ s2c'[1].head
<1>1. ~torn
  BY DEF Read, Typed
<1>2. s2c # <<>> /\ n \in 1..Least(max, Len(s2c))
  BY DEF Lengths
<1>3. n \in 0..Len(s2c) /\ n <= max /\ s2c' = Rest(s2c, n) /\ s2c' \in Seq(Unit)
  BY ReadTyped DEF Typed
<1>4. ASSUME n < max, s2c' # <<>> PROVE s2c'[1].head
  <2>1. Len(s2c) \in Nat /\ s2c \in Seq(Unit)
    BY DEF Typed
  <2>2. n < Len(s2c)
    <3> SUFFICES ASSUME n = Len(s2c) PROVE FALSE
      BY <1>3, <2>1
    <3>1. s2c' = <<>>
      BY <1>3, <2>1 DEF Rest
    <3> QED
      BY <1>4, <3>1
  <2>3. n < Least(max, Len(s2c))
    BY <1>4, <2>1, <2>2 DEF Least
  <2>4. s2c'[1] = s2c[n + 1]
    BY <1>3, <2>1, <2>2, RestTail
  <2> QED
    BY <2>3, <2>4 DEF Read
<1> QED
  BY <1>1, <1>2, <1>3, <1>4

\* Inside a message something is left, and it is not the first of the next.
LEMMA Inside ==
  ASSUME NEW size, NEW limit, NEW s \in Seq(Unit), NEW p, p.at # "type", NEW c,
         Run(Places, Steps(size, limit), s, p, Between(c))
  PROVE  s # <<>> /\ ~s[1].head
<1>1. s # <<>>
  <2>1. Between(c).at = "type"
    BY DEF Between, Place
  <2> QED
    BY <2>1, RunOfNothing
<1>2. PICK m \in Places : <<p, s[1], m>> \in Steps(size, limit)
  BY <1>1, RunHead
<1>3. Reads(size, limit, p, s[1], m)
  BY <1>2, IsStep
<1> QED
  BY <1>1, <1>3 DEF Reads

\* Fields of two units are read as a whole.
LEMMA WholePair ==
  ASSUME Typed, NEW n \in Lengths(2), Read(n, 2), conn = "up", ~torn', NEW size, NEW limit,
         NEW p, p.at \in {"update", "size", "other"}, NEW c,
         Run(Places, Steps(size, limit), s2c, p, Between(c))
  PROVE  n = 2 /\ n \in 1..Len(s2c) /\ s2c' = Rest(s2c, 2) /\ s2c' \in Seq(Unit)
<1>1. /\ n \in 1..Len(s2c) /\ s2c # <<>> /\ n <= 2 /\ s2c' = Rest(s2c, n) /\ s2c' \in Seq(Unit)
      /\ n < 2 => s2c' = <<>> \/ s2c'[1].head
  BY WholeField
<1>2. Len(s2c) \in Nat /\ s2c \in Seq(Unit)
  BY DEF Typed
<1>3. n # 1
  <2> SUFFICES ASSUME n = 1 PROVE FALSE
    OBVIOUS
  <2>1. PICK m \in Places : /\ <<p, s2c[1], m>> \in Steps(size, limit)
                            /\ Run(Places, Steps(size, limit), Tail(s2c), m, Between(c))
    BY <1>1, <1>2, RunHead
  <2>2. Reads(size, limit, p, s2c[1], m)
    BY <2>1, IsStep
  <2>3. m.at # "type"
    BY <2>2 DEF Reads, Place
  <2>4. Tail(s2c) = s2c'
    <3>1. 0 < Len(s2c) /\ 0 \in 0..Len(s2c)
      BY <1>1, <1>2
    <3>2. Rest(s2c, 0) = s2c
      BY <1>2, RestTyped
    <3>3. Tail(Rest(s2c, 0)) = Rest(s2c, 0 + 1)
      BY <1>2, <3>1, RestTail
    <3> QED
      BY <1>1, <3>2, <3>3
  <2>5. s2c' # <<>> /\ ~s2c'[1].head
    <3>1. s2c' \in Seq(Unit) /\ Run(Places, Steps(size, limit), s2c', m, Between(c))
      BY <1>1, <2>1, <2>4
    <3> QED
      BY <2>3, <3>1, Inside
  <2>6. s2c' = <<>> \/ s2c'[1].head
    BY <1>1
  <2> QED
    BY <2>5, <2>6
<1> QED
  BY <1>1, <1>2, <1>3

\* The type of a message: an update counts, anything else is an answer missed.
LEMMA TypeReceived ==
  ASSUME NEW count, NEW limit, NEW size, Poised(count, limit, size), ~torn',
         RecvServerToClientMessage
  PROVE  LET after == count - (missed' - missed)
         IN  /\ pc' \in Receiving \cup {"draw"} /\ UNCHANGED spun /\ missed' \in {missed, missed + 1}
             /\ Ahead(s2c', Standing(pc', todo', want', Len(image_buf'), after), limit, size)
             /\ Received(pc', message_type', image_buf', after, limit, size)
<1>1. /\ s2c \in Seq(Unit) /\ pc = "recv_type" /\ conn = "up" /\ Typed /\ missed \in Nat
      /\ count \in Int /\ UNCHANGED image_buf /\ image_buf = <<>>
  BY DEF Poised, Typed, RecvServerToClientMessage, client, Received
<1>2. PICK n \in Lengths(1) :
        /\ Read(n, 1)
        /\ message_type' = Field(n, 1)
        /\ missed' = missed + (IF Field(n, 1) = 0 THEN 0 ELSE 1)
        /\ IF Field(n, 1) \in 0..3 THEN Goto(Handler(Field(n, 1))) ELSE Fail
  BY <1>1 DEF RecvServerToClientMessage, RecvError
<1>3. n = 1 /\ s2c # <<>> /\ s2c' = Rest(s2c, 1)
  BY <1>1, <1>2, WholeField
<1>4. Rest(s2c, 1) = Tail(s2c)
  <2>1. Len(s2c) \in Nat /\ 0 < Len(s2c)
    BY <1>1, <1>3, EmptySeq
  <2>2. Rest(s2c, 0) = s2c
    BY <1>1, <2>1, RestTyped
  <2> QED
    BY <1>1, <2>1, <2>2, RestTail
<1> DEFINE k == count - 1
           v == s2c[1].v
<1>5. PICK c \in 0..limit : Run(Places, Steps(size, limit), s2c, Between(k), Between(c))
  BY <1>1, StandingIs DEF Poised, Ahead
<1>6. /\ v \in 0..3
      /\ Run(Places, Steps(size, limit), Tail(s2c),
             IF v = 0 THEN Place("update", 0, 0, 0, k + 1)
             ELSE IF v = 2 THEN Between(k) ELSE Place("other", 0, 0, 0, k), Between(c))
  BY <1>1, <1>3, <1>5, AtType
<1>7. Field(n, 1) = v
  BY <1>3 DEF Field
<1>8. /\ message_type' = v /\ pc' = Handler(v) /\ missed' = missed + (IF v = 0 THEN 0 ELSE 1)
      /\ UNCHANGED spun
  BY <1>2, <1>6, <1>7 DEF Goto
<1> HIDE DEF v
<1> DEFINE after == count - (missed' - missed)
<1>9. CASE v = 0
  <2>1. pc' = "recv_update" /\ missed' = missed
    BY <1>1, <1>8, <1>9 DEF Handler
  <2>2. k + 1 = after
    BY <1>1, <2>1
  <2>3. Run(Places, Steps(size, limit), Tail(s2c), Place("update", 0, 0, 0, k + 1), Between(c))
    BY <1>6, <1>9
  <2> HIDE DEF k, after
  <2>4. Standing(pc', todo', want', Len(image_buf'), after) = Place("update", 0, 0, 0, after)
    BY <2>1, StandingIs
  <2>5. Ahead(s2c', Standing(pc', todo', want', Len(image_buf'), after), limit, size)
    BY <1>3, <1>4, <2>2, <2>3, <2>4 DEF Ahead
  <2>6. Received(pc', message_type', image_buf', after, limit, size)
    BY <1>1, <1>8, <1>9, <2>1 DEF Received
  <2> QED
    BY <1>8, <2>1, <2>5, <2>6 DEF Receiving, after
<1>10. CASE v = 2
  <2>1. pc' = "draw" /\ missed' = missed + 1
    BY <1>1, <1>8, <1>10 DEF Handler
  <2>2. k = after
    BY <1>1, <2>1
  <2>3. Run(Places, Steps(size, limit), Tail(s2c), Between(k), Between(c))
    BY <1>6, <1>10
  <2> HIDE DEF k, after
  <2>4. Standing(pc', todo', want', Len(image_buf'), after) = Between(after)
    BY <2>1, StandingIs
  <2>5. Ahead(s2c', Standing(pc', todo', want', Len(image_buf'), after), limit, size)
    BY <1>3, <1>4, <2>2, <2>3, <2>4 DEF Ahead
  <2>6. Received(pc', message_type', image_buf', after, limit, size)
    BY <1>1, <1>8, <1>10, <2>1 DEF Received
  <2> QED
    BY <1>8, <2>1, <2>5, <2>6 DEF after
<1>11. CASE v \in {1, 3}
  <2>1. pc' \in {"recv_colour_map", "recv_cut_text"} /\ missed' = missed + 1
    BY <1>1, <1>8, <1>11 DEF Handler
  <2>2. k = after
    BY <1>1, <2>1
  <2>3. Run(Places, Steps(size, limit), Tail(s2c), Place("other", 0, 0, 0, k), Between(c))
    BY <1>6, <1>11
  <2> HIDE DEF k, after
  <2>4. Standing(pc', todo', want', Len(image_buf'), after) = Place("other", 0, 0, 0, after)
    BY <2>1, StandingIs
  <2>5. Ahead(s2c', Standing(pc', todo', want', Len(image_buf'), after), limit, size)
    BY <1>3, <1>4, <2>2, <2>3, <2>4 DEF Ahead
  <2>6. Received(pc', message_type', image_buf', after, limit, size)
    BY <1>1, <1>8, <1>11, <2>1 DEF Received
  <2> QED
    BY <1>8, <2>1, <2>5, <2>6 DEF Receiving, after
<1> QED
  BY <1>6, <1>9, <1>10, <1>11

\* The other steps of a capture stay in the update they are in.  What is left to show of
\* them is that the reader arrives.
LEMMA StillReceived ==
  ASSUME NEW count \in Int, NEW limit, NEW size, missed \in Nat, UNCHANGED <<missed, spun>>,
         pc' \in Receiving \cup {"draw"},
         Ahead(s2c', Standing(pc', todo', want', Len(image_buf'), count), limit, size),
         Received(pc', message_type', image_buf', count, limit, size)
  PROVE  LET after == count - (missed' - missed)
         IN  /\ pc' \in Receiving \cup {"draw"} /\ UNCHANGED spun /\ missed' \in {missed, missed + 1}
             /\ Ahead(s2c', Standing(pc', todo', want', Len(image_buf'), after), limit, size)
             /\ Received(pc', message_type', image_buf', after, limit, size)
<1>1. count - (missed' - missed) = count
  OBVIOUS
<1> QED
  BY <1>1, Zenon

\* Where the loop of recv_rectangles goes on.
LEMMA NextPlace ==
  ASSUME NEW s \in Seq(Unit), NEW limit, NEW size, NEW drawn, NEW k, NEW c, todo \in Nat \ {0},
         Run(Places, Steps(size, limit), s, Rectangles(size, todo - 1, drawn, k), Between(c)),
         NextRectangle
  PROVE  /\ pc' \in {"recv_rectangle", "draw"} /\ UNCHANGED spun
         /\ \A pixels : Rectangles(size, todo - 1, drawn, k)
                          = Standing(pc', todo', pixels, drawn, k)
         /\ pc' = "draw" => drawn = size
<1>1. CASE todo > 1
  <2>1. pc' = "recv_rectangle" /\ todo' = todo - 1 /\ todo - 1 # 0 /\ UNCHANGED spun
    BY <1>1 DEF NextRectangle, Goto
  <2>2. Rectangles(size, todo - 1, drawn, k) = Place("size", todo - 1, 0, drawn, k)
    BY <2>1 DEF Rectangles
  <2> QED
    BY <2>1, <2>2, StandingIs
<1>2. CASE ~(todo > 1)
  <2>1. pc' = "draw" /\ todo - 1 = 0 /\ UNCHANGED spun
    BY <1>2 DEF NextRectangle, Goto
  <2>2. drawn = size /\ Rectangles(size, 0, drawn, k) = Between(k)
    BY <2>1, UpdateOver
  <2> QED
    BY <2>1, <2>2, StandingIs
<1> QED
  BY <1>1, <1>2

\* An update without rectangles is one of an empty screen.
LEMMA UpdateReceived ==
  ASSUME NEW count, NEW limit, NEW size, Poised(count, limit, size), ~torn',
         RecvFrameBufferUpdate
  PROVE  LET after == count - (missed' - missed)
         IN  /\ pc' \in Receiving \cup {"draw"} /\ UNCHANGED spun /\ missed' \in {missed, missed + 1}
             /\ Ahead(s2c', Standing(pc', todo', want', Len(image_buf'), after), limit, size)
             /\ Received(pc', message_type', image_buf', after, limit, size)
<1>1. /\ s2c \in Seq(Unit) /\ pc = "recv_update" /\ conn = "up" /\ Typed /\ missed \in Nat
      /\ count \in Int /\ UNCHANGED <<image_buf, missed, message_type>> /\ image_buf = <<>>
      /\ message_type = 0
  BY DEF Poised, Typed, RecvFrameBufferUpdate, RecvHeader, client, history, Received
<1>2. PICK n \in Lengths(2) :
        Read(n, 2) /\ todo' = Field(n, 2)
        /\ Goto(IF Field(n, 2) > 0 THEN "recv_rectangle" ELSE "draw")
  BY <1>1 DEF RecvFrameBufferUpdate, RecvHeader, RecvError
<1>3. PICK c \in 0..limit :
        Run(Places, Steps(size, limit), s2c, Place("update", 0, 0, 0, count), Between(c))
  BY <1>1, StandingIs DEF Poised, Ahead
<1>4. n = 2 /\ n \in 1..Len(s2c) /\ s2c' = Rest(s2c, 2) /\ s2c' \in Seq(Unit)
  <2>1. Place("update", 0, 0, 0, count).at = "update"
    BY DEF Place
  <2> QED
    BY <1>1, <1>2, <1>3, <2>1, WholePair
<1> DEFINE v == s2c[2].v
<1>5. Run(Places, Steps(size, limit), s2c', Rectangles(size, v, 0, count), Between(c))
  BY <1>1, <1>3, <1>4, AtUpdate
<1>6. v \in Nat
  BY <1>1, <1>2, <1>4, ReadTyped DEF Typed, Field
<1>7. todo' = v /\ pc' = (IF v > 0 THEN "recv_rectangle" ELSE "draw") /\ UNCHANGED spun
  BY <1>2, <1>4 DEF Goto, Field
<1> HIDE DEF v
<1>8. image_buf' = <<>> /\ Len(image_buf') = 0 /\ message_type' = 0
  BY <1>1
<1>9. CASE v > 0
  <2>1. pc' = "recv_rectangle" /\ v # 0
    BY <1>6, <1>7, <1>9
  <2>2. Standing(pc', todo', want', Len(image_buf'), count) = Place("size", v, 0, 0, count)
    BY <1>7, <1>8, <2>1, StandingIs
  <2>3. Rectangles(size, v, 0, count) = Place("size", v, 0, 0, count)
    BY <2>1 DEF Rectangles
  <2>4. Ahead(s2c', Standing(pc', todo', want', Len(image_buf'), count), limit, size)
    BY <1>5, <2>2, <2>3 DEF Ahead
  <2>5. Received(pc', message_type', image_buf', count, limit, size)
    BY <1>8, <2>1 DEF Received
  <2> QED
    BY <1>1, <1>7, <2>1, <2>4, <2>5, StillReceived DEF Receiving
<1>10. CASE ~(v > 0)
  <2>1. pc' = "draw" /\ v = 0
    BY <1>6, <1>7, <1>10
  <2>2. Standing(pc', todo', want', Len(image_buf'), count) = Between(count)
    BY <2>1, StandingIs
  <2>3. 0 = size /\ Rectangles(size, 0, 0, count) = Between(count)
    BY <1>4, <1>5, <2>1, UpdateOver
  <2>4. Ahead(s2c', Standing(pc', todo', want', Len(image_buf'), count), limit, size)
    BY <1>5, <2>1, <2>2, <2>3 DEF Ahead
  <2>5. Received(pc', message_type', image_buf', count, limit, size)
    BY <1>8, <2>1, <2>3 DEF Received
  <2> QED
    BY <1>1, <1>7, <2>1, <2>4, <2>5, StillReceived
<1> QED
  BY <1>9, <1>10

LEMMA RectangleReceived ==
  ASSUME NEW count, NEW limit, NEW size, Poised(count, limit, size), ~torn', RecvRectangle
  PROVE  LET after == count - (missed' - missed)
         IN  /\ pc' \in Receiving \cup {"draw"} /\ UNCHANGED spun /\ missed' \in {missed, missed + 1}
             /\ Ahead(s2c', Standing(pc', todo', want', Len(image_buf'), after), limit, size)
             /\ Received(pc', message_type', image_buf', after, limit, size)
<1>1. /\ s2c \in Seq(Unit) /\ pc = "recv_rectangle" /\ conn = "up" /\ Typed /\ missed \in Nat
      /\ count \in Int /\ UNCHANGED <<image_buf, missed, message_type>> /\ configured
      /\ message_type = 0 /\ todo \in Nat \ {0} /\ Len(image_buf) \in Nat
      /\ \A i \in 1..Len(image_buf) : image_buf[i] \in count..limit
  BY DEF Poised, Typed, RecvRectangle, client, history, Received
<1>2. PICK n \in Lengths(2) :
        /\ Read(n, 2)
        /\ want' = IF configured THEN Field(n, 1) ELSE 0
        /\ IF Field(n, 2) # 0        THEN Fail /\ UNCHANGED todo
           ELSE IF want' > 0         THEN Goto("recv_pixels") /\ UNCHANGED todo
           ELSE NextRectangle
  BY <1>1 DEF RecvRectangle, RecvError
<1> DEFINE v == s2c[1].v
           drawn == Len(image_buf)
<1>3. PICK c \in 0..limit :
        Run(Places, Steps(size, limit), s2c, Place("size", todo, 0, drawn, count), Between(c))
  BY <1>1, StandingIs DEF Poised, Ahead
<1>4. n = 2 /\ n \in 1..Len(s2c) /\ s2c' = Rest(s2c, 2) /\ s2c' \in Seq(Unit)
  <2>1. Place("size", todo, 0, drawn, count).at = "size"
    BY DEF Place
  <2> QED
    BY <1>1, <1>2, <1>3, <2>1, WholePair
<1>5. /\ s2c[2].v = 0
      /\ Run(Places, Steps(size, limit), s2c', Pixels(size, todo, v, drawn, count), Between(c))
  BY <1>1, <1>4, <1>3, AtSize
<1>6. v \in Nat
  BY <1>1, <1>2, <1>4, ReadTyped DEF Typed, Field
<1>7. want' = v /\ IF v > 0 THEN Goto("recv_pixels") /\ UNCHANGED todo ELSE NextRectangle
  BY <1>1, <1>2, <1>4, <1>5 DEF Field
<1>8. /\ Len(image_buf') = drawn /\ message_type' = 0
      /\ \A i \in 1..Len(image_buf') : image_buf'[i] \in count..limit
  BY <1>1
<1> HIDE DEF v, drawn
<1>9. CASE v > 0
  <2>1. pc' = "recv_pixels" /\ todo' = todo /\ UNCHANGED spun
    BY <1>7, <1>9 DEF Goto
  <2>2. Standing(pc', todo', want', Len(image_buf'), count) = Place("pixels", todo, v, drawn, count)
    BY <1>7, <1>8, <2>1, StandingIs
  <2>3. Pixels(size, todo, v, drawn, count) = Place("pixels", todo, v, drawn, count)
    BY <1>9 DEF Pixels
  <2>4. Ahead(s2c', Standing(pc', todo', want', Len(image_buf'), count), limit, size)
    BY <1>5, <2>2, <2>3 DEF Ahead
  <2>5. Received(pc', message_type', image_buf', count, limit, size)
    BY <1>8, <2>1 DEF Received
  <2> QED
    BY <1>1, <2>1, <2>4, <2>5, StillReceived DEF Receiving
<1>10. CASE ~(v > 0)
  <2>1. NextRectangle
        /\ Pixels(size, todo, v, drawn, count) = Rectangles(size, todo - 1, drawn, count)
    BY <1>7, <1>10 DEF Pixels
  <2>2. /\ pc' \in {"recv_rectangle", "draw"} /\ (pc' = "draw" => drawn = size) /\ UNCHANGED spun
        /\ Rectangles(size, todo - 1, drawn, count) = Standing(pc', todo', want', drawn, count)
    BY <1>1, <1>4, <1>5, <2>1, NextPlace
  <2>3. Ahead(s2c', Standing(pc', todo', want', Len(image_buf'), count), limit, size)
    BY <1>5, <1>8, <2>1, <2>2 DEF Ahead
  <2>4. Received(pc', message_type', image_buf', count, limit, size)
    BY <1>8, <2>2 DEF Received
  <2> QED
    BY <1>1, <2>2, <2>3, <2>4, StillReceived DEF Receiving
<1> QED
  BY <1>9, <1>10

LEMMA PixelsReceived ==
  ASSUME NEW count, NEW limit, NEW size, Poised(count, limit, size), ~torn', RecvPixels
  PROVE  LET after == count - (missed' - missed)
         IN  /\ pc' \in Receiving \cup {"draw"} /\ UNCHANGED spun /\ missed' \in {missed, missed + 1}
             /\ Ahead(s2c', Standing(pc', todo', want', Len(image_buf'), after), limit, size)
             /\ Received(pc', message_type', image_buf', after, limit, size)
<1>1. /\ s2c \in Seq(Unit) /\ pc = "recv_pixels" /\ conn = "up" /\ Typed /\ missed \in Nat
      /\ count \in Int /\ limit \in Nat /\ UNCHANGED <<missed, message_type>> /\ message_type = 0
      /\ todo \in Nat \ {0} /\ want \in Nat \ {0}
      /\ image_buf \in Seq(Nat) /\ Len(image_buf) \in Nat
      /\ \A i \in 1..Len(image_buf) : image_buf[i] \in count..limit
  BY DEF Poised, Typed, RecvPixels, history, Received
<1>2. PICK n \in Lengths(want) \ {0} :
        /\ s2c' = Rest(s2c, n)
        /\ image_buf' = image_buf \o [i \in 1..n |-> s2c[i].v]
        /\ want' = want - n
        /\ IF n < want THEN UNCHANGED <<pc, spun, todo>> ELSE NextRectangle
  <2>1. PICK n \in Lengths(want) \ {0} : TakePixels(n, n) \/ TakePixels(n, n - 1)
    BY <1>1 DEF RecvPixels, RecvError
  <2>2. n \in Int
    BY <1>1, <2>1 DEF Lengths, Least
  <2>3. ~TakePixels(n, n - 1)
    <3> SUFFICES ASSUME TakePixels(n, n - 1) PROVE FALSE
      OBVIOUS
    <3>1. n - 1 < n
      BY <2>2
    <3>2. torn' = (torn \/ n - 1 < n)
      BY DEF TakePixels
    <3> QED
      BY <3>1, <3>2
  <2> QED
    BY <2>1, <2>3 DEF TakePixels, Rest
<1>3. n \in 1..Len(s2c) /\ n <= want /\ s2c' = Rest(s2c, n) /\ s2c' \in Seq(Unit)
  <2>1. Len(s2c) \in Nat
    BY <1>1
  <2>2. n \in 1..Len(s2c) /\ n <= want
    BY <1>1, <1>2, <2>1 DEF Lengths, Least
  <2> QED
    BY <1>1, <1>2, <2>1, <2>2, RestTyped
<1> DEFINE drawn == Len(image_buf)
           new == [i \in 1..n |-> s2c[i].v]
<1>4. PICK c \in 0..limit :
        Run(Places, Steps(size, limit), s2c, Place("pixels", todo, want, drawn, count), Between(c))
  BY <1>1, StandingIs DEF Poised, Ahead
<1>5. n \in 0..want /\ n <= Len(s2c) /\ n > 0 /\ n \in Nat /\ want - n \in Nat
  BY <1>1, <1>3
<1>6. /\ \A i \in 1..n : s2c[i].v \in count..limit
      /\ Run(Places, Steps(size, limit), s2c', Pixels(size, todo, want - n, drawn + n, count),
             Between(c))
  BY <1>1, <1>3, <1>4, <1>5, AtPixels
<1>7. /\ new \in Seq(Nat) /\ Len(new) = n /\ \A i \in 1..n : new[i] = s2c[i].v
  <2>1. ASSUME NEW i \in 1..n PROVE s2c[i].v \in Nat
    <3>1. s2c[i] \in Unit
      BY <1>1, <1>3, <1>5, ElementOfSeq
    <3> QED
      BY <3>1 DEF Unit
  <2> QED
    BY <1>5, <2>1, IsASeq
<1>8. image_buf' = image_buf \o new /\ want' = want - n
  BY <1>2
<1> HIDE DEF new
<1>9. /\ Len(image_buf') = drawn + n
      /\ \A i \in 1..drawn + n :
           image_buf'[i] = IF i <= drawn THEN image_buf[i] ELSE new[i - drawn]
  BY <1>1, <1>7, <1>8, ConcatProperties
<1>10. ASSUME NEW i \in 1..Len(image_buf') PROVE image_buf'[i] \in count..limit
  <2>1. CASE i <= drawn
    BY <1>1, <1>5, <1>9, <2>1
  <2>2. CASE ~(i <= drawn)
    <3>1. i - drawn \in 1..n /\ image_buf'[i] = new[i - drawn]
      BY <1>1, <1>5, <1>9, <2>2
    <3> QED
      BY <1>6, <1>7, <3>1
  <2> QED
    BY <2>1, <2>2
<1> HIDE DEF drawn
<1>11. CASE n < want
  <2>1. pc' = "recv_pixels" /\ todo' = todo /\ want - n > 0 /\ UNCHANGED spun
    BY <1>1, <1>2, <1>5, <1>11
  <2>2. Standing(pc', todo', want', Len(image_buf'), count)
          = Place("pixels", todo, want - n, drawn + n, count)
    BY <1>8, <1>9, <2>1, StandingIs
  <2>3. Pixels(size, todo, want - n, drawn + n, count)
          = Place("pixels", todo, want - n, drawn + n, count)
    BY <2>1 DEF Pixels
  <2>4. Ahead(s2c', Standing(pc', todo', want', Len(image_buf'), count), limit, size)
    BY <1>6, <2>2, <2>3 DEF Ahead
  <2>5. Received(pc', message_type', image_buf', count, limit, size)
    BY <1>1, <1>10, <2>1 DEF Received
  <2> QED
    BY <1>1, <2>1, <2>4, <2>5, StillReceived DEF Receiving
<1>12. CASE ~(n < want)
  <2>1. NextRectangle /\ want - n = 0
    BY <1>1, <1>2, <1>5, <1>12
  <2>2. Pixels(size, todo, want - n, drawn + n, count)
          = Rectangles(size, todo - 1, drawn + n, count)
    BY <2>1 DEF Pixels
  <2>3. /\ pc' \in {"recv_rectangle", "draw"} /\ (pc' = "draw" => drawn + n = size) /\ UNCHANGED spun
        /\ Rectangles(size, todo - 1, drawn + n, count)
             = Standing(pc', todo', want', drawn + n, count)
    BY <1>1, <1>3, <1>6, <2>1, <2>2, NextPlace
  <2>4. Ahead(s2c', Standing(pc', todo', want', Len(image_buf'), count), limit, size)
    BY <1>6, <1>9, <2>2, <2>3 DEF Ahead
  <2>5. Received(pc', message_type', image_buf', count, limit, size)
    BY <1>1, <1>9, <1>10, <2>3 DEF Received
  <2> QED
    BY <1>1, <2>3, <2>4, <2>5, StillReceived DEF Receiving
<1> QED
  BY <1>11, <1>12

\* The header of a colour map or of a text.
LEMMA HeaderReceived ==
  ASSUME NEW count, NEW limit, NEW size, Poised(count, limit, size), ~torn',
         RecvSetColourMapEntries \/ RecvServerCutText
  PROVE  LET after == count - (missed' - missed)
         IN  /\ pc' \in Receiving \cup {"draw"} /\ UNCHANGED spun /\ missed' \in {missed, missed + 1}
             /\ Ahead(s2c', Standing(pc', todo', want', Len(image_buf'), after), limit, size)
             /\ Received(pc', message_type', image_buf', after, limit, size)
<1> DEFINE none == IF pc = "recv_colour_map" THEN "draw" ELSE "recv_text"
           more == IF pc = "recv_colour_map" THEN "recv_colour" ELSE "recv_text"
<1>1. RecvHeader(pc, more, none) /\ pc \in {"recv_colour_map", "recv_cut_text"}
  BY DEF RecvSetColourMapEntries, RecvServerCutText, RecvHeader
<1>2. /\ s2c \in Seq(Unit) /\ conn = "up" /\ Typed /\ missed \in Nat
      /\ count \in Int /\ UNCHANGED <<image_buf, missed, message_type>> /\ message_type # 0
  BY <1>1 DEF Poised, Typed, RecvHeader, client, history, Received
<1>3. PICK n \in Lengths(2) :
        Read(n, 2) /\ todo' = Field(n, 2) /\ Goto(IF Field(n, 2) > 0 THEN more ELSE none)
  BY <1>1, <1>2 DEF RecvHeader, RecvError
<1>4. PICK c \in 0..limit :
        Run(Places, Steps(size, limit), s2c, Place("other", 0, 0, 0, count), Between(c))
  BY <1>1, StandingIs DEF Poised, Ahead
<1>5. n = 2 /\ n \in 1..Len(s2c) /\ s2c' = Rest(s2c, 2)
  <2>1. Place("other", 0, 0, 0, count).at = "other"
    BY DEF Place
  <2> QED
    BY <1>2, <1>3, <1>4, <2>1, WholePair
<1> DEFINE v == s2c[2].v
<1>6. Run(Places, Steps(size, limit), s2c', Items(v, count), Between(c))
  BY <1>2, <1>4, <1>5, AtOther
<1>7. todo' = v /\ pc' = (IF v > 0 THEN more ELSE none) /\ UNCHANGED spun
  BY <1>3, <1>5 DEF Goto, Field
<1> HIDE DEF v
<1>8. pc' \in {"recv_colour", "recv_text"} \/ (pc' = "draw" /\ ~(v > 0))
  BY <1>7
<1>9. Standing(pc', todo', want', Len(image_buf'), count) = Items(v, count)
  <2>1. CASE pc' \in {"recv_colour", "recv_text"}
    BY <1>7, <2>1, StandingIs
  <2>2. CASE pc' = "draw" /\ ~(v > 0)
    <3>1. Standing(pc', todo', want', Len(image_buf'), count) = Between(count)
      BY <2>2, StandingIs
    <3> QED
      BY <2>2, <3>1 DEF Items
  <2> QED
    BY <1>8, <2>1, <2>2
<1>10. Ahead(s2c', Standing(pc', todo', want', Len(image_buf'), count), limit, size)
  BY <1>6, <1>9 DEF Ahead
<1>11. Received(pc', message_type', image_buf', count, limit, size)
  BY <1>2, <1>8 DEF Received
<1> QED
  BY <1>2, <1>7, <1>8, <1>10, <1>11, StillReceived DEF Receiving

\* What a colour map or a text holds.
LEMMA ItemsReceived ==
  ASSUME NEW count, NEW limit, NEW size, Poised(count, limit, size), ~torn',
         RecvColour \/ RecvText
  PROVE  LET after == count - (missed' - missed)
         IN  /\ pc' \in Receiving \cup {"draw"} /\ UNCHANGED spun /\ missed' \in {missed, missed + 1}
             /\ Ahead(s2c', Standing(pc', todo', want', Len(image_buf'), after), limit, size)
             /\ Received(pc', message_type', image_buf', after, limit, size)
<1>1. /\ s2c \in Seq(Unit) /\ conn = "up" /\ Typed /\ missed \in Nat /\ count \in Int
      /\ UNCHANGED <<image_buf, missed, message_type>> /\ message_type # 0
      /\ pc \in {"recv_colour", "recv_text"} /\ todo \in Nat
  BY DEF Poised, Typed, RecvColour, RecvText, client, progress, history, Received
<1>2. PICK c \in 0..limit : Run(Places, Steps(size, limit), s2c, Items(todo, count), Between(c))
  BY <1>1, StandingIs DEF Poised, Ahead
<1> SUFFICES /\ pc' \in {"recv_colour", "draw"} /\ UNCHANGED spun
             /\ Ahead(s2c', Standing(pc', todo', want', Len(image_buf'), count), limit, size)
  <2>1. ASSUME pc' \in {"recv_colour", "draw"}
        PROVE  Received(pc', message_type', image_buf', count, limit, size)
    BY <1>1, <2>1 DEF Received
  <2> QED
    BY <1>1, <2>1, StillReceived DEF Receiving
<1>3. CASE RecvColour
  <2>1. todo > 0 /\ pc = "recv_colour"
    BY <1>1, <1>3 DEF Typed, RecvColour
  <2>2. PICK n \in Lengths(1) :
          /\ Read(n, 1)
          /\ todo' = todo - 1
          /\ Goto(IF todo > 1 THEN "recv_colour" ELSE "draw")
    BY <1>1, <1>3 DEF RecvColour, RecvError
  <2>3. n = 1 /\ n \in 1..Len(s2c) /\ s2c' = Rest(s2c, 1)
    BY <1>1, <2>2, WholeField
  <2>4. 1 \in 0..todo /\ 1 <= Len(s2c)
    BY <1>1, <2>1, <2>3
  <2>5. Run(Places, Steps(size, limit), s2c', Items(todo - 1, count), Between(c))
    BY <1>1, <1>2, <2>3, <2>4, AtItems
  <2>6. Standing(pc', todo', want', Len(image_buf'), count) = Items(todo - 1, count)
    <3>1. CASE todo > 1
      <4>1. pc' = "recv_colour"
        BY <2>2, <3>1 DEF Goto
      <4> QED
        BY <2>2, <4>1, StandingIs
    <3>2. CASE ~(todo > 1)
      <4>1. pc' = "draw" /\ ~(todo - 1 > 0)
        BY <1>1, <2>2, <3>2 DEF Goto
      <4>2. Standing(pc', todo', want', Len(image_buf'), count) = Between(count)
        BY <4>1, StandingIs
      <4> QED
        BY <4>1, <4>2 DEF Items
    <3> QED
      BY <3>1, <3>2
  <2>7. Ahead(s2c', Standing(pc', todo', want', Len(image_buf'), count), limit, size)
    BY <2>5, <2>6 DEF Ahead
  <2>8. pc' \in {"recv_colour", "draw"} /\ UNCHANGED spun
    BY <2>2 DEF Goto
  <2> QED
    BY <2>7, <2>8
<1>4. CASE RecvText
  <2>1. PICK n \in Lengths(todo) : Read(n, todo) /\ Goto("draw")
    BY <1>1, <1>4 DEF RecvText, RecvError
  <2>2. s2c' = Rest(s2c, todo) /\ todo <= Len(s2c)
    <3>1. CASE todo = 0
      <4>1. n = 0
        BY <2>1, <3>1 DEF Lengths
      <4>2. s2c' = Rest(s2c, n)
        BY <1>1, <2>1, ReadTyped DEF Typed
      <4> QED
        BY <1>1, <3>1, <4>1, <4>2
    <3>2. CASE todo # 0
      <4>1. /\ n \in 1..Len(s2c) /\ n <= todo /\ s2c' = Rest(s2c, n) /\ s2c' \in Seq(Unit)
            /\ n < todo => s2c' = <<>> \/ s2c'[1].head
        BY <1>1, <2>1, <3>2, WholeField
      <4>2. n = todo
        <5> SUFFICES ASSUME n < todo PROVE FALSE
          BY <1>1, <4>1
        <5>1. n \in 0..todo /\ n <= Len(s2c) /\ todo - n > 0
          BY <1>1, <4>1
        <5>2. Run(Places, Steps(size, limit), s2c', Items(todo - n, count), Between(c))
          BY <1>1, <1>2, <4>1, <5>1, AtItems
        <5>3. Items(todo - n, count).at = "item"
          BY <5>1 DEF Items, Place
        <5> QED
          BY <4>1, <5>2, <5>3, Inside
      <4> QED
        BY <1>1, <4>1, <4>2
    <3> QED
      BY <3>1, <3>2
  <2>3. todo \in 0..todo /\ todo - todo = 0
    BY <1>1
  <2>4. Run(Places, Steps(size, limit), s2c', Items(0, count), Between(c))
    BY <1>1, <1>2, <2>2, <2>3, AtItems
  <2>5. pc' = "draw" /\ Items(0, count) = Between(count) /\ UNCHANGED spun
    BY <2>1 DEF Goto, Items
  <2>6. Standing(pc', todo', want', Len(image_buf'), count) = Between(count)
    BY <2>5, StandingIs
  <2>7. Ahead(s2c', Standing(pc', todo', want', Len(image_buf'), count), limit, size)
    BY <2>4, <2>5, <2>6 DEF Ahead
  <2> QED
    BY <2>5, <2>7
<1> QED
  BY <1>3, <1>4

\* Every step of a capture that reads a whole field leaves the client where it can read on,
\* until it draws.
LEMMA Receives ==
  ASSUME NEW count, NEW limit, NEW size, Poised(count, limit, size), ~torn', Receive
  PROVE  LET after == count - (missed' - missed)
         IN  /\ pc' \in Receiving \cup {"draw"} /\ UNCHANGED spun /\ missed' \in {missed, missed + 1}
             /\ Ahead(s2c', Standing(pc', todo', want', Len(image_buf'), after), limit, size)
             /\ Received(pc', message_type', image_buf', after, limit, size)
  BY TypeReceived, UpdateReceived, RectangleReceived, PixelsReceived, HeaderReceived,
     ItemsReceived, Zenon
  DEF Receive

-----------------------------------------------------------------------------

(***************************************************************************)
(* What the server adds behind what waits already.                         *)
(***************************************************************************)

LEMMA MessageAhead ==
  ASSUME NEW size \in Nat, NEW limit \in Nat, NEW more \in Nat, limit <= more,
         NEW s \in Seq(Unit), NEW p, NEW c, NEW d \in 0..more, NEW message \in Seq(Unit),
         Run(Places, Steps(size, limit), s, p, Between(c)),
         Run(Places, Steps(size, more), message, Between(c), Between(d))
  PROVE  Ahead(s \o message, p, more, size)
<1>1. Steps(size, limit) \subseteq Steps(size, more)
  BY StepsWiden
<1>2. Run(Places, Steps(size, more), s, p, Between(c))
  BY <1>1, RunWiden
<1>3. Run(Places, Steps(size, more), s \o message, p, Between(d))
  BY <1>2, RunJoin
<1> QED
  BY <1>3 DEF Ahead

LEMMA NewsAhead ==
  ASSUME NEW size \in Nat, NEW limit \in Nat, NEW s \in Seq(Unit), NEW p,
         Ahead(s, p, limit, size), NEW colours, colours \subseteq Nat, NEW texts,
         texts \subseteq Nat, NEW units \in News(colours, texts)
  PROVE  Ahead(s \o Message(units), p, limit, size)
<1>1. PICK c \in 0..limit : Run(Places, Steps(size, limit), s, p, Between(c))
  BY DEF Ahead
<1>2. c \in Nat /\ limit <= limit
  OBVIOUS
<1>3. /\ Message(units) \in Seq(Unit)
      /\ Run(Places, Steps(size, limit), Message(units), Between(c), Between(c))
  BY <1>2, NewsRun
<1> QED
  BY <1>1, <1>2, <1>3, MessageAhead

LEMMA UpdateAhead ==
  ASSUME NEW size \in Nat, NEW limit \in Nat, NEW more \in Nat, limit < more,
         NEW s \in Seq(Unit), NEW p, Ahead(s, p, limit, size),
         NEW split \in Seq(Nat), Covers(split, size)
  PROVE  Ahead(s \o Message(Update(split, more)), p, more, size)
<1>1. PICK c \in 0..limit : Run(Places, Steps(size, limit), s, p, Between(c))
  BY DEF Ahead
<1>2. c \in Nat /\ limit <= more /\ more \in c + 1..more /\ c + 1 \in 0..more
  OBVIOUS
<1>3. /\ Message(Update(split, more)) \in Seq(Unit)
      /\ Run(Places, Steps(size, more), Message(Update(split, more)), Between(c), Between(c + 1))
  BY <1>2, UpdateRun
<1> QED
  BY <1>1, <1>2, <1>3, MessageAhead

\* A limit further on is no less of one.
LEMMA ReceivedMore ==
  ASSUME NEW l, NEW type, NEW buf \in Seq(Nat), NEW count \in Int, NEW limit \in Nat,
         NEW more \in Nat, limit <= more, NEW size, Received(l, type, buf, count, limit, size)
  PROVE  Received(l, type, buf, count, more, size)
<1>1. \A i : buf[i] \in count..limit => buf[i] \in count..more
  OBVIOUS
<1> QED
  BY <1>1 DEF Received

\* What a capture leaves alone.
LEMMA CaptureKeeps ==
  ASSUME Typed, spun # "no", Capture
  PROVE  /\ UNCHANGED <<spun, version, challenge, width, configured, throws>>
         /\ conn' \in {conn, "down"} /\ (torn => torn') /\ (overlong => overlong')
         /\ pc # "recv_pixels" => image_buf' \in {image_buf, <<>>}
         /\ pc' = "recv_pixels" => configured \/ pc = "recv_pixels"
<1>1. UNCHANGED spun
  BY DEF Capture, SendKeyEvent, SendPointerEvent, SendFrameBufferUpdateRequest, Send,
     RecvServerToClientMessage, RecvFrameBufferUpdate, RecvRectangle, RecvPixels,
     RecvPixelsSpins, RecvSetColourMapEntries, RecvColour, RecvServerCutText, RecvText,
     RecvTextCrashes, DrawImage, DrawImageCrashes, RecvHeader, Goto, Fail, RecvError,
     TakePixels, NextRectangle, clientVars
<1>2. UNCHANGED <<version, challenge, width, configured, throws>>
  BY DEF Capture, SendKeyEvent, SendPointerEvent, SendFrameBufferUpdateRequest, client, history,
     RecvServerToClientMessage, RecvFrameBufferUpdate, RecvRectangle, RecvPixels,
     RecvPixelsSpins, RecvSetColourMapEntries, RecvColour, RecvServerCutText, RecvText,
     RecvTextCrashes, DrawImage, DrawImageCrashes, RecvHeader, clientVars
<1>3. conn' \in {conn, "down"}
  BY DEF Capture, SendKeyEvent, SendPointerEvent, SendFrameBufferUpdateRequest, Send,
     RecvServerToClientMessage, RecvFrameBufferUpdate, RecvRectangle, RecvPixels,
     RecvPixelsSpins, RecvSetColourMapEntries, RecvColour, RecvServerCutText, RecvText,
     RecvTextCrashes, DrawImage, DrawImageCrashes, RecvHeader, clientVars, Close
<1>4. torn => torn'
  BY DEF Capture, SendKeyEvent, SendPointerEvent, SendFrameBufferUpdateRequest, Send,
     RecvServerToClientMessage, RecvFrameBufferUpdate, RecvRectangle, RecvPixels,
     RecvPixelsSpins, RecvSetColourMapEntries, RecvColour, RecvServerCutText, RecvText,
     RecvTextCrashes, DrawImage, DrawImageCrashes, RecvHeader, clientVars, Read,
     TakePixels, Close, RecvError
<1>7. overlong => overlong'
  BY DEF Capture, SendKeyEvent, SendPointerEvent, SendFrameBufferUpdateRequest, history,
     RecvServerToClientMessage, RecvFrameBufferUpdate, RecvRectangle, RecvPixels,
     RecvPixelsSpins, RecvSetColourMapEntries, RecvColour, RecvServerCutText, RecvText,
     RecvTextCrashes, DrawImage, DrawImageCrashes, RecvHeader, clientVars
<1>5. pc # "recv_pixels" => image_buf' \in {image_buf, <<>>}
  BY DEF Capture, SendKeyEvent, SendPointerEvent, SendFrameBufferUpdateRequest, client,
     RecvServerToClientMessage, RecvFrameBufferUpdate, RecvRectangle, RecvPixels,
     RecvPixelsSpins, RecvSetColourMapEntries, RecvColour, RecvServerCutText, RecvText,
     RecvTextCrashes, DrawImage, DrawImageCrashes, RecvHeader, clientVars
<1>6. pc' = "recv_pixels" => configured \/ pc = "recv_pixels"
  <2>1. \A type \in 0..3 : Handler(type) # "recv_pixels"
    BY DEF Handler
  <2> QED
    BY <2>1 DEF Capture, SendKeyEvent, SendPointerEvent, SendFrameBufferUpdateRequest, Send,
     RecvServerToClientMessage, RecvFrameBufferUpdate, RecvRectangle, RecvPixels,
     RecvPixelsSpins, RecvSetColourMapEntries, RecvColour, RecvServerCutText, RecvText,
     RecvTextCrashes, DrawImage, DrawImageCrashes, RecvHeader, Goto, Fail, RecvError,
     TakePixels, NextRectangle, Close
<1> QED
  BY <1>1, <1>2, <1>3, <1>4, <1>5, <1>6, <1>7

-----------------------------------------------------------------------------

(***************************************************************************)
(* The requests under way.                                                 *)
(***************************************************************************)

\* What a client sends, and how many requests have been sent when it has.
ClientMsg ==
  [kind : {"version", "type", "response", "init", "format", "encodings", "request", "down", "up"},
   val : {<<>>} \cup (Nat \X Nat)]

Counting ==
  {t \in Nat \X ClientMsg \X Nat : t[1] + (IF t[2].kind = "request" THEN 1 ELSE 0) <= t[3]}

\* Of the requests sent, as many as are told are read or among these messages.
Told(told, msgs, sent) ==
  /\ msgs \in Seq(ClientMsg)
  /\ \E a, n \in 0..sent : told <= a /\ Run(0..sent, Counting, msgs, a, n)

\* The connection is new, or gone and what was under way with it.
LEMMA ToldNothing ==
  ASSUME NEW sent \in Nat, NEW told \in 0..sent
  PROVE  Told(told, <<>>, sent)
<1>1. Run(0..sent, Counting, <<>>, told, told)
  BY RunEmpty
<1>2. <<>> \in Seq(ClientMsg) /\ told <= told
  OBVIOUS
<1> QED
  BY <1>1, <1>2 DEF Told

\* No more is told than was sent.
LEMMA ToldBound ==
  ASSUME NEW sent \in Nat, NEW told \in Nat, NEW msgs, Told(told, msgs, sent)
  PROVE  told \in 0..sent
  BY DEF Told

\* More requests were sent, the same messages wait.
LEMMA ToldMore ==
  ASSUME NEW sent \in Nat, NEW more \in Nat, sent <= more, NEW told, NEW msgs,
         Told(told, msgs, sent)
  PROVE  Told(told, msgs, more)
<1>1. PICK a \in 0..sent, n \in 0..sent : told <= a /\ Run(0..sent, Counting, msgs, a, n)
  BY DEF Told
<1>2. 0..sent \subseteq 0..more
  OBVIOUS
<1>3. Run(0..more, Counting, msgs, a, n)
  BY <1>1, <1>2, RunWiden
<1> QED
  BY <1>1, <1>2, <1>3 DEF Told

LEMMA ToldAppend ==
  ASSUME NEW sent \in Nat, NEW more \in Nat, NEW told, NEW msgs, Told(told, msgs, sent),
         NEW msg \in ClientMsg, sent + (IF msg.kind = "request" THEN 1 ELSE 0) <= more
  PROVE  Told(told, Append(msgs, msg), more)
<1>1. PICK a \in 0..sent, n \in 0..sent : told <= a /\ Run(0..sent, Counting, msgs, a, n)
  BY DEF Told
<1> DEFINE m == n + (IF msg.kind = "request" THEN 1 ELSE 0)
<1>2. 0..sent \subseteq 0..more /\ m \in 0..more /\ n \in Nat /\ m \in Nat
  OBVIOUS
<1>3. Run(0..more, Counting, msgs, a, n)
  BY <1>1, <1>2, RunWiden
<1>4. <<n, msg, m>> \in Counting
  BY <1>2 DEF Counting
<1>5. msgs \in Seq(ClientMsg) /\ Append(msgs, msg) \in Seq(ClientMsg)
  BY DEF Told
<1> HIDE DEF m
<1>6. Run(0..more, Counting, Append(msgs, msg), a, m)
  BY <1>2, <1>3, <1>4, <1>5, RunAppend
<1> QED
  BY <1>1, <1>2, <1>5, <1>6 DEF Told

\* A message is read, and may be told when it is a request.
LEMMA ToldTail ==
  ASSUME NEW sent \in Nat, NEW told \in Nat, NEW msgs, Told(told, msgs, sent), msgs # <<>>,
         NEW now \in Nat, now <= told + (IF Head(msgs).kind = "request" THEN 1 ELSE 0)
  PROVE  Told(now, Tail(msgs), sent)
<1>1. PICK a \in 0..sent, n \in 0..sent : told <= a /\ Run(0..sent, Counting, msgs, a, n)
  BY DEF Told
<1>2. msgs \in Seq(ClientMsg) /\ Tail(msgs) \in Seq(ClientMsg) /\ Head(msgs) = msgs[1]
  BY DEF Told
<1>3. PICK m \in 0..sent : <<a, msgs[1], m>> \in Counting /\ Run(0..sent, Counting, Tail(msgs), m, n)
  BY <1>1, <1>2, RunHead
<1>4. a + (IF msgs[1].kind = "request" THEN 1 ELSE 0) <= m
  BY <1>3 DEF Counting
<1>5. now <= m
  BY <1>1, <1>2, <1>4
<1> QED
  BY <1>1, <1>2, <1>3, <1>5 DEF Told

LEMMA MsgTyped ==
  ASSUME NEW kind \in {"version", "type", "response", "init", "format", "encodings", "request",
                       "down", "up"}
  PROVE  Msg(kind) \in ClientMsg /\ Msg(kind).kind = kind
  BY DEF Msg, ClientMsg

LEMMA ToldSent ==
  ASSUME NEW told \in Nat, Told(told, c2s, reqs), reqs \in Nat, reqs' \in Nat,
         NEW from, NEW msg \in ClientMsg, NEW to, Send(from, msg, to),
         reqs + (IF msg.kind = "request" THEN 1 ELSE 0) <= reqs'
  PROVE  Told(told, c2s', reqs')
<1>1. CASE c2s' = Append(c2s, msg)
  BY <1>1, ToldAppend
<1>2. CASE UNCHANGED c2s
  <2>1. reqs <= reqs'
    OBVIOUS
  <2> QED
    BY <1>2, <2>1, ToldMore
<1> QED
  BY <1>1, <1>2 DEF Send

\* Every step of the client.
LEMMA ToldClient ==
  ASSUME NEW told \in Nat, Told(told, c2s, reqs), Typed, Call \/ Start \/ Destroy
  PROVE  Told(told, c2s', reqs')
<1>1. reqs \in Nat /\ challenge \in Nat \X Nat
  BY DEF Typed
<1>2. ASSUME UNCHANGED <<c2s, reqs>> PROVE Told(told, c2s', reqs')
  BY <1>2
<1>3. ASSUME c2s' = <<>>, UNCHANGED reqs PROVE Told(told, c2s', reqs')
  BY <1>1, <1>3, ToldBound, ToldNothing
<1>4. ASSUME NEW from, NEW kind \in {"version", "type", "init", "format", "down", "up"}, NEW to,
             Send(from, Msg(kind), to), UNCHANGED reqs
      PROVE  Told(told, c2s', reqs')
  BY <1>1, <1>4, MsgTyped, ToldSent
<1>5. CASE Start
  BY <1>2, <1>5 DEF Start, ConnectToServer, Throw, history
<1>6. CASE Destroy
  BY <1>3, <1>6 DEF Destroy, Close, history
<1>7. CASE Spin
  <2>1. CASE SendVncAuthResponse
    <3>1. [kind |-> "response", val |-> challenge] \in ClientMsg
      BY <1>1 DEF ClientMsg
    <3> QED
      BY <1>1, <2>1, <3>1, ToldSent DEF SendVncAuthResponse, history
  <2>2. CASE SendSetEncodings
    <3>1. CASE c2s' = Append(c2s, Msg("encodings"))
      BY <1>1, <2>2, <3>1, MsgTyped, ToldAppend DEF SendSetEncodings, history
    <3> QED
      BY <1>2, <2>2, <3>1 DEF SendSetEncodings, history
  <2>3. CASE Select \/ RecvProtocolVersion \/ RecvSupportedSecurityTypes \/ RecvVncAuthChallenge
             \/ RecvSecurityResult \/ RecvServerInit
    BY <1>2, <2>3 DEF Select, RecvProtocolVersion, RecvSupportedSecurityTypes,
       RecvVncAuthChallenge, RecvSecurityResult, RecvServerInit, history
  <2>8. CASE RecvServerInitCrashes
    BY <1>3, <2>8 DEF RecvServerInitCrashes, Close
  <2>4. CASE SendProtocolVersion
    BY <1>4, <2>4 DEF SendProtocolVersion, history
  <2>5. CASE SendSecurityType
    BY <1>4, <2>5 DEF SendSecurityType, history
  <2>6. CASE SendClientInit
    BY <1>4, <2>6 DEF SendClientInit, history
  <2>7. CASE SendSetPixelFormat
    BY <1>4, <2>7 DEF SendSetPixelFormat, history
  <2> QED
    BY <1>7, <2>1, <2>2, <2>3, <2>4, <2>5, <2>6, <2>7, <2>8 DEF Spin
<1>8. CASE Capture
  <2>1. CASE SendKeyEvent
    BY <1>4, <2>1 DEF SendKeyEvent, history
  <2>2. CASE SendPointerEvent
    BY <1>4, <2>2 DEF SendPointerEvent, history
  <2>3. CASE SendFrameBufferUpdateRequest
    <3>1. Send("send_request", Msg("request"), "recv_type") /\ reqs' = reqs + 1 /\ reqs' \in Nat
      BY <1>1, <2>3 DEF SendFrameBufferUpdateRequest
    <3> QED
      BY <1>1, <3>1, MsgTyped, ToldSent
  <2>4. CASE DrawImageCrashes \/ RecvTextCrashes
    BY <1>3, <2>4 DEF DrawImageCrashes, RecvTextCrashes, Close, history
  <2>5. CASE Receive \/ RecvPixelsSpins \/ DrawImage
    <3>1. UNCHANGED <<c2s, reqs>>
      BY <2>5 DEF Receive, RecvServerToClientMessage, RecvFrameBufferUpdate, RecvRectangle,
         RecvPixels, RecvPixelsSpins, RecvSetColourMapEntries, RecvColour, RecvServerCutText,
         RecvText, DrawImage, RecvHeader, history, clientVars
    <3> QED
      BY <1>2, <3>1
  <2> QED
    BY <1>8, <2>1, <2>2, <2>3, <2>4, <2>5 DEF Capture, Receive
<1> QED
  BY <1>5, <1>6, <1>7, <1>8 DEF Call

-----------------------------------------------------------------------------

(***************************************************************************)
(* The steps of a client whose connection is up, other than Receive.       *)
(***************************************************************************)

LEMMA TypedClient == ASSUME Typed, Call \/ Start \/ Destroy PROVE Typed'
  BY TypedConnect, TypedSend, TypedHandshake, TypedMessage, TypedPicture
  DEF Call, Spin, Capture, Start

\* From one request to the next, but for the picture.
GoesOn ==
  /\ \/ pc = "idle" /\ pc' \in {"idle", "key_down", "pointer_down", "send_request"}
     \/ pc = "key_down" /\ pc' = "key_up"
     \/ pc = "key_up" /\ pc' = "idle"
     \/ pc = "pointer_down" /\ pc' = "pointer_up"
     \/ pc = "pointer_up" /\ pc' = "send_request"
     \/ pc = "draw" /\ pc' = "idle"
  /\ UNCHANGED <<conn, s2c, image_buf, message_type, todo, want, reqs, missed, torn>>

Asks ==
  /\ pc = "send_request" /\ pc' = "recv_type"
  /\ image_buf' = <<>> /\ reqs' = reqs + 1
  /\ UNCHANGED <<conn, s2c, message_type, todo, want, missed, torn>>

Crashes ==
  /\ pc \in {"draw", "recv_text"} /\ pc' = "gone" /\ conn' = "down" /\ s2c' = <<>>
  /\ UNCHANGED <<image_buf, message_type, todo, want, reqs, missed, torn>>

LEMMA StepsOf ==
  ASSUME Typed, conn = "up", spun = "ok", Throw \/ Capture
  PROVE  /\ Typed' /\ UNCHANGED <<spun, width, configured>>
         /\ GoesOn \/ Asks \/ Crashes \/ Receive
<1>1. Typed'
  BY TypedClient DEF Call, Start
<1>2. UNCHANGED <<spun, width, configured>>
  BY CaptureKeeps DEF Throw, client, Goto
<1>3. CASE Throw
  BY <1>1, <1>2, <1>3 DEF Throw, Goto, client, progress, GoesOn
<1>4. CASE SendKeyEvent \/ SendPointerEvent
  BY <1>1, <1>2, <1>4
  DEF SendKeyEvent, SendPointerEvent, Send, Goto, client, progress, history, GoesOn
<1>5. CASE SendFrameBufferUpdateRequest
  BY <1>1, <1>2, <1>5 DEF SendFrameBufferUpdateRequest, Send, Goto, progress, Asks
<1>6. CASE RecvPixelsSpins
  <2>1. want > 0 /\ want \in Nat /\ Len(s2c) \in Nat
    BY <1>6 DEF RecvPixelsSpins, Typed
  <2>2. 0 \notin Lengths(want)
    BY <2>1 DEF Lengths
  <2> QED
    BY <1>1, <1>2, <1>6, <2>2 DEF RecvPixelsSpins
<1>7. CASE DrawImage
  BY <1>1, <1>2, <1>7 DEF DrawImage, Goto, client, progress, history, GoesOn
<1>8. CASE DrawImageCrashes
  BY <1>1, <1>2, <1>8 DEF DrawImageCrashes, Close, client, progress, history, Crashes
<1>9. CASE RecvTextCrashes
  BY <1>1, <1>2, <1>9 DEF RecvTextCrashes, Close, client, progress, Crashes
<1> QED
  BY <1>1, <1>2, <1>3, <1>4, <1>5, <1>6, <1>7, <1>8, <1>9 DEF Capture, Receive

\* Nothing but the type of a message counts as a miss.
Misses == message_type # 0 => missed # 0

LEMMA MissesOf == ASSUME Typed, Misses, Throw \/ Capture PROVE Misses'
<1>1. CASE RecvServerToClientMessage
  <2>1. CASE RecvError /\ UNCHANGED <<message_type, missed>>
    BY <2>1 DEF Misses
  <2>2. CASE \E n \in Lengths(1) : /\ message_type' = Field(n, 1)
                                   /\ missed' = missed + (IF Field(n, 1) = 0 THEN 0 ELSE 1)
    BY <2>2 DEF Misses, Typed
  <2> QED
    BY <1>1, <2>1, <2>2 DEF RecvServerToClientMessage
<1>2. CASE ~RecvServerToClientMessage
  <2>1. UNCHANGED <<message_type, missed>>
    BY <1>2 DEF Throw, Capture, SendKeyEvent, SendPointerEvent, SendFrameBufferUpdateRequest,
       RecvFrameBufferUpdate, RecvRectangle, RecvPixels, RecvPixelsSpins,
       RecvSetColourMapEntries, RecvColour, RecvServerCutText, RecvText, RecvTextCrashes, DrawImage,
       DrawImageCrashes, RecvHeader, clientVars, progress, history
  <2> QED
    BY <2>1 DEF Misses
<1> QED
  BY <1>1, <1>2

\* What a step that receives leaves alone.
LEMMA ReceiveKeeps ==
  ASSUME Receive
  PROVE  pc \in Receiving /\ UNCHANGED <<conn, reqs>> /\ (torn => torn')
<1>1. pc \in Receiving
  BY DEF Receive, RecvServerToClientMessage, RecvFrameBufferUpdate, RecvRectangle, RecvPixels,
     RecvSetColourMapEntries, RecvColour, RecvServerCutText, RecvText, RecvHeader, Receiving
<1>2. UNCHANGED <<conn, reqs>>
  BY DEF Receive, RecvServerToClientMessage, RecvFrameBufferUpdate, RecvRectangle, RecvPixels,
     RecvSetColourMapEntries, RecvColour, RecvServerCutText, RecvText, RecvHeader, history
<1>3. torn => torn'
  BY DEF Receive, RecvServerToClientMessage, RecvFrameBufferUpdate, RecvRectangle, RecvPixels,
     RecvSetColourMapEntries, RecvColour, RecvServerCutText, RecvText, RecvHeader, Read, TakePixels, RecvError
<1> QED
  BY <1>1, <1>2, <1>3

\* Where a step of a request leads, whatever the connection is.
Course(from, to) ==
  \/ from = "idle" /\ to \in {"idle", "key_down", "pointer_down", "send_request"}
  \/ from = "key_down" /\ to \in {"key_up", "idle"}
  \/ from = "key_up" /\ to = "idle"
  \/ from = "pointer_down" /\ to \in {"pointer_up", "idle"}
  \/ from = "pointer_up" /\ to \in {"send_request", "idle"}
  \/ from = "send_request" /\ to \in {"recv_type", "idle"}
  \/ from \in Receiving /\ to \in Receiving \cup {"draw", "idle", "gone"}
  \/ from = "draw" /\ to \in {"idle", "gone"}

LEMMA CourseOf ==
  ASSUME Throw \/ Capture
  PROVE  /\ Course(pc, pc')
         /\ pc = "send_request" => reqs' = reqs + 1
         /\ pc # "send_request" => reqs' = reqs
<1>1. CASE Throw
  BY <1>1 DEF Throw, Goto, Course
<1>2. CASE SendKeyEvent \/ SendPointerEvent
  BY <1>2 DEF SendKeyEvent, SendPointerEvent, Send, Goto, Fail, history, Course
<1>3. CASE SendFrameBufferUpdateRequest
  BY <1>3 DEF SendFrameBufferUpdateRequest, Send, Goto, Fail, Course
<1>4. CASE RecvServerToClientMessage
  BY <1>4 DEF RecvServerToClientMessage, Handler, RecvError, Goto, Fail, Receiving, Course
<1>5. CASE RecvFrameBufferUpdate \/ RecvSetColourMapEntries \/ RecvServerCutText
  BY <1>5 DEF RecvFrameBufferUpdate, RecvSetColourMapEntries, RecvServerCutText, RecvHeader,
     RecvError, Goto, Fail, Receiving, history, Course
<1>6. CASE RecvRectangle \/ RecvPixels
  BY <1>6 DEF RecvRectangle, RecvPixels, TakePixels, NextRectangle, RecvError, Goto, Fail,
     Receiving, history, Course
<1>7. CASE RecvColour \/ RecvText \/ RecvTextCrashes
  BY <1>7 DEF RecvColour, RecvText, RecvTextCrashes, RecvError, Goto, Fail, Close, Receiving,
     history, Course
<1>8. CASE RecvPixelsSpins
  BY <1>8 DEF RecvPixelsSpins, clientVars, history, Receiving, Course
<1>9. CASE DrawImage \/ DrawImageCrashes
  BY <1>9 DEF DrawImage, DrawImageCrashes, Goto, Close, history, Course
<1> QED
  BY <1>1, <1>2, <1>3, <1>4, <1>5, <1>6, <1>7, <1>8, <1>9 DEF Capture

=============================================================================
