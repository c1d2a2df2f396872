-------------------------- MODULE MessageQueueProofs --------------------------
(***************************************************************************)
(* What the four queues guarantee for any number of producers and          *)
(* consumers, any capacity and any number of items.                        *)
(***************************************************************************)
EXTENDS MessageQueue, SequenceTheorems, TLAPS

\* Notify wakes threads and puts none to sleep: all with "all"; with the styles that
\* signal an edge, one of the group if one of it sleeps.
LEMMA NotifyShape ==
  ASSUME NEW group, NEW edge \in BOOLEAN, style \in Styles, Notify(group, edge)
  PROVE  /\ waiting' \subseteq waiting
         /\ style = "all" => waiting' = {}
         /\ style \in {"edge", "close"} =>
              IF edge /\ waiting \cap group # {}
              THEN \E t \in waiting \cap group : waiting' = waiting \ {t}
              ELSE waiting' = waiting
<1>1. CASE style = "yield"
  BY <1>1 DEF Notify
<1>2. CASE style = "all"
  BY <1>2 DEF Notify, NotifyAll
<1>3. CASE style \in {"edge", "close"}
  BY <1>3 DEF Notify, NotifyOne
<1> QED
  BY <1>1, <1>2, <1>3 DEF Styles

LEMMA TypeInit == Init => TypeOK
<1> SUFFICES ASSUME Init PROVE TypeOK
  OBVIOUS
<1>1. <<>> \in Seq(Item) /\ Len(<<>>) = 0
  BY EmptySeq
<1>2. next \in [Producer -> 1..(Items + 2)]
  BY ItemsAssumption DEF Init
<1>3. closed \in BOOLEAN /\ aborted \in BOOLEAN /\ (closed \/ aborted => style = "close")
  BY Zenon DEF Init
<1> QED
  BY <1>1, <1>2, <1>3, CapacityAssumption DEF Init, TypeOK

LEMMA TypeNext == TypeOK /\ [Next]_vars => TypeOK'
<1> SUFFICES ASSUME TypeOK, [Next]_vars PROVE TypeOK'
  OBVIOUS
<1> USE CapacityAssumption, ItemsAssumption
<1>1. ASSUME NEW p \in Producer, PushItem(p) PROVE TypeOK'
  <2>1. waiting' \subseteq waiting
    BY <1>1, NotifyShape DEF PushItem, TypeOK, Empty
  <2>2. next[p] \in 1..(Items + 1)
    BY <1>1 DEF PushItem, Pushing, TypeOK
  <2>3. [from |-> p, n |-> next[p]] \in Item
    BY <2>2 DEF Item
  <2>4. q' \in Seq(Item) /\ Len(q') = Len(q) + 1
    BY <1>1, <2>3, AppendProperties DEF PushItem, TypeOK
  <2>5. Len(q') <= Capacity
    BY <1>1, <2>4 DEF PushItem, Full, TypeOK
  <2>6. next' \in [Producer -> 1..(Items + 2)]
    BY <1>1, <2>2 DEF PushItem, TypeOK
  <2>7. p \notin waiting /\ ended' \subseteq prod \cup cons /\ ended' \subseteq ended \cup {p}
    BY <1>1 DEF PushItem, TypeOK, Running
  <2> QED
    BY <1>1, <2>1, <2>4, <2>5, <2>6, <2>7 DEF PushItem, TypeOK, program
<1>2. ASSUME NEW p \in Producer, PushWaits(p) PROVE TypeOK'
  BY <1>2 DEF PushWaits, TypeOK, Sleep, Running, program
<1>3. ASSUME NEW p \in Producer, PushThrows(p) PROVE TypeOK'
  BY <1>3 DEF PushThrows, TypeOK, Running, program
<1>4. ASSUME NEW p \in Producer, Close(p) PROVE TypeOK'
  <2>2. style = "close"
    BY <1>4 DEF Close
  <2>3. /\ UNCHANGED <<program, q, next, left, aborted, popped>>
        /\ closed' = TRUE /\ waiting' = {} /\ ended' = ended \cup {p} /\ p \in prod
    BY <1>4 DEF Close, NotifyAll
  <2>4. closed' \in BOOLEAN
    BY <2>3, Zenon
  <2> QED
    BY <2>2, <2>3, <2>4 DEF TypeOK, program
<1>5. ASSUME NEW c \in Consumer, PopItem(c) PROVE TypeOK'
  <2>1. waiting' \subseteq waiting
    BY <1>5, NotifyShape DEF PopItem, TypeOK, Full
  <2>2. /\ q' \in Seq(Item) /\ Len(q') = Len(q) - 1
        /\ Head(q) \in Item
    BY <1>5, HeadTailProperties DEF PopItem, TypeOK, Empty
  <2>3. popped' \in Seq(Item)
    BY <1>5, <2>2, AppendProperties DEF PopItem, TypeOK
  <2>4. Len(q') <= Capacity
    BY <2>2, LenProperties DEF TypeOK
  <2>5. c \notin waiting /\ ended' \subseteq prod \cup cons /\ ended' \subseteq ended \cup {c}
    BY <1>5 DEF PopItem, TypeOK, Running
  <2> QED
    BY <1>5, <2>1, <2>2, <2>3, <2>4, <2>5 DEF PopItem, TypeOK, program
<1>6. ASSUME NEW c \in Consumer, PopWaits(c) PROVE TypeOK'
  BY <1>6 DEF PopWaits, TypeOK, Sleep, Running, program
<1>7. ASSUME NEW c \in Consumer, PopClosed(c) \/ PopThrows(c) PROVE TypeOK'
  BY <1>7 DEF PopClosed, PopThrows, TypeOK, Running, program
<1>8. CASE Abort
  BY <1>8 DEF Abort, TypeOK, NotifyAll, program
<1>9. ASSUME NEW t \in Producer \cup Consumer, Spurious(t) PROVE TypeOK'
  BY <1>9 DEF Spurious, TypeOK, program
<1>10. CASE UNCHANGED vars
  BY <1>10 DEF vars, TypeOK
<1> QED
  BY <1>1, <1>2, <1>3, <1>4, <1>5, <1>6, <1>7, <1>8, <1>9, <1>10
  DEF Next, ProducerStep, ConsumerStep

\* The types, and the capacity: the queue never holds more than it may.
THEOREM QueueTyped == Spec => []TypeOK
  BY TypeInit, TypeNext, PTL DEF Spec

-----------------------------------------------------------------------------

LEMMA WakeInit == Init => WakeInv
<1> SUFFICES ASSUME Init PROVE WakeInv
  OBVIOUS
<1>1. Len(q) = 0
  BY EmptySeq DEF Init
<1> QED
  BY <1>1 DEF Init, WakeInv, NoLostWakeup, Empty, Active

\* A push: what it changes, and that it wakes a consumer if the queue was empty.
LEMMA WakePush ==
  ASSUME TypeOK, WakeInv, NEW p \in Producer, PushItem(p)
  PROVE  WakeInv'
<1> USE CapacityAssumption, ItemsAssumption
<1>1. p \in prod /\ p \notin ended /\ p \notin waiting
  BY DEF PushItem, Running
<1>2. /\ waiting' \subseteq waiting
      /\ style = "all" => waiting' = {}
      /\ style \in {"edge", "close"} =>
           IF Empty /\ waiting \cap cons # {}
           THEN \E t \in waiting \cap cons : waiting' = waiting \ {t}
           ELSE waiting' = waiting
  BY NotifyShape DEF PushItem, TypeOK, Empty
<1>3. next[p] \in 1..(Items + 1) /\ (style = "close" => next[p] <= Items)
  BY DEF PushItem, Pushing, TypeOK
<1>4. /\ ended \subseteq ended' /\ ended' \subseteq ended \cup {p}
      /\ style = "close" => ended' = ended
  BY <1>3 DEF PushItem
<1>5. /\ Len(q') = Len(q) + 1
      /\ \A i \in 1..Len(q) : q'[i] = q[i]
      /\ q'[Len(q) + 1].n = next[p]
  <2>1. [from |-> p, n |-> next[p]] \in Item
    BY <1>3 DEF Item
  <2> QED
    BY <2>1, AppendProperties DEF PushItem, TypeOK
<1>6. prod \cap cons = {} /\ waiting \subseteq (prod \cup cons) \ ended
  BY ThreadAssumption DEF TypeOK
<1>7. UNCHANGED <<style, prod, cons, closed, aborted>> /\ ~closed /\ ~aborted /\ ~Full
  BY DEF PushItem, program
<1>8. style \in Styles
  BY DEF TypeOK
<1>9. ~Empty' /\ SoundGroup(cons)' => ~(Active(cons)' # {} /\ Active(cons)' \subseteq waiting')
  <2> SUFFICES ASSUME SoundGroup(cons)', Active(cons)' # {}, Active(cons)' \subseteq waiting'
               PROVE  FALSE
    OBVIOUS
  <2>1. SoundGroup(cons) /\ Active(cons) # {} /\ Active(cons) = Active(cons)'
    BY <1>1, <1>4, <1>6, <1>7 DEF SoundGroup, Active
  <2>2. Active(cons) \subseteq waiting
    BY <1>2, <2>1
  <2>3. Empty
    BY <2>1, <2>2 DEF WakeInv, NoLostWakeup
  <2>4. waiting \cap cons # {} /\ waiting # {}
    BY <2>1, <2>2 DEF Active
  <2>5. style # "yield" /\ style # "all"
    BY <1>2, <2>1, <2>4 DEF WakeInv
  <2>6. PICK t \in waiting \cap cons : waiting' = waiting \ {t}
    BY <1>2, <1>8, <2>3, <2>4, <2>5 DEF Styles
  <2>7. t \in Active(cons)
    BY <1>6, <2>6 DEF Active
  <2> QED
    BY <2>1, <2>6, <2>7
<1>10. ~Full' /\ SoundGroup(prod)' => ~(Active(prod)' # {} /\ Active(prod)' \subseteq waiting')
  <2> SUFFICES ASSUME SoundGroup(prod)', Active(prod)' # {}, Active(prod)' \subseteq waiting'
               PROVE  FALSE
    OBVIOUS
  <2>1. p \in ended'
    BY <1>1, <1>2, <1>7 DEF Active
  <2>2. style # "edge" /\ style # "close"
    BY <1>1, <1>4, <1>7, <2>1 DEF SoundGroup
  <2> QED
    BY <1>2, <1>8, <2>2 DEF Styles, WakeInv
<1>11. style' = "close" => \A i \in 1..Len(q') : q'[i].n <= Items
  BY <1>3, <1>5, <1>7 DEF WakeInv, TypeOK
<1> QED
  BY <1>2, <1>4, <1>7, <1>9, <1>10, <1>11 DEF WakeInv, NoLostWakeup

\* A pop: it wakes a producer if the queue was full.
LEMMA WakePop ==
  ASSUME TypeOK, WakeInv, NEW c \in Consumer, PopItem(c)
  PROVE  WakeInv'
<1> USE CapacityAssumption, ItemsAssumption
<1>1. c \in cons /\ c \notin ended /\ c \notin waiting
  BY DEF PopItem, Running
<1>2. /\ waiting' \subseteq waiting
      /\ style = "all" => waiting' = {}
      /\ style \in {"edge", "close"} =>
           IF Full /\ waiting \cap prod # {}
           THEN \E t \in waiting \cap prod : waiting' = waiting \ {t}
           ELSE waiting' = waiting
  BY NotifyShape DEF PopItem, TypeOK, Full
<1>3. /\ Len(q) \in Nat \ {0} /\ Len(q') = Len(q) - 1
      /\ \A i \in 1..(Len(q) - 1) : q'[i] = q[i + 1]
      /\ Head(q) = q[1]
  BY EmptySeq, HeadTailProperties DEF PopItem, TypeOK, Empty
<1>4. /\ ended \subseteq ended' /\ ended' \subseteq ended \cup {c}
      /\ style = "close" => ended' = ended
  <2>1. style = "close" => q[1].n <= Items /\ q[1].n # Items + 1
    <3>1. q[1] \in Item /\ 1 \in 1..Len(q)
      BY <1>3, ElementOfSeq DEF TypeOK
    <3> QED
      BY <3>1 DEF WakeInv, Item
  <2> QED
    BY <1>3, <2>1 DEF PopItem
<1>6. prod \cap cons = {} /\ waiting \subseteq (prod \cup cons) \ ended
  BY ThreadAssumption DEF TypeOK
<1>7. UNCHANGED <<style, prod, cons, closed, aborted>> /\ ~aborted
  BY DEF PopItem, program
<1>8. style \in Styles
  BY DEF TypeOK
<1>9. ~Full' /\ SoundGroup(prod)' => ~(Active(prod)' # {} /\ Active(prod)' \subseteq waiting')
  <2> SUFFICES ASSUME SoundGroup(prod)', Active(prod)' # {}, Active(prod)' \subseteq waiting'
               PROVE  FALSE
    OBVIOUS
  <2>1. SoundGroup(prod) /\ Active(prod) # {} /\ Active(prod) = Active(prod)'
    BY <1>1, <1>4, <1>6, <1>7 DEF SoundGroup, Active
  <2>2. Active(prod) \subseteq waiting
    BY <1>2, <2>1
  <2>3. Full
    BY <2>1, <2>2 DEF WakeInv, NoLostWakeup
  <2>4. waiting \cap prod # {} /\ waiting # {}
    BY <2>1, <2>2 DEF Active
  <2>5. style # "yield" /\ style # "all"
    BY <1>2, <2>1, <2>4 DEF WakeInv
  <2>6. PICK t \in waiting \cap prod : waiting' = waiting \ {t}
    BY <1>2, <1>8, <2>3, <2>4, <2>5 DEF Styles
  <2>7. t \in Active(prod)
    BY <1>6, <2>6 DEF Active
  <2> QED
    BY <2>1, <2>6, <2>7
<1>10. ~Empty' /\ SoundGroup(cons)' => ~(Active(cons)' # {} /\ Active(cons)' \subseteq waiting')
  <2> SUFFICES ASSUME SoundGroup(cons)', Active(cons)' # {}, Active(cons)' \subseteq waiting'
               PROVE  FALSE
    OBVIOUS
  <2>1. c \in ended'
    BY <1>1, <1>2, <1>7 DEF Active
  <2>2. style # "edge" /\ style # "close"
    BY <1>1, <1>4, <1>7, <2>1 DEF SoundGroup
  <2> QED
    BY <1>2, <1>8, <2>2 DEF Styles, WakeInv
<1>11. style' = "close" => \A i \in 1..Len(q') : q'[i].n <= Items
  BY <1>3, <1>7 DEF WakeInv
<1> QED
  BY <1>2, <1>4, <1>7, <1>9, <1>10, <1>11 DEF WakeInv, NoLostWakeup

\* The other steps leave the queue alone.
LEMMA WakeNext == TypeOK /\ WakeInv /\ [Next]_vars => WakeInv'
<1> SUFFICES ASSUME TypeOK, WakeInv, [Next]_vars PROVE WakeInv'
  OBVIOUS
<1> USE DEF WakeInv, NoLostWakeup, SoundGroup, Active, Full, Empty, program
<1>1. prod \cap cons = {} /\ waiting \subseteq (prod \cup cons) \ ended
  BY ThreadAssumption DEF TypeOK
<1>2. ASSUME NEW p \in Producer, PushWaits(p) PROVE WakeInv'
  <2>1. p \in prod /\ waiting' = waiting \cup {p} /\ style # "yield" /\ ~closed /\ ~aborted
        /\ UNCHANGED <<style, prod, cons, q, ended, closed, aborted>> /\ Full
    BY <1>2 DEF PushWaits, Sleep
  <2>2. q = <<>> \/ waiting' \cap cons = waiting \cap cons
    BY <1>1, <2>1
  <2> QED
    BY <1>1, <2>1, <2>2
<1>3. ASSUME NEW c \in Consumer, PopWaits(c) PROVE WakeInv'
  <2>1. c \in cons /\ waiting' = waiting \cup {c} /\ style # "yield" /\ ~closed /\ ~aborted
        /\ UNCHANGED <<style, prod, cons, q, ended, closed, aborted>> /\ Empty
    BY <1>3 DEF PopWaits, Sleep
  <2>2. waiting' \cap prod = waiting \cap prod
    BY <1>1, <2>1
  <2> QED
    BY <1>1, <2>1, <2>2
<1>4. ASSUME closed \/ aborted, UNCHANGED <<style, prod, cons, q, waiting, closed, aborted>>
      PROVE  WakeInv'
  <2>1. waiting' = {}
    BY <1>4
  <2> QED
    BY <1>4, <2>1
<1>5. ASSUME NEW p \in Producer, PushThrows(p) PROVE WakeInv'
  BY <1>4, <1>5 DEF PushThrows
<1>6. ASSUME NEW c \in Consumer, PopClosed(c) \/ PopThrows(c) PROVE WakeInv'
  BY <1>4, <1>6 DEF PopClosed, PopThrows
<1>7. ASSUME waiting' = {}, closed' \/ aborted', UNCHANGED <<style, prod, cons, q>>
      PROVE  WakeInv'
  BY <1>7
<1>8. ASSUME NEW p \in Producer, Close(p) PROVE WakeInv'
  BY <1>7, <1>8 DEF Close, NotifyAll
<1>9. CASE Abort
  BY <1>7, <1>9 DEF Abort, NotifyAll
<1>10. ASSUME NEW t \in Producer \cup Consumer, Spurious(t) PROVE WakeInv'
  BY <1>1, <1>10 DEF Spurious
<1>11. CASE UNCHANGED vars
  BY <1>11 DEF vars
<1> QED
  BY WakePush, WakePop, <1>2, <1>3, <1>5, <1>6, <1>8, <1>9, <1>10, <1>11
  DEF Next, ProducerStep, ConsumerStep

\* No wake-up is lost, though a signal is sent only at an edge and to one thread.
THEOREM WakeupsArrive == Spec => []NoLostWakeup
<1>1. TypeOK /\ WakeInv /\ [Next]_vars => TypeOK' /\ WakeInv'
  BY TypeNext, WakeNext
<1>2. WakeInv => NoLostWakeup
  BY DEF WakeInv
<1> QED
  BY TypeInit, WakeInit, <1>1, <1>2, PTL DEF Spec

-----------------------------------------------------------------------------

\* Whoever is told that the queue is closed finds it emptied, for good.
THEOREM CloseDrains == Spec => []ClosedMeansDrained
<1>1. Init => ClosedMeansDrained
  BY DEF Init, ClosedMeansDrained
<1>2. ClosedMeansDrained /\ [Next]_vars => ClosedMeansDrained'
  <2> SUFFICES ASSUME ClosedMeansDrained, [Next]_vars PROVE ClosedMeansDrained'
    OBVIOUS
  <2> USE DEF ClosedMeansDrained, Empty
  <2>1. ASSUME NEW p \in Producer, ProducerStep(p) PROVE ClosedMeansDrained'
    BY <2>1 DEF ProducerStep, PushItem, PushWaits, PushThrows, Close
  <2>2. ASSUME NEW c \in Consumer, ConsumerStep(c) PROVE ClosedMeansDrained'
    BY <2>2 DEF ConsumerStep, PopItem, PopWaits, PopClosed, PopThrows
  <2>3. CASE Abort
    BY <2>3 DEF Abort
  <2>4. ASSUME NEW t \in Producer \cup Consumer, Spurious(t) PROVE ClosedMeansDrained'
    BY <2>4 DEF Spurious
  <2>5. CASE UNCHANGED vars
    BY <2>5 DEF vars
  <2> QED
    BY <2>1, <2>2, <2>3, <2>4, <2>5 DEF Next
<1> QED
  BY <1>1, <1>2, PTL DEF Spec

-----------------------------------------------------------------------------

\* A push is a Send of the channel.
LEMMA PushSends ==
  ASSUME TypeOK, NEW p \in Producer, PushItem(p)
  PROVE  \E v \in Item : Chan!Send(v)
<1> DEFINE v == [from |-> p, n |-> next[p]]
<1>1. v \in Item
  BY ItemsAssumption DEF PushItem, Pushing, TypeOK, Item
<1> HIDE DEF v
<1>2. q \in Seq(Item) /\ popped \in Seq(Item) /\ Len(q) < Capacity
  BY CapacityAssumption DEF TypeOK, PushItem, Full
<1>3. q' = Append(q, v) /\ popped' = popped /\ ~closed /\ ~aborted
      /\ UNCHANGED <<closed, aborted>>
  BY DEF PushItem, v
<1>4. Len(popped \o q) < Len(popped) + Capacity
  BY <1>2, ConcatProperties, LenProperties, CapacityAssumption
<1>5. popped \o Append(q, v) = Append(popped \o q, v)
  <2>1. popped \o q \in Seq(Item) /\ <<v>> \in Seq(Item)
    BY <1>1, <1>2, ConcatProperties
  <2>2. Append(q, v) = q \o <<v>> /\ Append(popped \o q, v) = (popped \o q) \o <<v>>
    BY <1>1, <1>2, <2>1, AppendIsConcat
  <2> QED
    BY <1>2, <2>1, <2>2, ConcatAssociative
<1>6. (popped \o q)' = Append(popped \o q, v)
  BY <1>3, <1>5
<1> QED
  BY <1>1, <1>3, <1>4, <1>6 DEF Chan!Send

\* A pop is a Receive.
LEMMA PopReceives ==
  ASSUME TypeOK, NEW c \in Consumer, PopItem(c)
  PROVE  Chan!Receive
<1>1. q \in Seq(Item) /\ popped \in Seq(Item) /\ q # <<>> /\ Len(q) \in Nat \ {0}
  BY EmptySeq DEF TypeOK, PopItem, Empty
<1>2. q' = Tail(q) /\ popped' = Append(popped, Head(q)) /\ UNCHANGED <<closed, aborted>>
  BY DEF PopItem
<1>3. /\ Head(q) \in Item /\ Tail(q) \in Seq(Item)
      /\ Head(q) = q[1]
  BY <1>1, HeadTailProperties
<1>4. Append(popped, Head(q)) \o Tail(q) = popped \o q
  <2>1. Append(popped, Head(q)) = popped \o <<Head(q)>> /\ <<Head(q)>> \in Seq(Item)
    BY <1>1, <1>3, AppendIsConcat
  <2>2. <<Head(q)>> \o Tail(q) = q
    <3>1. /\ <<Head(q)>> \o Tail(q) \in Seq(Item)
          /\ Len(<<Head(q)>> \o Tail(q)) = Len(q)
      BY <1>1, <1>3, <2>1, HeadTailProperties, ConcatProperties
    <3>2. ASSUME NEW i \in 1..Len(q) PROVE (<<Head(q)>> \o Tail(q))[i] = q[i]
      BY <1>1, <1>3
    <3> QED
      BY <1>1, <3>1, <3>2, SeqEqual
  <2> QED
    BY <1>1, <1>3, <2>1, <2>2, ConcatAssociative
<1>5. /\ Len(popped) < Len(popped \o q)
      /\ (popped \o q)[Len(popped) + 1] = Head(q)
  BY <1>1, <1>3, ConcatProperties, LenProperties
<1>6. (popped \o q)' = popped \o q /\ (~closed /\ ~aborted)' = (~closed /\ ~aborted)
  BY <1>2, <1>4
<1> QED
  BY <1>2, <1>5, <1>6 DEF Chan!Receive

\* Each of the four queues is the channel: first in, first out, each item once, bounded,
\* and shut after close or abort, for any threads, capacity and number of items.
THEOREM QueueImplementsChannel == Spec => ImplementsChannel
<1>1. Init => Chan!Init
  <2> SUFFICES ASSUME Init PROVE Chan!Init
    OBVIOUS
  <2>1. popped = <<>> /\ q = <<>> /\ closed = FALSE /\ aborted = FALSE
    BY DEF Init
  <2>2. popped \o q = <<>>
    BY <2>1, EmptySeq, ConcatEmptySeq
  <2>3. (~closed /\ ~aborted) = TRUE
    BY <2>1, Zenon
  <2> QED
    BY <2>1, <2>2, <2>3 DEF Chan!Init
<1>2. TypeOK /\ [Next]_vars => [Chan!Next]_(Chan!vars)
  <2> SUFFICES ASSUME TypeOK, [Next]_vars PROVE [Chan!Next]_(Chan!vars)
    OBVIOUS
  <2>1. ASSUME UNCHANGED <<q, popped, closed, aborted>> PROVE UNCHANGED Chan!vars
    BY <2>1 DEF Chan!vars
  <2>2. ASSUME closed' = TRUE \/ aborted' = TRUE, UNCHANGED <<q, popped>>
        PROVE  Chan!Next
    <3>1. (~closed /\ ~aborted)' = FALSE
      BY <2>2, Zenon
    <3>2. UNCHANGED <<popped \o q, popped>>
      BY <2>2
    <3> QED
      BY <3>1, <3>2 DEF Chan!Next, Chan!End
  <2>3. ASSUME NEW p \in Producer, ProducerStep(p) PROVE [Chan!Next]_(Chan!vars)
    <3>1. CASE PushItem(p)
      BY <3>1, PushSends DEF Chan!Next
    <3>2. CASE PushWaits(p) \/ PushThrows(p)
      BY <2>1, <3>2 DEF PushWaits, PushThrows
    <3>3. CASE Close(p)
      BY <2>2, <3>3 DEF Close
    <3> QED
      BY <2>3, <3>1, <3>2, <3>3 DEF ProducerStep
  <2>4. ASSUME NEW c \in Consumer, ConsumerStep(c) PROVE [Chan!Next]_(Chan!vars)
    <3>1. CASE PopItem(c)
      BY <3>1, PopReceives DEF Chan!Next
    <3>2. CASE PopWaits(c) \/ PopClosed(c) \/ PopThrows(c)
      BY <2>1, <3>2 DEF PopWaits, PopClosed, PopThrows
    <3> QED
      BY <2>4, <3>1, <3>2 DEF ConsumerStep
  <2>5. CASE Abort
    BY <2>2, <2>5 DEF Abort
  <2>6. ASSUME NEW t \in Producer \cup Consumer, Spurious(t) PROVE [Chan!Next]_(Chan!vars)
    BY <2>1, <2>6 DEF Spurious
  <2>7. CASE UNCHANGED vars
    BY <2>1, <2>7 DEF vars
  <2> QED
    BY <2>3, <2>4, <2>5, <2>6, <2>7 DEF Next
<1> QED
  BY <1>1, <1>2, QueueTyped, PTL DEF Spec, ImplementsChannel, Chan!Spec

=============================================================================
