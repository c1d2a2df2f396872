---------------------------- MODULE MessageQueue -----------------------------
(***************************************************************************)
(* The four m_queue classes of sandbox/std_thread: a bounded queue under   *)
(* one mutex, with the threads of its main program.  They differ in how a  *)
(* thread that finds the queue full or empty waits, and in who wakes it:   *)
(*                                                                         *)
(*   "yield"  m_queue.cpp                    unlocks, yields, locks, looks *)
(*   "all"    m_queue_with_cond.cpp          every push and pop wakes all  *)
(*   "edge"   m_queue_with_cond_improve.cpp  the push to an empty queue    *)
(*            wakes one consumer, the pop from a full one one producer     *)
(*   "close"  m_queue_with_close.cpp         as "edge"; close and abort    *)
(*            wake all                                                     *)
(*                                                                         *)
(* A call holds the mutex except while it waits, so that each visit to the *)
(* critical section is one action.  The programs start one producer and    *)
(* one consumer; a second consumer is in the sources, commented out.       *)
(***************************************************************************)
EXTENDS Integers, Sequences, FiniteSets

CONSTANTS
  Producer, Consumer,   \* the threads that may be started
  Capacity,             \* of the queue: 10
  Items                 \* items a producer pushes before it is through

ASSUME ThreadAssumption == Producer \cap Consumer = {}

ASSUME CapacityAssumption == Capacity \in Nat \ {0}

ASSUME ItemsAssumption == Items \in Nat

VARIABLES
  style,      \* which of the four
  prod, cons, \* the threads of the program
  q,          \* the queue
  waiting,    \* threads asleep in a wait
  next,       \* next[p]: the number of the item producer p is at
  ended,      \* threads that returned from their loop
  left,       \* consumers that were told the queue is closed
  closed, aborted,
  popped      \* history: the items popped

vars == <<style, prod, cons, q, waiting, next, ended, left, closed, aborted, popped>>

Styles == {"yield", "all", "edge", "close"}

\* An item knows its producer and its place; the one after the last is the -1 that
\* ends a consumer.
Item == [from : Producer, n : 1..(Items + 1)]

TypeOK ==
  /\ style \in Styles
  /\ prod \subseteq Producer /\ cons \subseteq Consumer
  /\ q \in Seq(Item) /\ Len(q) <= Capacity
  /\ waiting \subseteq (prod \cup cons) \ ended
  /\ next \in [Producer -> 1..(Items + 2)]
  /\ ended \subseteq prod \cup cons
  /\ left \subseteq cons
  /\ closed \in BOOLEAN /\ aborted \in BOOLEAN
  /\ closed \/ aborted => style = "close"
  /\ popped \in Seq(Item)

Init ==
  /\ style \in Styles
  /\ prod \in SUBSET Producer /\ cons \in SUBSET Consumer
  /\ q = <<>> /\ popped = <<>>
  /\ waiting = {} /\ ended = {} /\ left = {}
  /\ next = [p \in Producer |-> 1]
  /\ closed = FALSE /\ aborted = FALSE

-----------------------------------------------------------------------------

program == <<style, prod, cons>>

Running(t) == t \in (prod \cup cons) \ (ended \cup waiting)

Sleep(t) == waiting' = waiting \cup {t}

NotifyAll == waiting' = {}

\* One of the threads of this group is woken, if one is asleep.
NotifyOne(group) ==
  \/ waiting \cap group = {} /\ UNCHANGED waiting
  \/ \E t \in waiting \cap group : waiting' = waiting \ {t}

\* Mutant: do_signal is computed after the queue has changed.
NotifyLate(group, edge) ==
  IF style = "all" THEN NotifyAll ELSE UNCHANGED waiting

\* What a push or a pop does for the other side.  edge: the queue was empty before
\* the push, or full before the pop.
Notify(group, edge) ==
  CASE style = "yield" -> UNCHANGED waiting
    [] style = "all"   -> NotifyAll
    [] OTHER           -> IF edge THEN NotifyOne(group) ELSE UNCHANGED waiting

\* Mutant: the queue is full at one item more.
FullLate == Len(q) > Capacity

Full == Len(q) = Capacity

Empty == q = <<>>

\* Has the producer anything left to push?  In "close" it closes the queue instead of
\* pushing the -1.
Pushing(p) == next[p] <= Items \/ (style # "close" /\ next[p] = Items + 1)

\* push, with room in the queue.  The producer of the first three programs is through
\* with its -1.
PushItem(p) ==
  /\ p \in prod /\ Running(p) /\ Pushing(p)
  /\ ~Full /\ ~closed /\ ~aborted
  /\ q' = Append(q, [from |-> p, n |-> next[p]])
  /\ next' = [next EXCEPT ![p] = @ + 1]
  /\ ended' = IF next[p] = Items + 1 THEN ended \cup {p} ELSE ended
  /\ Notify(cons, Empty)
  /\ UNCHANGED <<program, left, closed, aborted, popped>>

\* push to a full queue.  In "yield" the thread looks again later: nothing changes.
PushWaits(p) ==
  /\ p \in prod /\ Running(p) /\ Pushing(p)
  /\ Full /\ ~closed /\ ~aborted /\ style # "yield"
  /\ Sleep(p)
  /\ UNCHANGED <<program, q, next, ended, left, closed, aborted, popped>>

\* push to a queue that was closed or aborted throws, and ends the producer's loop.
PushThrows(p) ==
  /\ p \in prod /\ Running(p) /\ Pushing(p)
  /\ closed \/ aborted
  /\ ended' = ended \cup {p}
  /\ UNCHANGED <<program, q, waiting, next, left, closed, aborted, popped>>

\* Mutant: the last item is popped.
PopNewest(c) ==
  /\ c \in cons /\ Running(c)
  /\ ~Empty /\ ~aborted
  /\ q' = SubSeq(q, 1, Len(q) - 1)
  /\ popped' = Append(popped, q[Len(q)])
  /\ ended' = IF q[Len(q)].n = Items + 1 THEN ended \cup {c} ELSE ended
  /\ Notify(prod, Full)
  /\ UNCHANGED <<program, next, left, closed, aborted>>

\* pop of an item; the -1 ends the consumer's loop.
PopItem(c) ==
  /\ c \in cons /\ Running(c)
  /\ ~Empty /\ ~aborted
  /\ q' = Tail(q)
  /\ popped' = Append(popped, Head(q))
  /\ ended' = IF Head(q).n = Items + 1 THEN ended \cup {c} ELSE ended
  /\ Notify(prod, Full)
  /\ UNCHANGED <<program, next, left, closed, aborted>>

PopWaits(c) ==
  /\ c \in cons /\ Running(c)
  /\ Empty /\ ~closed /\ ~aborted /\ style # "yield"
  /\ Sleep(c)
  /\ UNCHANGED <<program, q, next, ended, left, closed, aborted, popped>>

\* Mutant: a closed queue returns false at once.
PopClosedEarly(c) ==
  /\ c \in cons /\ Running(c)
  /\ closed
  /\ left' = left \cup {c}
  /\ ended' = ended \cup {c}
  /\ UNCHANGED <<program, q, waiting, next, closed, aborted, popped>>

\* pop returns false: closed, and nothing left.
PopClosed(c) ==
  /\ c \in cons /\ Running(c)
  /\ Empty /\ closed
  /\ left' = left \cup {c}
  /\ ended' = ended \cup {c}
  /\ UNCHANGED <<program, q, waiting, next, closed, aborted, popped>>

\* pop throws: aborted, and not both closed and empty.
PopThrows(c) ==
  /\ c \in cons /\ Running(c)
  /\ aborted /\ ~(Empty /\ closed)
  /\ ended' = ended \cup {c}
  /\ UNCHANGED <<program, q, waiting, next, left, closed, aborted, popped>>

\* Mutant: close wakes one thread.
CloseWakesOne(p) ==
  /\ style = "close"
  /\ p \in prod /\ Running(p) /\ ~Pushing(p)
  /\ closed' = TRUE
  /\ ended' = ended \cup {p}
  /\ NotifyOne(prod \cup cons)
  /\ UNCHANGED <<program, q, next, left, aborted, popped>>

\* close, by a producer that has pushed all its items.
Close(p) ==
  /\ style = "close"
  /\ p \in prod /\ Running(p) /\ ~Pushing(p)
  /\ closed' = TRUE
  /\ ended' = ended \cup {p}
  /\ NotifyAll
  /\ UNCHANGED <<program, q, next, left, aborted, popped>>

\* abort, by the main thread, at any time or never.
Abort ==
  /\ style = "close" /\ ~aborted
  /\ aborted' = TRUE
  /\ NotifyAll
  /\ UNCHANGED <<program, q, next, ended, left, closed, popped>>

\* A wait may end for no reason.
Spurious(t) ==
  /\ t \in waiting
  /\ waiting' = waiting \ {t}
  /\ UNCHANGED <<program, q, next, ended, left, closed, aborted, popped>>

ProducerStep(p) == PushItem(p) \/ PushWaits(p) \/ PushThrows(p) \/ Close(p)

ConsumerStep(c) == PopItem(c) \/ PopWaits(c) \/ PopClosed(c) \/ PopThrows(c)

Next ==
  \/ \E p \in Producer : ProducerStep(p)
  \/ \E c \in Consumer : ConsumerStep(c)
  \/ Abort
  \/ \E t \in Producer \cup Consumer : Spurious(t)

Spec == Init /\ [][Next]_vars

\* A thread that is awake gets the mutex in the end: each visit is short, and all but
\* the looks of "yield" are finite in number.
FairSpec ==
  /\ Spec
  /\ \A p \in Producer : WF_vars(ProducerStep(p))
  /\ \A c \in Consumer : WF_vars(ConsumerStep(c))

-----------------------------------------------------------------------------

\* The consumers, or the producers, that are not through.
Active(group) == group \ ended

\* With "edge" a group stays sound while none of it has ended: a thread that ends
\* may take along a wake-up that another one needed.
SoundGroup(group) == style = "edge" => group \cap ended = {}

\* No wake-up is lost: while there is something to pop, not every active consumer is
\* asleep, and while there is room, not every active producer, though "edge" and
\* "close" wake only one thread, and only when the queue was empty or full, and a
\* woken thread may find that another has taken its item or its place.
NoLostWakeup ==
  /\ ~Empty /\ SoundGroup(cons) => ~(Active(cons) # {} /\ Active(cons) \subseteq waiting)
  /\ ~Full /\ SoundGroup(prod)  => ~(Active(prod) # {} /\ Active(prod) \subseteq waiting)

\* What makes NoLostWakeup inductive.  With "all" nobody sleeps through a queue he
\* could use; a queue that is closed or aborted has no sleepers, and in "close"
\* no thread ends before that and no -1 is pushed.
WakeInv ==
  /\ NoLostWakeup
  /\ style = "yield" => waiting = {}
  /\ style = "all" /\ ~Empty => waiting \cap cons = {}
  /\ style = "all" /\ ~Full => waiting \cap prod = {}
  /\ closed \/ aborted => waiting = {}
  /\ style = "close" => /\ ended # {} => closed \/ aborted
                        /\ \A i \in 1..Len(q) : q[i].n <= Items

\* A consumer is told that the queue is closed only when it has been emptied, and
\* nothing comes after: close, unlike abort, loses no item, however many consumers
\* race for the last ones.
ClosedMeansDrained == left # {} => closed /\ Empty

\* The four are the same channel to their threads: first in, first out, each item
\* once, never more than Capacity inside, and no push after close or abort.
Chan == INSTANCE Channel WITH
  sent <- popped \o q, received <- popped, open <- ~closed /\ ~aborted

ImplementsChannel == Chan!Spec

\* The programs for which an end is promised: as many -1 as consumers, one thread on
\* each side for "edge", any number for "close".
Balanced ==
  /\ prod # {} /\ cons # {}
  /\ style # "close" => Cardinality(prod) = Cardinality(cons)
  /\ style = "edge" => Cardinality(prod) = 1

\* Every join of main returns.
EveryoneEnds == Balanced ~> ended = prod \cup cons

=============================================================================
