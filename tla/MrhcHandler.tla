----------------------------- MODULE MrhcHandler -----------------------------
(***************************************************************************)
(* mrhc_handler, the content handler of mod_mrhc.cpp, run by the worker    *)
(* threads of one Apache process.  The handler keeps the remote session in *)
(* a single global pointer, client_cache, that every request reads, tests, *)
(* publishes and deletes without a lock.                                   *)
(*                                                                         *)
(* A thread's pc names the next line of the handler that touches shared    *)
(* state.  What a request carries (credentials, a logout field, a query)   *)
(* and what vnc_client's methods return are chosen where the code tests    *)
(* them.  A request the handler declines (lines 69-75) touches nothing and *)
(* is a stuttering step.                                                   *)
(*                                                                         *)
(* An operator whose comment begins "Mutant:" is a plausible slip in the   *)
(* operator that follows it.  Nothing refers to it: it replaces that       *)
(* operator to confirm that a property would notice the slip.              *)
(***************************************************************************)

CONSTANTS
  Thread,   \* the worker threads of the process
  Client,   \* identities of vnc_client objects
  NULL,     \* the null pointer
  Serial    \* TRUE: the browser sends a request once the last one is answered

ASSUME NullAssumption == NULL \notin Client

ASSUME SerialAssumption == Serial \in BOOLEAN

VARIABLES
  client_cache,  \* the global pointer, shared by all threads
  alive,         \* the vnc_client objects allocated and not deleted
  pc,            \* pc[t]: the next shared access of thread t
  client,        \* client[t]: the pointer thread t holds in a local variable
  fault,         \* history: a deleted object was used, or deleted again
  crossed        \* history: two logins or two logouts were under way at once

vars == <<client_cache, alive, pc, client, fault, crossed>>

\* The thread owns an object nobody else can know of.
Spinning == {"spin", "publish"}

\* The thread is about to call a method of the object it was handed.
Using == {"operate", "capture", "jpeg"}

\* The thread found no session at line 77 and has not stored its own at 98.
Starting == {"auth"} \cup Spinning

\* The thread found a session at line 108 and has not dropped it at 110.
Ending == {"delete", "reset"}

Label == {"idle", "check", "auth", "confirm", "logout", "delete", "reset",
          "load"} \cup Spinning \cup Using

TypeOK ==
  /\ client_cache \in Client \cup {NULL}
  /\ alive \subseteq Client
  /\ pc \in [Thread -> Label]
  /\ client \in [Thread -> Client \cup {NULL}]
  /\ fault \in BOOLEAN
  /\ crossed \in BOOLEAN

Init ==
  /\ client_cache = NULL
  /\ alive = {}
  /\ pc = [t \in Thread |-> "idle"]
  /\ client = [t \in Thread |-> NULL]
  /\ fault = FALSE
  /\ crossed = FALSE

-----------------------------------------------------------------------------

At(t, l) == pc[t] = l

Goto(t, l) == pc' = [pc EXCEPT ![t] = l]

\* The handler returns: its local variables are gone.
Return(t) ==
  /\ Goto(t, "idle")
  /\ client' = [client EXCEPT ![t] = NULL]

Hold(t, p) == client' = [client EXCEPT ![t] = p]

\* A method call on object p: undefined behaviour once p is deleted.
Use(p) == fault' = (fault \/ p \notin alive)

\* Identities a new object may take.  An identity stands for an allocation, not
\* for an address: it is used again only when no pointer to it is left, so that
\* a stale pointer stays recognisable.
Free == {c \in Client \ alive : c # client_cache /\ \A t \in Thread : client[t] # c}

-----------------------------------------------------------------------------

\* Apache hands a request to an idle worker thread.
Request(t) ==
  /\ At(t, "idle")
  /\ Serial => \A u \in Thread : At(u, "idle")
  /\ Goto(t, "check")
  /\ UNCHANGED <<client_cache, alive, client, fault>>

\* Mutant: a request with credentials starts a session of its own.
CheckNothing(t) ==
  /\ At(t, "check")
  /\ Goto(t, "auth")
  /\ UNCHANGED <<client_cache, alive, client, fault>>

\* Line 77: is there a session already?
CheckCache(t) ==
  /\ At(t, "check")
  /\ Goto(t, IF client_cache = NULL THEN "auth" ELSE "confirm")
  /\ UNCHANGED <<client_cache, alive, client, fault>>

\* Mutant: an allocation that fails returns NULL and is not tested.
AuthorizeNoThrow(t) ==
  /\ At(t, "auth")
  /\ \/ Return(t) /\ UNCHANGED alive
     \/ \E c \in Free \cup {NULL} :
          /\ alive' = alive \cup {c}
          /\ Hold(t, c)
          /\ Goto(t, "spin")
  /\ UNCHANGED <<client_cache, fault>>

\* Mutant: the new object is assigned to the global before it spins.
AuthorizeCached(t) ==
  /\ At(t, "auth")
  /\ \/ Return(t) /\ UNCHANGED <<alive, client_cache>>
     \/ \E c \in Free :
          /\ alive' = alive \cup {c}
          /\ Hold(t, c)
          /\ client_cache' = c
          /\ Goto(t, "spin")
  /\ UNCHANGED fault

\* Lines 79-94: no usable credentials, 401; else a new client is allocated.
Authorize(t) ==
  /\ At(t, "auth")
  /\ \/ Return(t) /\ UNCHANGED alive
     \/ \E c \in Free :
          /\ alive' = alive \cup {c}
          /\ Hold(t, c)
          /\ Goto(t, "spin")
  /\ UNCHANGED <<client_cache, fault>>

\* Lines 95-97: connect, authenticate, configure.  The page differs with the
\* result; the object is kept and published in both cases.
Spin(t) ==
  /\ At(t, "spin")
  /\ Use(client[t])
  /\ Goto(t, "publish")
  /\ UNCHANGED <<client_cache, alive, client>>

\* Lines 98-99.
Publish(t) ==
  /\ At(t, "publish")
  /\ client_cache' = client[t]
  /\ Return(t)
  /\ UNCHANGED <<alive, fault>>

\* Line 106: a form that cannot be parsed, or one with a logout field, ends
\* the session; anything else goes on to throw.
Confirm(t) ==
  /\ At(t, "confirm")
  /\ \/ Goto(t, "logout")
     \/ Goto(t, "load")
  /\ UNCHANGED <<client_cache, alive, client, fault>>

\* Mutant: the session is dropped without deleting the client.
LogoutForgets(t) ==
  /\ At(t, "logout")
  /\ IF client_cache = NULL
     THEN Return(t)
     ELSE Goto(t, "reset") /\ Hold(t, client_cache)
  /\ UNCHANGED <<client_cache, alive, fault>>

\* Line 108.
Logout(t) ==
  /\ At(t, "logout")
  /\ IF client_cache = NULL
     THEN Return(t)
     ELSE Goto(t, "delete") /\ Hold(t, client_cache)
  /\ UNCHANGED <<client_cache, alive, fault>>

\* Line 109.  The global is not atomic: the compiled code deletes either the
\* value it tested or the one it loads again.  Deleting NULL does nothing.
Delete(t) ==
  /\ At(t, "delete")
  /\ \E p \in {client[t], client_cache} :
       /\ alive' = alive \ {p}
       /\ fault' = (fault \/ p \notin alive \cup {NULL})
  /\ Goto(t, "reset")
  /\ UNCHANGED <<client_cache, client>>

\* Mutant: line 110 is missing.
ResetNothing(t) ==
  /\ At(t, "reset")
  /\ Return(t)
  /\ UNCHANGED <<client_cache, alive, fault>>

\* Lines 110-113.
Reset(t) ==
  /\ At(t, "reset")
  /\ client_cache' = NULL
  /\ Return(t)
  /\ UNCHANGED <<alive, fault>>

\* Mutant: mrhc_throw relies on the test of line 77.
LoadUnchecked(t) ==
  /\ At(t, "load")
  /\ Hold(t, client_cache)
  /\ \E l \in {"operate", "capture"} : Goto(t, l)
  /\ UNCHANGED <<client_cache, alive, fault>>

\* Lines 118 and 169-175: the pointer is loaded again and passed by value, and
\* mrhc_throw tests its own copy.
Load(t) ==
  /\ At(t, "load")
  /\ IF client_cache = NULL
     THEN Return(t)
     ELSE /\ Hold(t, client_cache)
          /\ \E l \in {"operate", "capture"} : Goto(t, l)
  /\ UNCHANGED <<client_cache, alive, fault>>

\* A step of mrhc_throw that calls a method and goes on, or fails with 401.
Call(t, from, to) ==
  /\ At(t, from)
  /\ Use(client[t])
  /\ \/ Goto(t, to) /\ UNCHANGED client
     \/ Return(t)
  /\ UNCHANGED <<client_cache, alive>>

\* Lines 176-181, with the second of sleep before the next step.
Operate(t) == Call(t, "operate", "capture")

\* Lines 183-186.
Capture(t) == Call(t, "capture", "jpeg")

\* Lines 187-195: the picture is copied out of the object and sent.
SendJpeg(t) ==
  /\ At(t, "jpeg")
  /\ Use(client[t])
  /\ Return(t)
  /\ UNCHANGED <<client_cache, alive>>

\* An exception nobody catches (a port or a coordinate that is no int, lines 338 and
\* 208-210; a field that is missing; an empty image), or a copy past the end of a
\* buffer (host and password at lines 333 and 346; the name of the server at
\* vnc_client.cpp:275, while the client spins; a cut text at vnc_client.cpp:767), ends
\* the process with all its threads.  Apache starts another.
Abort(t) ==
  /\ pc[t] \in {"auth", "spin", "operate", "capture"}
  /\ client_cache' = NULL
  /\ alive' = {}
  /\ pc' = [u \in Thread |-> "idle"]
  /\ client' = [u \in Thread |-> NULL]
  /\ UNCHANGED fault

Handle(t) ==
  \/ CheckCache(t) \/ Authorize(t) \/ Spin(t) \/ Publish(t)
  \/ Confirm(t) \/ Logout(t) \/ Delete(t) \/ Reset(t)
  \/ Load(t) \/ Operate(t) \/ Capture(t) \/ SendJpeg(t)
  \/ Abort(t)

\* Two threads are between lines 77 and 98, or two between 108 and 110.
Crossing == \E t, u \in Thread :
  /\ t # u
  /\ {pc[t], pc[u]} \subseteq Starting \/ {pc[t], pc[u]} \subseteq Ending

Next ==
  /\ \E t \in Thread : Request(t) \/ Handle(t)
  /\ crossed' = (crossed \/ Crossing')

Spec == Init /\ [][Next]_vars

-----------------------------------------------------------------------------

(***************************************************************************)
(* What holds however the requests of a process overlap.                   *)
(***************************************************************************)

\* No method of vnc_client is called through NULL: the test of line 169 is made
\* on the thread's own copy, so a logout after line 77 cannot get past it.
NoNullUse == \A t \in Thread : pc[t] \in Using \cup Spinning => client[t] # NULL

\* Until line 98 a new client belongs to the thread that spins it: it exists, the
\* global does not point to it and no other thread does.
PrivateUntilPublished ==
  \A t \in Thread : pc[t] \in Spinning =>
    /\ client[t] \in alive
    /\ client[t] # client_cache
    /\ \A u \in Thread \ {t} : client[u] # client[t]

\* The global points to a deleted object only between lines 109 and 110 of some
\* thread: the window is never left open.
DanglingOnlyInWindow ==
  client_cache \in alive \cup {NULL} \/ \E t \in Thread : At(t, "reset")

\* Every client is either the cached session or still in the hands of the
\* thread that made it: no connection is leaked.
NoLostClient ==
  \A c \in alive : c = client_cache \/ \E t \in Thread : pc[t] \in Spinning /\ client[t] = c

\* No login or logout meets another one of its kind; what else overlaps is free.
\* Then every client that is not deleted is either the cached session or still in the
\* hands of the thread that made it: to keep a connection from being leaked it is enough
\* to let one thread at a time through lines 77-98 and one through 108-110, although a
\* login may run beside a logout and captures beside both.
LostOnlyIfCrossed == crossed \/ NoLostClient

(***************************************************************************)
(* What holds when requests do not overlap.                                *)
(***************************************************************************)

\* No deleted client is used or deleted again.
NoFault == ~fault

\* The handler implements one session that is opened and closed: a client counts
\* from the moment it is published, and ends with the delete.
S == INSTANCE Session WITH
       open    <- alive \ {client[t] : t \in {u \in Thread : pc[u] \in Spinning}},
       current <- IF client_cache \in alive THEN client_cache ELSE NULL

ImplementsSession == S!Spec

(***************************************************************************)
(* The inductive invariants MrhcHandlerProofs rests on.                    *)
(***************************************************************************)

\* A thread calls or deletes what it read from the global, never NULL.
HoldsClient == \A t \in Thread : pc[t] \in Using \cup {"delete"} => client[t] \in Client

OverlapInv == TypeOK /\ PrivateUntilPublished /\ HoldsClient /\ DanglingOnlyInWindow

\* What lines 77 and 108 found holds until 98 and 110, as long as no two cross there.
NotCrossed ==
  /\ ~Crossing
  /\ \A t \in Thread :
       /\ pc[t] \in Starting => client_cache = NULL
       /\ At(t, "delete") => client[t] = client_cache /\ client_cache \in alive
       /\ At(t, "reset") => client_cache \notin alive \cup {NULL}
  /\ NoLostClient

CrossInv == crossed \/ NotCrossed

\* One request at a time.
OneAtATime == \A t, u \in Thread : t # u => At(t, "idle") \/ At(u, "idle")

\* What line 77 found still holds at the line the thread has reached.
CacheAsTested == \A t \in Thread :
  /\ pc[t] \in {"auth"} \cup Spinning => client_cache = NULL
  /\ pc[t] \in {"confirm", "logout", "delete", "load"} \cup Using => client_cache \in alive
  /\ pc[t] \in {"delete"} \cup Using => client[t] = client_cache
  /\ pc[t] = "reset" => client_cache \notin alive \cup {NULL}

SerialInv == OneAtATime /\ CacheAsTested /\ NoFault /\ NoLostClient

=============================================================================
