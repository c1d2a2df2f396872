-------------------------- MODULE MrhcHandlerProofs --------------------------
(***************************************************************************)
(* What the handler guarantees for any number of worker threads and any    *)
(* number of clients.                                                      *)
(***************************************************************************)
EXTENDS MrhcHandler, TLAPS

LEMMA InitOverlap == Init => OverlapInv
  BY NullAssumption DEF Init, OverlapInv, TypeOK, PrivateUntilPublished, HoldsClient,
     DanglingOnlyInWindow, Label, Spinning, Using

LEMMA OverlapStep == OverlapInv /\ [Next]_vars => OverlapInv'
<1> SUFFICES ASSUME OverlapInv, [Next]_vars PROVE OverlapInv'
  OBVIOUS
<1> USE NullAssumption
<1>1. TypeOK /\ PrivateUntilPublished /\ HoldsClient /\ DanglingOnlyInWindow
  BY DEF OverlapInv
<1>16. crossed' \in BOOLEAN
  BY <1>1 DEF Next, vars, TypeOK, Crossing
<1> USE <1>1, <1>16
<1>2. ASSUME NEW t \in Thread, Request(t) PROVE OverlapInv'
  BY <1>2 DEF Request, At, Goto, OverlapInv, TypeOK, PrivateUntilPublished, HoldsClient,
     DanglingOnlyInWindow, Label, Spinning, Using
<1>3. ASSUME NEW t \in Thread, CheckCache(t) PROVE OverlapInv'
  BY <1>3 DEF CheckCache, At, Goto, OverlapInv, TypeOK, PrivateUntilPublished,
     HoldsClient,
     DanglingOnlyInWindow, Label, Spinning, Using
<1>4. ASSUME NEW t \in Thread, Authorize(t) PROVE OverlapInv'
  BY <1>4 DEF Authorize, Free, At, Goto, Return, Hold, OverlapInv, TypeOK,
     PrivateUntilPublished, HoldsClient, DanglingOnlyInWindow, Label, Spinning, Using
<1>5. ASSUME NEW t \in Thread, Spin(t) PROVE OverlapInv'
  BY <1>5 DEF Spin, Use, At, Goto, OverlapInv, TypeOK, PrivateUntilPublished, HoldsClient,
     DanglingOnlyInWindow, Label, Spinning, Using
<1>6. ASSUME NEW t \in Thread, Publish(t) PROVE OverlapInv'
  BY <1>6 DEF Publish, At, Goto, Return, OverlapInv, TypeOK, PrivateUntilPublished,
     HoldsClient, DanglingOnlyInWindow, Label, Spinning, Using
<1>7. ASSUME NEW t \in Thread, Confirm(t) PROVE OverlapInv'
  BY <1>7 DEF Confirm, At, Goto, OverlapInv, TypeOK, PrivateUntilPublished, HoldsClient,
     DanglingOnlyInWindow, Label, Spinning, Using
<1>8. ASSUME NEW t \in Thread, Logout(t) PROVE OverlapInv'
  BY <1>8 DEF Logout, At, Goto, Return, Hold, OverlapInv, TypeOK, PrivateUntilPublished,
     HoldsClient, DanglingOnlyInWindow, Label, Spinning, Using
<1>9. ASSUME NEW t \in Thread, Delete(t) PROVE OverlapInv'
  BY <1>9 DEF Delete, At, Goto, OverlapInv, TypeOK, PrivateUntilPublished, HoldsClient,
     DanglingOnlyInWindow, Label, Spinning, Using
<1>10. ASSUME NEW t \in Thread, Reset(t) PROVE OverlapInv'
  BY <1>10 DEF Reset, At, Goto, Return, OverlapInv, TypeOK, PrivateUntilPublished,
     HoldsClient, DanglingOnlyInWindow, Label, Spinning, Using
<1>11. ASSUME NEW t \in Thread, Load(t) PROVE OverlapInv'
  BY <1>11 DEF Load, At, Goto, Return, Hold, OverlapInv, TypeOK, PrivateUntilPublished,
     HoldsClient, DanglingOnlyInWindow, Label, Spinning, Using
<1>12. ASSUME NEW t \in Thread, Operate(t) \/ Capture(t) PROVE OverlapInv'
  <2>1. PICK l \in {"idle", "capture", "jpeg"} : pc' = [pc EXCEPT ![t] = l]
    BY <1>12 DEF Operate, Capture, Call, Goto, Return
  <2>2. pc[t] \in Using /\ UNCHANGED <<client_cache, alive>> /\ fault' \in BOOLEAN
    BY <1>12 DEF Operate, Capture, Call, Use, At, TypeOK, Using
  <2>3. client' = client \/ (l = "idle" /\ client' = [client EXCEPT ![t] = NULL])
    BY <1>12, <2>1 DEF Operate, Capture, Call, Goto, Return, TypeOK
  <2> QED
    BY <2>1, <2>2, <2>3 DEF OverlapInv, TypeOK, PrivateUntilPublished, HoldsClient,
       DanglingOnlyInWindow, At, Label, Spinning, Using
<1>13. ASSUME NEW t \in Thread, SendJpeg(t) PROVE OverlapInv'
  BY <1>13 DEF SendJpeg, Use, At, Goto, Return, OverlapInv, TypeOK, PrivateUntilPublished,
     HoldsClient, DanglingOnlyInWindow, Label, Spinning, Using
<1>14. ASSUME NEW t \in Thread, Abort(t) PROVE OverlapInv'
  BY <1>14 DEF Abort, OverlapInv, TypeOK, PrivateUntilPublished, HoldsClient,
     DanglingOnlyInWindow, Label, Spinning, Using
<1>15. CASE UNCHANGED vars
  BY <1>15 DEF vars, At, OverlapInv, TypeOK, PrivateUntilPublished, HoldsClient,
     DanglingOnlyInWindow
<1> QED
  BY <1>2, <1>3, <1>4, <1>5, <1>6, <1>7, <1>8, <1>9, <1>10, <1>11, <1>12, <1>13, <1>14,
     <1>15
  DEF Next, Handle

\* However requests overlap, no method is called through NULL, a client that
\* spins is private to its thread, and the global dangles only while some thread
\* is between the delete and the reset.
THEOREM OverlapSafe ==
  Spec => [](TypeOK /\ NoNullUse /\ PrivateUntilPublished /\ DanglingOnlyInWindow)
<1>1. OverlapInv => TypeOK /\ NoNullUse /\ PrivateUntilPublished /\ DanglingOnlyInWindow
  BY NullAssumption DEF OverlapInv, TypeOK, NoNullUse, PrivateUntilPublished, HoldsClient,
     Using, Spinning
<1> QED
  BY InitOverlap, OverlapStep, <1>1, PTL DEF Spec

\* The state keeps its shape, whatever a request carries and whatever the methods
\* return.
COROLLARY HandlerTyped == Spec => []TypeOK
  BY OverlapSafe, PTL

\* Line 118 loads client_cache again, after the test of line 77; the test of NULL in
\* mrhc_throw keeps a call through NULL away however many threads log out between.
COROLLARY NeverCallsNull == Spec => []NoNullUse
  BY OverlapSafe, PTL

\* Nobody else can hold a client that mrhc_spin still works on, so that a handshake is
\* never shared, however many first requests come at once.
COROLLARY SpinsAlone == Spec => []PrivateUntilPublished
  BY OverlapSafe, PTL

-----------------------------------------------------------------------------

LEMMA InitCross == Init => CrossInv
  BY DEF Init, CrossInv, NotCrossed, Crossing, NoLostClient, At, Starting, Ending,
     Spinning

LEMMA CrossStep == OverlapInv /\ CrossInv /\ [Next]_vars => CrossInv'
<1> SUFFICES ASSUME OverlapInv, CrossInv, [Next]_vars, ~crossed' PROVE NotCrossed'
  BY DEF CrossInv
<1> USE NullAssumption
<1>1. TypeOK /\ PrivateUntilPublished /\ HoldsClient /\ DanglingOnlyInWindow
  BY DEF OverlapInv
<1>2. CASE UNCHANGED vars
  BY <1>1, <1>2 DEF vars, At, CrossInv, NotCrossed, Crossing, NoLostClient
<1>3. SUFFICES ASSUME Next PROVE NotCrossed'
  BY <1>2
<1>4. NotCrossed /\ ~Crossing'
  BY <1>3 DEF CrossInv, Next
<1> USE <1>1
<1>5. ASSUME NEW t \in Thread, Request(t) PROVE NotCrossed'
  BY <1>5, <1>4 DEF Request, At, Goto, NotCrossed, Crossing, NoLostClient, TypeOK,
     PrivateUntilPublished, HoldsClient, Label, Starting, Ending, Spinning, Using
<1>6. ASSUME NEW t \in Thread, CheckCache(t) PROVE NotCrossed'
  BY <1>6, <1>4 DEF CheckCache, At, Goto, NotCrossed, Crossing, NoLostClient, TypeOK,
     PrivateUntilPublished, HoldsClient, Label, Starting, Ending, Spinning, Using
<1>7. ASSUME NEW t \in Thread, Authorize(t) PROVE NotCrossed'
  BY <1>7, <1>4 DEF Authorize, Free, Return, Hold, At, Goto, NotCrossed, Crossing,
     NoLostClient, TypeOK,
     PrivateUntilPublished, HoldsClient, Label, Starting, Ending, Spinning, Using
<1>8. ASSUME NEW t \in Thread, Spin(t) PROVE NotCrossed'
  BY <1>8, <1>4 DEF Spin, Use, At, Goto, NotCrossed, Crossing, NoLostClient, TypeOK,
     PrivateUntilPublished, HoldsClient, Label, Starting, Ending, Spinning, Using
<1>9. ASSUME NEW t \in Thread, Publish(t) PROVE NotCrossed'
  BY <1>9, <1>4 DEF Publish, Return, At, Goto, NotCrossed, Crossing, NoLostClient, TypeOK,
     PrivateUntilPublished, HoldsClient, Label, Starting, Ending, Spinning, Using
<1>10. ASSUME NEW t \in Thread, Confirm(t) PROVE NotCrossed'
  BY <1>10, <1>4 DEF Confirm, At, Goto, NotCrossed, Crossing, NoLostClient, TypeOK,
     PrivateUntilPublished, HoldsClient, Label, Starting, Ending, Spinning, Using
<1>11. ASSUME NEW t \in Thread, Logout(t) PROVE NotCrossed'
  <2>1. CASE Return(t)
    BY <1>4, <1>11, <2>1 DEF Logout, Return, At, Goto, NotCrossed, NoLostClient, TypeOK,
       Starting, Ending, Spinning
  <2>2. CASE client_cache # NULL /\ Goto(t, "delete") /\ Hold(t, client_cache)
    <3>1. pc[t] = "logout" /\ UNCHANGED <<client_cache, alive>>
      BY <1>11 DEF Logout, At
    <3>2. ASSUME NEW u \in Thread, u # t
          PROVE  pc'[u] \notin Ending /\ pc'[u] = pc[u] /\ client'[u] = client[u]
      BY <1>4, <2>2, <3>2 DEF Crossing, Goto, Hold, TypeOK, Ending
    <3>3. client_cache \in alive
      BY <1>1, <2>2, <3>1, <3>2 DEF DanglingOnlyInWindow, At, Ending
    <3>4. pc'[t] = "delete" /\ client'[t] = client_cache
      BY <2>2 DEF Goto, Hold, TypeOK
    <3> QED
      BY <1>4, <2>2, <3>1, <3>2, <3>3, <3>4
      DEF NotCrossed, NoLostClient, At, Starting, Ending, Spinning
  <2> QED
    BY <1>11, <2>1, <2>2 DEF Logout
<1>12. ASSUME NEW t \in Thread, Delete(t) PROVE NotCrossed'
  <2>1. /\ client_cache \in alive /\ alive' = alive \ {client_cache}
        /\ UNCHANGED <<client_cache, client>>
        /\ pc[t] = "delete" /\ pc' = [pc EXCEPT ![t] = "reset"]
    BY <1>4, <1>12 DEF Delete, At, Goto, NotCrossed
  <2>2. NoLostClient'
    BY <1>4, <2>1 DEF NotCrossed, NoLostClient, TypeOK, Spinning
  <2>3. ASSUME NEW u \in Thread, u # t PROVE pc'[u] \notin Starting \cup Ending
    BY <1>4, <2>1, <2>3 DEF NotCrossed, Crossing, TypeOK, Ending
  <2>4. client_cache \notin alive' \cup {NULL} /\ pc'[t] = "reset"
    BY <2>1 DEF TypeOK
  <2> QED
    BY <1>4, <2>1, <2>2, <2>3, <2>4 DEF NotCrossed, At, Starting, Ending, Spinning
<1>13. ASSUME NEW t \in Thread, Reset(t) PROVE NotCrossed'
  BY <1>13, <1>4 DEF Reset, Return, At, Goto, NotCrossed, Crossing, NoLostClient, TypeOK,
     PrivateUntilPublished, HoldsClient, Label, Starting, Ending, Spinning, Using
<1>14. ASSUME NEW t \in Thread, Load(t) PROVE NotCrossed'
  BY <1>14, <1>4 DEF Load, Return, Hold, At, Goto, NotCrossed, Crossing, NoLostClient,
     TypeOK,
     PrivateUntilPublished, HoldsClient, Label, Starting, Ending, Spinning, Using
<1>15. ASSUME NEW t \in Thread, Operate(t) PROVE NotCrossed'
  BY <1>15, <1>4 DEF Operate, Call, Return, At, Goto, NotCrossed, Crossing,
     NoLostClient, TypeOK,
     PrivateUntilPublished, HoldsClient, Label, Starting, Ending, Spinning, Using
<1>16. ASSUME NEW t \in Thread, Capture(t) PROVE NotCrossed'
  BY <1>16, <1>4 DEF Capture, Call, Return, At, Goto, NotCrossed, Crossing,
     NoLostClient, TypeOK,
     PrivateUntilPublished, HoldsClient, Label, Starting, Ending, Spinning, Using
<1>17. ASSUME NEW t \in Thread, SendJpeg(t) PROVE NotCrossed'
  BY <1>17, <1>4 DEF SendJpeg, Return, At, Goto, NotCrossed, Crossing, NoLostClient,
     TypeOK,
     PrivateUntilPublished, HoldsClient, Label, Starting, Ending, Spinning, Using
<1>18. ASSUME NEW t \in Thread, Abort(t) PROVE NotCrossed'
  BY <1>18, <1>4 DEF Abort, At, NotCrossed, NoLostClient, Starting, Ending, Spinning
<1> QED
  BY <1>3, <1>5, <1>6, <1>7, <1>8, <1>9, <1>10, <1>11, <1>12, <1>13, <1>14, <1>15,
     <1>16, <1>17, <1>18
  DEF Next, Handle

\* However logins, logouts and captures overlap, as long as no two logins and no two
\* logouts do, no client is leaked.
THEOREM LostOnlyByCrossing == Spec => []LostOnlyIfCrossed
<1>1. CrossInv => LostOnlyIfCrossed
  BY DEF CrossInv, NotCrossed, LostOnlyIfCrossed
<1> QED
  BY InitOverlap, OverlapStep, InitCross, CrossStep, <1>1, PTL DEF Spec

-----------------------------------------------------------------------------

LEMMA InitSerial == Init => SerialInv
  BY DEF Init, SerialInv, OneAtATime, CacheAsTested, NoFault, NoLostClient, At, Spinning,
     Using

LEMMA SerialStep ==
  Serial /\ OverlapInv /\ SerialInv /\ [Next]_vars => SerialInv'
<1> SUFFICES ASSUME Serial, OverlapInv, SerialInv, [Next]_vars PROVE SerialInv'
  OBVIOUS
<1> USE NullAssumption
<1>2. ASSUME NEW t \in Thread, Request(t) PROVE SerialInv'
  BY <1>2 DEF Request, At, Goto, SerialInv, OneAtATime, CacheAsTested, NoFault,
     NoLostClient, OverlapInv, TypeOK, PrivateUntilPublished, HoldsClient,
     DanglingOnlyInWindow, Label, Spinning, Using
<1>3. ASSUME NEW t \in Thread, CheckCache(t) PROVE SerialInv'
  BY <1>3 DEF CheckCache, At, Goto, SerialInv, OneAtATime, CacheAsTested, NoFault,
     NoLostClient, OverlapInv, TypeOK, PrivateUntilPublished, HoldsClient,
     DanglingOnlyInWindow, Label, Spinning, Using
<1>4. ASSUME NEW t \in Thread, Authorize(t) PROVE SerialInv'
  BY <1>4 DEF Authorize, Free, Return, Hold, At, Goto, SerialInv, OneAtATime,
     CacheAsTested, NoFault,
     NoLostClient, OverlapInv, TypeOK, PrivateUntilPublished, HoldsClient,
     DanglingOnlyInWindow, Label, Spinning, Using
<1>5. ASSUME NEW t \in Thread, Spin(t) PROVE SerialInv'
  BY <1>5 DEF Spin, Use, At, Goto, SerialInv, OneAtATime, CacheAsTested, NoFault,
     NoLostClient, OverlapInv, TypeOK, PrivateUntilPublished, HoldsClient,
     DanglingOnlyInWindow, Label, Spinning, Using
<1>6. ASSUME NEW t \in Thread, Publish(t) PROVE SerialInv'
  BY <1>6 DEF Publish, Return, At, Goto, SerialInv, OneAtATime, CacheAsTested, NoFault,
     NoLostClient, OverlapInv, TypeOK, PrivateUntilPublished, HoldsClient,
     DanglingOnlyInWindow, Label, Spinning, Using
<1>7. ASSUME NEW t \in Thread, Confirm(t) PROVE SerialInv'
  BY <1>7 DEF Confirm, At, Goto, SerialInv, OneAtATime, CacheAsTested, NoFault,
     NoLostClient, OverlapInv, TypeOK, PrivateUntilPublished, HoldsClient,
     DanglingOnlyInWindow, Label, Spinning, Using
<1>8. ASSUME NEW t \in Thread, Logout(t) PROVE SerialInv'
  BY <1>8 DEF Logout, Return, Hold, At, Goto, SerialInv, OneAtATime, CacheAsTested,
     NoFault,
     NoLostClient, OverlapInv, TypeOK, PrivateUntilPublished, HoldsClient,
     DanglingOnlyInWindow, Label, Spinning, Using
<1>9. ASSUME NEW t \in Thread, Delete(t) PROVE SerialInv'
  BY <1>9 DEF Delete, At, Goto, SerialInv, OneAtATime, CacheAsTested, NoFault,
     NoLostClient, OverlapInv, TypeOK, PrivateUntilPublished, HoldsClient,
     DanglingOnlyInWindow, Label, Spinning, Using
<1>10. ASSUME NEW t \in Thread, Reset(t) PROVE SerialInv'
  BY <1>10 DEF Reset, Return, At, Goto, SerialInv, OneAtATime, CacheAsTested, NoFault,
     NoLostClient, OverlapInv, TypeOK, PrivateUntilPublished, HoldsClient,
     DanglingOnlyInWindow, Label, Spinning, Using
<1>11. ASSUME NEW t \in Thread, Load(t) PROVE SerialInv'
  BY <1>11 DEF Load, Return, Hold, At, Goto, SerialInv, OneAtATime, CacheAsTested,
     NoFault,
     NoLostClient, OverlapInv, TypeOK, PrivateUntilPublished, HoldsClient,
     DanglingOnlyInWindow, Label, Spinning, Using
<1>12. ASSUME NEW t \in Thread, Operate(t) PROVE SerialInv'
  BY <1>12 DEF Operate, Call, Use, Return, At, Goto, SerialInv, OneAtATime,
     CacheAsTested, NoFault,
     NoLostClient, OverlapInv, TypeOK, PrivateUntilPublished, HoldsClient,
     DanglingOnlyInWindow, Label, Spinning, Using
<1>13. ASSUME NEW t \in Thread, Capture(t) PROVE SerialInv'
  BY <1>13 DEF Capture, Call, Use, Return, At, Goto, SerialInv, OneAtATime,
     CacheAsTested, NoFault,
     NoLostClient, OverlapInv, TypeOK, PrivateUntilPublished, HoldsClient,
     DanglingOnlyInWindow, Label, Spinning, Using
<1>14. ASSUME NEW t \in Thread, SendJpeg(t) PROVE SerialInv'
  BY <1>14 DEF SendJpeg, Use, Return, At, Goto, SerialInv, OneAtATime, CacheAsTested,
     NoFault,
     NoLostClient, OverlapInv, TypeOK, PrivateUntilPublished, HoldsClient,
     DanglingOnlyInWindow, Label, Spinning, Using
<1>15. ASSUME NEW t \in Thread, Abort(t) PROVE SerialInv'
  BY <1>15 DEF Abort, At, SerialInv, OneAtATime, CacheAsTested, NoFault, NoLostClient,
     Spinning, Using
<1>16. CASE UNCHANGED vars
  BY <1>16 DEF vars, At, SerialInv, OneAtATime, CacheAsTested, NoFault, NoLostClient
<1> QED
  BY <1>2, <1>3, <1>4, <1>5, <1>6, <1>7, <1>8, <1>9, <1>10, <1>11, <1>12, <1>13, <1>14,
     <1>15, <1>16
  DEF Next, Handle

\* When requests do not overlap, no deleted client is used and none is leaked.
THEOREM SerialSafe == Serial => (Spec => [](NoFault /\ NoLostClient))
<1>1. SerialInv => NoFault /\ NoLostClient
  BY DEF SerialInv
<1>2. CASE Serial
  BY <1>1, <1>2, InitOverlap, OverlapStep, InitSerial, SerialStep, PTL DEF Spec
<1> QED
  BY <1>2

\* When requests do not overlap, every client that was made and not deleted is the one
\* client_cache names or the one a thread is about to store there.
COROLLARY SerialKeeps == Serial => (Spec => []NoLostClient)
<1>1. CASE Serial
  BY <1>1, SerialSafe, PTL
<1> QED
  BY <1>1

-----------------------------------------------------------------------------

LEMMA InitSession == Init => S!Init
  BY DEF Init, S!Init

\* Only the publication opens a session and only the delete closes one.
LEMMA SessionStep ==
  Serial /\ OverlapInv /\ SerialInv /\ [Next]_vars => [S!Next]_(S!vars)
<1> SUFFICES ASSUME Serial, OverlapInv, SerialInv, [Next]_vars PROVE [S!Next]_(S!vars)
  OBVIOUS
<1> USE NullAssumption
<1> DEFINE Private == {client[t] : t \in {u \in Thread : pc[u] \in Spinning}}
           Quiet   == Private' = Private /\ UNCHANGED <<client_cache, alive>>
<1>1. TypeOK /\ PrivateUntilPublished /\ CacheAsTested
  BY DEF OverlapInv, SerialInv
<1>2. Quiet => [S!Next]_(S!vars)
  BY DEF S!vars
<1>3. ASSUME NEW t \in Thread, NEW l \in Label \ Spinning, NEW p,
             pc[t] \notin Spinning, pc' = [pc EXCEPT ![t] = l],
             client' = [client EXCEPT ![t] = p] \/ client' = client
      PROVE  Private' = Private
  <2>1. {u \in Thread : pc'[u] \in Spinning} = {u \in Thread : pc[u] \in Spinning}
    BY <1>1, <1>3 DEF TypeOK
  <2>2. \A u \in Thread : pc[u] \in Spinning => client'[u] = client[u]
    BY <1>1, <1>3 DEF TypeOK
  <2> QED
    BY <2>1, <2>2
<1>4. ASSUME NEW t \in Thread,
             Request(t) \/ CheckCache(t) \/ Confirm(t) \/ Logout(t) \/ Load(t)
             \/ Operate(t) \/ Capture(t) \/ SendJpeg(t)
      PROVE  Quiet
  <2>1. UNCHANGED <<client_cache, alive>>
    BY <1>4 DEF Request, CheckCache, Confirm, Logout, Load, Operate, Capture, Call,
       SendJpeg
  <2>2. pc[t] \notin Spinning /\ \E l \in Label \ Spinning : pc' = [pc EXCEPT ![t] = l]
    BY <1>4 DEF Request, CheckCache, Confirm, Logout, Load, Operate, Capture, Call,
       SendJpeg,
       At, Goto, Return, Label, Spinning, Using
  <2>3. client' = client \/ \E p : client' = [client EXCEPT ![t] = p]
    BY <1>4 DEF Request, CheckCache, Confirm, Logout, Load, Operate, Capture, Call,
       SendJpeg,
       Return, Hold
  <2> QED
    BY <1>3, <2>1, <2>2, <2>3
<1>5. ASSUME NEW t \in Thread, Authorize(t) PROVE [S!Next]_(S!vars)
  <2>1. CASE Return(t) /\ UNCHANGED alive
    <3>1. Quiet
      BY <1>3, <1>5, <2>1 DEF Authorize, Return, Goto, At, Label, Spinning
    <3> QED
      BY <1>2, <3>1
  <2>2. ASSUME NEW c \in Free, alive' = alive \cup {c}, Hold(t, c), Goto(t, "spin")
        PROVE  [S!Next]_(S!vars)
    <3>1. Private' = Private \cup {c}
      <4>1. {u \in Thread : pc'[u] \in Spinning} =
              {u \in Thread : pc[u] \in Spinning} \cup {t}
        BY <1>1, <2>2 DEF Goto, TypeOK, Spinning
      <4>2. \A u \in Thread \ {t} : client'[u] = client[u]
        BY <1>1, <2>2 DEF Hold, TypeOK
      <4>3. client'[t] = c /\ pc[t] \notin Spinning
        BY <1>1, <1>5, <2>2 DEF Authorize, At, Hold, TypeOK, Spinning
      <4> QED
        BY <4>1, <4>2, <4>3
    <3>2. alive' \ Private' = alive \ Private
      BY <2>2, <3>1 DEF Free
    <3>3. (client_cache \in alive') <=> (client_cache \in alive)
      BY <2>2 DEF Free
    <3> QED
      BY <1>5, <3>2, <3>3 DEF S!vars, Authorize
  <2> QED
    BY <1>5, <2>1, <2>2 DEF Authorize
<1>6. ASSUME NEW t \in Thread, Spin(t) PROVE Quiet
  <2>1. {u \in Thread : pc'[u] \in Spinning} = {u \in Thread : pc[u] \in Spinning}
    BY <1>1, <1>6 DEF Spin, At, Goto, TypeOK, Spinning
  <2> QED
    BY <1>6, <2>1 DEF Spin
<1>7. ASSUME NEW t \in Thread, Publish(t) PROVE [S!Next]_(S!vars)
  <2>1. client[t] \in alive /\ client[t] \in Client /\ client_cache = NULL
    BY <1>1, <1>7 DEF Publish, At, PrivateUntilPublished, CacheAsTested, TypeOK, Spinning
  <2>2. {u \in Thread : pc[u] \in Spinning} = {t}
    BY <1>1, <1>7 DEF SerialInv, OneAtATime, Publish, At, Spinning
  <2>3. {u \in Thread : pc'[u] \in Spinning} = {}
    BY <1>1, <1>7, <2>2 DEF Publish, Return, Goto, TypeOK, Spinning
  <2>4. Private = {client[t]} /\ Private' = {}
    BY <2>2, <2>3
  <2>5. client_cache' = client[t] /\ alive' = alive
    BY <1>7 DEF Publish
  <2>6. \E c \in Client : S!Open(c)
    <3>1. PICK c \in Client : c = client[t]
      BY <2>1
    <3>2. S!Open(c)
      BY <2>1, <2>4, <2>5, <3>1 DEF S!Open
    <3> QED
      BY <3>2
  <2> QED
    BY <2>6 DEF S!Next
<1>8. ASSUME NEW t \in Thread, Delete(t) PROVE [S!Next]_(S!vars)
  <2>1. client[t] = client_cache /\ client_cache \in alive
    BY <1>1, <1>8 DEF Delete, At, CacheAsTested
  <2>2. alive' = alive \ {client_cache} /\ client_cache' = client_cache /\ client' = client
    BY <1>8, <2>1 DEF Delete
  <2>3. {u \in Thread : pc'[u] \in Spinning} = {u \in Thread : pc[u] \in Spinning}
    BY <1>1, <1>8 DEF Delete, At, Goto, TypeOK, Spinning
  <2>4. Private' = Private
    BY <2>2, <2>3
  <2>5. client_cache # NULL
    BY <1>1, <2>1 DEF TypeOK
  <2>6. S!Close
    BY <2>1, <2>2, <2>4, <2>5 DEF S!Close
  <2> QED
    BY <2>6 DEF S!Next
<1>9. ASSUME NEW t \in Thread, Reset(t) PROVE [S!Next]_(S!vars)
  <2>1. client_cache \notin alive /\ client_cache' = NULL /\ alive' = alive
    BY <1>1, <1>9 DEF Reset, At, CacheAsTested
  <2>2. Private' = Private
    BY <1>3, <1>9 DEF Reset, At, Return, Goto, Label, Spinning
  <2> QED
    BY <2>1, <2>2 DEF S!vars
<1>10. ASSUME NEW t \in Thread, Abort(t) PROVE [S!Next]_(S!vars)
  <2>1. alive \ Private \subseteq {client_cache} /\ alive' \ Private' = {}
    BY <1>10 DEF Abort, SerialInv, NoLostClient
  <2>2. client_cache \notin Private
    BY <1>1 DEF PrivateUntilPublished
  <2>3. client_cache \in alive => alive \ Private = {client_cache}
    BY <2>1, <2>2
  <2>4. CASE client_cache \in alive
    <3>1. client_cache # NULL
      BY <1>1, <2>4 DEF TypeOK
    <3>2. S!Close
      BY <1>10, <2>1, <2>3, <2>4, <3>1 DEF Abort, S!Close
    <3> QED
      BY <3>2 DEF S!Next
  <2>5. CASE client_cache \notin alive
    BY <1>10, <2>1, <2>5 DEF Abort, S!vars
  <2> QED
    BY <2>4, <2>5
<1>11. CASE UNCHANGED vars
  BY <1>11 DEF vars, S!vars
<1> QED
  BY <1>2, <1>4, <1>5, <1>6, <1>7, <1>8, <1>9, <1>10, <1>11 DEF Next, Handle

\* When requests do not overlap, the handler implements a session that is opened
\* and closed.
THEOREM SerialSession == Serial => (Spec => ImplementsSession)
<1>1. CASE Serial
  BY <1>1, InitOverlap, OverlapStep, InitSerial, SerialStep, InitSession, SessionStep, PTL
  DEF Spec, ImplementsSession, S!Spec
<1> QED
  BY <1>1

\* What Session itself keeps: the sessions that are open are the one that is named, or
\* none.
LEMMA SessionHolds == S!Spec => []S!OneSession
<1>1. S!Init => S!OneSession
  BY DEF S!Init, S!OneSession
<1>2. S!OneSession /\ [S!Next]_(S!vars) => S!OneSession'
  BY NullAssumption DEF S!OneSession, S!Next, S!Open, S!Close, S!vars
<1> QED
  BY <1>1, <1>2, PTL DEF S!Spec

\* Requests that do not overlap never leave a second session open, nor one that
\* client_cache does not name.
THEOREM SerialOneSession == Serial => (Spec => []S!OneSession)
<1>1. CASE Serial
  BY <1>1, SerialSession, SessionHolds, PTL DEF ImplementsSession
<1> QED
  BY <1>1

=============================================================================
