---------------------------- MODULE GlobalsProofs ----------------------------
(***************************************************************************)
(* The logger and the key register, for any number of threads, passwords   *)
(* and words.                                                              *)
(***************************************************************************)
EXTENDS Globals, TLAPS

LEMMA TypeInit == Init => TypeOK
  BY DEF Init, TypeOK, Creating, Answering

LEMMA TypeNext == TypeOK /\ [Next]_vars => TypeOK'
<1> SUFFICES ASSUME TypeOK, [Next]_vars PROVE TypeOK'
  OBVIOUS
<1> USE DEF TypeOK, Goto, log_vars, des_vars, Creating, Answering
<1>1. ASSUME NEW t \in Thread, GetLogger(t) PROVE TypeOK'
  <2>1. raced' \in BOOLEAN
    BY <1>1, Zenon DEF GetLogger
  <2>2. pc' \in [Thread -> {"idle", "write"} \cup Creating \cup Answering]
    BY <1>1 DEF GetLogger
  <2> QED
    BY <1>1, <2>1, <2>2 DEF GetLogger
<1>2. ASSUME NEW t \in Thread, Create(t) PROVE TypeOK'
  BY <1>2 DEF Create
<1>3. ASSUME NEW t \in Thread, Open(t) PROVE TypeOK'
  <2>1. good' \in BOOLEAN /\ opened' \in BOOLEAN
    BY <1>3, Zenon DEF Open
  <2> QED
    BY <1>3, <2>1 DEF Open
<1>4. ASSUME NEW t \in Thread, Write(t) PROVE TypeOK'
  <2>1. good' \in BOOLEAN
    BY <1>4, Zenon DEF Write
  <2> QED
    BY <1>4, <2>1 DEF Write
<1>5. ASSUME NEW t \in Thread, Deskey(t) PROVE TypeOK'
  <2>0. PICK p \in Password : \E k \in KeysOf(p) :
          /\ password' = [password EXCEPT ![t] = p]
          /\ key' = [key EXCEPT ![t] = k]
    BY <1>5 DEF Deskey
  <2>1. PICK k \in KeysOf(p) :
          /\ password' = [password EXCEPT ![t] = p]
          /\ key' = [key EXCEPT ![t] = k]
    BY <2>0
  <2>2. k \in Key
    BY <2>1 DEF KeysOf, Key
  <2> QED
    BY <1>5, <2>1, <2>2 DEF Deskey
<1>6. ASSUME NEW t \in Thread, UseKey(t) PROVE TypeOK'
  BY <1>6 DEF UseKey
<1>7. ASSUME NEW t \in Thread, UsedKey(t) PROVE TypeOK'
  BY <1>7 DEF UsedKey
<1>8. ASSUME NEW t \in Thread, Des(t) PROVE TypeOK'
  BY <1>8 DEF Des
<1>9. ASSUME NEW t \in Thread, NextBlock(t) PROVE TypeOK'
  BY <1>9 DEF NextBlock
<1>10. CASE UNCHANGED vars
  BY <1>10 DEF vars
<1> QED
  BY <1>1, <1>2, <1>3, <1>4, <1>5, <1>6, <1>7, <1>8, <1>9, <1>10 DEF Next

THEOREM GlobalsTyped == Spec => []TypeOK
  BY TypeInit, TypeNext, PTL DEF Spec

-----------------------------------------------------------------------------

LEMMA LogInit == Init => LogInv
  BY DEF Init, LogInv, Creating

LEMMA LogNext == TypeOK /\ LogInv /\ [Next]_vars => LogInv'
<1> SUFFICES ASSUME TypeOK, LogInv, [Next]_vars PROVE LogInv'
  OBVIOUS
<1> USE DEF Goto, log_vars, Creating, Answering
<1>0. pc \in [Thread -> {"idle", "write"} \cup Creating \cup Answering]
  BY DEF TypeOK
<1>1. ASSUME NEW t \in Thread, GetLogger(t) PROVE LogInv'
  <2> SUFFICES ASSUME ~raced' PROVE LogInv'
    BY DEF LogInv
  <2>1. ~raced /\ UNCHANGED <<instance, opened, good>>
    BY <1>1 DEF GetLogger
  <2>2. CASE instance
    <3>1. pc' = [pc EXCEPT ![t] = "write"] /\ pc[t] = "idle"
      BY <1>1, <2>2 DEF GetLogger
    <3> QED
      BY <1>0, <2>1, <2>2, <3>1 DEF LogInv
  <2>3. CASE ~instance
    <3>1. pc' = [pc EXCEPT ![t] = "create"] /\ \A u \in Thread \ {t} : pc[u] \notin Creating
      BY <1>1, <2>3 DEF GetLogger
    <3> QED
      BY <1>0, <2>1, <2>3, <3>1 DEF LogInv
  <2> QED
    BY <2>2, <2>3
<1>2. ASSUME NEW t \in Thread, Create(t) PROVE LogInv'
  BY <1>0, <1>2 DEF Create, LogInv
<1>3. ASSUME NEW t \in Thread, Open(t) PROVE LogInv'
  <2> SUFFICES ASSUME ~raced' PROVE LogInv'
    BY DEF LogInv
  <2>1. ~raced /\ instance /\ ~opened /\ instance' = instance
    BY <1>3 DEF Open, LogInv
  <2>2. opened' /\ good'
    BY <1>3, <2>1 DEF Open
  <2>3. \A u \in Thread : pc'[u] \notin Creating
    BY <1>0, <1>3, <2>1 DEF Open, LogInv
  <2> QED
    BY <2>1, <2>2, <2>3 DEF LogInv
<1>4. ASSUME NEW t \in Thread, Write(t) PROVE LogInv'
  <2> SUFFICES ASSUME ~raced' PROVE LogInv'
    BY DEF LogInv
  <2>1. ~raced /\ UNCHANGED <<instance, opened>> /\ (opened /\ good => good')
    BY <1>4 DEF Write
  <2>2. \A u \in Thread : pc'[u] \in Creating <=> pc[u] \in Creating
    BY <1>0, <1>4 DEF Write
  <2>3. \A u \in Thread : pc[u] \in Creating => pc'[u] = pc[u]
    BY <1>0, <1>4 DEF Write
  <2> QED
    BY <2>1, <2>2, <2>3 DEF LogInv
<1>5. ASSUME UNCHANGED log_vars, \A u \in Thread : pc'[u] = pc[u] \/ {pc[u], pc'[u]} \cap Creating = {}
      PROVE  LogInv'
  BY <1>5 DEF LogInv
<1>6. ASSUME NEW t \in Thread, Deskey(t) \/ UseKey(t) \/ UsedKey(t) \/ Des(t) \/ NextBlock(t)
      PROVE  LogInv'
  <2>1. UNCHANGED log_vars
    BY <1>6 DEF Deskey, UseKey, UsedKey, Des, NextBlock
  <2>2. UNCHANGED pc \/ \E p \in {"idle"} \cup Answering :
          pc[t] \in {"idle"} \cup Answering /\ pc' = [pc EXCEPT ![t] = p]
    BY <1>6 DEF Deskey, UseKey, UsedKey, Des, NextBlock
  <2> QED
    BY <1>0, <1>5, <2>1, <2>2
<1>7. CASE UNCHANGED vars
  BY <1>5, <1>7 DEF vars
<1> QED
  BY <1>1, <1>2, <1>3, <1>4, <1>6, <1>7 DEF Next

\* The log dies only of two threads that create the logger at once.
THEOREM LogSafe == Spec => []LogKept
<1>1. TypeOK /\ LogInv /\ [Next]_vars => TypeOK' /\ LogInv'
  BY TypeNext, LogNext
<1>2. LogInv => LogKept
  BY DEF LogInv, LogKept
<1> QED
  BY TypeInit, LogInit, <1>1, <1>2, PTL DEF Spec

-----------------------------------------------------------------------------

LEMMA DesInit == Init => DesInv
  BY NoneAssumption DEF Init, DesInv, Answering

\* One thread moves, and what the others rely on stays.
LEMMA DesNext == TypeOK /\ DesInv /\ [Next]_vars => DesInv'
<1> SUFFICES ASSUME TypeOK, DesInv, [Next]_vars PROVE DesInv'
  OBVIOUS
<1> USE DEF TypeOK, Goto, des_vars, Answering, Own
<1>1. ASSUME NEW t \in Thread, UNCHANGED des_vars, pc[t] \notin Answering,
             \E p \in {"idle", "write"} \cup Creating : pc' = [pc EXCEPT ![t] = p]
      PROVE  DesInv'
  BY <1>1 DEF DesInv, Creating
<1>2. ASSUME NEW t \in Thread, GetLogger(t) \/ Create(t) \/ Open(t) \/ Write(t) PROVE DesInv'
  <2>1. UNCHANGED des_vars /\ pc[t] \notin Answering
    BY <1>2 DEF GetLogger, Create, Open, Write
  <2>2. \E p \in {"idle", "write"} \cup Creating : pc' = [pc EXCEPT ![t] = p]
    BY <1>2 DEF GetLogger, Create, Open, Write, Creating
  <2> QED
    BY <1>1, <2>1, <2>2
<1>3. ASSUME NEW t \in Thread, Deskey(t) PROVE DesInv'
  <2>1. PICK p \in Password : \E k \in KeysOf(p) :
          /\ password' = [password EXCEPT ![t] = p]
          /\ key' = [key EXCEPT ![t] = k]
    BY <1>3 DEF Deskey
  <2>2. PICK k \in KeysOf(p) : key' = [key EXCEPT ![t] = k]
    BY <2>1
  <2>3. p \notin Short => k = p
    BY <2>2 DEF KeysOf
  <2>4. /\ pc' = [pc EXCEPT ![t] = "usekey"] /\ todo' = [todo EXCEPT ![t] = Word]
        /\ used' = [used EXCEPT ![t] = {}] /\ meddled' = [meddled EXCEPT ![t] = {}]
        /\ block' = [block EXCEPT ![t] = 1] /\ KnL' = KnL
        /\ password' = [password EXCEPT ![t] = p]
    BY <1>3, <2>1 DEF Deskey
  <2> QED
    BY <2>2, <2>3, <2>4 DEF DesInv
<1>4. ASSUME NEW t \in Thread, UseKey(t) PROVE DesInv'
  <2>1. PICK w \in todo[t] : /\ KnL' = [KnL EXCEPT ![w] = key[t]]
                             /\ todo' = [todo EXCEPT ![t] = @ \ {w}]
    BY <1>4 DEF UseKey
  <2>2. /\ pc[t] = "usekey" /\ UNCHANGED <<pc, password, key, block, used>>
        /\ meddled' = [u \in Thread |-> IF u # t /\ pc[u] \in Answering
                                        THEN meddled[u] \cup {key[t]} ELSE meddled[u]]
    BY <1>4 DEF UseKey
  <2>3. \A u \in Thread : Own(u) \subseteq Own(u)' /\ todo'[u] = (IF u = t THEN todo[t] \ {w} ELSE todo[u])
    BY <2>1, <2>2
  <2>4. \A u \in Thread : pc[u] \in Answering => key[t] \in Own(u)'
    BY <2>2
  <2>5. \A v \in Word : KnL'[v] = (IF v = w THEN key[t] ELSE KnL[v])
    BY <2>1
  <2> SUFFICES ASSUME NEW u \in Thread
               PROVE  /\ password[u] \in Password \ Short => key[u] = password[u]
                      /\ pc[u] = "usekey" => /\ \A v \in Word \ todo'[u] : KnL'[v] \in Own(u)'
                                             /\ used[u] = {} /\ block[u] = 1
                      /\ pc[u] = "des" => /\ \A v \in Word : KnL'[v] \in Own(u)'
                                          /\ used[u] = {} => block[u] = 1 /\ todo'[u] = Word
                      /\ used[u] \subseteq Own(u)'
                      /\ pc[u] \notin Answering /\ password[u] \in Password => used[u] # {}
                      /\ pc[u] \in Answering => password[u] \in Password
    BY <2>2 DEF DesInv
  <2> HIDE DEF Own
  <2> QED
    BY <2>2, <2>3, <2>4, <2>5 DEF DesInv
<1>5. ASSUME NEW t \in Thread, UsedKey(t) PROVE DesInv'
  BY <1>5 DEF UsedKey, DesInv
<1>6. ASSUME NEW t \in Thread, Des(t) PROVE DesInv'
  BY <1>6 DEF Des, DesInv
<1>7. ASSUME NEW t \in Thread, NextBlock(t) PROVE DesInv'
  BY <1>7, WordAssumption DEF NextBlock, DesInv
<1>8. CASE UNCHANGED vars
  BY <1>8 DEF vars, DesInv
<1> QED
  BY <1>2, <1>3, <1>4, <1>5, <1>6, <1>7, <1>8 DEF Next

\* Only a different key that another thread stores meanwhile, or a short password, makes
\* a response wrong.
THEOREM ResponsesRight == Spec => []ResponseRight
<1>1. TypeOK /\ DesInv /\ [Next]_vars => TypeOK' /\ DesInv'
  BY TypeNext, DesNext
<1>2. TypeOK /\ DesInv => ResponseRight
  <2> SUFFICES ASSUME TypeOK, DesInv, NEW t \in Thread,
                      pc[t] = "idle", password[t] \in Password \ Short,
                      meddled[t] \subseteq {password[t]}
               PROVE  used[t] = {password[t]}
    BY DEF ResponseRight
  <2>1. Own(t) = {password[t]}
    BY DEF DesInv, Own
  <2>2. used[t] \subseteq Own(t) /\ used[t] # {}
    BY DEF DesInv, Answering
  <2> QED
    BY <2>1, <2>2
<1> QED
  BY TypeInit, DesInit, <1>1, <1>2, PTL DEF Spec

=============================================================================
