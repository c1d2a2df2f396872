--------------------------- MODULE VncSessionProofs ---------------------------
(***************************************************************************)
(* vnc_client against the server, for any versions, screen and bounds:     *)
(* a client that takes itself for authenticated is, the two sides mean the *)
(* same by a handshake that failed, and a client that was spun reads whole *)
(* messages and draws whole updates, each one a capture further back for   *)
(* every message that answered one in its place.                           *)
(***************************************************************************)
EXTENDS VncSession, VncClientProofs

\* A message of two units, put behind an empty stream, is what waits there.
LEMMA MessageOfTwo ==
  ASSUME NEW a \in Nat, NEW b \in Nat
  PROVE  /\ Message(<<a, b>>) \in Seq(Unit)
         /\ Len(Message(<<a, b>>)) = 2
         /\ Message(<<a, b>>)[1].v = a /\ Message(<<a, b>>)[2].v = b
         /\ ~Message(<<a, b>>)[2].head
<1>1. <<a, b>> \in Seq(Nat) /\ Len(<<a, b>>) = 2 /\ <<a, b>>[1] = a /\ <<a, b>>[2] = b
  OBVIOUS
<1>2. Message(<<a, b>>) \in Seq(Unit) /\ Len(Message(<<a, b>>)) = 2
  BY <1>1, MessageTyped
<1>3. 1 \in 1..2 /\ 2 \in 1..2 /\ ~(2 = 1)
  OBVIOUS
<1>4. Message(<<a, b>>)[1].v = a /\ Message(<<a, b>>)[2].v = b /\ ~Message(<<a, b>>)[2].head
  BY <1>1, <1>3, MessageUnit
<1> QED
  BY <1>2, <1>4

LEMMA PutOnEmpty ==
  ASSUME NEW a \in Nat, NEW b \in Nat, s2c = <<>>, Put(<<a, b>>)
  PROVE  Pending(a, b)'
<1>1. s2c' = Message(<<a, b>>)
  BY MessageOfTwo, ConcatEmptySeq DEF Put
<1> QED
  BY <1>1, MessageOfTwo DEF Pending

\* A read leaves a whole stream only between two messages.
LEMMA ReadEnds ==
  ASSUME s2c \in Seq(Unit), s2c # <<>>, conn = "up", NEW max \in Nat \ {0}, NEW n \in Lengths(max),
         Read(n, max), ~torn'
  PROVE  /\ n \in 1..Least(max, Len(s2c)) /\ s2c' = SubSeq(s2c, n + 1, Len(s2c))
         /\ n < Least(max, Len(s2c)) => s2c[n + 1].head
  BY DEF Lengths, Read

\* A read of a field that is there in full, and nothing else, is whole only if it
\* takes all of it.
LEMMA WholeRead ==
  ASSUME NEW a, NEW b, Pending(a, b), NEW max \in {2, 4}, NEW n \in Lengths(max),
         Read(n, max), ~torn', conn = "up"
  PROVE  n = 2 /\ s2c' = <<>> /\ Field(n, 1) = a /\ Field(n, 2) = b
<1>1. Len(s2c) = 2 /\ s2c # <<>> /\ s2c \in Seq(Unit) /\ ~s2c[2].head
  BY EmptySeq DEF Pending
<1>2. /\ n \in 1..Least(max, Len(s2c)) /\ s2c' = SubSeq(s2c, n + 1, Len(s2c))
      /\ n < Least(max, Len(s2c)) => s2c[n + 1].head
  BY <1>1, ReadEnds
<1>3. Least(max, Len(s2c)) = 2
  BY <1>1 DEF Least
<1>4. n # 1
  BY <1>1, <1>2, <1>3
<1>5. n = 2
  BY <1>2, <1>3, <1>4
<1>6. s2c' = <<>>
  BY <1>1, <1>2, <1>5, SubSeqEmpty
<1> QED
  BY <1>5, <1>6 DEF Field, Pending

\* On an open connection recv waits for something to read.
LEMMA NothingToRead ==
  ASSUME conn \in {"up", "connecting"}, s2c = <<>>, NEW max \in Nat \ {0}
  PROVE  Lengths(max) = {}
  BY DEF Lengths

-----------------------------------------------------------------------------

LEMMA AuthInit == SessionInit => AuthInv
  BY DEF SessionInit, Init, ServerInit, AuthInv, Spinning, Throwing, Granted, Whole

\* A client that connects finds the server as a fresh one is.
LEMMA ConnectStep == ASSUME AuthInv, ConnectToServer, UNCHANGED serverVars PROVE AuthInv'
<1>1. srv' = srv /\ s2c' = s2c /\ c2s' = c2s /\ torn' = torn /\ rv' = rv
  BY DEF ConnectToServer, serverVars
<1>2. conn = "down" /\ srv = "listen" /\ s2c = <<>> /\ c2s = <<>> /\ spun = "no"
  BY DEF ConnectToServer, AuthInv
<1>3. CASE conn' = "up" /\ Goto("recv_version")
  BY <1>1, <1>2, <1>3 DEF Goto, AuthInv, Exchange, Spinning, Throwing, Granted, Whole
<1>4. CASE conn' = "connecting" /\ Goto("select")
  BY <1>1, <1>2, <1>4 DEF Goto, AuthInv, Spinning, Throwing, Granted, Whole
<1>5. CASE Fail /\ UNCHANGED conn
  BY <1>1, <1>2, <1>5 DEF Fail, AuthInv, Spinning, Throwing, Granted, Whole
<1> QED
  BY <1>3, <1>4, <1>5 DEF ConnectToServer

LEMMA SelectStep == ASSUME AuthInv, Select, UNCHANGED serverVars PROVE AuthInv'
<1>1. /\ srv' = srv /\ s2c' = s2c /\ c2s' = c2s /\ torn' = torn /\ rv' = rv /\ conn' = conn
      /\ spun = "no" /\ pc = "select"
  BY DEF Select, serverVars, AuthInv, Spinning, Throwing
<1>2. CASE Fail
  BY <1>1, <1>2 DEF Fail, AuthInv, Spinning, Throwing, Granted, Whole
<1>3. CASE conn # "connecting" /\ Goto("recv_version")
  <2>1. Whole' => Exchange'
    <3> SUFFICES ASSUME Whole' PROVE Exchange'
      OBVIOUS
    <3>1. Exchange
      BY <1>1 DEF AuthInv, Whole
    <3>2. pc' = "recv_version"
      BY <1>3 DEF Goto
    <3> QED
      BY <1>1, <3>1, <3>2 DEF Exchange, Pending, Granted
  <2> QED
    BY <1>1, <1>3, <2>1 DEF Goto, AuthInv, Spinning, Throwing, Granted, Whole
<1> QED
  BY <1>2, <1>3 DEF Select

\* A method that returns false ends the handshake for good.
LEMMA FailStep ==
  ASSUME AuthInv, spun = "no", pc # "select", pc # "idle", Fail, conn' \in {conn, "down"}
  PROVE  AuthInv'
  BY DEF Fail, AuthInv, Spinning, Throwing, Granted, Whole

\* Neither does a step on a stream that is, or turns out to be, less than whole do harm.
LEMMA TornStep ==
  ASSUME AuthInv, pc \in Spinning, pc # "select", pc' \in Spinning, UNCHANGED spun,
         UNCHANGED conn, ~Whole'
  PROVE  AuthInv'
  BY DEF AuthInv, Spinning, Throwing, Granted, Whole

\* What is left to show of the others.
LEMMA WholeStep ==
  ASSUME AuthInv, pc \in Spinning, pc # "select", pc' \in Spinning, UNCHANGED spun,
         UNCHANGED conn, Whole' => Exchange'
  PROVE  AuthInv'
  BY DEF AuthInv, Spinning, Throwing, Granted, Whole

LEMMA VersionStep == ASSUME AuthInv, RecvProtocolVersion, UNCHANGED serverVars PROVE AuthInv'
<1>1. /\ srv' = srv /\ c2s' = c2s /\ rv' = rv /\ conn' = conn /\ pc = "recv_version"
      /\ pc \in Spinning /\ spun = "no" /\ pc # "select" /\ pc # "idle"
  BY DEF RecvProtocolVersion, serverVars, AuthInv, Spinning, Throwing
<1>2. CASE Fail
  BY <1>1, <1>2, FailStep
<1>3. ASSUME NEW n \in Lengths(2), Read(n, 2), Goto("send_version") PROVE AuthInv'
  <2>1. pc' = "send_version" /\ pc' \in Spinning /\ UNCHANGED <<spun, conn>>
    BY <1>1, <1>3 DEF Goto, Spinning
  <2>2. ASSUME Whole' PROVE Exchange'
    <3>1. Whole /\ ~torn' /\ conn = "up"
      BY <1>1, <1>3, <2>2 DEF Whole, Read
    <3>2. Exchange
      BY <1>1, <3>1 DEF AuthInv
    <3>3. srv = "version" /\ Pending(82, rv) /\ c2s = <<>>
      BY <1>1, <1>3, <3>1, <3>2, NothingToRead DEF Exchange
    <3>4. s2c' = <<>>
      BY <1>3, <3>1, <3>3, WholeRead
    <3> QED
      BY <1>1, <2>1, <3>3, <3>4 DEF Exchange, Granted
  <2> QED
    BY <1>1, <2>1, <2>2, WholeStep
<1> QED
  BY <1>2, <1>3 DEF RecvProtocolVersion, RecvError

LEMMA SendVersionStep == ASSUME AuthInv, SendProtocolVersion, UNCHANGED serverVars PROVE AuthInv'
<1>1. /\ srv' = srv /\ s2c' = s2c /\ rv' = rv /\ conn' = conn /\ pc = "send_version"
      /\ pc \in Spinning /\ spun = "no" /\ pc # "select" /\ pc # "idle" /\ torn' = torn
  BY DEF SendProtocolVersion, Send, serverVars, AuthInv, Spinning, Throwing
<1>2. CASE Fail
  BY <1>1, <1>2, FailStep
<1>3. CASE Goto("recv_types")
  <2>1. pc' = "recv_types" /\ pc' \in Spinning /\ UNCHANGED <<spun, conn>>
    BY <1>1, <1>3 DEF Goto, Spinning
  <2>2. ASSUME Whole' PROVE Exchange'
    <3>1. Whole /\ Exchange /\ conn = "up"
      BY <1>1, <2>2 DEF Whole, AuthInv
    <3>2. c2s' = <<Msg("version")>>
      BY <1>1, <3>1 DEF SendProtocolVersion, Send, Exchange
    <3> QED
      BY <1>1, <2>1, <3>1, <3>2 DEF Exchange, Granted, Msg
  <2> QED
    BY <1>1, <2>1, <2>2, WholeStep
<1> QED
  BY <1>2, <1>3 DEF SendProtocolVersion, Send

\* A 3.3 server has sent its type and its challenge: a read takes the type, or both.
LEMMA ReadFirst ==
  ASSUME NEW n \in Lengths(4), s2c = Message(<<0, 2>>) \o Message(<<7, 8>>),
         Read(n, 4), ~torn', conn = "up"
  PROVE  Pending(7, 8)' \/ s2c' = <<>>
<1>1. /\ s2c \in Seq(Unit) /\ Len(s2c) = 4 /\ s2c[2] = Message(<<0, 2>>)[2]
      /\ s2c[3] = Message(<<7, 8>>)[1] /\ s2c[4] = Message(<<7, 8>>)[2] /\ s2c # <<>>
  <2> DEFINE a == Message(<<0, 2>>)
             b == Message(<<7, 8>>)
  <2>1. a \in Seq(Unit) /\ Len(a) = 2 /\ b \in Seq(Unit) /\ Len(b) = 2 /\ s2c = a \o b
    <3>1. 0 \in Nat /\ 2 \in Nat /\ 7 \in Nat /\ 8 \in Nat
      OBVIOUS
    <3>2. a \in Seq(Unit) /\ Len(a) = 2
      BY <3>1, MessageOfTwo
    <3>3. b \in Seq(Unit) /\ Len(b) = 2
      BY <3>1, MessageOfTwo
    <3> QED
      BY <3>2, <3>3
  <2> HIDE DEF a, b
  <2>2. /\ a \o b \in Seq(Unit) /\ Len(a \o b) = Len(a) + Len(b)
        /\ \A i \in 1..Len(a) + Len(b) : (a \o b)[i] = IF i <= Len(a) THEN a[i] ELSE b[i - Len(a)]
    BY <2>1, ConcatProperties
  <2>3. /\ s2c \in Seq(Unit) /\ Len(s2c) = 4 /\ s2c[2] = a[2] /\ s2c[3] = b[1] /\ s2c[4] = b[2]
    <3>1. Len(a) + Len(b) = 4 /\ 2 \in 1..4 /\ 3 \in 1..4 /\ 4 \in 1..4
      BY <2>1
    <3>2. (a \o b)[2] = a[2] /\ (a \o b)[3] = b[1] /\ (a \o b)[4] = b[2]
      BY <2>1, <2>2, <3>1
    <3>3. a \o b \in Seq(Unit) /\ Len(a \o b) = 4
      BY <2>2, <3>1
    <3> QED
      BY <2>1, <3>2, <3>3
  <2>4. s2c # <<>>
    BY <2>3, EmptySeq
  <2> QED
    BY <2>3, <2>4 DEF a, b
<1>2. /\ n \in 1..Least(4, Len(s2c)) /\ s2c' = SubSeq(s2c, n + 1, Len(s2c))
      /\ n < Least(4, Len(s2c)) => s2c[n + 1].head
  <2>1. 4 \in Nat \ {0} /\ s2c \in Seq(Unit) /\ s2c # <<>>
    BY <1>1
  <2> QED
    BY <2>1, ReadEnds
<1>3. ~s2c[2].head /\ ~s2c[4].head /\ s2c[3].v = 7 /\ s2c[4].v = 8
  <2>1. 0 \in Nat /\ 2 \in Nat /\ 7 \in Nat /\ 8 \in Nat
    OBVIOUS
  <2>2. ~Message(<<0, 2>>)[2].head
    BY <2>1, MessageOfTwo
  <2>3. /\ ~Message(<<7, 8>>)[2].head
        /\ Message(<<7, 8>>)[1].v = 7 /\ Message(<<7, 8>>)[2].v = 8
    BY <2>1, MessageOfTwo
  <2> QED
    BY <1>1, <2>2, <2>3
<1>4. n # 1 /\ n # 3
  BY <1>1, <1>2, <1>3 DEF Least
<1>5. n \in {2, 4}
  BY <1>1, <1>2, <1>4 DEF Least
<1>6. CASE n = 2
  <2>1. s2c' = SubSeq(s2c, 3, 4)
    BY <1>1, <1>2, <1>6
  <2>2. \A i \in 3..4 : s2c[i] \in Unit
    BY <1>1, ElementOfSeq
  <2>3. /\ SubSeq(s2c, 3, 4) \in Seq(Unit) /\ Len(SubSeq(s2c, 3, 4)) = 2
        /\ SubSeq(s2c, 3, 4)[1] = s2c[3] /\ SubSeq(s2c, 3, 4)[2] = s2c[4]
    BY <1>1
  <2> QED
    BY <1>3, <2>1, <2>3 DEF Pending
<1>7. CASE n = 4
  BY <1>1, <1>2, <1>7, SubSeqEmpty
<1> QED
  BY <1>5, <1>6, <1>7

LEMMA TypesStep == ASSUME AuthInv, RecvSupportedSecurityTypes, UNCHANGED serverVars PROVE AuthInv'
<1>1. /\ srv' = srv /\ c2s' = c2s /\ rv' = rv /\ conn' = conn /\ pc = "recv_types"
      /\ pc \in Spinning /\ spun = "no" /\ pc # "select" /\ pc # "idle"
  BY DEF RecvSupportedSecurityTypes, serverVars, AuthInv, Spinning, Throwing
<1>2. CASE Fail
  BY <1>1, <1>2, FailStep
<1>3. ASSUME NEW n \in Lengths(4), Read(n, 4), Goto("send_type") PROVE AuthInv'
  <2>1. pc' = "send_type" /\ pc' \in Spinning /\ UNCHANGED <<spun, conn>>
    BY <1>1, <1>3 DEF Goto, Spinning, Granted
  <2>2. ASSUME Whole' PROVE Exchange'
    <3>1. Whole /\ ~torn' /\ conn = "up"
      BY <1>1, <1>3, <2>2 DEF Whole, Read
    <3>2. Exchange
      BY <1>1, <3>1 DEF AuthInv
    <3>3. \/ srv = "type" /\ c2s = <<>> /\ Pending(1, 2)
          \/ srv = "denied" /\ c2s = <<>> /\ Pending(0, 5)
          \/ srv = "response" /\ c2s = <<>> /\ s2c = Message(<<0, 2>>) \o Message(<<7, 8>>)
      BY <1>1, <1>3, <3>1, <3>2, NothingToRead DEF Exchange
    <3>4. CASE /\ c2s = <<>>
               /\ (srv = "type" /\ Pending(1, 2)) \/ (srv = "denied" /\ Pending(0, 5))
      <4>1. s2c' = <<>>
        BY <1>3, <3>1, <3>4, WholeRead
      <4> QED
        BY <1>1, <2>1, <3>4, <4>1 DEF Exchange, Granted
    <3>5. CASE /\ srv = "response" /\ c2s = <<>>
               /\ s2c = Message(<<0, 2>>) \o Message(<<7, 8>>)
      <4>1. Pending(7, 8)' \/ s2c' = <<>>
        BY <1>3, <3>1, <3>5, ReadFirst
      <4> QED
        BY <1>1, <2>1, <3>5, <4>1 DEF Exchange, Granted
    <3> QED
      BY <3>3, <3>4, <3>5
  <2> QED
    BY <1>1, <2>1, <2>2, WholeStep
<1> QED
  BY <1>2, <1>3 DEF RecvSupportedSecurityTypes, RecvError


LEMMA SendTypeStep == ASSUME AuthInv, SendSecurityType, UNCHANGED serverVars PROVE AuthInv'
<1>1. /\ srv' = srv /\ s2c' = s2c /\ torn' = torn /\ rv' = rv /\ conn' = conn /\ pc = "send_type"
      /\ pc \in Spinning /\ spun = "no" /\ pc # "select" /\ pc # "idle"
  BY DEF SendSecurityType, Send, serverVars, AuthInv, Spinning, Throwing
<1>2. CASE Fail
  BY <1>1, <1>2, FailStep
<1>3. CASE Goto("recv_challenge")
  <2>1. pc' = "recv_challenge" /\ pc' \in Spinning /\ UNCHANGED <<spun, conn>>
    BY <1>1, <1>3 DEF Goto, Spinning, Granted
  <2>2. ASSUME Whole' PROVE Exchange'
    <3>1. Whole /\ Exchange /\ conn = "up"
      BY <1>1, <2>2 DEF Whole, AuthInv
    <3>2. c2s = <<>> /\ c2s' = <<Msg("type")>>
      BY <1>1, <3>1 DEF SendSecurityType, Send, Exchange
    <3>3. Pending(7, 8) => Pending(7, 8)'
      BY <1>1 DEF Pending
    <3> QED
      BY <1>1, <2>1, <3>1, <3>2, <3>3 DEF Exchange, Granted, Msg
  <2> QED
    BY <1>1, <2>1, <2>2, WholeStep
<1> QED
  BY <1>2, <1>3 DEF SendSecurityType, Send


LEMMA ChallengeStep == ASSUME AuthInv, RecvVncAuthChallenge, UNCHANGED serverVars PROVE AuthInv'
<1>1. /\ srv' = srv /\ c2s' = c2s /\ rv' = rv /\ conn' = conn /\ pc = "recv_challenge"
      /\ pc \in Spinning /\ spun = "no" /\ pc # "select" /\ pc # "idle"
  BY DEF RecvVncAuthChallenge, serverVars, AuthInv, Spinning, Throwing
<1>2. CASE Fail
  BY <1>1, <1>2, FailStep
<1>3. ASSUME NEW n \in Lengths(2), Read(n, 2), Goto("send_response") PROVE AuthInv'
  <2>1. pc' = "send_response" /\ pc' \in Spinning /\ UNCHANGED <<spun, conn>>
    BY <1>1, <1>3 DEF Goto, Spinning, Granted
  <2>2. ASSUME Whole' PROVE Exchange'
    <3>1. Whole /\ ~torn' /\ conn = "up"
      BY <1>1, <1>3, <2>2 DEF Whole, Read
    <3>2. Exchange
      BY <1>1, <3>1 DEF AuthInv
    <3>3. srv = "response" /\ c2s \in {<<>>, <<Msg("type")>>} /\ Pending(7, 8)
      BY <1>1, <1>3, <3>1, <3>2, NothingToRead DEF Exchange
    <3>4. s2c' = <<>>
      BY <1>3, <3>1, <3>3, WholeRead
    <3> QED
      BY <1>1, <2>1, <3>3, <3>4 DEF Exchange, Granted, Msg
  <2> QED
    BY <1>1, <2>1, <2>2, WholeStep
<1> QED
  BY <1>2, <1>3 DEF RecvVncAuthChallenge, RecvError


LEMMA SendResponseStep == ASSUME AuthInv, SendVncAuthResponse, UNCHANGED serverVars PROVE AuthInv'
<1>1. /\ srv' = srv /\ s2c' = s2c /\ torn' = torn /\ rv' = rv /\ conn' = conn /\ pc = "send_response"
      /\ pc \in Spinning /\ spun = "no" /\ pc # "select" /\ pc # "idle"
  BY DEF SendVncAuthResponse, Send, serverVars, AuthInv, Spinning, Throwing
<1>2. CASE Fail
  BY <1>1, <1>2, FailStep
<1>3. CASE Goto("recv_result")
  <2>1. pc' = "recv_result" /\ pc' \in Spinning /\ UNCHANGED <<spun, conn>>
    BY <1>1, <1>3 DEF Goto, Spinning, Granted
  <2>2. ASSUME Whole' PROVE Exchange'
    <3>1. Whole /\ Exchange /\ conn = "up"
      BY <1>1, <2>2 DEF Whole, AuthInv
    <3>2. c2s' = Append(c2s, Response) /\ Response' = Response
      BY <1>1, <3>1 DEF SendVncAuthResponse, Send, Response, client
    <3>3. srv = "response" /\ c2s \in {<<>>, <<Msg("type")>>} /\ s2c = <<>>
      BY <1>1, <3>1 DEF Exchange
    <3>4. c2s' = <<Response>> \/ Head(c2s') = Msg("type")
      <4>1. CASE c2s = <<>>
        BY <3>2, <4>1
      <4>2. CASE c2s = <<Msg("type")>>
        <5>1. Head(Append(<<Msg("type")>>, Response)) = Msg("type")
          OBVIOUS
        <5> QED
          BY <3>2, <4>2, <5>1
      <4> QED
        BY <3>3, <4>1, <4>2
    <3> QED
      BY <1>1, <2>1, <3>2, <3>3, <3>4 DEF Exchange, Granted, Msg
  <2> QED
    BY <1>1, <2>1, <2>2, WholeStep
<1> QED
  BY <1>2, <1>3 DEF SendVncAuthResponse, Send


LEMMA ResultStep == ASSUME AuthInv, RecvSecurityResult, UNCHANGED serverVars PROVE AuthInv'
<1>1. /\ srv' = srv /\ c2s' = c2s /\ rv' = rv /\ conn' = conn /\ pc = "recv_result"
      /\ pc \in Spinning /\ spun = "no" /\ pc # "select" /\ pc # "idle"
  BY DEF RecvSecurityResult, serverVars, AuthInv, Spinning, Throwing
<1>2. CASE Fail
  BY <1>1, <1>2, FailStep
<1>3. ASSUME NEW n \in Lengths(2), Read(n, 2), Field(n, 2) = 0, Goto("send_client_init") PROVE AuthInv'
  <2>1. pc' = "send_client_init" /\ pc' \in Spinning /\ UNCHANGED <<spun, conn>>
    BY <1>1, <1>3 DEF Goto, Spinning, Granted
  <2>2. ASSUME Whole' PROVE Exchange'
    <3>1. Whole /\ ~torn' /\ conn = "up"
      BY <1>1, <1>3, <2>2 DEF Whole, Read
    <3>2. Exchange
      BY <1>1, <3>1 DEF AuthInv
    <3>3. srv = "init" \/ Denial
      BY <1>1, <1>3, <3>1, <3>2, NothingToRead DEF Exchange
    <3>4. ~Denial
      <4> SUFFICES ASSUME Denial PROVE FALSE
        OBVIOUS
      <4>1. s2c \in Seq(Unit) /\ Len(s2c) >= 2 /\ s2c # <<>> /\ ~s2c[2].head /\ Len(s2c) \in Nat
        BY EmptySeq DEF Denial
      <4>2. n \in 1..Least(2, Len(s2c)) /\ (n < Least(2, Len(s2c)) => s2c[n + 1].head)
        BY <1>3, <3>1, <4>1, ReadEnds
      <4>3. n = 2
        BY <4>1, <4>2 DEF Least
      <4> QED
        BY <1>3, <4>3 DEF Field, Denial
    <3> QED
      BY <1>1, <2>1, <3>3, <3>4 DEF Exchange, Granted
  <2> QED
    BY <1>1, <2>1, <2>2, WholeStep
<1> QED
  BY <1>2, <1>3 DEF RecvSecurityResult, RecvError


\* Past the result nothing the two say matters any more.
LEMMA SendClientInitStep == ASSUME AuthInv, SendClientInit, UNCHANGED serverVars PROVE AuthInv'
<1>1. /\ srv' = srv /\ s2c' = s2c /\ torn' = torn /\ rv' = rv /\ conn' = conn /\ pc = "send_client_init"
      /\ pc \in Spinning /\ spun = "no" /\ pc # "select" /\ pc # "idle"
  BY DEF SendClientInit, Send, serverVars, AuthInv, Spinning, Throwing
<1>2. CASE Fail
  BY <1>1, <1>2, FailStep
<1>3. CASE Goto("recv_server_init")
  <2>1. pc' = "recv_server_init" /\ pc' \in Spinning /\ UNCHANGED <<spun, conn>>
    BY <1>1, <1>3 DEF Goto, Spinning, Granted
  <2>2. ASSUME Whole' PROVE Exchange'
    <3>1. Whole /\ Exchange /\ conn = "up"
      BY <1>1, <2>2 DEF Whole, AuthInv
    <3> QED
      BY <1>1, <2>1, <3>1 DEF Exchange, Granted
  <2> QED
    BY <1>1, <2>1, <2>2, WholeStep
<1> QED
  BY <1>2, <1>3 DEF SendClientInit, Send


LEMMA ServerInitStep == ASSUME AuthInv, RecvServerInit, UNCHANGED serverVars PROVE AuthInv'
<1>1. /\ srv' = srv /\ c2s' = c2s /\ rv' = rv /\ conn' = conn /\ pc = "recv_server_init"
      /\ pc \in Spinning /\ spun = "no" /\ pc # "select" /\ pc # "idle"
  BY DEF RecvServerInit, serverVars, AuthInv, Spinning, Throwing
<1>2. CASE Fail
  BY <1>1, <1>2, FailStep
<1>3. ASSUME NEW n, Read(n, 2 + NameRoom), Goto("send_format") PROVE AuthInv'
  <2>1. pc' = "send_format" /\ pc' \in Spinning /\ UNCHANGED <<spun, conn>>
    BY <1>1, <1>3 DEF Goto, Spinning, Granted
  <2>2. ASSUME Whole' PROVE Exchange'
    <3>1. Whole /\ ~torn' /\ conn = "up"
      BY <1>1, <1>3, <2>2 DEF Whole, Read
    <3>2. Exchange
      BY <1>1, <3>1 DEF AuthInv
    <3> QED
      BY <1>1, <2>1, <3>2 DEF Exchange, Granted
  <2> QED
    BY <1>1, <2>1, <2>2, WholeStep
<1> QED
  BY <1>2, <1>3 DEF RecvServerInit, RecvError


LEMMA ServerInitCrashStep ==
  ASSUME AuthInv, RecvServerInitCrashes, UNCHANGED serverVars PROVE AuthInv'
<1>1. pc' = "gone" /\ conn' = "down"
  BY DEF RecvServerInitCrashes, Close
<1> QED
  BY <1>1 DEF AuthInv, Spinning, Throwing, Granted, Whole

LEMMA FormatStep == ASSUME AuthInv, SendSetPixelFormat, UNCHANGED serverVars PROVE AuthInv'
<1>1. /\ srv' = srv /\ s2c' = s2c /\ torn' = torn /\ rv' = rv /\ conn' = conn /\ pc = "send_format"
      /\ pc \in Spinning /\ spun = "no" /\ pc # "select" /\ pc # "idle"
  BY DEF SendSetPixelFormat, Send, serverVars, AuthInv, Spinning, Throwing
<1>2. CASE Fail
  BY <1>1, <1>2, FailStep
<1>3. CASE Goto("send_encodings")
  <2>1. pc' = "send_encodings" /\ pc' \in Spinning /\ UNCHANGED <<spun, conn>>
    BY <1>1, <1>3 DEF Goto, Spinning, Granted
  <2>2. ASSUME Whole' PROVE Exchange'
    <3>1. Whole /\ Exchange /\ conn = "up"
      BY <1>1, <2>2 DEF Whole, AuthInv
    <3> QED
      BY <1>1, <2>1, <3>1 DEF Exchange, Granted
  <2> QED
    BY <1>1, <2>1, <2>2, WholeStep
<1> QED
  BY <1>2, <1>3 DEF SendSetPixelFormat, Send

LEMMA EncodingsStep == ASSUME AuthInv, SendSetEncodings, UNCHANGED serverVars PROVE AuthInv'
<1>1. /\ srv' = srv /\ torn' = torn /\ conn' = conn /\ pc = "send_encodings" /\ pc' = "idle"
      /\ spun = "no" /\ spun' \in {"ok", "failed"}
  BY DEF SendSetEncodings, serverVars, AuthInv, Spinning, Throwing, Granted
<1>2. Whole => srv \in {"init", "serving"}
  BY <1>1 DEF AuthInv, Exchange, Granted
<1> QED
  BY <1>1, <1>2 DEF AuthInv, Spinning, Throwing, Granted, Whole

-----------------------------------------------------------------------------

\* Where a request is under way.
Busy == Throwing \ {"gone"}

\* A request never makes a client that failed believe anything, nor the server forget.
LEMMA ThrowStep ==
  ASSUME AuthInv, pc \in Busy \/ (pc = "idle" /\ spun # "no"),
         pc' \in {"idle"} \cup Throwing, pc' = "gone" => conn' = "down",
         UNCHANGED <<spun, srv>>, conn' \in {conn, "down"}, torn => torn'
  PROVE  AuthInv'
  BY DEF AuthInv, Busy, Spinning, Throwing, Granted, Whole

\* A failure is no failure of the handshake any more.
LEMMA ThrowFails ==
  ASSUME AuthInv, pc \in Busy, Fail
  PROVE  pc' = "idle" /\ UNCHANGED spun
  BY DEF AuthInv, Busy, Fail

LEMMA HandlerTyped == \A type \in 0..3 : Handler(type) \in Busy
  BY DEF Handler, Busy, Throwing

LEMMA RequestStep == ASSUME AuthInv, Throw, UNCHANGED serverVars PROVE AuthInv'
  BY ThrowStep DEF Throw, Goto, Throwing, serverVars

LEMMA DestroyStep == ASSUME AuthInv, Destroy, UNCHANGED serverVars PROVE AuthInv'
  BY ThrowStep DEF Destroy, Close, Throwing, serverVars

LEMMA CaptureStep == ASSUME AuthInv, Capture, UNCHANGED serverVars PROVE AuthInv'
<1>1. srv' = srv /\ Busy \subseteq Throwing /\ "idle" \notin Busy /\ "gone" \notin Busy
  BY DEF serverVars, Busy, Throwing
<1>2. ASSUME NEW from \in Busy, NEW msg, NEW to \in {"idle"} \cup Busy, Send(from, msg, to)
      PROVE  AuthInv'
  <2>1. pc \in Busy /\ UNCHANGED <<conn, torn>> /\ (Goto(to) \/ Fail)
    BY <1>2 DEF Send
  <2>2. pc' \in {"idle"} \cup Busy /\ UNCHANGED spun
    BY <2>1, ThrowFails DEF Goto
  <2> QED
    BY <1>1, <2>1, <2>2, ThrowStep
<1>3. ASSUME pc \in Busy, UNCHANGED conn, RecvError PROVE AuthInv'
  BY <1>1, <1>3, ThrowStep, ThrowFails DEF RecvError
<1>4. ASSUME pc \in Busy, UNCHANGED conn, pc' \in {"idle"} \cup Busy, UNCHANGED spun,
             torn => torn'
      PROVE  AuthInv'
  BY <1>1, <1>4, ThrowStep
<1>5. CASE SendKeyEvent
  BY <1>2, <1>5 DEF SendKeyEvent, Busy, Throwing
<1>6. CASE SendPointerEvent
  BY <1>2, <1>6 DEF SendPointerEvent, Busy, Throwing
<1>7. CASE SendFrameBufferUpdateRequest
  BY <1>2, <1>7 DEF SendFrameBufferUpdateRequest, Busy, Throwing
<1>8. CASE RecvServerToClientMessage
  <2>1. pc \in Busy /\ UNCHANGED conn
    BY <1>8 DEF RecvServerToClientMessage, Busy, Throwing
  <2>2. ASSUME NEW n \in Lengths(1), Read(n, 1),
               IF Field(n, 1) \in 0..3 THEN Goto(Handler(Field(n, 1))) ELSE Fail
        PROVE  AuthInv'
    <3>1. pc' \in {"idle"} \cup Busy /\ UNCHANGED spun
      BY <2>1, <2>2, HandlerTyped, ThrowFails DEF Goto
    <3> QED
      BY <1>4, <2>1, <2>2, <3>1 DEF Read
  <2> QED
    BY <1>3, <1>8, <2>1, <2>2 DEF RecvServerToClientMessage
<1>9. ASSUME NEW from \in Busy, NEW more \in Busy, NEW none \in Busy,
             RecvHeader(from, more, none)
      PROVE  AuthInv'
  <2>1. pc \in Busy /\ UNCHANGED conn
    BY <1>9 DEF RecvHeader
  <2>2. ASSUME NEW n \in Lengths(2), Read(n, 2), Goto(IF Field(n, 2) > 0 THEN more ELSE none)
        PROVE  AuthInv'
    BY <1>4, <2>1, <2>2 DEF Goto, Read
  <2> QED
    BY <1>3, <1>9, <2>1, <2>2 DEF RecvHeader
<1>10. CASE RecvFrameBufferUpdate \/ RecvSetColourMapEntries \/ RecvServerCutText
  BY <1>9, <1>10 DEF RecvFrameBufferUpdate, RecvSetColourMapEntries, RecvServerCutText, Busy,
     Throwing
<1>11. CASE RecvRectangle
  <2>1. pc \in Busy /\ UNCHANGED conn
    BY <1>11 DEF RecvRectangle, Busy, Throwing
  <2>2. ASSUME NEW n \in Lengths(2), Read(n, 2), Fail \/ Goto("recv_pixels") \/ NextRectangle
        PROVE  AuthInv'
    <3>1. pc' \in {"idle"} \cup Busy /\ UNCHANGED spun
      BY <2>1, <2>2, ThrowFails DEF Goto, NextRectangle, Busy, Throwing
    <3> QED
      BY <1>4, <2>1, <2>2, <3>1 DEF Read
  <2> QED
    BY <1>3, <1>11, <2>1, <2>2 DEF RecvRectangle
<1>12. CASE RecvPixels
  <2>1. pc \in Busy /\ UNCHANGED conn
    BY <1>12 DEF RecvPixels, Busy, Throwing
  <2>2. ASSUME NEW n, NEW m, TakePixels(n, m) PROVE AuthInv'
    <3>1. pc' \in {"idle"} \cup Busy /\ UNCHANGED spun
      BY <2>1, <2>2 DEF TakePixels, Goto, NextRectangle, Busy, Throwing
    <3> QED
      BY <1>4, <2>1, <2>2, <3>1 DEF TakePixels
  <2> QED
    BY <1>3, <1>12, <2>1, <2>2 DEF RecvPixels
<1>13. CASE RecvPixelsSpins
  BY <1>1, <1>13, ThrowStep DEF RecvPixelsSpins, clientVars, Busy, Throwing
<1>14. CASE RecvColour
  <2>1. pc \in Busy /\ UNCHANGED conn
    BY <1>14 DEF RecvColour, Busy, Throwing
  <2>2. ASSUME NEW n \in Lengths(1), Read(n, 1),
               Goto(IF todo > 1 THEN "recv_colour" ELSE "draw")
        PROVE  AuthInv'
    <3>1. pc' \in {"idle"} \cup Busy /\ UNCHANGED spun
      BY <2>2 DEF Goto, Busy, Throwing
    <3> QED
      BY <1>4, <2>1, <2>2, <3>1 DEF Read
  <2> QED
    BY <1>3, <1>14, <2>1, <2>2 DEF RecvColour
<1>15. CASE RecvText
  <2>1. pc \in Busy /\ UNCHANGED conn
    BY <1>15 DEF RecvText, Busy, Throwing
  <2>2. ASSUME NEW n \in Lengths(todo), Read(n, todo), Goto("draw") PROVE AuthInv'
    <3>1. pc' \in {"idle"} \cup Busy /\ UNCHANGED spun
      BY <2>2 DEF Goto, Busy, Throwing
    <3> QED
      BY <1>4, <2>1, <2>2, <3>1 DEF Read
  <2> QED
    BY <1>3, <1>15, <2>1, <2>2 DEF RecvText
<1>16. CASE DrawImage
  BY <1>1, <1>16, ThrowStep DEF DrawImage, Goto, Busy, Throwing
<1>17. CASE DrawImageCrashes
  BY <1>1, <1>17, ThrowStep DEF DrawImageCrashes, Close, Busy, Throwing
<1>18. CASE RecvTextCrashes
  BY <1>1, <1>18, ThrowStep DEF RecvTextCrashes, Close, Busy, Throwing
<1> QED
  BY <1>5, <1>6, <1>7, <1>8, <1>10, <1>11, <1>12, <1>13, <1>14, <1>15, <1>16, <1>17, <1>18
  DEF Capture

\* What a capture leaves alone.
LEMMA CaptureFrame ==
  ASSUME AuthInv, Typed, Capture, UNCHANGED serverVars
  PROVE  /\ spun # "no" /\ pc' \in {"idle"} \cup Throwing
         /\ UNCHANGED <<spun, width, configured>>
         /\ conn' \in {conn, "down"} /\ (torn => torn') /\ (overlong => overlong')
         /\ pc # "recv_pixels" => image_buf' \in {image_buf, <<>>}
         /\ pc' = "recv_pixels" => configured \/ pc = "recv_pixels"
<1>1. pc \in Busy
  BY DEF Capture, SendKeyEvent, SendPointerEvent, SendFrameBufferUpdateRequest, Send,
     RecvServerToClientMessage, RecvFrameBufferUpdate, RecvRectangle, RecvPixels,
     RecvPixelsSpins, RecvSetColourMapEntries, RecvColour, RecvServerCutText, RecvText,
     RecvTextCrashes, DrawImage, DrawImageCrashes, RecvHeader, Throwing, Busy, clientVars
<1>2. spun # "no"
  BY <1>1 DEF AuthInv, Busy
<1>3. /\ UNCHANGED <<spun, width, configured>>
      /\ conn' \in {conn, "down"} /\ (torn => torn') /\ (overlong => overlong')
      /\ pc # "recv_pixels" => image_buf' \in {image_buf, <<>>}
      /\ pc' = "recv_pixels" => configured \/ pc = "recv_pixels"
  BY <1>2, CaptureKeeps
<1>4. pc' \in {"idle"} \cup Throwing
  BY <1>2, <1>3, CaptureStep DEF AuthInv
<1> QED
  BY <1>2, <1>3, <1>4

-----------------------------------------------------------------------------

\* A step of the server on a connection that is up.
LEMMA ServeFrame ==
  ASSUME AuthInv, UNCHANGED clientState, conn = "up", conn' \in {"up", "closed", "down"},
         Whole /\ spun = "no" /\ pc \in Spinning /\ conn' = "up" => Exchange',
         Whole /\ spun = "ok" => srv' \in {"init", "serving"}
  PROVE  AuthInv'
  BY DEF AuthInv, clientState, Spinning, Throwing, Granted, Whole

\* While the client shakes hands the server may rely on Exchange.
LEMMA Shaking == ASSUME AuthInv, Whole, spun = "no", pc \in Spinning PROVE Exchange
  BY DEF AuthInv

LEMMA AcceptStep == ASSUME AuthInv, AcceptConnection, UNCHANGED clientState PROVE AuthInv'
<1>1. conn = "up" /\ conn' = conn /\ pc' = pc /\ srv = "listen" /\ srv' = "version"
  BY DEF AcceptConnection, clientState
<1>2. ASSUME Whole, spun = "no", pc \in Spinning PROVE Exchange'
  <2>1. pc \in {"select", "recv_version"} /\ c2s = <<>> /\ s2c = <<>>
    BY <1>1, <1>2, Shaking DEF Exchange, Spinning, Denial
  <2>2. Pending(82, rv)' /\ c2s' = <<>>
    <3>1. rv' \in Nat /\ Put(<<82, rv'>>) /\ c2s' = c2s
      BY VersionsAssumption DEF AcceptConnection
    <3>2. s2c' = Message(<<82, rv'>>)
      BY <2>1, <3>1, MessageOfTwo, ConcatEmptySeq DEF Put
    <3>3. /\ Message(<<82, rv'>>) \in Seq(Unit) /\ Len(Message(<<82, rv'>>)) = 2
          /\ Message(<<82, rv'>>)[1].v = 82 /\ Message(<<82, rv'>>)[2].v = rv'
          /\ ~Message(<<82, rv'>>)[2].head
      BY <3>1, MessageOfTwo
    <3> QED
      BY <2>1, <3>1, <3>2, <3>3 DEF Pending
  <2> QED
    BY <1>1, <2>1, <2>2 DEF Exchange, Granted
<1>3. ~(Whole /\ spun = "ok")
  BY <1>1 DEF AuthInv
<1> QED
  BY <1>1, <1>2, <1>3, ServeFrame

LEMMA AnswerStep == ASSUME AuthInv, AnswerVersion, UNCHANGED clientState PROVE AuthInv'
<1>1. conn = "up" /\ conn' = conn /\ pc' = pc /\ srv = "version"
  BY DEF AnswerVersion, clientState
<1>2. ASSUME Whole, spun = "no", pc \in Spinning PROVE Exchange'
  <2>1. pc = "recv_types" /\ c2s = <<Msg("version")>> /\ s2c = <<>>
    BY <1>1, <1>2, Shaking DEF AnswerVersion, Take, Exchange, Spinning, Denial
  <2>2. c2s' = <<>>
    BY <2>1 DEF AnswerVersion, Take
  <2>3. CASE srv' = "type" /\ Put(<<1, 2>>)
    <3>1. Pending(1, 2)'
      BY <2>1, <2>3, PutOnEmpty
    <3> QED
      BY <1>1, <2>1, <2>2, <2>3, <3>1 DEF Exchange, Granted
  <2>4. CASE srv' = "response" /\ s2c' = s2c \o Message(<<0, 2>>) \o Message(<<7, 8>>)
    <3>1. s2c' = Message(<<0, 2>>) \o Message(<<7, 8>>)
      BY <2>1, <2>4, MessageOfTwo, ConcatEmptySeq
    <3> QED
      BY <1>1, <2>1, <2>2, <2>4, <3>1 DEF Exchange, Granted, Message
  <2> QED
    BY <2>3, <2>4 DEF AnswerVersion
<1>3. ~(Whole /\ spun = "ok")
  BY <1>1 DEF AuthInv
<1> QED
  BY <1>1, <1>2, <1>3, ServeFrame

LEMMA RefuseStep == ASSUME AuthInv, Refuse, UNCHANGED clientState PROVE AuthInv'
<1>1. conn = "up" /\ conn' = conn /\ pc' = pc /\ srv = "version" /\ srv' = "denied"
  BY DEF Refuse, clientState
<1>2. ASSUME Whole, spun = "no", pc \in Spinning PROVE Exchange'
  <2>1. pc = "recv_types" /\ c2s = <<Msg("version")>> /\ s2c = <<>>
    BY <1>1, <1>2, Shaking DEF Refuse, Take, Exchange, Spinning, Denial
  <2>2. c2s' = <<>>
    BY <2>1 DEF Refuse, Take
  <2>3. Pending(0, 5)'
    BY <2>1, PutOnEmpty DEF Refuse
  <2> QED
    BY <1>1, <2>1, <2>2, <2>3 DEF Exchange, Granted
<1>3. ~(Whole /\ spun = "ok")
  BY <1>1 DEF AuthInv
<1> QED
  BY <1>1, <1>2, <1>3, ServeFrame

LEMMA SendChallengeStep == ASSUME AuthInv, SendChallenge, UNCHANGED clientState PROVE AuthInv'
<1>1. conn = "up" /\ conn' = conn /\ pc' = pc /\ srv = "type" /\ srv' = "response"
  BY DEF SendChallenge, clientState
<1>2. ASSUME Whole, spun = "no", pc \in Spinning PROVE Exchange'
  <2>1. pc = "recv_challenge" /\ c2s = <<Msg("type")>> /\ s2c = <<>>
    BY <1>1, <1>2, Shaking DEF SendChallenge, Take, Exchange, Spinning, Denial
  <2>2. c2s' = <<>>
    BY <2>1 DEF SendChallenge, Take
  <2>3. Pending(7, 8)'
    BY <2>1, PutOnEmpty DEF SendChallenge
  <2> QED
    BY <1>1, <2>1, <2>2, <2>3 DEF Exchange, Granted
<1>3. ~(Whole /\ spun = "ok")
  BY <1>1 DEF AuthInv
<1> QED
  BY <1>1, <1>2, <1>3, ServeFrame

LEMMA DenyStep == ASSUME s2c = <<>>, Deny PROVE Denial'
<1> DEFINE no == Message(<<0, 1>>)
           why == IF rv = 38 THEN Message(<<0, 5>>) ELSE <<>>
<1>1. no \in Seq(Unit) /\ Len(no) = 2 /\ no[1].v = 0 /\ no[2].v = 1 /\ ~no[2].head
  BY MessageOfTwo
<1>2. why \in Seq(Unit)
  BY MessageOfTwo
<1>3. s2c' = no \o why
  BY <1>1, ConcatEmptySeq DEF Deny
<1> HIDE DEF no, why
<1>4. Len(why) \in Nat
  BY <1>2, LenProperties
<1>5. /\ no \o why \in Seq(Unit) /\ Len(no \o why) = Len(no) + Len(why)
      /\ \A i \in 1..(Len(no) + Len(why)) :
           (no \o why)[i] = IF i <= Len(no) THEN no[i] ELSE why[i - Len(no)]
  BY <1>1, <1>2, ConcatProperties
<1>6. /\ s2c' \in Seq(Unit) /\ Len(s2c') >= 2
      /\ s2c'[1] = no[1] /\ s2c'[2] = no[2]
  BY <1>1, <1>3, <1>4, <1>5
<1> QED
  BY <1>1, <1>6 DEF Deny, Denial

\* The only place where the server may let the client in.
LEMMA CheckStep == ASSUME AuthInv, CheckResponse, UNCHANGED clientState PROVE AuthInv'
<1>1. /\ conn = "up" /\ conn' = conn /\ pc' = pc /\ srv = "response"
      /\ c2s # <<>> /\ Head(c2s).kind = "response" /\ c2s' = Tail(c2s)
  BY DEF CheckResponse, Take, clientState
<1>2. ASSUME Whole, spun = "no", pc \in Spinning PROVE Exchange'
  <2>1. c2s # <<Msg("type")>> /\ Head(c2s) # Msg("type")
    BY <1>1 DEF Msg
  <2>2. Exchange
    BY <1>2, Shaking
  <2>3. pc = "recv_result" /\ s2c = <<>> /\ c2s = <<Response>>
    BY <1>1, <1>2, <2>1, <2>2 DEF Exchange, Spinning, Granted, Denial
  <2>4. (Pending(0, 0)' /\ srv' = "init") \/ Denial'
    BY <2>3, PutOnEmpty, DenyStep DEF CheckResponse
  <2>5. c2s' = <<>>
    BY <1>1, <2>3
  <2> QED
    BY <1>1, <2>3, <2>4, <2>5 DEF Exchange, Granted
<1>3. ~(Whole /\ spun = "ok")
  BY <1>1 DEF AuthInv
<1> QED
  BY <1>1, <1>2, <1>3, ServeFrame

LEMMA MisreadStep == ASSUME AuthInv, Misread, UNCHANGED clientState PROVE AuthInv'
<1>1. conn = "up" /\ conn' = conn /\ pc' = pc /\ srv \in {"version", "response"}
  BY DEF Misread, clientState
<1>2. ASSUME Whole, spun = "no", pc \in Spinning PROVE Exchange'
  <2>1. c2s # <<>> /\ c2s # <<Msg("type")>> /\ c2s # <<Msg("version")>>
    BY DEF Misread
  <2>2. Exchange
    BY <1>2, Shaking
  <2>3. pc = "recv_result" /\ s2c = <<>>
    BY <1>1, <1>2, <2>1, <2>2 DEF Exchange, Spinning, Granted, Denial
  <2>4. Denial'
    BY <2>3, DenyStep DEF Misread
  <2> QED
    BY <1>1, <2>3, <2>4 DEF Exchange, Granted
<1>3. ~(Whole /\ spun = "ok")
  BY <1>1 DEF AuthInv
<1> QED
  BY <1>1, <1>2, <1>3, ServeFrame

\* A server that has let the client in never takes that back.
LEMMA ServingStep ==
  ASSUME AuthInv, UNCHANGED clientState, Initialise \/ ReadRequest \/ SendUpdate \/ SendNews
  PROVE  AuthInv'
<1>1. /\ conn = "up" /\ conn' = conn /\ pc' = pc /\ srv \in {"init", "serving"}
      /\ srv' = "serving"
  BY DEF Initialise, ReadRequest, SendUpdate, SendNews, clientState
<1>2. ASSUME Whole, spun = "no", pc \in Spinning PROVE Exchange'
  <2>1. CASE pc \in Granted
    BY <1>1, <2>1 DEF Exchange, Granted
  <2>2. CASE pc = "recv_result" /\ srv = "init"
    <3>1. c2s = <<>> /\ Initialise
      BY <1>1, <1>2, <2>2, Shaking DEF Exchange, Denial, ReadRequest, SendUpdate, SendNews
    <3> QED
      BY <3>1 DEF Initialise, Take
  <2> QED
    BY <1>1, <1>2, <2>1, <2>2, Shaking DEF Exchange, Spinning, Denial
<1> QED
  BY <1>1, <1>2, ServeFrame

LEMMA EndStep ==
  ASSUME AuthInv, UNCHANGED clientState, HangUp \/ Disconnect
  PROVE  AuthInv'
<1>1. conn = "up" /\ conn' \in {"closed", "down"} /\ srv' = srv
  BY DEF HangUp, Disconnect
<1>2. Whole /\ spun = "ok" => srv' \in {"init", "serving"}
  BY <1>1 DEF AuthInv
<1> QED
  BY <1>1, <1>2, ServeFrame

\* A connection in progress comes up while the client waits for it, or after the client
\* has given up.
LEMMA ConnectedStep == ASSUME AuthInv, Connected, UNCHANGED clientState PROVE AuthInv'
<1>1. /\ conn = "connecting" /\ conn' \in {"up", "down"} /\ UNCHANGED <<s2c, c2s, srv, rv>>
      /\ UNCHANGED <<pc, spun, torn>>
  BY DEF Connected, clientState
<1>2. CASE spun = "no"
  <2>1. pc = "select" /\ srv = "listen" /\ s2c = <<>> /\ c2s = <<>>
    BY <1>1, <1>2 DEF AuthInv
  <2>2. Exchange'
    BY <1>1, <2>1 DEF Exchange, Granted
  <2> QED
    BY <1>1, <1>2, <2>1, <2>2 DEF AuthInv, Spinning, Throwing
<1>3. CASE spun # "no"
  <2>1. spun # "ok"
    BY <1>1, <1>3 DEF AuthInv
  <2> QED
    BY <1>1, <1>3, <2>1 DEF AuthInv, Spinning, Throwing
<1> QED
  BY <1>2, <1>3

LEMMA StutterStep == AuthInv /\ UNCHANGED vars => AuthInv'
<1> SUFFICES ASSUME AuthInv, UNCHANGED vars PROVE AuthInv'
  OBVIOUS
<1>1. UNCHANGED <<pc, spun, conn, torn, s2c, c2s, srv, rv, challenge>>
  BY DEF vars, clientVars, serverVars, client
<1>2. Exchange => Exchange'
  BY <1>1 DEF Exchange, Pending, Denial, Response
<1>3. Whole' = Whole
  BY <1>1 DEF Whole
<1> QED
  BY <1>1, <1>2, <1>3 DEF AuthInv

LEMMA AuthNext == AuthInv /\ [Next]_vars => AuthInv'
<1> SUFFICES ASSUME AuthInv, [Next]_vars PROVE AuthInv'
  OBVIOUS
<1>1. CASE Call /\ UNCHANGED serverVars
  <2>1. CASE Spin
    BY <1>1, <2>1, SelectStep, VersionStep, SendVersionStep, TypesStep, SendTypeStep,
       ChallengeStep, SendResponseStep, ResultStep, SendClientInitStep, ServerInitStep,
       ServerInitCrashStep, FormatStep, EncodingsStep
    DEF Spin
  <2> QED
    BY <1>1, <2>1, CaptureStep DEF Call
<1>2. CASE (Start \/ Destroy) /\ UNCHANGED serverVars
  BY <1>2, ConnectStep, RequestStep, DestroyStep DEF Start
<1>3. CASE Serve /\ UNCHANGED clientState
  BY <1>3, AcceptStep, AnswerStep, RefuseStep, SendChallengeStep, CheckStep, MisreadStep, EndStep,
     ServingStep
  DEF Serve
<1>4. CASE Surprise /\ UNCHANGED clientState
  BY <1>4, ConnectedStep, ServingStep, EndStep DEF Surprise
<1>5. CASE UNCHANGED vars
  BY <1>5, StutterStep
<1> QED
  BY <1>1, <1>2, <1>3, <1>4, <1>5 DEF Next, Served

\* For every version a server may announce, every order of steps, every connection that
\* comes up late and every read, fault and surprise without bound: as long as no read ended
\* inside a message, recv_security_result lets the client go on only when the server has
\* granted it, and no request takes a client that failed for one that did not.
THEOREM AuthenticationSound == Spec => []AuthSound
<1>1. AuthInv => AuthSound
  BY DEF AuthInv, AuthSound, Believed, Exchange, Granted, Spinning
<1> QED
  BY AuthInit, AuthNext, <1>1, PTL DEF Spec

-----------------------------------------------------------------------------

(***************************************************************************)
(* A handshake that failed.                                                *)
(***************************************************************************)

\* What a request sends.
Request == {msg \in ClientMsg : msg.kind \in {"down", "up", "request"}}

\* The server never granted a client that failed on a whole stream, and never will: it has
\* denied it, or has not been told the version of the client.
Refused == srv = "denied" \/ (srv \in {"listen", "version"} /\ c2s \in Seq(Request))

FailedInv == spun = "failed" /\ conn \in {"up", "connecting"} /\ ~torn => Refused

LEMMA FailedInit == SessionInit => FailedInv
  BY DEF SessionInit, Init, FailedInv

LEMMA RequestTyped ==
  \A kind \in {"down", "up", "request"} : Msg(kind) \in Request
  BY MsgTyped DEF Request

\* The method that failed left the server where it was.
LEMMA FailedSpin ==
  ASSUME AuthInv, FailedInv, Spin \/ ConnectToServer, UNCHANGED serverVars
  PROVE  FailedInv'
<1>1. srv' = srv
  BY DEF serverVars
<1>2. spun = "no"
  BY DEF Spin, ConnectToServer, Select, RecvProtocolVersion, SendProtocolVersion,
     RecvSupportedSecurityTypes, SendSecurityType, RecvVncAuthChallenge, SendVncAuthResponse,
     RecvSecurityResult, SendClientInit, RecvServerInit, RecvServerInitCrashes,
     SendSetPixelFormat, SendSetEncodings, Send, AuthInv, Spinning, Granted
<1> SUFFICES ASSUME spun' = "failed", conn' \in {"up", "connecting"}, ~torn' PROVE Refused'
  BY DEF FailedInv
<1>3. <<>> \in Seq(Request)
  OBVIOUS
<1>4. CASE Select
  <2>1. conn = "connecting" /\ UNCHANGED <<conn, c2s>>
    BY <1>2, <1>4 DEF Select, Goto
  <2>2. srv = "listen" /\ c2s = <<>>
    BY <1>2, <2>1 DEF AuthInv
  <2> QED
    BY <1>1, <1>3, <2>1, <2>2 DEF Refused
<1>5. CASE RecvProtocolVersion
  <2>1. UNCHANGED <<conn, c2s>> /\ pc = "recv_version"
    BY <1>5 DEF RecvProtocolVersion
  <2>2. conn = "up" /\ ~torn
    <3>1. conn # "connecting"
      BY <1>2, <2>1 DEF AuthInv
    <3>2. ~torn
      BY <1>5, <2>1 DEF RecvProtocolVersion, Read, RecvError
    <3> QED
      BY <2>1, <3>1, <3>2
  <2>3. Exchange
    BY <1>2, <2>2 DEF AuthInv, Whole
  <2>4. c2s = <<>> /\ srv \in {"listen", "version"}
    BY <2>1, <2>3 DEF Exchange
  <2> QED
    BY <1>1, <1>3, <2>1, <2>4 DEF Refused
<1>6. CASE RecvSecurityResult
  <2>1. UNCHANGED <<conn, c2s>> /\ pc = "recv_result" /\ conn = "up" /\ ~RecvError
    BY <1>2, <1>6 DEF RecvSecurityResult, AuthInv, RecvError
  <2>2. PICK n \in Lengths(2) : Read(n, 2) /\ ~(Field(n, 1) = 0 /\ Field(n, 2) = 0)
    BY <1>2, <1>6, <2>1 DEF RecvSecurityResult, Goto
  <2>3. ~torn
    BY <2>2 DEF Read
  <2>4. Exchange
    BY <1>2, <2>1, <2>3 DEF AuthInv, Whole
  <2>5. s2c # <<>>
    BY <2>1, NothingToRead
  <2>6. Pending(0, 0) \/ Denial
    BY <2>1, <2>4, <2>5 DEF Exchange
  <2>7. ~Pending(0, 0)
    BY <2>1, <2>2, WholeRead
  <2> QED
    BY <1>1, <2>6, <2>7 DEF Denial, Refused
<1>7. CASE RecvServerInitCrashes
  BY <1>7 DEF RecvServerInitCrashes, Close
<1>8. CASE ConnectToServer
  <2>1. conn = "down"
    BY <1>2, <1>8 DEF AuthInv, ConnectToServer
  <2> QED
    BY <1>2, <1>8, <2>1 DEF ConnectToServer, Goto
<1>9. ASSUME UNCHANGED conn, conn = "down" PROVE FALSE
  BY <1>9
<1>10. ASSUME NEW from, NEW msg, NEW to, Send(from, msg, to), pc # "select" PROVE FALSE
  BY <1>2, <1>10 DEF Send, Goto, AuthInv
<1>11. CASE SendProtocolVersion \/ SendSecurityType \/ SendVncAuthResponse \/ SendClientInit
            \/ SendSetPixelFormat
  <2>1. pc # "select"
    BY <1>11 DEF SendProtocolVersion, SendSecurityType, SendVncAuthResponse, SendClientInit,
       SendSetPixelFormat, Send
  <2> QED
    BY <1>10, <1>11, <2>1 DEF SendProtocolVersion, SendSecurityType, SendVncAuthResponse,
       SendClientInit, SendSetPixelFormat
<1>12. CASE RecvSupportedSecurityTypes \/ RecvVncAuthChallenge \/ RecvServerInit
  BY <1>2, <1>12
  DEF RecvSupportedSecurityTypes, RecvVncAuthChallenge, RecvServerInit, RecvError, Goto
<1>13. CASE SendSetEncodings
  BY <1>2, <1>13 DEF SendSetEncodings
<1> QED
  BY <1>4, <1>5, <1>6, <1>7, <1>8, <1>11, <1>12, <1>13 DEF Spin

\* Nor does a request tell it any more.
LEMMA FailedThrow ==
  ASSUME AuthInv, FailedInv, Typed, Throw \/ Destroy \/ Capture, UNCHANGED serverVars
  PROVE  FailedInv'
<1>1. /\ UNCHANGED <<srv, spun>> /\ conn' \in {conn, "down"} /\ (torn => torn')
      /\ torn' \in BOOLEAN /\ torn \in BOOLEAN
  <2>1. Typed'
    BY TypedClient DEF Call, Start
  <2>2. CASE Throw \/ Destroy
    BY <2>2 DEF Throw, Destroy, Goto, Close, serverVars, Typed
  <2>3. CASE Capture
    BY <2>1, <2>3, CaptureFrame DEF serverVars, Typed
  <2> QED
    BY <2>2, <2>3
<1> SUFFICES ASSUME spun = "failed", conn' \in {"up", "connecting"}, ~torn' PROVE Refused'
  BY <1>1 DEF FailedInv
<1>2. Refused
  BY <1>1 DEF FailedInv
<1>3. UNCHANGED c2s \/ \E kind \in {"down", "up", "request"} : c2s' = Append(c2s, Msg(kind))
  <2>1. CASE Throw \/ Destroy
    BY <2>1 DEF Throw, Destroy, Close
  <2>2. CASE Capture
    BY <2>2 DEF Capture, SendKeyEvent, SendPointerEvent, SendFrameBufferUpdateRequest, Send,
       RecvServerToClientMessage, RecvFrameBufferUpdate, RecvRectangle, RecvPixels,
       RecvPixelsSpins, RecvSetColourMapEntries, RecvColour, RecvServerCutText, RecvText,
       RecvTextCrashes, DrawImage, DrawImageCrashes, RecvHeader, clientVars, Close
  <2> QED
    BY <2>1, <2>2
<1>4. c2s \in Seq(Request) => c2s' \in Seq(Request)
  BY <1>3, RequestTyped
<1> QED
  BY <1>1, <1>2, <1>4 DEF Refused

LEMMA FailedServe ==
  ASSUME FailedInv, AuthInv, Serve \/ Surprise, UNCHANGED clientState
  PROVE  FailedInv'
<1> SUFFICES ASSUME spun = "failed", conn' \in {"up", "connecting"}, ~torn PROVE Refused'
  BY DEF FailedInv, clientState
<1>1. conn \in {"up", "connecting"}
  BY DEF Serve, Surprise, AcceptConnection, AnswerVersion, Refuse, SendChallenge, CheckResponse,
     Misread, HangUp, Initialise, ReadRequest, SendUpdate, SendNews, Disconnect, Connected
<1>2. Refused
  BY <1>1 DEF FailedInv
<1>3. ASSUME c2s \in Seq(Request), c2s # <<>> PROVE Head(c2s).kind \in {"down", "up", "request"}
  <2>1. Head(c2s) \in Request
    BY <1>3
  <2> QED
    BY <2>1 DEF Request
<1>4. CASE AcceptConnection \/ Connected
  BY <1>2, <1>4 DEF Refused, AcceptConnection, Connected
<1>5. CASE AnswerVersion \/ Refuse
  BY <1>2, <1>3, <1>5 DEF Refused, AnswerVersion, Refuse, Take
<1>6. CASE SendChallenge \/ CheckResponse \/ Initialise \/ ReadRequest \/ SendUpdate \/ SendNews
  BY <1>2, <1>6 DEF Refused, SendChallenge, CheckResponse, Initialise, ReadRequest, SendUpdate,
     SendNews
<1>7. CASE Misread
  BY <1>7 DEF Misread, Deny, Refused
<1>8. CASE HangUp \/ Disconnect
  BY <1>8 DEF HangUp, Disconnect
<1> QED
  BY <1>4, <1>5, <1>6, <1>7, <1>8 DEF Serve, Surprise

LEMMA FailedNext ==
  FailedInv /\ AuthInv /\ Typed /\ [Next]_vars => FailedInv'
<1> SUFFICES ASSUME FailedInv, AuthInv, Typed, [Next]_vars PROVE FailedInv'
  OBVIOUS
<1>1. CASE (Call \/ Start \/ Destroy) /\ UNCHANGED serverVars
  BY <1>1, FailedSpin, FailedThrow DEF Call, Start
<1>2. CASE Served
  BY <1>2, FailedServe DEF Served
<1>3. CASE UNCHANGED vars
  BY <1>3 DEF vars, clientVars, serverVars, FailedInv, Refused
<1> QED
  BY <1>1, <1>2, <1>3 DEF Next

-----------------------------------------------------------------------------

(***************************************************************************)
(* Types.                                                                  *)
(***************************************************************************)

TypedServer ==
  /\ srv \in {"listen", "version", "type", "response", "init", "serving", "denied"}
  /\ rv \in Versions \cup {0}
  /\ asked \in Nat /\ served \in Nat /\ news \in Nat /\ faults \in Nat
  /\ early \in BOOLEAN

LEMMA TypedOK == AuthInv /\ Typed /\ TypedServer => TypeOK
  BY DEF AuthInv, Typed, TypedServer, TypeOK

LEMMA TypedServerInit == SessionInit => TypedServer
<1> SUFFICES ASSUME SessionInit PROVE TypedServer
  OBVIOUS
<1>1. early = FALSE /\ ServerInit
  BY DEF SessionInit
<1>2. early \in BOOLEAN
  BY <1>1
<1> QED
  BY <1>1, <1>2 DEF ServerInit, TypedServer

LEMMA PutTyped ==
  ASSUME s2c \in Seq(Unit), NEW units \in Seq(Nat), Put(units)
  PROVE  s2c' \in Seq(Unit)
  BY MessageTyped, ConcatProperties DEF Put

\* The size of the screen and a name: as many units as they say.
LEMMA HelloIs ==
  ASSUME NEW size \in Nat, NEW n \in Nat
  PROVE  /\ Message(Hello(size, n)) \in Seq(Unit) /\ Len(Message(Hello(size, n))) = n + 2
         /\ Message(Hello(size, n))[1].v = size /\ Message(Hello(size, n))[2].v = n
         /\ \A i \in 2..n + 2 : ~Message(Hello(size, n))[i].head
<1> DEFINE h == <<size, n>>
           t == [i \in 1..n |-> 9]
<1>1. h \in Seq(Nat) /\ Len(h) = 2 /\ h[1] = size /\ h[2] = n
  OBVIOUS
<1>2. t \in Seq(Nat) /\ Len(t) = n
  BY IsASeq
<1> HIDE DEF h, t
<1>3. h \o t \in Seq(Nat) /\ Len(h \o t) = n + 2 /\ (h \o t)[1] = size /\ (h \o t)[2] = n
  <2>1. /\ h \o t \in Seq(Nat) /\ Len(h \o t) = Len(h) + Len(t)
        /\ \A i \in 1..Len(h) + Len(t) : (h \o t)[i] = IF i <= Len(h) THEN h[i] ELSE t[i - Len(h)]
    BY <1>1, <1>2, ConcatProperties
  <2>2. 1 \in 1..2 + n /\ 2 \in 1..2 + n /\ 2 + n = n + 2
    OBVIOUS
  <2> QED
    BY <1>1, <1>2, <2>1, <2>2
<1>4. Hello(size, n) = h \o t
  BY DEF Hello, h, t
<1> DEFINE a == h \o t
<1> HIDE DEF a
<1>5. /\ a \in Seq(Nat) /\ Len(a) = n + 2 /\ a[1] = size /\ a[2] = n
      /\ Message(Hello(size, n)) = Message(a)
  BY <1>3, <1>4 DEF a
<1>6. /\ Message(a) \in Seq(Unit) /\ Len(Message(a)) = Len(a)
  BY <1>5, MessageTyped
<1>8. 1 \in 1..n + 2 /\ 2 \in 1..n + 2 /\ \A i \in 2..n + 2 : i \in 1..n + 2 /\ i # 1
  OBVIOUS
<1>9. Message(a)[1].v = size /\ Message(a)[2].v = n
  BY <1>5, <1>8, MessageUnit
<1>10. \A i \in 2..n + 2 : ~Message(a)[i].head
  BY <1>5, <1>8, MessageUnit
<1> QED
  BY <1>5, <1>6, <1>9, <1>10

LEMMA TypedServe ==
  ASSUME Typed, TypedServer, Serve \/ Surprise, UNCHANGED clientState, early' \in BOOLEAN
  PROVE  Typed' /\ TypedServer'
<1>1. ASSUME s2c' \in Seq(Unit), conn' \in {"down", "connecting", "up", "closed"} PROVE Typed'
  BY <1>1 DEF Typed, clientState, client, progress, history
<1>2. Width \in Nat /\ Versions \subseteq Nat
  BY WidthAssumption, VersionsAssumption
<1>3. s2c \in Seq(Unit) /\ conn \in {"down", "connecting", "up", "closed"}
  BY DEF Typed
<1>4. CASE AcceptConnection
  <2>1. <<82, rv'>> \in Seq(Nat)
    BY <1>2, <1>4 DEF AcceptConnection
  <2>2. s2c' \in Seq(Unit)
    BY <1>3, <1>4, <2>1, PutTyped DEF AcceptConnection
  <2> QED
    BY <1>1, <1>3, <1>4, <2>2 DEF AcceptConnection, TypedServer, Counters
<1>5. CASE AnswerVersion
  <2>1. /\ <<0, 2>> \in Seq(Nat) /\ <<7, 8>> \in Seq(Nat) /\ <<1, 2>> \in Seq(Nat)
    OBVIOUS
  <2>2. /\ Message(<<0, 2>>) \in Seq(Unit) /\ Message(<<7, 8>>) \in Seq(Unit)
        /\ Message(<<1, 2>>) \in Seq(Unit)
    BY <2>1, MessageTyped
  <2>3. /\ s2c \o Message(<<0, 2>>) \o Message(<<7, 8>>) \in Seq(Unit)
        /\ s2c \o Message(<<1, 2>>) \in Seq(Unit)
    BY <1>3, <2>2, ConcatProperties
  <2>4. s2c' \in Seq(Unit)
    BY <1>5, <2>3 DEF AnswerVersion, Put
  <2> QED
    BY <1>1, <1>3, <1>5, <2>4 DEF AnswerVersion, TypedServer, Counters
<1>17. CASE Refuse
  <2>1. <<0, 5>> \in Seq(Nat)
    OBVIOUS
  <2>2. s2c' \in Seq(Unit)
    BY <1>3, <1>17, <2>1, PutTyped DEF Refuse
  <2> QED
    BY <1>1, <1>3, <1>17, <2>2 DEF Refuse, TypedServer, Counters
<1>6. CASE SendChallenge
  <2>1. <<7, 8>> \in Seq(Nat)
    OBVIOUS
  <2>2. s2c' \in Seq(Unit)
    BY <1>3, <1>6, <2>1, PutTyped DEF SendChallenge
  <2> QED
    BY <1>1, <1>3, <1>6, <2>2 DEF SendChallenge, TypedServer, Counters
<1>7. Deny => s2c' \in Seq(Unit) /\ srv' = "denied"
  <2>1. <<0, 1>> \in Seq(Nat) /\ <<0, 5>> \in Seq(Nat)
    OBVIOUS
  <2> DEFINE why == IF rv = 38 THEN Message(<<0, 5>>) ELSE <<>>
  <2>2. Message(<<0, 1>>) \in Seq(Unit) /\ why \in Seq(Unit)
    <3>1. Message(<<0, 1>>) \in Seq(Unit) /\ Message(<<0, 5>>) \in Seq(Unit)
      BY <2>1, MessageTyped
    <3>2. <<>> \in Seq(Unit)
      OBVIOUS
    <3> QED
      BY <3>1, <3>2
  <2>3. Deny => s2c' = s2c \o Message(<<0, 1>>) \o why /\ srv' = "denied"
    BY DEF Deny
  <2> HIDE DEF why
  <2>4. s2c \o Message(<<0, 1>>) \o why \in Seq(Unit)
    BY <1>3, <2>2, ConcatProperties
  <2> QED
    BY <2>3, <2>4
<1>8. CASE CheckResponse
  <2>1. <<0, 0>> \in Seq(Nat)
    OBVIOUS
  <2>2. s2c' \in Seq(Unit) /\ srv' \in {"init", "denied"}
    BY <1>3, <1>7, <1>8, <2>1, PutTyped DEF CheckResponse
  <2> QED
    BY <1>1, <1>3, <1>8, <2>2 DEF CheckResponse, TypedServer, Counters
<1>9. CASE Misread
  BY <1>1, <1>3, <1>7, <1>9 DEF Misread, TypedServer, Counters
<1>10. CASE HangUp
  BY <1>1, <1>3, <1>10 DEF HangUp, TypedServer, Counters
<1>11. CASE Initialise
  <2>1. PICK length \in Names : s2c' = s2c \o Message(Hello(Width, length))
    BY <1>11 DEF Initialise, Put
  <2>2. s2c' \in Seq(Unit)
    <3>1. Message(Hello(Width, length)) \in Seq(Unit)
      BY <1>2, LengthsAssumption, HelloIs
    <3> QED
      BY <1>3, <2>1, <3>1, ConcatProperties
  <2> QED
    BY <1>1, <1>3, <1>11, <2>2 DEF Initialise, TypedServer, Counters
<1>12. CASE ReadRequest
  BY <1>1, <1>3, <1>12 DEF ReadRequest, TypedServer
<1>13. CASE SendUpdate
  <2>1. asked \in Nat /\ served \in Nat /\ served < asked
    BY <1>13 DEF SendUpdate, TypedServer
  <2>2. asked \in 0 + 1..asked
    BY <2>1
  <2>3. ASSUME NEW split \in Splits, Put(Update(split, asked)) PROVE s2c' \in Seq(Unit)
    <3>1. split \in Seq(Nat) /\ Covers(split, Width)
      BY SplitsAssumption
    <3>2. Message(Update(split, asked)) \in Seq(Unit)
      BY <1>2, <2>1, <2>2, <3>1, UpdateRun
    <3> QED
      BY <1>3, <2>3, <3>2, ConcatProperties DEF Put
  <2>4. s2c' \in Seq(Unit)
    BY <1>13, <2>3 DEF SendUpdate
  <2> QED
    BY <1>1, <1>3, <1>13, <2>4 DEF SendUpdate, TypedServer
<1>14. CASE SendNews
  <2>1. ASSUME NEW units \in News(Colours, Texts), Put(units) PROVE s2c' \in Seq(Unit)
    <3>1. Message(units) \in Seq(Unit)
      BY <1>2, LengthsAssumption, NewsRun
    <3> QED
      BY <1>3, <2>1, <3>1, ConcatProperties DEF Put
  <2>2. s2c' \in Seq(Unit)
    BY <1>14, <2>1 DEF SendNews
  <2> QED
    BY <1>1, <1>3, <1>14, <2>2 DEF SendNews, TypedServer
<1>15. CASE Connected
  BY <1>1, <1>3, <1>15 DEF Connected, TypedServer, Counters
<1>16. CASE Disconnect
  <2>1. <<>> \in Seq(Unit)
    OBVIOUS
  <2>2. s2c' \in Seq(Unit) /\ conn' \in {"closed", "down"}
    BY <1>3, <1>16, <2>1 DEF Disconnect
  <2>3. TypedServer'
    BY <1>16 DEF Disconnect, TypedServer
  <2> QED
    BY <1>1, <2>2, <2>3
<1> QED
  BY <1>4, <1>5, <1>6, <1>8, <1>9, <1>10, <1>11, <1>12, <1>13, <1>14, <1>15, <1>16,
     <1>17
  DEF Serve, Surprise

LEMMA TypedNext == Typed /\ TypedServer /\ [Next]_vars => Typed' /\ TypedServer'
<1> SUFFICES ASSUME Typed, TypedServer, [Next]_vars PROVE Typed' /\ TypedServer'
  OBVIOUS
<1>1. CASE (Call \/ Start \/ Destroy) /\ UNCHANGED serverVars
  <2>1. TypedServer'
    BY <1>1 DEF TypedServer, serverVars
  <2>2. Typed'
    BY <1>1, TypedConnect, TypedSend, TypedHandshake, TypedMessage, TypedPicture
    DEF Call, Spin, Capture, Start
  <2> QED
    BY <2>1, <2>2
<1>2. CASE Served
  <2>1. early' \in BOOLEAN
    BY <1>2 DEF Served, TypedServer
  <2> QED
    BY <1>2, <2>1, TypedServe DEF Served
<1>3. CASE UNCHANGED vars
  BY <1>3 DEF Typed, TypedServer, vars, clientVars, serverVars, client, progress, history
<1> QED
  BY <1>1, <1>2, <1>3 DEF Next

\* Whatever arrives, in whatever pieces, every variable of the client keeps its type:
\* recv_colour and recv_rectangle count down and never below zero.
THEOREM SessionTypes == Spec => []TypeOK
  BY AuthInit, AuthNext, TypedInit, TypedServerInit, TypedNext, TypedOK, PTL DEF Spec, SessionInit

\* A client whose handshake failed, and that the handler caches all the same, never has a
\* server that granted it, or that may yet: on a connection that came up late the requests
\* thrown at the server are denied as no version and no response.
THEOREM FailureIsAgreed == Spec => []FailureAgreed
<1>1. FailedInv => FailureAgreed
  BY DEF FailedInv, FailureAgreed, Refused, Whole
<1> QED
  BY AuthInit, AuthNext, TypedInit, TypedServerInit, TypedNext, FailedInit, FailedNext, <1>1, PTL
  DEF Spec, SessionInit

-----------------------------------------------------------------------------

(***************************************************************************)
(* In step.                                                                *)
(***************************************************************************)

\* The place where the client stands.
Here == Standing(pc, todo, want, Len(image_buf), reqs - missed)

\* What the client has not read takes it from where it stands to the end of a message.
OnTrack == Ahead(s2c, Here, served, Width)

Configuring == spun = "no" /\ pc \in {"send_format", "send_encodings"}

Talking == spun = "ok" \/ Configuring

\* The server has sent its first message past the handshake, and nothing else.
Greeted == \E length \in Names : s2c = Message(Hello(Width, length))

Aligned ==
  /\ Orderly /\ spun = "no" /\ pc = "recv_server_init" =>
       (srv = "init" /\ s2c = <<>>) \/ (srv = "serving" /\ Greeted)
  /\ Orderly /\ Talking => srv = "serving" /\ OnTrack

\* What a client knows that has gone so far and no further.
Knows ==
  /\ Orderly /\ Talking => width = Width
  /\ Whole /\ spun = "ok" => configured
  /\ spun = "no" => image_buf = <<>> /\ reqs = 0 /\ missed = 0
  /\ spun = "no" => (configured <=> pc = "send_encodings")
  /\ spun = "no" /\ pc \notin {"send_format", "send_encodings"} => width = 0
  /\ spun = "failed" /\ conn \in {"up", "connecting"} /\ ~torn =>
       width = 0 /\ ~configured /\ image_buf = <<>> /\ pc # "recv_pixels"
  /\ pc = "send_client_init" /\ Whole => srv = "init" /\ s2c = <<>> /\ c2s = <<>>

\* What it has received of the update it is in the middle of.
Fresh == Received(pc, message_type, image_buf, reqs - missed, served, Width)

Picture == Orderly /\ spun = "ok" => Fresh

\* The server has answered no more requests than it was asked, and been asked no more than
\* the client has sent.
Tally == served <= asked /\ Told(asked, c2s, reqs)

Sync == AuthInv /\ Typed /\ TypedServer /\ Aligned /\ Knows /\ Picture /\ Tally

LEMMA SyncInit == SessionInit => Sync
<1> SUFFICES ASSUME SessionInit PROVE Sync
  OBVIOUS
<1>1. AuthInv /\ Typed /\ TypedServer
  BY AuthInit, TypedInit, TypedServerInit DEF SessionInit
<1>2. Aligned /\ Knows /\ Picture
  BY DEF SessionInit, Init, Aligned, Orderly, Whole, Knows, Picture, Configuring, Talking
<1>3. Tally
  <2>1. asked = 0 /\ served = 0 /\ reqs = 0 /\ c2s = <<>> /\ 0 \in 0..0
    BY DEF SessionInit, Init, ServerInit
  <2> QED
    BY <2>1, ToldNothing DEF Tally
<1> QED
  BY <1>1, <1>2, <1>3 DEF Sync

-----------------------------------------------------------------------------

\* Every step of the client.
LEMMA TallyClient ==
  ASSUME Tally, Typed, TypedServer, Call \/ Start \/ Destroy, UNCHANGED serverVars
  PROVE  Tally'
<1>1. asked \in Nat /\ UNCHANGED <<asked, served>>
  BY DEF TypedServer, serverVars
<1> QED
  BY <1>1, ToldClient DEF Tally

\* Every step of the server.
LEMMA TallyServer ==
  ASSUME Tally, Typed, TypedServer, Serve \/ Surprise, UNCHANGED clientState
  PROVE  Tally'
<1>1. /\ reqs \in Nat /\ UNCHANGED reqs /\ asked \in Nat /\ served \in Nat
      /\ served <= asked /\ Told(asked, c2s, reqs)
  BY DEF Tally, Typed, TypedServer, clientState, history
<1>2. ASSUME UNCHANGED <<c2s, asked, served>> PROVE Tally'
  BY <1>1, <1>2 DEF Tally
<1>3. ASSUME NEW msgs, msgs # <<>>, Told(asked, msgs, reqs) PROVE Told(asked, Tail(msgs), reqs)
  <2>1. asked <= asked + (IF Head(msgs).kind = "request" THEN 1 ELSE 0)
    BY <1>1
  <2> QED
    BY <1>1, <1>3, <2>1, ToldTail
<1>4. CASE AcceptConnection \/ HangUp \/ SendNews \/ Connected
  BY <1>2, <1>4 DEF AcceptConnection, HangUp, SendNews, Connected, Counters
<1>5. CASE AnswerVersion \/ Refuse \/ SendChallenge \/ CheckResponse \/ Initialise
  BY <1>1, <1>3, <1>5
  DEF AnswerVersion, Refuse, SendChallenge, CheckResponse, Initialise, Take, Counters, Tally
<1>6. CASE Misread
  <2>1. c2s \in Seq(ClientMsg) /\ Len(c2s) > 1
    BY <1>1, <1>6 DEF Told, Misread
  <2>2. c2s # <<>> /\ Tail(c2s) # <<>>
    <3>1. c2s # <<>>
      BY <2>1, EmptySeq
    <3>2. Tail(c2s) \in Seq(ClientMsg) /\ Len(Tail(c2s)) = Len(c2s) - 1
      BY <2>1, <3>1, HeadTailProperties
    <3> DEFINE l == Len(c2s)
               t == Len(Tail(c2s))
    <3>3. l \in Nat /\ l > 1 /\ t = l - 1
      BY <2>1, <3>2, LenProperties
    <3> HIDE DEF l, t
    <3>4. t # 0
      BY <3>3
    <3>5. Len(Tail(c2s)) # 0
      BY <3>4 DEF t
    <3>6. Len(<<>>) = 0
      OBVIOUS
    <3>7. Tail(c2s) # <<>>
      BY <3>5, <3>6, Zenon
    <3> QED
      BY <3>1, <3>7
  <2>3. Told(asked, Tail(Tail(c2s)), reqs)
    BY <1>1, <1>3, <2>2
  <2> QED
    BY <1>1, <1>6, <2>3 DEF Misread, Counters, Tally
<1>7. CASE ReadRequest
  <2>1. /\ c2s # <<>> /\ c2s' = Tail(c2s) /\ UNCHANGED served
        /\ asked' = asked + (IF Head(c2s).kind = "request" THEN 1 ELSE 0)
    BY <1>7 DEF ReadRequest
  <2>2. asked' \in Nat /\ served' <= asked'
    BY <1>1, <2>1
  <2>3. asked' <= asked + (IF Head(c2s).kind = "request" THEN 1 ELSE 0)
    BY <2>1, <2>2
  <2>4. Told(asked', Tail(c2s), reqs)
    BY <1>1, <2>1, <2>2, <2>3, ToldTail
  <2> QED
    BY <1>1, <2>1, <2>2, <2>4 DEF Tally
<1>8. CASE SendUpdate
  BY <1>1, <1>8 DEF SendUpdate, Tally
<1>9. CASE Disconnect
  <2>1. Told(asked, <<>>, reqs)
    BY <1>1, ToldBound, ToldNothing
  <2> QED
    BY <1>1, <1>2, <1>9, <2>1 DEF Disconnect, Tally
<1> QED
  BY <1>4, <1>5, <1>6, <1>7, <1>8, <1>9 DEF Serve, Surprise

(***************************************************************************)
(* What the client knows.                                                  *)
(***************************************************************************)

LEMMA KnowsEarly ==
  ASSUME Knows, spun = "no", pc \notin {"send_format", "send_encodings"},
         pc' \notin {"send_format", "send_encodings", "recv_pixels"}, spun' \in {"no", "failed"},
         UNCHANGED <<width, configured, image_buf, reqs, missed>>,
         pc' = "send_client_init" /\ Whole' => srv' = "init" /\ s2c' = <<>> /\ c2s' = <<>>
  PROVE  Knows'
  BY DEF Knows, Configuring, Talking, Orderly

\* The security result of a whole stream was the last the server had to say.
LEMMA ResultRead ==
  ASSUME AuthInv, RecvSecurityResult, UNCHANGED serverVars, Whole', pc' = "send_client_init"
  PROVE  srv' = "init" /\ s2c' = <<>> /\ c2s' = <<>>
<1>1. /\ srv' = srv /\ c2s' = c2s /\ conn' = conn /\ pc = "recv_result" /\ spun = "no"
      /\ pc \in Spinning
  BY DEF RecvSecurityResult, serverVars, AuthInv, Spinning, Throwing
<1>2. PICK n \in Lengths(2) : Read(n, 2) /\ Field(n, 2) = 0
  BY DEF RecvSecurityResult, RecvError, Fail
<1>3. Whole /\ ~torn' /\ conn = "up"
  BY <1>1, <1>2 DEF Whole, Read
<1>4. Exchange
  BY <1>1, <1>3 DEF AuthInv
<1>5. (srv = "init" /\ c2s = <<>> /\ Pending(0, 0)) \/ Denial
  BY <1>1, <1>2, <1>3, <1>4, NothingToRead DEF Exchange
<1>6. ~Denial
  <2> SUFFICES ASSUME Denial PROVE FALSE
    OBVIOUS
  <2>1. s2c \in Seq(Unit) /\ Len(s2c) >= 2 /\ s2c # <<>> /\ ~s2c[2].head /\ Len(s2c) \in Nat
    BY EmptySeq DEF Denial
  <2>2. n \in 1..Least(2, Len(s2c)) /\ (n < Least(2, Len(s2c)) => s2c[n + 1].head)
    BY <1>2, <1>3, <2>1, ReadEnds
  <2>3. n = 2
    BY <2>1, <2>2 DEF Least
  <2> QED
    BY <1>2, <2>3 DEF Field, Denial
<1>7. s2c' = <<>>
  BY <1>2, <1>3, <1>5, <1>6, WholeRead
<1> QED
  BY <1>1, <1>5, <1>6, <1>7

LEMMA KnowsHandshake ==
  ASSUME Sync, UNCHANGED serverVars,
         \/ ConnectToServer \/ Select \/ RecvProtocolVersion \/ SendProtocolVersion
         \/ RecvSupportedSecurityTypes \/ SendSecurityType
         \/ RecvVncAuthChallenge \/ SendVncAuthResponse \/ RecvSecurityResult
         \/ SendClientInit
  PROVE  Knows'
<1>1. Knows /\ AuthInv
  BY DEF Sync
<1>2. CASE ConnectToServer
  BY <1>1, <1>2, KnowsEarly DEF ConnectToServer, Goto, Fail, client, history
<1>3. CASE Select
  BY <1>1, <1>3, KnowsEarly DEF Select, Goto, Fail, client, history, AuthInv, Spinning
<1>4. CASE RecvProtocolVersion
  <2>1. pc = "recv_version" /\ spun = "no"
    BY <1>1, <1>4 DEF RecvProtocolVersion, AuthInv, Spinning
  <2>2. Goto("send_version") \/ Fail
    BY <1>4 DEF RecvProtocolVersion, RecvError
  <2>3. UNCHANGED <<width, configured, image_buf, reqs, missed>>
    BY <1>4 DEF RecvProtocolVersion, history
  <2> QED
    BY <1>1, <2>1, <2>2, <2>3, KnowsEarly DEF Goto, Fail
<1>5. ASSUME NEW from \in Spinning \ {"send_format", "send_encodings"}, NEW msg,
             NEW to \in {"recv_types", "recv_challenge", "recv_result", "recv_server_init"},
             Send(from, msg, to), UNCHANGED <<client, history>>
      PROVE  Knows'
  <2>1. pc = from /\ spun = "no" /\ (Goto(to) \/ Fail)
    BY <1>1, <1>5 DEF Send, AuthInv
  <2> QED
    BY <1>1, <1>5, <2>1, KnowsEarly DEF Goto, Fail, client, history
<1>6. CASE SendProtocolVersion
  BY <1>5, <1>6 DEF SendProtocolVersion, Spinning
<1>7. CASE SendSecurityType
  BY <1>5, <1>7 DEF SendSecurityType, Spinning
<1>8. CASE SendVncAuthResponse
  BY <1>5, <1>8 DEF SendVncAuthResponse, Spinning
<1>9. CASE SendClientInit
  BY <1>5, <1>9 DEF SendClientInit, Spinning, Granted
<1>10. CASE RecvSupportedSecurityTypes
  <2>1. pc = "recv_types" /\ spun = "no"
    BY <1>1, <1>10 DEF RecvSupportedSecurityTypes, AuthInv, Spinning
  <2>2. Goto("send_type") \/ Fail
    BY <1>10 DEF RecvSupportedSecurityTypes, RecvError
  <2>3. UNCHANGED <<width, configured, image_buf, reqs, missed>>
    BY <1>10 DEF RecvSupportedSecurityTypes, history, client
  <2> QED
    BY <1>1, <2>1, <2>2, <2>3, KnowsEarly DEF Goto, Fail
<1>11. CASE RecvVncAuthChallenge
  <2>1. pc = "recv_challenge" /\ spun = "no"
    BY <1>1, <1>11 DEF RecvVncAuthChallenge, AuthInv, Spinning
  <2>2. Goto("send_response") \/ Fail
    BY <1>11 DEF RecvVncAuthChallenge, RecvError
  <2>3. UNCHANGED <<width, configured, image_buf, reqs, missed>>
    BY <1>11 DEF RecvVncAuthChallenge, history
  <2> QED
    BY <1>1, <2>1, <2>2, <2>3, KnowsEarly DEF Goto, Fail
<1>12. CASE RecvSecurityResult
  <2>1. pc = "recv_result" /\ spun = "no"
    BY <1>1, <1>12 DEF RecvSecurityResult, AuthInv, Spinning
  <2>2. Goto("send_client_init") \/ Fail
    BY <1>12 DEF RecvSecurityResult, RecvError
  <2>3. UNCHANGED <<width, configured, image_buf, reqs, missed>>
    BY <1>12 DEF RecvSecurityResult, history, client
  <2>4. pc' = "send_client_init" /\ Whole' => srv' = "init" /\ s2c' = <<>> /\ c2s' = <<>>
    BY <1>1, <1>12, ResultRead
  <2> QED
    BY <1>1, <2>1, <2>2, <2>3, <2>4, KnowsEarly DEF Goto, Fail
<1> QED
  BY <1>2, <1>3, <1>4, <1>6, <1>7, <1>8, <1>9, <1>10, <1>11, <1>12

LEMMA KnowsConfigure ==
  ASSUME Sync, UNCHANGED serverVars, SendSetPixelFormat \/ SendSetEncodings
  PROVE  Knows'
<1>1. Knows /\ AuthInv /\ spun = "no" /\ pc \in {"send_format", "send_encodings"}
  BY DEF Sync, SendSetPixelFormat, SendSetEncodings, Send, AuthInv, Spinning, Granted
<1>2. CASE SendSetPixelFormat
  BY <1>1, <1>2 DEF SendSetPixelFormat, Send, Goto, Fail, Knows, Configuring, Talking, Whole,
     Orderly, history, serverVars
<1>3. CASE SendSetEncodings
  BY <1>1, <1>3 DEF SendSetEncodings, Knows, Configuring, Talking, Whole, Orderly, client,
     history, serverVars
<1> QED
  BY <1>2, <1>3

LEMMA KnowsThrow ==
  ASSUME Sync, UNCHANGED serverVars, Throw \/ Capture \/ Destroy
  PROVE  Knows'
<1>1. Knows /\ AuthInv /\ Typed
  BY DEF Sync
<1>2. ASSUME spun # "no", UNCHANGED <<spun, width, configured>>, conn' \in {conn, "down"},
             torn => torn', overlong => overlong', UNCHANGED early,
             pc # "recv_pixels" => image_buf' \in {image_buf, <<>>},
             pc' = "recv_pixels" => configured \/ pc = "recv_pixels",
             pc' # "send_client_init"
      PROVE  Knows'
  BY <1>1, <1>2 DEF Knows, Configuring, Talking, Whole, Orderly
<1>3. CASE Throw
  BY <1>2, <1>3 DEF Throw, Goto, client, serverVars
<1>4. CASE Capture
  BY <1>1, <1>2, <1>4, CaptureFrame DEF Throwing, serverVars
<1>5. CASE Destroy
  BY <1>2, <1>5 DEF Destroy, Close, client, history, serverVars
<1> QED
  BY <1>3, <1>4, <1>5

LEMMA KnowsServer ==
  ASSUME Sync, UNCHANGED clientState, Serve \/ Surprise, early => early'
  PROVE  Knows'
<1>1. Knows /\ AuthInv /\ UNCHANGED <<pc, spun, width, configured, image_buf, reqs, missed, torn,
                                    overlong>>
  BY DEF Sync, clientState, client, history
<1>2. CASE Connected
  <2>1. conn = "connecting" /\ conn' \in {"up", "down"}
    BY <1>2 DEF Connected
  <2>2. spun = "failed" \/ (spun = "no" /\ pc = "select")
    BY <1>1, <2>1 DEF AuthInv
  <2>3. pc # "send_client_init"
    BY <1>1, <2>2 DEF AuthInv, Spinning, Granted
  <2> QED
    BY <1>1, <2>1, <2>2, <2>3 DEF Knows, Configuring, Talking, Whole, Orderly
<1>3. CASE ~Connected
  <2>1. conn = "up"
    BY <1>3 DEF Serve, Surprise, AcceptConnection, AnswerVersion, Refuse, SendChallenge,
       CheckResponse,
       Misread, HangUp, Initialise, ReadRequest, SendUpdate, SendNews, Disconnect
  <2>2. ASSUME pc = "send_client_init", Whole' PROVE FALSE
    <3>1. srv = "init" /\ s2c = <<>> /\ c2s = <<>>
      BY <1>1, <2>1, <2>2 DEF Knows, Whole
    <3>2. Len(c2s) = 0
      BY <3>1
    <3> QED
      BY <1>3, <2>2, <3>1, <3>2
      DEF Serve, Surprise, AcceptConnection, AnswerVersion, Refuse, SendChallenge,
       CheckResponse,
          Misread, HangUp, Initialise, ReadRequest, SendUpdate, SendNews, Disconnect, Take, Whole
  <2> QED
    BY <1>1, <2>1, <2>2 DEF Knows, Configuring, Talking, Whole, Orderly
<1> QED
  BY <1>2, <1>3

\* A client in a session that spun, on an orderly stream.
LEMMA InSession ==
  ASSUME Sync, Orderly, spun = "ok"
  PROVE  /\ srv = "serving" /\ width = Width /\ configured /\ Fresh
         /\ s2c \in Seq(Unit) /\ reqs \in Nat /\ missed \in Nat /\ served \in Nat
         /\ todo \in Nat /\ want \in Nat /\ image_buf \in Seq(Nat) /\ Len(image_buf) \in Nat
         /\ Here \in Places
         /\ \E c \in 0..served : Run(Places, Steps(Width, served), s2c, Here, Between(c))
<1>1. /\ s2c \in Seq(Unit) /\ reqs \in Nat /\ missed \in Nat /\ served \in Nat
      /\ todo \in Nat /\ want \in Nat /\ image_buf \in Seq(Nat)
  BY DEF Sync, Typed, TypedServer
<1>2. Len(image_buf) \in Nat
  BY <1>1
<1>3. width = Width /\ configured /\ Fresh
  BY DEF Sync, Knows, Picture, Talking, Orderly
<1>5. srv = "serving" /\ OnTrack
  BY DEF Sync, Aligned, Talking
<1>6. Here \in Places
  BY <1>1, <1>5, RunEnds DEF OnTrack, Ahead
<1> QED
  BY <1>1, <1>2, <1>3, <1>5, <1>6 DEF OnTrack, Ahead

\* What is to show of a capture.
LEMMA CaptureAligned ==
  ASSUME Sync, Capture, UNCHANGED serverVars,
         Orderly /\ spun = "ok" /\ Orderly' => OnTrack' /\ Fresh'
  PROVE  Aligned' /\ Picture'
<1>1. /\ spun # "no" /\ UNCHANGED spun /\ conn' \in {conn, "down"} /\ (torn => torn')
      /\ (overlong => overlong') /\ UNCHANGED <<srv, served, early>>
  BY CaptureFrame DEF Sync, serverVars
<1>2. Orderly' => Orderly
  BY <1>1 DEF Orderly, Whole, Sync, Typed
<1>3. Orderly /\ spun = "ok" => srv = "serving"
  BY InSession
<1> QED
  BY <1>1, <1>2, <1>3 DEF Aligned, Picture, Talking, Configuring

\* Steps that neither read nor move to another place.
LEMMA Standstill ==
  ASSUME Sync, Orderly, spun = "ok", UNCHANGED <<s2c, served>>, Here' = Here
  PROVE  OnTrack'
  BY InSession DEF OnTrack, Ahead

LEMMA SendAligned ==
  ASSUME Sync, UNCHANGED serverVars,
         SendKeyEvent \/ SendPointerEvent \/ SendFrameBufferUpdateRequest \/ DrawImage
         \/ DrawImageCrashes \/ RecvTextCrashes \/ RecvPixelsSpins
  PROVE  Aligned' /\ Picture'
<1>1. SUFFICES ASSUME Orderly, spun = "ok", Orderly' PROVE OnTrack' /\ Fresh'
  BY CaptureAligned DEF Capture
<1>2. /\ Fresh /\ reqs \in Nat /\ missed \in Nat /\ UNCHANGED served /\ conn' = "up"
  BY <1>1, InSession DEF Orderly, Whole, serverVars
<1>3. ASSUME pc \in {"key_down", "key_up", "pointer_down", "pointer_up", "draw"},
             pc' \in {"idle", "key_up", "pointer_up", "send_request"},
             UNCHANGED <<s2c, image_buf, reqs, missed>>
      PROVE  OnTrack' /\ Fresh'
  <2>1. Here = Between(reqs - missed)
    BY <1>3, StandingIs DEF Here
  <2>2. Here' = Between(reqs - missed)
    BY <1>3, StandingIs DEF Here
  <2>3. OnTrack'
    BY <1>1, <1>2, <1>3, <2>1, <2>2, Standstill
  <2> QED
    BY <1>3, <2>3 DEF Fresh, Received
<1>4. CASE SendKeyEvent
  BY <1>2, <1>3, <1>4 DEF SendKeyEvent, Send, Goto, client, history
<1>5. CASE SendPointerEvent
  BY <1>2, <1>3, <1>5 DEF SendPointerEvent, Send, Goto, client, history
<1>6. CASE DrawImage
  BY <1>3, <1>6 DEF DrawImage, Goto, client, history
<1>7. CASE DrawImageCrashes
  BY <1>2, <1>7 DEF DrawImageCrashes, Close
<1>10. CASE RecvTextCrashes
  BY <1>2, <1>10 DEF RecvTextCrashes, Close
<1>8. CASE RecvPixelsSpins
  <2>1. UNCHANGED <<pc, s2c, image_buf, message_type, todo, want, reqs, missed>>
    BY <1>8 DEF RecvPixelsSpins, clientVars, client, progress, history
  <2>2. Here' = Here
    BY <2>1 DEF Here
  <2>3. OnTrack'
    BY <1>1, <1>2, <2>1, <2>2, Standstill
  <2> QED
    BY <1>2, <2>1, <2>3 DEF Fresh, Received
<1>9. CASE SendFrameBufferUpdateRequest
  <2>1. /\ pc = "send_request" /\ pc' = "recv_type" /\ image_buf' = <<>> /\ reqs' = reqs + 1
        /\ UNCHANGED <<s2c, missed>>
    BY <1>2, <1>9 DEF SendFrameBufferUpdateRequest, Send, Goto
  <2>2. Here = Between(reqs - missed)
    BY <2>1, StandingIs DEF Here
  <2>3. Here' = Between(reqs' - missed' - 1)
    BY <2>1, StandingIs DEF Here
  <2>4. reqs' - missed' - 1 = reqs - missed
    BY <1>2, <2>1
  <2>5. OnTrack'
    BY <1>1, <1>2, <2>1, <2>2, <2>3, <2>4, Standstill
  <2> QED
    BY <2>1, <2>5 DEF Fresh, Received
<1> QED
  BY <1>4, <1>5, <1>6, <1>7, <1>8, <1>9, <1>10

\* Every step that receives.
LEMMA ReceiveAligned ==
  ASSUME Sync, UNCHANGED serverVars, Receive
  PROVE  Aligned' /\ Picture'
<1>1. Capture
  BY DEF Capture, Receive
<1>2. SUFFICES ASSUME Orderly, spun = "ok", Orderly' PROVE OnTrack' /\ Fresh'
  BY <1>1, CaptureAligned
<1> DEFINE count == reqs - missed
           after == count - (missed' - missed)
<1>3. /\ OnTrack /\ Fresh /\ configured /\ Typed /\ reqs \in Nat /\ missed \in Nat
      /\ served \in Nat /\ UNCHANGED <<served, reqs>> /\ pc \in Receiving
  <2>1. UNCHANGED reqs /\ pc \in Receiving
    BY DEF Receive, RecvServerToClientMessage, RecvFrameBufferUpdate, RecvRectangle,
       RecvPixels, RecvSetColourMapEntries, RecvColour, RecvServerCutText, RecvText, RecvHeader,
       Receiving, history
  <2>2. Fresh /\ configured /\ reqs \in Nat /\ missed \in Nat /\ served \in Nat /\ UNCHANGED served
    BY <1>2, InSession DEF serverVars
  <2>3. OnTrack
    BY <1>2, InSession DEF OnTrack, Ahead
  <2> QED
    BY <2>1, <2>2, <2>3 DEF Sync
<1>4. Poised(count, served, Width) /\ ~torn'
  BY <1>2, <1>3 DEF Poised, Orderly, Whole, OnTrack, Here, Fresh
<1>5. /\ missed' \in {missed, missed + 1}
      /\ Ahead(s2c', Standing(pc', todo', want', Len(image_buf'), after), served, Width)
      /\ Received(pc', message_type', image_buf', after, served, Width)
  BY <1>4, Receives
<1>6. after = reqs' - missed'
  BY <1>3, <1>5
<1> HIDE DEF after
<1> QED
  BY <1>3, <1>5, <1>6 DEF OnTrack, Here, Fresh

\* A read of a greeting is whole only if it takes all of it, which it does when there is
\* room for the name.
LEMMA HelloRead ==
  ASSUME Typed, NEW length \in Nat, s2c = Message(Hello(Width, length)), conn = "up",
         NEW n \in Lengths(2 + NameRoom), Read(n, 2 + NameRoom), ~torn'
  PROVE  /\ Field(n, 1) = Width /\ Field(n, 2) = length
         /\ length <= NameRoom => s2c' = <<>>
<1>1. NameRoom \in Nat /\ Width \in Nat
  BY RoomAssumption, WidthAssumption
<1>2. /\ s2c \in Seq(Unit) /\ Len(s2c) = length + 2 /\ s2c[1].v = Width /\ s2c[2].v = length
      /\ \A i \in 2..length + 2 : ~s2c[i].head
  BY <1>1, HelloIs
<1>3. s2c # <<>> /\ 2 + NameRoom \in Nat \ {0}
  BY <1>1, <1>2, EmptySeq
<1>4. /\ n \in 1..Least(2 + NameRoom, Len(s2c)) /\ s2c' = SubSeq(s2c, n + 1, Len(s2c))
      /\ n < Least(2 + NameRoom, Len(s2c)) => s2c[n + 1].head
  BY <1>3, ReadEnds DEF Typed
<1>5. /\ Least(2 + NameRoom, Len(s2c)) \in 2..length + 2
      /\ length <= NameRoom => Least(2 + NameRoom, Len(s2c)) = length + 2
  BY <1>1, <1>2 DEF Least
<1>6. n = Least(2 + NameRoom, Len(s2c))
  <2> SUFFICES ASSUME n < Least(2 + NameRoom, Len(s2c)) PROVE FALSE
    BY <1>4, <1>5
  <2>1. n + 1 \in 2..length + 2
    BY <1>4, <1>5
  <2> QED
    BY <1>2, <1>4, <2>1
<1>7. length <= NameRoom => s2c' = <<>>
  BY <1>2, <1>4, <1>5, <1>6, SubSeqEmpty
<1> QED
  BY <1>2, <1>5, <1>6, <1>7 DEF Field

\* Before the first message the client learns the size of the screen.
LEMMA HelloAligned ==
  ASSUME Sync, UNCHANGED serverVars, RecvServerInit
  PROVE  Knows' /\ Aligned' /\ Picture'
<1>1. /\ Knows /\ AuthInv /\ Typed /\ pc = "recv_server_init" /\ spun = "no" /\ UNCHANGED conn
      /\ UNCHANGED <<configured, image_buf, reqs, missed, srv, served, early>>
      /\ s2c \in Seq(Unit) /\ TypedServer
  BY DEF Sync, RecvServerInit, AuthInv, Throwing, serverVars, Typed
<1>2. Picture'
  BY <1>1 DEF RecvServerInit, RecvError, Goto, Fail, Picture
<1>3. CASE RecvError /\ UNCHANGED <<width, overlong>>
  BY <1>1, <1>2, <1>3
  DEF RecvError, Fail, Knows, Aligned, Configuring, Talking, Whole, Orderly
<1>4. ASSUME NEW n \in Lengths(2 + NameRoom), Read(n, 2 + NameRoom), width' = Field(n, 1),
             overlong' = (overlong \/ Field(n, 2) > NameRoom), Goto("send_format")
      PROVE  Knows' /\ Aligned'
  <2>1. CASE ~Orderly'
    BY <1>1, <1>4, <2>1 DEF Goto, Knows, Aligned, Configuring, Talking
  <2>2. CASE Orderly'
    <3>1. /\ Orderly /\ conn = "up" /\ ~torn' /\ ~(Field(n, 2) > NameRoom)
      BY <1>1, <1>4, <2>2 DEF Orderly, Whole, Read
    <3>2. s2c # <<>>
      <4>1. 2 + NameRoom \in Nat \ {0}
        BY RoomAssumption
      <4> QED
        BY <1>4, <3>1, <4>1, NothingToRead
    <3>3. srv = "serving" /\ Greeted
      BY <1>1, <3>1, <3>2 DEF Sync, Aligned
    <3>4. PICK length \in Names : s2c = Message(Hello(Width, length))
      BY <3>3 DEF Greeted
    <3>5. Field(n, 1) = Width /\ Field(n, 2) = length /\ (length <= NameRoom => s2c' = <<>>)
      BY <1>1, <1>4, <3>1, <3>4, LengthsAssumption, HelloRead
    <3>6. s2c' = <<>>
      BY <3>1, <3>5, LengthsAssumption, RoomAssumption
    <3>7. width' = Width /\ pc' = "send_format" /\ UNCHANGED spun
      BY <1>4, <3>5 DEF Goto
    <3>8. Here' = Between(0)
      <4>1. reqs' - missed' = 0
        BY <1>1 DEF Knows
      <4> QED
        BY <3>7, <4>1, StandingIs DEF Here
    <3>9. Aligned'
      <4>1. served \in Nat /\ 0 \in 0..served
        BY <1>1 DEF TypedServer
      <4>2. Run(Places, Steps(Width, served), s2c', Between(0), Between(0))
        <5>1. Between(0) \in Places
          BY DEF Between, Place, Places
        <5> QED
          BY <3>6, <5>1, RunEmpty
      <4> QED
        BY <1>1, <3>3, <3>7, <3>8, <4>1, <4>2 DEF Aligned, OnTrack, Ahead
    <3>10. Knows'
      BY <1>1, <3>7 DEF Knows, Configuring
    <3> QED
      BY <3>9, <3>10
  <2> QED
    BY <2>1, <2>2
<1> QED
  BY <1>2, <1>3, <1>4 DEF RecvServerInit

LEMMA HelloCrashes ==
  ASSUME Sync, UNCHANGED serverVars, RecvServerInitCrashes
  PROVE  Knows' /\ Aligned' /\ Picture'
<1>1. Knows /\ spun = "no" /\ pc = "recv_server_init"
  BY DEF Sync, RecvServerInitCrashes, AuthInv, Spinning, Granted
<1>2. pc' = "gone" /\ conn' = "down" /\ UNCHANGED <<spun, width, configured, image_buf, reqs, missed>>
  BY DEF RecvServerInitCrashes, Close, client
<1> QED
  BY <1>1, <1>2 DEF Knows, Aligned, Picture, Configuring, Talking, Orderly, Whole

\* A client that is shown in: nothing has been said yet.
LEMMA HandshakeAligned ==
  ASSUME Sync, UNCHANGED serverVars,
         \/ ConnectToServer \/ Select \/ RecvProtocolVersion \/ SendProtocolVersion
         \/ RecvSupportedSecurityTypes \/ SendSecurityType
         \/ RecvVncAuthChallenge \/ SendVncAuthResponse \/ RecvSecurityResult
         \/ SendClientInit
  PROVE  Aligned' /\ Picture'
<1>1. Knows /\ AuthInv
  BY DEF Sync
<1>2. CASE SendClientInit
  <2>1. /\ pc = "send_client_init" /\ spun = "no" /\ UNCHANGED <<conn, s2c, torn, overlong, srv, early>>
        /\ spun' \in {"no", "failed"} /\ pc' \in {"idle", "recv_server_init"}
    BY <1>1, <1>2 DEF SendClientInit, Send, Goto, Fail, AuthInv, Throwing, serverVars,
       history
  <2> QED
    BY <1>1, <2>1 DEF Knows, Aligned, Picture, Talking, Configuring, Whole, Orderly
<1>3. CASE ~SendClientInit
  <2>1. /\ spun = "no" /\ spun' \in {"no", "failed"}
        /\ pc' \notin {"recv_server_init", "send_format", "send_encodings"}
    BY <1>1, <1>3
    DEF ConnectToServer, Select, RecvProtocolVersion, SendProtocolVersion,
        RecvSupportedSecurityTypes, SendSecurityType, RecvVncAuthChallenge,
        SendVncAuthResponse, RecvSecurityResult, Send, RecvError, Goto, Fail, AuthInv, Throwing
  <2> QED
    BY <2>1 DEF Aligned, Picture, Talking, Configuring
<1> QED
  BY <1>2, <1>3

LEMMA ConfigureAligned ==
  ASSUME Sync, UNCHANGED serverVars, SendSetPixelFormat \/ SendSetEncodings
  PROVE  Aligned' /\ Picture'
<1>1. /\ AuthInv /\ spun = "no" /\ pc \in {"send_format", "send_encodings"}
      /\ UNCHANGED <<s2c, torn, overlong, early, conn, srv, served, reqs, missed, image_buf>>
      /\ pc' \in {"send_encodings", "idle"}
  BY DEF Sync, SendSetPixelFormat, SendSetEncodings, Send, Goto, Fail, AuthInv, Throwing,
     serverVars, client, history
<1>2. Here' = Between(reqs - missed)
  BY <1>1, StandingIs DEF Here
<1>3. Here = Between(reqs - missed)
  BY <1>1, StandingIs DEF Here
<1>4. Orderly' => srv = "serving" /\ OnTrack
  BY <1>1 DEF Sync, Aligned, Talking, Configuring, Whole, Orderly
<1>5. Aligned'
  BY <1>1, <1>2, <1>3, <1>4 DEF Aligned, OnTrack, Ahead
<1>6. Fresh'
  BY <1>1 DEF Fresh, Received
<1> QED
  BY <1>5, <1>6 DEF Picture

\* Between two requests.
LEMMA RestAligned ==
  ASSUME Sync, UNCHANGED serverVars, Throw \/ Destroy
  PROVE  Aligned' /\ Picture'
<1>1. CASE Throw
  <2>1. /\ pc = "idle" /\ spun # "no" /\ pc' \in {"idle", "key_down", "pointer_down", "send_request"}
        /\ UNCHANGED <<spun, conn, torn, overlong, early, s2c, srv, served, image_buf, reqs, missed>>
    BY <1>1 DEF Throw, Goto, client, serverVars
  <2>2. Here = Between(reqs - missed)
    BY <2>1, StandingIs DEF Here
  <2>3. Here' = Between(reqs - missed)
    BY <2>1, StandingIs DEF Here
  <2>4. Aligned'
    BY <2>1, <2>2, <2>3 DEF Sync, Aligned, OnTrack, Ahead, Talking, Configuring, Whole, Orderly
  <2>5. Fresh'
    BY <2>1 DEF Fresh, Received
  <2> QED
    BY <2>4, <2>5 DEF Picture
<1>2. CASE Destroy
  BY <1>2 DEF Destroy, Close, Aligned, Picture, Orderly, Whole, Configuring, Talking
<1> QED
  BY <1>1, <1>2

-----------------------------------------------------------------------------

\* What a step of the server leaves alone, and when the stream is orderly after it.
LEMMA ServedKeeps ==
  ASSUME Sync, Served
  PROVE  /\ AuthInv /\ Typed /\ TypedServer /\ Knows /\ UNCHANGED clientState
         /\ UNCHANGED <<pc, spun, torn, overlong, image_buf, message_type, todo, want>>
         /\ UNCHANGED <<reqs, missed>>
         /\ Here' = Here /\ Talking' = Talking
         /\ served' = served \/ (SendUpdate /\ served < asked /\ served' = asked)
         /\ Orderly' => conn = "connecting" \/ Orderly
         /\ Orderly' /\ pc = "recv_server_init" => ~SendNews
<1>1. /\ AuthInv /\ Typed /\ TypedServer /\ Knows /\ UNCHANGED clientState
      /\ UNCHANGED <<pc, spun, torn, overlong, image_buf, message_type, todo, want, reqs, missed>>
  BY DEF Sync, Served, clientState, client, progress, history
<1>2. Here' = Here /\ Talking' = Talking
  BY <1>1 DEF Here, Talking, Configuring
<1>3. served' = served \/ (SendUpdate /\ served < asked /\ served' = asked)
  BY DEF Served, Serve, Surprise, AcceptConnection, AnswerVersion, Refuse, SendChallenge,
     CheckResponse, Misread, HangUp, Initialise, ReadRequest, SendUpdate, SendNews, Disconnect,
     Connected, Counters
<1>4. conn = "up" \/ conn = "connecting"
  BY DEF Served, Serve, Surprise, AcceptConnection, AnswerVersion, Refuse, SendChallenge,
     CheckResponse, Misread, HangUp, Initialise, ReadRequest, SendUpdate, SendNews, Disconnect,
     Connected
<1>5. (early => early') /\ (SendNews /\ pc = "recv_server_init" => early')
  BY DEF Served
<1>6. Orderly' => conn = "connecting" \/ Orderly
  BY <1>1, <1>4, <1>5 DEF Orderly, Whole
<1>7. Orderly' /\ pc = "recv_server_init" => ~SendNews
  BY <1>5 DEF Orderly
<1> QED
  BY <1>1, <1>2, <1>3, <1>6, <1>7

\* The greeting comes alone.
LEMMA ServerGreets ==
  ASSUME Sync, Served, Orderly', spun = "no", pc = "recv_server_init"
  PROVE  (srv' = "init" /\ s2c' = <<>>) \/ (srv' = "serving" /\ Greeted')
<1>1. Knows /\ AuthInv /\ TypedServer /\ ~SendNews /\ (conn = "connecting" \/ Orderly)
  BY ServedKeeps
<1>2. Orderly /\ ~Connected
  BY <1>1 DEF AuthInv, Connected, Orderly, Whole
<1>3. (srv = "init" /\ s2c = <<>>) \/ (srv = "serving" /\ Greeted)
  BY <1>2 DEF Sync, Aligned
<1>4. ~SendUpdate
  <2>1. reqs = 0 /\ asked \in Nat /\ served \in Nat /\ asked \in 0..0
    BY <1>1, ToldBound DEF Knows, TypedServer, Sync, Tally
  <2> QED
    BY <2>1 DEF SendUpdate
<1>5. CASE Initialise
  <2>1. s2c = <<>> /\ srv' = "serving"
    BY <1>3, <1>5 DEF Initialise
  <2>2. PICK length \in Names : s2c' = s2c \o Message(Hello(Width, length))
    BY <1>5 DEF Initialise, Put
  <2>3. Message(Hello(Width, length)) \in Seq(Unit)
    BY LengthsAssumption, WidthAssumption, HelloIs
  <2>4. s2c' = Message(Hello(Width, length))
    BY <2>1, <2>2, <2>3, ConcatEmptySeq
  <2> QED
    BY <2>1, <2>4 DEF Greeted
<1>6. CASE ReadRequest
  BY <1>3, <1>6 DEF ReadRequest, Greeted
<1>7. CASE HangUp \/ Disconnect
  BY <1>7 DEF HangUp, Disconnect, Orderly, Whole
<1> QED
  BY <1>1, <1>2, <1>3, <1>4, <1>5, <1>6, <1>7
  DEF Served, Serve, Surprise, AcceptConnection, AnswerVersion, Refuse, SendChallenge,
      CheckResponse, Misread

LEMMA ServerAligned ==
  ASSUME Sync, Served
  PROVE  Aligned'
<1>1. /\ AuthInv /\ Typed /\ Knows /\ s2c \in Seq(Unit) /\ served \in Nat /\ asked \in Nat
      /\ Width \in Nat /\ Here' = Here /\ Talking' = Talking /\ UNCHANGED <<pc, spun>>
  BY ServedKeeps, WidthAssumption DEF Typed, TypedServer
<1> SUFFICES ASSUME Orderly', Talking PROVE srv' = "serving" /\ OnTrack'
  BY <1>1, ServerGreets DEF Aligned
<1>2. ~Connected
  BY <1>1 DEF Connected, AuthInv, Talking, Configuring
<1>3. conn # "connecting"
  BY <1>1 DEF AuthInv, Talking, Configuring
<1>4. srv = "serving" /\ OnTrack
  BY <1>3, ServedKeeps DEF Sync, Aligned
<1>5. CASE ReadRequest
  BY <1>1, <1>4, <1>5 DEF OnTrack, Ahead, ReadRequest
<1>6. CASE SendNews
  <2>1. srv = "serving" /\ UNCHANGED <<srv, served>>
    BY <1>6 DEF SendNews
  <2>2. PICK units \in News(Colours, Texts) : s2c' = s2c \o Message(units)
    BY <1>6 DEF SendNews, Put
  <2>3. Ahead(s2c', Here, served, Width)
    BY <1>1, <1>4, <2>1, <2>2, LengthsAssumption, NewsAhead DEF OnTrack
  <2> QED
    BY <1>1, <2>1, <2>3 DEF OnTrack
<1>7. CASE SendUpdate
  <2>1. srv = "serving" /\ UNCHANGED srv /\ served < asked /\ served' = asked
    BY <1>7 DEF SendUpdate
  <2>2. PICK split \in Splits : s2c' = s2c \o Message(Update(split, asked))
    BY <1>7 DEF SendUpdate, Put
  <2>3. split \in Seq(Nat) /\ Covers(split, Width)
    BY SplitsAssumption
  <2>4. Ahead(s2c', Here, asked, Width)
    BY <1>1, <1>4, <2>1, <2>2, <2>3, UpdateAhead DEF OnTrack
  <2> QED
    BY <1>1, <2>1, <2>4 DEF OnTrack
<1>8. CASE HangUp \/ Disconnect
  BY <1>8 DEF HangUp, Disconnect, Orderly, Whole
<1> QED
  BY <1>2, <1>4, <1>5, <1>6, <1>7, <1>8
  DEF Served, Serve, Surprise, AcceptConnection, AnswerVersion, Refuse, SendChallenge,
      CheckResponse, Misread, Initialise

LEMMA ServerPicture ==
  ASSUME Sync, Served
  PROVE  Picture'
<1>1. /\ AuthInv /\ served \in Nat /\ asked \in Nat /\ image_buf \in Seq(Nat)
      /\ UNCHANGED <<pc, spun, image_buf, message_type, reqs, missed>>
      /\ reqs \in Nat /\ missed \in Nat
  BY ServedKeeps DEF Typed, TypedServer
<1>2. served' \in Nat /\ served <= served'
  BY <1>1, ServedKeeps
<1> SUFFICES ASSUME Orderly', spun = "ok" PROVE Fresh'
  BY <1>1 DEF Picture
<1>3. Orderly
  BY <1>1, ServedKeeps DEF AuthInv
<1>4. Fresh
  BY <1>3 DEF Sync, Picture
<1>5. served' \in Nat /\ reqs - missed \in Int
  BY <1>1, <1>2
<1>6. Received(pc, message_type, image_buf, reqs - missed, served', Width)
  BY <1>1, <1>2, <1>4, <1>5, ReceivedMore DEF Fresh
<1> QED
  BY <1>1, <1>6 DEF Fresh

-----------------------------------------------------------------------------

LEMMA SyncNext == Sync /\ [Next]_vars => Sync'
<1> SUFFICES ASSUME Sync, [Next]_vars PROVE Sync'
  OBVIOUS
<1>1. AuthInv' /\ Typed' /\ TypedServer'
  BY AuthNext, TypedNext DEF Sync
<1>2. AuthInv /\ Typed /\ TypedServer /\ Tally
  BY DEF Sync
<1>3. CASE (Call \/ Start \/ Destroy) /\ UNCHANGED serverVars
  <2>1. Tally'
    BY <1>2, <1>3, TallyClient
  <2>2. Knows' /\ Aligned' /\ Picture'
    <3>1. CASE Spin \/ ConnectToServer
      BY <1>3, <3>1, KnowsHandshake, KnowsConfigure, HandshakeAligned, ConfigureAligned,
         HelloAligned, HelloCrashes
      DEF Spin
    <3>2. CASE Capture
      BY <1>3, <3>2, KnowsThrow, SendAligned, ReceiveAligned
      DEF Capture, Receive
    <3>3. CASE Throw \/ Destroy
      BY <1>3, <3>3, KnowsThrow, RestAligned
    <3> QED
      BY <1>3, <3>1, <3>2, <3>3 DEF Call, Start
  <2> QED
    BY <1>1, <2>1, <2>2 DEF Sync
<1>4. CASE Served
  <2>1. (Serve \/ Surprise) /\ UNCHANGED clientState /\ (early => early')
    BY <1>4 DEF Served
  <2>2. Tally' /\ Knows'
    BY <1>2, <2>1, TallyServer, KnowsServer
  <2>3. Aligned' /\ Picture'
    BY <1>4, ServerAligned, ServerPicture
  <2> QED
    BY <1>1, <2>2, <2>3 DEF Sync
<1>5. CASE UNCHANGED vars
  <2>1. /\ UNCHANGED <<pc, spun, conn, s2c, c2s, width, configured, image_buf, message_type, todo>>
        /\ UNCHANGED <<want, reqs, missed, torn, overlong, early, srv, asked, served>>
    BY <1>5 DEF vars, clientVars, serverVars, client, progress, history
  <2>2. /\ Here' = Here /\ Whole' = Whole /\ Orderly' = Orderly /\ Greeted' = Greeted
        /\ Talking' = Talking /\ Configuring' = Configuring
    BY <2>1 DEF Here, Whole, Orderly, Greeted, Talking, Configuring
  <2>3. Aligned'
    BY <2>1, <2>2 DEF Sync, Aligned, OnTrack, Ahead
  <2>4. Knows'
    BY <2>1, <2>2 DEF Sync, Knows
  <2>5. Fresh => Fresh'
    BY <2>1 DEF Fresh, Received
  <2>6. Picture'
    BY <2>1, <2>2, <2>5 DEF Sync, Picture
  <2>7. Tally'
    BY <1>2, <2>1 DEF Tally
  <2> QED
    BY <1>1, <2>3, <2>4, <2>6, <2>7 DEF Sync
<1> QED
  BY <1>3, <1>4, <1>5 DEF Next

\* Whatever screen, name, colours and texts the server has, whatever it sends and in
\* whatever pieces: as long as no read ended inside a message, none came before its time,
\* and the buffers for the name and the texts had room, a client stands at the start of a
\* message between two captures.  The handlers of recv_server_to_client_message take all
\* of a message and nothing of the next.
THEOREM SessionInStep == Spec => []InStep
<1>1. Sync => InStep
  <2> SUFFICES ASSUME Sync, spun = "ok", pc \in {"send_request", "recv_type"}, Orderly, s2c # <<>>
               PROVE  s2c[1].head
    BY DEF InStep
  <2>1. PICK c \in 0..served : Run(Places, Steps(Width, served), s2c, Here, Between(c))
    BY InSession
  <2>2. \E k : Here = Between(k)
    BY StandingIs DEF Here
  <2> QED
    BY <2>1, <2>2, AtType DEF Sync, Typed
<1> QED
  BY SyncInit, SyncNext, <1>1, PTL DEF Spec

\* A client that failed before it knew the size draws nothing, and has received nothing.
LEMMA NothingDrawn ==
  ASSUME Sync, Orderly, pc = "draw", spun # "ok"
  PROVE  width = 0 /\ image_buf = <<>>
<1>1. spun = "failed"
  BY DEF Sync, AuthInv, Typed, Throwing
<1> QED
  BY <1>1 DEF Sync, Knows, Orderly, Whole, Typed

\* A capture that received an update on a whole stream has exactly as many pixels as
\* draw_image reads, however the server cuts the screen into rectangles.
THEOREM SessionDraws == Spec => []DrawsUpdate
<1>1. Sync => DrawsUpdate
  <2> SUFFICES ASSUME Sync, pc = "draw", message_type = 0, Orderly PROVE Len(image_buf) = width
    BY DEF DrawsUpdate
  <2>1. CASE spun = "ok"
    BY <2>1, InSession DEF Fresh, Received
  <2>2. CASE spun # "ok"
    BY <2>2, NothingDrawn
  <2> QED
    BY <2>1, <2>2
<1> QED
  BY SyncInit, SyncNext, <1>1, PTL DEF Spec

\* However many requests and surprises there are: the picture drawn is newer than all but
\* as many requests as there were captures that received something else, and never newer
\* than the last request.
THEOREM SessionStale == Spec => []StaleBound
<1>1. Sync => StaleBound
  <2> SUFFICES ASSUME Sync, pc = "draw", message_type = 0, Orderly, NEW i \in 1..Len(image_buf)
               PROVE  reqs - missed <= image_buf[i] /\ image_buf[i] <= reqs
    BY DEF StaleBound
  <2>1. CASE spun = "ok"
    <3>1. image_buf[i] \in (reqs - missed)..served /\ served \in Nat /\ reqs \in Nat /\ missed \in Nat
      BY <2>1, InSession DEF Fresh, Received
    <3>2. served <= reqs
      <4>1. asked \in Nat /\ served <= asked /\ asked <= reqs
        BY <3>1, ToldBound DEF Sync, Tally, TypedServer
      <4> QED
        BY <3>1, <4>1
    <3> QED
      BY <3>1, <3>2
  <2>2. CASE spun # "ok"
    <3>1. Len(image_buf) = 0
      BY <2>2, NothingDrawn
    <3> QED
      BY <3>1
  <2> QED
    BY <2>1, <2>2
<1> QED
  BY SyncInit, SyncNext, <1>1, PTL DEF Spec
=============================================================================
