-------------------------- MODULE SharedClientProofs --------------------------
(***************************************************************************)
(* Two threads on one client, for any screen, any server and any number of *)
(* requests: as long as their captures do not overlap, the buffer they     *)
(* leave behind is the last picture, or empty after a capture that failed; *)
(* and on a connection that carries every message whole each thread has    *)
(* the picture of its own request.                                         *)
(***************************************************************************)
EXTENDS SharedClient, TLAPS

AP == INSTANCE VncClientProofs WITH
        pc <- pcA, message_type <- typeA, todo <- todoA, want <- wantA,
        throws <- throwsA, missed <- missedA

BP == INSTANCE VncClientProofs WITH
        pc <- pcB, message_type <- typeB, todo <- todoB, want <- wantB,
        throws <- throwsB, missed <- missedB

\* Both are instances for buffers that have room for something.
USE RoomAssumption

-----------------------------------------------------------------------------

(***************************************************************************)
(* The instances of VncClient here and in the proofs about it are the same.*)
(***************************************************************************)

LEMMA SameA == (A!Throw <=> AP!Throw) /\ (A!Capture <=> AP!Capture)
  BY DEF A!Throw, AP!Throw, A!Capture, AP!Capture, A!SendKeyEvent, AP!SendKeyEvent,
      A!SendPointerEvent, AP!SendPointerEvent,
      A!SendFrameBufferUpdateRequest, AP!SendFrameBufferUpdateRequest,
      A!RecvServerToClientMessage, AP!RecvServerToClientMessage,
      A!RecvFrameBufferUpdate, AP!RecvFrameBufferUpdate, A!RecvRectangle, AP!RecvRectangle,
      A!RecvPixels, AP!RecvPixels, A!RecvPixelsSpins, AP!RecvPixelsSpins,
      A!RecvSetColourMapEntries, AP!RecvSetColourMapEntries, A!RecvColour, AP!RecvColour,
      A!RecvServerCutText, AP!RecvServerCutText, A!RecvText, AP!RecvText,
      A!RecvTextCrashes, AP!RecvTextCrashes, A!TakePixels, AP!TakePixels,
      A!DrawImage, AP!DrawImage, A!DrawImageCrashes, AP!DrawImageCrashes,
      A!RecvHeader, AP!RecvHeader, A!NextRectangle, AP!NextRectangle, A!Handler, AP!Handler,
      A!Close, AP!Close, A!Send, AP!Send, A!Msg, AP!Msg, A!Goto, AP!Goto, A!Fail, AP!Fail,
      A!RecvError, AP!RecvError, A!Read, AP!Read, A!Field, AP!Field, A!Lengths, AP!Lengths,
      A!Least, AP!Least, A!client, AP!client, A!progress, AP!progress, A!history, AP!history,
      A!clientVars, AP!clientVars

LEMMA SameB == (B!Throw <=> BP!Throw) /\ (B!Capture <=> BP!Capture)
  BY DEF B!Throw, BP!Throw, B!Capture, BP!Capture, B!SendKeyEvent, BP!SendKeyEvent,
      B!SendPointerEvent, BP!SendPointerEvent,
      B!SendFrameBufferUpdateRequest, BP!SendFrameBufferUpdateRequest,
      B!RecvServerToClientMessage, BP!RecvServerToClientMessage,
      B!RecvFrameBufferUpdate, BP!RecvFrameBufferUpdate, B!RecvRectangle, BP!RecvRectangle,
      B!RecvPixels, BP!RecvPixels, B!RecvPixelsSpins, BP!RecvPixelsSpins,
      B!RecvSetColourMapEntries, BP!RecvSetColourMapEntries, B!RecvColour, BP!RecvColour,
      B!RecvServerCutText, BP!RecvServerCutText, B!RecvText, BP!RecvText,
      B!RecvTextCrashes, BP!RecvTextCrashes, B!TakePixels, BP!TakePixels,
      B!DrawImage, BP!DrawImage, B!DrawImageCrashes, BP!DrawImageCrashes,
      B!RecvHeader, BP!RecvHeader, B!NextRectangle, BP!NextRectangle, B!Handler, BP!Handler,
      B!Close, BP!Close, B!Send, BP!Send, B!Msg, BP!Msg, B!Goto, BP!Goto, B!Fail, BP!Fail,
      B!RecvError, BP!RecvError, B!Read, BP!Read, B!Field, BP!Field, B!Lengths, BP!Lengths,
      B!Least, BP!Least, B!client, BP!client, B!progress, BP!progress, B!history, BP!history,
      B!clientVars, BP!clientVars

\* They read the same stream.
LEMMA SameReader ==
  /\ BP!Receiving = AP!Receiving
  /\ \A s, p, limit, size : BP!Ahead(s, p, limit, size) = AP!Ahead(s, p, limit, size)
  /\ \A l, more, pixels, drawn, count :
       BP!Standing(l, more, pixels, drawn, count) = AP!Standing(l, more, pixels, drawn, count)
  /\ \A l, type, buf, count, limit, size :
       BP!Received(l, type, buf, count, limit, size) = AP!Received(l, type, buf, count, limit, size)
  /\ \A told, msgs, sent : BP!Told(told, msgs, sent) = AP!Told(told, msgs, sent)
<1>1. BP!Receiving = AP!Receiving
  BY DEF AP!Receiving, BP!Receiving
<1>2. ASSUME NEW s, NEW p, NEW limit, NEW size
      PROVE  BP!Ahead(s, p, limit, size) = AP!Ahead(s, p, limit, size)
  BY DEF AP!Ahead, BP!Ahead, AP!Run, BP!Run, AP!Places, BP!Places, AP!Steps, BP!Steps, AP!Reads,
     BP!Reads, AP!Place, BP!Place, AP!Between, BP!Between, AP!Items, BP!Items,
     AP!Rectangles, BP!Rectangles, AP!Pixels, BP!Pixels, AP!Unit, BP!Unit
<1>3. ASSUME NEW l, NEW more, NEW pixels, NEW drawn, NEW count
      PROVE  BP!Standing(l, more, pixels, drawn, count) = AP!Standing(l, more, pixels, drawn, count)
  BY DEF AP!Standing, BP!Standing, AP!Place, BP!Place, AP!Between, BP!Between, AP!Items, BP!Items
<1>4. ASSUME NEW l, NEW type, NEW buf, NEW count, NEW limit, NEW size
      PROVE  BP!Received(l, type, buf, count, limit, size)
               = AP!Received(l, type, buf, count, limit, size)
  BY DEF AP!Received, BP!Received
<1>5. ASSUME NEW told, NEW msgs, NEW sent
      PROVE  BP!Told(told, msgs, sent) = AP!Told(told, msgs, sent)
  BY DEF AP!Told, BP!Told, AP!Counting, BP!Counting, AP!ClientMsg, BP!ClientMsg, AP!Run, BP!Run
<1> QED
  BY <1>1, <1>2, <1>3, <1>4, <1>5

\* And it is the one of the server.
LEMMA SameStream ==
  /\ AP!Unit = Unit /\ AP!News(Colours, Texts) = News(Colours, Texts)
  /\ \A units : AP!Message(units) = Message(units)
  /\ \A split, tag : AP!Update(split, tag) = Update(split, tag)
  /\ \A split, size : AP!Covers(split, size) = Covers(split, size)
<1>1. AP!Unit = Unit /\ AP!News(Colours, Texts) = News(Colours, Texts)
  BY DEF AP!Unit, Unit, AP!News, News, AP!Listing, Listing
<1>2. ASSUME NEW units PROVE AP!Message(units) = Message(units)
  BY DEF AP!Message, Message
<1>3. ASSUME NEW split, NEW tag PROVE AP!Update(split, tag) = Update(split, tag)
  BY DEF AP!Update, Update, AP!Rectangle, Rectangle, AP!FlattenSeq, FlattenSeq
<1>4. ASSUME NEW split, NEW size PROVE AP!Covers(split, size) = Covers(split, size)
  BY DEF AP!Covers, Covers
<1> QED
  BY <1>1, <1>2, <1>3, <1>4

-----------------------------------------------------------------------------

(***************************************************************************)
(* The locals of either thread.                                            *)
(***************************************************************************)

Pc(t)     == IF t = "A" THEN pcA ELSE pcB
Type(t)   == IF t = "A" THEN typeA ELSE typeB
Todo(t)   == IF t = "A" THEN todoA ELSE todoB
Want(t)   == IF t = "A" THEN wantA ELSE wantB
Missed(t) == IF t = "A" THEN missedA ELSE missedB

Method(t) == (t = "A" /\ MethodA) \/ (t = "B" /\ MethodB)

\* Updates received, when each capture received one message.
Count == reqs - missedA - missedB

\* Where thread t stands in the stream, that from there to the end of a message all is well
\* with it, and what t has received.
Here(t)    == AP!Standing(Pc(t), Todo(t), Want(t), Len(image_buf), Count)
OnTrack(t) == AP!Ahead(s2c, Here(t), served, Width)
Fresh(t)   == AP!Received(Pc(t), Type(t), image_buf, Count, served, Width)

-----------------------------------------------------------------------------

(***************************************************************************)
(* Types.                                                                  *)
(***************************************************************************)

\* The session all of this happens in.
Serving ==
  /\ spun = "ok" /\ width = Width /\ configured /\ srv = "serving"
  /\ conn \in {"up", "closed", "down"} /\ asked \in Nat /\ served \in Nat

TypedHandler ==
  /\ image \in Seq(Nat) /\ jpeg_buf \in Seq(Nat) /\ last \in Seq(Nat)
  /\ stage \in [Thread -> {"method", "encode", "copy", "copied"}]
  /\ copy \in [Thread -> Seq(Nat)] /\ reply \in [Thread -> Seq(Nat)]
  /\ mine \in [Thread -> Nat] /\ \A t \in Thread : mine[t] <= reqs
  /\ capturing \in SUBSET Thread
  /\ failed \in BOOLEAN /\ clashed \in BOOLEAN

Counted == served <= asked /\ AP!Told(asked, c2s, reqs)

Typed == AP!Typed /\ BP!Typed /\ Serving /\ TypedHandler /\ Counted

LEMMA TypedOK == Typed => TypeOK
<1> SUFFICES ASSUME Typed PROVE TypeOK
  OBVIOUS
<1>1. /\ wantA \in Nat /\ todoA \in Nat /\ throwsA \in Nat /\ missedA \in Nat /\ reqs \in Nat
      /\ wantB \in Nat /\ todoB \in Nat /\ throwsB \in Nat /\ missedB \in Nat
      /\ image_buf \in Seq(Nat)
  BY DEF Typed, AP!Typed, BP!Typed
<1>2. mine \in [Thread -> 0..reqs]
  BY <1>1 DEF Typed, TypedHandler
<1> QED
  BY <1>1, <1>2 DEF Typed, TypedHandler, TypeOK

LEMMA TypedInit == SharedInit => Typed
<1> SUFFICES ASSUME SharedInit PROVE Typed
  OBVIOUS
<1>1. /\ <<>> \in Seq(AP!Unit) /\ <<>> \in Seq(BP!Unit) /\ <<>> \in Seq(Nat)
      /\ <<7, 8>> \in Nat \X Nat /\ Width \in Nat
  BY WidthAssumption
<1>2. AP!Typed /\ BP!Typed
  BY <1>1 DEF SharedInit, AP!Typed, BP!Typed
<1>3. Serving
  BY DEF SharedInit, Serving
<1>4. TypedHandler
  <2>1. /\ stage \in [Thread -> {"method", "encode", "copy", "copied"}]
        /\ copy \in [Thread -> Seq(Nat)] /\ reply \in [Thread -> Seq(Nat)]
        /\ mine \in [Thread -> Nat] /\ \A t \in Thread : mine[t] <= reqs
    BY <1>1 DEF SharedInit
  <2>2. /\ image \in Seq(Nat) /\ jpeg_buf \in Seq(Nat) /\ last \in Seq(Nat)
        /\ capturing \in SUBSET Thread
    BY <1>1 DEF SharedInit
  <2>3. failed \in BOOLEAN /\ clashed \in BOOLEAN
    BY DEF SharedInit
  <2> QED
    BY <2>1, <2>2, <2>3 DEF TypedHandler
<1>5. AP!Told(0, <<>>, 0)
  <2>1. 0 \in Nat /\ 0 \in 0..0
    OBVIOUS
  <2> QED
    BY <2>1, AP!ToldNothing
<1>6. Counted
  BY <1>5 DEF SharedInit, Counted
<1> QED
  BY <1>2, <1>3, <1>4, <1>6 DEF Typed

\* What a step of a method means outside it keeps the types there.
LEMMA FollowTyped ==
  ASSUME TypedHandler, reqs \in Nat, reqs' \in Nat, reqs <= reqs', width \in Nat,
         image_buf \in Seq(Nat), NEW t \in Thread, NEW from, NEW to, Follow(t, from, to)
  PROVE  TypedHandler'
<1>1. /\ image \in Seq(Nat) /\ jpeg_buf \in Seq(Nat) /\ last \in Seq(Nat)
      /\ stage \in [Thread -> {"method", "encode", "copy", "copied"}]
      /\ copy \in [Thread -> Seq(Nat)] /\ reply \in [Thread -> Seq(Nat)]
      /\ mine \in [Thread -> Nat] /\ capturing \in SUBSET Thread
      /\ \A u \in Thread : mine[u] \in Nat /\ mine[u] <= reqs
  BY DEF TypedHandler
<1>2. stage' \in [Thread -> {"method", "encode", "copy", "copied"}]
  BY <1>1 DEF Follow, Follows, After
<1>3. jpeg_buf' \in Seq(Nat)
  <2>1. <<>> \in Seq(Nat) /\ Torn \in Seq(Nat)
    BY DEF Torn
  <2> QED
    BY <1>1, <2>1 DEF Follow, Follows
<1>4. image' \in Seq(Nat)
  <2>1. ASSUME NEW i \in 1..width
        PROVE  (IF i <= Len(image_buf) THEN image_buf[i] ELSE 0) \in Nat
    <3>1. Len(image_buf) \in Nat
      OBVIOUS
    <3> QED
      BY <3>1, AP!ElementOfSeq
  <2>2. Drawn \in Seq(Nat)
    BY <2>1, AP!IsASeq DEF Drawn
  <2> QED
    BY <1>1, <2>2 DEF Follow, Follows
<1>5. mine' \in [Thread -> Nat] /\ \A u \in Thread : mine'[u] <= reqs'
  <2>1. CASE mine' = [mine EXCEPT ![t] = reqs']
    BY <1>1, <2>1
  <2>2. CASE mine' = [mine EXCEPT ![t] = 0]
    BY <1>1, <2>2
  <2>3. CASE mine' = mine
    BY <1>1, <2>3
  <2> QED
    BY <2>1, <2>2, <2>3 DEF Follow, Follows
<1>6. capturing' \in SUBSET Thread
  BY <1>1 DEF Follow, Follows
<1>7. failed' \in BOOLEAN /\ clashed' \in BOOLEAN
  <2>1. failed' \in BOOLEAN
    BY DEF TypedHandler, Follow, Follows
  <2>2. clashed' \in BOOLEAN
    BY DEF TypedHandler, Follow, Follows
  <2> QED
    BY <2>1, <2>2
<1>8. UNCHANGED <<copy, reply, last>>
  BY DEF Follow, Follows
<1> QED
  BY <1>1, <1>2, <1>3, <1>4, <1>5, <1>6, <1>7, <1>8 DEF TypedHandler

LEMMA StepA ==
  ASSUME Typed, MethodA
  PROVE  /\ AP!Typed' /\ UNCHANGED <<spun, width, configured>> /\ AP!Told(asked, c2s', reqs')
         /\ AP!Course(pcA, pcA') /\ conn' \in {conn, "down"}
         /\ (torn => torn') /\ (overlong => overlong')
         /\ pcA = "send_request" => reqs' = reqs + 1
         /\ pcA # "send_request" => reqs' = reqs
<1>1. AP!Typed /\ spun = "ok" /\ asked \in Nat /\ AP!Told(asked, c2s, reqs)
  BY SameReader DEF Typed, Serving, Counted
<1>2. AP!Throw \/ AP!Capture
  BY SameA DEF MethodA
<1>3. AP!Call \/ AP!Start
  BY <1>2 DEF AP!Call, AP!Start
<1>4. AP!Typed'
  BY <1>1, <1>3, AP!TypedClient
<1>5. AP!Told(asked, c2s', reqs')
  BY <1>1, <1>3, AP!ToldClient
<1>6. UNCHANGED <<spun, width, configured>>
  BY <1>1, <1>2, AP!CaptureKeeps DEF AP!Throw, AP!client, AP!Goto
<1>7. conn' \in {conn, "down"} /\ (torn => torn') /\ (overlong => overlong')
  BY <1>1, <1>2, AP!CaptureKeeps DEF AP!Throw
<1>8. /\ AP!Course(pcA, pcA')
      /\ pcA = "send_request" => reqs' = reqs + 1
      /\ pcA # "send_request" => reqs' = reqs
  BY <1>2, AP!CourseOf
<1>9. AP!Course(pcA, pcA') <=> AP!Course(pcA, pcA')
  BY DEF AP!Course, BP!Course, AP!Receiving, BP!Receiving
<1>10. AP!Told(asked, c2s', reqs') <=> AP!Told(asked, c2s', reqs')
  BY SameReader
<1> QED
  BY <1>4, <1>5, <1>6, <1>7, <1>8, <1>9, <1>10

LEMMA StepB ==
  ASSUME Typed, MethodB
  PROVE  /\ BP!Typed' /\ UNCHANGED <<spun, width, configured>> /\ AP!Told(asked, c2s', reqs')
         /\ AP!Course(pcB, pcB') /\ conn' \in {conn, "down"}
         /\ (torn => torn') /\ (overlong => overlong')
         /\ pcB = "send_request" => reqs' = reqs + 1
         /\ pcB # "send_request" => reqs' = reqs
<1>1. BP!Typed /\ spun = "ok" /\ asked \in Nat /\ BP!Told(asked, c2s, reqs)
  BY SameReader DEF Typed, Serving, Counted
<1>2. BP!Throw \/ BP!Capture
  BY SameB DEF MethodB
<1>3. BP!Call \/ BP!Start
  BY <1>2 DEF BP!Call, BP!Start
<1>4. BP!Typed'
  BY <1>1, <1>3, BP!TypedClient
<1>5. BP!Told(asked, c2s', reqs')
  BY <1>1, <1>3, BP!ToldClient
<1>6. UNCHANGED <<spun, width, configured>>
  BY <1>1, <1>2, BP!CaptureKeeps DEF BP!Throw, BP!client, BP!Goto
<1>7. conn' \in {conn, "down"} /\ (torn => torn') /\ (overlong => overlong')
  BY <1>1, <1>2, BP!CaptureKeeps DEF BP!Throw
<1>8. /\ BP!Course(pcB, pcB')
      /\ pcB = "send_request" => reqs' = reqs + 1
      /\ pcB # "send_request" => reqs' = reqs
  BY <1>2, BP!CourseOf
<1>9. BP!Course(pcB, pcB') <=> AP!Course(pcB, pcB')
  BY DEF AP!Course, BP!Course, AP!Receiving, BP!Receiving
<1>10. AP!Told(asked, c2s', reqs') <=> BP!Told(asked, c2s', reqs')
  BY SameReader
<1> QED
  BY <1>4, <1>5, <1>6, <1>7, <1>8, <1>9, <1>10

\* The types of what the threads share are the same for both.
LEMMA SharedTyped ==
  /\ AP!Typed' /\ BP!Typed /\ UNCHANGED localsB => BP!Typed'
  /\ BP!Typed' /\ AP!Typed /\ UNCHANGED localsA => AP!Typed'
<1>1. AP!Unit = BP!Unit
  BY DEF AP!Unit, BP!Unit
<1> QED
  BY <1>1 DEF AP!Typed, BP!Typed, localsA, localsB

LEMMA MethodTyped ==
  ASSUME Typed, MethodA \/ MethodB
  PROVE  Typed'
<1>1. /\ AP!Typed' /\ BP!Typed' /\ UNCHANGED <<spun, width, configured>>
      /\ AP!Told(asked, c2s', reqs')
  <2>1. CASE MethodA
    BY <2>1, StepA, SharedTyped DEF Typed, MethodA
  <2>2. CASE MethodB
    BY <2>2, StepB, SharedTyped DEF Typed, MethodB
  <2> QED
    BY <2>1, <2>2
<1>2. reqs \in Nat /\ reqs' \in Nat /\ image_buf \in Seq(Nat) /\ width \in Nat
  BY <1>1 DEF Typed, AP!Typed
<1>3. reqs <= reqs' /\ conn' \in {conn, "down"}
  <2>1. reqs' = reqs \/ reqs' = reqs + 1
    BY StepA, StepB
  <2>2. conn' \in {conn, "down"}
    BY StepA, StepB
  <2> QED
    BY <1>2, <2>1, <2>2
<1>4. UNCHANGED <<srv, asked, served>> /\ Alive
  BY DEF MethodA, MethodB, serverVars
<1>5. Serving'
  BY <1>1, <1>3, <1>4 DEF Typed, Serving
<1>6. TypedHandler'
  BY <1>2, <1>3, FollowTyped DEF Typed, MethodA, MethodB, Thread
<1>7. Counted'
  BY <1>1, <1>4 DEF Typed, Counted
<1> QED
  BY <1>1, <1>5, <1>6, <1>7 DEF Typed

\* The steps outside the methods.
LEMMA HandlerTyped ==
  ASSUME Typed, NEW t \in Thread, Encode(t) \/ Copy(t) \/ Reply(t)
  PROVE  Typed'
<1>1. UNCHANGED <<localsA, localsB, shared, serverVars>>
  BY DEF Encode, Copy, Reply
<1>2. AP!Typed' /\ BP!Typed'
  BY <1>1 DEF Typed, AP!Typed, BP!Typed, localsA, localsB, shared
<1>3. Serving' /\ Counted'
  BY <1>1 DEF Typed, Serving, Counted, Alive, localsA, localsB, shared, serverVars
<1>4. reqs' = reqs /\ Torn \in Seq(Nat)
  BY <1>1 DEF shared, Torn
<1>5. TypedHandler'
  <2>1. CASE Encode(t)
    BY <1>4, <2>1 DEF Encode, Goto, Typed, TypedHandler
  <2>2. CASE Copy(t)
    BY <1>4, <2>2 DEF Copy, Goto, Typed, TypedHandler
  <2>3. CASE Reply(t)
    <3>1. reply' \in [Thread -> Seq(Nat)]
      <4>1. (IF jpeg_buf = copy[t] THEN copy[t] ELSE Torn) \in Seq(Nat)
        BY <1>4 DEF Typed, TypedHandler
      <4> QED
        BY <2>3, <4>1 DEF Reply, Typed, TypedHandler
    <3>2. copy' \in [Thread -> Seq(Nat)]
      <4>1. <<>> \in Seq(Nat)
        OBVIOUS
      <4> QED
        BY <2>3, <4>1 DEF Reply, Typed, TypedHandler
    <3>3. stage' \in [Thread -> {"method", "encode", "copy", "copied"}]
      BY <2>3 DEF Reply, Goto, Typed, TypedHandler
    <3> QED
      BY <1>4, <2>3, <3>1, <3>2, <3>3 DEF Reply, Typed, TypedHandler
  <2> QED
    BY <2>1, <2>2, <2>3
<1> QED
  BY <1>2, <1>3, <1>5 DEF Typed

\* What the server puts on the stream are units.
LEMMA ServerPuts ==
  /\ \A units \in News(Colours, Texts) : Message(units) \in Seq(AP!Unit)
  /\ \A split \in Splits, tag \in Nat \ {0} : Message(Update(split, tag)) \in Seq(AP!Unit)
<1>1. ASSUME NEW units \in News(Colours, Texts) PROVE Message(units) \in Seq(AP!Unit)
  <2>1. Width \in Nat /\ 0 \in Nat /\ units \in AP!News(Colours, Texts)
    BY WidthAssumption, SameStream
  <2>2. AP!Message(units) \in Seq(AP!Unit)
    BY <2>1, LengthsAssumption, AP!NewsRun
  <2> QED
    BY <2>2, SameStream
<1>2. ASSUME NEW split \in Splits, NEW tag \in Nat \ {0}
      PROVE  Message(Update(split, tag)) \in Seq(AP!Unit)
  <2>1. split \in Seq(Nat) /\ AP!Covers(split, Width)
    BY SplitsAssumption, SameStream
  <2>2. Width \in Nat /\ 0 \in Nat /\ tag \in 0 + 1..tag
    BY WidthAssumption
  <2>3. AP!Message(AP!Update(split, tag)) \in Seq(AP!Unit)
    BY <2>1, <2>2, AP!UpdateRun
  <2> QED
    BY <2>3, SameStream
<1> QED
  BY <1>1, <1>2

LEMMA ServerTyped == ASSUME Typed, Server PROVE Typed'
<1>1. UNCHANGED <<localsA, localsB, spun, version, challenge, width, configured, image_buf, reqs,
                  overlong, frags, torn, handler, srv>>
  BY DEF Server, ReadRequest, SendUpdate, SendNews, Disconnect
<1>2. /\ asked \in Nat /\ served \in Nat /\ served <= asked /\ AP!Told(asked, c2s, reqs)
      /\ reqs \in Nat /\ s2c \in Seq(AP!Unit) /\ conn \in {"up", "closed", "down"}
  BY DEF Typed, Serving, Counted, AP!Typed
<1>3. conn' \in {"up", "closed", "down"}
  BY <1>2 DEF Server, ReadRequest, SendUpdate, SendNews, Disconnect
<1>4. s2c' \in Seq(AP!Unit)
  <2>1. ASSUME NEW units, Message(units) \in Seq(AP!Unit), Put(units) PROVE s2c' \in Seq(AP!Unit)
    BY <1>2, <2>1, AP!ConcatProperties DEF Put
  <2>2. CASE ReadRequest \/ Disconnect
    <3>1. s2c' = s2c \/ s2c' = <<>>
      BY <2>2 DEF ReadRequest, Disconnect
    <3>2. <<>> \in Seq(AP!Unit)
      OBVIOUS
    <3> QED
      BY <1>2, <3>1, <3>2
  <2>3. CASE SendUpdate
    <3>1. asked \in Nat \ {0}
      BY <1>2, <2>3 DEF SendUpdate
    <3> QED
      BY <2>1, <2>3, <3>1, ServerPuts DEF SendUpdate
  <2>4. CASE SendNews
    BY <2>1, <2>4, ServerPuts DEF SendNews
  <2> QED
    BY <2>2, <2>3, <2>4 DEF Server
<1>5. AP!Typed' /\ BP!Typed'
  <2>1. AP!Unit = BP!Unit
    BY DEF AP!Unit, BP!Unit
  <2>2. AP!Typed'
    BY <1>1, <1>3, <1>4 DEF Typed, AP!Typed, localsA
  <2>3. BP!Typed'
    BY <1>1, <1>3, <1>4, <2>1 DEF Typed, BP!Typed, localsB
  <2> QED
    BY <2>2, <2>3
<1>6. TypedHandler'
  BY <1>1 DEF Typed, TypedHandler, handler
<1>7. asked' \in Nat /\ served' \in Nat /\ served' <= asked' /\ AP!Told(asked', c2s', reqs')
  <2>1. CASE ReadRequest
    <3>1. /\ c2s # <<>> /\ c2s' = Tail(c2s) /\ UNCHANGED served
          /\ asked' = asked + (IF Head(c2s).kind = "request" THEN 1 ELSE 0)
      BY <2>1 DEF ReadRequest
    <3>2. asked' \in Nat /\ served' \in Nat /\ served' <= asked'
      BY <1>2, <3>1
    <3>3. asked' <= asked + (IF Head(c2s).kind = "request" THEN 1 ELSE 0)
      BY <3>1, <3>2
    <3>4. AP!Told(asked', Tail(c2s), reqs)
      BY <1>2, <3>1, <3>2, <3>3, AP!ToldTail
    <3> QED
      BY <1>1, <3>1, <3>2, <3>4
  <2>2. CASE SendUpdate \/ SendNews
    BY <1>1, <1>2, <2>2 DEF SendUpdate, SendNews
  <2>3. CASE Disconnect
    <3>1. UNCHANGED <<asked, served>> /\ c2s' \in {c2s, <<>>}
      BY <2>3 DEF Disconnect
    <3>2. AP!Told(asked, <<>>, reqs)
      BY <1>2, AP!ToldBound, AP!ToldNothing
    <3> QED
      BY <1>1, <1>2, <3>1, <3>2
  <2> QED
    BY <2>1, <2>2, <2>3 DEF Server
<1>8. Serving'
  BY <1>1, <1>3, <1>7 DEF Typed, Serving
<1> QED
  BY <1>5, <1>6, <1>7, <1>8 DEF Typed, Counted

LEMMA TypedNext == Typed /\ [Next]_vars => Typed'
<1> SUFFICES ASSUME Typed, [Next]_vars PROVE Typed'
  OBVIOUS
<1>1. CASE UNCHANGED vars
  <2>1. UNCHANGED <<localsA, localsB, shared, serverVars, handler>>
    BY <1>1 DEF vars
  <2>2. AP!Typed' /\ BP!Typed'
    BY <2>1 DEF Typed, AP!Typed, BP!Typed, localsA, localsB, shared
  <2>3. Serving' /\ Counted'
    BY <2>1 DEF Typed, Serving, Counted, localsA, localsB, shared, serverVars
  <2>4. TypedHandler'
    BY <2>1 DEF Typed, TypedHandler, handler, shared
  <2> QED
    BY <2>2, <2>3, <2>4 DEF Typed
<1> QED
  BY <1>1, MethodTyped, HandlerTyped, ServerTyped DEF Next

\* Two threads that read one stream as they come, each with its own locals, on a connection
\* that may break, still count their rectangles, pixels and colours down to zero and not
\* below, and neither is ever given a number of a request that was not sent.
THEOREM SharedTypes == Spec => []TypeOK
  BY TypedInit, TypedNext, TypedOK, PTL DEF Spec

-----------------------------------------------------------------------------

(***************************************************************************)
(* Where a thread is when it captures, whatever the connection is and      *)
(* whoever else captures.                                                  *)
(***************************************************************************)

\* The methods before the update request.
Before == {"key_down", "key_up", "pointer_down", "pointer_up", "send_request"}

\* A thread captures from its update request to the end of its copy.
Captures(t) ==
  Pc(t) \in AP!Receiving \cup {"draw", "gone"} \/ (stage[t] # "method" /\ mine[t] # 0)

Settled(t) ==
  /\ Pc(t) \in {"idle", "draw", "gone"} \cup Before \cup AP!Receiving
  /\ stage[t] # "method" => Pc(t) = "idle"
  /\ stage[t] = "encode" => mine[t] # 0
  /\ Pc(t) \in Before => mine[t] = 0
  /\ t \in capturing <=> Captures(t)
  /\ t \in capturing => mine[t] # 0
  /\ Type(t) # 0 => Missed(t) # 0

\* The two threads' methods in the same words.
LEMMA MethodIs ==
  ASSUME Typed, NEW t \in Thread, Method(t)
  PROVE  /\ Alive /\ stage[t] = "method" /\ Follow(t, Pc(t), Pc(t)')
         /\ AP!Course(Pc(t), Pc(t)')
         /\ Pc(t) = "send_request" => reqs' = reqs + 1
         /\ Pc(t) # "send_request" => reqs' = reqs
         /\ conn' \in {conn, "down"} /\ (torn => torn') /\ (overlong => overlong')
         /\ \A u \in Thread \ {t} : UNCHANGED <<Pc(u), Type(u), Todo(u), Want(u), Missed(u)>>
         /\ UNCHANGED <<width, asked, served>>
         /\ (Type(t) # 0 => Missed(t) # 0) => (Type(t)' # 0 => Missed(t)' # 0)
<1>1. CASE t = "A"
  <2>1. MethodA /\ Pc(t) = pcA /\ Pc(t)' = pcA'
    BY <1>1 DEF Method, Pc
  <2>2. Alive /\ stage[t] = "method" /\ Follow(t, Pc(t), Pc(t)') /\ UNCHANGED <<asked, served>>
    BY <1>1, <2>1 DEF MethodA, serverVars
  <2>3. \A u \in Thread \ {t} : UNCHANGED <<Pc(u), Type(u), Todo(u), Want(u), Missed(u)>>
    BY <1>1, <2>1 DEF MethodA, localsB, Thread, Pc, Type, Todo, Want, Missed
  <2>4. (Type(t) # 0 => Missed(t) # 0) => (Type(t)' # 0 => Missed(t)' # 0)
    <3>1. AP!Misses => AP!Misses'
      BY <2>1, SameA, AP!MissesOf DEF MethodA, Typed
    <3> QED
      BY <1>1, <3>1 DEF AP!Misses, Type, Missed
  <2> QED
    BY <2>1, <2>2, <2>3, <2>4, StepA
<1>2. CASE t = "B"
  <2>1. MethodB /\ Pc(t) = pcB /\ Pc(t)' = pcB'
    BY <1>2 DEF Method, Pc
  <2>2. Alive /\ stage[t] = "method" /\ Follow(t, Pc(t), Pc(t)') /\ UNCHANGED <<asked, served>>
    BY <1>2, <2>1 DEF MethodB, serverVars
  <2>3. \A u \in Thread \ {t} : UNCHANGED <<Pc(u), Type(u), Todo(u), Want(u), Missed(u)>>
    BY <1>2, <2>1 DEF MethodB, localsA, Thread, Pc, Type, Todo, Want, Missed
  <2>4. (Type(t) # 0 => Missed(t) # 0) => (Type(t)' # 0 => Missed(t)' # 0)
    <3>1. BP!Misses => BP!Misses'
      BY <2>1, SameB, BP!MissesOf DEF MethodB, Typed
    <3> QED
      BY <1>2, <3>1 DEF BP!Misses, Type, Missed
  <2> QED
    BY <2>1, <2>2, <2>3, <2>4, StepB
<1> QED
  BY <1>1, <1>2 DEF Thread

\* What Follow does for a step of each kind.
LEMMA FollowIs ==
  ASSUME Typed, NEW t \in Thread, NEW from, NEW to, Follow(t, from, to), AP!Course(from, to)
  PROVE  /\ \A u \in Thread \ {t} : UNCHANGED <<stage[u], mine[u]>>
         /\ UNCHANGED <<copy, reply, last>>
         /\ from = "draw" => image' = Drawn
         /\ from # "draw" => UNCHANGED image
         /\ from = "idle" => mine'[t] = 0
         /\ from = "send_request" => mine'[t] = reqs' /\ jpeg_buf' = <<>>
         /\ from \notin {"idle", "send_request"} => UNCHANGED mine[t]
         /\ from \notin {"draw", "send_request"} => UNCHANGED jpeg_buf
         /\ to # "idle" => stage'[t] = "method"
         /\ from = "idle" /\ to = "idle" => stage'[t] = "copy"
         /\ from = "draw" /\ to = "idle" => stage'[t] = "encode"
         /\ from \notin {"idle", "key_up", "draw"} => stage'[t] = "method"
         /\ from = "key_up" => stage'[t] \in {"copy", "method"}
<1>1. /\ stage \in [Thread -> {"method", "encode", "copy", "copied"}]
      /\ mine \in [Thread -> Nat]
  BY DEF Typed, TypedHandler
<1>2. PICK s \in After(from, to) : stage' = [stage EXCEPT ![t] = s]
  BY DEF Follow, Follows
<1>3. stage'[t] = s /\ \A u \in Thread \ {t} : UNCHANGED stage[u]
  BY <1>1, <1>2
<1>4. /\ from = "idle" => mine' = [mine EXCEPT ![t] = 0]
      /\ from = "send_request" => mine' = [mine EXCEPT ![t] = reqs']
      /\ from \notin {"idle", "send_request"} => mine' = mine
  BY DEF Follow, Follows
<1>5. /\ UNCHANGED <<copy, reply, last>>
      /\ from = "draw" => image' = Drawn
      /\ from # "draw" => UNCHANGED image
      /\ from = "send_request" => jpeg_buf' = <<>>
      /\ from \notin {"draw", "send_request"} => UNCHANGED jpeg_buf
  BY DEF Follow, Follows
<1>6. /\ to # "idle" => s = "method"
      /\ from = "idle" /\ to = "idle" => s = "copy"
      /\ from = "draw" /\ to = "idle" => s = "encode"
      /\ from \notin {"idle", "key_up", "draw"} => s = "method"
      /\ from = "key_up" => s \in {"copy", "method"}
  BY DEF After, AP!Course
<1> QED
  BY <1>1, <1>3, <1>4, <1>5, <1>6

\* And for who captures.
LEMMA FollowCaptures ==
  ASSUME Typed, NEW t \in Thread, NEW from, NEW to, Follow(t, from, to), AP!Course(from, to)
  PROVE  /\ from # "draw" /\ to = "idle" => capturing' = capturing \ {t}
         /\ from = "draw" => capturing' = capturing
         /\ from = "send_request" /\ to # "idle" => capturing' = capturing \cup {t}
         /\ from # "send_request" /\ to # "idle" => capturing' = capturing
         /\ Fails(t, from, to) => failed'
         /\ ~Fails(t, from, to) => failed' = failed
         /\ ~clashed' => ~clashed /\ (from = "send_request" => capturing = {})
<1>1. failed \in BOOLEAN
  BY DEF Typed, TypedHandler
<1>2. failed' = (failed \/ Fails(t, from, to))
  BY DEF Follow, Follows
<1>3. /\ Fails(t, from, to) => failed'
      /\ ~Fails(t, from, to) => failed' = failed
  BY <1>1, <1>2
<1>4. ~clashed' => ~clashed /\ (from = "send_request" => capturing = {})
  BY DEF Follow, Follows
<1>5. /\ from # "draw" /\ to = "idle" => capturing' = capturing \ {t}
      /\ from = "draw" => capturing' = capturing
      /\ from = "send_request" /\ to # "idle" => capturing' = capturing \cup {t}
      /\ from # "send_request" /\ to # "idle" => capturing' = capturing
  BY DEF Follow, Follows
<1> QED
  BY <1>3, <1>4, <1>5

\* What a thread's own place rests on.
LEMMA SettledKept ==
  ASSUME NEW u \in Thread, Settled(u),
         UNCHANGED <<Pc(u), Type(u), Missed(u), stage[u], mine[u]>>,
         u \in capturing' <=> u \in capturing
  PROVE  Settled(u)'
  BY DEF Settled, Captures

LEMMA MethodSettled ==
  ASSUME Typed, Typed', \A u \in Thread : Settled(u), NEW t \in Thread, Method(t)
  PROVE  \A u \in Thread : Settled(u)'
<1> DEFINE from == Pc(t)
           to == Pc(t)'
<1>1. /\ stage[t] = "method" /\ Follow(t, from, to) /\ AP!Course(from, to)
      /\ from = "send_request" => reqs' = reqs + 1
      /\ \A u \in Thread \ {t} : UNCHANGED <<Pc(u), Type(u), Missed(u)>>
      /\ Type(t)' # 0 => Missed(t)' # 0
  BY MethodIs DEF Settled
<1>2. /\ \A u \in Thread \ {t} : UNCHANGED <<stage[u], mine[u]>>
      /\ from = "idle" => mine'[t] = 0
      /\ from = "send_request" => mine'[t] = reqs'
      /\ from \notin {"idle", "send_request"} => UNCHANGED mine[t]
      /\ to # "idle" => stage'[t] = "method"
      /\ from = "idle" /\ to = "idle" => stage'[t] = "copy"
      /\ from = "draw" /\ to = "idle" => stage'[t] = "encode"
      /\ from \notin {"idle", "key_up", "draw"} => stage'[t] = "method"
      /\ from = "key_up" => stage'[t] \in {"copy", "method"}
  BY <1>1, FollowIs
<1>3. /\ from # "draw" /\ to = "idle" => capturing' = capturing \ {t}
      /\ from = "draw" => capturing' = capturing
      /\ from = "send_request" /\ to # "idle" => capturing' = capturing \cup {t}
      /\ from # "send_request" /\ to # "idle" => capturing' = capturing
  BY <1>1, FollowCaptures
<1>4. from = "send_request" => reqs' # 0
  BY <1>1 DEF Typed, AP!Typed
<1>5. Settled(t)
  OBVIOUS
<1> HIDE DEF from, to
<1>6. Pc(t) = from /\ Pc(t)' = to
  BY DEF from, to
<1>7. Settled(t)'
  <2>1. CASE from \in {"idle", "key_down", "key_up", "pointer_down", "pointer_up"}
    BY <1>1, <1>2, <1>3, <1>5, <1>6, <2>1 DEF Settled, Captures, AP!Course, Before, AP!Receiving
  <2>2. CASE from = "send_request"
    BY <1>1, <1>2, <1>3, <1>4, <1>5, <1>6, <2>2
    DEF Settled, Captures, AP!Course, Before, AP!Receiving
  <2>3. CASE from \in AP!Receiving
    BY <1>1, <1>2, <1>3, <1>5, <1>6, <2>3 DEF Settled, Captures, AP!Course, Before, AP!Receiving
  <2>4. CASE from = "draw"
    BY <1>1, <1>2, <1>3, <1>5, <1>6, <2>4 DEF Settled, Captures, AP!Course, Before, AP!Receiving
  <2> QED
    BY <1>1, <2>1, <2>2, <2>3, <2>4 DEF AP!Course
<1>8. ASSUME NEW u \in Thread \ {t} PROVE Settled(u)'
  <2>1. u \in capturing' <=> u \in capturing
    BY <1>1, <1>3 DEF AP!Course
  <2> QED
    BY <1>1, <1>2, <2>1, SettledKept
<1> QED
  BY <1>7, <1>8

LEMMA HandlerSettled ==
  ASSUME Typed, \A u \in Thread : Settled(u), NEW t \in Thread, Encode(t) \/ Copy(t) \/ Reply(t)
  PROVE  \A u \in Thread : Settled(u)'
<1>1. UNCHANGED <<localsA, localsB, shared, mine>> /\ stage[t] # "method"
  BY DEF Encode, Copy, Reply
<1>2. /\ stage \in [Thread -> {"method", "encode", "copy", "copied"}]
      /\ capturing \in SUBSET Thread
  BY DEF Typed, TypedHandler
<1>3. \A u \in Thread : UNCHANGED <<Pc(u), Type(u), Missed(u), mine[u]>>
  BY <1>1 DEF localsA, localsB, Pc, Type, Missed
<1>4. /\ \A u \in Thread \ {t} : UNCHANGED stage[u]
      /\ \/ stage'[t] \in {"copy", "copied"} /\ capturing' = capturing
         \/ stage'[t] = "method" /\ capturing' = capturing \ {t}
  BY <1>2 DEF Encode, Copy, Reply, Goto
<1>5. Settled(t)'
  BY <1>1, <1>3, <1>4 DEF Settled, Captures, Before, AP!Receiving
<1>6. ASSUME NEW u \in Thread \ {t} PROVE Settled(u)'
  BY <1>3, <1>4, SettledKept
<1> QED
  BY <1>5, <1>6

LEMMA SettledNext ==
  ASSUME Typed, Typed', \A u \in Thread : Settled(u), [Next]_vars
  PROVE  \A u \in Thread : Settled(u)'
<1>1. CASE MethodA \/ MethodB
  <2>1. \E t \in Thread : Method(t)
    BY <1>1 DEF Method, Thread
  <2> QED
    BY <2>1, MethodSettled
<1>2. CASE \E t \in Thread : Encode(t) \/ Copy(t) \/ Reply(t)
  BY <1>2, HandlerSettled
<1>3. CASE Server \/ UNCHANGED vars
  <2>1. UNCHANGED <<localsA, localsB, stage, mine, capturing>>
    BY <1>3 DEF Server, vars, handler
  <2>2. ASSUME NEW u \in Thread PROVE Settled(u)'
    <3>1. UNCHANGED <<Pc(u), Type(u), Missed(u), stage[u], mine[u]>>
      BY <2>1 DEF localsA, localsB, Pc, Type, Missed
    <3> QED
      BY <2>1, <3>1, SettledKept
  <2> QED
    BY <2>2
<1> QED
  BY <1>1, <1>2, <1>3 DEF Next

-----------------------------------------------------------------------------

(***************************************************************************)
(* The buffer between captures.                                            *)
(***************************************************************************)

\* Without an overlap one thread captures, or none, and the buffer is empty from its
\* clear_buf to the drawing.
AtRest ==
  /\ \A t, u \in capturing : t = u
  /\ capturing = {} => jpeg_buf = IF failed THEN <<>> ELSE last
  /\ \A t \in capturing : /\ Pc(t) \in AP!Receiving => jpeg_buf = <<>>
                          /\ stage[t] \in {"copy", "copied"} => jpeg_buf = last /\ ~failed

LEMMA MethodRest ==
  ASSUME Typed, \A u \in Thread : Settled(u), \A u \in Thread : Settled(u)', AtRest,
         NEW t \in Thread, Method(t), ~clashed'
  PROVE  AtRest'
<1> DEFINE from == Pc(t)
           to == Pc(t)'
<1>1. /\ stage[t] = "method" /\ Follow(t, from, to) /\ AP!Course(from, to)
      /\ \A u \in Thread \ {t} : UNCHANGED Pc(u)
  BY MethodIs
<1>2. /\ \A u \in Thread \ {t} : UNCHANGED stage[u]
      /\ UNCHANGED last
      /\ from = "send_request" => jpeg_buf' = <<>>
      /\ from \notin {"draw", "send_request"} => UNCHANGED jpeg_buf
      /\ to # "idle" => stage'[t] = "method"
      /\ from = "draw" /\ to = "idle" => stage'[t] = "encode"
      /\ from \notin {"idle", "key_up", "draw"} => stage'[t] = "method"
  BY <1>1, FollowIs
<1>3. /\ from # "draw" /\ to = "idle" => capturing' = capturing \ {t}
      /\ from = "draw" => capturing' = capturing
      /\ from = "send_request" /\ to # "idle" => capturing' = capturing \cup {t}
      /\ from # "send_request" /\ to # "idle" => capturing' = capturing
      /\ Fails(t, from, to) => failed'
      /\ ~Fails(t, from, to) => failed' = failed
      /\ from = "send_request" => capturing = {}
  BY <1>1, FollowCaptures
<1>4. Settled(t) /\ Settled(t)' /\ capturing \in SUBSET Thread
  BY DEF Typed, TypedHandler
<1> HIDE DEF from, to
<1>5. Pc(t) = from /\ Pc(t)' = to
  BY DEF from, to
<1>6. CASE from \in {"idle", "key_down", "key_up", "pointer_down", "pointer_up"}
  <2>1. t \notin capturing
    BY <1>1, <1>4, <1>5, <1>6 DEF Settled, Captures, AP!Receiving
  <2>2. UNCHANGED <<capturing, jpeg_buf, failed>>
    <3>1. ~Fails(t, from, to)
      BY <1>6, <2>1 DEF Fails
    <3>2. capturing' = capturing
      BY <1>3, <1>6, <2>1
    <3> QED
      BY <1>2, <1>3, <1>6, <3>1, <3>2
  <2>3. \A u \in capturing : UNCHANGED <<Pc(u), stage[u]>>
    BY <1>1, <1>2, <1>4, <2>1
  <2> QED
    BY <1>2, <2>2, <2>3 DEF AtRest
<1>7. CASE from = "send_request"
  <2>1. CASE to = "idle"
    <3>1. capturing' = {} /\ jpeg_buf' = <<>>
      BY <1>2, <1>3, <1>7, <2>1
    <3>2. failed'
      BY <1>3, <1>7, <2>1 DEF Fails
    <3> QED
      BY <3>1, <3>2 DEF AtRest
  <2>2. CASE to # "idle"
    <3>1. capturing' = {t} /\ jpeg_buf' = <<>> /\ stage'[t] = "method"
      BY <1>2, <1>3, <1>7, <2>2
    <3> QED
      BY <3>1 DEF AtRest
  <2> QED
    BY <2>1, <2>2
<1>8. CASE from \in AP!Receiving
  <2>1. /\ capturing = {t} /\ jpeg_buf' = <<>> /\ stage'[t] = "method"
        /\ from \notin {"draw", "send_request"}
    BY <1>2, <1>4, <1>5, <1>8 DEF Settled, Captures, AtRest, AP!Receiving
  <2>2. CASE to = "idle"
    <3>1. capturing' = {}
      BY <1>3, <2>1, <2>2
    <3>2. failed'
      BY <1>3, <2>1, <2>2 DEF Fails
    <3> QED
      BY <2>1, <3>1, <3>2 DEF AtRest
  <2>3. CASE to # "idle"
    <3>1. capturing' = {t}
      BY <1>3, <2>1, <2>3
    <3> QED
      BY <2>1, <3>1 DEF AtRest
  <2> QED
    BY <2>2, <2>3
<1>9. CASE from = "draw"
  <2>1. capturing' = {t} /\ to \in {"idle", "gone"} /\ stage'[t] \in {"encode", "method"}
    BY <1>1, <1>2, <1>3, <1>4, <1>5, <1>9 DEF Settled, Captures, AtRest, AP!Course, AP!Receiving
  <2> QED
    BY <1>5, <2>1 DEF AtRest, AP!Receiving
<1> QED
  BY <1>1, <1>6, <1>7, <1>8, <1>9 DEF AP!Course

LEMMA HandlerRest ==
  ASSUME Typed, \A u \in Thread : Settled(u), AtRest, NEW t \in Thread,
         Encode(t) \/ Copy(t) \/ Reply(t)
  PROVE  AtRest'
<1>1. UNCHANGED <<localsA, localsB>> /\ Settled(t)
  BY DEF Encode, Copy, Reply
<1>2. /\ stage \in [Thread -> {"method", "encode", "copy", "copied"}]
      /\ capturing \in SUBSET Thread
  BY DEF Typed, TypedHandler
<1>3. \A u \in Thread : UNCHANGED Pc(u)
  BY <1>1 DEF localsA, localsB, Pc
<1>4. CASE Encode(t)
  <2>1. /\ capturing' = {t} /\ jpeg_buf' = last' /\ failed' = FALSE /\ Pc(t) = "idle"
    BY <1>1, <1>2, <1>4 DEF Encode, Settled, Captures, AtRest
  <2> QED
    BY <1>3, <2>1 DEF AtRest, AP!Receiving
<1>5. CASE Copy(t)
  <2>1. /\ UNCHANGED <<jpeg_buf, last, failed, capturing>> /\ stage[t] = "copy"
        /\ \A u \in Thread \ {t} : UNCHANGED stage[u]
    BY <1>2, <1>5 DEF Copy, Goto
  <2>2. \A u \in capturing : stage'[u] \in {"copy", "copied"} => stage[u] \in {"copy", "copied"}
    BY <1>2, <2>1
  <2> QED
    BY <1>2, <1>3, <2>1, <2>2 DEF AtRest
<1>6. CASE Reply(t)
  <2>1. /\ UNCHANGED <<jpeg_buf, last, failed>> /\ capturing' = capturing \ {t}
        /\ stage[t] = "copied" /\ \A u \in Thread \ {t} : UNCHANGED stage[u]
    BY <1>2, <1>6 DEF Reply, Goto
  <2>2. capturing' = {} => jpeg_buf' = IF failed' THEN <<>> ELSE last'
    <3>1. CASE t \in capturing
      BY <2>1, <3>1 DEF AtRest
    <3>2. CASE t \notin capturing
      BY <2>1, <3>2 DEF AtRest
    <3> QED
      BY <3>1, <3>2
  <2> QED
    BY <1>2, <1>3, <2>1, <2>2 DEF AtRest
<1> QED
  BY <1>4, <1>5, <1>6

LEMMA RestNext ==
  ASSUME Typed, \A u \in Thread : Settled(u), \A u \in Thread : Settled(u)',
         ~clashed => AtRest, [Next]_vars
  PROVE  ~clashed' => AtRest'
<1> SUFFICES ASSUME ~clashed' PROVE AtRest'
  OBVIOUS
<1>1. ASSUME NEW t \in Thread, Method(t) PROVE AtRest'
  <2>1. ~clashed
    BY <1>1, MethodIs, FollowCaptures
  <2> QED
    BY <1>1, <2>1, MethodRest
<1>2. CASE MethodA \/ MethodB
  <2>1. \E t \in Thread : Method(t)
    BY <1>2 DEF Method, Thread
  <2> QED
    BY <1>1, <2>1
<1>3. CASE \E t \in Thread : Encode(t) \/ Copy(t) \/ Reply(t)
  <2>1. ~clashed
    BY <1>3 DEF Encode, Copy, Reply
  <2> QED
    BY <1>3, <2>1, HandlerRest
<1>4. CASE Server \/ UNCHANGED vars
  <2>1. UNCHANGED <<localsA, localsB, handler>>
    BY <1>4 DEF Server, vars
  <2>2. UNCHANGED <<stage, capturing, jpeg_buf, failed, last, clashed>>
    BY <2>1 DEF handler
  <2>3. \A u \in Thread : UNCHANGED Pc(u)
    BY <2>1 DEF localsA, localsB, Pc
  <2>4. capturing \in SUBSET Thread
    BY DEF Typed, TypedHandler
  <2> QED
    BY <2>2, <2>3, <2>4 DEF AtRest
<1> QED
  BY <1>2, <1>3, <1>4 DEF Next

-----------------------------------------------------------------------------

(***************************************************************************)
(* The stream, on an orderly connection.                                   *)
(***************************************************************************)

NoMiss == missedA = 0 /\ missedB = 0

\* What a thread has of its picture: the pixels received, those drawn, encoded and copied.
\* No request but its own is the last.
Shows(t) ==
  /\ t \in capturing => mine[t] = reqs
  /\ Fresh(t)
  /\ t \in capturing /\ stage[t] = "copied" => copy[t] = jpeg_buf
  /\ NoMiss =>
       /\ stage[t] = "encode" => image = Whole(mine[t])
       /\ t \in capturing /\ stage[t] \in {"copy", "copied"} => last = Whole(mine[t])
       /\ Pc(t) = "idle" /\ stage[t] = "method" /\ mine[t] # 0 => reply[t] = Whole(mine[t])

\* The stream is read by the one that captures, or by nobody.
Turns == \A t \in Thread : capturing \subseteq {t} => OnTrack(t)

Order == Turns /\ \A t \in Thread : Shows(t)

Base == Typed /\ (\A t \in Thread : Settled(t)) /\ (~clashed => AtRest)

SharedInv == Base /\ (Orderly => Order)

-----------------------------------------------------------------------------

(***************************************************************************)
(* A step of a method, of either thread.                                   *)
(***************************************************************************)

\* It goes on to the next method, before or after a capture.
Moves(t) ==
  /\ \/ Pc(t) = "idle" /\ Pc(t)' \in {"idle", "key_down", "pointer_down", "send_request"}
     \/ Pc(t) = "key_down" /\ Pc(t)' = "key_up"
     \/ Pc(t) = "key_up" /\ Pc(t)' = "idle"
     \/ Pc(t) = "pointer_down" /\ Pc(t)' = "pointer_up"
     \/ Pc(t) = "pointer_up" /\ Pc(t)' = "send_request"
  /\ stage'[t] = "method" => Pc(t)' # "idle"
  /\ UNCHANGED <<s2c, image_buf, reqs, Count, Missed(t)>>

Requests(t) ==
  /\ Pc(t) = "send_request" /\ Pc(t)' = "recv_type"
  /\ image_buf' = <<>> /\ reqs' = reqs + 1 /\ Count' = Count + 1
  /\ UNCHANGED <<s2c, Missed(t)>>

Receives(t) ==
  /\ Pc(t) \in AP!Receiving /\ Pc(t)' \in AP!Receiving \cup {"draw"}
  /\ OnTrack(t)' /\ Fresh(t)'
  /\ Missed(t)' \in {Missed(t), Missed(t) + 1}
  /\ UNCHANGED reqs

Draws(t) ==
  /\ Pc(t) = "draw" /\ Pc(t)' = "idle"
  /\ UNCHANGED <<s2c, image_buf, reqs, Count, Missed(t)>>

Step(t) ==
  /\ Base /\ Base' /\ AtRest /\ AtRest' /\ stage[t] = "method"
  /\ Follow(t, Pc(t), Pc(t)') /\ AP!Course(Pc(t), Pc(t)')
  /\ \A u \in Thread \ {t} : UNCHANGED <<Pc(u), Type(u), Todo(u), Want(u), Missed(u)>>
  /\ UNCHANGED <<width, asked, served>>
  /\ Moves(t) \/ Requests(t) \/ Receives(t) \/ Draws(t)

\* With the connection up a key that was sent is followed by the copy.
LEMMA KeyGoesOn ==
  ASSUME Typed, NEW t \in Thread, conn = "up", NEW from \in {"idle", "key_up"},
         Follow(t, from, "idle")
  PROVE  stage'[t] = "copy"
<1>1. stage \in [Thread -> {"method", "encode", "copy", "copied"}]
  BY DEF Typed, TypedHandler
<1>2. After(from, "idle") = {"copy"}
  BY DEF After
<1>3. stage' = [stage EXCEPT ![t] = "copy"]
  BY <1>2 DEF Follow, Follows
<1> QED
  BY <1>1, <1>3

LEMMA MethodStepA ==
  ASSUME NEW t \in Thread, t = "A", Typed, Typed', MethodA, Orderly, Orderly',
         Pc(t) \in AP!Receiving => OnTrack(t) /\ Fresh(t)
  PROVE  Moves(t) \/ Requests(t) \/ Receives(t) \/ Draws(t)
<1>1. /\ Pc(t) = pcA /\ Type(t) = typeA /\ Todo(t) = todoA /\ Want(t) = wantA
      /\ Missed(t) = missedA /\ Pc(t)' = pcA' /\ Type(t)' = typeA' /\ Missed(t)' = missedA'
      /\ Here(t) = AP!Standing(pcA, todoA, wantA, Len(image_buf), Count)
      /\ Here(t)' = AP!Standing(pcA', todoA', wantA', Len(image_buf'), Count')
  BY DEF Pc, Type, Todo, Want, Missed, Here
<1>2. /\ Follow(t, pcA, pcA') /\ UNCHANGED <<served, missedB>> /\ conn = "up" /\ conn' = "up"
      /\ ~torn /\ ~torn'
  BY DEF MethodA, localsB, serverVars, Orderly
<1>3. AP!GoesOn \/ AP!Asks \/ AP!Crashes \/ AP!Receive
  <2>1. AP!Typed /\ spun = "ok" /\ (AP!Throw \/ AP!Capture)
    BY SameA DEF Typed, Serving, MethodA
  <2> QED
    BY <1>2, <2>1, AP!StepsOf
<1>4. /\ reqs \in Nat /\ missedA \in Nat /\ missedB \in Nat /\ served \in Nat
      /\ reqs' \in Nat /\ missedA' \in Nat /\ Count = reqs - missedA - missedB
      /\ Count' = reqs' - missedA' - missedB
  BY <1>2 DEF Typed, AP!Typed, BP!Typed, Serving, Count
<1>5. CASE AP!GoesOn
  <2>1. Count' = Count
    BY <1>4, <1>5 DEF AP!GoesOn
  <2>2. pcA \in {"idle", "key_up"} /\ pcA' = "idle" => stage'[t] = "copy"
    BY <1>2, KeyGoesOn
  <2> QED
    BY <1>1, <1>5, <2>1, <2>2 DEF AP!GoesOn, Moves, Draws
<1>6. CASE AP!Asks
  <2>1. Count' = Count + 1
    BY <1>4, <1>6 DEF AP!Asks
  <2> QED
    BY <1>1, <1>6, <2>1 DEF AP!Asks, Requests
<1>7. CASE AP!Crashes
  BY <1>2, <1>7 DEF AP!Crashes
<1>8. CASE AP!Receive
  <2>1. pcA \in AP!Receiving /\ UNCHANGED reqs
    BY <1>8, AP!ReceiveKeeps
  <2>2. AP!Poised(Count, served, Width)
    BY <1>1, <1>2, <1>4, <2>1 DEF AP!Poised, Typed, Serving, OnTrack, Fresh
  <2> DEFINE after == Count - (missedA' - missedA)
  <2>3. /\ pcA' \in AP!Receiving \cup {"draw"} /\ missedA' \in {missedA, missedA + 1}
        /\ AP!Ahead(s2c', AP!Standing(pcA', todoA', wantA', Len(image_buf'), after), served, Width)
        /\ AP!Received(pcA', typeA', image_buf', after, served, Width)
    BY <1>2, <1>8, <2>2, AP!Receives
  <2>4. after = Count'
    BY <1>4, <2>1
  <2> HIDE DEF after
  <2>5. OnTrack(t)' /\ Fresh(t)'
    BY <1>1, <1>2, <2>3, <2>4 DEF OnTrack, Fresh
  <2> QED
    BY <1>1, <2>1, <2>3, <2>5 DEF Receives
<1> QED
  BY <1>3, <1>5, <1>6, <1>7, <1>8

LEMMA MethodStepB ==
  ASSUME NEW t \in Thread, t = "B", Typed, Typed', MethodB, Orderly, Orderly',
         Pc(t) \in AP!Receiving => OnTrack(t) /\ Fresh(t)
  PROVE  Moves(t) \/ Requests(t) \/ Receives(t) \/ Draws(t)
<1>1. /\ Pc(t) = pcB /\ Type(t) = typeB /\ Todo(t) = todoB /\ Want(t) = wantB
      /\ Missed(t) = missedB /\ Pc(t)' = pcB' /\ Type(t)' = typeB' /\ Missed(t)' = missedB'
      /\ Here(t) = BP!Standing(pcB, todoB, wantB, Len(image_buf), Count)
      /\ Here(t)' = BP!Standing(pcB', todoB', wantB', Len(image_buf'), Count')
  BY SameReader DEF Pc, Type, Todo, Want, Missed, Here
<1>2. /\ Follow(t, pcB, pcB') /\ UNCHANGED <<served, missedA>> /\ conn = "up" /\ conn' = "up"
      /\ ~torn /\ ~torn'
  BY DEF MethodB, localsA, serverVars, Orderly
<1>3. BP!GoesOn \/ BP!Asks \/ BP!Crashes \/ BP!Receive
  <2>1. BP!Typed /\ spun = "ok" /\ (BP!Throw \/ BP!Capture)
    BY SameB DEF Typed, Serving, MethodB
  <2> QED
    BY <1>2, <2>1, BP!StepsOf
<1>4. /\ reqs \in Nat /\ missedA \in Nat /\ missedB \in Nat /\ served \in Nat
      /\ reqs' \in Nat /\ missedB' \in Nat /\ Count = reqs - missedA - missedB
      /\ Count' = reqs' - missedA - missedB'
  BY <1>2 DEF Typed, AP!Typed, BP!Typed, Serving, Count
<1>5. CASE BP!GoesOn
  <2>1. Count' = Count
    BY <1>4, <1>5 DEF BP!GoesOn
  <2>2. pcB \in {"idle", "key_up"} /\ pcB' = "idle" => stage'[t] = "copy"
    BY <1>2, KeyGoesOn
  <2> QED
    BY <1>1, <1>5, <2>1, <2>2 DEF BP!GoesOn, Moves, Draws
<1>6. CASE BP!Asks
  <2>1. Count' = Count + 1
    BY <1>4, <1>6 DEF BP!Asks
  <2> QED
    BY <1>1, <1>6, <2>1 DEF BP!Asks, Requests
<1>7. CASE BP!Crashes
  BY <1>2, <1>7 DEF BP!Crashes
<1>8. CASE BP!Receive
  <2>1. pcB \in BP!Receiving /\ UNCHANGED reqs
    BY <1>8, BP!ReceiveKeeps
  <2>2. BP!Poised(Count, served, Width)
    BY <1>1, <1>2, <1>4, <2>1, SameReader DEF BP!Poised, Typed, Serving, OnTrack, Fresh
  <2> DEFINE after == Count - (missedB' - missedB)
  <2>3. /\ pcB' \in BP!Receiving \cup {"draw"} /\ missedB' \in {missedB, missedB + 1}
        /\ BP!Ahead(s2c', BP!Standing(pcB', todoB', wantB', Len(image_buf'), after), served, Width)
        /\ BP!Received(pcB', typeB', image_buf', after, served, Width)
    BY <1>2, <1>8, <2>2, BP!Receives
  <2>4. after = Count'
    BY <1>4, <2>1
  <2> HIDE DEF after
  <2>5. OnTrack(t)' /\ Fresh(t)'
    BY <1>1, <1>2, <2>3, <2>4, SameReader DEF OnTrack, Fresh
  <2> QED
    BY <1>1, <2>1, <2>3, <2>5, SameReader DEF Receives
<1> QED
  BY <1>3, <1>5, <1>6, <1>7, <1>8

LEMMA MethodStep ==
  ASSUME SharedInv, Base', Orderly, Orderly', NEW t \in Thread, Method(t)
  PROVE  Step(t)
<1>1. /\ Typed /\ Typed' /\ AtRest /\ AtRest'
      /\ Pc(t) \in AP!Receiving => OnTrack(t) /\ Fresh(t)
  <2>1. /\ Typed /\ Typed' /\ AtRest /\ AtRest' /\ Turns /\ Settled(t) /\ Shows(t)
        /\ capturing \in SUBSET Thread
    BY DEF SharedInv, Base, Order, Orderly, Typed, TypedHandler
  <2>2. Pc(t) \in AP!Receiving => capturing \subseteq {t}
    BY <2>1 DEF AtRest, Settled, Captures
  <2> QED
    BY <2>1, <2>2 DEF Turns, Shows
<1>2. Moves(t) \/ Requests(t) \/ Receives(t) \/ Draws(t)
  <2>1. CASE t = "A"
    BY <1>1, <2>1, MethodStepA DEF Method
  <2>2. CASE t = "B"
    BY <1>1, <2>2, MethodStepB DEF Method
  <2> QED
    BY <2>1, <2>2 DEF Thread
<1> QED
  BY <1>1, <1>2, MethodIs DEF Step, SharedInv

\* An overlap, a torn field, a text too long or a broken connection is never undone.
LEMMA StaysOrderly ==
  ASSUME Typed, [Next]_vars, Orderly'
  PROVE  Orderly
<1>1. ASSUME NEW t \in Thread, Method(t) PROVE Orderly
  <2>1. /\ Follow(t, Pc(t), Pc(t)') /\ AP!Course(Pc(t), Pc(t)')
        /\ conn' \in {conn, "down"} /\ (torn => torn') /\ (overlong => overlong')
    BY <1>1, MethodIs
  <2>2. ~clashed
    BY <2>1, FollowCaptures DEF Orderly
  <2> QED
    BY <2>1, <2>2 DEF Orderly
<1>2. CASE MethodA \/ MethodB
  <2>1. \E t \in Thread : Method(t)
    BY <1>2 DEF Method, Thread
  <2> QED
    BY <1>1, <2>1
<1>3. CASE Server
  <2>1. UNCHANGED <<clashed, torn, overlong>>
    BY <1>3 DEF Server, handler
  <2>2. conn = "up"
    BY <1>3 DEF Server, ReadRequest, SendUpdate, SendNews, Disconnect
  <2> QED
    BY <2>1, <2>2 DEF Orderly
<1>4. CASE \E t \in Thread : Encode(t) \/ Copy(t) \/ Reply(t)
  BY <1>4 DEF Encode, Copy, Reply, shared, Orderly
<1>5. CASE UNCHANGED vars
  BY <1>5 DEF vars, shared, handler, Orderly
<1> QED
  BY <1>2, <1>3, <1>4, <1>5 DEF Next

\* Where a thread stands that does not read.
LEMMA HereIs ==
  ASSUME NEW t
  PROVE  /\ Pc(t) \in {"idle", "draw", "gone"} \cup Before => Here(t) = AP!Between(Count)
         /\ Pc(t)' \in {"idle", "draw", "gone"} \cup Before => Here(t)' = AP!Between(Count')
         /\ Pc(t)' = "recv_type" => Here(t)' = AP!Between(Count' - 1)
<1> DEFINE rest == {"idle", "draw", "gone"} \cup Before
<1>1. \A l \in rest : \A more, pixels, drawn, count :
        AP!Standing(l, more, pixels, drawn, count) = AP!Between(count)
  BY AP!StandingIs DEF Before
<1>2. \A more, pixels, drawn, count :
        AP!Standing("recv_type", more, pixels, drawn, count) = AP!Between(count - 1)
  BY AP!StandingIs
<1> HIDE DEF rest
<1>3. /\ Here(t) = AP!Standing(Pc(t), Todo(t), Want(t), Len(image_buf), Count)
      /\ Here(t)' = AP!Standing(Pc(t)', Todo(t)', Want(t)', Len(image_buf'), Count')
  BY DEF Here
<1>4. Pc(t) \in rest => Here(t) = AP!Between(Count)
  BY <1>1, <1>3
<1>5. Pc(t)' \in rest => Here(t)' = AP!Between(Count')
  BY <1>1, <1>3
<1>6. Pc(t)' = "recv_type" => Here(t)' = AP!Between(Count' - 1)
  BY <1>2, <1>3
<1> QED
  BY <1>4, <1>5, <1>6 DEF rest

\* A thread that does not read has nothing to lose.
LEMMA FreshAtRest ==
  ASSUME NEW t,
         Pc(t)' \in {"idle", "gone"} \cup Before \/ (Pc(t)' = "recv_type" /\ image_buf' = <<>>)
  PROVE  Fresh(t)'
<1>1. Fresh(t)' <=> AP!Received(Pc(t)', Type(t)', image_buf', Count', served', Width)
  BY DEF Fresh
<1> QED
  BY <1>1 DEF AP!Received, Before

LEMMA NoMissBefore ==
  ASSUME NEW t \in Thread, Step(t), NoMiss'
  PROVE  NoMiss
<1>1. NoMiss <=> Missed("A") = 0 /\ Missed("B") = 0
  BY DEF NoMiss, Missed
<1>2. NoMiss' <=> Missed("A")' = 0 /\ Missed("B")' = 0
  BY DEF NoMiss, Missed
<1>3. Missed("A") \in Nat /\ Missed("B") \in Nat
  BY DEF Step, Base, Typed, AP!Typed, BP!Typed, Missed
<1>4. \A u \in Thread : Missed(u)' \in {Missed(u), Missed(u) + 1}
  BY DEF Step, Moves, Requests, Receives, Draws
<1> QED
  BY <1>1, <1>2, <1>3, <1>4 DEF Thread

-----------------------------------------------------------------------------

(***************************************************************************)
(* Every step keeps the order.                                             *)
(***************************************************************************)

\* What of another thread's order a step does not touch, that neither captures nor ends a
\* capture.
LEMMA OtherKept ==
  ASSUME NEW u \in Thread, Settled(u), Shows(u), NoMiss' => NoMiss,
         UNCHANGED <<Pc(u), Type(u), Missed(u), stage[u], mine[u], copy[u], reply[u]>>,
         u \in capturing' <=> u \in capturing,
         u \in capturing => UNCHANGED <<image, jpeg_buf, last, reqs>>,
         Pc(u) \in AP!Receiving \cup {"draw"} => UNCHANGED <<image_buf, Count, served>>
  PROVE  Shows(u)'
<1>1. Fresh(u)'
  <2>1. CASE Pc(u) \in AP!Receiving \cup {"draw"}
    <3>1. Fresh(u)' <=> Fresh(u)
      BY <2>1 DEF Fresh
    <3> QED
      BY <3>1 DEF Shows
  <2>2. CASE Pc(u) \notin AP!Receiving \cup {"draw"}
    BY <2>2, FreshAtRest DEF Settled
  <2> QED
    BY <2>1, <2>2
<1>2. stage[u] = "encode" => u \in capturing
  BY DEF Settled, Captures
<1> QED
  BY <1>1, <1>2 DEF Shows, Whole

\* What each step of a method starts from.
LEMMA StepStarts ==
  ASSUME NEW t \in Thread, Step(t), Order
  PROVE  /\ Typed /\ Settled(t) /\ Settled(t)' /\ Shows(t) /\ stage[t] = "method"
         /\ mine \in [Thread -> Nat] /\ capturing \in SUBSET Thread
         /\ reqs \in Nat /\ Count \in Int
         /\ \A u, v \in capturing : u = v
         /\ NoMiss' => NoMiss
         /\ \A u \in Thread \ {t} : /\ Settled(u) /\ Shows(u)
                                    /\ UNCHANGED <<Pc(u), Type(u), Missed(u), stage[u], mine[u],
                                                   copy[u], reply[u]>>
<1>1. /\ Typed /\ \A u \in Thread : Settled(u) /\ Settled(u)' /\ Shows(u)
      /\ stage[t] = "method" /\ \A u, v \in capturing : u = v
  BY DEF Step, Base, Order, AtRest
<1>2. mine \in [Thread -> Nat] /\ capturing \in SUBSET Thread
  BY <1>1 DEF Typed, TypedHandler
<1>3. reqs \in Nat /\ Count \in Int
  <2>1. reqs \in Nat /\ missedA \in Nat /\ missedB \in Nat
    BY <1>1 DEF Typed, AP!Typed, BP!Typed
  <2> QED
    BY <2>1 DEF Count
<1>4. NoMiss' => NoMiss
  BY NoMissBefore
<1>5. ASSUME NEW u \in Thread \ {t}
      PROVE  UNCHANGED <<Pc(u), Type(u), Missed(u), stage[u], mine[u], copy[u], reply[u]>>
  <2>1. UNCHANGED <<Pc(u), Type(u), Missed(u)>> /\ Follow(t, Pc(t), Pc(t)')
        /\ AP!Course(Pc(t), Pc(t)')
    BY DEF Step
  <2>2. UNCHANGED <<stage[u], mine[u], copy, reply>>
    BY <1>1, <2>1, FollowIs
  <2> QED
    BY <2>1, <2>2
<1> QED
  BY <1>1, <1>2, <1>3, <1>4, <1>5

\* Before a capture, and after an operation with a key.
LEMMA Moved ==
  ASSUME NEW t \in Thread, Order, Step(t), Moves(t)
  PROVE  Order'
<1>1. /\ Settled(t) /\ Settled(t)' /\ stage[t] = "method" /\ mine \in [Thread -> Nat]
      /\ capturing \in SUBSET Thread
      /\ NoMiss' => NoMiss
  BY StepStarts
<1>2. /\ Pc(t) \in {"idle"} \cup Before /\ Pc(t)' \in {"idle"} \cup Before
      /\ Pc(t) \notin {"draw", "send_request"} /\ t \notin capturing
  BY <1>1 DEF Settled, Captures, Moves, Before, AP!Receiving
<1>3. /\ UNCHANGED <<jpeg_buf, image, copy, reply, last, capturing>>
      /\ mine'[t] = 0
  <2>1. Follow(t, Pc(t), Pc(t)') /\ AP!Course(Pc(t), Pc(t)') /\ Typed
    BY DEF Step, Base
  <2>2. UNCHANGED <<jpeg_buf, image, copy, reply, last>>
    BY <1>2, <2>1, FollowIs
  <2>3. UNCHANGED capturing
    BY <1>2, <2>1, FollowCaptures
  <2>4. Pc(t) = "idle" => mine'[t] = 0
    BY <2>1, FollowIs
  <2>5. Pc(t) # "idle" => mine'[t] = mine[t] /\ mine[t] = 0
    <3>1. UNCHANGED mine[t] \/ Pc(t) = "idle"
      BY <1>2, <2>1, FollowIs
    <3> QED
      BY <1>1, <1>2, <3>1 DEF Settled
  <2> QED
    BY <2>2, <2>3, <2>4, <2>5
<1>4. UNCHANGED <<s2c, image_buf, reqs, Count, served>>
  BY DEF Step, Moves
<1>5. Shows(t)'
  <2>1. Fresh(t)'
    BY <1>2, FreshAtRest
  <2>2. t \notin capturing' /\ stage'[t] # "encode"
    BY <1>1, <1>2, <1>3 DEF Settled
  <2> QED
    BY <1>3, <2>1, <2>2 DEF Shows
<1>6. ASSUME NEW u \in Thread \ {t} PROVE Shows(u)'
  BY <1>1, <1>3, <1>4, StepStarts, OtherKept
<1>7. ASSUME NEW u \in Thread, capturing' \subseteq {u} PROVE OnTrack(u)'
  <2>1. OnTrack(u)
    BY <1>3, <1>7 DEF Order, Turns
  <2>2. Here(u)' = Here(u)
    <3>1. CASE u = t
      BY <1>2, <1>4, <3>1, HereIs
    <3>2. CASE u # t
      <4>1. UNCHANGED <<Pc(u), Todo(u), Want(u)>>
        BY <1>7, <3>2 DEF Step
      <4> QED
        BY <1>4, <4>1 DEF Here
    <3> QED
      BY <3>1, <3>2
  <2> QED
    BY <1>4, <2>1, <2>2 DEF OnTrack
<1> QED
  BY <1>5, <1>6, <1>7 DEF Order, Turns

\* The update request: nobody else captures, or the captures would overlap.
LEMMA Requested ==
  ASSUME NEW t \in Thread, Order, Step(t), Requests(t), ~clashed'
  PROVE  Order'
<1>1. /\ Settled(t)' /\ stage[t] = "method" /\ reqs \in Nat /\ Count \in Int
      /\ NoMiss' => NoMiss
  BY StepStarts
<1>2. /\ Pc(t) = "send_request" /\ Pc(t)' = "recv_type" /\ image_buf' = <<>>
      /\ reqs' = reqs + 1 /\ Count' = Count + 1 /\ UNCHANGED <<s2c, served>>
  BY DEF Requests, Step
<1>3. capturing = {} /\ capturing' = {t} /\ mine'[t] = reqs' /\ stage'[t] = "method"
  <2>1. Follow(t, Pc(t), Pc(t)') /\ AP!Course(Pc(t), Pc(t)') /\ Typed
    BY DEF Step, Base
  <2>2. capturing = {} /\ capturing' = capturing \cup {t}
    BY <1>2, <2>1, FollowCaptures
  <2>3. mine'[t] = reqs' /\ stage'[t] = "method"
    BY <1>2, <2>1, FollowIs
  <2> QED
    BY <2>2, <2>3
<1>4. Shows(t)'
  <2>1. Fresh(t)'
    BY <1>2, FreshAtRest
  <2> QED
    BY <1>2, <1>3, <2>1 DEF Shows
<1>5. ASSUME NEW u \in Thread \ {t} PROVE Shows(u)'
  <2>1. Settled(u) /\ Pc(u) \notin AP!Receiving \cup {"draw"}
    BY <1>3, StepStarts DEF Settled, Captures
  <2> QED
    BY <1>1, <1>3, <2>1, StepStarts, OtherKept
<1>6. OnTrack(t)'
  <2>1. Here(t) = AP!Between(Count) /\ Here(t)' = AP!Between(Count' - 1) /\ Count' - 1 = Count
    BY <1>1, <1>2, HereIs DEF Before
  <2>2. OnTrack(t)
    BY <1>3 DEF Order, Turns
  <2> QED
    BY <1>2, <2>1, <2>2 DEF OnTrack
<1>7. ASSUME NEW u \in Thread, capturing' \subseteq {u} PROVE OnTrack(u)'
  BY <1>3, <1>6, <1>7
<1> QED
  BY <1>4, <1>5, <1>7 DEF Order, Turns

\* In the middle of a capture.
LEMMA ReceivedNext ==
  ASSUME NEW t \in Thread, Order, Step(t), Receives(t)
  PROVE  Order'
<1>1. /\ Settled(t) /\ Shows(t) /\ mine \in [Thread -> Nat] /\ capturing \in SUBSET Thread
      /\ \A u, v \in capturing : u = v
      /\ NoMiss' => NoMiss
  BY StepStarts
<1>2. /\ Pc(t) \in AP!Receiving /\ Pc(t)' \in AP!Receiving \cup {"draw"}
      /\ OnTrack(t)' /\ Fresh(t)' /\ UNCHANGED <<reqs, served>>
  BY DEF Receives, Step
<1>3. capturing = {t}
  BY <1>1, <1>2 DEF Settled, Captures
<1>4. /\ Pc(t) \notin {"idle", "draw", "send_request", "key_up"} /\ Pc(t)' # "idle"
  BY <1>2 DEF AP!Receiving
<1>5. /\ UNCHANGED <<image, jpeg_buf, copy, reply, last, capturing, mine[t]>>
      /\ stage'[t] = "method"
  <2>1. Follow(t, Pc(t), Pc(t)') /\ AP!Course(Pc(t), Pc(t)') /\ Typed
    BY DEF Step, Base
  <2>2. UNCHANGED <<image, jpeg_buf, copy, reply, last, mine[t]>> /\ stage'[t] = "method"
    BY <1>4, <2>1, FollowIs
  <2>3. UNCHANGED capturing
    BY <1>4, <2>1, FollowCaptures
  <2> QED
    BY <2>2, <2>3
<1>6. Shows(t)'
  BY <1>1, <1>2, <1>4, <1>5 DEF Shows
<1>7. ASSUME NEW u \in Thread \ {t} PROVE Shows(u)'
  <2>1. Settled(u) /\ Pc(u) \notin AP!Receiving \cup {"draw"} /\ u \notin capturing
    BY <1>3, StepStarts DEF Settled, Captures
  <2> QED
    BY <1>1, <1>5, <2>1, StepStarts, OtherKept
<1>8. ASSUME NEW u \in Thread, capturing' \subseteq {u} PROVE OnTrack(u)'
  BY <1>2, <1>3, <1>5, <1>8
<1> QED
  BY <1>6, <1>7, <1>8 DEF Order, Turns

\* Between the last pixel and the drawing the whole update of the thread's own request is
\* in image_buf.
LEMMA OwnUpdate ==
  ASSUME NEW t \in Thread, Typed, Settled(t), Shows(t), Pc(t) = "draw", NoMiss
  PROVE  image_buf = Whole(mine[t])
<1>1. t \in capturing /\ mine[t] = reqs
  BY DEF Settled, Captures, Shows
<1>2. Type(t) = 0
  BY DEF Settled, NoMiss, Missed, Thread
<1>3. /\ image_buf \in Seq(Nat) /\ reqs \in Nat /\ served \in Nat /\ asked \in Nat /\ Count = reqs
      /\ served <= asked /\ asked <= reqs
  <2>1. image_buf \in Seq(Nat) /\ reqs \in Nat /\ served \in Nat /\ asked \in Nat
    BY DEF Typed, AP!Typed, Serving
  <2>2. served <= asked /\ asked \in 0..reqs
    BY <2>1, AP!ToldBound DEF Typed, Counted
  <2>3. Count = reqs
    BY <2>1 DEF Count, NoMiss
  <2> QED
    BY <2>1, <2>2, <2>3
<1>4. /\ Len(image_buf) = Width
      /\ \A i \in 1..Len(image_buf) : image_buf[i] \in Count..served
  BY <1>2 DEF Shows, Fresh, AP!Received
<1>5. \A i \in 1..Width : image_buf[i] = reqs
  BY <1>3, <1>4
<1>6. image_buf = [i \in 1..Width |-> reqs]
  BY <1>3, <1>4, <1>5
<1> QED
  BY <1>1, <1>6 DEF Whole

\* draw_image.
LEMMA Drew ==
  ASSUME NEW t \in Thread, Order, Step(t), Draws(t)
  PROVE  Order'
<1>1. /\ Typed /\ Settled(t) /\ Shows(t) /\ stage[t] = "method"
      /\ capturing \in SUBSET Thread
      /\ \A u, v \in capturing : u = v
      /\ NoMiss' => NoMiss
  BY StepStarts
<1>2. /\ Pc(t) = "draw" /\ Pc(t)' = "idle"
      /\ UNCHANGED <<s2c, image_buf, reqs, Count, served>>
  BY DEF Draws, Step
<1>3. capturing = {t} /\ mine[t] = reqs
  BY <1>1, <1>2 DEF Settled, Captures, Shows
<1>4. /\ image' = Drawn /\ UNCHANGED <<mine[t], capturing, copy, reply, last>>
      /\ stage'[t] = "encode"
  <2>1. Follow(t, Pc(t), Pc(t)') /\ AP!Course(Pc(t), Pc(t)') /\ Typed
    BY DEF Step, Base
  <2>2. image' = Drawn /\ UNCHANGED <<mine[t], copy, reply, last>> /\ stage'[t] = "encode"
    BY <1>2, <2>1, FollowIs
  <2>3. UNCHANGED capturing
    BY <1>2, <2>1, FollowCaptures
  <2> QED
    BY <2>2, <2>3
<1>5. NoMiss => Drawn = Whole(mine[t])
  <2> SUFFICES ASSUME NoMiss PROVE Drawn = Whole(mine[t])
    OBVIOUS
  <2>1. image_buf = Whole(mine[t]) /\ width = Width /\ Width \in Nat
    BY <1>1, <1>2, OwnUpdate, WidthAssumption DEF Typed, Serving
  <2>2. Len(image_buf) = Width
    BY <2>1 DEF Whole
  <2>3. \A i \in 1..Width : i <= Len(image_buf) /\ image_buf[i] = mine[t]
    BY <2>1, <2>2 DEF Whole
  <2> QED
    BY <2>1, <2>3 DEF Drawn, Whole
<1>6. Shows(t)'
  <2>1. Fresh(t)'
    BY <1>2, FreshAtRest
  <2>2. NoMiss' => image' = Whole(mine[t])'
    BY <1>1, <1>4, <1>5 DEF Whole
  <2> QED
    BY <1>2, <1>3, <1>4, <2>1, <2>2 DEF Shows
<1>7. ASSUME NEW u \in Thread \ {t} PROVE Shows(u)'
  <2>1. Settled(u) /\ Pc(u) \notin AP!Receiving \cup {"draw"} /\ u \notin capturing
    BY <1>3, StepStarts DEF Settled, Captures
  <2> QED
    BY <1>1, <1>4, <2>1, StepStarts, OtherKept
<1>8. OnTrack(t)'
  <2>1. Here(t) = AP!Between(Count) /\ Here(t)' = AP!Between(Count')
    BY <1>2, HereIs
  <2>2. OnTrack(t)
    BY <1>3 DEF Order, Turns
  <2> QED
    BY <1>2, <2>1, <2>2 DEF OnTrack
<1>9. ASSUME NEW u \in Thread, capturing' \subseteq {u} PROVE OnTrack(u)'
  BY <1>3, <1>4, <1>8, <1>9
<1> QED
  BY <1>6, <1>7, <1>9 DEF Order, Turns

\* Outside the methods nobody moves.
LEMMA Quiet ==
  ASSUME UNCHANGED <<localsA, localsB, shared, serverVars>>
  PROVE  /\ \A u \in Thread : /\ UNCHANGED <<Pc(u), Type(u), Missed(u), Here(u)>>
                              /\ Fresh(u)' <=> Fresh(u)
                              /\ OnTrack(u)' <=> OnTrack(u)
         /\ UNCHANGED <<Count, reqs, image_buf, served>>
         /\ NoMiss' <=> NoMiss
<1>1. \A u \in Thread : UNCHANGED <<Pc(u), Type(u), Todo(u), Want(u), Missed(u)>>
  BY DEF localsA, localsB, Pc, Type, Todo, Want, Missed
<1>2. UNCHANGED <<Count, reqs, s2c, image_buf, served>>
  BY DEF localsA, localsB, shared, serverVars, Count
<1>3. \A u \in Thread : UNCHANGED Here(u)
  BY <1>1, <1>2 DEF Here
<1>4. \A u \in Thread : Fresh(u)' <=> Fresh(u)
  BY <1>1, <1>2 DEF Fresh
<1>5. \A u \in Thread : OnTrack(u)' <=> OnTrack(u)
  BY <1>2, <1>3 DEF OnTrack
<1>6. NoMiss' <=> NoMiss
  BY DEF NoMiss, localsA, localsB
<1> QED
  BY <1>1, <1>2, <1>3, <1>4, <1>5, <1>6

LEMMA EncodeOrder ==
  ASSUME NEW t \in Thread, Base, ~clashed, Order, Encode(t)
  PROVE  Order'
<1>1. /\ Settled(t) /\ Shows(t) /\ stage[t] = "encode"
      /\ stage \in [Thread -> {"method", "encode", "copy", "copied"}]
      /\ capturing \in SUBSET Thread
  BY DEF Encode, Base, Order, Typed, TypedHandler
<1>2. UNCHANGED <<localsA, localsB, shared, serverVars>>
  BY DEF Encode
<1>3. capturing = {t} /\ Pc(t) = "idle"
  BY <1>1 DEF Base, Settled, Captures, AtRest
<1>4. /\ last' = image /\ UNCHANGED <<image, copy, reply, mine, capturing>>
      /\ stage'[t] = "copy" /\ \A u \in Thread \ {t} : UNCHANGED stage[u]
  BY <1>1 DEF Encode, Goto
<1>5. Shows(t)'
  <2>1. NoMiss' => last' = Whole(mine[t])'
    BY <1>1, <1>2, <1>4, Quiet DEF Shows, Whole
  <2> QED
    BY <1>1, <1>2, <1>4, <2>1, Quiet DEF Shows
<1>6. ASSUME NEW u \in Thread \ {t} PROVE Shows(u)'
  <2>1. Settled(u) /\ Shows(u) /\ u \notin capturing
    BY <1>3 DEF Base, Order
  <2> QED
    BY <1>2, <1>4, <2>1, Quiet, OtherKept
<1>7. Turns'
  BY <1>2, <1>4, Quiet DEF Order, Turns
<1> QED
  BY <1>5, <1>6, <1>7 DEF Order

LEMMA CopyOrder ==
  ASSUME NEW t \in Thread, Base, Order, Copy(t)
  PROVE  Order'
<1>1. /\ Settled(t) /\ Shows(t) /\ stage[t] = "copy"
      /\ stage \in [Thread -> {"method", "encode", "copy", "copied"}]
      /\ copy \in [Thread -> Seq(Nat)]
  BY DEF Copy, Base, Order, Typed, TypedHandler
<1>2. UNCHANGED <<localsA, localsB, shared, serverVars>>
  BY DEF Copy
<1>3. /\ UNCHANGED <<image, jpeg_buf, reply, mine, last, capturing>>
      /\ stage'[t] = "copied" /\ copy'[t] = jpeg_buf
      /\ \A u \in Thread \ {t} : UNCHANGED <<stage[u], copy[u]>>
  BY <1>1 DEF Copy, Goto
<1>4. Shows(t)'
  BY <1>1, <1>2, <1>3, Quiet DEF Shows, Whole
<1>5. ASSUME NEW u \in Thread \ {t} PROVE Shows(u)'
  <2>1. Settled(u) /\ Shows(u)
    BY DEF Base, Order
  <2> QED
    BY <1>2, <1>3, <2>1, Quiet, OtherKept
<1>6. Turns'
  BY <1>2, <1>3, Quiet DEF Order, Turns
<1> QED
  BY <1>4, <1>5, <1>6 DEF Order

\* The end of a capture gives the turn back: both threads stand where the stream is.
LEMMA ReplyOrder ==
  ASSUME NEW t \in Thread, Base, ~clashed, Order, Reply(t)
  PROVE  Order'
<1>1. /\ Settled(t) /\ Shows(t) /\ stage[t] = "copied" /\ Pc(t) = "idle"
      /\ stage \in [Thread -> {"method", "encode", "copy", "copied"}]
      /\ copy \in [Thread -> Seq(Nat)] /\ reply \in [Thread -> Seq(Nat)]
      /\ capturing \in SUBSET Thread
      /\ \A u, v \in capturing : u = v
      /\ t \in capturing => jpeg_buf = last
  BY DEF Reply, Base, AtRest, Order, Typed, TypedHandler, Settled
<1>2. UNCHANGED <<localsA, localsB, shared, serverVars>>
  BY DEF Reply
<1>3. /\ UNCHANGED <<image, jpeg_buf, mine, last>> /\ capturing' = capturing \ {t}
      /\ stage'[t] = "method" /\ reply'[t] = (IF jpeg_buf = copy[t] THEN copy[t] ELSE Torn)
      /\ \A u \in Thread \ {t} : UNCHANGED <<stage[u], copy[u], reply[u]>>
  BY <1>1 DEF Reply, Goto
<1>4. Shows(t)'
  <2>1. NoMiss' /\ mine'[t] # 0 => reply'[t] = Whole(mine[t])'
    <3> SUFFICES ASSUME NoMiss, mine[t] # 0 PROVE reply'[t] = Whole(mine[t])
      BY <1>2, <1>3, Quiet DEF Whole
    <3>1. t \in capturing
      BY <1>1 DEF Settled, Captures
    <3> QED
      BY <1>1, <1>3, <3>1 DEF Shows
  <2>2. Fresh(t)'
    BY <1>1, <1>2, Quiet DEF Shows
  <2> QED
    BY <1>3, <2>1, <2>2 DEF Shows
<1>5. ASSUME NEW u \in Thread \ {t} PROVE Shows(u)'
  <2>1. Settled(u) /\ Shows(u)
    BY DEF Base, Order
  <2> QED
    BY <1>2, <1>3, <2>1, Quiet, OtherKept
<1>6. ASSUME NEW u \in Thread, capturing' \subseteq {u} PROVE OnTrack(u)'
  <2>1. CASE capturing \subseteq {u}
    BY <1>2, <2>1, Quiet DEF Order, Turns
  <2>2. CASE ~(capturing \subseteq {u})
    <3>1. capturing = {t} /\ u # t
      BY <1>1, <1>3, <1>6, <2>2
    <3>2. OnTrack(t)
      BY <3>1 DEF Order, Turns
    <3>3. Pc(u) \in {"idle"} \cup Before
      BY <3>1 DEF Base, Settled, Captures
    <3>4. Here(u) = Here(t)
      BY <1>1, <3>3, HereIs
    <3> QED
      BY <1>2, <3>2, <3>4, Quiet DEF OnTrack
  <2> QED
    BY <2>1, <2>2
<1> QED
  BY <1>4, <1>5, <1>6 DEF Order, Turns

\* What the server adds is whole messages.
LEMMA ServerAhead ==
  ASSUME NEW p, Typed, Server, conn' = "up", AP!Ahead(s2c, p, served, Width)
  PROVE  AP!Ahead(s2c', p, served', Width) /\ served' \in Nat /\ served <= served'
<1>1. s2c \in Seq(AP!Unit) /\ served \in Nat /\ asked \in Nat /\ Width \in Nat
  BY WidthAssumption DEF Typed, AP!Typed, Serving
<1>2. CASE ReadRequest
  BY <1>1, <1>2 DEF ReadRequest
<1>3. CASE SendNews
  <2>1. PICK units \in News(Colours, Texts) : s2c' = s2c \o Message(units)
    BY <1>3 DEF SendNews, Put
  <2>2. Colours \subseteq Nat /\ Texts \subseteq Nat /\ units \in AP!News(Colours, Texts)
    BY LengthsAssumption, SameStream
  <2>3. AP!Ahead(s2c \o AP!Message(units), p, served, Width)
    BY <1>1, <2>2, AP!NewsAhead
  <2> QED
    BY <1>1, <1>3, <2>1, <2>3, SameStream DEF SendNews
<1>4. CASE SendUpdate
  <2>1. PICK split \in Splits : s2c' = s2c \o Message(Update(split, asked))
    BY <1>4 DEF SendUpdate, Put
  <2>2. served < asked /\ served' = asked
    BY <1>4 DEF SendUpdate
  <2>3. split \in Seq(Nat) /\ AP!Covers(split, Width)
    BY SplitsAssumption, SameStream
  <2>4. AP!Ahead(s2c \o AP!Message(AP!Update(split, asked)), p, asked, Width)
    BY <1>1, <2>2, <2>3, AP!UpdateAhead
  <2> QED
    BY <1>1, <2>1, <2>2, <2>4, SameStream
<1>5. ~Disconnect
  BY DEF Disconnect
<1> QED
  BY <1>2, <1>3, <1>4, <1>5 DEF Server

LEMMA ServerOrder ==
  ASSUME Base, ~clashed, Order, Server, conn' = "up"
  PROVE  Order'
<1>1. UNCHANGED <<localsA, localsB, image_buf, reqs, handler>>
  BY DEF Server
<1>2. /\ UNCHANGED <<Count, stage, mine, capturing, image, jpeg_buf, copy, reply, last>>
      /\ NoMiss' <=> NoMiss
  BY <1>1 DEF localsA, localsB, handler, Count, NoMiss
<1>3. \A u \in Thread : UNCHANGED <<Pc(u), Type(u), Todo(u), Want(u), Missed(u)>>
  BY <1>1 DEF localsA, localsB, Pc, Type, Todo, Want, Missed
<1>4. \A u \in Thread : UNCHANGED Here(u)
  BY <1>1, <1>2, <1>3 DEF Here
<1>5. Typed
  BY DEF Base
<1>6. PICK t \in Thread : OnTrack(t)
  <2>1. capturing \in SUBSET Thread /\ \A t, u \in capturing : t = u
    BY DEF Base, Typed, TypedHandler, AtRest
  <2>2. PICK t \in Thread : capturing \subseteq {t}
    BY <2>1 DEF Thread
  <2> QED
    BY <2>2 DEF Order, Turns
<1>7. served' \in Nat /\ served <= served' /\ served \in Nat
  BY <1>5, <1>6, ServerAhead DEF OnTrack, Typed, Serving
<1>8. ASSUME NEW u \in Thread, OnTrack(u) PROVE OnTrack(u)'
  BY <1>4, <1>5, <1>8, ServerAhead DEF OnTrack
<1>9. Turns'
  BY <1>2, <1>8 DEF Order, Turns
<1>10. ASSUME NEW u \in Thread PROVE Shows(u)'
  <2>1. Shows(u)
    BY DEF Order
  <2>2. Fresh(u)'
    <3>1. image_buf \in Seq(Nat) /\ Count \in Int
      <4>1. reqs \in Nat /\ missedA \in Nat /\ missedB \in Nat /\ image_buf \in Seq(Nat)
        BY <1>5 DEF Typed, AP!Typed, BP!Typed
      <4> QED
        BY <4>1 DEF Count
    <3>2. AP!Received(Pc(u), Type(u), image_buf, Count, served', Width)
      BY <1>7, <2>1, <3>1, AP!ReceivedMore DEF Shows, Fresh
    <3> QED
      BY <1>1, <1>2, <1>3, <3>2 DEF Fresh
  <2> QED
    BY <1>1, <1>2, <1>3, <2>1, <2>2 DEF Shows, Whole
<1> QED
  BY <1>9, <1>10 DEF Order

LEMMA BaseInit == SharedInit => Base /\ Order
<1> SUFFICES ASSUME SharedInit PROVE Base /\ Order
  OBVIOUS
<1>1. /\ \A t \in Thread : Pc(t) = "idle" /\ Type(t) = 0 /\ stage[t] = "method" /\ mine[t] = 0
      /\ capturing = {} /\ jpeg_buf = <<>> /\ last = <<>> /\ s2c = <<>> /\ Count = 0 /\ served = 0
      /\ image_buf = <<>>
  BY DEF SharedInit, Pc, Type, Count
<1>2. \A t \in Thread : Settled(t)
  BY <1>1 DEF Settled, Captures, Before, AP!Receiving
<1>3. AtRest
  BY <1>1 DEF AtRest
<1>4. \A t \in Thread : Shows(t)
  BY <1>1 DEF Shows, Fresh, AP!Received
<1>5. \A t \in Thread : OnTrack(t)
  <2> SUFFICES ASSUME NEW t \in Thread PROVE OnTrack(t)
    OBVIOUS
  <2>1. Here(t) = AP!Between(0) /\ 0 \in Nat /\ 0 \in 0..0
    BY <1>1, HereIs
  <2>2. AP!Between(0) \in AP!Places
    BY <2>1, AP!PlacesTyped
  <2>3. AP!Run(AP!Places, AP!Steps(Width, 0), <<>>, AP!Between(0), AP!Between(0))
    BY <2>2, AP!RunEmpty
  <2> QED
    BY <1>1, <2>1, <2>3 DEF OnTrack, AP!Ahead
<1> QED
  BY <1>2, <1>3, <1>4, <1>5, TypedInit DEF Base, Order, Turns

LEMMA SharedNext == SharedInv /\ [Next]_vars => SharedInv'
<1> SUFFICES ASSUME SharedInv, [Next]_vars PROVE SharedInv'
  OBVIOUS
<1>1. Base /\ Base'
  <2>1. Typed /\ Typed'
    BY TypedNext DEF SharedInv, Base
  <2>2. \A t \in Thread : Settled(t) /\ Settled(t)'
    BY <2>1, SettledNext DEF SharedInv, Base
  <2>3. ~clashed' => AtRest'
    BY <2>1, <2>2, RestNext DEF SharedInv, Base
  <2> QED
    BY <2>1, <2>2, <2>3 DEF SharedInv, Base
<1> SUFFICES ASSUME Orderly' PROVE Order'
  BY <1>1 DEF SharedInv
<1>2. Orderly /\ Order /\ ~clashed /\ ~clashed'
  BY <1>1, StaysOrderly DEF SharedInv, Base, Orderly
<1>3. ASSUME NEW t \in Thread, Method(t) PROVE Order'
  <2>1. Step(t)
    BY <1>1, <1>2, <1>3, MethodStep
  <2> QED
    BY <1>2, <2>1, Moved, Requested, ReceivedNext, Drew DEF Step
<1>4. CASE MethodA \/ MethodB
  <2>1. \E t \in Thread : Method(t)
    BY <1>4 DEF Method, Thread
  <2> QED
    BY <1>3, <2>1
<1>5. CASE \E t \in Thread : Encode(t) \/ Copy(t) \/ Reply(t)
  BY <1>1, <1>2, <1>5, EncodeOrder, CopyOrder, ReplyOrder
<1>6. CASE Server
  BY <1>1, <1>2, <1>6, ServerOrder DEF Orderly
<1>7. CASE UNCHANGED vars
  <2>1. UNCHANGED <<localsA, localsB, shared, serverVars, handler>>
    BY <1>7 DEF vars
  <2>2. UNCHANGED <<stage, mine, capturing, image, jpeg_buf, copy, reply, last>>
    BY <2>1 DEF handler
  <2>3. Turns'
    BY <1>2, <2>1, <2>2, Quiet DEF Order, Turns
  <2>4. ASSUME NEW u \in Thread PROVE Shows(u)'
    BY <1>1, <1>2, <2>1, <2>2, Quiet, OtherKept DEF Base, Order
  <2> QED
    BY <2>3, <2>4 DEF Order
<1> QED
  BY <1>4, <1>5, <1>6, <1>7 DEF Next

-----------------------------------------------------------------------------

\* What the invariant says of a state.
LEMMA InvShows == SharedInv => OwnPicture /\ BufferAtRest
<1> SUFFICES ASSUME SharedInv PROVE OwnPicture /\ BufferAtRest
  OBVIOUS
<1>1. BufferAtRest
  BY DEF SharedInv, Base, AtRest, BufferAtRest
<1>2. ASSUME Orderly, NoMiss, NEW t \in Thread
      PROVE  /\ Pc(t) = "draw" => image_buf = Whole(mine[t])
             /\ Pc(t) = "idle" /\ stage[t] = "method" /\ mine[t] # 0 => reply[t] = Whole(mine[t])
  <2>1. Typed /\ Settled(t) /\ Shows(t)
    BY <1>2 DEF SharedInv, Base, Order
  <2>2. Pc(t) = "draw" => image_buf = Whole(mine[t])
    BY <1>2, <2>1, OwnUpdate
  <2> QED
    BY <1>2, <2>1, <2>2 DEF Shows
<1>3. "A" \in Thread /\ "B" \in Thread /\ Pc("A") = pcA /\ Pc("B") = pcB
  BY DEF Thread, Pc
<1>4. OwnPicture
  BY <1>2, <1>3 DEF OwnPicture, NoMiss
<1> QED
  BY <1>1, <1>4

LEMMA SharedAlways == Spec => []SharedInv
<1>1. SharedInit => SharedInv
  BY BaseInit DEF SharedInv
<1> QED
  BY <1>1, SharedNext, PTL DEF Spec

\* Up to the first overlap, name or text without room, cut message or break of the
\* connection, whatever keys, pointers and copies of pictures either thread puts between the
\* requests and answers of the other, a thread draws the whole update of its own last
\* request, and sends its browser nothing else, as long as every capture was answered by an
\* update.
THEOREM SharedOwnPicture == Spec => []OwnPicture
  BY SharedAlways, InvShows, PTL

\* While no two captures overlap, whatever the connection and the server do, the buffer that
\* a request with a key is sent from holds between captures one whole picture, the last one
\* encoded by either thread, or nothing after a capture that failed behind its clear_buf.
THEOREM SharedBufferAtRest == Spec => []BufferAtRest
  BY SharedAlways, InvShows, PTL

=============================================================================
