------------------------------ MODULE VncClient ------------------------------
(***************************************************************************)
(* vnc_client: the RFB client one thread of mod_mrhc drives through        *)
(* initialize, authenticate and configure, and then through operate and    *)
(* capture for each request.  One action per call of send or recv.         *)
(*                                                                         *)
(* The stream from the server is a sequence of units.  A field of a        *)
(* message is one unit, or two where the code could see half of it; a name *)
(* and a text are as many as their length says.  A unit has a value and    *)
(* says whether it is the first of a message.  The code reads every field  *)
(* with a single recv into a structure filled with zeros, takes whatever   *)
(* length that returns, and fails on -1 only.                              *)
(* The screen is one row of width pixels; a pixel's value is the number of *)
(* the update request the server answered with it.                         *)
(***************************************************************************)
EXTENDS Integers, Sequences

CONSTANTS
  NameRoom,  \* units of a name that recv_server_init asks for: 256 bytes
  BufRoom,   \* units of the buffers a name or a text is copied to: 1024 bytes
  MaxThrow,  \* bound: requests the browser makes after the first
  MaxFrag    \* bound: reads that return less than the stream holds

ASSUME RoomAssumption == NameRoom \in Nat /\ BufRoom \in Nat \ {0}

VARIABLES
  pc,            \* the next send or recv of the client, "idle" between calls
  spun,          \* "no", then what mrhc_spin returned: "ok" or "failed"
  conn,          \* the connection: "down", "connecting", "up", "closed" by the server
  s2c,           \* what the server sent and the client has not read
  c2s,           \* what the client sent and the server has not read
  version,       \* the server's version, 0 while unknown
  challenge,     \* the server's challenge, as received
  width,         \* pixels of the screen, 0 while unknown
  configured,    \* pixel_format was set: 32 bits per pixel, else 0
  image_buf,     \* the pixels received since the last clear_buf
  message_type,  \* of the message a capture received
  todo,          \* rectangles or colours not yet received; length of a text
  want,          \* pixels of the current rectangle not yet received
  throws,        \* requests made
  reqs,          \* history: update requests sent
  missed,        \* history: captures that received some other message
  overlong,      \* history: a name or a text had no room
  frags,         \* history: short reads
  torn           \* history: a read ended inside a message, or inside a pixel

client   == <<version, challenge, width, configured, image_buf>>
progress == <<message_type, todo, want>>
history  == <<throws, reqs, missed, overlong>>
clientVars == <<pc, spun, conn, s2c, c2s, client, progress, history, frags, torn>>

Init ==
  /\ pc = "idle" /\ spun = "no" /\ conn = "down"
  /\ s2c = <<>> /\ c2s = <<>>
  /\ version = 0 /\ challenge = <<0, 0>> /\ width = 0 /\ configured = FALSE
  /\ image_buf = <<>>
  /\ message_type = 0 /\ todo = 0 /\ want = 0
  /\ throws = 0 /\ reqs = 0 /\ missed = 0 /\ overlong = FALSE
  /\ frags = 0 /\ torn = FALSE

-----------------------------------------------------------------------------

Goto(l) == pc' = l /\ UNCHANGED spun

\* A method returned false: mrhc_spin or mrhc_throw returns false.
Fail == pc' = "idle" /\ spun' = IF spun = "no" THEN "failed" ELSE spun

Least(a, b) == IF a < b THEN a ELSE b

\* What a recv of at most max units may return, -1 apart: all there is or less of
\* it; 0 when the server closed, or when nothing is asked for.  With nothing to
\* read on an open connection, and before it is open, the call blocks.
Lengths(max) ==
  LET all == Least(max, Len(s2c))
  IN  IF max = 0 THEN {0}
      ELSE IF conn = "down" THEN {}
      ELSE IF s2c = <<>> THEN (IF conn = "closed" THEN {0} ELSE {})
      ELSE {n \in 1..all : n = all \/ frags < MaxFrag}

\* Unit i of the structure a recv of n units was copied to.
Field(n, i) == IF i <= n THEN s2c[i].v ELSE 0

\* n units are read where the code asks for max.
Read(n, max) ==
  LET short == n < Least(max, Len(s2c))
  IN  /\ s2c' = SubSeq(s2c, n + 1, Len(s2c))
      /\ frags' = frags + (IF short THEN 1 ELSE 0)
      /\ torn' = (torn \/ (short /\ ~s2c[n + 1].head))

\* recv returned -1.
RecvError == conn = "down" /\ Fail /\ UNCHANGED <<s2c, frags, torn>>

\* A send: it fails on a broken connection, may or may not fail when the server has
\* closed its end, and waits for a connection that is not there yet.
Send(from, msg, to) ==
  /\ pc = from
  /\ \/ conn = "up"     /\ c2s' = Append(c2s, msg) /\ Goto(to)
     \/ conn = "closed" /\ UNCHANGED c2s /\ (Goto(to) \/ Fail)
     \/ conn = "down"   /\ UNCHANGED c2s /\ Fail
  /\ UNCHANGED <<conn, s2c, frags, torn>>

Msg(kind) == [kind |-> kind, val |-> <<>>]

\* The socket is closed, and with it what either side has not read.
Close == pc' = "gone" /\ conn' = "down" /\ s2c' = <<>> /\ c2s' = <<>>

-----------------------------------------------------------------------------

(***************************************************************************)
(* mrhc_spin: initialize, authenticate, configure.                         *)
(***************************************************************************)

\* Lines 86-90 and 20-42: connect succeeds, fails, or goes on in the background.  A
\* system call that fails for want of resources counts as failed.
ConnectToServer ==
  /\ pc = "idle" /\ spun = "no"
  /\ \/ conn' = "up" /\ Goto("recv_version")
     \/ conn' = "connecting" /\ Goto("select")
     \/ Fail /\ UNCHANGED conn
  /\ UNCHANGED <<s2c, c2s, client, progress, history, frags, torn>>

\* Lines 38-68: select waits three seconds at most, and SO_ERROR tells a refusal.
\* After a timeout, or a signal, the socket blocks again and goes on connecting.
Select ==
  /\ pc = "select"
  /\ IF conn \in {"connecting", "down"} THEN Fail ELSE Goto("recv_version")
  /\ UNCHANGED <<conn, s2c, c2s, client, progress, history, frags, torn>>

\* Mutant: every version is accepted.
RecvAnyVersion ==
  /\ pc = "recv_version"
  /\ \/ \E n \in Lengths(2) : Read(n, 2) /\ version' = Field(n, 2) /\ Goto("send_version")
     \/ RecvError /\ UNCHANGED version
  /\ UNCHANGED <<conn, c2s, challenge, width, configured, image_buf, progress, history>>

\* Lines 108-136.
RecvProtocolVersion ==
  /\ pc = "recv_version"
  /\ \/ \E n \in Lengths(2) :
          /\ Read(n, 2)
          /\ IF Field(n, 1) = 82 /\ Field(n, 2) \in {33, 37, 38}
             THEN version' = Field(n, 2) /\ Goto("send_version")
             ELSE UNCHANGED version /\ Fail
     \/ RecvError /\ UNCHANGED version
  /\ UNCHANGED <<conn, c2s, challenge, width, configured, image_buf, progress, history>>

SendProtocolVersion ==
  /\ Send("send_version", Msg("version"), "recv_types")
  /\ UNCHANGED <<client, progress, history>>

\* Lines 157-170: up to 257 bytes, more than the server has sent.  The list is
\* stored and never looked at.
RecvSupportedSecurityTypes ==
  /\ pc = "recv_types"
  /\ \/ \E n \in Lengths(4) : Read(n, 4) /\ Goto("send_type")
     \/ RecvError
  /\ UNCHANGED <<conn, c2s, client, progress, history>>

\* Mutant: a server that offers one type is not told the choice.
SendNoSecurityType ==
  /\ pc = "send_type"
  /\ Goto("recv_challenge")
  /\ UNCHANGED <<conn, s2c, c2s, client, progress, history, frags, torn>>

SendSecurityType ==
  /\ Send("send_type", Msg("type"), "recv_challenge")
  /\ UNCHANGED <<client, progress, history>>

RecvVncAuthChallenge ==
  /\ pc = "recv_challenge"
  /\ \/ \E n \in Lengths(2) :
          /\ Read(n, 2)
          /\ challenge' = <<Field(n, 1), Field(n, 2)>>
          /\ Goto("send_response")
     \/ RecvError /\ UNCHANGED challenge
  /\ UNCHANGED <<conn, c2s, version, width, configured, image_buf, progress, history>>

\* The response is the challenge under the user's password; the server knows
\* whether it fits.
SendVncAuthResponse ==
  /\ Send("send_response", [kind |-> "response", val |-> challenge], "recv_result")
  /\ UNCHANGED <<client, progress, history>>

\* Mutant: only the first half of the status is tested.
RecvSecurityResultLax ==
  /\ pc = "recv_result"
  /\ \/ \E n \in Lengths(2) :
          /\ Read(n, 2)
          /\ IF Field(n, 1) = 0 THEN Goto("send_client_init") ELSE Fail
     \/ RecvError
  /\ UNCHANGED <<conn, c2s, client, progress, history>>

RecvSecurityResult ==
  /\ pc = "recv_result"
  /\ \/ \E n \in Lengths(2) :
          /\ Read(n, 2)
          /\ IF Field(n, 1) = 0 /\ Field(n, 2) = 0 THEN Goto("send_client_init") ELSE Fail
     \/ RecvError
  /\ UNCHANGED <<conn, c2s, client, progress, history>>

SendClientInit ==
  /\ Send("send_client_init", Msg("init"), "recv_server_init")
  /\ UNCHANGED <<client, progress, history>>

\* Mutant: a name there is no room for is an error.
RecvServerInitStrict ==
  /\ pc = "recv_server_init"
  /\ \/ \E n \in Lengths(2 + NameRoom) :
          /\ Read(n, 2 + NameRoom)
          /\ width' = Field(n, 1)
          /\ overlong' = (overlong \/ Field(n, 2) > NameRoom)
          /\ IF Field(n, 2) > NameRoom THEN Fail ELSE Goto("send_format")
     \/ RecvError /\ UNCHANGED <<width, overlong>>
  /\ UNCHANGED <<conn, c2s, version, challenge, configured, image_buf, progress,
                 throws, reqs, missed>>

\* Lines 258-280: the size of the screen, the length of the name and a name of up to
\* NameRoom.  What is left of a longer one stays in the stream; what the server has
\* sent behind a shorter one is taken for a part of it.
RecvServerInit ==
  /\ pc = "recv_server_init"
  /\ \/ \E n \in Lengths(2 + NameRoom) :
          /\ Read(n, 2 + NameRoom)
          /\ width' = Field(n, 1)
          /\ overlong' = (overlong \/ Field(n, 2) > NameRoom)
          /\ Goto("send_format")
     \/ RecvError /\ UNCHANGED <<width, overlong>>
  /\ UNCHANGED <<conn, c2s, version, challenge, configured, image_buf, progress,
                 throws, reqs, missed>>

\* Line 275: as many bytes are copied as the server says the name has.  What the copy
\* writes behind the buffer, or std::string reads there, can end the process.
RecvServerInitCrashes ==
  /\ pc = "recv_server_init"
  /\ \E n \in Lengths(2 + NameRoom) : Field(n, 2) >= BufRoom
  /\ overlong' = TRUE
  /\ Close
  /\ UNCHANGED <<spun, client, progress, throws, reqs, missed, frags, torn>>

\* The client keeps the format before it sends it.
SendSetPixelFormat ==
  /\ Send("send_format", Msg("format"), "send_encodings")
  /\ configured' = TRUE
  /\ UNCHANGED <<version, challenge, width, image_buf, progress, history>>

\* The end of configure: mrhc_spin returns true.
SendSetEncodings ==
  /\ pc = "send_encodings"
  /\ \/ conn = "up"     /\ c2s' = Append(c2s, Msg("encodings")) /\ spun' = "ok"
     \/ conn = "closed" /\ UNCHANGED c2s /\ spun' \in {"ok", "failed"}
     \/ conn = "down"   /\ UNCHANGED c2s /\ spun' = "failed"
  /\ pc' = "idle"
  /\ UNCHANGED <<conn, s2c, client, progress, history, frags, torn>>

Spin ==
  \/ Select \/ RecvProtocolVersion \/ SendProtocolVersion
  \/ RecvSupportedSecurityTypes \/ SendSecurityType
  \/ RecvVncAuthChallenge \/ SendVncAuthResponse \/ RecvSecurityResult
  \/ SendClientInit \/ RecvServerInit \/ RecvServerInitCrashes
  \/ SendSetPixelFormat \/ SendSetEncodings

-----------------------------------------------------------------------------

(***************************************************************************)
(* mrhc_throw: operate, then capture.  The handler calls them on the       *)
(* client it cached, whatever mrhc_spin returned.                          *)
(***************************************************************************)

\* A request: it has a key, a position, or neither.  A key that is not known sends
\* nothing and, like any key, captures nothing; the position (0, 0) counts as none.
Throw ==
  /\ pc = "idle" /\ spun # "no"
  /\ throws < MaxThrow
  /\ throws' = throws + 1
  /\ \E l \in {"idle", "key_down", "pointer_down", "send_request"} : Goto(l)
  /\ UNCHANGED <<conn, s2c, c2s, client, progress, reqs, missed, overlong, frags, torn>>

\* Lines 446-462.  The release ends a request with a key: operate and capture
\* return true and the handler sends the picture it has.
SendKeyEvent ==
  /\ \/ Send("key_down", Msg("down"), "key_up")
     \/ Send("key_up", Msg("up"), "idle")
  /\ UNCHANGED <<client, progress, history>>

\* Lines 475-492.
SendPointerEvent ==
  /\ \/ Send("pointer_down", Msg("down"), "pointer_up")
     \/ Send("pointer_up", Msg("up"), "send_request")
  /\ UNCHANGED <<client, progress, history>>

\* Mutant: the server is asked once, and expected to go on sending updates.
SendRequestOnce ==
  /\ pc = "send_request"
  /\ IF reqs = 0
     THEN Send("send_request", Msg("request"), "recv_type")
     ELSE Goto("recv_type") /\ UNCHANGED <<conn, s2c, c2s, frags, torn>>
  /\ image_buf' = <<>>
  /\ reqs' = reqs + 1
  /\ UNCHANGED <<version, challenge, width, configured, progress, throws, missed, overlong>>

\* Mutant: without clear_buf.
SendRequestUncleared ==
  /\ Send("send_request", Msg("request"), "recv_type")
  /\ reqs' = reqs + 1
  /\ UNCHANGED <<client, progress, throws, missed, overlong>>

\* Lines 597-602.
SendFrameBufferUpdateRequest ==
  /\ Send("send_request", Msg("request"), "recv_type")
  /\ image_buf' = <<>>
  /\ reqs' = reqs + 1
  /\ UNCHANGED <<version, challenge, width, configured, progress, throws, missed, overlong>>

\* Where recv_server_to_client_message goes for each message type.
Handler(type) ==
  CASE type = 0 -> "recv_update"
    [] type = 1 -> "recv_colour_map"
    [] type = 2 -> "draw"
    [] type = 3 -> "recv_cut_text"

\* Lines 633-659.  A capture receives one message, of whatever type; after end of
\* file the type is 0.
RecvServerToClientMessage ==
  /\ pc = "recv_type"
  /\ \/ \E n \in Lengths(1) :
          /\ Read(n, 1)
          /\ message_type' = Field(n, 1)
          /\ missed' = missed + (IF Field(n, 1) = 0 THEN 0 ELSE 1)
          /\ IF Field(n, 1) \in 0..3 THEN Goto(Handler(Field(n, 1))) ELSE Fail
     \/ RecvError /\ UNCHANGED <<message_type, missed>>
  /\ UNCHANGED <<conn, c2s, client, todo, want, throws, reqs, overlong>>

\* The header of a message whose second unit is a count.
RecvHeader(from, more, none) ==
  /\ pc = from
  /\ \/ \E n \in Lengths(2) :
          /\ Read(n, 2)
          /\ todo' = Field(n, 2)
          /\ Goto(IF Field(n, 2) > 0 THEN more ELSE none)
     \/ RecvError /\ UNCHANGED todo
  /\ UNCHANGED <<conn, c2s, client, message_type, want, history>>

RecvFrameBufferUpdate == RecvHeader("recv_update", "recv_rectangle", "draw")

RecvSetColourMapEntries == RecvHeader("recv_colour_map", "recv_colour", "draw")

\* A text of no length is still received: recv is asked for nothing.
RecvServerCutText == RecvHeader("recv_cut_text", "recv_text", "recv_text")

\* Mutant: the last rectangle is not received.
NextRectangleShort == Goto(IF todo > 2 THEN "recv_rectangle" ELSE "draw") /\ todo' = todo - 1

\* Mutant: i <= number_of_rectangles.
NextRectangleLate == Goto(IF todo > 0 THEN "recv_rectangle" ELSE "draw") /\ todo' = todo - 1

\* The loop of recv_rectangles.
NextRectangle == Goto(IF todo > 1 THEN "recv_rectangle" ELSE "draw") /\ todo' = todo - 1

\* Lines 675-711: position, size and encoding of a rectangle.  The position is
\* not used.  Without a pixel format no pixel has any bytes.
RecvRectangle ==
  /\ pc = "recv_rectangle"
  /\ \/ \E n \in Lengths(2) :
          /\ Read(n, 2)
          /\ want' = IF configured THEN Field(n, 1) ELSE 0
          /\ IF Field(n, 2) # 0        THEN Fail /\ UNCHANGED todo
             ELSE IF want' > 0         THEN Goto("recv_pixels") /\ UNCHANGED todo
             ELSE NextRectangle
     \/ RecvError /\ UNCHANGED <<todo, want>>
  /\ UNCHANGED <<conn, c2s, client, message_type, history>>

\* n pixels are pushed and m of them leave the stream.
TakePixels(n, m) ==
  /\ s2c' = SubSeq(s2c, m + 1, Len(s2c))
  /\ frags' = frags + (IF m < Least(want, Len(s2c)) THEN 1 ELSE 0)
  /\ torn' = (torn \/ m < n)
  /\ image_buf' = image_buf \o [i \in 1..n |-> s2c[i].v]
  /\ want' = want - m
  /\ IF m < want THEN UNCHANGED <<pc, spun, todo>> ELSE NextRectangle

\* Lines 711-734; module RecvRectangle has the loop in bytes.  A piece that ends inside
\* a pixel pushes what it has of it, and the rest comes with the next piece.
RecvPixels ==
  /\ pc = "recv_pixels"
  /\ \/ \E n \in Lengths(want) \ {0} : TakePixels(n, n) \/ (frags < MaxFrag /\ TakePixels(n, n - 1))
     \/ RecvError /\ UNCHANGED <<image_buf, want, todo>>
  /\ UNCHANGED <<conn, c2s, version, challenge, width, configured, message_type, history>>

\* The server closed in the middle of a rectangle: recv returns 0 for ever.
RecvPixelsSpins ==
  /\ pc = "recv_pixels" /\ 0 \in Lengths(want)
  /\ UNCHANGED clientVars

\* Mutant: the colours of the map are not received.
RecvColourNone ==
  /\ pc = "recv_colour"
  /\ Goto("draw")
  /\ UNCHANGED <<conn, s2c, c2s, client, progress, history, frags, torn>>

\* Lines 737-762.
RecvColour ==
  /\ pc = "recv_colour"
  /\ \/ \E n \in Lengths(1) :
          /\ Read(n, 1)
          /\ todo' = todo - 1
          /\ Goto(IF todo > 1 THEN "recv_colour" ELSE "draw")
     \/ RecvError /\ UNCHANGED todo
  /\ UNCHANGED <<conn, c2s, client, message_type, want, history>>

\* Lines 764-774: one recv of whatever length the server says, whatever it returns.
RecvText ==
  /\ pc = "recv_text"
  /\ \/ \E n \in Lengths(todo) :
          /\ Read(n, todo)
          /\ overlong' = (overlong \/ n >= BufRoom)
          /\ Goto("draw")
     \/ RecvError /\ UNCHANGED overlong
  /\ UNCHANGED <<conn, c2s, client, progress, throws, reqs, missed>>

\* Line 767: a text that fills the buffer has no end, and a longer one is written behind
\* it; either can end the process.
RecvTextCrashes ==
  /\ pc = "recv_text"
  /\ \E n \in Lengths(todo) : n >= BufRoom
  /\ overlong' = TRUE
  /\ Close
  /\ UNCHANGED <<spun, client, progress, throws, reqs, missed, frags, torn>>

\* Lines 608-623 and 802-861: pixels 1 to width of image_buf are drawn, with no
\* test that there are so many, and the picture is sent to the browser.
DrawImage ==
  /\ pc = "draw"
  /\ Goto("idle")
  /\ UNCHANGED <<conn, s2c, c2s, client, progress, history, frags, torn>>

\* A read past the end of image_buf is undefined and an empty image may be refused
\* by an exception nobody catches: either can end the process instead.
DrawImageCrashes ==
  /\ pc = "draw"
  /\ width = 0 \/ Len(image_buf) < width
  /\ Close
  /\ UNCHANGED <<spun, client, progress, history, frags, torn>>

\* Lines 79-82: the handler deletes the client and the socket is closed.
Destroy ==
  /\ pc = "idle" /\ spun # "no"
  /\ Close
  /\ UNCHANGED <<spun, client, progress, history, frags, torn>>

Capture ==
  \/ SendKeyEvent \/ SendPointerEvent \/ SendFrameBufferUpdateRequest
  \/ RecvServerToClientMessage
  \/ RecvFrameBufferUpdate \/ RecvRectangle \/ RecvPixels \/ RecvPixelsSpins
  \/ RecvSetColourMapEntries \/ RecvColour
  \/ RecvServerCutText \/ RecvText \/ RecvTextCrashes
  \/ DrawImage \/ DrawImageCrashes

\* The steps a call takes once the handler has made it.
Call == Spin \/ Capture

\* What the handler starts.
Start == ConnectToServer \/ Throw

=============================================================================
