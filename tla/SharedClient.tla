---------------------------- MODULE SharedClient -----------------------------
(***************************************************************************)
(* Two worker threads, A and B, that serve requests with the one client    *)
(* that client_cache holds: each runs operate and capture of VncClient     *)
(* with its own locals, on the same socket and the same buffers, and then  *)
(* copies the picture for its browser.  No lock orders them.               *)
(*                                                                         *)
(* The client has been spun, and the server answers it, until the          *)
(* connection breaks.                                                      *)
(***************************************************************************)
EXTENDS Integers, Sequences

CONSTANTS
  Versions, Width, Splits, Names, Colours, Texts, MaxNews, MaxFault,   \* of the server
  NameRoom, BufRoom, MaxThrow, MaxFrag,                                \* of a client
  MaxSurprise   \* bound: messages nobody asked for and breaks of the connection, together

ASSUME WidthAssumption == Width \in Nat

ASSUME LengthsAssumption == Colours \subseteq Nat /\ Texts \subseteq Nat

ASSUME RoomAssumption == NameRoom \in Nat /\ BufRoom \in Nat \ {0}

VARIABLES
  pcA, typeA, todoA, wantA, throwsA, missedA,   \* thread A in the client's methods
  pcB, typeB, todoB, wantB, throwsB, missedB,   \* thread B
  spun, conn, s2c, c2s, version, challenge, width, configured, image_buf, reqs, overlong,
  frags, torn,
  srv, rv, asked, served, news, faults,
  image,      \* this->image, what draw_image drew
  jpeg_buf,   \* the picture as encoded: its pixels, or Torn
  stage,      \* of a thread in mrhc_throw, outside the client's methods
  copy,       \* what a thread has begun to copy of jpeg_buf
  reply,      \* what a thread sent to the browser
  mine,       \* history: a thread's last update request
  last,       \* history: the picture last encoded
  capturing,  \* history: threads from clear_buf to the end of their copy
  failed,     \* history: the last capture that ended failed
  clashed     \* history: two captures overlapped

A == INSTANCE VncClient WITH
       pc <- pcA, message_type <- typeA, todo <- todoA, want <- wantA,
       throws <- throwsA, missed <- missedA

B == INSTANCE VncClient WITH
       pc <- pcB, message_type <- typeB, todo <- todoB, want <- wantB,
       throws <- throwsB, missed <- missedB

INSTANCE RfbServer

\* Whatever the rectangles of an update are, they cover the screen.
ASSUME SplitsAssumption == \A split \in Splits : split \in Seq(Nat) /\ Covers(split, Width)

localsA    == <<pcA, typeA, todoA, wantA, throwsA, missedA>>
localsB    == <<pcB, typeB, todoB, wantB, throwsB, missedB>>
shared     == <<spun, conn, s2c, c2s, version, challenge, width, configured, image_buf,
                reqs, overlong, frags, torn>>
serverVars == <<srv, rv, asked, served, news, faults>>
handler    == <<image, jpeg_buf, stage, copy, reply, mine, last, capturing, failed, clashed>>
vars       == <<localsA, localsB, shared, serverVars, handler>>

Thread == {"A", "B"}

\* What is in a buffer another thread is writing to: no picture has such a pixel.
Torn == <<0>>

TypeOK ==
  /\ {wantA, wantB, todoA, todoB, throwsA, throwsB, missedA, missedB, reqs} \subseteq Nat
  /\ {image_buf, image, jpeg_buf, last} \subseteq Seq(Nat)
  /\ stage \in [Thread -> {"method", "encode", "copy", "copied"}]
  /\ copy \in [Thread -> Seq(Nat)] /\ reply \in [Thread -> Seq(Nat)]
  /\ mine \in [Thread -> 0..reqs]
  /\ capturing \subseteq Thread
  /\ {failed, clashed} \subseteq BOOLEAN

SharedInit ==
  /\ pcA = "idle" /\ pcB = "idle"
  /\ typeA = 0 /\ todoA = 0 /\ wantA = 0 /\ throwsA = 0 /\ missedA = 0
  /\ typeB = 0 /\ todoB = 0 /\ wantB = 0 /\ throwsB = 0 /\ missedB = 0
  /\ spun = "ok" /\ conn = "up" /\ s2c = <<>> /\ c2s = <<>>
  /\ version = 38 /\ challenge = <<7, 8>> /\ width = Width /\ configured = TRUE
  /\ image_buf = <<>> /\ reqs = 0 /\ overlong = FALSE /\ frags = 0 /\ torn = FALSE
  /\ srv = "serving" /\ rv = 38 /\ asked = 0 /\ served = 0 /\ news = 0 /\ faults = 0
  /\ image = <<>> /\ jpeg_buf = <<>> /\ last = <<>>
  /\ stage = [t \in Thread |-> "method"]
  /\ copy = [t \in Thread |-> <<>>] /\ reply = [t \in Thread |-> <<>>]
  /\ mine = [t \in Thread |-> 0] /\ capturing = {}
  /\ failed = FALSE /\ clashed = FALSE

-----------------------------------------------------------------------------

\* What draw_image makes of image_buf; behind its end lies anything.
Drawn == [i \in 1..width |-> IF i <= Len(image_buf) THEN image_buf[i] ELSE 0]

\* A capture fails, at its request or later.
Fails(t, from, to) ==
  to = "idle" /\ from # "draw" /\ (from = "send_request" \/ t \in capturing)

\* Where a request may be after a step of a method.  draw_image draws and begins to
\* encode; a key, sent or not known, is followed by the copy of the picture; a send or
\* receive that failed ends the request.
After(from, to) ==
  CASE to = "idle" /\ from = "draw"   -> {"encode"}
    [] to = "idle" /\ from = "idle"   -> {"copy"}
    [] to = "idle" /\ from = "key_up" -> (IF conn = "down" THEN {} ELSE {"copy"})
                                           \cup (IF conn = "up" THEN {} ELSE {"method"})
    [] OTHER -> {"method"}

\* What a step of a method means outside it.  clear_buf goes with the request that
\* follows it.  clearing: the steps that call clear_buf.
Follows(t, from, to, clearing) ==
  /\ stage' \in {[stage EXCEPT ![t] = s] : s \in After(from, to)}
  /\ jpeg_buf' = CASE from \in clearing -> <<>>
                   [] from = "draw" -> Torn
                   [] OTHER -> jpeg_buf
  /\ image' = IF from = "draw" THEN Drawn ELSE image
  /\ mine' = CASE from = "send_request" -> [mine EXCEPT ![t] = reqs']
               [] from = "idle" -> [mine EXCEPT ![t] = 0]
               [] OTHER -> mine
  /\ capturing' = CASE to = "idle" /\ from # "draw" -> capturing \ {t}
                    [] to # "idle" /\ from = "send_request" -> capturing \cup {t}
                    [] OTHER -> capturing
  /\ failed' = (failed \/ Fails(t, from, to))
  /\ clashed' = (clashed \/ (from = "send_request" /\ capturing # {}))
  /\ UNCHANGED <<copy, reply, last>>

\* Mutant: capture calls clear_buf before it looks for a key.
ClearsForKeys(t, from, to) == Follows(t, from, to, {"send_request", "key_up"})

Follow(t, from, to) == Follows(t, from, to, {"send_request"})

\* The process is there for both threads, or for none.
Alive == pcA # "gone" /\ pcB # "gone"

\* After an overlap no request is begun any more; those under way go on.
MethodA ==
  /\ Alive /\ stage["A"] = "method" /\ (pcA = "idle" => ~clashed)
  /\ A!Throw \/ A!Capture
  /\ Follow("A", pcA, pcA')
  /\ UNCHANGED <<localsB, serverVars>>

MethodB ==
  /\ Alive /\ stage["B"] = "method" /\ (pcB = "idle" => ~clashed)
  /\ B!Throw \/ B!Capture
  /\ Follow("B", pcB, pcB')
  /\ UNCHANGED <<localsA, serverVars>>

Goto(t, s) == stage' = [stage EXCEPT ![t] = s]

\* imencode is through, for the second time if there is a pointer to draw.
Encode(t) ==
  /\ Alive /\ stage[t] = "encode"
  /\ jpeg_buf' = image /\ last' = image /\ failed' = FALSE
  /\ Goto(t, "copy")
  /\ UNCHANGED <<localsA, localsB, shared, serverVars, image, copy, reply, mine, capturing,
                 clashed>>

\* get_jpeg_buf copies, and the copy is sent.  What it copies from may change meanwhile.
Copy(t) ==
  /\ Alive /\ stage[t] = "copy"
  /\ copy' = [copy EXCEPT ![t] = jpeg_buf]
  /\ Goto(t, "copied")
  /\ UNCHANGED <<localsA, localsB, shared, serverVars, image, jpeg_buf, reply, mine, last,
                 capturing, failed, clashed>>

Reply(t) ==
  /\ Alive /\ stage[t] = "copied"
  /\ reply' = [reply EXCEPT ![t] = IF jpeg_buf = copy[t] THEN copy[t] ELSE Torn]
  /\ copy' = [copy EXCEPT ![t] = <<>>]
  /\ capturing' = capturing \ {t}
  /\ Goto(t, "method")
  /\ UNCHANGED <<localsA, localsB, shared, serverVars, image, jpeg_buf, mine, last, failed,
                 clashed>>

Server ==
  /\ Alive
  /\ ReadRequest \/ SendUpdate \/ SendNews \/ Disconnect
  /\ news' + faults' <= MaxSurprise
  /\ UNCHANGED <<localsA, localsB, spun, version, challenge, width, configured, image_buf,
                 reqs, overlong, frags, torn, handler>>

Next ==
  \/ MethodA \/ MethodB
  \/ \E t \in Thread : Encode(t) \/ Copy(t) \/ Reply(t)
  \/ Server

Spec == SharedInit /\ [][Next]_vars

-----------------------------------------------------------------------------

\* No two captures overlapped, and the stream came whole and with nothing too long.
Orderly == ~clashed /\ conn = "up" /\ ~torn /\ ~overlong

\* The picture of an update.
Whole(n) == [i \in 1..Width |-> n]

\* On an orderly connection, while no other message answered a capture, a thread draws,
\* and sends its browser, the whole update of its own request: input of another thread
\* between the request and the answer, or a copy in the middle of the capture, takes
\* nothing of it.
OwnPicture ==
  Orderly /\ missedA = 0 /\ missedB = 0 =>
    /\ pcA = "draw" => image_buf = Whole(mine["A"])
    /\ pcB = "draw" => image_buf = Whole(mine["B"])
    /\ pcA = "idle" /\ stage["A"] = "method" /\ mine["A"] # 0 => reply["A"] = Whole(mine["A"])
    /\ pcB = "idle" /\ stage["B"] = "method" /\ mine["B"] # 0 => reply["B"] = Whole(mine["B"])

\* Between captures, while none overlapped, jpeg_buf holds the last picture drawn, by
\* either thread, which is what a request with a key is sent: whole, or empty before the
\* first and after a capture that failed.
BufferAtRest ==
  ~clashed /\ capturing = {} => jpeg_buf = IF failed THEN <<>> ELSE last

=============================================================================
