----------------------------- MODULE VncSession ------------------------------
(***************************************************************************)
(* A vnc_client and the server it is connected to: the handshake, the      *)
(* requests of the browser, and the end of the session.                    *)
(***************************************************************************)
EXTENDS VncClient

CONSTANTS Versions, Width, Splits, Names, Colours, Texts, MaxNews, MaxFault

ASSUME VersionsAssumption == Versions \subseteq Nat

ASSUME WidthAssumption == Width \in Nat

ASSUME LengthsAssumption == Names \subseteq Nat /\ Colours \subseteq Nat /\ Texts \subseteq Nat

VARIABLES
  srv, rv, asked, served, news, faults,
  early   \* history: a message nobody asked for came behind a ServerInit not yet read

INSTANCE RfbServer

\* Whatever the rectangles of an update are, they cover the screen.
ASSUME SplitsAssumption == \A split \in Splits : split \in Seq(Nat) /\ Covers(split, Width)

serverVars == <<srv, rv, asked, served, news, faults, early>>

\* What a step of the server leaves alone.
clientState == <<pc, spun, client, progress, history, frags, torn>>

vars == <<clientVars, serverVars>>

\* Where the client is past the security result, on its way to the first request.
Granted == {"send_client_init", "recv_server_init", "send_format", "send_encodings"}

Spinning == {"select", "recv_version", "send_version", "recv_types", "send_type",
             "recv_challenge", "send_response", "recv_result"} \cup Granted

Throwing == {"key_down", "key_up", "pointer_down", "pointer_up", "send_request", "recv_type",
             "recv_update", "recv_rectangle", "recv_pixels", "recv_colour_map", "recv_colour",
             "recv_cut_text", "recv_text", "draw", "gone"}

TypeOK ==
  /\ pc \in {"idle"} \cup Spinning \cup Throwing
  /\ spun \in {"no", "ok", "failed"}
  /\ conn \in {"down", "connecting", "up", "closed"}
  /\ s2c \in Seq(Unit)
  /\ version \in {0, 33, 37, 38}
  /\ challenge \in Nat \X Nat
  /\ {width, message_type, todo, want, throws, reqs, missed, frags} \subseteq Nat
  /\ configured \in BOOLEAN
  /\ image_buf \in Seq(Nat)
  /\ {torn, overlong, early} \subseteq BOOLEAN
  /\ srv \in {"listen", "version", "type", "response", "init", "serving", "denied"}
  /\ rv \in Versions \cup {0}
  /\ {asked, served, news, faults} \subseteq Nat

SessionInit == Init /\ ServerInit /\ early = FALSE

\* A step of the server.
Served ==
  /\ Serve \/ Surprise
  /\ early' = (early \/ (SendNews /\ pc = "recv_server_init"))
  /\ UNCHANGED clientState

Next == ((Call \/ Start \/ Destroy) /\ UNCHANGED serverVars) \/ Served

Spec == SessionInit /\ [][Next]_vars

\* The thread that makes a call runs, and the server does what the protocol asks
\* of it; requests, messages nobody asked for and faults may never come.
FairSpec ==
  /\ Spec
  /\ WF_vars(Call /\ UNCHANGED serverVars)
  /\ WF_vars(Serve /\ UNCHANGED <<clientState, early>>)

-----------------------------------------------------------------------------

\* The connection is up, and every read so far ended between two messages or pixels.
Whole == conn = "up" /\ ~torn

\* And no message came too early, and none was too long, for the client to tell where it
\* ends.
Orderly == Whole /\ ~early /\ ~overlong

\* Past the security result.
Believed == spun = "ok" \/ (spun = "no" /\ pc \in Granted)

\* The client takes itself for authenticated only with a server that granted it,
\* as long as the stream is whole.  A result cut after three bytes, or none at
\* all, reads as success.
AuthSound == Believed /\ Whole => srv \in {"init", "serving"}

\* Nor does a client that takes its handshake for failed, and is cached all the same,
\* ever have a server that granted it or still may: one it never shook hands with, as it
\* came up late, denies it at the first requests thrown at it.
FailureAgreed ==
  spun = "failed" /\ Whole => srv \in {"listen", "version", "denied"}

\* Between two captures of a session that spun the client stands at the start of a message:
\* whatever it received before, it took all of it and nothing of the next.
InStep ==
  spun = "ok" /\ pc \in {"send_request", "recv_type"} /\ Orderly /\ s2c # <<>> => s2c[1].head

\* A capture that received an update draws exactly the pixels of that update.
DrawsUpdate ==
  pc = "draw" /\ message_type = 0 /\ Orderly => Len(image_buf) = width

\* The picture is at most as many requests old as captures received some other
\* message: requests and answers drift apart by one each time, and not otherwise.
StaleBound ==
  pc = "draw" /\ message_type = 0 /\ Orderly =>
    \A i \in 1..Len(image_buf) : reqs - missed <= image_buf[i] /\ image_buf[i] <= reqs

\* With a server of a version the client follows, the handshake succeeds unless
\* the connection does not come up in time, the password is denied or the stream
\* is cut.  The process may end with it if the name is too long.
HandshakeEnds ==
  pc \in {"select", "recv_version"} ~>
    \/ spun = "ok"
    \/ spun = "failed" /\ (srv = "denied" \/ rv \notin {37, 38} \/ ~Whole)
    \/ pc = "gone" /\ overlong
    \/ rv = 33

\* A capture on a session that spun returns, unless the stream is cut.
CaptureEnds == pc = "recv_type" /\ spun = "ok" ~> pc = "idle" \/ ~Orderly

(***************************************************************************)
(* What the repository says and the code does not do.                      *)
(***************************************************************************)

\* "wait for the operation to be reflected": the picture of a request is the
\* answer to that request, and so comes after its operation.
Reflected ==
  pc = "draw" /\ message_type = 0 /\ Orderly =>
    \A i \in 1..Len(image_buf) : image_buf[i] = reqs

\* A server of version 3.3, which recv_protocol_version accepts, is not waited for
\* for ever.
OldVersionEnds == pc = "recv_version" ~> pc = "idle"

(***************************************************************************)
(* The inductive invariant VncSessionProofs rests on: what the client and  *)
(* the server have said to each other and not yet read, at each point of a *)
(* handshake on a whole stream.                                            *)
(***************************************************************************)

\* A message of two units waits for the client.
Pending(a, b) ==
  s2c \in Seq(Unit) /\ Len(s2c) = 2 /\ s2c[1].v = a /\ s2c[2].v = b /\ ~s2c[2].head

\* A server that denies has said so, and maybe why.
Denial ==
  /\ srv = "denied"
  /\ s2c \in Seq(Unit) /\ Len(s2c) >= 2 /\ s2c[1].v = 0 /\ s2c[2].v = 1 /\ ~s2c[2].head

Response == [kind |-> "response", val |-> challenge]

Exchange ==
  /\ pc \in {"select", "recv_version"} =>
       /\ c2s = <<>>
       /\ (srv = "listen" /\ s2c = <<>>) \/ (srv = "version" /\ Pending(82, rv))
  /\ pc = "send_version" => srv = "version" /\ c2s = <<>> /\ s2c = <<>>
  /\ pc = "recv_types" =>
       \/ srv = "version" /\ c2s = <<Msg("version")>> /\ s2c = <<>>
       \/ srv = "type" /\ c2s = <<>> /\ Pending(1, 2)
       \/ srv = "denied" /\ c2s = <<>> /\ Pending(0, 5)
       \/ srv = "response" /\ c2s = <<>> /\ s2c = Message(<<0, 2>>) \o Message(<<7, 8>>)
  /\ pc = "send_type" =>
       \/ srv \in {"type", "response", "denied"} /\ c2s = <<>> /\ s2c = <<>>
       \/ srv = "response" /\ c2s = <<>> /\ Pending(7, 8)
  /\ pc = "recv_challenge" =>
       \/ srv \in {"type", "response", "denied"} /\ c2s = <<Msg("type")>> /\ s2c = <<>>
       \/ srv = "response" /\ c2s \in {<<>>, <<Msg("type")>>} /\ Pending(7, 8)
  /\ pc = "send_response" =>
       srv = "response" /\ c2s \in {<<>>, <<Msg("type")>>} /\ s2c = <<>>
  /\ pc = "recv_result" =>
       \/ srv = "response" /\ s2c = <<>> /\ (c2s = <<Response>> \/ Head(c2s) = Msg("type"))
       \/ srv = "init" /\ c2s = <<>> /\ Pending(0, 0)
       \/ Denial
  /\ pc \in Granted => srv \in {"init", "serving"}

AuthInv ==
  /\ pc \in {"idle"} \cup Spinning \cup Throwing
  /\ pc \in Spinning => spun = "no"
  /\ pc \in Throwing \ {"gone"} => spun # "no"
  /\ pc = "gone" => conn = "down"
  /\ pc = "idle" /\ spun = "no" => conn = "down" /\ srv = "listen" /\ s2c = <<>> /\ c2s = <<>>
  /\ conn = "connecting" =>
       /\ srv = "listen"
       /\ spun = "failed" \/ (spun = "no" /\ pc = "select" /\ s2c = <<>> /\ c2s = <<>>)
  /\ Whole /\ spun = "no" => Exchange
  /\ Whole /\ spun = "ok" => srv \in {"init", "serving"}

=============================================================================
