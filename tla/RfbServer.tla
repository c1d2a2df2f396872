------------------------------ MODULE RfbServer ------------------------------
(***************************************************************************)
(* The VNC server, as the client sees it.  It is not part of this          *)
(* repository: it follows RFB 3.3, 3.7 or 3.8 with VNC authentication,     *)
(* announces some other version, or stops talking.  It reads requests in   *)
(* order, may answer several update requests with one update, and may put  *)
(* messages nobody asked for between two answers.                          *)
(***************************************************************************)
EXTENDS RfbStream

CONSTANTS
  Versions,   \* versions a server may announce
  Width,      \* pixels of its screen
  Splits,     \* ways to cut the screen into rectangles: sequences of sizes
  Names,      \* lengths of its name
  Colours,    \* lengths of a colour map
  Texts,      \* lengths of a cut text
  MaxNews,    \* bound: messages nobody asked for
  MaxFault    \* bound: connections broken or closed early

VARIABLES conn, s2c, c2s, srv, rv, asked, served, news, faults

Put(units) == s2c' = s2c \o Message(units)

\* The next message of the client is of this kind.
Take(kind) == c2s # <<>> /\ Head(c2s).kind = kind /\ c2s' = Tail(c2s)

ServerInit ==
  srv = "listen" /\ rv = 0 /\ asked = 0 /\ served = 0 /\ news = 0 /\ faults = 0

Counters == <<asked, served, news, faults>>

AcceptConnection ==
  /\ srv = "listen" /\ conn = "up"
  /\ rv' \in Versions
  /\ Put(<<82, rv'>>)
  /\ srv' = "version"
  /\ UNCHANGED <<conn, c2s, Counters>>

\* A connection in progress comes up, whether or not anybody still waits for it, or
\* is refused.
Connected ==
  /\ conn = "connecting"
  /\ conn' \in {"up", "down"}
  /\ UNCHANGED <<s2c, c2s, srv, rv, Counters>>

\* RFB 3.3 announces a security type in one word and challenges at once; later
\* versions send a list and wait for a choice.
AnswerVersion ==
  /\ srv = "version" /\ conn = "up"
  /\ Take("version")
  /\ IF rv = 33
     THEN s2c' = s2c \o Message(<<0, 2>>) \o Message(<<7, 8>>) /\ srv' = "response"
     ELSE Put(<<1, 2>>) /\ srv' = "type"
  /\ UNCHANGED <<conn, rv, Counters>>

SendChallenge ==
  /\ srv = "type" /\ conn = "up"
  /\ Take("type")
  /\ Put(<<7, 8>>)
  /\ srv' = "response"
  /\ UNCHANGED <<conn, rv, Counters>>

\* No security type at all, and a reason.
Refuse ==
  /\ srv = "version" /\ conn = "up"
  /\ Take("version")
  /\ Put(<<0, 5>>)
  /\ srv' = "denied"
  /\ UNCHANGED <<conn, rv, Counters>>

\* RFB 3.8 adds a reason to a failure.
Deny ==
  /\ s2c' = s2c \o Message(<<0, 1>>) \o (IF rv = 38 THEN Message(<<0, 5>>) ELSE <<>>)
  /\ srv' = "denied"

\* A response to another challenge, or under another password, is denied.
CheckResponse ==
  /\ srv = "response" /\ conn = "up"
  /\ Take("response")
  /\ \/ Head(c2s).val = <<7, 8>> /\ Put(<<0, 0>>) /\ srv' = "init"
     \/ Deny
  /\ UNCHANGED <<conn, rv, Counters>>

\* The bytes read are not the message expected.  Each message that can arrive out
\* of turn is shorter than the one expected, so the server waits for a second.
Misread ==
  /\ srv \in {"version", "response"} /\ conn = "up"
  /\ Len(c2s) > 1 /\ Head(c2s).kind # srv
  /\ c2s' = Tail(Tail(c2s))
  /\ Deny
  /\ UNCHANGED <<conn, rv, Counters>>

HangUp ==
  /\ srv = "denied" /\ conn = "up"
  /\ conn' = "closed"
  /\ UNCHANGED <<s2c, c2s, srv, rv, Counters>>

Initialise ==
  /\ srv = "init" /\ conn = "up"
  /\ Take("init")
  /\ \E length \in Names : Put(Hello(Width, length))
  /\ srv' = "serving"
  /\ UNCHANGED <<conn, rv, Counters>>

ReadRequest ==
  /\ srv = "serving" /\ conn = "up"
  /\ c2s # <<>>
  /\ c2s' = Tail(c2s)
  /\ asked' = asked + (IF Head(c2s).kind = "request" THEN 1 ELSE 0)
  /\ UNCHANGED <<conn, s2c, srv, rv, served, news, faults>>

\* The screen as it is after the requests read so far.
SendUpdate ==
  /\ srv = "serving" /\ conn = "up"
  /\ served < asked
  /\ \E split \in Splits : Put(Update(split, asked))
  /\ served' = asked
  /\ UNCHANGED <<conn, c2s, srv, rv, asked, news, faults>>

SendNews ==
  /\ srv = "serving" /\ conn = "up"
  /\ news < MaxNews
  /\ news' = news + 1
  /\ \E units \in News(Colours, Texts) : Put(units)
  /\ UNCHANGED <<conn, c2s, srv, rv, asked, served, faults>>

\* The server closes its end, or the connection breaks.
Disconnect ==
  /\ conn = "up" /\ srv # "listen"
  /\ faults < MaxFault
  /\ faults' = faults + 1
  /\ \/ conn' = "closed" /\ UNCHANGED <<s2c, c2s>>
     \/ conn' = "down" /\ s2c' = <<>> /\ c2s' = <<>>
  /\ UNCHANGED <<srv, rv, asked, served, news>>

\* What a server does by itself.
Serve ==
  \/ AcceptConnection \/ AnswerVersion \/ Refuse \/ SendChallenge \/ CheckResponse
  \/ Misread \/ HangUp \/ Initialise \/ ReadRequest \/ SendUpdate

\* What may happen, or never.
Surprise == Connected \/ SendNews \/ Disconnect

=============================================================================
