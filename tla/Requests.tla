------------------------------ MODULE Requests -------------------------------
(***************************************************************************)
(* From what the user does in the browser to what the VNC server is told:  *)
(* the page's script writes a query, mod_mrhc reads it into an operation,  *)
(* and vnc_client::operate sends the events.  The same for the user name   *)
(* and password of the first request.                                      *)
(*                                                                         *)
(* A text is a sequence of tokens.  The delimiters ":", "&", "=" and "?"   *)
(* are tokens, and so is every word or number between them.                *)
(***************************************************************************)
EXTENDS Integers, Sequences, SequencesExt

CONSTANTS
  Token,    \* what texts are made of
  Size,     \* the bytes of each token
  Number,   \* the value of each token that is a number of type int
  Huge,     \* tokens that are numbers too long for an int
  Keysym,   \* the key code X11 has for a name, where it has one
  Path,     \* bound: how the address the page was loaded from goes on after /mrhc
  Click,    \* bound: clicks, as [x, y, b]
  Key,      \* bound: keys, as the browser names them
  Login     \* bound: what a user enters, as [scheme, host, port, password]

Delimiters == {":", "&", "="}

\* The words of the page's script and of convert_key_to_code are tokens.
ASSUME TokenAssumption ==
  Delimiters \cup {"?", "x", "y", "b", "k", "t", "1600000000000", "Space"} \subseteq Token

ASSUME SizeAssumption == Size \in [Token -> Nat]

\* A number has no delimiter in it, and is either too long for an int or not.
ASSUME NumberAssumption ==
  /\ Number \in [DOMAIN Number -> Int]
  /\ DOMAIN Number \subseteq Token \ (Delimiters \cup {"?"})
  /\ Huge \cap DOMAIN Number = {}

\* A position: 16 bits.
Short == 0..65535

\* A picture is at most 65535 pixels wide and high; the page sends buttons 0 and 2, and
\* each of the eight in a mask would do.
ASSUME ClickAssumption == Click \subseteq [x : Short, y : Short, b : 0..7]

\* The browser can write the numbers of a click.
ASSUME DigitsAssumption ==
  \A at \in Click : {at.x, at.y, at.b} \subseteq {Number[token] : token \in DOMAIN Number}

\* What is typed is a text, and an address has a query of its own or none.
ASSUME TypedAssumption ==
  /\ Path \subseteq Seq(Token)
  /\ \A path \in Path : path = <<>> \/ path[1] = "?"
  /\ Key \subseteq Token
  /\ \A login \in Login : {login.host, login.port, login.password} \subseteq Seq(Token)

VARIABLES
  event,   \* what the user does
  text,    \* what the server gets of it: a query, or decoded credentials
  op,      \* what mrhc_query returns
  creds,   \* what the credentials are read as
  sent,    \* the events sent to the VNC server
  pc

vars == <<event, text, op, creds, sent, pc>>

Operation(end, x, y, b, key) == [end |-> end, x |-> x, y |-> y, b |-> b, key |-> key]

NoOperation == Operation("ok", 0, 0, 0, <<>>)

NoCredentials == [end |-> "none", host |-> <<>>, port |-> 0, password |-> <<>>]

Event ==
  [kind : {"load", "poll"}, path : Path]
  \cup [kind : {"click"}, path : Path, at : Click]
  \cup [kind : {"key"}, path : Path, key : Key]
  \cup [kind : {"login"}, login : Login]

Init ==
  /\ event \in Event
  /\ text = <<>> /\ op = NoOperation /\ creds = NoCredentials /\ sent = <<>>
  /\ pc = "browser"

-----------------------------------------------------------------------------

\* The items of a text that goes on with one more token.
Cut(items, token, delim) ==
  IF token = delim THEN Append(items, <<>>)
  ELSE Append(Front(items), Append(Last(items), token))

\* A text cut at each delimiter.
Items(s, delim) ==
  LET items[n \in 0..Len(s)] == IF n = 0 THEN << <<>> >> ELSE Cut(items[n - 1], s[n], delim)
  IN  items[Len(s)]

\* Mutant: a text that ends with a delimiter has no last, empty item.
SplitNoEmptyEnd(s, delim) ==
  LET items == Items(s, delim)
  IN  IF Len(items) > 1 /\ Last(items) = <<>> THEN Front(items) ELSE items

\* split_string: what is left after the last delimiter is an item, empty or not.
Split(s, delim) == Items(s, delim)

\* std::stoi: the number at the start of a text.
IsNumber(s) == s # <<>> /\ s[1] \in DOMAIN Number

IsHuge(s) == s # <<>> /\ s[1] \in Huge

stoi(s) == Number[s[1]]

\* The fields of vnc_operation: 16 bits for a position, 8 for the button.
Modulus == [x |-> 65536, y |-> 65536, b |-> 256]

\* Mutant: an empty value is an empty key.
KeyAsIs(value) == value

\* Line 212: the browser drops a space at the end of an address.
KeyOf(value) == IF value = <<>> THEN <<"Space">> ELSE value

\* Mutant: positions keep the width of an int.
Unnarrowed(name, n) == n

\* The assignment to a field of vnc_operation.
Narrow(name, n) == n % Modulus[name]

Names == {"x", "y", "b", "k"}

\* Mutant: every parameter is looked at.
NamedLoosely(param) == param[1] # <<>>

\* Is this a parameter mrhc_query looks for?  Others, like the time of a poll, are not
\* looked at.
Named(param) == Len(param[1]) = 1 /\ param[1][1] \in Names

\* Lines 207-212, for one parameter.  A name without "=" reads behind the vector;
\* a position that is no int is an exception nobody catches.
Assign(o, param) ==
  LET name == param[1][1] IN
  IF o.end # "ok" \/ ~Named(param) THEN o
  ELSE IF Len(param) = 1 THEN [o EXCEPT !.end = "undefined"]
  ELSE IF name = "k" THEN [o EXCEPT !.key = KeyOf(param[2])]
  ELSE IF IsNumber(param[2]) THEN [o EXCEPT ![name] = Narrow(name, stoi(param[2]))]
  ELSE [o EXCEPT !.end = "abort"]

mrhc_query(query) ==
  LET params == Split(query, "&")
      read[n \in 0..Len(params)] ==
        IF n = 0 THEN NoOperation ELSE Assign(read[n - 1], Split(params[n], "="))
  IN  read[Len(params)]

\* Mutant: the password is all that follows the host.
PasswordLoose(params) == params[2] \o params[3]

PasswordOf(params) == params[3]

\* What a buffer of the handler holds, with the zero that ends it (lines 79 and 81).
BUF_SIZE == 1024

Bytes(s) ==
  LET bytes[n \in 0..Len(s)] == IF n = 0 THEN 0 ELSE bytes[n - 1] + Size[s[n]]
  IN  bytes[Len(s)]

Fits(s) == Bytes(s) < BUF_SIZE

\* ap_get_vnc_param_by_basic_auth_components.  Only a port that is no number at
\* all is refused; one that is too long is an exception nobody catches, and a
\* missing item is read behind the vector.  Host and password are copied whatever
\* their length, the host before the port is looked at.
Credentials(header) ==
  LET params == Split(header.text, ":")
  IN  IF header.scheme # "Basic" THEN [NoCredentials EXCEPT !.end = "refused"]
      ELSE IF ~Fits(params[1]) \/ Len(params) < 2 THEN [NoCredentials EXCEPT !.end = "undefined"]
      ELSE IF IsHuge(params[2]) THEN [NoCredentials EXCEPT !.end = "abort"]
      ELSE IF ~IsNumber(params[2]) THEN [NoCredentials EXCEPT !.end = "refused"]
      ELSE IF Len(params) < 3 \/ ~Fits(PasswordOf(params))
           THEN [NoCredentials EXCEPT !.end = "undefined"]
      ELSE [end |-> "ok", host |-> params[1], port |-> stoi(params[2]),
            password |-> PasswordOf(params)]

\* convert_key_to_code: X11's name, else the table of lines 784-793, else 0.
Table == [Backspace |-> 65288, Enter |-> 65293, Space |-> 65408] @@ ("." :> 46) @@ ("/" :> 47)

convert_key_to_code(key) ==
  IF Len(key) # 1 THEN 0
  ELSE IF key[1] \in DOMAIN Keysym THEN Keysym[key[1]]
  ELSE IF key[1] \in DOMAIN Table THEN Table[key[1]]
  ELSE 0

KeyEvent(code, down) == [kind |-> "key", code |-> code, down |-> down]

PointerEvent(mask, x, y) == [kind |-> "pointer", mask |-> mask, x |-> x, y |-> y]

\* 1 << button in eight bits.  From 32 on the shift is undefined: the processor
\* takes the count modulo 32, the compiler may take 0.
Masks(b) ==
  {IF b % 32 < 8 THEN 2 ^ (b % 32) ELSE 0} \cup (IF b < 32 THEN {} ELSE {0})

KeyEvents(code) ==
  IF code = 0 THEN <<>> ELSE <<KeyEvent(code, TRUE), KeyEvent(code, FALSE)>>

PointerEvents(o, mask) == <<PointerEvent(mask, o.x, o.y), PointerEvent(0, o.x, o.y)>>

\* vnc_client::operate: a key, else a position, of which (0, 0) means none.
Events(o, mask) ==
  IF o.key # <<>> THEN KeyEvents(convert_key_to_code(o.key))
  ELSE IF o.x = 0 /\ o.y = 0 THEN <<>>
  ELSE PointerEvents(o, mask)

-----------------------------------------------------------------------------

\* How the browser writes a number; it drops a space at the end of an address, and
\* what follows "#" is not sent.
Digits(n) == CHOOSE token \in DOMAIN Number : Number[token] = n

Encode(key) == IF key \in {" ", "#"} THEN <<>> ELSE <<key>>

\* Lines 241-262: what the page's script appends to ask for a picture, with what the
\* user did.
Appended ==
  CASE event.kind = "poll"  -> <<"t", "=", "1600000000000">>
    [] event.kind = "click" -> <<"x", "=", Digits(event.at.x), "&", "y", "=", Digits(event.at.y),
                                 "&", "b", "=", Digits(event.at.b)>>
    [] event.kind = "key"   -> <<"k", "=">> \o Encode(event.key)

\* Lines 224 and 237-259: the page asks for its picture at the address it was loaded from
\* (a load), its script at that address with "?" and its own query after it.
Address == IF event.kind = "load" THEN event.path ELSE event.path \o <<"?">> \o Appended

\* r->parsed_uri.query: what follows the first "?".  Without one mrhc_query is not
\* called, which comes to the same as an empty query.
QueryOf(address) == IF address = <<>> THEN <<>> ELSE Tail(address)

Ask ==
  /\ pc = "browser" /\ event.kind # "login"
  /\ text' = QueryOf(Address)
  /\ pc' = "query"
  /\ UNCHANGED <<event, op, creds, sent>>

\* The browser joins user name and password with a colon.
Enter ==
  /\ pc = "browser" /\ event.kind = "login"
  /\ text' = event.login.host \o <<":">> \o event.login.port \o <<":">> \o event.login.password
  /\ pc' = "header"
  /\ UNCHANGED <<event, op, creds, sent>>

Authenticate ==
  /\ pc = "header"
  /\ creds' = Credentials([scheme |-> event.login.scheme, text |-> text])
  /\ pc' = "done"
  /\ UNCHANGED <<event, text, op, sent>>

Parse ==
  /\ pc = "query"
  /\ op' = mrhc_query(text)
  /\ pc' = IF op'.end = "ok" THEN "operate" ELSE "done"
  /\ UNCHANGED <<event, text, creds, sent>>

Operate ==
  /\ pc = "operate"
  /\ \E mask \in Masks(op.b) : sent' = Events(op, mask)
  /\ pc' = "done"
  /\ UNCHANGED <<event, text, op, creds>>

Next == Ask \/ Enter \/ Authenticate \/ Parse \/ Operate

Spec == Init /\ [][Next]_vars

-----------------------------------------------------------------------------

Ends == {"none", "ok", "refused", "abort", "undefined"}

TypeOK ==
  /\ event \in Event
  /\ text \in Seq(Token)
  /\ op.x \in Short /\ op.y \in Short /\ op.b \in 0..255
  /\ {op.end, creds.end} \subseteq Ends
  /\ Len(sent) <= 2
  /\ pc \in {"browser", "query", "header", "operate", "done"}

\* Nothing is lost or made up by cutting a text, and no item has a delimiter left.
SplitExact == \A delim \in {"&", "=", ":"} :
  LET items == Split(text, delim)
  IN  /\ text = Tail(FlattenSeq([i \in 1..Len(items) |-> <<delim>> \o items[i]]))
      /\ \A i \in 1..Len(items) : \A j \in 1..Len(items[i]) : items[i][j] # delim

\* On a page whose address has no query, what the user did is what the server is told: a
\* click is pressed and released where it was made and with its button, a key that has a
\* code is pressed and released and one that has none is not told of, a poll is nothing.
\* Not so for a click at (0, 0), which counts as none, and for the keys that are
\* delimiters of an address, which arrive as a space.
InputArrives == pc = "done" /\ event.kind # "login" /\ event.path = <<>> =>
  /\ event.kind \in {"load", "poll"} => sent = <<>>
  /\ event.kind = "click" /\ <<event.at.x, event.at.y>> # <<0, 0>> =>
       sent = PointerEvents(event.at, 2 ^ event.at.b)
  /\ event.kind = "key" /\ event.key \notin {"&", "=", "#"} =>
       sent = KeyEvents(convert_key_to_code(<<IF event.key = " " THEN "Space" ELSE event.key>>))

\* The script appends to the query the page was loaded with, and what it appends runs into
\* the last parameter of it.  If the parser gets through the page's own query, it gets
\* through all the script makes of it: no poll, click or key makes it throw or read
\* behind a vector.  (If it does not, the page's own picture ends the process.)
PageNeverAborts ==
  event.kind \in {"poll", "click", "key"} /\ mrhc_query(QueryOf(event.path)).end = "ok" =>
    op.end = "ok"

\* A text up to its first colon.
BeforeColon(s, start) ==
  /\ Len(start) <= Len(s)
  /\ \A i \in 1..Len(start) : start[i] = s[i] /\ s[i] # ":"
  /\ Len(start) = Len(s) \/ s[Len(start) + 1] = ":"

\* A host without a colon, a port that is an int and a password are read as they were
\* entered, if each fits its buffer; of a password with a colon, what is before the colon.
CredentialsRead ==
  LET login == event.login
  IN  pc = "done" /\ event.kind = "login" /\ login.scheme = "Basic" /\ IsNumber(login.port)
      /\ ~Contains(login.host \o login.port, ":") /\ Fits(login.host) /\ Fits(login.password) =>
        /\ creds.end = "ok" /\ creds.host = login.host /\ creds.port = stoi(login.port)
        /\ BeforeColon(login.password, creds.password)

=============================================================================
