----------------------------- MODULE MCRequests ------------------------------
(***************************************************************************)
(* Instances of Requests for TLC.                                          *)
(***************************************************************************)
EXTENDS Requests

MCNumber == "0" :> 0 @@ "1" :> 1 @@ "2" :> 2 @@ "33" :> 33 @@ "5900" :> 5900 @@ "70000" :> 70000 @@ "-1" :> -1

MCHuge == {"1600000000000"}

\* Names X11 knows, one letter for all.
MCKeysym == "a" :> 97 @@ "Up" :> 65362

MCClick == [x : {0, 1, 5900}, y : {0, 2, 33}, b : {0, 2}]

MCKey == {"a", "Up", "Enter", "Backspace", ".", "/", "Shift", " ", "#", "&", "=", "?"}

\* A page loaded without a query, or with one of up to two parameters, well formed or
\* not.
Value == {<<>>, <<"=">>, <<"=", "33">>, <<"=", "70000">>, <<"=", "1600000000000">>, <<"=", "a", "2">>,
          <<"=", "2", "a">>, <<"=", "=">>}
Param == {<<name>> \o value : name \in {"x", "b", "k", "t"}, value \in Value} \cup {<<>>}
MCQuery == Param \cup {p \o <<"&">> \o q : p, q \in Param}
MCPath == {<<>>} \cup {<<"?">> \o query : query \in MCQuery}

MCLogin ==
  [scheme   : {"none", "Basic", "Digest"},
   host     : {<<>>, <<"host">>, <<"host", ":", "1">>, <<"full">>, <<"full", "host">>, <<"long">>},
   port     : {<<>>, <<"5900">>, <<"a">>, <<"1600000000000">>, <<"2", "a">>, <<"5900", ":", "1">>},
   password : {<<>>, <<"secret">>, <<"se", ":", "cret">>, <<"full">>, <<"full", ":", "long">>, <<"long">>}]

MCToken ==
  Delimiters \cup DOMAIN MCNumber \cup MCHuge \cup MCKey
  \cup {"x", "y", "b", "k", "t", "Space", "2", "host", "secret", "se", "cret", "full", "long"}

\* One byte each, but for a text that just fits a buffer and one that just does not.
MCSize == [token \in MCToken |-> CASE token = "full" -> 1023 [] token = "long" -> 1024 [] OTHER -> 1]

=============================================================================
