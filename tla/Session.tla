------------------------------- MODULE Session -------------------------------
(***************************************************************************)
(* What the handler of mod_mrhc.cpp promises its user: there is at most    *)
(* one session with a remote host, the global client_cache names it, and   *)
(* a session that is not named is closed.                                  *)
(***************************************************************************)

CONSTANTS Client, NULL

VARIABLES
  open,      \* the sessions that hold a connection
  current    \* the one the next request is served from, or NULL

vars == <<open, current>>

Init == open = {} /\ current = NULL

\* A request with credentials, when there is no session.
Open(c) ==
  /\ current = NULL
  /\ open' = open \cup {c}
  /\ current' = c

\* A logout, or a form that cannot be parsed.
Close ==
  /\ current # NULL
  /\ open' = open \ {current}
  /\ current' = NULL

Next == (\E c \in Client : Open(c)) \/ Close

Spec == Init /\ [][Next]_vars

\* A session is held open exactly while it is the current one.
OneSession == open = IF current = NULL THEN {} ELSE {current}

=============================================================================
