--------------------------- MODULE MCMrhcHandler ----------------------------
(***************************************************************************)
(* Instances of MrhcHandler for TLC: three worker threads (two where a     *)
(* violation is looked for), so that a login, a logout and a capture can   *)
(* overlap, and three clients, so that one can be cached, one leaked and   *)
(* one new.                                                                *)
(***************************************************************************)
EXTENDS MrhcHandler

CONSTANTS t1, t2, t3, c1, c2, c3

MCThread == {t1, t2}
MCThreads == MCThread \cup {t3}
MCClient == {c1, c2, c3}

=============================================================================
