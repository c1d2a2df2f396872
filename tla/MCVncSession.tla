---------------------------- MODULE MCVncSession -----------------------------
(***************************************************************************)
(* Instances of VncSession for TLC: a screen of two pixels, sent as one    *)
(* rectangle or as two.                                                    *)
(***************************************************************************)
EXTENDS VncSession

MCSplits == {<<2>>, <<1, 1>>}

=============================================================================
