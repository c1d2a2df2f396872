---------------------------- MODULE MCSharedClient ----------------------------
\* A screen of two pixels, sent as one rectangle or as two.
EXTENDS SharedClient

MCSplits == {<<2>>, <<1, 1>>}

=============================================================================
