------------------------------ MODULE RfbStream -------------------------------
(***************************************************************************)
(* The messages of a VNC server as the client reads them: a sequence of    *)
(* units, each of which has a value and says whether it is the first of a  *)
(* message.                                                                *)
(***************************************************************************)
EXTENDS Integers, Sequences, SequencesExt

Unit == [v : Nat, head : BOOLEAN]

Message(units) == [i \in 1..Len(units) |-> [v |-> units[i], head |-> i = 1]]

\* The raw pixels of a part of the screen, all of them with the same value.
Rectangle(size, tag) == <<size, 0>> \o [i \in 1..size |-> tag]

\* The screen, cut into rectangles of these sizes.
Update(split, tag) ==
  <<0, 0, Len(split)>> \o FlattenSeq([i \in 1..Len(split) |-> Rectangle(split[i], tag)])

\* A message of this type with so many colours or letters.
Listing(type, length) == <<type, 0, length>> \o [i \in 1..length |-> 6]

\* A bell, or a colour map or a cut text of one of these lengths.
News(colours, texts) ==
  {<<2>>} \cup {Listing(1, n) : n \in colours} \cup {Listing(3, n) : n \in texts}

\* The size of the screen, and a name of this length.
Hello(size, length) == <<size, length>> \o [i \in 1..length |-> 9]

\* The rectangles lie side by side and cover a screen of this width: each begins where
\* the one before it ends.
Covers(split, width) ==
  \E edge \in [0..Len(split) -> 0..width] :
    /\ edge[0] = 0 /\ edge[Len(split)] = width
    /\ \A i \in 1..Len(split) : edge[i] = edge[i - 1] + split[i]

=============================================================================
