---------------------------- MODULE RecvRectangle ----------------------------
(***************************************************************************)
(* The pixel loop of vnc_client::recv_rectangle: the raw pixels of one     *)
(* rectangle are read from a stream that returns them in pieces of any     *)
(* length, and pushed to image_buf as 32-bit pixels.                       *)
(*                                                                         *)
(* Bytes are not given values.  Byte k of the rectangle is its offset k,   *)
(* and a pixel in image_buf is the range of offsets it was built from; a   *)
(* pixel built from fewer than four bytes has zeros in the place of the    *)
(* others.  The header of the rectangle, and what follows it on the        *)
(* stream, belong to VncClient.                                            *)
(***************************************************************************)
EXTENDS Integers, Sequences

CONSTANTS
  BUF_SIZE,        \* bytes of the local buffer
  Word,            \* 2^32: uint32_t arithmetic is modulo Word
  MaxPixels,       \* width * height is at most 65535 * 65535
  bits_per_pixel   \* of this->pixel_format: 32 once configure() ran, 0 before

ASSUME BufAssumption == BUF_SIZE \in Nat \ {0} /\ BUF_SIZE % 4 = 0

ASSUME WordAssumption == Word \in Nat \ {0} /\ Word % 32 = 0

ASSUME PixelAssumption == MaxPixels \in Nat /\ bits_per_pixel \in {0, 32}

VARIABLES
  pixels,      \* width * height of the rectangle
  total_recv,  \* bytes read so far
  image_buf,   \* the pixels pushed so far, as ranges [at, len] of offsets
  pc,          \* "loop", then "done" (returns true) or "failed" (false)
  peer,        \* the connection: "up", "closed" by the server, or "reset"
  starved,     \* history: a recv returned 0
  aligned      \* history: every piece so far was a whole number of pixels

vars == <<pixels, total_recv, image_buf, pc, peer, starved, aligned>>

bytes_per_pixel == bits_per_pixel \div 8

\* Lines 706-707; the width of the product is 32 bits.
total_pixel_bytes == ((pixels * bits_per_pixel) % Word) \div 8

\* The 32-bit product did not wrap: fewer than 2^27 pixels.
NoWrap == pixels * 32 < Word

Piece == [at : Nat, len : 1..4]

TypeOK ==
  /\ pixels \in 0..MaxPixels
  /\ total_recv \in Nat
  /\ image_buf \in Seq(Piece)
  /\ pc \in {"loop", "done", "failed"}
  /\ peer \in {"up", "closed", "reset"}
  /\ starved \in BOOLEAN
  /\ aligned \in BOOLEAN

Init ==
  /\ pixels \in 0..MaxPixels
  /\ total_recv = 0
  /\ image_buf = <<>>
  /\ pc = "loop"
  /\ peer = "up"
  /\ starved = FALSE
  /\ aligned = TRUE

-----------------------------------------------------------------------------

\* Mutant: the buffer is filled whatever is left of the rectangle.
AskForBuffer == BUF_SIZE

\* Lines 714-718: how much the next recv asks for.
Ask == IF total_pixel_bytes - total_recv < BUF_SIZE
       THEN total_pixel_bytes - total_recv
       ELSE BUF_SIZE

\* Mutant: a pixel that is not complete is dropped.
WholePixelsOnly(n) ==
  [i \in 1..(n \div 4) |-> [at |-> total_recv + 4 * (i - 1), len |-> 4]]

\* Mutant: i <= recv_length in line 724.
OneTooMany(n) ==
  [i \in 1..((n \div 4) + 1) |->
     [at |-> total_recv + 4 * (i - 1), len |-> IF n < 4 * i THEN n - 4 * (i - 1) ELSE 4]]

\* Mutant: without line 713 the end of the last pixel is filled with old bytes.
Uncleared(n) ==
  [i \in 1..((n + 3) \div 4) |-> [at |-> total_recv + 4 * (i - 1), len |-> 4]]

\* Mutant: 16 bits per pixel.
HalfPixels(n) ==
  [i \in 1..((n + 1) \div 2) |->
     [at |-> total_recv + 2 * (i - 1), len |-> IF n < 2 * i THEN 1 ELSE 2]]

\* Lines 724-729: the pixels a piece of n bytes is cut into.  bytes_per_pixel is
\* 4 whenever the loop is entered, and each pixel takes the four bytes from
\* buf[i]; those after the piece are zero (line 713).
Pixels(n) ==
  [i \in 1..((n + 3) \div 4) |->
     [at |-> total_recv + 4 * (i - 1), len |-> IF n < 4 * i THEN n - 4 * (i - 1) ELSE 4]]

\* Lines 713-729: recv returns between one byte and all it was asked for.
Recv(n) ==
  /\ pc = "loop"
  /\ total_recv < total_pixel_bytes
  /\ peer = "up"
  /\ total_recv' = total_recv + n
  /\ image_buf' = image_buf \o Pixels(n)
  /\ aligned' = (aligned /\ n % 4 = 0)
  /\ UNCHANGED <<pixels, pc, peer, starved>>

\* The server closed: recv returns 0, which is not an error, and the loop goes on.
RecvNothing ==
  /\ pc = "loop"
  /\ total_recv < total_pixel_bytes
  /\ peer = "closed"
  /\ starved' = TRUE
  /\ UNCHANGED <<pixels, total_recv, image_buf, pc, peer, aligned>>

\* Lines 719-721.
RecvError ==
  /\ pc = "loop"
  /\ total_recv < total_pixel_bytes
  /\ peer = "reset"
  /\ pc' = "failed"
  /\ UNCHANGED <<pixels, total_recv, image_buf, peer, starved, aligned>>

\* Mutant: the loop condition is <=.
FinishLate ==
  /\ pc = "loop"
  /\ total_recv > total_pixel_bytes
  /\ pc' = "done"
  /\ UNCHANGED <<pixels, total_recv, image_buf, peer, starved, aligned>>

\* Lines 712 and 734.
Finish ==
  /\ pc = "loop"
  /\ total_recv >= total_pixel_bytes
  /\ pc' = "done"
  /\ UNCHANGED <<pixels, total_recv, image_buf, peer, starved, aligned>>

\* The connection ends in the middle of the rectangle.
Disconnect ==
  /\ peer = "up"
  /\ peer' \in {"closed", "reset"}
  /\ UNCHANGED <<pixels, total_recv, image_buf, pc, starved, aligned>>

Step == (\E n \in 1..Ask : Recv(n)) \/ RecvNothing \/ RecvError \/ Finish

Next == Step \/ Disconnect

Spec == Init /\ [][Next]_vars

\* The thread runs, and the server sends the rectangle it announced or goes away.
FairSpec == Spec /\ WF_vars(Step)

-----------------------------------------------------------------------------

\* Not a byte behind the rectangle is taken from the stream: the next message
\* starts where the protocol says it does.
StaysInRectangle == total_recv <= total_pixel_bytes

\* Where piece i of image_buf ends.
End(i) == image_buf[i].at + image_buf[i].len

\* The pixels are built from the bytes read, each byte once and in order.
ExactCover ==
  IF image_buf = <<>>
  THEN total_recv = 0
  ELSE /\ image_buf[1].at = 0
       /\ End(Len(image_buf)) = total_recv
       /\ \A i \in 1..(Len(image_buf) - 1) : image_buf[i + 1].at = End(i)

\* A rectangle that was received has at least its number of pixels: draw_image
\* finds a pixel at every index it reads.
EnoughPixels ==
  pc = "done" /\ bits_per_pixel = 32 /\ NoWrap => Len(image_buf) >= pixels

\* When the stream is cut between pixels only, there is one entry per pixel.
WholeIfAligned == aligned => 4 * Len(image_buf) = total_recv

\* The loop ends unless the server closed in the middle of the rectangle.
LoopEnds == pc = "loop" ~> (pc # "loop" \/ starved)

\* The inductive invariant RecvRectangleProofs rests on.
RectangleInv ==
  /\ TypeOK
  /\ StaysInRectangle
  /\ ExactCover
  /\ WholeIfAligned
  /\ total_recv <= 4 * Len(image_buf)
  /\ pc = "done" => total_recv >= total_pixel_bytes

=============================================================================
