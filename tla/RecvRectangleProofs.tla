------------------------- MODULE RecvRectangleProofs -------------------------
(***************************************************************************)
(* What the pixel loop guarantees for rectangles of any size, a buffer of  *)
(* any size that holds whole pixels, and any fragmentation of the stream.  *)
(***************************************************************************)
EXTENDS RecvRectangle, TLAPS



LEMMA BytesNat == ASSUME pixels \in Nat PROVE total_pixel_bytes \in Nat
<1>1. pixels * bits_per_pixel \in Nat
  BY PixelAssumption
<1> DEFINE p == pixels * bits_per_pixel
<1>2. p % Word \in Nat
  BY <1>1, WordAssumption
<1> HIDE DEF p
<1>3. \A q \in Nat : q \div 8 \in Nat
  OBVIOUS
<1> QED
  BY <1>2, <1>3 DEF total_pixel_bytes, p

\* Without a wrap the loop expects four bytes per pixel.
LEMMA BytesExact ==
  ASSUME pixels \in Nat, bits_per_pixel = 32, NoWrap
  PROVE  total_pixel_bytes = 4 * pixels
<1>1. pixels * 32 \in 0..(Word - 1)
  BY WordAssumption DEF NoWrap
<1>2. \A q \in 0..(Word - 1) : q % Word = q
  BY WordAssumption
<1>3. (pixels * 32) \div 8 = 4 * pixels
  OBVIOUS
<1> QED
  BY <1>1, <1>2, <1>3 DEF total_pixel_bytes

\* A piece of n bytes is cut into ranges that cover it.
LEMMA PixelsShape ==
  ASSUME NEW n \in Nat \ {0}, total_recv \in Nat
  PROVE  /\ Pixels(n) \in Seq(Piece)
         /\ Len(Pixels(n)) = (n + 3) \div 4
         /\ Len(Pixels(n)) \in Nat \ {0}
         /\ Pixels(n)[1].at = total_recv
         /\ Pixels(n)[Len(Pixels(n))].at + Pixels(n)[Len(Pixels(n))].len = total_recv + n
         /\ \A i \in 1..(Len(Pixels(n)) - 1) :
              Pixels(n)[i + 1].at = Pixels(n)[i].at + Pixels(n)[i].len
<1> DEFINE k == (n + 3) \div 4
           P(i) == [at |-> total_recv + 4 * (i - 1),
                    len |-> IF n < 4 * i THEN n - 4 * (i - 1) ELSE 4]
<1>1. k \in Nat \ {0} /\ 4 * k >= n /\ 4 * (k - 1) < n
  OBVIOUS
<1>2. Pixels(n) = [i \in 1..k |-> P(i)]
  BY DEF Pixels
<1> HIDE DEF k
<1>3. \A i \in 1..k : P(i) \in Piece
  <2> TAKE i \in 1..k
  <2>1. 4 * (i - 1) <= 4 * (k - 1) /\ i >= 1
    BY <1>1
  <2>2. total_recv + 4 * (i - 1) \in Nat
    BY <1>1, <2>1
  <2>3. (IF n < 4 * i THEN n - 4 * (i - 1) ELSE 4) \in 1..4
    BY <1>1, <2>1
  <2> QED
    BY <2>2, <2>3 DEF Piece
<1>4. Pixels(n) \in [1..k -> Piece]
  BY <1>2, <1>3
<1>5. Pixels(n) \in Seq(Piece) /\ Len(Pixels(n)) = k
  BY <1>1, <1>4
<1>6. \A i \in 1..k : Pixels(n)[i] = P(i)
  BY <1>2
<1>7. Pixels(n)[1].at = total_recv /\ Pixels(n)[k].at + Pixels(n)[k].len = total_recv + n
  <2>1. Pixels(n)[1] = P(1) /\ Pixels(n)[k] = P(k)
    BY <1>1, <1>6
  <2>2. P(1).at = total_recv /\ P(k).at + P(k).len = total_recv + n
    BY <1>1
  <2> QED
    BY <2>1, <2>2
<1>8. \A i \in 1..(k - 1) : Pixels(n)[i + 1].at = Pixels(n)[i].at + Pixels(n)[i].len
  <2> TAKE i \in 1..(k - 1)
  <2>1. 4 * i <= 4 * (k - 1) /\ ~(n < 4 * i) /\ i \in 1..k /\ i + 1 \in 1..k
    BY <1>1
  <2>2. Pixels(n)[i] = P(i) /\ Pixels(n)[i + 1] = P(i + 1)
    BY <1>6, <2>1
  <2>3. P(i + 1).at = P(i).at + P(i).len
    BY <2>1
  <2> QED
    BY <2>2, <2>3
<1>9. k = (n + 3) \div 4
  BY DEF k
<1> HIDE DEF P
<1> QED
  BY <1>1, <1>5, <1>7, <1>8, <1>9

LEMMA AppendPieces ==
  ASSUME NEW s \in Seq(Piece), NEW q \in Seq(Piece)
  PROVE  /\ s \o q \in Seq(Piece)
         /\ Len(s \o q) = Len(s) + Len(q)
         /\ \A i \in 1..Len(s) : (s \o q)[i] = s[i]
         /\ \A i \in (Len(s) + 1)..(Len(s) + Len(q)) : (s \o q)[i] = q[i - Len(s)]
  OBVIOUS

LEMMA InitRectangle == Init => RectangleInv
<1> SUFFICES ASSUME Init PROVE RectangleInv
  OBVIOUS
<1>1. image_buf \in Seq(Piece) /\ Len(image_buf) = 0
  BY DEF Init
<1>2. TypeOK
  BY <1>1 DEF Init, TypeOK
<1>3. total_pixel_bytes \in Nat
  BY BytesNat, PixelAssumption DEF Init
<1> QED
  BY <1>1, <1>2, <1>3 DEF Init, RectangleInv, StaysInRectangle, ExactCover, WholeIfAligned

LEMMA RectangleStep == RectangleInv /\ [Next]_vars => RectangleInv'
<1> SUFFICES ASSUME RectangleInv, [Next]_vars PROVE RectangleInv'
  OBVIOUS
<1>1. TypeOK /\ pixels \in Nat /\ total_recv \in Nat
  BY PixelAssumption DEF RectangleInv, TypeOK
<1> DEFINE m == Len(image_buf)
<1>2. total_pixel_bytes \in Nat
  BY <1>1, BytesNat
<1>3. image_buf \in Seq(Piece)
  BY <1>1 DEF TypeOK
<1>4. m \in Nat
  BY <1>3
<1>5. ASSUME NEW n \in 1..Ask, Recv(n) PROVE RectangleInv'
  <2> DEFINE Q == Pixels(n)
             k == Len(Pixels(n))
  <2>1. n \in Nat \ {0} /\ total_recv + n <= total_pixel_bytes
    BY <1>1, <1>2, <1>5, BufAssumption DEF Ask, Recv
  <2>2. /\ Q \in Seq(Piece)
        /\ k = (n + 3) \div 4
        /\ k \in Nat \ {0}
        /\ Q[1].at = total_recv
        /\ Q[k].at + Q[k].len = total_recv + n
        /\ \A i \in 1..(k - 1) : Q[i + 1].at = Q[i].at + Q[i].len
    BY <1>1, <2>1, PixelsShape
  <2>3. image_buf' = image_buf \o Q /\ total_recv' = total_recv + n
    BY <1>5 DEF Recv
  <2>4. n <= 4 * k /\ (n % 4 = 0 => 4 * k = n)
    BY <2>1, <2>2
  <2>5. image_buf' \in Seq(Piece) /\ Len(image_buf') = m + k
    BY <1>3, <2>2, <2>3, AppendPieces
  <2>6. \A i \in 1..m : image_buf'[i] = image_buf[i]
    BY <1>3, <2>2, <2>3, AppendPieces
  <2>7. \A i \in (m + 1)..(m + k) : image_buf'[i] = Q[i - m]
    BY <1>3, <2>2, <2>3, AppendPieces
  <2> HIDE DEF Q, k
  <2> HIDE DEF m
  <2>8. TypeOK'
    BY <1>1, <1>5, <2>1, <2>3, <2>5 DEF TypeOK, Recv
  <2>9. StaysInRectangle'
    BY <1>5, <2>1, <2>3 DEF Recv, StaysInRectangle, total_pixel_bytes
  <2>10. ExactCover'
    <3>1. image_buf' # <<>> /\ Len(image_buf') = m + k
      BY <1>4, <2>2, <2>5
    <3>2. m > 0 => /\ image_buf[1].at = 0
                   /\ image_buf[m].at + image_buf[m].len = total_recv
                   /\ \A i \in 1..(m - 1) : image_buf[i + 1].at = image_buf[i].at + image_buf[i].len
      BY <1>3 DEF RectangleInv, ExactCover, End, m
    <3>3. m = 0 => total_recv = 0
      BY <1>3 DEF RectangleInv, ExactCover, m
    <3>4. image_buf'[1].at = 0
      <4>1. CASE m = 0
        <5>1. 1 \in (m + 1)..(m + k) /\ 1 - m = 1
          BY <2>2, <4>1
        <5> QED
          BY <2>2, <2>7, <3>3, <4>1, <5>1
      <4>2. CASE m > 0
        BY <1>4, <2>6, <3>2, <4>2
      <4> QED
        BY <1>4, <4>1, <4>2
    <3>5. image_buf'[m + k].at + image_buf'[m + k].len = total_recv'
      <4>1. m + k \in (m + 1)..(m + k) /\ (m + k) - m = k
        BY <1>4, <2>2
      <4> QED
        BY <2>2, <2>3, <2>7, <4>1
    <3>6. ASSUME NEW i \in 1..(m + k - 1)
          PROVE  image_buf'[i + 1].at = image_buf'[i].at + image_buf'[i].len
      <4>1. CASE i < m
        <5>1. i \in 1..(m - 1) /\ image_buf'[i] = image_buf[i] /\ image_buf'[i + 1] = image_buf[i + 1]
          BY <1>4, <2>2, <2>6, <4>1
        <5> QED
          BY <1>4, <3>2, <5>1
      <4>2. CASE i = m
        <5>1. image_buf'[m] = image_buf[m] /\ image_buf'[m + 1] = Q[1]
          <6>1. m \in 1..m /\ m + 1 \in (m + 1)..(m + k) /\ (m + 1) - m = 1
            BY <1>4, <2>2, <4>2
          <6> QED
            BY <2>6, <2>7, <6>1
        <5> QED
          BY <1>4, <2>2, <3>2, <4>2, <5>1
      <4>3. CASE i > m
        <5> DEFINE j == i - m
        <5>1. /\ i \in (m + 1)..(m + k) /\ i + 1 \in (m + 1)..(m + k)
              /\ (i + 1) - m = j + 1 /\ j \in 1..(k - 1)
          BY <1>4, <2>2, <4>3
        <5>2. image_buf'[i] = Q[j] /\ image_buf'[i + 1] = Q[j + 1]
          BY <2>7, <5>1
        <5> QED
          BY <2>2, <5>1, <5>2
      <4> QED
        BY <1>4, <2>2, <4>1, <4>2, <4>3
    <3> QED
      BY <1>4, <2>2, <3>1, <3>4, <3>5, <3>6 DEF ExactCover, End
  <2>11. WholeIfAligned'
    <3>1. aligned' => aligned /\ n % 4 = 0
      BY <1>5 DEF Recv
    <3>2. aligned => 4 * m = total_recv
      BY DEF RectangleInv, WholeIfAligned, m
    <3>3. aligned' => 4 * (m + k) = total_recv + n
      BY <1>1, <1>4, <2>1, <2>2, <2>4, <3>1, <3>2
    <3> QED
      BY <2>3, <2>5, <3>3 DEF WholeIfAligned
  <2>12. total_recv' <= 4 * Len(image_buf')
    <3>1. total_recv <= 4 * m
      BY DEF RectangleInv, m
    <3>2. total_recv + n <= 4 * (m + k)
      BY <1>1, <1>4, <2>1, <2>2, <2>4, <3>1
    <3> QED
      BY <2>3, <2>5, <3>2
  <2>13. pc' # "done"
    BY <1>5 DEF Recv
  <2> QED
    BY <2>8, <2>9, <2>10, <2>11, <2>12, <2>13 DEF RectangleInv
<1>6. ASSUME UNCHANGED <<pixels, total_recv, image_buf, aligned>>,
             pc' \in {"loop", "done", "failed"}, peer' \in {"up", "closed", "reset"},
             starved' \in BOOLEAN,
             pc' = "done" => total_recv >= total_pixel_bytes
      PROVE  RectangleInv'
  <2>1. TypeOK'
    BY <1>1, <1>6 DEF TypeOK
  <2>2. StaysInRectangle' /\ (pc' = "done" => total_recv' >= total_pixel_bytes')
    BY <1>6 DEF RectangleInv, StaysInRectangle, total_pixel_bytes
  <2>3. ExactCover' /\ total_recv' <= 4 * Len(image_buf')
    BY <1>6 DEF RectangleInv, ExactCover, End
  <2>4. WholeIfAligned'
    BY <1>6 DEF RectangleInv, WholeIfAligned
  <2> QED
    BY <2>1, <2>2, <2>3, <2>4 DEF RectangleInv
<1>7. pc \in {"loop", "done", "failed"} /\ peer \in {"up", "closed", "reset"} /\ starved \in BOOLEAN
  BY <1>1 DEF TypeOK
<1>8. pc = "done" => total_recv >= total_pixel_bytes
  BY DEF RectangleInv
<1>9. CASE RecvNothing
  BY <1>6, <1>7, <1>9 DEF RecvNothing
<1>10. CASE RecvError
  BY <1>6, <1>7, <1>10 DEF RecvError
<1>11. CASE Finish
  BY <1>6, <1>7, <1>11 DEF Finish
<1>12. CASE Disconnect
  BY <1>6, <1>7, <1>8, <1>12 DEF Disconnect
<1>13. CASE UNCHANGED vars
  BY <1>6, <1>7, <1>8, <1>13 DEF vars
<1> QED
  BY <1>5, <1>9, <1>10, <1>11, <1>12, <1>13 DEF Next, Step

\* For every rectangle, buffer and fragmentation: the loop stays inside the
\* rectangle, uses each byte once and in order, and leaves at least one entry per
\* pixel when the 32-bit product did not wrap.
THEOREM RectangleSafe ==
  Spec => [](TypeOK /\ StaysInRectangle /\ ExactCover /\ WholeIfAligned /\ EnoughPixels)
<1>1. RectangleInv => EnoughPixels
  <2> SUFFICES ASSUME RectangleInv, pc = "done", bits_per_pixel = 32, NoWrap
               PROVE  Len(image_buf) >= pixels
    BY DEF EnoughPixels
  <2>1. pixels \in Nat /\ total_recv \in Nat /\ image_buf \in Seq(Piece)
    BY PixelAssumption DEF RectangleInv, TypeOK
  <2>2. total_pixel_bytes = 4 * pixels
    BY <2>1, BytesExact
  <2>3. total_recv >= total_pixel_bytes /\ total_recv <= 4 * Len(image_buf)
    BY DEF RectangleInv
  <2>4. Len(image_buf) \in Nat
    BY <2>1
  <2> QED
    BY <2>1, <2>2, <2>3, <2>4
<1>2. RectangleInv => TypeOK /\ StaysInRectangle /\ ExactCover /\ WholeIfAligned
  BY DEF RectangleInv
<1> QED
  BY InitRectangle, RectangleStep, <1>1, <1>2, PTL DEF Spec

\* The counters and the buffer keep their shape for every piece recv may return.
COROLLARY RectangleTyped == Spec => []TypeOK
  BY RectangleSafe, PTL

\* No byte behind the rectangle, which belongs to the next message, is received.
COROLLARY NeverReadsOn == Spec => []StaysInRectangle
  BY RectangleSafe, PTL

\* draw_image finds as many entries as it reads, wherever the stream was cut, as long
\* as the byte count did not wrap at 32 bits.
COROLLARY DrawsWhatIsThere == Spec => []EnoughPixels
  BY RectangleSafe, PTL

\* A stream cut between pixels only is drawn as it was sent.
COROLLARY AlignedIsWhole == Spec => []WholeIfAligned
  BY RectangleSafe, PTL

=============================================================================
