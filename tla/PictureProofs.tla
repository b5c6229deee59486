---------------------------- MODULE PictureProofs ----------------------------
(***************************************************************************)
(* Every pixel of a picture arrives in its place in the file, in the       *)
(* colour the screen has, and no row of it stays in the compressor, for    *)
(* pictures of any size.                                                   *)
(***************************************************************************)
EXTENDS Grab, TLAPS

(* Rows of K bytes, one behind the other.                                  *)
LEMMA RowsApart ==
  ASSUME NEW K \in Nat, NEW a \in Nat, NEW b \in Nat, a < b
  PROVE  a * K + K <= b * K /\ a * K \in Nat /\ b * K \in Nat
<1> DEFINE d == b - a - 1
<1>1. d \in Nat /\ b = a + 1 + d
  OBVIOUS
<1> HIDE DEF d
<1>2. b * K = a * K + K + d * K
  BY <1>1
<1>3. d * K \in Nat /\ a * K \in Nat
  BY <1>1
<1>4. QED
  BY <1>2, <1>3

SizeInv ==
  /\ w \in Nat \ {0} /\ h \in Nat \ {0}
  /\ format \in {"jpg", "bmp"}
  /\ row \in 0 .. h /\ line \in 0 .. h
  /\ line > 0 => row = h

LEMMA StrideType ==
  ASSUME SizeInv
  PROVE  Stride \in Nat /\ Stride > 0
BY DEF SizeInv, Stride

(* The row of img.data that holds row y of the screen.                     *)
Place(y) == IF OriginBottom THEN h - 1 - y ELSE y

LEMMA FirstByteIs ==
  ASSUME SizeInv, NEW y \in 0 .. h - 1
  PROVE  FirstByte(y) = Place(y) * Stride /\ Place(y) \in 0 .. h - 1
<1>1. y \in Nat /\ h \in Nat /\ Stride \in Nat
  BY StrideType DEF SizeInv
<1>2. Stride * (h - 1) - y * Stride = (h - 1 - y) * Stride
  BY <1>1
<1>3. QED
  BY <1>1, <1>2 DEF FirstByte, Place, SizeInv

(* Each row has its own bytes, within those of the picture.                *)
LEMMA RowInBuffer ==
  ASSUME SizeInv, NEW y \in 0 .. h - 1
  PROVE  /\ FirstByte(y) \in Nat
         /\ FirstByte(y) + Stride <= Stride * h
<1>1. FirstByte(y) = Place(y) * Stride /\ Place(y) \in 0 .. h - 1
  BY FirstByteIs
<1>2. Place(y) \in Nat /\ h \in Nat /\ Place(y) < h /\ Stride \in Nat
  BY <1>1, StrideType DEF SizeInv
<1>3. /\ Place(y) * Stride + Stride <= h * Stride
      /\ Place(y) * Stride \in Nat
  BY <1>2, RowsApart
<1>4. h * Stride = Stride * h
  BY <1>2
<1>5. QED
  BY <1>1, <1>3, <1>4

LEMMA RowsDisjoint ==
  ASSUME SizeInv, NEW y \in 0 .. h - 1, NEW z \in 0 .. h - 1, y # z,
         NEW i \in 0 .. Stride - 1
  PROVE  FirstByte(y) + i \notin RowBytes(z)
<1>1. /\ FirstByte(y) = Place(y) * Stride /\ Place(y) \in Nat
      /\ FirstByte(z) = Place(z) * Stride /\ Place(z) \in Nat
      /\ Stride \in Nat
  BY FirstByteIs, StrideType
<1>2. Place(y) # Place(z)
  BY DEF Place, SizeInv
<1>3. CASE Place(y) < Place(z)
  <2>1. FirstByte(y) + Stride <= FirstByte(z)
    BY <1>1, <1>3, RowsApart
  <2>2. QED
    BY <1>1, <2>1 DEF RowBytes
<1>4. CASE Place(z) < Place(y)
  <2>1. FirstByte(z) + Stride <= FirstByte(y)
    BY <1>1, <1>4, RowsApart
  <2>2. QED
    BY <1>1, <2>1 DEF RowBytes
<1>5. QED
  BY <1>1, <1>2, <1>3, <1>4

-----------------------------------------------------------------------------
(* The invariant *)

DataInv ==
  \A y \in 0 .. row - 1, i \in 0 .. Stride - 1 :
    data[FirstByte(y) + i] = <<i \div 3, y, i % 3>>

OutInv ==
  \A n \in 0 .. line - 1, i \in 0 .. LineLength - 1 :
    out[LineLength * n + i] = LineByte(n, i)

LEMMA LengthType ==
  ASSUME SizeInv
  PROVE  LineLength \in Nat /\ Stride <= LineLength
<1>1. Stride \in Nat
  BY StrideType
<1>2. BmpLine \in Nat /\ Stride <= BmpLine
  BY <1>1 DEF BmpLine
<1>3. QED
  BY <1>1, <1>2 DEF LineLength

LEMMA PictureStart ==
  ASSUME Init
  PROVE  SizeInv /\ DataInv /\ OutInv
<1>1. SizeInv
  BY PictureConstants DEF Init, SizeInv
<1>2. row = 0 /\ line = 0
  BY DEF Init
<1>3. QED
  BY <1>1, <1>2 DEF DataInv, OutInv

LEMMA SizeStep ==
  ASSUME SizeInv, [Next]_vars
  PROVE  SizeInv' /\ w' = w /\ h' = h /\ format' = format
BY DEF Next, ConvertRow, WriteLine, WriteScanline, AppendLine, vars, SizeInv

LEMMA DataStep ==
  ASSUME SizeInv, DataInv, [Next]_vars
  PROVE  DataInv'
<1> USE SizeStep
<1>1. Stride' = Stride /\ \A y : FirstByte(y)' = FirstByte(y)
  BY DEF Stride, FirstByte, OriginBottom
<1>2. CASE ConvertRow
  <2>1. row \in 0 .. h - 1 /\ row' = row + 1
    BY <1>2 DEF ConvertRow, SizeInv
  <2>2. SUFFICES ASSUME NEW y \in 0 .. row, NEW i \in 0 .. Stride - 1
                 PROVE  data'[FirstByte(y) + i] = <<i \div 3, y, i % 3>>
    BY <1>1, <2>1 DEF DataInv
  <2>3. y \in 0 .. h - 1 /\ Stride \in Nat /\ h \in Nat
    BY <2>1, StrideType DEF SizeInv
  <2>4. FirstByte(y) \in Nat /\ FirstByte(y) + Stride <= Stride * h
    BY <2>3, RowInBuffer
  <2>5. Stride * h \in Nat
    BY <2>3
  <2>6. FirstByte(y) + i \in Bytes
    BY <2>3, <2>4, <2>5 DEF Bytes
  <2>7. \A p \in Bytes :
          /\ p \in RowBytes(row) =>
               data'[p] =
                 <<(p - FirstByte(row)) \div 3, row, (p - FirstByte(row)) % 3>>
          /\ p \notin RowBytes(row) => data'[p] = data[p]
    BY <1>2, Zenon DEF ConvertRow
  <2>8. CASE y = row
    <3>1. \A p : p = FirstByte(y) + i => data'[p] = <<i \div 3, row, i % 3>>
      <4>1. SUFFICES ASSUME NEW p, p = FirstByte(y) + i
                     PROVE  data'[p] = <<i \div 3, row, i % 3>>
        OBVIOUS
      <4>2. p \in Bytes /\ p \in RowBytes(row) /\ p - FirstByte(row) = i
        BY <2>3, <2>4, <2>5, <2>8, <4>1 DEF RowBytes, Bytes
      <4>3. data'[p] =
              <<(p - FirstByte(row)) \div 3, row, (p - FirstByte(row)) % 3>>
        BY <2>7, <4>2
      <4>4. QED
        BY <4>2, <4>3
    <3>2. QED
      BY <2>8, <3>1
  <2>9. CASE y # row
    <3>1. FirstByte(y) + i \notin RowBytes(row)
      BY <2>1, <2>3, <2>9, RowsDisjoint
    <3>2. y \in 0 .. row - 1
      BY <2>1, <2>9
    <3>3. data'[FirstByte(y) + i] = data[FirstByte(y) + i]
      BY <2>6, <2>7, <3>1, Zenon
    <3>4. QED
      BY <3>2, <3>3 DEF DataInv
  <2>10. QED
    BY <2>8, <2>9
<1>3. CASE WriteLine \/ WriteScanline \/ UNCHANGED vars
  <2>1. data' = data /\ row' = row
    BY <1>3 DEF WriteLine, WriteScanline, AppendLine, vars
  <2>2. QED
    BY <1>1, <2>1 DEF DataInv
<1>4. QED
  BY <1>2, <1>3 DEF Next

LEMMA OutStep ==
  ASSUME SizeInv, OutInv, [Next]_vars
  PROVE  OutInv'
<1> USE SizeStep
<1>1. Stride' = Stride /\ LineLength' = LineLength
  BY DEF Stride, LineLength, BmpLine
<1>2. CASE WriteLine \/ WriteScanline
  <2>1. AppendLine
    BY <1>2 DEF WriteLine, WriteScanline
  <2>2. \A n, i : LineByte(n, i)' = LineByte(n, i)
    BY <1>1, <2>1 DEF AppendLine, LineByte
  <2>3. line \in Nat /\ line' = line + 1 /\ LineLength \in Nat
    BY <2>1, LengthType DEF AppendLine, SizeInv
  <2>4. SUFFICES ASSUME NEW n \in 0 .. line, NEW i \in 0 .. LineLength - 1
                 PROVE  out'[LineLength * n + i] = LineByte(n, i)
    BY <1>1, <2>2, <2>3 DEF OutInv
  <2>5. /\ LineLength * n \in Nat /\ LineLength * line \in Nat
        /\ LineLength * (line + 1) = LineLength * line + LineLength
    BY <2>3
  <2>6. \A p \in 0 .. LineLength * (line + 1) - 1 :
          /\ p < LineLength * line => out'[p] = out[p]
          /\ ~ (p < LineLength * line) =>
               out'[p] = LineByte(line, p - LineLength * line)
    BY <2>1, Zenon DEF AppendLine
  <2>7. CASE n = line
    <3>1. \A p : p = LineLength * n + i => out'[p] = LineByte(line, i)
      <4>1. SUFFICES ASSUME NEW p, p = LineLength * n + i
                     PROVE  out'[p] = LineByte(line, i)
        OBVIOUS
      <4>2. /\ p \in 0 .. LineLength * (line + 1) - 1
            /\ ~ (p < LineLength * line)
            /\ p - LineLength * line = i
        BY <2>3, <2>5, <2>7, <4>1
      <4>3. out'[p] = LineByte(line, p - LineLength * line)
        BY <2>6, <4>2
      <4>4. QED
        BY <4>2, <4>3
    <3>2. QED
      BY <2>7, <3>1
  <2>8. CASE n < line
    <3>1. n * LineLength + LineLength <= line * LineLength
      BY <2>3, <2>8, RowsApart
    <3>2. n * LineLength = LineLength * n /\ line * LineLength = LineLength * line
      BY <2>3
    <3>3. /\ LineLength * n + i \in 0 .. LineLength * (line + 1) - 1
          /\ LineLength * n + i < LineLength * line
      BY <2>3, <2>5, <3>1, <3>2
    <3>4. out'[LineLength * n + i] = out[LineLength * n + i]
      BY <2>6, <3>3, Zenon
    <3>5. QED
      BY <2>3, <2>8, <3>4 DEF OutInv
  <2>9. QED
    BY <2>3, <2>7, <2>8
<1>3. CASE ConvertRow
  <2>1. line = 0 /\ line' = line
    BY <1>3 DEF ConvertRow, SizeInv
  <2>2. QED
    BY <2>1 DEF OutInv
<1>4. CASE UNCHANGED vars
  <2>1. \A n, i : LineByte(n, i)' = LineByte(n, i)
    BY <1>1, <1>4 DEF vars, LineByte
  <2>2. QED
    BY <1>1, <1>4, <2>1 DEF vars, OutInv
<1>5. QED
  BY <1>2, <1>3, <1>4 DEF Next

LEMMA PictureAlways == Spec => [](SizeInv /\ DataInv /\ OutInv)
<1>1. SizeInv /\ DataInv /\ OutInv /\ [Next]_vars
        => (SizeInv /\ DataInv /\ OutInv)'
  BY SizeStep, DataStep, OutStep
<1>2. QED
  BY <1>1, PictureStart, PTL DEF Spec

-----------------------------------------------------------------------------
(* The theorems *)

(* convert_to_colorbuf stays in the three bytes a pixel has, whichever way *)
(* main has it put the rows, for pictures of any size.                     *)
THEOREM InBufferCorrect == Spec => []InBuffer
<1>1. ASSUME SizeInv, row < h
      PROVE  RowBytes(row) \subseteq Bytes
  <2>1. row \in 0 .. h - 1 /\ Stride \in Nat /\ h \in Nat
    BY <1>1, StrideType DEF SizeInv
  <2>2. FirstByte(row) \in Nat /\ FirstByte(row) + Stride <= Stride * h
    BY <1>1, <2>1, RowInBuffer
  <2>3. Stride * h \in Nat
    BY <2>1
  <2>4. QED
    BY <2>1, <2>2, <2>3 DEF RowBytes, Bytes
<1>2. SizeInv => InBuffer
  BY <1>1 DEF InBuffer
<1>3. QED
  BY <1>2, PictureAlways, PTL

(* The length of a line by the definition of the format.                   *)
LEMMA BmpLineIs ==
  ASSUME SizeInv
  PROVE  ((24 * w + 31) \div 32) * 4 = BmpLine
BY DEF SizeInv, BmpLine, Stride

LEMMA PixelShown ==
  ASSUME SizeInv, DataInv, OutInv, line = h,
         NEW x \in 0 .. w - 1, NEW y \in 0 .. h - 1, NEW c \in 0 .. 2
  PROVE  Read(x, y, c) = <<x, y, c>>
<1>1. /\ row = h /\ h \in Nat /\ w \in Nat /\ x \in Nat
      /\ Stride = 3 * w /\ Stride \in Nat
      /\ LineLength \in Nat /\ Stride <= LineLength
  BY LengthType, StrideType DEF SizeInv, Stride
<1>2. /\ 3 * x + c \in 0 .. Stride - 1
      /\ (3 * x + c) \div 3 = x /\ (3 * x + c) % 3 = c
  BY <1>1
<1>3. data[FirstByte(y) + (3 * x + c)] = <<x, y, c>>
  BY <1>1, <1>2 DEF DataInv
<1>4. FirstByte(y) = Place(y) * Stride /\ Place(y) \in 0 .. h - 1
  BY FirstByteIs
<1>5. Place(y) * Stride \in Nat
  BY <1>1, <1>4
<1>6. CASE format = "bmp"
  <2> DEFINE n == h - 1 - y
             i == 3 * x + (2 - c)
  <2>1. n = Place(y) /\ n \in 0 .. h - 1
    BY <1>1, <1>6 DEF Place, OriginBottom
  <2>2. i \in 0 .. LineLength - 1 /\ i < Stride /\ i \div 3 = x /\ i % 3 = 2 - c
    BY <1>1
  <2>3. out[LineLength * n + i] = LineByte(n, i)
    BY <1>1, <2>1, <2>2 DEF OutInv
  <2>4. LineByte(n, i) = data[n * Stride + 3 * x + 2 - (2 - c)]
    BY <1>6, <2>2 DEF LineByte
  <2>5. n * Stride + 3 * x + 2 - (2 - c) = FirstByte(y) + (3 * x + c)
    <3>1. n * Stride = FirstByte(y) /\ FirstByte(y) \in Nat
      BY <1>4, <1>5, <2>1, Zenon
    <3>2. QED
      BY <1>1, <3>1
  <2>6. LineLength = ((24 * w + 31) \div 32) * 4
    BY <1>6, BmpLineIs DEF LineLength
  <2>7. Read(x, y, c) = out[n * LineLength + 3 * x + 2 - c]
    BY <1>6, <2>6 DEF Read
  <2>8. n * LineLength + 3 * x + 2 - c = LineLength * n + i
    <3>1. n * LineLength = LineLength * n /\ LineLength * n \in Nat
      BY <1>1, <2>1
    <3>2. QED
      BY <1>1, <3>1
  <2>9. QED
    BY <1>3, <2>3, <2>4, <2>5, <2>7, <2>8
<1>7. CASE format = "jpg"
  <2>1. Place(y) = y /\ LineLength = Stride
    BY <1>7 DEF Place, OriginBottom, LineLength
  <2>2. out[LineLength * y + (3 * x + c)] = LineByte(y, 3 * x + c)
    BY <1>1, <1>2, <2>1 DEF OutInv
  <2>3. LineByte(y, 3 * x + c) = data[y * Stride + (3 * x + c)]
    BY <1>7 DEF LineByte
  <2>4. /\ LineLength * y = y * Stride /\ y * Stride = FirstByte(y)
        /\ y * Stride \in Nat
    BY <1>1, <1>4, <1>5, <2>1
  <2>5. Read(x, y, c) = out[y * Stride + 3 * x + c]
    BY <1>7 DEF Read
  <2>6. y * Stride + 3 * x + c = LineLength * y + (3 * x + c)
    BY <1>1, <2>4
  <2>7. QED
    BY <1>3, <2>2, <2>3, <2>4, <2>5, <2>6
<1>8. QED
  BY <1>6, <1>7 DEF SizeInv

(* However grabber, main and output turn the rows around and pad the       *)
(* lines, the file shows the screen, for pictures of any size.             *)
THEOREM FileShowsScreenCorrect == Spec => []FileShowsScreen
<1>1. SizeInv /\ DataInv /\ OutInv => FileShowsScreen
  BY PixelShown DEF FileShowsScreen
<1>2. QED
  BY <1>1, PictureAlways, PTL

-----------------------------------------------------------------------------
(* The same with the colours and with the compressor *)

LEMMA GrabPicture == GrabSpec => Spec
<1>1. GrabInit => Init
  BY DEF GrabInit
<1>2. [GrabNext]_grabVars => [Next]_vars
  BY DEF GrabNext, GetColors, Rows, JpegNext, jpeg_write_scanlines, Next,
         grabVars, vars
<1>3. QED
  BY <1>1, <1>2, PTL DEF GrabSpec, Spec

(* Neither the table of colours nor the compressor disturbs the rows.      *)
THEOREM GrabShowsScreen == GrabSpec => []FileShowsScreen
BY GrabPicture, FileShowsScreenCorrect, PTL

(* Nor does either of them take the conversion out of the buffer.          *)
THEOREM GrabInBuffer == GrabSpec => []InBuffer
BY GrabPicture, InBufferCorrect, PTL

-----------------------------------------------------------------------------
(* The compressor is empty at the end *)

(* A number of rows that needs one row of MCUs after c full ones.          *)
LEMMA RoundedUp ==
  ASSUME NEW M \in Nat, NEW c \in Nat, NEW r \in 1 .. M
  PROVE  jdiv_round_up(M * c + r, M) = c + 1
<1> DEFINE n == M * c + r + M - 1
           q == n \div M
<1>1. M \in Nat \ {0} /\ M * c \in Nat /\ n \in Nat /\ c * M = M * c
  OBVIOUS
<1>2. q \in Nat /\ q * M <= n /\ n < q * M + M
  BY <1>1, SMTT(30)
<1> HIDE DEF q
<1>3. ~(q < c + 1)
  <2> SUFFICES ASSUME q < c + 1 PROVE FALSE
    OBVIOUS
  <2>1. q = c \/ q < c
    BY <1>2
  <2>2. q < c => q * M + M <= c * M
    BY <1>1, <1>2, RowsApart
  <2>3. QED
    BY <1>1, <1>2, <2>1, <2>2
<1>4. ~(c + 1 < q)
  <2> SUFFICES ASSUME c + 1 < q PROVE FALSE
    OBVIOUS
  <2>1. (c + 1) * M + M <= q * M /\ (c + 1) * M = c * M + M
    BY <1>1, <1>2, RowsApart
  <2>2. QED
    BY <1>1, <1>2, <2>1
<1>5. q = c + 1
  BY <1>2, <1>3, <1>4
<1>6. QED
  BY <1>5 DEF q, jdiv_round_up

(* Every row that came is in one of the three buffers or coded.            *)
Counted ==
  /\ color_buf \in Seq(Nat)
  /\ next_buf_row = Len(color_buf) /\ next_buf_row < Samp
  /\ rowgroup_ctr \in 0 .. DctSize - 1
  /\ cur_iMCU_row \in Nat
  /\ line < h => line = MCURows * cur_iMCU_row + Samp * rowgroup_ctr + next_buf_row
  /\ line = h => /\ next_buf_row = 0 /\ rowgroup_ctr = 0
                 /\ cur_iMCU_row = total_iMCU_rows

JpegInv ==
  /\ SizeInv
  /\ global_state = "start" =>
       /\ next_buf_row = 0 /\ color_buf = << >>
       /\ rowgroup_ctr = 0 /\ cur_iMCU_row = 0
       /\ format = "jpg" => line = 0
  /\ global_state = "scanning" => rows_to_go = h - line /\ Counted
  /\ format = "bmp" => global_state = "start"

LEMMA CountedStep ==
  ASSUME SizeInv, Counted, rows_to_go = h - line, line < h,
         w' = w, h' = h, line' = line + 1, process_data(line)
  PROVE  rows_to_go' = h' - line' /\ Counted'
<1> DEFINE rows == Append(color_buf, line)
<1>0. Samp \in Nat \ {0} /\ DctSize \in Nat \ {0}
  BY JpegConstants
<1>1. /\ h \in Nat /\ line \in Nat
      /\ next_buf_row \in Nat /\ rowgroup_ctr \in Nat /\ cur_iMCU_row \in Nat
      /\ MCURows \in Nat /\ MCURows * cur_iMCU_row \in Nat
      /\ Samp * rowgroup_ctr \in Nat
      /\ MCURows = Samp * DctSize
      /\ line = MCURows * cur_iMCU_row + Samp * rowgroup_ctr + next_buf_row
  BY <1>0 DEF SizeInv, Counted, MCURows
<1>2. rows \in Seq(Nat) /\ Len(rows) = next_buf_row + 1
  BY <1>1 DEF Counted
<1> HIDE DEF rows
<1>3. rows_to_go' = h' - line'
  BY <1>1 DEF process_data
<1>4. CASE Len(rows) < Samp /\ rows_to_go > 1
  <2>1. Collect(rows)
    BY <1>4 DEF process_data, rows
  <2>2. QED
    <3>1. /\ color_buf' = rows /\ next_buf_row' = next_buf_row + 1
          /\ rowgroup_ctr' = rowgroup_ctr /\ cur_iMCU_row' = cur_iMCU_row
      BY <2>1 DEF Collect
    <3>2. line' < h' /\ next_buf_row' < Samp /\ next_buf_row' = Len(color_buf')
      BY <1>0, <1>1, <1>2, <1>4, <3>1
    <3>3. MCURows' = MCURows
      BY DEF MCURows
    <3>4. rowgroup_ctr' \in 0 .. DctSize - 1 /\ cur_iMCU_row' \in Nat
      BY <3>1 DEF Counted
    <3>5. line' = MCURows' * cur_iMCU_row' + Samp * rowgroup_ctr' + next_buf_row'
      BY <1>1, <3>1, <3>3
    <3>6. QED
      <4>1. color_buf' \in Seq(Nat) /\ ~(line' = h')
        BY <1>1, <1>2, <3>1, <3>2
      <4>2. QED
        BY <1>3, <3>2, <3>4, <3>5, <4>1 DEF Counted
<1>5. CASE ~(Len(rows) < Samp /\ rows_to_go > 1)
  <2> DEFINE full == expand_bottom_edge(rows, Samp)
  <2>1. Group(full)
    BY <1>5 DEF process_data, rows
  <2> HIDE DEF full
  <2>2. next_buf_row + 1 <= Samp /\ (rows_to_go > 1 => next_buf_row + 1 = Samp)
    BY <1>0, <1>1, <1>2, <1>5 DEF Counted
  <2>3. color_buf' = << >> /\ next_buf_row' = 0
    BY <2>1 DEF Group
  <2>4. \/ /\ rowgroup_ctr + 1 < DctSize /\ rows_to_go > 1
           /\ rowgroup_ctr' = rowgroup_ctr + 1 /\ cur_iMCU_row' = cur_iMCU_row
        \/ /\ rowgroup_ctr + 1 = DctSize \/ rows_to_go = 1
           /\ rowgroup_ctr' = 0 /\ cur_iMCU_row' = cur_iMCU_row + 1
    BY <2>1 DEF Group
  <2>5. rows_to_go \in Nat /\ rowgroup_ctr < DctSize
    BY <1>0, <1>1 DEF Counted
  <2>6. CASE rowgroup_ctr + 1 < DctSize /\ rows_to_go > 1
    <3>1. rowgroup_ctr' = rowgroup_ctr + 1 /\ cur_iMCU_row' = cur_iMCU_row
      BY <1>0, <1>1, <2>6, <2>4, <2>5
    <3>2. Samp * (rowgroup_ctr + 1) = Samp * rowgroup_ctr + Samp
      BY <1>0, <1>1
    <3>3. line' < h'
      BY <1>1, <2>6
    <3>4. line' = MCURows * cur_iMCU_row' + Samp * rowgroup_ctr' + next_buf_row'
      BY <1>0, <1>1, <2>2, <2>3, <2>6, <3>1, <3>2
    <3>5. rowgroup_ctr' \in 0 .. DctSize - 1
      BY <1>0, <1>1, <2>6, <3>1
    <3>6. QED
      BY <1>0, <1>1, <1>3, <2>3, <3>1, <3>3, <3>4, <3>5 DEF Counted, MCURows
  <2>7. CASE rowgroup_ctr + 1 = DctSize \/ rows_to_go = 1
    <3>1. rowgroup_ctr' = 0 /\ cur_iMCU_row' = cur_iMCU_row + 1
      BY <1>0, <1>1, <2>7, <2>4, <2>5
    <3>2. MCURows * (cur_iMCU_row + 1) = MCURows * cur_iMCU_row + MCURows
      BY <1>1
    <3>3. Samp * rowgroup_ctr + Samp <= MCURows
      <4>1. rowgroup_ctr < DctSize
        BY <1>0, <1>1 DEF Counted
      <4>2. rowgroup_ctr * Samp + Samp <= DctSize * Samp
        BY <1>0, <1>1, <4>1, RowsApart
      <4>3. QED
        BY <1>0, <1>1, <4>2
    <3>4. CASE rows_to_go > 1
      <4>1. rowgroup_ctr + 1 = DctSize
        BY <1>1, <2>7, <3>4
      <4>2. Samp * rowgroup_ctr + Samp = MCURows
        <5>1. Samp * (rowgroup_ctr + 1) = Samp * rowgroup_ctr + Samp
          BY <1>0, <1>1
        <5>2. QED
          BY <1>1, <4>1, <5>1
      <4>3. line' < h'
        BY <1>1, <3>4
      <4>4. Samp * 0 = 0
        BY <1>0
      <4>5. line' = MCURows * cur_iMCU_row' + Samp * rowgroup_ctr' + next_buf_row'
        BY <1>0, <1>1, <2>2, <2>3, <3>1, <3>2, <3>4, <4>2, <4>4
      <4>6. QED
        BY <1>0, <1>1, <1>3, <2>3, <3>1, <4>3, <4>5 DEF Counted, MCURows
    <3>5. CASE rows_to_go = 1
      <4> DEFINE r == Samp * rowgroup_ctr + next_buf_row + 1
      <4>1. h = MCURows * cur_iMCU_row + r /\ r \in 1 .. MCURows
        BY <1>0, <1>1, <2>2, <3>3, <3>5
      <4> HIDE DEF r
      <4>2. total_iMCU_rows = cur_iMCU_row + 1
        BY <1>1, <4>1, RoundedUp DEF total_iMCU_rows
      <4>3. total_iMCU_rows' = total_iMCU_rows
        BY DEF total_iMCU_rows, MCURows
      <4>4. line' = h'
        BY <1>1, <3>5
      <4>5. QED
        BY <1>0, <1>1, <1>3, <2>3, <3>1, <4>2, <4>3, <4>4 DEF Counted
    <3>6. QED
      BY <1>1, <3>4, <3>5
  <2>8. QED
    BY <2>6, <2>7, <2>4
<1>6. QED
  BY <1>4, <1>5

LEMMA JpegAlways == GrabSpec => []JpegInv
<1>1. GrabInit => JpegInv
  BY PictureConstants DEF GrabInit, JpegInit, Init, JpegInv, SizeInv
<1>2. ASSUME JpegInv, [GrabNext]_grabVars
      PROVE  JpegInv'
  <2>1. SizeInv'
    <3>1. SizeInv /\ [Next]_vars
      BY <1>2 DEF JpegInv, GrabNext, GetColors, Rows, JpegNext,
                  jpeg_write_scanlines, Next, grabVars, vars
    <3>2. QED
      BY <3>1, SizeStep
  <2>2. CASE GetColors \/ UNCHANGED grabVars
    BY <1>2, <2>1, <2>2 DEF GetColors, grabVars, vars, jpegVars, JpegInv, Counted,
       total_iMCU_rows
  <2>3. CASE (ConvertRow \/ WriteLine) /\ UNCHANGED jpegVars
    BY <1>2, <2>1, <2>3 DEF ConvertRow, WriteLine, AppendLine, jpegVars,
       JpegInv, Counted, total_iMCU_rows
  <2>4. CASE StartCompress /\ UNCHANGED vars
    BY <1>2, <2>1, <2>4, JpegConstants DEF StartCompress, vars, JpegInv,
       Counted, SizeInv, MCURows
  <2>5. CASE FinishCompress /\ UNCHANGED vars
    BY <1>2, <2>1, <2>5 DEF FinishCompress, vars, JpegInv
  <2>6. CASE jpeg_write_scanlines
    <3>1. /\ SizeInv /\ Counted /\ rows_to_go = h - line /\ line < h
          /\ w' = w /\ h' = h /\ line' = line + 1 /\ process_data(line)
      BY <1>2, <2>6 DEF jpeg_write_scanlines, WriteScanline, AppendLine, JpegInv
    <3>2. rows_to_go' = h' - line' /\ Counted'
      BY <3>1, CountedStep
    <3>3. QED
      BY <1>2, <2>1, <2>6, <3>2 DEF jpeg_write_scanlines, WriteScanline,
         AppendLine, JpegInv
  <2>7. QED
    BY <1>2, <2>2, <2>3, <2>4, <2>5, <2>6 DEF GrabNext, Rows, JpegNext
<1>3. QED
  BY <1>1, <1>2, PTL DEF GrabSpec

(* The preprocessor and the main buffer are empty when jpeg_finish_compress *)
(* is called, and as many rows of MCUs are coded as the header announces:  *)
(* for every height, and every size of blocks and groups.                  *)
THEOREM NothingLeftCorrect == GrabSpec => []NothingLeft
<1>1. JpegInv => NothingLeft
  BY DEF JpegInv, Counted, NothingLeft
<1>2. QED
  BY <1>1, JpegAlways, PTL

-----------------------------------------------------------------------------
(* The colours *)

(* A field of bits: what is above it and what is below it go away.         *)
LEMMA Quotient ==
  ASSUME NEW K \in Nat \ {0}, NEW a \in Nat, NEW r \in 0 .. K - 1
  PROVE  (a * K + r) \div K = a /\ (a * K + r) % K = r
<1> DEFINE n == a * K + r
           q == n \div K
<1>1. a * K \in Nat /\ n \in Nat
  OBVIOUS
<1>2. q \in Nat /\ q * K <= n /\ n < q * K + K /\ n % K = n - q * K
  BY <1>1, SMTT(30)
<1> HIDE DEF q
<1>3. q * K \in Nat
  BY <1>2
<1>4. ~(q < a)
  <2> SUFFICES ASSUME q < a PROVE FALSE
    OBVIOUS
  <2>1. q * K + K <= a * K
    BY <1>2, RowsApart
  <2>2. QED
    BY <1>1, <1>2, <1>3, <2>1
<1>5. ~(a < q)
  <2> SUFFICES ASSUME a < q PROVE FALSE
    OBVIOUS
  <2>1. a * K + K <= q * K
    BY <1>2, RowsApart
  <2>2. QED
    BY <1>1, <1>2, <1>3, <2>1
<1>6. q = a
  BY <1>2, <1>4, <1>5
<1>7. QED
  BY <1>1, <1>2, <1>6 DEF q

LEMMA QuotientExact ==
  ASSUME NEW K \in Nat \ {0}, NEW a \in Nat
  PROVE  (a * K) \div K = a
<1>1. (a * K + 0) \div K = a
  BY Quotient
<1>2. a * K \in Nat
  OBVIOUS
<1>3. QED
  BY <1>1, <1>2

LEMMA SquareOfLevels ==
  /\ Levels \in Nat /\ Levels > 1
  /\ Levels * Levels \in Nat /\ Levels * Levels > Levels
  /\ \A i \in 0 .. Levels - 1 :
       /\ i * Levels \in Nat /\ i * (Levels * Levels) \in Nat
       /\ i * Levels + i < Levels * Levels
<1>1. Levels \in Nat /\ Levels > 1
  BY ColourConstants
<1>2. Levels * Levels \in Nat /\ Levels * Levels > Levels
  <2>1. 1 * Levels + Levels <= Levels * Levels
    BY <1>1, RowsApart
  <2>2. QED
    BY <1>1, <2>1
<1>3. ASSUME NEW i \in 0 .. Levels - 1
      PROVE  /\ i * Levels \in Nat /\ i * (Levels * Levels) \in Nat
             /\ i * Levels + i < Levels * Levels
  <2>1. i \in Nat /\ i < Levels
    BY <1>1
  <2>2. i * Levels + Levels <= Levels * Levels /\ i * Levels \in Nat
    BY <1>1, <2>1, RowsApart
  <2>3. i * (Levels * Levels) \in Nat
    BY <1>2, <2>1
  <2>4. QED
    BY <1>1, <1>2, <2>1, <2>2, <2>3
<1>4. QED
  BY <1>1, <1>2, <1>3

(* The server's colour for a byte has it in both of its bytes: which of    *)
(* them convert_to_colorbuf stores makes no difference.                    *)
LEMMA ScaledByte ==
  ASSUME NEW v \in 0 .. Levels - 1
  PROVE  /\ Scaled(v, Levels) % Levels = v
         /\ Scaled(v, Levels) \div Levels = v
<1>1. v \in Nat /\ Levels \in Nat \ {0} /\ Levels > 1 /\ v * Levels \in Nat
  BY SquareOfLevels
<1> DEFINE k == Levels - 1
           u == v * Levels + v
<1>2. k \in Nat \ {0} /\ u \in Nat
  BY <1>1
<1>3. v * (Levels * Levels - 1) = u * k
  <2>1. u * k = v * Levels * Levels + v * Levels - v * Levels - v
    BY <1>1
  <2>2. v * (Levels * Levels - 1) = v * Levels * Levels - v
    BY <1>1
  <2>3. v * Levels * Levels \in Nat
    BY <1>1
  <2>4. QED
    BY <1>1, <2>1, <2>2, <2>3
<1> HIDE DEF k, u
<1>4. Scaled(v, Levels) = u
  BY <1>2, <1>3, QuotientExact DEF Scaled, k
<1>5. QED
  BY <1>1, <1>4, Quotient DEF u

ColourInv ==
  /\ visual \in {"true", "pseudo", "wide", "reversed"}
  /\ \/ colors = NoTable
     \/ colors = [i \in 0 .. ncolors - 1 |-> Shown(TablePixel(i))]

LEMMA ColourStep ==
  ASSUME ColourInv, [GrabNext]_grabVars
  PROVE  ColourInv'
<1>1. CASE FindColors
  <2>1. visual' = visual
    BY <1>1 DEF FindColors
  <2>2. /\ ncolors' = ncolors
        /\ \A i : Shown(TablePixel(i))' = Shown(TablePixel(i))
    BY <2>1 DEF ncolors, Shown, TablePixel, Masks
  <2>3. colors' = [i \in 0 .. ncolors - 1 |-> Shown(TablePixel(i))]
    BY <1>1 DEF FindColors
  <2>4. QED
    BY <2>1, <2>2, <2>3, Zenon DEF ColourInv
<1>2. CASE UNCHANGED colourVars
  <2>1. visual' = visual /\ colors' = colors
    BY <1>2 DEF colourVars
  <2>2. /\ ncolors' = ncolors
        /\ \A i : Shown(TablePixel(i))' = Shown(TablePixel(i))
    BY <2>1 DEF ncolors, Shown, TablePixel, Masks
  <2>3. QED
    BY <2>1, <2>2, Zenon DEF ColourInv, NoTable
<1>3. QED
  BY <1>1, <1>2 DEF GrabNext, GetColors, Rows, grabVars

LEMMA ColourAlways == GrabSpec => []ColourInv
<1>1. GrabInit => ColourInv
  BY ColourConstants DEF GrabInit, ColourInit, ColourInv
<1>2. QED
  BY <1>1, ColourStep, PTL DEF GrabSpec

(* The mask and the shift of each channel.                                 *)
LEMMA MaskIs ==
  ASSUME NEW c \in Channels
  PROVE  /\ Masks[c].levels = ncolors
         /\ Masks[c].unit \in {1, ncolors, ncolors * ncolors}
         /\ Shift[c] \in {1, Levels, Levels * Levels}
         /\ visual = "reversed" =>
              Masks[c].unit =
                IF c = "red" THEN 1 ELSE IF c = "green" THEN ncolors
                ELSE ncolors * ncolors
         /\ visual # "reversed" =>
              Masks[c].unit =
                IF c = "red" THEN ncolors * ncolors
                ELSE IF c = "green" THEN ncolors ELSE 1
         /\ Shift[c] = IF c = "red" THEN Levels * Levels
                       ELSE IF c = "green" THEN Levels ELSE 1
BY DEF Channels, Masks, Shift

LEMMA ColoursType ==
  ASSUME ColourInv
  PROVE  /\ ncolors \in Nat /\ ncolors > 1
         /\ ncolors * ncolors \in Nat /\ ncolors * ncolors > 0
         /\ visual # "wide" => ncolors = Levels
         /\ visual = "wide" => ncolors = 2 * Levels
<1>1. ncolors \in Nat /\ ncolors > 1
  BY SquareOfLevels DEF ncolors
<1>2. 1 * ncolors + ncolors <= ncolors * ncolors /\ ncolors * ncolors \in Nat
  BY <1>1, RowsApart
<1>3. QED
  BY <1>1, <1>2 DEF ncolors

LEMMA FieldType ==
  ASSUME ColourInv, NEW p \in Nat, NEW c \in Channels
  PROVE  Field(p, Masks[c]) \in 0 .. ncolors - 1
<1> DEFINE u == Masks[c].unit
<1>1. u \in Nat /\ u > 0 /\ Masks[c].levels = ncolors
  BY MaskIs, ColoursType
<1> HIDE DEF u
<1>2. p \div u \in Nat
  BY <1>1, SMTT(30)
<1>3. (p \div u) % ncolors \in 0 .. ncolors - 1
  BY <1>2, ColoursType
<1>4. QED
  BY <1>1, <1>3 DEF Field, u

LEMMA PixelsAreNat ==
  ASSUME ColourInv, NEW p \in Pixels
  PROVE  /\ p \in Nat
         /\ visual = "pseudo" /\ ~ PassedOver(p) => p \in 0 .. Levels - 1
<1>1. ncolors * ncolors * ncolors \in Nat
  BY ColoursType
<1>2. QED
  BY <1>1, ColoursType DEF Pixels, PassedOver

(* Where the masks are those of the shifts, the index is the field.        *)
LEMMA TrueIndex ==
  ASSUME ColourInv, NEW p \in Nat, NEW c \in Channels,
         Masks[c].unit = Shift[c]
  PROVE  RawIndex(p, c) = Field(p, Masks[c])
<1>1. Field(p, Masks[c]) \in Nat
  BY FieldType, ColoursType
<1>2. Shift[c] \in Nat \ {0}
  BY MaskIs, SquareOfLevels
<1>3. QED
  BY <1>1, <1>2, QuotientExact DEF RawIndex

(* With blue first, the field of green is where it is expected; red is     *)
(* shifted out of sight, and blue is out of range.                         *)
LEMMA ReversedIndex ==
  ASSUME ColourInv, visual = "reversed", NEW p \in Nat, NEW c \in Channels
  PROVE  CpIndex(p, c) \in 0 .. ncolors - 1
<1> DEFINE f == Field(p, Masks[c])
<1>1. f \in 0 .. Levels - 1 /\ ncolors = Levels /\ f \in Nat
  BY FieldType, ColoursType
<1>2. /\ Levels \in Nat /\ Levels > 1
      /\ Levels * Levels \in Nat /\ Levels * Levels > Levels
  BY SquareOfLevels
<1> HIDE DEF f
<1>3. CASE c = "red"
  <2>1. f \in 0 .. Levels * Levels - 1
    BY <1>1, <1>2
  <2>2. (0 * (Levels * Levels) + f) \div (Levels * Levels) = 0
    BY <1>2, <2>1, Quotient
  <2>3. RawIndex(p, c) = (f * 1) \div (Levels * Levels)
    BY <1>3, MaskIs DEF RawIndex, f
  <2>4. f * 1 = f /\ 0 * (Levels * Levels) + f = f
    BY <1>1, <1>2
  <2>5. RawIndex(p, c) = 0
    BY <2>2, <2>3, <2>4
  <2>6. QED
    BY <1>1, <1>2, <2>5 DEF CpIndex
<1>4. CASE c = "green"
  <2>1. Masks[c].unit = Shift[c]
    BY <1>1, <1>4, MaskIs
  <2>2. RawIndex(p, c) = f
    BY <2>1, TrueIndex DEF f
  <2>3. QED
    BY <1>1, <1>2, <2>2 DEF CpIndex
<1>5. CASE c = "blue"
  <2>1. RawIndex(p, c) = (f * (Levels * Levels)) \div 1
    BY <1>1, <1>5, MaskIs DEF RawIndex, f
  <2>2. f * (Levels * Levels) \in Nat
    BY <1>1, SquareOfLevels
  <2>3. RawIndex(p, c) = f * (Levels * Levels)
    BY <2>1, <2>2
  <2>4. f = 0 \/ Levels * Levels <= f * (Levels * Levels)
    <3>1. CASE f > 0
      <4>1. 0 * (Levels * Levels) + Levels * Levels <= f * (Levels * Levels)
        BY <1>1, <1>2, <3>1, RowsApart
      <4>2. QED
        BY <1>2, <2>2, <4>1
    <3>2. QED
      BY <1>1, <3>1
  <2>5. f = 0 => RawIndex(p, c) = 0
    BY <1>2, <2>3
  <2>6. QED
    BY <1>1, <1>2, <2>2, <2>3, <2>4, <2>5 DEF CpIndex
<1>6. QED
  BY <1>3, <1>4, <1>5 DEF Channels

(* However many values a byte has, only the index ncolors itself gets past *)
(* the check and out of the table, and only where a channel has more       *)
(* values than a byte.                                                     *)
THEOREM IndexInTableCorrect == GrabSpec => []IndexInTable
<1>1. ASSUME ColourInv, NEW p \in Pixels, NEW c \in Channels,
             ~ PassedOver(p)
      PROVE  \/ CpIndex(p, c) < ncolors
             \/ CpIndex(p, c) = ncolors /\ Masks[c].levels > Levels
  <2>1. p \in Nat /\ ncolors \in Nat /\ ncolors > 1
    BY <1>1, PixelsAreNat, ColoursType
  <2>2. CASE visual = "pseudo"
    BY <1>1, <2>2, PixelsAreNat, ColoursType DEF CpIndex
  <2>3. CASE visual = "reversed"
    BY <1>1, <2>1, <2>3, ReversedIndex
  <2>4. CASE visual = "true"
    <3>1. Masks[c].unit = Shift[c]
      BY <1>1, <2>4, MaskIs, ColoursType
    <3>2. RawIndex(p, c) \in 0 .. ncolors - 1
      BY <1>1, <2>1, <3>1, TrueIndex, FieldType
    <3>3. QED
      BY <2>1, <2>4, <3>2 DEF CpIndex
  <2>5. CASE visual = "wide"
    <3>1. Masks[c].levels > Levels
      BY <1>1, <2>5, MaskIs, ColoursType, SquareOfLevels
    <3>2. RawIndex(p, c) \in Nat
      <4>1. Field(p, Masks[c]) \in Nat /\ Masks[c].unit \in Nat
        BY <1>1, <2>1, FieldType, MaskIs, ColoursType
      <4>2. Field(p, Masks[c]) * Masks[c].unit \in Nat
        BY <4>1
      <4>3. Shift[c] \in Nat /\ Shift[c] > 0
        BY MaskIs, SquareOfLevels
      <4>4. QED
        BY <4>2, <4>3, SMTT(30) DEF RawIndex
    <3>3. CpIndex(p, c) \in Nat /\ ~ (CpIndex(p, c) > ncolors)
      BY <2>1, <2>5, <3>2 DEF CpIndex
    <3>4. QED
      BY <2>1, <3>1, <3>3
  <2>6. QED
    BY <1>1, <2>2, <2>3, <2>4, <2>5 DEF ColourInv
<1>2. ColourInv => IndexInTable
  BY <1>1 DEF IndexInTable
<1>3. QED
  BY <1>2, ColourAlways, PTL

(* Entry i of the table of a visual with a byte to a channel is i in every *)
(* channel.                                                                *)
LEMMA EntryField ==
  ASSUME visual = "true", NEW i \in 0 .. Levels - 1, NEW c \in Channels
  PROVE  Field(TablePixel(i), Masks[c]) = i
<1> DEFINE L == Levels
           n == i * (L * L) + i * L + i
<1>1. /\ i \in Nat /\ L \in Nat \ {0} /\ L > 1
      /\ L * L \in Nat \ {0} /\ i * L \in Nat /\ i * (L * L) \in Nat
      /\ i * L + i < L * L
  BY SquareOfLevels
<1>2. \A d \in Channels :
        /\ Masks[d].levels = L
        /\ Masks[d].unit = IF d = "red" THEN L * L
                           ELSE IF d = "green" THEN L ELSE 1
  BY MaskIs DEF ncolors
<1>3. i % L = i
  BY <1>1
<1>4. TablePixel(i) = n
  <2>1. /\ Masks["red"].levels = L /\ Masks["red"].unit = L * L
        /\ Masks["green"].levels = L /\ Masks["green"].unit = L
        /\ Masks["blue"].levels = L /\ Masks["blue"].unit = 1
    BY <1>2 DEF Channels
  <2>2. TablePixel(i) = i * (L * L) + i * L + i * 1
    BY <1>3, <2>1 DEF TablePixel
  <2>3. QED
    BY <1>1, <2>2
<1>5. n = (i * L + i) * L + i
  <2>1. (i * L + i) * L = i * (L * L) + i * L
    BY <1>1
  <2>2. QED
    BY <1>1, <2>1
<1>6. i * L + i \in Nat /\ i \in 0 .. L - 1 /\ n \in Nat
  BY <1>1
<1>7. n % L = i /\ n \div L = i * L + i
  BY <1>1, <1>5, <1>6, Quotient
<1>8. (i * L + i) % L = i
  BY <1>1, <1>6, Quotient
<1>9. n \div (L * L) = i
  <2>1. i * L + i \in 0 .. L * L - 1
    BY <1>1
  <2>2. (i * (L * L) + (i * L + i)) \div (L * L) = i
    BY <1>1, <2>1, Quotient
  <2>3. n = i * (L * L) + (i * L + i)
    BY <1>1
  <2>4. QED
    BY <2>2, <2>3
<1> HIDE DEF n
<1>10. n \div 1 = n
  BY <1>6
<1>11. QED
  BY <1>2, <1>3, <1>4, <1>7, <1>8, <1>9, <1>10 DEF Field, Channels

(* What find_colors fetches is enough to show every pixel as the server    *)
(* shows it, for any number of values of a byte: where the masks are those *)
(* of the shifts, and on indexed visuals.                                  *)
THEOREM ColourKeptCorrect == GrabSpec => []ColourKept
<1>1. ASSUME ColourInv, colors # NoTable, AsExpected,
             NEW p \in Pixels, NEW c \in Channels, ~ PassedOver(p)
      PROVE  Stored(p, c) = {Shown(p)[c] \div Levels}
  <2>1. colors = [i \in 0 .. ncolors - 1 |-> Shown(TablePixel(i))]
    BY <1>1 DEF ColourInv
  <2>2. CASE visual = "pseudo"
    <3>1. p \in 0 .. Levels - 1 /\ ncolors = Levels
      BY <1>1, <2>2, PixelsAreNat, ColoursType
    <3>2. colors[p] = Shown(p) /\ CpIndex(p, c) = p /\ p \in DOMAIN colors
      BY <2>1, <2>2, <3>1 DEF TablePixel, CpIndex
    <3>3. \E v \in 0 .. Levels - 1 : Shown(p)[c] = Scaled(v, Levels)
      <4>1. /\ Levels - 1 - p \in 0 .. Levels - 1
            /\ Levels \div 2 \in 0 .. Levels - 1
        BY <3>1, SquareOfLevels
      <4>2. /\ Shown(p)["red"] = Scaled(p, Levels)
            /\ Shown(p)["green"] = Scaled(Levels - 1 - p, Levels)
            /\ Shown(p)["blue"] = Scaled(Levels \div 2, Levels)
        BY <2>2 DEF Shown
      <4>3. QED
        BY <3>1, <4>1, <4>2, Zenon DEF Channels
    <3>4. Shown(p)[c] % Levels = Shown(p)[c] \div Levels
      BY <3>3, ScaledByte
    <3>5. QED
      BY <1>1, <3>2, <3>4 DEF Stored
  <2>3. CASE visual # "pseudo"
    <3>1. visual = "true" /\ ncolors = Levels
      <4>1. Masks["red"].unit = Shift["red"]
        BY <1>1, <2>3 DEF AsExpected, Channels
      <4>2. /\ visual = "reversed" => 1 = Levels * Levels
            /\ visual = "wide" => ncolors * ncolors = Levels * Levels
        BY <4>1, MaskIs DEF Channels
      <4>3. visual # "reversed"
        BY <4>2, SquareOfLevels
      <4>4. visual # "wide"
        <5>1. ncolors = 2 * Levels =>
                ncolors * ncolors = 4 * (Levels * Levels)
          BY SquareOfLevels
        <5>2. QED
          BY <1>1, <4>2, <5>1, SquareOfLevels, ColoursType
      <4>5. QED
        BY <1>1, <2>3, <4>3, <4>4, ColoursType DEF ColourInv
    <3> DEFINE f == Field(p, Masks[c])
    <3>2. p \in Nat /\ f \in 0 .. Levels - 1
      BY <1>1, <3>1, PixelsAreNat, FieldType
    <3>3. RawIndex(p, c) = f
      BY <1>1, <2>3, <3>2, TrueIndex DEF AsExpected
    <3>4. CpIndex(p, c) = f
      BY <3>1, <3>2, <3>3, SquareOfLevels DEF CpIndex
    <3>5. /\ Shown(p)[c] = Scaled(f, Levels)
          /\ Shown(TablePixel(f))[c] = Scaled(f, Levels)
      <4>1. Masks[c].levels = Levels
        BY <3>1, MaskIs
      <4>2. Field(TablePixel(f), Masks[c]) = f
        BY <3>1, <3>2, EntryField
      <4>3. \A n : Shown(n)[c] = Scaled(Field(n, Masks[c]), Masks[c].levels)
        BY <2>3 DEF Shown
      <4>4. QED
        BY <4>1, <4>2, <4>3
    <3>6. f \in DOMAIN colors /\ colors[f] = Shown(TablePixel(f))
      BY <2>1, <3>1, <3>2
    <3>7. Stored(p, c) = {Scaled(f, Levels) % Levels}
      BY <1>1, <3>4, <3>5, <3>6 DEF Stored
    <3>8. QED
      BY <3>2, <3>5, <3>7, ScaledByte
  <2>4. QED
    BY <2>2, <2>3
<1>2. ColourInv => ColourKept
  BY <1>1 DEF ColourKept
<1>3. QED
  BY <1>2, ColourAlways, PTL

-----------------------------------------------------------------------------
(* What is in the JPEG *)

(* The rows of the picture in a square that begins with row s.             *)
RowsFrom(s) == {n \in 0 .. h - 1 : s <= n /\ n < s + Samp}

(* The rows in the three buffers are those that came, in their order, and  *)
(* so are those coded as far as they belong to the picture.                *)
Collected ==
  \A i \in 1 .. next_buf_row :
    color_buf[i] = MCURows * cur_iMCU_row + Samp * rowgroup_ctr + i - 1

Buffered ==
  /\ buffer \in [luma : Seq(Nat), chroma : Seq(SUBSET Nat)]
  /\ Len(buffer.luma) = Samp * rowgroup_ctr
  /\ Len(buffer.chroma) = rowgroup_ctr
  /\ \A i \in 1 .. Samp * rowgroup_ctr :
       buffer.luma[i] = MCURows * cur_iMCU_row + i - 1
  /\ \A j \in 1 .. rowgroup_ctr :
       buffer.chroma[j] = RowsFrom(MCURows * cur_iMCU_row + Samp * (j - 1))

(* Row r of MCUs is row.                                                   *)
ShowsRow(mcus, r) ==
  /\ \A i \in 1 .. MCURows :
       MCURows * r + i - 1 < h => mcus.luma[i] = MCURows * r + i - 1
  /\ \A j \in 1 .. DctSize :
       MCURows * r + Samp * (j - 1) < h =>
         mcus.chroma[j] = RowsFrom(MCURows * r + Samp * (j - 1))

CodedRow == [luma : [1 .. MCURows -> Nat \cup {Dummy}], chroma : Seq(SUBSET Nat)]

CodedShows ==
  /\ coded \in Seq(CodedRow) /\ Len(coded) = cur_iMCU_row
  /\ \A r \in 1 .. cur_iMCU_row : ShowsRow(coded[r], r - 1)

ContentInv ==
  /\ JpegInv
  /\ global_state \in {"start", "scanning", "finished"}
  /\ global_state = "start" =>
       buffer = [luma |-> << >>, chroma |-> << >>] /\ coded = << >>
  /\ global_state = "scanning" => Collected /\ Buffered
  /\ global_state # "start" => CodedShows
  /\ global_state = "finished" => cur_iMCU_row = total_iMCU_rows

(* A row group, padded to its length when the picture ends in it.          *)
LEMMA GroupRows ==
  ASSUME SizeInv, NEW rows \in Seq(Nat), NEW base \in Nat,
         Len(rows) \in 1 .. Samp,
         \A i \in 1 .. Len(rows) : rows[i] = base + i - 1,
         base + Len(rows) <= h,
         Len(rows) = Samp \/ base + Len(rows) = h
  PROVE  LET full == expand_bottom_edge(rows, Samp)
         IN /\ full \in Seq(Nat) /\ Len(full) = Samp
            /\ \A i \in 1 .. Samp : base + i - 1 < h => full[i] = base + i - 1
            /\ {full[i] : i \in DOMAIN full} = RowsFrom(base)
<1> DEFINE l == Len(rows)
           tail == [i \in 1 .. Samp - l |-> rows[l]]
           full == expand_bottom_edge(rows, Samp)
<1>1. Samp \in Nat \ {0} /\ l \in 1 .. Samp /\ l \in Nat /\ h \in Nat
  BY JpegConstants DEF SizeInv
<1>2. rows[l] = base + l - 1 /\ rows[l] \in Nat
  BY <1>1
<1>3. tail \in Seq(Nat) /\ Len(tail) = Samp - l
      /\ \A i \in 1 .. Samp - l : tail[i] = rows[l]
  <2>1. Samp - l \in Nat
    BY <1>1
  <2>2. tail \in [1 .. Samp - l -> Nat]
    BY <1>2
  <2>3. QED
    BY <2>1, <2>2
<1>4. full = rows \o tail
  BY DEF expand_bottom_edge
<1> HIDE DEF tail, full
<1>5. full \in Seq(Nat) /\ Len(full) = Samp
  BY <1>1, <1>3, <1>4
<1>6. \A i \in 1 .. Samp :
        full[i] = IF i <= l THEN base + i - 1 ELSE base + l - 1
  <2> SUFFICES ASSUME NEW i \in 1 .. Samp
               PROVE  full[i] = IF i <= l THEN base + i - 1 ELSE base + l - 1
    OBVIOUS
  <2>1. CASE i <= l
    <3>1. full[i] = rows[i]
      BY <1>1, <1>3, <1>4, <2>1
    <3>2. QED
      BY <1>1, <2>1, <3>1
  <2>2. CASE i > l
    <3>1. full[i] = tail[i - l] /\ i - l \in 1 .. Samp - l
      BY <1>1, <1>3, <1>4, <2>2
    <3>2. full[i] = rows[l]
      BY <1>3, <3>1
    <3>3. QED
      BY <1>1, <1>2, <2>2, <3>2
  <2>3. QED
    BY <1>1, <2>1, <2>2
<1>7. \A i \in 1 .. Samp : base + i - 1 < h => full[i] = base + i - 1
  BY <1>1, <1>6
<1>8. {full[i] : i \in DOMAIN full} = RowsFrom(base)
  <2>1. DOMAIN full = 1 .. Samp
    BY <1>1, <1>5
  <2>2. ASSUME NEW i \in 1 .. Samp
        PROVE  full[i] \in RowsFrom(base)
    BY <1>1, <1>6 DEF RowsFrom
  <2>3. ASSUME NEW n \in RowsFrom(base)
        PROVE  \E i \in 1 .. Samp : full[i] = n
    <3>1. n - base + 1 \in 1 .. Samp /\ full[n - base + 1] = n
      BY <1>1, <1>7 DEF RowsFrom
    <3>2. QED
      BY <3>1
  <2>4. QED
    BY <2>1, <2>2, <2>3
<1>9. QED
  BY <1>5, <1>7, <1>8 DEF full

(* The numbers of the first rows in the two buffers.                       *)
LEMMA Bases ==
  ASSUME NEW c \in Nat, NEW g \in 0 .. DctSize - 1
  PROVE  /\ Samp \in Nat \ {0} /\ DctSize \in Nat \ {0} /\ MCURows \in Nat \ {0}
         /\ MCURows * c \in Nat /\ Samp * g \in Nat
         /\ Samp * (g + 1) = Samp * g + Samp
         /\ Samp * (g + 1) <= MCURows
         /\ g + 1 = DctSize => Samp * (g + 1) = MCURows
         /\ MCURows * (c + 1) = MCURows * c + MCURows
<1>1. Samp \in Nat \ {0} /\ DctSize \in Nat \ {0} /\ MCURows = Samp * DctSize
  BY JpegConstants DEF MCURows
<1>2. MCURows \in Nat \ {0}
  <2>1. 0 * DctSize + DctSize <= Samp * DctSize
    BY <1>1, RowsApart
  <2>2. QED
    BY <1>1, <2>1
<1>3. g * Samp + Samp <= DctSize * Samp /\ g \in Nat
  BY <1>1, RowsApart
<1>4. Samp * (g + 1) = Samp * g + Samp /\ Samp * g = g * Samp
  BY <1>1, <1>3
<1>5. DctSize * Samp = MCURows /\ Samp * g \in Nat
  BY <1>1, <1>3
<1>6. MCURows * (c + 1) = MCURows * c + MCURows /\ MCURows * c \in Nat
  BY <1>2
<1>7. QED
  BY <1>1, <1>2, <1>3, <1>4, <1>5, <1>6

LEMMA Concatenated ==
  ASSUME NEW T, NEW s \in Seq(T), NEW t \in Seq(T)
  PROVE  /\ s \o t \in Seq(T) /\ Len(s \o t) = Len(s) + Len(t)
         /\ \A i \in 1 .. Len(s) : (s \o t)[i] = s[i]
         /\ \A i \in Len(s) + 1 .. Len(s) + Len(t) : (s \o t)[i] = t[i - Len(s)]
OBVIOUS

LEMMA Appended ==
  ASSUME NEW T, NEW s \in Seq(T), NEW e \in T
  PROVE  /\ Append(s, e) \in Seq(T) /\ Len(Append(s, e)) = Len(s) + 1
         /\ \A i \in 1 .. Len(s) : Append(s, e)[i] = s[i]
         /\ Append(s, e)[Len(s) + 1] = e
OBVIOUS

(* The main buffer with one row group more.                                *)
GroupsShow(b, c, n) ==
  /\ b \in [luma : Seq(Nat), chroma : Seq(SUBSET Nat)]
  /\ Len(b.luma) = Samp * n /\ Len(b.chroma) = n
  /\ \A i \in 1 .. Samp * n :
       MCURows * c + i - 1 < h => b.luma[i] = MCURows * c + i - 1
  /\ \A j \in 1 .. n :
       b.chroma[j] = RowsFrom(MCURows * c + Samp * (j - 1))

LEMMA DownsampleShows ==
  ASSUME SizeInv, Buffered, NEW full \in Seq(Nat),
         cur_iMCU_row \in Nat, rowgroup_ctr \in 0 .. DctSize - 1,
         Len(full) = Samp,
         \A i \in 1 .. Samp :
           LET y == MCURows * cur_iMCU_row + Samp * rowgroup_ctr + i - 1
           IN y < h => full[i] = y,
         {full[i] : i \in DOMAIN full} =
           RowsFrom(MCURows * cur_iMCU_row + Samp * rowgroup_ctr)
  PROVE  GroupsShow(downsample(full), cur_iMCU_row, rowgroup_ctr + 1)
<1> DEFINE C == MCURows * cur_iMCU_row
           G == Samp * rowgroup_ctr
           b == downsample(full)
           S == {full[i] : i \in DOMAIN full}
<1>1. /\ Samp \in Nat \ {0} /\ C \in Nat /\ G \in Nat /\ rowgroup_ctr \in Nat
      /\ Samp * (rowgroup_ctr + 1) = G + Samp /\ h \in Nat
  <2>1. rowgroup_ctr \in Nat /\ h \in Nat
    BY JpegConstants DEF SizeInv
  <2>2. QED
    BY <2>1, Bases
<1>2. /\ buffer.luma \in Seq(Nat) /\ buffer.chroma \in Seq(SUBSET Nat)
      /\ Len(buffer.luma) = G /\ Len(buffer.chroma) = rowgroup_ctr
      /\ \A i \in 1 .. G : buffer.luma[i] = C + i - 1
      /\ \A j \in 1 .. rowgroup_ctr : buffer.chroma[j] = RowsFrom(C + Samp * (j - 1))
  BY DEF Buffered
<1>3. S = RowsFrom(C + G) /\ S \in SUBSET Nat
  BY <1>1 DEF RowsFrom
<1>4. b.luma = buffer.luma \o full /\ b.chroma = Append(buffer.chroma, S)
      /\ b = [luma |-> b.luma, chroma |-> b.chroma]
  BY DEF downsample
<1>5. \A i \in 1 .. Samp : C + G + i - 1 < h => full[i] = C + G + i - 1
  OBVIOUS
<1> HIDE DEF b, S, C
<1>6. b.luma \in Seq(Nat) /\ Len(b.luma) = G + Samp
  <2>1. /\ buffer.luma \o full \in Seq(Nat)
        /\ Len(buffer.luma \o full) = Len(buffer.luma) + Len(full)
    BY <1>2, Concatenated
  <2>2. QED
    BY <1>2, <1>4, <2>1
<1>7. ASSUME NEW i \in 1 .. G + Samp, C + i - 1 < h
      PROVE  b.luma[i] = C + i - 1
  <2> HIDE DEF G
  <2>1. CASE i <= G
    <3>1. b.luma[i] = buffer.luma[i]
      BY <1>1, <1>2, <1>4, <2>1
    <3>2. QED
      BY <1>1, <1>2, <2>1, <3>1
  <2>2. CASE i > G
    <3>1. b.luma[i] = full[i - G] /\ i - G \in 1 .. Samp
      <4> DEFINE both == buffer.luma \o full
      <4>1. /\ buffer.luma \in Seq(Nat) /\ full \in Seq(Nat)
            /\ Len(buffer.luma) = G /\ Len(full) = Samp
        BY <1>2
      <4>2. \A k \in G + 1 .. G + Samp : both[k] = full[k - G]
        <5>1. \A k \in Len(buffer.luma) + 1 .. Len(buffer.luma) + Len(full) :
                both[k] = full[k - Len(buffer.luma)]
          BY <4>1, Concatenated
        <5>2. QED
          BY <4>1, <5>1, Zenon
      <4> HIDE DEF both
      <4>3. i \in G + 1 .. G + Samp /\ i - G \in 1 .. Samp
        BY <1>1, <2>2
      <4>4. both[i] = full[i - G]
        BY <4>2, <4>3
      <4>5. QED
        BY <1>4, <4>3, <4>4 DEF both
    <3>2. C + G + (i - G) - 1 = C + i - 1
      BY <1>1
    <3>3. full[i - G] = C + G + (i - G) - 1
      BY <1>5, <1>7, <3>1, <3>2
    <3>4. QED
      BY <3>1, <3>2, <3>3
  <2>3. QED
    BY <1>1, <2>1, <2>2
<1>8. b.chroma \in Seq(SUBSET Nat) /\ Len(b.chroma) = rowgroup_ctr + 1
  BY <1>1, <1>2, <1>3, <1>4
<1>9. ASSUME NEW j \in 1 .. rowgroup_ctr + 1
      PROVE  b.chroma[j] = RowsFrom(C + Samp * (j - 1))
  <2>1. CASE j = rowgroup_ctr + 1
    <3>1. b.chroma[j] = S
      BY <1>1, <1>2, <1>3, <1>4, <2>1
    <3>2. j - 1 = rowgroup_ctr
      BY <1>1, <2>1
    <3>3. QED
      BY <1>3, <3>1, <3>2
  <2>2. CASE j \in 1 .. rowgroup_ctr
    BY <1>1, <1>2, <1>4, <2>2
  <2>3. QED
    BY <1>1, <2>1, <2>2
<1>10. b \in [luma : Seq(Nat), chroma : Seq(SUBSET Nat)]
  BY <1>4, <1>6, <1>8
<1>11. QED
  BY <1>1, <1>6, <1>7, <1>8, <1>9, <1>10 DEF GroupsShow, b, C

-----------------------------------------------------------------------------
(* Blocks at the edges *)

LEMMA RoundUp ==
  ASSUME NEW n \in Nat, NEW K \in Nat \ {0}
  PROVE  LET q == jdiv_round_up(n, K)
         IN q \in Nat /\ n <= q * K /\ q * K < n + K
<1> DEFINE m == n + K - 1
           q == m \div K
<1>1. m \in Nat
  OBVIOUS
<1>2. q \in Nat /\ q * K <= m /\ m < q * K + K
  BY <1>1, SMTT(30)
<1> HIDE DEF q
<1>3. q * K \in Nat
  BY <1>2
<1>4. n <= q * K /\ q * K < n + K
  BY <1>2, <1>3
<1>5. QED
  BY <1>2, <1>4 DEF q, jdiv_round_up

LEMMA Fewer ==
  ASSUME NEW K \in Nat, NEW a \in Nat, NEW b \in Nat, a * K < b * K
  PROVE  a < b
<1> SUFFICES ASSUME ~(a < b) PROVE FALSE
  OBVIOUS
<1>1. a = b \/ b < a
  OBVIOUS
<1>2. CASE a = b
  BY <1>2
<1>3. CASE b < a
  <2>1. b * K + K <= a * K /\ a * K \in Nat /\ b * K \in Nat
    BY <1>3, RowsApart
  <2>2. QED
    BY <2>1
<1>4. QED
  BY <1>1, <1>2, <1>3

(* In the last row (or column) of MCUs, those rows of blocks count that    *)
(* hold a part of a picture of n rows.                                     *)
LEMMA LastBlocks ==
  ASSUME NEW D \in Nat \ {0}, NEW S \in Nat \ {0}, NEW n \in Nat, NEW c \in Nat,
         NEW k \in 0 .. S - 1, NEW r \in 0 .. D - 1,
         c * (S * D) + (k * D + r) < n,
         jdiv_round_up(n, S * D) <= c + 1
  PROVE  LET hb == jdiv_round_up(n, D)
         IN k < (IF hb % S = 0 THEN S ELSE hb % S)
<1> DEFINE hb == jdiv_round_up(n, D)
           T == jdiv_round_up(n, S * D)
           t == hb - c * S
<1>1. S * D \in Nat \ {0}
  <2>1. 0 * D + D <= S * D
    BY RowsApart
  <2>2. QED
    BY <2>1
<1>2. hb \in Nat /\ n <= hb * D /\ hb * D < n + D
  BY RoundUp
<1>3. T \in Nat /\ n <= T * (S * D) /\ T <= c + 1
  BY <1>1, RoundUp
<1> HIDE DEF hb, T
<1>4. c * S \in Nat /\ k \in Nat /\ r \in Nat /\ k * D \in Nat /\ hb * D \in Nat
      /\ c * (S * D) \in Nat
  BY <1>1, <1>2
<1>5. c * S + k < hb
  <2>1. (c * S + k) * D = c * (S * D) + k * D
    BY <1>4
  <2>2. (c * S + k) * D < hb * D
    BY <1>2, <1>4, <2>1
  <2>3. c * S + k \in Nat
    BY <1>4
  <2>4. QED
    BY <1>2, <2>2, <2>3, Fewer
<1>6. hb <= c * S + S
  <2>1. n <= (c + 1) * (S * D)
    <3>1. T = c + 1 \/ T < c + 1
      BY <1>3
    <3>2. T < c + 1 => T * (S * D) + S * D <= (c + 1) * (S * D)
                       /\ T * (S * D) \in Nat /\ (c + 1) * (S * D) \in Nat
      BY <1>1, <1>3, RowsApart
    <3>3. QED
      BY <1>1, <1>3, <3>1, <3>2
  <2>2. (c + 1) * (S * D) = (c * S + S) * D
    OBVIOUS
  <2>3. (c * S + S + 1) * D = (c * S + S) * D + D
    BY <1>4
  <2>4. (c * S + S) * D \in Nat
    BY <1>4
  <2>5. hb * D < (c * S + S + 1) * D
    BY <1>2, <1>4, <2>1, <2>2, <2>3, <2>4
  <2>6. hb < c * S + S + 1
    BY <1>2, <1>4, <2>5, Fewer
  <2>7. QED
    BY <1>2, <1>4, <2>6
<1>7. t \in k + 1 .. S /\ hb = c * S + t
  BY <1>2, <1>4, <1>5, <1>6
<1> HIDE DEF t
<1>8. CASE t = S
  <2>1. hb = (c + 1) * S + 0
    BY <1>4, <1>7, <1>8
  <2>2. hb % S = 0
    BY <2>1, Quotient
  <2>3. QED
    BY <2>2 DEF hb
<1>9. CASE t # S
  <2>1. t \in 0 .. S - 1 /\ t > 0 /\ t > k
    BY <1>4, <1>7, <1>9
  <2>2. hb % S = t
    BY <1>7, <2>1, Quotient
  <2>3. QED
    BY <1>4, <2>1, <2>2 DEF hb
<1>10. QED
  BY <1>8, <1>9

LEMMA Divided ==
  ASSUME NEW n \in Nat, NEW K \in Nat \ {0}
  PROVE  /\ n \div K \in Nat /\ n % K \in 0 .. K - 1
         /\ n = (n \div K) * K + (n % K) /\ (n \div K) * K \in Nat
<1>1. n \div K \in Nat /\ n % K \in 0 .. K - 1 /\ n = (n \div K) * K + (n % K)
  BY SMTT(30)
<1>2. QED
  BY <1>1

LEMMA ExpandBottom ==
  ASSUME NEW T, NEW s \in Seq(T), NEW m \in Nat, Len(s) \in 1 .. m
  PROVE  LET e == expand_bottom_edge(s, m)
         IN /\ e \in Seq(T) /\ Len(e) = m
            /\ \A i \in 1 .. Len(s) : e[i] = s[i]
<1> DEFINE tail == [i \in 1 .. m - Len(s) |-> s[Len(s)]]
<1>1. m - Len(s) \in Nat /\ s[Len(s)] \in T
  <2>1. Len(s) \in DOMAIN s /\ Len(s) \in Nat
    OBVIOUS
  <2>2. QED
    BY <2>1
<1>2. tail \in Seq(T) /\ Len(tail) = m - Len(s)
  <2>1. tail \in [1 .. m - Len(s) -> T]
    BY <1>1
  <2>2. QED
    BY <1>1, <2>1
<1> HIDE DEF tail
<1>3. expand_bottom_edge(s, m) = s \o tail
  BY DEF expand_bottom_edge, tail
<1>4. /\ s \o tail \in Seq(T) /\ Len(s \o tail) = Len(s) + Len(tail)
      /\ \A i \in 1 .. Len(s) : (s \o tail)[i] = s[i]
  BY <1>2, Concatenated
<1>5. Len(s) \in Nat
  OBVIOUS
<1>6. Len(s \o tail) = m
  BY <1>2, <1>4, <1>5
<1>7. QED
  BY <1>3, <1>4, <1>6

(* A row of the picture is never taken for a dummy.                        *)
LEMMA RealBlock ==
  ASSUME SizeInv, NEW c \in Nat, NEW i \in 1 .. MCURows,
         MCURows * c + i - 1 < h
  PROVE  BlockRow(c, (i - 1) \div DctSize)
<1> DEFINE D == DctSize
           S == Samp
           k == (i - 1) \div D
           r == (i - 1) % D
<1>1. D \in Nat \ {0} /\ S \in Nat \ {0} /\ h \in Nat /\ MCURows = S * D
  BY JpegConstants DEF SizeInv, MCURows
<1>2. S * D \in Nat /\ i - 1 \in Nat /\ i - 1 < S * D /\ c * (S * D) \in Nat
  BY <1>1
<1>3. k \in Nat /\ r \in 0 .. D - 1 /\ i - 1 = k * D + r /\ k * D \in Nat
  BY <1>1, <1>2, Divided
<1> HIDE DEF k, r
<1>4. k \in 0 .. S - 1
  <2>1. k * D < S * D
    BY <1>1, <1>2, <1>3
  <2>2. k < S
    BY <1>1, <1>3, <2>1, Fewer
  <2>3. QED
    BY <1>1, <1>3, <2>2
<1>5. c * (S * D) + (k * D + r) < h
  <2>1. MCURows * c = c * (S * D)
    BY <1>1
  <2>2. QED
    BY <1>1, <1>2, <1>3, <2>1
<1>6. CASE total_iMCU_rows <= c + 1
  <2>1. jdiv_round_up(h, S * D) <= c + 1
    BY <1>1, <1>6 DEF total_iMCU_rows
  <2>2. k < (IF jdiv_round_up(h, D) % S = 0 THEN S ELSE jdiv_round_up(h, D) % S)
    BY <1>1, <1>3, <1>4, <1>5, <2>1, LastBlocks
  <2>3. k < last_row_height
    BY <2>2 DEF last_row_height, height_in_blocks
  <2>4. QED
    BY <2>3 DEF BlockRow, k
<1>7. CASE ~(total_iMCU_rows <= c + 1)
  <2>1. total_iMCU_rows \in Nat
    BY <1>1, <1>2, RoundUp, Bases DEF total_iMCU_rows
  <2>2. c < total_iMCU_rows - 1
    BY <1>7, <2>1
  <2>3. QED
    BY <2>2 DEF BlockRow
<1>8. QED
  BY <1>6, <1>7

LEMMA CodedRowShows ==
  ASSUME SizeInv, NEW b, NEW c \in Nat, NEW n \in 1 .. DctSize,
         GroupsShow(b, c, n), n = DctSize \/ MCURows * c + Samp * n >= h
  PROVE  LET mcus == MCURow(Padded(b), c)
         IN mcus \in CodedRow /\ ShowsRow(mcus, c)
<1> DEFINE C == MCURows * c
           N == Samp * n
           luma == expand_bottom_edge(b.luma, MCURows)
           chroma == expand_bottom_edge(b.chroma, DctSize)
           mcus == MCURow(Padded(b), c)
<1>1. /\ Samp \in Nat \ {0} /\ DctSize \in Nat \ {0} /\ MCURows \in Nat \ {0}
      /\ C \in Nat /\ N \in Nat /\ h \in Nat /\ n \in Nat /\ n > 0
      /\ N >= Samp /\ N <= MCURows /\ (n = DctSize => N = MCURows)
  <2>1. n \in Nat /\ n > 0 /\ h \in Nat /\ n - 1 \in 0 .. DctSize - 1
    BY JpegConstants DEF SizeInv
  <2>2. /\ Samp \in Nat \ {0} /\ DctSize \in Nat \ {0} /\ MCURows \in Nat \ {0}
        /\ C \in Nat /\ Samp * (n - 1) \in Nat
        /\ Samp * (n - 1 + 1) = Samp * (n - 1) + Samp
        /\ Samp * (n - 1 + 1) <= MCURows
        /\ n - 1 + 1 = DctSize => Samp * (n - 1 + 1) = MCURows
    BY <2>1, Bases
  <2>3. n - 1 + 1 = n
    BY <2>1
  <2>4. N = Samp * (n - 1) + Samp /\ N <= MCURows /\ (n = DctSize => N = MCURows)
    BY <2>2, <2>3
  <2>5. QED
    BY <2>1, <2>2, <2>4
<1>2. /\ b.luma \in Seq(Nat) /\ Len(b.luma) = N
      /\ b.chroma \in Seq(SUBSET Nat) /\ Len(b.chroma) = n
      /\ \A i \in 1 .. N : C + i - 1 < h => b.luma[i] = C + i - 1
      /\ \A j \in 1 .. n : b.chroma[j] = RowsFrom(C + Samp * (j - 1))
  BY DEF GroupsShow
<1>3. n = DctSize \/ C + N >= h
  OBVIOUS
<1> HIDE DEF C, N
<1>4. /\ luma \in Seq(Nat) /\ Len(luma) = MCURows
      /\ \A i \in 1 .. N : luma[i] = b.luma[i]
  <2>1. Len(b.luma) \in 1 .. MCURows
    BY <1>1, <1>2
  <2>2. MCURows \in Nat
    BY <1>1
  <2>3. QED
    BY <1>2, <2>1, <2>2, ExpandBottom
<1>5. /\ chroma \in Seq(SUBSET Nat) /\ Len(chroma) = DctSize
      /\ \A j \in 1 .. n : chroma[j] = b.chroma[j]
  <2>1. Len(b.chroma) \in 1 .. DctSize
    BY <1>1, <1>2
  <2>2. DctSize \in Nat
    BY <1>1
  <2>3. QED
    BY <1>2, <2>1, <2>2, ExpandBottom
<1> HIDE DEF luma, chroma
<1>6. mcus = [luma |-> [i \in 1 .. MCURows |->
                          IF BlockRow(c, (i - 1) \div DctSize)
                          THEN luma[i] ELSE Dummy],
              chroma |-> chroma]
  BY DEF MCURow, Padded, luma, chroma
<1>7. mcus \in CodedRow
  <2>1. \A i \in 1 .. MCURows : luma[i] \in Nat
    BY <1>4
  <2>2. [i \in 1 .. MCURows |-> IF BlockRow(c, (i - 1) \div DctSize)
                                THEN luma[i] ELSE Dummy]
          \in [1 .. MCURows -> Nat \cup {Dummy}]
    BY <2>1
  <2>3. QED
    BY <1>5, <1>6, <2>2 DEF CodedRow
<1>8. ASSUME NEW i \in 1 .. MCURows, C + i - 1 < h
      PROVE  mcus.luma[i] = C + i - 1
  <2>1. i \in 1 .. N
    BY <1>1, <1>3, <1>8
  <2>2. BlockRow(c, (i - 1) \div DctSize)
    BY <1>8, RealBlock DEF C
  <2>3. mcus.luma[i] = luma[i]
    BY <1>6, <2>2
  <2>4. QED
    BY <1>2, <1>4, <1>8, <2>1, <2>3
<1>9. ASSUME NEW j \in 1 .. DctSize, C + Samp * (j - 1) < h
      PROVE  mcus.chroma[j] = RowsFrom(C + Samp * (j - 1))
  <2>1. j \in 1 .. n
    <3>1. CASE n = DctSize
      BY <3>1
    <3>2. CASE C + N >= h
      <4>1. j - 1 \in Nat /\ Samp * (j - 1) \in Nat
        BY <1>1
      <4>2. Samp * (j - 1) < Samp * n
        BY <1>1, <1>9, <3>2, <4>1 DEF N
      <4>3. (j - 1) * Samp < n * Samp
        BY <1>1, <4>1, <4>2
      <4>4. j - 1 < n
        BY <1>1, <4>1, <4>3, Fewer
      <4>5. QED
        BY <1>1, <4>4
    <3>3. QED
      BY <1>3, <3>1, <3>2
  <2>2. mcus.chroma[j] = b.chroma[j]
    BY <1>5, <1>6, <2>1
  <2>3. QED
    BY <1>2, <2>1, <2>2
<1>10. QED
  BY <1>7, <1>8, <1>9 DEF ShowsRow, C

-----------------------------------------------------------------------------
(* The buffers from row to row *)

LEMMA ContentsStep ==
  ASSUME SizeInv, Counted, Collected, Buffered, CodedShows,
         rows_to_go = h - line, line < h,
         w' = w, h' = h, line' = line + 1, process_data(line)
  PROVE  Collected' /\ Buffered' /\ CodedShows'
<1> DEFINE rows == Append(color_buf, line)
           C == MCURows * cur_iMCU_row
           G == Samp * rowgroup_ctr
           full == expand_bottom_edge(rows, Samp)
           down == downsample(full)
           mcus == MCURow(Padded(down), cur_iMCU_row)
<1>1. /\ h \in Nat /\ line \in Nat /\ next_buf_row \in Nat
      /\ rowgroup_ctr \in Nat /\ rowgroup_ctr \in 0 .. DctSize - 1
      /\ cur_iMCU_row \in Nat /\ rows_to_go = h - line /\ line < h
      /\ next_buf_row < Samp /\ next_buf_row = Len(color_buf)
      /\ color_buf \in Seq(Nat)
  BY JpegConstants DEF SizeInv, Counted
<1>2. /\ Samp \in Nat \ {0} /\ DctSize \in Nat \ {0} /\ MCURows \in Nat \ {0}
      /\ C \in Nat /\ G \in Nat
      /\ Samp * (rowgroup_ctr + 1) = G + Samp
      /\ Samp * (rowgroup_ctr + 1) <= MCURows
      /\ rowgroup_ctr + 1 = DctSize => Samp * (rowgroup_ctr + 1) = MCURows
      /\ MCURows * (cur_iMCU_row + 1) = C + MCURows
  BY <1>1, Bases
<1>3. line = C + G + next_buf_row
  BY <1>1 DEF Counted
<1>4. \A i \in 1 .. next_buf_row : color_buf[i] = C + G + i - 1
  BY DEF Collected
<1>5. MCURows' = MCURows /\ CodedRow' = CodedRow
      /\ \A s : RowsFrom(s)' = RowsFrom(s)
  BY DEF MCURows, CodedRow, RowsFrom
<1>6. /\ rows \in Seq(Nat) /\ Len(rows) = next_buf_row + 1
      /\ \A i \in 1 .. Len(rows) : rows[i] = C + G + i - 1
  <2>1. /\ rows \in Seq(Nat) /\ Len(rows) = next_buf_row + 1
        /\ \A i \in 1 .. next_buf_row : rows[i] = color_buf[i]
        /\ rows[next_buf_row + 1] = line
    BY <1>1, Appended
  <2> HIDE DEF rows, C, G
  <2>2. ASSUME NEW i \in 1 .. next_buf_row + 1
        PROVE  rows[i] = C + G + i - 1
    <3>1. CASE i \in 1 .. next_buf_row
      BY <1>4, <2>1, <3>1
    <3>2. CASE i = next_buf_row + 1
      <4>1. line = C + G + i - 1
        BY <1>1, <1>2, <1>3, <3>2
      <4>2. QED
        BY <2>1, <3>2, <4>1
    <3>3. QED
      BY <1>1, <3>1, <3>2
  <2>3. QED
    BY <2>1, <2>2
<1> HIDE DEF rows
<1>7. CASE Len(rows) < Samp /\ rows_to_go > 1
  <2>1. Collect(rows)
    BY <1>7 DEF process_data, rows
  <2>2. /\ color_buf' = rows /\ next_buf_row' = next_buf_row + 1
        /\ rowgroup_ctr' = rowgroup_ctr /\ cur_iMCU_row' = cur_iMCU_row
        /\ buffer' = buffer /\ coded' = coded
    BY <2>1 DEF Collect
  <2>3. Collected'
    BY <1>1, <1>5, <1>6, <2>2 DEF Collected
  <2>4. Buffered'
    BY <1>5, <2>2 DEF Buffered
  <2>5. CodedShows'
    BY <1>5, <2>2 DEF CodedShows, ShowsRow
  <2>6. QED
    BY <2>3, <2>4, <2>5
<1>8. CASE ~(Len(rows) < Samp /\ rows_to_go > 1)
  <2>1. Group(full)
    BY <1>8 DEF process_data, rows
  <2>2. /\ Len(rows) \in 1 .. Samp /\ C + G + Len(rows) <= h
        /\ Len(rows) = Samp \/ C + G + Len(rows) = h
        /\ rows_to_go > 1 => Len(rows) = Samp
        /\ rows_to_go = 1 \/ rows_to_go > 1
    BY <1>1, <1>2, <1>3, <1>6, <1>8
  <2>3. /\ full \in Seq(Nat) /\ Len(full) = Samp
        /\ \A i \in 1 .. Samp : C + G + i - 1 < h => full[i] = C + G + i - 1
        /\ {full[i] : i \in DOMAIN full} = RowsFrom(C + G)
    <3>1. C + G \in Nat
      BY <1>2
    <3> HIDE DEF C, G
    <3>2. QED
      BY <1>6, <2>2, <3>1, GroupRows
  <2> HIDE DEF full
  <2>4. GroupsShow(down, cur_iMCU_row, rowgroup_ctr + 1)
    BY <1>1, <2>3, DownsampleShows
  <2>5. color_buf' = << >> /\ next_buf_row' = 0
    BY <2>1 DEF Group
  <2>6. Collected'
    BY <2>5 DEF Collected
  <2> HIDE DEF down
  <2>7. CASE /\ rowgroup_ctr + 1 < DctSize /\ rows_to_go > 1
             /\ rowgroup_ctr' = rowgroup_ctr + 1 /\ buffer' = down
             /\ cur_iMCU_row' = cur_iMCU_row /\ coded' = coded
    <3>1. CodedShows'
      BY <1>5, <2>7 DEF CodedShows, ShowsRow
    <3>2. \A i \in 1 .. Samp * (rowgroup_ctr + 1) : C + i - 1 < h
      BY <1>1, <1>2, <1>3, <1>6, <2>2, <2>7
    <3>3. /\ down \in [luma : Seq(Nat), chroma : Seq(SUBSET Nat)]
          /\ Len(down.luma) = Samp * (rowgroup_ctr + 1)
          /\ Len(down.chroma) = rowgroup_ctr + 1
          /\ \A i \in 1 .. Samp * (rowgroup_ctr + 1) : down.luma[i] = C + i - 1
          /\ \A j \in 1 .. rowgroup_ctr + 1 :
               down.chroma[j] = RowsFrom(C + Samp * (j - 1))
      BY <2>4, <3>2 DEF GroupsShow
    <3>4. Buffered'
      BY <1>5, <2>7, <3>3 DEF Buffered
    <3>5. QED
      BY <2>6, <3>1, <3>4
  <2>8. CASE /\ rowgroup_ctr + 1 = DctSize \/ rows_to_go = 1
             /\ coded' = Append(coded, mcus)
             /\ cur_iMCU_row' = cur_iMCU_row + 1 /\ rowgroup_ctr' = 0
             /\ buffer' = [luma |-> << >>, chroma |-> << >>]
    <3>1. Samp * 0 = 0
      BY <1>2
    <3>2. Buffered'
      BY <1>5, <2>8, <3>1 DEF Buffered
    <3>3. rowgroup_ctr + 1 = DctSize \/ C + Samp * (rowgroup_ctr + 1) >= h
      BY <1>1, <1>2, <1>3, <1>6, <2>2, <2>8
    <3>4. mcus \in CodedRow /\ ShowsRow(mcus, cur_iMCU_row)
      <4>1. rowgroup_ctr + 1 \in 1 .. DctSize
        BY <1>1, <1>2
      <4>2. QED
        BY <1>1, <2>4, <3>3, <4>1, CodedRowShows
    <3> HIDE DEF mcus
    <3>5. /\ coded \in Seq(CodedRow) /\ Len(coded) = cur_iMCU_row
          /\ \A r \in 1 .. cur_iMCU_row : ShowsRow(coded[r], r - 1)
      BY DEF CodedShows
    <3>6. /\ coded' \in Seq(CodedRow) /\ Len(coded') = cur_iMCU_row + 1
          /\ \A r \in 1 .. cur_iMCU_row : coded'[r] = coded[r]
          /\ coded'[cur_iMCU_row + 1] = mcus
      BY <2>8, <3>4, <3>5, Appended
    <3>7. ASSUME NEW r \in 1 .. cur_iMCU_row + 1
          PROVE  ShowsRow(coded'[r], r - 1)
      <4>1. CASE r \in 1 .. cur_iMCU_row
        BY <3>5, <3>6, <4>1
      <4>2. CASE r = cur_iMCU_row + 1
        <5>1. r - 1 = cur_iMCU_row /\ coded'[r] = mcus
          BY <1>1, <3>6, <4>2
        <5>2. QED
          BY <3>4, <5>1
      <4>3. QED
        BY <1>1, <4>1, <4>2
    <3>8. CodedShows'
      BY <1>5, <2>8, <3>6, <3>7 DEF CodedShows, ShowsRow
    <3>9. QED
      BY <2>6, <3>2, <3>8
  <2>9. QED
    BY <2>1, <2>7, <2>8 DEF Group, down, mcus
<1>9. QED
  BY <1>7, <1>8

LEMMA CodedKept ==
  ASSUME CodedShows, h' = h, coded' = coded, cur_iMCU_row' = cur_iMCU_row
  PROVE  CodedShows'
<1>1. MCURows' = MCURows /\ CodedRow' = CodedRow
      /\ \A s : RowsFrom(s)' = RowsFrom(s)
  BY DEF MCURows, CodedRow, RowsFrom
<1>2. QED
  BY <1>1 DEF CodedShows, ShowsRow

LEMMA ContentAlways == GrabSpec => []ContentInv
<1>1. GrabInit => ContentInv
  BY PictureConstants DEF GrabInit, JpegInit, Init, JpegInv, SizeInv, ContentInv
<1>2. ASSUME ContentInv, JpegInv', [GrabNext]_grabVars
      PROVE  ContentInv'
  <2>1. /\ JpegInv /\ SizeInv /\ w' = w /\ h' = h
    <3>1. JpegInv /\ SizeInv /\ [Next]_vars
      BY <1>2 DEF ContentInv, JpegInv, GrabNext, GetColors, Rows, JpegNext,
                  jpeg_write_scanlines, Next, grabVars, vars
    <3>2. QED
      BY <3>1, SizeStep
  <2>2. /\ MCURows' = MCURows /\ CodedRow' = CodedRow
        /\ \A s : RowsFrom(s)' = RowsFrom(s)
        /\ total_iMCU_rows' = total_iMCU_rows
    BY <2>1 DEF MCURows, CodedRow, RowsFrom, total_iMCU_rows
  <2>3. CASE UNCHANGED jpegVars
    <3>1. Collected' <=> Collected
      BY <2>2, <2>3 DEF jpegVars, Collected
    <3>2. Buffered' <=> Buffered
      BY <2>2, <2>3 DEF jpegVars, Buffered
    <3>3. CodedShows => CodedShows'
      BY <2>1, <2>3, CodedKept DEF jpegVars
    <3>4. QED
      BY <1>2, <2>2, <2>3, <3>1, <3>2, <3>3 DEF jpegVars, ContentInv
  <2>4. CASE StartCompress
    <3>1. /\ global_state = "start" /\ global_state' = "scanning"
          /\ next_buf_row' = 0 /\ rowgroup_ctr' = 0 /\ cur_iMCU_row' = 0
          /\ buffer' = [luma |-> << >>, chroma |-> << >>] /\ coded' = << >>
      BY <1>2, <2>1, <2>4 DEF StartCompress, ContentInv, JpegInv
    <3>2. Samp * 0 = 0
      BY JpegConstants
    <3>3. Collected' /\ Buffered' /\ CodedShows'
      BY <3>1, <3>2 DEF Collected, Buffered, CodedShows
    <3>4. QED
      BY <1>2, <3>1, <3>3 DEF ContentInv
  <2>5. CASE FinishCompress
    <3>1. /\ global_state = "scanning" /\ global_state' = "finished" /\ line = h
          /\ cur_iMCU_row' = cur_iMCU_row /\ coded' = coded
      BY <2>5 DEF FinishCompress
    <3>2. CodedShows'
      BY <1>2, <2>1, <3>1, CodedKept DEF ContentInv
    <3>3. cur_iMCU_row' = total_iMCU_rows'
      BY <2>1, <2>2, <3>1 DEF JpegInv, Counted
    <3>4. QED
      BY <1>2, <3>1, <3>2, <3>3 DEF ContentInv
  <2>6. CASE jpeg_write_scanlines
    <3>1. /\ global_state = "scanning" /\ global_state' = "scanning"
          /\ rows_to_go = h - line /\ Counted /\ line < h
          /\ line' = line + 1 /\ process_data(line)
      BY <2>1, <2>6 DEF jpeg_write_scanlines, WriteScanline, AppendLine, JpegInv
    <3>2. Collected' /\ Buffered' /\ CodedShows'
      BY <1>2, <2>1, <3>1, ContentsStep DEF ContentInv
    <3>3. QED
      BY <1>2, <3>1, <3>2 DEF ContentInv
  <2>7. QED
    BY <1>2, <2>3, <2>4, <2>5, <2>6 DEF GrabNext, GetColors, Rows, JpegNext,
       grabVars, jpegVars
<1>3. QED
  BY <1>1, <1>2, JpegAlways, PTL DEF GrabSpec

-----------------------------------------------------------------------------
(* What a reader of the JPEG finds *)

LEMMA InSquare ==
  ASSUME NEW S \in Nat \ {0}, NEW i \in Nat, NEW Y \in Nat
  PROVE  i \div S = Y <=> Y * S <= i /\ i < Y * S + S
<1>1. /\ i \div S \in Nat /\ i % S \in 0 .. S - 1
      /\ i = (i \div S) * S + (i % S) /\ (i \div S) * S \in Nat
  BY Divided
<1>2. Y * S \in Nat
  OBVIOUS
<1>3. ASSUME Y * S <= i, i < Y * S + S
      PROVE  i \div S = Y
  <2>1. i - Y * S \in 0 .. S - 1 /\ i = Y * S + (i - Y * S)
    BY <1>2, <1>3
  <2>2. (Y * S + (i - Y * S)) \div S = Y
    BY <2>1, Quotient
  <2>3. QED
    BY <2>1, <2>2
<1>4. ASSUME i \div S = Y
      PROVE  Y * S <= i /\ i < Y * S + S
  BY <1>1, <1>2, <1>4
<1>5. QED
  BY <1>3, <1>4

LEMMA LumaColumnIs ==
  ASSUME SizeInv, NEW x \in 0 .. w - 1
  PROVE  LumaColumn(x) = x
<1> DEFINE block == x \div DctSize
           MCU == block \div Samp
           k == block % Samp
           r == x % DctSize
<1>1. /\ DctSize \in Nat \ {0} /\ Samp \in Nat \ {0} /\ w \in Nat /\ x \in Nat
  BY JpegConstants DEF SizeInv
<1>2. /\ block \in Nat /\ r \in 0 .. DctSize - 1 /\ x = block * DctSize + r
  BY <1>1, Divided
<1> HIDE DEF block, r
<1>3. /\ MCU \in Nat /\ k \in 0 .. Samp - 1 /\ block = MCU * Samp + k
  BY <1>1, <1>2, Divided
<1> HIDE DEF MCU, k
<1>4. k \in Nat /\ r \in Nat /\ Samp * DctSize \in Nat
      /\ MCU * (Samp * DctSize) \in Nat /\ k * DctSize \in Nat
  <2>1. k \in Nat /\ r \in Nat /\ Samp * DctSize \in Nat
    BY <1>1, <1>2, <1>3
  <2>2. QED
    BY <1>1, <1>3, <2>1
<1>5. x = MCU * (Samp * DctSize) + (k * DctSize + r)
  <2>1. block * DctSize = MCU * (Samp * DctSize) + k * DctSize
    BY <1>1, <1>3
  <2>2. QED
    BY <1>1, <1>2, <1>4, <2>1
<1>6. MCU < MCUs_per_row - 1 \/ k < last_col_width
  <2>1. MCUs_per_row \in Nat /\ Samp * DctSize \in Nat \ {0}
    <3>1. Samp * DctSize \in Nat \ {0}
      <4>1. 0 * DctSize + DctSize <= Samp * DctSize
        BY <1>1, RowsApart
      <4>2. QED
        BY <1>1, <1>4, <4>1
    <3>2. QED
      BY <1>1, <3>1, RoundUp DEF MCUs_per_row
  <2>2. CASE MCUs_per_row <= MCU + 1
    <3>1. jdiv_round_up(w, Samp * DctSize) <= MCU + 1
      BY <2>2 DEF MCUs_per_row
    <3>2. MCU * (Samp * DctSize) + (k * DctSize + r) < w
      BY <1>1, <1>5
    <3>3. LET hb == jdiv_round_up(w, DctSize)
          IN k < (IF hb % Samp = 0 THEN Samp ELSE hb % Samp)
      BY <1>1, <1>2, <1>3, <3>1, <3>2, LastBlocks
    <3>4. QED
      BY <3>3 DEF last_col_width, width_in_blocks
  <2>3. CASE ~(MCUs_per_row <= MCU + 1)
    BY <1>3, <2>1, <2>3
  <2>4. QED
    BY <2>2, <2>3
<1>7. Expanded(x) = x
  BY <1>1 DEF Expanded
<1>8. QED
  BY <1>6, <1>7 DEF LumaColumn, block, MCU, k

LEMMA ChromaColumnIs ==
  ASSUME SizeInv, NEW x \in 0 .. w - 1
  PROVE  ChromaColumn(x \div Samp) = Square(x, w)
<1> DEFINE X == x \div Samp
           s == Samp * X
<1>1. Samp \in Nat \ {0} /\ w \in Nat /\ x \in Nat /\ w > 0
  BY JpegConstants DEF SizeInv
<1>2. X \in Nat /\ X * Samp <= x /\ x < X * Samp + Samp
  <2>1. X \in Nat
    BY <1>1, Divided
  <2>2. QED
    BY <1>1, <2>1, InSquare
<1> HIDE DEF X
<1>3. s = X * Samp /\ s \in Nat
  BY <1>1, <1>2
<1>4. \A i \in Nat : i \div Samp = X <=> s <= i /\ i < s + Samp
  BY <1>1, <1>2, <1>3, InSquare
<1> HIDE DEF s
<1>5. ASSUME NEW i \in 0 .. Samp - 1
      PROVE  Expanded(s + i) \in Square(x, w)
  <2>1. /\ Expanded(s + i) \in 0 .. w - 1
        /\ s <= Expanded(s + i) /\ Expanded(s + i) < s + Samp
    BY <1>1, <1>2, <1>3 DEF Expanded
  <2>2. Expanded(s + i) \div Samp = X
    BY <1>1, <1>4, <2>1
  <2>3. QED
    BY <2>1, <2>2 DEF Square, X
<1>6. ASSUME NEW n \in Square(x, w)
      PROVE  \E i \in 0 .. Samp - 1 : Expanded(s + i) = n
  <2>1. n \in 0 .. w - 1 /\ n \div Samp = X
    BY DEF Square, X
  <2>2. s <= n /\ n < s + Samp /\ n \in Nat
    BY <1>1, <1>4, <2>1
  <2>3. n - s \in 0 .. Samp - 1 /\ s + (n - s) = n
    BY <1>1, <1>3, <2>2
  <2>4. Expanded(n) = n
    BY <1>1, <2>1 DEF Expanded
  <2>5. QED
    BY <2>3, <2>4
<1>7. ChromaColumn(X) = {Expanded(s + i) : i \in 0 .. Samp - 1}
  BY DEF ChromaColumn, s
<1>8. ChromaColumn(X) = Square(x, w)
  BY <1>5, <1>6, <1>7
<1>9. QED
  BY <1>8 DEF X

(* Row y of the picture lies in a row of MCUs that is coded.               *)
LEMMA RowIsCoded ==
  ASSUME SizeInv, NEW y \in Nat, NEW q \in Nat, q * MCURows <= y, y < h
  PROVE  q + 1 \in 1 .. total_iMCU_rows
<1>1. MCURows \in Nat \ {0} /\ h \in Nat /\ 0 \in 0 .. DctSize - 1
  BY JpegConstants, Bases DEF SizeInv
<1>2. total_iMCU_rows \in Nat /\ h <= total_iMCU_rows * MCURows
  BY <1>1, RoundUp DEF total_iMCU_rows
<1>3. q * MCURows \in Nat /\ total_iMCU_rows * MCURows \in Nat
  BY <1>1, <1>2
<1>4. q * MCURows < total_iMCU_rows * MCURows
  BY <1>1, <1>2, <1>3
<1>5. q < total_iMCU_rows
  BY <1>1, <1>2, <1>4, Fewer
<1>6. QED
  BY <1>2, <1>5

LEMMA RowsAreShown ==
  ASSUME SizeInv, CodedShows, cur_iMCU_row = total_iMCU_rows,
         NEW y \in 0 .. h - 1
  PROVE  LumaRow(y) = y /\ ChromaRow(y \div Samp) = Square(y, h)
<1>1. /\ h \in Nat /\ y \in Nat /\ 0 \in 0 .. DctSize - 1
      /\ Samp \in Nat \ {0} /\ DctSize \in Nat \ {0}
      /\ MCURows = Samp * DctSize
  BY JpegConstants DEF SizeInv, MCURows
<1>2. MCURows \in Nat \ {0}
  BY <1>1, Bases
<1>3. \A q \in Nat : q * MCURows <= y => ShowsRow(coded[q + 1], q)
  <2>1. ASSUME NEW q \in Nat, q * MCURows <= y
        PROVE  ShowsRow(coded[q + 1], q)
    <3>1. q + 1 \in 1 .. cur_iMCU_row
      BY <1>1, <2>1, RowIsCoded
    <3>2. ShowsRow(coded[q + 1], (q + 1) - 1)
      BY <3>1 DEF CodedShows
    <3>3. (q + 1) - 1 = q
      OBVIOUS
    <3>4. QED
      BY <3>2, <3>3
  <2>2. QED
    BY <2>1
<1>4. LumaRow(y) = y
  <2> DEFINE q == y \div MCURows
             r == y % MCURows
  <2>1. /\ q \in Nat /\ r \in 0 .. MCURows - 1
        /\ y = q * MCURows + r /\ q * MCURows \in Nat
    BY <1>1, <1>2, Divided
  <2> HIDE DEF q, r
  <2>2. q * MCURows <= y
    BY <1>1, <1>2, <2>1
  <2>3. ShowsRow(coded[q + 1], q)
    BY <1>3, <2>1, <2>2
  <2>4. r + 1 \in 1 .. MCURows /\ MCURows * q + (r + 1) - 1 = y
    <3>1. MCURows * q = q * MCURows
      BY <1>2, <2>1
    <3>2. QED
      BY <1>1, <1>2, <2>1, <3>1
  <2>5. coded[q + 1].luma[r + 1] = y
    BY <1>1, <2>3, <2>4 DEF ShowsRow
  <2>6. QED
    BY <2>5 DEF LumaRow, q, r
<1>5. ChromaRow(y \div Samp) = Square(y, h)
  <2> DEFINE Y == y \div Samp
             q == Y \div DctSize
             j == Y % DctSize
  <2>1. Y \in Nat /\ Y * Samp <= y /\ Y * Samp \in Nat
    <3>1. Y \in Nat
      BY <1>1, Divided
    <3>2. QED
      BY <1>1, <3>1, InSquare
  <2> HIDE DEF Y
  <2>2. q \in Nat /\ j \in 0 .. DctSize - 1 /\ Y = q * DctSize + j
    BY <1>1, <2>1, Divided
  <2> HIDE DEF q, j
  <2>3. j \in Nat /\ j + 1 \in 1 .. DctSize /\ (j + 1) - 1 = j
    BY <1>1, <2>2
  <2>4. /\ MCURows * q + Samp * j = Y * Samp
        /\ q * MCURows = MCURows * q /\ MCURows * q \in Nat /\ Samp * j \in Nat
    <3>1. Y * Samp = q * (Samp * DctSize) + j * Samp
      BY <1>1, <2>2, <2>3
    <3>2. QED
      BY <1>1, <1>2, <2>2, <2>3, <3>1
  <2>5. q * MCURows <= y
    BY <1>1, <2>1, <2>4
  <2>6. ShowsRow(coded[q + 1], q)
    BY <1>3, <2>2, <2>5
  <2>7. MCURows * q + Samp * ((j + 1) - 1) = Y * Samp /\ Y * Samp < h
    BY <1>1, <2>1, <2>3, <2>4
  <2>8. coded[q + 1].chroma[j + 1] = RowsFrom(Y * Samp)
    BY <2>3, <2>6, <2>7 DEF ShowsRow
  <2>9. RowsFrom(Y * Samp) = Square(y, h)
    <3>1. \A n \in 0 .. h - 1 :
            n \div Samp = Y <=> Y * Samp <= n /\ n < Y * Samp + Samp
      BY <1>1, <2>1, InSquare
    <3>2. QED
      BY <3>1 DEF RowsFrom, Square, Y
  <2>10. QED
    BY <2>8, <2>9 DEF ChromaRow, q, j, Y
<1>6. QED
  BY <1>4, <1>5

(* A reader of the JPEG finds every pixel's luminance in its place and the *)
(* chrominance of the square it is in, for pictures of any size, blocks of *)
(* any size and every sampling factor.                                     *)
THEOREM JpegShowsScreenCorrect == GrabSpec => []JpegShowsScreen
<1>1. ASSUME ContentInv, global_state = "finished",
             NEW x \in 0 .. w - 1, NEW y \in 0 .. h - 1
      PROVE  /\ LumaColumn(x) = x /\ LumaRow(y) = y
             /\ ChromaColumn(x \div Samp) = Square(x, w)
             /\ ChromaRow(y \div Samp) = Square(y, h)
  <2>1. SizeInv /\ CodedShows /\ cur_iMCU_row = total_iMCU_rows
    BY <1>1 DEF ContentInv, JpegInv
  <2>2. QED
    BY <2>1, LumaColumnIs, ChromaColumnIs, RowsAreShown
<1>2. ContentInv => JpegShowsScreen
  BY <1>1 DEF JpegShowsScreen
<1>3. QED
  BY <1>2, ContentAlways, PTL

=============================================================================
