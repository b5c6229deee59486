------------------------------ MODULE JpegFile -------------------------------
(***************************************************************************)
(* What libjpeg-turbo does with the rows write_jpeg gives it, one per call *)
(* of jpeg_write_scanlines (src/lib/jpeg-turbo, single pass, YCbCr with    *)
(* halved chrominance, as jpeg_set_defaults chooses for RGB): the          *)
(* preprocessor collects a row group, the main controller collects the     *)
(* row groups of a row of MCUs, and the coefficient controller cuts those  *)
(* into blocks.  At the right and at the bottom each of the three fills up *)
(* what is missing.                                                        *)
(*                                                                         *)
(* A sample is known by the pixels it was made from.  Rows are followed    *)
(* through the buffers by their numbers; what happens to the columns is    *)
(* the same in each row and needs no state.  The transform, the Huffman    *)
(* codes and the colours are left out; the file destination never suspends *)
(* the compressor.                                                         *)
(***************************************************************************)
EXTENDS Picture, Sequences

CONSTANTS
  DctSize,    \* DCTSIZE: the samples of a block, across and down (8)
  Samp,       \* h_samp_factor and v_samp_factor of the luminance (2)
  Dummy       \* a sample of a block that holds no part of the picture

ASSUME JpegConstants == DctSize \in Nat \ {0} /\ Samp \in Nat \ {0}

VARIABLES
  global_state,   \* of the compressor: start, scanning, or finished
  next_buf_row,   \* rows in color_buf
  rows_to_go,     \* rows of the picture that have not come yet
  color_buf,      \* the row group being collected: the number of each row
  rowgroup_ctr,   \* row groups in buffer
  buffer,         \* per row of luminance its row, per row of chrominance its rows
  cur_iMCU_row,   \* rows of MCUs coded
  coded           \* those rows

jpegVars == <<global_state, next_buf_row, rows_to_go, color_buf,
              rowgroup_ctr, buffer, cur_iMCU_row, coded>>

MCURows == Samp * DctSize

jdiv_round_up(a, b) == (a + b - 1) \div b

(* Mutant: a row of MCUs that is not full is not counted.                  *)
total_iMCU_rows_Down == h \div MCURows

total_iMCU_rows == jdiv_round_up(h, MCURows)

JpegInit ==
  /\ global_state = "start"
  /\ next_buf_row = 0 /\ rows_to_go = 0
  /\ color_buf = << >>
  /\ rowgroup_ctr = 0
  /\ buffer = [luma |-> << >>, chroma |-> << >>]
  /\ cur_iMCU_row = 0
  /\ coded = << >>

(* jpeg_start_compress and the start_pass of each part.                    *)
StartCompress ==
  /\ format = "jpg" /\ row = h
  /\ global_state = "start"
  /\ global_state' = "scanning"
  /\ rows_to_go' = h
  /\ UNCHANGED <<next_buf_row, color_buf, rowgroup_ctr, buffer,
                 cur_iMCU_row, coded>>

-----------------------------------------------------------------------------
(* Rows *)

(* The last row is repeated until there are n.                             *)
expand_bottom_edge(rows, n) ==
  rows \o [i \in 1 .. n - Len(rows) |-> rows[Len(rows)]]

(* One row group more: the rows as luminance, and one row of chrominance   *)
(* made from all of them.                                                  *)
downsample(rows) ==
  [luma   |-> buffer.luma \o rows,
   chroma |-> Append(buffer.chroma, {rows[i] : i \in DOMAIN rows})]

Padded(b) == [luma   |-> expand_bottom_edge(b.luma, MCURows),
              chroma |-> expand_bottom_edge(b.chroma, DctSize)]

height_in_blocks == jdiv_round_up(h, DctSize)

(* Rows of luminance blocks in the last row of MCUs.                       *)
last_row_height ==
  IF height_in_blocks % Samp = 0 THEN Samp ELSE height_in_blocks % Samp

(* Mutant: one row of blocks too few in the last row of MCUs.              *)
BlockRow_Few(r, k) ==
  r < total_iMCU_rows - 1 \/ k < last_row_height - 1

(* Row k of luminance blocks is made from the picture.                     *)
BlockRow(r, k) == r < total_iMCU_rows - 1 \/ k < last_row_height

(* compress_data: a row of MCUs is coded.  Dummy blocks below the picture. *)
MCURow(b, r) ==
  [luma   |-> [i \in 1 .. MCURows |->
                 IF BlockRow(r, (i - 1) \div DctSize) THEN b.luma[i] ELSE Dummy],
   chroma |-> b.chroma]

(* The row group is not complete: the row is kept.                         *)
Collect(rows) ==
  /\ color_buf' = rows
  /\ next_buf_row' = next_buf_row + 1
  /\ UNCHANGED <<rowgroup_ctr, buffer, cur_iMCU_row, coded>>

(* The row group goes to the main buffer.                                  *)
Group(rows) ==
  /\ color_buf' = << >> /\ next_buf_row' = 0
  /\ \/ /\ rowgroup_ctr + 1 < DctSize /\ rows_to_go > 1
        /\ rowgroup_ctr' = rowgroup_ctr + 1
        /\ buffer' = downsample(rows)
        /\ UNCHANGED <<cur_iMCU_row, coded>>
     \/ /\ rowgroup_ctr + 1 = DctSize \/ rows_to_go = 1
        /\ coded' = Append(coded, MCURow(Padded(downsample(rows)), cur_iMCU_row))
        /\ cur_iMCU_row' = cur_iMCU_row + 1
        /\ rowgroup_ctr' = 0
        /\ buffer' = [luma |-> << >>, chroma |-> << >>]

(* Mutant: a row group is only passed on when it is full.                  *)
process_data_NoEdge(y) ==
  LET rows == Append(color_buf, y)
  IN /\ cur_iMCU_row < total_iMCU_rows
     /\ rows_to_go' = rows_to_go - 1
     /\ IF Len(rows) < Samp THEN Collect(rows) ELSE Group(rows)

(* process_data of the main controller, with one row.  When all rows of    *)
(* MCUs are coded it takes none, and the loop of write_jpeg does not end.  *)
process_data(y) ==
  LET rows == Append(color_buf, y)
  IN /\ cur_iMCU_row < total_iMCU_rows
     /\ rows_to_go' = rows_to_go - 1
     /\ IF Len(rows) < Samp /\ rows_to_go > 1
        THEN Collect(rows)
        ELSE Group(expand_bottom_edge(rows, Samp))

jpeg_write_scanlines ==
  /\ global_state = "scanning"
  /\ WriteScanline
  /\ process_data(line)
  /\ UNCHANGED global_state

(* jpeg_finish_compress.                                                   *)
FinishCompress ==
  /\ global_state = "scanning" /\ line = h
  /\ global_state' = "finished"
  /\ UNCHANGED <<next_buf_row, rows_to_go, color_buf, rowgroup_ctr, buffer,
                 cur_iMCU_row, coded>>

JpegNext ==
  \/ (ConvertRow \/ WriteLine) /\ UNCHANGED jpegVars
  \/ (StartCompress \/ FinishCompress) /\ UNCHANGED vars
  \/ jpeg_write_scanlines

-----------------------------------------------------------------------------
(* Columns *)

MCUs_per_row == jdiv_round_up(w, Samp * DctSize)

width_in_blocks == jdiv_round_up(w, DctSize)

(* Columns of luminance blocks in the last MCU of a row.                   *)
last_col_width ==
  IF width_in_blocks % Samp = 0 THEN Samp ELSE width_in_blocks % Samp

(* expand_right_edge: the pixel that column j of a row holds.              *)
Expanded(j) == IF j < w THEN j ELSE w - 1

(* Column j of luminance over all MCUs, and of chrominance.                *)
LumaColumn(j) ==
  LET block == j \div DctSize
      MCU == block \div Samp
  IN IF MCU < MCUs_per_row - 1 \/ (block % Samp) < last_col_width
     THEN Expanded(j) ELSE Dummy

ChromaColumn(j) == {Expanded(Samp * j + i) : i \in 0 .. Samp - 1}

-----------------------------------------------------------------------------
(* Properties *)

(* A reader of the JPEG finds sample (x, y) of the luminance in row y of   *)
(* the rows of MCUs, one below the other, and column x of the MCUs, one    *)
(* beside the other; and of the chrominance in the same way with Samp      *)
(* columns and rows for one.                                               *)
LumaRow(y) == coded[(y \div MCURows) + 1].luma[(y % MCURows) + 1]
ChromaRow(y) == coded[(y \div DctSize) + 1].chroma[(y % DctSize) + 1]

(* The side of the square that pixel number n of size is in.               *)
Square(n, size) ==
  {i \in 0 .. size - 1 : i \div Samp = n \div Samp}

(* The picture in the JPEG is the one that was given: each pixel has its   *)
(* own luminance, and the colour of the square it is in, cut off at the    *)
(* edges of the picture.  Three buffers that fill up on their own at the   *)
(* bottom, and padding at the right, neither lose nor shift a row.         *)
JpegShowsScreen ==
  global_state = "finished" =>
    \A x \in 0 .. w - 1, y \in 0 .. h - 1 :
      /\ LumaColumn(x) = x /\ LumaRow(y) = y
      /\ ChromaColumn(x \div Samp) = Square(x, w)
      /\ ChromaRow(y \div Samp) = Square(y, h)

(* The last row of the picture empties all buffers: nothing is left in the *)
(* compressor when jpeg_finish_compress is called, and every row of MCUs   *)
(* the header announces is there.                                          *)
NothingLeft ==
  global_state = "scanning" /\ line = h =>
    /\ next_buf_row = 0 /\ rowgroup_ctr = 0
    /\ cur_iMCU_row = total_iMCU_rows

(* write_jpeg calls jpeg_write_scanlines until all rows are taken: it comes *)
(* to an end, because the compressor has counted as many rows of MCUs as    *)
(* it needs to take them.                                                   *)
JpegEnds == <>(format = "jpg" => global_state = "finished")

=============================================================================
