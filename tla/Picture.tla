------------------------------- MODULE Picture -------------------------------
(***************************************************************************)
(* Where the pixels go: from the screen to img.data (convert_to_colorbuf   *)
(* of src/grabbers/x11_grabber.c), and from there to the file (write_bmp   *)
(* of src/shot/o_bmp.c, write_jpeg of src/shot/o_jpeg.c).  The grabber     *)
(* puts the first row of the screen first or last, as main has chosen for  *)
(* the output, and the output relies on that.                              *)
(*                                                                         *)
(* <<x, y, c>> is the value of colour c (0 red, 1 green, 2 blue) of the    *)
(* pixel in column x and row y of the screen.                              *)
(***************************************************************************)
EXTENDS Integers

CONSTANTS
  Widths, Heights,   \* the screens
  Unset, Padding     \* a byte nobody has written, and the 0 of a padded line

ASSUME PictureConstants ==
  /\ Widths \subseteq Nat \ {0} /\ Heights \subseteq Nat \ {0}

VARIABLES
  w, h,      \* the size of the picture
  format,    \* the output
  data,      \* img.data
  row,       \* the next row of the screen to convert
  line,      \* the next line of the file to write
  out        \* the lines in the file, one behind the other

vars == <<w, h, format, data, row, line, out>>

(* The bytes of a row in img.data.                                         *)
Stride == 3 * w

Bytes == 0 .. Stride * h - 1

Init ==
  /\ w \in Widths /\ h \in Heights
  /\ format \in {"jpg", "bmp"}
  /\ data = [p \in Bytes |-> Unset]
  /\ row = 0 /\ line = 0
  /\ out = [p \in {} |-> Unset]

-----------------------------------------------------------------------------
(* From the screen to img.data *)

(* Mutant: a picture that begins at the bottom has a row above its first.  *)
FirstByte_OneOver(y) == (h - y) * Stride

(* main: a JPEG begins at the upper left, a BMP at the lower left.         *)
OriginBottom == format = "bmp"

(* Where a row begins in img.data.                                         *)
FirstByte(y) ==
  IF OriginBottom THEN Stride * (h - 1) - y * Stride ELSE y * Stride

RowBytes(y) == FirstByte(y) .. FirstByte(y) + Stride - 1

(* One row of the screen is converted.                                     *)
ConvertRow ==
  /\ row < h
  /\ data' = [p \in Bytes |->
                IF p \in RowBytes(row)
                THEN <<(p - FirstByte(row)) \div 3, row, (p - FirstByte(row)) % 3>>
                ELSE data[p]]
  /\ row' = row + 1
  /\ UNCHANGED <<w, h, format, line, out>>

-----------------------------------------------------------------------------
(* From img.data to the file *)

(* Mutant: a line is padded also when it needs no padding.                 *)
BmpLine_Always == (Stride \div 4) * 4 + 4

(* The bytes of a line in a BMP: rounded up to a multiple of four.         *)
BmpLine == IF Stride % 4 = 0 THEN Stride ELSE (Stride \div 4) * 4 + 4

LineLength == IF format = "bmp" THEN BmpLine ELSE Stride

(* Byte i of line n.  In a BMP: blue, green and red of one pixel after the *)
(* other, then zeros.  A JPEG takes the row as it is.                      *)
LineByte(n, i) ==
  IF format = "jpg" THEN data[n * Stride + i]
  ELSE IF i < Stride THEN data[n * Stride + 3 * (i \div 3) + 2 - (i % 3)]
  ELSE Padding

(* The next line is written behind the others.                             *)
AppendLine ==
  /\ row = h /\ line < h
  /\ out' = [p \in 0 .. LineLength * (line + 1) - 1 |->
                IF p < LineLength * line
                THEN out[p] ELSE LineByte(line, p - LineLength * line)]
  /\ line' = line + 1
  /\ UNCHANGED <<w, h, format, data, row>>

WriteLine == format = "bmp" /\ AppendLine

(* jpeg_write_scanlines takes the row that next_scanline points to.        *)
WriteScanline == format = "jpg" /\ AppendLine

Next == ConvertRow \/ WriteLine \/ WriteScanline

Spec == Init /\ [][Next]_vars

-----------------------------------------------------------------------------
(* Properties *)

(* The conversion never leaves the three bytes a pixel has in img.data:    *)
(* this is the area CaptureLoop compares with the one that was allocated.  *)
InBuffer == row < h => RowBytes(row) \subseteq Bytes

(* Byte c of the pixel in column x and row y of the screen, for a reader   *)
(* of the file: the lines of a BMP begin with the bottom one, are padded   *)
(* to four, and have blue first; those of a JPEG begin with the top one.   *)
Read(x, y, c) ==
  IF format = "bmp"
  THEN out[(h - 1 - y) * (((24 * w + 31) \div 32) * 4) + 3 * x + 2 - c]
  ELSE out[y * Stride + 3 * x + c]

(* The file shows the screen: every pixel is in its place and has its      *)
(* colours, although grabber, main and output each turn rows around.       *)
FileShowsScreen ==
  line = h =>
    \A x \in 0 .. w - 1, y \in 0 .. h - 1, c \in 0 .. 2 :
      Read(x, y, c) = <<x, y, c>>

=============================================================================
