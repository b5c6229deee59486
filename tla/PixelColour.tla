----------------------------- MODULE PixelColour -----------------------------
(***************************************************************************)
(* How the colour of a pixel is found (src/grabbers/x11_grabber.c):        *)
(* find_colors asks the server for a table of colours, once per picture,   *)
(* and convert_to_colorbuf looks up each channel of a pixel in it.         *)
(*                                                                         *)
(* Fields of bits are stated by arithmetic: a shift is a division, a mask  *)
(* is the value of its lowest bit and how many values the field has.  A    *)
(* colour channel of the server has twice the bits of a byte; everything   *)
(* is scaled to bytes of Levels values.                                    *)
(***************************************************************************)
EXTENDS Integers

CONSTANTS
  Levels,     \* the values of a byte (256)
  Visuals     \* the visuals the screen may have, by their name

ASSUME ColourConstants ==
  /\ Levels \in Nat \ {0, 1}
  /\ Visuals \subseteq {"true", "pseudo", "wide", "reversed"}

VARIABLES
  visual,   \* the name of the visual
  colors    \* the table

colourVars == <<visual, colors>>

Byte == 0 .. Levels - 1
Channels == {"red", "green", "blue"}

-----------------------------------------------------------------------------
(* The visuals of the server *)

(* map_entries: a channel of the wide visual has one bit more.             *)
ncolors == IF visual = "wide" THEN 2 * Levels ELSE Levels

(* Channels of a byte each; indices; channels of more than a byte, as on a *)
(* screen of depth 30; and channels of a byte, blue first.                 *)
Masks ==
  LET low == [unit |-> 1, levels |-> ncolors]
      mid == [unit |-> ncolors, levels |-> ncolors]
      high == [unit |-> ncolors * ncolors, levels |-> ncolors]
  IN IF visual = "reversed"
     THEN [red |-> low, green |-> mid, blue |-> high]
     ELSE [red |-> high, green |-> mid, blue |-> low]

(* The colour map of an indexed visual may have fewer entries than a pixel *)
(* has values.                                                             *)
Pixels ==
  IF visual = "pseudo" THEN 0 .. 2 * ncolors - 1
  ELSE 0 .. ncolors * ncolors * ncolors - 1

Field(p, mask) == (p \div mask.unit) % mask.levels

(* The colour of the server for one of so many values.                     *)
Scaled(value, levels) ==
  (value * (Levels * Levels - 1)) \div (levels - 1)

(* What the server shows for a pixel.  The colour map of an indexed visual *)
(* is a ramp of red, its inverse and grey.                                 *)
Shown(p) ==
  IF visual = "pseudo"
  THEN [red   |-> Scaled(p, Levels),
        green |-> Scaled(Levels - 1 - p, Levels),
        blue  |-> Scaled(Levels \div 2, Levels)]
  ELSE [c \in Channels |-> Scaled(Field(p, Masks[c]), Masks[c].levels)]

-----------------------------------------------------------------------------
(* find_colors *)

(* The pixel of entry i: an index, or i in every channel, each counted up  *)
(* by the lowest bit of its mask and set to 0 when it passes the mask.     *)
TablePixel(i) ==
  IF visual = "pseudo" THEN i
  ELSE LET at(mask) == (i % mask.levels) * mask.unit
       IN at(Masks["red"]) + at(Masks["green"]) + at(Masks["blue"])

NoTable == << >>

ColourInit ==
  /\ visual \in Visuals
  /\ colors = NoTable

(* XQueryColors tells what the server shows for each.                      *)
FindColors ==
  /\ colors = NoTable
  /\ colors' = [i \in 0 .. ncolors - 1 |-> Shown(TablePixel(i))]
  /\ UNCHANGED visual

-----------------------------------------------------------------------------
(* convert_to_colorbuf *)

(* Shifts by 16, by 8 and by no bits.                                      *)
Shift == [red |-> Levels * Levels, green |-> Levels, blue |-> 1]

(* Mutant: the channel is not shifted down.                                *)
RawIndex_AsItIs(p, c) == Field(p, Masks[c]) * Masks[c].unit

(* (pixel & mask) >> shift                                                 *)
RawIndex(p, c) ==
  (Field(p, Masks[c]) * Masks[c].unit) \div Shift[c]

(* Mutant: all channels are shifted alike.                                 *)
CpIndex_Red(p, c) ==
  LET index == (Field(p, Masks[c]) * Masks[c].unit) \div Shift["red"]
  IN IF index > ncolors THEN 0 ELSE index

(* GET_COLOR_INDEX: an index that is out of range is taken for 0.          *)
CpIndex(p, c) ==
  IF visual = "pseudo" THEN p
  ELSE IF RawIndex(p, c) > ncolors THEN 0 ELSE RawIndex(p, c)

(* An index past the colour map is logged and passed over.                 *)
PassedOver(p) == visual = "pseudo" /\ ~ (p < ncolors)

(* What may be in the buffer for a channel of a pixel: the low byte of the *)
(* colour.  What is read past the table is any byte, and for a pixel that  *)
(* is passed over nothing is stored: the byte is what malloc has found, or *)
(* that of the picture before.                                             *)
Stored(p, c) ==
  IF ~ PassedOver(p) /\ CpIndex(p, c) \in DOMAIN colors
  THEN {colors[CpIndex(p, c)][c] % Levels}
  ELSE Byte

-----------------------------------------------------------------------------
(* Properties *)

(* The check of an index lets one too many through: the number of colours  *)
(* itself, which only a channel of more than a byte can reach.  No other   *)
(* look-up leaves the table, and none is made for an index past the map.   *)
IndexInTable ==
  \A p \in Pixels, c \in Channels :
    \/ PassedOver(p)
    \/ CpIndex(p, c) < ncolors
    \/ CpIndex(p, c) = ncolors /\ Masks[c].levels > Levels

(* The masks are where the fixed shifts expect them.                       *)
AsExpected == visual = "pseudo" \/ \A c \in Channels : Masks[c].unit = Shift[c]

(* The bytes of a pixel are the high bytes of the colour the server shows  *)
(* for it, although the low byte of a table entry is stored and the entry  *)
(* is found from the channel alone.  Pixels that are passed over have no   *)
(* colour to keep.                                                         *)
ColourKept ==
  colors # NoTable /\ AsExpected =>
    \A p \in Pixels, c \in Channels :
      ~ PassedOver(p) => Stored(p, c) = {Shown(p)[c] \div Levels}

=============================================================================
