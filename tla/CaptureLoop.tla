----------------------------- MODULE CaptureLoop -----------------------------
(***************************************************************************)
(* The program itself: main of src/take_screen.c, with the grabber it      *)
(* calls (src/grabbers/x11_grabber.c), the two outputs (src/shot/o_bmp.c   *)
(* and o_jpeg.c) and net_send_jpeg, which reads the picture file back and  *)
(* sends it.                                                               *)
(*                                                                         *)
(* A picture is known by its number: the first that is grabbed is 1.  The  *)
(* screen is its width and height, and may change at any time.  What can   *)
(* fail, fails at any time: the X server's answers, memory, opening,       *)
(* writing and reading the file.                                           *)
(***************************************************************************)
EXTENDS Integers

CONSTANTS
  Screens,       \* the sizes the screen may have
  Functions,     \* opt_function: "shot", "recording", "projection"
  Formats,       \* opt_omt: "jpg" or "bmp"
  Depths,        \* image->depth
  MaxPictures,   \* bound: pictures grabbed
  MaxChanges     \* bound: changes of the screen's size

ASSUME CaptureConstants ==
  /\ Screens \subseteq (Nat \ {0}) \X (Nat \ {0})
  /\ Functions \subseteq {"shot", "recording", "projection"}
  /\ Formats \subseteq {"jpg", "bmp"}
  /\ Depths \subseteq Nat
  /\ MaxPictures \in Nat /\ MaxChanges \in Nat

VARIABLES
  function, format, depth,   \* what this run of the program is asked to do
  at,        \* the next step of main, or how the program has ended
  screen,    \* the size of the root window
  display,   \* DisplayWidth, DisplayHeight: the size when it was opened
  asked,     \* the size the grabber asks the server for
  buffer,    \* the size of the area behind img.data, 0 for NULL
  first,     \* the size of the first picture
  picture,   \* the number of the picture in img
  file,      \* the picture file: which picture it holds and how much of it
  stream,    \* the FILE of o_bmp, see Streams
  given,     \* what the last udp_send was given: the newest picture so far,
             \* and how much of it, or "junk"
  changes    \* changes of the screen so far

options == <<function, format, depth>>
grabbing == <<display, asked, buffer, first, picture>>
vars == <<options, at, screen, grabbing, file, stream, given, changes>>

(* The last five are crashes, or may be.                                   *)
Ends == {"returned", "exit",
         "badImage", "heapOverrun", "badStream", "badRead", "emptySend"}

Steps == {"start", "ask", "grab", "write", "send", "pause"} \cup Ends

(* fopen has failed or was not called; opened; with a header in its buffer *)
(* and no lines; closed.                                                   *)
Streams == {"null", "open", "headed", "closed"}

NoFile == [picture |-> 0, part |-> "none"]

(* What an earlier run of the program has left has the number 0; it may    *)
(* have ended while it wrote.                                              *)
OldFile == [picture : {0}, part : {"empty", "half", "whole"}]

Init ==
  /\ function \in Functions /\ format \in Formats /\ depth \in Depths
  /\ at = "start"
  /\ screen \in Screens
  /\ display = screen /\ asked = screen /\ first = <<0, 0>>
  /\ buffer = 0 /\ picture = 0
  /\ file \in {NoFile} \cup OldFile /\ stream = "null"
  /\ given = NoFile
  /\ changes = 0

Goes(from, to) == at = from /\ at' = to

-----------------------------------------------------------------------------
(* The environment *)

(* The size of the screen is changed, by the user or another program.      *)
ScreenChanges ==
  /\ changes < MaxChanges
  /\ changes' = changes + 1
  /\ screen' \in Screens \ {screen}
  /\ UNCHANGED <<options, at, grabbing, file, stream, given>>

-----------------------------------------------------------------------------
(* init_grabber and init of the output; their results are ignored *)

OpenOutput ==
  \/ /\ format = "jpg"
     /\ UNCHANGED <<file, stream>>
  \/ /\ format = "bmp"
     /\ stream' = "open"
     /\ file' = [picture |-> 0, part |-> "empty"]
  \/ /\ format = "bmp"          \* fopen fails
     /\ UNCHANGED <<file, stream>>

Start ==
  /\ Goes("start", "ask")
  /\ display' = screen
  /\ OpenOutput
  /\ UNCHANGED <<options, screen, asked, buffer, first, picture, given, changes>>

(* A projection without an address: usage ends the program.                *)
NoAddress ==
  /\ function = "projection"
  /\ Goes("start", "exit")
  /\ UNCHANGED <<options, screen, grabbing, file, stream, given, changes>>

(* fatalerr: the display cannot be opened.                                 *)
NoDisplay ==
  /\ Goes("start", "exit")
  /\ UNCHANGED <<options, screen, grabbing, file, stream, given, changes>>

-----------------------------------------------------------------------------
(* grab_screen_image *)

Smaller(a, b) == IF a < b THEN a ELSE b

(* Mutant: the size is not cut to that of the display.                     *)
Clip_Not(size) == size

(* The width and height asked for are cut to those of the display, which   *)
(* Xlib keeps as they were when the display was opened.                    *)
Clip(size) == <<Smaller(size[1], display[1]), Smaller(size[2], display[2])>>

Ask ==
  /\ Goes("ask", "grab")
  /\ picture < MaxPictures
  /\ asked' = Clip(screen)
  /\ UNCHANGED <<options, screen, display, buffer, first, picture,
                 file, stream, given, changes>>

(* The X server keeps a pixel in a whole number of bytes, four for the     *)
(* usual depths, and a row in a multiple of four.                          *)
ServerBytes == IF depth > 16 THEN 4 ELSE IF depth > 8 THEN 2 ELSE 1

BytesPerLine(width) == ((width * ServerBytes + 3) \div 4) * 4

(* image_size, for the area malloc is asked for.                           *)
ImageSize(size) == BytesPerLine(size[1]) * size[2]

(* What convert_to_colorbuf writes: three bytes for every pixel.           *)
Written(size) == 3 * size[1] * size[2]

(* XGetImage fails when the screen has become smaller than what is asked   *)
(* for: the error handler of Xlib ends the program.                        *)
Contains(outer, inner) == inner[1] <= outer[1] /\ inner[2] <= outer[2]

(* The area is allocated for the first picture and kept.                   *)
Buffer == IF buffer = 0 THEN ImageSize(asked) ELSE buffer

Allocate ==
  /\ Contains(screen, asked)
  /\ buffer' = Buffer
  /\ first' = IF buffer = 0 THEN asked ELSE first

Grab ==
  /\ Goes("grab", "write")
  /\ Allocate
  /\ Written(asked) <= Buffer
  /\ picture' = picture + 1
  /\ UNCHANGED <<options, screen, display, asked, file, stream, given, changes>>

(* Nothing is known of the heap after this.                                *)
HeapOverrun ==
  /\ Goes("grab", "heapOverrun")
  /\ Allocate
  /\ Written(asked) > Buffer
  /\ UNCHANGED <<options, screen, display, asked, picture,
                 file, stream, given, changes>>

(* XGetImage has no memory and returns NULL, which image_size reads.       *)
NoImage ==
  /\ Goes("grab", "badImage")
  /\ UNCHANGED <<options, screen, grabbing, file, stream, given, changes>>

(* Mutant: a picture that cannot be had is asked for again, without end.   *)
GrabFails_AsksAgain ==
  /\ at \in {"ask", "grab"}
  /\ at' = "ask"
  /\ UNCHANGED <<options, screen, grabbing, file, stream, given, changes>>

(* The X server reports an error, or fatalerr: no attributes, no memory.   *)
GrabFails ==
  /\ at \in {"ask", "grab"}
  /\ at' = "exit"
  /\ UNCHANGED <<options, screen, grabbing, file, stream, given, changes>>

-----------------------------------------------------------------------------
(* write_frame; its result is ignored *)

AfterWrite == IF function = "shot" THEN "returned" ELSE "send"

Holds(part) == file' = [picture |-> picture, part |-> part]

(* write_bmp on the file init_bmp has opened.  That not all of it could be *)
(* written is not noticed; what follows a second header is no picture.     *)
WriteBmp ==
  /\ format = "bmp" /\ depth = 24
  /\ Goes("write", AfterWrite)
  /\ \/ stream = "open" /\ Holds("whole")
     \/ stream \in {"open", "headed"} /\ Holds("half")
  /\ stream' = "closed"
  /\ UNCHANGED <<options, screen, grabbing, given, changes>>

(* No memory for a line: write_bmp returns with the header written.        *)
BmpNoMemory ==
  /\ format = "bmp" /\ depth = 24
  /\ stream \in {"open", "headed"}
  /\ Goes("write", AfterWrite)
  /\ stream' = "headed"
  /\ UNCHANGED <<options, screen, grabbing, file, given, changes>>

(* The file was never opened, or write_bmp has closed it before.           *)
WriteBadStream ==
  /\ format = "bmp" /\ depth = 24
  /\ stream \in {"null", "closed"}
  /\ Goes("write", "badStream")
  /\ UNCHANGED <<options, screen, grabbing, file, stream, given, changes>>

(* write_bmp takes no other depth.                                         *)
RefuseBmp ==
  /\ format = "bmp" /\ depth # 24
  /\ Goes("write", AfterWrite)
  /\ UNCHANGED <<options, screen, grabbing, file, stream, given, changes>>

(* Mutant: an error of libjpeg does not end the program.                   *)
WriteJpeg_GoesOn ==
  /\ format = "jpg"
  /\ Goes("write", AfterWrite)
  /\ Holds("whole") \/ Holds("half")
  /\ UNCHANGED <<options, screen, grabbing, stream, given, changes>>

(* write_jpeg opens the file, which empties it, and writes it.             *)
WriteJpeg ==
  /\ format = "jpg"
  /\ Goes("write", AfterWrite)
  /\ Holds("whole")
  /\ UNCHANGED <<options, screen, grabbing, stream, given, changes>>

(* Mutant: an error of libjpeg makes write_jpeg return.                    *)
JpegError_Returns ==
  /\ format = "jpg"
  /\ Goes("write", AfterWrite)
  /\ Holds("empty")
  /\ UNCHANGED <<options, screen, grabbing, stream, given, changes>>

(* The disk is full, or there is no memory: the error handler of libjpeg   *)
(* ends the program.                                                       *)
JpegError ==
  /\ format = "jpg"
  /\ Goes("write", "exit")
  /\ Holds("empty") \/ Holds("half")
  /\ UNCHANGED <<options, screen, grabbing, stream, given, changes>>

(* Mutant: when it cannot be opened, the picture of an earlier run is put  *)
(* back.                                                                   *)
JpegNotOpened_OldBack ==
  /\ format = "jpg"
  /\ Goes("write", AfterWrite)
  /\ file' \in OldFile
  /\ UNCHANGED <<options, screen, grabbing, stream, given, changes>>

(* fopen fails: write_jpeg returns -1 and the file is what it was.         *)
JpegNotOpened ==
  /\ format = "jpg"
  /\ Goes("write", AfterWrite)
  /\ UNCHANGED <<options, screen, grabbing, file, stream, given, changes>>

-----------------------------------------------------------------------------
(* net_send_jpeg, and the pause, which never waits *)

(* stat fails.                                                             *)
NoFileToSend ==
  /\ file.part = "none"
  /\ Goes("send", "exit")
  /\ UNCHANGED <<options, screen, grabbing, file, stream, given, changes>>

(* malloc or fopen has failed, which nothing looks at: fread is given NULL *)
(* for its buffer or for its stream.                                       *)
ReadNull ==
  /\ file.part # "none"
  /\ Goes("send", "badRead")
  /\ UNCHANGED <<options, screen, grabbing, file, stream, given, changes>>

(* Mutant: a frame of no datagrams is no frame.                            *)
SendEmpty_GoesOn ==
  /\ file.part = "empty"
  /\ Goes("send", "pause")
  /\ given' = file
  /\ UNCHANGED <<options, screen, grabbing, file, stream, changes>>

(* A frame of no datagrams: the loop of udp_send runs to 0 - 1, as an      *)
(* unsigned number, far past the end of the data.                          *)
SendEmpty ==
  /\ file.part = "empty"
  /\ Goes("send", "emptySend")
  /\ UNCHANGED <<options, screen, grabbing, file, stream, given, changes>>

Send ==
  /\ file.part \in {"whole", "half"}
  /\ Goes("send", "pause")
  /\ given' = file
  /\ UNCHANGED <<options, screen, grabbing, file, stream, changes>>

(* fread has read less than stat has promised, which nothing looks at: the *)
(* rest of the buffer, or all of it, is what malloc has found there.       *)
SendJunk ==
  /\ file.part \in {"whole", "half"}
  /\ Goes("send", "pause")
  /\ given' = [given EXCEPT !.part = "junk"]
  /\ UNCHANGED <<options, screen, grabbing, file, stream, changes>>

Pause ==
  /\ Goes("pause", "ask")
  /\ UNCHANGED <<options, screen, grabbing, file, stream, given, changes>>

-----------------------------------------------------------------------------

Succeeds == Start \/ Ask \/ Grab \/ WriteBmp \/ WriteJpeg \/ Send \/ Pause

Fails == \/ NoAddress \/ NoDisplay
         \/ NoImage \/ GrabFails \/ HeapOverrun
         \/ BmpNoMemory \/ WriteBadStream \/ RefuseBmp
         \/ JpegError \/ JpegNotOpened
         \/ NoFileToSend \/ ReadNull \/ SendEmpty \/ SendJunk

Next == Succeeds \/ Fails \/ ScreenChanges

Spec == Init /\ [][Next]_vars

(* The program goes on: every call it makes returns or ends it.            *)
FairSpec == Spec /\ WF_vars(Succeeds \/ Fails)

-----------------------------------------------------------------------------
(* Properties *)

(* The steps, the sizes, the file and the stream keep their types.         *)
CaptureTypeOK ==
  /\ at \in Steps
  /\ screen \in Screens
  /\ asked \in Nat \X Nat /\ buffer \in Nat
  /\ picture \in Nat
  /\ file \in [picture : 0 .. picture,
               part : {"none", "empty", "half", "whole"}]
  /\ given \in [picture : 0 .. picture,
                part : {"none", "half", "whole", "junk"}]
  /\ stream \in Streams

(* The buffer of the first picture is enough for all that follow, whatever *)
(* the screen does: a picture is only too large for it when the server's   *)
(* pixels are smaller than the program's, or when the screen was smaller   *)
(* than the display when the first picture was grabbed.                    *)
OverrunCause ==
  at = "heapOverrun" => depth <= 16 \/ first # display

(* Of the ways to break, two have one cause each.  A file is written that  *)
(* is not open: only as BMP, if it could not be opened or when a second    *)
(* picture is written.  An empty file is sent: as JPEG, only one that an   *)
(* earlier run has left.  The others break both formats: a buffer that is  *)
(* too small (OverrunCause), and memory or a file that cannot be had where *)
(* nobody looks (NoImage, ReadNull).                                       *)
BreakCause ==
  /\ at = "badStream" => format = "bmp" /\ (stream = "null" \/ picture > 1)
  /\ at = "emptySend" => format = "bmp" \/ file.picture = 0

(* Half a JPEG is never read and sent as a frame, unless an earlier run    *)
(* has left it: the program ends when it cannot write one, and when it     *)
(* cannot open the file it sends the one before.  A file that is complete  *)
(* but cannot be read back whole is another matter, see SendJunk.          *)
JpegWhole ==
  format = "jpg" /\ given.part = "half" => given.picture = 0

(* However it fails, what the loop gives to udp_send is a picture it has   *)
(* taken, not older than the one before; or the file of an earlier run, as *)
(* long as it has not given one of its own; or junk, by SendJunk.          *)
Stream == INSTANCE FrameStream WITH
  taken <- picture, given <- given.picture, ended <- (at \in Ends),
  last <- CASE given.part = "none" -> "nothing"
            [] given.part = "junk" -> "junk"
            [] OTHER -> IF given.picture = 0 THEN "leftover" ELSE "picture"

StreamSpec == Stream!StreamSpec

(* A round that has asked for a picture sends a file or ends the program.  *)
RoundEnds == at = "grab" ~> at = "pause" \/ at \in Ends

=============================================================================
