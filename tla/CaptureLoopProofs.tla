-------------------------- MODULE CaptureLoopProofs --------------------------
(***************************************************************************)
(* Theorems about the loop of take_screen.c, for screens of any sizes,     *)
(* changes at any time and any number of pictures.                         *)
(***************************************************************************)
EXTENDS CaptureLoop, TLAPS

Parts == {"none", "empty", "half", "whole"}

GivenParts == {"none", "half", "whole", "junk"}

(* The picture in the file is one that was grabbed, and not older than the *)
(* newest that was given to udp_send.                                      *)
TypeInv ==
  /\ at \in Steps
  /\ screen \in Screens /\ display \in Screens
  /\ asked \in Nat \X Nat /\ first \in Nat \X Nat
  /\ buffer \in Nat /\ picture \in Nat
  /\ file \in [picture : 0 .. picture, part : Parts]
  /\ given \in [picture : 0 .. picture, part : GivenParts]
  /\ given.picture <= file.picture
  /\ at = "start" => given.picture = 0
  /\ given.part = "none" => given.picture = 0
  /\ at \in {"write", "send"} => picture >= 1
  /\ stream \in Streams

LEMMA Sizes ==
  ASSUME NEW s \in Screens
  PROVE  s \in Nat \X Nat /\ s[1] \in Nat /\ s[2] \in Nat
BY CaptureConstants

LEMMA ClipType ==
  ASSUME TypeInv
  PROVE  /\ Clip(screen) \in Nat \X Nat
         /\ Contains(display, Clip(screen))
<1>1. /\ screen[1] \in Nat /\ screen[2] \in Nat
      /\ display[1] \in Nat /\ display[2] \in Nat
  BY Sizes DEF TypeInv
<1>2. QED
  BY <1>1 DEF Clip, Smaller, Contains

LEMMA ImageSizeType ==
  ASSUME NEW s \in Nat \X Nat
  PROVE  ImageSize(s) \in Nat
<1>1. s[1] \in Nat /\ s[2] \in Nat /\ ServerBytes \in Nat
  BY DEF ServerBytes
<1>2. s[1] * ServerBytes \in Nat
  BY <1>1
<1>3. BytesPerLine(s[1]) \in Nat
  <2>1. (s[1] * ServerBytes + 3) \div 4 \in Nat
    BY <1>2
  <2>2. QED
    BY <2>1 DEF BytesPerLine
<1>4. QED
  BY <1>1, <1>3 DEF ImageSize

LEMMA TypeStart ==
  ASSUME Init
  PROVE  TypeInv
<1>1. screen \in Screens /\ screen \in Nat \X Nat
  BY Sizes DEF Init
<1>2. QED
  BY <1>1 DEF Init, TypeInv, Steps, Streams, NoFile, OldFile, Parts, GivenParts

(* What an action does to the file: nothing, or a picture that is new.     *)
LEMMA HoldsType ==
  ASSUME TypeInv, NEW part \in Parts, Holds(part)
  PROVE  /\ file' \in [picture : 0 .. picture, part : Parts]
         /\ given.picture <= file'.picture
BY DEF TypeInv, Holds

LEMMA TypeStep ==
  ASSUME TypeInv, [Next]_vars
  PROVE  TypeInv'
<1> USE DEF TypeInv, Goes
<1>1. CASE ScreenChanges
  BY <1>1 DEF ScreenChanges, options, grabbing
<1>2. CASE Start
  <2>1. /\ file' \in [picture : 0 .. picture, part : Parts]
        /\ given.picture <= file'.picture
        /\ stream' \in Streams
    BY <1>2 DEF Start, OpenOutput, Streams, Parts
  <2>2. QED
    BY <1>2, <2>1 DEF Start, Steps
<1>3. CASE Ask
  BY <1>3, ClipType DEF Ask, Steps, options
<1>4. CASE Grab
  <2>1. buffer' \in Nat /\ first' \in Nat \X Nat
    BY <1>4, ImageSizeType DEF Grab, Allocate, Buffer
  <2>2. QED
    BY <1>4, <2>1 DEF Grab, Steps
<1>5. CASE HeapOverrun
  <2>1. buffer' \in Nat /\ first' \in Nat \X Nat
    BY <1>5, ImageSizeType DEF HeapOverrun, Allocate, Buffer
  <2>2. QED
    BY <1>5, <2>1 DEF HeapOverrun, Steps, Ends
<1>6. CASE WriteBmp \/ WriteJpeg \/ JpegError
  <2>1. PICK part \in Parts : Holds(part)
    BY <1>6 DEF WriteBmp, WriteJpeg, JpegError, Parts
  <2>2. at' \in Steps /\ stream' \in Streams /\ at' # "start"
    BY <1>6 DEF WriteBmp, WriteJpeg, JpegError, AfterWrite, Steps, Ends, Streams
  <2>3. UNCHANGED <<screen, display, asked, first, buffer, picture, given>>
        /\ at = "write"
    BY <1>6 DEF WriteBmp, WriteJpeg, JpegError, grabbing
  <2>4. QED
    BY <2>1, <2>2, <2>3, HoldsType
<1>7. CASE BmpNoMemory \/ WriteBadStream \/ RefuseBmp \/ JpegNotOpened
             \/ NoFileToSend \/ ReadNull \/ SendEmpty \/ Pause
             \/ NoAddress \/ NoDisplay \/ NoImage \/ GrabFails
  <2>1. /\ at' \in Steps /\ stream' \in Streams /\ at' # "start"
        /\ at' # "write" /\ (at' = "send" => at = "write")
    BY <1>7 DEF BmpNoMemory, WriteBadStream, RefuseBmp, JpegNotOpened,
                NoFileToSend, ReadNull, SendEmpty, Pause, NoAddress,
                NoDisplay, NoImage, GrabFails,
                AfterWrite, Steps, Ends, Streams
  <2>2. UNCHANGED <<screen, display, asked, first, buffer, picture, given, file>>
    BY <1>7 DEF BmpNoMemory, WriteBadStream, RefuseBmp, JpegNotOpened,
                NoFileToSend, ReadNull, SendEmpty, Pause, NoAddress,
                NoDisplay, NoImage, GrabFails, grabbing
  <2>3. QED
    BY <2>1, <2>2
<1>8. CASE Send \/ SendJunk
  <2>1. /\ given' \in [picture : 0 .. picture, part : GivenParts]
        /\ given'.picture <= file.picture
        /\ given'.part # "none"
    BY <1>8 DEF Send, SendJunk, Parts, GivenParts
  <2>2. QED
    BY <1>8, <2>1 DEF Send, SendJunk, Steps, grabbing
<1>9. CASE UNCHANGED vars
  BY <1>9 DEF vars, grabbing
<1>10. QED
  BY <1>1, <1>2, <1>3, <1>4, <1>5, <1>6, <1>7, <1>8, <1>9
     DEF Next, Succeeds, Fails

LEMMA TypeAlways == Spec => []TypeInv
BY TypeStart, TypeStep, PTL DEF Spec

(* Every variable of the loop keeps its type, for any number of pictures.  *)
THEOREM CaptureTypeCorrect == Spec => []CaptureTypeOK
<1>1. TypeInv => CaptureTypeOK
  BY DEF TypeInv, CaptureTypeOK, Parts, GivenParts
<1>2. QED
  BY <1>1, TypeAlways, PTL

-----------------------------------------------------------------------------
(* The files *)

(* A JPEG of this run is whole as long as the program goes on; the output  *)
(* of o_bmp is closed by the first picture.                                *)
FileInv ==
  /\ format \in {"jpg", "bmp"}
  /\ format = "jpg" =>
       /\ given.part = "half" => given.picture = 0
       /\ at # "exit" /\ file.part \in {"empty", "half"} => file.picture = 0
  /\ stream = "closed" => picture >= 1 /\ (at = "write" => picture > 1)
  /\ at = "badStream" => format = "bmp" /\ (stream = "null" \/ picture > 1)
  /\ at = "emptySend" => format = "bmp" \/ file.picture = 0

LEMMA FileStart ==
  ASSUME Init
  PROVE  FileInv
BY CaptureConstants DEF Init, FileInv, NoFile, OldFile

LEMMA FileStep ==
  ASSUME TypeInv, FileInv, [Next]_vars
  PROVE  FileInv'
<1> USE DEF FileInv, Goes
<1>1. CASE ScreenChanges \/ UNCHANGED vars
  BY <1>1 DEF ScreenChanges, vars, options, grabbing
<1>2. CASE Start \/ NoAddress \/ NoDisplay
  BY <1>2 DEF Start, NoAddress, NoDisplay, OpenOutput, options, grabbing
<1>3. CASE Ask \/ Pause
  BY <1>3 DEF Ask, Pause, options, grabbing
<1>4. CASE Grab \/ HeapOverrun
  BY <1>4 DEF Grab, HeapOverrun, options, TypeInv
<1>5. CASE GrabFails \/ NoImage
  BY <1>5 DEF GrabFails, NoImage, options, grabbing
<1>6. CASE WriteBmp \/ BmpNoMemory \/ WriteBadStream \/ RefuseBmp
  <2>1. at = "write" /\ at' \in {"returned", "send", "badStream"}
        /\ format = "bmp" /\ format' = format /\ picture' = picture
    BY <1>6 DEF WriteBmp, BmpNoMemory, WriteBadStream, RefuseBmp, AfterWrite,
                options, grabbing
  <2>2. CASE WriteBmp \/ BmpNoMemory
    BY <2>1, <2>2 DEF WriteBmp, BmpNoMemory, AfterWrite, TypeInv
  <2>3. CASE WriteBadStream
    BY <2>1, <2>3 DEF WriteBadStream, TypeInv
  <2>4. CASE RefuseBmp
    BY <2>1, <2>4 DEF RefuseBmp, AfterWrite
  <2>5. QED
    BY <1>6, <2>2, <2>3, <2>4
<1>7. CASE WriteJpeg \/ JpegError \/ JpegNotOpened
  BY <1>7 DEF WriteJpeg, JpegError, JpegNotOpened, AfterWrite, Holds,
              options, grabbing
<1>8. CASE NoFileToSend \/ ReadNull \/ SendEmpty
  BY <1>8 DEF NoFileToSend, ReadNull, SendEmpty, options, grabbing
<1>9. CASE Send
  BY <1>9 DEF Send, options, grabbing
<1>10. CASE SendJunk
  <2>1. given'.part = "junk"
    BY <1>10 DEF SendJunk, TypeInv
  <2>2. QED
    BY <1>10, <2>1 DEF SendJunk, options, grabbing
<1>11. QED
  BY <1>1, <1>2, <1>3, <1>4, <1>5, <1>6, <1>7, <1>8, <1>9, <1>10
     DEF Next, Succeeds, Fails

LEMMA FileAlways == Spec => []FileInv
<1>1. TypeInv /\ FileInv /\ [Next]_vars => FileInv'
  BY FileStep
<1>2. QED
  BY <1>1, FileStart, TypeAlways, PTL DEF Spec

(* net_send_jpeg reads and sends half a JPEG only if an earlier run left   *)
(* it there, whatever fails in write_frame.                                *)
THEOREM JpegWholeCorrect == Spec => []JpegWhole
<1>1. FileInv => JpegWhole
  BY DEF FileInv, JpegWhole
<1>2. QED
  BY <1>1, FileAlways, PTL

(* The file of o_bmp is used when it is not open only for a second         *)
(* picture, or when fopen failed; a JPEG that is empty when it is sent is  *)
(* one that an earlier run has left.                                       *)
THEOREM BreakCauseCorrect == Spec => []BreakCause
<1>1. FileInv => BreakCause
  BY DEF FileInv, BreakCause
<1>2. QED
  BY <1>1, FileAlways, PTL

-----------------------------------------------------------------------------
(* The stream of pictures *)

Last ==
  CASE given.part = "none" -> "nothing"
    [] given.part = "junk" -> "junk"
    [] OTHER -> IF given.picture = 0 THEN "leftover" ELSE "picture"

LEMMA StreamStep ==
  ASSUME TypeInv, [Next]_vars
  PROVE  [Stream!StreamNext]_<<picture, given.picture, Last, at \in Ends>>
<1> USE DEF Goes, Ends, Stream!StreamNext
<1>1. CASE ScreenChanges \/ Start \/ Ask \/ Pause \/ UNCHANGED vars
  BY <1>1 DEF ScreenChanges, Start, Ask, Pause, vars, grabbing, Last
<1>2. CASE Grab
  BY <1>2 DEF Grab, Stream!TakePicture, Last
<1>3. CASE HeapOverrun \/ NoImage \/ GrabFails \/ NoAddress \/ NoDisplay
             \/ WriteBadStream \/ JpegError \/ NoFileToSend \/ ReadNull
             \/ SendEmpty
  BY <1>3 DEF HeapOverrun, NoImage, GrabFails, NoAddress, NoDisplay,
              WriteBadStream, JpegError, NoFileToSend, ReadNull, SendEmpty,
              grabbing, Stream!End, Last
<1>4. CASE WriteBmp \/ BmpNoMemory \/ RefuseBmp \/ WriteJpeg \/ JpegNotOpened
  <2>1. picture' = picture /\ given' = given /\ at = "write"
        /\ at' \in {"returned", "send"}
    BY <1>4 DEF WriteBmp, BmpNoMemory, RefuseBmp, WriteJpeg, JpegNotOpened,
                AfterWrite, grabbing
  <2>2. QED
    BY <2>1 DEF Stream!End, Last
<1>5. CASE Send
  <2>1. /\ picture' = picture /\ given' = file
        /\ file.part \in {"whole", "half"}
        /\ at = "send" /\ at' = "pause"
    BY <1>5 DEF Send, grabbing
  <2>2. /\ given'.picture \in given.picture .. picture
        /\ given.picture \in Nat
    BY <2>1 DEF TypeInv
  <2>3. Last' = IF file.picture = 0 THEN "leftover" ELSE "picture"
    BY <2>1 DEF Last
  <2>4. CASE file.picture = 0
    <3>1. given.picture = 0 /\ given'.picture = 0
      BY <2>1, <2>2, <2>4
    <3>2. QED
      BY <2>1, <2>3, <2>4, <3>1 DEF Stream!GiveLeftover
  <2>5. CASE file.picture # 0
    <3>1. given'.picture > 0
      BY <2>1, <2>2, <2>5
    <3>2. QED
      BY <2>1, <2>2, <2>3, <2>5, <3>1 DEF Stream!GivePicture
  <2>6. QED
    BY <2>4, <2>5
<1>6. CASE SendJunk
  <2>1. /\ given'.picture = given.picture /\ given'.part = "junk"
        /\ picture' = picture /\ picture > 0
        /\ at = "send" /\ at' = "pause"
    BY <1>6 DEF SendJunk, grabbing, TypeInv
  <2>2. Last' = "junk"
    BY <2>1 DEF Last
  <2>3. QED
    BY <2>1, <2>2 DEF Stream!GiveJunk
<1>7. QED
  BY <1>1, <1>2, <1>3, <1>4, <1>5, <1>6 DEF Next, Succeeds, Fails

(* However write_frame and net_send_jpeg fail, what the loop gives out is  *)
(* a picture it has taken, in order, a file of an earlier run before its   *)
(* first, or junk: it implements FrameStream.                              *)
THEOREM StreamCorrect == Spec => StreamSpec
<1>1. Init => Stream!StreamInit
  BY DEF Init, NoFile, Ends, Stream!StreamInit
<1>2. TypeInv /\ [Next]_vars => [Stream!StreamNext]_Stream!streamvars
  BY StreamStep DEF Stream!streamvars, Last
<1>3. QED
  BY <1>1, <1>2, TypeAlways, PTL DEF Spec, StreamSpec, Stream!StreamSpec

-----------------------------------------------------------------------------
(* The buffer *)

LEMMA FourBytes ==
  ASSUME NEW s \in Nat \X Nat, depth > 16
  PROVE  ImageSize(s) = 4 * s[1] * s[2]
<1>1. s[1] \in Nat /\ s[2] \in Nat
  OBVIOUS
<1>2. ServerBytes = 4
  BY DEF ServerBytes
<1>3. BytesPerLine(s[1]) = 4 * s[1]
  BY <1>1, <1>2 DEF BytesPerLine
<1>4. QED
  BY <1>1, <1>3 DEF ImageSize

(* Three bytes for a pixel of the smaller picture are less than four for   *)
(* one of the larger.                                                      *)
LEMMA Fits ==
  ASSUME NEW s \in Nat \X Nat, NEW t \in Nat \X Nat, Contains(s, t),
         depth > 16
  PROVE  Written(t) <= ImageSize(s)
<1> DEFINE a == t[1]  b == t[2]  c == s[1]  d == s[2]
<1>1. a \in Nat /\ b \in Nat /\ c \in Nat /\ d \in Nat /\ a <= c /\ b <= d
  BY DEF Contains
<1>2. Written(t) = 3 * (a * b) /\ ImageSize(s) = 4 * (c * d)
  BY <1>1, FourBytes DEF Written
<1> HIDE DEF a, b, c, d
<1>3. a * b <= c * b
  BY <1>1
<1>4. c * b <= c * d
  BY <1>1
<1>5. a * b \in Nat /\ c * b \in Nat /\ c * d \in Nat
  BY <1>1
<1>6. QED
  BY <1>2, <1>3, <1>4, <1>5

BufferInv ==
  /\ depth \in Nat
  /\ at = "grab" => Contains(display, asked)
  /\ buffer = 0 \/ buffer = ImageSize(first)
  /\ depth > 16 /\ first = display => at # "heapOverrun"
  /\ at = "start" => buffer = 0 /\ first = <<0, 0>>

LEMMA BufferStart ==
  ASSUME Init
  PROVE  BufferInv
BY CaptureConstants DEF Init, BufferInv

LEMMA BufferStep ==
  ASSUME TypeInv, BufferInv, [Next]_vars
  PROVE  BufferInv'
<1> USE DEF BufferInv, Goes
<1>1. ASSUME UNCHANGED <<depth, display, asked, buffer, first>>,
             at' \notin {"grab", "heapOverrun", "start"} \/ at' = at
      PROVE  BufferInv'
  <2>1. ImageSize(first)' = ImageSize(first)
    BY <1>1 DEF ImageSize, BytesPerLine, ServerBytes
  <2>2. Contains(display, asked)' <=> Contains(display, asked)
    BY <1>1 DEF Contains
  <2>3. QED
    BY <1>1, <2>1, <2>2
<1>2. CASE ScreenChanges \/ NoAddress \/ NoDisplay \/ NoImage \/ GrabFails
             \/ UNCHANGED vars
  BY <1>1, <1>2 DEF ScreenChanges, NoAddress, NoDisplay, NoImage, GrabFails,
                    vars, options, grabbing
<1>3. CASE WriteBmp \/ BmpNoMemory \/ WriteBadStream \/ RefuseBmp \/ WriteJpeg
             \/ JpegError \/ JpegNotOpened
  BY <1>1, <1>3 DEF WriteBmp, BmpNoMemory, WriteBadStream, RefuseBmp, WriteJpeg,
                    JpegError, JpegNotOpened, AfterWrite, options, grabbing
<1>4. CASE NoFileToSend \/ ReadNull \/ SendEmpty \/ Send \/ SendJunk \/ Pause
  BY <1>1, <1>4 DEF NoFileToSend, ReadNull, SendEmpty, Send, SendJunk, Pause,
                    options, grabbing
<1>5. CASE Start
  BY <1>5 DEF Start, options
<1>6. CASE Ask
  <2>1. Contains(display, asked)'
    BY <1>6, ClipType DEF Ask, Contains
  <2>2. ImageSize(first)' = ImageSize(first)
    BY <1>6 DEF Ask, options, ImageSize, BytesPerLine, ServerBytes
  <2>3. QED
    BY <1>6, <2>1, <2>2 DEF Ask, options
<1>7. CASE Grab \/ HeapOverrun
  <2>1. /\ buffer' = Buffer /\ first' = IF buffer = 0 THEN asked ELSE first
        /\ depth' = depth /\ display' = display /\ at = "grab"
        /\ at' \in {"write", "heapOverrun"}
    BY <1>7 DEF Grab, HeapOverrun, Allocate, options
  <2>2. ImageSize(first)' = ImageSize(first')
    BY <2>1 DEF ImageSize, BytesPerLine, ServerBytes
  <2>3. Buffer = ImageSize(first')
    BY <2>1 DEF Buffer
  <2>4. ASSUME depth > 16, first' = display
        PROVE  Written(asked) <= Buffer
    <3>1. Contains(first', asked)
      <4>1. Contains(display, asked)
        BY <2>1
      <4>2. QED
        BY <2>4, <4>1
    <3>2. first' \in Nat \X Nat /\ asked \in Nat \X Nat
      BY <2>1 DEF TypeInv
    <3>3. QED
      BY <2>3, <2>4, <3>1, <3>2, Fits
  <2>5. Buffer \in Nat /\ Written(asked) \in Nat
    BY ImageSizeType DEF TypeInv, Buffer, Written
  <2>6. CASE Grab
    BY <2>1, <2>2, <2>3, <2>6 DEF Grab
  <2>7. CASE HeapOverrun
    BY <2>1, <2>2, <2>3, <2>4, <2>5, <2>7 DEF HeapOverrun
  <2>8. QED
    BY <1>7, <2>6, <2>7
<1>8. QED
  BY <1>2, <1>3, <1>4, <1>5, <1>6, <1>7 DEF Next, Succeeds, Fails

(* With pixels of four bytes, convert_to_colorbuf stays within the area    *)
(* that was allocated for the first picture as long as that picture had    *)
(* the size of the display, for screens of any size.                       *)
THEOREM OverrunCauseCorrect == Spec => []OverrunCause
<1>1. BufferInv => OverrunCause
  BY DEF BufferInv, OverrunCause
<1>2. TypeInv /\ BufferInv /\ [Next]_vars => BufferInv'
  BY BufferStep
<1>3. QED
  BY <1>1, <1>2, BufferStart, TypeAlways, PTL DEF Spec

=============================================================================
