-------------------------------- MODULE Grab --------------------------------
(***************************************************************************)
(* One picture, from the screen to the file: find_colors fetches the table *)
(* of colours first, convert_to_colorbuf then fills row after row          *)
(* (Picture), looking up each pixel (PixelColour), and the output writes   *)
(* what is in the buffer, a JPEG through the compressor (JpegFile).  All   *)
(* of it is one thread that waits for nobody.                              *)
(***************************************************************************)
EXTENDS JpegFile, PixelColour

grabVars == <<vars, jpegVars, colourVars>>

GrabInit == Init /\ JpegInit /\ ColourInit

GetColors == FindColors /\ UNCHANGED <<vars, jpegVars>>

Rows == colors # NoTable /\ JpegNext /\ UNCHANGED colourVars

GrabNext == GetColors \/ Rows

GrabSpec == GrabInit /\ [][GrabNext]_grabVars /\ WF_grabVars(GrabNext)

=============================================================================
