----------------------------- MODULE CmdOptions ------------------------------
(***************************************************************************)
(* The command line: parse_opt of src/cmdutil.c, as common.mk builds it    *)
(* (HAS_NET is not defined), and the getopt of the C library that it       *)
(* calls.  An argument is the letter of an option or a word.               *)
(***************************************************************************)
EXTENDS Integers, Sequences, SequencesExt

CONSTANTS
  Words,     \* what may stand on the command line besides options
  MaxArgs    \* bound: how many arguments there are

(* Every letter the option string of parse_opt names, and one it does not. *)
Letters == {"r", "i", "p", "o", "F", "h", "O"}

VARIABLES
  argv,       \* the arguments
  optind,     \* the argument getopt looks at next
  opts,       \* opt_frame_rate, opt_omt and opt_function
  outcome     \* how parse_opt has ended, "parsing" before

vars == <<argv, optind, opts, outcome>>

Defaults == [rate |-> "15", omt |-> "jpg", function |-> "shot"]

Init ==
  /\ argv \in SeqOf(Letters \cup Words, MaxArgs)
  /\ optind = 1
  /\ opts = Defaults
  /\ outcome = "parsing"

-----------------------------------------------------------------------------
(* getopt, with the option string "ripoFh:" *)

(* A colon stands behind the letters of the options that take a value.     *)
TakesValue(c) == c = "h"

NULL == "(null)"

(* The value getopt leaves in optarg.                                      *)
Optarg ==
  IF TakesValue(argv[optind]) /\ optind < Len(argv)
    THEN argv[optind + 1] ELSE NULL

(* The option is not in the option string, or its value is missing.        *)
Unknown(c) == c = "O" \/ (TakesValue(c) /\ optind = Len(argv))

-----------------------------------------------------------------------------
(* parse_opt *)

Looks == outcome = "parsing" /\ optind <= Len(argv)

(* getopt passes over an argument that is no option.                       *)
PassWord ==
  /\ Looks /\ argv[optind] \notin Letters
  /\ optind' = optind + 1
  /\ UNCHANGED <<argv, opts, outcome>>

(* The cases that end in usage, which exits.                               *)
Usage ==
  /\ Looks
  /\ LET c == argv[optind] IN
       c \in Letters /\ (Unknown(c) \/ c \in {"h", "i", "p"})
  /\ outcome' = "usage"
  /\ UNCHANGED <<argv, optind, opts>>

(* What the case of an option sets its variable to.                        *)
Set(c, value) ==
  CASE c = "r" -> [opts EXCEPT !.rate = value]
    [] c = "o" -> [opts EXCEPT !.omt = value]
    [] c = "F" -> [opts EXCEPT !.function = value]

(* The cases that read optarg: atoi, strcpy and strcmp of a null pointer   *)
(* end the program.                                                        *)
ReadValue ==
  /\ Looks
  /\ LET c == argv[optind] IN
       /\ c \in {"r", "o", "F"} /\ ~ Unknown(c)
       /\ outcome' = IF Optarg = NULL THEN "crashed"
                     ELSE IF c = "F" /\ Optarg \notin
                               {"shot", "projection", "recording"} THEN "usage"
                     ELSE outcome
       /\ opts' = IF outcome' = "parsing" THEN Set(c, Optarg) ELSE opts
       /\ optind' = IF Optarg = NULL THEN optind + 1 ELSE optind + 2
  /\ argv' = argv

(* getopt returns -1, and main goes on.                                    *)
Return ==
  /\ outcome = "parsing" /\ optind > Len(argv)
  /\ outcome' = "parsed"
  /\ UNCHANGED <<argv, optind, opts>>

Next == PassWord \/ Usage \/ ReadValue \/ Return

Spec == Init /\ [][Next]_vars

-----------------------------------------------------------------------------
(* Properties *)

(* Examples of the usage text, with what they ask for.                     *)
Examples ==
  { [line |-> <<"F", "shot", "o", "jpg">>, function |-> "shot", omt |-> "jpg"],
    [line |-> <<"F", "shot", "o", "bmp">>, function |-> "shot", omt |-> "bmp"],
    [line |-> <<"F", "recording", "O", "path">>,
     function |-> "recording", omt |-> "jpg"] }

(* A command line that the usage text gives as an example is not refused,  *)
(* and main does what it asks for.                                         *)
DocumentedWorks ==
  \A e \in Examples : argv = e.line =>
    /\ outcome \notin {"usage", "crashed"}
    /\ outcome = "parsed" => opts.function = e.function /\ opts.omt = e.omt

=============================================================================
