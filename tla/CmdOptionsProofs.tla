-------------------------- MODULE CmdOptionsProofs --------------------------
(***************************************************************************)
(* What parse_opt makes of a command line of any length.                   *)
(***************************************************************************)
EXTENDS CmdOptions, TLAPS

(* Whatever the arguments, main runs with the defaults or not at all: one  *)
(* picture of the screen, as JPEG.                                         *)
OnlyDefaults == outcome = "parsed" => opts = Defaults

(* While the command line is read, nothing has been set.                   *)
OptInv == outcome \in {"parsing", "parsed"} => opts = Defaults

LEMMA OptStep ==
  ASSUME OptInv, [Next]_vars
  PROVE  OptInv'
<1>1. CASE PassWord \/ Usage \/ Return
  BY <1>1 DEF PassWord, Usage, Return, Looks, OptInv
<1>2. CASE ReadValue
  <2>1. argv[optind] \in {"r", "o", "F"}
    BY <1>2 DEF ReadValue
  <2>2. Optarg = NULL
    BY <2>1 DEF Optarg, TakesValue
  <2>3. outcome' = "crashed"
    BY <1>2, <2>2 DEF ReadValue
  <2>4. QED
    BY <2>3 DEF OptInv
<1>3. CASE UNCHANGED vars
  BY <1>3 DEF vars, OptInv
<1>4. QED
  BY <1>1, <1>2, <1>3 DEF Next

(* No option of cmdutil.c that takes a value ever gets one: for command    *)
(* lines of any length, main runs with the defaults or not at all.         *)
THEOREM OnlyDefaultsCorrect == Spec => []OnlyDefaults
<1>1. Init => OptInv
  BY DEF Init, OptInv
<1>2. OptInv => OnlyDefaults
  BY DEF OptInv, OnlyDefaults
<1>3. QED
  BY <1>1, <1>2, OptStep, PTL DEF Spec

=============================================================================
