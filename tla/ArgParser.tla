----------------------------- MODULE ArgParser ------------------------------
(***************************************************************************)
(* parse_arguments, the server's command line.  argv is the sequence of    *)
(* what getopt (external) finds in it: an option letter with its argument, *)
(* an operand, or the "--" that ends the options.                          *)
(***************************************************************************)
EXTENDS Integers, Sequences

CONSTANTS
    Argvs,              \* command lines
    IntMax, LongMax,    \* INT_MAX and LONG_MAX
    NoArg               \* what getopt finds after a letter at the very end

(* Texts of arguments: do they begin with digits, does anything follow     *)
(* them, and the number that the digits are.                               *)
Args == [digits : BOOLEAN, rest : BOOLEAN, value : Int]

ValueOptions == {"f", "s", "l"}

Found == [opt : ValueOptions, arg : Args \cup {NoArg}]
         \cup [opt : {"h", "k", "operand", "--"}]

Default == [f |-> 10, s |-> 20, l |-> 100]
Zero == [o \in ValueOptions |-> 0]

ASSUME ArgAssumption ==
    /\ Argvs \subseteq Seq(Found)
    /\ IntMax \in Nat /\ IntMax >= 100
    /\ LongMax \in Nat /\ LongMax >= IntMax
    /\ NoArg \notin Args

VARIABLES
    argv,
    optind,     \* getopt's, from 1
    local,      \* freshness_seconds (f), staleness_seconds (s), max_cache_size (l)
    config,     \* *config_out
    status      \* parse_status_t, "none" before the return

vars == <<argv, optind, local, config, status>>

(* errno is set beyond the range of long; endptr tells about digits and rest. *)
ParsePositiveInt(arg) ==
    /\ arg.value \in -LongMax - 1 .. LongMax
    /\ arg.digits /\ ~arg.rest
    /\ arg.value > 0 /\ arg.value <= IntMax

-----------------------------------------------------------------------------
Init ==
    /\ argv \in Argvs
    /\ optind = 1
    /\ local = Default
    /\ config = Zero
    /\ status = "none"

(* getopt does not return -1. *)
Finds(opts) ==
    /\ status = "none"
    /\ optind <= Len(argv)
    /\ argv[optind].opt \in opts

Return(result) ==
    /\ status' = result
    /\ UNCHANGED <<argv, optind, local, config>>

TakeValue ==
    /\ Finds(ValueOptions)
    /\ argv[optind].arg # NoArg
    /\ ParsePositiveInt(argv[optind].arg)
    /\ local' = [local EXCEPT ![argv[optind].opt] = argv[optind].arg.value]
    /\ optind' = optind + 1
    /\ UNCHANGED <<argv, config, status>>

(* A missing argument is getopt's '?'. *)
RejectValue ==
    /\ Finds(ValueOptions)
    /\ ~(argv[optind].arg # NoArg /\ ParsePositiveInt(argv[optind].arg))
    /\ Return("error")

Help == Finds({"h"}) /\ Return("help")

(* 'k' is not in the option string, so that it is '?' as well. *)
Unknown == Finds({"k"}) /\ Return("error")

(* Operands are passed over. *)
PassOver ==
    /\ Finds({"operand"})
    /\ optind' = optind + 1
    /\ UNCHANGED <<argv, local, config, status>>

AtEnd == status = "none" /\ (optind > Len(argv) \/ Finds({"--"}))

(* Mutant of RejectWindows: the windows are compared after each option. *)
RejectWindowsSoFar ==
    /\ status = "none"
    /\ local.s < local.f
    /\ Return("error")

RejectWindows ==
    /\ AtEnd
    /\ local.s < local.f
    /\ Return("error")

(* Mutant of Accept: the windows are not compared. *)
AcceptUncompared ==
    /\ AtEnd
    /\ config' = local
    /\ status' = "ok"
    /\ UNCHANGED <<argv, optind, local>>

Accept ==
    /\ AtEnd
    /\ local.s >= local.f
    /\ config' = local
    /\ status' = "ok"
    /\ UNCHANGED <<argv, optind, local>>

Next == TakeValue \/ RejectValue \/ Help \/ Unknown \/ PassOver \/ RejectWindows \/ Accept

Spec == Init /\ [][Next]_vars

-----------------------------------------------------------------------------
(* Types; the locals are positive at any time, not only at the end. *)
TypeOK ==
    /\ argv \in Argvs
    /\ optind \in 1..Len(argv) + 1
    /\ local \in [ValueOptions -> 1..IntMax]
    /\ config \in [ValueOptions -> 0..IntMax]
    /\ status \in {"none", "ok", "help", "error"}

(* CacheOps!WindowAssumption, on which every module about the cache        *)
(* builds, holds of a configuration that main goes on with.                *)
OkMeansWindows ==
    status = "ok" =>
        /\ config.f \in Nat \ {0}
        /\ config.s \in Nat \ {0}
        /\ config.f <= config.s
        /\ config.l \in Nat \ {0}

(* Index j is an option that getopt reports, the "--" being after it. *)
Reported(j) == \A k \in 1..j : argv[k].opt # "--"

BadValue(j) ==
    argv[j].opt \in ValueOptions /\ ~(argv[j].arg # NoArg /\ ParsePositiveInt(argv[j].arg))

Stopping(j) == argv[j].opt = "h" \/ BadValue(j)

NoKeyOption == \A j \in 1..Len(argv) : Reported(j) => argv[j].opt # "k"

(* The value an option is given by the whole command line: its last        *)
(* occurrence's, or the default.                                           *)
LastValue(o, value) ==
    LET given == {j \in 1..Len(argv) : Reported(j) /\ argv[j].opt = o}
    IN  IF given = {} THEN value = Default[o]
        ELSE \E j \in given : value = argv[j].arg.value /\ \A k \in given : k <= j

(* The result is what the command line as a whole calls for: the first     *)
(* option that stops the parser decides between help and error, a later    *)
(* occurrence overrides an earlier one, and the windows are compared after *)
(* all of them, in whatever order they come.  An error after good options  *)
(* leaves the output alone.  Lines with -k, on which code and              *)
(* documentation disagree, are DocumentedOptionsAccepted's.                *)
ResultIsForWholeLine ==
    LET stops == {j \in 1..Len(argv) : Reported(j) /\ Stopping(j)} IN
    /\ status # "ok" => config = Zero
    /\ NoKeyOption =>
        /\ status = "help" =>
            \E j \in stops : argv[j].opt = "h" /\ \A k \in stops : j <= k
        /\ status = "error" =>
            \/ \E j \in stops : argv[j].opt # "h" /\ \A k \in stops : j <= k
            \/ stops = {} /\ \E f, s \in 1..IntMax : LastValue("f", f) /\ LastValue("s", s) /\ s < f
        /\ status = "ok" =>
            stops = {} /\ \A o \in ValueOptions : LastValue(o, config[o])

(* The server's README, lines 7 to 15, lists -k <path>, -f, -s, -l and -h  *)
(* and gives two rules for the numbers: a line of these options is an      *)
(* error only for one of the numbers or for the order of the windows.      *)
DocumentedOptionsAccepted ==
    status = "error" =>
        \/ \E j \in 1..Len(argv) : Reported(j) /\ BadValue(j)
        \/ \E f, s \in 1..IntMax : LastValue("f", f) /\ LastValue("s", s) /\ s < f
=============================================================================
