-------------------------- MODULE ServerMainProofs -------------------------
(***************************************************************************)
(* The server's main, for command lines of any length, any widths of int   *)
(* and long, and any number of starts, clients and workers.                *)
(*                                                                         *)
(* First the argument parser by itself: the types, the windows that an ok  *)
(* vouches for, and that the result is the whole line's.  The last needs   *)
(* what the loop knows of the options before optind: none of them stops    *)
(* the parser, and the locals are the last values among them.  Then the    *)
(* path by itself: who can be reached there, and what bind() finds.  Then  *)
(* main: it implements ArgParser and SocketPath, whose theorems become its *)
(* own, and how it ends follows from invariants of ServerExit's part.      *)
(***************************************************************************)
EXTENDS ServerMain, FiniteSetTheorems, TLAPS

LEMMA ArgvType ==
    ASSUME argv \in Argvs
    PROVE  /\ Len(argv) \in Nat
           /\ \A j \in 1..Len(argv) : argv[j] \in Found
  BY ArgAssumption

(* An option with a value is one of the three, and what ParsePositiveInt   *)
(* lets pass is a positive int.                                            *)
LEMMA ValueType ==
    ASSUME argv \in Argvs, NEW j \in 1..Len(argv), argv[j].opt \in ValueOptions,
           argv[j].arg # NoArg, ParsePositiveInt(argv[j].arg)
    PROVE  argv[j].arg.value \in 1..IntMax
  <1>1. argv[j] \in Found
    BY ArgvType
  <1>2. argv[j] \in [opt : ValueOptions, arg : Args \cup {NoArg}]
    BY <1>1 DEF Found, ValueOptions
  <1>3. argv[j].arg \in Args
    BY <1>2
  <1>4. argv[j].arg.value \in Int
    BY <1>3 DEF Args
  <1> QED  BY <1>4, ArgAssumption DEF ParsePositiveInt

-----------------------------------------------------------------------------
LEMMA TypeInit == Init => TypeOK
  <1> SUFFICES ASSUME Init  PROVE TypeOK
    OBVIOUS
  <1>1. argv \in Argvs /\ Len(argv) \in Nat
    BY ArgvType DEF Init
  <1>2. local \in [ValueOptions -> 1..IntMax]
    BY ArgAssumption DEF Init, Default, ValueOptions
  <1>3. config \in [ValueOptions -> 0..IntMax]
    BY ArgAssumption DEF Init, Zero
  <1> QED  BY <1>1, <1>2, <1>3 DEF Init, TypeOK

LEMMA TypeNext == TypeOK /\ [Next]_vars => TypeOK'
  <1> SUFFICES ASSUME TypeOK, [Next]_vars  PROVE TypeOK'
    OBVIOUS
  <1> USE DEF TypeOK
  <1>0. Len(argv) \in Nat
    BY ArgvType
  <1>1. CASE TakeValue
    <2>1. optind \in 1..Len(argv) /\ argv[optind].opt \in ValueOptions
      BY <1>1, <1>0 DEF TakeValue, Finds
    <2>2. argv[optind].arg.value \in 1..IntMax
      BY <1>1, <2>1, ValueType DEF TakeValue
    <2>3. local' \in [ValueOptions -> 1..IntMax]
      BY <1>1, <2>1, <2>2 DEF TakeValue
    <2> QED  BY <1>0, <1>1, <2>1, <2>3 DEF TakeValue
  <1>2. CASE RejectValue \/ Help \/ Unknown \/ RejectWindows
    BY <1>2 DEF RejectValue, Help, Unknown, RejectWindows, Return
  <1>3. CASE PassOver
    BY <1>0, <1>3 DEF PassOver, Finds
  <1>4. CASE Accept
    <2>1. config' \in [ValueOptions -> 0..IntMax]
      BY <1>4, ArgAssumption DEF Accept
    <2> QED  BY <1>4, <2>1 DEF Accept
  <1>5. CASE UNCHANGED vars
    BY <1>5 DEF vars
  <1> QED  BY <1>1, <1>2, <1>3, <1>4, <1>5 DEF Next

(* Types; the locals are positive ints at any time.                        *)
THEOREM TypeCorrect == Spec => []TypeOK
  BY TypeInit, TypeNext, PTL DEF Spec

-----------------------------------------------------------------------------
(* The end of the options, as it stays visible after the return.           *)
OptionsEnd == optind > Len(argv) \/ argv[optind].opt = "--"

(* What the loop knows of the options before optind.                       *)
NoneStops == \A j \in 1..optind - 1 : argv[j].opt \notin {"--", "k"} /\ ~Stopping(j)

Before(o) == {j \in 1..optind - 1 : argv[j].opt = o}

LocalsAreLast ==
    \A o \in ValueOptions :
        IF Before(o) = {} THEN local[o] = Default[o]
        ELSE \E j \in Before(o) : local[o] = argv[j].arg.value /\ \A k \in Before(o) : k <= j

(* And where it was left.                                                  *)
LeftAt ==
    /\ status = "help" => optind \in 1..Len(argv) /\ argv[optind].opt = "h"
    /\ status = "error" =>
        \/ /\ optind \in 1..Len(argv) /\ argv[optind].opt \notin {"h", "--"}
           /\ argv[optind].opt = "k" \/ Stopping(optind)
        \/ OptionsEnd /\ local.s < local.f
    /\ status = "ok" => OptionsEnd /\ config = local /\ local.s >= local.f

LineInv == TypeOK /\ NoneStops /\ LocalsAreLast /\ LeftAt

LEMMA LineInit == Init => LineInv
  <1> SUFFICES ASSUME Init  PROVE LineInv
    OBVIOUS
  <1>1. NoneStops
    BY DEF Init, NoneStops
  <1>2. \A o \in ValueOptions : Before(o) = {} /\ local[o] = Default[o]
    BY DEF Init, Before
  <1>3. LocalsAreLast
    BY <1>2 DEF LocalsAreLast
  <1>4. LeftAt
    BY DEF Init, LeftAt
  <1> QED  BY <1>1, <1>3, <1>4, TypeInit DEF LineInv

(* A return leaves the options as they are; only LeftAt has to be shown.   *)
LEMMA ReturnKeeps ==
    ASSUME LineInv, UNCHANGED <<argv, optind, local>>
    PROVE  NoneStops' /\ LocalsAreLast'
  <1>1. NoneStops'
    BY DEF LineInv, NoneStops, Stopping, BadValue
  <1>2. \A o \in ValueOptions : Before(o)' = Before(o)
    BY DEF Before
  <1>3. LocalsAreLast'
    BY <1>2 DEF LineInv, LocalsAreLast
  <1> QED  BY <1>1, <1>3

(* One option further: it is no "--", does not stop the parser, and is the *)
(* last of its kind.                                                       *)
LEMMA OneFurther ==
    ASSUME TypeOK, NoneStops, optind \in 1..Len(argv), argv' = argv, optind' = optind + 1,
           NEW opt, opt = argv[optind].opt, opt \notin {"--", "k"}, ~Stopping(optind)
    PROVE  /\ NoneStops'
           /\ \A o : o # opt => Before(o)' = Before(o)
           /\ Before(opt)' = Before(opt) \cup {optind}
  <1>0. Len(argv) \in Nat /\ optind \in Nat
    BY ArgvType DEF TypeOK
  <1>1. 1..optind' - 1 = (1..optind - 1) \cup {optind}
    BY <1>0
  <1>2. NoneStops'
    BY <1>1 DEF NoneStops, Stopping, BadValue
  <1>3. \A o : Before(o)' = {j \in (1..optind - 1) \cup {optind} : argv[j].opt = o}
    BY <1>1 DEF Before
  <1>4. \A o : o # opt => Before(o)' = Before(o)
    BY <1>3 DEF Before
  <1>5. Before(opt)' = Before(opt) \cup {optind}
    BY <1>3 DEF Before
  <1> QED  BY <1>2, <1>4, <1>5

LEMMA LineNext == LineInv /\ [Next]_vars => LineInv'
  <1> SUFFICES ASSUME LineInv, [Next]_vars  PROVE LineInv'
    OBVIOUS
  <1>T. TypeOK'
    BY TypeNext DEF LineInv
  <1>0. Len(argv) \in Nat /\ optind \in 1..Len(argv) + 1
    BY ArgvType DEF LineInv, TypeOK
  <1>1. CASE TakeValue
    <2> PICK opt : opt = argv[optind].opt
      OBVIOUS
    <2>1. optind \in 1..Len(argv) /\ opt \in ValueOptions /\ status' = "none" /\ argv' = argv
      BY <1>0, <1>1 DEF TakeValue, Finds
    <2>2. argv[optind].arg # NoArg /\ ParsePositiveInt(argv[optind].arg) /\ optind' = optind + 1
      BY <1>1 DEF TakeValue
    <2>3. opt \notin {"--", "k"} /\ ~Stopping(optind)
      BY <2>1, <2>2 DEF Stopping, BadValue, ValueOptions
    <2>4. /\ NoneStops'
          /\ \A o : o # opt => Before(o)' = Before(o)
          /\ Before(opt)' = Before(opt) \cup {optind}
      BY <2>1, <2>2, <2>3, OneFurther DEF LineInv
    <2>5. /\ local'[opt] = argv[optind].arg.value
          /\ \A o \in ValueOptions : o # opt => local'[o] = local[o]
      BY <1>1, <2>1 DEF TakeValue, LineInv, TypeOK
    <2>6. \A k \in Before(opt) \cup {optind} : k <= optind
      BY <1>0 DEF Before
    <2>7. ASSUME NEW o \in ValueOptions
          PROVE  IF Before(o)' = {} THEN local'[o] = Default[o]
                 ELSE \E j \in Before(o)' :
                        local'[o] = argv[j].arg.value /\ \A k \in Before(o)' : k <= j
      <3>1. CASE o = opt
        <4>1. optind \in Before(o)' /\ \A k \in Before(o)' : k <= optind
          BY <2>4, <2>6, <3>1
        <4> QED  BY <2>5, <3>1, <4>1
      <3>2. CASE o # opt
        BY <2>4, <2>5, <3>2 DEF LineInv, LocalsAreLast
      <3> QED  BY <3>1, <3>2
    <2>8. LocalsAreLast'
      BY <2>1, <2>7 DEF LocalsAreLast
    <2>9. LeftAt'
      BY <2>1 DEF LeftAt
    <2> QED  BY <1>T, <2>4, <2>8, <2>9 DEF LineInv
  <1>2. CASE PassOver
    <2>1. optind \in 1..Len(argv) /\ argv[optind].opt = "operand" /\ status' = "none"
      BY <1>0, <1>2 DEF PassOver, Finds
    <2>2. argv' = argv /\ optind' = optind + 1 /\ local' = local
      BY <1>2 DEF PassOver
    <2>3. ~Stopping(optind)
      BY <2>1 DEF Stopping, BadValue, ValueOptions
    <2>4. NoneStops' /\ \A o : o # "operand" => Before(o)' = Before(o)
      BY <2>1, <2>2, <2>3, OneFurther DEF LineInv
    <2>5. \A o \in ValueOptions : Before(o)' = Before(o)
      BY <2>4 DEF ValueOptions
    <2>6. LocalsAreLast'
      BY <2>2, <2>5 DEF LocalsAreLast, LineInv
    <2>7. LeftAt'
      BY <2>1 DEF LeftAt
    <2> QED  BY <1>T, <2>4, <2>6, <2>7 DEF LineInv
  <1>3. CASE Help
    <2>1. UNCHANGED <<argv, optind, local>> /\ status' = "help"
      BY <1>3 DEF Help, Return
    <2>2. optind \in 1..Len(argv) /\ argv[optind].opt = "h"
      BY <1>0, <1>3 DEF Help, Finds
    <2>3. LeftAt'
      BY <2>1, <2>2 DEF LeftAt
    <2> QED  BY <1>T, <2>1, <2>3, ReturnKeeps DEF LineInv
  <1>4. CASE Unknown \/ RejectValue
    <2>1. UNCHANGED <<argv, optind, local>> /\ status' = "error"
      BY <1>4 DEF Unknown, RejectValue, Return
    <2>2. /\ optind \in 1..Len(argv) /\ argv[optind].opt \notin {"h", "--"}
          /\ argv[optind].opt = "k" \/ Stopping(optind)
      BY <1>0, <1>4 DEF Unknown, RejectValue, Finds, Stopping, BadValue, ValueOptions
    <2>3. Stopping(optind)' <=> Stopping(optind)
      BY <2>1 DEF Stopping, BadValue
    <2>4. LeftAt'
      BY <2>1, <2>2, <2>3 DEF LeftAt
    <2> QED  BY <1>T, <2>1, <2>4, ReturnKeeps DEF LineInv
  <1>5. CASE RejectWindows
    <2>1. UNCHANGED <<argv, optind, local>> /\ status' = "error"
      BY <1>5 DEF RejectWindows, Return
    <2>2. OptionsEnd /\ local.s < local.f
      BY <1>5 DEF RejectWindows, AtEnd, Finds, OptionsEnd
    <2>3. LeftAt'
      BY <2>1, <2>2 DEF LeftAt, OptionsEnd
    <2> QED  BY <1>T, <2>1, <2>3, ReturnKeeps DEF LineInv
  <1>6. CASE Accept
    <2>1. UNCHANGED <<argv, optind, local>> /\ status' = "ok" /\ config' = local
      BY <1>6 DEF Accept
    <2>2. OptionsEnd /\ local.s >= local.f
      BY <1>6 DEF Accept, AtEnd, Finds, OptionsEnd
    <2>3. LeftAt'
      BY <2>1, <2>2 DEF LeftAt, OptionsEnd
    <2> QED  BY <1>T, <2>1, <2>3, ReturnKeeps DEF LineInv
  <1>7. CASE UNCHANGED vars
    <2>1. UNCHANGED <<argv, optind, local>> /\ status' = status /\ config' = config
      BY <1>7 DEF vars
    <2>2. LeftAt'
      BY <2>1 DEF LineInv, LeftAt, OptionsEnd, Stopping, BadValue
    <2> QED  BY <1>T, <2>1, <2>2, ReturnKeeps DEF LineInv
  <1> QED  BY <1>1, <1>2, <1>3, <1>4, <1>5, <1>6, <1>7 DEF Next

LEMMA LineAlways == Spec => []LineInv
  BY LineInit, LineNext, PTL DEF Spec

-----------------------------------------------------------------------------
LEMMA WindowsFromLine == LineInv => OkMeansWindows
  <1> SUFFICES ASSUME LineInv, status = "ok"
               PROVE  /\ config.f \in Nat \ {0}
                      /\ config.s \in Nat \ {0}
                      /\ config.f <= config.s
                      /\ config.l \in Nat \ {0}
    BY DEF OkMeansWindows
  <1>1. config = local /\ local.s >= local.f
    BY DEF LineInv, LeftAt
  <1>2. local.f \in 1..IntMax /\ local.s \in 1..IntMax /\ local.l \in 1..IntMax
    BY DEF LineInv, TypeOK, ValueOptions
  <1> QED  BY <1>1, <1>2, ArgAssumption

(* What CacheOps!WindowAssumption takes for granted holds of every         *)
(* configuration main goes on with.                                        *)
THEOREM WindowsOk == Spec => []OkMeansWindows
  BY LineAlways, WindowsFromLine, PTL

(* Until the end of the options, getopt reports exactly what is before it. *)
LEMMA ReportedAtEnd ==
    ASSUME LineInv, OptionsEnd
    PROVE  \A j \in 1..Len(argv) : Reported(j) <=> j \in 1..optind - 1
  <1>1. Len(argv) \in Nat /\ optind \in 1..Len(argv) + 1
    BY ArgvType DEF LineInv, TypeOK
  <1>2. ASSUME NEW j \in 1..Len(argv), Reported(j)  PROVE j \in 1..optind - 1
    BY <1>1, <1>2 DEF Reported, OptionsEnd
  <1>3. ASSUME NEW j \in 1..optind - 1  PROVE Reported(j)
    <2>1. \A k \in 1..j : k \in 1..optind - 1
      BY <1>1
    <2> QED  BY <2>1 DEF Reported, LineInv, NoneStops
  <1> QED  BY <1>2, <1>3

LEMMA LastAtEnd ==
    ASSUME LineInv, OptionsEnd, NEW o \in ValueOptions
    PROVE  LastValue(o, local[o])
  <1>1. Len(argv) \in Nat /\ optind \in 1..Len(argv) + 1
    BY ArgvType DEF LineInv, TypeOK
  <1>2. {j \in 1..Len(argv) : Reported(j) /\ argv[j].opt = o} = Before(o)
    BY <1>1, ReportedAtEnd DEF Before
  <1> QED  BY <1>2 DEF LastValue, LineInv, LocalsAreLast

(* What the parser stopped at, getopt reported.                            *)
LEMMA AtStopReported ==
    ASSUME LineInv, optind \in 1..Len(argv), argv[optind].opt # "--"
    PROVE  Reported(optind)
  <1>1. Len(argv) \in Nat /\ optind \in Nat
    BY ArgvType DEF LineInv, TypeOK
  <1> QED  BY <1>1 DEF Reported, LineInv, NoneStops

(* Where the parser stopped is the first option that stops it.             *)
LEMMA FirstStop ==
    ASSUME LineInv, optind \in 1..Len(argv), argv[optind].opt # "--", Stopping(optind),
           NEW stops, stops = {j \in 1..Len(argv) : Reported(j) /\ Stopping(j)}
    PROVE  optind \in stops /\ \A k \in stops : optind <= k
  <1>1. Len(argv) \in Nat /\ optind \in Nat
    BY ArgvType DEF LineInv, TypeOK
  <1>2. Reported(optind)
    BY AtStopReported
  <1>3. ASSUME NEW k \in stops  PROVE optind <= k
    BY <1>1, <1>3 DEF LineInv, NoneStops
  <1> QED  BY <1>2, <1>3

ConfigWrittenLast == status # "ok" => config = Zero

LEMMA ResultFromLine == LineInv /\ ConfigWrittenLast => ResultIsForWholeLine
  <1> SUFFICES ASSUME LineInv, ConfigWrittenLast  PROVE ResultIsForWholeLine
    OBVIOUS
  <1> DEFINE stops == {j \in 1..Len(argv) : Reported(j) /\ Stopping(j)}
  <1>1. ASSUME status = "help"  PROVE \E j \in stops : argv[j].opt = "h" /\ \A k \in stops : j <= k
    <2>1. optind \in 1..Len(argv) /\ argv[optind].opt = "h"
      BY <1>1 DEF LineInv, LeftAt
    <2>2. Stopping(optind)
      BY <2>1 DEF Stopping
    <2>3. optind \in stops /\ \A k \in stops : optind <= k
      BY <2>1, <2>2, FirstStop
    <2> QED  BY <2>1, <2>3
  <1>2. ASSUME OptionsEnd  PROVE stops = {}
    BY <1>2, ReportedAtEnd DEF LineInv, NoneStops
  <1>3. ASSUME status = "error", NoKeyOption
        PROVE  \/ \E j \in stops : argv[j].opt # "h" /\ \A k \in stops : j <= k
               \/ stops = {} /\ \E f, s \in 1..IntMax : LastValue("f", f) /\ LastValue("s", s) /\ s < f
    <2>1. CASE /\ optind \in 1..Len(argv) /\ argv[optind].opt \notin {"h", "--"}
               /\ argv[optind].opt = "k" \/ Stopping(optind)
      <3>0. Stopping(optind)
        BY <1>3, <2>1, AtStopReported DEF NoKeyOption
      <3>1. optind \in stops /\ \A k \in stops : optind <= k
        BY <2>1, <3>0, FirstStop
      <3> QED  BY <2>1, <3>1
    <2>2. CASE OptionsEnd /\ local.s < local.f
      <3>1. LastValue("f", local["f"]) /\ LastValue("s", local["s"])
        BY <2>2, LastAtEnd DEF ValueOptions
      <3>2. local["f"] \in 1..IntMax /\ local["s"] \in 1..IntMax
        BY DEF LineInv, TypeOK, ValueOptions
      <3> QED  BY <1>2, <2>2, <3>1, <3>2
    <2> QED  BY <1>3, <2>1, <2>2 DEF LineInv, LeftAt
  <1>4. ASSUME status = "ok"
        PROVE  stops = {} /\ \A o \in ValueOptions : LastValue(o, config[o])
    BY <1>2, <1>4, LastAtEnd DEF LineInv, LeftAt
  <1> QED  BY <1>1, <1>3, <1>4 DEF ResultIsForWholeLine, ConfigWrittenLast

(* Without an ok nothing is written to the output.                         *)
LEMMA ConfigAlways == Spec => []ConfigWrittenLast
  <1>1. Init => ConfigWrittenLast
    BY DEF Init, ConfigWrittenLast
  <1>2. ConfigWrittenLast /\ [Next]_vars => ConfigWrittenLast'
    <2> SUFFICES ASSUME ConfigWrittenLast, [Next]_vars  PROVE ConfigWrittenLast'
      OBVIOUS
    <2>1. CASE TakeValue \/ PassOver \/ UNCHANGED vars
      BY <2>1 DEF TakeValue, PassOver, vars, ConfigWrittenLast
    <2>2. CASE RejectValue \/ Help \/ Unknown \/ RejectWindows
      <3>1. status = "none" /\ config' = config
        BY <2>2 DEF RejectValue, Help, Unknown, RejectWindows, AtEnd, Finds, Return
      <3> QED  BY <3>1 DEF ConfigWrittenLast
    <2>3. CASE Accept
      BY <2>3 DEF Accept, ConfigWrittenLast
    <2> QED  BY <2>1, <2>2, <2>3 DEF Next
  <1> QED  BY <1>1, <1>2, PTL DEF Spec

(* Help, error or ok is what the command line as a whole calls for.        *)
THEOREM ResultCorrect == Spec => []ResultIsForWholeLine
  BY LineAlways, ConfigAlways, ResultFromLine, PTL

-----------------------------------------------------------------------------
(* The path alone, for any number of starts and clients.  What can be      *)
(* reached there and what bind() finds are inductive with the types.       *)

(* What an instance's progress does to the progress of all.                *)
LEMMA PathProgress ==
    ASSUME Path!TypeOK, NEW s \in Instances, NEW from, NEW to, Path!Goes(s, from, to)
    PROVE  /\ server[s] = from
           /\ server'[s] = to
           /\ \A r \in Instances : r # s => server'[r] = server[r]
  BY DEF Path!TypeOK, Path!Goes

(* A program that has touched the path is remembered by all others.        *)
LEMMA PathTouched ==
    ASSUME NEW s \in Instances, NEW value, Path!SetPath(s, value)
    PROVE  /\ path' = value
           /\ connected' = connected
           /\ since'[s] = {}
           /\ \A r \in Instances : r # s => since'[r] = IF value = path THEN since[r]
                                                        ELSE since[r] \cup {s}
  BY DEF Path!SetPath

LEMMA PathServerTypes ==
    ASSUME Path!TypeOK, NEW s \in Instances, NEW from,
           NEW to \in Path!Bound \cup {"off", "unlinked", "ended"}, Path!Goes(s, from, to)
    PROVE  server' \in [Instances -> Path!Bound \cup {"off", "unlinked", "ended"}]
  BY DEF Path!TypeOK, Path!Goes

LEMMA PathTypes ==
    ASSUME Path!TypeOK, NEW s \in Instances, NEW value \in SUBSET Instances, Path!SetPath(s, value)
    PROVE  path' \subseteq Instances /\ since' \in [Instances -> SUBSET Instances]
  BY DEF Path!TypeOK, Path!SetPath

-----------------------------------------------------------------------------
LEMMA PathTypeInit == Path!Init => Path!TypeOK
  BY DEF Path!Init, Path!TypeOK, Path!Bound

(* Only the end of an instance takes it out of Connectable.                *)
LEMMA PathConnectedKept ==
    ASSUME Path!TypeOK, NEW s \in Instances, NEW from, NEW to, Path!Goes(s, from, to),
           from \in Path!Connectable => to \in Path!Connectable,
           connected' = connected
    PROVE  \A c \in Clients, r \in Instances : <<c, r>> \in connected' => server'[r] \in Path!Connectable
  <1> SUFFICES ASSUME NEW c \in Clients, NEW r \in Instances, <<c, r>> \in connected
               PROVE  server'[r] \in Path!Connectable
    OBVIOUS
  <1>1. server[r] \in Path!Connectable
    BY DEF Path!TypeOK
  <1>2. CASE r = s
    BY <1>1, <1>2, PathProgress
  <1>3. CASE r # s
    BY <1>1, <1>3, PathProgress
  <1> QED  BY <1>2, <1>3

LEMMA PathTypeNext == Path!TypeOK /\ [Path!Next]_(Path!vars) => Path!TypeOK'
  <1> SUFFICES ASSUME Path!TypeOK, [Path!Next]_(Path!vars)  PROVE Path!TypeOK'
    OBVIOUS
  <1>1. ASSUME NEW s \in Instances, Path!Unlink(s)  PROVE Path!TypeOK'
    <2> DEFINE left == {r \in path : <<s, r>> \notin Removable}
    <2>1. Path!Goes(s, "off", "unlinked") /\ Path!SetPath(s, left)
      BY <1>1 DEF Path!Unlink
    <2>2. path' = left /\ connected' = connected
      BY <2>1, PathTouched
    <2>3. since' \in [Instances -> SUBSET Instances]
      BY <2>1, PathTypes DEF Path!TypeOK
    <2>4. server' \in [Instances -> Path!Bound \cup {"off", "unlinked", "ended"}]
      BY <2>1, PathServerTypes
    <2>5. \A c \in Clients, r \in Instances : <<c, r>> \in connected' => server'[r] \in Path!Connectable
      BY <2>1, <2>2, PathConnectedKept DEF Path!Connectable
    <2> QED  BY <2>2, <2>3, <2>4, <2>5 DEF Path!TypeOK
  <1>2. ASSUME NEW s \in Instances, Path!Bind(s)  PROVE Path!TypeOK'
    <2>1. Path!Goes(s, "unlinked", "bound") /\ Path!SetPath(s, {s})
      BY <1>2 DEF Path!Bind
    <2>2. path' = {s} /\ connected' = connected
      BY <2>1, PathTouched
    <2>3. since' \in [Instances -> SUBSET Instances]
      BY <2>1, PathTypes
    <2>4. server' \in [Instances -> Path!Bound \cup {"off", "unlinked", "ended"}]
      BY <2>1, PathServerTypes DEF Path!Bound
    <2>5. \A c \in Clients, r \in Instances : <<c, r>> \in connected' => server'[r] \in Path!Connectable
      BY <2>1, <2>2, PathConnectedKept DEF Path!Connectable
    <2> QED  BY <2>2, <2>3, <2>4, <2>5 DEF Path!TypeOK
  <1>3. ASSUME NEW s \in Instances, Path!Listen(s) \/ Path!Poll(s)  PROVE Path!TypeOK'
    <2>1. PICK from \in {"bound", "listening"}, to \in Path!Connectable : Path!Goes(s, from, to)
      BY <1>3 DEF Path!Listen, Path!Poll, Path!Connectable, Path!Bound
    <2>2. UNCHANGED <<path, connected, since>>
      BY <1>3 DEF Path!Listen, Path!Poll
    <2>3. server' \in [Instances -> Path!Bound \cup {"off", "unlinked", "ended"}]
      BY <2>1, PathServerTypes DEF Path!Bound, Path!Connectable
    <2>4. \A c \in Clients, r \in Instances : <<c, r>> \in connected' => server'[r] \in Path!Connectable
      BY <2>1, <2>2, PathConnectedKept
    <2> QED  BY <2>2, <2>3, <2>4 DEF Path!TypeOK
  <1>4. ASSUME NEW s \in Instances, Path!End(s)  PROVE Path!TypeOK'
    <2>1. server' \in [Instances -> Path!Bound \cup {"off", "unlinked", "ended"}]
      BY <1>4 DEF Path!End, Path!TypeOK
    <2>2. connected' \subseteq connected /\ \A c \in Clients : <<c, s>> \notin connected'
      BY <1>4 DEF Path!End
    <2>3. \A r \in Instances : r # s => server'[r] = server[r]
      BY <1>4 DEF Path!End, Path!TypeOK
    <2>4. \A c \in Clients, r \in Instances : <<c, r>> \in connected' => server'[r] \in Path!Connectable
      BY <2>2, <2>3 DEF Path!TypeOK
    <2> QED  BY <1>4, <2>1, <2>2, <2>4 DEF Path!End, Path!TypeOK
  <1>5. ASSUME NEW c \in Clients, NEW s \in Instances, Path!Connect(c, s)  PROVE Path!TypeOK'
    BY <1>5 DEF Path!Connect, Path!TypeOK
  <1>6. ASSUME NEW c \in Clients, NEW s \in Instances, Path!Serve(c, s)  PROVE Path!TypeOK'
    BY <1>6 DEF Path!Serve, Path!TypeOK
  <1>7. CASE UNCHANGED Path!vars
    BY <1>7 DEF Path!vars, Path!TypeOK
  <1> QED  BY <1>1, <1>2, <1>3, <1>4, <1>5, <1>6, <1>7 DEF Path!Next, Path!Step

(* Types, one instance at most at the path, and only live servers with     *)
(* connections.                                                            *)
THEOREM PathTypeCorrect == Path!Spec => []Path!TypeOK
  BY PathTypeInit, PathTypeNext, PTL DEF Path!Spec

-----------------------------------------------------------------------------
LEMMA PathReachableNext ==
    Path!TypeOK /\ Path!ReachableUntilNextStart /\ [Path!Next]_(Path!vars) => Path!ReachableUntilNextStart'
  <1> SUFFICES ASSUME Path!TypeOK, Path!ReachableUntilNextStart, [Path!Next]_(Path!vars),
                      NEW r \in Instances, server'[r] \in Path!Bound, r \notin path'
               PROVE  since'[r] # {}
    BY DEF Path!ReachableUntilNextStart
  <1>1. ASSUME NEW s \in Instances, Path!Unlink(s)  PROVE since'[r] # {}
    <2> DEFINE left == {q \in path : <<s, q>> \notin Removable}
    <2>1. Path!Goes(s, "off", "unlinked") /\ Path!SetPath(s, left)
      BY <1>1 DEF Path!Unlink
    <2>2. r # s /\ server[r] \in Path!Bound
      BY <2>1, PathProgress DEF Path!Bound
    <2>3. path' = left /\ since'[r] = IF left = path THEN since[r] ELSE since[r] \cup {s}
      BY <2>1, <2>2, PathTouched
    <2> QED  BY <2>2, <2>3 DEF Path!ReachableUntilNextStart
  <1>2. ASSUME NEW s \in Instances, Path!Bind(s)  PROVE since'[r] # {}
    <2>1. Path!SetPath(s, {s}) /\ {s} # path
      BY <1>2 DEF Path!Bind
    <2>2. r # s
      BY <2>1, PathTouched
    <2>3. since'[r] = IF {s} = path THEN since[r] ELSE since[r] \cup {s}
      BY <2>1, <2>2, PathTouched
    <2> QED  BY <2>1, <2>3
  <1>3. ASSUME NEW s \in Instances, Path!Listen(s) \/ Path!Poll(s)  PROVE since'[r] # {}
    <2>1. PICK from \in Path!Bound, to \in Path!Connectable : Path!Goes(s, from, to)
      BY <1>3 DEF Path!Listen, Path!Poll, Path!Connectable, Path!Bound
    <2>2. server[r] \in Path!Bound
      BY <2>1, PathProgress
    <2> QED  BY <1>3, <2>2 DEF Path!Listen, Path!Poll, Path!ReachableUntilNextStart
  <1>4. ASSUME NEW s \in Instances, Path!End(s)  PROVE since'[r] # {}
    <2>1. server[r] \in Path!Bound
      BY <1>4 DEF Path!End, Path!TypeOK, Path!Bound
    <2> QED  BY <1>4, <2>1 DEF Path!End, Path!ReachableUntilNextStart
  <1>5. ASSUME NEW c \in Clients, NEW s \in Instances, Path!Connect(c, s) \/ Path!Serve(c, s)
        PROVE  since'[r] # {}
    BY <1>5 DEF Path!Connect, Path!Serve, Path!ReachableUntilNextStart
  <1>6. CASE UNCHANGED Path!vars
    BY <1>6 DEF Path!vars, Path!ReachableUntilNextStart
  <1> QED  BY <1>1, <1>2, <1>3, <1>4, <1>5, <1>6 DEF Path!Next, Path!Step

(* An instance that has bound the path is reachable there until another    *)
(* start touches it, however those starts end.                             *)
THEOREM PathReachable == Path!Spec => []Path!ReachableUntilNextStart
  <1>1. Path!Init => Path!ReachableUntilNextStart
    BY DEF Path!Init, Path!ReachableUntilNextStart, Path!Bound
  <1> QED  BY <1>1, PathTypeCorrect, PathReachableNext, PTL DEF Path!Spec

-----------------------------------------------------------------------------
(* What r finds at the path is later than its unlink(), or not removable.  *)
Excused(r) == \A q \in path : q \in since[r] \/ <<r, q>> \notin Removable

LEMMA PathLeftoverNext ==
    Path!TypeOK /\ Path!OnlyForeignLeftoverBlocks /\ [Path!Next]_(Path!vars) => Path!OnlyForeignLeftoverBlocks'
  <1> SUFFICES ASSUME Path!TypeOK, Path!OnlyForeignLeftoverBlocks, [Path!Next]_(Path!vars),
                      NEW r \in Instances, server'[r] = "unlinked"
               PROVE  Excused(r)'
    BY DEF Excused, Path!OnlyForeignLeftoverBlocks
  <1>1. ASSUME NEW s \in Instances, Path!Unlink(s)  PROVE Excused(r)'
    <2> DEFINE left == {q \in path : <<s, q>> \notin Removable}
    <2>1. Path!Goes(s, "off", "unlinked") /\ Path!SetPath(s, left)
      BY <1>1 DEF Path!Unlink
    <2>2. CASE r = s
      BY <2>1, <2>2, PathTouched DEF Excused
    <2>3. CASE r # s
      <3>1. server[r] = "unlinked"
        BY <2>1, <2>3, PathProgress
      <3>2. path' = left
        BY <2>1, PathTouched
      <3>2a. since'[r] = IF left = path THEN since[r] ELSE since[r] \cup {s}
        BY <2>1, <2>3, PathTouched
      <3>3. \A q \in path : q \in since[r] \/ <<r, q>> \notin Removable
        BY <3>1 DEF Path!OnlyForeignLeftoverBlocks
      <3> QED  BY <3>2, <3>2a, <3>3 DEF Excused
    <2> QED  BY <2>2, <2>3
  <1>2. ASSUME NEW s \in Instances, Path!Bind(s)  PROVE Excused(r)'
    <2>1. Path!Goes(s, "unlinked", "bound") /\ Path!SetPath(s, {s}) /\ {s} # path
      BY <1>2 DEF Path!Bind
    <2>2. r # s
      BY <2>1, PathProgress
    <2>3. path' = {s} /\ since'[r] = since[r] \cup {s}
      BY <2>1, <2>2, PathTouched
    <2> QED  BY <2>3 DEF Excused
  <1>3. ASSUME NEW s \in Instances, Path!Listen(s) \/ Path!Poll(s)  PROVE Excused(r)'
    <2>1. PICK from \in Path!Bound, to \in Path!Connectable : Path!Goes(s, from, to)
      BY <1>3 DEF Path!Listen, Path!Poll, Path!Connectable, Path!Bound
    <2>2. server[r] = "unlinked"
      BY <2>1, PathProgress DEF Path!Connectable
    <2> QED  BY <1>3, <2>2 DEF Path!Listen, Path!Poll, Excused, Path!OnlyForeignLeftoverBlocks
  <1>4. ASSUME NEW s \in Instances, Path!End(s)  PROVE Excused(r)'
    <2>1. server[r] = "unlinked"
      BY <1>4 DEF Path!End, Path!TypeOK
    <2> QED  BY <1>4, <2>1 DEF Path!End, Excused, Path!OnlyForeignLeftoverBlocks
  <1>5. ASSUME NEW c \in Clients, NEW s \in Instances, Path!Connect(c, s) \/ Path!Serve(c, s)
        PROVE  Excused(r)'
    BY <1>5 DEF Path!Connect, Path!Serve, Excused, Path!OnlyForeignLeftoverBlocks
  <1>6. CASE UNCHANGED Path!vars
    BY <1>6 DEF Path!vars, Excused, Path!OnlyForeignLeftoverBlocks
  <1> QED  BY <1>1, <1>2, <1>3, <1>4, <1>5, <1>6 DEF Path!Next, Path!Step

(* bind() fails only over the socket of a start that bound it after this   *)
(* one's unlink(), or over one that this start may not remove.             *)
THEOREM PathLeftover == Path!Spec => []Path!OnlyForeignLeftoverBlocks
  <1>1. Path!Init => Path!OnlyForeignLeftoverBlocks
    BY DEF Path!Init, Path!OnlyForeignLeftoverBlocks
  <1> QED  BY <1>1, PathTypeCorrect, PathLeftoverNext, PTL DEF Path!Spec

-----------------------------------------------------------------------------
(* main as a whole: of the command line it does what ArgParser does, and   *)
(* of the path what one of SocketPath's instances does.                    *)

mainVars == <<vars, pathVars, exitVars>>

LEMMA MainStepOfArgs == [MainNext]_mainVars => [Next]_vars
  <1> SUFFICES ASSUME MainNext  PROVE Next \/ UNCHANGED vars
    BY DEF mainVars
  <1> QED
    BY DEF MainNext, ParseArguments, InitServer, FailInit, EnterLoop, FailLoop, DestroyCache,
           ExitMain, AcceptAndSubmit, Worker, Rival, Connect

(* A step of main, of a rival or of a client at the path, or none there.   *)
LEMMA MainStepOfPath == [MainNext]_mainVars => [Path!Next]_(Path!vars)
  <1> SUFFICES ASSUME [MainNext]_mainVars  PROVE Path!Next \/ UNCHANGED pathVars
    BY DEF pathVars, Path!vars
  <1>1. ASSUME NEW s \in Instances, Path!Step(s)  PROVE Path!Next
    BY <1>1 DEF Path!Next
  <1>2. ASSUME NEW c \in Clients, NEW s \in Instances, Path!Connect(c, s) \/ Path!Serve(c, s)
        PROVE  Path!Next
    BY <1>2 DEF Path!Next
  <1>3. CASE InitServer \/ EnterLoop \/ ExitMain
    <2>1. Path!Step(Self)
      BY <1>3 DEF InitServer, EnterLoop, ExitMain, Path!Step
    <2> QED  BY <1>1, <2>1, SelfAssumption
  <1>4. ASSUME NEW c \in Clients, AcceptAndSubmit(c)  PROVE Path!Next
    BY <1>2, <1>4, SelfAssumption DEF AcceptAndSubmit
  <1>5. ASSUME NEW s \in Instances, Rival(s)  PROVE Path!Next
    BY <1>1, <1>2, <1>5 DEF Rival
  <1>6. ASSUME NEW c \in Clients, NEW s \in Instances, Connect(c, s)  PROVE Path!Next
    BY <1>2, <1>6 DEF Connect
  <1>7. ASSUME NEW c \in Clients, Worker(c)  PROVE UNCHANGED pathVars
    BY <1>7 DEF Worker
  <1>8. CASE ParseArguments \/ FailInit \/ FailLoop \/ DestroyCache \/ UNCHANGED mainVars
    BY <1>8 DEF ParseArguments, FailInit, FailLoop, DestroyCache, mainVars
  <1> QED  BY <1>3, <1>4, <1>5, <1>6, <1>7, <1>8 DEF MainNext

LEMMA MainImplements == MainSpec => Spec /\ Path!Spec
  <1>1. MainInit => Init /\ Path!Init
    BY DEF MainInit
  <1>2. mainVars = <<vars, pathVars, exitVars>>
    BY DEF mainVars
  <1> QED  BY <1>1, MainStepOfArgs, MainStepOfPath, PTL DEF MainSpec, mainVars, Spec, Path!Spec

(* A configuration that main goes on with has the windows the cache needs. *)
THEOREM MainWindowsOk == MainSpec => []OkMeansWindows
  BY MainImplements, WindowsOk, PTL

(* main's way is what its command line as a whole calls for.               *)
THEOREM MainResultCorrect == MainSpec => []ResultIsForWholeLine
  BY MainImplements, ResultCorrect, PTL

(* A running server stays reachable until another start, whatever its main *)
(* and its threads do meanwhile.                                           *)
THEOREM MainReachable == MainSpec => []ReachableUntilNextStart
  <1>1. Path!ReachableUntilNextStart => ReachableUntilNextStart
    BY DEF ReachableUntilNextStart
  <1> QED  BY <1>1, PathReachable, MainImplements, PTL

(* No start is kept from binding by what an earlier one left at the path,  *)
(* if only it may remove it.                                               *)
THEOREM MainLeftover == MainSpec => []OnlyForeignLeftoverBlocks
  <1>1. Path!OnlyForeignLeftoverBlocks => OnlyForeignLeftoverBlocks
    BY DEF OnlyForeignLeftoverBlocks
  <1> QED  BY <1>1, PathLeftover, MainImplements, PTL

-----------------------------------------------------------------------------
(* How main ends.  Exit's requests are the clients'.                       *)

(* While main is in its loop the objects live and nothing is spoiled;      *)
(* from then on what is under way has been under way when main left.       *)
ExitInv ==
    /\ request \in [Clients -> {"none", "queued", "lookup", "fetch", "put", "answered"}]
    /\ refresh \in [Clients -> {"none", "fetch", "put", "done"}]
    /\ main \in {"init", "loop", "leaving", "joining", "exited", "crashed"}
    /\ main = "init" => curl /\ spoiled = {} /\ \A c \in Clients : request[c] = "none" /\ refresh[c] = "none"
    /\ main = "loop" => curl /\ cache /\ spoiled = {}
    /\ main \in {"leaving", "joining"} => Exit!UnderWay \subseteq unfinished
    /\ spoiled \subseteq unfinished

LEMMA ExitInit == MainInit => ExitInv
  BY DEF MainInit, Exit!Init, ExitInv

LEMMA MainStepOfExit == [MainNext]_mainVars => Exit!Next \/ UNCHANGED exitVars
  <1> SUFFICES ASSUME [MainNext]_mainVars  PROVE Exit!Next \/ UNCHANGED exitVars
    OBVIOUS
  <1>1. CASE FailInit \/ EnterLoop \/ FailLoop \/ DestroyCache \/ ExitMain
    BY <1>1 DEF FailInit, EnterLoop, FailLoop, DestroyCache, ExitMain, Exit!Next
  <1>2. ASSUME NEW c \in Clients, AcceptAndSubmit(c) \/ Worker(c)  PROVE Exit!Next
    BY <1>2 DEF AcceptAndSubmit, Worker, Exit!Next
  <1>3. ASSUME NEW s \in Instances, Rival(s)  PROVE UNCHANGED exitVars
    BY <1>3 DEF Rival
  <1>4. ASSUME NEW c \in Clients, NEW s \in Instances, Connect(c, s)  PROVE UNCHANGED exitVars
    BY <1>4 DEF Connect
  <1>5. CASE ParseArguments \/ InitServer \/ UNCHANGED mainVars
    BY <1>5 DEF ParseArguments, InitServer, mainVars
  <1> QED  BY <1>1, <1>2, <1>3, <1>4, <1>5 DEF MainNext

(* A thread's step, seen at its request: it was under way, it becomes      *)
(* nothing new, and at most this request is spoiled, by a dead object.     *)
LEMMA ThreadStep ==
    ASSUME ExitInv, NEW c \in Clients, Exit!HandleClient(c) \/ Exit!Refresh(c)
    PROVE  /\ main' = main /\ curl' = curl /\ cache' = cache
           /\ poolSize' = poolSize /\ unfinished' = unfinished
           /\ main \notin {"exited", "crashed"}
           /\ request' \in [Clients -> {"none", "queued", "lookup", "fetch", "put", "answered"}]
           /\ refresh' \in [Clients -> {"none", "fetch", "put", "done"}]
           /\ \A d \in Clients : d # c => request'[d] = request[d] /\ refresh'[d] = refresh[d]
           /\ c \in Exit!UnderWay
           /\ (spoiled' = spoiled \/ (spoiled' = spoiled \cup {c} /\ (~curl \/ ~cache)))
  <1> USE DEF ExitInv, Exit!Ended, Exit!UnderWay
  <1>1. CASE Exit!Take(c)
    BY <1>1 DEF Exit!Take
  <1>2. CASE Exit!Lookup(c)
    BY <1>2 DEF Exit!Lookup, Exit!Uses
  <1>3. CASE Exit!Fetch(c) \/ Exit!Put(c)
    BY <1>3 DEF Exit!Fetch, Exit!Put, Exit!Uses
  <1>4. CASE Exit!RefreshFetch(c) \/ Exit!RefreshPut(c)
    BY <1>4 DEF Exit!RefreshFetch, Exit!RefreshPut, Exit!Uses
  <1> QED  BY <1>1, <1>2, <1>3, <1>4 DEF Exit!HandleClient, Exit!Refresh

LEMMA ExitNext == ExitInv /\ [MainNext]_mainVars => ExitInv'
  <1> SUFFICES ASSUME ExitInv, Exit!Next \/ UNCHANGED exitVars  PROVE ExitInv'
    BY MainStepOfExit
  <1>1. CASE Exit!EnterLoop
    BY <1>1 DEF Exit!EnterLoop, ExitInv, Exit!UnderWay
  <1>2. CASE Exit!Fail
    BY <1>2 DEF Exit!Fail, ExitInv, Exit!UnderWay
  <1>3. CASE Exit!DestroyCache
    BY <1>3 DEF Exit!DestroyCache, ExitInv, Exit!UnderWay
  <1>4. CASE Exit!Exit
    BY <1>4 DEF Exit!Exit, ExitInv
  <1>5. CASE Exit!Crash
    BY <1>5 DEF Exit!Crash, ExitInv
  <1>6. ASSUME NEW c \in Clients, Exit!Accept(c)  PROVE ExitInv'
    BY <1>6 DEF Exit!Accept, ExitInv
  <1>7. ASSUME NEW c \in Clients, Exit!HandleClient(c) \/ Exit!Refresh(c)  PROVE ExitInv'
    <2>1. main = "init" => c \notin Exit!UnderWay
      BY DEF ExitInv, Exit!UnderWay
    <2>2. main # "init"
      BY <1>7, <2>1, ThreadStep
    <2>3. main \in {"leaving", "joining"} => Exit!UnderWay' \subseteq unfinished'
      BY <1>7, ThreadStep DEF ExitInv, Exit!UnderWay
    <2>4. spoiled' \subseteq unfinished' /\ (main = "loop" => spoiled' = {})
      BY <1>7, <2>2, ThreadStep DEF ExitInv
    <2> QED  BY <1>7, <2>2, <2>3, <2>4, ThreadStep DEF ExitInv
  <1>8. CASE UNCHANGED exitVars
    BY <1>8 DEF exitVars, ExitInv, Exit!UnderWay
  <1> QED  BY <1>1, <1>2, <1>3, <1>4, <1>5, <1>6, <1>7, <1>8 DEF Exit!Next

LEMMA ExitAlways == MainSpec => []ExitInv
  <1>1. mainVars = <<vars, pathVars, exitVars>>
    BY DEF mainVars
  <1> QED  BY ExitInit, ExitNext, PTL DEF MainSpec, mainVars

(* curl and the cache are used after their end only for requests that were *)
(* under way when main left its loop.                                      *)
THEOREM SpoiledOnlyUnfinished == MainSpec => []OnlyUnfinishedIsSpoiled
  <1>1. ExitInv => OnlyUnfinishedIsSpoiled
    BY DEF ExitInv, OnlyUnfinishedIsSpoiled, Exit!OnlyUnfinishedIsSpoiled
  <1> QED  BY <1>1, ExitAlways, PTL

-----------------------------------------------------------------------------
(* The types of the whole.  Exit's say that no more requests are in hand   *)
(* than there are workers; that these can be counted belongs to it.        *)
CountInv == Exit!TypeOK /\ IsFiniteSet(Exit!Busy)

LEMMA SameCardinality == ASSUME NEW S  PROVE Exit!Cardinality(S) = Cardinality(S)
  BY DEF Exit!Cardinality, Cardinality

LEMMA CountInit == MainInit => CountInv
  <1> SUFFICES ASSUME MainInit  PROVE CountInv
    OBVIOUS
  <1>1. Exit!Busy = {}
    BY DEF MainInit, Exit!Init, Exit!Busy
  <1>2. Cardinality({}) = 0 /\ IsFiniteSet({})
    BY FS_EmptySet
  <1>3. poolSize \in Nat
    BY ConcurrencyAssumption DEF MainInit, Exit!Init
  <1>4. Exit!Cardinality(Exit!Busy) <= poolSize
    BY <1>1, <1>2, <1>3, SameCardinality
  <1> QED  BY <1>1, <1>2, <1>3, <1>4 DEF MainInit, Exit!Init, Exit!TypeOK, CountInv

(* A step that takes no request out of the queue. *)
LEMMA NoMoreBusy ==
    ASSUME CountInv, poolSize' = poolSize, Exit!Busy' \subseteq Exit!Busy
    PROVE  IsFiniteSet(Exit!Busy') /\ Exit!Cardinality(Exit!Busy') <= poolSize
  <1>1. IsFiniteSet(Exit!Busy') /\ Cardinality(Exit!Busy') <= Cardinality(Exit!Busy)
    BY FS_Subset DEF CountInv
  <1>2. Cardinality(Exit!Busy') \in Nat /\ Cardinality(Exit!Busy) \in Nat /\ poolSize \in Nat
    BY <1>1, FS_CardinalityType DEF CountInv, Exit!TypeOK
  <1>3. Exit!Cardinality(Exit!Busy) <= poolSize
    BY DEF CountInv, Exit!TypeOK
  <1>4. /\ Exit!Cardinality(Exit!Busy) = Cardinality(Exit!Busy)
        /\ Exit!Cardinality(Exit!Busy') = Cardinality(Exit!Busy')
    BY SameCardinality
  <1> QED  BY <1>1, <1>2, <1>3, <1>4

LEMMA CountNext == CountInv /\ [MainNext]_mainVars => CountInv'
  <1> SUFFICES ASSUME CountInv, Exit!Next \/ UNCHANGED exitVars  PROVE CountInv'
    BY MainStepOfExit
  <1> USE DEF Exit!TypeOK
  <1>0. CountInv => Exit!TypeOK
    BY DEF CountInv
  <1>1. CASE Exit!EnterLoop \/ Exit!Fail \/ Exit!DestroyCache \/ Exit!Exit \/ Exit!Crash
             \/ UNCHANGED exitVars
    <2>1. UNCHANGED <<poolSize, request, refresh, spoiled>> /\ Exit!Busy' \subseteq Exit!Busy
      BY <1>1 DEF Exit!EnterLoop, Exit!Fail, Exit!DestroyCache, Exit!Exit, Exit!Crash, exitVars,
                  Exit!Busy
    <2>2. /\ main' \in {"init", "loop", "leaving", "joining", "exited", "crashed"}
          /\ curl' \in BOOLEAN /\ cache' \in BOOLEAN /\ unfinished' \subseteq Clients
      BY <1>0, <1>1 DEF Exit!EnterLoop, Exit!Fail, Exit!DestroyCache, Exit!Exit, Exit!Crash,
                        exitVars, Exit!UnderWay
    <2> QED  BY <1>0, <2>1, <2>2, NoMoreBusy DEF CountInv
  <1>2. ASSUME NEW c \in Clients, Exit!Accept(c)  PROVE CountInv'
    <2>1. /\ UNCHANGED <<main, curl, cache, poolSize, refresh, spoiled, unfinished>>
          /\ request' \in [Clients -> {"none", "queued", "lookup", "fetch", "put", "answered"}]
      BY <1>0, <1>2 DEF Exit!Accept
    <2>2. Exit!Busy' \subseteq Exit!Busy
      BY <1>0, <1>2 DEF Exit!Accept, Exit!Busy
    <2> QED  BY <1>0, <2>1, <2>2, NoMoreBusy DEF CountInv
  <1>3. ASSUME NEW c \in Clients, Exit!Take(c)  PROVE CountInv'
    <2>1. /\ UNCHANGED <<main, curl, cache, poolSize, refresh, spoiled, unfinished>>
          /\ request' \in [Clients -> {"none", "queued", "lookup", "fetch", "put", "answered"}]
      BY <1>0, <1>3 DEF Exit!Take
    <2>2. Exit!Busy' = Exit!Busy \cup {c}
      BY <1>0, <1>3 DEF Exit!Take, Exit!Busy
    <2>3. Cardinality(Exit!Busy) < poolSize /\ IsFiniteSet(Exit!Busy)
      BY <1>3, SameCardinality DEF Exit!Take, CountInv
    <2>4. /\ IsFiniteSet(Exit!Busy \cup {c})
          /\ \/ Cardinality(Exit!Busy \cup {c}) = Cardinality(Exit!Busy)
             \/ Cardinality(Exit!Busy \cup {c}) = Cardinality(Exit!Busy) + 1
      BY <2>3, FS_AddElement
    <2>5. Cardinality(Exit!Busy) \in Nat /\ poolSize \in Nat
      BY <1>0, <2>3, FS_CardinalityType
    <2>6. Cardinality(Exit!Busy \cup {c}) <= poolSize
      BY <2>3, <2>4, <2>5
    <2>7. Exit!Cardinality(Exit!Busy') <= poolSize /\ IsFiniteSet(Exit!Busy')
      BY <2>2, <2>4, <2>6, SameCardinality
    <2> QED  BY <1>0, <2>1, <2>7 DEF CountInv
  <1>4. ASSUME NEW c \in Clients,
               \/ Exit!Lookup(c) \/ Exit!Fetch(c) \/ Exit!Put(c)
               \/ Exit!RefreshFetch(c) \/ Exit!RefreshPut(c)
        PROVE  CountInv'
    <2>1. UNCHANGED <<main, curl, cache, poolSize, unfinished>> /\ spoiled' \subseteq Clients
      BY <1>0, <1>4 DEF Exit!Lookup, Exit!Fetch, Exit!Put, Exit!RefreshFetch, Exit!RefreshPut,
                        Exit!Uses
    <2>2. /\ request' \in [Clients -> {"none", "queued", "lookup", "fetch", "put", "answered"}]
          /\ refresh' \in [Clients -> {"none", "fetch", "put", "done"}]
      BY <1>0, <1>4 DEF Exit!Lookup, Exit!Fetch, Exit!Put, Exit!RefreshFetch, Exit!RefreshPut
    <2>3. Exit!Busy' \subseteq Exit!Busy
      BY <1>0, <1>4 DEF Exit!Lookup, Exit!Fetch, Exit!Put, Exit!RefreshFetch, Exit!RefreshPut,
                        Exit!Busy
    <2> QED  BY <1>0, <2>1, <2>2, <2>3, NoMoreBusy DEF CountInv
  <1> QED  BY <1>1, <1>2, <1>3, <1>4 DEF Exit!Next, Exit!HandleClient, Exit!Refresh

LEMMA CountAlways == MainSpec => []CountInv
  <1>1. mainVars = <<vars, pathVars, exitVars>>
    BY DEF mainVars
  <1> QED  BY <1>1, CountInit, CountNext, PTL DEF MainSpec, mainVars

(* main at the path: only with an ok, and at its loop with a socket.       *)
AtPath ==
    /\ server[Self] # "off" => status = "ok"
    /\ main = "loop" => server[Self] = "running"

LEMMA AtPathNext == TypeOK /\ Path!TypeOK /\ AtPath /\ [MainNext]_mainVars => AtPath'
  <1> SUFFICES ASSUME TypeOK, Path!TypeOK, AtPath, [MainNext]_mainVars  PROVE AtPath'
    OBVIOUS
  <1>1. CASE ParseArguments
    <2>1. status = "none" /\ server' = server /\ main' = main
      BY <1>1 DEF ParseArguments, pathVars, exitVars, Next, TakeValue, RejectValue, Help, Unknown,
                  PassOver, RejectWindows, Accept, AtEnd, Finds, Return
    <2> QED  BY <2>1 DEF AtPath
  <1>2. CASE InitServer
    <2>1. status' = "ok" /\ main' = "init"
      BY <1>2 DEF InitServer, vars, exitVars
    <2> QED  BY <2>1 DEF AtPath
  <1>3. CASE EnterLoop
    <2>1. server[Self] = "listening" /\ server'[Self] = "running" /\ status' = status
      BY <1>3, SelfAssumption DEF EnterLoop, Path!Poll, Path!Goes, Path!TypeOK, vars
    <2> QED  BY <2>1 DEF AtPath
  <1>4. CASE FailInit \/ FailLoop \/ DestroyCache
    <2>1. status' = status /\ server' = server /\ main' # "loop"
      BY <1>4 DEF FailInit, FailLoop, DestroyCache, vars, pathVars, Exit!Fail, Exit!DestroyCache
    <2> QED  BY <2>1 DEF AtPath
  <1>5. CASE ExitMain
    <2>1. /\ server[Self] # "off" /\ status' = status
          /\ main' # "loop"
      BY <1>5 DEF ExitMain, Path!End, Path!Bound, vars, Exit!Exit, Exit!Crash
    <2> QED  BY <2>1 DEF AtPath
  <1>6. ASSUME NEW c \in Clients, AcceptAndSubmit(c)  PROVE AtPath'
    <2>1. status' = status /\ server' = server /\ main' = main
      BY <1>6 DEF AcceptAndSubmit, vars, Path!Serve, Exit!Accept
    <2> QED  BY <2>1 DEF AtPath
  <1>7. ASSUME NEW c \in Clients, Worker(c)  PROVE AtPath'
    <2>1. status' = status /\ server' = server /\ main' = main
      BY <1>7 DEF Worker, vars, pathVars, Exit!HandleClient, Exit!Refresh, Exit!Take, Exit!Lookup,
                  Exit!Fetch, Exit!Put, Exit!RefreshFetch, Exit!RefreshPut, Exit!Uses
    <2> QED  BY <2>1 DEF AtPath
  <1>8. ASSUME NEW s \in Instances, Rival(s)  PROVE AtPath'
    <2>1. status' = status /\ main' = main
      BY <1>8 DEF Rival, vars, exitVars
    <2>2. CASE Path!Step(s)
      BY <1>8, <2>1, <2>2, SelfAssumption
      DEF Rival, Path!Step, Path!Unlink, Path!Bind, Path!Listen, Path!Poll, Path!End, Path!Goes,
          Path!TypeOK, AtPath
    <2>3. CASE \E c \in Clients : Path!Serve(c, s)
      BY <2>1, <2>3 DEF Path!Serve, AtPath
    <2> QED  BY <1>8, <2>2, <2>3 DEF Rival
  <1>9. ASSUME NEW c \in Clients, NEW s \in Instances, Connect(c, s)  PROVE AtPath'
    <2>1. status' = status /\ main' = main /\ server' = server
      BY <1>9 DEF Connect, Path!Connect, vars, exitVars
    <2> QED  BY <2>1 DEF AtPath
  <1>10. CASE UNCHANGED mainVars
    BY <1>10 DEF mainVars, vars, pathVars, exitVars, AtPath
  <1> QED  BY <1>1, <1>2, <1>3, <1>4, <1>5, <1>6, <1>7, <1>8, <1>9, <1>10 DEF MainNext

(* The types of main and its parts, no more requests in hand than workers, *)
(* nothing done at the path before the command line is accepted, and no    *)
(* loop without a running socket.                                          *)
THEOREM MainTypeCorrect == MainSpec => []MainTypeOK
  <1>1. MainInit => AtPath
    BY SelfAssumption DEF MainInit, Path!Init, Exit!Init, AtPath
  <1>2. mainVars = <<vars, pathVars, exitVars>>
    BY DEF mainVars
  <1>3. MainSpec => []AtPath
    BY <1>1, <1>2, AtPathNext, MainImplements, TypeCorrect, PathTypeCorrect, PTL
    DEF MainSpec, mainVars
  <1>4. TypeOK /\ Path!TypeOK /\ CountInv /\ AtPath => MainTypeOK
    BY DEF CountInv, AtPath, MainTypeOK
  <1> QED  BY <1>3, <1>4, MainImplements, TypeCorrect, PathTypeCorrect, CountAlways, PTL
=============================================================================
