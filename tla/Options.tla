------------------------------- MODULE Options -------------------------------
(***************************************************************************)
(* The command lines of rtcspd and rtcspb: rtcsp_getopt, which hands out   *)
(* one option per call and keeps its place in static variables, and the    *)
(* loops of the two main functions over it.  A command line is a sequence  *)
(* of arguments without the name of the program, and an argument is        *)
(*   flags   -Hs, with the text attached to the last of them, -sstart or   *)
(*           -s=start, which is "" for -s=                                 *)
(*   long    --service, with the text attached by =                        *)
(*   word    anything that does not begin with a dash                      *)
(*   dash    - alone;  ddash  -- alone                                     *)
(* Text is attached to the last of flags only if that takes a value.       *)
(***************************************************************************)
EXTENDS Integers, Sequences, FiniteSets

CONSTANT NULL   \* no text

Flags(chars, text) == [kind |-> "flags", chars |-> chars, text |-> text]
Long(name, text) == [kind |-> "long", name |-> name, text |-> text]
Word(text) == [kind |-> "word", text |-> text]
Dash == [kind |-> "dash"]
DoubleDash == [kind |-> "ddash"]

\* The text of a whole argument; "other" is the name of no service operation.
Text(arg) == IF arg.kind = "word" THEN arg.text ELSE "other"

Option(char, need_param, name) == [char |-> char, need_param |-> need_param, name |-> name]

\* Options without a letter have a small number as their character.
Common ==
  { Option("h", FALSE, "help"), Option("?", FALSE, "usage"), Option("H", FALSE, "hide-args"),
    Option("v", FALSE, "version"), Option("m", FALSE, "module"),
    Option("HOST", TRUE, "host"), Option("PORT", TRUE, "port"),
    Option("NTHREADS", TRUE, "nthreads"), Option("MAX_RECVS", TRUE, "max-recvs") }

\* OPTIONS of RtCSP.c, and of bench.c.
OPTIONS ==
  Common \cup
  { Option("b", TRUE, "backlog"), Option("s", TRUE, "service"), Option("PIDFILE", TRUE, "pidfile"),
    Option("USER", TRUE, "user"), Option("MAX_CLIENTS", TRUE, "max-clients") }

BENCH_OPTIONS ==
  Common \cup { Option("CONNS", TRUE, "conns"), Option("REQUESTS", TRUE, "requests") }

-----------------------------------------------------------------------------
(***************************************************************************)
(* rtcsp_getopt.  optind is the argument it is at; optchr, its place among *)
(* the flags there, is 0 if it has not seen their dash.                    *)
(***************************************************************************)
Result(opt, optarg, optind, optchr) ==
  [opt |-> opt, optarg |-> optarg, optind |-> optind, optchr |-> optchr]

OptError(optind, optchr) == Result("?", NULL, optind, optchr)

\* Faulty variant: the argument that is the value is looked at again.
NextValueStays(argv, char, optind) ==
  IF optind = Len(argv) THEN OptError(optind + 1, 0)
  ELSE Result(char, Text(argv[optind + 1]), optind + 1, 0)

\* The value is the next argument, whatever it looks like.
NextValue(argv, char, optind) ==
  IF optind = Len(argv) THEN OptError(optind + 1, 0)
  ELSE Result(char, Text(argv[optind + 1]), optind + 2, 0)

\* --name, --name value, --name=value.  The = is not looked for in the last
\* place, so that --name= is the option "name=", which nobody has; a value
\* that the option does not take is passed over.
GetLong(argv, options, optind) ==
  LET arg == argv[optind]
      found == {o \in options : o.name = arg.name} IN
  IF found = {} \/ arg.text = "" THEN OptError(optind + 1, 0)
  ELSE LET o == CHOOSE x \in found : TRUE IN
       CASE ~o.need_param -> Result(o.char, NULL, optind + 1, 0)
         [] o.need_param /\ arg.text # NULL -> Result(o.char, arg.text, optind + 1, 0)
         [] o.need_param /\ arg.text = NULL -> NextValue(argv, o.char, optind)

\* Where to go on after the k-th of the flags.
AfterFlag(arg, optind, k) == IF k = Len(arg.chars) THEN <<optind + 1, 0>> ELSE <<optind, k + 1>>

\* One of the flags; the rest of them is the value of one that takes a value.
GetFlag(argv, options, optind, k) ==
  LET arg == argv[optind]
      char == arg.chars[k]
      after == AfterFlag(arg, optind, k) IN
  CASE ~\E o \in options : o.char = char -> OptError(after[1], after[2])
    [] \E o \in options : o.char = char /\ ~o.need_param -> Result(char, NULL, after[1], after[2])
    [] \E o \in options : o.char = char /\ o.need_param ->
         IF k < Len(arg.chars) THEN Result(char, "other", optind + 1, 0)
         ELSE IF arg.text # NULL THEN Result(char, arg.text, optind + 1, 0)
         ELSE NextValue(argv, char, optind)

Getopt(argv, options, optind, optchr) ==
  IF optind > Len(argv) \/ argv[optind].kind \in {"word", "dash", "ddash"}
    THEN Result("EOF", NULL, optind, optchr)
    ELSE IF argv[optind].kind = "long" THEN GetLong(argv, options, optind)
    ELSE GetFlag(argv, options, optind, IF optchr = 0 THEN 1 ELSE optchr)

\* -h, -? and what cannot be read, -v and -m end the program.
Quits == {"h", "?", "v", "m"}

\* The options a main function is given, to the last or the one that ends it.
Given(argv, options) ==
  LET From[optind \in Nat, optchr \in Nat] ==
        LET g == Getopt(argv, options, optind, optchr) IN
        IF g.opt = "EOF" THEN << >>
        ELSE IF g.opt \in Quits THEN <<g>>
        ELSE <<g>> \o From[g.optind, g.optchr]
  IN From[1, 0]

-----------------------------------------------------------------------------
(***************************************************************************)
(* What the main functions make of it: whether they go on, and the values  *)
(* of the options.                                                         *)
(***************************************************************************)
Gives(given, char) == \E k \in DOMAIN given : given[k].opt = char

\* Each later value replaces an earlier one.
Value(given, char) ==
  IF Gives(given, char)
    THEN given[CHOOSE k \in DOMAIN given :
                 given[k].opt = char /\ \A j \in k + 1 .. Len(given) : given[j].opt # char].optarg
    ELSE NULL

Goes(given) == \A q \in Quits : ~Gives(given, q)

\* Options whose value main keeps as a pointer into its arguments.
Pointers == {"HOST", "PIDFILE", "USER", "s"}

\* -H overwrites the arguments, and what points into them is "" from then on.
Kept(given, char) ==
  IF Gives(given, "H") /\ char \in Pointers /\ Gives(given, char) THEN "" ELSE Value(given, char)

Takers(options) == {o.char : o \in {x \in options : x.need_param}}

\* The program without arguments has one.
RtCSPGiven(argv) == Given(IF argv = << >> THEN <<Flags(<<"?">>, NULL)>> ELSE argv, OPTIONS)

RtCSPValues(argv) == [char \in Takers(OPTIONS) |-> Kept(RtCSPGiven(argv), char)]

\* What rtcspd is asked for; a name that is no operation leads to the usage.
Ops == {"start", "stop", "restart", "status"}

ServiceOption(argv) ==
  LET given == RtCSPGiven(argv)
      serv_opt == Kept(given, "s") IN
  IF Goes(given) /\ serv_opt \in Ops THEN serv_opt ELSE "nothing"

\* rtcspb keeps a copy of the only text it is given.
BenchValues(argv) == [char \in Takers(BENCH_OPTIONS) |-> Value(Given(argv, BENCH_OPTIONS), char)]

BenchGoes(argv) == Goes(Given(argv, BENCH_OPTIONS))

-----------------------------------------------------------------------------
(***************************************************************************)
(* How a command line is meant to be read.                                 *)
(***************************************************************************)
\* The option of that name or letter, or none.
ByName(name, options) == {o \in options : o.name = name}
ByLetter(char, options) == {o \in options : o.char = char}

\* The flags of an argument up to the first that takes the rest as its value.
Letters(arg, options) ==
  {k \in DOMAIN arg.chars :
     \A j \in 1 .. k - 1 : \A o \in ByLetter(arg.chars[j], options) : ~o.need_param}

\* The options an argument names, and the one among them that takes a value.
Names(arg, options) ==
  IF arg.kind = "long" THEN ByName(arg.name, options)
  ELSE UNION {ByLetter(arg.chars[k], options) : k \in Letters(arg, options)}

Taker(arg, options) == {o \in Names(arg, options) : o.need_param}

\* The text an argument holds for it.
Attached(arg, options) ==
  IF arg.kind = "flags" /\ Letters(arg, options) # DOMAIN arg.chars THEN "other" ELSE arg.text

IsOption(arg) == arg.kind \in {"flags", "long"}

WantsNext(arg, options) ==
  IsOption(arg) /\ Taker(arg, options) # {} /\ Attached(arg, options) = NULL

\* Something in an argument is no option, or --name= has no value.
Wrong(arg, options) ==
  IF arg.kind = "long" THEN ByName(arg.name, options) = {} \/ arg.text = ""
  ELSE \E k \in Letters(arg, options) : ByLetter(arg.chars[k], options) = {}

\* The arguments that are options: not the values of others, and nothing from
\* the first word or dash on.
Heads(argv, options) ==
  LET IsValue[k \in 1 .. Len(argv)] ==
        k > 1 /\ ~IsValue[k - 1] /\ WantsNext(argv[k - 1], options) IN
  {k \in 1 .. Len(argv) : ~IsValue[k] /\ \A j \in 1 .. k : IsValue[j] \/ IsOption(argv[j])}

Understood(argv, options) ==
  \A k \in Heads(argv, options) :
    /\ ~Wrong(argv[k], options)
    /\ WantsNext(argv[k], options) => k < Len(argv)
    /\ \A o \in Names(argv[k], options) : o.char \notin Quits

\* The value that the last argument with the option gives it.
Meant(argv, options, char) ==
  LET ks == {k \in Heads(argv, options) : \E o \in Names(argv[k], options) : o.char = char} IN
  IF ks = {} THEN NULL
  ELSE LET k == CHOOSE x \in ks : \A j \in ks : j <= x IN
       IF WantsNext(argv[k], options) THEN Text(argv[k + 1]) ELSE Attached(argv[k], options)

Reading(argv, options) == [char \in Takers(options) |-> Meant(argv, options, char)]

\* The line asks to hide its arguments.
Hides(argv) == \E k \in Heads(argv, OPTIONS) : \E o \in Names(argv[k], OPTIONS) : o.char = "H"
===============================================================================
