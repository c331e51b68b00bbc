-------------------------------- MODULE Args --------------------------------
(***************************************************************************)
(* process_args (src/lib/cside/src/args.c): the getopt loop over argv with *)
(* optstring "p:a:n:g:t:x:", the switch that stores each option in the     *)
(* argument block, and the four validity checks that follow.              *)
(*                                                                         *)
(* A command-line token is a sequence of one-character strings, so that   *)
(* getopt's splitting of "-p80" and atoi's parsing are modelled by what   *)
(* they do.  int and long keep their widths as IntBits and LongBits,      *)
(* scaled down together with the port range.                              *)
(***************************************************************************)
EXTENDS Integers, Sequences, FiniteSets

CONSTANTS
    Argvs,          \* the argument vectors (without argv[0]) to run on
    PortMin, PortMax,
    DefaultPort, DefaultExecs, DefaultSerial,
    IntBits, LongBits,
    Null,           \* the NULL pointer
    Indeterminate   \* the value of a field nothing has written

ASSUME /\ IntBits < LongBits
       /\ PortMin <= DefaultPort /\ DefaultPort <= PortMax
       /\ DefaultSerial > 0 /\ DefaultExecs >= 0

IntMin == -(2 ^ (IntBits - 1))
IntMax == 2 ^ (IntBits - 1) - 1
LongMax == 2 ^ (LongBits - 1) - 1
IntVals == IntMin .. IntMax

DigitChars == <<"0", "1", "2", "3", "4", "5", "6", "7", "8", "9">>
IsDigit(ch) == \E i \in 1 .. 10 : DigitChars[i] = ch
DigitVal(ch) == CHOOSE i \in 0 .. 9 : DigitChars[i + 1] = ch

\* The conversion of an integer to a two's-complement field of the given width.
Signed(x, bits) ==
    LET m == x % (2 ^ bits)
    IN  IF m >= 2 ^ (bits - 1) THEN m - 2 ^ bits ELSE m

(***************************************************************************)
(* atoi(s) is (int) strtol(s, NULL, 10): leading white space, an optional *)
(* sign, the longest run of digits; strtol saturates at LONG_MAX and the   *)
(* conversion to int keeps the low IntBits bits.  Text without digits     *)
(* gives 0.                                                                *)
(***************************************************************************)
RECURSIVE DigitsValue(_, _)
DigitsValue(s, acc) ==
    IF s # <<>> /\ IsDigit(Head(s))
    THEN DigitsValue(Tail(s), IF acc > LongMax THEN acc ELSE acc * 10 + DigitVal(Head(s)))
    ELSE acc

RECURSIVE SkipSpace(_)
SkipSpace(s) == IF s # <<>> /\ Head(s) = " " THEN SkipSpace(Tail(s)) ELSE s

Strtol(s) ==
    LET t    == SkipSpace(s)
        neg  == t # <<>> /\ Head(t) = "-"
        body == IF t # <<>> /\ Head(t) \in {"-", "+"} THEN Tail(t) ELSE t
        mag  == DigitsValue(body, 0)
    IN  IF neg THEN -(IF mag > LongMax + 1 THEN LongMax + 1 ELSE mag)
               ELSE IF mag > LongMax THEN LongMax ELSE mag

Atoi(s) == Signed(Strtol(s), IntBits)

(***************************************************************************)
(* One call of GNU getopt with opterr = 0 on the unscanned tokens: "--"   *)
(* ends the options, a token "-c" takes the next token as its argument   *)
(* and "-cVALUE" the rest of itself, an option that is not in the        *)
(* optstring or lacks its argument gives '?', and a token that is not an *)
(* option is skipped (GNU permutes it to the end).                       *)
(***************************************************************************)
OptChars == {"p", "a", "n", "g", "t", "x"}

NextOpt(rest) ==
    LET tok == Head(rest)
        R(k, c, v, r) == [kind |-> k, c |-> c, optarg |-> v, rest |-> r]
    IN  CASE rest = <<>>                      -> R("end", "", <<>>, <<>>)
          [] tok = <<"-", "-">>               -> R("end", "", <<>>, <<>>)
          [] Len(tok) < 2 \/ tok[1] # "-"     -> R("skip", "", <<>>, Tail(rest))
          [] tok[2] \notin OptChars           -> R("bad", tok[2], <<>>, <<>>)
          [] Len(tok) > 2                     -> R("opt", tok[2], SubSeq(tok, 3, Len(tok)), Tail(rest))
          [] Len(rest) >= 2                   -> R("opt", tok[2], rest[2], Tail(Tail(rest)))
          [] OTHER                            -> R("bad", tok[2], <<>>, <<>>)

\* A missing initialisation of appid, leaving it indeterminate.
DefaultArgsNoAppid ==
    [port |-> DefaultPort, nexecs |-> DefaultExecs, snumber |-> DefaultSerial,
     appid |-> Indeterminate, tags |-> Null, groupid |-> Indeterminate]

(***************************************************************************)
(* The argument block as process_args initialises it.  groupid has no     *)
(* default: malloc leaves it indeterminate.                               *)
(***************************************************************************)
DefaultArgs ==
    [port |-> DefaultPort, nexecs |-> DefaultExecs, snumber |-> DefaultSerial,
     appid |-> Null, tags |-> Null, groupid |-> Indeterminate]

\* The switch on the option character.
Apply(a, c, v) ==
    CASE c = "a" -> [a EXCEPT !.appid = v]
      [] c = "n" -> [a EXCEPT !.snumber = Atoi(v)]
      [] c = "g" -> [a EXCEPT !.groupid = Atoi(v)]
      [] c = "t" -> [a EXCEPT !.tags = v]
      [] c = "p" -> [a EXCEPT !.port = Atoi(v)]
      [] c = "x" -> [a EXCEPT !.nexecs = Atoi(v)]

(***************************************************************************)
(* The while loop: getopt until it returns -1; '?' goes to the default   *)
(* case, terminate_error(true, usage), which exits.                      *)
(***************************************************************************)
RECURSIVE ParseLoop(_, _)
ParseLoop(rest, a) ==
    LET o == NextOpt(rest)
    IN  CASE o.kind = "end"  -> [status |-> "parsed", args |-> a]
          [] o.kind = "skip" -> ParseLoop(o.rest, a)
          [] o.kind = "bad"  -> [status |-> "usage", args |-> a]
          [] o.kind = "opt"  -> ParseLoop(o.rest, Apply(a, o.c, o.optarg))

\* args_appid_valid, args_port_valid, args_serialnum_valid, args_numexecutors_valid.
Checks == <<"appid", "port", "snumber", "nexecs">>
Passes(a, f) ==
    CASE f = "appid"   -> a.appid # Null
      [] f = "port"    -> PortMin <= a.port /\ a.port <= PortMax
      [] f = "snumber" -> a.snumber > 0
      [] f = "nexecs"  -> a.nexecs >= 0

\* The checks in order; the first that fails destroys the block and returns NULL.
ProcessArgs(av) ==
    LET p     == ParseLoop(av, DefaultArgs)
        fails == {i \in 1 .. Len(Checks) : ~Passes(p.args, Checks[i])}
        first == CHOOSE i \in fails : \A j \in fails : i <= j
    IN  CASE p.status = "usage" -> [status |-> "usage", reason |-> "option", args |-> p.args]
          [] fails = {}         -> [status |-> "accepted", reason |-> "none", args |-> p.args]
          [] OTHER              -> [status |-> "rejected", reason |-> Checks[first], args |-> p.args]

VARIABLES argv, result
vars == <<argv, result>>

Init ==
    /\ argv \in Argvs
    /\ result = Null

\* One call of process_args on argv.
Run ==
    /\ result = Null
    /\ result' = ProcessArgs(argv)
    /\ UNCHANGED argv

Next == Run

Spec == Init /\ [][Next]_vars

-----------------------------------------------------------------------------
Tokens == UNION {{argv0[i] : i \in DOMAIN argv0} : argv0 \in Argvs}
Texts == Tokens \cup {SubSeq(t, 3, Len(t)) : t \in Tokens}
ArgBlocks ==
    [port : IntVals, nexecs : IntVals, snumber : IntVals,
     appid : Texts \cup {Null}, tags : Texts \cup {Null},
     groupid : IntVals \cup {Indeterminate}]

TypeOK ==
    /\ argv \in Argvs
    /\ result \in {Null} \cup
         [status : {"accepted", "rejected", "usage"},
          reason : {"none", "option"} \cup {Checks[i] : i \in 1 .. 4},
          args : ArgBlocks]

(***************************************************************************)
(* The (option, argument) pairs getopt yields on a command line, and the  *)
(* text the last occurrence of an option gives, for the CLI table below.  *)
(***************************************************************************)
RECURSIVE GetoptPairs(_)
GetoptPairs(rest) ==
    LET o == NextOpt(rest)
    IN  CASE o.kind = "end"  -> <<>>
          [] o.kind = "skip" -> GetoptPairs(o.rest)
          [] o.kind = "bad"  -> <<>>
          [] o.kind = "opt"  -> <<<<o.c, o.optarg>>>> \o GetoptPairs(o.rest)

Given(ps, c) == {i \in 1 .. Len(ps) : ps[i][1] = c}
LastText(ps, c) == ps[CHOOSE i \in Given(ps, c) : \A j \in Given(ps, c) : j <= i][2]

(***************************************************************************)
(* The CLI table of the specification: -a is required and non-empty; the *)
(* value of -n, -g, -p and -x is an integer (optional "-", then digits,   *)
(* within int) and is > 0, any, in [PORT_MIN, PORT_MAX] and >= 0.         *)
(***************************************************************************)
RECURSIVE DecimalValue(_)
DecimalValue(s) ==
    IF s = <<>> THEN 0
    ELSE DecimalValue(SubSeq(s, 1, Len(s) - 1)) * 10 + DigitVal(s[Len(s)])

IsDecimal(s) ==
    LET ds == IF s # <<>> /\ s[1] = "-" THEN Tail(s) ELSE s
    IN  ds # <<>> /\ \A i \in 1 .. Len(ds) : IsDigit(ds[i])
SpecInt(s) == IF s[1] = "-" THEN -DecimalValue(Tail(s)) ELSE DecimalValue(s)

SpecRange == [n |-> {v \in IntVals : v > 0}, g |-> IntVals,
              p |-> PortMin .. PortMax, x |-> {v \in IntVals : v >= 0}]

SpecValid(ps) ==
    /\ Given(ps, "a") # {}
    /\ LastText(ps, "a") # <<>>
    /\ \A c \in DOMAIN SpecRange :
         Given(ps, c) # {} =>
            /\ IsDecimal(LastText(ps, c))
            /\ SpecInt(LastText(ps, c)) \in SpecRange[c]

(* process_args accepts a command line only if the specification's CLI   *)
(* table calls it valid; it must terminate on an invalid value.           *)
AcceptsOnlySpecValid ==
    result # Null /\ result.status = "accepted" => SpecValid(GetoptPairs(argv))

=============================================================================
