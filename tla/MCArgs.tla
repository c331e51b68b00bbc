------------------------------- MODULE MCArgs -------------------------------
(***************************************************************************)
(* Command lines for process_args, built from a few tokens.  int is 8     *)
(* bits and long 12, so "300" overflows int as a ten-digit number does a  *)
(* 32-bit int; the port range is scaled to [10, 99].                      *)
(***************************************************************************)
EXTENDS Args

CONSTANTS null, indeterminate

OptA   == <<"-", "a">>
OptP   == <<"-", "p">>
OptX   == <<"-", "x">>
OptN   == <<"-", "n">>
OptG   == <<"-", "g">>
OptQ   == <<"-", "q">>
EndOpt == <<"-", "-">>
AppX   == <<"-", "a", "z">>          \* -az
Port80 == <<"-", "p", "8", "0">>     \* -p80
Port300 == <<"-", "p", "3", "0", "0">> \* -p300
V80    == <<"8", "0">>
V300   == <<"3", "0", "0">>
VNeg   == <<"-", "1">>
VText  == <<"z">>
VEmpty == <<>>
VSpace == <<" ", "8">>

\* Every command line of at most n tokens over toks.
ArgvsOver(toks, n) == UNION {[1 .. k -> toks] : k \in 0 .. n}

AllTokens == {OptA, OptP, OptX, OptN, OptG, OptQ, EndOpt, AppX, Port80,
              V80, V300, VNeg, VText, VEmpty, VSpace}
MCArgvs == ArgvsOver(AllTokens, 3)

\* An empty application id, and port options whose values are decimal numbers.
InvalidArgvs == ArgvsOver({OptA, VEmpty}, 2) \cup ArgvsOver({AppX, Port80, Port300}, 2)

=============================================================================
