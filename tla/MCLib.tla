---------------------------------- MODULE MCLib --------------------------------
(***************************************************************************)
(* A call of printf; after the call that prints nothing, any sequence of   *)
(* calls of the string functions.                                          *)
(***************************************************************************)
EXTENDS Printf, StringLib

\* Every format of up to four characters over these, closed or not, ...
MCAlphabet == {"a", "{", "}", "d", "x", "s", "l"}
MCShort == UNION {[1 .. n -> MCAlphabet] : n \in 0 .. 4}

\* ... all specifiers, two after each other, and braces that do not match.
MCLong == {<<"{", "i", "n", "}", "{", "c", "k", "}">>,
           <<"a", "{", "x", "{", "d", "}", "}", "{", "s">>}

\* Words around the bases, their powers, zero, and negative ones.
MCWords == {<<0, 9, 10>>, <<16, 100, 255>>, <<-1, 299, 15>>}
MCLog == {log_message("kern_info: ", 1, 2, 3)}

MCPrintCalls == [format : MCShort \cup MCLong, args : MCWords] \cup MCLog
MCFills == {-1, 3}

libVars == <<printVars, stringVars>>

LibInit == /\ PrintfInit /\ StringInit
           /\ format_string # <<>> => mem = [p \in Addresses |-> 0]

LibNext == \/ PrintfNext /\ UNCHANGED stringVars
           \/ at = "returned" /\ format_string = <<>> /\ StringNext /\ UNCHANGED printVars

LibSpec == LibInit /\ [][LibNext]_libVars
================================================================================
