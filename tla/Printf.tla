--------------------------------- MODULE Printf --------------------------------
(***************************************************************************)
(* printf, kern/include/printf.c, with print_char, print_str, print_int    *)
(* and print_hex, kern/include/video.c, and the log functions built on it, *)
(* kern/include/log.c.                                                     *)
(*                                                                         *)
(* A format is a sequence of characters; an argument is a machine word,    *)
(* which for {s} and {k} names the string it points to.  What is printed   *)
(* is a sequence of pieces, a kind and a value.                            *)
(***************************************************************************)
EXTENDS Integers, Sequences, FiniteSets, SequencesExt

CONSTANTS WORD,               \* values of a uint64_t (2^64)
          MAX_INTERGER_SIZE,  \* elements of arr (128)
          MAX_HEX,            \* where print_hex gives up (64)
          PrintCalls          \* calls: a format and its arguments

\* Numbers have fewer digits than arr has room for.
ASSUME DigitsFit == WORD <= 10 ^ (MAX_INTERGER_SIZE - 1) /\ WORD <= 16 ^ (MAX_HEX - 1)

VARIABLES at,            \* which loop is running
          format_string, a_list,
          i,             \* printf: characters read
          state,         \* printf: NORMAL or FORMAT_SPECIFIER
          num, base,     \* print_int, print_hex: what is left, and 10 or 16
          arr, j, digitscount,
          out,           \* what has been printed
          args           \* history: the arguments printf was called with

numberVars == <<num, base, arr, j, digitscount>>
printVars == <<at, format_string, a_list, i, state, numberVars, out, args>>

Junk == -1
arrFresh == [k \in 0 .. MAX_INTERGER_SIZE - 1 |-> Junk]

\* printf is called.
PrintfInit ==
  /\ at = "format" /\ i = 0 /\ state = "NORMAL" /\ out = <<>>
  /\ \E c \in PrintCalls : format_string = c.format /\ a_list = c.args
  /\ args = a_list
  /\ num = 0 /\ base = 10 /\ arr = arrFresh /\ j = 0 /\ digitscount = 0

--------------------------------------------------------------------------------
current == format_string[i + 1]
Reading(s) == at = "format" /\ i < Len(format_string) /\ state = s
Next_i == i' = i + 1 /\ UNCHANGED <<format_string, args>>

Put(kind, value) == out' = Append(out, <<kind, value>>)

NormalChar ==
  /\ Reading("NORMAL") /\ Next_i
  /\ \/ current = "{" /\ state' = "FORMAT_SPECIFIER" /\ UNCHANGED out
     \/ current # "{" /\ Put("char", current) /\ UNCHANGED state
  /\ UNCHANGED <<at, a_list, numberVars>>

\* {n}, and {s}, {k}, {c}, which take an argument.
SpecifierText ==
  /\ Reading("FORMAT_SPECIFIER") /\ Next_i
  /\ \/ current = "n" /\ Put("newline", 0) /\ UNCHANGED a_list
     \/ current \in {"s", "k"} /\ Put("string", Head(a_list)) /\ a_list' = Tail(a_list)
     \/ current = "c" /\ Put("byte", Head(a_list)) /\ a_list' = Tail(a_list)
  /\ UNCHANGED <<at, state, numberVars>>

\* {d} and {i} call print_int, {x} calls print_hex.
SpecifierNumber ==
  /\ Reading("FORMAT_SPECIFIER") /\ Next_i
  /\ current \in {"d", "i", "x"}
  /\ at' = "divide"
  /\ num' = Head(a_list) % WORD /\ a_list' = Tail(a_list)
  /\ base' = IF current = "x" THEN 16 ELSE 10
  /\ arr' = arrFresh /\ j' = 0 /\ digitscount' = 0
  /\ UNCHANGED <<state, out>>

\* Any other character is skipped, 'l' too: it is incremented to 'm', which is
\* no specifier.
SpecifierOther ==
  /\ Reading("FORMAT_SPECIFIER") /\ Next_i
  /\ current \notin {"n", "s", "k", "c", "d", "i", "x"}
  /\ state' = IF current = "}" THEN "NORMAL" ELSE state
  /\ UNCHANGED <<at, a_list, out, numberVars>>

ReturnPrintf ==
  /\ at = "format" /\ i >= Len(format_string)
  /\ at' = "returned"
  /\ UNCHANGED <<format_string, a_list, args, i, state, out, numberVars>>

printf == \/ NormalChar \/ SpecifierText \/ SpecifierNumber \/ SpecifierOther
          \/ ReturnPrintf

--------------------------------------------------------------------------------
\* print_int and print_hex, which differ in the base and in where they give up.
Limit == IF base = 10 THEN MAX_INTERGER_SIZE ELSE MAX_HEX
printUnchanged == UNCHANGED <<format_string, a_list, i, state, args, base>>

\* A round of the first loop.  The last digit is stored once more behind itself.
Divide ==
  LET mod == num % base
      full == j + 1 = Limit
      stored == [arr EXCEPT ![j] = mod] IN
  /\ at = "divide" /\ num # 0
  /\ num' = num \div base /\ j' = j + 1
  /\ at' = IF full THEN "format" ELSE "divide"
  /\ digitscount' = IF full THEN digitscount ELSE j + 1
  /\ arr' = IF num' = 0 /\ ~full THEN [stored EXCEPT ![j + 1] = mod] ELSE stored
  /\ printUnchanged /\ UNCHANGED out

\* The second loop begins; j is its counter from here on.
EndDivide ==
  /\ at = "divide" /\ num = 0
  /\ at' = "digits" /\ j' = digitscount - 1
  /\ printUnchanged /\ UNCHANGED <<num, arr, digitscount, out>>

\* Mutant: nothing is printed for zero.
PutZero_Never == UNCHANGED out

PutZero == IF digitscount = 0 THEN Put("digit", 0) ELSE UNCHANGED out

Digits ==
  /\ at = "digits"
  /\ \/ j # -1 /\ Put("digit", arr[j]) /\ j' = j - 1 /\ UNCHANGED at
     \/ j = -1 /\ PutZero /\ at' = "format" /\ UNCHANGED j
  /\ printUnchanged /\ UNCHANGED <<num, arr, digitscount>>

print_int == Divide \/ EndDivide \/ Digits

--------------------------------------------------------------------------------
\* "{k}kern_info: {ksn}", with "kern_info: " as one character.
LogFormat(word) == <<"{", "k", "}", word, "{", "k", "s", "n", "}">>

\* log_info and its fellows: a colour, the colour reset, the message.
log_message(word, colour, reset, msg) ==
  [format |-> LogFormat(word), args |-> <<colour, reset, msg>>]

PrintfNext == printf \/ print_int

--------------------------------------------------------------------------------
(***************************************************************************)
(* What printf means, stated over positions of the format instead of by    *)
(* reading it.  A position is inside braces if the last closing one before *)
(* it is followed by an opening one.                                       *)
(***************************************************************************)
Inside(p) ==
  \E q \in 1 .. p - 1 : /\ format_string[q] = "{"
                        /\ \A r \in q .. p - 1 : format_string[r] # "}"

\* The argument of the specifier at p: those before it take one each.
Argument(p) ==
  args[1 + Cardinality({q \in 1 .. p - 1 :
             Inside(q) /\ format_string[q] \in {"s", "k", "c", "d", "i", "x"}})]

\* The numeral of v: as few digits as hold it, the k-th by its weight.
Numeral(v, b) ==
  LET n == CHOOSE n \in 1 .. MAX_INTERGER_SIZE :
             v < b ^ n /\ (n > 1 => v >= b ^ (n - 1))
  IN  [k \in 1 .. n |-> <<"digit", (v \div b ^ (n - k)) % b>>]

Piece(p) ==
  LET c == format_string[p] IN
  CASE ~Inside(p) -> IF c = "{" THEN <<>> ELSE << <<"char", c>> >>
    [] Inside(p) /\ c = "n" -> << <<"newline", 0>> >>
    [] Inside(p) /\ c \in {"s", "k"} -> << <<"string", Argument(p)>> >>
    [] Inside(p) /\ c = "c" -> << <<"byte", Argument(p)>> >>
    [] Inside(p) /\ c \in {"d", "i"} -> Numeral(Argument(p) % WORD, 10)
    [] Inside(p) /\ c = "x" -> Numeral(Argument(p) % WORD, 16)
    [] OTHER -> <<>>

Meaning == FlattenSeq([p \in 1 .. Len(format_string) |-> Piece(p)])

(***************************************************************************)
(* printf prints what its format means: plain characters as they are, the  *)
(* arguments in their order, and each number as its shortest numeral, of   *)
(* the two's complement if it is negative.                                 *)
(***************************************************************************)
PrintsMeaning == at = "returned" => out = Meaning
================================================================================
