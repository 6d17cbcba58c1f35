------------------------------- MODULE Printk -------------------------------
(***************************************************************************)
(* Formatted output: printf and _panic of lib/printf.c over lp_Print and   *)
(* its helpers in lib/print.c.  A step is one turn of one of lp_Print's    *)
(* loops, or one directive converted.                                      *)
(*                                                                         *)
(* A string is a sequence of characters without its final NUL; an argument *)
(* is [int, str, chr], of which the conversion picks its part.  Wrap is    *)
(* 2^32, int and long having the same width on this machine.  Work is a    *)
(* set of jobs, each the printf and _panic calls of one caller.            *)
(***************************************************************************)
EXTENDS Integers, SequencesExt

CONSTANTS
  LP_MAX_BUF,  \* size of lp_Print's buffer
  Wrap,        \* how many values an unsigned long has
  Work         \* set of [calls : sequence of [fmt, args], panic : BOOLEAN]

ASSUME PrintkAssumption == LP_MAX_BUF \in Nat \ {0} /\ Wrap \in Nat /\ Wrap % 2 = 0

VARIABLES
  job,   \* what is being printed (never changes)
  call,  \* which of its calls lp_Print is in
  pc,    \* where in lp_Print; "done", or spinning in "fatal" or "panic"
  fmt,   \* index of the character fmt points to
  ap,    \* how many arguments va_arg has given
  dir,   \* the directive's ladjust, padc, width
  out    \* what has reached printcharc

vars == <<job, call, pc, fmt, ap, dir, out>>

NUL    == "NUL"
Digits == <<"0", "1", "2", "3", "4", "5", "6", "7", "8", "9">>
Upper  == Digits \o <<"A", "B", "C", "D", "E", "F">>
Lower  == Digits \o <<"a", "b", "c", "d", "e", "f">>
IsDigit(c) == Contains(Digits, c)
Ctod(c)    == CHOOSE d \in 0 .. 9 : Digits[d + 1] = c
Chars(n, c) == [j \in 1 .. n |-> c]
LONGER(a, b) == IF a < b THEN b ELSE a

(***************************************************************************)
(* The helpers: what each leaves in buf[0 .. length-1].                    *)
(***************************************************************************)
PrintChar(c, length, ladjust) ==
  LET spaces == Chars(LONGER(length, 1) - 1, " ")
  IN  IF ladjust THEN <<c>> \o spaces ELSE spaces \o <<c>>

PrintString(s, length, ladjust) ==
  LET spaces == Chars(LONGER(length, Len(s)) - Len(s), " ")
  IN  IF ladjust THEN s \o spaces ELSE spaces \o s

\* The do-while loop: the digits of u, last one first.
RevDigits(u, base, digits) ==
  LET rest[n \in Nat] == <<digits[(n % base) + 1]>>
                         \o (IF n \div base = 0 THEN << >> ELSE rest[n \div base])
  IN  rest[u]

\* The sign is the last of the reversed number; between it and the digits go
\* the zeros; only the number itself is turned round when ladjust.
slip_PrintNum(u, base, negFlag, length, ladjust, padc, digits) ==  \* turns all round
  LET num    == RevDigits(u, base, digits)
      actual == num \o (IF negFlag THEN <<"-">> ELSE << >>)
      fill   == LONGER(length, Len(actual)) - Len(actual)
      pad    == Chars(fill, IF ladjust THEN " " ELSE padc)
  IN  IF negFlag /\ padc = "0" THEN Reverse(num \o pad \o <<"-">>) ELSE Reverse(actual \o pad)
PrintNum(u, base, negFlag, length, ladjust, padc, digits) ==
  LET num    == RevDigits(u, base, digits)
      actual == num \o (IF negFlag THEN <<"-">> ELSE << >>)
      fill   == LONGER(length, Len(actual)) - Len(actual)
      pad    == Chars(fill, IF ladjust THEN " " ELSE padc)
  IN  CASE ladjust -> Reverse(actual) \o pad
        [] ~ladjust /\ negFlag /\ padc = "0" -> Reverse(num \o pad \o <<"-">>)
        [] OTHER -> Reverse(actual \o pad)

\* printf.c's output function: the termination call is swallowed, and so is
\* every other NUL that comes alone; a newline is doubled.
myoutput(s) ==
  IF s = <<NUL>> THEN << >>
  ELSE FlattenSeq([j \in DOMAIN s |-> IF s[j] = "\n" THEN <<"\n", "\n">> ELSE <<s[j]>>])

\* OUTPUT: a piece that has overrun buf is answered with the message and a
\* loop.  (The overrun bytes are taken not to hit what the message needs.)
theFatalMsg == <<"FATAL">>
OUTPUT(s, next) ==
  IF Len(s) > LP_MAX_BUF
  THEN out' = out \o myoutput(theFatalMsg) /\ pc' = "fatal"
  ELSE out' = out \o myoutput(s) /\ pc' = next

(***************************************************************************)
(* lp_Print.                                                               *)
(***************************************************************************)
cur == job.calls[call]
At(k) == IF k \in DOMAIN cur.fmt THEN cur.fmt[k] ELSE NUL     \* fmt[k]
c     == At(fmt)
NoDir == [ladjust |-> FALSE, padc |-> " ", width |-> 0]

Init ==
  /\ job \in Work
  /\ call = 1 /\ pc = "scan" /\ fmt = 1 /\ ap = 0 /\ dir = NoDir /\ out = << >>

Literal ==
  /\ pc = "scan" /\ c \notin {NUL, "%"}
  /\ OUTPUT(<<c>>, "scan")
  /\ fmt' = fmt + 1
  /\ UNCHANGED <<job, call, ap, dir>>

Percent ==
  /\ pc = "scan" /\ c = "%"
  /\ fmt' = fmt + 1 /\ dir' = NoDir /\ pc' = "flags"
  /\ UNCHANGED <<job, call, ap, out>>

slip_Flags ==                                            \* a flag is not skipped
  /\ pc = "flags"
  /\ IF c \in {"-", "0"}
     THEN dir' = IF c = "-" THEN [dir EXCEPT !.ladjust = TRUE] ELSE [dir EXCEPT !.padc = "0"]
     ELSE dir' = dir
  /\ pc' = IF c \in {"-", "0"} THEN pc ELSE "width"
  /\ UNCHANGED <<job, call, fmt, ap, out>>
Flags ==
  /\ pc = "flags"
  /\ IF c \in {"-", "0"}
     THEN /\ dir' = IF c = "-" THEN [dir EXCEPT !.ladjust = TRUE] ELSE [dir EXCEPT !.padc = "0"]
          /\ fmt' = fmt + 1 /\ pc' = pc
     ELSE pc' = "width" /\ UNCHANGED <<fmt, dir>>
  /\ UNCHANGED <<job, call, ap, out>>

Width ==
  /\ pc = "width"
  /\ IF IsDigit(c)
     THEN dir' = [dir EXCEPT !.width = 10 * @ + Ctod(c)] /\ fmt' = fmt + 1 /\ pc' = pc
     ELSE /\ IF c = "." THEN fmt' = fmt + 1 /\ pc' = "prec" ELSE fmt' = fmt /\ pc' = "length"
          /\ UNCHANGED dir
  /\ UNCHANGED <<job, call, ap, out>>

\* prec is computed and never read.
Precision ==
  /\ pc = "prec"
  /\ IF IsDigit(c) THEN fmt' = fmt + 1 /\ pc' = pc ELSE fmt' = fmt /\ pc' = "length"
  /\ UNCHANGED <<job, call, ap, dir, out>>

LongFlag ==
  /\ pc = "length"
  /\ fmt' = IF c = "l" THEN fmt + 1 ELSE fmt
  /\ pc' = "convert"
  /\ UNCHANGED <<job, call, ap, dir, out>>

Unsigned(n) == n % Wrap                  \* an int passed as unsigned long
Number(n, base, negFlag, digits) ==
  PrintNum(n, base, negFlag, dir.width, dir.ladjust, dir.padc, digits)

\* What the switch prints for specifier s and argument a.
Converted(s, a) ==
  CASE s = "b"          -> Number(Unsigned(a.int), 2, FALSE, Lower)
    [] s \in {"d", "D"} -> Number(Unsigned(IF a.int < 0 THEN -a.int ELSE a.int), 10, a.int < 0, Lower)
    [] s \in {"o", "O"} -> Number(Unsigned(a.int), 8, FALSE, Lower)
    [] s \in {"u", "U"} -> Number(Unsigned(a.int), 10, FALSE, Lower)
    [] s = "x"          -> Number(Unsigned(a.int), 16, FALSE, Lower)
    [] s = "X"          -> Number(Unsigned(a.int), 16, FALSE, Upper)
    [] s = "c"          -> PrintChar(a.chr, dir.width, dir.ladjust)
    [] s = "s"          -> PrintString(a.str, dir.width, dir.ladjust)

Specifiers == {"b", "d", "D", "o", "O", "u", "U", "x", "X", "c", "s"}

Convert ==
  /\ pc = "convert" /\ c \in Specifiers
  /\ ap' = ap + 1
  /\ OUTPUT(Converted(c, cur.args[ap + 1]), "scan")
  /\ fmt' = fmt + 1
  /\ UNCHANGED <<job, call, dir>>

\* Any other character is printed as it is, whatever flags it had.
Default ==
  /\ pc = "convert" /\ c \notin Specifiers \cup {NUL}
  /\ OUTPUT(<<c>>, "scan")
  /\ fmt' = fmt + 1
  /\ UNCHANGED <<job, call, ap, dir>>

\* The format ends inside a directive: back one, then forward one.
slip_EndInside ==                                        \* no fmt--
  /\ pc = "convert" /\ c = NUL
  /\ pc' = "scan" /\ fmt' = fmt + 1
  /\ UNCHANGED <<job, call, ap, dir, out>>
EndInside ==
  /\ pc = "convert" /\ c = NUL
  /\ pc' = "scan" /\ fmt' = (fmt - 1) + 1
  /\ UNCHANGED <<job, call, ap, dir, out>>

\* The termination call, and the return to printf or _panic.
Return ==
  /\ pc = "scan" /\ c = NUL
  /\ out' = out \o myoutput(<<NUL>>)
  /\ IF call < Len(job.calls)
     THEN call' = call + 1 /\ pc' = "scan"
     ELSE call' = call /\ pc' = IF job.panic THEN "panic" ELSE "done"
  /\ fmt' = 1 /\ ap' = 0
  /\ UNCHANGED <<job, dir>>

Next == Literal \/ Percent \/ Flags \/ Width \/ Precision \/ LongFlag
          \/ Convert \/ Default \/ EndInside \/ Return

Spec     == Init /\ [][Next]_vars
FairSpec == Spec /\ WF_vars(Next)

\* The jobs callers make.
printf(f, args) == [calls |-> <<[fmt |-> f, args |-> args]>>, panic |-> FALSE]
_panic(file, line, f, args) ==
  [calls |-> << [fmt  |-> <<"@", "%", "s", ":", "%", "d", ":">>,
                 args |-> <<[int |-> 0, str |-> file, chr |-> NUL],
                            [int |-> line, str |-> << >>, chr |-> NUL]>>],
                [fmt |-> f, args |-> args],
                [fmt |-> <<"\n">>, args |-> << >>] >>,
   panic |-> TRUE]
=============================================================================
