---------------------------- MODULE PrintFormat -----------------------------
(***************************************************************************)
(* What printf and _panic print, said without lp_Print's loops, its        *)
(* reversed numbers and its buffer: Expected.  The properties of Printk.   *)
(***************************************************************************)
EXTENDS Printk

CONSTANT Char  \* the characters there are

ASSUME CharAssumption ==
  Range(Upper) \cup Range(Lower) \cup {NUL, "-", " ", "\n", "FATAL"} \subseteq Char

\* How far the run of characters of S behind index k of f reaches.
RunEnd(f, k, S) ==
  CHOOSE e \in k .. Len(f) : /\ \A j \in k + 1 .. e : f[j] \in S
                             /\ e < Len(f) => f[e + 1] \notin S

Power(b) == LET p[k \in Nat] == IF k = 0 THEN 1 ELSE b * p[k - 1] IN p

\* n in positional notation, without leading zeros.
Numeral(n, base, digits) ==
  LET pow == Power(base)
      len == CHOOSE k \in 1 .. n + 1 : n < pow[k] /\ (k = 1 \/ pow[k - 1] <= n)
  IN  [j \in 1 .. len |-> digits[((n \div pow[len - j]) % base) + 1]]

\* %[-0]*[width][.[precision]][l]specifier at index k of f.
Directive(f, k) ==
  LET flags  == RunEnd(f, k, {"-", "0"})
      width  == RunEnd(f, flags, Range(Digits))
      prec   == IF width < Len(f) /\ f[width + 1] = "." THEN RunEnd(f, width + 1, Range(Digits)) ELSE width
      isLong == prec < Len(f) /\ f[prec + 1] = "l"
  IN  [left  |-> \E j \in k + 1 .. flags : f[j] = "-",
       zeros |-> \E j \in k + 1 .. flags : f[j] = "0",
       width |-> IF width = flags THEN 0
                 ELSE CHOOSE n \in 1 .. Power(10)[width - flags] :
                        Numeral(n, 10, Digits) = SubSeq(f, flags + 1, width),
       at    |-> IF isLong THEN prec + 2 ELSE prec + 1]

\* body on the side the directive says, with blanks up to its width.
Field(d, body) ==
  LET blanks == Chars(d.width - Len(body), " ")
  IN  IF d.left THEN body \o blanks ELSE blanks \o body

\* A number: zeros between sign and digits, unless it is on the left.
NumField(d, sign, digits) ==
  LET zeros == Chars(d.width - Len(sign \o digits), "0")
  IN  Field(d, sign \o (IF d.zeros /\ ~d.left THEN zeros ELSE << >>) \o digits)

Base(s) == CASE s = "b" -> 2 [] s \in {"o", "O"} -> 8 [] s \in {"x", "X"} -> 16 [] OTHER -> 10

Text(d, s, a) ==
  CASE s = "c" -> Field(d, <<a.chr>>)
    [] s = "s" -> Field(d, a.str)
    [] s \in {"d", "D"} /\ a.int < 0 -> NumField(d, <<"-">>, Numeral(-a.int, 10, Digits))
    [] OTHER -> NumField(d, << >>, Numeral(IF a.int < 0 THEN Wrap + a.int ELSE a.int, Base(s),
                                           IF s = "X" THEN Upper ELSE Lower))

\* The pieces f is printed in from index k on, a arguments having been taken.
PiecesFrom(f, args) ==
  LET from[k \in 1 .. Len(f) + 1] ==
        [a \in Nat |->
           IF k > Len(f) THEN << >>
           ELSE IF f[k] # "%" THEN <<<<f[k]>>>> \o from[k + 1][a]
           ELSE LET d == Directive(f, k)
                IN  IF d.at > Len(f) THEN << >>
                    ELSE IF f[d.at] \in Specifiers
                    THEN <<Text(d, f[d.at], args[a + 1])>> \o from[d.at + 1][a + 1]
                    ELSE <<<<f[d.at]>>>> \o from[d.at + 1][a]]
  IN  from
Pieces(f, args) == PiecesFrom(f, args)[1][0]

\* How many arguments f asks for from index k on.
Asked(f) ==
  LET from[k \in 1 .. Len(f) + 1] ==
        IF k > Len(f) THEN 0
        ELSE IF f[k] # "%" THEN from[k + 1]
        ELSE LET d == Directive(f, k)
             IN  IF d.at > Len(f) THEN 0
                 ELSE from[d.at + 1] + (IF f[d.at] \in Specifiers THEN 1 ELSE 0)
  IN  from

\* Callers pass C strings, ints, and an argument for every specifier.
IntValue == -(Wrap \div 2) .. (Wrap \div 2) - 1
Argument == [int : IntValue, str : Seq(Char \ {NUL}), chr : Char]
Call == [fmt : Seq(Char \ {NUL}), args : Seq(Argument)]

ASSUME JobsAssumption ==
  \A j \in Work : /\ j \in [calls : Seq(Call), panic : BOOLEAN]
                  /\ j.calls # << >>
                  /\ \A i \in DOMAIN j.calls : Asked(j.calls[i].fmt)[1] <= Len(j.calls[i].args)

\* What one piece shows: a newline twice, a lone NUL not at all.
Shown(s) == IF s = <<NUL>> THEN << >>
            ELSE FlattenSeq([j \in DOMAIN s |-> Chars(IF s[j] = "\n" THEN 2 ELSE 1, s[j])])

\* Everything printed: all pieces, or those before the first that is too long.
Expected ==
  LET all   == FlattenSeq([j \in DOMAIN job.calls |-> Pieces(job.calls[j].fmt, job.calls[j].args)])
      long  == {j \in DOMAIN all : Len(all[j]) > LP_MAX_BUF}
      upTo(n) == FlattenSeq([j \in 1 .. n |-> Shown(all[j])])
  IN  IF long = {} THEN [end |-> IF job.panic THEN "panic" ELSE "done", text |-> upTo(Len(all))]
      ELSE [end |-> "fatal", text |-> upTo((CHOOSE j \in long : \A k \in long : j <= k) - 1)
                                      \o theFatalMsg]

Stopped == pc \in {"done", "panic", "fatal"}

-----------------------------------------------------------------------------
\* Type invariant.  That fmt never leaves the format and its NUL is lp_Print's
\* only bound on what it reads: a directive cut off by the end must step back.
PrintkTypeOK ==
  /\ call \in 1 .. Len(job.calls)
  /\ pc \in {"scan", "flags", "width", "prec", "length", "convert"} \/ Stopped
  /\ fmt \in 1 .. Len(cur.fmt) + 1
  /\ ap \in 0 .. Len(cur.args)
  /\ DOMAIN dir = {"ladjust", "padc", "width"}
  /\ dir.ladjust \in BOOLEAN /\ dir.padc \in {" ", "0"} /\ dir.width \in Nat

\* When lp_Print has stopped, the characters that reached the console are the
\* format's meaning, to the last blank: sign, zeros and digits in their order,
\* arguments taken one per specifier, and the fatal message exactly for a
\* piece longer than the buffer, whichever call of _panic it is in.
OutputExact == Stopped => pc = Expected.end /\ out = Expected.text

\* Every printf returns or stops in one of the two loops that mean to: no
\* format keeps lp_Print's scanning loops going.
PrintEnds == <>Stopped
=============================================================================
