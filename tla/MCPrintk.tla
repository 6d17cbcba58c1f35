------------------------------ MODULE MCPrintk ------------------------------
(***************************************************************************)
(* Formats for Printk: every directive over a few flags, widths and values *)
(* (bytes for words, a buffer of 12), and every short string over the      *)
(* characters lp_Print tells apart.                                        *)
(***************************************************************************)
EXTENDS PrintFormat

MCChar == STRING
Arg(n, s, ch) == [int |-> n, str |-> s, chr |-> ch]
Args == { Arg(0, << >>, "z"), Arg(-7, <<"h", "i">>, NUL), Arg(127, <<"\n">>, "\n"),
          Arg(-128, <<"a", "%", "d">>, "%"), Arg(-1, Chars(13, "s"), "c") }
Flagged == {<<"-">>, <<"0">>, <<"-", "0">>, <<"0", "-">>, << >>}
Widths  == {<< >>, <<"1">>, <<"5">>, <<"1", "2">>, <<"1", "3">>}
Tails   == {<< >>, <<"l">>, <<".">>, <<".", "1", "2", "l">>}
Convs   == {"b", "d", "D", "o", "O", "u", "U", "x", "X", "c", "s", "%", "q"}

\* A directive, and a second one behind it that shows which argument is next.
Directives ==
  {printf(<<"%">> \o f \o w \o t \o <<s>> \o <<"%", "u">>, <<a, Arg(3, << >>, "z")>>) :
     f \in Flagged, w \in Widths, t \in Tails, s \in Convs, a \in Args}

Alphabet == {"%", "-", "0", "2", ".", "l", "d", "\n"}
Short == UNION {[1 .. n -> Alphabet] : n \in 0 .. 4}
Plain == <<Arg(-5, << >>, "z"), Arg(6, << >>, "z")>>

MCWork ==
  Directives
  \cup {printf(f, Plain) : f \in Short}
  \cup {_panic(file, 42, f, Plain) : file \in {<<"m">>, Chars(13, "f")},
                                     f \in {<< >>, <<"%", "3", "d">>, <<"%", "1", "3", "d">>, <<"%">>}}
=============================================================================
