---------------------------- MODULE MCCommandLine ----------------------------
(* CommandLine with every list of up to five arguments of nine kinds. *)
EXTENDS CommandLine

Word(n) == [dash |-> FALSE, letter |-> "", text |-> <<n>>]
Option(letter) == [dash |-> TRUE, letter |-> letter, text |-> <<>>]
Attached(letter, n) == [dash |-> TRUE, letter |-> letter, text |-> <<n>>]

\* File names and numbers that do and do not fit, flags with and without text
\* behind them, parameters of both forms, a dash alone and an unknown option.
Arguments ==
    {Word(0), Word(300), Option("d"), Attached("m", 0), Option("n"),
     Option("j"), Attached("j", 65552), Option(""), Option("F")}

AllLists == UNION { [1..n -> Arguments] : n \in 0..5 }
=============================================================================
