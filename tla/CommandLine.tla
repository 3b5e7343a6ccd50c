----------------------------- MODULE CommandLine -----------------------------
(***************************************************************************)
(* The arguments of the iqzip program, apps/iqzip.cpp, up to the choice of *)
(* the files and options it works with; what it then does is in RoundTrip. *)
(* A turn of the loop over argv is a step.  An argument is a record        *)
(*   dash    it begins with a dash                                         *)
(*   letter  the character behind the dash                                 *)
(*   text    <<n>> for text behind that, n what atoi makes of it; <<>> for *)
(*           none.  A word has no letter, only text.                       *)
(* argv[0] is left out: args[i] is argv[i], and argc is Len(args) + 1.     *)
(***************************************************************************)
EXTENDS Integers, Sequences

CONSTANTS ArgLists    \* the argument lists the program may be given

Flags == {"N", "d", "m", "s", "t"}
Params == {"j", "n", "r"}

Argument == [dash : BOOLEAN, letter : STRING, text : Seq(Int)]

ASSUME ArgumentAssumption ==
    /\ ArgLists \subseteq Seq(Argument)
    /\ \A list \in ArgLists : \A i \in DOMAIN list :
        /\ Len(list[i].text) <= 1
        /\ ~list[i].dash => Len(list[i].text) = 1

VARIABLES
    pc,        \* "loop", "accepted", or "usage": exit with 1
    args,
    iarg,
    options,   \* the locals of main that arguments change
    infn, outfn,
    used       \* history: places of the arguments used as options, in order

cvars == <<pc, args, iarg, options, infn, outfn, used>>

argc == Len(args) + 1

Defaults == [N |-> 1, d |-> 0, j |-> 64, m |-> 1, n |-> 8, r |-> 1, s |-> 1,
             t |-> 0]

Init ==
    /\ pc = "loop" /\ args \in ArgLists /\ iarg = 1
    /\ options = Defaults
    /\ infn = <<>> /\ outfn = <<>> /\ used = <<>>

-----------------------------------------------------------------------------
\* What a flag sets: preprocessing, byte order and sense to 0, the others to 1.
FlagValue == [N |-> 0, d |-> 1, m |-> 0, s |-> 0, t |-> 1]

\* Mutant: the values are kept as atoi returns them.
StoredUncut(letter, n) == n

\* *param = atoi(...): the block size is a uint16_t, the others are uint8_t.
UINT16 == 65536
UINT8 == 256

Stored(letter, n) == IF letter = "j" THEN n % UINT16 ELSE n % UINT8

\* Mutants: the loop runs on to the last argument; it stops one too early.
LoopingToLast == iarg < argc - 1
LoopingShort == iarg < argc - 3

Looping == iarg < argc - 2

\* A turn of the loop that gets past the first character.
OptionTurn == pc = "loop" /\ Looping /\ args[iarg].dash

TakeFlag ==
    /\ OptionTurn
    /\ args[iarg].letter \in Flags
    /\ options' = [options EXCEPT ![args[iarg].letter] =
                       FlagValue[args[iarg].letter]]
    /\ iarg' = iarg + 1
    /\ used' = Append(used, iarg)
    /\ UNCHANGED <<pc, args, infn, outfn>>

\* get_param, the value behind the letter.
TakeAttached ==
    /\ OptionTurn
    /\ args[iarg].letter \in Params /\ args[iarg].text # <<>>
    /\ options' = [options EXCEPT ![args[iarg].letter] =
                       Stored(args[iarg].letter, args[iarg].text[1])]
    /\ iarg' = iarg + 1
    /\ used' = Append(used, iarg)
    /\ UNCHANGED <<pc, args, infn, outfn>>

\* Mutant: a value that is there already is kept.
TakeSeparateFirst ==
    /\ OptionTurn
    /\ args[iarg].letter \in Params /\ args[iarg].text = <<>>
    /\ ~args[iarg + 1].dash
    /\ options' = IF options[args[iarg].letter] # Defaults[args[iarg].letter]
                  THEN options
                  ELSE [options EXCEPT ![args[iarg].letter] =
                            Stored(args[iarg].letter, args[iarg + 1].text[1])]
    /\ iarg' = iarg + 2
    /\ used' = used \o <<iarg, iarg + 1>>
    /\ UNCHANGED <<pc, args, infn, outfn>>

\* get_param, the value in the argument behind, whatever the loop bound is.
TakeSeparate ==
    /\ OptionTurn
    /\ args[iarg].letter \in Params /\ args[iarg].text = <<>>
    /\ ~args[iarg + 1].dash
    /\ options' = [options EXCEPT ![args[iarg].letter] =
                       Stored(args[iarg].letter, args[iarg + 1].text[1])]
    /\ iarg' = iarg + 2
    /\ used' = used \o <<iarg, iarg + 1>>
    /\ UNCHANGED <<pc, args, infn, outfn>>

\* goto FAIL inside the loop: a word, an unknown letter, or an option where the
\* value should be.
Reject ==
    /\ pc = "loop" /\ Looping
    /\ \/ ~args[iarg].dash
       \/ args[iarg].letter \notin Flags \cup Params
       \/ /\ args[iarg].letter \in Params /\ args[iarg].text = <<>>
          /\ args[iarg + 1].dash
    /\ pc' = "usage"
    /\ UNCHANGED <<args, iarg, options, infn, outfn, used>>

\* Behind the loop: two arguments must be left.
RejectShort ==
    /\ pc = "loop" /\ ~Looping
    /\ argc - iarg < 2
    /\ pc' = "usage"
    /\ UNCHANGED <<args, iarg, options, infn, outfn, used>>

Accept ==
    /\ pc = "loop" /\ ~Looping
    /\ argc - iarg >= 2
    /\ infn' = args[iarg] /\ outfn' = args[iarg + 1]
    /\ pc' = "accepted"
    /\ UNCHANGED <<args, iarg, options, used>>

Next == TakeFlag \/ TakeAttached \/ TakeSeparate \/ Reject \/ RejectShort \/ Accept

Spec == Init /\ [][Next]_cvars

-----------------------------------------------------------------------------
\* The type of every variable: iarg stays in argv, though get_param moves it,
\* and the options in the types of their variables.
TypeOK ==
    /\ pc \in {"loop", "accepted", "usage"}
    /\ iarg \in 1..argc
    /\ \A letter \in Flags : options[letter] \in {0, 1}
    /\ options.j \in 0..(UINT16 - 1)
    /\ options.n \in 0..(UINT8 - 1) /\ options.r \in 0..(UINT8 - 1)
    /\ \A k \in DOMAIN used : used[k] \in DOMAIN args

\* What stands in front of the two file names.
Front == 1..(Len(args) - 2)

\* S is the set of places at which options stand: every argument in front of
\* the file names is an option the loop of main knows, or the value of the
\* parameter before it.
Separate(i) == args[i].letter \in Params /\ args[i].text = <<>>

Reads(S) ==
    /\ \A i \in S : args[i].dash /\ args[i].letter \in Flags \cup Params
    /\ \A i \in S : Separate(i) => i + 1 \in Front \ S /\ ~args[i + 1].dash
    /\ \A i \in Front \ S : i - 1 \in S /\ Separate(i - 1)

\* Options that the loop of main knows, then the two file names.
Grammatical == Len(args) >= 2 /\ \E S \in SUBSET Front : Reads(S)

\* The value the option at i gives.
Given(i) ==
    LET letter == args[i].letter
    IN  IF letter \in Flags THEN FlagValue[letter]
        ELSE Stored(letter, (IF Separate(i) THEN args[i + 1] ELSE args[i]).text[1])

\* The program accepts its arguments exactly when they can be read as options
\* it knows in front of two file names: a parameter that would swallow a file
\* name is caught, though get_param moves past the bound of the loop.
AcceptsGrammar ==
    /\ pc = "accepted" => Grammatical
    /\ pc = "usage" => ~Grammatical

\* Accepted arguments are used once each and in order, and the files are the
\* last two.
FilesAreLast ==
    pc = "accepted" =>
        /\ used = [i \in Front |-> i]
        /\ infn = args[Len(args) - 1] /\ outfn = args[Len(args)]

\* Every option has the value of its last occurrence, or its default.
LastOptionWins ==
    pc = "accepted" =>
        \A S \in SUBSET Front : Reads(S) =>
            \A letter \in Flags \cup Params :
                LET at == { i \in S : args[i].letter = letter }
                IN  IF at = {} THEN options[letter] = Defaults[letter]
                    ELSE \E i \in at : /\ \A k \in at : k <= i
                                       /\ options[letter] = Given(i)
=============================================================================
