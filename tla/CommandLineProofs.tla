-------------------------- MODULE CommandLineProofs --------------------------
(***************************************************************************)
(* The theorems of CommandLine: what is proved about the loop over argv    *)
(* for every list of arguments, however long.                              *)
(***************************************************************************)
EXTENDS CommandLine, SequenceFacts, TLAPS

\* S is the set of places at which options stand in the first n arguments:
\* Reads, for a part of the command line that ends behind a whole option.
ReadsTo(S, n) ==
    /\ S \subseteq 1..n
    /\ \A i \in S : args[i].dash /\ args[i].letter \in Flags \cup Params
    /\ \A i \in S : Separate(i) => i + 1 \in (1..n) \ S /\ ~args[i + 1].dash
    /\ \A i \in (1..n) \ S : i - 1 \in S /\ Separate(i - 1)

\* No reading of the whole command line has other options up to place n.
OnlyReading(S, n) ==
    \A R \in SUBSET Front : Reads(R) => R \cap (1..n) = S

\* The letter has the value of its last occurrence in S, or its default.
LastIn(S, letter) ==
    LET at == { i \in S : args[i].letter = letter }
    IN  IF at = {} THEN options[letter] = Defaults[letter]
        ELSE \E i \in at : /\ \A k \in at : k <= i
                           /\ options[letter] = Given(i)

Values(S) == \A letter \in Flags \cup Params : LastIn(S, letter)

\* The options have values of the types of their variables.
Width(letter) == IF letter \in Flags THEN {0, 1}
                 ELSE IF letter = "j" THEN 0..(UINT16 - 1) ELSE 0..(UINT8 - 1)

OptionsOK ==
    /\ options \in [Flags \cup Params -> Nat]
    /\ \A letter \in Flags \cup Params : options[letter] \in Width(letter)

\* What is known of what the loop has read: there is one way to read it, the
\* options have the values it gives, and the loop moves behind the last argument
\* before the files only where no reading is.
Parsed ==
    \E T \in SUBSET (1..(iarg - 1)) :
        ReadsTo(T, iarg - 1) /\ OnlyReading(T, iarg - 1) /\ Values(T)

\* The inductive invariant.
ParseInv ==
    /\ pc \in {"loop", "accepted", "usage"}
    /\ args \in ArgLists /\ iarg \in 1..argc
    /\ OptionsOK
    /\ used = Run(0, iarg - 1)
    /\ pc = "usage" => ~Grammatical
    /\ pc # "usage" => Parsed /\ (iarg <= Len(args) - 1 \/ ~Grammatical)
    /\ pc = "accepted" =>
         /\ iarg = Len(args) - 1
         /\ infn = args[Len(args) - 1] /\ outfn = args[Len(args)]

-----------------------------------------------------------------------------
\* The arguments are a sequence of arguments.
LEMMA ArgsType ==
    ASSUME args \in ArgLists
    PROVE  /\ args \in Seq(Argument) /\ Len(args) \in Nat
           /\ DOMAIN args = 1..Len(args)
           /\ \A i \in 1..Len(args) :
                /\ args[i].text \in Seq(Int) /\ args[i].dash \in BOOLEAN
                /\ args[i].text # <<>> => args[i].text[1] \in Int
                /\ ~args[i].dash => args[i].text # <<>>
  <1>1. args \in Seq(Argument)
    BY ArgumentAssumption
  <1>2. Len(args) \in Nat /\ DOMAIN args = 1..Len(args)
    BY <1>1, LenProperties
  <1>3. ASSUME NEW i \in 1..Len(args)
        PROVE  /\ args[i].text \in Seq(Int) /\ args[i].dash \in BOOLEAN
               /\ args[i].text # <<>> => args[i].text[1] \in Int
               /\ ~args[i].dash => args[i].text # <<>>
    <2>1. args[i] \in Argument
      BY <1>1, <1>3, ElementOfSeq
    <2>2. args[i].text \in Seq(Int) /\ args[i].dash \in BOOLEAN
      BY <2>1 DEF Argument
    <2>3. ASSUME args[i].text # <<>>
          PROVE  args[i].text[1] \in Int
      <3>1. Len(args[i].text) \in Nat /\ Len(args[i].text) # 0
        BY <2>2, <2>3, LenProperties, EmptySeq
      <3> QED
        BY <2>2, <3>1, ElementOfSeq
    <2>4. ~args[i].dash => args[i].text # <<>>
      <3>1. ~args[i].dash => Len(args[i].text) = 1
        BY <1>2, ArgumentAssumption
      <3>2. args[i].text = <<>> => Len(args[i].text) = Len(<<>>)
        OBVIOUS
      <3>3. Len(<<>>) = 0
        BY EmptySeq
      <3> QED
        BY <3>1, <3>2, <3>3, SMTT(60)
    <2> QED
      BY <2>2, <2>3, <2>4
  <1> QED
    BY <1>1, <1>2, <1>3

\* Behind what the loop has read as whole options, an option must stand.
LEMMA OptionNext ==
    ASSUME NEW n \in Nat, NEW T, ReadsTo(T, n), OnlyReading(T, n),
           n + 1 \in Front,
           NEW R \in SUBSET Front, Reads(R)
    PROVE  n + 1 \in R
  <1>1. SUFFICES ASSUME n + 1 \notin R PROVE FALSE
    OBVIOUS
  <1>2. n \in R /\ Separate(n)
    <2>1. (n + 1) - 1 \in R /\ Separate((n + 1) - 1)
      BY <1>1 DEF Reads
    <2> QED
      BY <2>1
  <1>3. n \in T
    <2>1. n \in 1..n
      BY <1>2 DEF Front
    <2> QED
      BY <1>2, <2>1 DEF OnlyReading
  <1> QED
    BY <1>2, <1>3 DEF ReadsTo

\* An option that takes one argument.
LEMMA ReadOne ==
    ASSUME NEW n \in Nat, NEW T, ReadsTo(T, n), OnlyReading(T, n),
           n + 1 \in Front,
           args[n + 1].dash, args[n + 1].letter \in Flags \cup Params,
           ~Separate(n + 1)
    PROVE  ReadsTo(T \cup {n + 1}, n + 1) /\ OnlyReading(T \cup {n + 1}, n + 1)
  <1>1. ReadsTo(T \cup {n + 1}, n + 1)
    BY DEF ReadsTo
  <1>2. ASSUME NEW R \in SUBSET Front, Reads(R)
        PROVE  R \cap (1..(n + 1)) = T \cup {n + 1}
    <2>1. n + 1 \in R /\ R \cap (1..n) = T
      BY <1>2, OptionNext DEF OnlyReading
    <2> QED
      BY <2>1
  <1> QED
    BY <1>1, <1>2 DEF OnlyReading

\* An option whose value is an argument of its own.
LEMMA ReadTwo ==
    ASSUME NEW n \in Nat, NEW T, ReadsTo(T, n), OnlyReading(T, n),
           n + 1 \in Front,
           args[n + 1].dash, args[n + 1].letter \in Flags \cup Params,
           Separate(n + 1), ~args[n + 2].dash
    PROVE  ReadsTo(T \cup {n + 1}, n + 2) /\ OnlyReading(T \cup {n + 1}, n + 2)
  <1>0. (n + 1) + 1 = n + 2 /\ (n + 2) - 1 = n + 1
    OBVIOUS
  <1>1. ReadsTo(T \cup {n + 1}, n + 2)
    <2> DEFINE U == T \cup {n + 1}
    <2>1. U \subseteq 1..(n + 2)
      BY DEF ReadsTo
    <2>2. \A i \in U : args[i].dash /\ args[i].letter \in Flags \cup Params
      BY DEF ReadsTo
    <2>3. ASSUME NEW i \in U, Separate(i)
          PROVE  i + 1 \in (1..(n + 2)) \ U /\ ~args[i + 1].dash
      BY <1>0, <2>3 DEF ReadsTo
    <2>4. ASSUME NEW i \in (1..(n + 2)) \ U
          PROVE  i - 1 \in U /\ Separate(i - 1)
      <3>1. i = n + 2 \/ i \in (1..n) \ T
        OBVIOUS
      <3> QED
        BY <1>0, <3>1 DEF ReadsTo
    <2> QED
      BY <2>1, <2>2, <2>3, <2>4 DEF ReadsTo
  <1>2. ASSUME NEW R \in SUBSET Front, Reads(R)
        PROVE  R \cap (1..(n + 2)) = T \cup {n + 1}
    <2>1. n + 1 \in R /\ R \cap (1..n) = T
      BY <1>2, OptionNext DEF OnlyReading
    <2>2. n + 2 \notin R
      BY <1>0, <1>2, <2>1 DEF Reads
    <2>3. T \subseteq 1..n
      BY DEF ReadsTo
    <2> QED
      BY <2>1, <2>2, <2>3
  <1> QED
    BY <1>1, <1>2 DEF OnlyReading

\* The value of an option just read is that of its letter from now on, and the
\* other letters keep theirs.
LEMMA ValueTaken ==
    ASSUME NEW n \in Nat, NEW T, ReadsTo(T, n), Values(T),
           OptionsOK, args' = args,
           options' = [options EXCEPT ![args[n + 1].letter] = Given(n + 1)],
           args[n + 1].letter \in Flags \cup Params
    PROVE  Values(T \cup {n + 1})'
  <1> DEFINE U == T \cup {n + 1}
             here == args[n + 1].letter
  <1>1. T \subseteq 1..n
    BY DEF ReadsTo
  <1>2. ASSUME NEW letter \in Flags \cup Params
        PROVE  LastIn(U, letter)'
    <2> DEFINE at == { i \in U : args[i].letter = letter }
    <2>1. options'[letter] = IF letter = here THEN Given(n + 1)
                             ELSE options[letter]
      BY DEF OptionsOK
    <2>2. \A i : Given(i)' = Given(i)
      BY DEF Given, Separate
    <2>3. CASE letter = here
      <3>1. n + 1 \in at /\ \A k \in at : k <= n + 1
        BY <1>1, <2>3
      <3> QED
        BY <2>1, <2>2, <2>3, <3>1 DEF LastIn
    <2>4. CASE letter # here
      <3>1. at = { i \in T : args[i].letter = letter }
        BY <2>4
      <3>2. LastIn(T, letter)
        BY DEF Values
      <3> QED
        BY <2>1, <2>2, <2>4, <3>1, <3>2 DEF LastIn
    <2> QED
      BY <2>3, <2>4
  <1> QED
    BY <1>2 DEF Values

\* What is stored of a number has the width of its variable.
LEMMA CutWidth ==
    ASSUME NEW letter \in Params, NEW n \in Int
    PROVE  Stored(letter, n) \in Width(letter) /\ Stored(letter, n) \in Nat
  <1>1. letter \notin Flags
    BY DEF Params, Flags
  <1>2. UINT16 \in Nat \ {0} /\ UINT8 \in Nat \ {0}
    BY DEF UINT16, UINT8
  <1>3. n % UINT16 \in 0..(UINT16 - 1) /\ n % UINT8 \in 0..(UINT8 - 1)
    BY <1>2, Remainder
  <1>4. n % UINT16 \in Nat /\ n % UINT8 \in Nat
    BY <1>2, <1>3
  <1> QED
    BY <1>1, <1>3, <1>4 DEF Stored, Width

\* An option value is stored in the width of its variable.
LEMMA StoredType ==
    ASSUME OptionsOK,
           NEW letter \in Flags \cup Params, NEW v,
           letter \in Flags => v \in {0, 1},
           letter \in Params => \E n \in Int : v = Stored(letter, n),
           options' = [options EXCEPT ![letter] = v]
    PROVE  OptionsOK'
  <1>1. v \in Width(letter) /\ v \in Nat
    <2>1. CASE letter \in Flags
      BY <2>1 DEF Width
    <2>2. CASE letter \notin Flags
      <3>1. PICK n \in Int : v = Stored(letter, n)
        BY <2>2
      <3>2. letter \in Params
        BY <2>2
      <3> QED
        BY <3>1, <3>2, CutWidth
    <2> QED
      BY <2>1, <2>2
  <1>2. /\ options' \in [Flags \cup Params -> Nat]
        /\ \A x \in Flags \cup Params :
               options'[x] = IF x = letter THEN v ELSE options[x]
    BY <1>1 DEF OptionsOK
  <1> QED
    BY <1>1, <1>2 DEF OptionsOK

\* The next place, or the next two, behind the places before them.
LEMMA RunAppend ==
    ASSUME NEW n \in Nat
    PROVE  /\ Append(Run(0, n), n + 1) = Run(0, n + 1)
           /\ Run(0, n) \o <<n + 1, n + 2>> = Run(0, n + 2)
  <1>1. Run(0, n) \in Seq(Nat) /\ Len(Run(0, n)) = n
        /\ \A i \in 1..n : Run(0, n)[i] = 0 + i
    BY RunType
  <1>2. Append(Run(0, n), n + 1) = Run(0, n + 1)
    <2> DEFINE s == Append(Run(0, n), n + 1)
    <2>1. s \in Seq(Nat) /\ Len(s) = n + 1
      BY <1>1, AppendProperties
    <2>2. \A i \in 1..(n + 1) : s[i] = 0 + i
      BY <1>1, AppendProperties
    <2> HIDE DEF s
    <2>3. s = Run(0, Len(s))
      BY <2>1, <2>2, RunUnique
    <2> QED
      BY <2>1, <2>3 DEF s
  <1>3. <<n + 1, n + 2>> = Run(n, 2)
    <2> SUFFICES ASSUME NEW s, s = <<n + 1, n + 2>> PROVE s = Run(n, 2)
      OBVIOUS
    <2>1. s \in Seq(Nat) /\ Len(s) = 2 /\ \A i \in 1..2 : s[i] = n + i
      OBVIOUS
    <2>2. s = Run(n, Len(s))
      BY <2>1, RunUnique
    <2>3. Len(s) = 2
      BY <2>1
    <2> QED
      BY <2>2, <2>3, Zenon
  <1>4. Run(0, n) \o Run(n, 2) = Run(0, n + 2)
    <2>1. 0 + n = n
      OBVIOUS
    <2>2. Run(0, n) \o Run(0 + n, 2) = Run(0, n + 2)
      BY RunGoesOn
    <2> QED
      BY <2>1, <2>2
  <1> QED
    BY <1>2, <1>3, <1>4

-----------------------------------------------------------------------------
\* What is read depends on args alone, the values on args and options.
LEMMA SameReading ==
    ASSUME UNCHANGED args, NEW T, NEW n
    PROVE  /\ (ReadsTo(T, n))' <=> ReadsTo(T, n)
           /\ (OnlyReading(T, n))' <=> OnlyReading(T, n)
           /\ Grammatical' <=> Grammatical
           /\ UNCHANGED options => (Values(T)' <=> Values(T))
  <1>1. /\ Len(args') = Len(args) /\ Front' = Front
        /\ \A i : Separate(i)' <=> Separate(i)
    BY DEF Front, Separate
  <1>2. \A R : Reads(R)' <=> Reads(R)
    BY <1>1 DEF Reads
  <1>3. \A i : Given(i)' = Given(i)
    BY <1>1 DEF Given
  <1>4. ReadsTo(T, n)' <=> ReadsTo(T, n)
    BY <1>1 DEF ReadsTo
  <1>5. OnlyReading(T, n)' <=> OnlyReading(T, n)
    BY <1>1, <1>2 DEF OnlyReading
  <1>6. Grammatical' <=> Grammatical
    BY <1>1, <1>2 DEF Grammatical
  <1>7. UNCHANGED options => (Values(T)' <=> Values(T))
    BY <1>3 DEF Values, LastIn
  <1> QED
    BY <1>4, <1>5, <1>6, <1>7

\* What is known of what was read changes only when more is read.
LEMMA SameParsed ==
    ASSUME UNCHANGED <<args, iarg, options>>, Parsed
    PROVE  Parsed'
  <1>1. PICK n : n = iarg - 1
    OBVIOUS
  <1>2. PICK T \in SUBSET (1..n) :
            ReadsTo(T, n) /\ OnlyReading(T, n) /\ Values(T)
    BY <1>1 DEF Parsed
  <1>3. (ReadsTo(T, n) /\ OnlyReading(T, n) /\ Values(T))'
    BY <1>2, SameReading
  <1> QED
    BY <1>1, <1>2, <1>3 DEF Parsed

\* The invariant holds before the first turn.
LEMMA ParseInit == Init => ParseInv
  <1> SUFFICES ASSUME Init PROVE ParseInv
    OBVIOUS
  <1>1. /\ args \in Seq(Argument) /\ Len(args) \in Nat
        /\ pc = "loop" /\ iarg = 1 /\ used = <<>> /\ args \in ArgLists
    BY ArgsType DEF Init
  <1>2. OptionsOK
    <2>1. /\ UINT16 - 1 \in Nat /\ 64 \in 0..(UINT16 - 1)
          /\ UINT8 - 1 \in Nat /\ 1 \in 0..(UINT8 - 1) /\ 8 \in 0..(UINT8 - 1)
      BY DEF UINT16, UINT8
    <2>2. /\ options \in [Flags \cup Params -> Nat]
          /\ \A letter \in Flags : options[letter] \in {0, 1}
          /\ options["j"] = 64 /\ options["n"] = 8 /\ options["r"] = 1
      BY DEF Init, Defaults, Flags, Params
    <2>3. ASSUME NEW letter \in Flags \cup Params
          PROVE  options[letter] \in Width(letter)
      BY <2>1, <2>2 DEF Width, Flags, Params
    <2> QED
      BY <2>2, <2>3 DEF OptionsOK
  <1>3. <<>> = Run(0, 0)
    BY EmptySeq DEF Run
  <1>4. Parsed
    <2>1. ReadsTo({}, 0)
      BY DEF ReadsTo
    <2>2. OnlyReading({}, 0)
      BY DEF OnlyReading
    <2>3. Values({})
      BY DEF Values, LastIn, Init
    <2> QED
      BY <1>1, <2>1, <2>2, <2>3 DEF Parsed
  <1>5. iarg <= Len(args) - 1 \/ ~Grammatical
    BY <1>1 DEF Grammatical
  <1> QED
    BY <1>1, <1>2, <1>3, <1>4, <1>5 DEF ParseInv, argc

\* A turn that uses up one argument.
LEMMA TurnOne ==
    ASSUME ParseInv, pc = "loop", Looping,
           args[iarg].dash, args[iarg].letter \in Flags \cup Params,
           ~Separate(iarg),
           options' = [options EXCEPT ![args[iarg].letter] = Given(iarg)],
           iarg' = iarg + 1, UNCHANGED args
    PROVE  Parsed'
  <1>0. PICK n \in Int : n = iarg - 1
    BY ArgsType DEF ParseInv, argc
  <1>1. n \in Nat /\ n + 1 = iarg /\ n + 1 \in Front /\ iarg' - 1 = n + 1
    BY <1>0, ArgsType DEF ParseInv, Looping, argc, Front
  <1>2. PICK T \in SUBSET (1..n) :
            ReadsTo(T, n) /\ OnlyReading(T, n) /\ Values(T)
    BY <1>0 DEF ParseInv, Parsed
  <1> DEFINE U == T \cup {n + 1}
  <1>3. U \in SUBSET (1..(n + 1))
    BY <1>1
  <1>4. ReadsTo(U, n + 1) /\ OnlyReading(U, n + 1)
    BY <1>1, <1>2, ReadOne
  <1>5. Values(U)'
    BY <1>1, <1>2, ValueTaken DEF ParseInv
  <1>6. (ReadsTo(U, n + 1) /\ OnlyReading(U, n + 1))'
    BY <1>4, SameReading
  <1> QED
    BY <1>1, <1>3, <1>5, <1>6 DEF Parsed

\* A turn that uses up two.
LEMMA TurnTwo ==
    ASSUME ParseInv, pc = "loop", Looping,
           args[iarg].dash, args[iarg].letter \in Flags \cup Params,
           Separate(iarg), ~args[iarg + 1].dash,
           options' = [options EXCEPT ![args[iarg].letter] = Given(iarg)],
           iarg' = iarg + 2, UNCHANGED args
    PROVE  Parsed'
  <1>0. PICK n \in Int : n = iarg - 1
    BY ArgsType DEF ParseInv, argc
  <1>1. n \in Nat /\ n + 1 = iarg /\ n + 2 = iarg + 1 /\ n + 1 \in Front
        /\ iarg' - 1 = n + 2
    BY <1>0, ArgsType DEF ParseInv, Looping, argc, Front
  <1>2. PICK T \in SUBSET (1..n) :
            ReadsTo(T, n) /\ OnlyReading(T, n) /\ Values(T)
    BY <1>0 DEF ParseInv, Parsed
  <1> DEFINE U == T \cup {n + 1}
  <1>3. U \in SUBSET (1..(n + 2))
    BY <1>1
  <1>4. ReadsTo(U, n + 2) /\ OnlyReading(U, n + 2)
    BY <1>1, <1>2, ReadTwo
  <1>5. Values(U)'
    BY <1>1, <1>2, ValueTaken DEF ParseInv
  <1>6. (ReadsTo(U, n + 2) /\ OnlyReading(U, n + 2))'
    BY <1>4, SameReading
  <1> QED
    BY <1>1, <1>3, <1>5, <1>6 DEF Parsed

\* In a grammatical command line the loop finds an option at iarg.
LEMMA OptionHere ==
    ASSUME ParseInv, pc = "loop", Looping,
           NEW R \in SUBSET Front, Reads(R)
    PROVE  iarg \in R
  <1>0. PICK n \in Int : n = iarg - 1
    BY ArgsType DEF ParseInv, argc
  <1>1. n \in Nat /\ n + 1 = iarg /\ n + 1 \in Front
    BY <1>0, ArgsType DEF ParseInv, Looping, argc, Front
  <1>2. PICK T \in SUBSET (1..n) : ReadsTo(T, n) /\ OnlyReading(T, n)
    BY <1>0 DEF ParseInv, Parsed
  <1> QED
    BY <1>1, <1>2, OptionNext

-----------------------------------------------------------------------------
\* Every turn of the loop, and what comes behind it, keeps the invariant.
LEMMA ParseStep ==
    ASSUME ParseInv, [Next]_cvars
    PROVE  ParseInv'
  <1>0. /\ args \in ArgLists /\ args \in Seq(Argument) /\ Len(args) \in Nat
        /\ iarg \in 1..(Len(args) + 1) /\ iarg - 1 \in Nat
        /\ (iarg - 1) + 1 = iarg /\ (iarg - 1) + 2 = iarg + 1
        /\ OptionsOK
        /\ Looping <=> iarg <= Len(args) - 2
    <2>1. args \in ArgLists /\ iarg \in 1..argc /\ OptionsOK
      BY DEF ParseInv
    <2>2. args \in Seq(Argument) /\ Len(args) \in Nat
      BY <2>1, ArgsType
    <2>3. iarg \in 1..(Len(args) + 1)
      BY <2>1 DEF argc
    <2>4. Looping <=> iarg <= Len(args) - 2
      BY <2>2, <2>3 DEF Looping, argc
    <2> QED
      BY <2>1, <2>2, <2>3, <2>4
  <1>1. CASE TakeFlag
    <2>1. /\ args[iarg].letter \in Flags /\ args[iarg].dash /\ Looping
          /\ iarg' = iarg + 1 /\ UNCHANGED <<pc, args>> /\ pc = "loop"
          /\ used' = Append(used, iarg)
          /\ options' = [options EXCEPT ![args[iarg].letter] =
                             FlagValue[args[iarg].letter]]
      BY <1>1 DEF TakeFlag, OptionTurn
    <2>2. ~Separate(iarg)
      BY <2>1 DEF Separate, Flags, Params
    <2>3. FlagValue[args[iarg].letter] = Given(iarg)
      BY <2>1 DEF Given
    <2>4. Parsed'
      BY <2>1, <2>2, <2>3, TurnOne
    <2>5. OptionsOK'
      <3>1. FlagValue[args[iarg].letter] \in {0, 1}
        BY <2>1 DEF FlagValue, Flags
      <3>2. args[iarg].letter \notin Params
        BY <2>1 DEF Flags, Params
      <3> QED
        BY <1>0, <2>1, <3>1, <3>2, StoredType
    <2>6. iarg' \in 1..argc' /\ iarg' <= Len(args') - 1
      BY <1>0, <2>1 DEF argc
    <2>7. used' = Run(0, iarg' - 1)
      <3>1. used = Run(0, iarg - 1)
        BY DEF ParseInv
      <3>2. Append(used, iarg) = Run(0, iarg)
        BY <1>0, <3>1, RunAppend
      <3> QED
        BY <1>0, <2>1, <3>2
    <2> QED
      BY <1>0, <2>1, <2>4, <2>5, <2>6, <2>7 DEF ParseInv
  <1>2. CASE TakeAttached
    <2>1. /\ args[iarg].letter \in Params /\ args[iarg].dash /\ Looping
          /\ args[iarg].text # <<>>
          /\ iarg' = iarg + 1 /\ UNCHANGED <<pc, args>> /\ pc = "loop"
          /\ used' = Append(used, iarg)
          /\ options' = [options EXCEPT ![args[iarg].letter] =
                   Stored(args[iarg].letter, args[iarg].text[1])]
      BY <1>2 DEF TakeAttached, OptionTurn
    <2>2. ~Separate(iarg)
      BY <2>1 DEF Separate
    <2>3. Stored(args[iarg].letter, args[iarg].text[1]) = Given(iarg)
      BY <2>1, <2>2 DEF Given, Flags, Params
    <2>4. Parsed'
      BY <2>1, <2>2, <2>3, TurnOne
    <2>5. OptionsOK'
      <3>1. args[iarg].text[1] \in Int
        BY <1>0, <2>1, ArgsType
      <3>2. args[iarg].letter \notin Flags
        BY <2>1 DEF Flags, Params
      <3> QED
        BY <1>0, <2>1, <3>1, <3>2, StoredType
    <2>6. iarg' \in 1..argc' /\ iarg' <= Len(args') - 1
      BY <1>0, <2>1 DEF argc
    <2>7. used' = Run(0, iarg' - 1)
      <3>1. used = Run(0, iarg - 1)
        BY DEF ParseInv
      <3>2. Append(used, iarg) = Run(0, iarg)
        BY <1>0, <3>1, RunAppend
      <3> QED
        BY <1>0, <2>1, <3>2
    <2> QED
      BY <1>0, <2>1, <2>4, <2>5, <2>6, <2>7 DEF ParseInv
  <1>3. CASE TakeSeparate
    <2>1. /\ args[iarg].letter \in Params /\ args[iarg].dash /\ Looping
          /\ args[iarg].text = <<>> /\ ~args[iarg + 1].dash
          /\ iarg' = iarg + 2 /\ UNCHANGED <<pc, args>> /\ pc = "loop"
          /\ used' = used \o <<iarg, iarg + 1>>
          /\ options' = [options EXCEPT ![args[iarg].letter] =
                   Stored(args[iarg].letter, args[iarg + 1].text[1])]
      BY <1>3 DEF TakeSeparate, OptionTurn
    <2>2. Separate(iarg)
      BY <2>1 DEF Separate
    <2>3. Stored(args[iarg].letter, args[iarg + 1].text[1]) = Given(iarg)
      BY <2>1, <2>2 DEF Given, Flags, Params
    <2>4. Parsed'
      BY <2>1, <2>2, <2>3, TurnTwo
    <2>5. OptionsOK'
      <3>0. Looping
        BY <2>1
      <3>1. iarg + 1 \in 1..Len(args)
        BY <1>0, <3>0
      <3>2. args[iarg + 1].text[1] \in Int
        BY <1>0, <2>1, <3>1, ArgsType
      <3>3. args[iarg].letter \notin Flags
        BY <2>1 DEF Flags, Params
      <3> QED
        BY <1>0, <2>1, <3>2, <3>3, StoredType
    <2>6. iarg' <= Len(args') - 1 \/ ~Grammatical'
      <3>1. SUFFICES ASSUME iarg = Len(args) - 2, NEW R \in SUBSET Front, Reads(R)
                     PROVE  FALSE
        BY <1>0, <2>1 DEF Grammatical, Front, Reads, Separate
      <3>2. iarg \in R
        BY <2>1, <3>1, OptionHere
      <3>3. iarg + 1 \in Front
        BY <2>2, <3>1, <3>2 DEF Reads
      <3> QED
        BY <1>0, <3>1, <3>3 DEF Front
    <2>7. used' = Run(0, iarg' - 1)
      <3>1. used = Run(0, iarg - 1)
        BY DEF ParseInv
      <3>2. Run(0, iarg - 1) \o <<iarg, iarg + 1>> = Run(0, iarg + 1)
        BY <1>0, RunAppend
      <3>3. iarg' - 1 = iarg + 1
        BY <1>0, <2>1
      <3> QED
        BY <2>1, <3>1, <3>2, <3>3
    <2>8. iarg' \in 1..argc' /\ pc' = "loop" /\ args' \in ArgLists
      BY <1>0, <2>1 DEF argc
    <2> QED
      BY <2>4, <2>5, <2>6, <2>7, <2>8 DEF ParseInv
  <1>4. CASE Reject
    <2>1. /\ pc = "loop" /\ Looping /\ pc' = "usage"
          /\ UNCHANGED <<args, iarg, options, infn, outfn, used>>
          /\ \/ ~args[iarg].dash
             \/ args[iarg].letter \notin Flags \cup Params
             \/ Separate(iarg) /\ args[iarg + 1].dash
      BY <1>4 DEF Reject, Separate
    <2>2. ~Grammatical
      <3>1. SUFFICES ASSUME NEW R \in SUBSET Front, Reads(R) PROVE FALSE
        BY DEF Grammatical
      <3>2. iarg \in R
        BY <2>1, <3>1, OptionHere
      <3> QED
        BY <2>1, <3>1, <3>2 DEF Reads
    <2> QED
      BY <1>0, <2>1, <2>2
      DEF ParseInv, argc, OptionsOK, Grammatical, Front, Reads, Separate
  <1>5. CASE RejectShort
    <2>1. /\ pc = "loop" /\ pc' = "usage" /\ argc - iarg < 2
          /\ UNCHANGED <<args, iarg, options, infn, outfn, used>>
      BY <1>5 DEF RejectShort
    <2>2. ~Grammatical
      BY <1>0, <2>1 DEF ParseInv, argc
    <2> QED
      BY <1>0, <2>1, <2>2
      DEF ParseInv, argc, OptionsOK, Grammatical, Front, Reads, Separate
  <1>6. CASE Accept
    <2>1. /\ pc = "loop" /\ pc' = "accepted" /\ argc - iarg >= 2 /\ ~Looping
          /\ UNCHANGED <<args, iarg, options, used>>
          /\ infn' = args[iarg] /\ outfn' = args[iarg + 1]
      BY <1>6 DEF Accept
    <2>2. iarg = Len(args) - 1 /\ iarg + 1 = Len(args)
      BY <1>0, <2>1 DEF argc
    <2>3. Parsed'
      BY <2>1, SameParsed DEF ParseInv
    <2>4. OptionsOK' /\ used' = Run(0, iarg' - 1) /\ iarg' \in 1..argc'
      BY <2>1 DEF ParseInv, argc, OptionsOK
    <2>5. /\ iarg' = Len(args') - 1
          /\ infn' = args'[Len(args') - 1] /\ outfn' = args'[Len(args')]
      BY <2>1, <2>2
    <2>6. iarg' <= Len(args') - 1 /\ pc' = "accepted" /\ args' \in ArgLists
      BY <1>0, <2>1, <2>5
    <2>7. /\ pc' \in {"loop", "accepted", "usage"} /\ pc' # "usage"
          /\ iarg' <= Len(args') - 1 \/ ~Grammatical'
      BY <2>6
    <2> QED
      BY <2>1, <2>3, <2>4, <2>5, <2>6, <2>7 DEF ParseInv
  <1>7. CASE UNCHANGED cvars
    <2>1. UNCHANGED <<pc, args, iarg, options, infn, outfn, used>>
      BY <1>7 DEF cvars
    <2>2. (Parsed => Parsed') /\ (Grammatical' <=> Grammatical)
      BY <2>1, SameParsed, SameReading
    <2>3. OptionsOK' /\ argc' = argc
      BY <1>0, <2>1 DEF OptionsOK, argc
    <2> QED
      BY <2>1, <2>2, <2>3 DEF ParseInv
  <1> QED
    BY <1>1, <1>2, <1>3, <1>4, <1>5, <1>6, <1>7 DEF Next

-----------------------------------------------------------------------------
\* Every variable keeps its type: get_param does not move iarg out of argv.
THEOREM TypeCorrect == Spec => []TypeOK
  <1>1. ParseInv => TypeOK
    <2> SUFFICES ASSUME ParseInv PROVE TypeOK
      OBVIOUS
    <2>0. OptionsOK
      BY DEF ParseInv
    <2>1. ASSUME NEW letter \in Flags PROVE options[letter] \in {0, 1}
      <3>1. Width(letter) = {0, 1}
        BY DEF Width
      <3> QED
        BY <2>0, <3>1 DEF OptionsOK
    <2>2. /\ options.j \in 0..(UINT16 - 1) /\ options.n \in 0..(UINT8 - 1)
          /\ options.r \in 0..(UINT8 - 1)
      <3>1. /\ Width("j") = 0..(UINT16 - 1) /\ Width("n") = 0..(UINT8 - 1)
            /\ Width("r") = 0..(UINT8 - 1)
        BY DEF Width, Flags
      <3>2. {"j", "n", "r"} \subseteq Flags \cup Params
        BY DEF Params
      <3>3. /\ options.j \in Width("j") /\ options.n \in Width("n")
            /\ options.r \in Width("r")
        BY <2>0, <3>2, Zenon DEF OptionsOK
      <3> QED
        BY <3>1, <3>3
    <2>3. ASSUME NEW k \in DOMAIN used PROVE used[k] \in DOMAIN args
      <3>1. used = Run(0, iarg - 1) /\ iarg \in 1..(Len(args) + 1)
        BY DEF ParseInv, argc
      <3>2. Len(args) \in Nat /\ DOMAIN args = 1..Len(args)
        BY ArgsType DEF ParseInv
      <3>3. k \in 1..(iarg - 1) /\ used[k] = 0 + k
        BY <3>1, <2>3 DEF Run
      <3> QED
        BY <3>1, <3>2, <3>3
    <2> QED
      BY <2>1, <2>2, <2>3 DEF ParseInv, TypeOK
  <1> QED
    BY <1>1, ParseInit, ParseStep, PTL DEF Spec

\* The program accepts its arguments exactly when they can be read as options in
\* front of two file names, though get_param moves past the bound of the loop.
THEOREM GrammarCorrect == Spec => []AcceptsGrammar
  <1>1. ParseInv => AcceptsGrammar
    <2> SUFFICES ASSUME ParseInv, pc = "accepted" PROVE Grammatical
      BY DEF ParseInv, AcceptsGrammar
    <2>1. iarg = Len(args) - 1 /\ Len(args) \in Nat /\ iarg \in 1..(Len(args) + 1)
      BY ArgsType DEF ParseInv, argc
    <2>2. Len(args) >= 2 /\ iarg - 1 = Len(args) - 2
      BY <2>1
    <2>3. PICK T \in SUBSET (1..(Len(args) - 2)) : ReadsTo(T, Len(args) - 2)
      BY <2>2 DEF ParseInv, Parsed
    <2> QED
      BY <2>2, <2>3 DEF Grammatical, Front, Reads, ReadsTo
  <1> QED
    BY <1>1, ParseInit, ParseStep, PTL DEF Spec

\* Accepted arguments are used once each and in order, and the files are the
\* last two.
THEOREM FilesCorrect == Spec => []FilesAreLast
  <1>1. ParseInv => FilesAreLast
    <2> SUFFICES ASSUME ParseInv, pc = "accepted"
                 PROVE  /\ used = [i \in Front |-> i]
                        /\ infn = args[Len(args) - 1]
                        /\ outfn = args[Len(args)]
      BY DEF FilesAreLast
    <2>1. iarg = Len(args) - 1 /\ Len(args) \in Nat
      BY ArgsType DEF ParseInv
    <2>2. used = [i \in Front |-> i]
      BY <2>1 DEF ParseInv, Run, Front
    <2> QED
      BY <2>2 DEF ParseInv
  <1> QED
    BY <1>1, ParseInit, ParseStep, PTL DEF Spec

\* Every option of an accepted command line has the value of its last occurrence,
\* in the width of its variable, or its default, however the line is read.
THEOREM OptionsCorrect == Spec => []LastOptionWins
  <1>1. ParseInv => LastOptionWins
    <2> SUFFICES ASSUME ParseInv, pc = "accepted",
                        NEW S \in SUBSET Front, Reads(S)
                 PROVE  Values(S)
      BY DEF LastOptionWins, Values, LastIn
    <2>1. iarg = Len(args) - 1 /\ Len(args) \in Nat
      BY ArgsType DEF ParseInv
    <2>2. iarg - 1 = Len(args) - 2
      BY <2>1
    <2>3. PICK T \in SUBSET Front : OnlyReading(T, Len(args) - 2) /\ Values(T)
      BY <2>2 DEF ParseInv, Parsed, Front
    <2>4. S = T
      BY <2>3 DEF OnlyReading, Front
    <2> QED
      BY <2>3, <2>4
  <1> QED
    BY <1>1, ParseInit, ParseStep, PTL DEF Spec
=============================================================================
