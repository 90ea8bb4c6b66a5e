------------------------ MODULE ConsoleInputProofs ------------------------
(***************************************************************************)
(* Theorems about ConsoleInput, for every alphabet, every number of files   *)
(* and numbers of any length.                                               *)
(***************************************************************************)
EXTENDS ConsoleInput, SequenceTheorems, WellFoundedInduction, TLAPS

(* Nothing will come but the newline that a flush kept, or the end.         *)
LineIsOver == unget = <<Newline>> \/ (unget = << >> /\ ended)

(* Only i asks for the size of the device, and a multiplier is followed by  *)
(* the rest of its argument.                                                *)
Names == {"number", "zero", "digits", "block", "length", "string", "word",
          "quoted", "flush", "drop", "okay", "close"}
AllNames(c) == Names \cup {"multiplier"} \cup (IF c = "i" THEN {"size"} ELSE {})
LoopLists(c) ==
  {loops \in Seq(AllNames(c)) : loops # << >> => loops[Len(loops)] # "multiplier"}

(* At most one character is kept.  A w runs its two loops and nothing else, *)
(* the second one behind a newline.  When something was refused, the rest   *)
(* of the line is dropped before the next command.                          *)
InputInv ==
  /\ unget = << >> \/ \E c \in Chars : unget = <<c>>
  /\ todo \in LoopLists(cmd)
  /\ cmd = "w" =>
       \/ todo \in {<< >>, <<"close">>, <<"drop", "okay">>}
       \/ todo = <<"flush">> /\ refused
       \/ todo = <<"okay">> /\ (newline \/ (unget = << >> /\ ended))
  /\ refused /\ cmd # "i" =>
       \/ todo = <<"flush">>
       \/ todo \in {<< >>, <<"close">>} /\ LineIsOver

-----------------------------------------------------------------------------
(* Reading.                                                                 *)

LEMMA ComingIsChar ==
  ASSUME InputInv
  PROVE  /\ Coming \subseteq Chars
         /\ Popped = << >>
         /\ unget = <<Newline>> => Coming = {Newline}
         /\ unget = << >> /\ ended => Coming = {Eof}
<1>1. CASE unget = << >>
  <2>1. << >> # <<Newline>>
    OBVIOUS
  <2> QED BY <1>1, <2>1 DEF Coming, Popped, Chars
<1>2. CASE \E c \in Chars : unget = <<c>>
  <2>1. PICK c \in Chars : unget = <<c>>
    BY <1>2
  <2>2. Len(unget) = 1 /\ unget[1] = c /\ unget # << >>
    BY <2>1
  <2>3. Last(unget) = c
    BY <2>2 DEF Last
  <2>4. Front(unget) = << >>
    BY <2>1, <2>2 DEF Front
  <2>5. unget = <<Newline>> => c = Newline
    BY <2>2
  <2> QED BY <2>2, <2>3, <2>4, <2>5 DEF Coming, Popped
<1> QED BY <1>1, <1>2 DEF InputInv

LEMMA Reading ==
  ASSUME InputInv, NEW c
  PROVE  /\ Getch(c) => unget' = << >> /\ Seen(c)
         /\ Peek(c) => unget' = <<c>> /\ Seen(c)
<1>1. Popped = << >> /\ Append(<< >>, c) = <<c>>
  BY ComingIsChar
<1> QED BY <1>1 DEF Getch, Peek, Ungetch

(* The loops of a command that is over, is refused or writes.               *)
LEMMA Loops ==
  /\ Head(<<"flush">>) = "flush" /\ Tail(<<"flush">>) = << >>
  /\ Head(<<"close">>) = "close"
  /\ Head(<<"okay">>) = "okay" /\ Tail(<<"okay">>) = << >>
  /\ Head(<<"drop", "okay">>) = "drop" /\ Tail(<<"drop", "okay">>) = <<"okay">>
  /\ <<"drop", "okay">> \o << >> = <<"drop", "okay">>
  /\ \A c : <<c>> # << >>
  /\ <<"drop", "okay">> # << >>
  /\ <<"okay">> # << >>
OBVIOUS

(* In the loops of a number or a string nothing was refused, unless i asks  *)
(* for a size, and it is not w that runs.                                   *)
LEMMA NotWriting ==
  ASSUME InputInv, todo # << >>, Head(todo) \notin {"flush", "drop", "okay", "close"}
  PROVE  cmd # "w" /\ (refused => cmd = "i")
BY Loops DEF InputInv

LEMMA TailIsList ==
  ASSUME NEW c, NEW loops \in LoopLists(c), loops # << >>
  PROVE  /\ Tail(loops) \in LoopLists(c)
         /\ Head(loops) = "multiplier" => Tail(loops) # << >>
<1>1. loops \in Seq(AllNames(c)) /\ loops[Len(loops)] # "multiplier"
  BY DEF LoopLists
<1>2. /\ Tail(loops) \in Seq(AllNames(c))
      /\ Head(loops) = loops[1]
      /\ Len(Tail(loops)) = Len(loops) - 1
      /\ \A i \in 1 .. Len(loops) - 1 : Tail(loops)[i] = loops[i + 1]
      /\ Len(loops) \in Nat \ {0}
  BY <1>1, HeadTailProperties, EmptySeq
<1>3. Tail(loops) # << >> => Tail(loops)[Len(loops) - 1] = loops[Len(loops)]
  BY <1>2, EmptySeq
<1>4. Tail(loops) = << >> <=> Len(loops) = 1
  <2> DEFINE t == Tail(loops)
  <2>1. t \in Seq(AllNames(c)) /\ Len(t) = Len(loops) - 1
    BY <1>2
  <2> HIDE DEF t
  <2>2. t = << >> => Len(t) = 0
    BY EmptySeq
  <2>3. t # << >> => Len(t) # 0
    BY <2>1, EmptySeq
  <2>4. t = << >> <=> Len(loops) = 1
    BY <1>2, <2>1, <2>2, <2>3
  <2> QED BY <2>4 DEF t
<1>5. Tail(loops) # << >> => Tail(loops)[Len(Tail(loops))] # "multiplier"
  BY <1>1, <1>2, <1>3
<1> QED BY <1>1, <1>2, <1>4, <1>5 DEF LoopLists

LEMMA NamesAreLists ==
  ASSUME NEW c
  PROVE  /\ << >> \in LoopLists(c)
         /\ \A a \in Names : <<a>> \in LoopLists(c)
         /\ \A a, b \in Names : <<a, b>> \in LoopLists(c)
<1>1. Names \subseteq AllNames(c) /\ "multiplier" \notin Names
  BY DEF Names, AllNames
<1> QED BY <1>1 DEF LoopLists

(* What a loop puts in its place.                                           *)
LEMMA InsteadIsList ==
  ASSUME NEW c, NEW loops \in LoopLists(c),
         NEW first \in Seq(Names), first # << >>
  PROVE  first \o loops \in LoopLists(c)
<1> DEFINE all == first \o loops
<1>1. Names \subseteq AllNames(c) /\ "multiplier" \notin Names
  BY DEF Names, AllNames
<1>2. /\ first \in Seq(AllNames(c)) /\ loops \in Seq(AllNames(c))
      /\ Len(first) \in Nat \ {0} /\ Len(loops) \in Nat
      /\ \A i \in 1 .. Len(first) : first[i] \in Names
  BY <1>1, EmptySeq DEF LoopLists
<1>3. /\ all \in Seq(AllNames(c)) /\ Len(all) = Len(first) + Len(loops)
      /\ \A i \in 1 .. Len(all) :
           all[i] = IF i <= Len(first) THEN first[i] ELSE loops[i - Len(first)]
  BY <1>2, ConcatProperties
<1> HIDE DEF all
<1>4. CASE loops = << >>
  <2>1. all[Len(all)] = first[Len(first)]
    BY <1>2, <1>3, <1>4, EmptySeq
  <2>2. all[Len(all)] # "multiplier"
    BY <1>1, <1>2, <2>1
  <2> QED BY <1>3, <2>2 DEF LoopLists, all
<1>5. CASE loops # << >>
  <2>1. Len(loops) > 0
    BY <1>2, <1>5, EmptySeq
  <2>2. all[Len(all)] = loops[Len(loops)]
    BY <1>2, <1>3, <2>1
  <2> QED BY <1>3, <1>5, <2>2 DEF LoopLists, all
<1> QED BY <1>4, <1>5

-----------------------------------------------------------------------------
(* Every step keeps the invariant.                                          *)

LEMMA InputInit == Init => InputInv
BY NamesAreLists DEF Init, InputInv

LEMMA ArgumentsAreLists ==
  ASSUME NEW c
  PROVE  Arguments(c) \in LoopLists(c)
<1> DEFINE N == AllNames(c)
<1>1. Names \cup {"multiplier"} \subseteq N /\ (c = "i" => "size" \in N)
  BY DEF AllNames
<1>2. /\ {"number", "block", "multiplier", "length", "string", "drop", "okay"} \subseteq N
      /\ c = "i" => "size" \in N
  BY <1>1 DEF Names
<1> HIDE DEF N
<1>3. /\ <<"number", "block", "number", "multiplier", "length", "string">> \in Seq(N)
      /\ <<"number", "block", "number", "multiplier", "length", "string",
           "string">> \in Seq(N)
      /\ c = "i" => <<"drop", "okay", "drop", "size">> \in Seq(N)
  BY <1>2
<1>4. /\ <<"number", "block">> \in LoopLists(c) /\ <<"number", "number">> \in LoopLists(c)
      /\ <<"number">> \in LoopLists(c) /\ <<"drop", "okay">> \in LoopLists(c)
      /\ << >> \in LoopLists(c)
  BY NamesAreLists DEF Names
<1>5. /\ <<"number", "block", "number", "multiplier", "length", "string">> \in LoopLists(c)
      /\ <<"number", "block", "number", "multiplier", "length", "string",
           "string">> \in LoopLists(c)
      /\ c = "i" => <<"drop", "okay", "drop", "size">> \in LoopLists(c)
  BY <1>3 DEF LoopLists, N
<1> QED BY <1>4, <1>5 DEF Arguments

LEMMA FlushKeeps ==
  ASSUME InputInv, Flush
  PROVE  InputInv'
<1>1. PICK c \in Coming :
        CASE c = Newline -> Peek(c) /\ Done
          [] c = Eof     -> Getch(c) /\ Done
          [] OTHER       -> Getch(c) /\ Continue
  BY DEF Flush
<1>2. todo # << >> /\ Head(todo) = "flush"
  BY DEF Flush, Loop
<1>3. CASE c = Newline
  <2>1. unget' = <<Newline>> /\ todo' = Tail(todo) /\ cmd' = cmd /\ refused' = refused
    BY <1>1, <1>3, Reading DEF Done, Newline, Eof
  <2> QED
    BY <2>1, <1>2, TailIsList, Loops DEF InputInv, LineIsOver, Chars
<1>4. CASE c = Eof
  <2>1. /\ unget' = << >> /\ ended' /\ todo' = Tail(todo) /\ cmd' = cmd
        /\ refused' = refused
    BY <1>1, <1>4, Reading DEF Done, Newline, Eof, Seen
  <2> QED
    BY <2>1, <1>2, TailIsList, Loops DEF InputInv, LineIsOver
<1>5. CASE c \notin {Newline, Eof}
  <2>1. unget' = << >> /\ todo' = todo /\ cmd' = cmd /\ refused' = refused
    BY <1>1, <1>5, Reading DEF Continue
  <2> QED
    BY <2>1, <1>2, Loops DEF InputInv
<1> QED BY <1>3, <1>4, <1>5

LEMMA DropKeeps ==
  ASSUME InputInv, Drop
  PROVE  InputInv'
<1>1. PICK c \in Coming :
        /\ Getch(c)
        /\ IF c \in {Newline, Eof} THEN Done ELSE Continue
  BY DEF Drop
<1>2. todo # << >> /\ Head(todo) = "drop"
  BY DEF Drop, Loop
<1>3. unget' = << >> /\ cmd' = cmd /\ refused' = refused
  BY <1>1, Reading DEF Done, Continue
<1>4. CASE c \in {Newline, Eof}
  <2>1. todo' = Tail(todo) /\ (newline' \/ ended')
    BY <1>1, <1>4 DEF Done, Getch, Seen
  <2> QED
    BY <2>1, <1>2, <1>3, TailIsList, Loops DEF InputInv
<1>5. CASE c \notin {Newline, Eof}
  <2>1. todo' = todo
    BY <1>1, <1>5 DEF Continue
  <2> QED
    BY <2>1, <1>2, <1>3, Loops DEF InputInv
<1> QED BY <1>4, <1>5

LEMMA OkayKeeps ==
  ASSUME InputInv, Okay
  PROVE  InputInv'
<1>1. PICK c \in Coming :
       \/ c = " " /\ Getch(c) /\ Continue
       \/ c = Newline /\ Peek(c) /\ GiveUp
       \/ c = Eof /\ Getch(c) /\ GiveUp
       \/ /\ c \in {"y", "n"}
          /\ unget' = Popped /\ answered' = TRUE
          /\ UNCHANGED <<ended, newline>>
          /\ IF c = "y" THEN Done ELSE GiveUp
       \/ /\ c \notin {" ", Newline, Eof, "y", "n"}
          /\ Getch(c)
          /\ Instead(<<"drop", "okay">>)
  BY DEF Okay
<1>2. todo # << >> /\ Head(todo) = "okay"
  BY DEF Okay, Loop
<1>3. /\ cmd = "w" => todo = <<"okay">>
      /\ refused => cmd = "i"
  BY <1>2, Loops DEF InputInv
<1>4. Tail(todo) \in LoopLists(cmd) /\ <<"drop", "okay">> \o Tail(todo) \in LoopLists(cmd)
  <2>1. Tail(todo) \in LoopLists(cmd)
    BY <1>2, TailIsList DEF InputInv
  <2>2. <<"drop", "okay">> \in Seq(Names)
    BY DEF Names
  <2> QED BY <2>1, <2>2, InsteadIsList, Loops
<1>5. CASE c = " " /\ Getch(c) /\ Continue
  <2>1. /\ unget' = << >> /\ cmd' = cmd /\ refused' = refused /\ todo' = todo
        /\ newline => newline'
    BY <1>5, Reading DEF Continue, Seen
  <2>2. Coming = {Eof} => c # " "
    BY <1>5 DEF Eof
  <2>3. unget = << >> /\ ended => FALSE
    BY <2>2, <1>5, ComingIsChar DEF Eof
  <2> QED BY <2>1, <2>3, <1>3 DEF InputInv
<1>6. CASE c = Newline /\ Peek(c) /\ GiveUp
  <2>1. unget' = <<Newline>> /\ cmd' = cmd /\ refused' = refused /\ todo' = << >>
    BY <1>6, Reading DEF GiveUp
  <2> QED BY <2>1, <1>3, NamesAreLists DEF InputInv, Chars
<1>7. CASE c = Eof /\ Getch(c) /\ GiveUp
  <2>1. unget' = << >> /\ cmd' = cmd /\ refused' = refused /\ todo' = << >>
    BY <1>7, Reading DEF GiveUp
  <2> QED BY <2>1, <1>3, NamesAreLists DEF InputInv
<1>8. CASE /\ c \in {"y", "n"}
           /\ unget' = Popped
           /\ IF c = "y" THEN Done ELSE GiveUp
  <2>1. unget' = << >> /\ cmd' = cmd /\ refused' = refused
    BY <1>8, ComingIsChar DEF Done, GiveUp
  <2>2. todo' \in {Tail(todo), << >>}
    BY <1>8 DEF Done, GiveUp
  <2> QED BY <2>1, <2>2, <1>3, <1>4, Loops, NamesAreLists DEF InputInv
<1>9. CASE Getch(c) /\ Instead(<<"drop", "okay">>)
  <2>1. /\ unget' = << >> /\ cmd' = cmd /\ refused' = refused
        /\ todo' = <<"drop", "okay">> \o Tail(todo)
    BY <1>9, Reading DEF Instead
  <2> QED BY <2>1, <1>3, <1>4, Loops DEF InputInv
<1> QED BY <1>1, <1>5, <1>6, <1>7, <1>8, <1>9
(* A step of any other loop, which writes nothing and follows no refusal:   *)
(* it takes or keeps what it reads, and stays, ends, goes on otherwise or   *)
(* refuses.                                                                 *)
OtherLoop ==
  /\ todo # << >> /\ Head(todo) \notin {"flush", "drop", "okay", "close"}
  /\ unget' = << >> \/ \E c \in Chars : unget' = <<c>>
  /\ cmd' = cmd
  /\ \/ todo' = <<"flush">>
     \/ todo' \in LoopLists(cmd) /\ (refused' => refused \/ cmd = "i")

LEMMA OtherLoopKeeps ==
  ASSUME InputInv, OtherLoop
  PROVE  InputInv'
<1>1. cmd # "w" /\ (refused => cmd = "i")
  BY NotWriting DEF OtherLoop
<1>2. <<"flush">> \in LoopLists(cmd)
  BY NamesAreLists DEF Names
<1> QED BY <1>1, <1>2 DEF OtherLoop, InputInv

LEMMA LoopIsOther ==
  ASSUME NEW name \in {"number", "size", "zero", "digits", "block", "multiplier",
                       "length", "string", "word", "quoted"},
         Loop(name)
  PROVE  todo # << >> /\ Head(todo) \notin {"flush", "drop", "okay", "close"}
BY DEF Loop

LEMMA ReadInLoop ==
  ASSUME InputInv, NEW c \in Coming, Getch(c) \/ Peek(c)
  PROVE  unget' = << >> \/ \E d \in Chars : unget' = <<d>>
BY Reading, ComingIsChar

(* The four ways a loop goes on.                                            *)
LEMMA GoesOn ==
  ASSUME InputInv, todo # << >>, Head(todo) \notin {"flush", "drop", "okay", "close"},
         unget' = << >> \/ \E c \in Chars : unget' = <<c>>,
         \/ Done \/ Continue \/ BadInput
         \/ \E name \in Names : Instead(<<name>>)
  PROVE  OtherLoop
<1>1. todo \in LoopLists(cmd) /\ Tail(todo) \in LoopLists(cmd)
  BY TailIsList DEF InputInv
<1>2. ASSUME NEW name \in Names, Instead(<<name>>)
      PROVE  todo' \in LoopLists(cmd) /\ cmd' = cmd /\ refused' = refused
  <2>1. <<name>> \in Seq(Names) /\ <<name>> # << >>
    OBVIOUS
  <2>2. <<name>> \o Tail(todo) \in LoopLists(cmd)
    BY <1>1, <2>1, InsteadIsList
  <2> QED BY <1>2, <2>2 DEF Instead
<1> QED BY <1>1, <1>2 DEF OtherLoop, Done, Continue, BadInput

LEMMA NumberKeeps ==
  ASSUME InputInv, Number
  PROVE  InputInv'
<1>1. todo # << >> /\ Head(todo) \notin {"flush", "drop", "okay", "close"}
  BY LoopIsOther DEF Number
<1>2. PICK c \in Coming :
        /\ Getch(c) \/ Peek(c)
        /\ \/ Done \/ Continue \/ BadInput
           \/ StartNumber(c)
           \/ /\ Loop("size") /\ todo' = Tail(todo) /\ cmd' = cmd
  BY DEF Number
<1>3. unget' = << >> \/ \E d \in Chars : unget' = <<d>>
  BY <1>2, ReadInLoop
<1>4. CASE Done \/ Continue \/ BadInput
  BY <1>1, <1>3, <1>4, GoesOn, OtherLoopKeeps
<1>5. CASE StartNumber(c)
  <2>1. \E name \in Names : Instead(<<name>>)
    BY <1>5 DEF StartNumber, Names
  <2> QED BY <1>1, <1>3, <2>1, GoesOn, OtherLoopKeeps
<1>6. CASE Loop("size") /\ todo' = Tail(todo) /\ cmd' = cmd
  <2>1. cmd = "i"
    <3>1. Head(todo) \in AllNames(cmd)
      BY <1>1 DEF InputInv, LoopLists
    <3> QED BY <1>6, <3>1 DEF Loop, AllNames, Names
  <2>2. Tail(todo) \in LoopLists(cmd)
    BY <1>1, TailIsList DEF InputInv
  <2>3. OtherLoop
    BY <1>1, <1>3, <1>6, <2>1, <2>2 DEF OtherLoop
  <2> QED BY <2>3, OtherLoopKeeps
<1> QED BY <1>2, <1>4, <1>5, <1>6
LEMMA ZeroKeeps ==
  ASSUME InputInv, Zero \/ String
  PROVE  InputInv'
<1>1. todo # << >> /\ Head(todo) \notin {"flush", "drop", "okay", "close"}
  BY LoopIsOther DEF Zero, String
<1>2. PICK c \in Coming :
        /\ Getch(c) \/ Peek(c)
        /\ \/ Continue \/ BadInput
           \/ \E name \in Names : Instead(<<name>>)
  BY DEF Zero, String, Names
<1>3. unget' = << >> \/ \E d \in Chars : unget' = <<d>>
  BY <1>2, ReadInLoop
<1> QED BY <1>1, <1>2, <1>3, GoesOn, OtherLoopKeeps

LEMMA WordKeeps ==
  ASSUME InputInv, Word \/ DigitsOf \/ Block \/ Length
  PROVE  InputInv'
<1>1. todo # << >> /\ Head(todo) \notin {"flush", "drop", "okay", "close"}
  BY LoopIsOther DEF Word, DigitsOf, Block, Length
<1>2. PICK c \in Coming :
        /\ Getch(c) \/ Peek(c)
        /\ Done \/ Continue \/ BadInput
  BY DEF Word, DigitsOf, Block, Length
<1>3. unget' = << >> \/ \E d \in Chars : unget' = <<d>>
  BY <1>2, ReadInLoop
<1> QED BY <1>1, <1>2, <1>3, GoesOn, OtherLoopKeeps

LEMMA MultiplierKeeps ==
  ASSUME InputInv, Multiplier
  PROVE  InputInv'
<1>1. todo # << >> /\ Head(todo) \notin {"flush", "drop", "okay", "close"}
  BY LoopIsOther DEF Multiplier
<1>2. PICK c \in Coming :
        /\ Getch(c) \/ Peek(c)
        /\ \/ Done
           \/ todo' = Tail(Tail(todo)) /\ cmd' = cmd /\ refused' = refused
  BY DEF Multiplier
<1>3. unget' = << >> \/ \E d \in Chars : unget' = <<d>>
  BY <1>2, ReadInLoop
<1>4. CASE Done
  BY <1>1, <1>3, <1>4, GoesOn, OtherLoopKeeps
<1>5. CASE todo' = Tail(Tail(todo)) /\ cmd' = cmd /\ refused' = refused
  <2>1. Tail(todo) \in LoopLists(cmd) /\ Tail(todo) # << >>
    BY <1>1, TailIsList DEF InputInv, Multiplier, Loop
  <2>2. Tail(Tail(todo)) \in LoopLists(cmd)
    BY <2>1, TailIsList
  <2> QED BY <1>1, <1>3, <1>5, <2>2, OtherLoopKeeps DEF OtherLoop
<1> QED BY <1>2, <1>4, <1>5

(* Between commands.                                                        *)
LEMMA BlanksKeep ==
  ASSUME InputInv, Blanks
  PROVE  InputInv'
<1>1. PICK c \in Coming \cap {" ", Newline} :
        /\ Getch(c)
        /\ refused' = (refused /\ c # Newline)
  BY DEF Blanks
<1>2. unget' = << >> /\ todo' = todo /\ todo = << >> /\ cmd' = cmd
  BY <1>1, Reading DEF Blanks, place
<1>3. refused' => refused /\ Coming # {Newline} /\ Coming # {Eof}
  BY <1>1 DEF Newline, Eof
<1>4. refused' => ~ LineIsOver
  BY <1>3, ComingIsChar DEF LineIsOver
<1> QED BY <1>2, <1>3, <1>4, Loops DEF InputInv

LEMMA CommandKeeps ==
  ASSUME InputInv, Command
  PROVE  InputInv'
<1>1. PICK c \in Coming :
       /\ unget' = Popped /\ cmd' = c
       /\ \/ todo' = Arguments(c) /\ refused' = FALSE
          \/ c = "i" /\ todo' = <<"drop", "size">>
          \/ c # "q" /\ todo' = <<"flush">> /\ refused' = TRUE
          \/ /\ c \in {"q", "x"} /\ refused' = FALSE
             /\ todo' \in {<<"drop", "close">>, <<"flush", "close">>, <<"flush">>, << >>}
  BY DEF Command
<1>2. unget' = << >>
  BY <1>1, ComingIsChar
<1>3. todo' \in LoopLists(c)
  <2>1. /\ <<"flush">> \in LoopLists(c) /\ <<"drop", "close">> \in LoopLists(c)
        /\ <<"flush", "close">> \in LoopLists(c) /\ << >> \in LoopLists(c)
    BY NamesAreLists DEF Names
  <2>2. <<"drop", "size">> \in LoopLists("i")
    <3>1. "drop" \in AllNames("i") /\ "size" \in AllNames("i")
      BY DEF AllNames, Names
    <3> QED BY <3>1 DEF LoopLists
  <2> QED BY <1>1, <2>1, <2>2, ArgumentsAreLists
<1>4. Arguments("w") = <<"drop", "okay">>
  BY DEF Arguments
<1> QED BY <1>1, <1>2, <1>3, <1>4 DEF InputInv

LEMMA NoCommandKeeps ==
  ASSUME InputInv, NoCommand \/ Close
  PROVE  InputInv'
<1>1. cmd' = cmd /\ refused' = refused
  BY DEF NoCommand, Close
<1>2. CASE NoCommand
  <2>1. /\ unget' = << >> /\ ended' = TRUE /\ todo' \in {<< >>, <<"close">>}
        /\ todo = << >>
    BY <1>2, Reading DEF NoCommand, Seen
  <2>2. {<< >>, <<"close">>} \subseteq LoopLists(cmd)
    BY NamesAreLists DEF Names
  <2> QED BY <1>1, <2>1, <2>2 DEF InputInv, LineIsOver
<1>3. CASE Close
  <2>1. /\ unget' = unget /\ ended' = ended /\ todo' = << >>
        /\ Head(todo) = "close"
    BY <1>3 DEF Close, Loop
  <2> QED BY <1>1, <2>1, Loops, NamesAreLists DEF InputInv, LineIsOver
<1> QED BY <1>2, <1>3

LEMMA InputNext ==
  ASSUME InputInv, [Next]_vars
  PROVE  InputInv'
<1>1. CASE UNCHANGED vars
  BY <1>1 DEF vars, InputInv, LineIsOver
<1> QED
  BY <1>1, FlushKeeps, DropKeeps, OkayKeeps, NumberKeeps, ZeroKeeps, WordKeeps,
     MultiplierKeeps, BlanksKeep, CommandKeeps, NoCommandKeeps DEF Next

LEMMA InputAlways == Spec => []InputInv
<1>1. InputInv /\ [Next]_vars => InputInv'
  BY InputNext
<1> QED BY <1>1, InputInit, PTL DEF Spec

-----------------------------------------------------------------------------
(* "In practice there is never more than one character in the unget_buf":   *)
(* io.c's loops put a character back only where the one before is taken.    *)
THEOREM OnePushedBack == Spec => []AtMostOnePushedBack
<1>1. InputInv => AtMostOnePushedBack
  <2>1. ASSUME NEW c \in Chars, unget = <<c>> PROVE Len(unget) <= 1
    BY <2>1
  <2>2. CASE unget = << >>
    BY <2>2 DEF AtMostOnePushedBack
  <2> QED BY <2>1, <2>2 DEF InputInv, AtMostOnePushedBack
<1> QED BY <1>1, InputAlways, PTL

LEMMA OnlyOkayWrites ==
  ASSUME InputInv, Next, did' = "w", did # "w"
  PROVE  newline /\ answered' /\ Loop("okay")
<1>1. \/ todo # << >> /\ Head(todo) # "close" /\ Done
      \/ todo # << >> /\ Head(todo) = "size" /\ did' = cmd
  BY DEF Next, Blanks, Command, NoCommand, Close, Flush, Drop, Okay, Number,
     StartNumber, Zero, DigitsOf, Block, Multiplier, Length, String, Word, Done,
     Continue, Instead, BadInput, GiveUp, Loop
<1>2. todo # << >> /\ Head(todo) # "close" /\ Done /\ cmd = "w"
  BY <1>1, NotWriting DEF Done
<1>3. Tail(todo) = << >> /\ ~ refused
  BY <1>2 DEF Done
<1>4. todo = <<"okay">> /\ (newline \/ (unget = << >> /\ ended))
  BY <1>2, <1>3, Loops DEF InputInv
<1>5. Head(todo) = "okay"
  BY <1>4, Loops
<1>6. Okay
  BY <1>2, <1>5 DEF Next, Blanks, Command, NoCommand, Close, Flush, Drop, Number,
     Zero, DigitsOf, Block, Multiplier, Length, String, Word, Loop
<1>7. PICK c \in Coming : c = "y" /\ answered' = TRUE
  BY <1>3, <1>6 DEF Okay, Done, Continue, GiveUp, Instead
<1>8. ~ (unget = << >> /\ ended)
  BY <1>7, ComingIsChar DEF Eof
<1> QED BY <1>4, <1>5, <1>7, <1>8 DEF Loop

(* A map is written only behind a y, in a line of its own, whatever was     *)
(* typed ahead and wherever the input ends (get_okay).                      *)
THEOREM WritesAreConfirmed == Spec => WriteIsConfirmed
<1> DEFINE Confirmed == did' = "w" /\ did # "w" => newline /\ answered' /\ Loop("okay")
<1>1. InputInv /\ [Next]_vars => [Confirmed]_vars
  BY OnlyOkayWrites
<1>2. Spec => [][Confirmed]_vars
  <2> HIDE DEF Confirmed
  <2> QED BY <1>1, InputAlways, PTL DEF Spec
<1> QED BY <1>2 DEF WriteIsConfirmed

(* bad_input leaves nothing of its line that could be read as a command.    *)
THEOREM RefusedLinesAreDropped == Spec => RefusedLineIsDropped
<1> DEFINE Dropped == Command => ~ refused \/ cmd = "i"
<1>1. InputInv => Dropped
  <2> SUFFICES ASSUME InputInv, Command, refused, cmd # "i"
               PROVE  FALSE
    OBVIOUS
  <2>1. todo = << >> /\ \E c \in Coming : c \notin {Newline, Eof}
    BY DEF Command
  <2>2. LineIsOver
    BY <2>1, Loops DEF InputInv
  <2> QED BY <2>1, <2>2, ComingIsChar DEF LineIsOver
<1>2. Spec => [][Dropped]_vars
  <2> HIDE DEF Dropped
  <2> QED BY <1>1, InputAlways, PTL DEF Spec
<1> QED BY <1>2 DEF RefusedLineIsDropped

-----------------------------------------------------------------------------
(* Numbers, digit by digit.                                                 *)

(* A set of numbers that has 0, and with each number the next, has them all. *)
LEMMA Induction ==
  ASSUME NEW N \in Nat, NEW S, 0 \in S,
         \A k \in 0 .. N - 1 : k \in S => k + 1 \in S
  PROVE  \A k \in 0 .. N : k \in S
<1> DEFINE Bad == {k \in 0 .. N : k \notin S}
           R   == {ss \in Nat \X Nat : ss[1] < ss[2]}
<1> SUFFICES ASSUME Bad # {} PROVE FALSE
  OBVIOUS
<1>1. IsWellFoundedOn(R, Nat)
  BY NatLessThanWellFounded DEF OpToRel
<1>2. Bad \in SUBSET Nat
  OBVIOUS
<1>3. PICK k \in Bad : \A j \in Bad : ~ (<<j, k>> \in R)
  <2> HIDE DEF R, Bad
  <2> QED BY <1>1, <1>2, WFMin
<1>4. k # 0 /\ k - 1 \in 0 .. N - 1 /\ <<k - 1, k>> \in R
  BY <1>3
<1>5. k - 1 \in S
  BY <1>3, <1>4
<1>6. (k - 1) + 1 = k
  BY <1>3
<1> QED BY <1>3, <1>4, <1>5, <1>6

(* f gives every set of places the number that the digits there stand for.  *)
Reads(f, n, d, b) ==
  \A s \in SUBSET (1 .. n) :
    f[s] = IF s = {} THEN 0 ELSE f[s \ {Max(s)}] * b + d[Max(s)]

LEMMA LargestPlace ==
  ASSUME NEW k \in Nat, NEW s \in SUBSET (1 .. k + 1), k + 1 \in s
  PROVE  Max(s) = k + 1 /\ s \ {Max(s)} \in SUBSET (1 .. k)
<1>1. \A y \in s : k + 1 >= y
  OBVIOUS
<1>2. \A x \in s : (\A y \in s : x >= y) => x = k + 1
  OBVIOUS
<1>3. Max(s) = k + 1
  BY <1>1, <1>2 DEF Max
<1> QED BY <1>3

LEMMA LargestIsPlace ==
  ASSUME NEW n \in Nat, NEW p \in SUBSET (1 .. n), p # {}
  PROVE  Max(p) \in p
<1> DEFINE G == {k \in 0 .. n : \A s \in SUBSET (1 .. k) : s # {} => Max(s) \in s}
<1>1. 0 \in G
  <2>1. 1 .. 0 = {} /\ 0 \in 0 .. n
    OBVIOUS
  <2> QED BY <2>1
<1>2. ASSUME NEW k \in 0 .. n - 1, k \in G PROVE k + 1 \in G
  <2>1. ASSUME NEW s \in SUBSET (1 .. k + 1), s # {} PROVE Max(s) \in s
    <3>1. CASE k + 1 \in s
      <4>1. k \in Nat
        OBVIOUS
      <4> QED BY <3>1, <4>1, LargestPlace
    <3>2. CASE k + 1 \notin s
      <4>1. s \in SUBSET (1 .. k)
        BY <3>2
      <4> QED BY <1>2, <2>1, <4>1
    <3> QED BY <3>1, <3>2
  <2> QED BY <2>1
<1>3. n \in G
  <2> HIDE DEF G
  <2>1. \A k \in 0 .. n - 1 : k \in G => k + 1 \in G
    BY <1>2
  <2>2. \A k \in 0 .. n : k \in G
    BY <1>1, <2>1, Induction
  <2>3. n \in 0 .. n
    OBVIOUS
  <2> QED BY <2>2, <2>3
<1> QED BY <1>3

(* There is one.                                                            *)
LEMMA ReadsExists ==
  ASSUME NEW n \in Nat, NEW d \in [1 .. n -> Nat], NEW b \in Nat
  PROVE  \E f \in [SUBSET (1 .. n) -> Nat] : Reads(f, n, d, b)
<1> DEFINE S(k) == SUBSET (1 .. k)
           Obeys(f, s) == f[s] = IF s = {} THEN 0 ELSE f[s \ {Max(s)}] * b + d[Max(s)]
           Good(k) == \E f \in [S(n) -> Nat] : \A s \in S(k) : Obeys(f, s)
           G == {k \in 0 .. n : Good(k)}
<1>1. 0 \in G
  <2> DEFINE f == [s \in S(n) |-> 0]
  <2>1. f \in [S(n) -> Nat]
    OBVIOUS
  <2>2. \A s \in S(0) : s = {} /\ s \in S(n)
    OBVIOUS
  <2>3. \A s \in S(0) : Obeys(f, s)
    BY <2>2
  <2> HIDE DEF f, S, Obeys
  <2>4. 0 \in 0 .. n
    OBVIOUS
  <2> QED BY <2>1, <2>3, <2>4
<1>2. ASSUME NEW k \in 0 .. n - 1, k \in G PROVE k + 1 \in G
  <2>1. PICK f \in [S(n) -> Nat] : \A s \in S(k) : Obeys(f, s)
    BY <1>2
  <2> DEFINE g == [s \in S(n) |->
                     IF k + 1 \in s /\ s \in S(k + 1)
                     THEN f[s \ {k + 1}] * b + d[k + 1] ELSE f[s]]
  <2>2. g \in [S(n) -> Nat]
    <3>1. ASSUME NEW s \in S(n)
          PROVE  f[s] \in Nat /\ f[s \ {k + 1}] * b + d[k + 1] \in Nat
      <4>1. s \ {k + 1} \in S(n) /\ k + 1 \in 1 .. n
        OBVIOUS
      <4>2. f[s] \in Nat /\ f[s \ {k + 1}] \in Nat /\ d[k + 1] \in Nat
        BY <2>1, <4>1
      <4>3. \A a, e \in Nat : a * b + e \in Nat
        OBVIOUS
      <4> QED BY <4>2, <4>3
    <3> QED BY <3>1
  <2>3. ASSUME NEW s \in S(k + 1) PROVE Obeys(g, s)
    <3>0. s \in S(n)
      OBVIOUS
    <3>1. CASE k + 1 \in s
      <4>0. k \in Nat /\ s \in SUBSET (1 .. k + 1)
        OBVIOUS
      <4>1. Max(s) = k + 1 /\ s \ {k + 1} \in S(k) /\ s \ {k + 1} \in S(n)
        BY <3>0, <3>1, <4>0, LargestPlace
      <4>2. g[s] = f[s \ {k + 1}] * b + d[k + 1]
        BY <3>0, <3>1
      <4>3. g[s \ {k + 1}] = f[s \ {k + 1}]
        BY <4>1
      <4>4. s # {}
        BY <3>1
      <4> QED BY <4>1, <4>2, <4>3, <4>4
    <3>2. CASE k + 1 \notin s
      <4>1. s \in S(k)
        BY <3>2
      <4>2. Obeys(f, s)
        BY <2>1, <4>1
      <4>3. s \ {Max(s)} \in S(n) /\ k + 1 \notin s \ {Max(s)}
        BY <3>0, <3>2
      <4>4. g[s] = f[s] /\ g[s \ {Max(s)}] = f[s \ {Max(s)}]
        BY <3>0, <3>2, <4>3
      <4> QED BY <4>2, <4>4
    <3> QED BY <3>1, <3>2
  <2> HIDE DEF g, Obeys, S
  <2>4. Good(k + 1)
    BY <2>2, <2>3
  <2>5. k + 1 \in 0 .. n
    OBVIOUS
  <2> QED BY <2>4, <2>5
<1>3. n \in G
  <2> HIDE DEF G
  <2>1. \A k \in 0 .. n - 1 : k \in G => k + 1 \in G
    BY <1>2
  <2>2. \A k \in 0 .. n : k \in G
    BY <1>1, <2>1, Induction
  <2>3. n \in 0 .. n
    OBVIOUS
  <2> QED BY <2>2, <2>3
<1> QED BY <1>3 DEF Reads

Begins(n, d, e) == \A i \in 1 .. n : d[i] \in Nat /\ e[i] = d[i]

(* What the first k digits stand for depends on no other.                   *)
LEMMA ReadsFrom ==
  ASSUME NEW n \in Nat, NEW m \in Nat, n <= m, NEW b \in Nat,
         NEW d, NEW e, Begins(n, d, e),
         NEW f, Reads(f, n, d, b), NEW g, Reads(g, m, e, b)
  PROVE  f[1 .. n] \in Nat /\ g[1 .. n] = f[1 .. n]
<1> DEFINE G == {k \in 0 .. n : f[1 .. k] \in Nat /\ g[1 .. k] = f[1 .. k]}
<1>1. 0 \in G
  <2>1. 1 .. 0 = {} /\ {} \in SUBSET (1 .. n) /\ {} \in SUBSET (1 .. m)
    OBVIOUS
  <2>2. f[{}] = 0 /\ g[{}] = 0
    BY <2>1 DEF Reads
  <2> QED BY <2>1, <2>2
<1>2. ASSUME NEW k \in 0 .. n - 1, k \in G PROVE k + 1 \in G
  <2> DEFINE s == 1 .. k + 1
  <2>1. /\ s \in SUBSET (1 .. n) /\ s \in SUBSET (1 .. m) /\ k + 1 \in s /\ k \in Nat
        /\ k + 1 \in 1 .. n
    OBVIOUS
  <2>2. Max(s) = k + 1
    BY <2>1, LargestPlace
  <2>3. s \ {Max(s)} = 1 .. k
    BY <2>2
  <2>4. s # {}
    BY <2>1
  <2>5. f[s] = f[1 .. k] * b + d[k + 1] /\ g[s] = g[1 .. k] * b + e[k + 1]
    <3> HIDE DEF s
    <3> QED BY <2>1, <2>2, <2>3, <2>4 DEF Reads
  <2>6. d[k + 1] \in Nat /\ e[k + 1] = d[k + 1] /\ f[1 .. k] \in Nat /\ g[1 .. k] = f[1 .. k]
    BY <1>2, <2>1 DEF Begins
  <2>7. f[1 .. k] * b + d[k + 1] \in Nat
    <3>1. \A x, y \in Nat : x * b + y \in Nat
      OBVIOUS
    <3> QED BY <2>6, <3>1
  <2> QED BY <2>5, <2>6, <2>7
<1>3. n \in G
  <2> HIDE DEF G
  <2>1. \A k \in 0 .. n - 1 : k \in G => k + 1 \in G
    BY <1>2
  <2>2. \A k \in 0 .. n : k \in G
    BY <1>1, <2>1, Induction
  <2>3. n \in 0 .. n
    OBVIOUS
  <2> QED BY <2>2, <2>3
<1> QED BY <1>3

LEMMA DigitIsNat == \A c : DigitOf(c) \in Nat
BY ConsoleAssumption DEF DigitOf, BadDigit

(* The number that the digits of s are in base b.                           *)
Read(s, b) == FoldLeft(LAMBDA n, c : n * b + DigitOf(c), 0, s)

Places(s) == [i \in 1 .. Len(s) |-> DigitOf(s[i])]

LEMMA FoldReads ==
  ASSUME NEW s \in Seq(Chars), NEW b \in Nat
  PROVE  /\ Places(s) \in [1 .. Len(s) -> Nat]
         /\ \E f : Reads(f, Len(s), Places(s), b) /\ Read(s, b) = f[1 .. Len(s)]
<1> DEFINE n == Len(s)
           read == CHOOSE f : f = [p \in SUBSET (DOMAIN s) |->
                     IF p = {} THEN 0
                     ELSE LET x == Max(p)
                          IN  f[p \ {x}] * b + DigitOf(s[x])]
<1>1. Read(s, b) = read[DOMAIN s]
  BY DEF Read, FoldLeft, MapThenFoldSet
<1>2. n \in Nat /\ DOMAIN s = 1 .. n
  OBVIOUS
<1>3. Places(s) \in [1 .. n -> Nat]
  BY <1>2, DigitIsNat DEF Places
<1> HIDE DEF n
<1>4. PICK g \in [SUBSET (1 .. n) -> Nat] : Reads(g, n, Places(s), b)
  BY <1>2, <1>3, ReadsExists
<1>5. g = [p \in SUBSET (DOMAIN s) |->
             IF p = {} THEN 0
             ELSE LET x == Max(p)
                  IN  g[p \ {x}] * b + DigitOf(s[x])]
  <2>1. ASSUME NEW p \in SUBSET (1 .. n), p # {}
        PROVE  g[p] = g[p \ {Max(p)}] * b + DigitOf(s[Max(p)])
    <3>1. Max(p) \in 1 .. n
      BY <1>2, <2>1, LargestIsPlace
    <3> QED BY <1>4, <2>1, <3>1 DEF Reads, Places, n
  <2>2. g[{}] = 0
    BY <1>4 DEF Reads
  <2> QED BY <1>2, <1>4, <2>1, <2>2
<1>6. read = [p \in SUBSET (DOMAIN s) |->
                IF p = {} THEN 0
                ELSE LET x == Max(p)
                     IN  read[p \ {x}] * b + DigitOf(s[x])]
  BY <1>5, Zenon
<1> HIDE DEF read
<1>7. Reads(read, n, Places(s), b)
  <2>1. ASSUME NEW p \in SUBSET (1 .. n), p # {}
        PROVE  read[p] = read[p \ {Max(p)}] * b + Places(s)[Max(p)]
    <3>1. Max(p) \in 1 .. n
      BY <1>2, <2>1, LargestIsPlace
    <3>2. Places(s)[Max(p)] = DigitOf(s[Max(p)])
      BY <3>1 DEF Places, n
    <3> QED BY <1>2, <1>6, <2>1, <3>2
  <2>2. read[{}] = 0
    BY <1>2, <1>6
  <2> QED BY <2>1, <2>2 DEF Reads
<1> QED BY <1>1, <1>2, <1>3, <1>7 DEF n

(* A character more.                                                        *)
LEMMA ReadGrows ==
  ASSUME NEW s \in Seq(Chars), NEW b \in Nat, NEW c \in Chars
  PROVE  /\ Read(s, b) \in Nat
         /\ Read(Append(s, c), b) = Read(s, b) * b + DigitOf(c)
<1> DEFINE n == Len(s)
           m == n + 1
           a == Append(s, c)
           d == Places(s)
           e == Places(a)
<1>1. /\ n \in Nat /\ a \in Seq(Chars) /\ Len(a) = m
      /\ \A i \in 1 .. n : a[i] = s[i]
      /\ a[m] = c
  BY AppendProperties
<1>2. PICK f : Reads(f, n, d, b) /\ Read(s, b) = f[1 .. n]
  BY FoldReads
<1>3. PICK g : Reads(g, m, e, b) /\ Read(a, b) = g[1 .. m]
  <2> HIDE DEF a, n, m
  <2> QED BY <1>1, FoldReads
<1>4. d \in [1 .. n -> Nat] /\ e \in [1 .. m -> Nat]
  <2> HIDE DEF a
  <2> QED BY <1>1, FoldReads
<1>5. m \in Nat /\ n <= m /\ m \in 1 .. m /\ \A i \in 1 .. n : i \in 1 .. m
  BY <1>1
<1>6. (\A i \in 1 .. n : e[i] = d[i]) /\ e[m] = DigitOf(c)
  <2> HIDE DEF a, m
  <2> QED BY <1>1, <1>5 DEF Places
<1> HIDE DEF d, e, n
<1>7. f[1 .. n] \in Nat /\ g[1 .. n] = f[1 .. n]
  <2> HIDE DEF m, a
  <2>1. Reads(f, n, d, b)
    BY <1>2
  <2>2. Reads(g, m, e, b)
    BY <1>3
  <2>3. n \in Nat /\ m \in Nat /\ n <= m
    BY <1>1, <1>5
  <2>4. Begins(n, d, e)
    BY <1>4, <1>6 DEF Begins
  <2> QED BY <2>1, <2>2, <2>3, <2>4, ReadsFrom
<1>8. g[1 .. m] = g[1 .. n] * b + e[m]
  <2> DEFINE p == 1 .. n + 1
  <2>0. n \in Nat
    BY <1>1
  <2>1. p \in SUBSET (1 .. n + 1) /\ n + 1 \in p /\ p # {} /\ p \ {n + 1} = 1 .. n
    BY <2>0
  <2>2. Max(p) = n + 1
    BY <1>1, <2>1, LargestPlace
  <2> HIDE DEF p
  <2>3. g[p] = g[p \ {n + 1}] * b + e[n + 1]
    BY <1>3, <2>1, <2>2 DEF Reads
  <2> QED BY <2>1, <2>3 DEF p
<1> QED BY <1>2, <1>3, <1>6, <1>7, <1>8 DEF a

LEMMA NothingRead == ASSUME NEW b \in Nat PROVE Read(<< >>, b) = 0
<1>1. << >> \in Seq(Chars) /\ Len(<< >>) = 0
  OBVIOUS
<1>2. PICK f : Reads(f, 0, Places(<< >>), b) /\ Read(<< >>, b) = f[1 .. 0]
  BY <1>1, FoldReads
<1>3. 1 .. 0 = {} /\ {} \in SUBSET (1 .. 0)
  OBVIOUS
<1> QED BY <1>2, <1>3 DEF Reads

(* What stands behind the first characters.                                 *)
From(s, from) == SubSeq(s, from, Len(s))

LEMMA FromGrows ==
  ASSUME NEW s \in Seq(Chars), NEW from \in 1 .. Len(s) + 1, NEW b \in Nat,
         NEW c \in Chars
  PROVE  /\ Read(From(s, from), b) \in Nat
         /\ Read(From(Append(s, c), from), b) = Read(From(s, from), b) * b + DigitOf(c)
<1> DEFINE r == From(s, from)
<1>1. Len(s) \in Nat /\ from \in Nat
  OBVIOUS
<1>2. r \in Seq(Chars)
  BY <1>1 DEF From
<1>3. From(Append(s, c), from) = Append(r, c)
  BY <1>1 DEF From
<1> HIDE DEF r
<1>4. Read(r, b) \in Nat /\ Read(Append(r, c), b) = Read(r, b) * b + DigitOf(c)
  BY <1>2, ReadGrows
<1> QED BY <1>3, <1>4 DEF r

LEMMA TypedIsRead ==
  ASSUME NEW from, NEW b
  PROVE  Typed(from, b) = Read(From(typed, from), b)
BY DEF Typed, Read, From

-----------------------------------------------------------------------------
(* The number that is read.                                                 *)

Plain == (Names \cup {"multiplier", "size"}) \ {"zero", "digits"}

Hex == Len(typed) > 1 /\ typed[1] = "0" /\ typed[2] = "x"

FirstDigit == IF Hex THEN 3 ELSE 1

(* The value of what was typed, in the base it begins with, if an int holds *)
(* it.  A 0 of its own begins no number that is read further.               *)
NumberSoFar ==
  /\ typed \in Seq(Chars) /\ typed # << >>
  /\ Len(typed) = 1 => typed[1] # "0"
  /\ Hex \/ typed[1] # "0" =>
       /\ base = IF Hex THEN 16 ELSE 10
       /\ \A i \in 1 .. Len(typed) : DigitOf(typed[i]) < base \/ (Hex /\ i = 2)
       /\ Read(From(typed, FirstDigit), base) < IntValues \div 2 =>
            value = Read(From(typed, FirstDigit), base)

(* Only the innermost loop may be that of a number.                         *)
NumberInv ==
  /\ todo # << >> => Tail(todo) \in Seq(Plain)
  /\ Loop("zero") => typed = <<"0">> /\ value = 0
  /\ Loop("digits") => NumberSoFar

LEMMA NoNumber ==
  ASSUME todo' \in Seq(Plain)
  PROVE  NumberInv'
<1>1. todo' # << >> => Tail(todo') \in Seq(Plain) /\ Head(todo') \in Plain
  OBVIOUS
<1> QED BY <1>1 DEF NumberInv, Loop, Plain

LEMMA PlainLoops ==
  ASSUME InputInv, NumberInv, todo # << >>
  PROVE  /\ Tail(todo) \in Seq(Plain)
         /\ Tail(todo) # << >> => Tail(Tail(todo)) \in Seq(Plain)
         /\ Head(todo) \notin {"zero", "digits"} => todo \in Seq(Plain)
<1>1. Tail(todo) \in Seq(Plain)
  BY DEF NumberInv
<1>2. Tail(todo) # << >> => Tail(Tail(todo)) \in Seq(Plain)
  BY <1>1, HeadTailProperties
<1>3. ASSUME Head(todo) \notin {"zero", "digits"} PROVE todo \in Seq(Plain)
  <2>1. todo \in Seq(AllNames(cmd))
    BY DEF InputInv, LoopLists
  <2>2. \A i \in 1 .. Len(todo) : todo[i] \in AllNames(cmd)
    BY <2>1
  <2>3. todo[1] \in Plain
    BY <1>3, <2>1, <2>2 DEF AllNames, Plain
  <2>4. ASSUME NEW i \in 2 .. Len(todo) PROVE todo[i] \in Plain
    <3>1. /\ i - 1 \in 1 .. Len(Tail(todo)) /\ Tail(todo)[i - 1] = todo[(i - 1) + 1]
          /\ (i - 1) + 1 = i
      BY <2>1, HeadTailProperties
    <3>2. Tail(todo)[i - 1] \in Plain
      BY <1>1, <3>1
    <3> QED BY <3>1, <3>2
  <2>5. \A i \in 1 .. Len(todo) : todo[i] \in Plain
    BY <2>1, <2>3, <2>4
  <2> QED BY <2>1, <2>5
<1> QED BY <1>1, <1>2, <1>3

LEMMA ArgumentsArePlain == \A c : Arguments(c) \in Seq(Plain)
<1>1. {"number", "block", "multiplier", "length", "string", "drop", "okay", "size"}
        \subseteq Plain
  BY DEF Plain, Names
<1> HIDE DEF Plain
<1>2. /\ <<"number", "block", "number", "multiplier", "length", "string">> \in Seq(Plain)
      /\ <<"number", "block", "number", "multiplier", "length", "string",
           "string">> \in Seq(Plain)
      /\ <<"drop", "okay", "drop", "size">> \in Seq(Plain)
      /\ <<"number", "block">> \in Seq(Plain) /\ <<"number", "number">> \in Seq(Plain)
      /\ <<"number">> \in Seq(Plain) /\ <<"drop", "okay">> \in Seq(Plain)
      /\ << >> \in Seq(Plain)
  BY <1>1
<1> QED BY <1>2 DEF Arguments

(* Commands, and loops that are not those of a number.                      *)
LEMMA ElsewhereKeeps ==
  ASSUME InputInv, NumberInv,
         \/ Blanks \/ Command \/ NoCommand \/ Close
         \/ Flush \/ Drop \/ Okay \/ Block \/ Multiplier \/ Length \/ String \/ Word
  PROVE  NumberInv'
<1>1. /\ {<< >>, <<"flush">>, <<"close">>, <<"drop", "close">>, <<"flush", "close">>,
          <<"drop", "size">>} \subseteq Seq(Plain)
      /\ {<<"drop", "okay">>, <<"quoted">>, <<"word">>} \subseteq Seq(Plain)
  <2>1. {"flush", "close", "drop", "size", "okay", "quoted", "word"} \subseteq Plain
    BY DEF Plain, Names
  <2> QED BY <2>1
<1>2. CASE Blanks \/ Command \/ NoCommand \/ Close
  <2>1. CASE Blanks
    BY <1>1, <2>1, NoNumber DEF Blanks
  <2>2. CASE Command
    <3>1. PICK c \in Coming :
            todo' \in {Arguments(c), << >>, <<"flush">>, <<"drop", "close">>,
                       <<"flush", "close">>, <<"drop", "size">>}
      BY <2>2 DEF Command
    <3> QED BY <1>1, <3>1, ArgumentsArePlain, NoNumber
  <2>3. CASE NoCommand \/ Close
    <3>1. todo' \in {<< >>, <<"close">>}
      BY <2>3 DEF NoCommand, Close
    <3> QED BY <1>1, <3>1, NoNumber
  <2> QED BY <1>2, <2>1, <2>2, <2>3
<1>3. CASE Flush \/ Drop \/ Okay \/ Block \/ Multiplier \/ Length \/ String \/ Word
  <2>1. todo # << >> /\ Head(todo) \notin {"zero", "digits"}
    BY <1>3 DEF Flush, Drop, Okay, Block, Multiplier, Length, String, Word, Loop
  <2>2. \/ Done \/ Continue \/ BadInput \/ GiveUp
        \/ \E loops \in {<<"drop", "okay">>, <<"quoted">>, <<"word">>} : Instead(loops)
        \/ Loop("multiplier") /\ todo' = Tail(Tail(todo))
    BY <1>3 DEF Flush, Drop, Okay, Block, Multiplier, Length, String, Word
  <2>3. /\ Tail(todo) \in Seq(Plain) /\ todo \in Seq(Plain)
        /\ Tail(todo) # << >> => Tail(Tail(todo)) \in Seq(Plain)
    BY <2>1, PlainLoops
  <2>4. Loop("multiplier") => Tail(todo) # << >>
    BY <2>1, TailIsList DEF InputInv, Loop
  <2>5. \A loops \in {<<"drop", "okay">>, <<"quoted">>, <<"word">>} :
          loops \o Tail(todo) \in Seq(Plain)
    <3>1. \A a, b \in Seq(Plain) : a \o b \in Seq(Plain)
      BY ConcatProperties
    <3> QED BY <1>1, <2>3, <3>1
  <2>6. todo' \in Seq(Plain)
    BY <1>1, <2>2, <2>3, <2>4, <2>5 DEF Done, Continue, BadInput, GiveUp, Instead
  <2> QED BY <2>6, NoNumber
<1> QED BY <1>2, <1>3

(* The first digit.                                                         *)
LEMMA FirstIsRead ==
  ASSUME NEW c \in Digits, c # "0", base' = 10, value' = DigitOf(c), typed' = <<c>>
  PROVE  NumberSoFar'
<1>1. c \in Chars /\ DigitOf(c) \in 0 .. 9
  BY ConsoleAssumption DEF Chars, DigitOf
<1>2. typed' \in Seq(Chars) /\ typed' # << >> /\ Len(typed') = 1 /\ typed'[1] = c
  BY <1>1
<1>3. ~ Hex' /\ FirstDigit' = 1
  BY <1>2 DEF Hex, FirstDigit
<1>4. Read(From(typed', 1), 10) = DigitOf(c)
  <2> DEFINE none == << >>
  <2>1. none \in Seq(Chars) /\ 1 \in 1 .. Len(none) + 1 /\ Append(none, c) = typed'
    OBVIOUS
  <2>2. From(none, 1) = << >>
    BY DEF From
  <2> HIDE DEF none
  <2>3. Read(From(typed', 1), 10) = Read(From(none, 1), 10) * 10 + DigitOf(c)
    <3>1. Read(From(Append(none, c), 1), 10) = Read(From(none, 1), 10) * 10 + DigitOf(c)
      BY <1>1, <2>1, FromGrows
    <3> QED BY <2>1, <3>1
  <2>4. Read(From(none, 1), 10) = 0
    BY <2>2, NothingRead
  <2> QED BY <1>1, <2>3, <2>4
<1>5. \A i \in 1 .. Len(typed') : DigitOf(typed'[i]) < 10
  BY <1>1, <1>2
<1> QED BY <1>2, <1>3, <1>4, <1>5 DEF NumberSoFar

LEMMA NumberStarts ==
  ASSUME InputInv, NumberInv, Number
  PROVE  NumberInv'
<1>1. todo # << >> /\ Head(todo) \notin {"zero", "digits"}
  BY DEF Number, Loop
<1>2. Tail(todo) \in Seq(Plain) /\ todo \in Seq(Plain)
  BY <1>1, PlainLoops
<1>3. PICK c : \/ Done \/ Continue \/ BadInput \/ todo' = Tail(todo)
               \/ c \in Digits /\ StartNumber(c)
  BY DEF Number
<1>4. CASE Done \/ Continue \/ BadInput \/ todo' = Tail(todo)
  <2>1. <<"flush">> \in Seq(Plain)
    BY DEF Plain, Names
  <2>2. todo' \in Seq(Plain)
    BY <1>2, <1>4, <2>1 DEF Done, Continue, BadInput
  <2> QED BY <2>2, NoNumber
<1>5. CASE c \in Digits /\ c = "0" /\ StartNumber(c)
  <2>1. todo' = <<"zero">> \o Tail(todo) /\ value' = 0 /\ typed' = <<"0">>
    BY <1>5 DEF StartNumber, Instead
  <2>2. Head(todo') = "zero" /\ Tail(todo') = Tail(todo)
    BY <1>2, <2>1
  <2> QED BY <1>2, <2>1, <2>2 DEF NumberInv, Loop
<1>6. CASE c \in Digits /\ c # "0" /\ StartNumber(c)
  <2>1. /\ todo' = <<"digits">> \o Tail(todo)
        /\ base' = 10 /\ value' = DigitOf(c) /\ typed' = <<c>>
    BY <1>6 DEF StartNumber, Instead
  <2>2. Head(todo') = "digits" /\ Tail(todo') = Tail(todo)
    BY <1>2, <2>1
  <2>3. NumberSoFar'
    BY <1>6, <2>1, FirstIsRead
  <2> QED BY <1>2, <2>2, <2>3 DEF NumberInv, Loop
<1> QED BY <1>3, <1>4, <1>5, <1>6

LEMMA ZeroIsRead ==
  ASSUME InputInv, NumberInv, Zero
  PROVE  NumberInv'
<1>1. todo # << >> /\ typed = <<"0">> /\ value = 0
  BY DEF Zero, NumberInv, Loop
<1>2. Tail(todo) \in Seq(Plain)
  BY <1>1, PlainLoops
<1>3. PICK c \in Coming : typed' = Append(typed, c) /\ base' = IF c = "x" THEN 16 ELSE 8
  BY DEF Zero
<1>4. value' = 0 /\ todo' = <<"digits">> \o Tail(todo)
  BY <1>1 DEF Zero, Instead
<1>5. Head(todo') = "digits" /\ Tail(todo') = Tail(todo)
  BY <1>2, <1>4
<1>6. c \in Chars /\ "0" \in Chars /\ DigitOf("0") \in 0 .. 9
  BY ComingIsChar, ConsoleAssumption DEF Chars, DigitOf
<1>7. /\ typed' \in Seq(Chars) /\ typed' # << >>
      /\ Len(typed') = 2 /\ typed'[1] = "0" /\ typed'[2] = c
  <2> DEFINE z == <<"0">>
  <2>1. z \in Seq(Chars) /\ Len(z) = 1 /\ z[1] = "0"
    BY <1>6
  <2>2. typed' = Append(z, c)
    BY <1>1, <1>3
  <2> HIDE DEF z
  <2> DEFINE a == Append(z, c)
  <2>3. a \in Seq(Chars) /\ Len(a) = 2 /\ a[2] = c
    BY <1>6, <2>1, SMTT(60)
  <2>4. a[1] = "0"
    <3>1. \A i \in 1 .. Len(z) : a[i] = z[i]
      BY <1>6, <2>1, AppendProperties, SMTT(60)
    <3>2. 1 \in 1 .. Len(z)
      BY <2>1
    <3> HIDE DEF a
    <3> QED BY <2>1, <3>1, <3>2, Zenon
  <2>5. a # << >>
    <3>1. Len(<< >>) = 0
      OBVIOUS
    <3> HIDE DEF a
    <3>2. Len(a) # 0
      BY <2>3
    <3> QED BY <3>1, <3>2, Zenon
  <2> HIDE DEF a
  <2> QED BY <2>2, <2>3, <2>4, <2>5 DEF a
<1>8. NumberSoFar'
  <2>1. CASE c # "x"
    BY <1>7, <2>1 DEF NumberSoFar, Hex
  <2>2. CASE c = "x"
    <3>1. Hex' /\ FirstDigit' = 3 /\ base' = 16
      BY <1>3, <1>7, <2>2 DEF Hex, FirstDigit
    <3>2. From(typed', 3) = << >>
      BY <1>7 DEF From
    <3>3. Read(From(typed', 3), 16) = 0
      BY <3>2, NothingRead
    <3>4. \A i \in 1 .. Len(typed') : DigitOf(typed'[i]) < 16 \/ i = 2
      BY <1>6, <1>7
    <3> QED BY <1>4, <1>7, <3>1, <3>3, <3>4 DEF NumberSoFar
  <2> QED BY <2>1, <2>2
<1> QED BY <1>2, <1>5, <1>8 DEF NumberInv, Loop

(* A digit more: as long as the number fits, nothing is cut off.            *)
LEMMA FittingIsKept ==
  ASSUME NEW n \in Nat, NEW b \in Nat \ {0}, NEW d \in Nat,
         n * b + d < IntValues \div 2
  PROVE  n < IntValues \div 2 /\ WrapInt(n * b + d) = n * b + d
<1> DEFINE H == IntValues \div 2
           m == n * b + d
<1>1. H \in Nat /\ 2 * H <= IntValues
  BY ConsoleAssumption
<1>2. n <= m /\ m \in Nat
  <2>1. n * b \in Nat /\ n <= n * b
    <3>1. b - 1 \in Nat /\ b = (b - 1) + 1
      OBVIOUS
    <3>2. \A k \in Nat : n * k \in Nat /\ n * (k + 1) = n * k + n
      OBVIOUS
    <3> QED BY <3>1, <3>2
  <2> DEFINE p == n * b
  <2> HIDE DEF p
  <2>2. p + d \in Nat /\ n <= p + d
    BY <2>1 DEF p
  <2> QED BY <2>2 DEF p
<1> HIDE DEF m
<1>3. m < H
  BY DEF m
<1>4. WrapInt(m) = m
  <2> HIDE DEF H
  <2>1. m + H \in 0 .. IntValues - 1 /\ IntValues \in Nat \ {0}
    BY <1>1, <1>2, <1>3, ConsoleAssumption
  <2>2. (m + H) % IntValues = m + H
    BY <2>1
  <2>3. (m + H) - H = m
    BY <1>1, <1>2
  <2> QED BY <2>2, <2>3 DEF WrapInt, H
<1> QED BY <1>1, <1>2, <1>3, <1>4 DEF m

LEMMA DigitIsRead ==
  ASSUME NumberSoFar, NEW c \in Chars, InBase(c), base' = base,
         value' = WrapInt(value * base + DigitOf(c)), typed' = Append(typed, c)
  PROVE  NumberSoFar'
<1> DEFINE n == Len(typed)
<1>1. typed \in Seq(Chars) /\ n \in Nat \ {0} /\ (n = 1 => typed[1] # "0")
  BY EmptySeq DEF NumberSoFar
<1>2. /\ typed' \in Seq(Chars) /\ Len(typed') = n + 1 /\ typed'[n + 1] = c
      /\ \A i \in 1 .. n : typed'[i] = typed[i]
  BY <1>1
<1>3. typed' # << >> /\ typed'[1] = typed[1] /\ Len(typed') # 1
  BY <1>1, <1>2
<1>4. Hex' <=> Hex
  <2>1. CASE n = 1
    BY <1>1, <1>3, <2>1 DEF Hex
  <2>2. CASE n > 1
    <3>1. typed'[2] = typed[2]
      BY <1>1, <1>2, <2>2
    <3> QED BY <1>1, <1>2, <1>3, <2>2, <3>1 DEF Hex
  <2>3. n = 1 \/ n > 1
    <3>1. n \in Nat \ {0}
      BY <1>1
    <3> HIDE DEF n
    <3> QED BY <3>1
  <2> QED BY <2>1, <2>2, <2>3
<1>5. FirstDigit' = FirstDigit /\ FirstDigit \in 1 .. n + 1
  BY <1>1, <1>4 DEF FirstDigit, Hex
<1>6. ASSUME Hex \/ typed[1] # "0"
      PROVE  /\ base' = IF Hex THEN 16 ELSE 10
             /\ \A i \in 1 .. Len(typed') : DigitOf(typed'[i]) < base' \/ (Hex /\ i = 2)
             /\ Read(From(typed', FirstDigit), base') < IntValues \div 2 =>
                  value' = Read(From(typed', FirstDigit), base')
  <2>1. base = IF Hex THEN 16 ELSE 10
    BY <1>6 DEF NumberSoFar
  <2>2. base \in Nat \ {0}
    BY <2>1
  <2>3. DigitOf(c) \in Nat
    BY DigitIsNat
  <2>4. ASSUME NEW i \in 1 .. Len(typed')
        PROVE  DigitOf(typed'[i]) < base' \/ (Hex /\ i = 2)
    <3>1. CASE i \in 1 .. n
      BY <1>2, <1>6, <3>1 DEF NumberSoFar
    <3>2. CASE i = n + 1
      BY <1>2, <3>2 DEF InBase
    <3> QED BY <1>1, <1>2, <3>1, <3>2
  <2> DEFINE r == Read(From(typed, FirstDigit), base)
             q == Read(From(typed', FirstDigit), base')
  <2>5. r \in Nat /\ q = r * base + DigitOf(c)
    BY <1>1, <1>5, <2>2, FromGrows
  <2>6. ASSUME q < IntValues \div 2 PROVE value' = q
    <3>1. r < IntValues \div 2 => value = r
      BY <1>6 DEF NumberSoFar
    <3> HIDE DEF r, q
    <3>2. r < IntValues \div 2 /\ WrapInt(r * base + DigitOf(c)) = r * base + DigitOf(c)
      BY <2>2, <2>3, <2>5, <2>6, FittingIsKept
    <3> QED BY <2>5, <3>1, <3>2
  <2> QED BY <2>1, <2>4, <2>6
<1> QED BY <1>2, <1>3, <1>4, <1>5, <1>6 DEF NumberSoFar

LEMMA DigitsKeep ==
  ASSUME InputInv, NumberInv, DigitsOf
  PROVE  NumberInv'
<1>1. todo # << >> /\ NumberSoFar
  BY DEF DigitsOf, NumberInv, Loop
<1>2. Tail(todo) \in Seq(Plain)
  BY <1>1, PlainLoops
<1>3. PICK c \in Coming :
        \/ /\ InBase(c) /\ Continue
           /\ value' = WrapInt(value * base + DigitOf(c))
           /\ typed' = Append(typed, c) /\ base' = base
        \/ Done
  BY DEF DigitsOf
<1>4. CASE Done
  BY <1>2, <1>4, NoNumber DEF Done
<1>5. CASE /\ InBase(c) /\ Continue
           /\ value' = WrapInt(value * base + DigitOf(c))
           /\ typed' = Append(typed, c) /\ base' = base
  <2>1. NumberSoFar'
    BY <1>1, <1>5, ComingIsChar, DigitIsRead
  <2>2. todo' = todo /\ Head(todo) = "digits"
    BY <1>5 DEF Continue, DigitsOf, Loop
  <2> QED BY <1>2, <2>1, <2>2 DEF NumberInv, Loop
<1> QED BY <1>3, <1>4, <1>5

LEMMA NumberNext ==
  ASSUME InputInv, NumberInv, [Next]_vars
  PROVE  NumberInv'
<1>1. CASE UNCHANGED vars
  BY <1>1 DEF vars, NumberInv, NumberSoFar, Loop, Hex, FirstDigit
<1> QED
  BY <1>1, ElsewhereKeeps, NumberStarts, ZeroIsRead, DigitsKeep DEF Next

LEMMA SoFarIsTyped == NumberInv => NumberIsTyped
<1> SUFFICES ASSUME NumberInv, Loop("digits"), Hex \/ typed[1] # "0"
             PROVE  LET n == IF Hex THEN Typed(3, 16) ELSE Typed(1, 10)
                    IN  /\ ToSet(typed) \subseteq (DOMAIN DigitValue) \cup {"x"}
                        /\ \A i \in DOMAIN typed :
                             DigitOf(typed[i]) < (IF Hex THEN 16 ELSE 10) \/ (Hex /\ i = 2)
                        /\ n < IntValues \div 2 => value = n
  BY DEF NumberIsTyped, Hex
<1>1. /\ typed \in Seq(Chars)
      /\ base = IF Hex THEN 16 ELSE 10
      /\ \A i \in 1 .. Len(typed) : DigitOf(typed[i]) < base \/ (Hex /\ i = 2)
      /\ Read(From(typed, FirstDigit), base) < IntValues \div 2 =>
           value = Read(From(typed, FirstDigit), base)
  BY DEF NumberInv, NumberSoFar
<1>2. DOMAIN typed = 1 .. Len(typed)
  BY <1>1
<1>3. ASSUME NEW i \in DOMAIN typed
      PROVE  /\ DigitOf(typed[i]) < (IF Hex THEN 16 ELSE 10) \/ (Hex /\ i = 2)
             /\ typed[i] \in (DOMAIN DigitValue) \cup {"x"}
  <2>1. DigitOf(typed[i]) < (IF Hex THEN 16 ELSE 10) \/ (Hex /\ i = 2)
    BY <1>1, <1>2
  <2>2. Hex /\ i = 2 => typed[i] = "x"
    BY DEF Hex
  <2>3. typed[i] \notin DOMAIN DigitValue => DigitOf(typed[i]) = 17
    BY DEF DigitOf, BadDigit
  <2> QED BY <2>1, <2>2, <2>3
<1>4. ToSet(typed) \subseteq (DOMAIN DigitValue) \cup {"x"}
  BY <1>3 DEF ToSet
<1>5. /\ Typed(3, 16) = Read(From(typed, 3), 16)
      /\ Typed(1, 10) = Read(From(typed, 1), 10)
  BY TypedIsRead
<1> QED BY <1>1, <1>3, <1>4, <1>5 DEF FirstDigit

(* get_number reads what was typed, in the base that it was typed in, for   *)
(* every number that an int holds and however long it is.                   *)
THEOREM NumbersAreTyped == Spec => []NumberIsTyped
<1>1. Init => NumberInv
  BY DEF Init, NumberInv, Loop
<1>2. InputInv /\ NumberInv /\ [Next]_vars => NumberInv'
  BY NumberNext
<1> QED BY <1>1, <1>2, InputAlways, SoFarIsTyped, PTL DEF Spec

=============================================================================
