---------------------------- MODULE ConsoleInput ----------------------------
(***************************************************************************)
(* How io.c and pdisk.c read what is typed: character by character, with    *)
(* one buffer for characters that were read too far.  Every loop that reads *)
(* is an action here, and todo is the stack of loops that are open, the     *)
(* innermost first; with no loop open the next command is read.             *)
(*                                                                          *)
(* What is typed is the nondeterminism of the module, and so is whether a   *)
(* command is refused for what the map is.                                  *)
(***************************************************************************)
EXTENDS Integers, SequencesExt

CONSTANTS
  Letters,     \* characters that are neither digits, blanks nor quotes
  Digits,      \* digits that may be typed
  DigitValue,  \* the value of characters that are digits in some base
  IntValues,   \* values of an int
  Files,       \* names on the command line
  MaxDigits    \* a bound: characters of a number

Eof     == "eof"
Newline == "newline"
Chars   == Letters \cup Digits \cup {Newline, " ", "quote", Eof}
BadDigit == 17                    \* BAD_DIGIT

ASSUME ConsoleAssumption ==
  /\ DOMAIN DigitValue \subseteq Letters \cup Digits
  /\ Digits \subseteq DOMAIN DigitValue
  /\ \A c \in DOMAIN DigitValue : DigitValue[c] \in 0 .. 15
  /\ \A c \in Digits : DigitValue[c] \in 0 .. 9
  /\ "0" \in Digits
  /\ IntValues \in Nat /\ Files \in Nat \ {0} /\ MaxDigits \in Nat

VARIABLES
  rflag, dflag,  \* the options
  files,    \* names that are left, the open one included
  expert,   \* whether do_expert runs
  cmd,      \* the command
  todo,     \* the loops that are open
  base,     \* base of the number
  value,    \* ret_value of get_number
  unget,    \* unget_buf
  ended,    \* whether the input is at its end
  typed,    \* the number as it was typed, kept for the properties
  newline,  \* a newline was read since the command, kept likewise
  refused,  \* something of this line was refused, kept likewise
  answered, \* something of this line answered a question, kept likewise
  did       \* what the command did, kept likewise

vars == <<rflag, dflag, files, expert, cmd, todo, base, value, unget, ended,
          typed, newline, refused, answered, did>>
options == <<rflag, dflag>>
number == <<base, value, typed>>
place  == <<files, expert>>

Init ==
  /\ rflag \in BOOLEAN /\ dflag \in BOOLEAN
  /\ files = Files
  /\ expert = FALSE
  /\ cmd = "none" /\ did = "none"
  /\ todo = << >>
  /\ base = 10 /\ value = 0 /\ typed = << >>
  /\ unget = << >>
  /\ ended = FALSE
  /\ newline = FALSE /\ refused = FALSE /\ answered = FALSE

-----------------------------------------------------------------------------
(* getch and ungetch.                                                       *)

Coming ==
  IF unget # << >> THEN {Last(unget)} ELSE IF ended THEN {Eof} ELSE Chars

Popped == IF unget = << >> THEN unget ELSE Front(unget)

Ungetch(c) == unget' = Append(Popped, c)

\* What getch changes but for the buffer: c is gone unless Ungetch puts it back.
Seen(c) ==
  /\ ended' = (ended \/ c = Eof)
  /\ newline' = (newline \/ c = Newline)
  /\ answered' = (answered /\ c # Newline)

Getch(c) == unget' = Popped /\ Seen(c)

\* A character that is read to see where a loop ends.
Peek(c) == Ungetch(c) /\ Seen(c)

Loop(name) == todo # << >> /\ Head(todo) = name

-----------------------------------------------------------------------------
(* The ends of loops.                                                       *)

\* The innermost loop is done: with the last one, so is its command.
Done ==
  /\ todo' = Tail(todo)
  /\ did' = IF Tail(todo) = << >> /\ ~ refused THEN cmd ELSE did
  /\ UNCHANGED <<cmd, files, expert, refused>>

Continue == UNCHANGED <<cmd, files, expert, refused, todo, did>>

Instead(loops) ==
  /\ todo' = loops \o Tail(todo)
  /\ UNCHANGED <<cmd, files, expert, refused, did>>

(* bad_input: the rest of the line is not read as anything.                 *)
BadInput ==
  /\ todo' = <<"flush">>
  /\ refused' = TRUE
  /\ UNCHANGED <<cmd, files, expert, did>>

(* Without a command or with its question not answered by yes.              *)
GiveUp ==
  /\ todo' = << >>
  /\ UNCHANGED <<cmd, files, expert, refused, did>>

-----------------------------------------------------------------------------
(* Commands.                                                                *)

\* Fault: a write is not preceded by what the line still holds.
ArgumentsNoFlush(c) == IF c = "w" THEN <<"okay">> ELSE << >>

\* The loops that a command runs, each named for its routine.
Arguments(c) ==
  CASE c = "c" -> <<"number", "block", "number", "multiplier", "length",
                    "string">>
    [] c = "C" -> <<"number", "block", "number", "multiplier", "length",
                    "string", "string">>
    [] c = "b" -> <<"number", "block">>
    [] c = "r" -> <<"number", "number">>
    [] c \in {"d", "s"} -> <<"number">>
    [] c = "w" -> <<"drop", "okay">>
    [] c = "i" -> <<"drop", "okay", "drop", "size">>
    [] OTHER -> << >>

Known ==
  (IF expert THEN {"s", "p"} ELSE {"c", "C", "b", "r", "d", "s", "i", "p"})
    \cup (IF rflag THEN {} ELSE {"w"})

Blanks ==
  /\ todo = << >> /\ files > 0
  /\ \E c \in Coming \cap {" ", Newline} :
       /\ Getch(c)
       /\ refused' = (refused /\ c # Newline)
  /\ UNCHANGED <<options, place, cmd, todo, number, did>>

(* get_command returned c.  The routine of a known command may refuse it    *)
(* first, for there is no map, it is not changed or not writeable; i asks   *)
(* only if there is a map.                                                  *)
Command ==
  /\ todo = << >> /\ files > 0
  /\ \E c \in Coming \ {" ", Newline, Eof} :
       /\ unget' = Popped
       /\ cmd' = c /\ did' = "none"
       /\ newline' = FALSE
       /\ \/ /\ c \in Known
             /\ todo' = Arguments(c)
             /\ refused' = FALSE /\ UNCHANGED expert
          \/ /\ c = "i" /\ c \in Known
             /\ todo' = <<"drop", "size">>
             /\ refused' = FALSE /\ UNCHANGED expert
          \/ /\ c # "q" /\ (c = "i" => expert)
             /\ c = "x" => ~ (expert \/ dflag)
             /\ todo' = <<"flush">>
             /\ refused' = TRUE /\ UNCHANGED expert
          \/ /\ c = "q"
             /\ todo' = <<IF expert THEN "drop" ELSE "flush", "close">>
             /\ refused' = FALSE /\ UNCHANGED expert
          \/ /\ c = "x" /\ (expert \/ dflag)
             /\ todo' = IF expert THEN <<"flush">> ELSE << >>
             /\ refused' = FALSE /\ expert' = ~ expert
  /\ UNCHANGED <<options, files, number, ended, answered>>

(* get_command returned nothing.                                            *)
NoCommand ==
  /\ todo = << >> /\ files > 0
  /\ Eof \in Coming
  /\ Getch(Eof)
  /\ expert' = FALSE
  /\ todo' = IF expert THEN << >> ELSE <<"close">>
  /\ UNCHANGED <<options, files, cmd, refused, number, did>>

(* close_partition_map, and the next name is edited.                        *)
Close ==
  /\ Loop("close")
  /\ todo' = << >>
  /\ files' = files - 1
  /\ expert' = FALSE
  /\ UNCHANGED <<options, cmd, number, unget, ended, newline, refused,
                 answered, did>>

-----------------------------------------------------------------------------
(* flush_to_newline, keeping the newline or dropping it.                    *)

\* Fault: the first character is the last.
FlushNothing ==
  /\ Loop("flush")
  /\ \E c \in Coming : Peek(c) /\ Done
  /\ UNCHANGED <<options, number>>

Flush ==
  /\ Loop("flush")
  /\ \E c \in Coming :
       CASE c = Newline -> Peek(c) /\ Done
         [] c = Eof     -> Getch(c) /\ Done
         [] OTHER       -> Getch(c) /\ Continue
  /\ UNCHANGED <<options, number>>

\* Fault: the end of the input is not a newline.
DropForEver ==
  /\ Loop("drop")
  /\ \E c \in Coming :
       /\ Getch(c)
       /\ IF c = Newline THEN Done ELSE Continue
  /\ UNCHANGED <<options, number>>

Drop ==
  /\ Loop("drop")
  /\ \E c \in Coming :
       /\ Getch(c)
       /\ IF c \in {Newline, Eof} THEN Done ELSE Continue
  /\ UNCHANGED <<options, number>>

(* get_okay behind its flush: only a y goes on.                             *)
Okay ==
  /\ Loop("okay")
  /\ \E c \in Coming :
       \/ c = " " /\ Getch(c) /\ Continue
       \/ c = Newline /\ Peek(c) /\ GiveUp
       \/ c = Eof /\ Getch(c) /\ GiveUp
       \/ /\ c \in {"y", "n"}
          /\ unget' = Popped /\ answered' = TRUE
          /\ UNCHANGED <<ended, newline>>
          /\ IF c = "y" THEN Done ELSE GiveUp
       \/ /\ c \notin {" ", Newline, Eof, "y", "n"}
          /\ Getch(c)
          /\ Instead(<<"drop", "okay">>)
  /\ UNCHANGED <<options, number>>

-----------------------------------------------------------------------------
(* Numbers.                                                                 *)

DigitOf(c) == IF c \in DOMAIN DigitValue THEN DigitValue[c] ELSE BadDigit

WrapInt(n) == ((n + IntValues \div 2) % IntValues) - IntValues \div 2

\* Fault: a digit may be as large as the base.
InBaseOrEqual(c) == DigitOf(c) <= base

InBase(c) == DigitOf(c) < base

StartNumber(c) ==
  IF c = "0"
  THEN /\ Instead(<<"zero">>)
       /\ base' = 8 /\ value' = 0 /\ typed' = <<c>>
  ELSE /\ Instead(<<"digits">>)
       /\ base' = 10 /\ value' = DigitOf(c) /\ typed' = <<c>>

(* get_number_argument.  The result of the one that asks for the size of    *)
(* the device is not looked at, and it has a default.                       *)
Number ==
  /\ Loop("number") \/ Loop("size")
  /\ \E c \in Coming :
       \/ c = " " /\ Getch(c) /\ Continue /\ UNCHANGED number
       \/ /\ c = Newline
          /\ IF Loop("size") THEN Peek(c) /\ Done ELSE Getch(c) /\ Continue
          /\ UNCHANGED number
       \/ /\ c = Eof
          /\ Getch(c)
          /\ IF Loop("size") THEN Done ELSE BadInput
          /\ UNCHANGED number
       \/ c \in Digits /\ Getch(c) /\ StartNumber(c)
       \/ /\ c \notin Digits \cup {" ", Newline, Eof}
          /\ Peek(c)
          /\ IF Loop("size")
             THEN /\ todo' = Tail(todo) /\ refused' = TRUE
                  /\ did' = cmd
                  /\ UNCHANGED <<cmd, files, expert>>
             ELSE BadInput
          /\ UNCHANGED number
  /\ UNCHANGED options

(* Behind a first 0: unless it makes the number hexadecimal, the character  *)
(* is gone.                                                                 *)
Zero ==
  /\ Loop("zero")
  /\ \E c \in Coming :
       /\ Getch(c)
       /\ typed' = Append(typed, c)
       /\ base' = IF c = "x" THEN 16 ELSE 8
  /\ Instead(<<"digits">>)
  /\ UNCHANGED <<options, value>>

(* The loop of get_number.                                                  *)
DigitsOf ==
  /\ Loop("digits")
  /\ \E c \in Coming :
       \/ /\ InBase(c) /\ Len(typed) < MaxDigits
          /\ Getch(c) /\ Continue
          /\ value' = WrapInt(value * base + DigitOf(c))
          /\ typed' = Append(typed, c)
          /\ UNCHANGED base
       \/ /\ ~ InBase(c)
          /\ Peek(c) /\ Done
          /\ base' = 10 /\ value' = 0 /\ typed' = << >>
  /\ UNCHANGED options

(* get_base_argument: p makes the number that of a partition, which there   *)
(* may not be.                                                              *)
Block ==
  /\ Loop("block")
  /\ \E c \in Coming :
       \/ c = "p" /\ Getch(c) /\ (Done \/ BadInput)
       \/ c = Eof /\ Getch(c) /\ Done
       \/ c \notin {"p", Eof} /\ Peek(c) /\ Done
  /\ UNCHANGED <<options, number>>

(* get_multiplier, and get_size_argument behind it: at the end of the input *)
(* the number is multiplied by 0.                                           *)
Multiplier ==
  /\ Loop("multiplier")
  /\ \E c \in Coming :
       \/ /\ c \in {"k", Eof}
          /\ Getch(c)
          /\ todo' = Tail(Tail(todo))
          /\ UNCHANGED <<cmd, files, expert, refused, did>>
       \/ /\ c \notin {"k", Eof}
          /\ Peek(c) /\ Done
  /\ UNCHANGED <<options, number>>

\* Fault: what get_multiplier has put back is put back once more.
LengthTwice ==
  /\ Loop("length")
  /\ unget # << >>
  /\ unget' = Append(unget, Last(unget))
  /\ Done
  /\ UNCHANGED <<options, number, ended, newline, answered>>

Length ==
  /\ Loop("length")
  /\ \E c \in Coming :
       \/ c = "p" /\ Getch(c) /\ (Done \/ BadInput)
       \/ c = Eof /\ Getch(c) /\ Done
       \/ c \notin {"p", Eof} /\ Peek(c) /\ Done
  /\ UNCHANGED <<options, number>>

-----------------------------------------------------------------------------
(* Strings.                                                                 *)

(* get_string_argument.                                                     *)
String ==
  /\ Loop("string")
  /\ \E c \in Coming :
       \/ c \in {" ", Newline} /\ Getch(c) /\ Continue
       \/ c = Eof /\ Getch(c) /\ BadInput
       \/ c = "quote" /\ Getch(c) /\ Instead(<<"quoted">>)
       \/ c \in Letters /\ Peek(c) /\ Instead(<<"word">>)
       \/ c \in Digits /\ Peek(c) /\ BadInput
  /\ UNCHANGED <<options, number>>

(* get_string; the type of a partition may be one that is not allowed.      *)
Word ==
  /\ Loop("word") \/ Loop("quoted")
  /\ \E c \in Coming :
       LET end == IF Loop("word") THEN " " ELSE "quote"
       IN  \/ c \in {end, Eof} /\ Getch(c) /\ Done
           \/ c = Newline /\ Peek(c) /\ Done
           \/ /\ c \in {end, Eof} /\ Getch(c)
              /\ cmd = "C" /\ Len(todo) = 1 /\ BadInput
           \/ /\ c = Newline /\ Peek(c)
              /\ cmd = "C" /\ Len(todo) = 1 /\ BadInput
           \/ c \notin {end, Newline, Eof} /\ Getch(c) /\ Continue
  /\ UNCHANGED <<options, number>>

Next ==
  \/ Blanks \/ Command \/ NoCommand \/ Close
  \/ Flush \/ Drop \/ Okay
  \/ Number \/ Zero \/ DigitsOf \/ Block \/ Multiplier \/ Length
  \/ String \/ Word

(* The program reads on as long as it is given something.                   *)
Spec == Init /\ [][Next]_vars /\ WF_vars(Next)

-----------------------------------------------------------------------------
(* Properties.                                                              *)

(* "In practice there is never more than one character in the unget_buf",   *)
(* though loops that put a character back are left for loops that do.       *)
AtMostOnePushedBack == Len(unget) <= 1

(* A map is written only behind a y that was typed in a line of its own:    *)
(* nothing that was typed ahead in the line of the w, and no end of the     *)
(* input, is taken for one.                                                 *)
WriteIsConfirmed ==
  [][did' = "w" /\ did # "w" => newline /\ answered' /\ Loop("okay")]_vars

(* Behind a command or an argument that was refused nothing of the line is  *)
(* read as a command, unless it was the size that i asks for.               *)
RefusedLineIsDropped == [][Command => ~ refused \/ cmd = "i"]_vars

Typed(from, b) ==
  FoldLeft(LAMBDA n, c : n * b + DigitOf(c), 0,
           SubSeq(typed, from, Len(typed)))

(* A number is read as it was typed, from one line, if it fits and does not *)
(* start with a 0 that stands for nothing.                                  *)
NumberIsTyped ==
  Loop("digits") =>
    LET hex == Len(typed) > 1 /\ typed[1] = "0" /\ typed[2] = "x"
        n   == IF hex THEN Typed(3, 16) ELSE Typed(1, 10)
    IN  hex \/ typed[1] # "0" =>
          /\ ToSet(typed) \subseteq (DOMAIN DigitValue) \cup {"x"}
          /\ \A i \in DOMAIN typed :
               DigitOf(typed[i]) < (IF hex THEN 16 ELSE 10) \/ (hex /\ i = 2)
          /\ n < IntValues \div 2 => value = n

(* The end of the input ends the program, wherever it is read.              *)
EndOfInputEnds == ended ~> files = 0

=============================================================================
