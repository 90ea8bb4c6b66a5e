--------------------------- MODULE MCConsoleInput ---------------------------
(***************************************************************************)
(* A digit for every base, letters that are commands, digits, a base, a     *)
(* multiplier, a partition or an answer, and one that is none of these.     *)
(***************************************************************************)
EXTENDS ConsoleInput

MCLetters ==
  {"b", "c", "C", "d", "a", "i", "k", "n", "p", "q", "r", "s", "w", "x", "y"}

MCDigitValue ==
  [c \in {"0", "1", "8", "b", "c", "C", "d", "a"} |->
     CASE c = "0" -> 0 [] c = "1" -> 1 [] c = "8" -> 8 [] c = "b" -> 11
       [] c \in {"c", "C"} -> 12 [] c = "d" -> 13 [] c = "a" -> 10]

=============================================================================
