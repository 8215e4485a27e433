---------------------------- MODULE MCUucLexer ----------------------------
(***************************************************************************)
(* All texts of up to four characters of two alphabets: one for words and  *)
(* keywords (fn, for, and words that begin like null and return), one for  *)
(* comments, strings, numbers, two-character tokens and an unknown         *)
(* character.                                                              *)
(***************************************************************************)
EXTENDS UucLexer

TextsOver(chars) == UNION {[1 .. n -> chars] : n \in 0 .. 4}

MCTexts == TextsOver({"f", "n", "o", "r", "_", "1", " "})
             \cup TextsOver({"/", "=", "\"", "\\", "1", ".", "\n", "\r", "#"})
=============================================================================
