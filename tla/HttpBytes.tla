----------------------------- MODULE HttpBytes -----------------------------
(***************************************************************************)
(* The byte classes on which the two generated HTTP state machines branch. *)
(* A byte is a one-character string; the bytes without a glyph have a name *)
(* ("x00", "x06"), and "x80" stands for every byte above 127.              *)
(***************************************************************************)
EXTENDS Naturals, Sequences, SequencesExt

Uppers == <<"A", "B", "C", "D", "E", "F", "G", "H", "I", "J", "K", "L", "M",
            "N", "O", "P", "Q", "R", "S", "T", "U", "V", "W", "X", "Y", "Z">>
Lowers == <<"a", "b", "c", "d", "e", "f", "g", "h", "i", "j", "k", "l", "m",
            "n", "o", "p", "q", "r", "s", "t", "u", "v", "w", "x", "y", "z">>

Upper == ToSet(Uppers)
Lower == ToSet(Lowers)
Alpha == Upper \cup Lower
Digit == {"0", "1", "2", "3", "4", "5", "6", "7", "8", "9"}
Hex == Digit \cup {"A", "B", "C", "D", "E", "F", "a", "b", "c", "d", "e", "f"}

\* Control bytes that get no special treatment: 1, 7, 8, 14 to 31.
PlainCtl == {"x01"}
LowCtl == {"x02", "x03", "x04", "x05", "x06"}
Space == {"\t", "\n", "x0b", "\f", "\r", " "}

Punctuation == {"!", "\"", "#", "$", "%", "&", "'", "(", ")", "*", "+", ",",
                "-", ".", "/", ":", ";", "<", "=", ">", "?", "@", "[", "\\",
                "]", "^", "_", "x60", "{", "|", "}", "~"}

Bytes == {"x00", "x80", "x7f"} \cup PlainCtl \cup LowCtl \cup Space
           \cup Punctuation \cup Alpha \cup Digit

ToLower(c) ==
  IF c \in Upper THEN Lowers[CHOOSE i \in 1 .. 26 : Uppers[i] = c] ELSE c

LowerCase(w) == [i \in DOMAIN w |-> ToLower(w[i])]

\* strcasecmp of the code: header names are compared without regard to case.
SameIgnoringCase(v, w) == LowerCase(v) = LowerCase(w)
=============================================================================
