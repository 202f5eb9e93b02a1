-------------------------------- MODULE Utf8 --------------------------------
(***************************************************************************)
(* The part of Go's unicode/utf8 that scanner/source.go calls, over        *)
(* classes of bytes:                                                       *)
(*   "a"   a printable ASCII byte      "c2"  the lead of a 2-byte encoding *)
(*   "nl"  the newline byte            "ef"  the lead of a 3-byte encoding *)
(*   "nul" the zero byte               "bf", "bb"  continuation bytes      *)
(*   "ff"  a byte that never occurs in an encoding                         *)
(* EF BB BF is the byte order mark; EF BF BB stands for U+FFFD written out *)
(* in the file, which decodes to the same rune as an encoding error but    *)
(* with its full width.                                                    *)
(***************************************************************************)
EXTENDS Integers, Sequences

Ascii == {"a", "nl", "nul"}          \* the bytes below utf8.RuneSelf
Continuation == {"bb", "bf"}
Byte == Ascii \cup Continuation \cup {"c2", "ef", "ff"}
UTFMax == 4

RuneError == "RuneError"
BOM == "BOM"
Rune == Ascii \cup {RuneError, BOM, "two", "three"}

\* How many bytes of p, from the first, follow the encoding its first byte
\* announces; a byte that announces nothing is complete by itself.
WellFormed(p) ==
  CASE p[1] = "c2" -> IF Len(p) >= 2 /\ p[2] \in Continuation THEN 2 ELSE 1
    [] p[1] = "ef" ->
         IF Len(p) >= 2 /\ p[2] \in Continuation
         THEN IF Len(p) >= 3 /\ p[3] \in Continuation THEN 3 ELSE 2
         ELSE 1
    [] OTHER -> 1

Announced(c) == CASE c = "c2" -> 2 [] c = "ef" -> 3 [] OTHER -> 1

\* utf8.FullRune: p starts with a whole encoding, or with one that no further
\* byte can complete.
FullRune(p) ==
  /\ Len(p) > 0
  /\ \/ Announced(p[1]) = WellFormed(p)
     \/ WellFormed(p) < Len(p)

\* utf8.DecodeRune of a non-empty p.
DecodeRune(p) ==
  IF p[1] \in Ascii THEN [ch |-> p[1], w |-> 1]
  ELSE IF Announced(p[1]) = 1 \/ WellFormed(p) < Announced(p[1])
       THEN [ch |-> RuneError, w |-> 1]
       ELSE [ch |-> CASE p[1] = "c2" -> "two"
                      [] p[2] = "bb" /\ p[3] = "bf" -> BOM
                      [] p[2] = "bf" /\ p[3] = "bb" -> RuneError
                      [] OTHER -> "three",
             w  |-> Announced(p[1])]
=============================================================================
