---------------------------- MODULE CommandLine ----------------------------
(***************************************************************************)
(* How login and shell read a line (c/login.c and c/shell.c).  A line is a *)
(* sequence of words, numbers, blanks and ampersands as they are typed,    *)
(* usually with the newline at its end; a word is one symbol.              *)
(***************************************************************************)
EXTENDS Integers, Sequences

Newline == "ENTER"
IsWhiteSpace(c) == c \in {" ", "\t", Newline}

(* The blanks at the beginning of a line, and what is left of it without   *)
(* those at its end.                                                       *)
Blanks(s) == CHOOSE n \in 0..Len(s) :
    /\ \A j \in 1..n : IsWhiteSpace(s[j])
    /\ n < Len(s) => ~IsWhiteSpace(s[n + 1])

CropEnd(s) ==
    SubSeq(s, 1, CHOOSE n \in 0..Len(s) :
                    /\ \A j \in (n + 1)..Len(s) : IsWhiteSpace(s[j])
                    /\ n > 0 => ~IsWhiteSpace(s[n]))

(* cropInput: the line without the blanks around it and without one        *)
(* ampersand at its end, and whether there was one.  Of a line of blanks   *)
(* only, the byte in front of the buffer is looked at; nothing depends on  *)
(* whether that is an ampersand.                                           *)
CropInput(buf) ==
    LET line == CropEnd(SubSeq(buf, Blanks(buf) + 1, Len(buf)))
        bkgd == line # <<>> /\ line[Len(line)] = "&"
    IN  [text |-> IF bkgd THEN CropEnd(SubSeq(line, 1, Len(line) - 1)) ELSE line,
         bkgd |-> bkgd]

(* parseInput: the command is what comes before the first blank, and the   *)
(* parameter what comes behind the blanks that follow it.                  *)
ParseInput(text) ==
    LET cmdEnd == CHOOSE n \in 0..Len(text) :
                    /\ \A j \in 1..n : ~IsWhiteSpace(text[j])
                    /\ n < Len(text) => IsWhiteSpace(text[n + 1])
        rest == SubSeq(text, cmdEnd + 1, Len(text))
    IN  [cmd |-> SubSeq(text, 1, cmdEnd),
         pm |-> SubSeq(rest, Blanks(rest) + 1, Len(rest))]

(* atoi of a parameter (lib/libxc/atoi.c), which has no blanks in front: a *)
(* sign and a number, and 0 for everything that is no number.              *)
Numbers == [n \in {"1", "2", "3", "4", "5"} |->
    CASE n = "1" -> 1 [] n = "2" -> 2 [] n = "3" -> 3 [] n = "4" -> 4 [] n = "5" -> 5]

Atoi(pm) ==
    LET signed == pm # <<>> /\ pm[1] \in {"-", "+"}
        digits == IF signed THEN Tail(pm) ELSE pm
        n == IF digits # <<>> /\ digits[1] \in DOMAIN Numbers THEN Numbers[digits[1]] ELSE 0
    IN  IF signed /\ pm[1] = "-" THEN -n ELSE n
=============================================================================
