------------------------------ MODULE Terminal ------------------------------
(***************************************************************************)
(* What a keyboard that is read line by line promises.  The characters     *)
(* typed form one stream.  A read takes them from its front, up to the end *)
(* of a line or as many as it wants, whether they were typed before or     *)
(* after it was issued; nothing is lost, repeated or put in another order, *)
(* except that what exceeds Room is dropped while nobody reads.            *)
(***************************************************************************)
EXTENDS Integers, Sequences

CONSTANTS Process, Nobody, Key, Enter, Erase, InitialEof, Room, Lengths

VARIABLES
    status,     \* "closed", "open", or "ended" by the end of the input
    eof,        \* the character that ends the input
    stream,     \* the characters typed and not yet returned by a read
    reader,     \* the process that waits for characters
    want,       \* how many it can take
    got         \* what the last read returned

vars == <<status, eof, stream, reader, want, got>>

Closed ==
    /\ status = "closed" /\ eof = InitialEof /\ stream = <<>>
    /\ reader = Nobody /\ want = 0 /\ got = <<>>

Open ==
    /\ status = "closed" /\ status' = "open"
    /\ UNCHANGED <<eof, stream, reader, want, got>>

Close == status # "closed" /\ reader = Nobody /\ Closed'

SetEof(char) ==
    /\ status # "closed" /\ reader = Nobody
    /\ eof' = char
    /\ UNCHANGED <<status, stream, reader, want, got>>

(* The end of the input: all reads return nothing from now on.             *)
End ==
    /\ status' = "ended" /\ stream' = <<>> /\ got' = <<>>
    /\ reader' = Nobody /\ want' = 0
    /\ UNCHANGED eof

(* The line is returned, and the rest stays in the stream.                 *)
Return(line, rest) ==
    /\ got' = line /\ stream' = rest
    /\ reader' = Nobody /\ want' = 0
    /\ UNCHANGED <<status, eof>>

-----------------------------------------------------------------------------
(* How many characters of s a read for n of them takes.                    *)
Taken(s, n) ==
    LET most == IF n < Len(s) THEN n ELSE Len(s)
        ends == {i \in 1..most : s[i] \in {Enter, eof}}
    IN  IF ends = {} THEN most ELSE CHOOSE i \in ends : \A j \in ends : i <= j

EndsLine(line, n) == Len(line) = n \/ (line # <<>> /\ line[Len(line)] = Enter)

Read(p, n) ==
    LET t == Taken(stream, n)
        line == SubSeq(stream, 1, t)
    IN  /\ status = "open" /\ reader = Nobody
        /\ IF t > 0 /\ line[t] = eof
           THEN End
           ELSE IF EndsLine(line, n)
           THEN Return(line, SubSeq(stream, t + 1, Len(stream)))
           ELSE /\ reader' = p /\ want' = n /\ got' = <<>>
                /\ UNCHANGED <<status, eof, stream>>

Press(key) ==
    LET s == IF key = Erase THEN SubSeq(stream, 1, Len(stream) - 1)
             ELSE IF reader = Nobody /\ Len(stream) = Room THEN stream
             ELSE Append(stream, key)
    IN  /\ status = "open"
        /\ IF reader # Nobody /\ key = eof
           THEN End
           ELSE IF reader # Nobody /\ EndsLine(s, want)
           THEN Return(s, <<>>)
           ELSE stream' = s /\ UNCHANGED <<status, eof, reader, want, got>>

Next ==
    \/ Open \/ Close
    \/ \E key \in Key : Press(key) \/ SetEof(key)
    \/ \E p \in Process, n \in Lengths : Read(p, n)

Spec == Closed /\ [][Next]_vars
=============================================================================
