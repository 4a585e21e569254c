----------------------------- MODULE Rendezvous -----------------------------
(***************************************************************************)
(* What syssend and sysrecv promise: a send and a matching receive meet,   *)
(* whichever comes first; blocked senders are served in the order they     *)
(* came; and nobody stays blocked on a process that is gone.               *)
(***************************************************************************)
EXTENDS Naturals, Sequences

CONSTANTS
    Process,    \* the processes
    Nobody,     \* wants[p] when p is not receiving
    Anybody     \* wants[p] when p receives from whoever sends

VARIABLES
    alive,      \* the processes that exist
    inbox,      \* inbox[p]: those blocked sending to p, in order of arrival
    wants,      \* wants[p]: whom p is blocked receiving from
    outcome     \* outcome[p]: how the last call of p ended

vars == <<alive, inbox, wants, outcome>>

In(s) == {s[i] : i \in 1..Len(s)}

Blocked(p) == wants[p] # Nobody \/ \E r \in Process : p \in In(inbox[r])

Free(p) == p \in alive /\ ~Blocked(p)

Init ==
    /\ alive \in SUBSET Process
    /\ inbox = [p \in Process |-> <<>>]
    /\ wants = [p \in Process |-> Nobody]
    /\ outcome = [p \in Process |-> "none"]

Born(p) ==
    /\ p \notin alive
    /\ alive' = alive \cup {p}
    /\ outcome' \in {[outcome EXCEPT ![q] = "none"] : q \in alive}
    /\ UNCHANGED <<inbox, wants>>

(* Messages pass from s to r: both calls are over.                         *)
Deliver(s, r) ==
    /\ outcome' = [outcome EXCEPT ![s] = "delivered", ![r] = "delivered"]
    /\ inbox' = [inbox EXCEPT ![r] = SelectSeq(@, LAMBDA x : x # s)]
    /\ wants' = [wants EXCEPT ![r] = Nobody]

Send(p, r) ==
    /\ Free(p) /\ r \in alive \ {p}
    /\ IF wants[r] \in {p, Anybody}
       THEN Deliver(p, r)
       ELSE /\ inbox' = [inbox EXCEPT ![r] = Append(@, p)]
            /\ outcome' = [outcome EXCEPT ![p] = "none"]
            /\ UNCHANGED wants
    /\ UNCHANGED alive

Receive(p, s) ==
    /\ Free(p) /\ s \in alive \ {p}
    /\ IF s \in In(inbox[p])
       THEN Deliver(s, p)
       ELSE /\ wants' = [wants EXCEPT ![p] = s]
            /\ outcome' = [outcome EXCEPT ![p] = "none"]
            /\ UNCHANGED inbox
    /\ UNCHANGED alive

ReceiveAny(p) ==
    /\ Free(p)
    /\ IF inbox[p] # <<>>
       THEN Deliver(Head(inbox[p]), p)
       ELSE /\ wants' = [wants EXCEPT ![p] = Anybody]
            /\ outcome' = [outcome EXCEPT ![p] = "none"]
            /\ UNCHANGED inbox
    /\ UNCHANGED alive

(* A call on oneself, on a process that does not exist or with a bad       *)
(* buffer fails at once.                                                   *)
Refused(p) ==
    /\ Free(p)
    /\ outcome' = [outcome EXCEPT ![p] = "failed"]
    /\ UNCHANGED <<alive, inbox, wants>>

(* A call that is none of these.                                           *)
Other(p) ==
    /\ Free(p)
    /\ outcome' = [outcome EXCEPT ![p] = "none"]
    /\ UNCHANGED <<alive, inbox, wants>>

(* The end of a process fails everybody blocked on it, and only them.      *)
Die(p) ==
    /\ Free(p)
    /\ alive' = alive \ {p}
    /\ inbox' = [inbox EXCEPT ![p] = <<>>]
    /\ wants' = [q \in Process |-> IF wants[q] = p THEN Nobody ELSE wants[q]]
    /\ outcome' = [q \in Process |->
                    IF q = p THEN "none"
                    ELSE IF wants[q] = p \/ q \in In(inbox[p]) THEN "failed" ELSE outcome[q]]

Next ==
    \E p \in Process :
        \/ Born(p) \/ Die(p) \/ ReceiveAny(p) \/ Refused(p) \/ Other(p)
        \/ \E q \in Process : Send(p, q) \/ Receive(p, q)

Spec == Init /\ [][Next]_vars
=============================================================================
