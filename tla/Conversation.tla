---------------------------- MODULE Conversation ----------------------------
(***************************************************************************)
(* What a channel of the link promises: to be a connection to the daemon   *)
(* of the remote machine (endpoint.rs, LinkChannel).                       *)
(*                                                                         *)
(* What Som writes on a channel gets to the daemon, and what the daemon    *)
(* answers gets to Som, each in order with nothing missing, repeated or    *)
(* garbled in between.  A channel may end at any time, and then the rest   *)
(* of either is lost with it.                                              *)
(***************************************************************************)
EXTENDS Naturals, Sequences

CONSTANT Channel

VARIABLES
    open,   \* can Som still read and write on the channel?
    wrote,  \* messages Som has written
    asked,  \* messages the daemon has got
    said,   \* messages the daemon has answered
    heard   \* the messages Som has got

vars == <<open, wrote, asked, said, heard>>

Init ==
    /\ open = [c \in Channel |-> FALSE]
    /\ wrote = [c \in Channel |-> 0]
    /\ asked = [c \in Channel |-> 0]
    /\ said = [c \in Channel |-> 0]
    /\ heard = [c \in Channel |-> <<>>]

Open(c) ==
    /\ ~open[c] /\ wrote[c] = 0
    /\ open' = [open EXCEPT ![c] = TRUE]
    /\ UNCHANGED <<wrote, asked, said, heard>>

Write(c) ==
    /\ open[c]
    /\ wrote' = [wrote EXCEPT ![c] = @ + 1]
    /\ UNCHANGED <<open, asked, said, heard>>

Ask(c) ==
    /\ asked[c] < wrote[c]
    /\ asked' = [asked EXCEPT ![c] = @ + 1]
    /\ UNCHANGED <<open, wrote, said, heard>>

Say(c) ==
    /\ asked[c] > 0
    /\ said' = [said EXCEPT ![c] = @ + 1]
    /\ UNCHANGED <<open, wrote, asked, heard>>

Hear(c) ==
    /\ open[c] /\ Len(heard[c]) < said[c]
    /\ heard' = [heard EXCEPT ![c] = Append(@, Len(@) + 1)]
    /\ UNCHANGED <<open, wrote, asked, said>>

\* One channel is closed, or the link starts over and all of them are.
Shut ==
    /\ \E over \in SUBSET Channel : open' = [c \in Channel |-> open[c] /\ c \notin over]
    /\ UNCHANGED <<wrote, asked, said, heard>>

Next == Shut \/ \E c \in Channel : Open(c) \/ Write(c) \/ Ask(c) \/ Say(c) \/ Hear(c)

Spec == Init /\ [][Next]_vars
=============================================================================
