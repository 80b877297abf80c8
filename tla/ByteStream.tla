----------------------------- MODULE ByteStream -----------------------------
(***************************************************************************)
(* What the sending side of a UNETRTL channel promises its caller: bytes   *)
(* reach the peer in the order they were put on the stream, the caller is  *)
(* never told of a byte the peer does not have, and the peer sees the      *)
(* orderly end of the stream only when it has every byte put on it.        *)
(***************************************************************************)
EXTENDS Integers

VARIABLES
    put,        \* bytes the peer may have been shown
    taken,      \* bytes the peer has
    confirmed,  \* bytes the caller was told the peer has
    end         \* what the peer knows: "open", "ended" or "reset"

vars == <<put, taken, confirmed, end>>

Init ==
    /\ put = 0
    /\ taken = 0
    /\ confirmed = 0
    /\ end = "open"

Put ==
    /\ end # "ended"
    /\ put' \in Nat /\ put' > put
    /\ UNCHANGED <<taken, confirmed, end>>

Take ==
    /\ end = "open"
    /\ taken' \in taken + 1 .. put
    /\ UNCHANGED <<put, confirmed, end>>

Confirm ==
    /\ confirmed' \in confirmed + 1 .. taken
    /\ UNCHANGED <<put, taken, end>>

Finish ==
    /\ end = "open"
    /\ taken = put
    /\ end' = "ended"
    /\ UNCHANGED <<put, taken, confirmed>>

Abort ==
    /\ end = "open"
    /\ end' = "reset"
    /\ UNCHANGED <<put, taken, confirmed>>

Next == Put \/ Take \/ Confirm \/ Finish \/ Abort

Spec == Init /\ [][Next]_vars

=============================================================================
