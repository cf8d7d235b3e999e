--------------------------- MODULE FrameDuplex ---------------------------
(***************************************************************************)
(* What a WsConnection of src/lib.rs promises its caller: two directions    *)
(* that end independently.  Frames come in until the receiving side is      *)
(* over, and never again.  Frames go out in the order in which they were    *)
(* accepted, each of them once and none left out; control frames may go out *)
(* between them.  None is accepted once the closing has begun, and the Close *)
(* goes out behind all of them.  Ok means that everything accepted is out.   *)
(***************************************************************************)
EXTENDS Naturals, Sequences, TransportError

VARIABLES
    over,       \* no frame comes in any more
    accepted,   \* how many frames were accepted; they are 1 .. accepted
    sent,       \* what went out, oldest first: a frame's number, 0 for control
    closing,    \* no frame is accepted any more
    closed,     \* the Close has gone out
    answer      \* what the last call answered, "none" while there is none

absVars == <<over, accepted, sent, closing, closed, answer>>

\* Each payload goes out right behind those accepted before it.
InOrder(numbers) ==
    \A j \in DOMAIN numbers :
        numbers[j] # 0 => {numbers[i] : i \in 1 .. j - 1} \ {0} = 1 .. numbers[j] - 1

\* What went out stays out.
Extends(longer, shorter) ==
    /\ Len(shorter) <= Len(longer)
    /\ \A i \in DOMAIN shorter : longer[i] = shorter[i]

AllSent == {sent[i] : i \in DOMAIN sent} \ {0} = 1 .. accepted

AbsInit ==
    /\ over = FALSE
    /\ accepted = 0
    /\ sent = <<>>
    /\ closing = FALSE
    /\ closed = FALSE
    /\ answer = "none"

\* A call starts, and may have a frame accepted or begin the closing.
Start ==
    /\ answer' = "none"
    /\ \/ UNCHANGED <<accepted, closing>>
       \/ ~closing /\ accepted' = accepted + 1 /\ UNCHANGED closing
       \/ closing' = TRUE /\ UNCHANGED accepted
    /\ UNCHANGED <<over, sent, closed>>

Deliver ==
    /\ ~over
    /\ answer' = "Frame"
    /\ UNCHANGED <<over, accepted, sent, closing, closed>>

\* The peer has closed its direction; a reply is due, so ours is closing too.
End ==
    /\ ~over
    /\ over' = TRUE
    /\ closing' = TRUE
    /\ answer' = "End"
    /\ UNCHANGED <<accepted, sent, closed>>

\* A call fails or is given up.  The receiving side may be over after it, and a
\* connection that is lost accepts nothing any more.
Fail ==
    /\ answer' \in TransportErrors \cup {"cancelled"}
    /\ over' \in {over, TRUE}
    /\ closing' \in {closing, TRUE}
    /\ UNCHANGED <<accepted, sent, closed>>

Transmit ==
    /\ sent' \in Seq(0 .. accepted)
    /\ Extends(sent', sent)
    /\ InOrder(sent')
    /\ closed' \in {closed, closing /\ AllSent'}
    /\ UNCHANGED <<over, accepted, closing, answer>>

Confirm ==
    /\ AllSent
    /\ answer' = "Ok"
    /\ UNCHANGED <<over, accepted, sent, closing, closed>>

AbsNext == Start \/ Deliver \/ End \/ Fail \/ Transmit \/ Confirm

AbsSpec == AbsInit /\ [][AbsNext]_absVars
=============================================================================
