-------------------------- MODULE TungsteniteWs --------------------------
(***************************************************************************)
(* TungsteniteWsConnector::connect and one TungsteniteWsConnection of       *)
(* src/ws.rs: the calls next_frame, send_frame and close over the stream of *)
(* tokio-tungstenite, whose closing state machine decides what they answer. *)
(*                                                                         *)
(* The calls take &mut self, so one runs at a time; what interleaves with   *)
(* it is the peer, the network, and a caller that drops the future of a     *)
(* call before it is finished.  A payload is its number of bytes.           *)
(*                                                                         *)
(* tungstenite, the kernel's socket and the peer are outside src/.  What    *)
(* stands for them is the documented behaviour ws.rs is written against: a  *)
(* closing state, a stream that is fused by its first error, a buffer of    *)
(* outgoing frames that any flush may empty in part.                        *)
(***************************************************************************)
EXTENDS Naturals, Sequences, TransportError

CONSTANTS
    MaxFrame,         \* max_frame_bytes; 0 switches the limits off
    Sizes,            \* the payload sizes in use
    MaxSends,         \* bound: frames the caller gets into the buffer
    MaxPeerMessages   \* bound: messages the peer sends

ASSUME FrameAssumption == MaxFrame \in Nat /\ Sizes \subseteq Nat

ASSUME BoundsAssumption == MaxSends \in Nat /\ MaxPeerMessages \in Nat

VARIABLES
    pc,         \* which call is in progress
    answer,     \* what the last call returned
    proto,      \* tungstenite's WebSocketState
    ended,      \* the stream is fused: next() answers None for ever
    out,        \* frames buffered and not yet on the wire
    wire,       \* frames handed to the network, oldest first
    accepted,   \* the number of payloads buffered so far
    log,        \* what the peer has sent, oldest first
    read,       \* how much of it the decoder has taken
    peer        \* the other end: up, gone (its FIN has come), reset (its RST has);
                \* one that vanishes without either stays up

callVars == <<pc, answer>>
streamVars == <<proto, ended, out, wire, accepted, read>>
peerVars == <<log, peer>>
vars == <<callVars, streamVars, peerVars>>

(***************************************************************************)
(*   connecting    connect is waiting, its timer runs                       *)
(*   down          connect failed, there is no connection                   *)
(*   idle          no call in progress                                      *)
(*   next          in next_frame, at stream.next().await                    *)
(*   send, close   in send_frame or close, flushing                         *)
(***************************************************************************)
Flushing == {"send", "close"}
InCall == {"next"} \cup Flushing
Places == {"connecting", "down", "idle"} \cup InCall

Errors == {"ConnectTimeout", "Clean", "Unclean", "Io", "ProtocolViolation",
           "MessageTooLarge", "FrameTooLarge"}

Answers == {"none", "cancelled", "Ok", "Frame", "End"} \cup Errors

ProtoStates == {"active", "closedByUs", "closedByPeer", "closeAcknowledged",
                "terminated"}

\* text and binary are the same to the code; bad is what no decoder accepts.
Messages == [kind : {"data"}, size : Sizes]
            \cup [kind : {"ping", "pong", "close", "bad"}, size : {0}]

Data(n, s) == [kind |-> "data", nr |-> n, size |-> s]
Pong == [kind |-> "pong", nr |-> 0, size |-> 0]
CloseFrame == [kind |-> "close", nr |-> 0, size |-> 0]

Frames == [kind : {"data"}, nr : 1 .. MaxSends, size : Sizes] \cup {Pong, CloseFrame}

Init ==
    /\ pc = "connecting"
    /\ answer = "none"
    /\ proto = "active"
    /\ ended = FALSE
    /\ out = <<>>
    /\ wire = <<>>
    /\ accepted = 0
    /\ log = <<>>
    /\ read = 0
    /\ peer = "up"

-----------------------------------------------------------------------------
(* Errors and limits.                                                      *)

\* The errors of tungstenite that ws.rs tells apart.  Gone stands for the I/O
\* kinds UnexpectedEof, ConnectionReset, ConnectionAborted and BrokenPipe.
TungsteniteErrors == {"ConnectionClosed", "AlreadyClosed", "Gone", "OtherIo",
                      "ResetWithoutClosingHandshake", "Protocol", "Url",
                      "MessageTooLong", "Other"}

\* Mutant: the arm for ResetWithoutClosingHandshake is missing.
MapTungsteniteErrorNoReset(e) ==
    CASE e \in {"ConnectionClosed", "AlreadyClosed"} -> "Clean"
      [] e = "Gone" -> "Unclean"
      [] e = "OtherIo" -> "Io"
      [] e = "MessageTooLong" -> "MessageTooLarge"
      [] OTHER -> "ProtocolViolation"

\* Mutant: a variant of its own for what is not listed.
MapTungsteniteErrorUnlisted(e) ==
    CASE e \in {"ConnectionClosed", "AlreadyClosed"} -> "Clean"
      [] e \in {"Gone", "ResetWithoutClosingHandshake"} -> "Unclean"
      [] e = "OtherIo" -> "OtherIo"
      [] e = "MessageTooLong" -> "MessageTooLarge"
      [] OTHER -> "ProtocolViolation"

\* map_tungstenite_error; Clean and Unclean are the two values of
\* ConnectionClosed { clean }.
MapTungsteniteError(e) ==
    CASE e \in {"ConnectionClosed", "AlreadyClosed"} -> "Clean"
      [] e \in {"Gone", "ResetWithoutClosingHandshake"} -> "Unclean"
      [] e = "OtherIo" -> "Io"
      [] e = "MessageTooLong" -> "MessageTooLarge"
      [] OTHER -> "ProtocolViolation"

\* Mutant: frames on their way out are not limited.
WithinFrameLimitAlways(s) == TRUE

\* enforce_frame_limit lets a payload of s bytes pass.
WithinFrameLimit(s) == MaxFrame > 0 => s <= MaxFrame

\* The limits given to the decoder let a message of s bytes pass.
DecoderAccepts(s) == MaxFrame > 0 => s <= MaxFrame

-----------------------------------------------------------------------------
(* How a call begins and returns.                                          *)

\* The caller polls the future for the first time.
Begin(call) == pc' = call /\ answer' = "none"

Return(a) == pc' = "idle" /\ answer' = a

-----------------------------------------------------------------------------
(* connect.                                                                *)

Connected ==
    /\ pc = "connecting"
    /\ Begin("idle")
    /\ UNCHANGED <<streamVars, peerVars>>

\* What connect_async_with_config may fail with, and tungstenite's error.
ConnectFailures == {"badUrl", "refused", "reset", "dropped", "rejected"}

ConnectError(cause) ==
    CASE cause = "badUrl" -> "Url"
      [] cause = "refused" -> "OtherIo"
      [] cause = "reset" -> "Gone"
      [] cause = "dropped" -> "Protocol"    \* end of stream inside the handshake
      [] cause = "rejected" -> "Other"      \* an HTTP answer other than 101

ConnectFails(cause) ==
    /\ pc = "connecting"
    /\ pc' = "down"
    /\ answer' = MapTungsteniteError(ConnectError(cause))
    /\ UNCHANGED <<streamVars, peerVars>>

\* tokio::time::timeout over the whole of it.
ConnectTimesOut ==
    /\ pc = "connecting"
    /\ pc' = "down"
    /\ answer' = "ConnectTimeout"
    /\ UNCHANGED <<streamVars, peerVars>>

-----------------------------------------------------------------------------
(* next_frame.                                                             *)

\* A state in which tungstenite still accepts messages.
CanRead == proto \in {"active", "closedByUs"}

Arrived == log[read + 1]

NextFrame ==
    /\ pc = "idle"
    /\ Begin("next")
    /\ UNCHANGED <<streamVars, peerVars>>

\* Mutant: the loop goes on when the stream has ended.
ReadFusedWaits ==
    /\ pc = "next"
    /\ ended
    /\ UNCHANGED vars

\* The loop over the stream ends: next() answered None.
ReadFused ==
    /\ pc = "next"
    /\ ended
    /\ Return("Unclean")
    /\ UNCHANGED <<streamVars, peerVars>>

\* next() fails with e.  Whatever e is the stream is fused; the two ends of a
\* connection that tungstenite does not call an error are None to the loop.
ReadFails(e) ==
    /\ ended' = TRUE
    /\ IF e \in {"ConnectionClosed", "AlreadyClosed"}
       THEN Return("Unclean")
       ELSE Return(MapTungsteniteError(e))

Unfused == pc = "next" /\ ~ended
Unread == Unfused /\ read < Len(log)

\* A payload is handed over, or refused by the second look at its size.
TakeFrame ==
    /\ Unread
    /\ CanRead
    /\ Arrived.kind = "data"
    /\ DecoderAccepts(Arrived.size)
    /\ read' = read + 1
    /\ Return(IF WithinFrameLimit(Arrived.size) THEN "Frame" ELSE "FrameTooLarge")
    /\ UNCHANGED <<proto, ended, out, wire, accepted, peerVars>>

\* Mutant: a control frame ends the frames.
SkipControlEnds ==
    /\ Unread
    /\ CanRead
    /\ Arrived.kind \in {"ping", "pong"}
    /\ read' = read + 1
    /\ Return("End")
    /\ UNCHANGED <<proto, ended, out, wire, accepted, peerVars>>

\* Ping and Pong: the loop goes on.  tungstenite answers a Ping by itself, and
\* has the Pong in its buffer before the loop can suspend again.
SkipControl ==
    /\ Unread
    /\ CanRead
    /\ Arrived.kind \in {"ping", "pong"}
    /\ read' = read + 1
    /\ out' = IF Arrived.kind = "ping" /\ proto = "active"
              THEN Append(out, Pong)
              ELSE out
    /\ UNCHANGED <<callVars, proto, ended, wire, accepted, peerVars>>

\* The peer's Close: Ok(None).  If it is the first of the two, tungstenite has
\* the reply ready and sends it with the next flush.
TakeClose ==
    /\ Unread
    /\ CanRead
    /\ Arrived.kind = "close"
    /\ read' = read + 1
    /\ Return("End")
    /\ \/ /\ proto = "active"
          /\ proto' = "closedByPeer"
          /\ out' = Append(out, CloseFrame)
       \/ /\ proto = "closedByUs"
          /\ proto' = "closeAcknowledged"
          /\ UNCHANGED out
    /\ UNCHANGED <<ended, wire, accepted, peerVars>>

\* What the decoder does not accept: garbage, a message over the limit, or
\* anything at all after the peer's Close.
DecoderRefuses ==
    /\ Unread
    /\ read' = read + 1
    /\ \/ (CanRead => Arrived.kind = "bad") /\ ReadFails("Protocol")
       \/ CanRead /\ ~DecoderAccepts(Arrived.size) /\ ReadFails("MessageTooLong")
    /\ UNCHANGED <<proto, out, wire, accepted, peerVars>>

\* The connection ends behind the last message.
ReadEof ==
    /\ Unfused
    /\ peer = "gone"
    /\ read = Len(log)
    /\ proto' = "terminated"
    /\ ReadFails(IF CanRead THEN "ResetWithoutClosingHandshake" ELSE "ConnectionClosed")
    /\ UNCHANGED <<out, wire, accepted, read, peerVars>>

\* The connection is reset; what is unread may be lost with it.
ReadReset ==
    /\ Unfused
    /\ peer = "reset"
    /\ \E e \in {"Gone", "OtherIo"} :
          ReadFails(IF ~CanRead /\ e = "Gone" THEN "ConnectionClosed" ELSE e)
    /\ UNCHANGED <<proto, out, wire, accepted, read, peerVars>>

-----------------------------------------------------------------------------
(* send_frame and close.                                                   *)

\* The sink takes no message any more: SendAfterClosing or AlreadyClosed.
SinkRefuses ==
    /\ proto # "active"
    /\ Return(MapTungsteniteError(
                  IF proto = "terminated" THEN "AlreadyClosed" ELSE "Protocol"))
    /\ UNCHANGED <<streamVars, peerVars>>

\* Mutant: feed instead of send, which returns without a flush.
SendFrameFeeds(s) ==
    /\ pc = "idle"
    /\ WithinFrameLimit(s)
    /\ proto = "active"
    /\ accepted < MaxSends
    /\ out' = Append(out, Data(accepted + 1, s))
    /\ accepted' = accepted + 1
    /\ Return("Ok")
    /\ UNCHANGED <<proto, ended, wire, read, peerVars>>

\* send_frame up to its flush: the limit is looked at before the connection.
\* If an earlier flush is blocked the sink waits for it before it takes the
\* frame and not after; that wait is part of the flush here.
SendFrame(s) ==
    /\ pc = "idle"
    /\ \/ /\ ~WithinFrameLimit(s)
          /\ Return("FrameTooLarge")
          /\ UNCHANGED <<streamVars, peerVars>>
       \/ WithinFrameLimit(s) /\ SinkRefuses
       \/ /\ WithinFrameLimit(s)
          /\ proto = "active"
          /\ accepted < MaxSends
          /\ out' = Append(out, Data(accepted + 1, s))
          /\ accepted' = accepted + 1
          /\ Begin("send")
          /\ UNCHANGED <<proto, ended, wire, read, peerVars>>

\* Mutant: the Close goes out as a raw frame, past the closing state.
CloseRaw ==
    /\ pc = "idle"
    /\ proto = "active"
    /\ CloseFrame \notin {out[i] : i \in DOMAIN out} \cup {wire[i] : i \in DOMAIN wire}
    /\ out' = Append(out, CloseFrame)
    /\ Begin("close")
    /\ UNCHANGED <<proto, ended, wire, accepted, read, peerVars>>

\* Mutant: the Close overtakes what is buffered.
CloseOvertakes ==
    /\ pc = "idle"
    /\ \/ SinkRefuses
       \/ /\ proto = "active"
          /\ proto' = "closedByUs"
          /\ out' = <<CloseFrame>> \o out
          /\ Begin("close")
          /\ UNCHANGED <<ended, wire, accepted, read, peerVars>>

\* close up to its flush.
Close ==
    /\ pc = "idle"
    /\ \/ SinkRefuses
       \/ /\ proto = "active"
          /\ proto' = "closedByUs"
          /\ out' = Append(out, CloseFrame)
          /\ Begin("close")
          /\ UNCHANGED <<ended, wire, accepted, read, peerVars>>

\* The flush of send(..).await has written everything.
SendDone ==
    /\ pc \in Flushing
    /\ out = <<>>
    /\ Return("Ok")
    /\ UNCHANGED <<streamVars, peerVars>>

-----------------------------------------------------------------------------
(* The socket.                                                             *)

\* Some of the buffer goes out.  A read flushes too when tungstenite has a
\* reply of its own to send.
FlushSome ==
    /\ pc \in Flushing \/ (Unfused /\ \E i \in DOMAIN out : out[i].kind # "data")
    /\ \E n \in DOMAIN out :
          /\ wire' = wire \o SubSeq(out, 1, n)
          /\ out' = SubSeq(out, n + 1, Len(out))
    /\ UNCHANGED <<callVars, proto, ended, accepted, read, peerVars>>

\* The socket refuses the buffer; the buffer stays as it is.
FlushFails ==
    /\ peer # "up"
    /\ out # <<>>
    /\ \E e \in {"Gone", "OtherIo"} :
          \/ /\ pc \in Flushing
             /\ Return(MapTungsteniteError(e))
             /\ UNCHANGED ended
          \/ /\ Unfused
             /\ \E i \in DOMAIN out : out[i].kind # "data"
             /\ ReadFails(e)
    /\ UNCHANGED <<proto, out, wire, accepted, read, peerVars>>

-----------------------------------------------------------------------------
(* The caller drops the future of a call; the peer.                        *)

Cancel ==
    /\ pc \in InCall
    /\ Return("cancelled")
    /\ UNCHANGED <<streamVars, peerVars>>

PeerSends ==
    /\ pc \in {"idle"} \cup InCall
    /\ peer = "up"
    /\ Len(log) < MaxPeerMessages
    /\ \E m \in Messages : log' = Append(log, m)
    /\ UNCHANGED <<callVars, streamVars, peer>>

PeerGoes ==
    /\ pc \in {"idle"} \cup InCall
    /\ \/ peer = "up" /\ peer' \in {"gone", "reset"}
       \/ peer = "gone" /\ peer' = "reset"
    /\ UNCHANGED <<callVars, streamVars, log>>

-----------------------------------------------------------------------------
Connect ==
    \/ Connected
    \/ \E cause \in ConnectFailures : ConnectFails(cause)
    \/ ConnectTimesOut

Read ==
    \/ ReadFused
    \/ TakeFrame
    \/ SkipControl
    \/ TakeClose
    \/ DecoderRefuses
    \/ ReadEof
    \/ ReadReset

Flush == FlushSome \/ FlushFails \/ SendDone

Caller == NextFrame \/ (\E s \in Sizes : SendFrame(s)) \/ Close \/ Cancel

\* connect has failed and left nothing behind.
Down == pc = "down" /\ UNCHANGED vars

Next == Connect \/ Read \/ Flush \/ Caller \/ PeerSends \/ PeerGoes \/ Down

Spec == Init /\ [][Next]_vars

\* The timer of connect runs out; what is in the socket wakes the reader; a flush
\* with nothing left to write ends, and so does one to a peer that has closed its
\* socket, which the kernel takes or refuses.  Nothing is asked of a peer that is
\* up: it need not send, nor make room for what is sent to it.
FairSpec ==
    Spec /\ WF_vars(ConnectTimesOut)
         /\ WF_vars(Read)
         /\ WF_vars(pc \in Flushing /\ (peer # "up" \/ out = <<>>) /\ Flush)

-----------------------------------------------------------------------------
(* Properties.                                                             *)

\* The peer's Close has been read; our own Close is on the wire.
PeerCloseRead == \E i \in 1 .. read : log[i].kind = "close"
OwnCloseSent == \E i \in DOMAIN wire : wire[i].kind = "close"

\* The numbers of frames in their order, 0 for a control frame.
Numbers(frames) == [i \in DOMAIN frames |-> frames[i].nr]

\* The variables have their types.
TypeOK ==
    /\ pc \in Places
    /\ answer \in Answers
    /\ proto \in ProtoStates
    /\ ended \in BOOLEAN
    /\ out \in Seq(Frames)
    /\ wire \in Seq(Frames)
    /\ accepted \in 0 .. MaxSends
    /\ log \in Seq(Messages)
    /\ read \in 0 .. Len(log)
    /\ peer \in {"up", "gone", "reset"}

\* max_frame_bytes bounds every payload that is buffered, sent or delivered.
WithinLimit ==
    MaxFrame > 0 =>
        /\ \A i \in DOMAIN out : out[i].size <= MaxFrame
        /\ \A i \in DOMAIN wire : wire[i].size <= MaxFrame
        /\ answer = "Frame" => log[read].size <= MaxFrame

\* Ok(None) is the peer's first Close and nothing else: no control frame, reset
\* or end of the stream passes for it, and it is answered once.
EndIsTrue ==
    answer = "End" =>
        /\ log[read].kind = "close"
        /\ \A i \in 1 .. read - 1 : log[i].kind # "close"

\* The caller sees a duplex of frames: nothing comes in after the end of the
\* receiving side, whatever ended it; what goes out is a prefix of what was
\* accepted, our Close behind all of it.  So it is for a caller that drops its
\* calls, and for a peer that closes while a frame or a Pong is still buffered.
Duplex == INSTANCE FrameDuplex WITH
    over <- ended \/ ~CanRead,
    sent <- Numbers(wire),
    closing <- proto # "active",
    closed <- OwnCloseSent

ImplementsDuplex == Duplex!AbsSpec

\* When send_frame or close answers Ok everything accepted is on the wire, in
\* order and once, frames of cancelled calls included.
OkMeansSent ==
    pc = "idle" /\ answer = "Ok" =>
        /\ out = <<>>
        /\ Duplex!InOrder(Numbers(wire))
        /\ Duplex!AllSent

\* Our Close is the last frame this side sends: no payload and no Pong follows
\* it, however the calls, cancellations and replies are mixed.
NothingAfterOwnClose ==
    \A i \in DOMAIN wire : wire[i].kind = "close" => i = Len(wire) /\ out = <<>>

\* On an open connection an error that is not retryable, other than the refusal
\* of the caller's own frame, is the fault of one side: a call after the closing
\* began, or what the peer sent.  A lost connection is never reported as one.
PermanentIsDeserved ==
    pc # "down" /\ Permanent(answer) /\ answer # "FrameTooLarge" =>
        \/ answer = "MessageTooLarge" /\ log[read].size > MaxFrame
        \/ answer = "ProtocolViolation" /\ read > 0 /\ log[read].kind = "bad"
        \/ answer = "ProtocolViolation" /\ PeerCloseRead
        \/ answer = "ProtocolViolation" /\ proto = "closedByUs"

\* connect returns; and when the connection has ended or was reset, no call waits
\* for it any longer.  A peer that vanishes without a word is still up.
EveryCallReturns ==
    /\ pc = "connecting" ~> pc # "connecting"
    /\ \A call \in InCall : (pc = call /\ peer # "up") ~> pc # call

\* "true means that the two ends have completed the closing handshake": what
\* the documentation of ConnectionClosed::clean says.
CleanMeansHandshake == answer = "Clean" => PeerCloseRead /\ OwnCloseSent

\* "The same input must fail again": what the documentation of is_retryable
\* says of a permanent error.  A handshake that breaks off is no such input.
BrokenHandshakeIsTemporary ==
    [][ConnectFails("dropped") => ~Permanent(answer')]_vars
=============================================================================
