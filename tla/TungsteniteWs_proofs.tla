----------------------- MODULE TungsteniteWs_proofs -----------------------
(***************************************************************************)
(* Proofs about TungsteniteWs, for every frame limit, every set of payload  *)
(* sizes and every number of frames and messages.                          *)
(*                                                                         *)
(* The frames on the wire and those still buffered behind them are one line *)
(* of frames.  A flush moves the mark between the two and leaves the line   *)
(* as it is; everything else can only join it at the end.  What is true of  *)
(* the line is therefore true of what has gone out, however the flushes cut *)
(* it.                                                                     *)
(***************************************************************************)
EXTENDS TungsteniteWs, SequenceTheorems, TLAPS

Line == wire \o out

\* Frame f joins the line at its end.
Joins(f) == wire' = wire /\ out' = Append(out, f)

LineKept == wire' = wire /\ out' = out

\* The payloads among frames.
Payloads(frames) == {frames[i].nr : i \in DOMAIN frames} \ {0}

LineInOrder ==
    /\ Duplex!InOrder(Numbers(Line))
    /\ Payloads(Line) = 1 .. accepted

LineFits == MaxFrame > 0 => \A i \in DOMAIN Line : Line[i].size <= MaxFrame

CloseIsLast ==
    \A i \in DOMAIN Line :
        Line[i].kind = "close" => i = Len(Line) /\ proto # "active"

\* What the closing state says of the messages read.
ReadToClose ==
    /\ CanRead => \A i \in 1 .. read : log[i].kind # "close"
    /\ proto \in {"closedByPeer", "closeAcknowledged"} => PeerCloseRead
    /\ proto = "terminated" => ended

\* What an answer says of the call that gave it.
AnswerIsTrue ==
    /\ pc \in InCall \cup {"connecting"} => answer = "none"
    /\ answer = "Ok" => out = <<>>
    /\ answer \in {"Frame", "End", "MessageTooLarge"} => read > 0
    /\ answer = "Frame" => WithinFrameLimit(log[read].size)
    /\ EndIsTrue
    /\ PermanentIsDeserved

IInv == TypeOK /\ LineInOrder /\ LineFits /\ CloseIsLast /\ ReadToClose /\ AnswerIsTrue

-----------------------------------------------------------------------------
(* The line of frames.                                                     *)

\* The wire is the front of the line, the buffer the rest of it.
LEMMA LineParts ==
    ASSUME TypeOK
    PROVE  /\ Line \in Seq(Frames)
           /\ Len(Line) = Len(wire) + Len(out)
           /\ \A i \in 1 .. Len(wire) : Line[i] = wire[i]
  <1>1. wire \in Seq(Frames) /\ out \in Seq(Frames)
    BY DEF TypeOK
  <1> QED BY <1>1, ConcatProperties DEF Line

LEMMA LineJoined ==
    ASSUME TypeOK, NEW f \in Frames, Joins(f)
    PROVE  /\ wire' \in Seq(Frames)
           /\ out' \in Seq(Frames)
           /\ Line' = Append(Line, f)
  <1>1. wire \in Seq(Frames) /\ out \in Seq(Frames) /\ <<f>> \in Seq(Frames)
    BY DEF TypeOK
  <1>2. wire' = wire /\ out' = Append(out, f) /\ out' \in Seq(Frames)
    BY <1>1, AppendProperties DEF Joins
  <1>3. Append(out, f) = out \o <<f>> /\ Append(Line, f) = Line \o <<f>>
    BY <1>1, LineParts, AppendIsConcat
  <1>4. wire \o (out \o <<f>>) = (wire \o out) \o <<f>>
    BY <1>1, ConcatAssociative
  <1> QED BY <1>1, <1>2, <1>3, <1>4 DEF Line

LEMMA CutInTwo ==
    ASSUME NEW S, NEW t \in Seq(S), NEW n \in 1 .. Len(t)
    PROVE  /\ SubSeq(t, 1, n) \in Seq(S)
           /\ SubSeq(t, n + 1, Len(t)) \in Seq(S)
           /\ SubSeq(t, 1, n) \o SubSeq(t, n + 1, Len(t)) = t
  <1>1. Len(t) \in Nat /\ \A i \in 1 .. Len(t) : t[i] \in S
    BY LenProperties, ElementOfSeq
  <1>2. SubSeq(t, 1, n) \in Seq(S)
    <2>1. \A i \in 1 .. n : t[i] \in S
      BY <1>1
    <2> QED BY <2>1, SubSeqProperties
  <1>3. SubSeq(t, n + 1, Len(t)) \in Seq(S)
    <2>1. \A i \in n + 1 .. Len(t) : t[i] \in S
      BY <1>1
    <2> QED BY <1>1, <2>1, SubSeqProperties
  <1>4. 1 \in 1 .. Len(t) + 1 /\ n \in 1 - 1 .. Len(t) /\ Len(t) \in n .. Len(t)
    BY <1>1
  <1>5. SubSeq(t, 1, n) \o SubSeq(t, n + 1, Len(t)) = SubSeq(t, 1, Len(t))
    BY <1>4, ConcatAdjacentSubSeq
  <1> QED BY <1>2, <1>3, <1>5, SubSeqFull

LEMMA ConcatIsLonger ==
    ASSUME NEW S, NEW s \in Seq(S), NEW t \in Seq(S)
    PROVE  s \o t \in Seq(S) /\ Len(s) <= Len(s \o t)
  <1>1. s \o t \in Seq(S) /\ Len(s \o t) = Len(s) + Len(t)
    BY ConcatProperties
  <1>2. Len(s) \in Nat /\ Len(t) \in Nat
    BY LenProperties
  <1>3. \A a, b \in Nat : a <= a + b
    OBVIOUS
  <1> QED BY <1>1, <1>2, <1>3, Zenon

\* A flush moves the mark between wire and buffer and leaves the line alone.
LEMMA LineFlushed ==
    ASSUME TypeOK, FlushSome
    PROVE  /\ wire' \in Seq(Frames)
           /\ out' \in Seq(Frames)
           /\ Line' = Line
           /\ Len(wire) <= Len(wire')
  <1>1. wire \in Seq(Frames) /\ out \in Seq(Frames)
    BY DEF TypeOK
  <1>2. ASSUME NEW front \in Seq(Frames), NEW rest \in Seq(Frames)
        PROVE  /\ wire \o front \in Seq(Frames)
               /\ Len(wire) <= Len(wire \o front)
               /\ (wire \o front) \o rest = wire \o (front \o rest)
    <2>1. wire \o front \in Seq(Frames) /\ Len(wire) <= Len(wire \o front)
      BY <1>1, ConcatIsLonger
    <2>2. (wire \o front) \o rest = wire \o (front \o rest)
      BY <1>1, ConcatAssociative
    <2> QED BY <2>1, <2>2, Zenon
  <1>3. PICK n \in 1 .. Len(out) :
            wire' = wire \o SubSeq(out, 1, n) /\ out' = SubSeq(out, n + 1, Len(out))
    BY <1>1, LenProperties DEF FlushSome
  <1>4. /\ SubSeq(out, 1, n) \in Seq(Frames)
        /\ SubSeq(out, n + 1, Len(out)) \in Seq(Frames)
        /\ SubSeq(out, 1, n) \o SubSeq(out, n + 1, Len(out)) = out
    BY <1>1, CutInTwo
  <1> QED BY <1>2, <1>3, <1>4, Zenon DEF Line

-----------------------------------------------------------------------------
(* What joins the line keeps it in order.                                  *)

LEMMA FramesAreTyped ==
    /\ Pong \in Frames /\ Pong.nr = 0 /\ Pong.size = 0
    /\ CloseFrame \in Frames /\ CloseFrame.nr = 0 /\ CloseFrame.size = 0
    /\ \A f \in Frames : f.nr \in Nat
    /\ \A n \in 1 .. MaxSends, s \in Sizes : Data(n, s) \in Frames
  BY BoundsAssumption DEF Frames, Pong, CloseFrame, Data

LEMMA OrderKept ==
    ASSUME NEW s \in Seq(Frames), NEW f \in Frames, NEW k \in Nat,
           Duplex!InOrder(Numbers(s)), Payloads(s) = 1 .. k, f.nr \in {0, k + 1}
    PROVE  /\ Duplex!InOrder(Numbers(Append(s, f)))
           /\ Payloads(Append(s, f)) = (1 .. k) \cup ({f.nr} \ {0})
  <1> DEFINE t == Append(s, f)
  <1>1. /\ t \in Seq(Frames) /\ Len(t) = Len(s) + 1
        /\ \A i \in 1 .. Len(s) : t[i] = s[i]
        /\ t[Len(s) + 1] = f
        /\ Len(s) \in Nat
    BY AppendProperties, LenProperties
  <1> HIDE DEF t
  <1>2. DOMAIN s = 1 .. Len(s) /\ DOMAIN t = 1 .. Len(s) + 1
    BY <1>1, LenProperties
  <1>3. \A i \in 1 .. Len(s) : s[i].nr \in Nat
    BY FramesAreTyped, ElementOfSeq
  <1>4. /\ Numbers(s) = [i \in 1 .. Len(s) |-> s[i].nr]
        /\ Numbers(t) = [i \in 1 .. Len(s) + 1 |-> t[i].nr]
    BY <1>2 DEF Numbers
  <1>5. \A i \in 1 .. Len(s) : Numbers(t)[i] = Numbers(s)[i]
    BY <1>1, <1>4
  <1>6. Numbers(t)[Len(s) + 1] = f.nr
    BY <1>1, <1>4
  <1>7. {Numbers(t)[i] : i \in 1 .. Len(s)} \ {0} = 1 .. k
    <2>1. \A i \in 1 .. Len(s) : Numbers(t)[i] = s[i].nr
      BY <1>4, <1>5
    <2>2. {Numbers(t)[i] : i \in 1 .. Len(s)} = {s[i].nr : i \in DOMAIN s}
      BY <1>2, <2>1
    <2> QED BY <2>2 DEF Payloads
  <1>8. Payloads(t) = (1 .. k) \cup ({f.nr} \ {0})
    <2>1. {t[i].nr : i \in DOMAIN t} = {Numbers(t)[i] : i \in 1 .. Len(s)} \cup {f.nr}
      <3>1. \A i \in 1 .. Len(s) + 1 : Numbers(t)[i] = t[i].nr
        BY <1>4
      <3>2. 1 .. Len(s) + 1 = (1 .. Len(s)) \cup {Len(s) + 1}
        BY <1>1
      <3>3. {t[i].nr : i \in DOMAIN t} = {Numbers(t)[i] : i \in 1 .. Len(s) + 1}
        BY <3>1, <1>2
      <3> QED BY <3>2, <3>3, <1>6
    <2> QED BY <2>1, <1>7 DEF Payloads
  <1>9. ASSUME NEW j \in 1 .. Len(s) + 1, Numbers(t)[j] # 0
        PROVE  {Numbers(t)[i] : i \in 1 .. j - 1} \ {0} = 1 .. Numbers(t)[j] - 1
    <2>1. CASE j <= Len(s)
      <3>1. j \in DOMAIN Numbers(s) /\ Numbers(s)[j] # 0
        BY <2>1, <1>1, <1>4, <1>5, <1>9
      <3>2. {Numbers(s)[i] : i \in 1 .. j - 1} \ {0} = 1 .. Numbers(s)[j] - 1
        BY <3>1 DEF Duplex!InOrder
      <3>3. {Numbers(t)[i] : i \in 1 .. j - 1} = {Numbers(s)[i] : i \in 1 .. j - 1}
        BY <2>1, <1>1, <1>5
      <3> QED BY <3>2, <3>3, <2>1, <1>1, <1>5
    <2>2. CASE j = Len(s) + 1
      <3>1. j - 1 = Len(s) /\ Numbers(t)[j] = k + 1
        BY <2>2, <1>1, <1>6, <1>9
      <3> QED BY <3>1, <1>7
    <2> QED BY <2>1, <2>2, <1>1
  <1>10. Duplex!InOrder(Numbers(t))
    BY <1>4, <1>9 DEF Duplex!InOrder
  <1> QED BY <1>8, <1>10 DEF t

-----------------------------------------------------------------------------
(* What a step does to the line.                                           *)

LineStep ==
    \/ LineKept /\ UNCHANGED accepted
    \/ proto = "active" /\ Joins(Pong) /\ UNCHANGED accepted
    \/ proto = "active" /\ proto' # "active" /\ Joins(CloseFrame) /\ UNCHANGED accepted
    \/ \E s \in Sizes :
          /\ proto = "active"
          /\ WithinFrameLimit(s)
          /\ accepted < MaxSends
          /\ Joins(Data(accepted + 1, s))
          /\ accepted' = accepted + 1
    \/ FlushSome

\* Frames join while the closing has not begun, and the closing is for good.
LEMMA EveryLineStep ==
    ASSUME [Next]_vars
    PROVE  LineStep /\ (proto # "active" => proto' # "active")
  <1> USE DEF LineStep, LineKept, Joins, vars, callVars, streamVars, peerVars
  <1>1. CASE UNCHANGED vars \/ Connect \/ Down \/ PeerSends \/ PeerGoes \/ NextFrame \/ Cancel
    BY <1>1 DEF Connect, Connected, ConnectFails, ConnectTimesOut, Down, PeerSends,
                PeerGoes, NextFrame, Cancel
  <1>2. CASE ReadFused \/ TakeFrame \/ DecoderRefuses \/ ReadEof \/ ReadReset
    BY <1>2 DEF ReadFused, TakeFrame, DecoderRefuses, ReadEof, ReadReset
  <1>3. CASE SkipControl
    BY <1>3 DEF SkipControl
  <1>4. CASE TakeClose
    BY <1>4 DEF TakeClose
  <1>5. CASE FlushSome
    BY <1>5 DEF FlushSome
  <1>6. CASE FlushFails \/ SendDone
    BY <1>6 DEF FlushFails, SendDone
  <1>7. ASSUME NEW s \in Sizes, SendFrame(s)
        PROVE  LineStep /\ (proto # "active" => proto' # "active")
    BY <1>7 DEF SendFrame, SinkRefuses
  <1>8. CASE Close
    BY <1>8 DEF Close, SinkRefuses
  <1> QED BY <1>1, <1>2, <1>3, <1>4, <1>5, <1>6, <1>7, <1>8 DEF Next, Read, Flush, Caller

LEMMA LineTyped ==
    ASSUME TypeOK, LineStep
    PROVE  wire' \in Seq(Frames) /\ out' \in Seq(Frames) /\ accepted' \in 0 .. MaxSends
  <1>1. wire \in Seq(Frames) /\ out \in Seq(Frames) /\ accepted \in 0 .. MaxSends
    BY DEF TypeOK
  <1>2. CASE LineKept /\ UNCHANGED accepted
    BY <1>1, <1>2 DEF LineKept
  <1>3. ASSUME NEW f \in {Pong, CloseFrame}, Joins(f), UNCHANGED accepted
        PROVE  wire' \in Seq(Frames) /\ out' \in Seq(Frames) /\ accepted' \in 0 .. MaxSends
    BY <1>1, <1>3, FramesAreTyped, LineJoined
  <1>4. ASSUME NEW s \in Sizes, accepted < MaxSends,
               Joins(Data(accepted + 1, s)), accepted' = accepted + 1
        PROVE  wire' \in Seq(Frames) /\ out' \in Seq(Frames) /\ accepted' \in 0 .. MaxSends
    <2>1. accepted + 1 \in 1 .. MaxSends
      BY <1>1, <1>4, BoundsAssumption
    <2> QED BY <1>4, <2>1, FramesAreTyped, LineJoined
  <1>5. CASE FlushSome
    BY <1>1, <1>5, LineFlushed DEF FlushSome
  <1> QED BY <1>2, <1>3, <1>4, <1>5 DEF LineStep

LEMMA LineInOrderStep ==
    ASSUME TypeOK, LineInOrder, LineStep
    PROVE  LineInOrder'
  <1>1. Line \in Seq(Frames) /\ accepted \in Nat
    BY LineParts, BoundsAssumption DEF TypeOK
  <1>2. ASSUME Line' = Line, accepted' = accepted PROVE LineInOrder'
    <2>1. Numbers(Line') = Numbers(Line) /\ Payloads(Line') = Payloads(Line)
      BY <1>2
    <2> QED BY <2>1, <1>2 DEF LineInOrder
  <1>3. CASE LineKept /\ UNCHANGED accepted
    BY <1>2, <1>3 DEF LineKept, Line
  <1>4. ASSUME NEW f \in Frames, f.nr = 0, Joins(f), UNCHANGED accepted
        PROVE  LineInOrder'
    <2>1. Line' = Append(Line, f) /\ accepted' = accepted
      BY <1>4, LineJoined
    <2>2. Duplex!InOrder(Numbers(Line)) /\ Payloads(Line) = 1 .. accepted
      BY DEF LineInOrder
    <2>3. /\ Duplex!InOrder(Numbers(Append(Line, f)))
          /\ Payloads(Append(Line, f)) = (1 .. accepted) \cup ({f.nr} \ {0})
      BY <1>1, <1>4, <2>2, OrderKept
    <2>4. (1 .. accepted) \cup ({f.nr} \ {0}) = 1 .. accepted
      BY <1>4
    <2> QED BY <2>1, <2>3, <2>4 DEF LineInOrder
  <1>5. ASSUME NEW s \in Sizes, accepted < MaxSends,
               Joins(Data(accepted + 1, s)), accepted' = accepted + 1
        PROVE  LineInOrder'
    <2> DEFINE f == Data(accepted + 1, s)
    <2>1. f \in Frames /\ f.nr = accepted + 1 /\ accepted + 1 \in Nat
      <3>1. accepted + 1 \in 1 .. MaxSends
        BY <1>1, <1>5, BoundsAssumption
      <3> QED BY <3>1, FramesAreTyped DEF Data
    <2> HIDE DEF f
    <2>2. Line' = Append(Line, f)
      BY <1>5, <2>1, LineJoined DEF f
    <2>3. Duplex!InOrder(Numbers(Line)) /\ Payloads(Line) = 1 .. accepted
      BY DEF LineInOrder
    <2>4. /\ Duplex!InOrder(Numbers(Append(Line, f)))
          /\ Payloads(Append(Line, f)) = (1 .. accepted) \cup ({f.nr} \ {0})
      BY <1>1, <2>1, <2>3, OrderKept
    <2>5. (1 .. accepted) \cup ({f.nr} \ {0}) = 1 .. accepted + 1
      BY <1>1, <2>1
    <2> QED BY <1>5, <2>2, <2>4, <2>5 DEF LineInOrder
  <1>6. CASE FlushSome
    BY <1>2, <1>6, LineFlushed DEF FlushSome
  <1> QED BY <1>3, <1>4, <1>5, <1>6, FramesAreTyped DEF LineStep

LEMMA LineFitsStep ==
    ASSUME TypeOK, LineFits, LineStep
    PROVE  LineFits'
  <1>1. Line \in Seq(Frames)
    BY LineParts
  <1>2. ASSUME Line' = Line PROVE LineFits'
    BY <1>2 DEF LineFits
  <1>3. ASSUME NEW f \in Frames, Joins(f), MaxFrame > 0 => f.size <= MaxFrame
        PROVE  LineFits'
    <2>1. /\ DOMAIN Line = 1 .. Len(Line) /\ Len(Line) \in Nat
          /\ DOMAIN Line' = 1 .. Len(Line) + 1
          /\ \A i \in 1 .. Len(Line) : Line'[i] = Line[i]
          /\ Line'[Len(Line) + 1] = f
      BY <1>1, <1>3, LineJoined, AppendProperties, LenProperties
    <2> QED BY <1>3, <2>1 DEF LineFits
  <1>4. CASE LineKept
    BY <1>2, <1>4 DEF LineKept, Line
  <1>5. ASSUME NEW f \in Frames, f.size = 0, Joins(f) PROVE LineFits'
    BY <1>3, <1>5, FrameAssumption
  <1>6. ASSUME NEW s \in Sizes, accepted < MaxSends, WithinFrameLimit(s),
               Joins(Data(accepted + 1, s))
        PROVE  LineFits'
    <2>1. accepted + 1 \in 1 .. MaxSends
      BY <1>6, BoundsAssumption DEF TypeOK
    <2>2. Data(accepted + 1, s) \in Frames
      BY <2>1, FramesAreTyped
    <2>3. Data(accepted + 1, s).size = s
      BY DEF Data
    <2> QED BY <1>3, <1>6, <2>2, <2>3 DEF WithinFrameLimit
  <1>7. CASE FlushSome
    BY <1>2, <1>7, LineFlushed
  <1> QED BY <1>4, <1>5, <1>6, <1>7, FramesAreTyped DEF LineStep

\* A Close in the line means that the closing has begun, and then nothing joins.
LEMMA CloseIsLastStep ==
    ASSUME TypeOK, CloseIsLast, LineStep, proto # "active" => proto' # "active"
    PROVE  CloseIsLast'
  <1>1. Line \in Seq(Frames)
    BY LineParts
  <1>2. ASSUME Line' = Line PROVE CloseIsLast'
    BY <1>2 DEF CloseIsLast
  <1>3. ASSUME NEW f \in Frames, Joins(f), proto = "active",
               f.kind = "close" => proto' # "active"
        PROVE  CloseIsLast'
    <2>1. /\ DOMAIN Line = 1 .. Len(Line) /\ Len(Line) \in Nat
          /\ DOMAIN Line' = 1 .. Len(Line) + 1 /\ Len(Line') = Len(Line) + 1
          /\ \A i \in 1 .. Len(Line) : Line'[i] = Line[i]
          /\ Line'[Len(Line) + 1] = f
      BY <1>1, <1>3, LineJoined, AppendProperties, LenProperties
    <2>2. \A i \in 1 .. Len(Line) : Line[i].kind # "close"
      BY <1>3, <2>1 DEF CloseIsLast
    <2> QED BY <1>3, <2>1, <2>2 DEF CloseIsLast
  <1>4. CASE LineKept
    BY <1>2, <1>4 DEF LineKept, Line
  <1>5. CASE proto = "active" /\ Joins(Pong)
    BY <1>3, <1>5, FramesAreTyped DEF Pong
  <1>6. CASE proto = "active" /\ proto' # "active" /\ Joins(CloseFrame)
    BY <1>3, <1>6, FramesAreTyped
  <1>7. ASSUME NEW s \in Sizes, accepted < MaxSends, proto = "active",
               Joins(Data(accepted + 1, s))
        PROVE  CloseIsLast'
    <2>1. accepted + 1 \in 1 .. MaxSends
      BY <1>7, BoundsAssumption DEF TypeOK
    <2>2. Data(accepted + 1, s) \in Frames
      BY <2>1, FramesAreTyped
    <2>3. Data(accepted + 1, s).kind # "close"
      BY DEF Data
    <2> QED BY <1>3, <1>7, <2>2, <2>3
  <1>8. CASE FlushSome
    BY <1>2, <1>8, LineFlushed
  <1> QED BY <1>4, <1>5, <1>6, <1>7, <1>8 DEF LineStep

-----------------------------------------------------------------------------
(* Types.                                                                  *)

LEMMA AnswersAreTyped ==
    /\ \A e \in TungsteniteErrors : MapTungsteniteError(e) \in Errors
    /\ \A cause \in ConnectFailures : ConnectError(cause) \in TungsteniteErrors
  BY DEF TungsteniteErrors, MapTungsteniteError, Errors, ConnectFailures, ConnectError

LEMMA TypeStep ==
    ASSUME TypeOK, [Next]_vars
    PROVE  TypeOK'
  <1>1. wire' \in Seq(Frames) /\ out' \in Seq(Frames) /\ accepted' \in 0 .. MaxSends
    BY EveryLineStep, LineTyped
  <1> DEFINE Rest == /\ pc \in Places
                     /\ answer \in Answers
                     /\ proto \in ProtoStates
                     /\ ended \in BOOLEAN
                     /\ log \in Seq(Messages)
                     /\ read \in 0 .. Len(log)
                     /\ peer \in {"up", "gone", "reset"}
  <1>2. SUFFICES Rest'
    BY <1>1 DEF TypeOK
  <1>3. Rest
    BY DEF TypeOK
  <1>4. Len(log) \in Nat
    BY <1>3, LenProperties
  <1> USE DEF Places, InCall, Flushing, Answers, Errors, ProtoStates, callVars,
              streamVars, peerVars, Begin, Return
  <1>5. CASE UNCHANGED vars \/ Down
    BY <1>3, <1>5 DEF vars, Down
  <1>6. CASE Connect
    BY <1>3, <1>6, AnswersAreTyped DEF Connect, Connected, ConnectFails, ConnectTimesOut
  <1>7. CASE Read
    <2>1. ASSUME NEW e \in TungsteniteErrors, ReadFails(e)
          PROVE  pc' \in Places /\ answer' \in Answers /\ ended' \in BOOLEAN
      BY <2>1, AnswersAreTyped DEF ReadFails
    <2>2. CASE ReadFused
      BY <1>3, <2>2 DEF ReadFused
    <2>3. CASE TakeFrame
      BY <1>3, <1>4, <2>3 DEF TakeFrame, Unread
    <2>4. CASE SkipControl
      BY <1>3, <1>4, <2>4 DEF SkipControl, Unread
    <2>5. CASE TakeClose
      BY <1>3, <1>4, <2>5 DEF TakeClose, Unread
    <2>6. CASE DecoderRefuses
      BY <1>3, <1>4, <2>1, <2>6 DEF DecoderRefuses, Unread, TungsteniteErrors
    <2>7. CASE ReadEof
      BY <1>3, <2>1, <2>7 DEF ReadEof, TungsteniteErrors
    <2>8. CASE ReadReset
      BY <1>3, <2>1, <2>8 DEF ReadReset, TungsteniteErrors
    <2> QED BY <1>7, <2>2, <2>3, <2>4, <2>5, <2>6, <2>7, <2>8 DEF Read
  <1>8. CASE Flush
    <2>1. CASE FlushSome
      BY <1>3, <2>1 DEF FlushSome
    <2>2. CASE FlushFails
      BY <1>3, <2>2, AnswersAreTyped DEF FlushFails, ReadFails, TungsteniteErrors
    <2>3. CASE SendDone
      BY <1>3, <2>3 DEF SendDone
    <2> QED BY <1>8, <2>1, <2>2, <2>3 DEF Flush
  <1>9. CASE NextFrame \/ Cancel
    BY <1>3, <1>9 DEF NextFrame, Cancel
  <1>10. ASSUME NEW s \in Sizes, SendFrame(s) PROVE Rest'
    BY <1>3, <1>10, AnswersAreTyped DEF SendFrame, SinkRefuses, TungsteniteErrors
  <1>11. CASE Close
    BY <1>3, <1>11, AnswersAreTyped DEF Close, SinkRefuses, TungsteniteErrors
  <1>12. CASE PeerSends
    <2>1. PICK m \in Messages : log' = Append(log, m)
      BY <1>12 DEF PeerSends
    <2>2. log' \in Seq(Messages) /\ Len(log') = Len(log) + 1
      BY <1>3, <2>1, AppendProperties
    <2> QED BY <1>3, <1>4, <1>12, <2>2 DEF PeerSends
  <1>13. CASE PeerGoes
    BY <1>3, <1>13 DEF PeerGoes
  <1> QED BY <1>5, <1>6, <1>7, <1>8, <1>9, <1>10, <1>11, <1>12, <1>13 DEF Next, Caller

-----------------------------------------------------------------------------
(* What has been read, and what the answers say.                           *)

\* The log only grows at its end: what has been read stays what it was.
LEMMA LogGrows ==
    ASSUME TypeOK, PeerSends
    PROVE  /\ \A i \in 1 .. read : log'[i] = log[i]
           /\ read \in Nat
           /\ UNCHANGED <<pc, answer, proto, ended, out, wire, accepted, read>>
  <1>1. log \in Seq(Messages) /\ read \in 0 .. Len(log) /\ Len(log) \in Nat
    BY LenProperties DEF TypeOK
  <1>2. PICK m \in Messages : log' = Append(log, m)
    BY DEF PeerSends
  <1>3. \A i \in 1 .. Len(log) : log'[i] = log[i]
    BY <1>1, <1>2, AppendProperties
  <1> QED BY <1>1, <1>3 DEF PeerSends, callVars, streamVars

\* A message that the decoder refuses is no Close.
LEMMA RefusedIsNoClose ==
    ASSUME TypeOK, Unread, Arrived.kind = "bad" \/ ~DecoderAccepts(Arrived.size)
    PROVE  Arrived.kind # "close" /\ Arrived.size \in Nat
  <1>1. Arrived \in Messages
    BY ElementOfSeq, LenProperties DEF TypeOK, Unread, Arrived
  <1>2. ASSUME NEW m \in Messages
        PROVE  m.size \in Nat /\ (m.kind = "close" => m.size = 0)
    <2>1. CASE m \in [kind : {"data"}, size : Sizes]
      BY <2>1, FrameAssumption
    <2>2. CASE m \in [kind : {"ping", "pong", "close", "bad"}, size : {0}]
      BY <2>2
    <2> QED BY <2>1, <2>2 DEF Messages
  <1> QED BY <1>1, <1>2, FrameAssumption DEF DecoderAccepts

LEMMA ReadToCloseStep ==
    ASSUME TypeOK, ReadToClose, [Next]_vars
    PROVE  ReadToClose'
  <1> USE DEF ReadToClose, CanRead, PeerCloseRead
  <1>1. /\ read \in Nat
        /\ proto \in ProtoStates
    BY LenProperties DEF TypeOK
  <1>2. ASSUME UNCHANGED <<proto, log, read>>, ended' \in {ended, TRUE} PROVE ReadToClose'
    BY <1>2
  <1>3. CASE UNCHANGED vars \/ Connect \/ Down \/ PeerGoes \/ NextFrame \/ Cancel
    BY <1>2, <1>3 DEF vars, Connect, Connected, ConnectFails, ConnectTimesOut, Down,
          PeerGoes, NextFrame, Cancel, streamVars, peerVars
  <1>4. CASE Flush
    BY <1>2, <1>4 DEF Flush, FlushSome, FlushFails, ReadFails, SendDone, streamVars, peerVars
  <1>5. CASE ReadFused \/ ReadReset
    BY <1>2, <1>5 DEF ReadFused, ReadReset, ReadFails, streamVars, peerVars
  <1>6. CASE TakeFrame \/ SkipControl
    BY <1>1, <1>6 DEF TakeFrame, SkipControl, Arrived, peerVars
  <1>7. CASE TakeClose
    BY <1>1, <1>7 DEF TakeClose, Arrived, peerVars
  <1>8. CASE DecoderRefuses
    <2>1. UNCHANGED <<proto, log>> /\ read' = read + 1 /\ ended'
      BY <1>8 DEF DecoderRefuses, ReadFails, peerVars
    <2>2. CanRead => log[read + 1].kind # "close"
      BY <1>8, RefusedIsNoClose DEF DecoderRefuses, Arrived
    <2> QED BY <1>1, <2>1, <2>2
  <1>9. CASE ReadEof
    BY <1>9 DEF ReadEof, ReadFails
  <1>10. ASSUME NEW s \in Sizes, SendFrame(s) PROVE ReadToClose'
    BY <1>2, <1>10 DEF SendFrame, SinkRefuses, streamVars, peerVars
  <1>11. CASE Close
    BY <1>2, <1>11 DEF Close, SinkRefuses, streamVars, peerVars
  <1>12. CASE PeerSends
    BY <1>12, LogGrows
  <1> QED BY <1>3, <1>4, <1>5, <1>6, <1>7, <1>8, <1>9, <1>10, <1>11, <1>12
          DEF Next, Read, Caller

\* A call that begins, is given up or meets an error of the network says nothing
\* that could be untrue.
LEMMA PlainAnswer ==
    ASSUME answer' \in {"none", "cancelled", "ConnectTimeout", "Clean", "Unclean",
                        "Io", "FrameTooLarge"},
           pc' \in InCall \cup {"connecting"} => answer' = "none"
    PROVE  AnswerIsTrue'
  BY DEF AnswerIsTrue, EndIsTrue, PermanentIsDeserved, Permanent, TransportErrors,
         IsRetryable, ConnectionClosed, PayloadTooLarge

\* An answer stays true while what it speaks of stays.
LEMMA SameAnswer ==
    ASSUME AnswerIsTrue, pc' = pc, answer' = answer,
           answer = "none" \/ UNCHANGED <<proto, out, log, read>>
    PROVE  AnswerIsTrue'
  <1>1. CASE answer = "none"
    BY <1>1 DEF AnswerIsTrue, EndIsTrue, PermanentIsDeserved, Permanent, TransportErrors,
                ConnectionClosed, PayloadTooLarge
  <1>2. CASE UNCHANGED <<proto, out, log, read>>
    BY <1>2 DEF AnswerIsTrue, EndIsTrue, PermanentIsDeserved, PeerCloseRead
  <1> QED BY <1>1, <1>2

LEMMA AnswerIsTrueStep ==
    ASSUME TypeOK, ReadToClose, AnswerIsTrue, [Next]_vars
    PROVE  AnswerIsTrue'
  <1> USE DEF Begin, Return
  <1>1. read \in Nat /\ proto \in ProtoStates
    BY LenProperties DEF TypeOK
  <1>2. CASE UNCHANGED vars \/ Down \/ PeerGoes
    BY <1>2, SameAnswer DEF vars, Down, PeerGoes, callVars, streamVars, peerVars
  <1>3. CASE Connect
    <2>1. ASSUME NEW cause \in ConnectFailures, ConnectFails(cause) PROVE AnswerIsTrue'
      <3>1. pc' = "down" /\ answer' \in {"ProtocolViolation", "Io", "Unclean"}
        BY <2>1 DEF ConnectFails, ConnectFailures, ConnectError, MapTungsteniteError
      <3> QED BY <3>1 DEF AnswerIsTrue, EndIsTrue, PermanentIsDeserved, InCall, Flushing
    <2> QED BY <1>3, <2>1, PlainAnswer
            DEF Connect, Connected, ConnectTimesOut, InCall, Flushing
  <1>4. CASE NextFrame \/ Cancel \/ ReadFused
    BY <1>4, PlainAnswer DEF NextFrame, Cancel, ReadFused, InCall, Flushing
  <1>5. CASE TakeFrame
    <2>1. read' = read + 1 /\ log' = log /\ pc' = "idle"
      BY <1>5 DEF TakeFrame, peerVars
    <2>2. CASE WithinFrameLimit(Arrived.size)
      <3>1. answer' = "Frame" /\ log'[read'] = Arrived
        BY <1>5, <2>1, <2>2 DEF TakeFrame, Arrived
      <3> QED BY <1>1, <2>1, <2>2, <3>1
              DEF AnswerIsTrue, EndIsTrue, PermanentIsDeserved, WithinFrameLimit, InCall,
                  Flushing, Permanent, TransportErrors, ConnectionClosed, PayloadTooLarge
    <2>3. CASE ~WithinFrameLimit(Arrived.size)
      BY <1>5, <2>1, <2>3, PlainAnswer DEF TakeFrame, InCall, Flushing
    <2> QED BY <2>2, <2>3
  <1>6. CASE SkipControl \/ FlushSome
    <2>1. UNCHANGED callVars /\ pc \in InCall
      BY <1>6 DEF SkipControl, FlushSome, Unread, Unfused, InCall
    <2>2. answer = "none"
      BY <2>1 DEF AnswerIsTrue
    <2> QED BY <2>1, <2>2, SameAnswer DEF callVars
  <1>7. CASE TakeClose
    <2>1. /\ read' = read + 1 /\ log' = log /\ pc' = "idle" /\ answer' = "End"
          /\ log[read + 1].kind = "close"
      BY <1>7 DEF TakeClose, Arrived, peerVars
    <2>2. \A i \in 1 .. read : log[i].kind # "close"
      BY <1>7 DEF TakeClose, ReadToClose
    <2> QED BY <1>1, <2>1, <2>2
            DEF AnswerIsTrue, EndIsTrue, PermanentIsDeserved, InCall, Flushing, Permanent,
                TransportErrors, ConnectionClosed, PayloadTooLarge
  <1>8. CASE DecoderRefuses
    <2>1. /\ read' = read + 1 /\ log' = log /\ proto' = proto /\ pc' = "idle"
          /\ log'[read'] = Arrived /\ read' > 0 /\ ~ended
      BY <1>1, <1>8 DEF DecoderRefuses, ReadFails, Arrived, Unread, Unfused, peerVars
    <2>2. CASE answer' = "MessageTooLarge" /\ ~DecoderAccepts(Arrived.size)
      <3>1. Arrived.size > MaxFrame
        BY <1>8, <2>2, RefusedIsNoClose, FrameAssumption DEF DecoderRefuses, DecoderAccepts
      <3> QED BY <2>1, <2>2, <3>1
              DEF AnswerIsTrue, EndIsTrue, PermanentIsDeserved, InCall, Flushing
    <2>3. CASE answer' = "ProtocolViolation" /\ (CanRead => Arrived.kind = "bad")
      <3>1. CASE CanRead
        BY <1>1, <2>1, <2>3, <3>1
           DEF AnswerIsTrue, EndIsTrue, PermanentIsDeserved, InCall, Flushing
      <3>2. CASE ~CanRead
        <4>1. PeerCloseRead
          BY <1>1, <2>1, <3>2 DEF ReadToClose, CanRead, ProtoStates
        <4>2. PeerCloseRead'
          BY <1>1, <2>1, <4>1 DEF PeerCloseRead
        <4> QED BY <2>1, <2>3, <4>2
                DEF AnswerIsTrue, EndIsTrue, PermanentIsDeserved, InCall, Flushing
      <3> QED BY <3>1, <3>2
    <2> QED BY <1>8, <2>2, <2>3 DEF DecoderRefuses, ReadFails, MapTungsteniteError
  <1>9. CASE ReadEof \/ ReadReset
    <2>1. pc' = "idle" /\ answer' \in {"Unclean", "Io"}
      BY <1>9 DEF ReadEof, ReadReset, ReadFails, MapTungsteniteError
    <2> QED BY <2>1, PlainAnswer DEF InCall, Flushing
  <1>10. CASE FlushFails
    <2>1. pc' = "idle" /\ answer' \in {"Unclean", "Io"}
      BY <1>10 DEF FlushFails, ReadFails, MapTungsteniteError
    <2> QED BY <2>1, PlainAnswer DEF InCall, Flushing
  <1>11. CASE SendDone
    BY <1>11 DEF SendDone, AnswerIsTrue, EndIsTrue, PermanentIsDeserved, InCall, Flushing,
          Permanent, TransportErrors, ConnectionClosed, PayloadTooLarge, streamVars
  <1>12. ASSUME SinkRefuses PROVE AnswerIsTrue'
    <2>1. /\ pc' = "idle" /\ UNCHANGED <<proto, log, read>> /\ proto # "active"
          /\ answer' = IF proto = "terminated" THEN "Clean" ELSE "ProtocolViolation"
      BY <1>12 DEF SinkRefuses, MapTungsteniteError, streamVars, peerVars
    <2>2. CASE proto = "terminated"
      BY <2>1, <2>2, PlainAnswer DEF InCall, Flushing
    <2>3. CASE proto # "terminated"
      <3>1. PeerCloseRead' \/ proto' = "closedByUs"
        BY <1>1, <2>1, <2>3 DEF ReadToClose, ProtoStates, PeerCloseRead
      <3> QED BY <2>1, <2>3, <3>1
              DEF AnswerIsTrue, EndIsTrue, PermanentIsDeserved, InCall, Flushing
    <2> QED BY <2>2, <2>3
  <1>13. ASSUME NEW s \in Sizes, SendFrame(s) PROVE AnswerIsTrue'
    BY <1>12, <1>13, PlainAnswer DEF SendFrame, InCall, Flushing
  <1>14. CASE Close
    BY <1>12, <1>14, PlainAnswer DEF Close, InCall, Flushing
  <1>15. CASE PeerSends
    BY <1>15, LogGrows DEF AnswerIsTrue, EndIsTrue, PermanentIsDeserved, PeerCloseRead
  <1> QED BY <1>2, <1>3, <1>4, <1>5, <1>6, <1>7, <1>8, <1>9, <1>10, <1>11, <1>13, <1>14,
             <1>15 DEF Next, Read, Flush, Caller

-----------------------------------------------------------------------------
(* The inductive invariant, and the properties it implies.                 *)

LEMMA InitInv == Init => IInv
  <1> SUFFICES ASSUME Init PROVE IInv
    OBVIOUS
  <1>1. TypeOK
    <2>1. /\ wire \in Seq(Frames) /\ out \in Seq(Frames) /\ log \in Seq(Messages)
          /\ Len(log) = 0
      BY EmptySeq DEF Init
    <2>2. read \in 0 .. Len(log)
      BY <2>1 DEF Init
    <2>3. pc \in Places /\ answer \in Answers /\ proto \in ProtoStates
      BY DEF Init, Places, Answers, ProtoStates
    <2>4. accepted \in 0 .. MaxSends
      BY BoundsAssumption DEF Init
    <2> QED BY <2>1, <2>2, <2>3, <2>4 DEF Init, TypeOK
  <1>2. Line \in Seq(Frames) /\ Len(Line) = 0
    BY <1>1, LineParts DEF Init
  <1>3. DOMAIN Line = {}
    BY <1>2, LenProperties
  <1>4. LineInOrder /\ LineFits /\ CloseIsLast
    <2>1. Payloads(Line) = {} /\ Duplex!InOrder(Numbers(Line))
      BY <1>3 DEF Payloads, Numbers, Duplex!InOrder
    <2> QED BY <1>3, <2>1 DEF LineInOrder, LineFits, CloseIsLast, Init
  <1>5. ReadToClose
    BY DEF Init, ReadToClose
  <1>6. AnswerIsTrue
    BY DEF Init, AnswerIsTrue, EndIsTrue, PermanentIsDeserved, Permanent, TransportErrors,
           ConnectionClosed, PayloadTooLarge
  <1> QED BY <1>1, <1>4, <1>5, <1>6 DEF IInv

LEMMA NextInv == IInv /\ [Next]_vars => IInv'
  <1> SUFFICES ASSUME IInv, [Next]_vars PROVE IInv'
    OBVIOUS
  <1> USE DEF IInv
  <1>1. TypeOK'
    BY TypeStep
  <1>2. LineInOrder' /\ LineFits'
    BY EveryLineStep, LineInOrderStep, LineFitsStep
  <1>3. CloseIsLast'
    BY EveryLineStep, CloseIsLastStep
  <1>4. ReadToClose' /\ AnswerIsTrue'
    BY ReadToCloseStep, AnswerIsTrueStep
  <1> QED BY <1>1, <1>2, <1>3, <1>4

\* The inductive invariant holds: what is behind the theorems below.
THEOREM Invariant == Spec => []IInv
  BY InitInv, NextInv, PTL DEF Spec

\* What is true of a line is true of its front, wherever it is cut.
LEMMA FrontOfLine ==
    ASSUME NEW front \in Seq(Frames), NEW rest \in Seq(Frames),
           NEW whole, whole = front \o rest, NEW k \in Nat,
           Duplex!InOrder(Numbers(whole)), Payloads(whole) = 1 .. k,
           \A i \in DOMAIN whole : whole[i].kind = "close" => i = Len(whole)
    PROVE  /\ Numbers(front) \in Seq(0 .. k)
           /\ Duplex!InOrder(Numbers(front))
           /\ (\E i \in DOMAIN front : front[i].kind = "close") => rest = <<>>
           /\ rest = <<>> => {Numbers(front)[i] : i \in DOMAIN Numbers(front)} \ {0} = 1 .. k
  <1>1. /\ whole \in Seq(Frames)
        /\ Len(front) \in Nat /\ Len(rest) \in Nat
        /\ DOMAIN front = 1 .. Len(front) /\ DOMAIN whole = 1 .. Len(whole)
        /\ Len(whole) = Len(front) + Len(rest)
        /\ \A i \in 1 .. Len(front) : whole[i] = front[i]
        /\ Len(rest) = 0 <=> rest = <<>>
    BY ConcatProperties, LenProperties, EmptySeq
  <1>2. /\ Numbers(front) = [i \in 1 .. Len(front) |-> front[i].nr]
        /\ Numbers(whole) = [i \in 1 .. Len(front) + Len(rest) |-> whole[i].nr]
    BY <1>1 DEF Numbers
  <1>3. \A i \in 1 .. Len(front) : Numbers(front)[i] = Numbers(whole)[i]
    BY <1>1, <1>2
  <1>4. \A i \in 1 .. Len(whole) : whole[i].nr \in 0 .. k
    <2>1. \A i \in 1 .. Len(whole) : whole[i].nr = 0 \/ whole[i].nr \in Payloads(whole)
      BY <1>1 DEF Payloads
    <2> QED BY <2>1
  <1>5. Numbers(front) \in Seq(0 .. k)
    BY <1>1, <1>2, <1>4
  <1>6. Duplex!InOrder(Numbers(front))
    <2>1. ASSUME NEW j \in 1 .. Len(front), Numbers(front)[j] # 0
          PROVE  {Numbers(front)[i] : i \in 1 .. j - 1} \ {0} = 1 .. Numbers(front)[j] - 1
      <3>1. j \in DOMAIN Numbers(whole) /\ Numbers(whole)[j] = Numbers(front)[j]
        BY <1>1, <1>2, <1>3
      <3>2. {Numbers(whole)[i] : i \in 1 .. j - 1} \ {0} = 1 .. Numbers(front)[j] - 1
        BY <2>1, <3>1 DEF Duplex!InOrder
      <3>3. {Numbers(front)[i] : i \in 1 .. j - 1} = {Numbers(whole)[i] : i \in 1 .. j - 1}
        <4>1. \A i \in 1 .. j - 1 : Numbers(front)[i] = Numbers(whole)[i]
          BY <1>1, <1>3
        <4> QED BY <4>1
      <3> QED BY <3>2, <3>3
    <2> QED BY <1>2, <2>1 DEF Duplex!InOrder
  <1>7. ASSUME NEW i \in DOMAIN front, front[i].kind = "close" PROVE rest = <<>>
    <2>1. i \in 1 .. Len(front) /\ i = Len(front) + Len(rest)
      BY <1>1, <1>7
    <2>2. \A a, b \in Nat : \A c \in 1 .. a : c = a + b => b = 0
      OBVIOUS
    <2> QED BY <1>1, <2>1, <2>2, Zenon
  <1>8. ASSUME rest = <<>>
        PROVE  {Numbers(front)[i] : i \in DOMAIN Numbers(front)} \ {0} = 1 .. k
    <2>1. {Numbers(front)[i] : i \in DOMAIN Numbers(front)} = {whole[i].nr : i \in DOMAIN whole}
      BY <1>1, <1>2, <1>8
    <2> QED BY <2>1 DEF Payloads
  <1> QED BY <1>5, <1>6, <1>7, <1>8

LEMMA WireIsFront ==
    ASSUME IInv
    PROVE  /\ Duplex!InOrder(Numbers(wire))
           /\ OwnCloseSent => out = <<>>
           /\ out = <<>> => Duplex!AllSent
  <1>1. wire \in Seq(Frames) /\ out \in Seq(Frames) /\ accepted \in Nat
    BY BoundsAssumption DEF IInv, TypeOK
  <1>2. /\ Line = wire \o out
        /\ Duplex!InOrder(Numbers(Line))
        /\ Payloads(Line) = 1 .. accepted
        /\ \A i \in DOMAIN Line : Line[i].kind = "close" => i = Len(Line)
    BY DEF IInv, Line, LineInOrder, CloseIsLast
  <1> HIDE DEF Line
  <1> QED BY <1>1, <1>2, FrontOfLine DEF OwnCloseSent, Duplex!AllSent

\* The variables keep their types.
THEOREM TypeCorrect == Spec => []TypeOK
  <1>1. IInv => TypeOK
    BY DEF IInv
  <1> QED BY <1>1, Invariant, PTL

\* No payload over max_frame_bytes is ever buffered, on the wire or delivered.
THEOREM LimitIsKept == Spec => []WithinLimit
  <1>1. IInv => WithinLimit
    <2> SUFFICES ASSUME IInv, MaxFrame > 0 PROVE WithinLimit
      BY DEF WithinLimit
    <2>1. /\ wire \in Seq(Frames) /\ out \in Seq(Frames)
          /\ Len(wire) \in Nat /\ Len(out) \in Nat
          /\ DOMAIN wire = 1 .. Len(wire) /\ DOMAIN out = 1 .. Len(out)
      BY LenProperties DEF IInv, TypeOK
    <2>2. /\ \A i \in 1 .. Len(wire) : Line[i] = wire[i]
          /\ \A i \in 1 .. Len(out) : Line[Len(wire) + i] = out[i]
          /\ DOMAIN Line = 1 .. Len(wire) + Len(out)
      BY <2>1, LineParts, LenProperties, ConcatProperties DEF IInv, Line
    <2>3. \A i \in 1 .. Len(wire) + Len(out) : Line[i].size <= MaxFrame
      BY <2>2 DEF IInv, LineFits
    <2>4. answer = "Frame" => log[read].size <= MaxFrame
      BY DEF IInv, AnswerIsTrue, WithinFrameLimit
    <2> QED BY <2>1, <2>2, <2>3, <2>4 DEF WithinLimit
  <1> QED BY <1>1, Invariant, PTL

\* Ok(None) is the peer's first Close and nothing else.
THEOREM EndIsAlwaysTrue == Spec => []EndIsTrue
  <1>1. IInv => EndIsTrue
    BY DEF IInv, AnswerIsTrue
  <1> QED BY <1>1, Invariant, PTL

\* Ok from send_frame or close: all that was accepted is on the wire, in order.
THEOREM OkAlwaysMeansSent == Spec => []OkMeansSent
  <1>1. IInv => OkMeansSent
    BY WireIsFront DEF IInv, AnswerIsTrue, OkMeansSent
  <1> QED BY <1>1, Invariant, PTL

\* Nothing is on the wire or in the buffer behind our Close.
THEOREM CloseEndsTheWire == Spec => []NothingAfterOwnClose
  <1>1. IInv => NothingAfterOwnClose
    <2> SUFFICES ASSUME IInv, NEW i \in DOMAIN wire, wire[i].kind = "close"
                 PROVE  i = Len(wire) /\ out = <<>>
      BY DEF NothingAfterOwnClose
    <2>1. out = <<>>
      BY WireIsFront DEF OwnCloseSent
    <2>2. wire \in Seq(Frames) /\ Line = wire
      BY <2>1, ConcatEmptySeq DEF IInv, TypeOK, Line
    <2> QED BY <2>1, <2>2 DEF IInv, CloseIsLast
  <1> QED BY <1>1, Invariant, PTL

\* Our Close is on the wire only behind every payload that was accepted.
THEOREM CloseIsBehindAll == Spec => [](OwnCloseSent => Duplex!AllSent)
  <1>1. IInv => (OwnCloseSent => Duplex!AllSent)
    BY WireIsFront
  <1> QED BY <1>1, Invariant, PTL

\* A permanent error on an open connection is somebody's fault.
THEOREM PermanentIsAlwaysDeserved == Spec => []PermanentIsDeserved
  <1>1. IInv => PermanentIsDeserved
    BY DEF IInv, AnswerIsTrue
  <1> QED BY <1>1, Invariant, PTL

-----------------------------------------------------------------------------
(* The refinement of FrameDuplex, step by step.                            *)

\* What the abstract specification sees of a step that leaves the wire alone.
LEMMA WireKept ==
    ASSUME wire' = wire
    PROVE  Numbers(wire)' = Numbers(wire) /\ OwnCloseSent' = OwnCloseSent
  BY DEF Numbers, OwnCloseSent

LEMMA SameErrors == Duplex!TransportErrors = TransportErrors
  BY DEF Duplex!TransportErrors, Duplex!ConnectionClosed, Duplex!PayloadTooLarge,
         TransportErrors, ConnectionClosed, PayloadTooLarge

\* A step that leaves the wire and what was accepted alone, and fails.
LEMMA FailIsFail ==
    ASSUME UNCHANGED <<wire, accepted>>, proto' \in {proto, "terminated"},
           ended' = ended \/ ended',
           answer' \in TransportErrors \cup {"cancelled"}
    PROVE  Duplex!Fail
  <1>1. UNCHANGED <<accepted, Numbers(wire), OwnCloseSent>>
    BY WireKept
  <1>2. (proto # "active")' \in {proto # "active", TRUE}
    OBVIOUS
  <1>3. (ended \/ ~CanRead)' \in {ended \/ ~CanRead, TRUE}
    <2>1. CASE ended' \/ proto' = "terminated"
      BY <2>1 DEF CanRead
    <2>2. CASE ended' = ended /\ proto' = proto
      BY <2>2 DEF CanRead
    <2> QED BY <2>1, <2>2
  <1> QED BY <1>1, <1>2, <1>3, SameErrors DEF Duplex!Fail

LEMMA StartIsStart ==
    ASSUME UNCHANGED <<wire, ended>>, answer' = "none",
           \/ UNCHANGED <<accepted, proto>>
           \/ proto = "active" /\ accepted' = accepted + 1 /\ UNCHANGED proto
           \/ proto = "active" /\ proto' = "closedByUs" /\ UNCHANGED accepted
    PROVE  Duplex!Start
  <1>1. UNCHANGED <<Numbers(wire), OwnCloseSent>>
    BY WireKept
  <1>2. CanRead' = CanRead
    BY DEF CanRead
  <1> QED BY <1>1, <1>2 DEF Duplex!Start

\* More of the line goes out.
LEMMA FlushIsTransmit ==
    ASSUME IInv, IInv', FlushSome
    PROVE  Duplex!Transmit
  <1>1. UNCHANGED <<answer, proto, ended, accepted>>
    BY DEF FlushSome, callVars
  <1>2. UNCHANGED <<ended \/ ~CanRead, accepted, proto # "active", answer>>
    BY <1>1 DEF CanRead
  <1>3. /\ wire \in Seq(Frames) /\ wire' \in Seq(Frames)
        /\ out \in Seq(Frames) /\ out' \in Seq(Frames)
        /\ Line' = Line /\ Len(wire) <= Len(wire') /\ accepted' \in Nat
    BY LineFlushed, BoundsAssumption DEF IInv, TypeOK
  <1>4. /\ Line' = wire' \o out'
        /\ Duplex!InOrder(Numbers(Line'))
        /\ Payloads(Line') = 1 .. accepted'
        /\ \A i \in DOMAIN Line' : Line'[i].kind = "close" => i = Len(Line') /\ proto' # "active"
    BY DEF IInv, Line, LineInOrder, CloseIsLast
  <1>5. /\ Numbers(wire') \in Seq(0 .. accepted')
        /\ Duplex!InOrder(Numbers(wire'))
        /\ OwnCloseSent' => out' = <<>>
        /\ out' = <<>> => Duplex!AllSent'
    <2> HIDE DEF Line
    <2> QED BY <1>3, <1>4, FrontOfLine DEF OwnCloseSent, Duplex!AllSent
  <1>6. /\ Len(wire) \in Nat /\ Len(wire') \in Nat
        /\ DOMAIN wire = 1 .. Len(wire) /\ DOMAIN wire' = 1 .. Len(wire')
        /\ \A i \in 1 .. Len(wire) : wire'[i] = wire[i]
        /\ \A i \in 1 .. Len(wire') : i \in DOMAIN Line' /\ wire'[i] = Line'[i]
    <2>1. /\ \A i \in 1 .. Len(wire) : Line[i] = wire[i]
          /\ \A i \in 1 .. Len(wire') : (wire' \o out')[i] = wire'[i]
          /\ Len(wire') + Len(out') = Len(Line') /\ DOMAIN Line' = 1 .. Len(Line')
          /\ Len(out') \in Nat
      BY <1>3, <1>4, ConcatProperties, LenProperties, LineParts DEF IInv
    <2> QED BY <1>3, <1>4, <2>1, LenProperties
  <1>7. Duplex!Extends(Numbers(wire'), Numbers(wire))
    BY <1>3, <1>6 DEF Duplex!Extends, Numbers
  <1>8. OwnCloseSent' => proto # "active" /\ Duplex!AllSent'
    BY <1>1, <1>4, <1>5, <1>6 DEF OwnCloseSent
  <1>9. OwnCloseSent => OwnCloseSent'
    BY <1>3, <1>6 DEF OwnCloseSent
  <1>10. OwnCloseSent' \in {OwnCloseSent, proto # "active" /\ Duplex!AllSent'}
    BY <1>8, <1>9 DEF OwnCloseSent
  <1> QED BY <1>1, <1>2, <1>5, <1>7, <1>10 DEF Duplex!Transmit

LEMMA RefinementInit == Init => Duplex!AbsInit
  <1> SUFFICES ASSUME Init PROVE Duplex!AbsInit
    OBVIOUS
  <1>1. DOMAIN wire = {}
    BY LenProperties, EmptySeq DEF Init
  <1>2. Numbers(wire) = <<>>
    BY <1>1 DEF Numbers
  <1>3. OwnCloseSent = FALSE
    BY <1>1 DEF OwnCloseSent
  <1> QED BY <1>2, <1>3 DEF Init, CanRead, Duplex!AbsInit

LEMMA RefusalIsFail ==
    ASSUME SinkRefuses
    PROVE  Duplex!Fail
  <1>1. answer' \in TransportErrors
    BY DEF SinkRefuses, Return, MapTungsteniteError, TransportErrors, ConnectionClosed
  <1> QED BY <1>1, FailIsFail DEF SinkRefuses, streamVars

\* A step of the duplex, or none.
DuplexStep == Duplex!AbsNext \/ UNCHANGED Duplex!absVars

LEMMA RefinementStep ==
    ASSUME IInv, IInv', [Next]_vars
    PROVE  DuplexStep
  <1>a. Duplex!Fail \/ Duplex!Start => DuplexStep
    BY DEF DuplexStep, Duplex!AbsNext
  <1>b. ASSUME UNCHANGED <<answer, proto, ended, wire, accepted>> PROVE DuplexStep
    <2>1. UNCHANGED <<Numbers(wire), OwnCloseSent, ended \/ ~CanRead, proto # "active">>
      BY <1>b, WireKept DEF CanRead
    <2> QED BY <1>b, <2>1 DEF DuplexStep, Duplex!absVars
  <1>c. /\ Errors \subseteq TransportErrors
        /\ \A e \in TungsteniteErrors : MapTungsteniteError(e) \in TransportErrors
    BY AnswersAreTyped
       DEF Errors, TransportErrors, ConnectionClosed, PayloadTooLarge
  <1>d. ASSUME NEW e \in TungsteniteErrors, ReadFails(e),
               UNCHANGED <<wire, accepted>>, proto' \in {proto, "terminated"}
        PROVE  DuplexStep
    <2>1. answer' \in TransportErrors /\ ended'
      BY <1>c, <1>d DEF ReadFails, Return, TransportErrors, ConnectionClosed
    <2> QED BY <1>a, <1>d, <2>1, FailIsFail
  <1>1. CASE UNCHANGED vars \/ Down \/ PeerSends \/ PeerGoes \/ SkipControl
    BY <1>1, <1>b DEF vars, Down, PeerSends, PeerGoes, SkipControl, callVars, streamVars
  <1>2. CASE Connect
    <2>1. ASSUME NEW cause \in ConnectFailures, ConnectFails(cause) PROVE DuplexStep
      <3>1. answer' \in TransportErrors
        BY <1>c, <2>1, AnswersAreTyped DEF ConnectFails
      <3> QED BY <1>a, <2>1, <3>1, FailIsFail DEF ConnectFails, streamVars
    <2>2. CASE Connected
      BY <1>a, <2>2, StartIsStart DEF Connected, Begin, streamVars
    <2>3. CASE ConnectTimesOut
      BY <1>a, <2>3, FailIsFail DEF ConnectTimesOut, streamVars, TransportErrors
    <2> QED BY <1>2, <2>1, <2>2, <2>3 DEF Connect
  <1>3. CASE NextFrame
    BY <1>3, <1>a, StartIsStart DEF NextFrame, Begin, streamVars
  <1>4. CASE Cancel \/ ReadFused
    BY <1>4, <1>a, FailIsFail
       DEF Cancel, ReadFused, Return, streamVars, TransportErrors, ConnectionClosed
  <1>5. CASE TakeFrame
    <2>1. CASE WithinFrameLimit(Arrived.size)
      <3>1. /\ answer' = "Frame" /\ ~(ended \/ ~CanRead)
            /\ UNCHANGED <<proto, ended, wire, accepted>>
        BY <1>5, <2>1 DEF TakeFrame, Return, Unread, Unfused
      <3>2. UNCHANGED <<Numbers(wire), OwnCloseSent, ended \/ ~CanRead, proto # "active">>
        BY <3>1, WireKept DEF CanRead
      <3> QED BY <3>1, <3>2 DEF DuplexStep, Duplex!AbsNext, Duplex!Deliver
    <2>2. CASE ~WithinFrameLimit(Arrived.size)
      BY <1>5, <1>a, <2>2, FailIsFail
         DEF TakeFrame, Return, TransportErrors, PayloadTooLarge
    <2> QED BY <2>1, <2>2
  <1>6. CASE TakeClose
    <2>1. /\ answer' = "End" /\ ~(ended \/ ~CanRead) /\ (proto # "active")' = TRUE
          /\ ~CanRead' /\ UNCHANGED <<wire, accepted>>
      BY <1>6 DEF TakeClose, Return, Unread, Unfused, CanRead
    <2>2. UNCHANGED <<Numbers(wire), OwnCloseSent>>
      BY <2>1, WireKept
    <2> QED BY <2>1, <2>2 DEF DuplexStep, Duplex!AbsNext, Duplex!End
  <1>7. CASE DecoderRefuses \/ ReadEof \/ ReadReset
    BY <1>7, <1>d DEF DecoderRefuses, ReadEof, ReadReset, TungsteniteErrors
  <1>8. CASE FlushSome
    BY <1>8, FlushIsTransmit DEF DuplexStep, Duplex!AbsNext
  <1>9. CASE FlushFails
    <2>1. PICK e \in {"Gone", "OtherIo"} :
              \/ Return(MapTungsteniteError(e)) /\ UNCHANGED ended
              \/ ReadFails(e)
      BY <1>9 DEF FlushFails
    <2>2. e \in TungsteniteErrors
      BY DEF TungsteniteErrors
    <2> QED BY <1>9, <1>a, <1>c, <1>d, <2>1, <2>2, FailIsFail DEF FlushFails, Return
  <1>10. CASE SendDone
    <2>1. answer' = "Ok" /\ Duplex!AllSent /\ UNCHANGED <<proto, ended, wire, accepted>>
      BY <1>10, WireIsFront DEF SendDone, Return, streamVars
    <2>2. UNCHANGED <<Numbers(wire), OwnCloseSent, ended \/ ~CanRead, proto # "active">>
      BY <2>1, WireKept DEF CanRead
    <2> QED BY <2>1, <2>2 DEF DuplexStep, Duplex!AbsNext, Duplex!Confirm
  <1>11. ASSUME NEW s \in Sizes, SendFrame(s) PROVE DuplexStep
    <2>1. CASE SinkRefuses
      BY <1>a, <2>1, RefusalIsFail
    <2>2. CASE Return("FrameTooLarge") /\ UNCHANGED streamVars
      BY <1>a, <2>2, FailIsFail DEF Return, streamVars, TransportErrors, PayloadTooLarge
    <2>3. CASE /\ proto = "active" /\ accepted' = accepted + 1 /\ Begin("send")
               /\ UNCHANGED <<proto, ended, wire>>
      BY <1>a, <2>3, StartIsStart DEF Begin
    <2> QED BY <1>11, <2>1, <2>2, <2>3 DEF SendFrame
  <1>12. CASE Close
    <2>1. CASE SinkRefuses
      BY <1>a, <2>1, RefusalIsFail
    <2>2. CASE /\ proto = "active" /\ proto' = "closedByUs" /\ Begin("close")
               /\ UNCHANGED <<ended, wire, accepted>>
      BY <1>a, <2>2, StartIsStart DEF Begin
    <2> QED BY <1>12, <2>1, <2>2 DEF Close
  <1> QED BY <1>1, <1>2, <1>3, <1>4, <1>5, <1>6, <1>7, <1>8, <1>9, <1>10, <1>11, <1>12
          DEF Next, Read, Flush, Caller

\* One WebSocket connection is the duplex of frames that a WsConnection
\* promises its caller.
THEOREM Implementation == Spec => ImplementsDuplex
  <1>1. Spec => []IInv
    BY Invariant
  <1>2. IInv /\ IInv' /\ [Next]_vars => [Duplex!AbsNext]_(Duplex!absVars)
    BY RefinementStep DEF DuplexStep
  <1> QED BY <1>1, <1>2, RefinementInit, PTL
          DEF Spec, ImplementsDuplex, Duplex!AbsSpec

=============================================================================
