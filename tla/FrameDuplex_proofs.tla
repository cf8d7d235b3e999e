------------------------ MODULE FrameDuplex_proofs ------------------------
(***************************************************************************)
(* What FrameDuplex promises, whoever implements it.                       *)
(***************************************************************************)
EXTENDS FrameDuplex, SequenceTheorems, TLAPS

\* What went out is a prefix of what was accepted, control frames apart.
PrefixSent ==
    /\ accepted \in Nat
    /\ sent \in Seq(0 .. accepted)
    /\ InOrder(sent)

\* Once the Close is out nothing accepted is left behind.
ClosedBehindAll == closed => closing /\ AllSent

LEMMA PrefixStep ==
    ASSUME PrefixSent, [AbsNext]_absVars
    PROVE  PrefixSent'
  <1>1. CASE UNCHANGED <<sent, accepted>>
    BY <1>1 DEF PrefixSent
  <1>2. CASE sent' = sent /\ accepted' = accepted + 1
    <2>1. 0 .. accepted \subseteq 0 .. accepted + 1
      BY DEF PrefixSent
    <2>2. sent \in Seq(0 .. accepted + 1)
      BY <2>1, SeqMonotonic DEF PrefixSent
    <2> QED BY <1>2, <2>2 DEF PrefixSent
  <1>3. CASE Transmit
    BY <1>3 DEF Transmit, PrefixSent
  <1> QED BY <1>1, <1>2, <1>3 DEF AbsNext, absVars, Start, Deliver, End, Fail, Confirm

LEMMA ClosedStep ==
    ASSUME PrefixSent, ClosedBehindAll, [AbsNext]_absVars
    PROVE  ClosedBehindAll'
  <1>1. CASE UNCHANGED absVars \/ Deliver \/ Confirm
    BY <1>1 DEF ClosedBehindAll, AllSent, absVars, Deliver, Confirm
  <1>2. CASE Start
    BY <1>2 DEF ClosedBehindAll, AllSent, Start
  <1>3. CASE End \/ Fail
    BY <1>3 DEF ClosedBehindAll, AllSent, End, Fail
  <1>4. CASE Transmit
    <2>1. ASSUME closed PROVE AllSent'
      <3>1. /\ DOMAIN sent = 1 .. Len(sent) /\ Len(sent) \in Nat
            /\ DOMAIN sent' = 1 .. Len(sent') /\ Len(sent') \in Nat
            /\ \A i \in 1 .. Len(sent') : sent'[i] \in 0 .. accepted
        BY <1>4, LenProperties, ElementOfSeq DEF Transmit, PrefixSent
      <3>2. /\ Len(sent) <= Len(sent')
            /\ \A i \in DOMAIN sent : sent'[i] = sent[i]
            /\ accepted' = accepted
        BY <1>4 DEF Transmit, Extends
      <3>3. {sent[i] : i \in DOMAIN sent} \ {0} = 1 .. accepted
        BY <2>1 DEF ClosedBehindAll, AllSent
      <3>4. {sent'[i] : i \in DOMAIN sent'} \ {0} = 1 .. accepted
        <4>1. ASSUME NEW n \in 1 .. accepted PROVE \E i \in DOMAIN sent' : sent'[i] = n
          <5>1. PICK i \in DOMAIN sent : sent[i] = n
            BY <3>3
          <5> QED BY <3>1, <3>2, <5>1
        <4> QED BY <3>1, <4>1
      <3> QED BY <3>2, <3>4 DEF AllSent
    <2>2. closed' \in {closed, closing /\ AllSent'} /\ closing' = closing
      BY <1>4 DEF Transmit
    <2>3. closed => closing
      BY DEF ClosedBehindAll
    <2> QED BY <2>1, <2>2, <2>3 DEF ClosedBehindAll
  <1> QED BY <1>1, <1>2, <1>3, <1>4 DEF AbsNext

\* The frames that went out are the first of those accepted, each of them once;
\* when the Close has gone out, they are all of them.
THEOREM Promise == AbsSpec => [](PrefixSent /\ ClosedBehindAll)
  <1>1. AbsInit => PrefixSent /\ ClosedBehindAll
    <2> SUFFICES ASSUME AbsInit PROVE PrefixSent /\ ClosedBehindAll
      OBVIOUS
    <2>1. sent \in Seq(0 .. accepted) /\ DOMAIN sent = {}
      BY EmptySeq, LenProperties DEF AbsInit
    <2> QED BY <2>1 DEF AbsInit, PrefixSent, InOrder, ClosedBehindAll
  <1>2. PrefixSent /\ ClosedBehindAll /\ [AbsNext]_absVars => (PrefixSent /\ ClosedBehindAll)'
    BY PrefixStep, ClosedStep
  <1> QED BY <1>1, <1>2, PTL DEF AbsSpec
=============================================================================
