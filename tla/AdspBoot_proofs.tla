--------------------------- MODULE AdspBoot_proofs --------------------------
(***************************************************************************)
(* Proofs about the boot of the ADSP and about the AOSS QMP mailbox through*)
(* which it votes for the processor's power: the mailbox for every number  *)
(* of words, of messages and of probes, with timeouts and failing          *)
(* doorbells; the boot for every number of power domains, of calls and of  *)
(* polls, and every order of the ADSP's signals.                           *)
(***************************************************************************)
EXTENDS AossQmp, AdspPas, SequenceTheorems, TLAPS

-----------------------------------------------------------------------------
(* The mailbox (AossQmp). *)

(* The invariant holds initially: everything is down and empty. *)
LEMMA InitInv == QmpInit => QmpInv
  <1> SUFFICES ASSUME QmpInit PROVE QmpInv
    OBVIOUS
  <1> USE QmpAssumption
  <1>1. desc \in Desc
    BY DEF QmpInit, Desc, State
  <1>2. taken \in Seq([1 .. Words -> 0 .. MaxSends])
    BY EmptySeq DEF QmpInit
  <1>a. body \in [1 .. Words -> 0 .. MaxSends]
    BY DEF QmpInit
  <1>b. result \in [Msg -> {"none", "ok", "error", "timeout"}]
    BY DEF QmpInit
  <1>c. word \in 0 .. Words /\ opens \in 0 .. MaxOpens /\ sends \in 0 .. MaxSends
    BY DEF QmpInit
  <1>3. QmpTypeOK
    BY <1>1, <1>2, <1>a, <1>b, <1>c DEF QmpInit, QmpTypeOK
  <1>4. HandshakeInv
    BY DEF QmpInit, HandshakeInv, Linked
  <1>5. MailboxInv
    BY DEF QmpInit, MailboxInv, TakenWhole
  <1> QED
    BY <1>3, <1>4, <1>5 DEF QmpInv

(* Closing, after whatever words were written, leaves U-Boot's link down,  *)
(* and its channel too.                                                    *)
LEMMA ClosedDown ==
  ASSUME NEW d \in Desc, NEW ch \in BOOLEAN, ch \/ d.m_ch = "DOWN"
  PROVE  /\ Closed(d, ch) \in Desc
         /\ Closed(d, ch).m_link = "DOWN"
         /\ Closed(d, ch).m_ch = "DOWN"
  BY DEF Closed, Desc, State

(* Every way out of an open, and a remove, restores the invariant. *)
LEMMA CloseInv ==
  ASSUME QmpInv, qmp_pc \notin {"body", "kick", "reply"},
         NEW d \in Desc, NEW ch \in BOOLEAN, ch \/ d.m_ch = "DOWN",
         Close(d, ch), up' = FALSE,
         UNCHANGED <<body, len, word, opens, sends, result, aop, taken>>
  PROVE  QmpInv'
  <1>0. QmpTypeOK /\ HandshakeInv /\ MailboxInv
    BY DEF QmpInv
  <1>1. bell' \in BOOLEAN
    BY <1>0 DEF Close, Kick, QmpTypeOK
  <1>2. desc' \in Desc /\ desc'.m_link = "DOWN" /\ desc'.m_ch = "DOWN" /\ qmp_pc' = "idle"
    BY ClosedDown DEF Close
  <1>3. QmpTypeOK'
    BY <1>0, <1>1, <1>2 DEF QmpTypeOK
  <1>4. HandshakeInv'
    BY <1>2 DEF HandshakeInv, Linked
  <1>5. MailboxInv'
    BY <1>0, <1>2 DEF MailboxInv, TakenWhole, Msg, Holds
  <1> QED
    BY <1>3, <1>4, <1>5 DEF QmpInv

(* Every step of the driver and of the AOP preserves the invariant. *)
LEMMA NextInv == QmpInv /\ [QmpNext]_qmp_vars => QmpInv'
  <1> SUFFICES ASSUME QmpInv, [QmpNext]_qmp_vars PROVE QmpInv'
    OBVIOUS
  <1> USE QmpAssumption
  <1>0. QmpTypeOK /\ HandshakeInv /\ MailboxInv
    BY DEF QmpInv
  <1>1. CASE Probe
    <2>1. QmpTypeOK'
      BY <1>0, <1>1 DEF Probe, QmpTypeOK, shared
    <2>2. HandshakeInv'
      BY <1>0, <1>1 DEF Probe, HandshakeInv, Linked, shared
    <2>3. MailboxInv'
      BY <1>0, <1>1 DEF Probe, MailboxInv, TakenWhole, shared, Msg, Holds
    <2> QED
      BY <2>1, <2>2, <2>3 DEF QmpInv
  <1>2. CASE LinkUp
    <2> DEFINE d == [desc EXCEPT !.u_link_ack = desc.u_link, !.m_link = "UP"]
    <2>1. d \in Desc /\ d.m_ch = "DOWN" /\ d.m_link = "UP" /\ d.u_link = "UP"
      BY <1>0, <1>2 DEF QmpTypeOK, Desc, State, HandshakeInv, LinkUp, OpenStep
    <2>2. /\ qmp_pc = "ucore_link" /\ qmp_pc' = "link_kick" /\ desc' = d
          /\ UNCHANGED <<body, len, bell, word, up, opens, sends, result, aop, taken>>
      BY <1>2 DEF LinkUp, OpenStep
    <2>3. up = FALSE
      BY <1>0, <2>2 DEF HandshakeInv, QmpTypeOK
    <2> HIDE DEF d
    <2>4. QmpTypeOK'
      BY <1>0, <2>1, <2>2 DEF QmpTypeOK
    <2>5. HandshakeInv'
      BY <2>1, <2>2, <2>3 DEF HandshakeInv, Linked
    <2>6. MailboxInv'
      BY <1>0, <2>2 DEF MailboxInv, TakenWhole, Msg, Holds
    <2> QED
      BY <2>4, <2>5, <2>6 DEF QmpInv
  <1>3. CASE ChannelUp
    <2> DEFINE d == [desc EXCEPT !.m_ch = "UP"]
    <2>1. d \in Desc /\ d.m_ch = "UP" /\ d.m_link = "UP" /\ d.u_link = "UP"
            /\ d.m_link_ack = "UP"
      BY <1>0, <1>3 DEF QmpTypeOK, Desc, State, HandshakeInv, ChannelUp, OpenStep, LinkAcked
    <2>2. /\ qmp_pc = "link_ack" /\ qmp_pc' = "ch_kick" /\ desc' = d
          /\ UNCHANGED <<body, len, bell, word, up, opens, sends, result, aop, taken>>
      BY <1>3 DEF ChannelUp, OpenStep
    <2>3. up = FALSE
      BY <1>0, <2>2 DEF HandshakeInv, QmpTypeOK
    <2> HIDE DEF d
    <2>4. QmpTypeOK'
      BY <1>0, <2>1, <2>2 DEF QmpTypeOK
    <2>5. HandshakeInv'
      BY <2>1, <2>2, <2>3 DEF HandshakeInv, Linked
    <2>6. MailboxInv'
      BY <1>0, <2>2 DEF MailboxInv, TakenWhole, Msg, Holds
    <2> QED
      BY <2>4, <2>5, <2>6 DEF QmpInv
  <1>4. CASE ChannelAck
    <2> DEFINE d == [desc EXCEPT !.u_ch_ack = "UP"]
    <2>1. d \in Desc /\ d.m_ch = "UP" /\ d.m_link = "UP" /\ d.u_link = "UP"
            /\ d.m_link_ack = "UP" /\ d.u_ch = "UP" /\ d.u_ch_ack = "UP"
      BY <1>0, <1>4 DEF QmpTypeOK, Desc, State, HandshakeInv, Linked, ChannelAck, OpenStep
    <2>2. /\ qmp_pc = "ucore_ch" /\ qmp_pc' = "ack_kick" /\ desc' = d
          /\ UNCHANGED <<body, len, bell, word, up, opens, sends, result, aop, taken>>
      BY <1>4 DEF ChannelAck, OpenStep
    <2>3. up = FALSE
      BY <1>0, <2>2 DEF HandshakeInv, QmpTypeOK
    <2> HIDE DEF d
    <2>4. QmpTypeOK'
      BY <1>0, <2>1, <2>2 DEF QmpTypeOK
    <2>5. HandshakeInv'
      BY <2>1, <2>2, <2>3 DEF HandshakeInv, Linked
    <2>6. MailboxInv'
      BY <1>0, <2>2 DEF MailboxInv, TakenWhole, Msg, Holds
    <2> QED
      BY <2>4, <2>5, <2>6 DEF QmpInv
  <1>5. CASE OpenDone
    <2>1. QmpTypeOK'
      BY <1>0, <1>5 DEF OpenDone, QmpTypeOK, shared
    <2>2. HandshakeInv'
      BY <1>0, <1>5 DEF OpenDone, HandshakeInv, Linked, ChAcked, shared
    <2>3. MailboxInv'
      BY <1>0, <1>5 DEF OpenDone, MailboxInv, TakenWhole, shared, Msg, Holds
    <2> QED
      BY <2>1, <2>2, <2>3 DEF QmpInv
  <1>6. CASE OpenTimeout
    <2>1. UNCHANGED <<body, len, word, up, opens, sends, result, aop, taken>>
      BY <1>6 DEF OpenTimeout
    <2>2. desc \in Desc
      BY <1>0 DEF QmpTypeOK
    <2>3. CASE qmp_pc = "ucore_link" /\ qmp_pc' = "idle" /\ UNCHANGED <<desc, bell>>
      <3>1. QmpTypeOK'
        BY <1>0, <2>1, <2>3 DEF QmpTypeOK
      <3>2. HandshakeInv'
        BY <1>0, <2>1, <2>3 DEF HandshakeInv, Linked
      <3>3. MailboxInv'
        BY <1>0, <2>1, <2>3 DEF MailboxInv, TakenWhole, Msg, Holds
      <3> QED
        BY <3>1, <3>2, <3>3 DEF QmpInv
    <2>4. CASE qmp_pc = "link_ack" /\ Close(desc, FALSE)
      <3>1. up = FALSE /\ desc.m_ch = "DOWN"
        BY <1>0, <2>4 DEF HandshakeInv, QmpTypeOK
      <3> QED
        BY <2>1, <2>2, <2>4, <3>1, CloseInv
    <2>5. CASE qmp_pc \in {"ucore_ch", "ch_ack"} /\ Close(desc, TRUE)
      <3>1. up = FALSE
        BY <1>0, <2>5 DEF HandshakeInv, QmpTypeOK
      <3> QED
        BY <2>1, <2>2, <2>5, <3>1, CloseInv
    <2> QED
      BY <1>6, <2>3, <2>4, <2>5 DEF OpenTimeout
  <1>7. CASE Remove
    <2>1. desc \in Desc /\ qmp_pc = "idle" /\ Close(desc, TRUE) /\ up' = FALSE
            /\ UNCHANGED <<body, len, word, opens, sends, result, aop, taken>>
      BY <1>0, <1>7 DEF Remove, QmpTypeOK
    <2> QED
      BY <2>1, CloseInv
  <1>8. CASE Send
    <2>1. QmpTypeOK'
      BY <1>0, <1>8 DEF Send, QmpTypeOK, shared
    <2>2. HandshakeInv'
      BY <1>0, <1>8 DEF Send, HandshakeInv, Linked, shared
    <2>3. MailboxInv'
      BY <1>0, <1>8 DEF Send, MailboxInv, TakenWhole, shared, Msg, Holds, QmpTypeOK
    <2> QED
      BY <2>1, <2>2, <2>3 DEF QmpInv
  <1>9. CASE SendWord
    <2>0. word + 1 \in 1 .. Words /\ sends \in Msg /\ ~len
      BY <1>0, <1>9 DEF SendWord, MoreWords, QmpTypeOK, MailboxInv
    <2>1. body' \in [1 .. Words -> 0 .. MaxSends]
      BY <1>0, <1>9, <2>0 DEF SendWord, QmpTypeOK, Msg
    <2>2. QmpTypeOK'
      BY <1>0, <1>9, <2>0, <2>1 DEF SendWord, QmpTypeOK
    <2>3. HandshakeInv'
      BY <1>0, <1>9 DEF SendWord, HandshakeInv, Linked
    <2>4. \A w \in 1 .. word + 1 : body'[w] = sends
      BY <1>0, <1>9, <2>0 DEF SendWord, QmpTypeOK, MailboxInv, Msg
    <2>5. MailboxInv'
      BY <1>0, <1>9, <2>0, <2>4 DEF SendWord, MailboxInv, TakenWhole, Msg, Holds
    <2> QED
      BY <2>2, <2>3, <2>5 DEF QmpInv
  <1>10. CASE SendLength
    <2>1. QmpTypeOK'
      BY <1>0, <1>10 DEF SendLength, QmpTypeOK
    <2>2. HandshakeInv'
      BY <1>0, <1>10 DEF SendLength, HandshakeInv, Linked
    <2>3. body = Holds(sends)
      BY <1>0, <1>10 DEF SendLength, BodyWritten, MailboxInv, QmpTypeOK, Holds
    <2>4. MailboxInv'
      BY <1>0, <1>10, <2>3 DEF SendLength, MailboxInv, TakenWhole, Msg, Holds
    <2> QED
      BY <2>1, <2>2, <2>4 DEF QmpInv
  <1>11. CASE SendKick
    <2>1. QmpTypeOK'
      BY <1>0, <1>11 DEF SendKick, QmpTypeOK, Kick, Msg
    <2>2. HandshakeInv'
      BY <1>0, <1>11 DEF SendKick, HandshakeInv, Linked
    <2>3. MailboxInv'
      BY <1>0, <1>11 DEF SendKick, MailboxInv, TakenWhole, Msg, Holds
    <2> QED
      BY <2>1, <2>2, <2>3 DEF QmpInv
  <1>12. CASE SendDone
    <2>1. QmpTypeOK'
      BY <1>0, <1>12 DEF SendDone, QmpTypeOK, shared
    <2>2. HandshakeInv'
      BY <1>0, <1>12 DEF SendDone, HandshakeInv, Linked, shared
    <2>3. MailboxInv'
      BY <1>0, <1>12 DEF SendDone, Replied, MailboxInv, TakenWhole, shared, Msg, Holds
    <2> QED
      BY <2>1, <2>2, <2>3 DEF QmpInv
  <1>13. CASE SendTimeout
    <2>1. QmpTypeOK'
      BY <1>0, <1>13 DEF SendTimeout, LengthAfterTimeout, QmpTypeOK
    <2>2. HandshakeInv'
      BY <1>0, <1>13 DEF SendTimeout, HandshakeInv, Linked
    <2>3. MailboxInv'
      BY <1>0, <1>13 DEF SendTimeout, LengthAfterTimeout, MailboxInv, TakenWhole, Msg, Holds
    <2> QED
      BY <2>1, <2>2, <2>3 DEF QmpInv
  <1>14. CASE AopLinkUp
    <2>1. desc' \in Desc
      BY <1>0, <1>14 DEF AopLinkUp, QmpTypeOK, Desc, State
    <2>2. QmpTypeOK'
      BY <1>0, <1>14, <2>1 DEF AopLinkUp, QmpTypeOK, uboot
    <2>3. HandshakeInv'
      BY <1>0, <1>14 DEF AopLinkUp, HandshakeInv, Linked, uboot, QmpTypeOK, Desc
    <2>4. MailboxInv'
      BY <1>0, <1>14 DEF AopLinkUp, MailboxInv, TakenWhole, uboot, Msg, Holds
    <2> QED
      BY <2>2, <2>3, <2>4 DEF QmpInv
  <1>15. CASE AopWake
    <2>1. desc' \in Desc
      BY <1>0, <1>15 DEF AopWake, Followed, QmpTypeOK, Desc, State
    <2>2. CASE len
      <3>1. body = Holds(sends) /\ sends \in Msg /\ taken' = Append(taken, body)
              /\ aop' = "ack"
        BY <1>0, <1>15, <2>2 DEF AopWake, MailboxInv
      <3>2. taken' \in Seq([1 .. Words -> 0 .. MaxSends])
        BY <1>0, <3>1, AppendProperties DEF QmpTypeOK
      <3>3. QmpTypeOK'
        BY <1>0, <1>15, <2>1, <3>1, <3>2 DEF AopWake, QmpTypeOK, uboot
      <3>4. \A k \in DOMAIN taken' : \E m \in Msg : taken'[k] = Holds(m)
        <4>1. /\ taken \in Seq([1 .. Words -> 0 .. MaxSends])
              /\ body \in [1 .. Words -> 0 .. MaxSends]
          BY <1>0 DEF QmpTypeOK
        <4>2. /\ Len(taken') = Len(taken) + 1 /\ Len(taken) \in Nat
              /\ \A k \in 1 .. Len(taken) : taken'[k] = taken[k]
              /\ taken'[Len(taken) + 1] = body
          BY <3>1, <4>1, AppendProperties, LenProperties
        <4>3. DOMAIN taken' = 1 .. Len(taken) + 1 /\ DOMAIN taken = 1 .. Len(taken)
          BY <3>2, <4>1, <4>2, LenProperties
        <4>4. \A k \in 1 .. Len(taken) : \E m \in Msg : taken[k] = Holds(m)
          BY <1>0, <4>3 DEF MailboxInv, TakenWhole
        <4> QED
          BY <3>1, <4>2, <4>3, <4>4
      <3>5. MailboxInv'
        BY <1>0, <1>15, <3>4 DEF AopWake, MailboxInv, TakenWhole, uboot, Msg, Holds
      <3> QED
        BY <1>0, <1>15, <3>3, <3>5 DEF QmpInv, AopWake, HandshakeInv, Linked, Followed, uboot, QmpTypeOK, Desc
    <2>3. CASE ~len
      <3>1. QmpTypeOK'
        BY <1>0, <1>15, <2>1, <2>3 DEF AopWake, QmpTypeOK, uboot
      <3>2. MailboxInv'
        BY <1>0, <1>15, <2>3 DEF AopWake, MailboxInv, TakenWhole, uboot, Msg, Holds
      <3> QED
        BY <1>0, <1>15, <3>1, <3>2 DEF QmpInv, AopWake, HandshakeInv, Linked, Followed, uboot, QmpTypeOK, Desc
    <2> QED
      BY <2>2, <2>3
  <1>16. CASE AopAck
    <2>1. QmpTypeOK'
      BY <1>0, <1>16 DEF AopAck, QmpTypeOK, uboot
    <2>2. HandshakeInv'
      BY <1>0, <1>16 DEF AopAck, HandshakeInv, Linked, uboot
    <2>3. MailboxInv'
      BY <1>0, <1>16 DEF AopAck, MailboxInv, TakenWhole, uboot, Msg, Holds
    <2> QED
      BY <2>1, <2>2, <2>3 DEF QmpInv
  <1>17. CASE LinkKick
    <2>1. /\ qmp_pc = "link_kick"
          /\ UNCHANGED <<body, len, word, up, opens, sends, result, aop, taken>>
      BY <1>17 DEF LinkKick, OpenKick
    <2>2. up = FALSE /\ desc \in Desc /\ desc.m_ch = "DOWN"
      BY <1>0, <2>1 DEF HandshakeInv, QmpTypeOK
    <2>3. CASE Kick(TRUE) /\ qmp_pc' = "link_ack" /\ desc' = desc
      <3>1. QmpTypeOK'
        BY <1>0, <2>1, <2>3 DEF QmpTypeOK, Kick
      <3>2. HandshakeInv'
        BY <1>0, <2>1, <2>2, <2>3 DEF HandshakeInv, Linked
      <3>3. MailboxInv'
        BY <1>0, <2>1, <2>3 DEF MailboxInv, TakenWhole, Msg, Holds
      <3> QED
        BY <3>1, <3>2, <3>3 DEF QmpInv
    <2>4. CASE Close(desc, FALSE)
      BY <2>1, <2>2, <2>4, CloseInv
    <2> QED
      BY <1>17, <2>3, <2>4 DEF LinkKick, OpenKick
  <1>18. CASE ChannelKick
    <2>1. /\ qmp_pc = "ch_kick"
          /\ UNCHANGED <<body, len, word, up, opens, sends, result, aop, taken>>
      BY <1>18 DEF ChannelKick, OpenKick
    <2>2. up = FALSE /\ desc \in Desc
      BY <1>0, <2>1 DEF HandshakeInv, QmpTypeOK
    <2>3. CASE Kick(TRUE) /\ qmp_pc' = "ucore_ch" /\ desc' = desc
      <3>1. QmpTypeOK'
        BY <1>0, <2>1, <2>3 DEF QmpTypeOK, Kick
      <3>2. HandshakeInv'
        BY <1>0, <2>1, <2>2, <2>3 DEF HandshakeInv, Linked
      <3>3. MailboxInv'
        BY <1>0, <2>1, <2>3 DEF MailboxInv, TakenWhole, Msg, Holds
      <3> QED
        BY <3>1, <3>2, <3>3 DEF QmpInv
    <2>4. CASE Close(desc, TRUE)
      BY <2>1, <2>2, <2>4, CloseInv
    <2> QED
      BY <1>18, <2>3, <2>4 DEF ChannelKick, OpenKick
  <1>19. CASE ChannelAckKick
    <2>1. /\ qmp_pc = "ack_kick"
          /\ UNCHANGED <<body, len, word, up, opens, sends, result, aop, taken>>
      BY <1>19 DEF ChannelAckKick, OpenKick
    <2>2. up = FALSE /\ desc \in Desc
      BY <1>0, <2>1 DEF HandshakeInv, QmpTypeOK
    <2>3. CASE Kick(TRUE) /\ qmp_pc' = "ch_ack" /\ desc' = desc
      <3>1. QmpTypeOK'
        BY <1>0, <2>1, <2>3 DEF QmpTypeOK, Kick
      <3>2. HandshakeInv'
        BY <1>0, <2>1, <2>2, <2>3 DEF HandshakeInv, Linked
      <3>3. MailboxInv'
        BY <1>0, <2>1, <2>3 DEF MailboxInv, TakenWhole, Msg, Holds
      <3> QED
        BY <3>1, <3>2, <3>3 DEF QmpInv
    <2>4. CASE Close(desc, TRUE)
      BY <2>1, <2>2, <2>4, CloseInv
    <2> QED
      BY <1>19, <2>3, <2>4 DEF ChannelAckKick, OpenKick
  <1>20. CASE UNCHANGED qmp_vars
    BY <1>20, <1>0 DEF qmp_vars, shared, uboot, QmpInv, QmpTypeOK, HandshakeInv, Linked,
                MailboxInv, TakenWhole, Msg, Holds
  <1> QED
    BY <1>1, <1>2, <1>3, <1>4, <1>5, <1>6, <1>7, <1>8, <1>9, <1>10, <1>11,
       <1>12, <1>13, <1>14, <1>15, <1>16, <1>17, <1>18, <1>19, <1>20
       DEF QmpNext, UBoot, Aop

(* The inductive invariant of the driver and the AOP together. *)
THEOREM QmpInvariant == QmpSpec => []QmpInv
  <1>1. QmpInit => QmpInv
    BY InitInv
  <1>2. QmpInv /\ [QmpNext]_qmp_vars => QmpInv'
    BY NextInv
  <1> QED
    BY <1>1, <1>2, PTL DEF QmpSpec

(* A probed device is linked with the AOP in both directions, whatever an  *)
(* earlier handshake left in the descriptor table.                         *)
THEOREM ProbedMeansLinked == QmpSpec => []OpenMeansLinked
  <1>1. QmpInv => OpenMeansLinked
    BY DEF QmpInv, HandshakeInv, Linked, OpenMeansLinked
  <1> QED
    BY <1>1, QmpInvariant, PTL

(* No failing probe, at whatever step, leaves U-Boot's words up.           *)
THEOREM FailuresClose == QmpSpec => []FailedOpenCloses
  <1>1. QmpInv => FailedOpenCloses
    BY DEF QmpInv, HandshakeInv, FailedOpenCloses
  <1> QED
    BY <1>1, QmpInvariant, PTL

(* The AOP only ever takes whole messages, whatever doorbell wakes it.     *)
THEOREM MessagesWhole == QmpSpec => []TakenWhole
  <1>1. QmpInv => TakenWhole
    BY DEF QmpInv, MailboxInv
  <1> QED
    BY <1>1, QmpInvariant, PTL

(* What the AOP takes is the message of the send in progress.              *)
THEOREM GivenUpMeansWithdrawn == QmpSpec => NoLateTake
  <1>1. QmpInv /\ [QmpNext]_qmp_vars => [Withdrawn]_qmp_vars
    <2> SUFFICES ASSUME QmpInv, QmpNext, aop' = "ack", aop = "idle"
                 PROVE  body = Holds(sends) /\ qmp_pc \in {"kick", "reply"}
      BY DEF Withdrawn, qmp_vars
    <2>1. AopWake /\ len
      BY DEF QmpNext, UBoot, Aop, Probe, Remove, Send, LinkUp, ChannelUp, ChannelAck,
             LinkKick, ChannelKick, ChannelAckKick, OpenKick,
             OpenStep, OpenDone, OpenTimeout, SendWord, SendLength, SendKick,
             SendDone, SendTimeout, AopLinkUp, AopWake, AopAck
    <2> QED
      BY <2>1 DEF QmpInv, MailboxInv
  <1> QED
    BY <1>1, QmpInvariant, PTL DEF QmpSpec, NoLateTake

(* Messages differ in every word. *)
LEMMA HoldsInjective ==
  ASSUME NEW m, NEW n, m # n PROVE Holds(m) # Holds(n)
  <1>1. 1 \in 1 .. Words
    BY QmpAssumption
  <1>2. Holds(m)[1] = m /\ Holds(n)[1] = n
    BY <1>1 DEF Holds
  <1> QED
    BY <1>2

(* What taking the message s does to the others and to s itself. *)
LEMMA TakeEffect ==
  ASSUME taken \in Seq([1 .. Words -> 0 .. MaxSends]),
         NEW s \in Msg, Holds(s) \in [1 .. Words -> 0 .. MaxSends],
         taken' = Append(taken, Holds(s)), NEW m \in Msg
  PROVE  /\ m # s /\ Never(m) => Never(m)'
         /\ m # s /\ Once(m) => Once(m)'
         /\ Never(s) => Once(s)'
  <1>1. /\ Len(taken') = Len(taken) + 1 /\ Len(taken) \in Nat
        /\ taken' \in Seq([1 .. Words -> 0 .. MaxSends])
        /\ \A k \in 1 .. Len(taken) : taken'[k] = taken[k]
        /\ taken'[Len(taken) + 1] = Holds(s)
    BY AppendProperties, LenProperties
  <1>2. DOMAIN taken' = 1 .. Len(taken) + 1 /\ DOMAIN taken = 1 .. Len(taken)
    BY <1>1, LenProperties
  <1>3. m # s => Holds(m) # Holds(s)
    BY HoldsInjective
  <1>4. ASSUME m # s, Never(m) PROVE \A k \in DOMAIN taken' : taken'[k] # Holds(m)
    BY <1>1, <1>2, <1>3, <1>4 DEF Never
  <1>5. ASSUME m # s, Once(m) PROVE Once(m)'
    <2>1. PICK k \in DOMAIN taken : /\ taken[k] = Holds(m)
                                    /\ \A j \in DOMAIN taken \ {k} : taken[j] # Holds(m)
      BY <1>5 DEF Once
    <2>2. k \in DOMAIN taken' /\ taken'[k] = Holds(m)
      BY <1>1, <1>2, <2>1
    <2>3. \A j \in DOMAIN taken' \ {k} : taken'[j] # Holds(m)
      BY <1>1, <1>2, <1>3, <1>5, <2>1
    <2> QED
      BY <2>2, <2>3 DEF Once, Holds
  <1>6. ASSUME Never(s) PROVE Once(s)'
    <2> DEFINE k == Len(taken) + 1
    <2>1. k \in DOMAIN taken' /\ taken'[k] = Holds(s)
      BY <1>1, <1>2
    <2>2. \A j \in DOMAIN taken' \ {k} : taken'[j] # Holds(s)
      BY <1>1, <1>2, <1>6 DEF Never
    <2> QED
      BY <2>1, <2>2 DEF Once, Holds
  <1> QED
    BY <1>4, <1>5, <1>6 DEF Never, Holds

(* The calls that do not take a message change no account of one. *)
LEMMA SameAccount ==
  ASSUME taken' = taken
  PROVE  \A m : (Never(m)' <=> Never(m)) /\ (Once(m)' <=> Once(m))
  BY DEF Never, Once, Holds

(* A send that returns keeps the account: it may return 0 only for a       *)
(* message that was taken once.                                            *)
LEMMA ReturnAccount ==
  ASSUME QmpTypeOK, AckInv, sends \in Msg, UNCHANGED <<sends, taken>>,
         qmp_pc' = "idle", ~len', aop' = "idle",
         NEW r \in {"ok", "error", "timeout"},
         result' = [result EXCEPT ![sends] = r],
         r = "ok" => Once(sends)
  PROVE  AckInv'
  <1> PICK n \in Msg : n = sends
    OBVIOUS
  <1>1. \A m : (Never(m)' <=> Never(m)) /\ (Once(m)' <=> Once(m))
    BY SameAccount
  <1>2. n \in Nat
    BY DEF Msg
  <1>3. /\ \A m \in Msg : m > n => Never(m) /\ result[m] = "none"
        /\ \A m \in Msg : result[m] = "ok" => Once(m)
    BY DEF AckInv
  <1>4. result'[n] = r /\ \A m \in Msg : m # n => result'[m] = result[m]
    BY DEF QmpTypeOK
  <1>5. \A m \in Msg : m > n => m # n
    BY <1>2 DEF Msg
  <1>6. \A m \in Msg : m > n => Never(m)' /\ result'[m] = "none"
    BY <1>1, <1>3, <1>4, <1>5
  <1>7. r = "ok" => Once(n)
    OBVIOUS
  <1>8. \A m \in Msg : result'[m] = "ok" => Once(m)'
    BY <1>1, <1>3, <1>4, <1>7
  <1>9. sends' = n
    OBVIOUS
  <1> QED
    BY <1>6, <1>8, <1>9 DEF AckInv

(* With an AOP that acknowledges in time, every step keeps the account of  *)
(* which message was taken.                                                *)
LEMMA AckNext ==
  ASSUME PromptAck, QmpInv, AckInv, [QmpNext]_qmp_vars PROVE AckInv'
  <1> USE QmpAssumption
  <1>0. QmpTypeOK /\ HandshakeInv /\ MailboxInv /\ PromptAck
    BY DEF QmpInv
  <1>1. CASE taken' = taken /\ UNCHANGED <<len, aop, sends, result>>
             /\ (qmp_pc' = qmp_pc \/ qmp_pc' \notin {"body", "kick", "reply"}
                    \/ (qmp_pc = "kick" /\ qmp_pc' = "reply"))
    BY <1>0, <1>1 DEF AckInv, Never, Once, Holds, Msg
  <1>2. CASE Send
    <2>1. sends' = sends + 1 /\ sends' \in Msg /\ qmp_pc' = "body" /\ ~len
            /\ UNCHANGED <<len, aop, result, taken>> /\ aop # "ack"
      BY <1>0, <1>2 DEF Send, shared, QmpTypeOK, Msg, MailboxInv, AckInv
    <2> PICK n \in Msg : n = sends'
      BY <2>1
    <2>2. Never(n) /\ result[n] = "none" /\ n \in Nat /\ sends \in Nat
      BY <1>0, <2>1 DEF AckInv, QmpTypeOK, Msg
    <2>3. \A m : (Never(m)' <=> Never(m)) /\ (Once(m)' <=> Once(m))
      BY <2>1, SameAccount
    <2>4. \A m \in Msg : m > n => m > sends
      BY <2>1, <2>2 DEF Msg
    <2>5. \A m \in Msg : m > n => Never(m)' /\ result'[m] = "none"
      BY <2>1, <2>3, <2>4 DEF AckInv
    <2>6. \A m \in Msg : result'[m] = "ok" => Once(m)'
      BY <2>1, <2>3 DEF AckInv
    <2>7. Never(n)' /\ result'[n] = "none"
      BY <2>1, <2>2, <2>3
    <2>8. Never(sends)'
      BY <2>7 DEF Never, Holds
    <2> QED
      BY <2>1, <2>5, <2>6, <2>7, <2>8 DEF AckInv
  <1>3. CASE SendLength
    BY <1>0, <1>3 DEF SendLength, AckInv, Never, Once, Holds, Msg, MailboxInv, QmpTypeOK
  <1>4. CASE SendKick /\ qmp_pc' = "idle"
    <2>1. /\ sends \in Msg /\ UNCHANGED <<sends, taken>> /\ ~len' /\ aop' = aop
          /\ result' = [result EXCEPT ![sends] = "error"] /\ aop = "idle"
      BY <1>0, <1>4 DEF SendKick, MayWithdraw, MailboxInv
    <2> QED
      BY <1>0, <1>4, <2>1, ReturnAccount
  <1>5. CASE SendDone
    <2>1. /\ sends \in Msg /\ UNCHANGED <<sends, taken>> /\ ~len' /\ aop' = aop
          /\ result' = [result EXCEPT ![sends] = "ok"] /\ ~len
          /\ qmp_pc = "reply" /\ qmp_pc' = "idle"
      BY <1>0, <1>5 DEF SendDone, Replied, shared, MailboxInv
    <2>2. aop = "idle" /\ Once(sends)
      BY <1>0, <2>1 DEF AckInv, QmpTypeOK
    <2> QED
      BY <1>0, <2>1, <2>2, ReturnAccount
  <1>6. CASE SendTimeout
    <2>1. /\ sends \in Msg /\ UNCHANGED <<sends, taken>> /\ ~len' /\ aop' = aop
          /\ result' = [result EXCEPT ![sends] = "timeout"] /\ aop = "idle"
          /\ qmp_pc' = "idle"
      BY <1>0, <1>6 DEF SendTimeout, LengthAfterTimeout, GivesUp, MayWithdraw, MailboxInv
    <2> QED
      BY <1>0, <2>1, ReturnAccount
  <1>7. CASE AopWake /\ len
    <2>1. /\ sends \in Msg /\ body = Holds(sends) /\ taken' = Append(taken, body)
          /\ aop = "idle" /\ aop' = "ack" /\ qmp_pc \in {"kick", "reply"}
          /\ UNCHANGED <<len, qmp_pc, sends, result>>
          /\ taken \in Seq([1 .. Words -> 0 .. MaxSends])
          /\ body \in [1 .. Words -> 0 .. MaxSends]
      BY <1>0, <1>7 DEF AopWake, MailboxInv, QmpTypeOK, uboot
    <2> PICK n \in Msg : n = sends
      BY <2>1
    <2>2. /\ Never(n) => Once(n)'
          /\ \A m \in Msg : m # n /\ Never(m) => Never(m)'
          /\ \A m \in Msg : m # n /\ Once(m) => Once(m)'
      BY <2>1, TakeEffect
    <2>3. Once(n)'
      BY <1>7, <2>1, <2>2 DEF AckInv
    <2>4. \A m \in Msg : m > n => Never(m)' /\ result'[m] = "none"
      <3> SUFFICES ASSUME NEW m \in Msg, m > n
                   PROVE  Never(m)' /\ result'[m] = "none"
        OBVIOUS
      <3>1. m # n
        BY DEF Msg
      <3>2. Never(m) /\ result[m] = "none"
        BY DEF AckInv
      <3> QED
        BY <2>1, <2>2, <3>1, <3>2
    <2>5. result[n] = "none"
      BY <2>1 DEF AckInv
    <2>6. \A m \in Msg : result'[m] = "ok" => Once(m)'
      BY <2>1, <2>2, <2>5 DEF AckInv
    <2>7. sends' = n
      BY <2>1
    <2>8. Once(sends)'
      BY <2>3, <2>7, Zenon DEF Once, Holds
    <2> QED
      BY <1>7, <2>1, <2>4, <2>5, <2>6, <2>7, <2>8 DEF AckInv
  <1>8. CASE AopAck
    <2>1. /\ aop = "ack" /\ aop' = "idle" /\ ~len'
          /\ UNCHANGED <<qmp_pc, sends, result, taken>>
          /\ qmp_pc \notin {"body"}
      BY <1>0, <1>8 DEF AopAck, uboot, MailboxInv, AckInv
    <2>2. \A m : (Never(m)' <=> Never(m)) /\ (Once(m)' <=> Once(m))
      BY <2>1, Zenon DEF Never, Once, Holds
    <2>3. Once(sends)'
      <3>1. PICK n : n = sends
        OBVIOUS
      <3>2. Once(n)' /\ sends' = n
        BY <2>1, <2>2, <3>1 DEF AckInv
      <3> QED
        BY <3>2, Zenon DEF Once, Holds
    <2>4. \A m \in Msg : m > sends' => Never(m)' /\ result'[m] = "none"
      BY <2>1, <2>2 DEF AckInv
    <2>5. \A m \in Msg : result'[m] = "ok" => Once(m)'
      BY <2>1, <2>2 DEF AckInv
    <2>6. qmp_pc' \in {"body", "kick", "reply"} => result'[sends'] = "none"
      BY <2>1 DEF AckInv
    <2> QED
      BY <2>1, <2>3, <2>4, <2>5, <2>6 DEF AckInv
  <1>9. CASE UNCHANGED qmp_vars
    BY <1>1, <1>9 DEF qmp_vars, shared, uboot
  <1>10. CASE Probe \/ Remove \/ LinkUp \/ ChannelUp \/ ChannelAck \/ OpenDone
              \/ LinkKick \/ ChannelKick \/ ChannelAckKick
              \/ OpenTimeout \/ SendWord \/ AopLinkUp
    BY <1>1, <1>10 DEF Probe, Remove, LinkUp, ChannelUp, ChannelAck, OpenStep, OpenKick, Close,
                LinkKick, ChannelKick, ChannelAckKick,
                OpenDone, OpenTimeout, SendWord, AopLinkUp, shared, uboot
  <1>11. CASE SendKick /\ qmp_pc' # "idle"
    BY <1>1, <1>11 DEF SendKick
  <1>12. CASE AopWake /\ ~len
    BY <1>1, <1>12 DEF AopWake, uboot
  <1> QED
    BY <1>2, <1>3, <1>4, <1>5, <1>6, <1>7, <1>8, <1>9, <1>10, <1>11, <1>12
       DEF QmpNext, UBoot, Aop

(* When the AOP acknowledges in time, a send that returned 0 was taken,    *)
(* once: no stale acknowledgement passes for the one it waited for.        *)
THEOREM SuccessIsReal == PromptAck /\ QmpSpec => []SuccessMeansTaken
  <1>1. QmpInit => AckInv
    BY QmpAssumption DEF QmpInit, AckInv, Never, Msg
  <1>2. PromptAck /\ QmpInv /\ AckInv /\ [QmpNext]_qmp_vars => AckInv'
    BY AckNext
  <1>3. AckInv => SuccessMeansTaken
    BY DEF AckInv, SuccessMeansTaken
  <1>4. PromptAck \in BOOLEAN
    BY QmpAssumption
  <1>5. CASE PromptAck
    <2>1. QmpInv /\ AckInv /\ [QmpNext]_qmp_vars => AckInv'
      BY <1>2, <1>5
    <2> QED
      BY <1>1, <2>1, <1>3, QmpInvariant, PTL DEF QmpSpec
  <1> QED
    BY <1>4, <1>5

-----------------------------------------------------------------------------
(* The boot (AdspPas). *)

USE AdspPasAssumption DEF Steps

LEMMA InitAdspInv == Init => AdspInv
  <1> SUFFICES ASSUME Init PROVE AdspInv
    OBVIOUS
  <1> USE DEF Init
  <1>1. meta \in 0 .. MaxCalls /\ calls \in 0 .. MaxCalls
    OBVIOUS
  <1>1a. enabled \in 0 .. Domains /\ polls \in 0 .. MaxPolls
    OBVIOUS
  <1>2. TypeOK
    BY <1>1, <1>1a DEF TypeOK
  <1>3. HeldInv /\ BootedHolds /\ RunningInv
    BY DEF HeldInv, BootedHolds, RunningInv
  <1>4. IdleInv
    BY DEF IdleInv
  <1> QED
    BY <1>2, <1>3, <1>4 DEF AdspInv

(* What every step keeps within its bounds. *)
Bounds ==
    /\ pc \in Steps /\ ret \in {"ok", "err"}
    /\ booted \in BOOLEAN /\ failed \in BOOLEAN /\ qmp \in BOOLEAN
    /\ xo_on \in BOOLEAN /\ xo_user \in BOOLEAN
    /\ clk_valid \in BOOLEAN /\ clk_enabled \in BOOLEAN
    /\ mapped \in BOOLEAN /\ fw \in BOOLEAN /\ metadata_ctx \in BOOLEAN
    /\ reserved \in BOOLEAN /\ handover_seen \in BOOLEAN /\ adsp \in BOOLEAN
    /\ enabled \in 0 .. Domains /\ votes \subseteq 1 .. Domains
    /\ polls \in 0 .. MaxPolls /\ calls \in 0 .. MaxCalls
    /\ smp2p \subseteq Signals
    /\ mishaps \subseteq Mishaps
    /\ meta \in Nat

(* An error exit that gave back what it held leaves the invariant. *)
LEMMA FailInv ==
  ASSUME AdspInv, pc # "idle", Bounds', pc' = "idle", ret' = "err",
         ~mapped', ~fw', enabled' = 0, UNCHANGED <<booted, calls, order>>,
         mishaps \subseteq mishaps',
         "qmp" \notin mishaps' => ~qmp',
         "vote" \notin mishaps' => votes' = {},
         "mem_setup" \notin mishaps' => meta' = 0, meta' <= calls,
         xo_on' => xo_user' \/ "clk" \in mishaps',
         "running" \notin mishaps' => ~adsp'
  PROVE  AdspInv'
  <1>1. ~booted' /\ calls' \in 0 .. MaxCalls
    BY DEF AdspInv, HeldInv, Bounds
  <1>2. meta' \in 0 .. MaxCalls
    BY <1>1 DEF Bounds
  <1>3. TypeOK'
    BY <1>2 DEF Bounds, TypeOK
  <1>4. HeldInv' /\ BootedHolds' /\ RunningInv'
    BY <1>1 DEF HeldInv, BootedHolds, RunningInv
  <1>5. IdleInv'
    BY DEF IdleInv
  <1> QED
    BY <1>1, <1>3, <1>4, <1>5 DEF AdspInv

(* A step on the way that leaves HeldInv leaves the invariant. *)
LEMMA StepInv ==
  ASSUME AdspInv, Bounds', pc' # "idle", HeldInv',
         UNCHANGED calls, UNCHANGED order \/ order' \in Orders, mishaps \subseteq mishaps',
         pc' = "wait" => adsp',
         pc' # "wait" => UNCHANGED adsp /\ pc # "wait" /\ pc # "idle"
  PROVE  AdspInv'
  <1>1. ~booted' /\ calls' \in 0 .. MaxCalls
    BY DEF HeldInv, Bounds
  <1>2. meta' \in 0 .. MaxCalls
    BY <1>1 DEF HeldInv, Bounds
  <1>3. TypeOK'
    BY <1>2 DEF Bounds, TypeOK
  <1>4. IdleInv'
    BY <1>1 DEF IdleInv
  <1>4a. BootedHolds'
    <2>1. ASSUME pc' = "wait", ~handover_seen'
          PROVE  enabled' = Domains /\ votes' = 1 .. Domains /\ (clk_enabled' => xo_on')
      BY <2>1 DEF HeldInv, Bounds, HasClocks, HasLoadState, ClocksOn
    <2> QED
      BY <1>1, <2>1 DEF BootedHolds
  <1>5. RunningInv'
    <2>1. CASE pc' = "wait"
      BY <2>1 DEF RunningInv
    <2>2. CASE pc' # "wait"
      <3>1. ~booted
        BY <2>2 DEF AdspInv, HeldInv
      <3> QED
        BY <2>2, <3>1 DEF RunningInv, AdspInv
    <2> QED
      BY <2>1, <2>2
  <1> QED
    BY <1>1, <1>3, <1>4, <1>4a, <1>5 DEF AdspInv

LEMMA HasBounds == AdspInv => Bounds
  BY DEF AdspInv, TypeOK, Bounds

LEMMA BootInv == AdspInv /\ boot => AdspInv'
  <1> SUFFICES ASSUME AdspInv, boot PROVE AdspInv'
    OBVIOUS
  <1>0. Bounds /\ pc = "idle" /\ calls' = calls + 1 /\ calls' \in 1 .. MaxCalls
          /\ UNCHANGED <<proc, qmp, votes, xo_on, xo_user, mapped, fw, meta, reserved, remote,
                         mishaps>>
    BY HasBounds DEF boot, At, Bounds
  <1>1. CASE pc' = "idle"
    <2>1. /\ UNCHANGED <<clk_valid, clk_enabled, handover_seen, polls, enabled, metadata_ctx>>
          /\ ret' \in {"ok", "err"} /\ (booted => ret' = "ok")
      BY <1>1 DEF boot, Ok, Returns
    <2>2. TypeOK'
      BY <1>0, <1>1, <2>1 DEF AdspInv, TypeOK, proc, remote
    <2>3. HeldInv' /\ BootedHolds' /\ RunningInv'
      BY <1>0, <1>1, <2>1 DEF AdspInv, HeldInv, BootedHolds, RunningInv, proc, remote
    <2>4. IdleInv'
      BY <1>0, <1>1, <2>1 DEF AdspInv, IdleInv, Bounds, proc, remote
    <2> QED
      BY <1>0, <1>1, <2>1, <2>2, <2>3, <2>4 DEF AdspInv, Bounds, proc, remote
  <1>2. CASE pc' # "idle"
    <2>1. /\ ~booted /\ ~failed /\ pc' = "smp2p" /\ ret' = ret
          /\ clk_valid' = FALSE /\ clk_enabled' = FALSE /\ enabled' = 0
          /\ handover_seen' = FALSE /\ polls' = 0 /\ metadata_ctx' = FALSE
      BY <1>2 DEF boot, Ok, Returns
    <2>2. IdleInv /\ RunningInv
      BY DEF AdspInv
    <2>3. HeldInv'
      BY <1>0, <2>1, <2>2 DEF HeldInv, IdleInv, Bounds, HasLoadState, HasClocks, HasMapping,
                              HasFile, HasMetadata, ClocksOn, proc
    <2>z. 0 \in 0 .. Domains /\ 0 \in 0 .. MaxPolls /\ calls' \in 0 .. MaxCalls
      BY <1>0
    <2>4. TypeOK'
      <3>1. /\ pc' \in Steps /\ enabled' \in 0 .. Domains /\ polls' \in 0 .. MaxPolls
            /\ clk_valid' \in BOOLEAN /\ clk_enabled' \in BOOLEAN
            /\ handover_seen' \in BOOLEAN /\ metadata_ctx' \in BOOLEAN
        BY <2>1, <2>z
      <3> QED
        BY <1>0, <2>1, <2>z, <3>1 DEF AdspInv, TypeOK, proc, remote
    <2>5. IdleInv' /\ BootedHolds' /\ RunningInv'
      BY <1>0, <2>1, <2>2 DEF IdleInv, BootedHolds, RunningInv, proc, remote
    <2> QED
      BY <1>0, <2>1, <2>3, <2>4, <2>5 DEF AdspInv, proc, remote
  <1> QED
    BY <1>1, <1>2

(* What the steps of a call hold. *)
LEMMA HeldFacts ==
  ASSUME AdspInv, pc # "idle"
  PROVE  /\ Bounds /\ ~booted /\ ~failed /\ calls \in 1 .. MaxCalls
         /\ HasLoadState => qmp
         /\ ~HasLoadState /\ "qmp" \notin mishaps => ~qmp
         /\ mapped <=> HasMapping
         /\ fw <=> HasFile
         /\ metadata_ctx <=> HasMetadata
         /\ mapped => reserved
         /\ ~HasLoadState => enabled = 0
         /\ ~HasClocks => ~clk_enabled /\ ~clk_valid
         /\ (pc = "clk" \/ HasClocks) /\ ~handover_seen => enabled = Domains
         /\ clk_enabled <=> clk_valid
         /\ pc # "wait" => ~handover_seen
         /\ handover_seen => enabled = 0
         /\ 1 .. enabled \subseteq votes
         /\ "vote" \notin mishaps => votes = 1 .. enabled
         /\ "mem_setup" \notin mishaps => meta = IF HasMetadata THEN 1 ELSE 0
         /\ ClocksOn => xo_on
         /\ xo_on => ClocksOn \/ xo_user \/ "clk" \in mishaps
         /\ HasMetadata => meta > 0
         /\ meta < (IF HasMetadata THEN calls + 1 ELSE calls)
         /\ pc = "wait" => adsp
         /\ pc # "wait" /\ "running" \notin mishaps => ~adsp
  BY HasBounds DEF AdspInv, HeldInv, Bounds, RunningInv

(* An exit that leaves f behind. *)
LEMMA ExitInv ==
  ASSUME AdspInv, pc # "idle", NEW f \in SUBSET Mishaps, out_qmp_off(f),
         UNCHANGED <<booted, handover_seen, polls, calls, xo_user, reserved, smp2p, order>>,
         failed' \in BOOLEAN, adsp' \in BOOLEAN, "running" \notin mishaps \cup f => ~adsp',
         mapped' = FALSE, fw' = FALSE, enabled' = 0, votes' \subseteq 1 .. Domains,
         "vote" \notin f => votes' = votes \ 1 .. enabled,
         meta' \in Nat, "mem_setup" \notin mishaps \cup f => meta' = 0, meta' <= calls,
         xo_on' \in BOOLEAN, xo_on' => xo_on /\ (clk_valid => "clk" \in f),
         clk_valid' \in BOOLEAN, clk_enabled' \in BOOLEAN, metadata_ctx' \in BOOLEAN
  PROVE  AdspInv'
  <1>1. /\ pc' = "idle" /\ ret' = "err" /\ qmp' = ("qmp" \in f) /\ qmp' \in BOOLEAN
        /\ mishaps' = mishaps \cup f
    BY DEF out_qmp_off, Returns
  <1>2. Bounds
    BY HasBounds
  <1>3. xo_on' => xo_user' \/ "clk" \in mishaps'
    <2>1. ASSUME xo_on' PROVE ClocksOn \/ xo_user \/ "clk" \in mishaps
      BY <2>1, HeldFacts
    <2>2. ASSUME xo_on', ClocksOn PROVE "clk" \in f
      BY <2>2, HeldFacts DEF ClocksOn
    <2> QED
      BY <1>1, <2>1, <2>2
  <1>4. "vote" \notin mishaps' => votes' = {}
    <2>1. "vote" \notin mishaps => votes = 1 .. enabled
      BY HeldFacts
    <2> QED
      BY <1>1, <2>1
  <1>5. mishaps \subseteq mishaps' /\ mishaps' \subseteq Mishaps
    BY <1>1, <1>2 DEF Bounds
  <1>6. enabled' \in 0 .. Domains /\ mapped' \in BOOLEAN /\ fw' \in BOOLEAN
    <2>1. 0 \in 0 .. Domains
      OBVIOUS
    <2> QED
      BY <2>1
  <1>7. pc' \in Steps /\ ret' \in {"ok", "err"}
    BY <1>1
  <1>8. Bounds'
    BY <1>1, <1>2, <1>5, <1>6, <1>7 DEF Bounds
  <1>9. "qmp" \notin mishaps' => ~qmp'
    BY <1>1
  <1>10. ("running" \notin mishaps' => ~adsp') /\ ("mem_setup" \notin mishaps' => meta' = 0)
    BY <1>1
  <1> QED
    BY <1>1, <1>3, <1>4, <1>5, <1>8, <1>9, <1>10, FailInv

LEMMA Smp2pInv == AdspInv /\ smp2p_init => AdspInv'
  <1> SUFFICES ASSUME AdspInv, smp2p_init PROVE AdspInv'
    OBVIOUS
  <1>0. /\ pc = "smp2p" /\ pc' \in {"qmp", "idle"}
        /\ UNCHANGED <<booted, failed, handover_seen, polls, calls, mishaps, qmp, enabled,
                       votes, xo_on, xo_user, clk_valid, clk_enabled, mapped, fw, meta,
                       metadata_ctx, reserved, adsp, smp2p, order>>
        /\ pc' = "qmp" => ret' = ret
        /\ pc' = "idle" => ret' = "err"
    BY DEF smp2p_init, At, Ok, Returns, Keep, proc, power, clocks, memory, remote
  <1> USE DEF HasLoadState, HasClocks, HasMapping, HasFile, HasMetadata, ClocksOn
  <1>1. Bounds'
    BY <1>0, HeldFacts DEF Bounds
  <1>2. CASE pc' = "qmp"
    <2>1. HeldInv'
      BY <1>0, <1>2, HeldFacts DEF HeldInv, Bounds
    <2> QED
      BY <1>0, <1>1, <1>2, <2>1, StepInv
  <1>3. CASE pc' = "idle"
    <2>1. votes = 1 .. enabled /\ enabled = 0 => votes = {}
      OBVIOUS
    <2> QED
      BY <1>0, <1>1, <1>3, <2>1, HeldFacts, FailInv DEF Bounds
  <1> QED
    BY <1>0, <1>2, <1>3

LEMMA LoadStateInv == AdspInv /\ load_state => AdspInv'
  <1> SUFFICES ASSUME AdspInv, load_state PROVE AdspInv'
    OBVIOUS
  <1>0. /\ pc = "qmp"
        /\ UNCHANGED <<booted, failed, handover_seen, polls, calls, mishaps, enabled,
                       votes, xo_on, xo_user, clk_valid, clk_enabled, mapped, fw, meta,
                       metadata_ctx, reserved, adsp, smp2p, order>>
        /\ \/ pc' = "pd" /\ ret' = ret /\ qmp' = TRUE
           \/ pc' = "idle" /\ ret' = "err" /\ qmp' = qmp
    BY DEF load_state, At, Ok, Returns, Keep, proc, power, clocks, memory, remote
  <1> USE DEF HasLoadState, HasClocks, HasMapping, HasFile, HasMetadata, ClocksOn
  <1>1. Bounds'
    BY <1>0, HeldFacts DEF Bounds
  <1>2. CASE pc' = "pd"
    <2>1. HeldInv'
      BY <1>0, <1>2, HeldFacts DEF HeldInv, Bounds
    <2> QED
      BY <1>0, <1>1, <1>2, <2>1, StepInv
  <1>3. CASE pc' = "idle"
    <2>1. votes = 1 .. enabled /\ enabled = 0 => votes = {}
      OBVIOUS
    <2> QED
      BY <1>0, <1>1, <1>3, <2>1, HeldFacts, FailInv DEF Bounds
  <1> QED
    BY <1>0, <1>2, <1>3

(* Switching off the power domains and the clocks. *)
LEMMA PowerOff ==
  ASSUME Bounds, NEW f, disable_power_domains(f)
  PROVE  /\ enabled' = 0 /\ votes' \subseteq 1 .. Domains
         /\ "vote" \notin f => votes' = votes \ 1 .. enabled
  <1>1. PICK kept \in SUBSET (1 .. enabled) :
          ((kept # {}) <=> ("vote" \in f)) /\ votes' = (votes \ 1 .. enabled) \cup kept
    BY DEF disable_power_domains
  <1>2. 1 .. enabled \subseteq 1 .. Domains
    BY DEF Bounds
  <1> QED
    BY <1>1, <1>2 DEF Bounds, disable_power_domains

LEMMA ClocksOff ==
  ASSUME Bounds, NEW f, disable_clocks(f)
  PROVE  /\ xo_on' \in BOOLEAN /\ (xo_on' => xo_on /\ (clk_valid => "clk" \in f))
         /\ UNCHANGED <<clk_valid, clk_enabled>>
         /\ clk_valid' \in BOOLEAN /\ clk_enabled' \in BOOLEAN
  BY DEF Bounds, disable_clocks, rpmh_clk_disable

LEMMA PowerDomainInv == AdspInv /\ enable_power_domain => AdspInv'
  <1> SUFFICES ASSUME AdspInv, enable_power_domain PROVE AdspInv'
    OBVIOUS
  <1>0. /\ pc = "pd"
        /\ UNCHANGED <<booted, failed, handover_seen, polls, calls, xo_on, xo_user, clk_valid,
                       clk_enabled, mapped, fw, meta, metadata_ctx, reserved, adsp, smp2p,
                       order>>
    BY DEF enable_power_domain, At, Keep, proc, clocks, memory, remote
  <1>1. /\ Bounds /\ enabled \in 0 .. Domains /\ votes \subseteq 1 .. Domains /\ meta \in Nat
        /\ calls \in 1 .. MaxCalls
        /\ clk_enabled = FALSE /\ clk_valid = FALSE /\ mapped = FALSE /\ fw = FALSE
    BY <1>0, HeldFacts DEF Bounds, HasClocks, HasMapping, HasFile, HasLoadState
  <1> USE DEF HasLoadState, HasClocks, HasMapping, HasFile, HasMetadata, ClocksOn
  <1>2. CASE enabled < Domains /\ enabled' = enabled + 1 /\ votes' = votes \cup {enabled + 1}
             /\ UNCHANGED <<pc, ret, qmp, mishaps>>
    <2>1. /\ enabled' \in 0 .. Domains /\ votes' \subseteq 1 .. Domains
          /\ votes = 1 .. enabled => votes' = 1 .. enabled'
          /\ 1 .. enabled \subseteq votes => 1 .. enabled' \subseteq votes'
      BY <1>1, <1>2
    <2>2. Bounds'
      BY <1>0, <1>2, <2>1, HeldFacts DEF Bounds
    <2>3. HeldInv'
      BY <1>0, <1>2, <2>1, HeldFacts DEF HeldInv, Bounds
    <2> QED
      BY <1>0, <1>2, <2>2, <2>3, StepInv
  <1>3. CASE enabled = Domains /\ Ok("clk") /\ UNCHANGED <<power, qmp, mishaps>>
    <2>1. enabled = Domains /\ pc' = "clk" /\ UNCHANGED <<ret, enabled, votes, qmp, mishaps>>
      BY <1>3 DEF Ok, power
    <2>2. Bounds'
      BY <1>0, <2>1, HeldFacts DEF Bounds
    <2>3. HeldInv'
      BY <1>0, <2>1, HeldFacts DEF HeldInv, Bounds
    <2> QED
      BY <1>0, <2>1, <2>2, <2>3, StepInv
  <1>m. /\ meta' \in Nat /\ meta' <= calls
        /\ "mem_setup" \notin mishaps => meta' = 0
        /\ xo_on' \in BOOLEAN /\ xo_on' = xo_on /\ ~clk_valid
        /\ mapped' = FALSE /\ fw' = FALSE
        /\ clk_valid' \in BOOLEAN /\ clk_enabled' \in BOOLEAN /\ metadata_ctx' \in BOOLEAN
        /\ failed' \in BOOLEAN /\ adsp' \in BOOLEAN
        /\ "running" \notin mishaps => ~adsp'
    <2>1. meta <= calls /\ ("mem_setup" \notin mishaps => meta = 0)
      BY <1>0, <1>1, HeldFacts
    <2>2. meta' \in Nat /\ meta' <= calls /\ ("mem_setup" \notin mishaps => meta' = 0)
      BY <1>0, <1>1, <2>1
    <2>3. "running" \notin mishaps => ~adsp
      BY <1>0, HeldFacts
    <2> QED
      BY <1>0, <1>1, <2>2, <2>3 DEF Bounds
  <1>x. xo_on' => xo_on /\ ~clk_valid
    BY <1>m
  <1>4. ASSUME NEW f \in Refusals, disable_power_domains(f), out_qmp_off(f) PROVE AdspInv'
    <2>1. f \in SUBSET Mishaps
      BY DEF Refusals, Mishaps
    <2>2. /\ enabled' = 0 /\ votes' \subseteq 1 .. Domains
          /\ "vote" \notin f => votes' = votes \ 1 .. enabled
      BY <1>1, <1>4, PowerOff
    <2> QED
      BY ONLY AdspInv, <1>0, <1>m, <1>x, <1>4, <2>1, <2>2, ExitInv
  <1>5. ASSUME NEW f \in SUBSET {"qmp"}, out_qmp_off(f \cup {"vote"}), enabled < Domains,
               enabled' = 0, votes' = (votes \ 1 .. enabled) \cup {enabled + 1}
        PROVE  AdspInv'
    <2> DEFINE g == f \cup {"vote"}
    <2>1. g \in SUBSET Mishaps /\ "vote" \in g
      BY DEF Mishaps
    <2>2. votes' \subseteq 1 .. Domains
      BY <1>1, <1>5
    <2>3. out_qmp_off(g)
      BY <1>5
    <2> HIDE DEF g
    <2> QED
      BY ONLY AdspInv, <1>0, <1>m, <1>x, <1>5, <2>1, <2>2, <2>3, ExitInv
  <1> QED
    BY <1>2, <1>3, <1>4, <1>5 DEF enable_power_domain

LEMMA ClocksInv == AdspInv /\ enable_clocks => AdspInv'
  <1> SUFFICES ASSUME AdspInv, enable_clocks PROVE AdspInv'
    OBVIOUS
  <1>0. /\ pc = "clk"
        /\ UNCHANGED <<booted, failed, handover_seen, polls, calls, xo_user, mapped, fw, meta,
                       metadata_ctx, reserved, adsp, smp2p, order>>
    BY DEF enable_clocks, At, Keep, proc, memory, remote
  <1> USE DEF HasLoadState, HasClocks, HasMapping, HasFile, HasMetadata, ClocksOn
  <1>1. /\ Bounds /\ clk_valid = FALSE /\ clk_enabled = FALSE
        /\ meta' \in Nat /\ meta' <= calls
        /\ "mem_setup" \notin mishaps => meta' = 0
        /\ mapped' = FALSE /\ fw' = FALSE /\ metadata_ctx' \in BOOLEAN
        /\ failed' \in BOOLEAN /\ adsp' \in BOOLEAN
        /\ "running" \notin mishaps => ~adsp'
    BY <1>0, HeldFacts DEF Bounds
  <1>d. enabled = Domains
    BY <1>0, HeldFacts
  <1>2. CASE Ok("mem") /\ UNCHANGED <<qmp, power, mishaps>>
    <2>1. /\ pc' = "mem" /\ UNCHANGED <<ret, qmp, enabled, votes, mishaps>>
          /\ \/ xo_on' = TRUE /\ clk_valid' = TRUE /\ clk_enabled' = TRUE
             \/ UNCHANGED <<xo_on, clk_valid, clk_enabled>>
      BY <1>2 DEF enable_clocks, Ok, Returns, power, clocks, out_clocks, out_qmp_off
    <2>3. Bounds'
      BY <1>0, <1>1, <2>1 DEF Bounds
    <2>5. HeldInv'
      BY <1>0, <1>1, <1>d, <2>1, HeldFacts DEF HeldInv, Bounds
    <2> QED
      BY <1>0, <2>1, <2>3, <2>5, StepInv
  <1>3. ASSUME NEW f \in Refusals, out_clocks(f) PROVE AdspInv'
    <2>1. f \in SUBSET Mishaps
      BY DEF Refusals, Mishaps
    <2>2. disable_clocks(f) /\ disable_power_domains(f) /\ out_qmp_off(f)
      BY <1>3 DEF out_clocks
    <2> QED
      BY <1>0, <1>1, <2>1, <2>2, PowerOff, ClocksOff, ExitInv
  <1>4. ASSUME NEW f \in Refusals, ~xo_on, clk_valid' = TRUE, UNCHANGED <<xo_on, clk_enabled>>,
               disable_power_domains(f), out_qmp_off(f)
        PROVE  AdspInv'
    <2>1. f \in SUBSET Mishaps /\ xo_on' \in BOOLEAN /\ ~xo_on'
      BY <1>1, <1>4 DEF Refusals, Mishaps, Bounds
    <2>2. clk_valid' \in BOOLEAN /\ clk_enabled' \in BOOLEAN
      BY <1>1, <1>4
    <2> QED
      BY <1>0, <1>1, <1>4, <2>1, <2>2, PowerOff, ExitInv
  <1> QED
    BY <1>2, <1>3, <1>4 DEF enable_clocks, clocks

(* The exits that switch the clocks off too, from where there is no        *)
(* metadata buffer, or one that has been freed, or a lost one.             *)
LEMMA OutClocksInv ==
  ASSUME AdspInv, pc # "idle", NEW f \in SUBSET Mishaps, out_clocks(f),
         UNCHANGED <<booted, handover_seen, polls, calls, xo_user, reserved, smp2p, order>>,
         failed' \in BOOLEAN, adsp' \in BOOLEAN, "running" \notin mishaps \cup f => ~adsp',
         mapped' = FALSE, fw' = FALSE,
         meta' \in Nat, "mem_setup" \notin mishaps \cup f => meta' = 0, meta' <= calls,
         metadata_ctx' \in BOOLEAN
  PROVE  AdspInv'
  <1>1. Bounds
    BY HasBounds
  <1>2. disable_clocks(f) /\ disable_power_domains(f) /\ out_qmp_off(f)
    BY DEF out_clocks
  <1> QED
    BY <1>1, <1>2, PowerOff, ClocksOff, ExitInv

LEMMA MemoryInv == AdspInv /\ get_memory_region => AdspInv'
  <1> SUFFICES ASSUME AdspInv, get_memory_region PROVE AdspInv'
    OBVIOUS
  <1>0. /\ pc = "mem"
        /\ UNCHANGED <<booted, failed, handover_seen, polls, calls, xo_user, fw, meta,
                       metadata_ctx, adsp, smp2p, order>>
    BY DEF get_memory_region, At, Keep, proc, remote
  <1> USE DEF HasLoadState, HasClocks, HasMapping, HasFile, HasMetadata, ClocksOn
  <1>1. /\ Bounds /\ meta' \in Nat /\ meta' <= calls
        /\ "mem_setup" \notin mishaps => meta' = 0
        /\ mapped = FALSE /\ fw' = FALSE /\ metadata_ctx' \in BOOLEAN
        /\ failed' \in BOOLEAN /\ adsp' \in BOOLEAN
        /\ "running" \notin mishaps => ~adsp'
    BY <1>0, HeldFacts DEF Bounds
  <1>2. CASE /\ Ok("fw") /\ mapped' = TRUE /\ reserved' = TRUE
             /\ UNCHANGED <<qmp, power, clocks, mishaps>>
    <2>1. /\ pc' = "fw"
          /\ UNCHANGED <<ret, qmp, enabled, votes, xo_on, clk_valid, clk_enabled, mishaps>>
      BY <1>2 DEF Ok, power, clocks
    <2>2. Bounds'
      BY <1>0, <1>1, <1>2, <2>1 DEF Bounds
    <2>3. HeldInv'
      BY <1>0, <1>1, <1>2, <2>1, HeldFacts DEF HeldInv, Bounds
    <2> QED
      BY <1>0, <2>1, <2>2, <2>3, StepInv
  <1>3. ASSUME NEW f \in Refusals, out_clocks(f), UNCHANGED <<mapped, reserved>> PROVE AdspInv'
    <2>1. f \in SUBSET Mishaps
      BY DEF Refusals, Mishaps
    <2> QED
      BY <1>0, <1>1, <1>3, <2>1, OutClocksInv
  <1> QED
    BY <1>2, <1>3 DEF get_memory_region

LEMMA FirmwareInv == AdspInv /\ read_firmware => AdspInv'
  <1> SUFFICES ASSUME AdspInv, read_firmware PROVE AdspInv'
    OBVIOUS
  <1>0. /\ pc = "fw"
        /\ UNCHANGED <<booted, failed, handover_seen, polls, calls, xo_user, meta,
                       metadata_ctx, reserved, adsp, smp2p, order>>
    BY DEF read_firmware, At, Keep, proc, remote
  <1> USE DEF HasLoadState, HasClocks, HasMapping, HasFile, HasMetadata, ClocksOn
  <1>1. /\ Bounds /\ meta' \in Nat /\ meta' <= calls
        /\ "mem_setup" \notin mishaps => meta' = 0
        /\ fw = FALSE /\ metadata_ctx' \in BOOLEAN
        /\ failed' \in BOOLEAN /\ adsp' \in BOOLEAN
        /\ "running" \notin mishaps => ~adsp'
    BY <1>0, HeldFacts DEF Bounds
  <1>2. CASE Ok("init") /\ fw' = TRUE /\ UNCHANGED <<qmp, power, clocks, mapped, mishaps>>
    <2>1. /\ pc' = "init"
          /\ UNCHANGED <<ret, qmp, enabled, votes, xo_on, clk_valid, clk_enabled, mapped,
                         mishaps>>
      BY <1>2 DEF Ok, power, clocks
    <2>2. Bounds'
      BY <1>0, <1>1, <1>2, <2>1 DEF Bounds
    <2>3. HeldInv'
      BY <1>0, <1>1, <1>2, <2>1, HeldFacts DEF HeldInv, Bounds
    <2> QED
      BY <1>0, <2>1, <2>2, <2>3, StepInv
  <1>3. ASSUME NEW f \in Refusals, out_unmap(f), fw' = FALSE PROVE AdspInv'
    <2>1. f \in SUBSET Mishaps /\ mapped' = FALSE /\ out_clocks(f)
      BY <1>3 DEF Refusals, Mishaps, out_unmap
    <2> QED
      BY <1>0, <1>1, <1>3, <2>1, OutClocksInv
  <1>4. ASSUME NEW f \in Refusals, out_free_fw(f) PROVE AdspInv'
    BY <1>3, <1>4 DEF out_free_fw
  <1> QED
    BY <1>1, <1>2, <1>3, <1>4 DEF read_firmware

LEMMA InitImageInv == AdspInv /\ init_image => AdspInv'
  <1> SUFFICES ASSUME AdspInv, init_image PROVE AdspInv'
    OBVIOUS
  <1>0. /\ pc = "init"
        /\ UNCHANGED <<booted, failed, handover_seen, polls, calls, xo_user, reserved, adsp,
                       smp2p, order>>
    BY DEF init_image, At, Keep, proc, remote
  <1> USE DEF HasLoadState, HasClocks, HasMapping, HasFile, HasMetadata, ClocksOn
  <1>1. /\ Bounds /\ meta \in Nat /\ calls \in Nat /\ meta < calls
        /\ "mem_setup" \notin mishaps => meta = 0
        /\ metadata_ctx \in BOOLEAN
        /\ failed' \in BOOLEAN /\ adsp' \in BOOLEAN
        /\ "running" \notin mishaps => ~adsp'
    BY <1>0, HeldFacts DEF Bounds
  <1>2. CASE /\ Ok("load") /\ meta' = meta + 1 /\ metadata_ctx' = TRUE
             /\ UNCHANGED <<qmp, power, clocks, mapped, fw, mishaps>>
    <2>1. /\ pc' = "load"
          /\ UNCHANGED <<ret, qmp, enabled, votes, xo_on, clk_valid, clk_enabled, mapped, fw,
                         mishaps>>
      BY <1>2 DEF Ok, power, clocks
    <2>2. Bounds'
      BY <1>0, <1>1, <1>2, <2>1 DEF Bounds
    <2>3. HeldInv'
      BY <1>0, <1>1, <1>2, <2>1, HeldFacts DEF HeldInv, Bounds
    <2> QED
      BY <1>0, <2>1, <2>2, <2>3, StepInv
  <1>3. ASSUME NEW f \in Refusals, out_free_fw(f), UNCHANGED <<meta, metadata_ctx>>
        PROVE  AdspInv'
    <2>1. /\ meta' \in Nat /\ meta' <= calls /\ metadata_ctx' \in BOOLEAN
          /\ "mem_setup" \notin mishaps => meta' = 0
      BY <1>1, <1>3
    <2>2. f \in SUBSET Mishaps /\ mapped' = FALSE /\ fw' = FALSE /\ out_clocks(f)
      BY <1>3 DEF Refusals, Mishaps, out_unmap, out_free_fw
    <2> QED
      BY <1>0, <1>1, <2>1, <2>2, OutClocksInv
  <1>4. ASSUME NEW f \in Refusals, out_free_fw(f \cup {"mem_setup"}), meta' = meta + 1,
               metadata_ctx' = TRUE
        PROVE  AdspInv'
    <2> DEFINE g == f \cup {"mem_setup"}
    <2>1. meta' \in Nat /\ meta' <= calls /\ metadata_ctx' \in BOOLEAN
      BY <1>1, <1>4
    <2>2. /\ g \in SUBSET Mishaps /\ "mem_setup" \in g
          /\ mapped' = FALSE /\ fw' = FALSE /\ out_clocks(g)
      BY <1>4 DEF Refusals, Mishaps, out_unmap, out_free_fw
    <2> HIDE DEF g
    <2> QED
      BY <1>0, <1>1, <2>1, <2>2, OutClocksInv
  <1> QED
    BY <1>2, <1>3, <1>4 DEF init_image

(* The label that frees the metadata buffer. *)
LEMMA OutFreeMetadataInv ==
  ASSUME AdspInv, pc \in {"load", "auth", "wait"}, NEW f \in SUBSET Mishaps,
         out_free_metadata(f),
         UNCHANGED <<booted, handover_seen, polls, calls, xo_user, metadata_ctx, reserved,
                     smp2p, order>>,
         failed' \in BOOLEAN, adsp' \in BOOLEAN, "running" \notin mishaps \cup f => ~adsp'
  PROVE  AdspInv'
  <1> USE DEF HasLoadState, HasClocks, HasMapping, HasFile, HasMetadata
  <1>1. /\ Bounds /\ meta \in Nat /\ calls \in Nat /\ meta <= calls /\ metadata_ctx
        /\ "mem_setup" \notin mishaps => meta = 1
    BY HeldFacts DEF Bounds
  <1>2. meta' = meta - 1
    BY <1>1 DEF out_free_metadata, free_metadata
  <1>3. meta # 0
    BY HeldFacts, <1>1
  <1>4. meta' \in Nat /\ meta' <= calls /\ ("mem_setup" \notin mishaps => meta' = 0)
    BY <1>1, <1>2, <1>3
  <1>5. metadata_ctx' \in BOOLEAN
    BY <1>1 DEF Bounds
  <1>6. mapped' = FALSE /\ fw' = FALSE /\ out_clocks(f)
    BY DEF out_free_metadata, out_free_fw, out_unmap
  <1> QED
    BY <1>4, <1>5, <1>6, OutClocksInv

LEMMA LoadSegmentsInv == AdspInv /\ load_segments => AdspInv'
  <1> SUFFICES ASSUME AdspInv, load_segments PROVE AdspInv'
    OBVIOUS
  <1>0. /\ pc = "load"
        /\ UNCHANGED <<booted, failed, handover_seen, polls, calls, xo_user, adsp, smp2p, order>>
    BY DEF load_segments, At, Keep, proc, remote
  <1> USE DEF HasLoadState, HasClocks, HasMapping, HasFile, HasMetadata, ClocksOn
  <1>1. CASE Ok("auth") /\ UNCHANGED <<qmp, power, clocks, memory, mishaps>>
    <2>1. /\ pc' = "auth"
          /\ UNCHANGED <<ret, qmp, enabled, votes, xo_on, clk_valid, clk_enabled, mapped, fw,
                         meta, metadata_ctx, reserved, mishaps>>
      BY <1>1 DEF Ok, power, clocks, memory
    <2>2. Bounds'
      BY <1>0, <2>1, HeldFacts DEF Bounds
    <2>3. HeldInv'
      BY <1>0, <2>1, HeldFacts DEF HeldInv, Bounds
    <2> QED
      BY <1>0, <2>1, <2>2, <2>3, StepInv
  <1>2. ASSUME NEW f \in Refusals, out_free_metadata(f), UNCHANGED <<metadata_ctx, reserved>>
        PROVE  AdspInv'
    <2>1. /\ f \in SUBSET Mishaps /\ failed' \in BOOLEAN /\ adsp' \in BOOLEAN
          /\ "running" \notin mishaps => ~adsp'
      BY <1>0, HeldFacts DEF Refusals, Mishaps, Bounds
    <2> QED
      BY <1>0, <1>2, <2>1, OutFreeMetadataInv
  <1> QED
    BY <1>1, <1>2 DEF load_segments

LEMMA AuthInv == AdspInv /\ auth_and_reset => AdspInv'
  <1> SUFFICES ASSUME AdspInv, auth_and_reset PROVE AdspInv'
    OBVIOUS
  <1>0. /\ pc = "auth"
        /\ UNCHANGED <<booted, failed, handover_seen, polls, calls, xo_user>>
    BY DEF auth_and_reset, At, Keep, proc
  <1> USE DEF HasLoadState, HasClocks, HasMapping, HasFile, HasMetadata, ClocksOn
  <1>1. CASE /\ Ok("wait") /\ adsp' = TRUE /\ order' \in Orders
             /\ UNCHANGED <<qmp, power, clocks, memory, smp2p, mishaps>>
    <2>1. /\ pc' = "wait" /\ adsp'
          /\ UNCHANGED <<ret, qmp, enabled, votes, xo_on, clk_valid, clk_enabled, mapped, fw,
                         meta, metadata_ctx, reserved, smp2p, mishaps>>
      BY <1>1 DEF Ok, power, clocks, memory
    <2>2. Bounds'
      BY <1>0, <1>1, <2>1, HeldFacts DEF Bounds
    <2>3. HeldInv'
      BY <1>0, <2>1, HeldFacts DEF HeldInv, Bounds
    <2> QED
      BY <1>0, <1>1, <2>1, <2>2, <2>3, StepInv
  <1>2. ASSUME NEW f \in Refusals, out_free_metadata(f),
               UNCHANGED <<metadata_ctx, reserved, remote>>
        PROVE  AdspInv'
    <2>0. UNCHANGED <<metadata_ctx, reserved, adsp, smp2p, order>>
      BY <1>2 DEF remote
    <2>1. /\ f \in SUBSET Mishaps /\ failed' \in BOOLEAN /\ adsp' \in BOOLEAN
          /\ "running" \notin mishaps => ~adsp'
      BY <1>0, <2>0, HeldFacts DEF Refusals, Mishaps, Bounds
    <2> QED
      BY <1>0, <1>2, <2>0, <2>1, OutFreeMetadataInv
  <1> QED
    BY <1>1, <1>2 DEF auth_and_reset

-----------------------------------------------------------------------------
(* The wait. *)
LEMMA DiesInv ==
  AdspInv /\ pc = "wait" /\ Dies /\ UNCHANGED <<polls, calls, xo_user>> => AdspInv'
  <1> SUFFICES ASSUME AdspInv, pc = "wait", Dies, UNCHANGED <<polls, calls, xo_user>>
               PROVE  AdspInv'
    OBVIOUS
  <1>1. /\ adsp' = FALSE /\ failed' = TRUE
        /\ UNCHANGED <<booted, metadata_ctx, reserved, smp2p, order, handover_seen>>
    BY DEF Dies
  <1>2. PICK f \in Refusals : out_free_metadata(f)
    BY DEF Dies
  <1>3. f \in SUBSET Mishaps /\ failed' \in BOOLEAN /\ adsp' \in BOOLEAN
    BY <1>1 DEF Refusals, Mishaps
  <1> QED
    BY <1>1, <1>2, <1>3, OutFreeMetadataInv

LEMMA PollFailsInv == AdspInv /\ poll_fails => AdspInv'
  <1> SUFFICES ASSUME AdspInv, poll_fails PROVE AdspInv'
    OBVIOUS
  <1>1. /\ pc = "wait"
        /\ UNCHANGED <<booted, failed, metadata_ctx, reserved, adsp, smp2p, order,
                       handover_seen, polls, calls, xo_user>>
    BY DEF poll_fails, At, Keep, proc, remote
  <1>2. PICK f \in Refusals : out_free_metadata(f \cup {"running"})
    BY DEF poll_fails
  <1> DEFINE g == f \cup {"running"}
  <1>3. /\ g \in SUBSET Mishaps /\ "running" \in g /\ out_free_metadata(g)
        /\ failed' \in BOOLEAN /\ adsp' \in BOOLEAN
    BY <1>1, <1>2, HasBounds DEF Refusals, Mishaps, Bounds
  <1> HIDE DEF g
  <1> QED
    BY <1>1, <1>3, OutFreeMetadataInv

(* What the handover gives back was held. *)
LEMMA HandoverFacts ==
  ASSUME AdspInv, pc = "wait", Handover
  PROVE  /\ handover_seen' \in BOOLEAN /\ UNCHANGED <<clk_valid, clk_enabled>>
         /\ xo_on' \in BOOLEAN
         /\ ClocksOn' => xo_on'
         /\ xo_on' => ClocksOn' \/ xo_user \/ "clk" \in mishaps'
         /\ enabled' \in 0 .. Domains /\ votes' \subseteq 1 .. Domains
         /\ handover_seen' => enabled' = 0
         /\ ~handover_seen' => enabled' = Domains
         /\ 1 .. enabled' \subseteq votes'
         /\ "vote" \notin mishaps' => votes' = 1 .. enabled'
         /\ mishaps \subseteq mishaps' /\ mishaps' \subseteq Mishaps
         /\ "mem_setup" \in mishaps' => "mem_setup" \in mishaps
  <1>1. /\ Bounds /\ xo_on \in BOOLEAN /\ clk_enabled \in BOOLEAN /\ handover_seen \in BOOLEAN
        /\ enabled \in 0 .. Domains /\ votes \subseteq 1 .. Domains /\ 0 \in 0 .. Domains
        /\ mishaps \subseteq Mishaps
    BY HasBounds DEF Bounds
  <1>2. CASE "handover" \in smp2p /\ ~handover_seen
    <2>1. PICK f \in SUBSET {"vote", "clk"} :
            disable_clocks(f) /\ disable_power_domains(f) /\ mishaps' = mishaps \cup f
      BY <1>2 DEF Handover
    <2>2. handover_seen' = TRUE
      BY <1>2 DEF Handover
    <2>3. /\ enabled' = 0 /\ votes' \subseteq 1 .. Domains
          /\ "vote" \notin f => votes' = votes \ 1 .. enabled
      BY <1>1, <2>1, PowerOff
    <2>4. /\ xo_on' \in BOOLEAN /\ (xo_on' => xo_on /\ (clk_valid => "clk" \in f))
          /\ UNCHANGED <<clk_valid, clk_enabled>>
      BY <1>1, <2>1, ClocksOff
    <2>5. "vote" \notin mishaps' => votes' = 1 .. enabled'
      <3>1. "vote" \notin mishaps => votes = 1 .. enabled
        BY HeldFacts
      <3>2. "vote" \notin mishaps' => votes' = {}
        BY <2>1, <2>3, <3>1
      <3> QED
        BY <2>3, <3>2
    <2>6. xo_on' => xo_user \/ "clk" \in mishaps'
      BY <1>2, <2>1, <2>4, HeldFacts DEF ClocksOn
    <2>7. 1 .. enabled' \subseteq votes'
      BY <2>3
    <2>8. ~ClocksOn'
      BY <2>2 DEF ClocksOn
    <2>9. mishaps \subseteq mishaps' /\ mishaps' \subseteq Mishaps
          /\ ("mem_setup" \in mishaps' => "mem_setup" \in mishaps)
      BY <1>1, <2>1 DEF Mishaps
    <2> QED
      BY <1>1, <2>2, <2>3, <2>4, <2>5, <2>6, <2>7, <2>8, <2>9
  <1>3. CASE ~("handover" \in smp2p /\ ~handover_seen)
    <2>1. UNCHANGED <<handover_seen, xo_on, clk_valid, clk_enabled, enabled, votes, mishaps>>
      BY <1>3 DEF Handover, clocks, power
    <2>2. ClocksOn' <=> ClocksOn
      BY <2>1 DEF ClocksOn
    <2> QED
      BY <1>1, <2>1, <2>2, HeldFacts DEF HasClocks, HasLoadState
  <1> QED
    BY <1>2, <1>3

LEMMA PollAgainInv == AdspInv /\ poll_again => AdspInv'
  <1> SUFFICES ASSUME AdspInv, poll_again PROVE AdspInv'
    OBVIOUS
  <1>0. /\ pc = "wait" /\ Handover /\ polls < MaxPolls /\ polls' = polls + 1
        /\ UNCHANGED <<pc, ret, booted, failed, qmp, mapped, fw, meta, metadata_ctx, reserved,
                       adsp, smp2p, order, calls, xo_user>>
    BY DEF poll_again, At, InTime, GoesOn, proc, memory, remote
  <1> USE DEF HasLoadState, HasClocks, HasMapping, HasFile, HasMetadata
  <1>1. Bounds'
    <2>1. Bounds /\ polls' \in 0 .. MaxPolls
      BY <1>0, HasBounds DEF Bounds
    <2> QED
      BY <1>0, <2>1, HandoverFacts DEF Bounds
  <1>3. HeldInv'
    BY <1>0, HandoverFacts, HeldFacts DEF HeldInv
  <1> QED
    BY <1>0, <1>1, <1>3, HandoverFacts, HeldFacts, StepInv

LEMMA PollReadyInv == AdspInv /\ poll_ready => AdspInv'
  <1> SUFFICES ASSUME AdspInv, poll_ready PROVE AdspInv'
    OBVIOUS
  <1>0. /\ pc = "wait" /\ Handover /\ pc' = "idle" /\ ret' = "ok" /\ booted' = TRUE
        /\ mapped' = FALSE /\ fw' = FALSE
        /\ meta' = IF metadata_ctx THEN meta - 1 ELSE meta
        /\ UNCHANGED <<failed, qmp, metadata_ctx, reserved, adsp, smp2p, order, polls, calls,
                       xo_user>>
        /\ "ready" \in smp2p
    BY DEF poll_ready, At, IsReady, Returns, free_metadata, remote
  <1> USE DEF HasLoadState, HasClocks, HasMapping, HasFile, HasMetadata
  <1>1. /\ Bounds /\ meta \in Nat /\ calls \in 1 .. MaxCalls /\ meta <= calls /\ meta > 0
        /\ metadata_ctx /\ qmp /\ reserved /\ ~failed /\ adsp
        /\ "mem_setup" \notin mishaps => meta = 1
    BY <1>0, HeldFacts DEF Bounds
  <1>2. /\ meta' \in Nat /\ meta' <= calls /\ meta' \in 0 .. MaxCalls
        /\ "mem_setup" \notin mishaps => meta' = 0
    BY <1>0, <1>1
  <1>7. TypeOK'
    BY <1>0, <1>1, <1>2, HandoverFacts DEF TypeOK, Bounds
  <1>8. BootedHolds'
    <2>1. "mem_setup" \notin mishaps' => meta' = 0
      BY <1>0, <1>2, HandoverFacts
    <2>2. ~handover_seen' => votes' = 1 .. Domains /\ enabled' = Domains
      BY <1>0, HandoverFacts
    <2>3. ~handover_seen' /\ clk_enabled' => xo_on'
      BY <1>0, HandoverFacts DEF ClocksOn
    <2>4. handover_seen' => enabled' = 0 /\ ("vote" \notin mishaps' => votes' = {})
      BY <1>0, HandoverFacts
    <2>5. handover_seen' /\ xo_on' => xo_user' \/ "clk" \in mishaps'
      BY <1>0, HandoverFacts DEF ClocksOn
    <2> QED
      BY <1>0, <1>1, <2>1, <2>2, <2>3, <2>4, <2>5 DEF BootedHolds
  <1>9. HeldInv' /\ IdleInv' /\ RunningInv'
    BY <1>0 DEF HeldInv, IdleInv, RunningInv
  <1> QED
    BY <1>0, <1>2, <1>7, <1>8, <1>9 DEF AdspInv

LEMMA SignalsInv == AdspInv /\ AdspSignals => AdspInv'
  <1> SUFFICES ASSUME AdspInv, AdspSignals PROVE AdspInv'
    OBVIOUS
  <1>0. UNCHANGED <<pc, ret, booted, failed, qmp, enabled, votes, xo_on, xo_user, clk_valid,
                    clk_enabled, mapped, fw, meta, metadata_ctx, reserved, handover_seen,
                    polls, adsp, calls, mishaps>>
    BY DEF AdspSignals, Keep, proc, power, clocks, memory
  <1>1. PICK s \in order : smp2p' = smp2p \cup s.sigs /\ order' = order \ {s}
    BY DEF AdspSignals
  <1>2. s.sigs \subseteq Signals
    BY DEF AdspInv
  <1>3. smp2p' \subseteq Signals /\ smp2p \subseteq smp2p' /\ order' \subseteq order
    BY <1>1, <1>2 DEF AdspInv, TypeOK
  <1>4. TypeOK'
    BY <1>0, <1>3 DEF AdspInv, TypeOK
  <1>5. HeldInv'
    BY <1>0 DEF AdspInv, HeldInv, HasLoadState, HasClocks, HasMapping, HasFile, HasMetadata,
                ClocksOn
  <1>6. IdleInv' /\ RunningInv'
    BY <1>0 DEF AdspInv, IdleInv, RunningInv
  <1>7. BootedHolds'
    BY <1>0, <1>3 DEF AdspInv, BootedHolds
  <1> QED
    BY <1>0, <1>3, <1>4, <1>5, <1>6, <1>7 DEF AdspInv

LEMMA OtherEnablesInv == AdspInv /\ OtherEnablesXo => AdspInv'
  <1> SUFFICES ASSUME AdspInv, OtherEnablesXo PROVE AdspInv'
    OBVIOUS
  <1>0. /\ UNCHANGED <<pc, ret, booted, failed, qmp, enabled, votes, clk_valid, clk_enabled,
                       mapped, fw, meta, metadata_ctx, reserved, handover_seen, polls, adsp,
                       smp2p, order, calls, mishaps>>
        /\ xo_on' = TRUE /\ xo_user' = TRUE
    BY DEF OtherEnablesXo, proc, power, memory, remote
  <1>1. TypeOK'
    BY <1>0 DEF AdspInv, TypeOK
  <1>2. HeldInv'
    BY <1>0 DEF AdspInv, HeldInv, HasLoadState, HasClocks, HasMapping, HasFile, HasMetadata,
                ClocksOn
  <1>3. IdleInv' /\ RunningInv' /\ BootedHolds'
    BY <1>0 DEF AdspInv, IdleInv, RunningInv, BootedHolds
  <1> QED
    BY <1>0, <1>1, <1>2, <1>3 DEF AdspInv

LEMMA UnchangedAdsp == AdspInv /\ UNCHANGED vars => AdspInv'
  <1> SUFFICES ASSUME AdspInv, UNCHANGED vars PROVE AdspInv'
    OBVIOUS
  <1>0. UNCHANGED <<pc, ret, booted, failed, qmp, enabled, votes, xo_on, xo_user, clk_valid,
                    clk_enabled, mapped, fw, meta, metadata_ctx, reserved, handover_seen,
                    polls, adsp, smp2p, order, calls, mishaps>>
    BY DEF vars, proc, power, clocks, memory, remote
  <1>1. TypeOK'
    BY <1>0 DEF AdspInv, TypeOK
  <1>2. HeldInv'
    BY <1>0 DEF AdspInv, HeldInv, HasLoadState, HasClocks, HasMapping, HasFile, HasMetadata,
                ClocksOn
  <1>3. IdleInv' /\ RunningInv' /\ BootedHolds'
    BY <1>0 DEF AdspInv, IdleInv, RunningInv, BootedHolds
  <1> QED
    BY <1>0, <1>1, <1>2, <1>3 DEF AdspInv

-----------------------------------------------------------------------------
(* Over any sequence of calls of qcom_adsp_pas_boot, each failing at any   *)
(* step or not at all, what is held follows from the step that is next and *)
(* from the failures that are known to leave something behind.             *)
THEOREM AdspInvariant == Spec => []AdspInv
  <1>1. AdspInv /\ [Next]_vars => AdspInv'
    <2> SUFFICES ASSUME AdspInv, [Next]_vars PROVE AdspInv'
      OBVIOUS
    <2>1. CASE BootNext
      <3>1. CASE poll_fatal \/ poll_times_out
        BY <3>1, DiesInv DEF poll_fatal, poll_times_out, At
      <3> QED
        BY <2>1, <3>1, BootInv, Smp2pInv, LoadStateInv, PowerDomainInv, ClocksInv, MemoryInv,
           FirmwareInv, InitImageInv, LoadSegmentsInv, AuthInv, PollReadyInv, PollAgainInv
           DEF BootNext
    <2> QED
      BY <2>1, PollFailsInv, SignalsInv, OtherEnablesInv, UnchangedAdsp DEF Next
  <1> QED
    BY <1>1, InitAdspInv, PTL DEF Spec

(* A call that fails has given back everything it took, whichever label it *)
(* jumped to, and a call that succeeds has left on what the ADSP needs     *)
(* (the labels out_free_metadata .. out_qmp_off), apart from what the      *)
(* firmware refuses to take back and from the failures that the labels do  *)
(* not clean up after.                                                     *)
THEOREM ResourcesAreBalanced == Spec => []ResourcesBalanced
  <1>1. AdspInv => ResourcesBalanced
    <2> SUFFICES ASSUME AdspInv PROVE ResourcesBalanced
      OBVIOUS
    <2>1. FailureReleases
      <3>1. CASE booted
        BY <3>1 DEF AdspInv, FailureReleases
      <3>2. CASE ~booted
        BY <3>2 DEF AdspInv, IdleInv, FailureReleases
      <3> QED
        BY <3>1, <3>2
    <2> QED
      BY <2>1 DEF AdspInv, ResourcesBalanced
  <1> QED
    BY <1>1, AdspInvariant, PTL

(* qpas_load_segments never writes into the memory of an ADSP that runs,   *)
(* unless a call before it could not read the ADSP's SMP2P item and left   *)
(* the ADSP running.                                                       *)
THEOREM LoadsIntoStoppedAdsp == Spec => []NeverLoadsOverRunning
  <1>1. AdspInv => NeverLoadsOverRunning
    BY DEF AdspInv, HeldInv, RunningInv, NeverLoadsOverRunning
  <1> QED
    BY <1>1, AdspInvariant, PTL
=============================================================================
