------------------------------ MODULE AossQmp -------------------------------
(***************************************************************************)
(* drivers/soc/qcom/qcom_aoss_qmp.c: the link and channel handshake with   *)
(* the always-on processor (AOP), and the one-message mailbox in MSGRAM.   *)
(*                                                                         *)
(* The AOP is external.  It wakes on the IPCC doorbell, reads the words    *)
(* of the descriptor table and, when the length word is not 0, takes the   *)
(* message; it clears the length later.  A doorbell may be older than what *)
(* it finds.                                                               *)
(***************************************************************************)
EXTENDS Naturals, Sequences, FiniteSets

CONSTANTS
    Words,          \* 32-bit words of a message (QMP_MSG_LEN / 4)
    MaxSends,       \* bound on the messages sent
    MaxOpens,       \* bound on the probes
    CanTimeOut,     \* whether the AOP may be slower than a timeout
    KickMayFail,    \* whether mbox_send may fail
    PromptAck       \* the AOP, once it has taken a message, clears the length
                    \* before U-Boot gives the message up

ASSUME QmpAssumption ==
    /\ Words \in Nat \ {0} /\ MaxSends \in Nat /\ MaxOpens \in Nat
    /\ CanTimeOut \in BOOLEAN /\ KickMayFail \in BOOLEAN
    /\ PromptAck \in BOOLEAN

VARIABLES
    desc,       \* the descriptor table's state words
    body,       \* the message area; a word holds a message number, 0 first
    len,        \* the length word: TRUE for QMP_MSG_LEN, FALSE for 0
    bell,       \* a doorbell is pending at the AOP
    qmp_pc,     \* where the call in progress is, "idle" if there is none
    word,       \* words of the body written so far
    up,         \* the device is probed
    opens,      \* probes so far
    sends,      \* messages sent so far, the one in progress included
    result,     \* what qcom_aoss_qmp_send returned for each message
    aop,        \* "idle", or "ack" between taking a message and clearing len
    taken       \* the message areas the AOP took, in order

shared == <<desc, body, len, bell>>
uboot == <<qmp_pc, word, up, opens, sends, result>>
qmp_vars == <<shared, uboot, aop, taken>>

Msg == 1 .. MaxSends

(* QMP_DESC_{U,M}CORE_{LINK,CH}_STATE and their _ACK words. *)
QmpInit ==
    /\ desc = [u_link |-> "DOWN", u_link_ack |-> "DOWN",
               u_ch |-> "DOWN", u_ch_ack |-> "DOWN",
               m_link |-> "DOWN", m_link_ack |-> "DOWN",
               m_ch |-> "DOWN", m_ch_ack |-> "DOWN"]
    /\ body = [w \in 1 .. Words |-> 0] /\ len = FALSE /\ bell = FALSE
    /\ qmp_pc = "idle" /\ word = 0 /\ up = FALSE /\ opens = 0 /\ sends = 0
    /\ result = [m \in Msg |-> "none"]
    /\ aop = "idle" /\ taken = <<>>

-----------------------------------------------------------------------------
(* qmp_open *)

Probe ==
    /\ qmp_pc = "idle" /\ ~up /\ opens < MaxOpens
    /\ opens' = opens + 1
    /\ qmp_pc' = "ucore_link"
    /\ UNCHANGED <<shared, word, up, sends, result, aop, taken>>

(* qmp_kick: mbox_send rings the doorbell, or fails. *)
Kick(ok) == /\ ok \/ KickMayFail
            /\ bell' = (bell \/ ok)

(* timeout_close_channel and timeout_close_link; qmp_close is both.  The   *)
(* words go down and the doorbell rings in one step.                       *)
Closed_LinkOnly(words, ch) == [words EXCEPT !.m_link = "DOWN"]   \* mutant
Closed(words, ch) == [words EXCEPT !.m_link = "DOWN",
                                   !.m_ch = IF ch THEN "DOWN" ELSE @]

Close(words, ch) == /\ desc' = Closed(words, ch)
                    /\ \E ok \in BOOLEAN : Kick(ok)
                    /\ qmp_pc' = "idle"

(* A wait of qmp_open is over: the words written next. *)
OpenStep(at, cond, words, next) ==
    /\ qmp_pc = at /\ cond
    /\ desc' = words /\ qmp_pc' = next
    /\ UNCHANGED <<body, len, bell, word, up, opens, sends, result, aop, taken>>

(* The doorbell for them; when it fails, what was opened is closed. *)
OpenKick(at, next, ch) ==
    /\ qmp_pc = at
    /\ \/ Kick(TRUE) /\ qmp_pc' = next /\ UNCHANGED desc
       \/ KickMayFail /\ Close(desc, ch)
    /\ UNCHANGED <<body, len, word, up, opens, sends, result, aop, taken>>

LinkUp ==
    OpenStep("ucore_link", desc.u_link = "UP",
             [desc EXCEPT !.u_link_ack = desc.u_link, !.m_link = "UP"],
             "link_kick")

LinkKick == OpenKick("link_kick", "link_ack", FALSE)

(* The AOP acknowledged the link. *)
LinkAcked == desc.m_link_ack = "UP"

ChannelUp ==
    OpenStep("link_ack", LinkAcked,
             [desc EXCEPT !.m_ch = "UP"], "ch_kick")

ChannelKick == OpenKick("ch_kick", "ucore_ch", TRUE)

ChannelAck ==
    OpenStep("ucore_ch", desc.u_ch = "UP",
             [desc EXCEPT !.u_ch_ack = "UP"], "ack_kick")

ChannelAckKick == OpenKick("ack_kick", "ch_ack", TRUE)

ChAcked_Skipped == TRUE         \* mutant
ChAcked == desc.m_ch_ack = "UP"

OpenDone ==
    /\ qmp_pc = "ch_ack" /\ ChAcked
    /\ qmp_pc' = "idle" /\ up' = TRUE
    /\ UNCHANGED <<shared, word, opens, sends, result, aop, taken>>

(* wait_event_timeout gives up only when the condition is still false. *)
OpenTimeout ==
    /\ CanTimeOut
    /\ \/ qmp_pc = "ucore_link" /\ desc.u_link # "UP"
          /\ qmp_pc' = "idle" /\ UNCHANGED <<desc, bell>>
       \/ qmp_pc = "link_ack" /\ ~LinkAcked /\ Close(desc, FALSE)
       \/ qmp_pc = "ucore_ch" /\ desc.u_ch # "UP" /\ Close(desc, TRUE)
       \/ qmp_pc = "ch_ack" /\ ~ChAcked /\ Close(desc, TRUE)
    /\ UNCHANGED <<body, len, word, up, opens, sends, result, aop, taken>>

(* qcom_aoss_qmp_remove *)
Remove ==
    /\ qmp_pc = "idle" /\ up
    /\ Close(desc, TRUE)
    /\ up' = FALSE
    /\ UNCHANGED <<body, len, word, opens, sends, result, aop, taken>>

-----------------------------------------------------------------------------
(* qcom_aoss_qmp_send *)

Send ==
    /\ qmp_pc = "idle" /\ up /\ sends < MaxSends
    /\ sends' = sends + 1
    /\ qmp_pc' = "body" /\ word' = 0
    /\ UNCHANGED <<shared, up, opens, result, aop, taken>>

MoreWords == word < Words

SendWord ==
    /\ qmp_pc = "body" /\ MoreWords
    /\ word' = word + 1
    /\ body' = [body EXCEPT ![word + 1] = sends]
    /\ UNCHANGED <<desc, len, bell, qmp_pc, up, opens, sends, result, aop, taken>>

(* The length, last. *)
BodyWritten_Early == word >= 1      \* mutant
BodyWritten == word = Words

SendLength ==
    /\ qmp_pc = "body" /\ BodyWritten
    /\ len' = TRUE
    /\ qmp_pc' = "kick"
    /\ UNCHANGED <<desc, body, bell, word, up, opens, sends, result, aop, taken>>

(* Whether U-Boot may give up the message it has posted. *)
MayWithdraw == PromptAck => aop = "idle"

SendKick ==
    /\ qmp_pc = "kick"
    /\ \/ Kick(TRUE) /\ qmp_pc' = "reply" /\ UNCHANGED <<len, result>>
       \/ /\ Kick(FALSE) /\ MayWithdraw
          /\ len' = FALSE /\ qmp_pc' = "idle"
          /\ result' = [result EXCEPT ![sends] = "error"]
    /\ UNCHANGED <<desc, body, word, up, opens, sends, aop, taken>>

(* The AOP cleared the length. *)
Replied == ~len

SendDone ==
    /\ qmp_pc = "reply" /\ Replied
    /\ qmp_pc' = "idle"
    /\ result' = [result EXCEPT ![sends] = "ok"]
    /\ UNCHANGED <<shared, word, up, opens, sends, aop, taken>>

(* "Clear message from buffer so channel is ready for reuse" *)
LengthAfterTimeout_Kept == len      \* mutant
LengthAfterTimeout == FALSE

GivesUp_Never == FALSE              \* mutant
GivesUp == CanTimeOut /\ MayWithdraw

SendTimeout ==
    /\ qmp_pc = "reply" /\ len /\ GivesUp
    /\ len' = LengthAfterTimeout /\ qmp_pc' = "idle"
    /\ result' = [result EXCEPT ![sends] = "timeout"]
    /\ UNCHANGED <<desc, body, bell, word, up, opens, sends, aop, taken>>

-----------------------------------------------------------------------------
(* The AOP. *)

AopLinkUp ==
    /\ desc.u_link # "UP"
    /\ desc' = [desc EXCEPT !.u_link = "UP"]
    /\ UNCHANGED <<body, len, bell, uboot, aop, taken>>

(* It follows U-Boot's link and channel: it opens its own channel when     *)
(* U-Boot's is up, and acknowledges U-Boot's once its own is acknowledged. *)
Followed ==
    LET ch == desc.m_link = "UP" /\ desc.m_ch = "UP"
    IN  [desc EXCEPT !.m_link_ack = desc.m_link,
                     !.u_ch = IF ch THEN "UP" ELSE "DOWN",
                     !.m_ch_ack = IF ch /\ desc.u_ch = "UP"
                                        /\ desc.u_ch_ack = "UP"
                                  THEN "UP" ELSE "DOWN"]

AopWake ==
    /\ bell /\ aop = "idle"
    /\ bell' = FALSE
    /\ desc' = Followed
    /\ IF len THEN aop' = "ack" /\ taken' = Append(taken, body)
              ELSE UNCHANGED <<aop, taken>>
    /\ UNCHANGED <<body, len, uboot>>

AopAck ==
    /\ aop = "ack"
    /\ aop' = "idle" /\ len' = FALSE
    /\ UNCHANGED <<desc, body, bell, uboot, taken>>

-----------------------------------------------------------------------------
UBoot == \/ LinkUp \/ LinkKick \/ ChannelUp \/ ChannelKick
         \/ ChannelAck \/ ChannelAckKick \/ OpenDone \/ OpenTimeout
         \/ SendWord \/ SendLength \/ SendKick \/ SendDone \/ SendTimeout

Aop == AopLinkUp \/ AopWake \/ AopAck

QmpNext == Probe \/ Remove \/ Send \/ UBoot \/ Aop

QmpSpec == QmpInit /\ [][QmpNext]_qmp_vars

QmpFairSpec == QmpSpec /\ WF_qmp_vars(UBoot)

-----------------------------------------------------------------------------
State == {"UP", "DOWN"}
Desc == [u_link : State, u_link_ack : State, u_ch : State, u_ch_ack : State,
         m_link : State, m_link_ack : State, m_ch : State, m_ch_ack : State]

(* The shapes of the state. *)
QmpTypeOK ==
    /\ desc \in Desc
    /\ body \in [1 .. Words -> 0 .. MaxSends]
    /\ len \in BOOLEAN /\ bell \in BOOLEAN /\ up \in BOOLEAN
    /\ qmp_pc \in {"idle", "ucore_link", "link_kick", "link_ack", "ch_kick",
               "ucore_ch", "ack_kick", "ch_ack", "body", "kick", "reply"}
    /\ word \in 0 .. Words
    /\ opens \in 0 .. MaxOpens /\ sends \in 0 .. MaxSends
    /\ result \in [Msg -> {"none", "ok", "error", "timeout"}]
    /\ aop \in {"idle", "ack"}
    /\ taken \in Seq([1 .. Words -> 0 .. MaxSends])

(* A probed device has a link and a channel that the AOP has acknowledged  *)
(* and opened itself, although qmp_open reads the four words one after the *)
(* other and a previous handshake may have left them UP.                   *)
OpenMeansLinked ==
    up => /\ desc.u_link = "UP" /\ desc.m_link_ack = "UP"
          /\ desc.u_ch = "UP" /\ desc.m_ch_ack = "UP"

(* A probe that fails, at whatever step, and a remove leave neither        *)
(* U-Boot's link nor its channel up.                                       *)
FailedOpenCloses ==
    (qmp_pc = "idle" /\ ~up) => desc.m_link = "DOWN" /\ desc.m_ch = "DOWN"

Holds(m) == [w \in 1 .. Words |-> m]

(* The AOP never takes a mix of two messages: an old doorbell may wake it  *)
(* while the words are being written, but the length is written last.      *)
TakenWhole == \A k \in DOMAIN taken : \E m \in Msg : taken[k] = Holds(m)

(* The message m was not taken; was taken, and once. *)
Never(m) == \A k \in DOMAIN taken : taken[k] # Holds(m)
Once(m) == \E k \in DOMAIN taken :
                taken[k] = Holds(m)
                    /\ \A j \in DOMAIN taken \ {k} : taken[j] # Holds(m)

(* A send that returned 0 was taken by the AOP, once: the cleared length   *)
(* that qcom_aoss_qmp_send waits for is the answer to this very message.   *)
SuccessMeansTaken == \A m \in Msg : result[m] = "ok" => Once(m)

(* What the AOP takes is the message of the send in progress: one that was *)
(* given up is not taken later, when the next send has begun.              *)
Withdrawn ==
    (aop' = "ack" /\ aop = "idle") =>
        body = Holds(sends) /\ qmp_pc \in {"kick", "reply"}

NoLateTake == [][Withdrawn]_qmp_vars

(***************************************************************************)
(* The inductive invariants.  At each wait of qmp_open the words that the  *)
(* earlier steps established still stand: the AOP follows U-Boot's words,  *)
(* and those only change in one direction during an open.                  *)
(***************************************************************************)
Linked == /\ desc.m_link = "UP" /\ desc.m_ch = "UP"
          /\ desc.u_link = "UP" /\ desc.m_link_ack = "UP"

HandshakeInv ==
    /\ up => qmp_pc \in {"idle", "body", "kick", "reply"}
    /\ qmp_pc \in {"body", "kick", "reply"} => up
    /\ (qmp_pc = "idle" /\ ~up) \/ qmp_pc = "ucore_link" =>
            desc.m_link = "DOWN" /\ desc.m_ch = "DOWN"
    /\ qmp_pc \in {"link_kick", "link_ack"} =>
            desc.m_link = "UP" /\ desc.m_ch = "DOWN" /\ desc.u_link = "UP"
    /\ qmp_pc \in {"ch_kick", "ucore_ch", "ack_kick", "ch_ack"} \/ up => Linked
    /\ qmp_pc \in {"ack_kick", "ch_ack"} \/ up => desc.u_ch = "UP" /\ desc.u_ch_ack = "UP"
    /\ up => desc.m_ch_ack = "UP"

(* A message is visible to the AOP only while it is whole and wanted. *)
MailboxInv ==
    /\ len => qmp_pc \in {"kick", "reply"}
    /\ qmp_pc \in {"body", "kick", "reply"} => sends \in Msg
    /\ qmp_pc = "body" => \A w \in 1 .. word : body[w] = sends
    /\ qmp_pc \in {"kick", "reply"} => body = Holds(sends)
    /\ TakenWhole

QmpInv == QmpTypeOK /\ HandshakeInv /\ MailboxInv

(* When the AOP acknowledges in time, a cleared length means that this     *)
(* message was taken, and a length that stands that it was not, yet.       *)
AckInv ==
    /\ aop = "ack" => len /\ Once(sends)
    /\ len /\ aop = "idle" => Never(sends)
    /\ qmp_pc = "body" => Never(sends)
    /\ qmp_pc \in {"kick", "reply"} /\ ~len => Once(sends)
    /\ \A m \in Msg : m > sends => Never(m) /\ result[m] = "none"
    /\ \A m \in Msg : result[m] = "ok" => Once(m)
    /\ qmp_pc \in {"body", "kick", "reply"} => result[sends] = "none"

PromptInv == PromptAck => AckInv

(* Every probe and every send returns, whether the AOP answers or not.     *)
CallReturns == (qmp_pc # "idle") ~> (qmp_pc = "idle")
=============================================================================
