---------------------------- MODULE GlinkSession ----------------------------
(***************************************************************************)
(* The PMIC-GLINK session of drivers/soc/qcom/pmic_glink.c: opening the    *)
(* PMIC_RTR_ADSP_APPS channel, flow control by receive intents, and the    *)
(* request/answer exchanges of the UCSI and alt-mode clients on top of it. *)
(*                                                                         *)
(* U-Boot is single threaded but re-entrant: every wait is a call of       *)
(* qpg_drain_until, which polls the ring; a notification met by any poll   *)
(* sends an ALTMODE_PAN_ACK request of its own and waits for its answer in *)
(* a nested drain, before the interrupted wait goes on.  The call stack is *)
(* therefore part of the state.  The two rings are queues of whole         *)
(* messages, which is what GlinkFifo is proved to provide.  The ADSP is    *)
(* external: it follows the GLINK protocol as the driver uses it, at any   *)
(* speed.                                                                  *)
(***************************************************************************)
EXTENDS Integers, Sequences, FiniteSets, SequencesExt

CONSTANTS
    RemoteIntent,   \* the intents the ADSP posts for data towards itself
    TxCap,          \* messages the ring towards the ADSP holds
    RxCap,          \* messages the ring towards U-Boot holds
    Patience,       \* polls without progress before a wait gives up
    CanTimeOut,     \* FALSE: the ADSP is always fast enough
    MaxCalls,       \* bound on the calls into the driver
    MaxUcsi,        \* bound on the UCSI requests of prewarm and of discover
    MaxNotify       \* bound on the notifications of the ADSP

ASSUME SessionAssumption ==
    /\ TxCap \in Nat \ {0} /\ RxCap \in Nat \ {0} /\ Patience \in Nat \ {0}
    /\ CanTimeOut \in BOOLEAN
    /\ MaxCalls \in Nat /\ MaxUcsi \in Nat /\ MaxNotify \in Nat
    /\ IsFiniteSet(RemoteIntent) /\ 0 \notin RemoteIntent

VARIABLES
    pg,         \* struct qpg
    stack,      \* the calls in progress, innermost last
    ret,        \* what the poll or the call below just returned: "ok", "again"
                \* (-EAGAIN), "err" (-ETIMEDOUT) or, before that, "none"
    calls,      \* how many calls into the driver were made
    tx,         \* U-Boot -> ADSP
    rx,         \* ADSP -> U-Boot
    adsp,       \* the ADSP's side of the channel
    notified,   \* how many notifications the ADSP sent
    earned,     \* history: the ADSP carried out a PAN_EN since it took the
                \* last VERSION
    noted       \* history: a notification was met since the last memset

history == <<earned, noted>>
vars == <<pg, stack, ret, calls, tx, rx, adsp, notified, history>>

-----------------------------------------------------------------------------
(* Messages.  "id" is an intent: a liid is U-Boot's, a riid the ADSP's. *)

Cmd(c) == [cmd |-> c]
WithId(c, id) == [cmd |-> c, id |-> id]
Data(id, body) == [cmd |-> "TX_DATA", id |-> id, body |-> body]

Granted(b) == [cmd |-> "RX_INTENT_REQ_ACK", granted |-> b]

PanReq == {"PAN_EN", "PAN_ACK", "READ_SEL"}    \* USBC_CMD_WRITE_REQ
Req == PanReq \cup {"UCSI_READ", "UCSI_WRITE", "USBC_READ"}

(* The answer of the ADSP names the opcode, not the request: the three     *)
(* USBC_CMD_WRITE_REQ are not told apart.                                  *)
Answer(r) == IF r \in PanReq THEN "PAN" ELSE r
Flags == {"PAN", "UCSI_READ", "UCSI_WRITE", "USBC_READ"}

(* What memset and qpg_init leave of struct qpg; qpg_alloc_liid starts     *)
(* with 1.                                                                 *)
FirstLiid_Zero == 0     \* mutant
FirstLiid == 1

FreshPg == [version_acked |-> FALSE, remote_opened |-> FALSE,
            remote_open_ack_pending |-> FALSE, remote_open_acked |-> FALSE,
            local_open_sent |-> FALSE, open_acked |-> FALSE,
            riid |-> 0, riid_avail |-> FALSE, next_liid |-> FirstLiid,
            acked |-> [f \in Flags |-> FALSE], session_ready |-> FALSE]

Frame(op, pc) == [op |-> op, pc |-> pc, i |-> 0]

Top == Last(stack)
Pop(s) == Front(s)
Jump(s, pc) == Append(Front(s), Frame(Last(s).op, pc))

(* qpg_tx: -EAGAIN when the ring is full, and then nothing is sent. *)
Room(n) == Len(tx) + n <= TxCap

(* qpg_drain_until is called with one of these predicates. *)
DoneRemoteOpened_Early == pg.version_acked      \* mutant
DoneRemoteOpened == pg.remote_opened

DoneOpen_Sent == pg.local_open_sent             \* mutant
DoneOpen == pg.local_open_sent /\ pg.open_acked

DoneAnswer_Sent(r) == TRUE                      \* mutant
DoneAnswer(r) == pg.acked[Answer(r)]

Done(f) ==
    \/ f.pc = "version" /\ pg.version_acked
    \/ f.pc = "remote" /\ DoneRemoteOpened
    \/ f.pc = "open_ack" /\ DoneOpen
    \/ f.pc = "riid" /\ pg.riid_avail
    \/ f.pc = "answer" /\ DoneAnswer(f.op)

Draining(f) == f.pc \in {"version", "remote", "open_ack", "riid", "answer", "poll"}

-----------------------------------------------------------------------------
(* Calls into the driver. *)

(* A request starts with its flag cleared, then qpg_send_data waits for a  *)
(* remote intent.                                                          *)
Clear_Kept(p, r) == p       \* mutant
Clear(p, r) == [p EXCEPT !.acked[Answer(r)] = FALSE]

(* qpg_open_session, up to the wait for VERSION_ACK.  With a slow ADSP     *)
(* qpg_init may give up on its ring, after the memset.                     *)
CallOpen ==
    /\ stack = <<>> /\ ret = "none" /\ calls < MaxCalls
    /\ calls' = calls + 1
    /\ IF pg.session_ready
       THEN UNCHANGED <<pg, stack, tx, noted>>
       ELSE /\ pg' = FreshPg /\ noted' = FALSE
            /\ \/ /\ Room(1)
                  /\ tx' = Append(tx, Cmd("VERSION"))
                  /\ stack' = <<Frame("open", "version")>>
               \/ /\ ~Room(1) \/ CanTimeOut
                  /\ UNCHANGED <<tx, stack>>
    /\ UNCHANGED <<ret, rx, adsp, notified, earned>>

(* qcom_pmic_glink_altmode_poll with timeout_ms zero or not: i counts the  *)
(* idle polls it still tolerates.                                          *)
CallPoll ==
    /\ stack = <<>> /\ ret = "none" /\ calls < MaxCalls /\ pg.session_ready
    /\ calls' = calls + 1
    /\ \E wait \in {0, Patience} :
          stack' = <<[Frame("altmode_poll", "poll") EXCEPT !.i = wait]>>
    /\ UNCHANGED <<pg, ret, tx, rx, adsp, notified, history>>

(* qpg_refresh_usbc_pin_assignment: READ_SEL, then USBC_READ. *)
CallRefresh ==
    /\ stack = <<>> /\ ret = "none" /\ calls < MaxCalls /\ pg.session_ready
    /\ calls' = calls + 1
    /\ stack' = <<Frame("refresh", "sel"), Frame("READ_SEL", "riid")>>
    /\ pg' = Clear(pg, "READ_SEL")
    /\ UNCHANGED <<ret, tx, rx, adsp, notified, history>>

-----------------------------------------------------------------------------
(* One poll: qpg_poll handles at most one message. *)

(* qpg_parse_pmic *)
Parse(p, body) ==
    IF body = "NOTIFY" THEN p ELSE [p EXCEPT !.acked[body] = TRUE]

(* The intent that was used is available again, or gone. *)
RxDone_Swapped(p, cmd) == [p EXCEPT !.riid_avail = (cmd = "RX_DONE")]  \* mutant
RxDone(p, cmd) == [p EXCEPT !.riid_avail = (cmd = "RX_DONE_W_REUSE")]

(* What a message does to struct qpg, and what is sent in reply.  A reply  *)
(* that finds no room is lost.                                             *)
Handled(m) ==
    CASE m.cmd = "VERSION_ACK" -> [pg EXCEPT !.version_acked = TRUE]
      [] m.cmd = "OPEN" ->
            [pg EXCEPT !.remote_opened = TRUE,
                       !.remote_open_ack_pending = ~pg.remote_open_acked]
      [] m.cmd = "OPEN_ACK" -> [pg EXCEPT !.open_acked = TRUE]
      [] m.cmd = "INTENT" /\ pg.remote_opened ->
            [pg EXCEPT !.riid = m.id, !.riid_avail = TRUE]
      [] m.cmd \in {"RX_DONE", "RX_DONE_W_REUSE"}
            /\ pg.remote_opened /\ m.id = pg.riid ->
            RxDone(pg, m.cmd)
      [] m.cmd = "RX_INTENT_REQ" /\ pg.remote_opened ->
            [pg EXCEPT !.next_liid = @ + 1]
      [] m.cmd = "TX_DATA" /\ pg.remote_opened -> Parse(pg, m.body)
      [] OTHER -> pg

(* qpg_handle_intent_req: the intent, then the answer whether it went out. *)
GrantReply ==
    IF Room(1)
    THEN <<WithId("INTENT", pg.next_liid), Granted(TRUE)>>
    ELSE <<Granted(FALSE)>>

(* qpg_send_rx_done_for *)
RxDoneReply_None(m) == <<>>     \* mutant
RxDoneReply(m) == <<WithId("RX_DONE_W_REUSE", m.id)>>

Reply(m) ==
    CASE m.cmd = "VERSION" -> <<Cmd("VERSION_ACK")>>
      [] m.cmd = "RX_INTENT_REQ" ->
            IF pg.remote_opened THEN GrantReply
                                ELSE <<Granted(FALSE)>>
      [] m.cmd = "TX_DATA" /\ pg.remote_opened ->
            RxDoneReply(m)
      [] OTHER -> <<>>

(* The messages of a reply are sent one by one, while there is room. *)
Sent(reply) == tx \o SubSeq(reply, 1, IF Room(Len(reply)) THEN Len(reply)
                                      ELSE TxCap - Len(tx))

(* ack_notify: one ALTMODE_PAN_ACK for a notification. *)
AckDue_Unnested(m) ==           \* mutant
    m.body = "NOTIFY" /\ Top.op # "PAN_ACK"
AckDue_Any(m) == TRUE           \* mutant
AckDue(m) == m.body = "NOTIFY"

(* qpg_poll with a message: the reply to VERSION is best effort, any other *)
(* that does not fit makes the poll fail with qpg_tx's -EAGAIN.  A         *)
(* notification whose intent was given back is acknowledged by a nested    *)
(* request.                                                                *)
PollMessage ==
    /\ ret = "none" /\ stack # <<>> /\ Draining(Top)
    /\ rx # <<>>
    /\ LET m == Head(rx)
           all == Room(Len(Reply(m)))
           nest == /\ m.cmd = "TX_DATA" /\ pg.remote_opened /\ all
                   /\ AckDue(m)
       IN  /\ rx' = Tail(rx)
           /\ tx' = Sent(Reply(m))
           /\ IF nest
              THEN /\ pg' = Clear(Handled(m), "PAN_ACK")
                   /\ stack' = Append(stack, Frame("PAN_ACK", "riid"))
                   /\ noted' = TRUE
                   /\ UNCHANGED ret
              ELSE /\ pg' = Handled(m)
                   /\ ret' = IF all \/ m.cmd = "VERSION" THEN "ok" ELSE "again"
                   /\ UNCHANGED <<stack, noted>>
    /\ UNCHANGED <<calls, adsp, notified, earned>>

(* qpg_poll on an empty ring.  When the ADSP is fast enough, a wait that   *)
(* is not over finds a message in time.                                    *)
PollEmpty ==
    /\ ret = "none" /\ stack # <<>> /\ Draining(Top)
    /\ rx = <<>>
    /\ CanTimeOut \/ Done(Top) \/ Top.pc = "poll"
    /\ ret' = "again"
    /\ UNCHANGED <<pg, stack, calls, tx, rx, adsp, notified, history>>

-----------------------------------------------------------------------------
(* After a poll: the loop of qpg_drain_until and what follows the wait. *)

Return(r) == stack' = Pop(stack) /\ ret' = (IF Len(stack) = 1 THEN "none" ELSE r)

Waited(pc) == /\ ret # "none" /\ stack # <<>> /\ Top.pc = pc /\ Done(Top)
              /\ UNCHANGED <<calls, rx, adsp, notified, history>>

AfterVersion ==
    /\ Waited("version")
    /\ stack' = Jump(stack, "remote")
    /\ ret' = "none"
    /\ UNCHANGED <<pg, tx>>

(* qpg_service_pmic_open: OPEN_ACK if one is due, then the local OPEN. *)
AfterRemoteOpen ==
    /\ Waited("remote")
    /\ LET acks == IF pg.remote_open_ack_pending THEN 1 ELSE 0
           opens == IF pg.local_open_sent THEN 0 ELSE 1
           acked == acks = 1 /\ Room(1)
           opened == opens = 1 /\ Room(acks + 1)
       IN  /\ tx' = tx \o (IF acked THEN <<Cmd("OPEN_ACK")>> ELSE <<>>)
                       \o (IF opened THEN <<Cmd("OPEN")>> ELSE <<>>)
           /\ pg' = [pg EXCEPT !.remote_open_ack_pending = @ /\ ~acked,
                               !.remote_open_acked = @ \/ acked,
                               !.local_open_sent = @ \/ opened]
           /\ IF Room(acks + opens)
              THEN stack' = Jump(stack, "open_ack") /\ ret' = "none"
              ELSE Return("err")

(* The first receive intent, then prewarm. *)
AfterOpenAck ==
    /\ Waited("open_ack")
    /\ pg' = [pg EXCEPT !.next_liid = @ + 1]
    /\ IF Room(1)
       THEN /\ tx' = Append(tx, WithId("INTENT", pg.next_liid))
            /\ stack' = Jump(stack, "prewarm")
            /\ ret' = "none"
       ELSE Return("err") /\ UNCHANGED tx

(* qpg_send_data: the intent is used up before qpg_tx is tried. *)
Spend_Kept(p) == p              \* mutant
Spend(p) == [p EXCEPT !.riid_avail = FALSE]

AfterRiid ==
    /\ Waited("riid")
    /\ pg' = Spend(pg)
    /\ IF Room(1)
       THEN /\ tx' = Append(tx, Data(pg.riid, Top.op))
            /\ stack' = Jump(stack, "answer")
            /\ ret' = "none"
       ELSE Return("again") /\ UNCHANGED tx

AfterAnswer ==
    /\ Waited("answer")
    /\ Return("ok")
    /\ UNCHANGED <<pg, tx>>

(* qcom_pmic_glink_altmode_poll goes on while there are messages and ends  *)
(* on an error, on the first idle poll after a message, or on the timeout. *)
AfterAltmodePoll ==
    /\ ret # "none" /\ stack # <<>> /\ Top.pc = "poll"
    /\ IF ret = "ok" \/ (ret = "again" /\ Top.i > 0)
       THEN /\ stack' = [stack EXCEPT ![Len(stack)].i =
                            IF ret = "ok" THEN 0 ELSE @ - 1]
            /\ ret' = "none"
       ELSE Return("ok")
    /\ UNCHANGED <<pg, calls, tx, rx, adsp, notified, history>>

(* The wait is not over: poll again at once after a message, count one     *)
(* step towards the timeout after an idle or a failed poll.                *)
Unfinished == /\ ret # "none" /\ stack # <<>>
              /\ Draining(Top) /\ Top.pc # "poll" /\ ~Done(Top)
              /\ UNCHANGED <<pg, calls, tx, rx, adsp, notified, history>>

KeepWaiting ==
    /\ Unfinished
    /\ ret' = "none"
    /\ IF ret = "ok" \/ ~CanTimeOut
       THEN UNCHANGED stack
       ELSE /\ Top.i + 1 < Patience
            /\ stack' = [stack EXCEPT ![Len(stack)].i = @ + 1]

GivesUp_Never(i) == FALSE       \* mutant
GivesUp(i) == i + 1 >= Patience

TimeOut ==
    /\ Unfinished
    /\ ret # "ok" /\ CanTimeOut /\ GivesUp(Top.i)
    /\ Return("err")

-----------------------------------------------------------------------------
(* The callers of the requests. *)

Call(s, r) == /\ stack' = Append(s, Frame(r, "riid"))
              /\ pg' = Clear(pg, r)
              /\ ret' = "none"

AtCaller(pc) == /\ stack # <<>> /\ Top.pc = pc
                /\ UNCHANGED <<calls, tx, rx, adsp, notified, history>>

(* qpg_ucsi_prewarm and qpg_ucsi_discover: a bounded run of UCSI requests  *)
(* that may end early; the session does not depend on its result.          *)
UcsiRequest ==
    \E pc \in {"prewarm", "discover"}, r \in {"UCSI_READ", "UCSI_WRITE"} :
        /\ AtCaller(pc)
        /\ Top.i < MaxUcsi
        /\ Call([stack EXCEPT ![Len(stack)].i = @ + 1], r)

PrewarmEnd == AtCaller("prewarm") /\ Call(Jump(stack, "pan"), "PAN_EN")

AfterPanEn ==
    /\ AtCaller("pan")
    /\ ret # "none"
    /\ IF ret = "ok" THEN stack' = Jump(stack, "discover") /\ ret' = "none"
                     ELSE Return("err")
    /\ UNCHANGED pg

DiscoverEnd ==
    /\ AtCaller("discover")
    /\ pg' = [pg EXCEPT !.session_ready = TRUE]
    /\ Return("ok")

AfterReadSel ==
    /\ AtCaller("sel")
    /\ ret # "none"
    /\ IF ret = "ok" THEN Call(Jump(stack, "read"), "USBC_READ")
                     ELSE Return("err") /\ UNCHANGED pg

AfterUsbcRead ==
    /\ AtCaller("read")
    /\ ret # "none"
    /\ Return(ret)
    /\ UNCHANGED pg

-----------------------------------------------------------------------------
(* The ADSP. *)

FreshAdsp == [versioned |-> FALSE, advertised |-> FALSE, open |-> FALSE,
              busy |-> {}, free |-> {}, todo |-> <<>>, asked |-> FALSE,
              pan |-> FALSE, acks |-> 0]

AdspSends(ms) == /\ Len(rx) + Len(ms) <= RxCap
                 /\ rx' = rx \o ms

AdspStep == UNCHANGED <<pg, stack, ret, calls, noted>>

(* Its own VERSION, and the advertisement of the channel. *)
AdspVersion ==
    /\ AdspStep /\ ~adsp.versioned
    /\ AdspSends(<<Cmd("VERSION")>>)
    /\ adsp' = [adsp EXCEPT !.versioned = TRUE]
    /\ UNCHANGED <<tx, notified, earned>>

AdspAdvertise ==
    /\ AdspStep /\ adsp.versioned /\ ~adsp.advertised
    /\ AdspSends(<<Cmd("OPEN")>>)
    /\ adsp' = [adsp EXCEPT !.advertised = TRUE]
    /\ UNCHANGED <<tx, notified, earned>>

PostIntents == [k \in 1 .. Cardinality(RemoteIntent) |->
                    WithId("INTENT", SetToSeq(RemoteIntent)[k])]

(* A new VERSION starts the channel afresh; the alt-mode service keeps     *)
(* running.                                                                *)
AdspReceive ==
    /\ AdspStep /\ tx # <<>>
    /\ tx' = Tail(tx)
    /\ LET m == Head(tx)
       IN  /\ AdspSends(CASE m.cmd = "VERSION" -> <<Cmd("VERSION_ACK")>>
                          [] m.cmd = "OPEN" -> <<Cmd("OPEN_ACK")>> \o PostIntents
                          [] OTHER -> <<>>)
           /\ adsp' =
                CASE m.cmd = "VERSION" ->
                        [FreshAdsp EXCEPT !.versioned = TRUE, !.pan = adsp.pan,
                                          !.acks = adsp.acks,
                                          !.advertised = adsp.advertised
                                                            /\ ~adsp.open]
                  [] m.cmd = "OPEN" -> [adsp EXCEPT !.open = TRUE]
                  [] m.cmd \in {"INTENT", "RX_DONE_W_REUSE"} ->
                        [adsp EXCEPT !.free = @ \cup {m.id}]
                  [] m.cmd = "RX_INTENT_REQ_ACK" ->
                        [adsp EXCEPT !.asked = FALSE]
                  [] m.cmd = "TX_DATA" ->
                        [adsp EXCEPT !.busy = @ \cup {m.id},
                                     !.todo = Append(@, m.body),
                                     !.acks = IF m.body = "PAN_ACK"
                                              THEN @ + 1 ELSE @]
                  [] OTHER -> adsp
           /\ earned' = (earned /\ m.cmd # "VERSION")
    /\ UNCHANGED notified

(* It gives an intent back, for reuse or by posting it again. *)
AdspRelease ==
    \E id \in adsp.busy :
        /\ AdspStep
        /\ \/ AdspSends(<<WithId("RX_DONE_W_REUSE", id)>>)
           \/ AdspSends(<<WithId("RX_DONE", id), WithId("INTENT", id)>>)
        /\ adsp' = [adsp EXCEPT !.busy = @ \ {id}]
        /\ UNCHANGED <<tx, notified, earned>>

(* It answers the requests in order, into an intent of U-Boot. *)
AdspAnswer ==
    /\ AdspStep /\ adsp.todo # <<>>
    /\ \E id \in adsp.free :
        /\ AdspSends(<<Data(id, Answer(Head(adsp.todo)))>>)
        /\ adsp' = [adsp EXCEPT !.free = @ \ {id}, !.todo = Tail(@),
                                !.pan = @ \/ Head(adsp.todo) = "PAN_EN"]
    /\ earned' = (earned \/ Head(adsp.todo) = "PAN_EN")
    /\ UNCHANGED <<tx, notified>>

AdspNotify ==
    /\ AdspStep /\ adsp.pan /\ notified < MaxNotify
    /\ notified' = notified + 1
    /\ \E id \in adsp.free :
        /\ AdspSends(<<Data(id, "NOTIFY")>>)
        /\ adsp' = [adsp EXCEPT !.free = @ \ {id}]
    /\ UNCHANGED <<tx, earned>>

(* Out of intents with something to say, it asks for one. *)
AdspAskIntent ==
    /\ AdspStep /\ adsp.open /\ adsp.free = {} /\ ~adsp.asked
    /\ adsp.todo # <<>> \/ (adsp.pan /\ notified < MaxNotify)
    /\ AdspSends(<<Cmd("RX_INTENT_REQ")>>)
    /\ adsp' = [adsp EXCEPT !.asked = TRUE]
    /\ UNCHANGED <<tx, notified, earned>>

-----------------------------------------------------------------------------
Init == /\ pg = FreshPg /\ stack = <<>> /\ ret = "none" /\ calls = 0
        /\ tx = <<>> /\ rx = <<>> /\ adsp = FreshAdsp /\ notified = 0
        /\ earned = FALSE /\ noted = FALSE

Driver == \/ PollMessage \/ PollEmpty
          \/ AfterVersion \/ AfterRemoteOpen \/ AfterOpenAck
          \/ AfterRiid \/ AfterAnswer \/ AfterAltmodePoll
          \/ KeepWaiting \/ TimeOut
          \/ UcsiRequest \/ PrewarmEnd \/ AfterPanEn \/ DiscoverEnd
          \/ AfterReadSel \/ AfterUsbcRead

Adsp == \/ AdspVersion \/ AdspAdvertise \/ AdspReceive \/ AdspRelease
        \/ AdspAnswer \/ AdspNotify \/ AdspAskIntent

Next == CallOpen \/ CallPoll \/ CallRefresh \/ Driver \/ Adsp

Spec == Init /\ [][Next]_vars

(* U-Boot keeps running: the loop of a wait, and what follows it, is plain *)
(* code on the one processor.                                              *)
DriverRuns == WF_vars(Driver)

(* The ADSP handles what it is sent, answers, returns and posts intents.   *)
AdspRuns == /\ WF_vars(AdspVersion) /\ WF_vars(AdspAdvertise)
            /\ WF_vars(AdspReceive) /\ WF_vars(AdspRelease)
            /\ WF_vars(AdspAnswer) /\ WF_vars(AdspAskIntent)

FairDriver == Spec /\ DriverRuns
FairSpec == Spec /\ DriverRuns /\ AdspRuns

-----------------------------------------------------------------------------
(* Properties. *)

Count(s, Test(_)) == Cardinality({k \in DOMAIN s : Test(s[k])})

(* The shapes of the state. *)
TypeOK ==
    /\ DOMAIN pg = DOMAIN FreshPg
    /\ pg.riid \in RemoteIntent \cup {0} /\ pg.next_liid \in Nat \ {0}
    /\ \A k \in DOMAIN stack :
            /\ stack[k].op \in Req \cup {"open", "altmode_poll", "refresh"}
            /\ stack[k].i \in Nat
    /\ ret \in {"none", "ok", "again", "err"}
    /\ calls \in 0 .. MaxCalls /\ notified \in 0 .. MaxNotify
    /\ Len(tx) <= TxCap /\ Len(rx) <= RxCap
    /\ adsp.busy \subseteq RemoteIntent /\ adsp.free \subseteq Nat \ {0}
    /\ adsp.todo \in Seq(Req)

(* "We never send local OPEN before the remote has advertised the channel" *)
(* (qpg_open_session), on a first open and on every retry.                 *)
OpenAfterAdvertised ==
    Count(tx, LAMBDA m : m.cmd = "OPEN") > 0 => adsp.advertised

(* The wait for OPEN_ACK ends only when the ADSP has taken the local OPEN: *)
(* what is sent from there on finds the channel open on its side.          *)
OpenAckIsOurs ==
    (stack # <<>> /\ stack[1].pc \in {"prewarm", "pan", "discover"})
        => adsp.open

(* A session that is declared ready has notifications enabled, and by its  *)
(* own ALTMODE_PAN_EN, not by that of an attempt that failed: on a retry   *)
(* no late answer of an earlier attempt passes for that of PAN_EN.  Only   *)
(* an attempt that met a notification on its way, which an earlier PAN_EN  *)
(* must have enabled, may owe its end to the answer of the nested PAN_ACK. *)
ReadyMeansPanEnabled == pg.session_ready => adsp.pan /\ (earned \/ noted)

LiidPlaces(id) ==
    Count(tx, LAMBDA m : m.cmd \in {"INTENT", "RX_DONE_W_REUSE"} /\ m.id = id)
      + Count(rx, LAMBDA m : m.cmd = "TX_DATA" /\ m.id = id)
      + (IF id \in adsp.free THEN 1 ELSE 0)

(* Every receive intent U-Boot ever granted is in exactly one place: on    *)
(* its way to the ADSP, free there, or filled and on its way back.  None   *)
(* is granted twice, none leaks, however requests for intents, data and    *)
(* nested requests interleave.                                             *)
LiidConserved == \A id \in 1 .. pg.next_liid - 1 : LiidPlaces(id) = 1

RiidPlaces(id) ==
    Count(tx, LAMBDA m : m.cmd = "TX_DATA" /\ m.id = id)
      + Count(rx, LAMBDA m : m.cmd \in {"INTENT", "RX_DONE_W_REUSE"}
                                /\ m.id = id)
      + (IF id \in adsp.busy THEN 1 ELSE 0)
      + (IF pg.riid_avail /\ pg.riid = id THEN 1 ELSE 0)

(* U-Boot never sends into an intent of the ADSP that is in use: the       *)
(* permission to use it is never in two places.                            *)
RiidExclusive == \A id \in RemoteIntent : RiidPlaces(id) <= 1

(* The single slot pg->riid forgets intents when several are posted, but   *)
(* never the last one: an open channel always has one alive, so a request  *)
(* never waits for an intent that cannot come.                             *)
RiidNotStranded == adsp.open => \E id \in RemoteIntent : RiidPlaces(id) > 0

Outstanding(f) ==
    Count(tx, LAMBDA m : m.cmd = "TX_DATA" /\ Answer(m.body) = f)
      + Count(adsp.todo, LAMBDA r : Answer(r) = f)
      + Count(rx, LAMBDA m : m.cmd = "TX_DATA" /\ m.body = f)

(* A UCSI or USBC read or write that ends well was answered itself: no     *)
(* request of its kind is left to be answered, so what was read is not the *)
(* answer of an older request.  The nested PAN_ACK requests in between do  *)
(* not disturb it.                                                         *)
AnswerIsOurs ==
    (stack # <<>> /\ Top.pc = "answer" /\ Top.op \notin PanReq /\ Done(Top))
        => Outstanding(Answer(Top.op)) = 0

NotifiesTaken ==
    notified - Count(rx, LAMBDA m : m.cmd = "TX_DATA" /\ m.body = "NOTIFY")

AcksMade ==
    adsp.acks + Count(tx, LAMBDA m : m.cmd = "TX_DATA" /\ m.body = "PAN_ACK")
      + Count(stack, LAMBDA f : f.op = "PAN_ACK" /\ f.pc = "riid")

(* Every notification taken from the ring is acknowledged by exactly one   *)
(* ALTMODE_PAN_ACK, also when it is met while another one is acknowledged. *)
EveryNotifyAcked == NotifiesTaken = AcksMade

(* With timeouts, retries and lost replies an acknowledgement may be       *)
(* missing, but none is ever made up or repeated.                          *)
NeverOverAcked == AcksMade <= NotifiesTaken

(* Every call into the driver returns, whatever the ADSP does or fails to  *)
(* do, although waits nest: each of them gives up.                         *)
CallReturns == (stack # <<>>) ~> (stack = <<>>)

(* When the ADSP is alive and in time, qpg_open_session succeeds.          *)
SessionComesUp == (calls > 0) ~> pg.session_ready

-----------------------------------------------------------------------------
(***************************************************************************)
(* The inductive invariant behind the properties that hold on every open,  *)
(* with timeouts and on full rings too.                                    *)
(***************************************************************************)
Ids == Nat \ {0}

(* What travels in each direction. *)
Up == [cmd : {"VERSION", "VERSION_ACK", "OPEN", "OPEN_ACK"}]
      \cup [cmd : {"INTENT", "RX_DONE_W_REUSE"}, id : Ids]
      \cup [cmd : {"RX_INTENT_REQ_ACK"}, granted : BOOLEAN]
      \cup [cmd : {"TX_DATA"}, id : RemoteIntent, body : Req]

Down == [cmd : {"VERSION", "VERSION_ACK", "OPEN", "OPEN_ACK", "RX_INTENT_REQ"}]
        \cup [cmd : {"INTENT", "RX_DONE", "RX_DONE_W_REUSE"}, id : RemoteIntent]
        \cup [cmd : {"TX_DATA"}, id : Ids, body : Flags \cup {"NOTIFY"}]

Has(s, c) == \E k \in DOMAIN s : s[k].cmd = c
Once(s, c) == \A k, l \in DOMAIN s : s[k].cmd = c /\ s[l].cmd = c => k = l

Callers == {"prewarm", "pan", "discover", "sel", "read"}
Frames == [op : Req \cup {"open", "altmode_poll", "refresh"},
           pc : Callers \cup {"version", "remote", "open_ack", "poll", "riid", "answer"},
           i : Nat]

Qpg == [version_acked : BOOLEAN, remote_opened : BOOLEAN,
        remote_open_ack_pending : BOOLEAN, remote_open_acked : BOOLEAN,
        local_open_sent : BOOLEAN, open_acked : BOOLEAN,
        riid : RemoteIntent \cup {0}, riid_avail : BOOLEAN, next_liid : Ids,
        acked : [Flags -> BOOLEAN], session_ready : BOOLEAN]
AdspSide == [versioned : BOOLEAN, advertised : BOOLEAN, open : BOOLEAN,
             busy : SUBSET RemoteIntent, free : SUBSET Ids, todo : Seq(Req),
             asked : BOOLEAN, pan : BOOLEAN, acks : Nat]

TypeInv ==
    /\ pg \in Qpg /\ adsp \in AdspSide
    /\ pg.riid_avail => pg.riid \in RemoteIntent
    /\ stack \in Seq(Frames) /\ ret \in {"none", "ok", "again", "err"}
    /\ calls \in 0 .. MaxCalls /\ notified \in 0 .. MaxNotify
    /\ tx \in Seq(Up) /\ Len(tx) <= TxCap
    /\ rx \in Seq(Down) /\ Len(rx) <= RxCap

(* The outermost frame is a call from outside, the one above it what this  *)
(* call waits for, or an acknowledgement as all the others.                *)
Below(pc) == CASE pc \in {"prewarm", "discover"} -> {"UCSI_READ", "UCSI_WRITE"}
               [] pc = "pan" -> {"PAN_EN"}
               [] pc = "sel" -> {"READ_SEL"}
               [] pc = "read" -> {"USBC_READ"}
               [] OTHER -> {"PAN_ACK"}

Outermost(f) ==
    \/ f.op = "open" /\ f.pc \in {"version", "remote", "open_ack", "prewarm", "pan", "discover"}
    \/ f.op = "altmode_poll" /\ f.pc = "poll"
    \/ f.op = "refresh" /\ f.pc \in {"sel", "read"}

StackInv ==
    /\ stack = <<>> => ret = "none"
    /\ \A k \in DOMAIN stack :
          /\ k = 1 => Outermost(stack[k])
          /\ k > 1 => stack[k].pc \in {"riid", "answer"}
          /\ k = 2 => stack[k].op \in Below(stack[1].pc)
          /\ k > 2 => stack[k].op = "PAN_ACK"

(* The permission to open the channel is on its way to U-Boot, with it, on *)
(* its way back or used, and it is in one place only.                      *)
MayOpen == pg.remote_opened /\ ~pg.local_open_sent

OpenInv ==
    /\ Has(rx, "OPEN") => adsp.advertised /\ ~adsp.open /\ ~MayOpen /\ ~Has(tx, "OPEN")
    /\ MayOpen => adsp.advertised /\ ~adsp.open /\ ~Has(tx, "OPEN")
    /\ Has(tx, "OPEN") => adsp.advertised /\ ~adsp.open
    /\ adsp.open => adsp.advertised
    /\ Once(rx, "OPEN") /\ Once(tx, "OPEN")

(* Until PAN_EN is carried out, no answer can be taken for that of PAN_EN. *)
LaterPan == PanReq \ {"PAN_EN"}

PanQuiet ==
    /\ ~pg.session_ready /\ ~pg.acked["PAN"]
    /\ \A k \in DOMAIN stack : stack[k].op \notin LaterPan
    /\ stack # <<>> => stack[1].op = "open" /\ stack[1].pc # "discover"
    /\ Len(stack) = 1 /\ stack[1].pc = "pan" => ret # "ok"

PanInv ==
    ~adsp.pan =>
        /\ PanQuiet
        /\ \A k \in DOMAIN tx : tx[k].cmd = "TX_DATA" => tx[k].body \notin LaterPan
        /\ \A k \in DOMAIN adsp.todo : adsp.todo[k] \notin LaterPan
        /\ \A k \in DOMAIN rx : rx[k].cmd = "TX_DATA" => rx[k].body \notin {"PAN", "NOTIFY"}

SessionInv == TypeInv /\ StackInv /\ OpenInv /\ PanInv

(* What an attempt hears after the ADSP's OPEN is of its own channel: the  *)
(* ADSP opens the channel once per VERSION, when it takes the local OPEN,  *)
(* and except for notifications says nothing on it before.                 *)
Meets(s, P) == \E k \in DOMAIN s : s[k] \in P
Before(s, P, Q) == \A k, l \in DOMAIN s : s[k] \in P /\ s[l] \in Q => k < l

Versions == {m \in Up : m.cmd = "VERSION"}
LocalOpens == {m \in Up : m.cmd = "OPEN"}
Requests == {m \in Up : m.cmd = "TX_DATA"}
RemoteOpens == {m \in Down : m.cmd = "OPEN"}
Spoken == {m \in Down : \/ m.cmd \in {"INTENT", "RX_DONE", "RX_DONE_W_REUSE"}
                        \/ m.cmd = "TX_DATA" /\ m.body # "NOTIFY"}

OwnInv ==
    /\ Meets(tx, Requests) => adsp.open
    /\ Before(tx, Requests, Versions)
    /\ adsp.todo # <<>> \/ adsp.busy # {} => adsp.open
    /\ Before(rx, Spoken, RemoteOpens)
    /\ pg.remote_opened => /\ Before(tx, Versions, LocalOpens)
                           /\ Meets(tx, Versions) => ~adsp.open
                           /\ Meets(rx, Spoken) => adsp.open
    /\ pg.riid_avail => pg.remote_opened /\ adsp.open

(* So nothing passes for the answer of this attempt's PAN_EN before it is  *)
(* carried out, unless a notification was met.                             *)
LaterRequests == {m \in Requests : m.body \in LaterPan}
PanAnswers == {m \in Spoken : m.cmd = "TX_DATA" /\ m.body = "PAN"}

Unearned == ~noted /\ (~earned \/ Meets(tx, Versions))

EarnedInv ==
    Unearned =>
        /\ PanQuiet
        /\ pg.remote_opened =>
              /\ ~Meets(tx, LaterRequests) /\ ~Meets(rx, PanAnswers)
              /\ \A k \in DOMAIN adsp.todo : adsp.todo[k] \notin LaterPan

-----------------------------------------------------------------------------
(***************************************************************************)
(* What more holds when qpg_open_session is called once, until a session   *)
(* is ready: after an open that failed nobody tries again, so that nothing *)
(* an earlier one left in the rings is met.                                *)
(***************************************************************************)
OneOpen == CallOpen => calls = 0 \/ pg.session_ready

(* A step loses nothing to a full ring when what it sends fits: the answer to a
   message, the intents of the prewarm, a command. *)
NoneLost ==
    /\ PollMessage => Room(Len(Reply(Head(rx))))
    /\ AfterOpenAck \/ AfterRiid => Room(1)

(* The handshake: nothing before the first call, one VERSION, then OPEN. *)
BeforeCalls ==
    calls = 0 => /\ stack = <<>> /\ tx = <<>> /\ pg = FreshPg /\ ~adsp.open
                 /\ ~Has(rx, "VERSION_ACK") /\ ~Has(rx, "OPEN_ACK")

VersionFirst ==
    /\ Once(tx, "VERSION")
    /\ Has(tx, "VERSION") => ~Has(rx, "VERSION_ACK") /\ ~pg.version_acked
    /\ ~pg.version_acked => ~pg.session_ready /\ ~pg.local_open_sent
    /\ ~pg.version_acked /\ stack # <<>> => stack[1].pc = "version"

OpenFirst ==
    /\ ~pg.local_open_sent => ~Has(tx, "OPEN") /\ ~adsp.open
    /\ ~adsp.open => ~Has(rx, "OPEN_ACK") /\ ~pg.open_acked
    /\ pg.local_open_sent => pg.remote_opened
    /\ stack # <<>> /\ stack[1].pc \in {"prewarm", "pan", "discover"} => pg.open_acked

HandshakeInv == BeforeCalls /\ VersionFirst /\ OpenFirst

(* The intents of the ADSP: none is heard of before the channel is open. *)
NoIntents ==
    ~adsp.open =>
        /\ ~Has(tx, "TX_DATA") /\ adsp.busy = {} /\ ~pg.riid_avail /\ pg.riid = 0
        /\ \A c \in {"INTENT", "RX_DONE", "RX_DONE_W_REUSE"} : ~Has(rx, c)

RiidInv == NoIntents /\ RiidExclusive

(* One of them stays alive, while the ring to the ADSP takes what is sent: *)
(* the one in the slot, or the first that is still to be taken.            *)
Carries(s, C, id) == \E k \in DOMAIN s : s[k].cmd \in C /\ s[k].id = id

Alive(id) ==
    \/ Carries(tx, {"TX_DATA"}, id)
    \/ Carries(rx, {"INTENT", "RX_DONE_W_REUSE"}, id)
    \/ id \in adsp.busy
    \/ pg.riid_avail /\ pg.riid = id

Reposted(s) ==
    \A k \in DOMAIN s : s[k].cmd = "RX_DONE" =>
        \E l \in DOMAIN s : l > k /\ s[l] = WithId("INTENT", s[k].id)

StrandInv ==
    /\ adsp.open /\ pg.riid = 0 => Has(rx, "INTENT")
    /\ pg.riid # 0 => Alive(pg.riid)
    /\ Reposted(rx)

(* The intents of U-Boot. *)
LiidInv ==
    /\ ~pg.local_open_sent => pg.next_liid = FirstLiid
    /\ Has(rx, "RX_INTENT_REQ") => adsp.open
    /\ \A id \in Ids : LiidPlaces(id) = IF id < pg.next_liid THEN 1 ELSE 0

(***************************************************************************)
(* And when no wait times out: a request that was sent is waited for by    *)
(* the caller's own frame, the second, until its answer came.              *)
(***************************************************************************)
AnswerInv ==
    \A f \in Flags \ {"PAN"} :
        /\ Outstanding(f) \in {0, 1}
        /\ Outstanding(f) = 1 => /\ Len(stack) > 1 /\ stack[2].pc = "answer"
                                 /\ Answer(stack[2].op) = f /\ ~pg.acked[f]
        /\ Len(stack) > 1 /\ stack[2].pc = "riid" /\ Answer(stack[2].op) = f => ~pg.acked[f]
=============================================================================
