------------------------------ MODULE Altmode ------------------------------
(***************************************************************************)
(* The Type-C alt-mode client of the PMIC-GLINK driver                     *)
(* (src/drivers/soc/qcom/pmic_glink_altmode.c): what the boot loader knows *)
(* of the connector and how it routes the SBU lines for it.                *)
(*                                                                         *)
(* The ADSP reports each change of the connector in a notification, which  *)
(* the client decodes, applies to the multiplexer, caches and acknowledges *)
(* with PAN_ACK.  The wait for the answer to PAN_ACK handles messages as   *)
(* they come, so it may meet the next notification: waits nest.  When      *)
(* nothing is cached, qcom_pmic_glink_get_altmode asks for the connector's *)
(* state itself (READ_SEL, then READ).                                     *)
(*                                                                         *)
(* A connector is a record: does it show the DisplayPort SVID, its pin     *)
(* assignment or NoPin, its multiplexer state (2 and 3 with DisplayPort),  *)
(* its HPD line and its orientation.  The transport                        *)
(* below (intents, RX_DONE, the ring) is modelled in GlinkSession; here    *)
(* it is a reliable FIFO whose answers may be late.                        *)
(***************************************************************************)
EXTENDS Naturals, Sequences

CONSTANTS Conns,       \* the states of the connector
          NoPin,       \* no pin assignment (DPAM 0, or 0xff)
          MaxChanges,  \* bound: changes of the connector
          MaxCalls,    \* bound: calls of the client
          MaxLate      \* bound: waits that time out

ASSUME AltmodeAssumption ==
    /\ \A c \in Conns : /\ c.dp \in BOOLEAN /\ c.hpd \in BOOLEAN
                        /\ c.mux \in {2, 3} => c.dp
    /\ MaxChanges \in Nat /\ MaxCalls \in Nat /\ MaxLate \in Nat

VARIABLES conn,            \* the connector
          pan,             \* has the ADSP been asked for notifications?
          reqs,            \* requests the ADSP has not answered, in order
          chan,            \* messages to the client, in order
          session_ready,
          call, at,        \* the call that runs, and what it waits for
          depth,           \* PAN_ACK waits nested in that wait
          pan_acked, usbc_read_acked, usbc_read_buffer,
          cached_altmode, cached_altmode_valid,
          cached_state,
          sbu,             \* the SBU lines: off, or routed for DisplayPort
          changes, calls, lates,
          overtaken        \* history: the connector changed while a READ was
                           \* under way

adsp == <<conn, pan, changes, overtaken>>
link == <<reqs, chan>>
cache == <<cached_altmode, cached_altmode_valid, cached_state, sbu>>
vars == <<adsp, link, session_ready, call, at, depth, pan_acked,
          usbc_read_acked, usbc_read_buffer, cache, calls, lates>>

NoAltmode == [dp |-> FALSE, pin |-> NoPin, hpd |-> FALSE, orientation |-> "none"]
NoState == [notify_seen |-> FALSE, dp_seen |-> FALSE, typec_state |-> "unknown",
            mux |-> 0]

-----------------------------------------------------------------------------
(***************************************************************************)
(* Decoding: qpg_parse_sc8280xp_notify, qpg_parse_sc8180x_notify and       *)
(* qpg_apply_usbc_pin_assignment.                                          *)
(***************************************************************************)
(* Is DisplayPort shown?  An SC8280XP notification and the read have an    *)
(* SVID; an SC8180X notification is read off the multiplexer state.        *)
DpSvid(kind, c) == IF kind = "sc8180x" THEN c.mux = 2 ELSE c.dp

(* Is it active?  The read goes by the multiplexer state as well.          *)
DpActive(kind, c) ==
    c.pin # NoPin /\ (DpSvid(kind, c) \/ (kind = "read" /\ c.mux \in {2, 3}))

TypecState(kind, c) == CASE DpActive(kind, c) -> "dp"
                         [] ~DpActive(kind, c) /\ DpSvid(kind, c) -> "safe"
                         [] OTHER -> "usb"

(* An SC8280XP notification without DisplayPort shows no HPD; the other    *)
(* two pass the line on.                                                   *)
Altmode(kind, c) ==
    [dp |-> DpActive(kind, c), pin |-> IF DpActive(kind, c) THEN c.pin ELSE NoPin,
     hpd |-> c.hpd /\ (c.dp \/ kind # "sc8280xp"), orientation |-> c.orientation]

(* qpg_apply_typec_state, qpg_program_sbu_mux: DisplayPort with pin        *)
(* assignment 0 is treated as safe.                                        *)
Routed(state, pin) == state = "dp" /\ pin # 0

(* qpg_update_cached_state, with the routing that precedes it.             *)
Cached(kind, c) == Altmode(kind, c)

Apply(kind, c) ==
    LET state == TypecState(kind, c)
    IN /\ cached_altmode' = Cached(kind, c)
       /\ cached_altmode_valid' = TRUE
       /\ cached_state' = [notify_seen |-> TRUE,
                           dp_seen |-> cached_state.dp_seen \/ state = "dp",
                           typec_state |-> state, mux |-> c.mux]
       /\ sbu' = Routed(state, Altmode(kind, c).pin)

-----------------------------------------------------------------------------
(***************************************************************************)
(* Messages: qpg_poll, qpg_rx_data and qpg_parse_pmic.                     *)
(***************************************************************************)
(* A wait looks at its flag after each message (qpg_drain_until).          *)
Done == \/ depth > 0 /\ pan_acked
        \/ depth = 0 /\ at \in {"pan", "sel"} /\ pan_acked
        \/ depth = 0 /\ at = "read" /\ usbc_read_acked

Receives(type) ==
    /\ call # "none" /\ at # "polled" /\ ~Done
    /\ chan # <<>> /\ Head(chan).type = type

(* A notification is applied, then acknowledged in a wait of its own.      *)
rx_notify ==
    /\ Receives("notify")
    /\ Apply(Head(chan).kind, Head(chan).conn)
    /\ pan_acked' = FALSE
    /\ reqs' = Append(reqs, "write") /\ chan' = Tail(chan)
    /\ depth' = depth + 1
    /\ UNCHANGED <<adsp, session_ready, call, at, usbc_read_acked,
                   usbc_read_buffer, calls, lates>>

rx_write_ack ==
    /\ Receives("write")
    /\ pan_acked' = TRUE
    /\ chan' = Tail(chan)
    /\ UNCHANGED <<adsp, reqs, session_ready, call, at, depth, usbc_read_acked,
                   usbc_read_buffer, cache, calls, lates>>

rx_read ==
    /\ Receives("read")
    /\ usbc_read_acked' = TRUE
    /\ usbc_read_buffer' = {Head(chan).conn}
    /\ chan' = Tail(chan)
    /\ UNCHANGED <<adsp, reqs, session_ready, call, at, depth, pan_acked,
                   cache, calls, lates>>

(* The wait for PAN_ACK ends and the wait around it goes on.               *)
nested_done ==
    /\ depth > 0 /\ pan_acked
    /\ depth' = depth - 1
    /\ UNCHANGED <<adsp, link, session_ready, call, at, pan_acked,
                   usbc_read_acked, usbc_read_buffer, cache, calls, lates>>

(* It times out: the wait around it goes on, but a poll is over with       *)
(* -ETIMEDOUT, which get_altmode takes for success and request_dfp retries. *)
nested_times_out ==
    /\ depth > 0 /\ ~pan_acked
    /\ lates < MaxLate /\ lates' = lates + 1
    /\ depth' = depth - 1
    /\ at' = IF depth = 1 /\ at = "poll" /\ call = "get" THEN "polled" ELSE at
    /\ UNCHANGED <<adsp, link, session_ready, call, pan_acked,
                   usbc_read_acked, usbc_read_buffer, cache, calls>>

-----------------------------------------------------------------------------
(***************************************************************************)
(* The calls.                                                              *)
(***************************************************************************)
Waits(c, a) == call = c /\ at = a /\ depth = 0
Return == call' = "none" /\ at' = "none"
Keep == UNCHANGED <<adsp, calls, lates>>

(* qpg_drain_until gives up and the call fails.                            *)
wait_times_out ==
    /\ call # "none" /\ at \in {"pan", "sel", "read"} /\ depth = 0 /\ ~Done
    /\ lates < MaxLate /\ lates' = lates + 1
    /\ Return
    /\ UNCHANGED <<adsp, link, session_ready, depth, pan_acked, usbc_read_acked,
                   usbc_read_buffer, cache, calls>>

(* Mutant: a fresh open discards the cached alt mode and keeps its flag.   *)
Saved_Cleared == NoAltmode

Saved == cached_altmode

(* qpg_open_session on a session that is not ready: all is cleared but the *)
(* cached alt mode; PAN_EN asks for notifications.  Data that is waiting in *)
(* the ring is dropped, for its channel is not open yet; a request of the  *)
(* session before may still be answered later.                             *)
open_start ==
    /\ call = "none" /\ calls < MaxCalls /\ ~session_ready
    /\ calls' = calls + 1
    /\ cached_altmode' = Saved /\ cached_state' = NoState
    /\ usbc_read_acked' = FALSE /\ usbc_read_buffer' = {}
    /\ chan' = <<>> /\ reqs' \in {<<"pan">>, Append(reqs, "pan")}
    /\ call' = "open" /\ at' = "pan" /\ pan_acked' = FALSE
    /\ UNCHANGED <<adsp, session_ready, depth, cached_altmode_valid,
                   sbu, lates>>

(* PAN_EN is acknowledged; discover (see Ucsi) handles messages as well.   *)
open_pan ==
    /\ Waits("open", "pan") /\ pan_acked
    /\ at' = "ucsi"
    /\ Keep /\ UNCHANGED <<link, session_ready, call, depth, pan_acked,
                           usbc_read_acked, usbc_read_buffer, cache>>

open_done ==
    /\ Waits("open", "ucsi")
    /\ session_ready' = TRUE
    /\ Return
    /\ Keep /\ UNCHANGED <<link, depth, pan_acked, usbc_read_acked,
                           usbc_read_buffer, cache>>

(* qcom_pmic_glink_get_altmode and qcom_pmic_glink_request_dfp on a ready  *)
(* session; both begin with qcom_pmic_glink_altmode_poll.                  *)
call_start ==
    /\ call = "none" /\ calls < MaxCalls /\ session_ready
    /\ calls' = calls + 1
    /\ call' \in {"get", "dfp"} /\ at' = "poll"
    /\ UNCHANGED <<adsp, link, session_ready, depth, pan_acked, usbc_read_acked,
                   usbc_read_buffer, cache, lates>>

(* The poll is over when no message is left.                               *)
poll_done ==
    /\ at = "poll" /\ depth = 0 /\ chan = <<>>
    /\ at' = "polled"
    /\ Keep /\ UNCHANGED <<link, session_ready, call, depth, pan_acked,
                           usbc_read_acked, usbc_read_buffer, cache>>

(* The cached alt mode is the answer, or READ_SEL asks for one.            *)
get_polled ==
    /\ Waits("get", "polled")
    /\ \/ /\ cached_altmode_valid
          /\ Return
          /\ UNCHANGED <<reqs, pan_acked>>
       \/ /\ ~cached_altmode_valid
          /\ at' = "sel" /\ pan_acked' = FALSE
          /\ reqs' = Append(reqs, "write")
          /\ UNCHANGED call
    /\ Keep /\ UNCHANGED <<chan, session_ready, depth, usbc_read_acked,
                           usbc_read_buffer, cache>>

get_selected ==
    /\ Waits("get", "sel") /\ pan_acked
    /\ at' = "read" /\ usbc_read_acked' = FALSE
    /\ reqs' = Append(reqs, "read")
    /\ Keep /\ UNCHANGED <<chan, session_ready, call, depth, pan_acked,
                           usbc_read_buffer, cache>>

(* The buffer is decoded once the wait is over, if it holds a pin          *)
(* assignment.                                                             *)
get_read ==
    /\ Waits("get", "read") /\ usbc_read_acked
    /\ \/ \E c \in usbc_read_buffer : Apply("read", c)
       \/ UNCHANGED cache
    /\ Return
    /\ Keep /\ UNCHANGED <<link, session_ready, depth, pan_acked,
                           usbc_read_acked, usbc_read_buffer>>

(* After a poll request_dfp looks for DisplayPort; it polls on or gives up *)
(* when the time is over.                                                  *)
Entered == cached_state.dp_seen \/ cached_state.mux = 3

dfp_polled ==
    /\ Waits("dfp", "polled")
    /\ \/ Return
       \/ ~Entered /\ at' = "poll" /\ UNCHANGED call
    /\ Keep /\ UNCHANGED <<link, session_ready, depth, pan_acked,
                           usbc_read_acked, usbc_read_buffer, cache>>

-----------------------------------------------------------------------------
(***************************************************************************)
(* The ADSP (external).                                                    *)
(***************************************************************************)
(* A READ is awaited, or one that was given up is still to be answered or  *)
(* received: its answer will pass for that of the next READ.               *)
Reading == \/ at = "read"
           \/ \E k \in DOMAIN reqs : reqs[k] = "read"
           \/ \E k \in DOMAIN chan : chan[k].type = "read"

(* The connector changes; a notification follows.                          *)
ConnChanges ==
    /\ changes < MaxChanges /\ changes' = changes + 1
    /\ overtaken' = (overtaken \/ Reading)
    /\ conn' \in Conns \ {conn}
    /\ \E k \in {"sc8280xp"} \cup (IF conn'.dp = (conn'.mux = 2) THEN {"sc8180x"} ELSE {}) :
         chan' = IF pan THEN Append(chan, [type |-> "notify", kind |-> k, conn |-> conn'])
                        ELSE chan
    /\ UNCHANGED <<pan, reqs, session_ready, call, at, depth, pan_acked,
                   usbc_read_acked, usbc_read_buffer, cache, calls, lates>>

(* It answers a request.  PAN_EN is followed by a notification if the      *)
(* connector has changed; else the client may have to read it.             *)
Silent == changes = 0

AdspAnswers ==
    /\ reqs # <<>> /\ reqs' = Tail(reqs)
    /\ LET answer(t) == [type |-> t, kind |-> t, conn |-> conn]
       IN \/ Head(reqs) = "read" /\ chan' = Append(chan, answer("read")) /\ UNCHANGED pan
          \/ Head(reqs) = "write" /\ chan' = Append(chan, answer("write")) /\ UNCHANGED pan
          \/ /\ Head(reqs) = "pan" /\ pan' = TRUE
             /\ LET news == [answer("notify") EXCEPT !.kind = "sc8280xp"]
                IN chan' \in {chan \o <<news, answer("write")>>, chan \o <<answer("write"), news>>}
                             \cup IF Silent THEN {Append(chan, answer("write"))} ELSE {}
    /\ UNCHANGED <<conn, changes, overtaken, session_ready, call, at, depth, pan_acked,
                   usbc_read_acked, usbc_read_buffer, cache, calls, lates>>

Init ==
    /\ conn \in Conns /\ pan = FALSE /\ reqs = <<>> /\ chan = <<>>
    /\ session_ready = FALSE /\ call = "none" /\ at = "none" /\ depth = 0
    /\ pan_acked = FALSE /\ usbc_read_acked = FALSE /\ usbc_read_buffer = {}
    /\ cached_altmode = NoAltmode /\ cached_altmode_valid = FALSE
    /\ cached_state = NoState /\ sbu = FALSE
    /\ changes = 0 /\ calls = 0 /\ lates = 0 /\ overtaken = FALSE

ClientNext ==
    \/ rx_notify \/ rx_write_ack \/ rx_read
    \/ nested_done \/ nested_times_out \/ wait_times_out \/ poll_done
    \/ open_start \/ open_pan \/ open_done \/ call_start
    \/ get_polled \/ get_selected \/ get_read \/ dfp_polled

Next == ClientNext \/ ConnChanges \/ AdspAnswers

Spec == Init /\ [][Next]_vars

-----------------------------------------------------------------------------
Types == {"notify", "write", "read"}
Kinds == {"sc8280xp", "sc8180x", "write", "read"}

(* A notification in the older format is sent where it can tell.           *)
Message == {m \in [type : Types, kind : Kinds, conn : Conns] :
              m.type = "notify" =>
                  \/ m.kind = "sc8280xp"
                  \/ m.kind = "sc8180x" /\ m.conn.dp = (m.conn.mux = 2)}

(* The state is well formed. *)
TypeOK ==
    /\ conn \in Conns /\ pan \in BOOLEAN /\ changes \in 0 .. MaxChanges
    /\ reqs \in Seq({"pan", "write", "read"}) /\ chan \in Seq(Message)
    /\ call \in {"none", "open", "get", "dfp"}
    /\ at \in {"none", "pan", "ucsi", "poll", "polled", "sel", "read"}
    /\ depth \in Nat
    /\ usbc_read_buffer \subseteq Conns

Quiet == session_ready /\ call = "none" /\ reqs = <<>> /\ chan = <<>>

(* When a session is open and all its messages are handled, the cached     *)
(* state is the connector's: no late or overtaken message has the last     *)
(* word (qpg_update_cached_state), unless the connector changed while a    *)
(* READ was under way.  And the SBU lines are routed for DisplayPort       *)
(* exactly when the cached alt mode says so with a usable pin assignment,  *)
(* whatever mix of reopened sessions, nested notifications and reads led   *)
(* there: this is why a fresh open keeps the cached alt mode while it      *)
(* clears the rest.                                                        *)
Tells(a, c) ==
    /\ a.dp = DpActive("read", c)
    /\ a.dp => a = Altmode("read", c)

SbuFollows == sbu = (cached_altmode.dp /\ cached_altmode.pin # 0)

CacheIsFresh ==
    cached_altmode_valid =>
      /\ Quiet /\ ~overtaken => Tells(cached_altmode, conn)
      /\ SbuFollows

-----------------------------------------------------------------------------
(***************************************************************************)
(* The inductive invariant behind CacheIsFresh.                            *)
(***************************************************************************)
(* Before PAN_EN is carried out the client has heard nothing.              *)
SilenceInv ==
    ~pan => /\ chan = <<>> /\ ~session_ready /\ ~cached_altmode_valid
            /\ at \in {"none", "pan"} /\ ~pan_acked
            /\ usbc_read_buffer = {}
            /\ \A k \in DOMAIN reqs : reqs[k] = "pan"

(* As long as the connector has not changed, everything tells it.          *)
FirstInv ==
    changes = 0 =>
        /\ \A k \in DOMAIN chan : chan[k].conn = conn
        /\ usbc_read_buffer \subseteq {conn}
        /\ cached_altmode_valid => Tells(cached_altmode, conn)

News(k) == chan[k].type = "notify"

(* A message that is out of date is followed by a notification.            *)
OrderInv ==
    \A k \in DOMAIN chan : chan[k].conn = conn \/ \E j \in DOMAIN chan : k < j /\ News(j)

(* A READ that was not overtaken tells the connector as it is.             *)
ReadInv ==
    ~overtaken =>
        /\ \A k \in DOMAIN chan : chan[k].type = "read" => chan[k].conn = conn
        /\ at = "read" /\ usbc_read_acked => usbc_read_buffer \subseteq {conn}

(* The cache is up to date, or news are on their way.                      *)
NewsInv ==
    cached_altmode_valid /\ ~overtaken =>
        \/ Tells(cached_altmode, conn)
        \/ \E k \in DOMAIN chan : News(k)
        \/ \E k \in DOMAIN reqs : reqs[k] = "pan"

AltInv ==
    /\ TypeOK /\ SilenceInv /\ FirstInv /\ OrderInv /\ ReadInv /\ NewsInv
    /\ cached_altmode_valid => SbuFollows
=============================================================================
