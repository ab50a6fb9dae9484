------------------------ MODULE GlinkSession_proofs ------------------------
(***************************************************************************)
(* Proofs about the PMIC-GLINK session, for every number of intents, rings *)
(* of any size, and any number of calls, requests and notifications.       *)
(***************************************************************************)
EXTENDS GlinkSession, FunctionTheorems, SequenceTheorems, FiniteSetTheorems, TLAPS

USE SessionAssumption

-----------------------------------------------------------------------------
(* Sequences. *)

LEMMA Appended ==
  ASSUME NEW S, NEW s \in Seq(S), NEW e \in S
  PROVE  /\ Append(s, e) \in Seq(S) /\ Len(Append(s, e)) = Len(s) + 1
         /\ DOMAIN Append(s, e) = 1 .. Len(s) + 1 /\ DOMAIN s = 1 .. Len(s) /\ Len(s) \in Nat
         /\ \A k \in 1 .. Len(s) : Append(s, e)[k] = s[k]
         /\ Append(s, e)[Len(s) + 1] = e
         /\ Append(s, e) # <<>>
  BY AppendProperties, LenProperties

LEMMA Second ==
  ASSUME NEW S, NEW s \in Seq(S), NEW e \in S
  PROVE  Len(s) = 1
           => Append(s, e) \in Seq(S) /\ Len(Append(s, e)) = 2 /\ Append(s, e)[1] = s[1] /\ Append(s, e)[2] = e
  <1> DEFINE t == Append(s, e)
  <1>1. /\ t \in Seq(S) /\ Len(t) = Len(s) + 1
        /\ DOMAIN t = 1 .. Len(s) + 1 /\ DOMAIN s = 1 .. Len(s) /\ Len(s) \in Nat
        /\ \A k \in 1 .. Len(s) : t[k] = s[k]
        /\ t[Len(s) + 1] = e
        /\ t # <<>>
    BY Appended
  <1> HIDE DEF t
  <1>2. Len(s) = 1 => t \in Seq(S) /\ Len(t) = 2 /\ t[1] = s[1] /\ t[2] = e
    BY <1>1
  <1> QED
    BY <1>2 DEF t

LEMMA Beheaded ==
  ASSUME NEW S, NEW s \in Seq(S), s # <<>>
  PROVE  /\ Tail(s) \in Seq(S) /\ Head(s) \in S /\ Head(s) = s[1] /\ 1 \in DOMAIN s
         /\ Len(Tail(s)) = Len(s) - 1 /\ Len(s) \in Nat \ {0}
         /\ DOMAIN s = 1 .. Len(s) /\ DOMAIN Tail(s) = 1 .. Len(s) - 1
         /\ \A k \in 1 .. Len(s) - 1 : Tail(s)[k] = s[k + 1]
  <1>1. /\ Head(s) \in S /\ Tail(s) \in Seq(S) /\ Len(Tail(s)) = Len(s) - 1
        /\ \A i \in 1 .. Len(Tail(s)) : Tail(s)[i] = s[i + 1]
    BY HeadTailProperties
  <1>2. Len(s) \in Nat /\ DOMAIN s = 1 .. Len(s) /\ DOMAIN Tail(s) = 1 .. Len(Tail(s)) /\ Len(s) # 0
    BY <1>1, LenProperties, EmptySeq
  <1> QED
    BY <1>1, <1>2

LEMMA Fronted ==
  ASSUME NEW S, NEW s \in Seq(S), s # <<>>
  PROVE  /\ Front(s) \in Seq(S) /\ Last(s) = s[Len(s)] /\ Last(s) \in S
         /\ Len(Front(s)) = Len(s) - 1 /\ Len(s) \in Nat \ {0}
         /\ DOMAIN s = 1 .. Len(s) /\ DOMAIN Front(s) = 1 .. Len(s) - 1
         /\ \A k \in 1 .. Len(s) - 1 : Front(s)[k] = s[k]
  <1>1. Len(s) \in Nat /\ DOMAIN s = 1 .. Len(s) /\ Len(s) # 0 /\ \A k \in 1 .. Len(s) : s[k] \in S
    BY LenProperties, EmptySeq, ElementOfSeq
  <1>2. /\ SubSeq(s, 1, Len(s) - 1) \in Seq(S)
        /\ Len(SubSeq(s, 1, Len(s) - 1)) = Len(s) - 1
        /\ \A k \in 1 .. Len(s) - 1 : SubSeq(s, 1, Len(s) - 1)[k] = s[k]
    BY <1>1, SubSeqProperties
  <1> QED
    BY <1>1, <1>2, LenProperties DEF Front, Last

LEMMA Joined ==
  ASSUME NEW S, NEW s \in Seq(S), NEW t \in Seq(S)
  PROVE  /\ s \o t \in Seq(S) /\ Len(s \o t) = Len(s) + Len(t)
         /\ Len(s) \in Nat /\ Len(t) \in Nat /\ DOMAIN s = 1 .. Len(s) /\ DOMAIN t = 1 .. Len(t)
         /\ DOMAIN (s \o t) = 1 .. Len(s) + Len(t)
         /\ \A k \in DOMAIN s : k \in DOMAIN (s \o t) /\ (s \o t)[k] = s[k]
         /\ \A k \in DOMAIN t : Len(s) + k \in DOMAIN (s \o t) /\ (s \o t)[Len(s) + k] = t[k]
         /\ \A k \in DOMAIN (s \o t) :
               \/ k \in DOMAIN s /\ (s \o t)[k] = s[k]
               \/ k > Len(s) /\ k - Len(s) \in DOMAIN t /\ (s \o t)[k] = t[k - Len(s)]
  <1>1. /\ s \o t \in Seq(S) /\ Len(s \o t) = Len(s) + Len(t)
        /\ \A i \in 1 .. Len(s) + Len(t) :
              (s \o t)[i] = IF i <= Len(s) THEN s[i] ELSE t[i - Len(s)]
    BY ConcatProperties
  <1>2. /\ Len(s) \in Nat /\ Len(t) \in Nat /\ DOMAIN s = 1 .. Len(s) /\ DOMAIN t = 1 .. Len(t)
        /\ DOMAIN (s \o t) = 1 .. Len(s \o t)
    BY <1>1, LenProperties
  <1> QED
    BY <1>1, <1>2

LEMMA Single ==
  ASSUME NEW S, NEW e \in S
  PROVE  <<e>> \in Seq(S) /\ Len(<<e>>) = 1 /\ DOMAIN <<e>> = 1 .. 1 /\ <<e>>[1] = e
  OBVIOUS

LEMMA AppendJoins ==
  ASSUME NEW S, NEW s \in Seq(S), NEW e \in S
  PROVE  Append(s, e) = s \o <<e>>
  OBVIOUS

LEMMA JoinedHas ==
  ASSUME NEW S, NEW s \in Seq(S), NEW t \in Seq(S), NEW c
  PROVE  /\ Has(s \o t, c) <=> Has(s, c) \/ Has(t, c)
         /\ Once(s, c) /\ ~Has(t, c) => Once(s \o t, c)
         /\ Once(t, c) /\ ~Has(s, c) => Once(s \o t, c)
  <1>1. Has(s \o t, c) <=> Has(s, c) \/ Has(t, c)
    <2>1. Has(s, c) \/ Has(t, c) => Has(s \o t, c)
      <3>1. ASSUME NEW k \in DOMAIN s, s[k].cmd = c PROVE Has(s \o t, c)
        <4>1. k \in DOMAIN (s \o t) /\ (s \o t)[k].cmd = c
          BY <3>1, Joined
        <4> QED
          BY <4>1 DEF Has
      <3>2. ASSUME NEW k \in DOMAIN t, t[k].cmd = c PROVE Has(s \o t, c)
        <4>1. Len(s) + k \in DOMAIN (s \o t) /\ (s \o t)[Len(s) + k].cmd = c
          BY <3>2, Joined
        <4> QED
          BY <4>1 DEF Has
      <3> QED
        BY <3>1, <3>2 DEF Has
    <2>2. Has(s \o t, c) => Has(s, c) \/ Has(t, c)
      <3> SUFFICES ASSUME NEW k \in DOMAIN (s \o t), (s \o t)[k].cmd = c
                   PROVE  Has(s, c) \/ Has(t, c)
        BY DEF Has
      <3>1. \/ k \in DOMAIN s /\ s[k].cmd = c
            \/ k - Len(s) \in DOMAIN t /\ t[k - Len(s)].cmd = c
        BY Joined
      <3> QED
        BY <3>1 DEF Has
    <2> QED
      BY <2>1, <2>2
  <1>2. ASSUME Once(s, c), ~Has(t, c) PROVE Once(s \o t, c)
    BY <1>2, Joined DEF Has, Once
  <1>3. ASSUME Once(t, c), ~Has(s, c) PROVE Once(s \o t, c)
    <2> SUFFICES ASSUME NEW k \in DOMAIN (s \o t), NEW l \in DOMAIN (s \o t),
                        (s \o t)[k].cmd = c, (s \o t)[l].cmd = c
                 PROVE  k = l
      BY DEF Once
    <2>1. k - Len(s) \in DOMAIN t /\ t[k - Len(s)].cmd = c
      BY <1>3, Joined DEF Has
    <2>2. l - Len(s) \in DOMAIN t /\ t[l - Len(s)].cmd = c
      BY <1>3, Joined DEF Has
    <2>3. k - Len(s) = l - Len(s)
      BY <1>3, <2>1, <2>2 DEF Once
    <2> QED
      BY <2>3, Joined
  <1> QED
    BY <1>1, <1>2, <1>3

LEMMA TailHas ==
  ASSUME NEW S, NEW s \in Seq(S), s # <<>>, NEW c
  PROVE  /\ Has(Tail(s), c) => Has(s, c)
         /\ Has(s, c) => Has(Tail(s), c) \/ Head(s).cmd = c
         /\ Head(s).cmd = c => Has(s, c)
         /\ Once(s, c) => Once(Tail(s), c)
         /\ Once(s, c) /\ Head(s).cmd = c => ~Has(Tail(s), c)
  <1>1. /\ Head(s) = s[1] /\ 1 \in DOMAIN s /\ DOMAIN Tail(s) \subseteq Nat
        /\ \A k \in DOMAIN Tail(s) : k + 1 \in DOMAIN s /\ k + 1 # 1 /\ Tail(s)[k] = s[k + 1]
        /\ \A k \in DOMAIN s : k = 1 \/ (k - 1 \in DOMAIN Tail(s) /\ s[k] = Tail(s)[k - 1])
    BY Beheaded
  <1>2. ASSUME Once(s, c) PROVE Once(Tail(s), c)
    <2> SUFFICES ASSUME NEW k \in DOMAIN Tail(s), NEW l \in DOMAIN Tail(s),
                        Tail(s)[k].cmd = c, Tail(s)[l].cmd = c
                 PROVE  k = l
      BY DEF Once
    <2>1. k + 1 = l + 1
      BY <1>1, <1>2 DEF Once
    <2> QED
      BY <1>1, <2>1
  <1> QED
    BY <1>1, <1>2 DEF Has, Once

-----------------------------------------------------------------------------
(* Records. *)

LEMMA UpMessages ==
  /\ \A c \in {"VERSION", "VERSION_ACK", "OPEN", "OPEN_ACK"} : Cmd(c) \in Up /\ Cmd(c).cmd = c
  /\ \A c \in {"INTENT", "RX_DONE_W_REUSE"}, n \in Ids :
        WithId(c, n) \in Up /\ WithId(c, n).cmd = c /\ WithId(c, n).id = n
  /\ \A b \in BOOLEAN : Granted(b) \in Up /\ Granted(b).cmd = "RX_INTENT_REQ_ACK"
  /\ \A n \in RemoteIntent, r \in Req :
        Data(n, r) \in Up /\ Data(n, r).cmd = "TX_DATA" /\ Data(n, r).id = n /\ Data(n, r).body = r
  BY DEF Up, Cmd, WithId, Granted, Data

LEMMA DownMessages ==
  /\ \A c \in {"VERSION", "VERSION_ACK", "OPEN", "OPEN_ACK", "RX_INTENT_REQ"} :
        Cmd(c) \in Down /\ Cmd(c).cmd = c
  /\ \A c \in {"INTENT", "RX_DONE", "RX_DONE_W_REUSE"}, n \in RemoteIntent :
        WithId(c, n) \in Down /\ WithId(c, n).cmd = c /\ WithId(c, n).id = n
  /\ \A n \in Ids, f \in Flags \cup {"NOTIFY"} :
        Data(n, f) \in Down /\ Data(n, f).cmd = "TX_DATA" /\ Data(n, f).id = n /\ Data(n, f).body = f
  BY DEF Down, Cmd, WithId, Data

(* struct qpg.  Link is what the messages of the channel decide, as against *)
(* the flags of requests.                                                  *)
Link(p) == <<p.version_acked, p.remote_opened, p.remote_open_ack_pending,
             p.remote_open_acked, p.local_open_sent, p.open_acked, p.riid,
             p.riid_avail, p.next_liid>>

LEMMA AnswersAreFlags == \A r \in Req : Answer(r) \in Flags
  BY DEF Answer, Req, PanReq, Flags

LEMMA Clears ==
  ASSUME NEW p \in Qpg, NEW r \in Req
  PROVE  /\ Clear(p, r) \in Qpg /\ Link(Clear(p, r)) = Link(p)
         /\ Clear(p, r).session_ready = p.session_ready
         /\ ~Clear(p, r).acked[Answer(r)]
         /\ \A f \in Flags : f # Answer(r) => Clear(p, r).acked[f] = p.acked[f]
  BY AnswersAreFlags DEF Qpg, Clear, Link

LEMMA FreshFacts ==
  /\ FreshPg \in Qpg /\ ~FreshPg.remote_opened /\ ~FreshPg.session_ready
  /\ ~FreshPg.version_acked /\ ~FreshPg.local_open_sent /\ ~FreshPg.open_acked
  /\ ~FreshPg.riid_avail /\ FreshPg.riid = 0 /\ FreshPg.next_liid = 1
  /\ \A f \in Flags : ~FreshPg.acked[f]
  BY DEF FreshPg, Qpg, FirstLiid, Ids

LEMMA HandledFacts ==
  ASSUME pg \in Qpg, NEW m \in Down
  PROVE  /\ Handled(m) \in Qpg
         /\ m.cmd = "VERSION_ACK" \/ Handled(m).version_acked = pg.version_acked
         /\ m.cmd = "VERSION_ACK" => Handled(m).version_acked
         /\ m.cmd = "OPEN" \/ Handled(m).remote_opened = pg.remote_opened
         /\ m.cmd = "OPEN" => Handled(m).remote_opened
         /\ Handled(m).local_open_sent = pg.local_open_sent
         /\ m.cmd = "OPEN_ACK" \/ Handled(m).open_acked = pg.open_acked
         /\ m.cmd = "OPEN_ACK" => Handled(m).open_acked
         /\ Handled(m).session_ready = pg.session_ready
         /\ \A f \in Flags : (m.cmd = "TX_DATA" /\ pg.remote_opened /\ m.body = f)
                             \/ Handled(m).acked[f] = pg.acked[f]
         /\ \A f \in Flags : m.cmd = "TX_DATA" /\ pg.remote_opened /\ m.body = f
                             => Handled(m).acked[f]
         /\ \/ m.cmd = "INTENT" /\ pg.remote_opened
            \/ Handled(m).riid = pg.riid
         /\ m.cmd = "INTENT" /\ pg.remote_opened => Handled(m).riid = m.id /\ Handled(m).riid_avail
         /\ m.cmd \in {"RX_DONE", "RX_DONE_W_REUSE"} /\ pg.remote_opened /\ m.id = pg.riid
            => (Handled(m).riid_avail <=> m.cmd = "RX_DONE_W_REUSE")
         /\ \/ m.cmd = "INTENT" /\ pg.remote_opened
            \/ m.cmd \in {"RX_DONE", "RX_DONE_W_REUSE"} /\ pg.remote_opened /\ m.id = pg.riid
            \/ Handled(m).riid_avail = pg.riid_avail
         /\ Handled(m).next_liid = IF m.cmd = "RX_INTENT_REQ" /\ pg.remote_opened
                                   THEN pg.next_liid + 1 ELSE pg.next_liid
  <1>1. CASE m.cmd \in {"VERSION", "VERSION_ACK", "OPEN_ACK"}
    BY <1>1 DEF Handled, Qpg, Down
  <1>5. CASE m.cmd = "OPEN"
    <2>1. Handled(m) = [pg EXCEPT !.remote_opened = TRUE,
                                  !.remote_open_ack_pending = ~pg.remote_open_acked]
      BY <1>5 DEF Handled
    <2>2. (~pg.remote_open_acked) \in BOOLEAN
      BY DEF Qpg
    <2> QED
      BY <1>5, <2>1, <2>2 DEF Qpg
  <1>2. CASE m.cmd = "RX_INTENT_REQ"
    BY <1>2 DEF Handled, Qpg, Down, Ids
  <1>3. CASE m.cmd \in {"INTENT", "RX_DONE", "RX_DONE_W_REUSE"}
    BY <1>3 DEF Handled, Qpg, Down, RxDone
  <1>4. CASE m.cmd = "TX_DATA"
    BY <1>4 DEF Handled, Qpg, Down, Parse, Flags
  <1> QED
    BY <1>1, <1>2, <1>3, <1>4, <1>5 DEF Down

-----------------------------------------------------------------------------
(* How a step of the driver moves the stack. *)

Pcs == Callers \cup {"version", "remote", "open_ack", "poll", "riid", "answer"}
Ops == Req \cup {"open", "altmode_poll", "refresh"}
Rets == {"none", "ok", "again", "err"}

(* The innermost call returns. *)
Pops == /\ stack' \in Seq(Frames) /\ Len(stack') = Len(stack) - 1
        /\ \A k \in 1 .. Len(stack) - 1 : stack'[k] = stack[k]

(* It goes on, at pc. *)
Sets(pc) == /\ stack' \in Seq(Frames) /\ Len(stack') = Len(stack)
            /\ \A k \in 1 .. Len(stack) - 1 : stack'[k] = stack[k]
            /\ stack'[Len(stack)].op = stack[Len(stack)].op
            /\ stack'[Len(stack)].pc = pc

(* A call from outside, now at pc, starts request r. *)
Starts(pc, r) == /\ stack' \in Seq(Frames) /\ Len(stack) = 1 /\ Len(stack') = 2
                 /\ stack'[1].op = stack[1].op /\ stack'[1].pc = pc
                 /\ stack'[2].op = r /\ stack'[2].pc = "riid"

(* A notification starts an acknowledgement. *)
Nests == /\ stack' \in Seq(Frames) /\ Len(stack') = Len(stack) + 1
         /\ \A k \in 1 .. Len(stack) : stack'[k] = stack[k]
         /\ stack'[Len(stack) + 1].op = "PAN_ACK" /\ stack'[Len(stack) + 1].pc = "riid"

LEMMA FrameFacts ==
  \A op \in Ops, pc \in Pcs : /\ Frame(op, pc) \in Frames /\ Frame(op, pc).op = op
                              /\ Frame(op, pc).pc = pc /\ Frame(op, pc).i = 0
  BY DEF Frame, Frames, Ops, Pcs

LEMMA TopFacts ==
  ASSUME TypeInv, StackInv, stack # <<>>
  PROVE  /\ Top = stack[Len(stack)] /\ Top \in Frames /\ Len(stack) \in Nat \ {0}
         /\ DOMAIN stack = 1 .. Len(stack)
         /\ Len(stack) = 1 => Outermost(stack[1]) /\ Top.pc \notin {"riid", "answer"}
         /\ Len(stack) > 1 => Top.pc \in {"riid", "answer"} /\ Top.op \in Req
  <1>1. /\ Top = stack[Len(stack)] /\ Top \in Frames /\ Len(stack) \in Nat \ {0}
        /\ DOMAIN stack = 1 .. Len(stack)
    BY Fronted DEF TypeInv, Top
  <1>2. Len(stack) = 1 => Outermost(stack[1]) /\ Top.pc \notin {"riid", "answer"}
    BY <1>1 DEF StackInv, Outermost
  <1>3. ASSUME Len(stack) > 1 PROVE Top.pc \in {"riid", "answer"} /\ Top.op \in Req
    <2>1. \A pc : Below(pc) \subseteq Req
      BY DEF Below, Req, PanReq
    <2>2. /\ Top.pc \in {"riid", "answer"}
          /\ Len(stack) = 2 => Top.op \in Below(stack[1].pc)
          /\ Len(stack) > 2 => Top.op = "PAN_ACK"
      BY <1>1, <1>3 DEF StackInv
    <2> QED
      BY <1>1, <1>3, <2>1, <2>2 DEF Req, PanReq
  <1> QED
    BY <1>1, <1>2, <1>3

LEMMA JumpSets ==
  ASSUME TypeInv, stack # <<>>, NEW pc \in Pcs, stack' = Jump(stack, pc)
  PROVE  Sets(pc)
  <1>1. /\ Front(stack) \in Seq(Frames) /\ Last(stack) \in Frames /\ Last(stack) = stack[Len(stack)]
        /\ Len(Front(stack)) = Len(stack) - 1 /\ Len(stack) \in Nat \ {0}
        /\ \A k \in 1 .. Len(stack) - 1 : Front(stack)[k] = stack[k]
    BY Fronted DEF TypeInv
  <1>2. Frame(Last(stack).op, pc) \in Frames /\ Frame(Last(stack).op, pc).op = Last(stack).op
        /\ Frame(Last(stack).op, pc).pc = pc
    BY <1>1 DEF Frame, Frames, Pcs
  <1> QED
    BY <1>1, <1>2, Appended DEF Jump, Sets

LEMMA BumpSets ==
  ASSUME TypeInv, stack # <<>>, NEW n \in Nat, stack' = [stack EXCEPT ![Len(stack)].i = n]
  PROVE  Sets(stack[Len(stack)].pc) /\ stack' # <<>>
  <1>1. /\ stack \in Seq(Frames) /\ Len(stack) \in Nat \ {0} /\ DOMAIN stack = 1 .. Len(stack)
        /\ stack[Len(stack)] \in Frames
    BY Fronted DEF TypeInv
  <1>2. [stack[Len(stack)] EXCEPT !.i = n] \in Frames
        /\ [stack[Len(stack)] EXCEPT !.i = n].op = stack[Len(stack)].op
        /\ [stack[Len(stack)] EXCEPT !.i = n].pc = stack[Len(stack)].pc
    BY <1>1 DEF Frames
  <1>3. stack' = [stack EXCEPT ![Len(stack)] = [stack[Len(stack)] EXCEPT !.i = n]]
    OBVIOUS
  <1>4. stack' \in Seq(Frames) /\ Len(stack') = Len(stack)
    BY <1>1, <1>2, <1>3, ExceptSeq
  <1> QED
    BY <1>1, <1>2, <1>3, <1>4, EmptySeq DEF Sets

LEMMA PopPops ==
  ASSUME TypeInv, stack # <<>>, stack' = Pop(stack)
  PROVE  Pops /\ (Len(stack) = 1 <=> stack' = <<>>)
  <1>1. Pops
    BY Fronted DEF TypeInv, Pop, Pops
  <1>2. stack' = <<>> <=> Len(stack') = 0
    BY <1>1, EmptySeq DEF Pops
  <1> QED
    BY <1>1, <1>2, Fronted DEF TypeInv, Pops

(* The shape of the stack survives each of the moves. *)
LEMMA PopsInv ==
  ASSUME TypeInv, StackInv, stack # <<>>, Pops, Len(stack) = 1 => ret' = "none"
  PROVE  StackInv'
  <1>1. /\ Len(stack) \in Nat \ {0} /\ DOMAIN stack = 1 .. Len(stack)
        /\ DOMAIN stack' = 1 .. Len(stack) - 1
        /\ \A k \in 1 .. Len(stack) - 1 : stack'[k] = stack[k]
        /\ stack' = <<>> => Len(stack) = 1
    BY TopFacts, LenProperties, EmptySeq DEF Pops
  <1>2. ASSUME NEW k \in DOMAIN stack'
        PROVE  /\ k = 1 => Outermost(stack'[k])
               /\ k > 1 => stack'[k].pc \in {"riid", "answer"}
               /\ k = 2 => stack'[k].op \in Below(stack'[1].pc)
               /\ k > 2 => stack'[k].op = "PAN_ACK"
    <2>1. k \in DOMAIN stack /\ stack'[k] = stack[k] /\ stack'[1] = stack[1]
      BY <1>1, <1>2
    <2> QED
      BY <2>1 DEF StackInv
  <1> QED
    BY <1>1, <1>2 DEF StackInv

LEMMA SetsInv ==
  ASSUME TypeInv, StackInv, stack # <<>>, NEW pc \in Pcs, Sets(pc),
         \/ pc = Top.pc
         \/ pc = "answer" /\ Top.pc = "riid"
         \/ Len(stack) = 1 /\ Top.op = "open" /\ pc \in {"remote", "open_ack", "prewarm", "discover"}
  PROVE  StackInv' /\ stack' # <<>> /\ (Len(stack) > 1 => stack'[1].pc = stack[1].pc)
  <1>1. /\ Len(stack) \in Nat \ {0} /\ DOMAIN stack = 1 .. Len(stack)
        /\ DOMAIN stack' = 1 .. Len(stack)
        /\ \A k \in 1 .. Len(stack) - 1 : stack'[k] = stack[k]
        /\ stack' # <<>> /\ Top = stack[Len(stack)]
        /\ stack'[Len(stack)].op = Top.op /\ stack'[Len(stack)].pc = pc
        /\ Top.pc \in {"riid", "answer"} => Len(stack) > 1
        /\ Len(stack) > 1 => Top.pc \in {"riid", "answer"}
    BY TopFacts, LenProperties, EmptySeq DEF Sets
  <1>2. ASSUME NEW k \in DOMAIN stack'
        PROVE  /\ k = 1 => Outermost(stack'[k])
               /\ k > 1 => stack'[k].pc \in {"riid", "answer"}
               /\ k = 2 => stack'[k].op \in Below(stack'[1].pc)
               /\ k > 2 => stack'[k].op = "PAN_ACK"
    <2>1. k \in DOMAIN stack /\ (k # Len(stack) => stack'[k] = stack[k])
          /\ (k = 2 => stack'[1] = stack[1])
      BY <1>1, <1>2
    <2>2. stack'[k].op = stack[k].op /\ (k = Len(stack) => stack'[k].pc = pc)
      BY <1>1, <2>1
    <2>3. k = 1 => Outermost(stack'[k])
      BY <1>1, <2>1, <2>2 DEF StackInv, Outermost
    <2> QED
      BY <1>1, <2>1, <2>2, <2>3 DEF StackInv
  <1> QED
    BY <1>1, <1>2 DEF StackInv

LEMMA StartsInv ==
  ASSUME TypeInv, StackInv, NEW pc \in Callers, NEW r, Starts(pc, r), r \in Below(pc),
         \/ pc = stack[1].pc
         \/ stack[1].op = "open" /\ pc = "pan"
         \/ stack[1].op = "refresh" /\ pc = "read"
  PROVE  StackInv'
  <1>1. /\ DOMAIN stack = 1 .. 1 /\ DOMAIN stack' = 1 .. 2 /\ stack' # <<>>
        /\ Outermost(stack[1])
    <2>1. stack \in Seq(Frames) /\ stack' \in Seq(Frames) /\ Len(stack) = 1 /\ Len(stack') = 2
      BY DEF Starts, TypeInv
    <2>2. DOMAIN stack = 1 .. Len(stack) /\ DOMAIN stack' = 1 .. Len(stack')
      BY <2>1, LenProperties
    <2>3. stack' # <<>>
      BY <2>1, EmptySeq
    <2> QED
      BY <2>1, <2>2, <2>3 DEF StackInv
  <1>2. Outermost(stack'[1])
    BY <1>1 DEF Starts, Outermost
  <1> QED
    BY <1>1, <1>2 DEF Starts, StackInv

LEMMA NestsInv ==
  ASSUME TypeInv, StackInv, stack # <<>>, Draining(Top), Nests
  PROVE  StackInv'
  <1>1. /\ Len(stack) \in Nat \ {0} /\ DOMAIN stack = 1 .. Len(stack)
        /\ DOMAIN stack' = 1 .. Len(stack) + 1
        /\ \A k \in 1 .. Len(stack) : stack'[k] = stack[k]
        /\ stack'[Len(stack) + 1].op = "PAN_ACK" /\ stack'[Len(stack) + 1].pc = "riid"
        /\ stack' # <<>> /\ Top = stack[Len(stack)]
    BY TopFacts, LenProperties, EmptySeq DEF Nests
  <1>2. Len(stack) = 1 => "PAN_ACK" \in Below(stack[1].pc)
    BY <1>1 DEF Draining, Below
  <1>3. ASSUME NEW k \in DOMAIN stack'
        PROVE  /\ k = 1 => Outermost(stack'[k])
               /\ k > 1 => stack'[k].pc \in {"riid", "answer"}
               /\ k = 2 => stack'[k].op \in Below(stack'[1].pc)
               /\ k > 2 => stack'[k].op = "PAN_ACK"
    <2>1. CASE k = Len(stack) + 1
      BY <1>1, <1>2, <2>1
    <2>2. CASE k # Len(stack) + 1
      <3>1. k \in DOMAIN stack /\ stack'[k] = stack[k] /\ stack'[1] = stack[1]
        BY <1>1, <1>3, <2>2
      <3> QED
        BY <3>1 DEF StackInv
    <2> QED
      BY <2>1, <2>2
  <1> QED
    BY <1>1, <1>3 DEF StackInv

LEMMA Returns ==
  ASSUME TypeInv, StackInv, stack # <<>>, NEW r \in Rets, Return(r)
  PROVE  /\ Pops /\ StackInv' /\ stack' \in Seq(Frames) /\ ret' \in {"none", r}
  <1>1. Pops /\ ret' \in {"none", r} /\ (Len(stack) = 1 => ret' = "none")
    BY PopPops DEF Return
  <1> QED
    BY <1>1, PopsInv DEF Pops

(* Until PAN_EN is carried out. *)
LEMMA PopsQuiet ==
  ASSUME TypeInv, StackInv, stack # <<>>, Pops, PanQuiet,
         ~pg'.session_ready, ~pg'.acked["PAN"],
         Len(stack) = 2 /\ stack[1].pc = "pan" => ret' # "ok"
  PROVE  PanQuiet'
  <1>1. /\ Len(stack) \in Nat \ {0} /\ DOMAIN stack = 1 .. Len(stack)
        /\ DOMAIN stack' = 1 .. Len(stack) - 1 /\ Len(stack') = Len(stack) - 1
        /\ \A k \in 1 .. Len(stack) - 1 : stack'[k] = stack[k]
        /\ stack' # <<>> => Len(stack) > 1
    BY TopFacts, LenProperties, EmptySeq DEF Pops
  <1> QED
    BY <1>1 DEF PanQuiet

LEMMA SetsQuiet ==
  ASSUME TypeInv, StackInv, stack # <<>>, NEW pc, Sets(pc), PanQuiet,
         ~pg'.session_ready, ~pg'.acked["PAN"],
         Len(stack) = 1 => pc \notin {"pan", "discover"}
  PROVE  PanQuiet'
  <1>1. /\ Len(stack) \in Nat \ {0} /\ DOMAIN stack = 1 .. Len(stack)
        /\ DOMAIN stack' = 1 .. Len(stack) /\ Len(stack') = Len(stack)
        /\ \A k \in 1 .. Len(stack) - 1 : stack'[k] = stack[k]
        /\ stack'[Len(stack)].op = stack[Len(stack)].op /\ stack'[Len(stack)].pc = pc
    BY TopFacts, LenProperties DEF Sets
  <1>2. \A k \in 1 .. Len(stack) : stack'[k].op = stack[k].op
    BY <1>1
  <1>3. stack'[1].pc = IF Len(stack) = 1 THEN pc ELSE stack[1].pc
    BY <1>1
  <1> QED
    BY <1>1, <1>2, <1>3 DEF PanQuiet

LEMMA StartsQuiet ==
  ASSUME TypeInv, stack # <<>>, NEW pc, NEW r, Starts(pc, r), PanQuiet,
         ~pg'.session_ready, ~pg'.acked["PAN"], pc # "discover", r \notin LaterPan
  PROVE  PanQuiet'
  <1>1. DOMAIN stack' = 1 .. 2 /\ stack[1].op \notin LaterPan /\ stack[1].op = "open"
    <2>1. 1 \in DOMAIN stack
      BY Fronted DEF TypeInv, Starts
    <2>2. DOMAIN stack' = 1 .. Len(stack')
      BY LenProperties DEF Starts
    <2> QED
      BY <2>1, <2>2 DEF PanQuiet, Starts
  <1> QED
    BY <1>1 DEF PanQuiet, Starts

(* A step of the driver that neither sends nor receives. *)
LEMMA Internals ==
  ASSUME SessionInv, UNCHANGED <<tx, rx, adsp, notified>>, pg' \in Qpg, Link(pg') = Link(pg),
         stack' \in Seq(Frames), ret' \in Rets, calls' \in 0 .. MaxCalls, StackInv',
         ~adsp.pan => PanQuiet'
  PROVE  SessionInv'
  <1>1. TypeInv'
    BY DEF SessionInv, TypeInv, Rets, Link
  <1>2. MayOpen' <=> MayOpen
    BY DEF MayOpen, Link
  <1>3. OpenInv'
    BY <1>2 DEF SessionInv, OpenInv, Has
  <1>4. PanInv'
    BY DEF SessionInv, PanInv
  <1> QED
    BY <1>1, <1>3, <1>4 DEF SessionInv

LEMMA SamePg ==
  ASSUME SessionInv, UNCHANGED pg
  PROVE  /\ pg' \in Qpg /\ Link(pg') = Link(pg)
         /\ ~adsp.pan => PanQuiet /\ ~pg'.session_ready /\ ~pg'.acked["PAN"]
  BY DEF SessionInv, TypeInv, PanInv, PanQuiet

LEMMA PollEmptyInv == SessionInv /\ PollEmpty => SessionInv'
  <1> SUFFICES ASSUME SessionInv, PollEmpty PROVE SessionInv'
    OBVIOUS
  <1>1. stack # <<>> /\ ret' = "again" /\ UNCHANGED <<pg, stack, calls, tx, rx, adsp, notified>>
        /\ Draining(Top)
    BY DEF PollEmpty
  <1>2. TypeInv /\ StackInv
    BY DEF SessionInv
  <1>3. StackInv'
    BY <1>1, <1>2 DEF StackInv
  <1>4. ~adsp.pan => PanQuiet'
    BY <1>1, SamePg DEF PanQuiet
  <1> QED
    BY <1>1, <1>2, <1>3, <1>4, SamePg, Internals DEF TypeInv, Rets

LEMMA AfterVersionInv == SessionInv /\ AfterVersion => SessionInv'
  <1> SUFFICES ASSUME SessionInv, AfterVersion PROVE SessionInv'
    OBVIOUS
  <1>1. /\ stack # <<>> /\ Top.pc = "version" /\ stack' = Jump(stack, "remote") /\ ret' = "none"
        /\ UNCHANGED <<pg, tx, calls, rx, adsp, notified>>
    BY DEF AfterVersion, Waited
  <1>2. TypeInv /\ StackInv
    BY DEF SessionInv
  <1>3. Len(stack) = 1 /\ Top.op = "open" /\ Sets("remote")
    BY <1>1, <1>2, TopFacts, JumpSets DEF Outermost, Pcs
  <1>4. StackInv' /\ stack' \in Seq(Frames)
    BY <1>1, <1>2, <1>3, SetsInv DEF Sets, Pcs
  <1>5. ~adsp.pan => PanQuiet'
    BY <1>1, <1>2, <1>3, SamePg, SetsQuiet
  <1> QED
    BY <1>1, <1>2, <1>4, <1>5, SamePg, Internals DEF TypeInv, Rets

LEMMA AfterAnswerInv == SessionInv /\ AfterAnswer => SessionInv'
  <1> SUFFICES ASSUME SessionInv, AfterAnswer PROVE SessionInv'
    OBVIOUS
  <1>1. /\ stack # <<>> /\ Top.pc = "answer" /\ Done(Top) /\ Return("ok")
        /\ UNCHANGED <<pg, tx, calls, rx, adsp, notified>>
    BY DEF AfterAnswer, Waited
  <1>2. TypeInv /\ StackInv
    BY DEF SessionInv
  <1>3. Pops /\ StackInv' /\ stack' \in Seq(Frames) /\ ret' \in Rets
    BY <1>1, <1>2, Returns DEF Rets
  <1>4. ASSUME ~adsp.pan PROVE PanQuiet'
    <2>1. PanQuiet /\ ~pg'.session_ready /\ ~pg'.acked["PAN"]
      BY <1>1, <1>4, SamePg
    <2>2. ~(Len(stack) = 2 /\ stack[1].pc = "pan")
      <3> SUFFICES ASSUME Len(stack) = 2, stack[1].pc = "pan" PROVE FALSE
        OBVIOUS
      <3>1. Top.op = "PAN_EN"
        BY <1>1, <1>2, TopFacts DEF StackInv, Below
      <3>2. pg.acked["PAN"]
        BY <1>1, <3>1 DEF Done, DoneAnswer, Answer, PanReq
      <3> QED
        BY <2>1, <3>2 DEF PanQuiet
    <2> QED
      BY <1>1, <1>2, <1>3, <2>1, <2>2, PopsQuiet
  <1> QED
    BY <1>1, <1>2, <1>3, <1>4, SamePg, Internals DEF TypeInv

LEMMA CallerFacts ==
  ASSUME TypeInv, StackInv, stack # <<>>, Top.pc \notin {"riid", "answer"}
  PROVE  /\ Len(stack) = 1 /\ stack[1] = Top /\ stack[1] \in Frames /\ stack \in Seq(Frames)
         /\ DOMAIN stack = 1 .. 1 /\ Outermost(stack[1])
         /\ Front(stack) \in Seq(Frames) /\ Len(Front(stack)) = 0 /\ Last(stack) = stack[1]
  <1>1. /\ Top = stack[Len(stack)] /\ Top \in Frames /\ Len(stack) \in Nat \ {0}
        /\ DOMAIN stack = 1 .. Len(stack) /\ stack \in Seq(Frames)
    BY TopFacts DEF TypeInv
  <1>2. Len(stack) = 1
    <2>1. ~(Len(stack) > 1)
      BY TopFacts
    <2> QED
      BY <1>1, <2>1
  <1>3. Outermost(stack[1])
    BY <1>2, TopFacts
  <1>4. Front(stack) \in Seq(Frames) /\ Len(Front(stack)) = Len(stack) - 1 /\ Last(stack) = stack[Len(stack)]
    BY <1>1, Fronted
  <1> QED
    BY <1>1, <1>2, <1>3, <1>4

(* A call from outside other than open, and discover, find PAN_EN carried  *)
(* out.                                                                    *)
LEMMA PanDone ==
  ASSUME SessionInv, stack # <<>>, Top.pc \in {"discover", "sel", "read", "poll"}
  PROVE  Len(stack) = 1 /\ adsp.pan
  <1>1. TypeInv /\ StackInv
    BY DEF SessionInv
  <1>2. Len(stack) = 1 /\ Top = stack[1] /\ Outermost(stack[1])
    BY <1>1, TopFacts
  <1> QED
    BY <1>2 DEF SessionInv, PanInv, PanQuiet, Outermost

LEMMA AltmodePollInv == SessionInv /\ AfterAltmodePoll => SessionInv'
  <1> SUFFICES ASSUME SessionInv, AfterAltmodePoll PROVE SessionInv'
    OBVIOUS
  <1>1. /\ stack # <<>> /\ Top.pc = "poll" /\ UNCHANGED <<pg, tx, calls, rx, adsp, notified>>
    BY DEF AfterAltmodePoll
  <1>2. TypeInv /\ StackInv
    BY DEF SessionInv
  <1>3. StackInv' /\ stack' \in Seq(Frames) /\ ret' \in Rets
    <2>1. CASE ret = "ok" \/ (ret = "again" /\ Top.i > 0)
      <3>1. /\ stack' = [stack EXCEPT ![Len(stack)].i = IF ret = "ok" THEN 0 ELSE @ - 1]
            /\ ret' = "none"
        BY <2>1 DEF AfterAltmodePoll
      <3>2. /\ Len(stack) \in DOMAIN stack /\ stack[Len(stack)] = Top /\ Top.i \in Nat
        BY <1>1, <1>2, TopFacts DEF Frames
      <3> DEFINE n == IF ret = "ok" THEN 0 ELSE Top.i - 1
      <3>3. n \in Nat /\ stack' = [stack EXCEPT ![Len(stack)].i = n]
        BY <2>1, <3>1, <3>2
      <3> HIDE DEF n
      <3>4. Sets(Top.pc)
        BY <1>1, <1>2, <3>2, <3>3, BumpSets
      <3> QED
        BY <1>1, <1>2, <3>1, <3>4, SetsInv DEF Sets, Rets, Pcs
    <2>2. CASE ~(ret = "ok" \/ (ret = "again" /\ Top.i > 0))
      <3>1. Return("ok")
        BY <2>2 DEF AfterAltmodePoll
      <3> QED
        BY <1>1, <1>2, <3>1, Returns DEF Rets
    <2> QED
      BY <2>1, <2>2
  <1> QED
    BY <1>1, <1>2, <1>3, PanDone, SamePg, Internals DEF TypeInv

LEMMA KeepWaitingInv == SessionInv /\ KeepWaiting => SessionInv'
  <1> SUFFICES ASSUME SessionInv, KeepWaiting PROVE SessionInv'
    OBVIOUS
  <1>1. /\ stack # <<>> /\ Draining(Top) /\ ret' = "none"
        /\ UNCHANGED <<pg, tx, calls, rx, adsp, notified>>
    BY DEF KeepWaiting, Unfinished
  <1>2. TypeInv /\ StackInv
    BY DEF SessionInv
  <1>3. /\ Len(stack) \in DOMAIN stack /\ stack[Len(stack)] = Top /\ Top.i \in Nat
        /\ stack \in Seq(Frames) /\ Top.pc \in Pcs
    BY <1>1, <1>2, TopFacts DEF Frames, TypeInv, Pcs
  <1>4. Sets(Top.pc)
    <2>1. CASE UNCHANGED stack
      BY <1>3, <2>1 DEF Sets
    <2>2. CASE stack' = [stack EXCEPT ![Len(stack)].i = @ + 1]
      <3> DEFINE n == Top.i + 1
      <3>1. n \in Nat /\ stack' = [stack EXCEPT ![Len(stack)].i = n]
        BY <1>3, <2>2
      <3> HIDE DEF n
      <3> QED
        BY <1>1, <1>2, <1>3, <3>1, BumpSets
    <2> QED
      BY <2>1, <2>2 DEF KeepWaiting
  <1>5. StackInv' /\ stack' \in Seq(Frames)
    BY <1>1, <1>2, <1>3, <1>4, SetsInv DEF Sets
  <1>6. ~adsp.pan => PanQuiet'
    BY <1>1, <1>2, <1>4, SamePg, SetsQuiet DEF Draining
  <1> QED
    BY <1>1, <1>2, <1>5, <1>6, SamePg, Internals DEF TypeInv, Rets

LEMMA TimeOutInv == SessionInv /\ TimeOut => SessionInv'
  <1> SUFFICES ASSUME SessionInv, TimeOut PROVE SessionInv'
    OBVIOUS
  <1>1. /\ stack # <<>> /\ Return("err") /\ UNCHANGED <<pg, tx, calls, rx, adsp, notified>>
    BY DEF TimeOut, Unfinished
  <1>2. TypeInv /\ StackInv
    BY DEF SessionInv
  <1>3. Pops /\ StackInv' /\ stack' \in Seq(Frames) /\ ret' \in {"none", "err"}
    BY <1>1, <1>2, Returns DEF Rets
  <1>4. ~adsp.pan => PanQuiet'
    BY <1>1, <1>2, <1>3, SamePg, PopsQuiet
  <1> QED
    BY <1>1, <1>2, <1>3, <1>4, SamePg, Internals DEF TypeInv, Rets

LEMMA JumpOne ==
  ASSUME TypeInv, StackInv, stack # <<>>, Top.pc \notin {"riid", "answer"}, NEW pc \in Callers
  PROVE  /\ Jump(stack, pc) \in Seq(Frames) /\ Len(Jump(stack, pc)) = 1
         /\ Jump(stack, pc)[1].op = stack[1].op /\ Jump(stack, pc)[1].pc = pc
  <1>1. Front(stack) \in Seq(Frames) /\ Len(Front(stack)) = 0 /\ Last(stack) = stack[1]
        /\ stack[1] \in Frames
    BY CallerFacts
  <1>2. Frame(stack[1].op, pc) \in Frames /\ Frame(stack[1].op, pc).op = stack[1].op
        /\ Frame(stack[1].op, pc).pc = pc
    BY <1>1 DEF Frame, Frames
  <1>3. /\ Jump(stack, pc) = Append(Front(stack), Frame(stack[1].op, pc))
    BY <1>1 DEF Jump
  <1>4. /\ Append(Front(stack), Frame(stack[1].op, pc)) \in Seq(Frames)
        /\ Len(Append(Front(stack), Frame(stack[1].op, pc))) = Len(Front(stack)) + 1
        /\ Append(Front(stack), Frame(stack[1].op, pc))[Len(Front(stack)) + 1] = Frame(stack[1].op, pc)
    BY <1>1, <1>2, AppendProperties
  <1> QED
    BY <1>1, <1>2, <1>3, <1>4

(* A caller that starts a request, and one that is done. *)
LEMMA CallStarts ==
  ASSUME SessionInv, stack # <<>>, Len(stack) = 1, NEW s \in Seq(Frames), Len(s) = 1,
         s[1].op = stack[1].op, NEW r \in Req, Call(s, r)
  PROVE  /\ Starts(s[1].pc, r) /\ ret' = "none" /\ pg' = Clear(pg, r) /\ pg' \in Qpg
         /\ Link(pg') = Link(pg) /\ pg'.session_ready = pg.session_ready
         /\ \A f \in Flags : f # Answer(r) => pg'.acked[f] = pg.acked[f]
         /\ ~pg'.acked[Answer(r)]
  <1>1. Frame(r, "riid") \in Frames /\ Frame(r, "riid").op = r /\ Frame(r, "riid").pc = "riid"
    BY FrameFacts DEF Ops, Pcs
  <1>2. stack' = Append(s, Frame(r, "riid"))
    BY DEF Call
  <1>3. Starts(s[1].pc, r)
    <2>1. stack' \in Seq(Frames) /\ Len(stack') = 2 /\ stack'[1] = s[1] /\ stack'[2] = Frame(r, "riid")
      BY <1>1, <1>2, Second
    <2> QED
      BY <1>1, <2>1 DEF Starts
  <1>4. pg \in Qpg /\ pg' = Clear(pg, r) /\ ret' = "none"
    BY DEF SessionInv, TypeInv, Call
  <1> QED
    BY <1>3, <1>4, Clears

LEMMA UcsiRequestInv == SessionInv /\ UcsiRequest => SessionInv'
  <1> SUFFICES ASSUME SessionInv, NEW pc \in {"prewarm", "discover"},
                      NEW r \in {"UCSI_READ", "UCSI_WRITE"}, AtCaller(pc),
                      Call([stack EXCEPT ![Len(stack)].i = @ + 1], r)
               PROVE  SessionInv'
    BY DEF UcsiRequest
  <1>1. /\ stack # <<>> /\ Top.pc = pc /\ UNCHANGED <<tx, calls, rx, adsp, notified>>
    BY DEF AtCaller
  <1>2. TypeInv /\ StackInv
    BY DEF SessionInv
  <1>3. /\ Len(stack) = 1 /\ stack[1] = Top /\ stack[1] \in Frames /\ stack \in Seq(Frames)
        /\ DOMAIN stack = 1 .. 1
    BY <1>1, <1>2, CallerFacts
  <1> DEFINE f == [stack[1] EXCEPT !.i = @ + 1]
             s == [stack EXCEPT ![Len(stack)].i = @ + 1]
  <1>4. f \in Frames /\ f.op = stack[1].op /\ f.pc = pc
    BY <1>1, <1>3 DEF Frames
  <1>5. s = [stack EXCEPT ![1] = f]
    BY <1>3
  <1>6. s \in Seq(Frames) /\ Len(s) = 1 /\ s[1] = f
    BY <1>3, <1>4, <1>5, ExceptSeq
  <1>7. Call(s, r) /\ r \in Req /\ Answer(r) # "PAN" /\ "PAN" \in Flags /\ r \notin LaterPan
        /\ r \in Below(pc)
    BY DEF Req, Answer, PanReq, Flags, LaterPan, Below
  <1> HIDE DEF s, f
  <1>8. /\ Starts(pc, r) /\ ret' = "none" /\ pg' \in Qpg /\ Link(pg') = Link(pg)
        /\ pg'.session_ready = pg.session_ready /\ pg'.acked["PAN"] = pg.acked["PAN"]
    BY <1>1, <1>3, <1>4, <1>6, <1>7, CallStarts
  <1>9. StackInv' /\ stack' \in Seq(Frames)
    BY <1>1, <1>2, <1>3, <1>7, <1>8, StartsInv DEF Starts, Callers
  <1>10. ASSUME ~adsp.pan PROVE PanQuiet'
    <2>1. pc # "discover"
      BY <1>1, <1>10, PanDone
    <2>2. PanQuiet
      BY <1>10 DEF SessionInv, PanInv
    <2> QED
      BY <1>1, <1>2, <1>7, <1>8, <2>1, <2>2, StartsQuiet DEF PanQuiet
  <1> QED
    BY <1>1, <1>2, <1>8, <1>9, <1>10, Internals DEF TypeInv, Rets

LEMMA PrewarmEndInv == SessionInv /\ PrewarmEnd => SessionInv'
  <1> SUFFICES ASSUME SessionInv, PrewarmEnd PROVE SessionInv'
    OBVIOUS
  <1>1. /\ stack # <<>> /\ Top.pc = "prewarm" /\ UNCHANGED <<tx, calls, rx, adsp, notified>>
        /\ Call(Jump(stack, "pan"), "PAN_EN")
    BY DEF AtCaller, PrewarmEnd
  <1>2. TypeInv /\ StackInv
    BY DEF SessionInv
  <1>3. Len(stack) = 1 /\ stack[1] = Top /\ Top \in Frames /\ stack[1].op = "open" /\ stack \in Seq(Frames)
    BY <1>1, <1>2, CallerFacts DEF Outermost
  <1> DEFINE s == Jump(stack, "pan")
  <1>4. s \in Seq(Frames) /\ Len(s) = 1 /\ s[1].op = stack[1].op /\ s[1].pc = "pan"
    BY <1>1, <1>2, JumpOne DEF Callers
  <1>5. "PAN_EN" \in Req /\ Answer("PAN_EN") = "PAN" /\ "PAN_EN" \notin LaterPan
        /\ "PAN_EN" \in Below("pan")
    BY DEF Req, Answer, PanReq, LaterPan, Below
  <1> HIDE DEF s
  <1>6. Call(s, "PAN_EN")
    BY <1>1 DEF s
  <1>7. /\ Starts("pan", "PAN_EN") /\ ret' = "none" /\ pg' \in Qpg /\ Link(pg') = Link(pg)
        /\ pg'.session_ready = pg.session_ready /\ ~pg'.acked["PAN"]
    BY <1>1, <1>3, <1>4, <1>5, <1>6, CallStarts
  <1>8. StackInv' /\ stack' \in Seq(Frames)
    BY <1>1, <1>2, <1>3, <1>5, <1>7, StartsInv DEF Starts, Callers
  <1>9. ASSUME ~adsp.pan PROVE PanQuiet'
    <2>1. PanQuiet
      BY <1>9 DEF SessionInv, PanInv
    <2> QED
      BY <1>1, <1>2, <1>5, <1>7, <2>1, StartsQuiet DEF PanQuiet
  <1> QED
    BY <1>1, <1>2, <1>7, <1>8, <1>9, Internals DEF TypeInv, Rets

LEMMA AfterPanEnInv == SessionInv /\ AfterPanEn => SessionInv'
  <1> SUFFICES ASSUME SessionInv, AfterPanEn PROVE SessionInv'
    OBVIOUS
  <1>1. /\ stack # <<>> /\ Top.pc = "pan" /\ UNCHANGED <<pg, tx, calls, rx, adsp, notified>>
    BY DEF AtCaller, AfterPanEn
  <1>2. TypeInv /\ StackInv
    BY DEF SessionInv
  <1>3. Len(stack) = 1 /\ stack[1] = Top /\ stack[1].op = "open"
    BY <1>1, <1>2, CallerFacts DEF Outermost
  <1>4. CASE ret = "ok"
    <2>1. adsp.pan
      BY <1>1, <1>3, <1>4 DEF SessionInv, PanInv, PanQuiet
    <2>2. stack' = Jump(stack, "discover") /\ ret' = "none"
      BY <1>4 DEF AfterPanEn
    <2>3. Sets("discover")
      BY <1>1, <1>2, <2>2, JumpSets DEF Pcs, Callers
    <2>4. StackInv' /\ stack' \in Seq(Frames)
      BY <1>1, <1>2, <1>3, <2>3, SetsInv DEF Sets, Pcs, Callers
    <2> QED
      BY <1>1, <1>2, <2>1, <2>2, <2>4, SamePg, Internals DEF TypeInv, Rets
  <1>5. CASE ret # "ok"
    <2>1. Return("err")
      BY <1>5 DEF AfterPanEn
    <2>2. Pops /\ StackInv' /\ stack' \in Seq(Frames) /\ ret' \in {"none", "err"}
      BY <1>1, <1>2, <2>1, Returns DEF Rets
    <2>3. ~adsp.pan => PanQuiet'
      BY <1>1, <1>2, <2>2, SamePg, PopsQuiet
    <2> QED
      BY <1>1, <1>2, <2>2, <2>3, SamePg, Internals DEF TypeInv, Rets
  <1> QED
    BY <1>4, <1>5

LEMMA DiscoverEndInv == SessionInv /\ DiscoverEnd => SessionInv'
  <1> SUFFICES ASSUME SessionInv, DiscoverEnd PROVE SessionInv'
    OBVIOUS
  <1>1. /\ stack # <<>> /\ Top.pc = "discover" /\ UNCHANGED <<tx, calls, rx, adsp, notified>>
        /\ pg' = [pg EXCEPT !.session_ready = TRUE] /\ Return("ok")
    BY DEF AtCaller, DiscoverEnd
  <1>2. TypeInv /\ StackInv /\ pg \in Qpg
    BY DEF SessionInv, TypeInv
  <1>3. pg' \in Qpg /\ Link(pg') = Link(pg)
    BY <1>1, <1>2 DEF Qpg, Link
  <1>4. StackInv' /\ stack' \in Seq(Frames) /\ ret' \in Rets
    BY <1>1, <1>2, Returns DEF Rets
  <1> QED
    BY <1>1, <1>2, <1>3, <1>4, PanDone, Internals DEF TypeInv

LEMMA AfterReadSelInv == SessionInv /\ AfterReadSel => SessionInv'
  <1> SUFFICES ASSUME SessionInv, AfterReadSel PROVE SessionInv'
    OBVIOUS
  <1>1. /\ stack # <<>> /\ Top.pc = "sel" /\ UNCHANGED <<tx, calls, rx, adsp, notified>>
    BY DEF AtCaller, AfterReadSel
  <1>2. TypeInv /\ StackInv
    BY DEF SessionInv
  <1>3. Len(stack) = 1 /\ stack[1] = Top /\ stack[1].op = "refresh" /\ adsp.pan
    BY <1>1, <1>2, CallerFacts, PanDone DEF Outermost
  <1>4. CASE ret = "ok"
    <2> DEFINE s == Jump(stack, "read")
    <2>1. Call(s, "USBC_READ")
      BY <1>4 DEF AfterReadSel
    <2>2. s \in Seq(Frames) /\ Len(s) = 1 /\ s[1].op = stack[1].op /\ s[1].pc = "read"
      BY <1>1, <1>2, JumpOne DEF Callers
    <2>3. "USBC_READ" \in Req /\ "USBC_READ" \in Below("read")
      BY DEF Req, Below
    <2> HIDE DEF s
    <2>4. Starts("read", "USBC_READ") /\ ret' = "none" /\ pg' \in Qpg /\ Link(pg') = Link(pg)
      BY <1>1, <1>3, <2>1, <2>2, <2>3, CallStarts
    <2>5. StackInv' /\ stack' \in Seq(Frames)
      BY <1>1, <1>2, <1>3, <2>3, <2>4, StartsInv DEF Starts, Callers
    <2> QED
      BY <1>1, <1>2, <1>3, <2>4, <2>5, Internals DEF TypeInv, Rets
  <1>5. CASE ret # "ok"
    <2>1. Return("err") /\ UNCHANGED pg
      BY <1>5 DEF AfterReadSel
    <2>2. StackInv' /\ stack' \in Seq(Frames) /\ ret' \in Rets
      BY <1>1, <1>2, <2>1, Returns DEF Rets
    <2> QED
      BY <1>1, <1>2, <1>3, <2>1, <2>2, SamePg, Internals DEF TypeInv
  <1> QED
    BY <1>4, <1>5

LEMMA AfterUsbcReadInv == SessionInv /\ AfterUsbcRead => SessionInv'
  <1> SUFFICES ASSUME SessionInv, AfterUsbcRead PROVE SessionInv'
    OBVIOUS
  <1>1. /\ stack # <<>> /\ Top.pc = "read" /\ UNCHANGED <<pg, tx, calls, rx, adsp, notified>>
        /\ Return(ret)
    BY DEF AtCaller, AfterUsbcRead
  <1>2. TypeInv /\ StackInv /\ ret \in Rets
    BY DEF SessionInv, TypeInv, Rets
  <1>3. StackInv' /\ stack' \in Seq(Frames) /\ ret' \in Rets
    BY <1>1, <1>2, Returns DEF Rets
  <1> QED
    BY <1>1, <1>2, <1>3, PanDone, SamePg, Internals DEF TypeInv

-----------------------------------------------------------------------------
(* A step of the driver that sends ms and takes at most one message. *)

LEMMA Exchanges ==
  ASSUME SessionInv, NEW ms \in Seq(Up), tx' = tx \o ms, Len(tx) + Len(ms) <= TxCap,
         rx' = rx \/ (rx # <<>> /\ rx' = Tail(rx)), UNCHANGED <<adsp, notified>>, pg' \in Qpg,
         pg'.riid_avail => pg'.riid \in RemoteIntent, stack' \in Seq(Frames), ret' \in Rets, calls' \in 0 .. MaxCalls, StackInv', OpenInv',
         ~adsp.pan => /\ PanQuiet'
                      /\ \A k \in DOMAIN ms : ms[k].cmd = "TX_DATA" => ms[k].body \notin LaterPan
  PROVE  SessionInv'
  <1>1. tx \in Seq(Up) /\ rx \in Seq(Down) /\ Len(rx) <= RxCap
    BY DEF SessionInv, TypeInv
  <1>2. rx' \in Seq(Down) /\ Len(rx') <= RxCap
    <2>1. CASE rx' = rx
      BY <1>1, <2>1
    <2>2. CASE rx # <<>> /\ rx' = Tail(rx)
      <3>1. Tail(rx) \in Seq(Down) /\ Len(Tail(rx)) = Len(rx) - 1 /\ Len(rx) \in Nat
        BY <1>1, <2>2, Beheaded
      <3>2. Len(rx) - 1 <= RxCap
        BY <1>1, <3>1
      <3>3. Len(rx') = Len(rx) - 1 /\ rx' \in Seq(Down)
        BY <2>2, <3>1
      <3> QED
        BY <3>2, <3>3
    <2> QED
      BY <2>1, <2>2
  <1>3. tx' \in Seq(Up) /\ Len(tx') <= TxCap
    BY <1>1, Joined
  <1>4. TypeInv'
    BY <1>2, <1>3 DEF SessionInv, TypeInv, Rets
  <1>5. ASSUME ~adsp.pan, NEW k \in DOMAIN tx', tx'[k].cmd = "TX_DATA"
        PROVE  tx'[k].body \notin LaterPan
    <2>1. \/ k \in DOMAIN tx /\ tx'[k] = tx[k]
          \/ k - Len(tx) \in DOMAIN ms /\ tx'[k] = ms[k - Len(tx)]
      BY <1>1, <1>5, Joined
    <2> QED
      BY <1>5, <2>1 DEF SessionInv, PanInv
  <1>6. ASSUME ~adsp.pan, NEW k \in DOMAIN rx', rx'[k].cmd = "TX_DATA"
        PROVE  rx'[k].body \notin {"PAN", "NOTIFY"}
    <2>1. \E j \in DOMAIN rx : rx'[k] = rx[j]
      <3>1. CASE rx' = rx
        BY <1>6, <3>1
      <3>2. CASE rx # <<>> /\ rx' = Tail(rx)
        <4>1. k + 1 \in DOMAIN rx /\ rx'[k] = rx[k + 1]
          BY <1>1, <1>6, <3>2, Beheaded
        <4> QED
          BY <4>1
      <3> QED
        BY <3>1, <3>2
    <2> QED
      BY <1>6, <2>1 DEF SessionInv, PanInv
  <1>7. PanInv'
    BY <1>5, <1>6 DEF SessionInv, PanInv
  <1> QED
    BY <1>4, <1>7 DEF SessionInv

(* The permission to open stays where it is. *)
LEMMA OpenKept ==
  ASSUME SessionInv, NEW ms \in Seq(Up), tx' = tx \o ms, ~Has(ms, "OPEN"),
         rx' = rx \/ (rx # <<>> /\ rx' = Tail(rx)), UNCHANGED adsp, MayOpen' => MayOpen
  PROVE  OpenInv'
  <1>1. tx \in Seq(Up) /\ rx \in Seq(Down) /\ OpenInv
    BY DEF SessionInv, TypeInv
  <1>2. (Has(tx', "OPEN") <=> Has(tx, "OPEN")) /\ (Once(tx, "OPEN") => Once(tx', "OPEN"))
    BY <1>1, JoinedHas
  <1>3. (Has(rx', "OPEN") => Has(rx, "OPEN")) /\ (Once(rx, "OPEN") => Once(rx', "OPEN"))
    <2>1. CASE rx' = rx
      BY <2>1
    <2>2. CASE rx # <<>> /\ rx' = Tail(rx)
      <3>1. /\ Has(Tail(rx), "OPEN") => Has(rx, "OPEN")
            /\ Once(rx, "OPEN") => Once(Tail(rx), "OPEN")
        BY <1>1, <2>2, TailHas
      <3> QED
        BY <2>2, <3>1
    <2> QED
      BY <2>1, <2>2
  <1>4. Has(tx, "OPEN")' = Has(tx', "OPEN") /\ Has(rx, "OPEN")' = Has(rx', "OPEN")
        /\ Once(tx, "OPEN")' = Once(tx', "OPEN") /\ Once(rx, "OPEN")' = Once(rx', "OPEN")
    BY DEF Has, Once
  <1> QED
    BY <1>1, <1>2, <1>3 DEF OpenInv

LEMMA CallPollInv == SessionInv /\ CallPoll => SessionInv'
  <1> SUFFICES ASSUME SessionInv, CallPoll PROVE SessionInv'
    OBVIOUS
  <1>1. PICK wait \in {0, Patience} : stack' = <<[Frame("altmode_poll", "poll") EXCEPT !.i = wait]>>
    BY DEF CallPoll
  <1>2. /\ stack = <<>> /\ calls' \in 0 .. MaxCalls /\ pg.session_ready /\ ret' \in Rets
        /\ UNCHANGED <<pg, ret, tx, rx, adsp, notified>>
    BY DEF CallPoll, SessionInv, TypeInv, Rets
  <1> DEFINE f == [Frame("altmode_poll", "poll") EXCEPT !.i = wait]
  <1>3. f \in Frames /\ f.op = "altmode_poll" /\ f.pc = "poll"
    BY DEF Frame, Frames
  <1> HIDE DEF f
  <1>4. stack' \in Seq(Frames) /\ Len(stack') = 1 /\ DOMAIN stack' = 1 .. 1 /\ stack'[1] = f
        /\ stack' # <<>>
    BY <1>1, <1>3, Single DEF f
  <1>5. StackInv'
    BY <1>3, <1>4 DEF StackInv, Outermost
  <1> QED
    BY <1>2, <1>4, <1>5, SamePg, Internals

LEMMA CallRefreshInv == SessionInv /\ CallRefresh => SessionInv'
  <1> SUFFICES ASSUME SessionInv, CallRefresh PROVE SessionInv'
    OBVIOUS
  <1> DEFINE f == Frame("refresh", "sel")
             g == Frame("READ_SEL", "riid")
  <1>1. /\ stack = <<>> /\ calls' \in 0 .. MaxCalls /\ pg.session_ready /\ ret' \in Rets
        /\ pg' = Clear(pg, "READ_SEL") /\ stack' = <<f, g>>
        /\ UNCHANGED <<ret, tx, rx, adsp, notified>> /\ pg \in Qpg
    BY DEF CallRefresh, SessionInv, TypeInv, Rets
  <1>2. f \in Frames /\ f.op = "refresh" /\ f.pc = "sel"
        /\ g \in Frames /\ g.op = "READ_SEL" /\ g.pc = "riid" /\ "READ_SEL" \in Req
    BY FrameFacts DEF Pcs, Ops, Callers, Req, PanReq
  <1> HIDE DEF f, g
  <1>3. stack' \in Seq(Frames) /\ DOMAIN stack' = 1 .. 2 /\ stack'[1] = f /\ stack'[2] = g
        /\ stack' # <<>>
    BY <1>1, <1>2
  <1>4. StackInv'
    BY <1>2, <1>3 DEF StackInv, Outermost, Below
  <1>5. pg' \in Qpg /\ Link(pg') = Link(pg) /\ adsp.pan
    BY <1>1, <1>2, Clears DEF SessionInv, PanInv, PanQuiet
  <1> QED
    BY <1>1, <1>3, <1>4, <1>5, Internals

LEMMA CallOpenInv == SessionInv /\ CallOpen => SessionInv'
  <1> SUFFICES ASSUME SessionInv, CallOpen PROVE SessionInv'
    OBVIOUS
  <1>1. /\ stack = <<>> /\ calls' \in 0 .. MaxCalls /\ ret' = "none" /\ ret = "none"
        /\ UNCHANGED <<ret, rx, adsp, notified>> /\ tx \in Seq(Up) /\ Len(tx) <= TxCap
        /\ Len(tx) \in Nat
    BY LenProperties DEF CallOpen, SessionInv, TypeInv
  <1>2. CASE pg.session_ready
    <2>1. UNCHANGED <<pg, stack, tx>>
      BY <1>2 DEF CallOpen
    <2>2. StackInv' /\ stack' \in Seq(Frames) /\ (~adsp.pan => PanQuiet')
      BY <1>1, <2>1, SamePg DEF StackInv, SessionInv, TypeInv, PanQuiet
    <2> QED
      BY <1>1, <2>1, <2>2, SamePg, Internals DEF Rets
  <1>3. CASE ~pg.session_ready
    <2>1. pg' = FreshPg /\ pg' \in Qpg /\ ~pg'.remote_opened /\ ~pg'.session_ready
          /\ ~pg'.acked["PAN"] /\ ~pg'.riid_avail
      BY <1>3, FreshFacts DEF CallOpen, Flags
    <2>2. ~MayOpen'
      BY <2>1 DEF MayOpen
    <2>3. CASE /\ Room(1) /\ tx' = Append(tx, Cmd("VERSION"))
               /\ stack' = <<Frame("open", "version")>>
      <3> DEFINE v == Cmd("VERSION")
                 f == Frame("open", "version")
      <3>1. tx' = Append(tx, v) /\ stack' = <<f>>
        BY <2>3
      <3>2. v \in Up /\ v.cmd = "VERSION" /\ f \in Frames /\ f.op = "open" /\ f.pc = "version"
        BY UpMessages, FrameFacts DEF Pcs, Ops
      <3> HIDE DEF v, f
      <3>3. /\ <<v>> \in Seq(Up) /\ Len(<<v>>) = 1 /\ tx' = tx \o <<v>> /\ ~Has(<<v>>, "OPEN")
            /\ \A k \in DOMAIN <<v>> : <<v>>[k].cmd # "TX_DATA"
        BY <1>1, <3>1, <3>2, Single, AppendJoins DEF Has
      <3>4. stack' \in Seq(Frames) /\ Len(stack') = 1 /\ DOMAIN stack' = 1 .. 1 /\ stack'[1] = f
            /\ stack' # <<>>
        BY <3>1, <3>2, Single
      <3>5. StackInv'
        BY <3>2, <3>4 DEF StackInv, Outermost
      <3>6. PanQuiet'
        BY <2>1, <3>2, <3>4 DEF PanQuiet, LaterPan, PanReq
      <3>7. OpenInv'
        BY <1>1, <2>2, <3>3, OpenKept
      <3>8. Len(tx) + Len(<<v>>) <= TxCap
        BY <2>3, <3>3 DEF Room
      <3> QED
        BY <1>1, <2>1, <3>3, <3>4, <3>5, <3>6, <3>7, <3>8, Exchanges DEF Rets
    <2>4. CASE UNCHANGED <<tx, stack>>
      <3>1. UNCHANGED <<tx, stack>>
        BY <2>4
      <3>2. <<>> \in Seq(Up) /\ Len(<<>>) = 0 /\ tx' = tx \o <<>> /\ ~Has(<<>>, "OPEN")
            /\ DOMAIN <<>> = {}
        BY <1>1, <3>1, ConcatEmptySeq DEF Has
      <3>3. StackInv' /\ stack' \in Seq(Frames) /\ PanQuiet'
        BY <1>1, <2>1, <3>1 DEF StackInv, SessionInv, TypeInv, PanQuiet
      <3>4. OpenInv'
        BY <1>1, <2>2, <3>2, OpenKept
      <3> DEFINE ms == <<>>
      <3>5. ms \in Seq(Up) /\ tx' = tx \o ms /\ Len(tx) + Len(ms) <= TxCap
            /\ \A k \in DOMAIN ms : ms[k].cmd # "TX_DATA"
        BY <1>1, <3>2
      <3> HIDE DEF ms
      <3> QED
        BY <1>1, <2>1, <3>3, <3>4, <3>5, Exchanges DEF Rets
    <2> QED
      BY <1>3, <2>3, <2>4 DEF CallOpen
  <1> QED
    BY <1>2, <1>3

LEMMA SendsOne ==
  ASSUME SessionInv, NEW m \in Up, m.cmd # "OPEN", Room(1), tx' = Append(tx, m),
         UNCHANGED <<rx, adsp, notified>>, pg' \in Qpg, MayOpen' => MayOpen,
         pg'.riid_avail => pg'.riid \in RemoteIntent, stack' \in Seq(Frames), ret' \in Rets,
         calls' \in 0 .. MaxCalls, StackInv',
         ~adsp.pan => PanQuiet' /\ (m.cmd = "TX_DATA" => m.body \notin LaterPan)
  PROVE  SessionInv'
  <1>1. tx \in Seq(Up) /\ Len(tx) + 1 <= TxCap
    BY DEF SessionInv, TypeInv, Room
  <1> DEFINE ms == <<m>>
  <1>2. ms \in Seq(Up) /\ Len(ms) = 1 /\ DOMAIN ms = 1 .. 1 /\ ms[1] = m /\ tx' = tx \o ms
    BY <1>1, Single, AppendJoins
  <1> HIDE DEF ms
  <1>3. ~Has(ms, "OPEN") /\ Len(tx) + Len(ms) <= TxCap
        /\ (~adsp.pan => \A k \in DOMAIN ms : ms[k].cmd = "TX_DATA" => ms[k].body \notin LaterPan)
    BY <1>1, <1>2 DEF Has
  <1>4. OpenInv'
    BY <1>2, <1>3, OpenKept
  <1> QED
    BY <1>2, <1>3, <1>4, Exchanges

LEMMA SendsNone ==
  ASSUME SessionInv, UNCHANGED <<tx, rx, adsp, notified>>, pg' \in Qpg, MayOpen' => MayOpen,
         pg'.riid_avail => pg'.riid \in RemoteIntent, stack' \in Seq(Frames), ret' \in Rets,
         calls' \in 0 .. MaxCalls, StackInv', ~adsp.pan => PanQuiet'
  PROVE  SessionInv'
  <1>1. TypeInv'
    BY DEF SessionInv, TypeInv, Rets
  <1>2. OpenInv'
    BY DEF SessionInv, OpenInv, Has, Once
  <1>3. PanInv'
    BY DEF SessionInv, PanInv
  <1> QED
    BY <1>1, <1>2, <1>3 DEF SessionInv

LEMMA AfterOpenAckInv == SessionInv /\ AfterOpenAck => SessionInv'
  <1> SUFFICES ASSUME SessionInv, AfterOpenAck PROVE SessionInv'
    OBVIOUS
  <1>1. /\ stack # <<>> /\ Top.pc = "open_ack" /\ UNCHANGED <<calls, rx, adsp, notified>>
        /\ pg' = [pg EXCEPT !.next_liid = @ + 1]
    BY DEF AfterOpenAck, Waited
  <1>2. TypeInv /\ StackInv /\ pg \in Qpg /\ calls' \in 0 .. MaxCalls
    BY <1>1 DEF SessionInv, TypeInv
  <1>3. Len(stack) = 1 /\ Top.op = "open"
    BY <1>1, <1>2, TopFacts DEF Outermost
  <1>4. /\ pg' \in Qpg /\ (MayOpen' => MayOpen) /\ (pg'.riid_avail => pg'.riid \in RemoteIntent)
        /\ pg'.acked = pg.acked /\ (pg'.session_ready <=> pg.session_ready)
    <2> DEFINE n == pg.next_liid + 1
    <2>1. n \in Ids /\ pg' = [pg EXCEPT !.next_liid = n]
      BY <1>1, <1>2 DEF Qpg, Ids
    <2> HIDE DEF n
    <2>2. /\ pg' \in Qpg /\ pg'.acked = pg.acked /\ (pg'.session_ready <=> pg.session_ready)
          /\ pg'.riid = pg.riid /\ (pg'.riid_avail <=> pg.riid_avail)
          /\ (pg'.remote_opened <=> pg.remote_opened)
          /\ (pg'.local_open_sent <=> pg.local_open_sent)
      BY <1>2, <2>1 DEF Qpg
    <2> QED
      BY <1>2, <2>2 DEF MayOpen, TypeInv
  <1>5. ~adsp.pan => PanQuiet /\ ~pg'.session_ready /\ ~pg'.acked["PAN"]
    BY <1>4 DEF SessionInv, PanInv, PanQuiet
  <1>6. CASE Room(1)
    <2> DEFINE m == WithId("INTENT", pg.next_liid)
    <2>1. tx' = Append(tx, m) /\ stack' = Jump(stack, "prewarm") /\ ret' = "none"
      BY <1>6 DEF AfterOpenAck
    <2>2. m \in Up /\ m.cmd = "INTENT"
      BY <1>2, UpMessages DEF Qpg
    <2> HIDE DEF m
    <2>3. Sets("prewarm")
      BY <1>1, <1>2, <2>1, JumpSets DEF Pcs, Callers
    <2>4. StackInv' /\ stack' \in Seq(Frames)
      BY <1>1, <1>2, <1>3, <2>3, SetsInv DEF Sets, Pcs, Callers
    <2>5. ~adsp.pan => PanQuiet'
      BY <1>1, <1>2, <1>5, <2>3, SetsQuiet
    <2> QED
      BY <1>1, <1>2, <1>4, <1>6, <2>1, <2>2, <2>4, <2>5, SendsOne DEF Rets
  <1>7. CASE ~Room(1)
    <2>1. Return("err") /\ UNCHANGED tx
      BY <1>7 DEF AfterOpenAck
    <2>2. Pops /\ StackInv' /\ stack' \in Seq(Frames) /\ ret' \in {"none", "err"}
      BY <1>1, <1>2, <2>1, Returns DEF Rets
    <2>3. ~adsp.pan => PanQuiet'
      BY <1>1, <1>2, <1>5, <2>2, PopsQuiet
    <2> QED
      BY <1>1, <1>2, <1>4, <2>1, <2>2, <2>3, SendsNone DEF Rets
  <1> QED
    BY <1>6, <1>7

LEMMA AfterRiidInv == SessionInv /\ AfterRiid => SessionInv'
  <1> SUFFICES ASSUME SessionInv, AfterRiid PROVE SessionInv'
    OBVIOUS
  <1>1. /\ stack # <<>> /\ Top.pc = "riid" /\ UNCHANGED <<calls, rx, adsp, notified>>
        /\ pg' = [pg EXCEPT !.riid_avail = FALSE] /\ pg.riid_avail
    BY DEF AfterRiid, Waited, Spend, Done
  <1>2. TypeInv /\ StackInv /\ pg \in Qpg /\ calls' \in 0 .. MaxCalls /\ pg.riid \in RemoteIntent
    BY <1>1 DEF SessionInv, TypeInv
  <1>3. Len(stack) > 1 /\ Top.op \in Req /\ Len(stack) \in DOMAIN stack /\ Top = stack[Len(stack)]
    BY <1>1, <1>2, TopFacts
  <1>4. /\ pg' \in Qpg /\ (MayOpen' => MayOpen) /\ ~pg'.riid_avail
        /\ pg'.acked = pg.acked /\ (pg'.session_ready <=> pg.session_ready)
    BY <1>1, <1>2 DEF Qpg, MayOpen
  <1>5. ~adsp.pan => PanQuiet /\ ~pg'.session_ready /\ ~pg'.acked["PAN"] /\ Top.op \notin LaterPan
    BY <1>3, <1>4 DEF SessionInv, PanInv, PanQuiet
  <1>6. CASE Room(1)
    <2> DEFINE m == Data(pg.riid, Top.op)
    <2>1. tx' = Append(tx, m) /\ stack' = Jump(stack, "answer") /\ ret' = "none"
      BY <1>6 DEF AfterRiid
    <2>2. m \in Up /\ m.cmd = "TX_DATA" /\ m.body = Top.op
      BY <1>2, <1>3, UpMessages
    <2> HIDE DEF m
    <2>3. Sets("answer")
      BY <1>1, <1>2, <2>1, JumpSets DEF Pcs
    <2>4. StackInv' /\ stack' \in Seq(Frames)
      BY <1>1, <1>2, <1>3, <2>3, SetsInv DEF Sets, Pcs
    <2>5. ~adsp.pan => PanQuiet'
      BY <1>1, <1>2, <1>5, <2>3, SetsQuiet
    <2> QED
      BY <1>1, <1>2, <1>4, <1>5, <1>6, <2>1, <2>2, <2>4, <2>5, SendsOne DEF Rets
  <1>7. CASE ~Room(1)
    <2>1. Return("again") /\ UNCHANGED tx
      BY <1>7 DEF AfterRiid
    <2>2. Pops /\ StackInv' /\ stack' \in Seq(Frames) /\ ret' \in {"none", "again"}
      BY <1>1, <1>2, <2>1, Returns DEF Rets
    <2>3. ~adsp.pan => PanQuiet'
      BY <1>1, <1>2, <1>5, <2>2, PopsQuiet
    <2> QED
      BY <1>1, <1>2, <1>4, <2>1, <2>2, <2>3, SendsNone DEF Rets
  <1> QED
    BY <1>6, <1>7

LEMMA AfterRemoteOpenInv == SessionInv /\ AfterRemoteOpen => SessionInv'
  <1> SUFFICES ASSUME SessionInv, AfterRemoteOpen PROVE SessionInv'
    OBVIOUS
  <1> DEFINE acks == IF pg.remote_open_ack_pending THEN 1 ELSE 0
             opens == IF pg.local_open_sent THEN 0 ELSE 1
             acked == acks = 1 /\ Room(1)
             opened == opens = 1 /\ Room(acks + 1)
             A == IF acked THEN <<Cmd("OPEN_ACK")>> ELSE <<>>
             B == IF opened THEN <<Cmd("OPEN")>> ELSE <<>>
  <1>1. /\ stack # <<>> /\ Top.pc = "remote" /\ UNCHANGED <<calls, rx, adsp, notified>>
        /\ pg.remote_opened
    BY DEF AfterRemoteOpen, Waited, Done, DoneRemoteOpened
  <1>2. TypeInv /\ StackInv /\ pg \in Qpg /\ calls' \in 0 .. MaxCalls /\ tx \in Seq(Up)
        /\ Len(tx) \in Nat /\ Len(tx) <= TxCap
    BY <1>1, LenProperties DEF SessionInv, TypeInv
  <1>3. Len(stack) = 1 /\ Top.op = "open"
    BY <1>1, <1>2, TopFacts DEF Outermost
  <1>4. /\ tx' = tx \o A \o B
        /\ pg' = [pg EXCEPT !.remote_open_ack_pending = @ /\ ~acked,
                            !.remote_open_acked = @ \/ acked,
                            !.local_open_sent = @ \/ opened]
        /\ IF Room(acks + opens)
           THEN stack' = Jump(stack, "open_ack") /\ ret' = "none"
           ELSE Return("err")
    BY DEF AfterRemoteOpen
  <1>5. /\ A \in Seq(Up) /\ B \in Seq(Up) /\ ~Has(A, "OPEN") /\ (Has(B, "OPEN") => opened)
        /\ (opened => B = <<Cmd("OPEN")>>) /\ Once(B, "OPEN")
        /\ \A k \in DOMAIN A : A[k].cmd # "TX_DATA"
        /\ \A k \in DOMAIN B : B[k].cmd # "TX_DATA"
    BY UpMessages DEF Has, Once
  <1>6. Len(tx) + (Len(A) + Len(B)) <= TxCap
    <2>1. Len(A) = (IF acked THEN 1 ELSE 0) /\ Len(B) = (IF opened THEN 1 ELSE 0)
      OBVIOUS
    <2> QED
      BY <1>2, <2>1 DEF Room
  <1>7. opened => MayOpen
    BY <1>1 DEF MayOpen
  <1>8. /\ pg' \in Qpg /\ pg'.local_open_sent = (pg.local_open_sent \/ opened)
        /\ pg'.remote_opened = pg.remote_opened
        /\ pg'.riid_avail = pg.riid_avail /\ pg'.riid = pg.riid
        /\ pg'.acked = pg.acked /\ (pg'.session_ready <=> pg.session_ready)
    <2>1. /\ (pg.remote_open_ack_pending /\ ~acked) \in BOOLEAN
          /\ (pg.remote_open_acked \/ acked) \in BOOLEAN
          /\ (pg.local_open_sent \/ opened) \in BOOLEAN
      OBVIOUS
    <2> DEFINE x == (pg.remote_open_ack_pending /\ ~acked)
               y == (pg.remote_open_acked \/ acked)
               z == (pg.local_open_sent \/ opened)
    <2>2. pg' = [pg EXCEPT !.remote_open_ack_pending = x, !.remote_open_acked = y,
                           !.local_open_sent = z]
      BY <1>4
    <2>3. x \in BOOLEAN /\ y \in BOOLEAN /\ z \in BOOLEAN
      BY <2>1
    <2> HIDE DEF x, y, z
    <2>4. /\ pg' \in Qpg /\ pg'.local_open_sent = z /\ pg'.remote_opened = pg.remote_opened
          /\ pg'.riid_avail = pg.riid_avail /\ pg'.riid = pg.riid
          /\ pg'.acked = pg.acked /\ (pg'.session_ready <=> pg.session_ready)
      BY <1>2, <2>2, <2>3 DEF Qpg
    <2> QED
      BY <2>4 DEF z
  <1>9. ~adsp.pan => PanQuiet /\ ~pg'.session_ready /\ ~pg'.acked["PAN"]
    BY <1>8 DEF SessionInv, PanInv, PanQuiet
  <1> HIDE DEF A, B, acked, opened
  <1> DEFINE ms == A \o B
  <1>10. /\ ms \in Seq(Up) /\ Len(ms) = Len(A) + Len(B) /\ tx' = tx \o ms
         /\ \A k \in DOMAIN ms : ms[k].cmd # "TX_DATA"
    <2>1. tx \o A \o B = tx \o (A \o B)
      BY <1>2, <1>5, ConcatAssociative
    <2>2. ms \in Seq(Up) /\ Len(ms) = Len(A) + Len(B)
      BY <1>5, Joined
    <2>3. \A k \in DOMAIN ms : ms[k].cmd # "TX_DATA"
      BY <1>5, Joined
    <2>4. tx' = tx \o ms
      BY <1>4, <2>1
    <2> QED
      BY <2>2, <2>3, <2>4
  <1>11. /\ (Has(ms, "OPEN") => opened) /\ Once(ms, "OPEN")
    BY <1>5, JoinedHas
  <1> HIDE DEF ms
  <1>12. OpenInv'
    <2>1. OpenInv /\ rx' = rx /\ adsp' = adsp
      BY <1>1 DEF SessionInv
    <2>2. (Has(tx', "OPEN") <=> Has(tx, "OPEN") \/ Has(ms, "OPEN"))
          /\ (~Has(tx, "OPEN") => Once(tx', "OPEN"))
          /\ (~Has(ms, "OPEN") => Once(tx', "OPEN"))
      <3>1. Once(tx, "OPEN")
        BY <2>1 DEF OpenInv
      <3> QED
        BY <1>2, <1>10, <1>11, <3>1, JoinedHas
    <2>3. CASE opened
      <3>1. adsp.advertised /\ ~adsp.open /\ ~Has(tx, "OPEN") /\ ~Has(rx, "OPEN") /\ ~MayOpen'
        BY <1>7, <1>8, <2>1, <2>3 DEF OpenInv, MayOpen
      <3>2. Once(tx', "OPEN")
        BY <2>2, <3>1
      <3> QED
        BY <2>1, <3>1, <3>2 DEF OpenInv
    <2>4. CASE ~opened
      <3>1. (MayOpen' => MayOpen) /\ (Has(tx', "OPEN") <=> Has(tx, "OPEN")) /\ Once(tx', "OPEN")
        BY <1>8, <1>11, <2>2, <2>4 DEF MayOpen
      <3> QED
        BY <2>1, <3>1 DEF OpenInv
    <2> QED
      BY <2>3, <2>4
  <1>13. StackInv' /\ stack' \in Seq(Frames) /\ ret' \in Rets /\ (~adsp.pan => PanQuiet')
    <2>1. CASE stack' = Jump(stack, "open_ack") /\ ret' = "none"
      <3>1. Sets("open_ack")
        BY <1>1, <1>2, <2>1, JumpSets DEF Pcs
      <3>2. StackInv' /\ stack' \in Seq(Frames)
        BY <1>1, <1>2, <1>3, <3>1, SetsInv DEF Sets, Pcs
      <3>3. ~adsp.pan => PanQuiet'
        BY <1>1, <1>2, <1>9, <3>1, SetsQuiet
      <3> QED
        BY <2>1, <3>2, <3>3 DEF Rets
    <2>2. CASE Return("err")
      <3>1. Pops /\ StackInv' /\ stack' \in Seq(Frames) /\ ret' \in {"none", "err"}
        BY <1>1, <1>2, <2>2, Returns DEF Rets
      <3>2. ~adsp.pan => PanQuiet'
        BY <1>1, <1>2, <1>9, <3>1, PopsQuiet
      <3> QED
        BY <3>1, <3>2 DEF Rets
    <2> QED
      BY <1>4, <2>1, <2>2
  <1>14. Len(tx) + Len(ms) <= TxCap /\ (pg'.riid_avail => pg'.riid \in RemoteIntent)
    BY <1>2, <1>6, <1>8, <1>10 DEF TypeInv
  <1> QED
    BY <1>1, <1>2, <1>8, <1>10, <1>12, <1>13, <1>14, Exchanges

-----------------------------------------------------------------------------
(* A message is handled. *)

LEMMA ReplyFacts ==
  ASSUME pg \in Qpg, NEW m \in Down
  PROVE  /\ Reply(m) \in Seq(Up) /\ Len(Reply(m)) \in 0 .. 2
         /\ \A k \in DOMAIN Reply(m) :
               Reply(m)[k].cmd \in {"VERSION_ACK", "INTENT", "RX_INTENT_REQ_ACK", "RX_DONE_W_REUSE"}
  <1>1. CASE m.cmd = "VERSION"
    <2> DEFINE v == Cmd("VERSION_ACK")
    <2>1. Reply(m) = <<v>> /\ v \in Up /\ v.cmd = "VERSION_ACK"
      BY <1>1, UpMessages DEF Reply
    <2> HIDE DEF v
    <2> QED
      BY <2>1
  <1>2. CASE m.cmd = "RX_INTENT_REQ"
    <2> DEFINE i == WithId("INTENT", pg.next_liid)
               y == Granted(TRUE)
               n == Granted(FALSE)
    <2>1. Reply(m) = <<i, y>> \/ Reply(m) = <<n>>
      BY <1>2 DEF Reply, GrantReply
    <2>2. i \in Up /\ y \in Up /\ n \in Up /\ i.cmd = "INTENT" /\ y.cmd = "RX_INTENT_REQ_ACK"
          /\ n.cmd = "RX_INTENT_REQ_ACK"
      BY UpMessages DEF Qpg
    <2> HIDE DEF i, y, n
    <2>3. CASE Reply(m) = <<i, y>>
      <3>1. <<i, y>> \in Seq(Up) /\ Len(<<i, y>>) = 2 /\ DOMAIN <<i, y>> = 1 .. 2
            /\ <<i, y>>[1] = i /\ <<i, y>>[2] = y
        BY <2>2
      <3> QED
        BY <2>2, <2>3, <3>1
    <2>4. CASE Reply(m) = <<n>>
      <3>1. <<n>> \in Seq(Up) /\ Len(<<n>>) = 1 /\ DOMAIN <<n>> = 1 .. 1 /\ <<n>>[1] = n
        BY <2>2, Single
      <3> QED
        BY <2>2, <2>4, <3>1
    <2> QED
      BY <2>1, <2>3, <2>4
  <1>3. CASE m.cmd = "TX_DATA" /\ pg.remote_opened
    <2> DEFINE v == WithId("RX_DONE_W_REUSE", m.id)
    <2>1. Reply(m) = <<v>> /\ m.id \in Ids
      BY <1>3 DEF Reply, RxDoneReply, Down
    <2>2. v \in Up /\ v.cmd = "RX_DONE_W_REUSE"
      BY <2>1, UpMessages
    <2> HIDE DEF v
    <2> QED
      BY <2>1, <2>2
  <1>4. CASE ~(m.cmd = "VERSION") /\ ~(m.cmd = "RX_INTENT_REQ") /\ ~(m.cmd = "TX_DATA" /\ pg.remote_opened)
    <2>1. Reply(m) = <<>>
      BY <1>4 DEF Reply
    <2> QED
      BY <2>1
  <1> QED
    BY <1>1, <1>2, <1>3, <1>4

(* A reply goes out as far as it fits. *)
LEMMA SentFacts ==
  ASSUME tx \in Seq(Up), Len(tx) <= TxCap, NEW reply \in Seq(Up)
  PROVE  \E n \in 0 .. Len(reply) :
            /\ Sent(reply) = tx \o SubSeq(reply, 1, n) /\ Len(tx) + n <= TxCap
            /\ SubSeq(reply, 1, n) \in Seq(Up) /\ Len(SubSeq(reply, 1, n)) = n
            /\ DOMAIN SubSeq(reply, 1, n) = 1 .. n /\ DOMAIN reply = 1 .. Len(reply)
            /\ \A k \in 1 .. n : SubSeq(reply, 1, n)[k] = reply[k]
            /\ Room(Len(reply)) => n = Len(reply)
  <1> DEFINE n == IF Room(Len(reply)) THEN Len(reply) ELSE TxCap - Len(tx)
  <1>1. Len(tx) \in Nat /\ Len(reply) \in Nat /\ DOMAIN reply = 1 .. Len(reply)
        /\ \A k \in 1 .. Len(reply) : reply[k] \in Up
    BY LenProperties, ElementOfSeq
  <1>2. n \in Nat /\ n <= Len(reply) /\ Len(tx) + n <= TxCap
    BY <1>1 DEF Room
  <1>6. Room(Len(reply)) => n = Len(reply)
    OBVIOUS
  <1>3. Sent(reply) = tx \o SubSeq(reply, 1, n)
    BY DEF Sent
  <1> HIDE DEF n
  <1>4. /\ SubSeq(reply, 1, n) \in Seq(Up) /\ Len(SubSeq(reply, 1, n)) = n
        /\ \A k \in 1 .. n : SubSeq(reply, 1, n)[k] = reply[k]
    <2>1. n \in Nat /\ n <= Len(reply)
      BY <1>2
    <2>2. ASSUME NEW k \in 1 .. n PROVE reply[k] \in Up
      <3>1. k \in 1 .. Len(reply)
        BY <1>1, <2>1
      <3> QED
        BY <1>1, <3>1
    <2>3. /\ SubSeq(reply, 1, n) \in Seq(Up)
          /\ Len(SubSeq(reply, 1, n)) = IF 1 <= n THEN n - 1 + 1 ELSE 0
          /\ \A k \in 1 .. n - 1 + 1 : SubSeq(reply, 1, n)[k] = reply[1 + k - 1]
      BY <2>1, <2>2, SubSeqProperties
    <2> QED
      BY <2>1, <2>3
  <1>5. DOMAIN SubSeq(reply, 1, n) = 1 .. n
    BY <1>4, LenProperties
  <1>7. n \in 0 .. Len(reply)
    BY <1>1, <1>2
  <1> QED
    BY <1>1, <1>2, <1>3, <1>4, <1>5, <1>6, <1>7

LEMMA PollMoves ==
  ASSUME TypeInv, StackInv, PollMessage
  PROVE  /\ stack # <<>> /\ Draining(Top) /\ rx # <<>> /\ rx' = Tail(rx) /\ Head(rx) \in Down
         /\ ret = "none" /\ tx' = Sent(Reply(Head(rx))) /\ UNCHANGED <<calls, adsp, notified>>
         /\ \/ /\ Head(rx).cmd = "TX_DATA" /\ pg.remote_opened /\ Head(rx).body = "NOTIFY"
               /\ Room(Len(Reply(Head(rx))))
               /\ pg' = Clear(Handled(Head(rx)), "PAN_ACK") /\ Nests /\ ret' = "none"
            \/ /\ pg' = Handled(Head(rx)) /\ stack' = stack /\ ret' \in {"ok", "again"}
               /\ Head(rx).cmd = "TX_DATA" /\ pg.remote_opened /\ Head(rx).body = "NOTIFY"
                  => ~Room(Len(Reply(Head(rx))))
  <1>1. /\ stack # <<>> /\ Draining(Top) /\ rx # <<>> /\ rx' = Tail(rx)
        /\ ret = "none" /\ tx' = Sent(Reply(Head(rx))) /\ UNCHANGED <<calls, adsp, notified>>
    BY DEF PollMessage
  <1>2. Head(rx) \in Down
    BY <1>1, Beheaded DEF TypeInv
  <1> DEFINE nest == Head(rx).cmd = "TX_DATA" /\ pg.remote_opened /\ Room(Len(Reply(Head(rx))))
                     /\ Head(rx).body = "NOTIFY"
  <1>3. CASE nest
    <2>1. pg' = Clear(Handled(Head(rx)), "PAN_ACK") /\ stack' = Append(stack, Frame("PAN_ACK", "riid"))
          /\ ret' = "none"
      BY <1>3 DEF PollMessage, AckDue
    <2> DEFINE f == Frame("PAN_ACK", "riid")
    <2>2. f \in Frames /\ f.op = "PAN_ACK" /\ f.pc = "riid" /\ stack' = Append(stack, f)
      BY <2>1, FrameFacts DEF Ops, Pcs, Req, PanReq
    <2> HIDE DEF f
    <2>3. Nests
      BY <2>2, Appended DEF TypeInv, Nests
    <2> QED
      BY <1>1, <1>2, <1>3, <2>1, <2>3
  <1>4. CASE ~nest
    <2>1. pg' = Handled(Head(rx)) /\ stack' = stack /\ ret' \in {"ok", "again"}
      BY <1>4 DEF PollMessage, AckDue
    <2> QED
      BY <1>1, <1>2, <1>4, <2>1
  <1> QED
    BY <1>3, <1>4

LEMMA PollMessageInv == SessionInv /\ PollMessage => SessionInv'
  <1> SUFFICES ASSUME SessionInv, PollMessage PROVE SessionInv'
    OBVIOUS
  <1> DEFINE m == Head(rx)
             h == Handled(m)
  <1>1. TypeInv /\ StackInv /\ pg \in Qpg /\ tx \in Seq(Up) /\ Len(tx) <= TxCap /\ rx \in Seq(Down)
    BY DEF SessionInv, TypeInv
  <1>2. /\ stack # <<>> /\ Draining(Top) /\ rx # <<>> /\ rx' = Tail(rx) /\ m \in Down
        /\ tx' = Sent(Reply(m)) /\ UNCHANGED <<calls, adsp, notified>>
    BY <1>1, PollMoves
  <1>3. m = rx[1] /\ 1 \in DOMAIN rx
    BY <1>1, <1>2, Beheaded
  <1>4. /\ h \in Qpg /\ h.local_open_sent = pg.local_open_sent
        /\ m.cmd = "OPEN" \/ h.remote_opened = pg.remote_opened
        /\ h.session_ready = pg.session_ready
        /\ (m.cmd = "TX_DATA" /\ pg.remote_opened /\ m.body = "PAN") \/ h.acked["PAN"] = pg.acked["PAN"]
        /\ h.riid_avail => h.riid \in RemoteIntent
    <2>1. m.cmd \in {"INTENT", "RX_DONE", "RX_DONE_W_REUSE"} => m.id \in RemoteIntent
      BY <1>2 DEF Down
    <2>2. pg.riid_avail => pg.riid \in RemoteIntent
      BY <1>1 DEF TypeInv
    <2>3. h.riid_avail => h.riid \in RemoteIntent
      BY <1>1, <1>2, <2>1, <2>2, HandledFacts
    <2> QED
      BY <1>1, <1>2, <2>3, HandledFacts DEF Flags
  <1>5. /\ pg' \in Qpg /\ pg'.local_open_sent = pg.local_open_sent
        /\ m.cmd = "OPEN" \/ pg'.remote_opened = pg.remote_opened
        /\ pg'.riid_avail => pg'.riid \in RemoteIntent
    <2>1. CASE pg' = h
      BY <1>4, <2>1
    <2>2. CASE pg' = Clear(h, "PAN_ACK")
      <3>1. "PAN_ACK" \in Req
        BY DEF Req, PanReq
      <3> HIDE DEF h
      <3>2. pg' \in Qpg /\ Link(pg') = Link(h)
        BY <1>4, <2>2, <3>1, Clears
      <3> QED
        BY <1>4, <3>2 DEF Link
    <2> QED
      BY <1>1, <2>1, <2>2, PollMoves
  <1>6. PICK n \in 0 .. Len(Reply(m)) :
            /\ Sent(Reply(m)) = tx \o SubSeq(Reply(m), 1, n) /\ Len(tx) + n <= TxCap
            /\ SubSeq(Reply(m), 1, n) \in Seq(Up) /\ Len(SubSeq(Reply(m), 1, n)) = n
            /\ DOMAIN SubSeq(Reply(m), 1, n) = 1 .. n /\ DOMAIN Reply(m) = 1 .. Len(Reply(m))
            /\ \A k \in 1 .. n : SubSeq(Reply(m), 1, n)[k] = Reply(m)[k]
    BY <1>1, <1>2, ReplyFacts, SentFacts
  <1> DEFINE ms == SubSeq(Reply(m), 1, n)
  <1>7. /\ ms \in Seq(Up) /\ tx' = tx \o ms /\ Len(tx) + Len(ms) <= TxCap
        /\ ~Has(ms, "OPEN") /\ \A k \in DOMAIN ms : ms[k].cmd # "TX_DATA"
    <2>1. \A k \in DOMAIN ms : k \in DOMAIN Reply(m) /\ ms[k] = Reply(m)[k]
      BY <1>6
    <2>2. \A k \in DOMAIN ms : ms[k].cmd \notin {"TX_DATA", "OPEN"}
      BY <1>1, <1>2, <2>1, ReplyFacts
    <2> QED
      BY <1>2, <1>6, <2>2 DEF Has
  <1> HIDE DEF ms, m, h
  <1>8. OpenInv'
    <2>1. CASE m.cmd # "OPEN"
      <3>1. MayOpen' => MayOpen
        BY <1>5, <2>1 DEF MayOpen
      <3> QED
        BY <1>2, <1>7, <3>1, OpenKept
    <2>2. CASE m.cmd = "OPEN"
      <3>1. OpenInv /\ Has(rx, "OPEN") /\ adsp' = adsp
        BY <1>2, <1>3, <2>2 DEF SessionInv, Has
      <3>2. adsp.advertised /\ ~adsp.open /\ ~Has(tx, "OPEN") /\ Once(rx, "OPEN") /\ Once(tx, "OPEN")
        BY <3>1 DEF OpenInv
      <3>3. ~Has(rx', "OPEN") /\ Once(rx', "OPEN")
        BY <1>1, <1>2, <2>2, <3>2, TailHas DEF m
      <3>4. ~Has(tx', "OPEN") /\ Once(tx', "OPEN")
        BY <1>1, <1>7, <3>2, JoinedHas
      <3> QED
        BY <3>1, <3>2, <3>3, <3>4 DEF OpenInv
    <2> QED
      BY <2>1, <2>2
  <1>9. StackInv' /\ stack' \in Seq(Frames) /\ ret' \in Rets
    <2>1. CASE Nests /\ ret' = "none"
      BY <1>1, <1>2, <2>1, NestsInv DEF Nests, Rets
    <2>2. CASE stack' = stack /\ ret' \in {"ok", "again"}
      BY <1>1, <1>2, <2>2 DEF StackInv, TypeInv, Rets
    <2> QED
      BY <1>1, <2>1, <2>2, PollMoves
  <1>10. ASSUME ~adsp.pan PROVE PanQuiet'
    <2>1. PanQuiet /\ (m.cmd = "TX_DATA" => m.body \notin {"PAN", "NOTIFY"})
      BY <1>3, <1>10 DEF SessionInv, PanInv
    <2>2. pg' = h /\ stack' = stack
      BY <1>1, <2>1, PollMoves DEF m, h
    <2>3. ~(Len(stack) = 1 /\ stack[1].pc = "pan")
      BY <1>1, <1>2, TopFacts DEF Draining
    <2> QED
      BY <1>4, <2>1, <2>2, <2>3 DEF PanQuiet
  <1>11. calls' \in 0 .. MaxCalls
    BY <1>1, <1>2 DEF TypeInv
  <1> QED
    BY <1>2, <1>5, <1>7, <1>8, <1>9, <1>10, <1>11, Exchanges

-----------------------------------------------------------------------------
(* The ADSP. *)

LEMMA AdspMoves ==
  ASSUME SessionInv, AdspStep, NEW ms \in Seq(Down), AdspSends(ms), adsp' \in AdspSide,
         tx' = tx \/ (tx # <<>> /\ tx' = Tail(tx)), notified' \in 0 .. MaxNotify, OpenInv',
         ~adsp'.pan => /\ ~adsp.pan
                       /\ \A k \in DOMAIN adsp'.todo : adsp'.todo[k] \notin LaterPan
                       /\ \A k \in DOMAIN ms : ms[k].cmd = "TX_DATA" => ms[k].body \notin {"PAN", "NOTIFY"}
  PROVE  SessionInv'
  <1>1. /\ tx \in Seq(Up) /\ Len(tx) <= TxCap /\ rx \in Seq(Down) /\ rx' = rx \o ms
        /\ Len(rx) + Len(ms) <= RxCap /\ UNCHANGED <<pg, stack, ret, calls>>
    BY DEF SessionInv, TypeInv, AdspSends, AdspStep
  <1>2. tx' \in Seq(Up) /\ Len(tx') <= TxCap /\ \A k \in DOMAIN tx' : \E j \in DOMAIN tx : tx'[k] = tx[j]
    <2>1. CASE tx' = tx
      BY <1>1, <2>1
    <2>2. CASE tx # <<>> /\ tx' = Tail(tx)
      <3>1. Tail(tx) \in Seq(Up) /\ Len(Tail(tx)) = Len(tx) - 1 /\ Len(tx) \in Nat
            /\ \A k \in DOMAIN Tail(tx) : k + 1 \in DOMAIN tx /\ Tail(tx)[k] = tx[k + 1]
        BY <1>1, <2>2, Beheaded
      <3>2. Len(tx) - 1 <= TxCap
        BY <1>1, <3>1
      <3>3. Len(tx') = Len(tx) - 1 /\ tx' \in Seq(Up)
        BY <2>2, <3>1
      <3>4. \A k \in DOMAIN tx' : \E j \in DOMAIN tx : tx'[k] = tx[j]
        BY <2>2, <3>1
      <3> QED
        BY <3>2, <3>3, <3>4
    <2> QED
      BY <2>1, <2>2
  <1>3. /\ rx' \in Seq(Down) /\ Len(rx') <= RxCap
        /\ \A k \in DOMAIN rx' : (\E j \in DOMAIN rx : rx'[k] = rx[j]) \/ (\E j \in DOMAIN ms : rx'[k] = ms[j])
    <2>1. /\ rx' \in Seq(Down) /\ Len(rx') = Len(rx) + Len(ms)
      BY <1>1, Joined
    <2>2. ASSUME NEW k \in DOMAIN rx'
          PROVE  (\E j \in DOMAIN rx : rx'[k] = rx[j]) \/ (\E j \in DOMAIN ms : rx'[k] = ms[j])
      <3>1. \/ k \in DOMAIN rx /\ rx'[k] = rx[k]
            \/ k - Len(rx) \in DOMAIN ms /\ rx'[k] = ms[k - Len(rx)]
        BY <1>1, Joined
      <3> QED
        BY <3>1
    <2> QED
      BY <1>1, <2>1, <2>2
  <1>4. TypeInv'
    BY <1>1, <1>2, <1>3 DEF SessionInv, TypeInv
  <1>5. StackInv'
    BY <1>1 DEF SessionInv, StackInv
  <1>6. PanInv'
    <2> SUFFICES ASSUME ~adsp'.pan
                 PROVE  /\ PanQuiet'
                        /\ \A k \in DOMAIN tx' : tx'[k].cmd = "TX_DATA" => tx'[k].body \notin LaterPan
                        /\ \A k \in DOMAIN adsp'.todo : adsp'.todo[k] \notin LaterPan
                        /\ \A k \in DOMAIN rx' : rx'[k].cmd = "TX_DATA" => rx'[k].body \notin {"PAN", "NOTIFY"}
      BY DEF PanInv
    <2>1. /\ PanQuiet
          /\ \A k \in DOMAIN tx : tx[k].cmd = "TX_DATA" => tx[k].body \notin LaterPan
          /\ \A k \in DOMAIN rx : rx[k].cmd = "TX_DATA" => rx[k].body \notin {"PAN", "NOTIFY"}
      BY DEF SessionInv, PanInv
    <2>2. PanQuiet'
      BY <1>1, <2>1 DEF PanQuiet
    <2>3. \A k \in DOMAIN tx' : tx'[k].cmd = "TX_DATA" => tx'[k].body \notin LaterPan
      BY <1>2, <2>1
    <2>4. \A k \in DOMAIN rx' : rx'[k].cmd = "TX_DATA" => rx'[k].body \notin {"PAN", "NOTIFY"}
      BY <1>3, <2>1
    <2> QED
      BY <2>2, <2>3, <2>4
  <1> QED
    BY <1>4, <1>5, <1>6 DEF SessionInv

LEMMA AdspOpenKept ==
  ASSUME SessionInv, AdspStep, NEW ms \in Seq(Down), AdspSends(ms), ~Has(ms, "OPEN"),
         tx' = tx \/ (tx # <<>> /\ tx' = Tail(tx)),
         adsp'.advertised = adsp.advertised, adsp'.open = adsp.open
  PROVE  OpenInv'
  <1>1. tx \in Seq(Up) /\ rx \in Seq(Down) /\ OpenInv /\ pg' = pg /\ rx' = rx \o ms
    BY DEF SessionInv, TypeInv, AdspStep, AdspSends
  <1>2. (Has(rx', "OPEN") <=> Has(rx, "OPEN")) /\ (Once(rx, "OPEN") => Once(rx', "OPEN"))
    BY <1>1, JoinedHas
  <1>3. (Has(tx', "OPEN") => Has(tx, "OPEN")) /\ (Once(tx, "OPEN") => Once(tx', "OPEN"))
    <2>1. CASE tx' = tx
      BY <2>1
    <2>2. CASE tx # <<>> /\ tx' = Tail(tx)
      <3>1. /\ Has(Tail(tx), "OPEN") => Has(tx, "OPEN")
            /\ Once(tx, "OPEN") => Once(Tail(tx), "OPEN")
        BY <1>1, <2>2, TailHas
      <3> QED
        BY <2>2, <3>1
    <2> QED
      BY <2>1, <2>2
  <1>4. MayOpen' <=> MayOpen
    BY <1>1 DEF MayOpen
  <1> QED
    BY <1>1, <1>2, <1>3, <1>4 DEF OpenInv

LEMMA AdspVersionInv == SessionInv /\ AdspVersion => SessionInv'
  <1> SUFFICES ASSUME SessionInv, AdspVersion PROVE SessionInv'
    OBVIOUS
  <1> DEFINE m == Cmd("VERSION")
             ms == <<m>>
  <1>1. /\ AdspStep /\ AdspSends(ms) /\ adsp' = [adsp EXCEPT !.versioned = TRUE]
        /\ UNCHANGED <<tx, notified>> /\ adsp \in AdspSide /\ notified' \in 0 .. MaxNotify
    BY DEF AdspVersion, SessionInv, TypeInv
  <1>2. m \in Down /\ m.cmd = "VERSION"
    BY DownMessages
  <1> HIDE DEF m
  <1>3. /\ ms \in Seq(Down) /\ ~Has(ms, "OPEN") /\ \A k \in DOMAIN ms : ms[k].cmd # "TX_DATA"
    BY <1>2, Single DEF Has
  <1>4. /\ adsp' \in AdspSide /\ adsp'.pan = adsp.pan /\ adsp'.todo = adsp.todo
        /\ adsp'.advertised = adsp.advertised /\ adsp'.open = adsp.open
    BY <1>1 DEF AdspSide
  <1> HIDE DEF ms
  <1>5. OpenInv'
    BY <1>1, <1>3, <1>4, AdspOpenKept
  <1>6. ~adsp'.pan => ~adsp.pan /\ \A k \in DOMAIN adsp'.todo : adsp'.todo[k] \notin LaterPan
    BY <1>4 DEF SessionInv, PanInv
  <1> QED
    BY <1>1, <1>3, <1>4, <1>5, <1>6, AdspMoves

LEMMA AdspAdvertiseInv == SessionInv /\ AdspAdvertise => SessionInv'
  <1> SUFFICES ASSUME SessionInv, AdspAdvertise PROVE SessionInv'
    OBVIOUS
  <1> DEFINE m == Cmd("OPEN")
             ms == <<m>>
  <1>1. /\ AdspStep /\ AdspSends(ms) /\ adsp' = [adsp EXCEPT !.advertised = TRUE]
        /\ UNCHANGED <<tx, notified>> /\ adsp \in AdspSide /\ notified' \in 0 .. MaxNotify
        /\ ~adsp.advertised /\ rx \in Seq(Down) /\ rx' = rx \o ms /\ UNCHANGED pg
    BY DEF AdspAdvertise, SessionInv, TypeInv, AdspSends, AdspStep
  <1>2. m \in Down /\ m.cmd = "OPEN"
    BY DownMessages
  <1> HIDE DEF m
  <1>3. /\ ms \in Seq(Down) /\ Once(ms, "OPEN") /\ \A k \in DOMAIN ms : ms[k].cmd # "TX_DATA"
    BY <1>2, Single DEF Once
  <1>4. /\ adsp' \in AdspSide /\ adsp'.pan = adsp.pan /\ adsp'.todo = adsp.todo
        /\ adsp'.advertised /\ adsp'.open = adsp.open
    BY <1>1 DEF AdspSide
  <1> HIDE DEF ms
  <1>5. OpenInv'
    <2>1. OpenInv /\ ~Has(rx, "OPEN") /\ ~MayOpen /\ ~Has(tx, "OPEN") /\ ~adsp.open
      BY <1>1 DEF SessionInv, OpenInv
    <2>2. Once(rx', "OPEN") /\ ~Has(tx', "OPEN") /\ Once(tx', "OPEN") /\ ~MayOpen'
      BY <1>1, <1>3, <2>1, JoinedHas DEF OpenInv, MayOpen
    <2> QED
      BY <1>4, <2>1, <2>2 DEF OpenInv
  <1>6. ~adsp'.pan => ~adsp.pan /\ \A k \in DOMAIN adsp'.todo : adsp'.todo[k] \notin LaterPan
    BY <1>4 DEF SessionInv, PanInv
  <1> QED
    BY <1>1, <1>3, <1>4, <1>5, <1>6, AdspMoves

LEMMA AdspReleaseInv == SessionInv /\ AdspRelease => SessionInv'
  <1> SUFFICES ASSUME SessionInv, AdspRelease PROVE SessionInv'
    OBVIOUS
  <1>1. PICK id \in adsp.busy :
          /\ AdspStep
          /\ \/ AdspSends(<<WithId("RX_DONE_W_REUSE", id)>>)
             \/ AdspSends(<<WithId("RX_DONE", id), WithId("INTENT", id)>>)
          /\ adsp' = [adsp EXCEPT !.busy = @ \ {id}]
          /\ UNCHANGED <<tx, notified>>
    BY DEF AdspRelease
  <1>2. adsp \in AdspSide /\ notified' \in 0 .. MaxNotify /\ id \in RemoteIntent
    BY <1>1 DEF SessionInv, TypeInv, AdspSide
  <1> DEFINE u == WithId("RX_DONE_W_REUSE", id)
             d == WithId("RX_DONE", id)
             i == WithId("INTENT", id)
  <1>3. /\ u \in Down /\ d \in Down /\ i \in Down
        /\ u.cmd = "RX_DONE_W_REUSE" /\ d.cmd = "RX_DONE" /\ i.cmd = "INTENT"
    BY <1>2, DownMessages
  <1> HIDE DEF u, d, i
  <1>4. PICK ms \in Seq(Down) : /\ AdspSends(ms) /\ ~Has(ms, "OPEN")
                                /\ \A k \in DOMAIN ms : ms[k].cmd # "TX_DATA"
    <2>1. CASE AdspSends(<<u>>)
      <3>1. <<u>> \in Seq(Down) /\ ~Has(<<u>>, "OPEN") /\ \A k \in DOMAIN <<u>> : <<u>>[k].cmd # "TX_DATA"
        BY <1>3, Single DEF Has
      <3> QED
        BY <2>1, <3>1
    <2>2. CASE AdspSends(<<d, i>>)
      <3>1. <<d, i>> \in Seq(Down) /\ DOMAIN <<d, i>> = 1 .. 2 /\ <<d, i>>[1] = d /\ <<d, i>>[2] = i
        BY <1>3
      <3>2. ~Has(<<d, i>>, "OPEN") /\ \A k \in DOMAIN <<d, i>> : <<d, i>>[k].cmd # "TX_DATA"
        BY <1>3, <3>1 DEF Has
      <3> QED
        BY <2>2, <3>1, <3>2
    <2> QED
      BY <1>1, <2>1, <2>2 DEF u, d, i
  <1>5. /\ adsp' \in AdspSide /\ adsp'.pan = adsp.pan /\ adsp'.todo = adsp.todo
        /\ adsp'.advertised = adsp.advertised /\ adsp'.open = adsp.open
    BY <1>1, <1>2 DEF AdspSide
  <1>6. OpenInv'
    BY <1>1, <1>4, <1>5, AdspOpenKept
  <1>7. ~adsp'.pan => ~adsp.pan /\ \A k \in DOMAIN adsp'.todo : adsp'.todo[k] \notin LaterPan
    BY <1>5 DEF SessionInv, PanInv
  <1> QED
    BY <1>1, <1>2, <1>4, <1>5, <1>6, <1>7, AdspMoves

LEMMA AdspAnswerFacts ==
  ASSUME SessionInv, AdspAnswer
  PROVE  \E id \in adsp.free :
           /\ AdspStep /\ adsp.todo # <<>> /\ UNCHANGED <<tx, notified>>
           /\ Head(adsp.todo) \in Req /\ Answer(Head(adsp.todo)) \in Flags /\ id \in Ids
           /\ AdspSends(<<Data(id, Answer(Head(adsp.todo)))>>)
           /\ adsp' \in AdspSide /\ adsp'.free = adsp.free \ {id} /\ adsp'.todo = Tail(adsp.todo)
           /\ (adsp'.pan <=> adsp.pan \/ Head(adsp.todo) = "PAN_EN")
           /\ adsp'.advertised = adsp.advertised /\ adsp'.open = adsp.open
           /\ adsp'.busy = adsp.busy /\ adsp'.acks = adsp.acks /\ adsp'.asked = adsp.asked
  <1>1. PICK id \in adsp.free :
          /\ AdspSends(<<Data(id, Answer(Head(adsp.todo)))>>)
          /\ adsp' = [adsp EXCEPT !.free = @ \ {id}, !.todo = Tail(@),
                                  !.pan = @ \/ Head(adsp.todo) = "PAN_EN"]
    BY DEF AdspAnswer
  <1>2. /\ AdspStep /\ adsp.todo # <<>> /\ UNCHANGED <<tx, notified>> /\ adsp \in AdspSide
    BY DEF AdspAnswer, SessionInv, TypeInv
  <1>3. id \in Ids /\ adsp.todo \in Seq(Req)
    BY <1>1, <1>2 DEF AdspSide
  <1>4. Head(adsp.todo) \in Req /\ Tail(adsp.todo) \in Seq(Req)
    BY <1>2, <1>3, Beheaded
  <1> DEFINE p == adsp.pan \/ Head(adsp.todo) = "PAN_EN"
             t == Tail(adsp.todo)
  <1>5. p \in BOOLEAN /\ t \in Seq(Req)
        /\ adsp' = [adsp EXCEPT !.free = @ \ {id}, !.todo = t, !.pan = p]
    BY <1>1, <1>4
  <1> HIDE DEF p, t
  <1>6. /\ adsp' \in AdspSide /\ adsp'.free = adsp.free \ {id} /\ adsp'.todo = t
        /\ adsp'.pan = p
        /\ adsp'.advertised = adsp.advertised /\ adsp'.open = adsp.open
        /\ adsp'.busy = adsp.busy /\ adsp'.acks = adsp.acks /\ adsp'.asked = adsp.asked
    BY <1>2, <1>5 DEF AdspSide
  <1>7. adsp'.todo = Tail(adsp.todo) /\ (adsp'.pan <=> adsp.pan \/ Head(adsp.todo) = "PAN_EN")
    BY <1>6 DEF p, t
  <1> QED
    BY <1>1, <1>2, <1>3, <1>4, <1>6, <1>7, AnswersAreFlags

LEMMA AdspAnswerInv == SessionInv /\ AdspAnswer => SessionInv'
  <1> SUFFICES ASSUME SessionInv, AdspAnswer PROVE SessionInv'
    OBVIOUS
  <1> DEFINE r == Head(adsp.todo)
  <1>1. PICK id \in adsp.free :
           /\ AdspStep /\ adsp.todo # <<>> /\ UNCHANGED <<tx, notified>>
           /\ r \in Req /\ Answer(r) \in Flags /\ id \in Ids
           /\ AdspSends(<<Data(id, Answer(r))>>)
           /\ adsp' \in AdspSide /\ adsp'.todo = Tail(adsp.todo)
           /\ (adsp'.pan <=> adsp.pan \/ r = "PAN_EN")
           /\ adsp'.advertised = adsp.advertised /\ adsp'.open = adsp.open
    BY AdspAnswerFacts
  <1> DEFINE m == Data(id, Answer(r))
             ms == <<m>>
  <1>2. m \in Down /\ m.cmd = "TX_DATA" /\ m.body = Answer(r)
    BY <1>1, DownMessages
  <1>3. /\ adsp.todo \in Seq(Req) /\ notified' \in 0 .. MaxNotify
    BY <1>1 DEF SessionInv, TypeInv, AdspSide
  <1>4. /\ r = adsp.todo[1] /\ 1 \in DOMAIN adsp.todo
        /\ \A k \in DOMAIN Tail(adsp.todo) : k + 1 \in DOMAIN adsp.todo /\ Tail(adsp.todo)[k] = adsp.todo[k + 1]
    BY <1>1, <1>3, Beheaded
  <1> HIDE DEF m, r
  <1>5. /\ ms \in Seq(Down) /\ ~Has(ms, "OPEN") /\ \A k \in DOMAIN ms : ms[k] = m
    BY <1>2, Single DEF Has
  <1> HIDE DEF ms
  <1>6. AdspSends(ms)
    BY <1>1 DEF ms, m
  <1>7. OpenInv'
    BY <1>1, <1>5, <1>6, AdspOpenKept
  <1>8. ASSUME ~adsp'.pan
        PROVE  /\ ~adsp.pan
               /\ \A k \in DOMAIN adsp'.todo : adsp'.todo[k] \notin LaterPan
               /\ \A k \in DOMAIN ms : ms[k].cmd = "TX_DATA" => ms[k].body \notin {"PAN", "NOTIFY"}
    <2>1. ~adsp.pan /\ r # "PAN_EN"
      BY <1>1, <1>8
    <2>2. \A k \in DOMAIN adsp.todo : adsp.todo[k] \notin LaterPan
      BY <2>1 DEF SessionInv, PanInv
    <2>3. r \notin PanReq
      BY <1>4, <2>1, <2>2 DEF LaterPan
    <2>4. Answer(r) \notin {"PAN", "NOTIFY"}
      BY <1>1, <2>3 DEF Answer, Req
    <2> QED
      BY <1>1, <1>2, <1>4, <1>5, <2>1, <2>2, <2>4
  <1> QED
    BY <1>1, <1>3, <1>5, <1>6, <1>7, <1>8, AdspMoves

LEMMA AdspNotifyFacts ==
  ASSUME SessionInv, AdspNotify
  PROVE  \E id \in adsp.free :
           /\ AdspStep /\ UNCHANGED tx /\ notified' = notified + 1 /\ notified' \in 0 .. MaxNotify
           /\ adsp.pan /\ id \in Ids /\ AdspSends(<<Data(id, "NOTIFY")>>)
           /\ adsp' \in AdspSide /\ adsp'.free = adsp.free \ {id} /\ adsp'.todo = adsp.todo
           /\ adsp'.pan = adsp.pan
           /\ adsp'.advertised = adsp.advertised /\ adsp'.open = adsp.open
           /\ adsp'.busy = adsp.busy /\ adsp'.acks = adsp.acks /\ adsp'.asked = adsp.asked
  <1>1. PICK id \in adsp.free :
          AdspSends(<<Data(id, "NOTIFY")>>) /\ adsp' = [adsp EXCEPT !.free = @ \ {id}]
    BY DEF AdspNotify
  <1>2. /\ AdspStep /\ adsp.pan /\ notified' = notified + 1 /\ UNCHANGED tx /\ adsp \in AdspSide
        /\ notified' \in 0 .. MaxNotify
    BY DEF AdspNotify, SessionInv, TypeInv
  <1>3. id \in Ids
    BY <1>1, <1>2 DEF AdspSide
  <1>4. /\ adsp' \in AdspSide /\ adsp'.free = adsp.free \ {id} /\ adsp'.todo = adsp.todo
        /\ adsp'.pan = adsp.pan
        /\ adsp'.advertised = adsp.advertised /\ adsp'.open = adsp.open
        /\ adsp'.busy = adsp.busy /\ adsp'.acks = adsp.acks /\ adsp'.asked = adsp.asked
    BY <1>1, <1>2 DEF AdspSide
  <1> QED
    BY <1>1, <1>2, <1>3, <1>4

LEMMA AdspNotifyInv == SessionInv /\ AdspNotify => SessionInv'
  <1> SUFFICES ASSUME SessionInv, AdspNotify PROVE SessionInv'
    OBVIOUS
  <1>1. PICK id \in adsp.free :
           /\ AdspStep /\ UNCHANGED tx /\ notified' \in 0 .. MaxNotify
           /\ adsp.pan /\ id \in Ids /\ AdspSends(<<Data(id, "NOTIFY")>>)
           /\ adsp' \in AdspSide /\ adsp'.pan = adsp.pan
           /\ adsp'.advertised = adsp.advertised /\ adsp'.open = adsp.open
    BY AdspNotifyFacts
  <1> DEFINE m == Data(id, "NOTIFY")
             ms == <<m>>
  <1>2. m \in Down /\ m.cmd = "TX_DATA"
    BY <1>1, DownMessages
  <1> HIDE DEF m
  <1>3. ms \in Seq(Down) /\ ~Has(ms, "OPEN")
    BY <1>2, Single DEF Has
  <1> HIDE DEF ms
  <1>4. AdspSends(ms)
    BY <1>1 DEF ms, m
  <1>5. OpenInv'
    BY <1>1, <1>3, <1>4, AdspOpenKept
  <1> QED
    BY <1>1, <1>3, <1>4, <1>5, AdspMoves

LEMMA AdspAskIntentInv == SessionInv /\ AdspAskIntent => SessionInv'
  <1> SUFFICES ASSUME SessionInv, AdspAskIntent PROVE SessionInv'
    OBVIOUS
  <1> DEFINE m == Cmd("RX_INTENT_REQ")
             ms == <<m>>
  <1>1. /\ AdspStep /\ AdspSends(ms) /\ adsp' = [adsp EXCEPT !.asked = TRUE]
        /\ UNCHANGED <<tx, notified>> /\ adsp \in AdspSide /\ notified' \in 0 .. MaxNotify
    BY DEF AdspAskIntent, SessionInv, TypeInv
  <1>2. m \in Down /\ m.cmd = "RX_INTENT_REQ"
    BY DownMessages
  <1> HIDE DEF m
  <1>3. /\ ms \in Seq(Down) /\ ~Has(ms, "OPEN") /\ \A k \in DOMAIN ms : ms[k].cmd # "TX_DATA"
    BY <1>2, Single DEF Has
  <1>4. /\ adsp' \in AdspSide /\ adsp'.pan = adsp.pan /\ adsp'.todo = adsp.todo
        /\ adsp'.advertised = adsp.advertised /\ adsp'.open = adsp.open
    BY <1>1 DEF AdspSide
  <1> HIDE DEF ms
  <1>5. OpenInv'
    BY <1>1, <1>3, <1>4, AdspOpenKept
  <1>6. ~adsp'.pan => ~adsp.pan /\ \A k \in DOMAIN adsp'.todo : adsp'.todo[k] \notin LaterPan
    BY <1>4 DEF SessionInv, PanInv
  <1> QED
    BY <1>1, <1>3, <1>4, <1>5, <1>6, AdspMoves

(* The intents the ADSP posts are its own, each of them once. *)
LEMMA PostFacts ==
  /\ Cardinality(RemoteIntent) \in Nat
  /\ PostIntents \in Seq(Down) /\ DOMAIN PostIntents = 1 .. Cardinality(RemoteIntent)
  /\ \A k \in DOMAIN PostIntents : PostIntents[k].cmd = "INTENT" /\ PostIntents[k].id \in RemoteIntent
  /\ \A k, l \in DOMAIN PostIntents : PostIntents[k].id = PostIntents[l].id => k = l
  <1> DEFINE n == Cardinality(RemoteIntent)
             f == SetToSeq(RemoteIntent)
  <1>1. n \in Nat /\ ExistsBijection(1 .. n, RemoteIntent)
    BY FS_CardinalityType
  <1>2. \E g \in [1 .. n -> RemoteIntent] : IsInjective(g)
    BY <1>1 DEF ExistsBijection, Bijection, Injection
  <1>3. f \in [1 .. n -> RemoteIntent] /\ IsInjective(f)
    BY <1>2 DEF SetToSeq
  <1> HIDE DEF f, n
  <1>4. PostIntents = [k \in 1 .. n |-> WithId("INTENT", f[k])]
    BY DEF PostIntents, f, n
  <1>5. \A k \in 1 .. n : f[k] \in RemoteIntent /\ WithId("INTENT", f[k]) \in Down
            /\ WithId("INTENT", f[k]).cmd = "INTENT" /\ WithId("INTENT", f[k]).id = f[k]
    BY <1>3, DownMessages
  <1>6. PostIntents \in [1 .. n -> Down]
    BY <1>4, <1>5
  <1>7. PostIntents \in Seq(Down) /\ DOMAIN PostIntents = 1 .. n
    BY <1>1, <1>6
  <1>8. \A k, l \in 1 .. n : f[k] = f[l] => k = l
    BY <1>3 DEF IsInjective
  <1> QED
    BY <1>1, <1>4, <1>5, <1>7, <1>8 DEF n

(* What it sends back at once. *)
Back(m) == IF m.cmd = "VERSION" THEN <<Cmd("VERSION_ACK")>>
           ELSE IF m.cmd = "OPEN" THEN <<Cmd("OPEN_ACK")>> \o PostIntents
           ELSE <<>>

LEMMA BackFacts ==
  ASSUME NEW m \in Up
  PROVE  /\ Back(m) \in Seq(Down)
         /\ \A k \in DOMAIN Back(m) : Back(m)[k].cmd \in {"VERSION_ACK", "OPEN_ACK", "INTENT"}
  <1>1. CASE m.cmd = "VERSION"
    <2> DEFINE v == Cmd("VERSION_ACK")
    <2>1. Back(m) = <<v>> /\ v \in Down /\ v.cmd = "VERSION_ACK"
      BY <1>1, DownMessages DEF Back
    <2> HIDE DEF v
    <2> QED
      BY <2>1
  <1>2. CASE m.cmd = "OPEN"
    <2> DEFINE v == Cmd("OPEN_ACK")
    <2>1. Back(m) = <<v>> \o PostIntents /\ v \in Down /\ v.cmd = "OPEN_ACK"
      BY <1>2, DownMessages DEF Back
    <2> HIDE DEF v
    <2>2. <<v>> \in Seq(Down) /\ \A k \in DOMAIN <<v>> : <<v>>[k].cmd = "OPEN_ACK"
      BY <2>1, Single
    <2>3. PostIntents \in Seq(Down) /\ \A k \in DOMAIN PostIntents : PostIntents[k].cmd = "INTENT"
      BY PostFacts
    <2> DEFINE s == <<v>>
               t == PostIntents
    <2> HIDE DEF s, t
    <2>4. s \in Seq(Down) /\ t \in Seq(Down) /\ Back(m) = s \o t
          /\ (\A k \in DOMAIN s : s[k].cmd = "OPEN_ACK") /\ (\A k \in DOMAIN t : t[k].cmd = "INTENT")
      BY <2>1, <2>2, <2>3 DEF s, t
    <2> QED
      BY <2>4, Joined
  <1>3. CASE m.cmd # "VERSION" /\ m.cmd # "OPEN"
    <2>1. Back(m) = <<>>
      BY <1>3 DEF Back
    <2> QED
      BY <2>1
  <1> QED
    BY <1>1, <1>2, <1>3

LEMMA ReceiveFacts ==
  ASSUME SessionInv, AdspReceive
  PROVE  /\ AdspStep /\ tx # <<>> /\ tx' = Tail(tx) /\ Head(tx) \in Up /\ UNCHANGED notified
         /\ AdspSends(Back(Head(tx)))
         /\ adsp' \in AdspSide /\ (adsp'.pan <=> adsp.pan)
         /\ adsp'.open <=> (IF Head(tx).cmd = "VERSION" THEN FALSE
                            ELSE IF Head(tx).cmd = "OPEN" THEN TRUE ELSE adsp.open)
         /\ adsp'.advertised <=> (IF Head(tx).cmd = "VERSION" THEN adsp.advertised /\ ~adsp.open
                                  ELSE adsp.advertised)
         /\ adsp'.free = IF Head(tx).cmd = "VERSION" THEN {}
                         ELSE IF Head(tx).cmd \in {"INTENT", "RX_DONE_W_REUSE"}
                         THEN adsp.free \cup {Head(tx).id} ELSE adsp.free
         /\ adsp'.busy = IF Head(tx).cmd = "VERSION" THEN {}
                         ELSE IF Head(tx).cmd = "TX_DATA" THEN adsp.busy \cup {Head(tx).id}
                         ELSE adsp.busy
         /\ adsp'.todo = IF Head(tx).cmd = "VERSION" THEN <<>>
                         ELSE IF Head(tx).cmd = "TX_DATA" THEN Append(adsp.todo, Head(tx).body)
                         ELSE adsp.todo
         /\ adsp'.acks = IF Head(tx).cmd = "TX_DATA" /\ Head(tx).body = "PAN_ACK"
                         THEN adsp.acks + 1 ELSE adsp.acks
  <1> DEFINE m == Head(tx)
  <1>1. /\ AdspStep /\ tx # <<>> /\ tx' = Tail(tx) /\ UNCHANGED notified /\ adsp \in AdspSide
        /\ tx \in Seq(Up)
    BY DEF AdspReceive, SessionInv, TypeInv
  <1>2. m \in Up
    BY <1>1, Beheaded
  <1>3. AdspSends(CASE m.cmd = "VERSION" -> <<Cmd("VERSION_ACK")>>
                    [] m.cmd = "OPEN" -> <<Cmd("OPEN_ACK")>> \o PostIntents
                    [] OTHER -> <<>>)
    BY DEF AdspReceive
  <1>4. AdspSends(Back(m))
    <2>1. CASE m.cmd = "VERSION"
      BY <1>3, <2>1 DEF Back, AdspSends
    <2>2. CASE m.cmd = "OPEN"
      BY <1>3, <2>2 DEF Back, AdspSends
    <2>3. CASE m.cmd # "VERSION" /\ m.cmd # "OPEN"
      BY <1>3, <2>3 DEF Back, AdspSends
    <2> QED
      BY <2>1, <2>2, <2>3
  <1>5. adsp' =
          CASE m.cmd = "VERSION" ->
                  [FreshAdsp EXCEPT !.versioned = TRUE, !.pan = adsp.pan,
                                    !.acks = adsp.acks,
                                    !.advertised = adsp.advertised /\ ~adsp.open]
            [] m.cmd = "OPEN" -> [adsp EXCEPT !.open = TRUE]
            [] m.cmd \in {"INTENT", "RX_DONE_W_REUSE"} ->
                  [adsp EXCEPT !.free = @ \cup {m.id}]
            [] m.cmd = "RX_INTENT_REQ_ACK" ->
                  [adsp EXCEPT !.asked = FALSE]
            [] m.cmd = "TX_DATA" ->
                  [adsp EXCEPT !.busy = @ \cup {m.id},
                               !.todo = Append(@, m.body),
                               !.acks = IF m.body = "PAN_ACK" THEN @ + 1 ELSE @]
            [] OTHER -> adsp
    BY DEF AdspReceive
  <1> HIDE DEF m
  <1> DEFINE Goal ==
         /\ adsp' \in AdspSide /\ (adsp'.pan <=> adsp.pan)
         /\ adsp'.open <=> (IF m.cmd = "VERSION" THEN FALSE
                            ELSE IF m.cmd = "OPEN" THEN TRUE ELSE adsp.open)
         /\ adsp'.advertised <=> (IF m.cmd = "VERSION" THEN adsp.advertised /\ ~adsp.open
                                  ELSE adsp.advertised)
         /\ adsp'.free = IF m.cmd = "VERSION" THEN {}
                         ELSE IF m.cmd \in {"INTENT", "RX_DONE_W_REUSE"}
                         THEN adsp.free \cup {m.id} ELSE adsp.free
         /\ adsp'.busy = IF m.cmd = "VERSION" THEN {}
                         ELSE IF m.cmd = "TX_DATA" THEN adsp.busy \cup {m.id}
                         ELSE adsp.busy
         /\ adsp'.todo = IF m.cmd = "VERSION" THEN <<>>
                         ELSE IF m.cmd = "TX_DATA" THEN Append(adsp.todo, m.body)
                         ELSE adsp.todo
         /\ adsp'.acks = IF m.cmd = "TX_DATA" /\ m.body = "PAN_ACK"
                         THEN adsp.acks + 1 ELSE adsp.acks
  <1>6. ASSUME m.cmd = "VERSION" PROVE Goal
    <2> DEFINE a == adsp.advertised /\ ~adsp.open
    <2>1. a \in BOOLEAN /\ <<>> \in Seq(Req)
          /\ adsp' = [FreshAdsp EXCEPT !.versioned = TRUE, !.pan = adsp.pan,
                                       !.acks = adsp.acks, !.advertised = a]
      BY <1>5, <1>6
    <2> HIDE DEF a
    <2>2. /\ adsp' \in AdspSide /\ adsp'.pan = adsp.pan /\ adsp'.open = FALSE
          /\ adsp'.advertised = a /\ adsp'.free = {} /\ adsp'.busy = {} /\ adsp'.todo = <<>>
          /\ adsp'.acks = adsp.acks
      BY <1>1, <2>1 DEF AdspSide, FreshAdsp
    <2> QED
      BY <1>6, <2>2 DEF a
  <1>7. ASSUME m.cmd = "OPEN" PROVE Goal
    <2>1. adsp' = [adsp EXCEPT !.open = TRUE]
      BY <1>5, <1>7
    <2> QED
      BY <1>1, <1>7, <2>1 DEF AdspSide
  <1>8. ASSUME m.cmd \in {"INTENT", "RX_DONE_W_REUSE"} PROVE Goal
    <2>1. adsp' = [adsp EXCEPT !.free = @ \cup {m.id}] /\ m.id \in Ids
      BY <1>2, <1>5, <1>8 DEF Up
    <2> QED
      BY <1>1, <1>8, <2>1 DEF AdspSide
  <1>9. ASSUME m.cmd = "RX_INTENT_REQ_ACK" PROVE Goal
    <2>1. adsp' = [adsp EXCEPT !.asked = FALSE]
      BY <1>5, <1>9
    <2> QED
      BY <1>1, <1>9, <2>1 DEF AdspSide
  <1>10. ASSUME m.cmd = "TX_DATA" PROVE Goal
    <2> DEFINE t == Append(adsp.todo, m.body)
               n == IF m.body = "PAN_ACK" THEN adsp.acks + 1 ELSE adsp.acks
    <2>1. m.id \in RemoteIntent /\ m.body \in Req
      BY <1>2, <1>10 DEF Up
    <2>2. adsp.todo \in Seq(Req) /\ adsp.acks \in Nat
      BY <1>1 DEF AdspSide
    <2>3. t \in Seq(Req) /\ n \in Nat
      BY <2>1, <2>2, Appended
    <2>4. adsp' = [adsp EXCEPT !.busy = @ \cup {m.id}, !.todo = t, !.acks = n]
      BY <1>5, <1>10
    <2> HIDE DEF t, n
    <2>5. /\ adsp' \in AdspSide /\ adsp'.pan = adsp.pan /\ adsp'.open = adsp.open
          /\ adsp'.advertised = adsp.advertised /\ adsp'.free = adsp.free
          /\ adsp'.busy = adsp.busy \cup {m.id} /\ adsp'.todo = t /\ adsp'.acks = n
      BY <1>1, <2>1, <2>3, <2>4 DEF AdspSide
    <2> QED
      BY <1>10, <2>5 DEF t, n
  <1>11. ASSUME m.cmd \in {"VERSION_ACK", "OPEN_ACK"} PROVE Goal
    <2>1. adsp' = adsp
      BY <1>5, <1>11
    <2> QED
      BY <1>1, <1>11, <2>1
  <1>12. Goal
    BY <1>2, <1>6, <1>7, <1>8, <1>9, <1>10, <1>11 DEF Up
  <1> QED
    BY <1>1, <1>2, <1>4, <1>12 DEF m

LEMMA AdspReceiveInv == SessionInv /\ AdspReceive => SessionInv'
  <1> SUFFICES ASSUME SessionInv, AdspReceive PROVE SessionInv'
    OBVIOUS
  <1> DEFINE m == Head(tx)
             ms == Back(m)
  <1>1. /\ AdspStep /\ tx # <<>> /\ tx' = Tail(tx) /\ m \in Up /\ UNCHANGED notified
        /\ AdspSends(ms) /\ adsp' \in AdspSide /\ (adsp'.pan <=> adsp.pan)
        /\ adsp'.open <=> (IF m.cmd = "VERSION" THEN FALSE
                           ELSE IF m.cmd = "OPEN" THEN TRUE ELSE adsp.open)
        /\ adsp'.advertised <=> (IF m.cmd = "VERSION" THEN adsp.advertised /\ ~adsp.open
                                 ELSE adsp.advertised)
        /\ adsp'.todo = IF m.cmd = "VERSION" THEN <<>>
                        ELSE IF m.cmd = "TX_DATA" THEN Append(adsp.todo, m.body)
                        ELSE adsp.todo
    BY ReceiveFacts
  <1>2. /\ ms \in Seq(Down) /\ ~Has(ms, "OPEN") /\ \A k \in DOMAIN ms : ms[k].cmd # "TX_DATA"
    BY <1>1, BackFacts DEF Has
  <1>3. tx \in Seq(Up) /\ rx \in Seq(Down) /\ notified' \in 0 .. MaxNotify /\ OpenInv
        /\ adsp.todo \in Seq(Req) /\ adsp \in AdspSide
    BY <1>1 DEF SessionInv, TypeInv, AdspSide
  <1>4. m = tx[1] /\ 1 \in DOMAIN tx
    BY <1>1, <1>3, Beheaded
  <1>5. /\ rx' = rx \o ms /\ pg' = pg
        /\ Has(rx', "OPEN") <=> Has(rx, "OPEN")
        /\ Once(rx, "OPEN") => Once(rx', "OPEN")
    BY <1>1, <1>2, <1>3, JoinedHas DEF AdspSends, AdspStep
  <1>6. /\ Has(Tail(tx), "OPEN") => Has(tx, "OPEN")
        /\ m.cmd = "OPEN" => Has(tx, "OPEN")
        /\ Once(tx, "OPEN") => Once(Tail(tx), "OPEN")
        /\ Once(tx, "OPEN") /\ m.cmd = "OPEN" => ~Has(Tail(tx), "OPEN")
    BY <1>1, <1>3, TailHas
  <1> HIDE DEF m, ms
  <1>7. OpenInv'
    <2>1. MayOpen' <=> MayOpen
      BY <1>5 DEF MayOpen
    <2>2. CASE m.cmd = "OPEN"
      <3>1. Has(tx, "OPEN") /\ adsp.advertised
        BY <1>3, <1>6, <2>2 DEF OpenInv
      <3>2. ~Has(rx, "OPEN") /\ ~MayOpen /\ Once(tx, "OPEN") /\ Once(rx, "OPEN")
        BY <1>3, <3>1 DEF OpenInv
      <3>3. ~Has(rx', "OPEN") /\ ~MayOpen' /\ Once(tx', "OPEN") /\ Once(rx', "OPEN")
            /\ ~Has(tx', "OPEN") /\ adsp'.advertised
        BY <1>1, <1>5, <1>6, <2>1, <2>2, <3>1, <3>2
      <3> QED
        BY <3>3 DEF OpenInv
    <2>3. CASE m.cmd # "OPEN"
      <3>1. /\ Has(tx', "OPEN") => Has(tx, "OPEN")
            /\ Once(tx, "OPEN") => Once(tx', "OPEN")
            /\ adsp'.open => adsp.open /\ m.cmd # "VERSION"
            /\ adsp.advertised /\ ~adsp.open => adsp'.advertised
            /\ adsp.advertised /\ m.cmd # "VERSION" => adsp'.advertised
        BY <1>1, <1>6, <2>3
      <3> QED
        BY <1>3, <1>5, <2>1, <3>1 DEF OpenInv
    <2> QED
      BY <2>2, <2>3
  <1>8. ASSUME ~adsp'.pan
        PROVE  /\ ~adsp.pan
               /\ \A k \in DOMAIN adsp'.todo : adsp'.todo[k] \notin LaterPan
    <2>1. /\ ~adsp.pan /\ (m.cmd = "TX_DATA" => m.body \notin LaterPan)
          /\ \A k \in DOMAIN adsp.todo : adsp.todo[k] \notin LaterPan
      BY <1>1, <1>4, <1>8 DEF SessionInv, PanInv
    <2>2. CASE m.cmd = "TX_DATA"
      <3> DEFINE t == adsp.todo
                 b == m.body
      <3>1. b \in Req /\ t \in Seq(Req) /\ adsp'.todo = Append(t, b)
        BY <1>1, <1>3, <2>2 DEF Up
      <3>2. b \notin LaterPan /\ \A k \in DOMAIN t : t[k] \notin LaterPan
        BY <2>1, <2>2
      <3> HIDE DEF t, b
      <3>3. ASSUME NEW k \in DOMAIN Append(t, b) PROVE Append(t, b)[k] \notin LaterPan
        <4>1. /\ DOMAIN Append(t, b) = 1 .. Len(t) + 1 /\ DOMAIN t = 1 .. Len(t) /\ Len(t) \in Nat
              /\ \A j \in 1 .. Len(t) : Append(t, b)[j] = t[j]
              /\ Append(t, b)[Len(t) + 1] = b
          BY <3>1, Appended
        <4> QED
          BY <3>2, <4>1
      <3> QED
        BY <2>1, <3>1, <3>3
    <2>3. CASE m.cmd = "VERSION"
      BY <1>1, <2>1, <2>3
    <2>4. CASE m.cmd # "VERSION" /\ m.cmd # "TX_DATA"
      BY <1>1, <2>1, <2>4
    <2> QED
      BY <2>2, <2>3, <2>4
  <1> QED
    BY <1>1, <1>2, <1>3, <1>7, <1>8, AdspMoves

-----------------------------------------------------------------------------
LEMMA SessionStart == Init => SessionInv
  <1> SUFFICES ASSUME Init PROVE SessionInv
    OBVIOUS
  <1>1. /\ pg = FreshPg /\ stack = <<>> /\ ret = "none" /\ calls = 0
        /\ tx = <<>> /\ rx = <<>> /\ adsp = FreshAdsp /\ notified = 0
    BY DEF Init
  <1>2. FreshAdsp \in AdspSide /\ ~FreshAdsp.open /\ FreshAdsp.todo = <<>>
    BY DEF FreshAdsp, AdspSide
  <1>3. TypeInv
    BY <1>1, <1>2, FreshFacts DEF TypeInv
  <1>4. StackInv /\ OpenInv
    BY <1>1, <1>2, FreshFacts DEF StackInv, OpenInv, Has, Once, MayOpen
  <1>5. PanInv
    BY <1>1, <1>2, FreshFacts DEF PanInv, PanQuiet, Flags
  <1> QED
    BY <1>3, <1>4, <1>5 DEF SessionInv

LEMMA SessionStep == SessionInv /\ [Next]_vars => SessionInv'
  <1> SUFFICES ASSUME SessionInv, [Next]_vars PROVE SessionInv'
    OBVIOUS
  <1>1. CASE UNCHANGED vars
    <2>1. UNCHANGED <<tx, rx, adsp, notified, pg, stack, ret, calls>>
      BY <1>1 DEF vars
    <2>2. StackInv' /\ (~adsp.pan => PanQuiet')
      BY <2>1, SamePg DEF SessionInv, StackInv, PanQuiet
    <2> QED
      BY <2>1, <2>2, SamePg, Internals DEF SessionInv, TypeInv, Rets
  <1>2. CASE CallOpen \/ CallPoll \/ CallRefresh
    BY <1>2, CallOpenInv, CallPollInv, CallRefreshInv
  <1>3. CASE Driver
    BY <1>3, PollMessageInv, PollEmptyInv, AfterVersionInv, AfterRemoteOpenInv, AfterOpenAckInv,
       AfterRiidInv, AfterAnswerInv, AltmodePollInv, KeepWaitingInv, TimeOutInv, UcsiRequestInv,
       PrewarmEndInv, AfterPanEnInv, DiscoverEndInv, AfterReadSelInv, AfterUsbcReadInv
       DEF Driver
  <1>4. CASE Adsp
    BY <1>4, AdspVersionInv, AdspAdvertiseInv, AdspReceiveInv, AdspReleaseInv, AdspAnswerInv,
       AdspNotifyInv, AdspAskIntentInv DEF Adsp
  <1> QED
    BY <1>1, <1>2, <1>3, <1>4 DEF Next

(* The whole inductive invariant: the types, the discipline of the call    *)
(* stack (a call from outside, what it waits for, then acknowledgements    *)
(* only), the single permission to open, and the silence about PAN until   *)
(* ALTMODE_PAN_EN is carried out, on every open and every retry.           *)
THEOREM SessionInvariant == Spec => []SessionInv
  BY SessionStart, SessionStep, PTL DEF Spec

(* Types hold whatever the ADSP does, however waits nest and time out.     *)
THEOREM SessionTypes == Spec => []TypeOK
  <1>1. SessionInv => TypeOK
    <2> SUFFICES ASSUME SessionInv PROVE TypeOK
      OBVIOUS
    <2>1. TypeInv
      BY DEF SessionInv
    <2>2. DOMAIN pg = DOMAIN FreshPg
      BY <2>1, FreshFacts DEF TypeInv, Qpg
    <2>3. \A k \in DOMAIN stack : stack[k] \in Frames
      BY <2>1, LenProperties, ElementOfSeq DEF TypeInv
    <2> QED
      BY <2>1, <2>2, <2>3 DEF TypeInv, TypeOK, Qpg, AdspSide, Ids, Frames
  <1> QED
    BY <1>1, SessionInvariant, PTL

(* "We never send local OPEN before the remote has advertised the channel" *)
(* (qpg_open_session): for any number of opens, after timeouts, with stale *)
(* messages in both rings.                                                 *)
THEOREM OpenIsAnswered == Spec => []OpenAfterAdvertised
  <1>1. SessionInv => OpenAfterAdvertised
    <2> SUFFICES ASSUME SessionInv, ~Has(tx, "OPEN") PROVE OpenAfterAdvertised
      BY DEF SessionInv, OpenInv, OpenAfterAdvertised
    <2>1. {k \in DOMAIN tx : tx[k].cmd = "OPEN"} = {}
      BY DEF Has
    <2>2. Cardinality({k \in DOMAIN tx : tx[k].cmd = "OPEN"}) = 0
      BY <2>1, FS_EmptySet
    <2> QED
      BY <2>2 DEF OpenAfterAdvertised, Count
  <1> QED
    BY <1>1, SessionInvariant, PTL

-----------------------------------------------------------------------------
(* Counting: how many elements of a sequence are in a set. *)

Positions(s, P) == {k \in DOMAIN s : s[k] \in P}
Num(s, P) == Cardinality(Positions(s, P))
One(b) == IF b THEN 1 ELSE 0

LEMMA NumType ==
  ASSUME NEW S, NEW s \in Seq(S), NEW P
  PROVE  IsFiniteSet(Positions(s, P)) /\ Num(s, P) \in Nat
  <1>1. DOMAIN s = 1 .. Len(s) /\ Len(s) \in Nat
    BY LenProperties
  <1>2. IsFiniteSet(1 .. Len(s)) /\ Positions(s, P) \in SUBSET (1 .. Len(s))
    BY <1>1, FS_Interval DEF Positions
  <1>3. IsFiniteSet(Positions(s, P))
    BY <1>2, FS_Subset
  <1> QED
    BY <1>3, FS_CardinalityType DEF Num

LEMMA NumEmpty == ASSUME NEW P PROVE Num(<<>>, P) = 0
  <1>1. Positions(<<>>, P) = {}
    BY DEF Positions
  <1> QED
    BY <1>1, FS_EmptySet DEF Num

LEMMA NumNone ==
  ASSUME NEW S, NEW s \in Seq(S), NEW P, \A k \in DOMAIN s : s[k] \notin P
  PROVE  Num(s, P) = 0
  <1>1. Positions(s, P) = {}
    BY DEF Positions
  <1> QED
    BY <1>1, FS_EmptySet DEF Num

LEMMA NumSome ==
  ASSUME NEW S, NEW s \in Seq(S), NEW P
  PROVE  Num(s, P) = 0 <=> \A k \in DOMAIN s : s[k] \notin P
  <1>1. IsFiniteSet(Positions(s, P))
    BY NumType
  <1>2. Num(s, P) = 0 <=> Positions(s, P) = {}
    BY <1>1, FS_EmptySet DEF Num
  <1> QED
    BY <1>2 DEF Positions

(* One element more at the end. *)
LEMMA NumExtends ==
  ASSUME NEW S, NEW s \in Seq(S), NEW t \in Seq(S), NEW P, Len(t) = Len(s) + 1,
         \A k \in 1 .. Len(s) : t[k] = s[k]
  PROVE  Num(t, P) = Num(s, P) + One(t[Len(t)] \in P)
  <1>1. DOMAIN s = 1 .. Len(s) /\ Len(s) \in Nat /\ DOMAIN t = 1 .. Len(t)
    BY LenProperties
  <1>2. DOMAIN t = 1 .. Len(s) + 1
    BY <1>1
  <1>3. IsFiniteSet(Positions(s, P)) /\ Num(s, P) \in Nat
    BY NumType
  <1>4. CASE t[Len(t)] \in P
    <2>1. Positions(t, P) = Positions(s, P) \cup {Len(s) + 1} /\ Len(s) + 1 \notin Positions(s, P)
      BY <1>1, <1>2, <1>4 DEF Positions
    <2> QED
      BY <1>3, <1>4, <2>1, FS_AddElement DEF Num, One
  <1>5. CASE t[Len(t)] \notin P
    <2>1. Positions(t, P) = Positions(s, P)
      BY <1>1, <1>2, <1>5 DEF Positions
    <2> QED
      BY <1>3, <1>5, <2>1 DEF Num, One
  <1> QED
    BY <1>4, <1>5

LEMMA NumAppend ==
  ASSUME NEW S, NEW s \in Seq(S), NEW e \in S, NEW P
  PROVE  Num(Append(s, e), P) = Num(s, P) + One(e \in P)
  <1> DEFINE t == Append(s, e)
  <1>1. t \in Seq(S) /\ Len(t) = Len(s) + 1 /\ (\A k \in 1 .. Len(s) : t[k] = s[k]) /\ t[Len(s) + 1] = e
    BY Appended
  <1> HIDE DEF t
  <1>2. Num(t, P) = Num(s, P) + One(t[Len(t)] \in P)
    BY <1>1, NumExtends
  <1> QED
    BY <1>1, <1>2 DEF t

LEMMA NumTail ==
  ASSUME NEW S, NEW s \in Seq(S), s # <<>>, NEW P
  PROVE  Num(s, P) = Num(Tail(s), P) + One(Head(s) \in P)
  <1> DEFINE t == Tail(s)
             A == Positions(t, P)
             B == Positions(s, P) \ {1}
             f == [k \in A |-> k + 1]
  <1>1. /\ t \in Seq(S) /\ Head(s) = s[1] /\ 1 \in DOMAIN s /\ Len(s) \in Nat \ {0}
        /\ DOMAIN s = 1 .. Len(s) /\ DOMAIN t = 1 .. Len(s) - 1
        /\ \A k \in 1 .. Len(s) - 1 : t[k] = s[k + 1]
    BY Beheaded
  <1>2. IsFiniteSet(A) /\ Num(t, P) \in Nat /\ IsFiniteSet(Positions(s, P))
    BY <1>1, NumType
  <1> HIDE DEF t
  <1>3. f \in Bijection(A, B)
    <2>1. A \subseteq 1 .. Len(s) - 1 /\ B \subseteq 2 .. Len(s)
      BY <1>1 DEF Positions
    <2>2. \A k \in A : k + 1 \in B
      BY <1>1, <2>1 DEF Positions
    <2>3. \A l \in B : l - 1 \in A
      BY <1>1, <2>1 DEF Positions
    <2>4. f \in [A -> B] /\ \A k \in A : f[k] = k + 1
      BY <2>2
    <2>5. \A k, l \in A : f[k] = f[l] => k = l
      BY <2>1, <2>4
    <2>6. \A l \in B : \E k \in A : f[k] = l
      <3> TAKE l \in B
      <3>1. l - 1 \in A /\ f[l - 1] = l
        BY <2>1, <2>3, <2>4
      <3> QED
        BY <3>1
    <2> HIDE DEF f, A, B
    <2> QED
      BY <2>4, <2>5, <2>6, Fun_IsBij
  <1>4. Cardinality(B) = Num(t, P)
    BY <1>2, <1>3, FS_Bijection DEF ExistsBijection, Num
  <1>5. Cardinality(B) = IF 1 \in Positions(s, P) THEN Num(s, P) - 1 ELSE Num(s, P)
    BY <1>2, FS_RemoveElement DEF Num
  <1>6. Head(s) \in P <=> 1 \in Positions(s, P)
    BY <1>1 DEF Positions
  <1>7. Num(s, P) \in Nat
    BY NumType
  <1> QED
    BY <1>2, <1>4, <1>5, <1>6, <1>7 DEF t, One

LEMMA NumJoin ==
  ASSUME NEW S, NEW s \in Seq(S), NEW t \in Seq(S), NEW P
  PROVE  Num(s \o t, P) = Num(s, P) + Num(t, P)
  <1> DEFINE u == s \o t
             A == Positions(t, P)
             B == Positions(s, P)
             C == {k \in Positions(u, P) : k > Len(s)}
             f == [k \in A |-> Len(s) + k]
  <1>1. /\ u \in Seq(S) /\ Len(s) \in Nat /\ Len(t) \in Nat /\ DOMAIN s = 1 .. Len(s)
        /\ DOMAIN t = 1 .. Len(t) /\ DOMAIN u = 1 .. Len(s) + Len(t)
        /\ \A k \in DOMAIN s : u[k] = s[k]
        /\ \A k \in DOMAIN t : u[Len(s) + k] = t[k]
    BY Joined
  <1>2. IsFiniteSet(A) /\ IsFiniteSet(B) /\ Num(t, P) \in Nat /\ Num(s, P) \in Nat
    BY NumType
  <1> HIDE DEF u
  <1>3. f \in Bijection(A, C)
    <2>1. A \subseteq 1 .. Len(t) /\ C \subseteq Len(s) + 1 .. Len(s) + Len(t)
      BY <1>1 DEF Positions
    <2>2. \A k \in A : Len(s) + k \in C
      BY <1>1, <2>1 DEF Positions
    <2>3. \A l \in C : l - Len(s) \in A
      <3> TAKE l \in C
      <3>1. l - Len(s) \in DOMAIN t /\ l = Len(s) + (l - Len(s))
        BY <1>1, <2>1
      <3>2. u[l] = t[l - Len(s)] /\ u[l] \in P
        BY <1>1, <3>1 DEF Positions
      <3> QED
        BY <3>1, <3>2 DEF Positions
    <2>4. f \in [A -> C] /\ \A k \in A : f[k] = Len(s) + k
      BY <2>2
    <2>5. \A k, l \in A : f[k] = f[l] => k = l
      BY <1>1, <2>1, <2>4
    <2>6. \A l \in C : \E k \in A : f[k] = l
      <3> TAKE l \in C
      <3>1. l - Len(s) \in A /\ f[l - Len(s)] = l
        BY <1>1, <2>1, <2>3, <2>4
      <3> QED
        BY <3>1
    <2> HIDE DEF f, A, C
    <2> QED
      BY <2>4, <2>5, <2>6, Fun_IsBij
  <1>4. IsFiniteSet(C) /\ Cardinality(C) = Num(t, P)
    BY <1>2, <1>3, FS_Bijection DEF ExistsBijection, Num
  <1>5. Positions(u, P) = B \cup C /\ B \cap C = {}
    BY <1>1 DEF Positions
  <1>6. Cardinality(B \cup C) = Cardinality(B) + Cardinality(C) - Cardinality(B \cap C)
    BY <1>2, <1>4, FS_Union
  <1>7. Cardinality(B) = Num(s, P) /\ Num(u, P) = Cardinality(Positions(u, P))
    BY DEF Num
  <1> HIDE DEF B, C
  <1>8. Cardinality(B \cap C) = 0
    BY <1>5, FS_EmptySet
  <1>9. Num(u, P) = Num(s, P) + Num(t, P)
    BY <1>2, <1>4, <1>5, <1>6, <1>7, <1>8
  <1> QED
    BY <1>9 DEF u

LEMMA NumSingle ==
  ASSUME NEW S, NEW e \in S, NEW P
  PROVE  Num(<<e>>, P) = One(e \in P)
  <1>1. <<>> \in Seq(S) /\ Append(<<>>, e) = <<e>>
    OBVIOUS
  <1>2. Num(<<>>, P) = 0
    BY NumEmpty
  <1>3. Num(Append(<<>>, e), P) = Num(<<>>, P) + One(e \in P)
    BY <1>1, NumAppend
  <1> QED
    BY <1>1, <1>2, <1>3 DEF One

(* How the moves of the stack change a count of frames. *)
LEMMA PopsNum ==
  ASSUME TypeInv, StackInv, stack # <<>>, Pops, NEW P
  PROVE  Num(stack, P) = Num(stack', P) + One(Top \in P)
  <1>1. /\ stack \in Seq(Frames) /\ stack' \in Seq(Frames) /\ Len(stack') = Len(stack) - 1
        /\ Len(stack) \in Nat \ {0} /\ Top = stack[Len(stack)]
        /\ \A k \in 1 .. Len(stack) - 1 : stack[k] = stack'[k]
    BY TopFacts DEF TypeInv, Pops
  <1>2. Len(stack) = Len(stack') + 1 /\ \A k \in 1 .. Len(stack') : stack[k] = stack'[k]
    BY <1>1
  <1>3. Num(stack, P) = Num(stack', P) + One(stack[Len(stack)] \in P)
    BY <1>1, <1>2, NumExtends
  <1> QED
    BY <1>1, <1>3

LEMMA NestsNum ==
  ASSUME TypeInv, Nests, NEW P
  PROVE  Num(stack', P) = Num(stack, P) + One(stack'[Len(stack) + 1] \in P)
  <1>1. stack \in Seq(Frames) /\ stack' \in Seq(Frames) /\ Len(stack') = Len(stack) + 1
        /\ \A k \in 1 .. Len(stack) : stack'[k] = stack[k]
    BY DEF TypeInv, Nests
  <1>2. Num(stack', P) = Num(stack, P) + One(stack'[Len(stack')] \in P)
    BY <1>1, NumExtends
  <1> QED
    BY <1>1, <1>2

LEMMA SetsNum ==
  ASSUME TypeInv, StackInv, stack # <<>>, NEW pc, Sets(pc), NEW P
  PROVE  Num(stack', P) + One(Top \in P) = Num(stack, P) + One(stack'[Len(stack)] \in P)
  <1> DEFINE s == Front(stack)
  <1>1. /\ stack \in Seq(Frames) /\ stack' \in Seq(Frames) /\ Len(stack') = Len(stack)
        /\ s \in Seq(Frames) /\ Len(s) = Len(stack) - 1 /\ Len(stack) \in Nat \ {0}
        /\ Top = stack[Len(stack)]
        /\ \A k \in 1 .. Len(stack) - 1 : s[k] = stack[k] /\ stack'[k] = stack[k]
    BY TopFacts, Fronted DEF TypeInv, Sets
  <1> HIDE DEF s
  <1>2. /\ Len(stack) = Len(s) + 1 /\ Len(stack') = Len(s) + 1
        /\ \A k \in 1 .. Len(s) : stack[k] = s[k] /\ stack'[k] = s[k]
    BY <1>1
  <1>3. Num(stack, P) = Num(s, P) + One(stack[Len(stack)] \in P)
    BY <1>1, <1>2, NumExtends
  <1>4. Num(stack', P) = Num(s, P) + One(stack'[Len(stack')] \in P)
    BY <1>1, <1>2, NumExtends
  <1>5. Num(s, P) \in Nat
    BY <1>1, NumType
  <1> QED
    BY <1>1, <1>3, <1>4, <1>5 DEF One

LEMMA StartsNum ==
  ASSUME TypeInv, NEW pc, NEW r, Starts(pc, r), NEW P, stack[1] \notin P,
         stack'[1] \notin P, stack'[2] \notin P
  PROVE  Num(stack', P) = Num(stack, P)
  <1>1. stack \in Seq(Frames) /\ stack' \in Seq(Frames)
    BY DEF TypeInv, Starts
  <1>2. DOMAIN stack = 1 .. Len(stack) /\ DOMAIN stack' = 1 .. Len(stack')
    BY <1>1, LenProperties
  <1>3. DOMAIN stack = 1 .. 1 /\ DOMAIN stack' = 1 .. 2
    BY <1>2 DEF Starts
  <1>4. (\A k \in DOMAIN stack : stack[k] \notin P) /\ (\A k \in DOMAIN stack' : stack'[k] \notin P)
    BY <1>3
  <1> QED
    BY <1>1, <1>4, NumNone

-----------------------------------------------------------------------------
(* The steps of the driver that neither send nor receive, by what they do  *)
(* to the stack and to the flags of requests.                              *)

QuietStep == \/ CallPoll \/ CallRefresh \/ PollEmpty \/ AfterVersion \/ AfterAnswer
             \/ AfterAltmodePoll \/ KeepWaiting \/ TimeOut \/ UcsiRequest \/ PrewarmEnd
             \/ AfterPanEn \/ DiscoverEnd \/ AfterReadSel \/ AfterUsbcRead

(* A call returns: for want of an answer, or with it. *)
QuietPops ==
    /\ stack # <<>> /\ Pops /\ pg'.acked = pg.acked /\ calls' = calls
    /\ TimeOut \/ Len(stack) = 1 \/ (Top.pc = "answer" /\ Done(Top))

(* It goes on. *)
QuietSets(pc) ==
    /\ stack # <<>> /\ Sets(pc) /\ pg'.acked = pg.acked /\ calls' = calls
    /\ \/ pc = Top.pc
       \/ Len(stack) = 1 /\ Top.pc = "version" /\ pc = "remote" /\ pg.version_acked
       \/ Len(stack) = 1 /\ Top.pc = "pan" /\ pc = "discover"

(* It starts a request. *)
QuietStarts(pc, r) ==
    /\ stack # <<>> /\ Starts(pc, r) /\ pg' = Clear(pg, r) /\ calls' = calls
    /\ \/ pc = stack[1].pc
       \/ pc = "pan" /\ stack[1].pc = "prewarm"
       \/ pc = "read" /\ stack[1].pc = "sel"

(* A call from outside begins. *)
QuietCalls ==
    /\ stack = <<>> /\ pg.session_ready /\ calls' \in Nat \ {0} /\ stack' \in Seq(Frames)
    /\ \/ Len(stack') = 1 /\ stack'[1].pc = "poll" /\ pg' = pg
       \/ /\ Len(stack') = 2 /\ stack'[1].pc = "sel" /\ stack'[2].pc = "riid"
          /\ stack'[2].op = "READ_SEL" /\ pg' = Clear(pg, "READ_SEL")

LEMMA QuietMoves ==
  ASSUME SessionInv, QuietStep
  PROVE  /\ UNCHANGED <<tx, rx, adsp, notified>> /\ Link(pg') = Link(pg)
         /\ pg'.session_ready => pg.session_ready \/ (Len(stack) = 1 /\ stack[1].pc = "discover")
         /\ \/ QuietPops
            \/ \E pc \in Pcs : QuietSets(pc)
            \/ \E pc \in Callers, r \in Req \ {"PAN_ACK"} : QuietStarts(pc, r)
            \/ QuietCalls
  <1> DEFINE Goal == /\ UNCHANGED <<tx, rx, adsp, notified>> /\ Link(pg') = Link(pg)
                     /\ pg'.session_ready => pg.session_ready \/ (Len(stack) = 1 /\ stack[1].pc = "discover")
                     /\ \/ QuietPops
                        \/ \E pc \in Pcs : QuietSets(pc)
                        \/ \E pc \in Callers, r \in Req \ {"PAN_ACK"} : QuietStarts(pc, r)
                        \/ QuietCalls
  <1>1. TypeInv /\ StackInv /\ pg \in Qpg /\ stack \in Seq(Frames) /\ calls \in Nat
    BY DEF SessionInv, TypeInv
  <1>2. ASSUME UNCHANGED <<tx, rx, adsp, notified, pg, calls>>, stack # <<>>, Top.pc # "riid",
               Top.pc = "answer" => Done(Top), NEW r \in Rets, Return(r)
        PROVE  Goal
    <2>1. Pops /\ (Len(stack) > 1 => Top.pc \in {"riid", "answer"}) /\ Len(stack) \in Nat \ {0}
      BY <1>1, <1>2, Returns, TopFacts
    <2>2. QuietPops
      BY <1>2, <2>1 DEF QuietPops
    <2> QED
      BY <1>2, <2>2
  <1>3. ASSUME UNCHANGED <<tx, rx, adsp, notified, pg, calls>>, stack # <<>>,
               NEW pc \in Pcs, Sets(pc),
               \/ pc = Top.pc
               \/ Len(stack) = 1 /\ Top.pc = "version" /\ pc = "remote" /\ pg.version_acked
               \/ Len(stack) = 1 /\ Top.pc = "pan" /\ pc = "discover"
        PROVE  Goal
    <2>1. QuietSets(pc)
      BY <1>3 DEF QuietSets
    <2> QED
      BY <1>3, <2>1
  <1>4. ASSUME UNCHANGED <<tx, rx, adsp, notified, calls>>, stack # <<>>, Top.pc \notin {"riid", "answer"},
               NEW s \in Seq(Frames), Len(s) = 1, s[1].op = stack[1].op,
               NEW pc \in Callers, s[1].pc = pc,
               NEW r \in Req \ {"PAN_ACK"}, Call(s, r),
               \/ pc = stack[1].pc
               \/ pc = "pan" /\ stack[1].pc = "prewarm"
               \/ pc = "read" /\ stack[1].pc = "sel"
        PROVE  Goal
    <2>1. Len(stack) = 1
      BY <1>1, <1>4, CallerFacts
    <2>2. Starts(pc, r) /\ pg' = Clear(pg, r) /\ Link(pg') = Link(pg) /\ pg'.session_ready = pg.session_ready
      BY <1>4, <2>1, CallStarts
    <2>3. QuietStarts(pc, r)
      BY <1>4, <2>2 DEF QuietStarts
    <2> QED
      BY <1>4, <2>2, <2>3
  <1>5. stack # <<>> => /\ Len(stack) \in DOMAIN stack /\ stack[Len(stack)] = Top /\ Top.i \in Nat
                        /\ Top.pc \in Pcs
    BY <1>1, TopFacts DEF Frames, Pcs
  <1>6. ASSUME stack # <<>>, UNCHANGED stack PROVE Sets(Top.pc)
    BY <1>1, <1>5, <1>6 DEF Sets
  <1>7. ASSUME CallPoll PROVE Goal
    <2>1. PICK wait \in {0, Patience} : stack' = <<[Frame("altmode_poll", "poll") EXCEPT !.i = wait]>>
      BY <1>7 DEF CallPoll
    <2> DEFINE f == [Frame("altmode_poll", "poll") EXCEPT !.i = wait]
    <2>2. f \in Frames /\ f.pc = "poll"
      BY DEF Frame, Frames
    <2> HIDE DEF f
    <2>3. stack' \in Seq(Frames) /\ Len(stack') = 1 /\ stack'[1] = f
      BY <2>1, <2>2, Single DEF f
    <2>4. QuietCalls
      BY <1>1, <1>7, <2>2, <2>3 DEF QuietCalls, CallPoll
    <2> QED
      BY <1>7, <2>4 DEF CallPoll
  <1>8. ASSUME CallRefresh PROVE Goal
    <2> DEFINE f == Frame("refresh", "sel")
               g == Frame("READ_SEL", "riid")
    <2>1. stack' = <<f, g>> /\ pg' = Clear(pg, "READ_SEL") /\ "READ_SEL" \in Req
      BY <1>8 DEF CallRefresh, Req, PanReq
    <2>2. f \in Frames /\ f.pc = "sel" /\ g \in Frames /\ g.op = "READ_SEL" /\ g.pc = "riid"
      BY FrameFacts DEF Pcs, Ops, Callers, Req, PanReq
    <2> HIDE DEF f, g
    <2>3. stack' \in Seq(Frames) /\ Len(stack') = 2 /\ stack'[1] = f /\ stack'[2] = g
      BY <2>1, <2>2
    <2>4. QuietCalls
      BY <1>1, <1>8, <2>1, <2>2, <2>3 DEF QuietCalls, CallRefresh
    <2>5. Link(pg') = Link(pg) /\ pg'.session_ready = pg.session_ready
      BY <1>1, <2>1, Clears
    <2> QED
      BY <1>8, <2>4, <2>5 DEF CallRefresh
  <1>9. ASSUME PollEmpty PROVE Goal
    BY <1>3, <1>5, <1>6, <1>9 DEF PollEmpty
  <1>10. ASSUME AfterVersion PROVE Goal
    <2>1. /\ stack # <<>> /\ Top.pc = "version" /\ stack' = Jump(stack, "remote") /\ pg.version_acked
          /\ UNCHANGED <<pg, tx, calls, rx, adsp, notified>>
      BY <1>10 DEF AfterVersion, Waited, Done
    <2>2. Sets("remote") /\ Len(stack) = 1 /\ "remote" \in Pcs
      BY <1>1, <2>1, JumpSets, CallerFacts DEF Pcs
    <2> QED
      BY <1>3, <2>1, <2>2
  <1>11. ASSUME AfterAnswer PROVE Goal
    BY <1>2, <1>11 DEF AfterAnswer, Waited, Rets
  <1>12. ASSUME AfterAltmodePoll PROVE Goal
    <2>1. stack # <<>> /\ Top.pc = "poll" /\ UNCHANGED <<pg, tx, calls, rx, adsp, notified>>
      BY <1>12 DEF AfterAltmodePoll
    <2>2. CASE ret = "ok" \/ (ret = "again" /\ Top.i > 0)
      <3> DEFINE n == IF ret = "ok" THEN 0 ELSE Top.i - 1
      <3>1. n \in Nat /\ stack' = [stack EXCEPT ![Len(stack)].i = n]
        BY <1>5, <1>12, <2>1, <2>2 DEF AfterAltmodePoll
      <3> HIDE DEF n
      <3>2. Sets(Top.pc)
        BY <1>1, <1>5, <2>1, <3>1, BumpSets
      <3> QED
        BY <1>3, <1>5, <2>1, <3>2
    <2>3. CASE ~(ret = "ok" \/ (ret = "again" /\ Top.i > 0))
      BY <1>2, <1>12, <2>1, <2>3 DEF AfterAltmodePoll, Rets
    <2> QED
      BY <2>2, <2>3
  <1>13. ASSUME KeepWaiting PROVE Goal
    <2>1. stack # <<>> /\ UNCHANGED <<pg, tx, calls, rx, adsp, notified>>
      BY <1>13 DEF KeepWaiting, Unfinished
    <2>2. CASE UNCHANGED stack
      BY <1>3, <1>5, <1>6, <2>1, <2>2
    <2>3. CASE stack' = [stack EXCEPT ![Len(stack)].i = @ + 1]
      <3> DEFINE n == Top.i + 1
      <3>1. n \in Nat /\ stack' = [stack EXCEPT ![Len(stack)].i = n]
        BY <1>5, <2>1, <2>3
      <3> HIDE DEF n
      <3>2. Sets(Top.pc)
        BY <1>1, <1>5, <2>1, <3>1, BumpSets
      <3> QED
        BY <1>3, <1>5, <2>1, <3>2
    <2> QED
      BY <1>13, <2>2, <2>3 DEF KeepWaiting
  <1>14. ASSUME TimeOut PROVE Goal
    <2>1. stack # <<>> /\ Return("err") /\ UNCHANGED <<pg, tx, calls, rx, adsp, notified>>
      BY <1>14 DEF TimeOut, Unfinished
    <2>2. Pops
      BY <1>1, <2>1, Returns DEF Rets
    <2> QED
      BY <1>14, <2>1, <2>2 DEF QuietPops
  <1>15. ASSUME UcsiRequest PROVE Goal
    <2>1. PICK pc \in {"prewarm", "discover"}, r \in {"UCSI_READ", "UCSI_WRITE"} :
             AtCaller(pc) /\ Call([stack EXCEPT ![Len(stack)].i = @ + 1], r)
      BY <1>15 DEF UcsiRequest
    <2>2. stack # <<>> /\ Top.pc = pc /\ UNCHANGED <<tx, calls, rx, adsp, notified>>
      BY <2>1 DEF AtCaller
    <2>3. /\ Len(stack) = 1 /\ stack[1] = Top /\ stack[1] \in Frames /\ stack \in Seq(Frames)
          /\ DOMAIN stack = 1 .. 1
      BY <1>1, <2>2, CallerFacts
    <2> DEFINE f == [stack[1] EXCEPT !.i = @ + 1]
               s == [stack EXCEPT ![Len(stack)].i = @ + 1]
    <2>4. f \in Frames /\ f.op = stack[1].op /\ f.pc = pc
      BY <2>2, <2>3 DEF Frames
    <2>5. s = [stack EXCEPT ![1] = f]
      BY <2>3
    <2>7. Call(s, r) /\ r \in Req \ {"PAN_ACK"} /\ pc \in Callers
      BY <2>1 DEF Req, Callers
    <2> HIDE DEF s, f
    <2>6. s \in Seq(Frames) /\ Len(s) = 1 /\ s[1] = f
      BY <2>3, <2>4, <2>5, ExceptSeq
    <2> QED
      BY <1>4, <2>2, <2>3, <2>4, <2>6, <2>7
  <1>16. ASSUME PrewarmEnd PROVE Goal
    <2> DEFINE s == Jump(stack, "pan")
    <2>1. stack # <<>> /\ Top.pc = "prewarm" /\ UNCHANGED <<tx, calls, rx, adsp, notified>> /\ Call(s, "PAN_EN")
      BY <1>16 DEF AtCaller, PrewarmEnd
    <2>2. stack[1] = Top
      BY <1>1, <2>1, CallerFacts
    <2>3. s \in Seq(Frames) /\ Len(s) = 1 /\ s[1].op = stack[1].op /\ s[1].pc = "pan"
      BY <1>1, <2>1, JumpOne DEF Callers
    <2>4. "PAN_EN" \in Req \ {"PAN_ACK"} /\ "pan" \in Callers
      BY DEF Req, PanReq, Callers
    <2> HIDE DEF s
    <2> QED
      BY <1>4, <2>1, <2>2, <2>3, <2>4
  <1>17. ASSUME AfterPanEn PROVE Goal
    <2>1. stack # <<>> /\ Top.pc = "pan" /\ UNCHANGED <<pg, tx, calls, rx, adsp, notified>>
      BY <1>17 DEF AtCaller, AfterPanEn
    <2>2. CASE ret = "ok"
      <3>1. stack' = Jump(stack, "discover")
        BY <1>17, <2>2 DEF AfterPanEn
      <3>2. Sets("discover") /\ Len(stack) = 1 /\ "discover" \in Pcs
        BY <1>1, <2>1, <3>1, JumpSets, CallerFacts DEF Pcs, Callers
      <3> QED
        BY <1>3, <2>1, <3>2
    <2>3. CASE ret # "ok"
      BY <1>2, <1>17, <2>1, <2>3 DEF AfterPanEn, Rets
    <2> QED
      BY <2>2, <2>3
  <1>18. ASSUME DiscoverEnd PROVE Goal
    <2>1. /\ stack # <<>> /\ Top.pc = "discover" /\ UNCHANGED <<tx, calls, rx, adsp, notified>>
          /\ pg' = [pg EXCEPT !.session_ready = TRUE] /\ Return("ok")
      BY <1>18 DEF AtCaller, DiscoverEnd
    <2>2. Len(stack) = 1 /\ stack[1] = Top
      BY <1>1, <2>1, CallerFacts
    <2>3. Pops
      BY <1>1, <2>1, Returns DEF Rets
    <2>4. Link(pg') = Link(pg) /\ pg'.acked = pg.acked
      BY <1>1, <2>1 DEF Qpg, Link
    <2> QED
      BY <2>1, <2>2, <2>3, <2>4 DEF QuietPops
  <1>19. ASSUME AfterReadSel PROVE Goal
    <2>1. stack # <<>> /\ Top.pc = "sel" /\ UNCHANGED <<tx, calls, rx, adsp, notified>>
      BY <1>19 DEF AtCaller, AfterReadSel
    <2>2. CASE ret = "ok"
      <3> DEFINE s == Jump(stack, "read")
      <3>1. Call(s, "USBC_READ") /\ stack[1] = Top
        BY <1>1, <1>19, <2>1, <2>2, CallerFacts DEF AfterReadSel
      <3>2. s \in Seq(Frames) /\ Len(s) = 1 /\ s[1].op = stack[1].op /\ s[1].pc = "read"
        BY <1>1, <2>1, JumpOne DEF Callers
      <3>3. "USBC_READ" \in Req \ {"PAN_ACK"} /\ "read" \in Callers
        BY DEF Req, PanReq, Callers
      <3> HIDE DEF s
      <3> QED
        BY <1>4, <2>1, <3>1, <3>2, <3>3
    <2>3. CASE ret # "ok"
      BY <1>2, <1>19, <2>1, <2>3 DEF AfterReadSel, Rets
    <2> QED
      BY <2>2, <2>3
  <1>20. ASSUME AfterUsbcRead PROVE Goal
    BY <1>1, <1>2, <1>20 DEF AtCaller, AfterUsbcRead, Rets, TypeInv
  <1> QED
    BY <1>7, <1>8, <1>9, <1>10, <1>11, <1>12, <1>13, <1>14, <1>15, <1>16, <1>17, <1>18, <1>19, <1>20
       DEF QuietStep

(* The steps of the driver that send. *)
LEMMA CallOpenFacts ==
  ASSUME SessionInv, CallOpen
  PROVE  /\ stack = <<>> /\ calls' = calls + 1 /\ UNCHANGED <<rx, adsp, notified>>
         /\ \/ pg.session_ready /\ UNCHANGED <<pg, stack, tx>>
            \/ ~pg.session_ready /\ pg' = FreshPg /\ UNCHANGED <<stack, tx>>
            \/ /\ ~pg.session_ready /\ pg' = FreshPg /\ Room(1)
               /\ Cmd("VERSION") \in Up /\ tx' = Append(tx, Cmd("VERSION"))
               /\ stack' \in Seq(Frames) /\ Len(stack') = 1 /\ DOMAIN stack' = 1 .. 1
               /\ stack'[1].op = "open" /\ stack'[1].pc = "version"
  <1> DEFINE f == Frame("open", "version")
  <1>1. f \in Frames /\ f.op = "open" /\ f.pc = "version" /\ Cmd("VERSION") \in Up
    BY FrameFacts, UpMessages DEF Ops, Pcs
  <1> HIDE DEF f
  <1>2. <<f>> \in Seq(Frames) /\ Len(<<f>>) = 1 /\ DOMAIN <<f>> = 1 .. 1 /\ <<f>>[1] = f
    BY <1>1, Single
  <1>3. stack' = <<Frame("open", "version")>> => stack' = <<f>>
    BY DEF f
  <1> QED
    BY <1>1, <1>2, <1>3 DEF CallOpen

LEMMA RemoteOpenFacts ==
  ASSUME SessionInv, AfterRemoteOpen
  PROVE  /\ stack # <<>> /\ Len(stack) = 1 /\ Top.pc = "remote" /\ Top.op = "open" /\ pg.remote_opened
         /\ UNCHANGED <<calls, rx, adsp, notified>>
         /\ pg'.version_acked = pg.version_acked /\ pg'.remote_opened = pg.remote_opened
         /\ pg'.open_acked = pg.open_acked /\ pg'.riid = pg.riid /\ pg'.riid_avail = pg.riid_avail
         /\ pg'.next_liid = pg.next_liid /\ pg'.acked = pg.acked
         /\ pg'.session_ready = pg.session_ready
         /\ pg.local_open_sent => pg'.local_open_sent
         /\ \E ms \in Seq(Up) : /\ tx' = tx \o ms
                                /\ \A k \in DOMAIN ms : ms[k].cmd \in {"OPEN_ACK", "OPEN"}
                                /\ Has(ms, "OPEN") => pg'.local_open_sent
         /\ Sets("open_ack") \/ Pops
  <1> DEFINE acks == IF pg.remote_open_ack_pending THEN 1 ELSE 0
             opens == IF pg.local_open_sent THEN 0 ELSE 1
             acked == acks = 1 /\ Room(1)
             opened == opens = 1 /\ Room(acks + 1)
             A == IF acked THEN <<Cmd("OPEN_ACK")>> ELSE <<>>
             B == IF opened THEN <<Cmd("OPEN")>> ELSE <<>>
             x == (pg.remote_open_ack_pending /\ ~acked)
             y == (pg.remote_open_acked \/ acked)
             z == (pg.local_open_sent \/ opened)
  <1>1. /\ stack # <<>> /\ Top.pc = "remote" /\ UNCHANGED <<calls, rx, adsp, notified>>
        /\ pg.remote_opened
    BY DEF AfterRemoteOpen, Waited, Done, DoneRemoteOpened
  <1>2. TypeInv /\ StackInv /\ pg \in Qpg /\ tx \in Seq(Up)
    BY DEF SessionInv, TypeInv
  <1>3. Len(stack) = 1 /\ Top.op = "open"
    BY <1>1, <1>2, TopFacts DEF Outermost
  <1>4. /\ tx' = tx \o A \o B
        /\ pg' = [pg EXCEPT !.remote_open_ack_pending = x, !.remote_open_acked = y,
                            !.local_open_sent = z]
        /\ (stack' = Jump(stack, "open_ack") \/ Return("err"))
    BY DEF AfterRemoteOpen
  <1>5. /\ A \in Seq(Up) /\ B \in Seq(Up) /\ (Has(B, "OPEN") => opened) /\ ~Has(A, "OPEN")
        /\ \A k \in DOMAIN A : A[k].cmd \in {"OPEN_ACK", "OPEN"}
        /\ \A k \in DOMAIN B : B[k].cmd \in {"OPEN_ACK", "OPEN"}
    BY UpMessages DEF Has
  <1>6. (opened => z) /\ (pg.local_open_sent => z)
    OBVIOUS
  <1> HIDE DEF A, B, x, y, z, opened, acked
  <1>7. /\ pg'.local_open_sent = z
        /\ pg'.version_acked = pg.version_acked /\ pg'.remote_opened = pg.remote_opened
        /\ pg'.open_acked = pg.open_acked /\ pg'.riid = pg.riid /\ pg'.riid_avail = pg.riid_avail
        /\ pg'.next_liid = pg.next_liid /\ pg'.acked = pg.acked
        /\ pg'.session_ready = pg.session_ready
    BY <1>2, <1>4 DEF Qpg
  <1> DEFINE ms == A \o B
  <1>8. /\ ms \in Seq(Up) /\ tx' = tx \o ms
        /\ \A k \in DOMAIN ms : ms[k].cmd \in {"OPEN_ACK", "OPEN"}
        /\ Has(ms, "OPEN") => pg'.local_open_sent
    <2>1. tx \o A \o B = tx \o (A \o B)
      BY <1>2, <1>5, ConcatAssociative
    <2>2. Has(ms, "OPEN") => opened
      BY <1>5, JoinedHas
    <2> QED
      BY <1>4, <1>5, <1>6, <1>7, <2>1, <2>2, Joined
  <1> HIDE DEF ms
  <1>9. Sets("open_ack") \/ Pops
    BY <1>1, <1>2, <1>4, JumpSets, Returns DEF Pcs, Rets
  <1> QED
    BY <1>1, <1>3, <1>6, <1>7, <1>8, <1>9

LEMMA OpenAckFacts ==
  ASSUME SessionInv, AfterOpenAck
  PROVE  /\ stack # <<>> /\ Len(stack) = 1 /\ Top.pc = "open_ack" /\ Top.op = "open"
         /\ pg.local_open_sent /\ pg.open_acked /\ UNCHANGED <<calls, rx, adsp, notified>>
         /\ pg' = [pg EXCEPT !.next_liid = pg.next_liid + 1]
         /\ pg'.next_liid = pg.next_liid + 1
         /\ pg'.version_acked = pg.version_acked /\ pg'.remote_opened = pg.remote_opened
         /\ pg'.local_open_sent = pg.local_open_sent /\ pg'.open_acked = pg.open_acked
         /\ pg'.riid = pg.riid /\ pg'.riid_avail = pg.riid_avail /\ pg'.acked = pg.acked
         /\ pg'.session_ready = pg.session_ready
         /\ WithId("INTENT", pg.next_liid) \in Up
         /\ \/ Room(1) /\ tx' = Append(tx, WithId("INTENT", pg.next_liid)) /\ Sets("prewarm")
            \/ ~Room(1) /\ UNCHANGED tx /\ Pops
  <1>1. /\ stack # <<>> /\ Top.pc = "open_ack" /\ UNCHANGED <<calls, rx, adsp, notified>>
        /\ pg.local_open_sent /\ pg.open_acked /\ pg' = [pg EXCEPT !.next_liid = pg.next_liid + 1]
    BY DEF AfterOpenAck, Waited, Done, DoneOpen
  <1>2. TypeInv /\ StackInv /\ pg \in Qpg
    BY DEF SessionInv, TypeInv
  <1>3. Len(stack) = 1 /\ Top.op = "open"
    BY <1>1, <1>2, TopFacts DEF Outermost
  <1>4. WithId("INTENT", pg.next_liid) \in Up
    BY <1>2, UpMessages DEF Qpg
  <1>5. \/ Room(1) /\ tx' = Append(tx, WithId("INTENT", pg.next_liid)) /\ Sets("prewarm")
        \/ ~Room(1) /\ UNCHANGED tx /\ Pops
    BY <1>1, <1>2, JumpSets, Returns DEF AfterOpenAck, Pcs, Callers, Rets
  <1>6. /\ pg'.next_liid = pg.next_liid + 1
        /\ pg'.version_acked = pg.version_acked /\ pg'.remote_opened = pg.remote_opened
        /\ pg'.local_open_sent = pg.local_open_sent /\ pg'.open_acked = pg.open_acked
        /\ pg'.riid = pg.riid /\ pg'.riid_avail = pg.riid_avail /\ pg'.acked = pg.acked
        /\ pg'.session_ready = pg.session_ready
    BY <1>1, <1>2 DEF Qpg
  <1> QED
    BY <1>1, <1>3, <1>4, <1>5, <1>6

LEMMA RiidFacts ==
  ASSUME SessionInv, AfterRiid
  PROVE  /\ stack # <<>> /\ Len(stack) > 1 /\ Top.pc = "riid" /\ Top.op \in Req
         /\ pg.riid_avail /\ pg.riid \in RemoteIntent /\ ~pg'.riid_avail
         /\ UNCHANGED <<calls, rx, adsp, notified>>
         /\ pg'.version_acked = pg.version_acked /\ pg'.remote_opened = pg.remote_opened
         /\ pg'.local_open_sent = pg.local_open_sent /\ pg'.open_acked = pg.open_acked
         /\ pg'.riid = pg.riid /\ pg'.next_liid = pg.next_liid /\ pg'.acked = pg.acked
         /\ pg'.session_ready = pg.session_ready
         /\ Data(pg.riid, Top.op) \in Up
         /\ \/ Room(1) /\ tx' = Append(tx, Data(pg.riid, Top.op)) /\ Sets("answer")
            \/ ~Room(1) /\ UNCHANGED tx /\ Pops
  <1>1. /\ stack # <<>> /\ Top.pc = "riid" /\ UNCHANGED <<calls, rx, adsp, notified>>
        /\ pg.riid_avail /\ pg' = [pg EXCEPT !.riid_avail = FALSE]
    BY DEF AfterRiid, Waited, Done, Spend
  <1>2. TypeInv /\ StackInv /\ pg \in Qpg /\ pg.riid \in RemoteIntent
    BY <1>1 DEF SessionInv, TypeInv
  <1>3. Len(stack) > 1 /\ Top.op \in Req
    BY <1>1, <1>2, TopFacts
  <1>4. Data(pg.riid, Top.op) \in Up
    BY <1>2, <1>3, UpMessages
  <1>5. \/ Room(1) /\ tx' = Append(tx, Data(pg.riid, Top.op)) /\ Sets("answer")
        \/ ~Room(1) /\ UNCHANGED tx /\ Pops
    BY <1>1, <1>2, JumpSets, Returns DEF AfterRiid, Pcs, Rets
  <1>6. /\ pg'.version_acked = pg.version_acked /\ pg'.remote_opened = pg.remote_opened
        /\ pg'.local_open_sent = pg.local_open_sent /\ pg'.open_acked = pg.open_acked
        /\ pg'.riid = pg.riid /\ pg'.next_liid = pg.next_liid /\ pg'.acked = pg.acked
        /\ pg'.session_ready = pg.session_ready /\ ~pg'.riid_avail
    BY <1>1, <1>2 DEF Qpg
  <1> QED
    BY <1>1, <1>2, <1>3, <1>4, <1>5, <1>6

LEMMA ReleaseFacts ==
  ASSUME SessionInv, AdspRelease
  PROVE  \E id \in adsp.busy :
           /\ AdspStep /\ UNCHANGED <<tx, notified>> /\ id \in RemoteIntent
           /\ WithId("RX_DONE_W_REUSE", id) \in Down /\ WithId("RX_DONE", id) \in Down
           /\ WithId("INTENT", id) \in Down
           /\ \/ rx' = rx \o <<WithId("RX_DONE_W_REUSE", id)>>
              \/ rx' = rx \o <<WithId("RX_DONE", id), WithId("INTENT", id)>>
           /\ adsp'.busy = adsp.busy \ {id} /\ adsp'.free = adsp.free /\ adsp'.todo = adsp.todo
           /\ adsp'.open = adsp.open /\ adsp'.pan = adsp.pan /\ adsp'.acks = adsp.acks
  <1>1. PICK id \in adsp.busy :
          /\ AdspStep
          /\ \/ AdspSends(<<WithId("RX_DONE_W_REUSE", id)>>)
             \/ AdspSends(<<WithId("RX_DONE", id), WithId("INTENT", id)>>)
          /\ adsp' = [adsp EXCEPT !.busy = @ \ {id}]
          /\ UNCHANGED <<tx, notified>>
    BY DEF AdspRelease
  <1>2. adsp \in AdspSide /\ id \in RemoteIntent
    BY <1>1 DEF SessionInv, TypeInv, AdspSide
  <1>3. WithId("RX_DONE_W_REUSE", id) \in Down /\ WithId("RX_DONE", id) \in Down
        /\ WithId("INTENT", id) \in Down
    BY <1>2, DownMessages
  <1>4. /\ adsp'.busy = adsp.busy \ {id} /\ adsp'.free = adsp.free /\ adsp'.todo = adsp.todo
        /\ adsp'.open = adsp.open /\ adsp'.pan = adsp.pan /\ adsp'.acks = adsp.acks
    BY <1>1, <1>2 DEF AdspSide
  <1>5. \/ rx' = rx \o <<WithId("RX_DONE_W_REUSE", id)>>
        \/ rx' = rx \o <<WithId("RX_DONE", id), WithId("INTENT", id)>>
    BY <1>1 DEF AdspSends
  <1> QED
    BY <1>1, <1>2, <1>3, <1>4, <1>5

(* The steps of the ADSP that send one message of the protocol. *)
LEMMA SpeaksFacts ==
  ASSUME SessionInv, AdspVersion \/ AdspAdvertise \/ AdspAskIntent
  PROVE  \E c \in {"VERSION", "OPEN", "RX_INTENT_REQ"} :
           /\ AdspStep /\ UNCHANGED <<tx, notified>> /\ Cmd(c) \in Down /\ Cmd(c).cmd = c
           /\ rx' = rx \o <<Cmd(c)>> /\ (c = "RX_INTENT_REQ" => adsp.open)
           /\ adsp'.busy = adsp.busy /\ adsp'.free = adsp.free /\ adsp'.todo = adsp.todo
           /\ adsp'.open = adsp.open /\ adsp'.pan = adsp.pan /\ adsp'.acks = adsp.acks
  <1>1. adsp \in AdspSide
    BY DEF SessionInv, TypeInv
  <1>2. CASE AdspVersion
    <2>1. AdspStep /\ UNCHANGED <<tx, notified>> /\ rx' = rx \o <<Cmd("VERSION")>>
          /\ adsp' = [adsp EXCEPT !.versioned = TRUE]
      BY <1>2 DEF AdspVersion, AdspSends
    <2>2. /\ adsp'.busy = adsp.busy /\ adsp'.free = adsp.free /\ adsp'.todo = adsp.todo
          /\ adsp'.open = adsp.open /\ adsp'.pan = adsp.pan /\ adsp'.acks = adsp.acks
      BY <1>1, <2>1 DEF AdspSide
    <2> WITNESS "VERSION" \in {"VERSION", "OPEN", "RX_INTENT_REQ"}
    <2> QED
      BY <2>1, <2>2, DownMessages
  <1>3. CASE AdspAdvertise
    <2>1. AdspStep /\ UNCHANGED <<tx, notified>> /\ rx' = rx \o <<Cmd("OPEN")>>
          /\ adsp' = [adsp EXCEPT !.advertised = TRUE]
      BY <1>3 DEF AdspAdvertise, AdspSends
    <2>2. /\ adsp'.busy = adsp.busy /\ adsp'.free = adsp.free /\ adsp'.todo = adsp.todo
          /\ adsp'.open = adsp.open /\ adsp'.pan = adsp.pan /\ adsp'.acks = adsp.acks
      BY <1>1, <2>1 DEF AdspSide
    <2> WITNESS "OPEN" \in {"VERSION", "OPEN", "RX_INTENT_REQ"}
    <2> QED
      BY <2>1, <2>2, DownMessages
  <1>4. CASE AdspAskIntent
    <2>1. AdspStep /\ UNCHANGED <<tx, notified>> /\ rx' = rx \o <<Cmd("RX_INTENT_REQ")>>
          /\ adsp' = [adsp EXCEPT !.asked = TRUE] /\ adsp.open
      BY <1>4 DEF AdspAskIntent, AdspSends
    <2>2. /\ adsp'.busy = adsp.busy /\ adsp'.free = adsp.free /\ adsp'.todo = adsp.todo
          /\ adsp'.open = adsp.open /\ adsp'.pan = adsp.pan /\ adsp'.acks = adsp.acks
      BY <1>1, <2>1 DEF AdspSide
    <2> WITNESS "RX_INTENT_REQ" \in {"VERSION", "OPEN", "RX_INTENT_REQ"}
    <2> QED
      BY <2>1, <2>2, DownMessages
  <1> QED
    BY <1>2, <1>3, <1>4

LEMMA Steps ==
  ASSUME Next
  PROVE  \/ QuietStep \/ CallOpen \/ PollMessage \/ AfterRemoteOpen \/ AfterOpenAck \/ AfterRiid
         \/ AdspVersion \/ AdspAdvertise \/ AdspAskIntent \/ AdspReceive \/ AdspRelease
         \/ AdspAnswer \/ AdspNotify
  BY DEF Next, Driver, Adsp, QuietStep

-----------------------------------------------------------------------------
(* Notifications and their acknowledgements: what the two sums of the      *)
(* model count, each notification in one place.                            *)

PanAcks == {m \in Up : m.cmd = "TX_DATA" /\ m.body = "PAN_ACK"}
Notes == {m \in Down : m.cmd = "TX_DATA" /\ m.body = "NOTIFY"}
AckWaits == {f \in Frames : f.op = "PAN_ACK" /\ f.pc = "riid"}

AckSum == adsp.acks + Num(tx, PanAcks) + Num(stack, AckWaits) + Num(rx, Notes)

LEMMA AcksCounted ==
  ASSUME TypeInv
  PROVE  /\ AckSum \in Nat /\ notified \in Nat /\ AcksMade = AckSum - Num(rx, Notes)
         /\ NotifiesTaken = notified - Num(rx, Notes)
         /\ adsp.acks \in Nat /\ Num(tx, PanAcks) \in Nat /\ Num(stack, AckWaits) \in Nat
         /\ Num(rx, Notes) \in Nat
  <1>1. tx \in Seq(Up) /\ rx \in Seq(Down) /\ stack \in Seq(Frames) /\ notified \in Nat
        /\ adsp.acks \in Nat
    BY DEF TypeInv, AdspSide
  <1>2. /\ \A k \in DOMAIN tx : tx[k] \in Up
        /\ \A k \in DOMAIN rx : rx[k] \in Down
        /\ \A k \in DOMAIN stack : stack[k] \in Frames
    BY <1>1, LenProperties, ElementOfSeq
  <1>3. /\ {k \in DOMAIN tx : tx[k].cmd = "TX_DATA" /\ tx[k].body = "PAN_ACK"} = Positions(tx, PanAcks)
        /\ {k \in DOMAIN rx : rx[k].cmd = "TX_DATA" /\ rx[k].body = "NOTIFY"} = Positions(rx, Notes)
        /\ {k \in DOMAIN stack : stack[k].op = "PAN_ACK" /\ stack[k].pc = "riid"} = Positions(stack, AckWaits)
    BY <1>2 DEF Positions, PanAcks, Notes, AckWaits
  <1>4. Num(tx, PanAcks) \in Nat /\ Num(rx, Notes) \in Nat /\ Num(stack, AckWaits) \in Nat
    BY <1>1, NumType
  <1>5. AcksMade = adsp.acks + Num(tx, PanAcks) + Num(stack, AckWaits)
    BY <1>3 DEF AcksMade, Count, Num
  <1>6. NotifiesTaken = notified - Num(rx, Notes)
    BY <1>3 DEF NotifiesTaken, Count, Num
  <1> QED
    BY <1>1, <1>4, <1>5, <1>6 DEF AckSum

LEMMA AcksGrouped ==
  ASSUME TypeInv
  PROVE  /\ AckSum \in Nat
         /\ AckSum = adsp.acks + (Num(tx, PanAcks) + Num(stack, AckWaits)) + Num(rx, Notes)
         /\ AckSum = adsp.acks + Num(tx, PanAcks) + (Num(stack, AckWaits) + Num(rx, Notes))
  BY AcksCounted DEF AckSum

(* What a quiet step does to the requests that wait for an intent. *)
LEMMA QuietAcks ==
  ASSUME SessionInv, QuietStep
  PROVE  /\ Num(stack', AckWaits) <= Num(stack, AckWaits)
         /\ ~TimeOut => Num(stack', AckWaits) = Num(stack, AckWaits)
  <1>1. TypeInv /\ StackInv /\ stack \in Seq(Frames) /\ Num(stack, AckWaits) \in Nat
    BY AcksCounted DEF SessionInv, TypeInv
  <1>2. TypeInv'
    BY SessionStep DEF QuietStep, Next, Driver, SessionInv
  <1>3. stack' \in Seq(Frames) /\ Num(stack', AckWaits) \in Nat
    BY <1>2, AcksCounted, NumType DEF TypeInv
  <1>4. CASE QuietPops
    <2>1. Num(stack, AckWaits) = Num(stack', AckWaits) + One(Top \in AckWaits)
      BY <1>1, <1>4, PopsNum DEF QuietPops
    <2>2. ~TimeOut => Top \notin AckWaits
      BY <1>1, <1>4, TopFacts DEF QuietPops, AckWaits
    <2> QED
      BY <1>1, <1>3, <2>1, <2>2 DEF One
  <1>5. ASSUME NEW pc \in Pcs, QuietSets(pc)
        PROVE  Num(stack', AckWaits) = Num(stack, AckWaits)
    <2>1. Num(stack', AckWaits) + One(Top \in AckWaits)
            = Num(stack, AckWaits) + One(stack'[Len(stack)] \in AckWaits)
      BY <1>1, <1>5, SetsNum DEF QuietSets
    <2>2. /\ stack # <<>> /\ Top = stack[Len(stack)] /\ Top \in Frames
          /\ Len(stack') = Len(stack) /\ Len(stack) \in Nat \ {0}
          /\ stack'[Len(stack)].op = Top.op /\ stack'[Len(stack)].pc = pc
      BY <1>1, <1>5, TopFacts DEF QuietSets, Sets
    <2>3. stack'[Len(stack)] \in Frames
      BY <1>3, <2>2, ElementOfSeq
    <2>4. Top.pc = "riid" <=> pc = "riid"
      BY <1>5 DEF QuietSets
    <2>5. Top \in AckWaits <=> stack'[Len(stack)] \in AckWaits
      BY <2>2, <2>3, <2>4 DEF AckWaits
    <2> QED
      BY <1>1, <1>3, <2>1, <2>5 DEF One
  <1>6. ASSUME NEW pc \in Callers, NEW r \in Req \ {"PAN_ACK"}, QuietStarts(pc, r)
        PROVE  Num(stack', AckWaits) = Num(stack, AckWaits)
    <2>1. stack'[1].pc = pc /\ stack'[2].op = r /\ Starts(pc, r) /\ stack # <<>> /\ Len(stack) = 1
      BY <1>6 DEF QuietStarts, Starts
    <2>2. stack[1].pc # "riid"
      BY <1>1, <2>1, TopFacts
    <2>3. stack[1] \notin AckWaits /\ stack'[1] \notin AckWaits /\ stack'[2] \notin AckWaits
      BY <2>1, <2>2 DEF AckWaits, Callers
    <2> QED
      BY <1>1, <2>1, <2>3, StartsNum
  <1>7. CASE QuietCalls
    <2>1. Num(stack, AckWaits) = 0
      BY <1>7, NumEmpty DEF QuietCalls
    <2>2. DOMAIN stack' = 1 .. Len(stack')
      BY <1>3, LenProperties
    <2>3. \A k \in DOMAIN stack' : stack'[k] \notin AckWaits
      <3>1. CASE Len(stack') = 1 /\ stack'[1].pc = "poll"
        <4>1. DOMAIN stack' = 1 .. 1
          BY <2>2, <3>1
        <4> QED
          BY <3>1, <4>1 DEF AckWaits
      <3>2. CASE Len(stack') = 2 /\ stack'[1].pc = "sel" /\ stack'[2].op = "READ_SEL"
        <4>1. DOMAIN stack' = 1 .. 2
          BY <2>2, <3>2
        <4> QED
          BY <3>2, <4>1 DEF AckWaits
      <3> QED
        BY <1>7, <3>1, <3>2 DEF QuietCalls
    <2>4. Num(stack', AckWaits) = 0
      BY <1>3, <2>3, NumNone
    <2> QED
      BY <2>1, <2>4
  <1> QED
    BY <1>1, <1>3, <1>4, <1>5, <1>6, <1>7, QuietMoves

(* Arithmetic that the steps below need. *)
LEMMA OneMore ==
  ASSUME NEW x \in Nat, NEW y \in Nat, NEW o \in {0, 1}, x = y + o
  PROVE  y <= x /\ (o = 0 => x = y)
  OBVIOUS

LEMMA Carried ==
  ASSUME NEW x \in Nat, NEW y \in Nat, NEW u \in Nat, NEW v \in Nat, x + u <= y + v, y <= u
  PROVE  x <= v
  OBVIOUS

LEMMA NoMore ==
  ASSUME NEW r \in Nat, NEW x \in Nat, NEW y \in Nat, x <= y
  PROVE  r + x <= r + y
  OBVIOUS

LEMMA Added ==
  ASSUME NEW x \in Nat, NEW y \in Nat
  PROVE  x + y \in Nat
  OBVIOUS

LEMMA Same ==
  ASSUME NEW x \in Nat, NEW y \in Nat, x = y
  PROVE  x <= y
  OBVIOUS

LEMMA Evened ==
  ASSUME NEW x \in Nat, NEW y \in Nat, NEW u \in Nat, NEW v \in Nat, x + u = y + v, y = u
  PROVE  x = v
  OBVIOUS

LEMMA Shifted ==
  ASSUME NEW x \in Nat, NEW y \in Nat, NEW u \in Nat, NEW v \in Nat, NEW o \in {0, 1},
         x = u + o, v = y + o
  PROVE  x + y = u + v
  OBVIOUS

LEMMA AckStep ==
  ASSUME SessionInv, Next
  PROVE  /\ AckSum' + notified <= AckSum + notified'
         /\ ~TimeOut /\ NoneLost /\ (\A k \in DOMAIN rx : rx[k] \in Notes => pg.remote_opened)
            => AckSum' + notified = AckSum + notified'
  <1> DEFINE a == adsp.acks
             t == Num(tx, PanAcks)
             w == Num(stack, AckWaits)
             n == Num(rx, Notes)
             Kind == ~TimeOut /\ NoneLost /\ (\A k \in DOMAIN rx : rx[k] \in Notes => pg.remote_opened)
             Goal == /\ AckSum' + notified <= AckSum + notified'
                     /\ Kind => AckSum' + notified = AckSum + notified'
  <1>1. TypeInv /\ StackInv /\ SessionInv' /\ TypeInv'
    BY SessionStep DEF SessionInv
  <1>2. /\ tx \in Seq(Up) /\ rx \in Seq(Down) /\ stack \in Seq(Frames) /\ adsp \in AdspSide
        /\ tx' \in Seq(Up) /\ rx' \in Seq(Down) /\ stack' \in Seq(Frames)
        /\ a \in Nat /\ t \in Nat /\ w \in Nat /\ n \in Nat /\ notified \in Nat
        /\ a' \in Nat /\ t' \in Nat /\ w' \in Nat /\ n' \in Nat /\ notified' \in Nat
    <2>1. /\ tx \in Seq(Up) /\ rx \in Seq(Down) /\ stack \in Seq(Frames) /\ adsp \in AdspSide
          /\ tx' \in Seq(Up) /\ rx' \in Seq(Down) /\ stack' \in Seq(Frames) /\ adsp' \in AdspSide
          /\ notified \in Nat /\ notified' \in Nat
      BY <1>1 DEF TypeInv
    <2> QED
      BY <2>1, NumType DEF AdspSide
  <1>20. /\ a \in Nat /\ t \in Nat /\ w \in Nat /\ n \in Nat /\ notified \in Nat
         /\ a' \in Nat /\ t' \in Nat /\ w' \in Nat /\ n' \in Nat /\ notified' \in Nat
    BY <1>2
  <1>3. AckSum = a + t + w + n /\ AckSum' = a' + t' + w' + n'
    BY DEF AckSum
  <1>4. /\ t' = Num(tx', PanAcks) /\ w' = Num(stack', AckWaits) /\ n' = Num(rx', Notes)
        /\ a' = adsp'.acks
    BY DEF Num, Positions, PanAcks, AckWaits, Notes
  <1> HIDE DEF a, t, w, n, Kind
  <1>21. AckSum' + notified \in Nat /\ AckSum + notified' \in Nat
    <2>1. (TypeInv => AckSum \in Nat)'
      BY AcksGrouped, PTL
    <2>2. AckSum \in Nat /\ AckSum' \in Nat
      BY <1>1, <2>1, AcksGrouped
    <2> QED
      BY <1>20, <2>2, Added
  <1>25. /\ AckSum = a + (t + w) + n /\ AckSum = a + t + (w + n)
         /\ AckSum' = a' + (t' + w') + n' /\ AckSum' = a' + t' + (w' + n')
    <2>1. (TypeInv => /\ AckSum = a + (t + w) + n
                      /\ AckSum = a + t + (w + n))'
      BY AcksGrouped, PTL DEF a, t, w, n
    <2> QED
      BY <1>1, <2>1, AcksGrouped DEF a, t, w, n
  <1>22. ASSUME AckSum' + notified = AckSum + notified' PROVE Goal
    BY <1>21, <1>22, Same
  <1>23. ASSUME UNCHANGED notified, a' = a, t' = t, w' <= w, n' = n
         PROVE  AckSum' + notified <= AckSum + notified'
    <2> DEFINE r == a + t + n + notified
    <2>1. r \in Nat /\ AckSum' + notified = r + w' /\ AckSum + notified' = r + w
      BY <1>20, <1>3, <1>23
    <2> HIDE DEF r
    <2> QED
      BY <1>20, <1>23, <2>1, NoMore
  <1>24. ASSUME UNCHANGED notified, a' = a, t' = t, w' = w, n' <= n
         PROVE  AckSum' + notified <= AckSum + notified'
    <2> DEFINE r == a + t + w + notified
    <2>1. r \in Nat /\ AckSum' + notified = r + n' /\ AckSum + notified' = r + n
      BY <1>20, <1>3, <1>24
    <2> HIDE DEF r
    <2> QED
      BY <1>20, <1>24, <2>1, NoMore
  <1>5. ASSUME NEW ms \in Seq(Up), tx' = tx \o ms, \A k \in DOMAIN ms : ms[k].cmd # "TX_DATA"
        PROVE  t' = t
    <2>1. Num(tx \o ms, PanAcks) = Num(tx, PanAcks) + Num(ms, PanAcks)
      BY <1>2, NumJoin
    <2>2. Num(ms, PanAcks) = 0
      BY <1>5, NumNone DEF PanAcks
    <2> QED
      BY <1>2, <1>4, <1>5, <2>1, <2>2 DEF t
  <1>6. ASSUME NEW m \in Up, tx' = Append(tx, m)
        PROVE  t' = t + One(m \in PanAcks)
    BY <1>2, <1>4, <1>6, NumAppend DEF t
  <1>7. ASSUME NEW ms \in Seq(Down), rx' = rx \o ms
        PROVE  n' = n + Num(ms, Notes)
    BY <1>2, <1>4, <1>7, NumJoin DEF n
  <1>8. ASSUME QuietStep PROVE Goal
    <2>1. UNCHANGED <<tx, rx, adsp, notified>>
      BY <1>8, QuietMoves
    <2>2. a' = a /\ t' = t /\ n' = n
      BY <1>4, <2>1 DEF a, t, n
    <2>3. w' <= w /\ (~TimeOut => w' = w)
      BY <1>4, <1>8, QuietAcks DEF w
    <2>4. AckSum' + notified <= AckSum + notified'
      BY <1>23, <2>1, <2>2, <2>3
    <2>5. Kind => w' = w
      BY <2>3 DEF Kind
    <2> QED
      BY <1>3, <2>1, <2>2, <2>4, <2>5
  <1>9. ASSUME CallOpen PROVE Goal
    <2>1. stack = <<>> /\ UNCHANGED <<rx, adsp, notified>> /\ a' = a /\ n' = n
      BY <1>4, <1>9, CallOpenFacts DEF a, n
    <2>2. CASE UNCHANGED <<stack, tx>>
      <3>1. t' = t /\ w' = w
        BY <1>4, <2>2 DEF t, w
      <3> QED
        BY <1>20, <1>3, <2>1, <3>1
    <2>3. CASE /\ tx' = Append(tx, Cmd("VERSION")) /\ DOMAIN stack' = 1 .. 1 /\ stack'[1].pc = "version"
      <3>1. Cmd("VERSION") \in Up /\ Cmd("VERSION") \notin PanAcks
        BY UpMessages DEF PanAcks
      <3>6. t' = t + One(Cmd("VERSION") \in PanAcks)
        BY <1>6, <2>3, <3>1
      <3>2. t' = t
        BY <1>20, <3>1, <3>6 DEF One
      <3>3. w = 0
        BY <2>1, NumEmpty DEF w
      <3>4. \A k \in DOMAIN stack' : stack'[k] \notin AckWaits
        BY <2>3 DEF AckWaits
      <3>5. w' = 0
        BY <1>2, <1>4, <3>4, NumNone
      <3> QED
        BY <1>20, <1>3, <2>1, <3>2, <3>3, <3>5
    <2> QED
      BY <1>9, <2>2, <2>3, CallOpenFacts
  <1>10. ASSUME PollMessage PROVE Goal
    <2> DEFINE m == Head(rx)
    <2>1. /\ stack # <<>> /\ rx # <<>> /\ rx' = Tail(rx) /\ m \in Down
          /\ tx' = Sent(Reply(m)) /\ UNCHANGED <<calls, adsp, notified>>
      BY <1>1, <1>10, PollMoves
    <2>2. a' = a /\ n = n' + One(m \in Notes)
      BY <1>2, <1>4, <2>1, NumTail DEF a, n
    <2>3. t' = t /\ Len(Reply(m)) \in 0 .. 2
      <3>1. pg \in Qpg /\ Len(tx) <= TxCap
        BY <1>1 DEF TypeInv
      <3>2. /\ Reply(m) \in Seq(Up) /\ Len(Reply(m)) \in 0 .. 2
            /\ \A k \in DOMAIN Reply(m) : Reply(m)[k].cmd # "TX_DATA"
        BY <2>1, <3>1, ReplyFacts
      <3>3. PICK c \in 0 .. Len(Reply(m)) :
               /\ Sent(Reply(m)) = tx \o SubSeq(Reply(m), 1, c)
               /\ SubSeq(Reply(m), 1, c) \in Seq(Up)
               /\ DOMAIN SubSeq(Reply(m), 1, c) = 1 .. c /\ DOMAIN Reply(m) = 1 .. Len(Reply(m))
               /\ \A k \in 1 .. c : SubSeq(Reply(m), 1, c)[k] = Reply(m)[k]
        BY <1>2, <3>1, <3>2, SentFacts
      <3> DEFINE ms == SubSeq(Reply(m), 1, c)
      <3>4. \A k \in DOMAIN ms : k \in DOMAIN Reply(m) /\ ms[k] = Reply(m)[k]
        BY <3>3
      <3>5. ms \in Seq(Up) /\ tx' = tx \o ms /\ \A k \in DOMAIN ms : ms[k].cmd # "TX_DATA"
        BY <2>1, <3>2, <3>3, <3>4
      <3> QED
        BY <1>5, <3>2, <3>5
    <2>4. CASE m.cmd = "TX_DATA" /\ pg.remote_opened /\ m.body = "NOTIFY" /\ Nests
      <3>1. m \in Notes
        BY <2>1, <2>4 DEF Notes
      <3>2. /\ stack'[Len(stack) + 1].op = "PAN_ACK" /\ stack'[Len(stack) + 1].pc = "riid"
            /\ Len(stack') = Len(stack) + 1 /\ Len(stack) \in Nat
        BY <1>2, <2>4, LenProperties DEF Nests
      <3>3. stack'[Len(stack) + 1] \in AckWaits
        <4>1. Len(stack) + 1 \in 1 .. Len(stack')
          BY <3>2
        <4>2. stack'[Len(stack) + 1] \in Frames
          BY <1>2, <4>1, ElementOfSeq
        <4> QED
          BY <3>2, <4>2 DEF AckWaits
      <3>4. w' = w + 1
        BY <1>1, <1>4, <2>4, <3>3, NestsNum DEF w, One
      <3>5. n = n' + 1
        BY <2>2, <3>1 DEF One
      <3> HIDE DEF m
      <3>7. w' + n' = w + n
        BY <1>20, <3>4, <3>5
      <3>6. AckSum' + notified = AckSum + notified'
        BY <1>25, <2>1, <2>2, <2>3, <3>7
      <3> QED
        BY <1>22, <3>6
    <2>5. CASE /\ stack' = stack
               /\ m.cmd = "TX_DATA" /\ pg.remote_opened /\ m.body = "NOTIFY" => ~Room(Len(Reply(m)))
      <3>1. w' = w
        BY <1>4, <2>5 DEF w
      <3>2. Kind => m \notin Notes
        <4> SUFFICES ASSUME Kind, m \in Notes PROVE FALSE
          OBVIOUS
        <4>1. m = rx[1] /\ 1 \in DOMAIN rx
          BY <1>2, <2>1, Beheaded
        <4>2. NoneLost /\ (rx[1] \in Notes => pg.remote_opened)
          BY <4>1 DEF Kind
        <4>3. ~Room(Len(Reply(m)))
          BY <2>5, <4>1, <4>2 DEF Notes
        <4> QED
          BY <1>10, <4>2, <4>3 DEF NoneLost
      <3> HIDE DEF m
      <3>6. PICK o \in {0, 1} : n = n' + o /\ (m \notin Notes => o = 0)
        BY <2>2 DEF One
      <3>3. n' <= n /\ (m \notin Notes => n = n')
        BY <1>20, <3>6, OneMore
      <3>4. Kind => n = n'
        BY <3>2, <3>3
      <3>5. AckSum' + notified <= AckSum + notified'
        BY <1>24, <2>1, <2>2, <2>3, <3>1, <3>3
      <3> QED
        BY <1>3, <2>1, <2>2, <2>3, <3>1, <3>4, <3>5
    <2> QED
      BY <1>1, <1>10, <2>4, <2>5, PollMoves
  <1>11. ASSUME AfterRemoteOpen PROVE Goal
    <2>1. /\ stack # <<>> /\ Len(stack) = 1 /\ Top.pc = "remote" /\ UNCHANGED <<rx, adsp, notified>>
          /\ Sets("open_ack") \/ Pops
      BY <1>11, RemoteOpenFacts
    <2>2. PICK ms \in Seq(Up) : tx' = tx \o ms /\ \A k \in DOMAIN ms : ms[k].cmd \in {"OPEN_ACK", "OPEN"}
      BY <1>11, RemoteOpenFacts
    <2>3. t' = t /\ a' = a /\ n' = n
      BY <1>4, <1>5, <2>1, <2>2 DEF a, n
    <2>4. Top \notin AckWaits
      BY <2>1 DEF AckWaits
    <2>5. w' = w
      <3>1. CASE Pops
        BY <1>1, <1>2, <1>4, <2>1, <2>4, <3>1, PopsNum DEF w, One
      <3>2. CASE Sets("open_ack")
        <4>1. stack'[Len(stack)] \notin AckWaits
          BY <3>2 DEF AckWaits, Sets
        <4> QED
          BY <1>1, <1>2, <1>4, <2>1, <2>4, <3>2, <4>1, SetsNum DEF w, One
      <3> QED
        BY <2>1, <3>1, <3>2
    <2> QED
      BY <1>20, <1>3, <2>1, <2>3, <2>5
  <1>12. ASSUME AfterOpenAck PROVE Goal
    <2> DEFINE i == WithId("INTENT", pg.next_liid)
    <2>1. /\ stack # <<>> /\ Len(stack) = 1 /\ Top.pc = "open_ack" /\ UNCHANGED <<rx, adsp, notified>>
          /\ i \in Up /\ i.cmd = "INTENT"
          /\ (tx' = Append(tx, i) /\ Sets("prewarm")) \/ (UNCHANGED tx /\ Pops)
      BY <1>12, OpenAckFacts DEF WithId
    <2> HIDE DEF i
    <2>2. Top \notin AckWaits /\ i \notin PanAcks
      BY <2>1 DEF AckWaits, PanAcks
    <2>3. a' = a /\ n' = n
      BY <1>4, <2>1 DEF a, n
    <2>4. CASE UNCHANGED tx /\ Pops
      <3>1. w' = w /\ t' = t
        BY <1>1, <1>2, <1>4, <2>1, <2>2, <2>4, PopsNum DEF w, t, One
      <3> QED
        BY <1>20, <1>3, <2>1, <2>3, <3>1
    <2>5. CASE tx' = Append(tx, i) /\ Sets("prewarm")
      <3>1. stack'[Len(stack)] \notin AckWaits
        BY <2>5 DEF AckWaits, Sets
      <3>2. w' = w
        BY <1>1, <1>2, <1>4, <2>1, <2>2, <2>5, <3>1, SetsNum DEF w, One
      <3>4. t' = t + One(i \in PanAcks)
        BY <1>6, <2>1, <2>5
      <3>3. t' = t
        BY <1>20, <2>2, <3>4 DEF One
      <3> QED
        BY <1>20, <1>3, <2>1, <2>3, <3>2, <3>3
    <2> QED
      BY <2>1, <2>4, <2>5
  <1>13. ASSUME AfterRiid PROVE Goal
    <2> DEFINE d == Data(pg.riid, Top.op)
    <2>1. /\ stack # <<>> /\ Top.pc = "riid" /\ UNCHANGED <<rx, adsp, notified>>
          /\ d \in Up /\ d.cmd = "TX_DATA" /\ d.body = Top.op
          /\ (tx' = Append(tx, d) /\ Sets("answer")) \/ (~Room(1) /\ UNCHANGED tx /\ Pops)
      BY <1>13, RiidFacts DEF Data
    <2> HIDE DEF d
    <2>2. Top \in AckWaits <=> d \in PanAcks
      BY <1>1, <2>1, TopFacts DEF AckWaits, PanAcks
    <2>3. a' = a /\ n' = n
      BY <1>4, <2>1 DEF a, n
    <2>4. CASE ~Room(1) /\ UNCHANGED tx /\ Pops
      <3>1. w = w' + One(Top \in AckWaits) /\ t' = t
        BY <1>1, <1>4, <2>1, <2>4, PopsNum DEF w, t
      <3>2. ~Kind
        BY <1>13, <2>4 DEF Kind, NoneLost
      <3>5. PICK o \in {0, 1} : w = w' + o
        BY <3>1 DEF One
      <3>3. w' <= w
        BY <1>20, <3>5, OneMore
      <3>4. AckSum' + notified <= AckSum + notified'
        BY <1>23, <2>1, <2>3, <3>1, <3>3
      <3> QED
        BY <3>2, <3>4
    <2>5. CASE tx' = Append(tx, d) /\ Sets("answer")
      <3>1. stack'[Len(stack)] \notin AckWaits
        BY <2>5 DEF AckWaits, Sets
      <3>2. w' + One(Top \in AckWaits) = w
        BY <1>1, <1>2, <1>4, <2>1, <2>5, <3>1, SetsNum DEF w, One
      <3>3. t' = t + One(d \in PanAcks)
        BY <1>6, <2>1, <2>5
      <3>4. One(d \in PanAcks) = One(Top \in AckWaits) /\ One(d \in PanAcks) \in {0, 1}
        BY <2>2 DEF One
      <3>5. t' + w' = t + w
        BY <1>20, <3>2, <3>3, <3>4, Shifted
      <3>6. AckSum' + notified = AckSum + notified'
        BY <1>25, <2>1, <2>3, <3>5
      <3> QED
        BY <1>22, <3>6
    <2> QED
      BY <2>1, <2>4, <2>5
  <1>14. ASSUME AdspVersion \/ AdspAdvertise \/ AdspAskIntent PROVE Goal
    <2>1. PICK c \in {"VERSION", "OPEN", "RX_INTENT_REQ"} :
             /\ AdspStep /\ UNCHANGED <<tx, notified>> /\ Cmd(c) \in Down /\ Cmd(c).cmd = c
             /\ rx' = rx \o <<Cmd(c)>> /\ adsp'.acks = adsp.acks
      BY <1>14, SpeaksFacts
    <2>2. <<Cmd(c)>> \in Seq(Down) /\ Num(<<Cmd(c)>>, Notes) = 0
      BY <2>1, Single, NumSingle DEF Notes, One
    <2>6. n' = n + Num(<<Cmd(c)>>, Notes)
      BY <1>7, <2>1, <2>2
    <2>3. n' = n
      BY <1>20, <2>2, <2>6
    <2>4. a' = a /\ t' = t /\ w' = w
      BY <1>4, <2>1 DEF a, t, w, AdspStep
    <2> QED
      BY <1>20, <1>3, <2>1, <2>3, <2>4
  <1>15. ASSUME AdspReceive PROVE Goal
    <2> DEFINE m == Head(tx)
    <2>1. /\ AdspStep /\ tx # <<>> /\ tx' = Tail(tx) /\ m \in Up /\ UNCHANGED notified
          /\ AdspSends(Back(m))
          /\ adsp'.acks = IF m.cmd = "TX_DATA" /\ m.body = "PAN_ACK" THEN adsp.acks + 1 ELSE adsp.acks
      BY <1>15, ReceiveFacts
    <2>2. Back(m) \in Seq(Down) /\ \A k \in DOMAIN Back(m) : Back(m)[k].cmd # "TX_DATA"
      BY <2>1, BackFacts
    <2>3. Num(Back(m), Notes) = 0
      BY <2>2, NumNone DEF Notes
    <2>8. n' = n + Num(Back(m), Notes)
      BY <1>7, <2>1, <2>2 DEF AdspSends
    <2>4. n' = n
      BY <1>20, <2>3, <2>8
    <2>5. t = t' + One(m \in PanAcks)
      BY <1>2, <1>4, <2>1, NumTail DEF t
    <2>6. a' = a + One(m \in PanAcks)
      BY <1>2, <1>4, <2>1 DEF a, One, PanAcks
    <2>7. w' = w
      BY <1>4, <2>1 DEF w, AdspStep
    <2> HIDE DEF m
    <2>9. One(m \in PanAcks) \in {0, 1}
      BY DEF One
    <2>10. a' + t' = a + t
      BY <1>20, <2>5, <2>6, <2>9, Shifted
    <2>11. AckSum' + notified = AckSum + notified'
      BY <1>20, <1>3, <2>1, <2>4, <2>7, <2>10
    <2> QED
      BY <1>22, <2>11
  <1>16. ASSUME AdspRelease PROVE Goal
    <2>1. PICK id \in adsp.busy :
             /\ AdspStep /\ UNCHANGED <<tx, notified>> /\ id \in RemoteIntent
             /\ WithId("RX_DONE_W_REUSE", id) \in Down /\ WithId("RX_DONE", id) \in Down
             /\ WithId("INTENT", id) \in Down
             /\ \/ rx' = rx \o <<WithId("RX_DONE_W_REUSE", id)>>
                \/ rx' = rx \o <<WithId("RX_DONE", id), WithId("INTENT", id)>>
             /\ adsp'.acks = adsp.acks
      BY <1>16, ReleaseFacts
    <2> DEFINE u == WithId("RX_DONE_W_REUSE", id)
               d == WithId("RX_DONE", id)
               i == WithId("INTENT", id)
    <2>2. u \notin Notes /\ d \notin Notes /\ i \notin Notes /\ u \in Down /\ d \in Down /\ i \in Down
      BY <2>1 DEF Notes, WithId
    <2> HIDE DEF u, d, i
    <2>3. PICK ms \in Seq(Down) : rx' = rx \o ms /\ \A k \in DOMAIN ms : ms[k] \notin Notes
      <3>1. <<u>> \in Seq(Down) /\ \A k \in DOMAIN <<u>> : <<u>>[k] \notin Notes
        BY <2>2, Single
      <3>2. <<d, i>> \in Seq(Down) /\ DOMAIN <<d, i>> = 1 .. 2 /\ <<d, i>>[1] = d /\ <<d, i>>[2] = i
        BY <2>2
      <3>3. \A k \in DOMAIN <<d, i>> : <<d, i>>[k] \notin Notes
        BY <2>2, <3>2
      <3>4. rx' = rx \o <<u>> \/ rx' = rx \o <<d, i>>
        BY <2>1 DEF u, d, i
      <3> QED
        BY <3>1, <3>2, <3>3, <3>4
    <2>6. n' = n + Num(ms, Notes) /\ Num(ms, Notes) = 0
      BY <1>7, <2>3, NumNone
    <2>4. n' = n
      BY <1>20, <2>6
    <2>5. a' = a /\ t' = t /\ w' = w
      BY <1>4, <2>1 DEF a, t, w, AdspStep
    <2> QED
      BY <1>20, <1>3, <2>1, <2>4, <2>5
  <1>17. ASSUME AdspAnswer PROVE Goal
    <2>1. PICK id \in adsp.free :
             /\ AdspStep /\ UNCHANGED <<tx, notified>> /\ Answer(Head(adsp.todo)) \in Flags /\ id \in Ids
             /\ AdspSends(<<Data(id, Answer(Head(adsp.todo)))>>) /\ adsp'.acks = adsp.acks
      BY <1>17, AdspAnswerFacts
    <2> DEFINE d == Data(id, Answer(Head(adsp.todo)))
    <2>2. d \in Down /\ d \notin Notes /\ rx' = rx \o <<d>>
      BY <2>1, DownMessages DEF Notes, Flags, AdspSends
    <2> HIDE DEF d
    <2>3. <<d>> \in Seq(Down) /\ Num(<<d>>, Notes) = 0
      BY <2>2, Single, NumSingle DEF One
    <2>6. n' = n + Num(<<d>>, Notes)
      BY <1>7, <2>2, <2>3
    <2>4. n' = n
      BY <1>20, <2>3, <2>6
    <2>5. a' = a /\ t' = t /\ w' = w
      BY <1>4, <2>1 DEF a, t, w, AdspStep
    <2> QED
      BY <1>20, <1>3, <2>1, <2>4, <2>5
  <1>18. ASSUME AdspNotify PROVE Goal
    <2>1. PICK id \in adsp.free :
             /\ AdspStep /\ UNCHANGED tx /\ notified' = notified + 1 /\ id \in Ids
             /\ AdspSends(<<Data(id, "NOTIFY")>>) /\ adsp'.acks = adsp.acks
      BY <1>18, AdspNotifyFacts
    <2> DEFINE d == Data(id, "NOTIFY")
    <2>2. d \in Down /\ d \in Notes /\ rx' = rx \o <<d>>
      BY <2>1, DownMessages DEF Notes, AdspSends
    <2> HIDE DEF d
    <2>3. <<d>> \in Seq(Down) /\ Num(<<d>>, Notes) = 1
      BY <2>2, Single, NumSingle DEF One
    <2>6. n' = n + Num(<<d>>, Notes)
      BY <1>7, <2>2, <2>3
    <2>4. n' = n + 1
      BY <2>3, <2>6
    <2>5. a' = a /\ t' = t /\ w' = w
      BY <1>4, <2>1 DEF a, t, w, AdspStep
    <2> QED
      BY <1>20, <1>3, <2>1, <2>4, <2>5
  <1> HIDE DEF Goal
  <1>19. Goal
    BY <1>8, <1>9, <1>10, <1>11, <1>12, <1>13, <1>14, <1>15, <1>16, <1>17, <1>18, Steps
  <1> QED
    BY <1>19 DEF Goal, Kind

(* No acknowledgement of a notification is made up or repeated: on any     *)
(* number of opens, through timeouts, nested waits and lost replies.       *)
THEOREM AcksAreNotRepeated == Spec => []NeverOverAcked
  <1> DEFINE I == SessionInv /\ AckSum <= notified
  <1>1. Init => I
    <2> SUFFICES ASSUME Init PROVE AckSum <= notified
      BY SessionStart
    <2>1. adsp.acks = 0 /\ notified = 0 /\ tx = <<>> /\ stack = <<>> /\ rx = <<>>
      BY DEF Init, FreshAdsp
    <2>2. Num(tx, PanAcks) = 0 /\ Num(stack, AckWaits) = 0 /\ Num(rx, Notes) = 0
      BY <2>1, NumEmpty
    <2> QED
      BY <2>1, <2>2 DEF AckSum
  <1>2. I /\ [Next]_vars => I'
    <2> SUFFICES ASSUME I, [Next]_vars PROVE AckSum' <= notified'
      BY SessionStep
    <2>1. AckSum \in Nat /\ notified \in Nat /\ AckSum' \in Nat /\ notified' \in Nat
      <3>1. TypeInv /\ TypeInv'
        BY SessionStep DEF SessionInv
      <3>2. AckSum \in Nat /\ notified \in Nat
        BY <3>1, AcksCounted
      <3>3. (TypeInv => AckSum \in Nat /\ notified \in Nat)'
        BY AcksCounted, PTL
      <3> QED
        BY <3>1, <3>2, <3>3
    <2>2. CASE Next
      <3>1. AckSum' + notified <= AckSum + notified' /\ AckSum <= notified
        BY <2>2, AckStep
      <3> QED
        BY <2>1, <3>1, Carried
    <2>3. CASE UNCHANGED vars
      BY <2>3 DEF vars, AckSum
    <2> QED
      BY <2>2, <2>3
  <1>3. I => NeverOverAcked
    BY AcksCounted DEF SessionInv, NeverOverAcked
  <1> QED
    BY <1>1, <1>2, <1>3, PTL DEF Spec


-----------------------------------------------------------------------------
(* One open: the handshake in order. *)

LEMMA OneOrMore == \A n \in Nat \ {0} : n > 1 \/ n = 1
  OBVIOUS

LEMMA QuietFirst ==
  ASSUME SessionInv, QuietStep
  PROVE  /\ stack' # <<>> =>
               \/ stack # <<>> /\ stack'[1].pc = stack[1].pc
               \/ stack # <<>> /\ stack[1].pc = "version" /\ stack'[1].pc = "remote" /\ pg.version_acked
               \/ stack # <<>> /\ stack[1].pc \in {"pan", "prewarm"} /\ stack'[1].pc \in {"discover", "pan"}
               \/ stack # <<>> /\ stack[1].pc = "sel" /\ stack'[1].pc = "read"
               \/ stack = <<>> /\ pg.session_ready /\ stack'[1].pc \in {"poll", "sel"}
         /\ calls' = 0 => calls = 0 /\ stack # <<>>
  <1> DEFINE Goal == /\ stack' # <<>> =>
                           \/ stack # <<>> /\ stack'[1].pc = stack[1].pc
                           \/ /\ stack # <<>> /\ stack[1].pc = "version" /\ stack'[1].pc = "remote"
                              /\ pg.version_acked
                           \/ /\ stack # <<>> /\ stack[1].pc \in {"pan", "prewarm"}
                              /\ stack'[1].pc \in {"discover", "pan"}
                           \/ stack # <<>> /\ stack[1].pc = "sel" /\ stack'[1].pc = "read"
                           \/ stack = <<>> /\ pg.session_ready /\ stack'[1].pc \in {"poll", "sel"}
                     /\ calls' = 0 => calls = 0 /\ stack # <<>>
  <1>1. TypeInv /\ StackInv /\ stack \in Seq(Frames)
    BY DEF SessionInv, TypeInv
  <1>2. CASE QuietPops
    <2>1. Len(stack) \in Nat \ {0} /\ Len(stack') = Len(stack) - 1 /\ stack' \in Seq(Frames)
      BY <1>1, <1>2, TopFacts DEF QuietPops, Pops
    <2>2. stack' # <<>> => Len(stack) > 1
      BY <2>1, EmptySeq
    <2>3. stack' # <<>> => 1 \in 1 .. Len(stack) - 1
      BY <2>1, <2>2
    <2>4. stack' # <<>> => stack'[1] = stack[1]
      BY <1>2, <2>3 DEF QuietPops, Pops
    <2> QED
      BY <1>2, <2>4 DEF QuietPops
  <1>3. ASSUME NEW pc \in Pcs, QuietSets(pc) PROVE Goal
    <2>1. Len(stack) \in Nat \ {0} /\ Top = stack[Len(stack)] /\ stack # <<>> /\ calls' = calls
      BY <1>1, <1>3, TopFacts DEF QuietSets
    <2>2. CASE Len(stack) > 1
      <3>1. 1 \in 1 .. Len(stack) - 1
        BY <2>1, <2>2
      <3>2. stack'[1] = stack[1]
        BY <1>3, <3>1 DEF QuietSets, Sets
      <3> QED
        BY <2>1, <3>2
    <2>3. CASE Len(stack) = 1
      <3>1. stack'[1].pc = pc /\ Top = stack[1]
        BY <1>3, <2>1, <2>3 DEF QuietSets, Sets
      <3> QED
        BY <1>3, <2>1, <3>1 DEF QuietSets
    <2> HIDE DEF Goal
    <2>5. Len(stack) \in Nat \ {0}
      BY <2>1
    <2>4. Len(stack) > 1 \/ Len(stack) = 1
      BY <2>5, OneOrMore
    <2> QED
      BY <2>2, <2>3, <2>4
  <1>4. ASSUME NEW pc \in Callers, NEW r \in Req \ {"PAN_ACK"}, QuietStarts(pc, r) PROVE Goal
    BY <1>4 DEF QuietStarts, Starts
  <1>5. CASE QuietCalls
    BY <1>5 DEF QuietCalls
  <1> QED
    BY <1>2, <1>3, <1>4, <1>5, QuietMoves

LEMMA HandshakeStart == Init => HandshakeInv
  <1> SUFFICES ASSUME Init PROVE HandshakeInv
    OBVIOUS
  <1>1. stack = <<>> /\ tx = <<>> /\ rx = <<>> /\ pg = FreshPg /\ ~adsp.open
    BY DEF Init, FreshAdsp
  <1>2. \A c : ~Has(<<>>, c) /\ Once(<<>>, c)
    BY DEF Has, Once
  <1> QED
    BY <1>1, <1>2, FreshFacts DEF HandshakeInv, BeforeCalls, VersionFirst, OpenFirst

LEMMA HandshakeQuiet ==
  ASSUME SessionInv, HandshakeInv, QuietStep
  PROVE  HandshakeInv'
  <1>1. /\ UNCHANGED <<tx, rx, adsp>> /\ Link(pg') = Link(pg)
        /\ pg'.session_ready => pg.session_ready \/ (Len(stack) = 1 /\ stack[1].pc = "discover")
    BY QuietMoves
  <1>2. /\ pg'.version_acked = pg.version_acked /\ pg'.local_open_sent = pg.local_open_sent
        /\ pg'.remote_opened = pg.remote_opened /\ pg'.open_acked = pg.open_acked
    BY <1>1 DEF Link
  <1>3. Len(stack) = 1 => stack # <<>>
    BY EmptySeq DEF SessionInv, TypeInv
  <1>4. BeforeCalls'
    BY QuietFirst DEF BeforeCalls, HandshakeInv
  <1>5. VersionFirst'
    BY <1>1, <1>2, <1>3, QuietFirst DEF VersionFirst, HandshakeInv
  <1>6. OpenFirst'
    <2>1. ASSUME stack' # <<>>, stack'[1].pc \in {"prewarm", "pan", "discover"}
          PROVE  stack # <<>> /\ stack[1].pc \in {"prewarm", "pan", "discover"}
      BY <2>1, QuietFirst
    <2> QED
      BY <1>1, <1>2, <2>1 DEF OpenFirst, HandshakeInv
  <1> QED
    BY <1>4, <1>5, <1>6 DEF HandshakeInv

LEMMA HandshakeCalls ==
  ASSUME SessionInv, HandshakeInv, CallOpen, OneOpen
  PROVE  HandshakeInv'
  <1>1. /\ stack = <<>> /\ calls' = calls + 1 /\ calls \in Nat /\ UNCHANGED <<rx, adsp>>
        /\ tx \in Seq(Up)
    BY CallOpenFacts DEF SessionInv, TypeInv
  <1>2. BeforeCalls'
    BY <1>1 DEF BeforeCalls
  <1>3. CASE pg.session_ready
    <2>1. UNCHANGED <<pg, stack, tx>>
      BY <1>3, CallOpenFacts
    <2> QED
      BY <1>1, <1>2, <2>1 DEF HandshakeInv, VersionFirst, OpenFirst
  <1>4. CASE ~pg.session_ready
    <2>1. tx = <<>> /\ ~adsp.open /\ ~Has(rx, "VERSION_ACK") /\ ~Has(rx, "OPEN_ACK") /\ pg' = FreshPg
      BY <1>4, CallOpenFacts DEF OneOpen, HandshakeInv, BeforeCalls
    <2>2. \A c : ~Has(<<>>, c) /\ Once(<<>>, c)
      BY DEF Has, Once
    <2>3. ~Has(tx', "OPEN") /\ Once(tx', "VERSION") /\ (stack' # <<>> => stack'[1].pc = "version")
      <3>1. CASE UNCHANGED <<stack, tx>>
        BY <1>1, <2>1, <2>2, <3>1
      <3>2. CASE tx' = Append(tx, Cmd("VERSION")) /\ stack'[1].pc = "version"
        <4>1. tx' = <<Cmd("VERSION")>>
          BY <2>1, <3>2
        <4>2. DOMAIN tx' = {1} /\ tx'[1].cmd = "VERSION"
          BY <4>1, UpMessages
        <4> QED
          BY <3>2, <4>2 DEF Has, Once
      <3> QED
        BY <1>4, <3>1, <3>2, CallOpenFacts
    <2> QED
      BY <1>1, <1>2, <2>1, <2>3, FreshFacts DEF HandshakeInv, VersionFirst, OpenFirst
  <1> QED
    BY <1>3, <1>4


(* What a poll does besides its reply to the message. *)
Replies == {"VERSION_ACK", "INTENT", "RX_INTENT_REQ_ACK", "RX_DONE_W_REUSE"}

LEMMA PollFacts ==
  ASSUME SessionInv, PollMessage
  PROVE  /\ stack # <<>> /\ stack' # <<>> /\ stack'[1] = stack[1] /\ Len(stack') >= Len(stack)
         /\ \A k \in DOMAIN stack : k \in DOMAIN stack' /\ stack'[k] = stack[k]
         /\ rx # <<>> /\ rx' = Tail(rx) /\ Head(rx) \in Down /\ UNCHANGED <<calls, adsp, notified>>
         /\ Link(pg') = Link(Handled(Head(rx))) /\ pg'.session_ready = pg.session_ready
         /\ \A f \in Flags \ {"PAN"} : pg'.acked[f] = Handled(Head(rx)).acked[f]
         /\ \E ms \in Seq(Up) : /\ tx' = tx \o ms /\ (Room(Len(Reply(Head(rx)))) => ms = Reply(Head(rx)))
                                /\ \A k \in DOMAIN ms : ms[k].cmd \in Replies
  <1> DEFINE m == Head(rx)
  <1>1. TypeInv /\ StackInv /\ pg \in Qpg /\ tx \in Seq(Up) /\ Len(tx) <= TxCap /\ rx \in Seq(Down)
        /\ stack \in Seq(Frames)
    BY DEF SessionInv, TypeInv
  <1>2. /\ stack # <<>> /\ rx # <<>> /\ rx' = Tail(rx) /\ m \in Down
        /\ tx' = Sent(Reply(m)) /\ UNCHANGED <<calls, adsp, notified>>
    BY <1>1, PollMoves
  <1>3. Len(stack) \in Nat \ {0} /\ DOMAIN stack = 1 .. Len(stack)
    BY <1>1, <1>2, TopFacts
  <1>4. Handled(m) \in Qpg /\ Handled(m).session_ready = pg.session_ready
    BY <1>1, <1>2, HandledFacts
  <1> HIDE DEF m
  <1>5. /\ stack' \in Seq(Frames) /\ Len(stack') \in Nat /\ Len(stack') >= Len(stack)
        /\ \A k \in DOMAIN stack : k \in DOMAIN stack' /\ stack'[k] = stack[k]
    <2>1. CASE stack' = stack
      BY <1>1, <1>3, <2>1
    <2>2. CASE Nests
      <3>1. stack' \in Seq(Frames) /\ Len(stack') = Len(stack) + 1
        BY <2>2 DEF Nests
      <3>2. DOMAIN stack' = 1 .. Len(stack) + 1
        BY <3>1, LenProperties
      <3> QED
        BY <1>3, <2>2, <3>1, <3>2 DEF Nests
    <2> QED
      BY <1>1, <2>1, <2>2, PollMoves
  <1>6. 1 \in DOMAIN stack /\ 1 \in DOMAIN stack'
    BY <1>3, <1>5
  <1>7. stack' # <<>> /\ stack'[1] = stack[1]
    BY <1>5, <1>6, EmptySeq, LenProperties
  <1>8. /\ Link(pg') = Link(Handled(m)) /\ pg'.session_ready = pg.session_ready
        /\ \A f \in Flags \ {"PAN"} : pg'.acked[f] = Handled(m).acked[f]
    <2>1. CASE pg' = Handled(m)
      BY <1>4, <2>1
    <2>2. CASE pg' = Clear(Handled(m), "PAN_ACK")
      <3>1. "PAN_ACK" \in Req /\ Answer("PAN_ACK") = "PAN"
        BY DEF Req, PanReq, Answer
      <3> QED
        BY <1>4, <2>2, <3>1, Clears
    <2> QED
      BY <1>1, <2>1, <2>2, PollMoves DEF m
  <1>9. \E ms \in Seq(Up) : /\ tx' = tx \o ms /\ (Room(Len(Reply(m))) => ms = Reply(m))
                            /\ \A k \in DOMAIN ms : ms[k].cmd \in Replies
    <2>1. /\ Reply(m) \in Seq(Up) /\ Len(Reply(m)) \in 0 .. 2
          /\ \A k \in DOMAIN Reply(m) : Reply(m)[k].cmd \in Replies
      BY <1>1, <1>2, ReplyFacts DEF Replies
    <2>2. PICK n \in 0 .. Len(Reply(m)) :
             /\ Sent(Reply(m)) = tx \o SubSeq(Reply(m), 1, n)
             /\ SubSeq(Reply(m), 1, n) \in Seq(Up) /\ Len(SubSeq(Reply(m), 1, n)) = n
             /\ DOMAIN SubSeq(Reply(m), 1, n) = 1 .. n /\ DOMAIN Reply(m) = 1 .. Len(Reply(m))
             /\ \A k \in 1 .. n : SubSeq(Reply(m), 1, n)[k] = Reply(m)[k]
             /\ Room(Len(Reply(m))) => n = Len(Reply(m))
      BY <1>1, <2>1, SentFacts
    <2> DEFINE ms == SubSeq(Reply(m), 1, n)
    <2>3. ms \in Seq(Up) /\ tx' = tx \o ms /\ DOMAIN ms = 1 .. n /\ \A k \in 1 .. n : ms[k] = Reply(m)[k]
      BY <1>2, <2>2
    <2>7. Len(Reply(m)) \in Nat
      BY <2>1
    <2>8. 1 .. n \subseteq 1 .. Len(Reply(m))
      BY <2>7
    <2>9. DOMAIN Reply(m) = 1 .. Len(Reply(m))
      BY <2>2
    <2>4. \A k \in DOMAIN ms : k \in DOMAIN Reply(m) /\ ms[k] = Reply(m)[k]
      BY <2>3, <2>8, <2>9
    <2>5. \A k \in DOMAIN ms : ms[k].cmd \in Replies
      BY <2>1, <2>4
    <2>6. Room(Len(Reply(m))) => ms = Reply(m)
      <3> SUFFICES ASSUME Room(Len(Reply(m))) PROVE ms = Reply(m)
        OBVIOUS
      <3>3. n = Len(Reply(m))
        BY <2>2
      <3>4. Len(ms) = Len(Reply(m)) /\ \A k \in 1 .. Len(ms) : ms[k] = Reply(m)[k]
        BY <2>2, <3>3
      <3> HIDE DEF ms
      <3> QED
        BY <2>1, <2>3, <3>4, SeqEqual
    <2> HIDE DEF ms
    <2> QED
      BY <2>3, <2>5, <2>6
  <1> QED
    BY <1>2, <1>5, <1>7, <1>8, <1>9 DEF m

LEMMA BackAcks ==
  ASSUME NEW m \in Up
  PROVE  /\ Has(Back(m), "VERSION_ACK") => m.cmd = "VERSION"
         /\ Has(Back(m), "OPEN_ACK") => m.cmd = "OPEN"
         /\ Has(Back(m), "INTENT") => m.cmd = "OPEN"
  <1>1. CASE m.cmd = "VERSION"
    <2> DEFINE v == Cmd("VERSION_ACK")
    <2>1. Back(m) = <<v>> /\ v \in Down /\ v.cmd = "VERSION_ACK"
      BY <1>1, DownMessages DEF Back
    <2> HIDE DEF v
    <2>2. \A k \in DOMAIN Back(m) : Back(m)[k].cmd = "VERSION_ACK"
      BY <2>1
    <2> QED
      BY <1>1, <2>2 DEF Has
  <1>2. CASE m.cmd = "OPEN"
    <2> DEFINE v == Cmd("OPEN_ACK")
    <2>1. Back(m) = <<v>> \o PostIntents /\ v \in Down /\ v.cmd = "OPEN_ACK"
      BY <1>2, DownMessages DEF Back
    <2> HIDE DEF v
    <2>2. <<v>> \in Seq(Down) /\ \A k \in DOMAIN <<v>> : <<v>>[k].cmd = "OPEN_ACK"
      BY <2>1, Single
    <2>3. PostIntents \in Seq(Down) /\ \A k \in DOMAIN PostIntents : PostIntents[k].cmd = "INTENT"
      BY PostFacts
    <2>4. ~Has(<<v>>, "VERSION_ACK") /\ ~Has(PostIntents, "VERSION_ACK")
      BY <2>2, <2>3 DEF Has
    <2> DEFINE s == <<v>>
    <2>5. s \in Seq(Down) /\ ~Has(s, "VERSION_ACK") /\ Back(m) = s \o PostIntents
      BY <2>1, <2>2, <2>4
    <2> HIDE DEF s
    <2>6. ~Has(Back(m), "VERSION_ACK")
      BY <2>3, <2>4, <2>5, JoinedHas
    <2> QED
      BY <1>2, <2>6
  <1>3. CASE m.cmd # "VERSION" /\ m.cmd # "OPEN"
    <2>1. Back(m) = <<>>
      BY <1>3 DEF Back
    <2>2. \A c : ~Has(Back(m), c)
      BY <2>1 DEF Has
    <2> QED
      BY <2>2
  <1> QED
    BY <1>1, <1>2, <1>3


LEMMA HandshakePoll ==
  ASSUME SessionInv, HandshakeInv, PollMessage
  PROVE  HandshakeInv'
  <1> DEFINE m == Head(rx)
             h == Handled(m)
  <1>1. pg \in Qpg /\ tx \in Seq(Up) /\ rx \in Seq(Down) /\ rx # <<>> /\ rx' = Tail(rx) /\ m \in Down
        /\ stack # <<>> /\ stack' # <<>> /\ stack'[1] = stack[1] /\ UNCHANGED <<calls, adsp>>
    BY PollFacts DEF SessionInv, TypeInv
  <1>2. /\ pg'.version_acked = h.version_acked /\ pg'.local_open_sent = h.local_open_sent
        /\ pg'.remote_opened = h.remote_opened /\ pg'.open_acked = h.open_acked
        /\ pg'.session_ready = pg.session_ready
    BY PollFacts DEF Link
  <1>3. /\ m.cmd = "VERSION_ACK" \/ pg'.version_acked = pg.version_acked
        /\ m.cmd = "VERSION_ACK" => pg'.version_acked
        /\ m.cmd = "OPEN" \/ pg'.remote_opened = pg.remote_opened
        /\ m.cmd = "OPEN" => pg'.remote_opened
        /\ m.cmd = "OPEN_ACK" \/ pg'.open_acked = pg.open_acked
        /\ m.cmd = "OPEN_ACK" => pg'.open_acked
        /\ pg'.local_open_sent = pg.local_open_sent
    BY <1>1, <1>2, HandledFacts
  <1> HIDE DEF h
  <1>4. PICK ms \in Seq(Up) : tx' = tx \o ms /\ \A k \in DOMAIN ms : ms[k].cmd \in Replies
    BY PollFacts
  <1>5. ~Has(ms, "VERSION") /\ ~Has(ms, "OPEN")
    BY <1>4 DEF Has, Replies
  <1>6. /\ Has(tx', "VERSION") => Has(tx, "VERSION")
        /\ Has(tx', "OPEN") => Has(tx, "OPEN")
        /\ Once(tx, "VERSION") => Once(tx', "VERSION")
    BY <1>1, <1>4, <1>5, JoinedHas
  <1>7. \A c : (Has(rx', c) => Has(rx, c)) /\ (m.cmd = c => Has(rx, c))
    BY <1>1, TailHas
  <1> HIDE DEF m
  <1>8. BeforeCalls'
    BY <1>1 DEF HandshakeInv, BeforeCalls
  <1>9. VersionFirst'
    BY <1>1, <1>2, <1>3, <1>6, <1>7 DEF HandshakeInv, VersionFirst
  <1>10. OpenFirst'
    BY <1>1, <1>3, <1>6, <1>7 DEF HandshakeInv, OpenFirst
  <1> QED
    BY <1>8, <1>9, <1>10 DEF HandshakeInv

(* The driver sends: the stack stays at its first frame, or moves there. *)
LEMMA HandshakeSends ==
  ASSUME SessionInv, HandshakeInv, stack # <<>>, NEW ms \in Seq(Up), tx' = tx \o ms,
         ~Has(ms, "VERSION"), UNCHANGED <<calls, rx, adsp>>,
         pg'.version_acked = pg.version_acked, pg'.session_ready = pg.session_ready,
         pg'.open_acked = pg.open_acked, pg'.remote_opened = pg.remote_opened,
         pg.local_open_sent => pg'.local_open_sent, Has(ms, "OPEN") => pg'.local_open_sent,
         ~pg.local_open_sent /\ pg'.local_open_sent => pg.remote_opened /\ pg.version_acked,
         stack' # <<>> => \/ stack'[1].pc = stack[1].pc
                          \/ stack[1].pc # "version" /\ stack'[1].pc = "open_ack"
                          \/ stack[1].pc # "version" /\ stack'[1].pc = "prewarm" /\ pg.open_acked
  PROVE  HandshakeInv'
  <1>1. tx \in Seq(Up) /\ pg \in Qpg
    BY DEF SessionInv, TypeInv
  <1>2. /\ Has(tx', "VERSION") => Has(tx, "VERSION")
        /\ Has(tx', "OPEN") => Has(tx, "OPEN") \/ Has(ms, "OPEN")
        /\ Once(tx, "VERSION") => Once(tx', "VERSION")
    BY <1>1, JoinedHas
  <1>3. BeforeCalls'
    BY DEF HandshakeInv, BeforeCalls
  <1>4. VersionFirst'
    BY <1>2 DEF HandshakeInv, VersionFirst
  <1>5. OpenFirst'
    BY <1>2 DEF HandshakeInv, OpenFirst
  <1> QED
    BY <1>3, <1>4, <1>5 DEF HandshakeInv

LEMMA HandshakeRemoteOpen ==
  ASSUME SessionInv, HandshakeInv, AfterRemoteOpen
  PROVE  HandshakeInv'
  <1>1. TypeInv /\ StackInv
    BY DEF SessionInv
  <1>2. /\ stack # <<>> /\ Len(stack) = 1 /\ Top.pc = "remote" /\ pg.remote_opened
        /\ UNCHANGED <<calls, rx, adsp>>
        /\ pg'.version_acked = pg.version_acked /\ pg'.remote_opened = pg.remote_opened
        /\ pg'.open_acked = pg.open_acked /\ pg'.session_ready = pg.session_ready
        /\ pg.local_open_sent => pg'.local_open_sent
        /\ Sets("open_ack") \/ Pops
    BY RemoteOpenFacts
  <1>3. PICK ms \in Seq(Up) : /\ tx' = tx \o ms
                              /\ \A k \in DOMAIN ms : ms[k].cmd \in {"OPEN_ACK", "OPEN"}
                              /\ Has(ms, "OPEN") => pg'.local_open_sent
    BY RemoteOpenFacts
  <1>4. ~Has(ms, "VERSION")
    BY <1>3 DEF Has
  <1>5. stack[1].pc = "remote"
    BY <1>1, <1>2, TopFacts
  <1>6. pg.version_acked
    BY <1>2, <1>5 DEF HandshakeInv, VersionFirst
  <1>7. stack' # <<>> => stack'[1].pc = "open_ack"
    <2>1. CASE Pops
      <3>1. stack' \in Seq(Frames) /\ Len(stack') = 0
        BY <1>2, <2>1 DEF Pops
      <3> QED
        BY <3>1, EmptySeq
    <2>2. CASE Sets("open_ack")
      BY <1>2, <2>2 DEF Sets
    <2> QED
      BY <1>2, <2>1, <2>2
  <1> QED
    BY <1>2, <1>3, <1>4, <1>5, <1>6, <1>7, HandshakeSends

LEMMA HandshakeOpenAck ==
  ASSUME SessionInv, HandshakeInv, AfterOpenAck
  PROVE  HandshakeInv'
  <1> DEFINE i == WithId("INTENT", pg.next_liid)
  <1>1. TypeInv /\ StackInv /\ tx \in Seq(Up)
    BY DEF SessionInv, TypeInv
  <1>2. /\ stack # <<>> /\ Len(stack) = 1 /\ Top.pc = "open_ack" /\ pg.open_acked
        /\ UNCHANGED <<calls, rx, adsp>> /\ i \in Up /\ i.cmd = "INTENT"
        /\ pg'.version_acked = pg.version_acked /\ pg'.remote_opened = pg.remote_opened
        /\ pg'.open_acked = pg.open_acked /\ pg'.session_ready = pg.session_ready
        /\ pg'.local_open_sent = pg.local_open_sent
        /\ (tx' = Append(tx, i) /\ Sets("prewarm")) \/ (UNCHANGED tx /\ Pops)
    BY OpenAckFacts DEF WithId
  <1>3. stack[1].pc = "open_ack"
    BY <1>1, <1>2, TopFacts
  <1> HIDE DEF i
  <1>4. CASE tx' = Append(tx, i) /\ Sets("prewarm")
    <2>1. tx' = tx \o <<i>> /\ <<i>> \in Seq(Up) /\ ~Has(<<i>>, "VERSION") /\ ~Has(<<i>>, "OPEN")
      BY <1>1, <1>2, <1>4, AppendJoins, Single DEF Has
    <2>2. stack'[1].pc = "prewarm"
      BY <1>2, <1>4 DEF Sets
    <2> DEFINE ms == <<i>>
    <2> HIDE DEF ms
    <2>3. tx' = tx \o ms /\ ms \in Seq(Up) /\ ~Has(ms, "VERSION") /\ ~Has(ms, "OPEN")
      BY <2>1 DEF ms
    <2> QED
      BY <1>2, <1>3, <2>2, <2>3, HandshakeSends
  <1>5. CASE UNCHANGED tx /\ Pops
    <2>1. stack' \in Seq(Frames) /\ Len(stack') = 0
      BY <1>2, <1>5 DEF Pops
    <2>2. stack' = <<>>
      BY <2>1, EmptySeq
    <2> QED
      BY <1>2, <1>5, <2>2 DEF HandshakeInv, BeforeCalls, VersionFirst, OpenFirst
  <1> QED
    BY <1>2, <1>4, <1>5

LEMMA HandshakeRiid ==
  ASSUME SessionInv, HandshakeInv, AfterRiid
  PROVE  HandshakeInv'
  <1> DEFINE d == Data(pg.riid, Top.op)
  <1>1. TypeInv /\ StackInv /\ tx \in Seq(Up)
    BY DEF SessionInv, TypeInv
  <1>2. /\ stack # <<>> /\ Len(stack) > 1
        /\ UNCHANGED <<calls, rx, adsp>> /\ d \in Up /\ d.cmd = "TX_DATA"
        /\ pg'.version_acked = pg.version_acked /\ pg'.remote_opened = pg.remote_opened
        /\ pg'.open_acked = pg.open_acked /\ pg'.session_ready = pg.session_ready
        /\ pg'.local_open_sent = pg.local_open_sent
        /\ (tx' = Append(tx, d) /\ Sets("answer")) \/ (UNCHANGED tx /\ Pops)
    BY RiidFacts DEF Data
  <1>3. Len(stack) \in Nat
    BY <1>1, <1>2, TopFacts
  <1>4. 1 \in 1 .. Len(stack) - 1
    BY <1>2, <1>3
  <1>5. stack'[1] = stack[1]
    BY <1>2, <1>4 DEF Sets, Pops
  <1> HIDE DEF d
  <1>6. CASE tx' = Append(tx, d)
    <2>1. tx' = tx \o <<d>> /\ <<d>> \in Seq(Up) /\ ~Has(<<d>>, "VERSION") /\ ~Has(<<d>>, "OPEN")
      BY <1>1, <1>2, <1>6, AppendJoins, Single DEF Has
    <2> DEFINE ms == <<d>>
    <2> HIDE DEF ms
    <2>2. tx' = tx \o ms /\ ms \in Seq(Up) /\ ~Has(ms, "VERSION") /\ ~Has(ms, "OPEN")
      BY <2>1 DEF ms
    <2> QED
      BY <1>2, <1>5, <2>2, HandshakeSends
  <1>7. CASE UNCHANGED tx
    BY <1>2, <1>5, <1>7 DEF HandshakeInv, BeforeCalls, VersionFirst, OpenFirst
  <1> QED
    BY <1>2, <1>6, <1>7


LEMMA HandshakeSpeaks ==
  ASSUME SessionInv, HandshakeInv, AdspStep, UNCHANGED tx, NEW ms \in Seq(Down), rx' = rx \o ms,
         ~Has(ms, "VERSION_ACK"), ~Has(ms, "OPEN_ACK"), adsp'.open = adsp.open
  PROVE  HandshakeInv'
  <1>1. rx \in Seq(Down) /\ UNCHANGED <<pg, stack, calls>>
    BY DEF SessionInv, TypeInv, AdspStep
  <1>2. \A c \in {"VERSION_ACK", "OPEN_ACK"} : Has(rx', c) => Has(rx, c)
    BY <1>1, JoinedHas
  <1> QED
    BY <1>1, <1>2 DEF HandshakeInv, BeforeCalls, VersionFirst, OpenFirst

LEMMA HandshakeReceives ==
  ASSUME SessionInv, HandshakeInv, AdspReceive
  PROVE  HandshakeInv'
  <1> DEFINE m == Head(tx)
  <1>1. /\ tx # <<>> /\ tx' = Tail(tx) /\ m \in Up /\ UNCHANGED <<pg, stack, calls>>
        /\ tx \in Seq(Up) /\ rx \in Seq(Down) /\ rx' = rx \o Back(m) /\ Back(m) \in Seq(Down)
        /\ adsp'.open <=> (IF m.cmd = "VERSION" THEN FALSE ELSE IF m.cmd = "OPEN" THEN TRUE ELSE adsp.open)
    BY ReceiveFacts, BackFacts DEF SessionInv, TypeInv, AdspStep, AdspSends
  <1>2. /\ Has(rx', "VERSION_ACK") => Has(rx, "VERSION_ACK") \/ m.cmd = "VERSION"
        /\ Has(rx', "OPEN_ACK") => Has(rx, "OPEN_ACK") \/ m.cmd = "OPEN"
    BY <1>1, BackAcks, JoinedHas
  <1>3. /\ \A c : (Has(tx', c) => Has(tx, c)) /\ (m.cmd = c => Has(tx, c))
        /\ Once(tx, "VERSION") => Once(tx', "VERSION")
        /\ Once(tx, "VERSION") /\ m.cmd = "VERSION" => ~Has(tx', "VERSION")
    BY <1>1, TailHas
  <1> HIDE DEF m
  <1>4. m.cmd = "VERSION" => ~pg.version_acked /\ ~pg.local_open_sent /\ ~adsp.open
    BY <1>3 DEF HandshakeInv, VersionFirst, OpenFirst
  <1>5. m.cmd = "OPEN" => pg.local_open_sent
    BY <1>3 DEF HandshakeInv, OpenFirst
  <1>6. BeforeCalls'
    BY <1>1 DEF HandshakeInv, BeforeCalls
  <1>7. VersionFirst'
    BY <1>1, <1>2, <1>3, <1>4 DEF HandshakeInv, VersionFirst
  <1>8. OpenFirst'
    BY <1>1, <1>2, <1>3, <1>4, <1>5 DEF HandshakeInv, OpenFirst
  <1> QED
    BY <1>6, <1>7, <1>8 DEF HandshakeInv

(* What the ADSP puts into the ring of its own accord, or as an answer. *)
LEMMA SpokenFacts ==
  ASSUME SessionInv, AdspVersion \/ AdspAdvertise \/ AdspAskIntent \/ AdspRelease \/ AdspAnswer \/ AdspNotify
  PROVE  /\ AdspStep /\ UNCHANGED tx /\ adsp'.open = adsp.open
         /\ \E ms \in Seq(Down) :
               /\ rx' = rx \o ms
               /\ \A k \in DOMAIN ms : /\ ms[k].cmd \notin {"VERSION_ACK", "OPEN_ACK"}
                                       /\ ms[k].cmd = "RX_INTENT_REQ" => adsp.open
  <1> DEFINE P(m) == /\ m.cmd \notin {"VERSION_ACK", "OPEN_ACK"}
                     /\ m.cmd = "RX_INTENT_REQ" => adsp.open
             Goal == /\ AdspStep /\ UNCHANGED tx /\ adsp'.open = adsp.open
                     /\ \E ms \in Seq(Down) : rx' = rx \o ms /\ \A k \in DOMAIN ms : P(ms[k])
  <1>1. ASSUME NEW d \in Down, P(d), AdspStep, UNCHANGED tx, adsp'.open = adsp.open, rx' = rx \o <<d>>
        PROVE  Goal
    <2>1. <<d>> \in Seq(Down) /\ \A k \in DOMAIN <<d>> : <<d>>[k] = d
      BY Single
    <2> DEFINE ms == <<d>>
    <2>2. ms \in Seq(Down) /\ rx' = rx \o ms /\ \A k \in DOMAIN ms : ms[k] = d
      BY <1>1, <2>1
    <2> HIDE DEF ms, P
    <2>3. \A k \in DOMAIN ms : P(ms[k])
      BY <1>1, <2>2
    <2> QED
      BY <1>1, <2>2, <2>3
  <1>2. ASSUME AdspVersion \/ AdspAdvertise \/ AdspAskIntent PROVE Goal
    <2>1. PICK c \in {"VERSION", "OPEN", "RX_INTENT_REQ"} :
            /\ AdspStep /\ UNCHANGED tx /\ Cmd(c) \in Down /\ Cmd(c).cmd = c
            /\ rx' = rx \o <<Cmd(c)>> /\ (c = "RX_INTENT_REQ" => adsp.open)
            /\ adsp'.open = adsp.open
      BY <1>2, SpeaksFacts
    <2>2. P(Cmd(c))
      BY <2>1
    <2> HIDE DEF Goal, P
    <2> QED
      BY <1>1, <2>1, <2>2
  <1>3. ASSUME AdspRelease PROVE Goal
    <2>1. PICK id \in adsp.busy :
            /\ AdspStep /\ UNCHANGED tx /\ id \in RemoteIntent /\ adsp'.open = adsp.open
            /\ WithId("RX_DONE_W_REUSE", id) \in Down /\ WithId("RX_DONE", id) \in Down
            /\ WithId("INTENT", id) \in Down
            /\ \/ rx' = rx \o <<WithId("RX_DONE_W_REUSE", id)>>
               \/ rx' = rx \o <<WithId("RX_DONE", id), WithId("INTENT", id)>>
      BY <1>3, ReleaseFacts
    <2> DEFINE u == WithId("RX_DONE_W_REUSE", id)
               d == WithId("RX_DONE", id)
               i == WithId("INTENT", id)
    <2>2. u \in Down /\ d \in Down /\ i \in Down /\ P(u) /\ P(d) /\ P(i)
      BY <2>1 DEF WithId
    <2>3. rx' = rx \o <<u>> \/ rx' = rx \o <<d, i>>
      BY <2>1
    <2> HIDE DEF u, d, i, P
    <2>4. <<d, i>> \in Seq(Down) /\ DOMAIN <<d, i>> = 1 .. 2 /\ <<d, i>>[1] = d /\ <<d, i>>[2] = i
      BY <2>2
    <2>5. \A k \in DOMAIN <<d, i>> : P(<<d, i>>[k])
      <3>1. \A k \in DOMAIN <<d, i>> : k = 1 \/ k = 2
        BY <2>4
      <3> QED
        BY <2>2, <2>4, <3>1
    <2>6. CASE rx' = rx \o <<u>>
      <3> HIDE DEF Goal
      <3> QED
        BY <1>1, <2>1, <2>2, <2>6
    <2>7. CASE rx' = rx \o <<d, i>>
      <3> DEFINE ms == <<d, i>>
      <3>1. ms \in Seq(Down) /\ rx' = rx \o ms /\ \A k \in DOMAIN ms : P(ms[k])
        BY <2>4, <2>5, <2>7
      <3> HIDE DEF ms
      <3> QED
        BY <2>1, <3>1
    <2> QED
      BY <2>3, <2>6, <2>7
  <1>4. ASSUME AdspAnswer PROVE Goal
    <2>1. PICK id \in adsp.free :
            /\ AdspStep /\ UNCHANGED tx /\ Answer(Head(adsp.todo)) \in Flags /\ id \in Ids
            /\ AdspSends(<<Data(id, Answer(Head(adsp.todo)))>>) /\ adsp'.open = adsp.open
      BY <1>4, AdspAnswerFacts
    <2> DEFINE d == Data(id, Answer(Head(adsp.todo)))
    <2>2. d \in Down /\ P(d) /\ rx' = rx \o <<d>>
      BY <2>1, DownMessages DEF AdspSends
    <2> HIDE DEF Goal, P, d
    <2> QED
      BY <1>1, <2>1, <2>2
  <1>5. ASSUME AdspNotify PROVE Goal
    <2>1. PICK id \in adsp.free :
            /\ AdspStep /\ UNCHANGED tx /\ id \in Ids
            /\ AdspSends(<<Data(id, "NOTIFY")>>) /\ adsp'.open = adsp.open
      BY <1>5, AdspNotifyFacts
    <2> DEFINE d == Data(id, "NOTIFY")
    <2>2. d \in Down /\ P(d) /\ rx' = rx \o <<d>>
      BY <2>1, DownMessages DEF AdspSends
    <2> HIDE DEF Goal, P, d
    <2> QED
      BY <1>1, <2>1, <2>2
  <1> HIDE DEF Goal
  <1>6. Goal
    BY <1>2, <1>3, <1>4, <1>5
  <1> QED
    BY <1>6 DEF Goal

LEMMA HandshakeStep == SessionInv /\ HandshakeInv /\ [Next /\ OneOpen]_vars => HandshakeInv'
  <1> SUFFICES ASSUME SessionInv, HandshakeInv, [Next /\ OneOpen]_vars PROVE HandshakeInv'
    OBVIOUS
  <1>1. CASE UNCHANGED vars
    BY <1>1 DEF vars, HandshakeInv, BeforeCalls, VersionFirst, OpenFirst
  <1>2. CASE AdspVersion \/ AdspAdvertise \/ AdspAskIntent \/ AdspRelease \/ AdspAnswer \/ AdspNotify
    <2>1. AdspStep /\ UNCHANGED tx /\ adsp'.open = adsp.open
      BY <1>2, SpokenFacts
    <2>2. PICK ms \in Seq(Down) : /\ rx' = rx \o ms
                                  /\ \A k \in DOMAIN ms : ms[k].cmd \notin {"VERSION_ACK", "OPEN_ACK"}
      BY <1>2, SpokenFacts
    <2>3. ~Has(ms, "VERSION_ACK") /\ ~Has(ms, "OPEN_ACK")
      BY <2>2 DEF Has
    <2> QED
      BY <2>1, <2>2, <2>3, HandshakeSpeaks
  <1>3. CASE Next /\ OneOpen
    BY <1>2, <1>3, Steps, HandshakeQuiet, HandshakeCalls, HandshakePoll, HandshakeRemoteOpen,
       HandshakeOpenAck, HandshakeRiid, HandshakeReceives
  <1> QED
    BY <1>1, <1>3

(* With one open, the wait for OPEN_ACK ends only when the ADSP has taken  *)
(* the local OPEN, through timeouts, nested waits and a full ring: the     *)
(* OPEN_ACK of an earlier attempt, which TLC finds on a retry, is the only *)
(* one that could be met too early.                                        *)
THEOREM OpenAckIsEarned == Spec /\ [][OneOpen]_vars => []OpenAckIsOurs
  <1>1. HandshakeInv => OpenAckIsOurs
    BY DEF HandshakeInv, OpenFirst, OpenAckIsOurs
  <1>2. SessionInv /\ HandshakeInv /\ [Next]_vars /\ [OneOpen]_vars => SessionInv' /\ HandshakeInv'
    BY SessionStep, HandshakeStep
  <1> QED
    BY <1>1, <1>2, SessionStart, HandshakeStart, PTL DEF Spec


-----------------------------------------------------------------------------
(* The intents of the ADSP: none before the channel is open. *)

LEMMA IntentsStart == Init => NoIntents
  BY DEF Init, NoIntents, FreshAdsp, FreshPg, Has

LEMMA IntentsStep == SessionInv /\ HandshakeInv /\ NoIntents /\ [Next /\ OneOpen]_vars => NoIntents'
  <1> SUFFICES ASSUME SessionInv, HandshakeInv, NoIntents, [Next /\ OneOpen]_vars PROVE NoIntents'
    OBVIOUS
  <1> DEFINE I == {"INTENT", "RX_DONE", "RX_DONE_W_REUSE"}
  <1>1. pg \in Qpg /\ tx \in Seq(Up) /\ rx \in Seq(Down)
    BY DEF SessionInv, TypeInv
  <1>2. CASE UNCHANGED vars
    BY <1>2 DEF vars, NoIntents
  <1>3. CASE QuietStep
    <2>1. UNCHANGED <<tx, rx, adsp>> /\ pg'.riid_avail = pg.riid_avail /\ pg'.riid = pg.riid
      BY <1>3, QuietMoves DEF Link
    <2> QED
      BY <2>1 DEF NoIntents
  <1>4. ASSUME NEW ms \in Seq(Up), tx' = tx \o ms, ~Has(ms, "TX_DATA"), UNCHANGED <<rx, adsp>>,
               (pg'.riid_avail = pg.riid_avail /\ pg'.riid = pg.riid)
                 \/ (~pg'.riid_avail /\ pg'.riid = 0)
        PROVE  NoIntents'
    <2>1. Has(tx', "TX_DATA") => Has(tx, "TX_DATA")
      BY <1>1, <1>4, JoinedHas
    <2> QED
      BY <1>4, <2>1 DEF NoIntents
  <1>5. ASSUME NEW m \in Up, tx' = Append(tx, m), m.cmd # "TX_DATA", UNCHANGED <<rx, adsp>>,
               (pg'.riid_avail = pg.riid_avail /\ pg'.riid = pg.riid)
                 \/ (~pg'.riid_avail /\ pg'.riid = 0)
        PROVE  NoIntents'
    <2>1. tx' = tx \o <<m>> /\ <<m>> \in Seq(Up) /\ ~Has(<<m>>, "TX_DATA")
      BY <1>1, <1>5, AppendJoins, Single DEF Has
    <2> DEFINE ms == <<m>>
    <2> HIDE DEF ms
    <2>2. tx' = tx \o ms /\ ms \in Seq(Up) /\ ~Has(ms, "TX_DATA")
      BY <2>1 DEF ms
    <2> QED
      BY <1>4, <1>5, <2>2
  <1>6. CASE CallOpen
    <2>1. UNCHANGED <<rx, adsp>>
      BY <1>6, CallOpenFacts
    <2>2. CASE UNCHANGED tx /\ (UNCHANGED pg \/ pg' = FreshPg)
      BY <2>1, <2>2, FreshFacts DEF NoIntents
    <2>3. CASE tx' = Append(tx, Cmd("VERSION")) /\ pg' = FreshPg
      BY <1>5, <2>1, <2>3, FreshFacts, UpMessages
    <2> QED
      BY <1>6, <2>2, <2>3, CallOpenFacts
  <1>7. CASE PollMessage
    <2> DEFINE m == Head(rx)
    <2>1. /\ rx # <<>> /\ rx' = Tail(rx) /\ m \in Down /\ UNCHANGED adsp
          /\ pg'.riid_avail = Handled(m).riid_avail /\ pg'.riid = Handled(m).riid
      BY <1>7, PollFacts DEF Link
    <2>2. \A c : (Has(rx', c) => Has(rx, c)) /\ (m.cmd = c => Has(rx, c))
      BY <1>1, <2>1, TailHas
    <2>3. m.cmd \notin I => pg'.riid_avail = pg.riid_avail /\ pg'.riid = pg.riid
      BY <1>1, <2>1, HandledFacts
    <2>4. PICK ms \in Seq(Up) : tx' = tx \o ms /\ \A k \in DOMAIN ms : ms[k].cmd \in Replies
      BY <1>7, PollFacts
    <2>5. ~Has(ms, "TX_DATA")
      BY <2>4 DEF Has, Replies
    <2>6. Has(tx', "TX_DATA") => Has(tx, "TX_DATA")
      BY <1>1, <2>4, <2>5, JoinedHas
    <2> HIDE DEF m
    <2> QED
      BY <2>1, <2>2, <2>3, <2>6 DEF NoIntents
  <1>8. CASE AfterRemoteOpen
    <2>1. UNCHANGED <<rx, adsp>> /\ pg'.riid = pg.riid /\ pg'.riid_avail = pg.riid_avail
      BY <1>8, RemoteOpenFacts
    <2>2. PICK ms \in Seq(Up) : tx' = tx \o ms /\ \A k \in DOMAIN ms : ms[k].cmd \in {"OPEN_ACK", "OPEN"}
      BY <1>8, RemoteOpenFacts
    <2>3. ~Has(ms, "TX_DATA")
      BY <2>2 DEF Has
    <2> QED
      BY <1>4, <2>1, <2>2, <2>3
  <1>9. CASE AfterOpenAck
    <2>1. pg.open_acked /\ UNCHANGED adsp
      BY <1>9, OpenAckFacts
    <2> QED
      BY <2>1 DEF HandshakeInv, OpenFirst, NoIntents
  <1>10. CASE AfterRiid
    <2>1. pg.riid_avail /\ UNCHANGED adsp
      BY <1>10, RiidFacts
    <2> QED
      BY <2>1 DEF NoIntents
  <1>11. ASSUME AdspStep, UNCHANGED tx, adsp'.open = adsp.open, adsp'.busy = adsp.busy,
                NEW d \in Down, rx' = rx \o <<d>>, d.cmd \notin I
         PROVE  NoIntents'
    <2>1. <<d>> \in Seq(Down) /\ \A k \in DOMAIN <<d>> : <<d>>[k] = d
      BY Single
    <2> DEFINE ms == <<d>>
    <2>2. ms \in Seq(Down) /\ rx' = rx \o ms /\ \A k \in DOMAIN ms : ms[k].cmd \notin I
      BY <1>11, <2>1
    <2> HIDE DEF ms
    <2>3. \A c \in I : ~Has(ms, c)
      BY <2>2 DEF Has
    <2>4. \A c \in I : Has(rx', c) => Has(rx, c)
      BY <1>1, <2>2, <2>3, JoinedHas
    <2> QED
      BY <1>11, <2>4 DEF NoIntents, AdspStep
  <1>12. CASE AdspVersion \/ AdspAdvertise \/ AdspAskIntent
    <2>1. PICK c \in {"VERSION", "OPEN", "RX_INTENT_REQ"} :
            /\ AdspStep /\ UNCHANGED tx /\ Cmd(c) \in Down /\ Cmd(c).cmd = c
            /\ rx' = rx \o <<Cmd(c)>> /\ adsp'.open = adsp.open /\ adsp'.busy = adsp.busy
      BY <1>12, SpeaksFacts
    <2> QED
      BY <1>11, <2>1
  <1>13. CASE AdspRelease
    <2>1. adsp'.open = adsp.open /\ adsp.busy # {}
      BY <1>13, ReleaseFacts
    <2> QED
      BY <2>1 DEF NoIntents
  <1>14. CASE AdspAnswer
    <2>1. PICK id \in adsp.free :
            /\ AdspStep /\ UNCHANGED tx /\ Answer(Head(adsp.todo)) \in Flags /\ id \in Ids
            /\ AdspSends(<<Data(id, Answer(Head(adsp.todo)))>>)
            /\ adsp'.open = adsp.open /\ adsp'.busy = adsp.busy
      BY <1>14, AdspAnswerFacts
    <2> DEFINE d == Data(id, Answer(Head(adsp.todo)))
    <2>2. d \in Down /\ d.cmd = "TX_DATA" /\ rx' = rx \o <<d>>
      BY <2>1, DownMessages DEF AdspSends
    <2> HIDE DEF d
    <2> QED
      BY <1>11, <2>1, <2>2
  <1>15. CASE AdspNotify
    <2>1. PICK id \in adsp.free :
            /\ AdspStep /\ UNCHANGED tx /\ id \in Ids /\ AdspSends(<<Data(id, "NOTIFY")>>)
            /\ adsp'.open = adsp.open /\ adsp'.busy = adsp.busy
      BY <1>15, AdspNotifyFacts
    <2> DEFINE d == Data(id, "NOTIFY")
    <2>2. d \in Down /\ d.cmd = "TX_DATA" /\ rx' = rx \o <<d>>
      BY <2>1, DownMessages DEF AdspSends
    <2> HIDE DEF d
    <2> QED
      BY <1>11, <2>1, <2>2
  <1>16. CASE AdspReceive
    <2> DEFINE m == Head(tx)
    <2>1. /\ tx # <<>> /\ tx' = Tail(tx) /\ m \in Up /\ UNCHANGED pg
          /\ rx' = rx \o Back(m) /\ Back(m) \in Seq(Down)
          /\ \A k \in DOMAIN Back(m) : Back(m)[k].cmd \in {"VERSION_ACK", "OPEN_ACK", "INTENT"}
          /\ adsp'.open <=> (IF m.cmd = "VERSION" THEN FALSE ELSE IF m.cmd = "OPEN" THEN TRUE ELSE adsp.open)
          /\ adsp'.busy = IF m.cmd = "VERSION" THEN {}
                          ELSE IF m.cmd = "TX_DATA" THEN adsp.busy \cup {m.id} ELSE adsp.busy
      BY <1>16, ReceiveFacts, BackFacts DEF AdspStep, AdspSends
    <2>2. \A c : (Has(tx', c) => Has(tx, c)) /\ (m.cmd = c => Has(tx, c))
      BY <1>1, <2>1, TailHas
    <2>3. m.cmd # "OPEN" => \A c \in I : ~Has(Back(m), c)
      BY <2>1, BackAcks DEF Has
    <2>4. m.cmd # "OPEN" => \A c \in I : Has(rx', c) => Has(rx, c)
      BY <1>1, <2>1, <2>3, JoinedHas
    <2> HIDE DEF m, I
    <2>5. m.cmd = "VERSION" => ~adsp.open
      BY <2>2 DEF HandshakeInv, VersionFirst, OpenFirst
    <2>6. ~adsp'.open => ~adsp.open /\ m.cmd # "OPEN"
      BY <2>1, <2>5
    <2>7. ~adsp.open => m.cmd # "TX_DATA"
      BY <2>2 DEF NoIntents
    <2> QED
      BY <2>1, <2>2, <2>4, <2>6, <2>7 DEF NoIntents, I
  <1>17. CASE Next
    BY <1>3, <1>6, <1>7, <1>8, <1>9, <1>10, <1>12, <1>13, <1>14, <1>15, <1>16, <1>17, Steps
  <1> QED
    BY <1>2, <1>17


-----------------------------------------------------------------------------
(* The permission to use an intent of the ADSP is handed on, or dropped,   *)
(* but never doubled.                                                      *)

Spent(id) == {m \in Up : m.cmd = "TX_DATA" /\ m.id = id}
Offers(id) == {m \in Down : m.cmd \in {"INTENT", "RX_DONE_W_REUSE"} /\ m.id = id}

LEMMA NumJoinNone ==
  ASSUME NEW S, NEW s \in Seq(S), NEW t \in Seq(S), NEW P, \A k \in DOMAIN t : t[k] \notin P
  PROVE  Num(s \o t, P) = Num(s, P)
  <1>1. Num(s \o t, P) = Num(s, P) + Num(t, P) /\ Num(t, P) = 0 /\ Num(s, P) \in Nat
    BY NumJoin, NumNone, NumType
  <1> QED
    BY <1>1

RiidCounts ==
    \A i \in RemoteIntent :
        RiidPlaces(i) = Num(tx, Spent(i)) + Num(rx, Offers(i)) + One(i \in adsp.busy)
                          + One(pg.riid_avail /\ pg.riid = i)

LEMMA RiidCounted == TypeInv => RiidCounts
  <1> SUFFICES ASSUME TypeInv, NEW id \in RemoteIntent
               PROVE  RiidPlaces(id) = Num(tx, Spent(id)) + Num(rx, Offers(id)) + One(id \in adsp.busy)
                                         + One(pg.riid_avail /\ pg.riid = id)
    BY DEF RiidCounts
  <1>1. tx \in Seq(Up) /\ rx \in Seq(Down)
    BY DEF TypeInv
  <1>2. /\ \A k \in DOMAIN tx : tx[k] \in Up
        /\ \A k \in DOMAIN rx : rx[k] \in Down
    BY <1>1, LenProperties, ElementOfSeq
  <1>3. /\ {k \in DOMAIN tx : tx[k].cmd = "TX_DATA" /\ tx[k].id = id} = Positions(tx, Spent(id))
        /\ {k \in DOMAIN rx : rx[k].cmd \in {"INTENT", "RX_DONE_W_REUSE"} /\ rx[k].id = id}
              = Positions(rx, Offers(id))
    BY <1>2 DEF Positions, Spent, Offers
  <1> QED
    BY <1>3 DEF RiidPlaces, Count, Num, One

LEMMA RiidFalls ==
  ASSUME SessionInv, NEW id \in RemoteIntent, Next, AdspReceive => Head(tx).cmd # "OPEN"
  PROVE  /\ RiidPlaces(id) \in Nat /\ RiidPlaces(id)' \in Nat
         /\ RiidPlaces(id)' <= RiidPlaces(id)
  <1> DEFINE t == Num(tx, Spent(id))
             r == Num(rx, Offers(id))
             b == One(id \in adsp.busy)
             s == One(pg.riid_avail /\ pg.riid = id)
             t2 == Num(tx', Spent(id))
             r2 == Num(rx', Offers(id))
             b2 == One(id \in adsp'.busy)
             s2 == One(pg'.riid_avail /\ pg'.riid = id)
             Goal == t2 + r2 + b2 + s2 <= t + r + b + s
  <1>1. TypeInv /\ StackInv /\ TypeInv'
    BY SessionStep DEF SessionInv
  <1>2. /\ pg \in Qpg /\ pg' \in Qpg /\ tx \in Seq(Up) /\ rx \in Seq(Down)
        /\ tx' \in Seq(Up) /\ rx' \in Seq(Down)
    BY <1>1 DEF TypeInv
  <1>3. RiidPlaces(id) = t + r + b + s
    BY <1>1, RiidCounted DEF RiidCounts
  <1>4. RiidPlaces(id)' = t2 + r2 + b2 + s2
    <2>1. (TypeInv => RiidCounts)'
      BY RiidCounted, PTL
    <2> QED
      BY <1>1, <2>1 DEF RiidCounts
  <1>5. /\ t \in Nat /\ r \in Nat /\ t2 \in Nat /\ r2 \in Nat
        /\ b \in {0, 1} /\ s \in {0, 1} /\ b2 \in {0, 1} /\ s2 \in {0, 1}
    BY <1>2, NumType DEF One
  <1>6. UNCHANGED tx => t2 = t
    OBVIOUS
  <1>7. UNCHANGED rx => r2 = r
    OBVIOUS
  <1>8. adsp'.busy = adsp.busy => b2 = b
    OBVIOUS
  <1>9. /\ pg'.riid_avail = pg.riid_avail /\ pg'.riid = pg.riid => s2 = s
        /\ ~pg'.riid_avail => s2 = 0
    BY DEF One
  <1>10. ASSUME NEW ms \in Seq(Up), tx' = tx \o ms, \A k \in DOMAIN ms : ms[k].cmd # "TX_DATA"
         PROVE  t2 = t
    <2>1. \A k \in DOMAIN ms : ms[k] \notin Spent(id)
      BY <1>10 DEF Spent
    <2> QED
      BY <1>2, <1>10, <2>1, NumJoinNone
  <1>11. ASSUME NEW m \in Up, tx' = Append(tx, m)
         PROVE  t2 = t + One(m \in Spent(id))
    BY <1>2, <1>11, NumAppend
  <1>12. ASSUME NEW ms \in Seq(Down), rx' = rx \o ms,
                \A k \in DOMAIN ms : ms[k].cmd \notin {"INTENT", "RX_DONE_W_REUSE"}
         PROVE  r2 = r
    <2>1. \A k \in DOMAIN ms : ms[k] \notin Offers(id)
      BY <1>12 DEF Offers
    <2> QED
      BY <1>2, <1>12, <2>1, NumJoinNone
  <1>13. ASSUME NEW d \in Down, rx' = rx \o <<d>>
         PROVE  r2 = r + One(d \in Offers(id))
    <2>1. <<d>> \in Seq(Down) /\ Num(<<d>>, Offers(id)) = One(d \in Offers(id))
      BY Single, NumSingle
    <2> DEFINE ms == <<d>>
    <2>2. ms \in Seq(Down) /\ Num(ms, Offers(id)) = One(d \in Offers(id)) /\ rx' = rx \o ms
      BY <1>13, <2>1
    <2> HIDE DEF ms
    <2> QED
      BY <1>2, <2>2, NumJoin
  <1> HIDE DEF t, r, b, s, t2, r2, b2, s2
  <1>14. ASSUME t2 = t, r2 = r, b2 = b, s2 = s \/ s2 = 0 PROVE Goal
    BY <1>5, <1>14
  <1>15. ASSUME QuietStep PROVE Goal
    <2>1. UNCHANGED <<tx, rx, adsp>> /\ pg'.riid_avail = pg.riid_avail /\ pg'.riid = pg.riid
      BY <1>15, QuietMoves DEF Link
    <2> QED
      BY <1>6, <1>7, <1>8, <1>9, <1>14, <2>1
  <1>16. ASSUME CallOpen PROVE Goal
    <2>1. UNCHANGED <<rx, adsp>>
      BY <1>16, CallOpenFacts
    <2>2. UNCHANGED pg \/ ~pg'.riid_avail
      BY <1>16, CallOpenFacts, FreshFacts
    <2>3. t2 = t
      <3>1. CASE tx' = Append(tx, Cmd("VERSION"))
        <4>1. Cmd("VERSION") \in Up /\ Cmd("VERSION") \notin Spent(id)
          BY UpMessages DEF Spent
        <4>2. t2 = t + One(Cmd("VERSION") \in Spent(id))
          BY <1>11, <3>1, <4>1
        <4> QED
          BY <1>5, <4>1, <4>2 DEF One
      <3> QED
        BY <1>6, <1>16, <3>1, CallOpenFacts
    <2> QED
      BY <1>7, <1>8, <1>9, <1>14, <2>1, <2>2, <2>3
  <1>17. ASSUME PollMessage PROVE Goal
    <2> DEFINE m == Head(rx)
    <2>1. /\ rx # <<>> /\ rx' = Tail(rx) /\ m \in Down /\ UNCHANGED adsp
          /\ pg'.riid_avail = Handled(m).riid_avail /\ pg'.riid = Handled(m).riid
      BY <1>17, PollFacts DEF Link
    <2>2. PICK ms \in Seq(Up) : tx' = tx \o ms /\ \A k \in DOMAIN ms : ms[k].cmd \in Replies
      BY <1>17, PollFacts
    <2>3. t2 = t /\ b2 = b
      BY <1>8, <1>10, <2>1, <2>2 DEF Replies
    <2>4. r = r2 + One(m \in Offers(id))
      BY <1>2, <2>1, NumTail DEF r, r2
    <2>5. s2 <= s + One(m \in Offers(id))
      <3>1. /\ m.cmd = "INTENT" /\ pg.remote_opened => pg'.riid = m.id
            /\ \/ m.cmd = "INTENT" /\ pg.remote_opened
               \/ pg'.riid = pg.riid
            /\ \/ m.cmd = "INTENT" /\ pg.remote_opened
               \/ /\ m.cmd \in {"RX_DONE", "RX_DONE_W_REUSE"} /\ m.id = pg.riid
                  /\ pg'.riid_avail <=> m.cmd = "RX_DONE_W_REUSE"
               \/ pg'.riid_avail = pg.riid_avail
        BY <1>2, <2>1, HandledFacts
      <3>2. pg'.riid_avail /\ pg'.riid = id /\ ~(pg.riid_avail /\ pg.riid = id) => m \in Offers(id)
        BY <2>1, <3>1 DEF Offers
      <3>3. s2 = 1 /\ s = 0 => m \in Offers(id)
        BY <3>2 DEF s, s2, One
      <3> HIDE DEF m
      <3> QED
        BY <1>5, <3>3 DEF One
    <2>6. One(m \in Offers(id)) \in {0, 1}
      BY DEF One
    <2> HIDE DEF m
    <2> QED
      BY <1>5, <2>3, <2>4, <2>5, <2>6
  <1>18. ASSUME AfterRemoteOpen PROVE Goal
    <2>1. UNCHANGED <<rx, adsp>> /\ pg'.riid = pg.riid /\ pg'.riid_avail = pg.riid_avail
      BY <1>18, RemoteOpenFacts
    <2>2. PICK ms \in Seq(Up) : tx' = tx \o ms /\ \A k \in DOMAIN ms : ms[k].cmd \in {"OPEN_ACK", "OPEN"}
      BY <1>18, RemoteOpenFacts
    <2>3. t2 = t
      BY <1>10, <2>2
    <2> QED
      BY <1>7, <1>8, <1>9, <1>14, <2>1, <2>3
  <1>19. ASSUME AfterOpenAck PROVE Goal
    <2> DEFINE i == WithId("INTENT", pg.next_liid)
    <2>1. /\ UNCHANGED <<rx, adsp>> /\ pg'.riid = pg.riid /\ pg'.riid_avail = pg.riid_avail
          /\ i \in Up /\ i.cmd = "INTENT" /\ (tx' = Append(tx, i) \/ UNCHANGED tx)
      BY <1>19, OpenAckFacts DEF WithId
    <2> HIDE DEF i
    <2>2. i \notin Spent(id)
      BY <2>1 DEF Spent
    <2>3. t2 = t
      <3>1. CASE tx' = Append(tx, i)
        <4>1. t2 = t + One(i \in Spent(id))
          BY <1>11, <2>1, <3>1
        <4> QED
          BY <1>5, <2>2, <4>1 DEF One
      <3> QED
        BY <1>6, <2>1, <3>1
    <2> QED
      BY <1>7, <1>8, <1>9, <1>14, <2>1, <2>3
  <1>20. ASSUME AfterRiid PROVE Goal
    <2> DEFINE d == Data(pg.riid, Top.op)
    <2>1. /\ UNCHANGED <<rx, adsp>> /\ pg.riid_avail /\ ~pg'.riid_avail
          /\ d \in Up /\ d.id = pg.riid /\ d.cmd = "TX_DATA"
          /\ tx' = Append(tx, d) \/ UNCHANGED tx
      BY <1>20, RiidFacts DEF Data
    <2> HIDE DEF d
    <2>2. r2 = r /\ b2 = b /\ s2 = 0
      BY <1>7, <1>8, <1>9, <2>1
    <2>3. CASE UNCHANGED tx
      BY <1>6, <1>14, <2>2, <2>3
    <2>4. CASE tx' = Append(tx, d)
      <3>1. t2 = t + One(d \in Spent(id))
        BY <1>11, <2>1, <2>4
      <3>2. One(d \in Spent(id)) = s
        BY <2>1 DEF s, One, Spent
      <3> QED
        BY <1>5, <2>2, <3>1, <3>2
    <2> QED
      BY <2>1, <2>3, <2>4
  <1>21. ASSUME AdspVersion \/ AdspAdvertise \/ AdspAskIntent PROVE Goal
    <2>1. PICK c \in {"VERSION", "OPEN", "RX_INTENT_REQ"} :
            /\ AdspStep /\ UNCHANGED tx /\ Cmd(c) \in Down /\ Cmd(c).cmd = c
            /\ rx' = rx \o <<Cmd(c)>> /\ adsp'.busy = adsp.busy
      BY <1>21, SpeaksFacts
    <2>2. Cmd(c) \notin Offers(id)
      BY <2>1 DEF Offers
    <2>3. r2 = r + One(Cmd(c) \in Offers(id))
      BY <1>13, <2>1
    <2>4. r2 = r
      BY <1>5, <2>2, <2>3 DEF One
    <2> QED
      BY <1>6, <1>8, <1>9, <1>14, <2>1, <2>4 DEF AdspStep
  <1>22. ASSUME AdspAnswer PROVE Goal
    <2>1. PICK i \in adsp.free :
            /\ AdspStep /\ UNCHANGED tx /\ Answer(Head(adsp.todo)) \in Flags /\ i \in Ids
            /\ AdspSends(<<Data(i, Answer(Head(adsp.todo)))>>) /\ adsp'.busy = adsp.busy
      BY <1>22, AdspAnswerFacts
    <2> DEFINE d == Data(i, Answer(Head(adsp.todo)))
    <2>2. d \in Down /\ d \notin Offers(id) /\ rx' = rx \o <<d>>
      BY <2>1, DownMessages DEF AdspSends, Offers
    <2> HIDE DEF d
    <2>3. r2 = r + One(d \in Offers(id))
      BY <1>13, <2>2
    <2>4. r2 = r
      BY <1>5, <2>2, <2>3 DEF One
    <2> QED
      BY <1>6, <1>8, <1>9, <1>14, <2>1, <2>4 DEF AdspStep
  <1>23. ASSUME AdspNotify PROVE Goal
    <2>1. PICK i \in adsp.free :
            /\ AdspStep /\ UNCHANGED tx /\ i \in Ids /\ AdspSends(<<Data(i, "NOTIFY")>>)
            /\ adsp'.busy = adsp.busy
      BY <1>23, AdspNotifyFacts
    <2> DEFINE d == Data(i, "NOTIFY")
    <2>2. d \in Down /\ d \notin Offers(id) /\ rx' = rx \o <<d>>
      BY <2>1, DownMessages DEF AdspSends, Offers
    <2> HIDE DEF d
    <2>3. r2 = r + One(d \in Offers(id))
      BY <1>13, <2>2
    <2>4. r2 = r
      BY <1>5, <2>2, <2>3 DEF One
    <2> QED
      BY <1>6, <1>8, <1>9, <1>14, <2>1, <2>4 DEF AdspStep
  <1>24. ASSUME AdspRelease PROVE Goal
    <2>1. PICK j \in adsp.busy :
            /\ AdspStep /\ UNCHANGED tx /\ j \in RemoteIntent /\ adsp'.busy = adsp.busy \ {j}
            /\ WithId("RX_DONE_W_REUSE", j) \in Down /\ WithId("RX_DONE", j) \in Down
            /\ WithId("INTENT", j) \in Down
            /\ \/ rx' = rx \o <<WithId("RX_DONE_W_REUSE", j)>>
               \/ rx' = rx \o <<WithId("RX_DONE", j), WithId("INTENT", j)>>
      BY <1>24, ReleaseFacts
    <2> DEFINE u == WithId("RX_DONE_W_REUSE", j)
               d == WithId("RX_DONE", j)
               i == WithId("INTENT", j)
    <2>2. /\ u \in Down /\ d \in Down /\ i \in Down /\ d \notin Offers(id)
          /\ u \in Offers(id) <=> id = j
          /\ i \in Offers(id) <=> id = j
      BY <2>1 DEF WithId, Offers
    <2>3. rx' = rx \o <<u>> \/ rx' = rx \o <<d, i>>
      BY <2>1
    <2> HIDE DEF u, d, i
    <2>4. r2 = r + One(id = j)
      <3>1. CASE rx' = rx \o <<u>>
        <4>1. r2 = r + One(u \in Offers(id))
          BY <1>13, <2>2, <3>1
        <4> QED
          BY <2>2, <4>1 DEF One
      <3>2. CASE rx' = rx \o <<d, i>>
        <4> DEFINE ms == <<d, i>>
                   ds == <<d>>
        <4>1. ms = Append(ds, i) /\ ms \in Seq(Down) /\ ds \in Seq(Down)
          BY <2>2
        <4>2. Num(ds, Offers(id)) = One(d \in Offers(id))
          BY <2>2, NumSingle
        <4> HIDE DEF ds
        <4>3. Num(Append(ds, i), Offers(id)) = Num(ds, Offers(id)) + One(i \in Offers(id))
          BY <2>2, <4>1, NumAppend
        <4>4. Num(ms, Offers(id)) = 0 + One(id = j)
          BY <2>2, <4>1, <4>2, <4>3 DEF One
        <4>5. rx' = rx \o ms
          BY <3>2
        <4> HIDE DEF ms
        <4>6. r2 = r + Num(ms, Offers(id))
          BY <1>2, <4>1, <4>5, NumJoin DEF r, r2
        <4> QED
          BY <1>5, <4>4, <4>6 DEF One
      <3> QED
        BY <2>3, <3>1, <3>2
    <2>5. b = b2 + One(id = j)
      BY <2>1 DEF b, b2, One
    <2>6. t2 = t /\ s2 = s
      BY <1>6, <1>9, <2>1 DEF AdspStep
    <2>7. One(id = j) \in {0, 1}
      BY DEF One
    <2> QED
      BY <1>5, <2>4, <2>5, <2>6, <2>7
  <1>25. ASSUME AdspReceive PROVE Goal
    <2> DEFINE m == Head(tx)
    <2>1. /\ tx # <<>> /\ tx' = Tail(tx) /\ m \in Up /\ UNCHANGED pg /\ m.cmd # "OPEN"
          /\ rx' = rx \o Back(m) /\ Back(m) \in Seq(Down)
          /\ \A k \in DOMAIN Back(m) : Back(m)[k].cmd \in {"VERSION_ACK", "OPEN_ACK", "INTENT"}
          /\ adsp'.busy = IF m.cmd = "VERSION" THEN {}
                          ELSE IF m.cmd = "TX_DATA" THEN adsp.busy \cup {m.id} ELSE adsp.busy
      BY <1>25, ReceiveFacts, BackFacts DEF AdspStep, AdspSends
    <2>2. \A k \in DOMAIN Back(m) : Back(m)[k].cmd \notin {"INTENT", "RX_DONE_W_REUSE"}
      BY <2>1, BackAcks DEF Has
    <2>3. r2 = r /\ s2 = s
      BY <1>9, <1>12, <2>1, <2>2
    <2>4. t = t2 + One(m \in Spent(id))
      BY <1>2, <2>1, NumTail DEF t, t2
    <2>5. b2 = 1 /\ b = 0 => m \in Spent(id)
      BY <2>1 DEF b, b2, One, Spent
    <2> HIDE DEF m
    <2>6. b2 <= b + One(m \in Spent(id)) /\ One(m \in Spent(id)) \in {0, 1}
      BY <1>5, <2>5 DEF One
    <2> QED
      BY <1>5, <2>3, <2>4, <2>6
  <1>26. Goal
    <2> HIDE DEF Goal
    <2> QED
      BY <1>15, <1>16, <1>17, <1>18, <1>19, <1>20, <1>21, <1>22, <1>23, <1>24, <1>25, Steps
  <1>27. t + r + b + s \in Nat /\ t2 + r2 + b2 + s2 \in Nat
    BY <1>5
  <1> QED
    BY <1>3, <1>4, <1>26, <1>27


LEMMA AtMost ==
  ASSUME NEW x \in Nat, NEW y \in Nat, x <= y, y <= 1
  PROVE  x <= 1
  OBVIOUS

(* The ADSP that opens the channel posts each of its intents once. *)
LEMMA RiidPosted ==
  ASSUME SessionInv, HandshakeInv, NoIntents, NEW id \in RemoteIntent, AdspReceive,
         Head(tx).cmd = "OPEN"
  PROVE  RiidPlaces(id)' \in {0, 1}
  <1> DEFINE m == Head(tx)
             o == Cmd("OPEN_ACK")
             p == PostIntents
  <1>1. TypeInv /\ TypeInv' /\ tx \in Seq(Up) /\ rx \in Seq(Down) /\ tx' \in Seq(Up)
    BY SessionStep DEF SessionInv, TypeInv, Next, Adsp
  <1>2. /\ tx # <<>> /\ tx' = Tail(tx) /\ m \in Up /\ UNCHANGED pg
        /\ rx' = rx \o Back(m) /\ Back(m) \in Seq(Down) /\ adsp'.busy = adsp.busy
    BY ReceiveFacts, BackFacts DEF AdspStep, AdspSends
  <1>3. Has(tx, "OPEN") /\ (Has(tx', "TX_DATA") => Has(tx, "TX_DATA"))
    BY <1>1, <1>2, TailHas
  <1>4. ~adsp.open
    BY <1>3 DEF SessionInv, OpenInv
  <1>5. /\ ~Has(tx', "TX_DATA") /\ adsp'.busy = {} /\ ~pg'.riid_avail
        /\ ~Has(rx, "INTENT") /\ ~Has(rx, "RX_DONE_W_REUSE")
    BY <1>2, <1>3, <1>4 DEF NoIntents
  <1>6. Num(tx', Spent(id)) = 0
    BY <1>1, <1>5, NumNone DEF Has, Spent
  <1>7. Num(rx, Offers(id)) = 0
    BY <1>1, <1>5, NumNone DEF Has, Offers
  <1>8. Num(Back(m), Offers(id)) \in {0, 1}
    <2>1. Back(m) = <<o>> \o p /\ o \in Down /\ o.cmd = "OPEN_ACK"
      BY DownMessages DEF Back
    <2>2. p \in Seq(Down)
      BY PostFacts
    <2> HIDE DEF o
    <2>3. <<o>> \in Seq(Down) /\ Num(<<o>>, Offers(id)) = One(o \in Offers(id))
      BY <2>1, Single, NumSingle
    <2>4. Num(<<o>>, Offers(id)) = 0
      BY <2>1, <2>3 DEF One, Offers
    <2>5. Num(p, Offers(id)) \in {0, 1}
      <3>1. CASE \A k \in DOMAIN p : p[k].id # id
        BY <2>2, <3>1, NumNone DEF Offers
      <3>2. ASSUME NEW k \in DOMAIN p, p[k].id = id PROVE Num(p, Offers(id)) = 1
        <4>1. \A l \in DOMAIN p : p[l] \in Down /\ p[l].cmd = "INTENT"
          BY PostFacts, ElementOfSeq, LenProperties
        <4>2. \A l \in DOMAIN p : p[l].id = id => l = k
          BY <3>2, PostFacts
        <4>3. \A l \in DOMAIN p : p[l] \in Offers(id) <=> l = k
          BY <3>2, <4>1, <4>2 DEF Offers
        <4>4. Positions(p, Offers(id)) = {k}
          BY <3>2, <4>3 DEF Positions
        <4> QED
          BY <4>4, FS_Singleton DEF Num
      <3> QED
        BY <3>1, <3>2
    <2> DEFINE os == <<o>>
    <2>6. os \in Seq(Down) /\ Back(m) = os \o p /\ Num(os, Offers(id)) = 0
      BY <2>1, <2>3, <2>4
    <2> HIDE DEF os, p
    <2>7. Num(os \o p, Offers(id)) = Num(os, Offers(id)) + Num(p, Offers(id))
      BY <2>2, <2>6, NumJoin
    <2>8. Num(os \o p, Offers(id)) = 0 + Num(p, Offers(id)) /\ Num(Back(m), Offers(id)) = Num(os \o p, Offers(id))
      BY <2>6, <2>7
    <2> HIDE DEF m
    <2> QED
      BY <2>5, <2>8
  <1> HIDE DEF m
  <1>9. Num(rx', Offers(id)) \in {0, 1}
    <2>1. Num(rx', Offers(id)) = Num(rx, Offers(id)) + Num(Back(m), Offers(id))
      BY <1>1, <1>2, NumJoin
    <2> QED
      BY <1>7, <1>8, <2>1
  <1>10. (TypeInv => RiidCounts)'
    BY RiidCounted, PTL
  <1>11. RiidPlaces(id)' = Num(tx', Spent(id)) + Num(rx', Offers(id)) + One(id \in adsp'.busy)
                             + One(pg'.riid_avail /\ pg'.riid = id)
    BY <1>1, <1>10 DEF RiidCounts
  <1>12. One(id \in adsp'.busy) = 0 /\ One(pg'.riid_avail /\ pg'.riid = id) = 0
    BY <1>5 DEF One
  <1> QED
    BY <1>6, <1>9, <1>11, <1>12

LEMMA RiidStep == SessionInv /\ HandshakeInv /\ RiidInv /\ [Next /\ OneOpen]_vars => RiidInv'
  <1> SUFFICES ASSUME SessionInv, HandshakeInv, RiidInv, [Next /\ OneOpen]_vars PROVE RiidInv'
    OBVIOUS
  <1>1. NoIntents /\ NoIntents'
    BY IntentsStep DEF RiidInv
  <1>2. CASE UNCHANGED vars
    <2>1. RiidExclusive'
      BY <1>2 DEF vars, RiidInv, RiidExclusive, RiidPlaces, Count
    <2> QED
      BY <1>1, <2>1 DEF RiidInv
  <1>3. CASE Next
    <2>1. ASSUME NEW id \in RemoteIntent PROVE RiidPlaces(id)' <= 1
      <3>1. CASE AdspReceive /\ Head(tx).cmd = "OPEN"
        <4>1. RiidPlaces(id)' \in {0, 1}
          BY <1>1, <3>1, RiidPosted
        <4> QED
          BY <4>1
      <3>2. CASE ~(AdspReceive /\ Head(tx).cmd = "OPEN")
        <4>1. /\ RiidPlaces(id) \in Nat /\ RiidPlaces(id)' \in Nat
              /\ RiidPlaces(id)' <= RiidPlaces(id)
          BY <1>3, <3>2, RiidFalls
        <4>2. RiidPlaces(id) <= 1
          BY DEF RiidInv, RiidExclusive
        <4> QED
          BY <4>1, <4>2, AtMost
      <3> QED
        BY <3>1, <3>2
    <2>2. RiidExclusive'
      BY <2>1 DEF RiidExclusive
    <2> QED
      BY <1>1, <2>2 DEF RiidInv
  <1> QED
    BY <1>2, <1>3

(* U-Boot never sends into an intent of the ADSP that is in use, with one  *)
(* open, whatever times out and whatever finds the ring full.              *)
THEOREM RiidsAreExclusive == Spec /\ [][OneOpen]_vars => []RiidExclusive
  <1>1. Init => RiidInv
    <2> SUFFICES ASSUME Init, NEW id \in RemoteIntent PROVE RiidPlaces(id) <= 1
      BY IntentsStart DEF RiidInv, RiidExclusive
    <2>1. TypeInv
      BY SessionStart DEF SessionInv
    <2>2. tx = <<>> /\ rx = <<>> /\ adsp.busy = {} /\ ~pg.riid_avail
      BY DEF Init, FreshAdsp, FreshPg
    <2>3. /\ Num(tx, Spent(id)) = 0 /\ Num(rx, Offers(id)) = 0
          /\ One(id \in adsp.busy) = 0 /\ One(pg.riid_avail /\ pg.riid = id) = 0
      BY <2>2, NumEmpty DEF One
    <2>4. RiidPlaces(id) = 0
      BY <2>1, <2>3, RiidCounted DEF RiidCounts
    <2> QED
      BY <2>4
  <1>2. SessionInv /\ HandshakeInv /\ RiidInv /\ [Next]_vars /\ [OneOpen]_vars
          => SessionInv' /\ HandshakeInv' /\ RiidInv'
    BY SessionStep, HandshakeStep, RiidStep
  <1>3. RiidInv => RiidExclusive
    BY DEF RiidInv
  <1> QED
    BY <1>1, <1>2, <1>3, SessionStart, HandshakeStart, PTL DEF Spec


-----------------------------------------------------------------------------
(* The intents of U-Boot, while the ring towards the ADSP has room for two *)
(* messages: none leaks, none is doubled.                                  *)

Returned(id) == {m \in Up : m.cmd \in {"INTENT", "RX_DONE_W_REUSE"} /\ m.id = id}
Filled(id) == {m \in Down : m.cmd = "TX_DATA" /\ m.id = id}

LiidCounts ==
    \A i \in Ids :
        LiidPlaces(i) = Num(tx, Returned(i)) + Num(rx, Filled(i)) + One(i \in adsp.free)

LEMMA LiidCounted == TypeInv => LiidCounts
  <1> SUFFICES ASSUME TypeInv, NEW id \in Ids
               PROVE  LiidPlaces(id) = Num(tx, Returned(id)) + Num(rx, Filled(id)) + One(id \in adsp.free)
    BY DEF LiidCounts
  <1>1. tx \in Seq(Up) /\ rx \in Seq(Down)
    BY DEF TypeInv
  <1>2. /\ \A k \in DOMAIN tx : tx[k] \in Up
        /\ \A k \in DOMAIN rx : rx[k] \in Down
    BY <1>1, LenProperties, ElementOfSeq
  <1>3. /\ {k \in DOMAIN tx : tx[k].cmd \in {"INTENT", "RX_DONE_W_REUSE"} /\ tx[k].id = id}
              = Positions(tx, Returned(id))
        /\ {k \in DOMAIN rx : rx[k].cmd = "TX_DATA" /\ rx[k].id = id} = Positions(rx, Filled(id))
    BY <1>2 DEF Positions, Returned, Filled
  <1> QED
    BY <1>3 DEF LiidPlaces, Count, Num, One

LEMMA NumPair ==
  ASSUME NEW S, NEW d \in S, NEW e \in S, NEW P
  PROVE  <<d, e>> \in Seq(S) /\ Num(<<d, e>>, P) = One(d \in P) + One(e \in P)
  <1> DEFINE ds == <<d>>
  <1>1. <<d, e>> = Append(ds, e) /\ ds \in Seq(S) /\ <<d, e>> \in Seq(S)
    OBVIOUS
  <1>2. Num(ds, P) = One(d \in P)
    BY NumSingle
  <1> HIDE DEF ds
  <1>3. Num(Append(ds, e), P) = Num(ds, P) + One(e \in P)
    BY <1>1, NumAppend
  <1> QED
    BY <1>1, <1>2, <1>3

(* What a poll gives back or grants. *)
LEMMA ReplyCounts ==
  ASSUME pg \in Qpg, NEW m \in Down, Room(Len(Reply(m))), NEW id \in Ids,
         m.cmd \in {"TX_DATA", "RX_INTENT_REQ"} => pg.remote_opened
  PROVE  Num(Reply(m), Returned(id)) = IF m.cmd = "TX_DATA" THEN One(id = m.id)
                                       ELSE IF m.cmd = "RX_INTENT_REQ" THEN One(id = pg.next_liid)
                                       ELSE 0
  <1>1. CASE m.cmd = "TX_DATA"
    <2> DEFINE d == WithId("RX_DONE_W_REUSE", m.id)
    <2>1. Reply(m) = <<d>>
      BY <1>1 DEF Reply, RxDoneReply
    <2>2. m.id \in Ids
      BY <1>1 DEF Down
    <2>3. d \in Up /\ d.cmd = "RX_DONE_W_REUSE" /\ d.id = m.id
      BY <2>2, UpMessages
    <2> HIDE DEF d
    <2>4. Num(<<d>>, Returned(id)) = One(d \in Returned(id))
      BY <2>3, NumSingle
    <2>5. d \in Returned(id) <=> id = m.id
      BY <2>3 DEF Returned
    <2>6. One(d \in Returned(id)) = One(id = m.id)
      BY <2>5 DEF One
    <2> QED
      BY <1>1, <2>1, <2>4, <2>6
  <1>2. CASE m.cmd = "RX_INTENT_REQ"
    <2> DEFINE i == WithId("INTENT", pg.next_liid)
               g == Granted(TRUE)
    <2>1. Reply(m) = <<i, g>>
      <3>1. Reply(m) = IF Room(1) THEN <<i, g>> ELSE <<Granted(FALSE)>>
        BY <1>2 DEF Reply, GrantReply
      <3>2. Len(<<Granted(FALSE)>>) = 1
        OBVIOUS
      <3> HIDE DEF i, g
      <3> QED
        BY <3>1, <3>2
    <2>2. /\ i \in Up /\ i.cmd = "INTENT" /\ i.id = pg.next_liid
          /\ g \in Up /\ g.cmd = "RX_INTENT_REQ_ACK"
      BY UpMessages DEF Qpg
    <2> HIDE DEF i, g
    <2>3. Num(<<i, g>>, Returned(id)) = One(i \in Returned(id)) + One(g \in Returned(id))
      BY <2>2, NumPair
    <2>4. (i \in Returned(id) <=> id = pg.next_liid) /\ g \notin Returned(id)
      BY <2>2 DEF Returned
    <2>5. One(i \in Returned(id)) = One(id = pg.next_liid) /\ One(g \in Returned(id)) = 0
          /\ One(id = pg.next_liid) \in Nat
      BY <2>4 DEF One
    <2>6. Num(<<i, g>>, Returned(id)) = One(id = pg.next_liid)
      BY <2>3, <2>5
    <2> QED
      BY <1>2, <2>1, <2>6
  <1>3. CASE m.cmd = "VERSION"
    <2> DEFINE v == Cmd("VERSION_ACK")
    <2>1. Reply(m) = <<v>> /\ v \in Up /\ v.cmd = "VERSION_ACK"
      BY <1>3, UpMessages DEF Reply
    <2> HIDE DEF v
    <2>2. Num(<<v>>, Returned(id)) = One(v \in Returned(id)) /\ v \notin Returned(id)
      BY <2>1, NumSingle DEF Returned
    <2> QED
      BY <1>3, <2>1, <2>2 DEF One
  <1>4. CASE m.cmd \notin {"TX_DATA", "RX_INTENT_REQ", "VERSION"}
    <2>1. Reply(m) = <<>>
      BY <1>4 DEF Reply
    <2> QED
      BY <1>4, <2>1, NumEmpty
  <1> QED
    BY <1>1, <1>2, <1>3, <1>4

LEMMA LiidStart == Init => LiidInv
  <1> SUFFICES ASSUME Init PROVE LiidInv
    OBVIOUS
  <1>1. TypeInv
    BY SessionStart DEF SessionInv
  <1>2. tx = <<>> /\ rx = <<>> /\ adsp.free = {} /\ pg.next_liid = 1 /\ ~Has(rx, "RX_INTENT_REQ")
    BY DEF Init, FreshAdsp, FreshPg, FirstLiid, Has
  <1>3. ASSUME NEW id \in Ids PROVE LiidPlaces(id) = 0 /\ ~(id < pg.next_liid)
    <2>1. Num(tx, Returned(id)) = 0 /\ Num(rx, Filled(id)) = 0 /\ One(id \in adsp.free) = 0
      BY <1>2, NumEmpty DEF One
    <2>2. LiidPlaces(id) = 0
      BY <1>1, <2>1, LiidCounted DEF LiidCounts
    <2> QED
      BY <1>2, <2>2 DEF Ids
  <1> QED
    BY <1>2, <1>3 DEF LiidInv, FirstLiid


(* What fills an intent, or asks for one, finds the channel open. *)
LEMMA FilledOpen ==
  ASSUME SessionInv, HandshakeInv, LiidInv, NEW k \in DOMAIN rx, rx[k].cmd \in {"TX_DATA", "RX_INTENT_REQ"}
  PROVE  pg.remote_opened
  <1>1. TypeInv /\ rx \in Seq(Down) /\ tx \in Seq(Up) /\ pg \in Qpg
    BY DEF SessionInv, TypeInv
  <1>2. rx[k] \in Down
    BY <1>1, LenProperties, ElementOfSeq
  <1>3. pg.local_open_sent => pg.remote_opened
    BY DEF HandshakeInv, OpenFirst
  <1>4. CASE rx[k].cmd = "RX_INTENT_REQ"
    <2>1. adsp.open
      BY <1>4 DEF LiidInv, Has
    <2> QED
      BY <1>3, <2>1 DEF HandshakeInv, OpenFirst
  <1>5. CASE rx[k].cmd = "TX_DATA"
    <2> DEFINE id == rx[k].id
               g == Num(tx, Returned(id))
               q == Num(rx, Filled(id))
               f == One(id \in adsp.free)
    <2>1. id \in Ids /\ rx[k] \in Filled(id)
      BY <1>2, <1>5 DEF Down, Filled
    <2>2. g \in Nat /\ q \in Nat /\ f \in Nat
      BY <1>1, NumType DEF One
    <2>3. q # 0
      BY <1>1, <2>1, NumSome
    <2>4. LiidPlaces(id) = g + q + f
      BY <1>1, <2>1, LiidCounted DEF LiidCounts
    <2> HIDE DEF g, q, f, id
    <2>5. LiidPlaces(id) # 0
      BY <2>2, <2>3, <2>4
    <2>6. id < pg.next_liid
      BY <2>1, <2>5 DEF LiidInv
    <2>7. pg.next_liid # 1
      BY <2>1, <2>6 DEF Ids
    <2>8. pg.local_open_sent
      BY <2>7 DEF LiidInv, FirstLiid
    <2> QED
      BY <1>3, <2>8
  <1> QED
    BY <1>4, <1>5

LEMMA LiidPlacesKept ==
  ASSUME SessionInv, HandshakeInv, LiidInv, Next, OneOpen, NoneLost, NEW id \in Ids
  PROVE  LiidPlaces(id)' = IF id < pg'.next_liid THEN 1 ELSE 0
  <1> DEFINE g == Num(tx, Returned(id))
             q == Num(rx, Filled(id))
             f == One(id \in adsp.free)
             e == One(id < pg.next_liid)
             g2 == Num(tx', Returned(id))
             q2 == Num(rx', Filled(id))
             f2 == One(id \in adsp'.free)
             e2 == One(id < pg'.next_liid)
             Goal == g2 + q2 + f2 = e2
  <1>1. TypeInv /\ StackInv /\ TypeInv'
    BY SessionStep DEF SessionInv
  <1>2. /\ pg \in Qpg /\ tx \in Seq(Up) /\ rx \in Seq(Down) /\ pg.next_liid \in Nat
        /\ tx' \in Seq(Up) /\ rx' \in Seq(Down) /\ pg'.next_liid \in Nat /\ id \in Nat
    BY <1>1 DEF TypeInv, Qpg, Ids
  <1>3. g + q + f = e
    <2>1. LiidPlaces(id) = g + q + f
      BY <1>1, LiidCounted DEF LiidCounts
    <2>2. LiidPlaces(id) = e
      BY DEF LiidInv, One
    <2> QED
      BY <2>1, <2>2
  <1>4. LiidPlaces(id)' = g2 + q2 + f2
    <2>1. (TypeInv => LiidCounts)'
      BY LiidCounted, PTL
    <2> QED
      BY <1>1, <2>1 DEF LiidCounts
  <1>5. /\ g \in Nat /\ q \in Nat /\ g2 \in Nat /\ q2 \in Nat
        /\ f \in {0, 1} /\ e \in {0, 1} /\ f2 \in {0, 1} /\ e2 \in {0, 1}
    BY <1>2, NumType DEF One
  <1>6. /\ PollMessage => Room(Len(Reply(Head(rx))))
        /\ AfterOpenAck => Room(1)
    BY DEF NoneLost
  <1>7. UNCHANGED tx => g2 = g
    OBVIOUS
  <1>8. UNCHANGED rx => q2 = q
    OBVIOUS
  <1>9. adsp'.free = adsp.free => f2 = f
    OBVIOUS
  <1>10. /\ pg'.next_liid = pg.next_liid => e2 = e
         /\ pg'.next_liid = pg.next_liid + 1 => e2 = e + One(id = pg.next_liid)
    BY <1>2 DEF One
  <1>11. ASSUME NEW ms \in Seq(Up), tx' = tx \o ms
         PROVE  g2 = g + Num(ms, Returned(id))
    BY <1>2, <1>11, NumJoin
  <1>12. ASSUME NEW m \in Up, tx' = Append(tx, m)
         PROVE  g2 = g + One(m \in Returned(id))
    BY <1>2, <1>12, NumAppend
  <1>13. ASSUME NEW ms \in Seq(Down), rx' = rx \o ms, \A k \in DOMAIN ms : ms[k].cmd # "TX_DATA"
         PROVE  q2 = q
    <2>1. \A k \in DOMAIN ms : ms[k] \notin Filled(id)
      BY <1>13 DEF Filled
    <2> QED
      BY <1>2, <1>13, <2>1, NumJoinNone
  <1>14. ASSUME NEW d \in Down, rx' = rx \o <<d>>
         PROVE  q2 = q + One(d \in Filled(id))
    <2>1. <<d>> \in Seq(Down) /\ Num(<<d>>, Filled(id)) = One(d \in Filled(id))
      BY Single, NumSingle
    <2> DEFINE ms == <<d>>
    <2>2. ms \in Seq(Down) /\ Num(ms, Filled(id)) = One(d \in Filled(id)) /\ rx' = rx \o ms
      BY <1>14, <2>1
    <2> HIDE DEF ms
    <2> QED
      BY <1>2, <2>2, NumJoin
  <1> HIDE DEF g, q, f, e, g2, q2, f2, e2
  <1>15. ASSUME g2 = g, q2 = q, f2 = f, e2 = e PROVE Goal
    BY <1>3, <1>15
  <1>16. ASSUME QuietStep PROVE Goal
    <2>1. UNCHANGED <<tx, rx, adsp>> /\ pg'.next_liid = pg.next_liid
      BY <1>16, QuietMoves DEF Link
    <2> QED
      BY <1>7, <1>8, <1>9, <1>10, <1>15, <2>1
  <1>17. ASSUME CallOpen PROVE Goal
    <2>1. UNCHANGED <<rx, adsp>>
      BY <1>17, CallOpenFacts
    <2>2. pg' = pg
      BY <1>17, CallOpenFacts DEF OneOpen, HandshakeInv, BeforeCalls
    <2>3. g2 = g
      <3>1. CASE tx' = Append(tx, Cmd("VERSION"))
        <4>1. Cmd("VERSION") \in Up /\ Cmd("VERSION") \notin Returned(id)
          BY UpMessages DEF Returned
        <4>2. g2 = g + One(Cmd("VERSION") \in Returned(id))
          BY <1>12, <3>1, <4>1
        <4> QED
          BY <1>5, <4>1, <4>2 DEF One
      <3> QED
        BY <1>7, <1>17, <3>1, CallOpenFacts
    <2> QED
      BY <1>8, <1>9, <1>10, <1>15, <2>1, <2>2, <2>3
  <1>18. ASSUME PollMessage PROVE Goal
    <2> DEFINE m == Head(rx)
    <2>1. /\ rx # <<>> /\ rx' = Tail(rx) /\ m \in Down /\ UNCHANGED adsp
          /\ pg'.next_liid = Handled(m).next_liid
      BY <1>18, PollFacts DEF Link
    <2>2. tx' = tx \o Reply(m) /\ Reply(m) \in Seq(Up)
      BY <1>6, <1>18, PollFacts
    <2>3. m = rx[1] /\ 1 \in DOMAIN rx
      BY <1>2, <2>1, Beheaded
    <2>4. m.cmd \in {"TX_DATA", "RX_INTENT_REQ"} => pg.remote_opened
      BY <2>3, FilledOpen
    <2>5. pg'.next_liid = IF m.cmd = "RX_INTENT_REQ" THEN pg.next_liid + 1 ELSE pg.next_liid
      BY <1>2, <2>1, <2>4, HandledFacts
    <2>6. g2 = g + Num(Reply(m), Returned(id)) /\ f2 = f
      BY <1>9, <1>11, <2>1, <2>2
    <2>7. Num(Reply(m), Returned(id)) = IF m.cmd = "TX_DATA" THEN One(id = m.id)
                                        ELSE IF m.cmd = "RX_INTENT_REQ" THEN One(id = pg.next_liid)
                                        ELSE 0
      BY <1>2, <1>6, <1>18, <2>1, <2>4, ReplyCounts
    <2>8. q = q2 + One(m \in Filled(id))
      BY <1>2, <2>1, NumTail DEF q, q2
    <2>9. m \in Filled(id) <=> m.cmd = "TX_DATA" /\ id = m.id
      BY <2>1 DEF Filled
    <2> HIDE DEF m
    <2>10. CASE m.cmd = "TX_DATA"
      <3>1. g2 = g + One(id = m.id) /\ One(id = m.id) \in {0, 1} /\ q = q2 + One(id = m.id) /\ e2 = e
        BY <1>10, <2>5, <2>6, <2>7, <2>8, <2>9, <2>10 DEF One
      <3> QED
        BY <1>3, <1>5, <2>6, <3>1
    <2>11. CASE m.cmd = "RX_INTENT_REQ"
      <3>1. g2 = g + One(id = pg.next_liid) /\ One(id = pg.next_liid) \in {0, 1}
            /\ e2 = e + One(id = pg.next_liid)
        BY <1>10, <2>5, <2>6, <2>7, <2>11 DEF One
      <3>2. q = q2
        BY <1>5, <2>8, <2>9, <2>11 DEF One
      <3> QED
        BY <1>3, <1>5, <2>6, <3>1, <3>2
    <2>12. CASE m.cmd \notin {"TX_DATA", "RX_INTENT_REQ"}
      <3>1. g2 = g + 0 /\ e2 = e
        BY <1>10, <2>5, <2>6, <2>7, <2>12
      <3>2. q = q2
        BY <1>5, <2>8, <2>9, <2>12 DEF One
      <3> QED
        BY <1>3, <1>5, <2>6, <3>1, <3>2
    <2> QED
      BY <2>10, <2>11, <2>12
  <1>19. ASSUME AfterRemoteOpen PROVE Goal
    <2>1. UNCHANGED <<rx, adsp>> /\ pg'.next_liid = pg.next_liid
      BY <1>19, RemoteOpenFacts
    <2>2. PICK ms \in Seq(Up) : tx' = tx \o ms /\ \A k \in DOMAIN ms : ms[k].cmd \in {"OPEN_ACK", "OPEN"}
      BY <1>19, RemoteOpenFacts
    <2>3. g2 = g + Num(ms, Returned(id)) /\ Num(ms, Returned(id)) = 0
      BY <1>11, <2>2, NumNone DEF Returned
    <2>4. g2 = g
      BY <1>5, <2>3
    <2> QED
      BY <1>8, <1>9, <1>10, <1>15, <2>1, <2>4
  <1>20. ASSUME AfterOpenAck PROVE Goal
    <2> DEFINE i == WithId("INTENT", pg.next_liid)
    <2>1. /\ UNCHANGED <<rx, adsp>> /\ pg'.next_liid = pg.next_liid + 1
          /\ i \in Up /\ i.cmd = "INTENT" /\ i.id = pg.next_liid /\ tx' = Append(tx, i)
      BY <1>6, <1>20, OpenAckFacts DEF WithId
    <2> HIDE DEF i
    <2>2. g2 = g + One(i \in Returned(id))
      BY <1>12, <2>1
    <2>3. i \in Returned(id) <=> id = pg.next_liid
      BY <2>1 DEF Returned
    <2>4. g2 = g + One(id = pg.next_liid) /\ One(id = pg.next_liid) \in {0, 1}
      BY <2>2, <2>3 DEF One
    <2>5. e2 = e + One(id = pg.next_liid) /\ f2 = f /\ q2 = q
      BY <1>8, <1>9, <1>10, <2>1
    <2> QED
      BY <1>3, <1>5, <2>4, <2>5
  <1>21. ASSUME AfterRiid PROVE Goal
    <2> DEFINE d == Data(pg.riid, Top.op)
    <2>1. /\ UNCHANGED <<rx, adsp>> /\ pg'.next_liid = pg.next_liid
          /\ d \in Up /\ d.cmd = "TX_DATA" /\ (tx' = Append(tx, d) \/ UNCHANGED tx)
      BY <1>21, RiidFacts DEF Data
    <2> HIDE DEF d
    <2>2. d \notin Returned(id)
      BY <2>1 DEF Returned
    <2>3. g2 = g
      <3>1. CASE tx' = Append(tx, d)
        <4>1. g2 = g + One(d \in Returned(id))
          BY <1>12, <2>1, <3>1
        <4> QED
          BY <1>5, <2>2, <4>1 DEF One
      <3> QED
        BY <1>7, <2>1, <3>1
    <2> QED
      BY <1>8, <1>9, <1>10, <1>15, <2>1, <2>3
  <1>22. ASSUME AdspVersion \/ AdspAdvertise \/ AdspAskIntent PROVE Goal
    <2>1. PICK c \in {"VERSION", "OPEN", "RX_INTENT_REQ"} :
            /\ AdspStep /\ UNCHANGED tx /\ Cmd(c) \in Down /\ Cmd(c).cmd = c
            /\ rx' = rx \o <<Cmd(c)>> /\ adsp'.free = adsp.free
      BY <1>22, SpeaksFacts
    <2>2. Cmd(c) \notin Filled(id)
      BY <2>1 DEF Filled
    <2>3. q2 = q + One(Cmd(c) \in Filled(id))
      BY <1>14, <2>1
    <2>4. q2 = q
      BY <1>5, <2>2, <2>3 DEF One
    <2> QED
      BY <1>7, <1>9, <1>10, <1>15, <2>1, <2>4 DEF AdspStep
  <1>23. ASSUME AdspRelease PROVE Goal
    <2>1. PICK j \in adsp.busy :
            /\ AdspStep /\ UNCHANGED tx /\ j \in RemoteIntent /\ adsp'.free = adsp.free
            /\ WithId("RX_DONE_W_REUSE", j) \in Down /\ WithId("RX_DONE", j) \in Down
            /\ WithId("INTENT", j) \in Down
            /\ \/ rx' = rx \o <<WithId("RX_DONE_W_REUSE", j)>>
               \/ rx' = rx \o <<WithId("RX_DONE", j), WithId("INTENT", j)>>
      BY <1>23, ReleaseFacts
    <2> DEFINE u == WithId("RX_DONE_W_REUSE", j)
               d == WithId("RX_DONE", j)
               i == WithId("INTENT", j)
    <2>2. /\ u \in Down /\ d \in Down /\ i \in Down
          /\ u \notin Filled(id) /\ d \notin Filled(id) /\ i \notin Filled(id)
      BY <2>1 DEF WithId, Filled
    <2>3. rx' = rx \o <<u>> \/ rx' = rx \o <<d, i>>
      BY <2>1
    <2> HIDE DEF u, d, i
    <2>4. q2 = q
      <3>1. CASE rx' = rx \o <<u>>
        <4>1. q2 = q + One(u \in Filled(id))
          BY <1>14, <2>2, <3>1
        <4> QED
          BY <1>5, <2>2, <4>1 DEF One
      <3>2. CASE rx' = rx \o <<d, i>>
        <4> DEFINE ms == <<d, i>>
        <4>1. ms \in Seq(Down) /\ Num(ms, Filled(id)) = One(d \in Filled(id)) + One(i \in Filled(id))
          BY <2>2, NumPair
        <4>2. One(d \in Filled(id)) = 0 /\ One(i \in Filled(id)) = 0
          BY <2>2 DEF One
        <4>3. rx' = rx \o ms
          BY <3>2
        <4> HIDE DEF ms
        <4>4. q2 = q + Num(ms, Filled(id))
          BY <1>2, <4>1, <4>3, NumJoin DEF q, q2
        <4> QED
          BY <1>5, <4>1, <4>2, <4>4
      <3> QED
        BY <2>3, <3>1, <3>2
    <2> QED
      BY <1>7, <1>9, <1>10, <1>15, <2>1, <2>4 DEF AdspStep
  <1>24. ASSUME NEW j \in adsp.free, NEW body \in Flags \cup {"NOTIFY"}, AdspStep, UNCHANGED tx,
                AdspSends(<<Data(j, body)>>), adsp'.free = adsp.free \ {j}, j \in Ids
         PROVE  Goal
    <2> DEFINE d == Data(j, body)
    <2>1. d \in Down /\ d.cmd = "TX_DATA" /\ d.id = j /\ rx' = rx \o <<d>>
      BY <1>24, DownMessages DEF AdspSends
    <2> HIDE DEF d
    <2>2. q2 = q + One(d \in Filled(id))
      BY <1>14, <2>1
    <2>3. d \in Filled(id) <=> id = j
      BY <2>1 DEF Filled
    <2>4. f = f2 + One(id = j)
      BY <1>24 DEF f, f2, One
    <2>5. q2 = q + One(id = j) /\ One(id = j) \in {0, 1}
      BY <2>2, <2>3 DEF One
    <2>6. g2 = g /\ e2 = e
      BY <1>7, <1>10, <1>24 DEF AdspStep
    <2> QED
      BY <1>3, <1>5, <2>4, <2>5, <2>6
  <1>25. ASSUME AdspAnswer PROVE Goal
    <2> HIDE DEF Goal
    <2> QED
      BY <1>24, <1>25, AdspAnswerFacts
  <1>26. ASSUME AdspNotify PROVE Goal
    <2> HIDE DEF Goal
    <2> QED
      BY <1>24, <1>26, AdspNotifyFacts
  <1>27. ASSUME AdspReceive PROVE Goal
    <2> DEFINE m == Head(tx)
    <2>1. /\ tx # <<>> /\ tx' = Tail(tx) /\ m \in Up /\ UNCHANGED pg
          /\ rx' = rx \o Back(m) /\ Back(m) \in Seq(Down)
          /\ \A k \in DOMAIN Back(m) : Back(m)[k].cmd \in {"VERSION_ACK", "OPEN_ACK", "INTENT"}
          /\ adsp'.free = IF m.cmd = "VERSION" THEN {}
                          ELSE IF m.cmd \in {"INTENT", "RX_DONE_W_REUSE"}
                          THEN adsp.free \cup {m.id} ELSE adsp.free
      BY <1>27, ReceiveFacts, BackFacts DEF AdspStep, AdspSends
    <2>2. q2 = q /\ e2 = e
      BY <1>10, <1>13, <2>1
    <2>3. g = g2 + One(m \in Returned(id))
      BY <1>2, <2>1, NumTail DEF g, g2
    <2>4. m.cmd = "VERSION" => Has(tx, "VERSION")
      BY <1>2, <2>1, TailHas
    <2> HIDE DEF m
    <2>5. CASE m.cmd = "VERSION"
      <3>1. ~pg.local_open_sent
        BY <2>4, <2>5 DEF HandshakeInv, VersionFirst
      <3>2. pg.next_liid = 1
        BY <3>1 DEF LiidInv, FirstLiid
      <3>3. e = 0
        BY <3>2 DEF e, One, Ids
      <3>4. f2 = 0
        BY <2>1, <2>5 DEF f2, One
      <3>5. m \notin Returned(id)
        BY <2>5 DEF Returned
      <3>6. g = g2
        BY <1>5, <2>3, <3>5 DEF One
      <3> QED
        BY <1>3, <1>5, <2>2, <3>3, <3>4, <3>6
    <2>6. CASE m.cmd # "VERSION"
      <3>1. m \in Returned(id) => f2 = 1
        BY <2>1, <2>6 DEF f2, One, Returned
      <3>2. m \notin Returned(id) => f2 = f
        BY <2>1, <2>6 DEF f, f2, One, Returned
      <3>3. CASE m \in Returned(id)
        <4>1. g = g2 + 1 /\ f2 = 1
          BY <2>3, <3>1, <3>3 DEF One
        <4> QED
          BY <1>3, <1>5, <2>2, <4>1
      <3>4. CASE m \notin Returned(id)
        <4>1. g = g2 /\ f2 = f
          BY <1>5, <2>3, <3>2, <3>4 DEF One
        <4> QED
          BY <1>3, <2>2, <4>1
      <3> QED
        BY <3>3, <3>4
    <2> QED
      BY <2>5, <2>6
  <1>28. Goal
    <2> HIDE DEF Goal
    <2> QED
      BY <1>16, <1>17, <1>18, <1>19, <1>20, <1>21, <1>22, <1>23, <1>25, <1>26, <1>27, Steps
  <1> QED
    BY <1>4, <1>28 DEF e2, One

LEMMA LiidStep == SessionInv /\ HandshakeInv /\ LiidInv /\ [Next /\ OneOpen /\ NoneLost]_vars => LiidInv'
  <1> SUFFICES ASSUME SessionInv, HandshakeInv, LiidInv, [Next /\ OneOpen /\ NoneLost]_vars PROVE LiidInv'
    OBVIOUS
  <1> DEFINE N == ~pg'.local_open_sent => pg'.next_liid = FirstLiid
             R == Has(rx', "RX_INTENT_REQ") => adsp'.open
  <1>1. pg \in Qpg /\ tx \in Seq(Up) /\ rx \in Seq(Down)
    BY DEF SessionInv, TypeInv
  <1>2. /\ ~pg.local_open_sent => pg.next_liid = FirstLiid
        /\ Has(rx, "RX_INTENT_REQ") => adsp.open
        /\ adsp.open => pg.local_open_sent
    BY DEF LiidInv, HandshakeInv, OpenFirst
  <1>3. CASE UNCHANGED vars
    BY <1>3 DEF vars, LiidInv, LiidPlaces, Count
  <1>4. ASSUME UNCHANGED <<rx, adsp>>, pg'.next_liid = pg.next_liid,
               pg.local_open_sent => pg'.local_open_sent
        PROVE  N /\ R
    BY <1>2, <1>4
  <1>5. ASSUME QuietStep PROVE N /\ R
    BY <1>4, <1>5, QuietMoves DEF Link
  <1>6. ASSUME CallOpen, OneOpen PROVE N /\ R
    <2>1. UNCHANGED <<rx, adsp>>
      BY <1>6, CallOpenFacts
    <2>2. pg' = pg
      BY <1>6, CallOpenFacts DEF OneOpen, HandshakeInv, BeforeCalls
    <2> QED
      BY <1>4, <2>1, <2>2
  <1>7. ASSUME PollMessage PROVE N /\ R
    <2> DEFINE m == Head(rx)
    <2>1. /\ rx # <<>> /\ rx' = Tail(rx) /\ m \in Down /\ UNCHANGED adsp
          /\ pg'.next_liid = Handled(m).next_liid
          /\ pg'.local_open_sent = Handled(m).local_open_sent
      BY <1>7, PollFacts DEF Link
    <2>2. m.cmd = "RX_INTENT_REQ" \/ Handled(m).next_liid = pg.next_liid
      BY <1>1, <2>1, HandledFacts
    <2>3. Handled(m).local_open_sent = pg.local_open_sent
      BY <1>1, <2>1, HandledFacts
    <2>4. m.cmd = "RX_INTENT_REQ" => adsp.open
      BY <1>1, <1>2, <2>1, TailHas
    <2>5. Has(rx', "RX_INTENT_REQ") => Has(rx, "RX_INTENT_REQ")
      BY <1>1, <2>1, TailHas
    <2> QED
      BY <1>2, <2>1, <2>2, <2>3, <2>4, <2>5
  <1>8. ASSUME AfterRemoteOpen \/ AfterRiid PROVE N /\ R
    BY <1>4, <1>8, RemoteOpenFacts, RiidFacts
  <1>9. ASSUME AfterOpenAck PROVE N /\ R
    BY <1>2, <1>9, OpenAckFacts
  <1>10. ASSUME AdspVersion \/ AdspAdvertise \/ AdspAskIntent \/ AdspRelease \/ AdspAnswer \/ AdspNotify
         PROVE  N /\ R
    <2>1. UNCHANGED pg /\ adsp'.open = adsp.open
      BY <1>10, SpokenFacts DEF AdspStep
    <2>2. PICK ms \in Seq(Down) : /\ rx' = rx \o ms
                                  /\ \A k \in DOMAIN ms : ms[k].cmd = "RX_INTENT_REQ" => adsp.open
      BY <1>10, SpokenFacts
    <2>3. Has(ms, "RX_INTENT_REQ") => adsp.open
      BY <2>2 DEF Has
    <2>4. Has(rx', "RX_INTENT_REQ") => adsp.open
      BY <1>1, <1>2, <2>2, <2>3, JoinedHas
    <2> QED
      BY <1>2, <2>1, <2>4
  <1>11. ASSUME AdspReceive PROVE N /\ R
    <2> DEFINE m == Head(tx)
    <2>1. /\ tx # <<>> /\ m \in Up /\ UNCHANGED pg
          /\ rx' = rx \o Back(m) /\ Back(m) \in Seq(Down)
          /\ \A k \in DOMAIN Back(m) : Back(m)[k].cmd \in {"VERSION_ACK", "OPEN_ACK", "INTENT"}
          /\ adsp'.open <=> (IF m.cmd = "VERSION" THEN FALSE
                             ELSE IF m.cmd = "OPEN" THEN TRUE ELSE adsp.open)
      BY <1>11, ReceiveFacts, BackFacts DEF AdspStep, AdspSends
    <2>2. ~Has(Back(m), "RX_INTENT_REQ")
      BY <2>1 DEF Has
    <2>3. Has(rx', "RX_INTENT_REQ") => Has(rx, "RX_INTENT_REQ")
      BY <1>1, <2>1, <2>2, JoinedHas
    <2>4. m.cmd = "VERSION" => Has(tx, "VERSION")
      BY <1>1, <2>1, TailHas
    <2>5. Has(tx, "VERSION") => ~adsp.open
      BY <1>2 DEF HandshakeInv, VersionFirst
    <2> HIDE DEF m
    <2> QED
      BY <1>2, <2>1, <2>3, <2>4, <2>5
  <1>12. CASE Next /\ OneOpen /\ NoneLost
    <2>1. N /\ R
      <3> HIDE DEF N, R
      <3> QED
        BY <1>5, <1>6, <1>7, <1>8, <1>9, <1>10, <1>11, <1>12, Steps
    <2>2. \A id \in Ids : LiidPlaces(id)' = IF id < pg'.next_liid THEN 1 ELSE 0
      BY <1>12, LiidPlacesKept
    <2> QED
      BY <2>1, <2>2 DEF LiidInv
  <1> QED
    BY <1>3, <1>12

(* Every receive intent that U-Boot granted is in exactly one place, with  *)
(* one open, whatever times out and however data, requests for intents and *)
(* nested requests interleave, as long as what is sent finds room in the   *)
(* ring towards the ADSP.                                                  *)
THEOREM LiidsAreConserved == Spec /\ [][OneOpen]_vars /\ [][NoneLost]_vars => []LiidConserved
  <1>1. SessionInv /\ HandshakeInv /\ LiidInv /\ [Next]_vars /\ [OneOpen]_vars /\ [NoneLost]_vars
          => SessionInv' /\ HandshakeInv' /\ LiidInv'
    BY SessionStep, HandshakeStep, LiidStep
  <1>2. SessionInv /\ LiidInv => LiidConserved
    <2> SUFFICES ASSUME SessionInv, LiidInv, NEW id \in 1 .. pg.next_liid - 1 PROVE LiidPlaces(id) = 1
      BY DEF LiidConserved
    <2>1. pg.next_liid \in Nat
      BY DEF SessionInv, TypeInv, Qpg, Ids
    <2>2. id \in Ids /\ id < pg.next_liid
      BY <2>1 DEF Ids
    <2> QED
      BY <2>2 DEF LiidInv
  <1> QED
    BY <1>1, <1>2, SessionStart, HandshakeStart, LiidStart, PTL DEF Spec

-----------------------------------------------------------------------------
(* Every notification is acknowledged, when no wait times out. *)

LEMMA AcksExact ==
  SessionInv /\ HandshakeInv /\ LiidInv /\ AckSum = notified /\ [Next /\ ~TimeOut /\ NoneLost]_vars
    => AckSum' = notified'
  <1> SUFFICES ASSUME SessionInv, HandshakeInv, LiidInv, AckSum = notified, [Next /\ ~TimeOut /\ NoneLost]_vars
               PROVE  AckSum' = notified'
    OBVIOUS
  <1>1. AckSum \in Nat /\ notified \in Nat /\ AckSum' \in Nat /\ notified' \in Nat
    <2>1. TypeInv /\ TypeInv'
      BY SessionStep DEF SessionInv
    <2>2. AckSum \in Nat /\ notified \in Nat
      BY <2>1, AcksCounted
    <2>3. (TypeInv => AckSum \in Nat /\ notified \in Nat)'
      BY AcksCounted, PTL
    <2> QED
      BY <2>1, <2>2, <2>3
  <1>2. CASE Next /\ ~TimeOut /\ NoneLost
    <2>1. \A k \in DOMAIN rx : rx[k] \in Notes => pg.remote_opened
      BY FilledOpen DEF Notes
    <2>2. AckSum' + notified = AckSum + notified'
      BY <1>2, <2>1, AckStep
    <2> QED
      BY <1>1, <2>2, Evened
  <1>3. CASE UNCHANGED vars
    BY <1>3 DEF vars, AckSum
  <1> QED
    BY <1>2, <1>3

(* Every notification taken from the ring is acknowledged exactly once,    *)
(* also when it is met while another is being acknowledged: with one open, *)
(* no timeout and room for what is sent: these three can lose one.         *)
THEOREM EveryNotifyIsAcked ==
  Spec /\ [][OneOpen]_vars /\ [][~TimeOut]_vars /\ [][NoneLost]_vars => []EveryNotifyAcked
  <1> DEFINE I == SessionInv /\ HandshakeInv /\ LiidInv /\ AckSum = notified
  <1>1. Init => I
    <2> SUFFICES ASSUME Init PROVE AckSum = notified
      BY SessionStart, HandshakeStart, LiidStart
    <2>1. adsp.acks = 0 /\ notified = 0 /\ tx = <<>> /\ stack = <<>> /\ rx = <<>>
      BY DEF Init, FreshAdsp
    <2>2. Num(tx, PanAcks) = 0 /\ Num(stack, AckWaits) = 0 /\ Num(rx, Notes) = 0
      BY <2>1, NumEmpty
    <2> QED
      BY <2>1, <2>2 DEF AckSum
  <1>2. I /\ [Next]_vars /\ [OneOpen]_vars /\ [~TimeOut]_vars /\ [NoneLost]_vars => I'
    BY SessionStep, HandshakeStep, LiidStep, AcksExact
  <1>3. I => EveryNotifyAcked
    BY AcksCounted DEF SessionInv, EveryNotifyAcked
  <1> QED
    BY <1>1, <1>2, <1>3, PTL DEF Spec

-----------------------------------------------------------------------------
(* Requests and their answers, when no wait times out. *)

Asks(f) == {m \in Up : m.cmd = "TX_DATA" /\ Answer(m.body) = f}
Kinds(f) == {r \in Req : Answer(r) = f}
Answers(f) == {m \in Down : m.cmd = "TX_DATA" /\ m.body = f}

OutCounts ==
    \A f \in Flags :
        Outstanding(f) = Num(tx, Asks(f)) + Num(adsp.todo, Kinds(f)) + Num(rx, Answers(f))

LEMMA OutCounted == TypeInv => OutCounts
  <1> SUFFICES ASSUME TypeInv, NEW f \in Flags
               PROVE  Outstanding(f) = Num(tx, Asks(f)) + Num(adsp.todo, Kinds(f)) + Num(rx, Answers(f))
    BY DEF OutCounts
  <1>1. tx \in Seq(Up) /\ rx \in Seq(Down) /\ adsp.todo \in Seq(Req)
    BY DEF TypeInv, AdspSide
  <1>2. /\ \A k \in DOMAIN tx : tx[k] \in Up
        /\ \A k \in DOMAIN rx : rx[k] \in Down
        /\ \A k \in DOMAIN adsp.todo : adsp.todo[k] \in Req
    BY <1>1, LenProperties, ElementOfSeq
  <1>3. /\ {k \in DOMAIN tx : tx[k].cmd = "TX_DATA" /\ Answer(tx[k].body) = f} = Positions(tx, Asks(f))
        /\ {k \in DOMAIN adsp.todo : Answer(adsp.todo[k]) = f} = Positions(adsp.todo, Kinds(f))
        /\ {k \in DOMAIN rx : rx[k].cmd = "TX_DATA" /\ rx[k].body = f} = Positions(rx, Answers(f))
    BY <1>2 DEF Positions, Asks, Kinds, Answers
  <1> QED
    BY <1>3 DEF Outstanding, Count, Num

(* Only a request that is sent leaves one more to be answered, and the     *)
(* answer that is taken one less.                                          *)
LEMMA OutFalls ==
  ASSUME SessionInv, Next, NEW f \in Flags \ {"PAN"}, Outstanding(f) \in {0, 1}
  PROVE  /\ Outstanding(f)' \in {0, Outstanding(f)} \/ (AfterRiid /\ Room(1) /\ Answer(Top.op) = f)
         /\ AfterRiid /\ Outstanding(f) = 0 => Outstanding(f)' \in {0, 1}
         /\ PollMessage /\ Head(rx).cmd = "TX_DATA" /\ Head(rx).body = f
            => Outstanding(f) = 1 /\ Outstanding(f)' = 0
  <1> DEFINE t == Num(tx, Asks(f))
             d == Num(adsp.todo, Kinds(f))
             r == Num(rx, Answers(f))
             t2 == Num(tx', Asks(f))
             d2 == Num(adsp'.todo, Kinds(f))
             r2 == Num(rx', Answers(f))
             Asked == AfterRiid /\ Room(1) /\ Answer(Top.op) = f
             o == t + d + r
             o2 == t2 + d2 + r2
             Goal == /\ o2 \in {0, o} \/ Asked
                     /\ AfterRiid /\ o = 0 => o2 \in {0, 1}
  <1>1. TypeInv /\ StackInv /\ TypeInv' /\ f \in Flags
    BY SessionStep DEF SessionInv
  <1>2. /\ pg \in Qpg /\ tx \in Seq(Up) /\ rx \in Seq(Down) /\ adsp.todo \in Seq(Req)
        /\ tx' \in Seq(Up) /\ rx' \in Seq(Down) /\ adsp'.todo \in Seq(Req)
    BY <1>1 DEF TypeInv, AdspSide
  <1>3. Outstanding(f) = o
    BY <1>1, OutCounted DEF OutCounts
  <1>4. Outstanding(f)' = o2
    <2>1. (TypeInv => OutCounts)'
      BY OutCounted, PTL
    <2> QED
      BY <1>1, <2>1 DEF OutCounts
  <1>5. /\ t \in Nat /\ d \in Nat /\ r \in Nat /\ t2 \in Nat /\ d2 \in Nat /\ r2 \in Nat
        /\ o \in {0, 1}
    BY <1>2, <1>3, NumType
  <1>6. UNCHANGED tx => t2 = t
    OBVIOUS
  <1>7. UNCHANGED rx => r2 = r
    OBVIOUS
  <1>8. adsp'.todo = adsp.todo => d2 = d
    OBVIOUS
  <1>9. ASSUME NEW ms \in Seq(Up), tx' = tx \o ms, \A k \in DOMAIN ms : ms[k].cmd # "TX_DATA"
        PROVE  t2 = t
    <2>1. \A k \in DOMAIN ms : ms[k] \notin Asks(f)
      BY <1>9 DEF Asks
    <2> QED
      BY <1>2, <1>9, <2>1, NumJoinNone
  <1>10. ASSUME NEW m \in Up, tx' = Append(tx, m)
         PROVE  t2 = t + One(m \in Asks(f))
    BY <1>2, <1>10, NumAppend
  <1>11. ASSUME NEW ms \in Seq(Down), rx' = rx \o ms,
                \A k \in DOMAIN ms : ms[k].cmd # "TX_DATA"
         PROVE  r2 = r
    <2>1. \A k \in DOMAIN ms : ms[k] \notin Answers(f)
      BY <1>11 DEF Answers
    <2> QED
      BY <1>2, <1>11, <2>1, NumJoinNone
  <1>12. ASSUME NEW e \in Down, rx' = rx \o <<e>>
         PROVE  r2 = r + One(e \in Answers(f))
    <2>1. <<e>> \in Seq(Down) /\ Num(<<e>>, Answers(f)) = One(e \in Answers(f))
      BY Single, NumSingle
    <2> DEFINE ms == <<e>>
    <2>2. ms \in Seq(Down) /\ Num(ms, Answers(f)) = One(e \in Answers(f)) /\ rx' = rx \o ms
      BY <1>12, <2>1
    <2> HIDE DEF ms
    <2> QED
      BY <1>2, <2>2, NumJoin
  <1> HIDE DEF t, d, r, t2, d2, r2, Asked
  <1>13. ASSUME t2 = t, d2 = d, r2 = r PROVE Goal
    BY <1>5, <1>13
  <1>16. ASSUME QuietStep PROVE Goal
    <2>1. UNCHANGED <<tx, rx, adsp>>
      BY <1>16, QuietMoves
    <2> QED
      BY <1>6, <1>7, <1>8, <1>13, <2>1
  <1>17. ASSUME NEW m \in Up, m.cmd # "TX_DATA", UNCHANGED <<rx, adsp>>,
                tx' = Append(tx, m) \/ UNCHANGED tx
         PROVE  Goal
    <2>1. CASE tx' = Append(tx, m)
      <3>1. m \notin Asks(f)
        BY <1>17 DEF Asks
      <3>2. t2 = t + One(m \in Asks(f))
        BY <1>10, <2>1
      <3>3. t2 = t
        BY <1>5, <3>1, <3>2 DEF One
      <3> QED
        BY <1>7, <1>8, <1>13, <1>17, <3>3
    <2>2. CASE UNCHANGED tx
      BY <1>6, <1>7, <1>8, <1>13, <1>17, <2>2
    <2> QED
      BY <1>17, <2>1, <2>2
  <1>18. ASSUME CallOpen PROVE Goal
    <2>1. Cmd("VERSION") \in Up /\ Cmd("VERSION").cmd # "TX_DATA"
      BY UpMessages
    <2>2. UNCHANGED <<rx, adsp>> /\ (tx' = Append(tx, Cmd("VERSION")) \/ UNCHANGED tx)
      BY <1>18, CallOpenFacts
    <2> HIDE DEF Goal
    <2> QED
      BY <1>17, <2>1, <2>2
  <1>19. ASSUME AfterOpenAck PROVE Goal
    <2> DEFINE i == WithId("INTENT", pg.next_liid)
    <2>1. i \in Up /\ i.cmd # "TX_DATA" /\ UNCHANGED <<rx, adsp>> /\ (tx' = Append(tx, i) \/ UNCHANGED tx)
      BY <1>19, OpenAckFacts DEF WithId
    <2> HIDE DEF Goal, i
    <2> QED
      BY <1>17, <2>1
  <1>20. ASSUME AfterRemoteOpen PROVE Goal
    <2>1. UNCHANGED <<rx, adsp>>
      BY <1>20, RemoteOpenFacts
    <2>2. PICK ms \in Seq(Up) : tx' = tx \o ms /\ \A k \in DOMAIN ms : ms[k].cmd \in {"OPEN_ACK", "OPEN"}
      BY <1>20, RemoteOpenFacts
    <2>3. t2 = t
      BY <1>9, <2>2
    <2> QED
      BY <1>7, <1>8, <1>13, <2>1, <2>3
  <1>21. ASSUME AfterRiid PROVE Goal
    <2> DEFINE m == Data(pg.riid, Top.op)
    <2>1. /\ UNCHANGED <<rx, adsp>> /\ m \in Up /\ m.cmd = "TX_DATA" /\ m.body = Top.op
          /\ (Room(1) /\ tx' = Append(tx, m)) \/ UNCHANGED tx
      BY <1>21, RiidFacts DEF Data
    <2> HIDE DEF m
    <2>2. CASE UNCHANGED tx
      BY <1>6, <1>7, <1>8, <1>13, <2>1, <2>2
    <2>3. CASE Room(1) /\ tx' = Append(tx, m)
      <3>1. t2 = t + One(m \in Asks(f)) /\ d2 = d /\ r2 = r
        BY <1>7, <1>8, <1>10, <2>1, <2>3
      <3>2. m \in Asks(f) <=> Asked
        BY <1>21, <2>1, <2>3 DEF Asks, Asked
      <3>3. CASE Asked
        <4>1. t2 = t + 1
          BY <3>1, <3>2, <3>3 DEF One
        <4> QED
          BY <1>5, <3>1, <3>3, <4>1
      <3>4. CASE ~Asked
        <4>1. t2 = t
          BY <1>5, <3>1, <3>2, <3>4 DEF One
        <4> QED
          BY <1>13, <3>1, <4>1
      <3> QED
        BY <3>3, <3>4
    <2> QED
      BY <2>1, <2>2, <2>3
  <1>22. ASSUME PollMessage
         PROVE  Goal /\ (Head(rx).cmd = "TX_DATA" /\ Head(rx).body = f => o = 1 /\ o2 = 0)
    <2> DEFINE m == Head(rx)
    <2>1. rx # <<>> /\ rx' = Tail(rx) /\ m \in Down /\ UNCHANGED adsp
      BY <1>22, PollFacts
    <2>2. PICK ms \in Seq(Up) : tx' = tx \o ms /\ \A k \in DOMAIN ms : ms[k].cmd \in Replies
      BY <1>22, PollFacts
    <2>3. t2 = t /\ d2 = d
      BY <1>8, <1>9, <2>1, <2>2 DEF Replies
    <2>4. r = r2 + One(m \in Answers(f))
      BY <1>2, <2>1, NumTail DEF r, r2
    <2>5. m \in Answers(f) <=> m.cmd = "TX_DATA" /\ m.body = f
      BY <2>1 DEF Answers
    <2> HIDE DEF m
    <2>6. CASE m \in Answers(f)
      <3>1. r = r2 + 1
        BY <2>4, <2>6 DEF One
      <3>2. o = 1 /\ o2 = 0
        BY <1>5, <2>3, <3>1
      <3> QED
        BY <3>2 DEF m
    <2>7. CASE m \notin Answers(f)
      <3>1. r = r2
        BY <1>5, <2>4, <2>7 DEF One
      <3> QED
        BY <1>13, <2>3, <2>5, <2>7, <3>1 DEF m
    <2> QED
      BY <2>6, <2>7
  <1>23. ASSUME AdspVersion \/ AdspAdvertise \/ AdspAskIntent PROVE Goal
    <2>1. PICK c \in {"VERSION", "OPEN", "RX_INTENT_REQ"} :
            /\ UNCHANGED tx /\ Cmd(c) \in Down /\ Cmd(c).cmd = c
            /\ rx' = rx \o <<Cmd(c)>> /\ adsp'.todo = adsp.todo
      BY <1>23, SpeaksFacts
    <2>2. Cmd(c) \notin Answers(f)
      BY <2>1 DEF Answers
    <2>3. r2 = r + One(Cmd(c) \in Answers(f))
      BY <1>12, <2>1
    <2>4. r2 = r
      BY <1>5, <2>2, <2>3 DEF One
    <2> QED
      BY <1>6, <1>8, <1>13, <2>1, <2>4
  <1>24. ASSUME AdspRelease PROVE Goal
    <2>1. PICK j \in adsp.busy :
            /\ UNCHANGED tx /\ j \in RemoteIntent /\ adsp'.todo = adsp.todo
            /\ WithId("RX_DONE_W_REUSE", j) \in Down /\ WithId("RX_DONE", j) \in Down
            /\ WithId("INTENT", j) \in Down
            /\ \/ rx' = rx \o <<WithId("RX_DONE_W_REUSE", j)>>
               \/ rx' = rx \o <<WithId("RX_DONE", j), WithId("INTENT", j)>>
      BY <1>24, ReleaseFacts
    <2> DEFINE u == WithId("RX_DONE_W_REUSE", j)
               x == WithId("RX_DONE", j)
               i == WithId("INTENT", j)
    <2>2. /\ u \in Down /\ x \in Down /\ i \in Down
          /\ u \notin Answers(f) /\ x \notin Answers(f) /\ i \notin Answers(f)
      BY <2>1 DEF WithId, Answers
    <2>3. rx' = rx \o <<u>> \/ rx' = rx \o <<x, i>>
      BY <2>1
    <2> HIDE DEF u, x, i
    <2>4. r2 = r
      <3>1. CASE rx' = rx \o <<u>>
        <4>1. r2 = r + One(u \in Answers(f))
          BY <1>12, <2>2, <3>1
        <4> QED
          BY <1>5, <2>2, <4>1 DEF One
      <3>2. CASE rx' = rx \o <<x, i>>
        <4> DEFINE ms == <<x, i>>
        <4>1. ms \in Seq(Down) /\ Num(ms, Answers(f)) = One(x \in Answers(f)) + One(i \in Answers(f))
          BY <2>2, NumPair
        <4>2. One(x \in Answers(f)) = 0 /\ One(i \in Answers(f)) = 0
          BY <2>2 DEF One
        <4>3. rx' = rx \o ms
          BY <3>2
        <4> HIDE DEF ms
        <4>4. r2 = r + Num(ms, Answers(f))
          BY <1>2, <4>1, <4>3, NumJoin DEF r, r2
        <4> QED
          BY <1>5, <4>1, <4>2, <4>4
      <3> QED
        BY <2>3, <3>1, <3>2
    <2> QED
      BY <1>6, <1>8, <1>13, <2>1, <2>4
  <1>25. ASSUME AdspAnswer PROVE Goal
    <2> DEFINE q == Head(adsp.todo)
    <2>1. PICK j \in adsp.free :
            /\ adsp.todo # <<>> /\ UNCHANGED tx /\ q \in Req /\ Answer(q) \in Flags /\ j \in Ids
            /\ AdspSends(<<Data(j, Answer(q))>>) /\ adsp'.todo = Tail(adsp.todo)
      BY <1>25, AdspAnswerFacts
    <2> DEFINE e == Data(j, Answer(q))
    <2>2. e \in Down /\ e.cmd = "TX_DATA" /\ e.body = Answer(q) /\ rx' = rx \o <<e>>
      BY <2>1, DownMessages DEF AdspSends
    <2>3. d = d2 + One(q \in Kinds(f))
      BY <1>2, <2>1, NumTail DEF d, d2
    <2> HIDE DEF e, q
    <2>4. r2 = r + One(e \in Answers(f))
      BY <1>12, <2>2
    <2>5. (e \in Answers(f) <=> Answer(q) = f) /\ (q \in Kinds(f) <=> Answer(q) = f)
      BY <2>1, <2>2 DEF Answers, Kinds
    <2>6. r2 = r + One(Answer(q) = f) /\ d = d2 + One(Answer(q) = f) /\ One(Answer(q) = f) \in {0, 1}
      BY <2>3, <2>4, <2>5 DEF One
    <2>7. t2 = t
      BY <1>6, <2>1
    <2>8. o2 = o
      BY <1>5, <2>6, <2>7
    <2> QED
      BY <1>5, <2>8
  <1>26. ASSUME AdspNotify PROVE Goal
    <2>1. PICK j \in adsp.free :
            /\ UNCHANGED tx /\ j \in Ids /\ AdspSends(<<Data(j, "NOTIFY")>>) /\ adsp'.todo = adsp.todo
      BY <1>26, AdspNotifyFacts
    <2> DEFINE e == Data(j, "NOTIFY")
    <2>2. e \in Down /\ e.cmd = "TX_DATA" /\ e.body = "NOTIFY" /\ rx' = rx \o <<e>>
      BY <2>1, DownMessages DEF AdspSends
    <2> HIDE DEF e
    <2>3. e \notin Answers(f)
      BY <2>2 DEF Answers, Flags
    <2>4. r2 = r + One(e \in Answers(f))
      BY <1>12, <2>2
    <2>5. r2 = r
      BY <1>5, <2>3, <2>4 DEF One
    <2> QED
      BY <1>6, <1>8, <1>13, <2>1, <2>5
  <1>27. ASSUME AdspReceive PROVE Goal
    <2> DEFINE m == Head(tx)
    <2>1. /\ tx # <<>> /\ tx' = Tail(tx) /\ m \in Up
          /\ rx' = rx \o Back(m) /\ Back(m) \in Seq(Down)
          /\ \A k \in DOMAIN Back(m) : Back(m)[k].cmd \in {"VERSION_ACK", "OPEN_ACK", "INTENT"}
          /\ adsp'.todo = IF m.cmd = "VERSION" THEN <<>>
                          ELSE IF m.cmd = "TX_DATA" THEN Append(adsp.todo, m.body)
                          ELSE adsp.todo
      BY <1>27, ReceiveFacts, BackFacts DEF AdspSends
    <2>2. r2 = r
      BY <1>11, <2>1
    <2>3. t = t2 + One(m \in Asks(f))
      BY <1>2, <2>1, NumTail DEF t, t2
    <2> HIDE DEF m
    <2>4. CASE m.cmd = "VERSION"
      <3>1. d2 = 0
        BY <2>1, <2>4, NumEmpty DEF d2
      <3>2. t = t2
        BY <1>5, <2>3, <2>4 DEF One, Asks
      <3> QED
        BY <1>5, <2>2, <3>1, <3>2
    <2>5. CASE m.cmd = "TX_DATA"
      <3>1. m.body \in Req
        BY <2>1, <2>5 DEF Up
      <3>2. d2 = d + One(m.body \in Kinds(f))
        BY <1>2, <2>1, <2>5, <3>1, NumAppend DEF d, d2
      <3>3. m \in Asks(f) <=> m.body \in Kinds(f)
        BY <2>1, <2>5, <3>1 DEF Asks, Kinds
      <3>4. t = t2 + One(m.body \in Kinds(f)) /\ One(m.body \in Kinds(f)) \in {0, 1}
        BY <2>3, <3>3 DEF One
      <3>5. o2 = o
        BY <1>5, <2>2, <3>2, <3>4
      <3> QED
        BY <1>5, <3>5
    <2>6. CASE m.cmd \notin {"VERSION", "TX_DATA"}
      <3>1. d2 = d
        BY <1>8, <2>1, <2>6
      <3>2. t = t2
        BY <1>5, <2>3, <2>6 DEF One, Asks
      <3> QED
        BY <1>13, <2>2, <3>1, <3>2
    <2> QED
      BY <2>4, <2>5, <2>6
  <1>28. Goal
    <2> HIDE DEF Goal
    <2> QED
      BY <1>16, <1>18, <1>19, <1>20, <1>21, <1>22, <1>23, <1>24, <1>25, <1>26, <1>27, Steps
  <1> QED
    BY <1>3, <1>4, <1>22, <1>28 DEF Asked

LEMMA Short == \A n \in {0, 1} : ~(n > 1)
  OBVIOUS

LEMMA AnswerStep == SessionInv /\ AnswerInv /\ [Next /\ ~TimeOut]_vars => AnswerInv'
  <1> SUFFICES ASSUME SessionInv, AnswerInv, [Next /\ ~TimeOut]_vars PROVE AnswerInv'
    OBVIOUS
  <1>1. CASE UNCHANGED vars
    BY <1>1 DEF vars, AnswerInv, Outstanding, Count
  <1>2. ASSUME Next, ~TimeOut, NEW f \in Flags \ {"PAN"}
        PROVE  /\ Outstanding(f)' \in {0, 1}
               /\ Outstanding(f)' = 1 => /\ Len(stack') > 1 /\ stack'[2].pc = "answer"
                                         /\ Answer(stack'[2].op) = f /\ ~pg'.acked[f]
               /\ Len(stack') > 1 /\ stack'[2].pc = "riid" /\ Answer(stack'[2].op) = f => ~pg'.acked[f]
    <2> DEFINE o == Outstanding(f)
               o2 == Outstanding(f)'
               Goal == /\ o2 \in {0, 1}
                       /\ o2 = 1 => /\ Len(stack') > 1 /\ stack'[2].pc = "answer"
                                    /\ Answer(stack'[2].op) = f /\ ~pg'.acked[f]
                       /\ Len(stack') > 1 /\ stack'[2].pc = "riid" /\ Answer(stack'[2].op) = f
                          => ~pg'.acked[f]
    <2>1. TypeInv /\ StackInv /\ pg \in Qpg /\ stack \in Seq(Frames) /\ f \in Flags
      BY DEF SessionInv, TypeInv
    <2>2. /\ o \in {0, 1}
          /\ o = 1 => /\ Len(stack) > 1 /\ stack[2].pc = "answer"
                      /\ Answer(stack[2].op) = f /\ ~pg.acked[f]
          /\ Len(stack) > 1 /\ stack[2].pc = "riid" /\ Answer(stack[2].op) = f => ~pg.acked[f]
      BY DEF AnswerInv
    <2>3. /\ o2 \in {0, o} \/ (AfterRiid /\ Room(1) /\ Answer(Top.op) = f)
          /\ AfterRiid /\ o = 0 => o2 \in {0, 1}
          /\ PollMessage /\ Head(rx).cmd = "TX_DATA" /\ Head(rx).body = f => o = 1 /\ o2 = 0
      BY <1>2, <2>2, OutFalls
    <2>4. /\ Len(stack) \in Nat /\ DOMAIN stack = 1 .. Len(stack) /\ (Len(stack) = 0 <=> stack = <<>>)
          /\ Len(stack) > 1 => 2 \in DOMAIN stack
      BY <2>1, LenProperties, EmptySeq
    <2> HIDE DEF o, o2
    <2>5. ASSUME Len(stack') = Len(stack), Len(stack) > 1 => stack'[2].pc = stack[2].pc
                                                            /\ stack'[2].op = stack[2].op,
                 pg'.acked[f] = pg.acked[f], o2 \in {0, o}
          PROVE  Goal
      BY <2>2, <2>5
    <2>6. ASSUME o2 = 0, ~(Len(stack') > 1) \/ stack'[2].pc = "answer" \/ Answer(stack'[2].op) # f
                         \/ ~pg'.acked[f]
          PROVE  Goal
      BY <2>6
    <2>7. ASSUME Pops, Len(stack) > 1, pg'.acked[f] = pg.acked[f], o2 \in {0, o},
                 Len(stack) = 2 => o = 0
          PROVE  Goal
      <3>1. CASE Len(stack) = 2
        <4>1. ~(Len(stack') > 1) /\ o2 = 0
          BY <2>7, <3>1 DEF Pops
        <4> QED
          BY <2>6, <4>1
      <3>2. CASE Len(stack) # 2
        <4>1. Len(stack') > 1 /\ 2 \in 1 .. Len(stack) - 1
          BY <2>4, <2>7, <3>2 DEF Pops
        <4>2. stack'[2] = stack[2]
          BY <2>7, <4>1 DEF Pops
        <4> QED
          BY <2>2, <2>7, <4>1, <4>2
      <3> QED
        BY <3>1, <3>2
    <2>8. ASSUME QuietStep PROVE Goal
      <3>1. o2 \in {0, o}
        <4>1. ASSUME AfterRiid PROVE FALSE
          <5>1. pg.riid_avail /\ ~pg'.riid_avail
            BY <4>1, RiidFacts
          <5>2. pg'.riid_avail = pg.riid_avail
            BY <2>8, QuietMoves DEF Link
          <5> QED
            BY <5>1, <5>2
        <4> QED
          BY <2>3, <4>1
      <3>2. CASE QuietPops
        <4>1. Pops /\ pg'.acked = pg.acked /\ (Len(stack) = 1 \/ (Top.pc = "answer" /\ Done(Top)))
          BY <1>2, <3>2 DEF QuietPops
        <4>2. CASE Len(stack) = 1
          <5>1. o = 0 /\ ~(Len(stack') > 1)
            BY <2>2, <4>1, <4>2 DEF Pops
          <5> QED
            BY <2>6, <3>1, <5>1
        <4>3. CASE Len(stack) # 1
          <5>1. Top.pc = "answer" /\ pg.acked[Answer(Top.op)] /\ Len(stack) > 1 /\ Top = stack[Len(stack)]
            BY <2>1, <2>4, <3>2, <4>1, <4>3, TopFacts DEF QuietPops, Done, DoneAnswer
          <5>2. Len(stack) = 2 => o = 0
            BY <2>2, <5>1
          <5> QED
            BY <2>7, <3>1, <4>1, <5>1, <5>2
        <4> QED
          BY <4>2, <4>3
      <3>3. ASSUME NEW pc \in Pcs, QuietSets(pc) PROVE Goal
        <4>1. Sets(pc) /\ stack # <<>> /\ pg'.acked = pg.acked /\ (Len(stack) = 1 \/ pc = Top.pc)
              /\ Top = stack[Len(stack)]
          BY <2>1, <3>3, TopFacts DEF QuietSets
        <4>2. Len(stack) > 1 => stack'[2].pc = stack[2].pc /\ stack'[2].op = stack[2].op
          <5> SUFFICES ASSUME Len(stack) > 1
                       PROVE  stack'[2].pc = stack[2].pc /\ stack'[2].op = stack[2].op
            OBVIOUS
          <5>1. CASE Len(stack) = 2
            BY <4>1, <5>1 DEF Sets
          <5>2. CASE Len(stack) # 2
            <6>1. 2 \in 1 .. Len(stack) - 1
              BY <2>4, <5>2
            <6> QED
              BY <4>1, <6>1 DEF Sets
          <5> QED
            BY <5>1, <5>2
        <4> QED
          BY <2>5, <3>1, <4>1, <4>2 DEF Sets
      <3>4. ASSUME NEW pc \in Callers, NEW r \in Req \ {"PAN_ACK"}, QuietStarts(pc, r) PROVE Goal
        <4>1. Len(stack) = 1 /\ stack'[2].op = r /\ pg' = Clear(pg, r)
          BY <3>4 DEF QuietStarts, Starts
        <4>2. o2 = 0
          BY <2>2, <3>1, <4>1
        <4>3. Answer(r) = f => ~pg'.acked[f]
          BY <2>1, <4>1, Clears
        <4> QED
          BY <2>6, <4>1, <4>2, <4>3
      <3>5. CASE QuietCalls
        <4>1. o2 = 0
          BY <2>2, <2>4, <3>1, <3>5 DEF QuietCalls
        <4>2. Answer("READ_SEL") # f
          BY DEF Answer, PanReq
        <4>3. ~(Len(stack') > 1) \/ Answer(stack'[2].op) # f
          BY <3>5, <4>2 DEF QuietCalls
        <4> QED
          BY <2>6, <4>1, <4>3
      <3> HIDE DEF Goal
      <3> QED
        BY <2>8, <3>2, <3>3, <3>4, <3>5, QuietMoves
    <2>9. ASSUME CallOpen PROVE Goal
      <3>3. stack = <<>> /\ (stack' = stack \/ Len(stack') = 1)
        BY <2>9, CallOpenFacts
      <3>4. Len(stack') \in {0, 1}
        BY <2>4, <3>3
      <3>1. ~AfterRiid /\ stack = <<>>
        BY <3>3 DEF AfterRiid, Waited
      <3>5. ~(Len(stack') > 1)
        BY <3>4, Short
      <3>2. o2 = 0
        BY <2>2, <2>3, <2>4, <3>1
      <3> QED
        BY <2>6, <3>2, <3>5
    <2>10. ASSUME AfterRemoteOpen \/ AfterOpenAck PROVE Goal
      <3>1. Len(stack) = 1 /\ (Pops \/ Len(stack') = Len(stack)) /\ Top.pc \in {"remote", "open_ack"}
        BY <2>10, RemoteOpenFacts, OpenAckFacts DEF Sets
      <3>2. ~AfterRiid
        BY <3>1 DEF AfterRiid, Waited
      <3>4. Len(stack') \in {0, 1}
        BY <3>1 DEF Pops
      <3>5. o = 0
        BY <2>2, <3>1
      <3>6. o2 = 0
        BY <2>3, <3>2, <3>5
      <3>3. o2 = 0 /\ ~(Len(stack') > 1)
        BY <3>4, <3>6, Short
      <3> QED
        BY <2>6, <3>3
    <2>11. ASSUME AfterRiid PROVE Goal
      <3>1. /\ stack # <<>> /\ Len(stack) > 1 /\ Top.pc = "riid" /\ Top.op \in Req /\ pg'.acked = pg.acked
            /\ (Room(1) /\ Sets("answer")) \/ (~Room(1) /\ Pops)
        BY <2>11, RiidFacts
      <3>2. Top = stack[Len(stack)] /\ Len(stack) \in DOMAIN stack
        BY <2>1, <2>4, <3>1, TopFacts
      <3>3. CASE Len(stack) = 2
        <4>1. o = 0 /\ stack[2].pc = "riid" /\ stack[2] = Top
          BY <2>2, <3>1, <3>2, <3>3
        <4>2. CASE Room(1) /\ Sets("answer")
          <5>1. Len(stack') > 1 /\ stack'[2].pc = "answer" /\ stack'[2].op = stack[2].op
            BY <3>3, <4>2 DEF Sets
          <5>2. o2 \in {0, 1}
            BY <2>3, <2>11, <4>1
          <5>3. o2 = 1 => Answer(stack[2].op) = f
            BY <2>3, <4>1
          <5> QED
            BY <2>2, <3>1, <3>3, <4>1, <5>1, <5>2, <5>3
        <4>3. CASE ~Room(1) /\ Pops
          BY <2>3, <2>7, <3>1, <4>1, <4>3
        <4> QED
          BY <3>1, <4>2, <4>3
      <3>4. CASE Len(stack) # 2
        <4>1. 2 \in 1 .. Len(stack) - 1 /\ Len(stack) > 2
          BY <2>4, <3>1, <3>4
        <4>2. Top.op = "PAN_ACK"
          BY <2>1, <3>2, <4>1 DEF StackInv
        <4>3. o2 \in {0, o}
          BY <2>3, <4>2 DEF Answer, PanReq
        <4>4. CASE Room(1) /\ Sets("answer")
          <5>1. stack'[2] = stack[2] /\ Len(stack') = Len(stack)
            BY <4>1, <4>4 DEF Sets
          <5> QED
            BY <2>5, <3>1, <4>3, <5>1
        <4>5. CASE ~Room(1) /\ Pops
          BY <2>7, <3>1, <3>4, <4>3, <4>5
        <4> QED
          BY <3>1, <4>4, <4>5
      <3> QED
        BY <3>3, <3>4
    <2>12. ASSUME PollMessage PROVE Goal
      <3> DEFINE m == Head(rx)
      <3>1. /\ m \in Down /\ pg'.acked[f] = Handled(m).acked[f] /\ stack # <<>>
            /\ \A k \in DOMAIN stack : stack'[k] = stack[k]
        BY <2>12, PollFacts
      <3>2. (Nests \/ stack' = stack) /\ ~AfterRiid
        BY <2>1, <2>12, PollMoves DEF AfterRiid, Waited
      <3>3. o2 \in {0, o}
        BY <2>3, <3>2
      <3>4. CASE Len(stack) > 1
        <4>1. stack'[2] = stack[2] /\ Len(stack') > 1
          BY <2>4, <3>1, <3>2, <3>4 DEF Nests
        <4>2. CASE m.cmd = "TX_DATA" /\ m.body = f
          <5>1. o = 1 /\ o2 = 0
            BY <2>3, <2>12, <4>2
          <5>2. stack'[2].pc = "answer"
            BY <2>2, <4>1, <5>1
          <5>3. o2 = 0
            BY <5>1
          <5> HIDE DEF Goal
          <5> QED
            BY <2>6, <5>2, <5>3
        <4>3. CASE ~(m.cmd = "TX_DATA" /\ m.body = f)
          <5>1. pg'.acked[f] = pg.acked[f]
            BY <2>1, <3>1, <4>3, HandledFacts
          <5> QED
            BY <2>2, <3>3, <3>4, <4>1, <5>1
        <4> QED
          BY <4>2, <4>3
      <3>5. CASE ~(Len(stack) > 1)
        <4>1. Len(stack) = 1
          BY <2>4, <3>1, <3>5
        <4>2. o2 = 0
          BY <2>2, <3>3, <3>5
        <4>3. ~(Len(stack') > 1) \/ stack'[2].op = "PAN_ACK"
          BY <3>2, <4>1 DEF Nests
        <4>4. Answer("PAN_ACK") # f
          BY DEF Answer, PanReq
        <4> QED
          BY <2>6, <4>2, <4>3, <4>4
      <3> QED
        BY <3>4, <3>5
    <2>13. ASSUME AdspVersion \/ AdspAdvertise \/ AdspAskIntent \/ AdspReceive \/ AdspRelease
                  \/ AdspAnswer \/ AdspNotify
           PROVE  Goal
      <3>1. UNCHANGED <<pg, stack, ret>>
        BY <2>13 DEF AdspStep, AdspVersion, AdspAdvertise, AdspAskIntent, AdspReceive, AdspRelease,
                     AdspAnswer, AdspNotify
      <3>2. ~AfterRiid
        <4>1. ASSUME AfterRiid PROVE FALSE
          <5>1. pg.riid_avail /\ ~pg'.riid_avail
            BY <4>1, RiidFacts
          <5> QED
            BY <3>1, <5>1
        <4> QED
          BY <4>1
      <3> QED
        BY <2>3, <2>5, <3>1, <3>2
    <2>14. Goal
      <3> HIDE DEF Goal
      <3> QED
        BY <1>2, <2>8, <2>9, <2>10, <2>11, <2>12, <2>13, Steps
    <2> QED
      BY <2>14 DEF o2
  <1>3. CASE Next /\ ~TimeOut
    BY <1>2, <1>3 DEF AnswerInv
  <1> QED
    BY <1>1, <1>3

(* A UCSI or USBC read or write that ends well was answered itself, on any *)
(* number of opens and whatever finds a ring full, as long as no wait gave *)
(* up: the nested acknowledgements in between do not disturb it.           *)
THEOREM AnswersAreOurs == Spec /\ [][~TimeOut]_vars => []AnswerIsOurs
  <1>1. Init => AnswerInv
    <2> SUFFICES ASSUME Init, NEW f \in Flags PROVE Outstanding(f) = 0 /\ ~pg.acked[f]
      BY DEF AnswerInv
    <2>1. TypeInv
      BY SessionStart DEF SessionInv
    <2>2. tx = <<>> /\ rx = <<>> /\ adsp.todo = <<>> /\ ~pg.acked[f]
      BY DEF Init, FreshAdsp, FreshPg
    <2>3. Num(tx, Asks(f)) = 0 /\ Num(adsp.todo, Kinds(f)) = 0 /\ Num(rx, Answers(f)) = 0
      BY <2>2, NumEmpty
    <2>4. Outstanding(f) = 0
      BY <2>1, <2>3, OutCounted DEF OutCounts
    <2> QED
      BY <2>2, <2>4
  <1>2. SessionInv /\ AnswerInv /\ [Next]_vars /\ [~TimeOut]_vars => SessionInv' /\ AnswerInv'
    BY SessionStep, AnswerStep
  <1>3. SessionInv /\ AnswerInv => AnswerIsOurs
    <2> SUFFICES ASSUME SessionInv, AnswerInv, stack # <<>>, Top.pc = "answer", Top.op \notin PanReq, Done(Top)
                 PROVE  Outstanding(Answer(Top.op)) = 0
      BY DEF AnswerIsOurs
    <2> DEFINE f == Answer(Top.op)
    <2>1. pg.acked[f]
      BY DEF Done, DoneAnswer
    <2>2. TypeInv /\ StackInv
      BY DEF SessionInv
    <2>3. Top.op \in Req
      BY <2>2, TopFacts, OneOrMore
    <2>4. f \in Flags \ {"PAN"}
      BY <2>3 DEF Answer, Req, Flags, PanReq
    <2> HIDE DEF f
    <2>5. Outstanding(f) \in {0, 1} /\ (Outstanding(f) = 1 => ~pg.acked[f])
      BY <2>4 DEF AnswerInv
    <2> QED
      BY <2>1, <2>5 DEF f
  <1> QED
    BY <1>1, <1>2, <1>3, SessionStart, PTL DEF Spec

-----------------------------------------------------------------------------
(* One intent of the ADSP stays alive. *)

LEMMA JoinedCarries ==
  ASSUME NEW S, NEW s \in Seq(S), NEW t \in Seq(S), NEW C, NEW id
  PROVE  /\ Carries(s, C, id) => Carries(s \o t, C, id)
         /\ Carries(t, C, id) => Carries(s \o t, C, id)
  <1>1. ASSUME NEW k \in DOMAIN s, s[k].cmd \in C, s[k].id = id PROVE Carries(s \o t, C, id)
    <2>1. k \in DOMAIN (s \o t) /\ (s \o t)[k] = s[k]
      BY Joined
    <2> QED
      BY <1>1, <2>1 DEF Carries
  <1>2. ASSUME NEW k \in DOMAIN t, t[k].cmd \in C, t[k].id = id PROVE Carries(s \o t, C, id)
    <2>1. Len(s) + k \in DOMAIN (s \o t) /\ (s \o t)[Len(s) + k] = t[k]
      BY Joined
    <2> QED
      BY <1>2, <2>1 DEF Carries
  <1> QED
    BY <1>1, <1>2 DEF Carries

LEMMA TailCarries ==
  ASSUME NEW S, NEW s \in Seq(S), s # <<>>, NEW C, NEW id, Carries(s, C, id)
  PROVE  Carries(Tail(s), C, id) \/ (Head(s).cmd \in C /\ Head(s).id = id)
  <1>1. PICK k \in DOMAIN s : s[k].cmd \in C /\ s[k].id = id
    BY DEF Carries
  <1>2. /\ Head(s) = s[1] /\ DOMAIN s = 1 .. Len(s) /\ DOMAIN Tail(s) = 1 .. Len(s) - 1
        /\ Len(s) \in Nat \ {0} /\ \A j \in 1 .. Len(s) - 1 : Tail(s)[j] = s[j + 1]
    BY Beheaded
  <1>3. CASE k = 1
    BY <1>1, <1>2, <1>3
  <1>4. CASE k # 1
    <2>1. k - 1 \in 1 .. Len(s) - 1 /\ (k - 1) + 1 = k
      BY <1>1, <1>2, <1>4
    <2>2. k - 1 \in DOMAIN Tail(s) /\ Tail(s)[k - 1] = s[k]
      BY <1>2, <2>1
    <2> QED
      BY <1>1, <2>2 DEF Carries
  <1> QED
    BY <1>3, <1>4

LEMMA JoinedReposted ==
  ASSUME NEW S, NEW s \in Seq(S), NEW t \in Seq(S), Reposted(s), Reposted(t)
  PROVE  Reposted(s \o t)
  <1> SUFFICES ASSUME NEW k \in DOMAIN (s \o t), (s \o t)[k].cmd = "RX_DONE"
               PROVE  \E l \in DOMAIN (s \o t) : l > k /\ (s \o t)[l] = WithId("INTENT", (s \o t)[k].id)
    BY DEF Reposted
  <1>1. CASE k \in DOMAIN s /\ (s \o t)[k] = s[k]
    <2>1. PICK l \in DOMAIN s : l > k /\ s[l] = WithId("INTENT", s[k].id)
      BY <1>1 DEF Reposted
    <2>2. l \in DOMAIN (s \o t) /\ (s \o t)[l] = s[l]
      BY Joined
    <2> QED
      BY <1>1, <2>1, <2>2
  <1>2. CASE k > Len(s) /\ k - Len(s) \in DOMAIN t /\ (s \o t)[k] = t[k - Len(s)]
    <2> DEFINE j == k - Len(s)
    <2>1. j \in DOMAIN t /\ t[j].cmd = "RX_DONE"
      BY <1>2
    <2>2. PICK l \in DOMAIN t : l > j /\ t[l] = WithId("INTENT", t[j].id)
      BY <2>1 DEF Reposted
    <2>3. Len(s) + l \in DOMAIN (s \o t) /\ (s \o t)[Len(s) + l] = t[l]
      BY Joined
    <2>4. Len(s) \in Nat /\ l \in Nat /\ k \in Nat
      BY Joined
    <2>5. Len(s) + l > k
      BY <2>2, <2>4
    <2> QED
      BY <1>2, <2>2, <2>3, <2>5
  <1> QED
    BY <1>1, <1>2, Joined

LEMMA TailReposted ==
  ASSUME NEW S, NEW s \in Seq(S), s # <<>>, Reposted(s)
  PROVE  /\ Reposted(Tail(s))
         /\ Head(s).cmd = "RX_DONE" => Carries(Tail(s), {"INTENT"}, Head(s).id)
  <1>1. /\ Head(s) = s[1] /\ 1 \in DOMAIN s /\ DOMAIN s = 1 .. Len(s)
        /\ DOMAIN Tail(s) = 1 .. Len(s) - 1
        /\ Len(s) \in Nat \ {0} /\ \A j \in 1 .. Len(s) - 1 : Tail(s)[j] = s[j + 1]
    BY Beheaded
  <1>2. ASSUME NEW k \in DOMAIN s, s[k].cmd = "RX_DONE"
        PROVE  \E l \in DOMAIN Tail(s) : l > k - 1 /\ Tail(s)[l] = WithId("INTENT", s[k].id)
    <2>1. PICK l \in DOMAIN s : l > k /\ s[l] = WithId("INTENT", s[k].id)
      BY <1>2 DEF Reposted
    <2>2. l - 1 \in 1 .. Len(s) - 1 /\ (l - 1) + 1 = l /\ l - 1 > k - 1
      BY <1>1, <2>1
    <2>3. Tail(s)[l - 1] = s[l]
      BY <1>1, <2>2
    <2> QED
      BY <1>1, <2>1, <2>2, <2>3
  <1>3. Reposted(Tail(s))
    <2> SUFFICES ASSUME NEW k \in DOMAIN Tail(s), Tail(s)[k].cmd = "RX_DONE"
                 PROVE  \E l \in DOMAIN Tail(s) : l > k /\ Tail(s)[l] = WithId("INTENT", Tail(s)[k].id)
      BY DEF Reposted
    <2>1. k + 1 \in DOMAIN s /\ Tail(s)[k] = s[k + 1] /\ (k + 1) - 1 = k
      BY <1>1
    <2> QED
      BY <1>2, <2>1
  <1>4. ASSUME Head(s).cmd = "RX_DONE" PROVE Carries(Tail(s), {"INTENT"}, Head(s).id)
    <2>1. PICK l \in DOMAIN Tail(s) : Tail(s)[l] = WithId("INTENT", s[1].id)
      BY <1>1, <1>2, <1>4
    <2> QED
      BY <1>1, <2>1 DEF Carries, WithId
  <1> QED
    BY <1>3, <1>4

LEMMA AliveCounted ==
  ASSUME TypeInv, NEW id \in RemoteIntent, Alive(id)
  PROVE  RiidPlaces(id) > 0
  <1> DEFINE t == Num(tx, Spent(id))
             r == Num(rx, Offers(id))
             b == One(id \in adsp.busy)
             s == One(pg.riid_avail /\ pg.riid = id)
  <1>1. tx \in Seq(Up) /\ rx \in Seq(Down)
    BY DEF TypeInv
  <1>2. t \in Nat /\ r \in Nat /\ b \in Nat /\ s \in Nat
    BY <1>1, NumType DEF One
  <1>3. RiidPlaces(id) = t + r + b + s
    BY RiidCounted DEF RiidCounts
  <1>4. Carries(tx, {"TX_DATA"}, id) => t # 0
    <2>1. \A k \in DOMAIN tx : tx[k] \in Up
      BY <1>1, LenProperties, ElementOfSeq
    <2> QED
      BY <1>1, <2>1, NumSome DEF Carries, Spent
  <1>5. Carries(rx, {"INTENT", "RX_DONE_W_REUSE"}, id) => r # 0
    <2>1. \A k \in DOMAIN rx : rx[k] \in Down
      BY <1>1, LenProperties, ElementOfSeq
    <2> QED
      BY <1>1, <2>1, NumSome DEF Carries, Offers
  <1>6. (id \in adsp.busy => b # 0) /\ (pg.riid_avail /\ pg.riid = id => s # 0)
    BY DEF One
  <1> HIDE DEF t, r, b, s
  <1>7. t # 0 \/ r # 0 \/ b # 0 \/ s # 0
    BY <1>4, <1>5, <1>6 DEF Alive
  <1> QED
    BY <1>2, <1>3, <1>7

LEMMA StrandStart == Init => StrandInv
  BY DEF Init, StrandInv, FreshAdsp, FreshPg, Reposted

LEMMA StrandStep ==
  ASSUME SessionInv, HandshakeInv, NoIntents, StrandInv, Next, OneOpen, NoneLost, RemoteIntent # {}
  PROVE  StrandInv'
  <1> DEFINE W == {"INTENT", "RX_DONE_W_REUSE"}
             D == {"TX_DATA"}
             T(id) == Carries(tx, D, id)
             R(id) == Carries(rx, W, id)
             T2(id) == Carries(tx', D, id)
             R2(id) == Carries(rx', W, id)
             Goal == /\ adsp'.open /\ pg'.riid = 0 => Has(rx', "INTENT")
                     /\ pg'.riid # 0 => \/ T2(pg'.riid) \/ R2(pg'.riid) \/ pg'.riid \in adsp'.busy
                                        \/ pg'.riid_avail
                     /\ Reposted(rx')
  <1>1. /\ pg \in Qpg /\ tx \in Seq(Up) /\ rx \in Seq(Down) /\ 0 \notin RemoteIntent
        /\ pg.riid \in RemoteIntent \cup {0}
    BY SessionAssumption DEF SessionInv, TypeInv, Qpg
  <1>2. /\ adsp.open /\ pg.riid = 0 => Has(rx, "INTENT")
        /\ pg.riid # 0 => T(pg.riid) \/ R(pg.riid) \/ pg.riid \in adsp.busy \/ pg.riid_avail
        /\ Reposted(rx)
    BY DEF StrandInv, Alive
  <1>3. Goal => StrandInv'
    BY DEF StrandInv, Alive
  <1>4. ASSUME NEW ms \in Seq(Up), tx' = tx \o ms, NEW id PROVE T(id) => T2(id)
    BY <1>1, <1>4, JoinedCarries
  <1>5. ASSUME NEW ms \in Seq(Down), rx' = rx \o ms, NEW id PROVE R(id) => R2(id)
    BY <1>1, <1>5, JoinedCarries
  <1>6. ASSUME NEW ms \in Seq(Down), rx' = rx \o ms PROVE Has(rx, "INTENT") => Has(rx', "INTENT")
    BY <1>1, <1>6, JoinedHas
  <1>7. ASSUME NEW ms \in Seq(Down), rx' = rx \o ms, \A k \in DOMAIN ms : ms[k].cmd # "RX_DONE"
        PROVE  Reposted(rx')
    <2>1. Reposted(ms)
      BY <1>7 DEF Reposted
    <2> QED
      BY <1>1, <1>2, <1>7, <2>1, JoinedReposted
  <1>8. ASSUME NEW ms \in Seq(Up), tx' = tx \o ms, UNCHANGED <<rx, adsp>>,
               pg'.riid = pg.riid, pg'.riid_avail = pg.riid_avail
        PROVE  Goal
    BY <1>2, <1>4, <1>8
  <1>9. ASSUME UNCHANGED <<tx, rx, adsp>>, pg'.riid = pg.riid, pg'.riid_avail = pg.riid_avail PROVE Goal
    BY <1>2, <1>9
  <1>10. ASSUME NEW m \in Up PROVE <<m>> \in Seq(Up) /\ Append(tx, m) = tx \o <<m>>
    BY <1>1, <1>10, AppendJoins
  <1> HIDE DEF T, R, T2, R2
  <1>11. ASSUME QuietStep PROVE Goal
    <2>1. UNCHANGED <<tx, rx, adsp>> /\ pg'.riid_avail = pg.riid_avail /\ pg'.riid = pg.riid
      BY <1>11, QuietMoves DEF Link
    <2> HIDE DEF Goal
    <2> QED
      BY <1>9, <2>1
  <1>12. ASSUME CallOpen PROVE Goal
    <2>1. UNCHANGED <<rx, adsp>>
      BY <1>12, CallOpenFacts
    <2>2. pg' = pg
      BY <1>12, CallOpenFacts DEF OneOpen, HandshakeInv, BeforeCalls
    <2>3. Cmd("VERSION") \in Up /\ (tx' = Append(tx, Cmd("VERSION")) \/ UNCHANGED tx)
      BY <1>12, UpMessages, CallOpenFacts
    <2> HIDE DEF Goal
    <2> QED
      BY <1>8, <1>9, <1>10, <2>1, <2>2, <2>3
  <1>13. ASSUME AfterRemoteOpen PROVE Goal
    <2>1. UNCHANGED <<rx, adsp>> /\ pg'.riid_avail = pg.riid_avail /\ pg'.riid = pg.riid
      BY <1>13, RemoteOpenFacts
    <2>2. PICK ms \in Seq(Up) : tx' = tx \o ms
      BY <1>13, RemoteOpenFacts
    <2> HIDE DEF Goal
    <2> QED
      BY <1>8, <2>1, <2>2
  <1>14. ASSUME AfterOpenAck PROVE Goal
    <2> DEFINE i == WithId("INTENT", pg.next_liid)
    <2>1. /\ i \in Up /\ UNCHANGED <<rx, adsp>> /\ (tx' = Append(tx, i) \/ UNCHANGED tx)
          /\ pg'.riid_avail = pg.riid_avail /\ pg'.riid = pg.riid
      BY <1>14, OpenAckFacts
    <2> HIDE DEF Goal, i
    <2> QED
      BY <1>8, <1>9, <1>10, <2>1
  <1>15. ASSUME AfterRiid PROVE Goal
    <2> DEFINE m == Data(pg.riid, Top.op)
    <2>1. /\ UNCHANGED <<rx, adsp>> /\ m \in Up /\ m.cmd = "TX_DATA" /\ m.id = pg.riid
          /\ tx' = Append(tx, m) /\ pg'.riid = pg.riid /\ pg.riid \in RemoteIntent
      <3>1. Room(1)
        BY <1>15 DEF NoneLost
      <3> QED
        BY <1>15, <3>1, RiidFacts DEF Data
    <2> HIDE DEF m
    <2>2. Carries(<<m>>, D, pg.riid)
      BY <2>1, Single DEF Carries
    <2> DEFINE ms == <<m>>
    <2>3. ms \in Seq(Up) /\ tx' = tx \o ms /\ Carries(ms, D, pg.riid)
      BY <1>10, <2>1, <2>2
    <2> HIDE DEF ms
    <2>4. T2(pg.riid)
      BY <1>1, <2>3, JoinedCarries DEF T2
    <2> QED
      BY <1>1, <1>2, <2>1, <2>4
  <1>16. ASSUME PollMessage PROVE Goal
    <2> DEFINE m == Head(rx)
    <2>1. /\ rx # <<>> /\ rx' = Tail(rx) /\ m \in Down /\ UNCHANGED adsp
          /\ pg'.riid = Handled(m).riid /\ pg'.riid_avail = Handled(m).riid_avail
      BY <1>16, PollFacts DEF Link
    <2>2. PICK ms \in Seq(Up) : tx' = tx \o ms
      BY <1>16, PollFacts
    <2>3. /\ Reposted(rx') /\ (m.cmd = "RX_DONE" => Carries(rx', {"INTENT"}, m.id))
      BY <1>1, <1>2, <2>1, TailReposted
    <2>4. m.cmd \in {"INTENT", "RX_DONE", "RX_DONE_W_REUSE"} => pg.remote_opened /\ m.id \in RemoteIntent
      <3> SUFFICES ASSUME m.cmd \in {"INTENT", "RX_DONE", "RX_DONE_W_REUSE"}
                   PROVE  pg.remote_opened /\ m.id \in RemoteIntent
        OBVIOUS
      <3>1. Has(rx, m.cmd)
        BY <1>1, <2>1, TailHas
      <3>2. adsp.open
        BY <3>1 DEF NoIntents
      <3>3. pg.remote_opened
        BY <3>2 DEF HandshakeInv, OpenFirst
      <3> QED
        BY <2>1, <3>3 DEF Down
    <2>5. CASE m.cmd = "INTENT" \/ (m.cmd = "RX_DONE_W_REUSE" /\ m.id = pg.riid)
      <3>1. pg'.riid_avail /\ pg'.riid = m.id
        <4>1. CASE m.cmd = "INTENT"
          BY <1>1, <2>1, <2>4, <4>1, HandledFacts
        <4>2. CASE m.cmd = "RX_DONE_W_REUSE" /\ m.id = pg.riid
          BY <1>1, <2>1, <2>4, <4>2, HandledFacts
        <4> QED
          BY <2>5, <4>1, <4>2
      <3> QED
        BY <1>1, <2>3, <2>4, <2>5, <3>1
    <2>6. CASE m.cmd = "RX_DONE" /\ m.id = pg.riid
      <3>1. pg'.riid = pg.riid
        BY <1>1, <2>1, <2>6, HandledFacts
      <3>2. Carries(rx', {"INTENT"}, pg.riid)
        BY <2>3, <2>6
      <3>3. R2(pg.riid)
        BY <3>2 DEF R2, Carries
      <3> QED
        BY <1>1, <2>3, <2>4, <2>6, <3>1, <3>3
    <2>7. CASE m.cmd # "INTENT" /\ ~(m.cmd \in {"RX_DONE", "RX_DONE_W_REUSE"} /\ m.id = pg.riid)
      <3>1. pg'.riid = pg.riid /\ pg'.riid_avail = pg.riid_avail
        BY <1>1, <2>1, <2>7, HandledFacts
      <3>2. Has(rx, "INTENT") => Has(rx', "INTENT")
        BY <1>1, <2>1, <2>7, TailHas
      <3>3. R(pg.riid) => R2(pg.riid)
        BY <1>1, <2>1, <2>7, TailCarries DEF R, R2
      <3>4. T(pg.riid) => T2(pg.riid)
        BY <1>4, <2>2
      <3> QED
        BY <1>2, <2>1, <2>3, <3>1, <3>2, <3>3, <3>4
    <2> HIDE DEF Goal, m
    <2> QED
      BY <2>5, <2>6, <2>7
  <1>17. ASSUME UNCHANGED <<pg, tx>>, adsp'.open = adsp.open, adsp'.busy = adsp.busy,
                NEW ms \in Seq(Down), rx' = rx \o ms, \A k \in DOMAIN ms : ms[k].cmd # "RX_DONE"
         PROVE  Goal
    <2>1. \A id : (R(id) => R2(id)) /\ (T(id) => T2(id))
      BY <1>5, <1>17 DEF T, T2
    <2>2. Reposted(rx') /\ (Has(rx, "INTENT") => Has(rx', "INTENT"))
      BY <1>6, <1>7, <1>17
    <2> QED
      BY <1>2, <1>17, <2>1, <2>2
  <1>18. ASSUME NEW d \in Down, d.cmd # "RX_DONE", UNCHANGED <<pg, tx>>, adsp'.open = adsp.open,
                adsp'.busy = adsp.busy, rx' = rx \o <<d>>
         PROVE  Goal
    <2> DEFINE ms == <<d>>
    <2>1. ms \in Seq(Down) /\ \A k \in DOMAIN ms : ms[k].cmd # "RX_DONE"
      BY <1>18, Single
    <2>2. rx' = rx \o ms
      BY <1>18
    <2> HIDE DEF Goal, ms
    <2> QED
      BY <1>17, <1>18, <2>1, <2>2
  <1>19. ASSUME AdspVersion \/ AdspAdvertise \/ AdspAskIntent PROVE Goal
    <2>1. PICK c \in {"VERSION", "OPEN", "RX_INTENT_REQ"} :
            /\ AdspStep /\ UNCHANGED tx /\ Cmd(c) \in Down /\ Cmd(c).cmd = c
            /\ rx' = rx \o <<Cmd(c)>> /\ adsp'.busy = adsp.busy /\ adsp'.open = adsp.open
      BY <1>19, SpeaksFacts
    <2> HIDE DEF Goal
    <2> QED
      BY <1>18, <2>1 DEF AdspStep
  <1>20. ASSUME AdspAnswer PROVE Goal
    <2> DEFINE a == Answer(Head(adsp.todo))
    <2>1. PICK j \in adsp.free :
            /\ AdspStep /\ UNCHANGED tx /\ a \in Flags /\ j \in Ids
            /\ AdspSends(<<Data(j, a)>>) /\ adsp'.open = adsp.open /\ adsp'.busy = adsp.busy
      BY <1>20, AdspAnswerFacts
    <2>2. Data(j, a) \in Down /\ Data(j, a).cmd = "TX_DATA" /\ rx' = rx \o <<Data(j, a)>>
      BY <2>1, DownMessages DEF AdspSends
    <2> HIDE DEF Goal, a
    <2> QED
      BY <1>18, <2>1, <2>2 DEF AdspStep
  <1>21. ASSUME AdspNotify PROVE Goal
    <2>1. PICK j \in adsp.free :
            /\ AdspStep /\ UNCHANGED tx /\ j \in Ids
            /\ AdspSends(<<Data(j, "NOTIFY")>>) /\ adsp'.open = adsp.open /\ adsp'.busy = adsp.busy
      BY <1>21, AdspNotifyFacts
    <2>2. /\ Data(j, "NOTIFY") \in Down /\ Data(j, "NOTIFY").cmd = "TX_DATA"
          /\ rx' = rx \o <<Data(j, "NOTIFY")>>
      BY <2>1, DownMessages DEF AdspSends
    <2> HIDE DEF Goal
    <2> QED
      BY <1>18, <2>1, <2>2 DEF AdspStep
  <1>22. ASSUME AdspRelease PROVE Goal
    <2>1. PICK j \in adsp.busy :
            /\ AdspStep /\ UNCHANGED tx /\ j \in RemoteIntent
            /\ adsp'.open = adsp.open /\ adsp'.busy = adsp.busy \ {j}
            /\ WithId("RX_DONE_W_REUSE", j) \in Down /\ WithId("RX_DONE", j) \in Down
            /\ WithId("INTENT", j) \in Down
            /\ \/ rx' = rx \o <<WithId("RX_DONE_W_REUSE", j)>>
               \/ rx' = rx \o <<WithId("RX_DONE", j), WithId("INTENT", j)>>
      BY <1>22, ReleaseFacts
    <2> DEFINE u == WithId("RX_DONE_W_REUSE", j)
               x == WithId("RX_DONE", j)
               i == WithId("INTENT", j)
    <2>2. /\ u \in Down /\ x \in Down /\ i \in Down /\ u.cmd = "RX_DONE_W_REUSE" /\ u.id = j
          /\ x.cmd = "RX_DONE" /\ x.id = j /\ i.cmd = "INTENT" /\ i.id = j
          /\ i = WithId("INTENT", x.id)
      BY <2>1 DEF WithId
    <2>3. rx' = rx \o <<u>> \/ rx' = rx \o <<x, i>>
      BY <2>1
    <2> HIDE DEF u, x, i
    <2>4. PICK ms \in Seq(Down) : rx' = rx \o ms /\ Carries(ms, W, j) /\ Reposted(ms)
      <3>1. <<u>> \in Seq(Down) /\ Carries(<<u>>, W, j) /\ Reposted(<<u>>)
        BY <2>2, Single DEF Carries, Reposted
      <3>2. <<x, i>> \in Seq(Down) /\ Carries(<<x, i>>, W, j) /\ Reposted(<<x, i>>)
        <4> DEFINE ms == <<x, i>>
        <4>1. ms \in Seq(Down) /\ DOMAIN ms = 1 .. 2 /\ ms[1] = x /\ ms[2] = i
          BY <2>2
        <4>2. 2 \in DOMAIN ms /\ \A k \in DOMAIN ms : k = 1 \/ k = 2
          BY <4>1
        <4> HIDE DEF ms
        <4>3. Carries(ms, W, j)
          BY <2>2, <4>1, <4>2 DEF Carries
        <4>4. Reposted(ms)
          <5> SUFFICES ASSUME NEW k \in DOMAIN ms, ms[k].cmd = "RX_DONE"
                       PROVE  \E l \in DOMAIN ms : l > k /\ ms[l] = WithId("INTENT", ms[k].id)
            BY DEF Reposted
          <5>1. k = 1
            BY <2>2, <4>1, <4>2
          <5>2. 2 \in DOMAIN ms /\ 2 > k /\ ms[2] = WithId("INTENT", ms[k].id)
            BY <2>2, <4>1, <4>2, <5>1
          <5> QED
            BY <5>2
        <4> QED
          BY <4>1, <4>3, <4>4 DEF ms
      <3>3. CASE rx' = rx \o <<u>>
        BY <3>1, <3>3
      <3>4. CASE rx' = rx \o <<x, i>>
        BY <3>2, <3>4
      <3> QED
        BY <2>3, <3>3, <3>4
    <2>5. R2(j) /\ Reposted(rx')
      BY <1>1, <1>2, <2>4, JoinedCarries, JoinedReposted DEF R2
    <2>6. \A id : (R(id) => R2(id)) /\ (T(id) => T2(id))
      BY <1>5, <2>1, <2>4 DEF T, T2
    <2>7. Has(rx, "INTENT") => Has(rx', "INTENT")
      BY <1>6, <2>4
    <2> QED
      BY <1>2, <2>1, <2>5, <2>6, <2>7 DEF AdspStep
  <1>23. ASSUME AdspReceive PROVE Goal
    <2> DEFINE m == Head(tx)
    <2>1. /\ tx # <<>> /\ tx' = Tail(tx) /\ m \in Up /\ UNCHANGED pg
          /\ rx' = rx \o Back(m) /\ Back(m) \in Seq(Down)
          /\ \A k \in DOMAIN Back(m) : Back(m)[k].cmd \in {"VERSION_ACK", "OPEN_ACK", "INTENT"}
          /\ adsp'.open <=> (IF m.cmd = "VERSION" THEN FALSE
                             ELSE IF m.cmd = "OPEN" THEN TRUE ELSE adsp.open)
          /\ adsp'.busy = IF m.cmd = "VERSION" THEN {}
                          ELSE IF m.cmd = "TX_DATA" THEN adsp.busy \cup {m.id} ELSE adsp.busy
      BY <1>23, ReceiveFacts, BackFacts DEF AdspStep, AdspSends
    <2>2. \A id : R(id) => R2(id)
      BY <1>5, <2>1
    <2>3. Reposted(rx') /\ (Has(rx, "INTENT") => Has(rx', "INTENT"))
      BY <1>6, <1>7, <2>1
    <2>4. \A id : T(id) => T2(id) \/ (m.cmd = "TX_DATA" /\ m.id = id)
      BY <1>1, <2>1, TailCarries DEF T, T2
    <2>5. m.cmd = "VERSION" => Has(tx, "VERSION")
      BY <1>1, <2>1, TailHas
    <2>6. m.cmd = "OPEN" => Has(rx', "INTENT")
      <3> SUFFICES ASSUME m.cmd = "OPEN" PROVE Has(rx', "INTENT")
        OBVIOUS
      <3>1. Back(m) = <<Cmd("OPEN_ACK")>> \o PostIntents /\ Cmd("OPEN_ACK") \in Down
        BY DownMessages DEF Back
      <3>2. Has(PostIntents, "INTENT") /\ PostIntents \in Seq(Down)
        <4>1. Cardinality(RemoteIntent) # 0 /\ Cardinality(RemoteIntent) \in Nat
          BY SessionAssumption, FS_EmptySet, PostFacts
        <4>2. 1 \in DOMAIN PostIntents
          BY <4>1, PostFacts
        <4> QED
          BY <4>2, PostFacts DEF Has
      <3>3. <<Cmd("OPEN_ACK")>> \in Seq(Down)
        BY <3>1, Single
      <3> DEFINE v == <<Cmd("OPEN_ACK")>>
                 w == PostIntents
                 vw == v \o w
      <3>4. v \in Seq(Down) /\ w \in Seq(Down) /\ Has(w, "INTENT") /\ Back(m) = vw
        BY <3>1, <3>2, <3>3
      <3> HIDE DEF v, w
      <3>6. Has(v \o w, "INTENT")
        BY <3>4, JoinedHas
      <3>5. Has(Back(m), "INTENT")
        BY <3>4, <3>6
      <3> QED
        BY <1>1, <2>1, <3>5, JoinedHas
    <2> HIDE DEF m
    <2>7. CASE m.cmd = "VERSION"
      <3>1. ~adsp.open
        BY <2>5, <2>7 DEF HandshakeInv, VersionFirst, OpenFirst
      <3>2. pg'.riid = 0 /\ ~adsp'.open
        BY <2>1, <2>7, <3>1 DEF NoIntents
      <3> QED
        BY <2>3, <3>2
    <2>8. CASE m.cmd # "VERSION"
      <3>1. adsp'.open => adsp.open \/ m.cmd = "OPEN"
        BY <2>1, <2>8
      <3>2. adsp.busy \subseteq adsp'.busy /\ (m.cmd = "TX_DATA" => m.id \in adsp'.busy)
        BY <2>1, <2>8
      <3> QED
        BY <1>2, <2>1, <2>2, <2>3, <2>4, <2>6, <3>1, <3>2
    <2> QED
      BY <2>7, <2>8
  <1>24. Goal
    <2> HIDE DEF Goal
    <2> QED
      BY <1>11, <1>12, <1>13, <1>14, <1>15, <1>16, <1>19, <1>20, <1>21, <1>22, <1>23, Steps
  <1> QED
    BY <1>3, <1>24

(* An open channel always has an intent of the ADSP alive, although the    *)
(* driver keeps only one: with one open, at least one intent posted and a  *)
(* ring that takes what is sent into it.                                   *)
THEOREM RiidIsNotStranded ==
  ASSUME RemoteIntent # {}
  PROVE  Spec /\ [][OneOpen]_vars /\ [][NoneLost]_vars => []RiidNotStranded
  <1> DEFINE I == SessionInv /\ HandshakeInv /\ NoIntents /\ StrandInv
  <1>1. Init => I
    BY SessionStart, HandshakeStart, IntentsStart, StrandStart
  <1>2. I /\ [Next]_vars /\ [OneOpen]_vars /\ [NoneLost]_vars => I'
    <2> SUFFICES ASSUME I, [Next]_vars, [OneOpen]_vars, [NoneLost]_vars PROVE I'
      OBVIOUS
    <2>1. SessionInv' /\ HandshakeInv' /\ NoIntents'
      BY SessionStep, HandshakeStep, IntentsStep
    <2>2. CASE UNCHANGED vars
      <3>1. StrandInv'
        BY <2>2 DEF vars, StrandInv, Alive
      <3> QED
        BY <2>1, <3>1
    <2>3. CASE Next /\ OneOpen /\ NoneLost
      BY <2>1, <2>3, StrandStep
    <2> QED
      BY <2>2, <2>3
  <1>3. I => RiidNotStranded
    <2> SUFFICES ASSUME I, adsp.open PROVE \E id \in RemoteIntent : RiidPlaces(id) > 0
      BY DEF RiidNotStranded
    <2>1. TypeInv /\ rx \in Seq(Down) /\ pg.riid \in RemoteIntent \cup {0}
      BY DEF SessionInv, TypeInv, Qpg
    <2>2. CASE pg.riid = 0
      <3>1. PICK k \in DOMAIN rx : rx[k].cmd = "INTENT"
        BY <2>2 DEF StrandInv, Has
      <3>2. rx[k] \in Down
        BY <2>1, LenProperties, ElementOfSeq
      <3>3. rx[k].id \in RemoteIntent /\ Alive(rx[k].id)
        BY <3>1, <3>2 DEF Down, Alive, Carries
      <3> QED
        BY <2>1, <3>3, AliveCounted
    <2>3. CASE pg.riid # 0
      BY <2>1, <2>3, AliveCounted DEF StrandInv
    <2> QED
      BY <2>2, <2>3
  <1> QED
    BY <1>1, <1>2, <1>3, PTL DEF Spec


-----------------------------------------------------------------------------
(* An attempt and the attempts before it: whose answers are in the rings.  *)

LEMMA JoinedMeets ==
  ASSUME NEW S, NEW s \in Seq(S), NEW t \in Seq(S), NEW P
  PROVE  /\ Meets(s \o t, P) => Meets(s, P) \/ Meets(t, P)
         /\ Meets(s, P) => Meets(s \o t, P)
  <1>1. Meets(s \o t, P) => Meets(s, P) \/ Meets(t, P)
    <2> SUFFICES ASSUME NEW k \in DOMAIN (s \o t), (s \o t)[k] \in P
                 PROVE  Meets(s, P) \/ Meets(t, P)
      BY DEF Meets
    <2>1. \/ k \in DOMAIN s /\ s[k] \in P
          \/ k - Len(s) \in DOMAIN t /\ t[k - Len(s)] \in P
      BY Joined
    <2> QED
      BY <2>1 DEF Meets
  <1>2. Meets(s, P) => Meets(s \o t, P)
    <2> SUFFICES ASSUME NEW k \in DOMAIN s, s[k] \in P PROVE Meets(s \o t, P)
      BY DEF Meets
    <2>1. k \in DOMAIN (s \o t) /\ (s \o t)[k] \in P
      BY Joined
    <2> QED
      BY <2>1 DEF Meets
  <1> QED
    BY <1>1, <1>2

LEMMA JoinedBefore ==
  ASSUME NEW S, NEW s \in Seq(S), NEW t \in Seq(S), NEW P, NEW Q, ~Meets(t, P), Before(s, P, Q)
  PROVE  Before(s \o t, P, Q)
  <1> SUFFICES ASSUME NEW k \in DOMAIN (s \o t), NEW l \in DOMAIN (s \o t),
                      (s \o t)[k] \in P, (s \o t)[l] \in Q
               PROVE  k < l
    BY DEF Before
  <1>1. /\ Len(s) \in Nat /\ DOMAIN s = 1 .. Len(s) /\ DOMAIN (s \o t) = 1 .. Len(s) + Len(t)
        /\ Len(t) \in Nat
    BY Joined
  <1>2. k \in DOMAIN s /\ s[k] \in P
    BY Joined DEF Meets
  <1>3. CASE l \in DOMAIN s /\ s[l] \in Q
    BY <1>2, <1>3 DEF Before
  <1>4. CASE l > Len(s)
    BY <1>1, <1>2, <1>4
  <1> QED
    BY <1>3, <1>4, Joined

(* Vacuously, when none of the second kind is there. *)
LEMMA NoneBefore ==
  ASSUME NEW s, NEW P, NEW Q, ~Meets(s, P) \/ ~Meets(s, Q)
  PROVE  Before(s, P, Q)
  BY DEF Before, Meets

LEMMA TailMeets ==
  ASSUME NEW S, NEW s \in Seq(S), s # <<>>, NEW P
  PROVE  /\ Meets(Tail(s), P) => Meets(s, P)
         /\ Head(s) \in P => Meets(s, P)
  <1>1. /\ Head(s) = s[1] /\ 1 \in DOMAIN s
        /\ \A k \in DOMAIN Tail(s) : k + 1 \in DOMAIN s /\ Tail(s)[k] = s[k + 1]
    BY Beheaded
  <1> QED
    BY <1>1 DEF Meets

LEMMA TailBefore ==
  ASSUME NEW S, NEW s \in Seq(S), s # <<>>, NEW P, NEW Q, Before(s, P, Q)
  PROVE  /\ Before(Tail(s), P, Q)
         /\ Head(s) \in Q => ~Meets(s, P)
  <1>1. /\ Head(s) = s[1] /\ 1 \in DOMAIN s /\ DOMAIN Tail(s) \subseteq Int
        /\ DOMAIN s = 1 .. Len(s) /\ Len(s) \in Nat
        /\ \A k \in DOMAIN Tail(s) : k + 1 \in DOMAIN s /\ Tail(s)[k] = s[k + 1]
    BY Beheaded
  <1>2. Before(Tail(s), P, Q)
    <2> SUFFICES ASSUME NEW k \in DOMAIN Tail(s), NEW l \in DOMAIN Tail(s),
                        Tail(s)[k] \in P, Tail(s)[l] \in Q
                 PROVE  k < l
      BY DEF Before
    <2>1. k + 1 < l + 1 /\ k \in Int /\ l \in Int
      BY <1>1 DEF Before
    <2> QED
      BY <2>1
  <1>3. ASSUME Head(s) \in Q, Meets(s, P) PROVE FALSE
    <2>1. PICK k \in DOMAIN s : s[k] \in P
      BY <1>3 DEF Meets
    <2>2. k < 1 /\ k \in 1 .. Len(s)
      BY <1>1, <1>3, <2>1 DEF Before
    <2> QED
      BY <1>1, <2>2
  <1> QED
    BY <1>2, <1>3

(* A single message, and one that is appended. *)
LEMMA OneMeets ==
  ASSUME NEW S, NEW e \in S, NEW P, Meets(<<e>>, P)
  PROVE  e \in P
  BY Single DEF Meets

LEMMA MeetsHas ==
  /\ tx \in Seq(Up) => /\ Meets(tx, LocalOpens) <=> Has(tx, "OPEN")
                       /\ Meets(tx, LaterRequests) => Meets(tx, Requests)
  /\ rx \in Seq(Down) => /\ Meets(rx, RemoteOpens) <=> Has(rx, "OPEN")
                         /\ Meets(rx, PanAnswers) => Meets(rx, Spoken)
  <1>1. tx \in Seq(Up) => \A k \in DOMAIN tx : tx[k] \in Up
    BY LenProperties, ElementOfSeq
  <1>2. rx \in Seq(Down) => \A k \in DOMAIN rx : rx[k] \in Down
    BY LenProperties, ElementOfSeq
  <1> QED
    BY <1>1, <1>2 DEF Meets, Has, LocalOpens, RemoteOpens, LaterRequests, PanAnswers


LEMMA OwnStart == Init => OwnInv
  <1> SUFFICES ASSUME Init PROVE OwnInv
    OBVIOUS
  <1>1. pg = FreshPg /\ tx = <<>> /\ rx = <<>> /\ adsp = FreshAdsp
    BY DEF Init
  <1>2. FreshAdsp.todo = <<>> /\ FreshAdsp.busy = {} /\ DOMAIN <<>> = {}
    BY DEF FreshAdsp
  <1> QED
    BY <1>1, <1>2, FreshFacts DEF OwnInv, Meets, Before

(* The driver goes on, and sends nothing but answers and acknowledgements. *)
LEMMA OwnReplies ==
  ASSUME SessionInv, OwnInv, NEW ms \in Seq(Up), tx' = tx \o ms,
         ~Meets(ms, Requests), ~Meets(ms, Versions), UNCHANGED <<rx, adsp>>,
         pg'.remote_opened => pg.remote_opened,
         pg'.riid_avail => pg.riid_avail /\ pg'.remote_opened
  PROVE  OwnInv'
  <1>1. tx \in Seq(Up)
    BY DEF SessionInv, TypeInv
  <1>2. /\ Meets(tx', Requests) => Meets(tx, Requests)
        /\ Meets(tx', Versions) => Meets(tx, Versions)
    BY <1>1, JoinedMeets
  <1>3. /\ Before(tx', Requests, Versions)
        /\ pg.remote_opened => Before(tx', Versions, LocalOpens)
    BY <1>1, JoinedBefore DEF OwnInv
  <1> QED
    BY <1>2, <1>3 DEF OwnInv

LEMMA OwnCallOpen ==
  ASSUME SessionInv, OwnInv, CallOpen
  PROVE  OwnInv'
  <1>1. UNCHANGED <<rx, adsp>> /\ tx \in Seq(Up)
    BY CallOpenFacts DEF SessionInv, TypeInv
  <1>2. CASE pg.session_ready
    <2>1. UNCHANGED <<pg, tx>>
      BY <1>2, CallOpenFacts
    <2> QED
      BY <1>1, <2>1 DEF OwnInv
  <1>3. CASE ~pg.session_ready
    <2>1. ~pg'.remote_opened /\ ~pg'.riid_avail
      BY <1>3, CallOpenFacts, FreshFacts
    <2>2. CASE UNCHANGED tx
      BY <1>1, <2>1, <2>2 DEF OwnInv
    <2>3. CASE tx' = Append(tx, Cmd("VERSION"))
      <3> DEFINE v == Cmd("VERSION")
      <3>1. v \in Up /\ v.cmd = "VERSION"
        BY UpMessages
      <3> HIDE DEF v
      <3>2. <<v>> \in Seq(Up) /\ tx' = tx \o <<v>> /\ ~Meets(<<v>>, Requests)
        BY <1>1, <2>3, <3>1, Single, AppendJoins, OneMeets DEF Requests, v
      <3>3. Before(tx', Requests, Versions) /\ (Meets(tx', Requests) => Meets(tx, Requests))
        BY <1>1, <3>2, JoinedMeets, JoinedBefore DEF OwnInv
      <3> QED
        BY <1>1, <2>1, <3>3 DEF OwnInv
    <2> QED
      BY <1>3, <2>2, <2>3, CallOpenFacts
  <1> QED
    BY <1>2, <1>3

LEMMA OwnPoll ==
  ASSUME SessionInv, OwnInv, PollMessage
  PROVE  OwnInv'
  <1> DEFINE m == Head(rx)
  <1>1. /\ rx # <<>> /\ rx' = Tail(rx) /\ m \in Down /\ adsp' = adsp
        /\ Link(pg') = Link(Handled(m)) /\ tx \in Seq(Up) /\ rx \in Seq(Down) /\ pg \in Qpg
    BY PollFacts DEF SessionInv, TypeInv
  <1>2. PICK ms \in Seq(Up) : tx' = tx \o ms /\ \A k \in DOMAIN ms : ms[k].cmd \in Replies
    BY PollFacts
  <1>3. ~Meets(ms, Requests) /\ ~Meets(ms, Versions) /\ ~Meets(ms, LocalOpens)
    BY <1>2 DEF Meets, Requests, Versions, LocalOpens, Replies
  <1>4. /\ m.cmd = "OPEN" \/ pg'.remote_opened = pg.remote_opened
        /\ m.cmd = "OPEN" => pg'.remote_opened
        /\ \/ m.cmd \in {"INTENT", "RX_DONE", "RX_DONE_W_REUSE"} /\ pg.remote_opened
           \/ pg'.riid_avail = pg.riid_avail
    <2>1. /\ m.cmd = "OPEN" \/ Handled(m).remote_opened = pg.remote_opened
          /\ m.cmd = "OPEN" => Handled(m).remote_opened
          /\ \/ m.cmd \in {"INTENT", "RX_DONE", "RX_DONE_W_REUSE"} /\ pg.remote_opened
             \/ Handled(m).riid_avail = pg.riid_avail
      BY <1>1, HandledFacts
    <2>2. pg'.remote_opened = Handled(m).remote_opened /\ pg'.riid_avail = Handled(m).riid_avail
      BY <1>1 DEF Link
    <2> QED
      BY <2>1, <2>2
  <1>5. /\ Meets(rx', Spoken) => Meets(rx, Spoken)
        /\ m \in Spoken => Meets(rx, Spoken)
        /\ Before(rx', Spoken, RemoteOpens)
        /\ m \in RemoteOpens => ~Meets(rx, Spoken) /\ Has(rx, "OPEN")
    BY <1>1, TailMeets, TailBefore, MeetsHas DEF OwnInv
  <1>6. /\ Meets(tx', Requests) => Meets(tx, Requests)
        /\ Meets(tx', Versions) => Meets(tx, Versions)
        /\ Meets(tx', LocalOpens) => Meets(tx, LocalOpens)
        /\ Before(tx', Requests, Versions)
        /\ Before(tx, Versions, LocalOpens) => Before(tx', Versions, LocalOpens)
    BY <1>1, <1>2, <1>3, JoinedMeets, JoinedBefore DEF OwnInv
  <1> HIDE DEF m
  <1>7. CASE m.cmd = "OPEN"
    <2>1. m \in RemoteOpens
      BY <1>1, <1>7 DEF RemoteOpens
    <2>2. ~adsp.open /\ ~Meets(tx, LocalOpens)
      BY <1>1, <1>5, <2>1, MeetsHas DEF SessionInv, OpenInv
    <2>3. Before(tx', Versions, LocalOpens)
      BY <1>6, <2>2, NoneBefore
    <2>4. ~Meets(rx', Spoken) /\ ~pg'.riid_avail
      BY <1>4, <1>5, <1>7, <2>1, <2>2 DEF OwnInv
    <2> QED
      BY <1>1, <1>5, <1>6, <2>2, <2>3, <2>4 DEF OwnInv
  <1>8. CASE m.cmd # "OPEN"
    <2>1. pg'.remote_opened = pg.remote_opened
      BY <1>4, <1>8
    <2>2. pg'.riid_avail => pg'.remote_opened /\ adsp'.open
      <3>1. CASE m.cmd \in {"INTENT", "RX_DONE", "RX_DONE_W_REUSE"} /\ pg.remote_opened
        <4>1. m \in Spoken
          BY <1>1, <3>1 DEF Spoken
        <4> QED
          BY <1>1, <1>5, <2>1, <3>1, <4>1 DEF OwnInv
      <3>2. CASE pg'.riid_avail = pg.riid_avail
        BY <1>1, <2>1, <3>2 DEF OwnInv
      <3> QED
        BY <1>4, <3>1, <3>2
    <2> QED
      BY <1>1, <1>5, <1>6, <2>1, <2>2 DEF OwnInv
  <1> QED
    BY <1>7, <1>8


LEMMA OwnSends ==
  ASSUME SessionInv, OwnInv, AfterRemoteOpen \/ AfterOpenAck
  PROVE  OwnInv'
  <1>0. tx \in Seq(Up)
    BY DEF SessionInv, TypeInv
  <1>1. CASE AfterRemoteOpen
    <2>1. PICK ms \in Seq(Up) : tx' = tx \o ms /\ \A k \in DOMAIN ms : ms[k].cmd \in {"OPEN_ACK", "OPEN"}
      BY <1>1, RemoteOpenFacts
    <2>2. ~Meets(ms, Requests) /\ ~Meets(ms, Versions)
      BY <2>1 DEF Meets, Requests, Versions
    <2>3. UNCHANGED <<rx, adsp>> /\ pg'.remote_opened = pg.remote_opened /\ pg'.riid_avail = pg.riid_avail
      BY <1>1, RemoteOpenFacts
    <2>4. pg.riid_avail => pg.remote_opened
      BY DEF OwnInv
    <2> QED
      BY <2>1, <2>2, <2>3, <2>4, OwnReplies
  <1>2. CASE AfterOpenAck
    <2>1. UNCHANGED <<rx, adsp>> /\ pg'.remote_opened = pg.remote_opened /\ pg'.riid_avail = pg.riid_avail
      BY <1>2, OpenAckFacts
    <2>2. CASE UNCHANGED tx
      BY <2>1, <2>2 DEF OwnInv
    <2>3. CASE tx' = Append(tx, WithId("INTENT", pg.next_liid))
      <3> DEFINE v == WithId("INTENT", pg.next_liid)
      <3>1. v \in Up /\ v.cmd = "INTENT"
        BY <1>2, OpenAckFacts, UpMessages DEF SessionInv, TypeInv, Qpg
      <3> HIDE DEF v
      <3>2. <<v>> \in Seq(Up) /\ tx' = tx \o <<v>> /\ ~Meets(<<v>>, Requests) /\ ~Meets(<<v>>, Versions)
        BY <1>0, <2>3, <3>1, Single, AppendJoins, OneMeets DEF Requests, Versions, v
      <3>3. pg.riid_avail => pg.remote_opened
        BY DEF OwnInv
      <3> QED
        BY <2>1, <3>2, <3>3, OwnReplies
    <2> QED
      BY <1>2, <2>2, <2>3, OpenAckFacts
  <1> QED
    BY <1>1, <1>2

(* A request goes out on a channel that is open: no VERSION is before it.  *)
LEMMA OwnRiid ==
  ASSUME SessionInv, OwnInv, AfterRiid
  PROVE  OwnInv'
  <1>1. /\ UNCHANGED <<rx, adsp>> /\ pg'.remote_opened = pg.remote_opened /\ ~pg'.riid_avail
        /\ pg.riid_avail /\ tx \in Seq(Up)
    BY RiidFacts DEF SessionInv, TypeInv
  <1>2. pg.remote_opened /\ adsp.open /\ ~Meets(tx, Versions)
    BY <1>1 DEF OwnInv
  <1>3. CASE UNCHANGED tx
    BY <1>1, <1>3 DEF OwnInv
  <1>4. CASE tx' = Append(tx, Data(pg.riid, Top.op))
    <2> DEFINE v == Data(pg.riid, Top.op)
    <2>1. v \in Up /\ v.cmd = "TX_DATA"
      BY RiidFacts, UpMessages
    <2> HIDE DEF v
    <2>2. <<v>> \in Seq(Up) /\ tx' = tx \o <<v>> /\ ~Meets(<<v>>, Versions)
      BY <1>1, <1>4, <2>1, Single, AppendJoins, OneMeets DEF Versions, v
    <2>3. ~Meets(tx', Versions)
      BY <1>1, <1>2, <2>2, JoinedMeets
    <2>4. Before(tx', Requests, Versions) /\ Before(tx', Versions, LocalOpens)
      BY <2>3, NoneBefore
    <2> QED
      BY <1>1, <1>2, <2>3, <2>4 DEF OwnInv
  <1> QED
    BY <1>3, <1>4, RiidFacts

(* The ADSP says something: what is of the channel, when it is open.       *)
LEMMA OwnSays ==
  ASSUME SessionInv, OwnInv, NEW ms \in Seq(Down), rx' = rx \o ms, UNCHANGED <<pg, tx>>,
         adsp'.open = adsp.open,
         adsp'.todo # <<>> => adsp.todo # <<>>, adsp'.busy # {} => adsp.busy # {},
         \/ ~Meets(ms, Spoken)
         \/ adsp.open /\ ~Meets(ms, RemoteOpens)
  PROVE  OwnInv'
  <1>1. rx \in Seq(Down)
    BY DEF SessionInv, TypeInv
  <1>2. CASE ~Meets(ms, Spoken)
    <2>1. Before(rx', Spoken, RemoteOpens) /\ (Meets(rx', Spoken) => Meets(rx, Spoken))
      BY <1>1, <1>2, JoinedMeets, JoinedBefore DEF OwnInv
    <2> QED
      BY <2>1 DEF OwnInv
  <1>3. CASE adsp.open /\ ~Meets(ms, RemoteOpens)
    <2>1. ~Meets(rx, RemoteOpens)
      BY <1>1, <1>3, MeetsHas DEF SessionInv, OpenInv
    <2>2. ~Meets(rx', RemoteOpens)
      BY <1>1, <1>3, <2>1, JoinedMeets
    <2>3. Before(rx', Spoken, RemoteOpens)
      BY <2>2, NoneBefore
    <2> QED
      BY <1>3, <2>3 DEF OwnInv
  <1> QED
    BY <1>2, <1>3

(* What each of these steps says. *)
LEMMA Sayings ==
  ASSUME SessionInv, OwnInv,
         AdspVersion \/ AdspAdvertise \/ AdspAskIntent \/ AdspRelease \/ AdspNotify
  PROVE  \E ms \in Seq(Down) :
           /\ rx' = rx \o ms /\ UNCHANGED <<pg, stack, ret, tx>>
           /\ adsp'.open = adsp.open /\ adsp'.todo = adsp.todo
           /\ adsp'.busy # {} => adsp.busy # {}
           /\ ~Meets(ms, PanAnswers)
           /\ ~Meets(ms, Spoken) \/ (adsp.open /\ ~Meets(ms, RemoteOpens))
  <1>1. CASE AdspVersion \/ AdspAdvertise \/ AdspAskIntent
    <2>1. PICK c \in {"VERSION", "OPEN", "RX_INTENT_REQ"} :
             /\ AdspStep /\ UNCHANGED <<tx, notified>> /\ Cmd(c) \in Down /\ Cmd(c).cmd = c
             /\ rx' = rx \o <<Cmd(c)>>
             /\ adsp'.busy = adsp.busy /\ adsp'.todo = adsp.todo /\ adsp'.open = adsp.open
      BY <1>1, SpeaksFacts
    <2> DEFINE v == Cmd(c)
    <2> HIDE DEF v
    <2>2. v \in Down /\ v.cmd = c /\ rx' = rx \o <<v>>
      BY <2>1 DEF v
    <2>3. <<v>> \in Seq(Down) /\ ~Meets(<<v>>, Spoken) /\ ~Meets(<<v>>, PanAnswers)
      BY <2>2, Single, OneMeets DEF Spoken, PanAnswers
    <2> QED
      BY <2>1, <2>2, <2>3 DEF AdspStep
  <1>2. CASE AdspRelease
    <2>1. PICK id \in adsp.busy :
             /\ AdspStep /\ UNCHANGED <<tx, notified>> /\ id \in RemoteIntent
             /\ \/ rx' = rx \o <<WithId("RX_DONE_W_REUSE", id)>>
                \/ rx' = rx \o <<WithId("RX_DONE", id), WithId("INTENT", id)>>
             /\ adsp'.busy = adsp.busy \ {id} /\ adsp'.todo = adsp.todo /\ adsp'.open = adsp.open
      BY <1>2, ReleaseFacts
    <2>2. adsp.open
      BY <2>1 DEF OwnInv
    <2> DEFINE a == WithId("RX_DONE_W_REUSE", id)
               b == WithId("RX_DONE", id)
               c == WithId("INTENT", id)
    <2>3. /\ a \in Down /\ b \in Down /\ c \in Down
          /\ a.cmd = "RX_DONE_W_REUSE" /\ b.cmd = "RX_DONE" /\ c.cmd = "INTENT"
      BY <2>1, DownMessages
    <2>4. rx' = rx \o <<a>> \/ rx' = rx \o <<b, c>>
      BY <2>1
    <2> HIDE DEF a, b, c
    <2>5. CASE rx' = rx \o <<a>>
      <3>1. <<a>> \in Seq(Down) /\ ~Meets(<<a>>, RemoteOpens) /\ ~Meets(<<a>>, PanAnswers)
        BY <2>3, Single, OneMeets DEF RemoteOpens, PanAnswers
      <3> QED
        BY <2>1, <2>2, <2>5, <3>1 DEF AdspStep
    <2>6. CASE rx' = rx \o <<b, c>>
      <3>1. <<b, c>> \in Seq(Down) /\ DOMAIN <<b, c>> = {1, 2} /\ <<b, c>>[1] = b /\ <<b, c>>[2] = c
        BY <2>3
      <3>2. ~Meets(<<b, c>>, RemoteOpens) /\ ~Meets(<<b, c>>, PanAnswers)
        BY <2>3, <3>1 DEF RemoteOpens, PanAnswers, Meets
      <3> QED
        BY <2>1, <2>2, <2>6, <3>1, <3>2 DEF AdspStep
    <2> QED
      BY <2>4, <2>5, <2>6
  <1>3. CASE AdspNotify
    <2>1. PICK id \in adsp.free :
             /\ AdspSends(<<Data(id, "NOTIFY")>>)
             /\ adsp' = [adsp EXCEPT !.free = @ \ {id}]
             /\ AdspStep /\ UNCHANGED tx
      BY <1>3 DEF AdspNotify
    <2>2. adsp \in AdspSide /\ id \in Ids
      BY <2>1 DEF SessionInv, TypeInv, AdspSide
    <2>3. adsp'.open = adsp.open /\ adsp'.todo = adsp.todo /\ adsp'.busy = adsp.busy
      BY <2>1, <2>2 DEF AdspSide
    <2> DEFINE v == Data(id, "NOTIFY")
    <2>4. v \in Down /\ v.cmd = "TX_DATA" /\ v.body = "NOTIFY" /\ rx' = rx \o <<v>>
      BY <2>1, <2>2, DownMessages DEF AdspSends
    <2> HIDE DEF v
    <2>5. <<v>> \in Seq(Down) /\ ~Meets(<<v>>, Spoken) /\ ~Meets(<<v>>, PanAnswers)
      BY <2>4, Single, OneMeets DEF Spoken, PanAnswers
    <2> QED
      BY <2>1, <2>3, <2>4, <2>5 DEF AdspStep
  <1> QED
    BY <1>1, <1>2, <1>3


LEMMA OwnAnswer ==
  ASSUME SessionInv, OwnInv, AdspAnswer
  PROVE  OwnInv'
  <1>1. PICK id \in adsp.free :
           /\ AdspStep /\ adsp.todo # <<>> /\ UNCHANGED <<tx, notified>>
           /\ Answer(Head(adsp.todo)) \in Flags /\ id \in Ids
           /\ AdspSends(<<Data(id, Answer(Head(adsp.todo)))>>)
           /\ adsp'.open = adsp.open /\ adsp'.busy = adsp.busy
    BY AdspAnswerFacts
  <1> DEFINE v == Data(id, Answer(Head(adsp.todo)))
  <1>2. v \in Down /\ v.cmd = "TX_DATA" /\ rx' = rx \o <<v>>
    BY <1>1, DownMessages DEF AdspSends
  <1> HIDE DEF v
  <1>3. <<v>> \in Seq(Down) /\ ~Meets(<<v>>, RemoteOpens)
    BY <1>2, Single, OneMeets DEF RemoteOpens
  <1>4. adsp.open
    BY <1>1 DEF OwnInv
  <1> QED
    BY <1>1, <1>2, <1>3, <1>4, OwnSays DEF AdspStep

LEMMA OwnReceive ==
  ASSUME SessionInv, OwnInv, AdspReceive
  PROVE  OwnInv'
  <1> DEFINE m == Head(tx)
             ms == Back(m)
  <1>1. /\ tx # <<>> /\ tx' = Tail(tx) /\ m \in Up /\ rx' = rx \o ms /\ pg' = pg
        /\ tx \in Seq(Up) /\ rx \in Seq(Down)
    BY ReceiveFacts DEF AdspSends, AdspStep, SessionInv, TypeInv
  <1>2. /\ adsp'.open <=> (IF m.cmd = "VERSION" THEN FALSE
                           ELSE IF m.cmd = "OPEN" THEN TRUE ELSE adsp.open)
        /\ adsp'.busy = IF m.cmd = "VERSION" THEN {}
                        ELSE IF m.cmd = "TX_DATA" THEN adsp.busy \cup {m.id}
                        ELSE adsp.busy
        /\ adsp'.todo = IF m.cmd = "VERSION" THEN <<>>
                        ELSE IF m.cmd = "TX_DATA" THEN Append(adsp.todo, m.body)
                        ELSE adsp.todo
    BY ReceiveFacts
  <1>3. /\ ms \in Seq(Down) /\ ~Meets(ms, RemoteOpens)
        /\ m.cmd # "OPEN" => ~Meets(ms, Spoken)
    <2>1. ms \in Seq(Down) /\ \A k \in DOMAIN ms : ms[k].cmd \in {"VERSION_ACK", "OPEN_ACK", "INTENT"}
      BY <1>1, BackFacts
    <2>2. CASE m.cmd = "VERSION"
      <3> DEFINE v == Cmd("VERSION_ACK")
      <3>1. v \in Down /\ v.cmd = "VERSION_ACK" /\ ms = <<v>>
        BY <2>2, DownMessages DEF Back
      <3> HIDE DEF v, ms
      <3>2. ~Meets(<<v>>, Spoken)
        BY <3>1, OneMeets DEF Spoken
      <3> QED
        BY <2>1, <3>1, <3>2 DEF Meets, RemoteOpens
    <2>3. CASE m.cmd # "VERSION" /\ m.cmd # "OPEN"
      BY <2>3 DEF Back, Meets
    <2>4. ~Meets(ms, RemoteOpens)
      BY <2>1 DEF Meets, RemoteOpens
    <2> QED
      BY <2>1, <2>2, <2>3, <2>4
  <1>4. /\ Meets(tx', Requests) => Meets(tx, Requests)
        /\ Meets(tx', Versions) => Meets(tx, Versions)
        /\ m \in Requests => Meets(tx, Requests)
        /\ m \in Versions => Meets(tx, Versions)
        /\ m \in LocalOpens => Meets(tx, LocalOpens)
    BY <1>1, TailMeets
  <1>5. /\ Before(tx', Requests, Versions) /\ (m \in Versions => ~Meets(tx, Requests))
    BY <1>1, TailBefore DEF OwnInv
  <1>6. pg.remote_opened => Before(tx', Versions, LocalOpens) /\ (m \in LocalOpens => ~Meets(tx, Versions))
    BY <1>1, TailBefore DEF OwnInv
  <1> HIDE DEF m, ms
  <1>7. CASE m.cmd = "VERSION"
    <2>1. m \in Versions
      BY <1>1, <1>7 DEF Versions
    <2>2. ~adsp'.open /\ adsp'.todo = <<>> /\ adsp'.busy = {} /\ ~Meets(tx', Requests)
      BY <1>2, <1>4, <1>5, <1>7, <2>1
    <2>3. pg.remote_opened => ~adsp.open /\ ~Meets(rx, Spoken)
      BY <1>4, <2>1 DEF OwnInv
    <2>4. ~pg.riid_avail
      BY <2>3 DEF OwnInv
    <2>5. Before(rx', Spoken, RemoteOpens) /\ (Meets(rx', Spoken) => Meets(rx, Spoken))
      BY <1>1, <1>3, <1>7, JoinedMeets, JoinedBefore DEF OwnInv
    <2> QED
      BY <1>1, <1>5, <1>6, <2>2, <2>3, <2>4, <2>5 DEF OwnInv
  <1>8. CASE m.cmd = "OPEN"
    <2>1. m \in LocalOpens
      BY <1>1, <1>8 DEF LocalOpens
    <2>2. adsp'.open
      BY <1>2, <1>8
    <2>3. ~Meets(rx, RemoteOpens)
      BY <1>1, <1>4, <2>1, MeetsHas DEF SessionInv, OpenInv
    <2>4. Before(rx', Spoken, RemoteOpens)
      BY <1>1, <1>3, <2>3, JoinedMeets, NoneBefore
    <2>5. pg.remote_opened => ~Meets(tx', Versions)
      BY <1>4, <1>6, <2>1
    <2> QED
      BY <1>1, <1>5, <1>6, <2>2, <2>4, <2>5 DEF OwnInv
  <1>9. CASE m.cmd # "VERSION" /\ m.cmd # "OPEN"
    <2>1. adsp'.open <=> adsp.open
      BY <1>2, <1>9
    <2>2. adsp'.todo # <<>> \/ adsp'.busy # {} => adsp.open
      <3>1. CASE m.cmd = "TX_DATA"
        <4>1. m \in Requests
          BY <1>1, <3>1 DEF Requests
        <4> QED
          BY <1>4, <4>1 DEF OwnInv
      <3>2. CASE m.cmd # "TX_DATA"
        BY <1>2, <1>9, <3>2 DEF OwnInv
      <3> QED
        BY <3>1, <3>2
    <2>3. Before(rx', Spoken, RemoteOpens) /\ (Meets(rx', Spoken) => Meets(rx, Spoken))
      BY <1>1, <1>3, <1>9, JoinedMeets, JoinedBefore DEF OwnInv
    <2> QED
      BY <1>1, <1>4, <1>5, <1>6, <2>1, <2>2, <2>3 DEF OwnInv
  <1> QED
    BY <1>7, <1>8, <1>9

LEMMA OwnStep == SessionInv /\ OwnInv /\ [Next]_vars => OwnInv'
  <1> SUFFICES ASSUME SessionInv, OwnInv, [Next]_vars PROVE OwnInv'
    OBVIOUS
  <1>1. CASE UNCHANGED vars
    BY <1>1 DEF vars, OwnInv
  <1>2. CASE QuietStep
    <2>1. UNCHANGED <<tx, rx, adsp>> /\ Link(pg') = Link(pg)
      BY <1>2, QuietMoves
    <2>2. pg'.remote_opened = pg.remote_opened /\ pg'.riid_avail = pg.riid_avail
      BY <2>1 DEF Link
    <2> QED
      BY <2>1, <2>2 DEF OwnInv
  <1>3. CASE AdspVersion \/ AdspAdvertise \/ AdspAskIntent \/ AdspRelease \/ AdspNotify
    <2>1. PICK ms \in Seq(Down) :
             /\ rx' = rx \o ms /\ UNCHANGED <<pg, stack, ret, tx>>
             /\ adsp'.open = adsp.open /\ adsp'.todo = adsp.todo
             /\ adsp'.busy # {} => adsp.busy # {}
             /\ ~Meets(ms, Spoken) \/ (adsp.open /\ ~Meets(ms, RemoteOpens))
      BY <1>3, Sayings
    <2> QED
      BY <2>1, OwnSays
  <1>4. CASE Next
    BY <1>2, <1>3, <1>4, Steps, OwnCallOpen, OwnPoll, OwnSends, OwnRiid, OwnAnswer, OwnReceive
  <1> QED
    BY <1>1, <1>4


(* Quiet about PAN: what a step that neither sends nor receives preserves. *)
LEMMA QuietHistory ==
  ASSUME QuietStep
  PROVE  UNCHANGED history
  BY DEF QuietStep, CallPoll, CallRefresh, PollEmpty, AfterVersion, AfterAnswer, Waited,
         AfterAltmodePoll, KeepWaiting, TimeOut, Unfinished, UcsiRequest, PrewarmEnd,
         AfterPanEn, DiscoverEnd, AfterReadSel, AfterUsbcRead, AtCaller

(* The caller of PAN_EN waits for it, and for nothing else. *)
LEMMA QuietAtPan ==
  ASSUME SessionInv, QuietStep, Len(stack) = 1, stack[1].pc = "pan"
  PROVE  AfterPanEn
  <1>1. stack # <<>> /\ Top.pc = "pan"
    <2>1. stack # <<>>
      BY EmptySeq DEF SessionInv, TypeInv
    <2> QED
      BY <2>1, TopFacts DEF SessionInv
  <1> QED
    BY <1>1 DEF QuietStep, CallPoll, CallRefresh, PollEmpty, AfterVersion, AfterAnswer, Waited,
         AfterAltmodePoll, KeepWaiting, TimeOut, Unfinished, UcsiRequest, PrewarmEnd,
         DiscoverEnd, AfterReadSel, AfterUsbcRead, AtCaller, Draining

LEMMA QuietPan ==
  ASSUME SessionInv, SessionInv', QuietStep, PanQuiet
  PROVE  PanQuiet'
  <1>1. TypeInv /\ StackInv /\ pg \in Qpg /\ stack \in Seq(Frames)
    BY DEF SessionInv, TypeInv
  <1>2. ~pg'.session_ready
    <2>1. stack = <<>> => Len(stack) # 1
      BY <1>1, EmptySeq
    <2> QED
      BY <2>1, QuietMoves DEF PanQuiet
  <1>3. CASE QuietPops
    <2>1. stack # <<>> /\ Pops /\ ~pg'.acked["PAN"]
      BY <1>3 DEF QuietPops, PanQuiet
    <2>2. ASSUME Len(stack) = 2, stack[1].pc = "pan" PROVE ret' # "ok"
      <3>1. CASE TimeOut
        BY <2>2, <3>1 DEF TimeOut, Return
      <3>2. CASE Top.pc = "answer" /\ Done(Top)
        <4>1. Top = stack[2] /\ 2 \in DOMAIN stack
          BY <1>1, <2>1, <2>2, TopFacts
        <4>2. Top.op = "PAN_EN"
          BY <1>1, <2>2, <4>1 DEF StackInv, Below
        <4>3. pg.acked["PAN"]
          BY <3>2, <4>2 DEF Done, DoneAnswer, Answer, PanReq
        <4> QED
          BY <4>3 DEF PanQuiet
      <3> QED
        BY <1>3, <2>2, <3>1, <3>2 DEF QuietPops
    <2> QED
      BY <1>1, <1>2, <2>1, <2>2, PopsQuiet
  <1>4. ASSUME NEW pc \in Pcs, QuietSets(pc) PROVE PanQuiet'
    <2>1. stack # <<>> /\ Sets(pc) /\ ~pg'.acked["PAN"]
      BY <1>4 DEF QuietSets, PanQuiet
    <2>2. CASE Len(stack) = 1 /\ stack[1].pc = "pan"
      <3>1. AfterPanEn /\ ret # "ok"
        BY <2>2, QuietAtPan DEF PanQuiet
      <3>2. Return("err")
        BY <3>1 DEF AfterPanEn
      <3>3. Pops
        BY <1>1, <2>1, <3>2, Returns DEF Rets
      <3> QED
        BY <1>1, <1>2, <2>1, <2>2, <3>3, PopsQuiet
    <2>3. CASE ~(Len(stack) = 1 /\ stack[1].pc = "pan")
      <3>1. Len(stack) = 1 => Top = stack[1] /\ Top.pc \notin {"pan", "discover"}
        BY <1>1, <2>1, <2>3, TopFacts DEF PanQuiet
      <3>2. Len(stack) = 1 => pc \notin {"pan", "discover"}
        BY <1>4, <3>1 DEF QuietSets
      <3> QED
        BY <1>1, <1>2, <2>1, <3>2, SetsQuiet
    <2> QED
      BY <2>2, <2>3
  <1>5. ASSUME NEW pc \in Callers, NEW r \in Req \ {"PAN_ACK"}, QuietStarts(pc, r) PROVE PanQuiet'
    <2>1. stack # <<>> /\ Starts(pc, r) /\ pg' = Clear(pg, r)
      BY <1>5 DEF QuietStarts
    <2>2. ~pg'.acked["PAN"]
      <3>1. CASE Answer(r) = "PAN"
        BY <1>1, <2>1, <3>1, Clears
      <3>2. CASE Answer(r) # "PAN"
        BY <1>1, <2>1, <3>2, Clears DEF PanQuiet, Flags
      <3> QED
        BY <3>1, <3>2
    <2>3. stack[1].op = "open" /\ stack[1].pc # "discover" /\ Outermost(stack[1])
      <3>1. 1 \in DOMAIN stack
        BY <1>1, <2>1, TopFacts DEF Starts
      <3> QED
        BY <1>1, <2>1, <3>1 DEF PanQuiet, StackInv
    <2>4. pc # "discover" /\ pc \in {"version", "remote", "open_ack", "prewarm", "pan"}
      BY <1>5, <2>3 DEF QuietStarts, Outermost
    <2>5. r \in Below(pc)
      <3>1. stack' \in Seq(Frames) /\ Len(stack') = 2
        BY <2>1 DEF Starts
      <3>2. 2 \in DOMAIN stack'
        BY <3>1, LenProperties
      <3> QED
        BY <2>1, <3>2 DEF Starts, SessionInv, StackInv
    <2>6. r \notin LaterPan
      BY <1>5, <2>4, <2>5 DEF Below, LaterPan, PanReq
    <2> QED
      BY <1>1, <1>2, <2>1, <2>2, <2>4, <2>6, StartsQuiet
  <1>6. ~QuietCalls
    BY DEF QuietCalls, PanQuiet
  <1> QED
    BY <1>3, <1>4, <1>5, <1>6, QuietMoves

(* No answer passes for that of PAN_EN: at the start and in every step. *)
LEMMA EarnedStart == Init => EarnedInv
  <1> SUFFICES ASSUME Init PROVE EarnedInv
    OBVIOUS
  <1>1. pg = FreshPg /\ stack = <<>>
    BY DEF Init
  <1> QED
    BY <1>1, FreshFacts DEF EarnedInv, PanQuiet, Flags

LEMMA EarnedQuiet ==
  ASSUME SessionInv, SessionInv', EarnedInv, QuietStep
  PROVE  EarnedInv'
  <1>1. UNCHANGED <<tx, rx, adsp>> /\ Link(pg') = Link(pg)
    BY QuietMoves
  <1>2. pg'.remote_opened = pg.remote_opened /\ (Unearned' => Unearned)
    BY <1>1, QuietHistory DEF Link, Unearned, history
  <1> QED
    BY <1>1, <1>2, QuietPan DEF EarnedInv

LEMMA EarnedCallOpen ==
  ASSUME SessionInv, EarnedInv, CallOpen
  PROVE  EarnedInv'
  <1>1. CASE pg.session_ready
    <2>1. UNCHANGED <<pg, stack, tx, noted, earned>>
      BY <1>1 DEF CallOpen
    <2>2. Unearned' => Unearned
      BY <2>1 DEF Unearned
    <2> QED
      BY <1>1, <2>2 DEF EarnedInv, PanQuiet
  <1>2. CASE ~pg.session_ready
    <2>1. pg' = FreshPg /\ stack = <<>>
      BY <1>2, CallOpenFacts
    <2>2. ~pg'.session_ready /\ ~pg'.acked["PAN"] /\ ~pg'.remote_opened
      BY <2>1, FreshFacts DEF Flags
    <2>3. CASE UNCHANGED stack
      <3>1. stack' = <<>> /\ DOMAIN stack' = {} /\ Len(stack') = 0
        BY <2>1, <2>3
      <3> QED
        BY <2>2, <3>1 DEF EarnedInv, PanQuiet
    <2>4. CASE Len(stack') = 1 /\ DOMAIN stack' = 1 .. 1 /\ stack'[1].op = "open" /\ stack'[1].pc = "version"
      <3>1. "open" \notin LaterPan
        BY DEF LaterPan, PanReq
      <3> QED
        BY <2>2, <2>4, <3>1 DEF EarnedInv, PanQuiet
    <2> QED
      BY <1>2, <2>3, <2>4, CallOpenFacts
  <1> QED
    BY <1>1, <1>2


LEMMA EarnedPoll ==
  ASSUME SessionInv, OwnInv, EarnedInv, PollMessage
  PROVE  EarnedInv'
  <1> DEFINE m == Head(rx)
  <1>1. TypeInv /\ StackInv /\ tx \in Seq(Up) /\ rx \in Seq(Down) /\ pg \in Qpg /\ stack \in Seq(Frames)
    BY DEF SessionInv, TypeInv
  <1>2. /\ rx # <<>> /\ rx' = Tail(rx) /\ m \in Down /\ UNCHANGED <<adsp, earned>>
        /\ stack # <<>> /\ Draining(Top)
        /\ noted' \/ (stack' = stack /\ noted' = noted)
    BY <1>1, PollMoves DEF PollMessage
  <1>3. PICK ms \in Seq(Up) : tx' = tx \o ms /\ \A k \in DOMAIN ms : ms[k].cmd \in Replies
    BY PollFacts
  <1>4. ~Meets(ms, Requests) /\ ~Meets(ms, Versions) /\ ~Meets(ms, LaterRequests)
    BY <1>3 DEF Meets, Requests, Versions, LaterRequests, Replies
  <1>5. /\ Meets(tx', Versions) => Meets(tx, Versions)
        /\ Meets(tx', LaterRequests) => Meets(tx, LaterRequests)
    BY <1>1, <1>3, <1>4, JoinedMeets
  <1> SUFFICES ASSUME Unearned'
               PROVE  /\ PanQuiet'
                      /\ pg'.remote_opened =>
                            /\ ~Meets(tx', LaterRequests) /\ ~Meets(rx', PanAnswers)
                            /\ \A k \in DOMAIN adsp'.todo : adsp'.todo[k] \notin LaterPan
    BY DEF EarnedInv
  <1>6. Unearned /\ stack' = stack /\ PanQuiet
    BY <1>2, <1>5 DEF Unearned, EarnedInv
  <1>7. pg' = Handled(m) /\ ret' \in {"ok", "again"}
    <2>1. ~Nests
      <3>1. Len(stack) \in Nat /\ Len(stack') = Len(stack)
        BY <1>1, <1>2, <1>6, TopFacts
      <3>2. Nests => Len(stack') = Len(stack) + 1
        BY DEF Nests
      <3> QED
        BY <3>1, <3>2
    <2> QED
      BY <1>1, <2>1, PollMoves
  <1>8. /\ Meets(rx', PanAnswers) => Meets(rx, PanAnswers)
        /\ m \in PanAnswers => Meets(rx, PanAnswers)
    BY <1>1, <1>2, TailMeets
  <1>9. /\ pg'.session_ready = pg.session_ready
        /\ m.cmd = "OPEN" \/ pg'.remote_opened = pg.remote_opened
        /\ (m.cmd = "TX_DATA" /\ pg.remote_opened /\ m.body = "PAN") \/ pg'.acked["PAN"] = pg.acked["PAN"]
    BY <1>1, <1>2, <1>7, HandledFacts DEF Flags
  <1>10. m \in RemoteOpens => ~Meets(rx, Spoken) /\ Has(rx, "OPEN")
    BY <1>1, <1>2, TailMeets, TailBefore, MeetsHas DEF OwnInv
  <1> HIDE DEF m
  <1>11. ~(m.cmd = "TX_DATA" /\ pg.remote_opened /\ m.body = "PAN")
    <2>1. m.cmd = "TX_DATA" /\ m.body = "PAN" => m \in PanAnswers
      BY <1>2 DEF PanAnswers, Spoken
    <2> QED
      BY <1>6, <1>8, <2>1 DEF EarnedInv
  <1>12. PanQuiet'
    <2>1. ~(Len(stack) = 1 /\ stack[1].pc = "pan")
      BY <1>1, <1>2, TopFacts DEF Draining
    <2> QED
      BY <1>6, <1>9, <1>11, <2>1 DEF PanQuiet
  <1>13. CASE m.cmd = "OPEN"
    <2>1. m \in RemoteOpens
      BY <1>2, <1>13 DEF RemoteOpens
    <2>2. ~adsp.open
      BY <1>10, <2>1 DEF SessionInv, OpenInv
    <2>3. ~Meets(tx, Requests) /\ adsp.todo = <<>> /\ ~Meets(rx, Spoken)
      BY <1>10, <2>1, <2>2 DEF OwnInv
    <2>4. ~Meets(tx, LaterRequests) /\ ~Meets(rx, PanAnswers)
      BY <1>1, <2>3, MeetsHas
    <2>5. DOMAIN adsp'.todo = {}
      BY <1>2, <2>3
    <2> QED
      BY <1>5, <1>8, <1>12, <2>4, <2>5
  <1>14. CASE m.cmd # "OPEN"
    BY <1>2, <1>5, <1>6, <1>8, <1>9, <1>12, <1>14 DEF EarnedInv
  <1> QED
    BY <1>13, <1>14

LEMMA EarnedSends ==
  ASSUME SessionInv, EarnedInv, AfterRemoteOpen \/ AfterOpenAck \/ AfterRiid
  PROVE  EarnedInv'
  <1>1. TypeInv /\ StackInv /\ tx \in Seq(Up) /\ stack # <<>>
    BY RemoteOpenFacts, OpenAckFacts, RiidFacts DEF SessionInv, TypeInv
  <1>2. UNCHANGED <<rx, adsp, history>>
    BY DEF AfterRemoteOpen, AfterOpenAck, AfterRiid, Waited
  <1>3. /\ pg'.remote_opened = pg.remote_opened /\ pg'.session_ready = pg.session_ready
        /\ pg'.acked = pg.acked
    BY RemoteOpenFacts, OpenAckFacts, RiidFacts
  <1>4. ASSUME AfterRemoteOpen
        PROVE  \E ms \in Seq(Up) : tx' = tx \o ms /\ ~Meets(ms, Versions) /\ ~Meets(ms, LaterRequests)
    <2>1. PICK ms \in Seq(Up) : tx' = tx \o ms /\ \A k \in DOMAIN ms : ms[k].cmd \in {"OPEN_ACK", "OPEN"}
      BY <1>4, RemoteOpenFacts
    <2>2. ~Meets(ms, Versions) /\ ~Meets(ms, LaterRequests)
      BY <2>1 DEF Meets, Versions, Requests, LaterRequests
    <2> QED
      BY <2>1, <2>2
  <1>5. ASSUME AfterOpenAck, tx' # tx
        PROVE  \E ms \in Seq(Up) : tx' = tx \o ms /\ ~Meets(ms, Versions) /\ ~Meets(ms, LaterRequests)
    <2> DEFINE v == WithId("INTENT", pg.next_liid)
    <2>1. tx' = Append(tx, v) /\ v \in Up /\ v.cmd = "INTENT"
      BY <1>5, OpenAckFacts, UpMessages DEF SessionInv, TypeInv, Qpg
    <2> HIDE DEF v
    <2>2. <<v>> \in Seq(Up) /\ tx' = tx \o <<v>> /\ ~Meets(<<v>>, Versions) /\ ~Meets(<<v>>, LaterRequests)
      BY <1>1, <2>1, Single, AppendJoins, OneMeets DEF Versions, Requests, LaterRequests
    <2> QED
      BY <2>2
  <1>6. ASSUME AfterRiid, tx' # tx, PanQuiet
        PROVE  \E ms \in Seq(Up) : tx' = tx \o ms /\ ~Meets(ms, Versions) /\ ~Meets(ms, LaterRequests)
    <2> DEFINE v == Data(pg.riid, Top.op)
    <2>1. tx' = Append(tx, v) /\ v \in Up /\ v.cmd = "TX_DATA" /\ v.body = Top.op
      BY <1>6, RiidFacts, UpMessages
    <2>2. Top.op \notin LaterPan
      BY <1>1, <1>6, TopFacts DEF PanQuiet
    <2> HIDE DEF v
    <2>3. <<v>> \in Seq(Up) /\ tx' = tx \o <<v>> /\ ~Meets(<<v>>, Versions) /\ ~Meets(<<v>>, LaterRequests)
      BY <1>1, <2>1, <2>2, Single, AppendJoins, OneMeets DEF Versions, Requests, LaterRequests
    <2> QED
      BY <2>3
  <1>7. /\ Meets(tx', Versions) => Meets(tx, Versions)
        /\ PanQuiet => (Meets(tx', LaterRequests) => Meets(tx, LaterRequests))
    <2>1. ASSUME NEW ms \in Seq(Up), tx' = tx \o ms, ~Meets(ms, Versions), ~Meets(ms, LaterRequests)
          PROVE  /\ Meets(tx', Versions) => Meets(tx, Versions)
                 /\ Meets(tx', LaterRequests) => Meets(tx, LaterRequests)
      BY <1>1, <2>1, JoinedMeets
    <2>2. CASE tx' = tx
      BY <2>2
    <2>3. ASSUME AfterRiid, tx' # tx PROVE Meets(tx', Versions) => Meets(tx, Versions)
      <3> DEFINE v == Data(pg.riid, Top.op)
      <3>1. tx' = Append(tx, v) /\ v \in Up /\ v.cmd = "TX_DATA"
        BY <2>3, RiidFacts, UpMessages
      <3> HIDE DEF v
      <3>2. <<v>> \in Seq(Up) /\ tx' = tx \o <<v>> /\ ~Meets(<<v>>, Versions)
        BY <1>1, <3>1, Single, AppendJoins, OneMeets DEF Versions
      <3> QED
        BY <1>1, <3>2, JoinedMeets
    <2> QED
      BY <1>4, <1>5, <1>6, <2>1, <2>2, <2>3
  <1> SUFFICES ASSUME Unearned' PROVE PanQuiet' /\ PanQuiet /\ Unearned
    BY <1>2, <1>3, <1>7 DEF EarnedInv
  <1>8. Unearned /\ PanQuiet
    BY <1>2, <1>7 DEF Unearned, history, EarnedInv
  <1>9. ~pg'.session_ready /\ ~pg'.acked["PAN"]
    BY <1>3, <1>8 DEF PanQuiet
  <1>10. CASE AfterRemoteOpen \/ AfterOpenAck
    <2>1. Len(stack) = 1 /\ (Pops \/ Sets("open_ack") \/ Sets("prewarm"))
      BY <1>10, RemoteOpenFacts, OpenAckFacts
    <2>2. CASE Pops
      BY <1>1, <1>8, <1>9, <2>1, <2>2, PopsQuiet
    <2>3. CASE Sets("open_ack")
      BY <1>1, <1>8, <1>9, <2>3, SetsQuiet
    <2>4. CASE Sets("prewarm")
      BY <1>1, <1>8, <1>9, <2>4, SetsQuiet
    <2> QED
      BY <1>8, <2>1, <2>2, <2>3, <2>4
  <1>11. CASE AfterRiid
    <2>1. Len(stack) > 1 /\ (Pops \/ Sets("answer"))
      BY <1>11, RiidFacts
    <2>2. ret' # "ok"
      BY <1>11 DEF AfterRiid, Return
    <2>3. CASE Pops
      BY <1>1, <1>8, <1>9, <2>2, <2>3, PopsQuiet
    <2>4. CASE Sets("answer")
      BY <1>1, <1>8, <1>9, <2>4, SetsQuiet
    <2> QED
      BY <1>8, <2>1, <2>3, <2>4
  <1> QED
    BY <1>10, <1>11


(* The ADSP: what it says is no answer of a request about PAN ... *)
LEMMA EarnedSays ==
  ASSUME SessionInv, OwnInv, EarnedInv,
         AdspVersion \/ AdspAdvertise \/ AdspAskIntent \/ AdspRelease \/ AdspNotify
  PROVE  EarnedInv'
  <1>1. PICK ms \in Seq(Down) :
           /\ rx' = rx \o ms /\ UNCHANGED <<pg, stack, ret, tx>>
           /\ adsp'.todo = adsp.todo /\ ~Meets(ms, PanAnswers)
    BY Sayings
  <1>2. UNCHANGED <<earned, noted>>
    BY DEF AdspVersion, AdspAdvertise, AdspAskIntent, AdspRelease, AdspNotify, AdspStep
  <1>3. rx \in Seq(Down)
    BY DEF SessionInv, TypeInv
  <1>4. Meets(rx', PanAnswers) => Meets(rx, PanAnswers)
    BY <1>1, <1>3, JoinedMeets
  <1>5. (Unearned' => Unearned) /\ (PanQuiet => PanQuiet')
    BY <1>1, <1>2 DEF Unearned, PanQuiet
  <1> QED
    BY <1>1, <1>4, <1>5 DEF EarnedInv

(* ... or answers one that was sent. *)
LEMMA EarnedAnswer ==
  ASSUME SessionInv, OwnInv, EarnedInv, AdspAnswer
  PROVE  EarnedInv'
  <1> DEFINE r == Head(adsp.todo)
  <1>1. PICK id \in adsp.free :
           /\ AdspStep /\ adsp.todo # <<>> /\ UNCHANGED <<tx, notified>>
           /\ r \in Req /\ Answer(r) \in Flags /\ id \in Ids
           /\ AdspSends(<<Data(id, Answer(r))>>)
           /\ adsp'.todo = Tail(adsp.todo)
    BY AdspAnswerFacts
  <1>2. earned' = (earned \/ r = "PAN_EN")
    BY DEF AdspAnswer
  <1>3. UNCHANGED <<pg, stack, ret, noted, tx>> /\ rx \in Seq(Down) /\ adsp.todo \in Seq(Req)
    BY <1>1 DEF AdspStep, SessionInv, TypeInv, AdspSide
  <1> DEFINE v == Data(id, Answer(r))
  <1>4. v \in Down /\ v.cmd = "TX_DATA" /\ v.body = Answer(r) /\ rx' = rx \o <<v>>
    BY <1>1, DownMessages DEF AdspSends
  <1>5. /\ r = adsp.todo[1] /\ 1 \in DOMAIN adsp.todo
        /\ \A k \in DOMAIN Tail(adsp.todo) : k + 1 \in DOMAIN adsp.todo /\ Tail(adsp.todo)[k] = adsp.todo[k + 1]
    BY <1>1, <1>3, Beheaded
  <1> HIDE DEF v, r
  <1>6. (Unearned' => Unearned) /\ (PanQuiet => PanQuiet')
    BY <1>2, <1>3 DEF Unearned, PanQuiet
  <1>7. ASSUME Unearned', pg'.remote_opened
        PROVE  /\ ~Meets(tx', LaterRequests) /\ ~Meets(rx', PanAnswers)
               /\ \A k \in DOMAIN adsp'.todo : adsp'.todo[k] \notin LaterPan
    <2>1. /\ ~Meets(tx, LaterRequests) /\ ~Meets(rx, PanAnswers)
          /\ \A k \in DOMAIN adsp.todo : adsp.todo[k] \notin LaterPan
      BY <1>3, <1>6, <1>7 DEF EarnedInv
    <2>2. r # "PAN_EN"
      <3>1. adsp.open /\ ~Meets(tx, Versions)
        BY <1>1, <1>3, <1>7 DEF OwnInv
      <3>2. ~earned'
        BY <1>3, <1>7, <3>1 DEF Unearned
      <3> QED
        BY <1>2, <3>2
    <2>3. r \notin PanReq
      BY <1>5, <2>1, <2>2 DEF LaterPan
    <2>4. Answer(r) # "PAN"
      BY <1>1, <2>3 DEF Answer, Req
    <2>5. <<v>> \in Seq(Down) /\ ~Meets(<<v>>, PanAnswers)
      BY <1>4, <2>4, Single, OneMeets DEF PanAnswers
    <2>6. ~Meets(rx', PanAnswers)
      BY <1>3, <1>4, <2>1, <2>5, JoinedMeets
    <2> QED
      BY <1>1, <1>3, <1>5, <2>1, <2>6
  <1> QED
    BY <1>6, <1>7 DEF EarnedInv

LEMMA EarnedReceive ==
  ASSUME SessionInv, OwnInv, EarnedInv, AdspReceive
  PROVE  EarnedInv'
  <1> DEFINE m == Head(tx)
             ms == Back(m)
  <1>1. /\ tx # <<>> /\ tx' = Tail(tx) /\ m \in Up /\ rx' = rx \o ms
        /\ UNCHANGED <<pg, stack, ret, noted>>
        /\ tx \in Seq(Up) /\ rx \in Seq(Down) /\ adsp.todo \in Seq(Req)
    BY ReceiveFacts DEF AdspSends, AdspStep, SessionInv, TypeInv, AdspSide
  <1>2. adsp'.todo = IF m.cmd = "VERSION" THEN <<>>
                     ELSE IF m.cmd = "TX_DATA" THEN Append(adsp.todo, m.body)
                     ELSE adsp.todo
    BY ReceiveFacts
  <1>3. earned' = (earned /\ m.cmd # "VERSION")
    BY DEF AdspReceive
  <1>4. ms \in Seq(Down) /\ ~Meets(ms, PanAnswers)
    BY <1>1, BackFacts DEF Meets, PanAnswers
  <1>5. /\ Meets(tx', Versions) => Meets(tx, Versions)
        /\ Meets(tx', LaterRequests) => Meets(tx, LaterRequests)
        /\ m \in Versions => Meets(tx, Versions)
        /\ m \in LaterRequests => Meets(tx, LaterRequests)
    BY <1>1, TailMeets
  <1>6. Meets(rx', PanAnswers) => Meets(rx, PanAnswers)
    BY <1>1, <1>4, JoinedMeets
  <1> HIDE DEF m, ms
  <1>7. (Unearned' => Unearned) /\ (PanQuiet => PanQuiet')
    <2>1. m.cmd = "VERSION" => m \in Versions
      BY <1>1 DEF Versions
    <2>2. Unearned' => Unearned
      BY <1>1, <1>3, <1>5, <2>1 DEF Unearned
    <2>3. PanQuiet => PanQuiet'
      BY <1>1 DEF PanQuiet
    <2> QED
      BY <2>2, <2>3
  <1>8. ASSUME Unearned', pg'.remote_opened
        PROVE  \A k \in DOMAIN adsp'.todo : adsp'.todo[k] \notin LaterPan
    <2>1. ~Meets(tx, LaterRequests) /\ \A k \in DOMAIN adsp.todo : adsp.todo[k] \notin LaterPan
      BY <1>1, <1>7, <1>8 DEF EarnedInv
    <2>2. CASE m.cmd = "TX_DATA"
      <3> DEFINE t == adsp.todo
                 b == m.body
      <3>1. b \in Req /\ t \in Seq(Req) /\ adsp'.todo = Append(t, b)
        BY <1>1, <1>2, <2>2 DEF Up
      <3>2. b \notin LaterPan /\ \A k \in DOMAIN t : t[k] \notin LaterPan
        BY <1>1, <1>5, <2>1, <2>2 DEF LaterRequests, Requests
      <3> HIDE DEF t, b
      <3>3. /\ DOMAIN Append(t, b) = 1 .. Len(t) + 1 /\ DOMAIN t = 1 .. Len(t) /\ Len(t) \in Nat
            /\ \A j \in 1 .. Len(t) : Append(t, b)[j] = t[j]
            /\ Append(t, b)[Len(t) + 1] = b
        BY <3>1, Appended
      <3>4. \A k \in DOMAIN Append(t, b) : Append(t, b)[k] \notin LaterPan
        BY <3>2, <3>3
      <3> QED
        BY <3>1, <3>4
    <2>3. CASE m.cmd = "VERSION"
      BY <1>2, <2>3
    <2>4. CASE m.cmd # "VERSION" /\ m.cmd # "TX_DATA"
      BY <1>2, <2>1, <2>4
    <2> QED
      BY <2>2, <2>3, <2>4
  <1> QED
    BY <1>1, <1>5, <1>6, <1>7, <1>8 DEF EarnedInv

LEMMA EarnedStep == SessionInv /\ SessionInv' /\ OwnInv /\ EarnedInv /\ [Next]_vars => EarnedInv'
  <1> SUFFICES ASSUME SessionInv, SessionInv', OwnInv, EarnedInv, [Next]_vars PROVE EarnedInv'
    OBVIOUS
  <1>1. CASE UNCHANGED vars
    BY <1>1 DEF vars, history, EarnedInv, Unearned, PanQuiet
  <1>2. CASE Next
    BY <1>2, Steps, EarnedQuiet, EarnedCallOpen, EarnedPoll, EarnedSends, EarnedSays, EarnedAnswer,
       EarnedReceive
  <1> QED
    BY <1>1, <1>2

(* A session that is declared ready has notifications enabled by its own   *)
(* ALTMODE_PAN_EN, over any number of attempts, timeouts and late answers: *)
(* what an attempt that failed left in the rings never passes for the      *)
(* answer of PAN_EN, unless this attempt met a notification and took the   *)
(* answer of the nested PAN_ACK for it.                                    *)
THEOREM ReadyIsEarned == Spec => []ReadyMeansPanEnabled
  <1> DEFINE I == SessionInv /\ OwnInv /\ EarnedInv
  <1>1. Init => I
    BY SessionStart, OwnStart, EarnedStart
  <1>2. I /\ [Next]_vars => I'
    BY SessionStep, OwnStep, EarnedStep
  <1>3. I => ReadyMeansPanEnabled
    BY DEF SessionInv, PanInv, EarnedInv, Unearned, PanQuiet, ReadyMeansPanEnabled
  <1> QED
    BY <1>1, <1>2, <1>3, PTL DEF Spec
=============================================================================
