------------------------------- MODULE Ucsi -------------------------------
(***************************************************************************)
(* The UCSI client of the PMIC-GLINK driver                                *)
(* (src/drivers/soc/qcom/pmic_glink_ucsi.c).  The client writes commands   *)
(* into the control word of the policy manager (PPM) in the ADSP and finds *)
(* out how they went by polling the PPM's command status, the CCI.         *)
(*                                                                         *)
(* Two sequences run while a session is opened: qpg_ucsi_prewarm before    *)
(* PAN_EN and qpg_ucsi_discover after it.  Both are a PPM_RESET followed   *)
(* by commands, each acknowledged.  A failed command ends its sequence;    *)
(* a failed PPM_RESET ends discover, but not prewarm.                      *)
(*                                                                         *)
(* The CCI is the set of the flags that are up; "CHG" stands for a non-zero *)
(* connector-change field.  Reads and writes are GLINK messages: a read    *)
(* whose answer does not come within a second fails, and its answer may    *)
(* still come and satisfy the next read (see GlinkSession).                *)
(***************************************************************************)
EXTENDS Naturals, Sequences

CONSTANTS MaxPolls,    \* the polls that fit into one wait of the client
          MaxOpens,    \* bound: attempts to open the session
          MaxFaults    \* bound: reads and writes that fail

ASSUME UcsiAssumption ==
    /\ MaxPolls \in Nat \ {0, 1, 2}
    /\ MaxOpens \in Nat /\ MaxFaults \in Nat

VARIABLES op,          \* the sequence that runs
          step,        \* the place in it
          pc,          \* the place in the step
          ret,         \* what the last step returned
          polls,       \* polls of the current wait
          old_cci,     \* the CCI before the command (qpg_send_ucsi_command)
          rd,          \* the CCI in ucsi_read_buffer, the last one read
          ucsi_prewarmed,
          opens, faults,
          cci,         \* the PPM's CCI
          control,     \* the command written and not yet taken, if any
          exec,        \* the command the PPM executes, if any
          mask,        \* the notifications that are enabled
          late,        \* the answer to a failed read, if it is still to come
          outcome,     \* what became of the last command written
          acked,       \* has the PPM seen that command's acknowledgement?
          upset        \* history: what went wrong, out of Upsets

client == <<op, step, pc, ret, polls, old_cci, rd, ucsi_prewarmed, opens, faults>>
ppm == <<cci, control, exec, mask, late, outcome, acked>>
vars == <<client, ppm, upset>>

(* A transfer failed within a PPM_RESET, or while the answer to an earlier *)
(* read was still to come; the PPM was slow; it refused a command.         *)
Upsets == {"reset", "slow", "refused"}

Flags == {"CC", "ERR", "NS", "RC", "ACK", "BUSY", "CHG"}
Acks == {"ACK_CC", "ACK_CC_CI"}

Prewarm == <<"VERSION", "PPM_RESET", "NOTIFY1", "GET_CAPABILITY",
             "GET_CONNECTOR_CAPABILITY", "GET_CONNECTOR_STATUS", "NOTIFY2">>
Discover == <<"PPM_RESET", "NOTIFY1", "GET_CAPABILITY",
              "GET_CONNECTOR_CAPABILITY", "GET_CONNECTOR_STATUS",
              "GET_CAM_SUPPORTED", "GET_CURRENT_CAM", "GET_ALTERNATE_MODE",
              "NOTIFY2">>

Running == op \in {"prewarm", "discover"}
Prog == IF op = "prewarm" THEN Prewarm ELSE Discover
Cmd == Prog[step]

-----------------------------------------------------------------------------
(***************************************************************************)
(* Messages to the PPM.                                                    *)
(***************************************************************************)
Fault ==
    /\ faults < MaxFaults
    /\ faults' = faults + 1
    /\ upset' = IF Cmd = "PPM_RESET" \/ late # {} THEN upset \cup {"reset"} ELSE upset

(* qpg_send_ucsi_read: the answer is the CCI, or the late answer to an     *)
(* earlier read, and then this read's own answer is the late one.          *)
Answer(c) ==
    /\ \/ late = {} /\ c = cci /\ late' = {}
       \/ c \in late /\ late' = {cci}
    /\ rd' = c

Read(c) == Answer(c) /\ UNCHANGED faults

(* The read times out; its answer is lost or late.                         *)
ReadFails ==
    /\ Fault /\ late = {}
    /\ late' \in {{}, {cci}}
    /\ UNCHANGED rd

(* qpg_ucsi_send_control: the command is in the control word, in place of  *)
(* one the PPM has not taken yet.  `cur' marks the last command written.   *)
Write(cmd) ==
    /\ control' = {[cmd |-> cmd, cur |-> TRUE]}
    /\ exec' = {[c EXCEPT !.cur = FALSE] : c \in exec}
    /\ IF cmd \in Acks THEN acked' = FALSE /\ UNCHANGED outcome
                       ELSE outcome' = "none" /\ UNCHANGED acked
    /\ UNCHANGED <<cci, mask>>

(* PPM_RESET written again: the one written before counts as well.         *)
Rewrite ==
    /\ control' = {[cmd |-> "PPM_RESET", cur |-> TRUE]}
    /\ UNCHANGED <<exec, outcome, acked, cci, mask>>

(* The PPM's side is left alone but for the answer a read takes along.     *)
NoWrite == UNCHANGED <<control, exec, outcome, acked, cci, mask>>

(* A write that fails has reached the PPM or has not.                      *)
WriteFails(cmd) ==
    /\ Fault
    /\ Write(cmd) \/ NoWrite

Step(at) == Running /\ pc = at
KeepSeq == UNCHANGED <<op, step, ucsi_prewarmed, opens>>

(* The step returns to its sequence, or goes on; ret, polls and old_cci    *)
(* are locals, cleared where they are dead.                                *)
Return(r) == pc' = "next" /\ ret' = r /\ polls' = 0 /\ old_cci' = {}
Goto(l) == pc' = l /\ ret' = "ok" /\ polls' = 0 /\ old_cci' = {}
Again == polls' = polls + 1 /\ UNCHANGED <<pc, ret, old_cci>>

(* A PPM that is not slow is done before the client's last polls, and      *)
(* within the second that a failed transfer takes.                         *)
Waited(long) ==
    upset' = IF long /\ (control # {} \/ exec # {}) THEN upset \cup {"slow"} ELSE upset

Poll(at) == Step(at) /\ Waited(polls + 2 >= MaxPolls)

LastPoll == polls + 1 = MaxPolls

(* A step that writes a command: on success it goes on to l.               *)
Send(at, cmd, l) ==
    /\ Step(at)
    /\ \/ Write(cmd) /\ Goto(l) /\ UNCHANGED <<faults, upset>>
       \/ WriteFails(cmd) /\ Return("err")
    /\ KeepSeq /\ UNCHANGED <<rd, late>>

(* A read that fails ends the step.                                        *)
PollFails(at) ==
    /\ Step(at)
    /\ ReadFails /\ Return("err")
    /\ KeepSeq /\ NoWrite

-----------------------------------------------------------------------------
(***************************************************************************)
(* A command: qpg_send_ucsi_command, qpg_wait_ucsi_cci and                 *)
(* qpg_send_ucsi_ack_cc_ci; qpg_send_ucsi_get_alternate_mode is the same.  *)
(***************************************************************************)
send_command ==
    /\ Step("command")
    /\ \/ /\ Write(Cmd) /\ UNCHANGED <<faults, upset>>
          /\ pc' = "wait" /\ old_cci' = rd /\ UNCHANGED <<ret, polls>>
       \/ WriteFails(Cmd) /\ Return("err")
    /\ KeepSeq /\ UNCHANGED <<rd, late>>

(* Mutant: the CCI is not compared with the one before the command.        *)
Ready_AnyCompletion(c, old) == c \cap {"CC", "ERR", "NS", "RC"} # {}

(* A CCI that answers the command: it has changed and a flag of completion *)
(* is up.                                                                  *)
Ready(c, old) == c # old /\ c \cap {"CC", "ERR", "NS", "RC"} # {}

wait_ucsi_cci ==
    /\ Poll("wait")
    /\ \E c \in {cci} \cup late :
         /\ Read(c)
         /\ \/ Ready(c, old_cci) /\ Goto("ack")
            \/ ~Ready(c, old_cci) /\ ~LastPoll /\ Again
            \/ ~Ready(c, old_cci) /\ LastPoll /\ Return("err")
    /\ KeepSeq /\ NoWrite

send_ack == Send("ack", IF "CHG" \in rd THEN "ACK_CC_CI" ELSE "ACK_CC", "ackwait")

Acknowledged(c) == "ACK" \in c

wait_ack ==
    /\ Poll("ackwait")
    /\ \E c \in {cci} \cup late :
         /\ Read(c)
         /\ \/ Acknowledged(c) /\ Return("ok")
            \/ ~Acknowledged(c) /\ ~LastPoll /\ Again
            \/ ~Acknowledged(c) /\ LastPoll /\ Return("err")
    /\ KeepSeq /\ NoWrite

Command == send_command \/ wait_ucsi_cci \/ send_ack \/ wait_ack
           \/ PollFails("wait") \/ PollFails("ackwait")

-----------------------------------------------------------------------------
(***************************************************************************)
(* qpg_send_ucsi_ppm_reset.                                                *)
(***************************************************************************)
(* RESET_COMPLETE that is up already is cleared first.                     *)
reset_read ==
    /\ Step("reset")
    /\ \E c \in {cci} \cup late :
         /\ Read(c)
         /\ Goto(IF "RC" \in c THEN "clear" ELSE "issue")
    /\ KeepSeq /\ NoWrite /\ UNCHANGED upset

clear_send == Send("clear", "NOTIFY0", "clearwait")

clear_wait ==
    /\ Poll("clearwait")
    /\ \E c \in {cci} \cup late :
         /\ Read(c)
         /\ \/ "CC" \in c /\ Goto("clearack")
            \/ "CC" \notin c /\ ~LastPoll /\ Again
            \/ "CC" \notin c /\ LastPoll /\ Return("err")
    /\ KeepSeq /\ NoWrite

clear_ack == Send("clearack", "ACK_CC", "issue")
reset_issue == Send("issue", "PPM_RESET", "poll")

(* Mutant: a reissue starts the timeout again.                             *)
ReissueGoesOn_Restart == polls' = 0 /\ UNCHANGED <<pc, ret, old_cci>>

(* A poll with other flags up writes PPM_RESET again, on the last poll too. *)
ReissueGoesOn == IF LastPoll THEN Return("err") ELSE Again

reset_poll ==
    /\ Poll("poll")
    /\ \E c \in {cci} \cup late :
         \/ /\ Read(c) /\ NoWrite
            /\ \/ "RC" \in c /\ Return("ok")
               \/ c = {} /\ ~LastPoll /\ Again
               \/ c = {} /\ LastPoll /\ Return("err")
         \/ /\ "RC" \notin c /\ c # {}
            /\ Read(c) /\ Rewrite /\ ReissueGoesOn
    /\ KeepSeq

(* The write of a reissue fails.                                           *)
reissue_fails ==
    /\ Step("poll")
    /\ \E c \in {cci} \cup late : "RC" \notin c /\ c # {} /\ Answer(c)
    /\ Fault
    /\ Rewrite \/ NoWrite
    /\ Return("err")
    /\ KeepSeq

Reset == reset_read \/ clear_send \/ clear_wait \/ clear_ack \/ reset_issue
         \/ reset_poll \/ reissue_fails
         \/ \E at \in {"reset", "clearwait", "poll"} : PollFails(at)

-----------------------------------------------------------------------------
(***************************************************************************)
(* The sequences.                                                          *)
(***************************************************************************)
(* A read for the version; a failure is passed over.                       *)
read_version ==
    /\ Step("version")
    /\ \/ (\E c \in {cci} \cup late : Read(c)) /\ UNCHANGED upset
       \/ ReadFails
    /\ Return("ok")
    /\ KeepSeq /\ NoWrite

Entry(cmd) == CASE cmd = "VERSION" -> "version"
                [] cmd = "PPM_RESET" -> "reset"
                [] OTHER -> "command"

(* Does a sequence end with this step's error?                             *)
Fatal(cmd) == op = "discover" \/ cmd # "PPM_RESET"

SeqGoesOn ==
    /\ Step("next")
    /\ ret = "ok" \/ ~Fatal(Cmd)
    /\ step < Len(Prog)
    /\ step' = step + 1
    /\ pc' = Entry(Prog[step + 1]) /\ ret' = "ok"
    /\ UNCHANGED <<op, polls, old_cci, rd, ucsi_prewarmed, opens, faults, ppm, upset>>

(* Mutant: prewarm does not stop at an error.                              *)
PrewarmDone_Always == op = "prewarm"

PrewarmDone == op = "prewarm" /\ ret = "ok"

SeqEnds ==
    /\ Step("next")
    /\ \/ ret = "ok" /\ step = Len(Prog)
       \/ ret = "err" /\ Fatal(Cmd)
    /\ Waited(ret = "err")
    /\ op' = IF op = "prewarm" THEN "pan" ELSE "ready"
    /\ ucsi_prewarmed' = (ucsi_prewarmed \/ PrewarmDone)
    /\ pc' = "idle" /\ step' = 1 /\ ret' = "ok"
    /\ UNCHANGED <<polls, old_cci, rd, opens, faults, ppm>>

(* qpg_open_session: a fresh open clears the session and starts prewarm.   *)
open_session ==
    /\ op = "closed" /\ opens < MaxOpens
    /\ opens' = opens + 1
    /\ op' = "prewarm" /\ pc' = Entry(Prewarm[1])
    /\ rd' = {} /\ ucsi_prewarmed' = FALSE
    /\ UNCHANGED <<step, ret, polls, old_cci, faults, ppm, upset>>

(* PAN_EN and its wait, in which a late answer is read into the buffer;    *)
(* discover follows a PAN acknowledgement, a failure ends the open.        *)
enable_pan ==
    /\ op = "pan"
    /\ \/ UNCHANGED <<rd, late>>
       \/ rd' \in late /\ late' = {}
    /\ \/ op' = "discover" /\ pc' = Entry(Discover[1])
       \/ op' = "closed" /\ UNCHANGED pc
    /\ UNCHANGED <<step, ret, polls, old_cci, ucsi_prewarmed, opens, faults, upset>>
    /\ NoWrite

ClientNext == Command \/ Reset \/ read_version \/ SeqGoesOn \/ SeqEnds
              \/ open_session \/ enable_pan

-----------------------------------------------------------------------------
(***************************************************************************)
(* The PPM (in the ADSP, external).                                        *)
(***************************************************************************)
(* It takes the command written when it is done with the one before, a     *)
(* reset at any time, and may show that it is busy.                        *)
PpmTakes ==
    /\ control # {}
    /\ exec = {} \/ \E c \in control : c.cmd = "PPM_RESET"
    /\ exec' = control /\ control' = {}
    /\ cci' \in {cci, {"BUSY"}}
    /\ UNCHANGED <<client, mask, late, outcome, acked, upset>>

Finish(c, flags, m, result) ==
    /\ exec = {c} /\ exec' = {}
    /\ cci' = flags /\ mask' = m
    /\ outcome' = IF c.cur /\ c.cmd \notin Acks THEN result ELSE outcome
    /\ acked' = (acked \/ (c.cur /\ c.cmd \in Acks))
    /\ UNCHANGED <<client, control, late>>

MaskAfter(cmd) == CASE cmd \in {"PPM_RESET", "NOTIFY0"} -> "none"
                    [] cmd = "NOTIFY1" -> "some"
                    [] cmd = "NOTIFY2" -> "all"
                    [] OTHER -> mask

(* It completes the command.                                               *)
PpmCompletes ==
    \E c \in exec :
      LET chg == IF c.cmd \in {"PPM_RESET", "ACK_CC_CI"} THEN {} ELSE cci \cap {"CHG"}
          flag == CASE c.cmd = "PPM_RESET" -> "RC"
                    [] c.cmd \in Acks -> "ACK"
                    [] OTHER -> "CC"
      IN Finish(c, chg \cup {flag}, MaskAfter(c.cmd), "done") /\ UNCHANGED upset

(* It refuses a command: the error is reported, nothing is changed.        *)
PpmFails ==
    /\ \E c \in exec, flags \in {{"CC", "ERR"}, {"NS"}} :
         /\ c.cmd \notin Acks \cup {"PPM_RESET"}
         /\ Finish(c, flags, mask, "refused")
    /\ upset' = upset \cup {"refused"}

(* A connector changes; reported when notifications are enabled.           *)
ConnectorChange ==
    /\ mask = "all"
    /\ cci' = cci \cup {"CHG"}
    /\ UNCHANGED <<client, control, exec, mask, late, outcome, acked, upset>>

PpmNext == PpmTakes \/ PpmCompletes \/ PpmFails \/ ConnectorChange

(* The PPM may hold a completion that an earlier stage left behind.        *)
Init ==
    /\ op = "closed" /\ step = 1 /\ pc = "idle" /\ ret = "ok" /\ polls = 0
    /\ old_cci = {} /\ rd = {} /\ ucsi_prewarmed = FALSE
    /\ opens = 0 /\ faults = 0
    /\ cci \in {{}, {"RC"}, {"CC"}, {"ACK"}}
    /\ control = {} /\ exec = {} /\ mask = "none" /\ late = {}
    /\ outcome = "none" /\ acked = FALSE /\ upset = {}

Next == ClientNext \/ PpmNext

Spec == Init /\ [][Next]_vars

(* The boot loader runs on; the PPM need not answer.                       *)
FairSpec == Spec /\ WF_vars(ClientNext)

-----------------------------------------------------------------------------
Controls == {"NOTIFY0"} \cup Acks \cup {Discover[i] : i \in DOMAIN Discover}
Written == [cmd : Controls, cur : BOOLEAN]

(* The state is well formed; a wait never polls more often than its        *)
(* timeout allows (qpg_wait_ucsi_cci, qpg_send_ucsi_ppm_reset).            *)
TypeOK ==
    /\ op \in {"closed", "prewarm", "pan", "discover", "ready"}
    /\ step \in DOMAIN Discover
    /\ pc \in {"idle", "next", "version", "command", "wait", "ack", "ackwait",
               "reset", "clear", "clearwait", "clearack", "issue", "poll"}
    /\ ret \in {"ok", "err"}
    /\ polls \in 0 .. MaxPolls - 1
    /\ old_cci \subseteq Flags /\ rd \subseteq Flags /\ cci \subseteq Flags
    /\ ucsi_prewarmed \in BOOLEAN /\ acked \in BOOLEAN
    /\ opens \in 0 .. MaxOpens /\ faults \in 0 .. MaxFaults
    /\ control \subseteq Written /\ exec \subseteq Written
    /\ mask \in {"none", "some", "all"}
    /\ late \subseteq SUBSET Flags
    /\ outcome \in {"none", "done", "refused"} /\ upset \subseteq Upsets

(* A command or a PPM_RESET that returned 0 has been executed by the PPM:  *)
(* the completion the client took for its own was not left over from an    *)
(* earlier command, an earlier session or a late answer.  A command was    *)
(* acknowledged to the PPM too, which waits for that before it takes the   *)
(* next one.  Neither holds once the client gave up a PPM_RESET half way   *)
(* or any command while the answers lag behind the reads, or a PPM that    *)
(* was slow answers a command given up for another.                        *)
Calm == upset \cap {"reset", "slow"} = {}

CompletionIsOurs ==
    Calm /\ pc = "next" /\ ret = "ok" /\ Cmd # "VERSION" =>
        /\ outcome # "none"
        /\ Cmd # "PPM_RESET" => acked

(* ucsi_prewarmed says that the PPM has its notifications enabled, as long *)
(* as discover has not reset it and no command was refused.                *)
PrewarmedMeansEnabled ==
    upset = {} /\ op = "pan" /\ ucsi_prewarmed => mask = "all"

(* Each sequence ends, whatever the PPM does and whichever reads fail.     *)
Returns == Running ~> op \in {"pan", "ready"}

-----------------------------------------------------------------------------
(***************************************************************************)
(* The inductive invariant behind both.  Reads are what the next two reads *)
(* may answer.                                                             *)
(***************************************************************************)
Reads == {cci} \cup late
PpmIdle == control = {} /\ exec = {}
Only(cmds) == \A c \in control \cup exec : c.cmd \in cmds
Commands == {Discover[i] : i \in DOMAIN Discover} \ {"PPM_RESET"}
Completions == {{"CC"}, {"CC", "ERR"}, {"NS"}}

(* The places of the sequences and the steps fit together.                 *)
PlaceInv ==
    /\ ~Running => pc = "idle" /\ step = 1 /\ ret = "ok"
    /\ Running => pc # "idle" /\ step \in DOMAIN Prog
    /\ pc = "version" => op = "prewarm" /\ step = 1
    /\ pc \in {"reset", "clear", "clearwait", "clearack", "issue", "poll"} => Cmd = "PPM_RESET"
    /\ pc \in {"command", "wait", "ack", "ackwait"} => Cmd \in Commands
    /\ \A c, d \in control : c = d
    /\ \A c, d \in exec : c = d

(* RESET_COMPLETE stands alone.                                            *)
CciInv == "RC" \in cci => cci = {"RC"} /\ mask = "none"

(* No PPM_RESET is going to have the last word.                            *)
NoReset ==
    /\ \A c \in control : c.cmd # "PPM_RESET"
    /\ control = {} => \A c \in exec : c.cmd # "PPM_RESET"
    /\ PpmIdle => "RC" \notin cci

(* Between two sequences the PPM has nothing to do.                        *)
RestInv ==
    /\ \/ op \in {"closed", "pan"} \/ pc \in {"version", "reset"}
       \/ pc = "next" /\ Cmd = "VERSION"
       => PpmIdle /\ ("RC" \in cci => late \subseteq {{"RC"}})
    /\ op = "prewarm" /\ (pc = "reset" \/ (pc = "next" /\ Cmd = "VERSION"))
       => \A x \in late : "RC" \in x => "RC" \in cci
    /\ pc = "next" /\ ret = "err" /\ Cmd # "PPM_RESET" /\ late # {} => NoReset

(* RESET_COMPLETE is cleared.                                              *)
ClearInv ==
    /\ pc = "clear" => PpmIdle /\ ("RC" \in cci => late \subseteq {{"RC"}})
    /\ op = "prewarm" /\ pc = "clear" => cci = {"RC"} /\ late \subseteq {{"RC"}}
    /\ pc = "clearwait" => /\ Only({"NOTIFY0"})
                           /\ "RC" \in cci => \A x \in late : "CC" \notin x
    /\ op = "prewarm" /\ pc = "clearwait" =>
          /\ mask = "none"
          /\ cci \in Completions \cup {{"RC"}, {"BUSY"}}
          /\ PpmIdle => cci \in Completions
          /\ polls = MaxPolls - 1 => /\ PpmIdle /\ late \subseteq {cci}
                                     /\ late = {} => "CC" \notin cci
    /\ pc \in {"clearack", "issue"} => /\ Only({"NOTIFY0", "ACK_CC"})
                                       /\ \A x \in Reads : "RC" \notin x

(* RESET_COMPLETE means that the reset was carried out since it was issued. *)
ResetInv ==
    pc = "poll" =>
        /\ outcome \in {"none", "done"}
        /\ \A c \in control : c.cmd = "PPM_RESET" /\ c.cur
        /\ \A x \in Reads : "RC" \in x => outcome = "done" /\ x = {"RC"}
        /\ \A c \in exec : \/ c.cmd = "PPM_RESET" /\ c.cur
                           \/ /\ c.cmd # "PPM_RESET" /\ ~c.cur
                              /\ outcome = "none" /\ control # {}
        /\ outcome = "none" => ~PpmIdle
        /\ outcome = "done" => /\ mask = "none"
                               /\ cci = {"RC"} \/ (cci = {"BUSY"} /\ exec # {})
        /\ polls = MaxPolls - 1 => late = {{"RC"}} /\ outcome = "done"

(* Before a command: the last CCI read is the PPM's, which may be busy     *)
(* with a PPM_RESET that was written again.                                *)
Before == \/ pc = "command"
          \/ pc = "next" /\ ret = "ok" /\ Cmd \notin {"VERSION", "NOTIFY2"}
          \/ pc = "next" /\ ret = "err" /\ Cmd = "PPM_RESET" /\ op = "prewarm"

BeforeInv ==
    Before => /\ rd \in {{"RC"}, {"NS"}, {"ACK"}}
              /\ \A x \in Reads : x \in {rd, {"BUSY"}}
              /\ Only({"PPM_RESET"}) /\ (~PpmIdle => rd = {"RC"})
              /\ mask # "all"

(* Notifications are enabled by the last command, NOTIFY2.                 *)
MaskInv ==
    pc \in {"wait", "ack", "ackwait"} \/ (pc = "next" /\ ret = "ok" /\ Cmd = "NOTIFY2") =>
        /\ "CHG" \in cci => mask = "all"
        /\ mask = "all" => Cmd = "NOTIFY2" /\ outcome # "none"
        /\ Cmd = "NOTIFY2" /\ outcome = "done" => mask = "all"

(* A changed CCI with a completion is the command's own.                   *)
WaitInv ==
    pc = "wait" =>
        /\ old_cci \in {{"RC"}, {"NS"}, {"ACK"}}
        /\ outcome = "none" =>
              /\ \A x \in Reads : x \in {old_cci, {"BUSY"}}
              /\ \/ /\ control = {[cmd |-> Cmd, cur |-> TRUE]}
                    /\ \A c \in exec : c.cmd = "PPM_RESET" /\ ~c.cur
                    /\ exec # {} => old_cci = {"RC"}
                 \/ control = {} /\ exec = {[cmd |-> Cmd, cur |-> TRUE]}
        /\ outcome # "none" => PpmIdle /\ cci \ {"CHG"} \in Completions

(* Its acknowledgement is on the way, or the PPM has seen it.              *)
AckInv ==
    /\ pc = "ack" => outcome # "none" /\ PpmIdle /\ \A x \in Reads : x \ {"CHG"} \in Completions
    /\ pc = "ackwait" =>
          /\ outcome # "none"
          /\ ~acked => /\ cci \ {"CHG"} \in Completions \cup {{"BUSY"}}
                       /\ \A x \in late : "ACK" \notin x
                       /\ ~PpmIdle /\ (control = {} \/ exec = {})
                       /\ \A c \in control \cup exec : c.cmd \in Acks /\ c.cur
          /\ acked => PpmIdle /\ cci \ {"CHG"} = {"ACK"}
          /\ \A x \in late : "ACK" \in x => x = {"ACK"} \/ mask = "all"

(* What a step that returned 0 leaves behind.                              *)
OkInv ==
    pc = "next" /\ ret = "ok" /\ Cmd # "VERSION" =>
        /\ outcome # "none"
        /\ Cmd # "PPM_RESET" => acked /\ PpmIdle /\ "ACK" \in cci

PrewarmInv ==
    /\ "refused" \notin upset => outcome # "refused"
    /\ op = "prewarm" => ~ucsi_prewarmed
    /\ upset = {} /\ op = "pan" /\ ucsi_prewarmed => mask = "all"

UcsiInv ==
    /\ TypeOK /\ PlaceInv /\ CciInv /\ PrewarmInv
    /\ Calm => RestInv /\ ClearInv /\ ResetInv /\ BeforeInv /\ MaskInv /\ WaitInv /\ AckInv /\ OkInv
=============================================================================
