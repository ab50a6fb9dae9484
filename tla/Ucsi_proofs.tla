---------------------------- MODULE Ucsi_proofs ----------------------------
(***************************************************************************)
(* Proofs about the UCSI client, for any number of polls, attempts and     *)
(* failed transfers.                                                       *)
(***************************************************************************)
EXTENDS Ucsi, SequenceTheorems, TLAPS

USE UcsiAssumption

-----------------------------------------------------------------------------
(* The sequences. *)

LEMMA Sequences ==
  /\ DOMAIN Prewarm = 1 .. 7 /\ Len(Prewarm) = 7
  /\ DOMAIN Discover = 1 .. 9 /\ Len(Discover) = 9
  /\ Prewarm[1] = "VERSION" /\ Prewarm[2] = "PPM_RESET" /\ Prewarm[3] = "NOTIFY1"
  /\ Prewarm[4] = "GET_CAPABILITY" /\ Prewarm[5] = "GET_CONNECTOR_CAPABILITY"
  /\ Prewarm[6] = "GET_CONNECTOR_STATUS" /\ Prewarm[7] = "NOTIFY2"
  /\ Discover[1] = "PPM_RESET" /\ Discover[2] = "NOTIFY1" /\ Discover[3] = "GET_CAPABILITY"
  /\ Discover[4] = "GET_CONNECTOR_CAPABILITY" /\ Discover[5] = "GET_CONNECTOR_STATUS"
  /\ Discover[6] = "GET_CAM_SUPPORTED" /\ Discover[7] = "GET_CURRENT_CAM"
  /\ Discover[8] = "GET_ALTERNATE_MODE" /\ Discover[9] = "NOTIFY2"
  BY DEF Prewarm, Discover

LEMMA CommandSet ==
  /\ Commands = {"NOTIFY1", "GET_CAPABILITY", "GET_CONNECTOR_CAPABILITY",
                 "GET_CONNECTOR_STATUS", "GET_CAM_SUPPORTED", "GET_CURRENT_CAM",
                 "GET_ALTERNATE_MODE", "NOTIFY2"}
  /\ Controls = Commands \cup {"PPM_RESET", "NOTIFY0"} \cup Acks
  <1>1. {Discover[i] : i \in DOMAIN Discover} =
          {"PPM_RESET", "NOTIFY1", "GET_CAPABILITY", "GET_CONNECTOR_CAPABILITY",
           "GET_CONNECTOR_STATUS", "GET_CAM_SUPPORTED", "GET_CURRENT_CAM",
           "GET_ALTERNATE_MODE", "NOTIFY2"}
    <2>1. \A i \in 1 .. 9 : i \in {1, 2, 3, 4, 5, 6, 7, 8, 9}
      OBVIOUS
    <2>2. {1, 2, 3, 4, 5, 6, 7, 8, 9} \subseteq 1 .. 9
      OBVIOUS
    <2>3. DOMAIN Discover = {1, 2, 3, 4, 5, 6, 7, 8, 9}
      BY <2>1, <2>2, Sequences
    <2> QED
      BY <2>3, Sequences
  <1> QED
    BY <1>1 DEF Commands, Controls, Acks

(* The command of a step and the one after it. *)
LEMMA Places ==
  ASSUME op \in {"prewarm", "discover"}, step \in DOMAIN Prog
  PROVE  /\ Cmd \in Commands \cup {"VERSION", "PPM_RESET"}
         /\ (Cmd = "VERSION") <=> (op = "prewarm" /\ step = 1)
         /\ step \in DOMAIN Discover /\ step + 1 \in Nat
         /\ step = Len(Prog) => Cmd = "NOTIFY2"
         /\ step < Len(Prog) =>
              /\ step + 1 \in DOMAIN Prog /\ step + 1 \in DOMAIN Discover
              /\ Cmd # "NOTIFY2"
              /\ Cmd = "VERSION" => Prog[step + 1] = "PPM_RESET"
              /\ Cmd # "VERSION" => Prog[step + 1] \in Commands
  <1>1. CASE op = "prewarm"
    <2>1. Prog = Prewarm /\ step \in 1 .. 7 /\ Cmd = Prewarm[step]
      BY <1>1, Sequences DEF Prog, Cmd
    <2>2. step \in {1, 2, 3, 4, 5, 6, 7}
      BY <2>1
    <2> QED
      BY <1>1, <2>1, <2>2, Sequences, CommandSet
  <1>2. CASE op = "discover"
    <2>1. Prog = Discover /\ step \in 1 .. 9 /\ Cmd = Discover[step]
      BY <1>2, Sequences DEF Prog, Cmd
    <2>2. step \in {1, 2, 3, 4, 5, 6, 7, 8, 9}
      BY <2>1
    <2> QED
      BY <1>2, <2>1, <2>2, Sequences, CommandSet
  <1> QED
    BY <1>1, <1>2

-----------------------------------------------------------------------------
(* The parts of the invariant that hold whatever went wrong. *)
Base == TypeOK /\ PlaceInv /\ CciInv /\ PrewarmInv

Local == {"reset", "clear", "clearwait", "clearack", "issue", "poll"}
Remote == {"command", "wait", "ack", "ackwait"}

LEMMA InitUcsiInv == Init => UcsiInv
  <1> SUFFICES ASSUME Init PROVE UcsiInv
    OBVIOUS
  <1>1. 0 \in 0 .. MaxPolls - 1 /\ 0 \in 0 .. MaxOpens /\ 0 \in 0 .. MaxFaults
    OBVIOUS
  <1>2. TypeOK
    <2>1. 1 \in DOMAIN Discover
      BY Sequences
    <2>2. cci \subseteq Flags
      BY DEF Init, Flags
    <2> QED
      BY <1>1, <2>1, <2>2 DEF Init, TypeOK
  <1>3. PlaceInv /\ CciInv /\ PrewarmInv
    BY DEF Init, PlaceInv, CciInv, PrewarmInv, Running
  <1>4. op = "closed" /\ pc = "idle" /\ control = {} /\ exec = {} /\ late = {}
    BY DEF Init
  <1>5. RestInv /\ ClearInv /\ ResetInv
    BY <1>4 DEF RestInv, ClearInv, ResetInv, PpmIdle
  <1>6. BeforeInv /\ MaskInv /\ WaitInv /\ AckInv /\ OkInv
    BY <1>4 DEF BeforeInv, Before, MaskInv, WaitInv, AckInv, OkInv
  <1> QED
    BY <1>2, <1>3, <1>5, <1>6 DEF UcsiInv

(* A read. *)
LEMMA Answers ==
  ASSUME TypeOK, NEW c \in {cci} \cup late, Answer(c)
  PROVE  /\ rd' = c /\ c \subseteq Flags /\ late' \subseteq SUBSET Flags /\ late' \subseteq {cci}
         /\ late = {} => c = cci /\ late' = {}
         /\ late # {} => c \in late /\ late' = {cci}
  BY DEF Answer, TypeOK

(* A command is written. *)
LEMMA Writes ==
  ASSUME TypeOK, NEW cmd \in Controls, Write(cmd)
  PROVE  /\ control' = {[cmd |-> cmd, cur |-> TRUE]}
         /\ exec' = {[c EXCEPT !.cur = FALSE] : c \in exec}
         /\ control' \subseteq Written /\ exec' \subseteq Written
         /\ \A c, d \in control' : c = d
         /\ (\A c, d \in exec : c = d) => \A c, d \in exec' : c = d
         /\ \A d \in exec' : ~d.cur /\ \E c \in exec : c.cmd = d.cmd
         /\ outcome' \in {outcome, "none"} /\ acked' \in BOOLEAN
         /\ UNCHANGED <<cci, mask>>
  <1>1. /\ control' = {[cmd |-> cmd, cur |-> TRUE]}
        /\ exec' = {[c EXCEPT !.cur = FALSE] : c \in exec}
        /\ outcome' \in {outcome, "none"} /\ acked' \in BOOLEAN
        /\ UNCHANGED <<cci, mask>>
    BY DEF Write, TypeOK
  <1>2. [cmd |-> cmd, cur |-> TRUE] \in Written
    BY DEF Written
  <1>3. ASSUME NEW c \in exec
        PROVE  /\ [c EXCEPT !.cur = FALSE] \in Written /\ ~[c EXCEPT !.cur = FALSE].cur
               /\ [c EXCEPT !.cur = FALSE].cmd = c.cmd
    BY DEF TypeOK, Written
  <1> QED
    BY <1>1, <1>2, <1>3

(* What a step of the client leaves in order. *)
LEMMA ClientBase ==
  ASSUME Base, Running, KeepSeq, UNCHANGED <<cci, mask>>,
         pc' \in {"next"} \cup Local \cup Remote, ret' \in {"ok", "err"},
         polls' \in 0 .. MaxPolls - 1,
         old_cci' \subseteq Flags, rd' \subseteq Flags, late' \subseteq SUBSET Flags,
         faults' \in 0 .. MaxFaults, upset \subseteq upset', upset' \subseteq Upsets,
         pc' \in Local => Cmd = "PPM_RESET", pc' \in Remote => Cmd \in Commands,
         control' \subseteq Written, exec' \subseteq Written,
         \A c, d \in control' : c = d, \A c, d \in exec' : c = d,
         outcome' \in {outcome, "none"}, acked' \in BOOLEAN
  PROVE  Base' /\ Running' /\ Cmd' = Cmd /\ op' = op
  <1>0. op' = op /\ step' = step /\ ucsi_prewarmed' = ucsi_prewarmed /\ opens' = opens
    BY DEF KeepSeq
  <1>1. Prog' = Prog /\ Cmd' = Cmd /\ Running'
    BY <1>0 DEF Prog, Cmd, Running
  <1>2. TypeOK'
    BY <1>0 DEF Base, TypeOK, Local, Remote
  <1>3. PlaceInv'
    BY <1>0, <1>1 DEF Base, PlaceInv, Running, Local, Remote
  <1>4. CciInv'
    BY DEF Base, CciInv
  <1>5. PrewarmInv'
    BY <1>0 DEF Base, PrewarmInv, TypeOK, Running
  <1> QED
    BY <1>0, <1>1, <1>2, <1>3, <1>4, <1>5 DEF Base

(* What has to be shown at each place of a step. *)
LEMMA Arrives ==
  ASSUME Base', Running'
  PROVE  /\ pc' = "clear" /\ (Calm' => ClearInv') => UcsiInv'
         /\ pc' = "clearwait" /\ (Calm' => ClearInv') => UcsiInv'
         /\ pc' \in {"clearack", "issue"} /\ (Calm' => ClearInv') => UcsiInv'
         /\ pc' = "poll" /\ (Calm' => ResetInv') => UcsiInv'
         /\ pc' = "command" /\ (Calm' => BeforeInv') => UcsiInv'
         /\ pc' = "wait" /\ (Calm' => MaskInv' /\ WaitInv') => UcsiInv'
         /\ pc' \in {"ack", "ackwait"} /\ (Calm' => MaskInv' /\ AckInv') => UcsiInv'
         /\ pc' = "next" /\ (Calm' => RestInv' /\ BeforeInv' /\ MaskInv' /\ OkInv') => UcsiInv'
         /\ pc' \in {"version", "reset"} /\ (Calm' => RestInv') => UcsiInv'
  <1>1. pc' # "poll" => ResetInv'
    BY DEF ResetInv
  <1>2. pc' \notin {"clear", "clearwait", "clearack", "issue"} => ClearInv'
    BY DEF ClearInv
  <1>3. pc' \notin {"command", "next"} => BeforeInv'
    BY DEF BeforeInv, Before
  <1>4. pc' \notin {"wait", "ack", "ackwait", "next"} => MaskInv'
    BY DEF MaskInv
  <1>5. pc' # "wait" => WaitInv'
    BY DEF WaitInv
  <1>6. pc' \notin {"ack", "ackwait"} => AckInv'
    BY DEF AckInv
  <1>7. pc' # "next" => OkInv'
    BY DEF OkInv
  <1>8. pc' \notin {"version", "reset", "next"} => RestInv'
    BY DEF RestInv, Running
  <1> QED
    BY <1>1, <1>2, <1>3, <1>4, <1>5, <1>6, <1>7, <1>8 DEF UcsiInv, Base

LEMMA Faults ==
  ASSUME TypeOK, Fault
  PROVE  /\ faults' \in 0 .. MaxFaults /\ upset \subseteq upset' /\ upset' \subseteq Upsets
         /\ Calm' => Calm /\ Cmd # "PPM_RESET" /\ late = {}
  <1>1. faults \in 0 .. MaxFaults /\ faults < MaxFaults /\ faults' = faults + 1
        /\ upset \subseteq Upsets
    BY DEF Fault, TypeOK
  <1>2. upset' = IF Cmd = "PPM_RESET" \/ late # {} THEN upset \cup {"reset"} ELSE upset
    BY DEF Fault
  <1>3. "reset" \in Upsets
    BY DEF Upsets
  <1>4. faults' \in 0 .. MaxFaults
    BY <1>1
  <1> QED
    BY <1>1, <1>2, <1>3, <1>4 DEF Calm

LEMMA Waits ==
  ASSUME TypeOK, NEW long \in BOOLEAN, Waited(long)
  PROVE  /\ upset \subseteq upset' /\ upset' \subseteq Upsets
         /\ Calm' => Calm /\ (long => PpmIdle)
  BY DEF Waited, TypeOK, Calm, Upsets, PpmIdle

LEMMA Polls ==
  ASSUME TypeOK, NEW at, Poll(at)
  PROVE  /\ Running /\ pc = at
         /\ upset \subseteq upset' /\ upset' \subseteq Upsets
         /\ Calm' => Calm /\ (polls + 2 >= MaxPolls => PpmIdle)
  <1>1. (polls + 2 >= MaxPolls) \in BOOLEAN
    OBVIOUS
  <1> QED
    BY <1>1, Waits DEF Poll, Step

LEMMA SameUpset ==
  ASSUME TypeOK, UNCHANGED upset
  PROVE  upset \subseteq upset' /\ upset' \subseteq Upsets /\ (Calm' => Calm)
  BY DEF TypeOK, Calm

(* The three ways in which a step of the client leaves the PPM's side. *)
Wrote == NoWrite \/ Rewrite \/ \E cmd \in Controls : Write(cmd)

LEMMA Wrotes ==
  ASSUME Base, Wrote
  PROVE  /\ control' \subseteq Written /\ exec' \subseteq Written
         /\ \A c, d \in control' : c = d
         /\ \A c, d \in exec' : c = d
         /\ outcome' \in {outcome, "none"} /\ acked' \in BOOLEAN
         /\ UNCHANGED <<cci, mask>>
  <1>0. TypeOK /\ (\A c, d \in control : c = d) /\ (\A c, d \in exec : c = d)
    BY DEF Base, PlaceInv
  <1>1. CASE NoWrite
    BY <1>0, <1>1 DEF NoWrite, TypeOK
  <1>2. CASE Rewrite
    <2>1. [cmd |-> "PPM_RESET", cur |-> TRUE] \in Written
      BY CommandSet DEF Written
    <2> QED
      BY <1>0, <1>2, <2>1 DEF Rewrite, TypeOK
  <1>3. CASE \E cmd \in Controls : Write(cmd)
    BY <1>0, <1>3, Writes
  <1> QED
    BY <1>1, <1>2, <1>3 DEF Wrote

(* A step of the client from one place to another. *)
LEMMA Moves ==
  ASSUME UcsiInv, Running, KeepSeq, Wrote,
         pc' \in {"next"} \cup Local \cup Remote, ret' \in {"ok", "err"},
         polls' \in 0 .. MaxPolls - 1,
         old_cci' \subseteq Flags, rd' \subseteq Flags, late' \subseteq SUBSET Flags,
         faults' \in 0 .. MaxFaults, upset \subseteq upset', upset' \subseteq Upsets,
         pc' \in Local => Cmd = "PPM_RESET", pc' \in Remote => Cmd \in Commands
  PROVE  Base' /\ Running' /\ Cmd' = Cmd /\ op' = op /\ UNCHANGED <<cci, mask>>
  <1>1. Base
    BY DEF UcsiInv, Base
  <1> QED
    BY <1>1, Wrotes, ClientBase

LEMMA Gone ==
  ASSUME NEW r \in {"ok", "err"}, Return(r)
  PROVE  /\ pc' = "next" /\ ret' = r /\ polls' = 0 /\ old_cci' = {}
         /\ polls' \in 0 .. MaxPolls - 1 /\ old_cci' \subseteq Flags
  BY DEF Return

LEMMA Went ==
  ASSUME NEW l, Goto(l)
  PROVE  /\ pc' = l /\ ret' = "ok" /\ polls' = 0 /\ old_cci' = {}
         /\ polls' \in 0 .. MaxPolls - 1 /\ old_cci' \subseteq Flags
  BY DEF Goto

LEMMA Agains ==
  ASSUME TypeOK, Again, ~LastPoll
  PROVE  /\ UNCHANGED <<pc, ret, old_cci>> /\ polls' = polls + 1
         /\ polls' \in 0 .. MaxPolls - 1 /\ old_cci' \subseteq Flags
         /\ polls' = MaxPolls - 1 => polls + 2 >= MaxPolls
  <1>1. polls \in 0 .. MaxPolls - 1 /\ polls' = polls + 1 /\ polls + 1 # MaxPolls
    BY DEF Again, LastPoll, TypeOK
  <1>2. polls' \in 0 .. MaxPolls - 1
    BY <1>1
  <1> QED
    BY <1>1, <1>2 DEF Again, TypeOK

(* A transfer fails and ends its step. *)
LEMMA GivesUp ==
  ASSUME UcsiInv, Running, KeepSeq, Return("err"), Fault, Wrote,
         pc \in Local \cup Remote, rd' \subseteq Flags, late' \subseteq SUBSET Flags,
         Calm /\ Cmd # "PPM_RESET" /\ late = {} /\ late' # {} => NoReset'
  PROVE  UcsiInv'
  <1>0. TypeOK /\ PlaceInv
    BY DEF UcsiInv
  <1>1. pc' = "next" /\ ret' = "err"
    BY Gone
  <1>2. Base' /\ Running' /\ Cmd' = Cmd /\ op' = op
    <2>1. pc' \notin Local /\ pc' \notin Remote
      BY <1>1 DEF Local, Remote
    <2> QED
      BY <1>0, <1>1, <2>1, Gone, Faults, Moves
  <1>3. Cmd # "VERSION"
    BY <1>0, CommandSet DEF PlaceInv, Local, Remote
  <1>4. ASSUME Calm' PROVE RestInv' /\ BeforeInv' /\ MaskInv' /\ OkInv'
    <2>1. Calm /\ Cmd # "PPM_RESET" /\ late = {}
      BY <1>0, <1>4, Faults
    <2>2. RestInv'
      BY <1>1, <1>2, <1>3, <2>1 DEF RestInv, Running
    <2> QED
      BY <1>1, <1>2, <2>1, <2>2 DEF BeforeInv, Before, MaskInv, OkInv
  <1> QED
    BY <1>1, <1>2, <1>4, Arrives

-----------------------------------------------------------------------------
(* A command. *)
LEMMA SendCommandInv == UcsiInv /\ send_command => UcsiInv'
  <1> SUFFICES ASSUME UcsiInv, send_command PROVE UcsiInv'
    OBVIOUS
  <1>0. /\ Running /\ pc = "command" /\ KeepSeq /\ UNCHANGED <<rd, late>>
        /\ TypeOK /\ PlaceInv
    BY DEF send_command, Step, UcsiInv
  <1>1. Cmd \in Commands /\ Cmd \in Controls /\ Cmd \notin Acks
    BY <1>0, CommandSet DEF PlaceInv, Acks
  <1>2. rd' \subseteq Flags /\ late' \subseteq SUBSET Flags
    BY <1>0 DEF TypeOK
  <1>3. CASE /\ Write(Cmd) /\ UNCHANGED <<faults, upset>>
             /\ pc' = "wait" /\ old_cci' = rd /\ UNCHANGED <<ret, polls>>
    <2>1. Wrote
      BY <1>1, <1>3 DEF Wrote
    <2>2. Base' /\ Running' /\ Cmd' = Cmd /\ op' = op /\ UNCHANGED <<cci, mask>>
      <3>1. pc' \notin Local /\ pc' \in Remote
        BY <1>3 DEF Local, Remote
      <3>2. upset \subseteq upset' /\ upset' \subseteq Upsets
        BY <1>0, <1>3 DEF TypeOK
      <3>3. ret' \in {"ok", "err"} /\ polls' \in 0 .. MaxPolls - 1 /\ faults' \in 0 .. MaxFaults
            /\ old_cci' \subseteq Flags
        BY <1>0, <1>3 DEF TypeOK
      <3> QED
        BY <1>0, <1>1, <1>2, <2>1, <3>1, <3>2, <3>3, Moves
    <2>3. ASSUME Calm' PROVE MaskInv' /\ WaitInv'
      <3>1. BeforeInv
        BY <1>3, <2>3 DEF UcsiInv, Calm
      <3>2. /\ rd \in {{"RC"}, {"NS"}, {"ACK"}}
            /\ \A x \in Reads : x \in {rd, {"BUSY"}}
            /\ \A c \in control \cup exec : c.cmd = "PPM_RESET"
            /\ control \cup exec # {} => rd = {"RC"}
            /\ mask # "all"
        BY <1>0, <3>1 DEF BeforeInv, Before, Only, PpmIdle
      <3>3. outcome' = "none" /\ control' = {[cmd |-> Cmd, cur |-> TRUE]}
            /\ exec' = {[c EXCEPT !.cur = FALSE] : c \in exec}
        BY <1>1, <1>3 DEF Write
      <3>5. \A c \in exec' : c.cmd = "PPM_RESET" /\ ~c.cur
        BY <1>0, <1>1, <1>3, <3>2, Writes
      <3>6. exec' # {} => old_cci' = {"RC"}
        BY <1>3, <3>2, <3>3
      <3>7. "CHG" \notin cci
        BY <3>2 DEF Reads
      <3>8. MaskInv'
        BY <2>2, <3>2, <3>3, <3>7 DEF MaskInv
      <3>9. \A x \in Reads' : x \in {old_cci', {"BUSY"}}
        BY <1>0, <1>3, <2>2, <3>2 DEF Reads
      <3> QED
        BY <1>3, <2>2, <3>2, <3>3, <3>5, <3>6, <3>8, <3>9 DEF WaitInv
    <2> QED
      BY <1>3, <2>2, <2>3, Arrives
  <1>4. CASE WriteFails(Cmd) /\ Return("err")
    <2>1. Fault /\ Wrote
      BY <1>1, <1>4 DEF WriteFails, Wrote
    <2>2. pc \in Local \cup Remote /\ late' = late
      BY <1>0 DEF Remote
    <2> QED
      BY <1>0, <1>2, <1>4, <2>1, <2>2, GivesUp
  <1> QED
    BY <1>3, <1>4 DEF send_command

(* A wait for a command knows that no PPM_RESET comes after it. *)
LEMMA WaitsForOurs ==
  ASSUME UcsiInv, Running, Calm, pc \in {"wait", "ack", "ackwait"}
  PROVE  NoReset
  <1>0. PlaceInv /\ WaitInv /\ AckInv /\ Cmd \in Commands /\ "PPM_RESET" \notin Commands
        /\ "PPM_RESET" \notin Acks
    BY CommandSet DEF UcsiInv, PlaceInv, Acks
  <1>1. \A x : x \ {"CHG"} \in Completions \cup {{"BUSY"}, {"ACK"}} => "RC" \notin x
    <2> SUFFICES ASSUME NEW x, "RC" \in x, x \ {"CHG"} \in Completions \cup {{"BUSY"}, {"ACK"}}
                 PROVE  FALSE
      OBVIOUS
    <2>1. "RC" \in x \ {"CHG"}
      OBVIOUS
    <2> QED
      BY <2>1 DEF Completions
  <1>2. CASE pc = "wait"
    <2>1. CASE outcome = "none"
      <3> DEFINE w == [cmd |-> Cmd, cur |-> TRUE]
      <3>1. w.cmd # "PPM_RESET"
        BY <1>0
      <3>2. control = {w} \/ (control = {} /\ exec = {w})
        BY <1>0, <1>2, <2>1 DEF WaitInv
      <3> HIDE DEF w
      <3> QED
        BY <3>1, <3>2 DEF NoReset, PpmIdle
    <2>2. CASE outcome # "none"
      BY <1>0, <1>1, <1>2, <2>2 DEF WaitInv, NoReset, PpmIdle
    <2> QED
      BY <2>1, <2>2
  <1>3. CASE pc = "ack"
    BY <1>0, <1>1, <1>3 DEF AckInv, NoReset, PpmIdle, Reads
  <1>4. CASE pc = "ackwait"
    <2>1. CASE acked
      <3>1. PpmIdle /\ cci \ {"CHG"} = {"ACK"}
        BY <1>0, <1>4, <2>1 DEF AckInv
      <3> QED
        BY <1>1, <3>1 DEF NoReset, PpmIdle
    <2>2. CASE ~acked
      <3>1. ~PpmIdle /\ \A c \in control \cup exec : c.cmd \in Acks
        BY <1>0, <1>4, <2>2 DEF AckInv
      <3> QED
        BY <1>0, <3>1 DEF NoReset, PpmIdle
    <2> QED
      BY <2>1, <2>2
  <1> QED
    BY <1>2, <1>3, <1>4

(* A read of a step fails. *)
LEMMA PollFailsInv ==
  ASSUME UcsiInv, NEW at \in {"wait", "ackwait", "reset", "clearwait", "poll"}, PollFails(at)
  PROVE  UcsiInv'
  <1>0. /\ Running /\ pc = at /\ Fault /\ late = {} /\ late' \in {{}, {cci}} /\ rd' = rd
        /\ Return("err") /\ KeepSeq /\ NoWrite /\ TypeOK /\ PlaceInv
    BY DEF PollFails, Step, ReadFails, UcsiInv
  <1>1. pc \in Local \cup Remote /\ Wrote /\ rd' \subseteq Flags /\ late' \subseteq SUBSET Flags
    BY <1>0 DEF Local, Remote, Wrote, TypeOK
  <1>2. ASSUME Calm, Cmd # "PPM_RESET" PROVE NoReset'
    <2>1. pc \in {"wait", "ackwait"}
      BY <1>0, <1>2 DEF PlaceInv
    <2>2. NoReset
      BY <1>0, <1>2, <2>1, WaitsForOurs
    <2> QED
      BY <1>0, <2>2 DEF NoReset, NoWrite, PpmIdle
  <1> QED
    BY <1>0, <1>1, <1>2, GivesUp

(* A wait that times out leaves the PPM as it is. *)
LEMMA TimesOut ==
  ASSUME UcsiInv, Running, KeepSeq, NoWrite, Return("err"), Cmd \in Commands,
         pc \in {"wait", "ackwait"}, Calm' => Calm, rd' \subseteq Flags,
         late' \subseteq SUBSET Flags,
         faults' = faults, upset \subseteq upset', upset' \subseteq Upsets
  PROVE  UcsiInv'
  <1>0. TypeOK /\ pc' = "next" /\ ret' = "err" /\ Cmd \notin {"VERSION", "PPM_RESET"}
    BY Gone, CommandSet DEF UcsiInv
  <1>1. Base' /\ Running' /\ Cmd' = Cmd /\ op' = op
    <2>1. pc' \notin Local /\ pc' \notin Remote /\ Wrote /\ faults' \in 0 .. MaxFaults
      BY <1>0 DEF Local, Remote, Wrote, TypeOK
    <2> QED
      BY <1>0, <2>1, Gone, Moves
  <1>2. ASSUME Calm' PROVE RestInv' /\ BeforeInv' /\ MaskInv' /\ OkInv'
    <2>1. NoReset
      BY <1>2, WaitsForOurs
    <2>2. NoReset'
      BY <2>1 DEF NoReset, NoWrite, PpmIdle
    <2>3. RestInv'
      BY <1>0, <1>1, <2>2 DEF RestInv, Running
    <2> QED
      BY <1>0, <1>1, <2>3 DEF BeforeInv, Before, MaskInv, OkInv
  <1> QED
    BY <1>0, <1>1, <1>2, Arrives

LEMMA WaitUcsiCciInv == UcsiInv /\ wait_ucsi_cci => UcsiInv'
  <1> SUFFICES ASSUME UcsiInv, wait_ucsi_cci PROVE UcsiInv'
    OBVIOUS
  <1>0. /\ Running /\ pc = "wait" /\ KeepSeq /\ NoWrite /\ Poll("wait")
        /\ TypeOK /\ PlaceInv
    BY DEF wait_ucsi_cci, Poll, Step, UcsiInv
  <1>1. Cmd \in Commands
    BY <1>0 DEF PlaceInv
  <1>2. PICK c \in {cci} \cup late :
          /\ Answer(c) /\ faults' = faults
          /\ \/ Ready(c, old_cci) /\ Goto("ack")
             \/ ~Ready(c, old_cci) /\ ~LastPoll /\ Again
             \/ ~Ready(c, old_cci) /\ LastPoll /\ Return("err")
    BY DEF wait_ucsi_cci, Read
  <1>3. /\ rd' \subseteq Flags /\ late' \subseteq SUBSET Flags /\ late' \subseteq {cci}
        /\ upset \subseteq upset' /\ upset' \subseteq Upsets /\ (Calm' => Calm)
        /\ faults' \in 0 .. MaxFaults /\ Wrote
    BY <1>0, <1>2, Answers, Polls DEF TypeOK, Wrote
  <1>4. ASSUME Calm' PROVE WaitInv /\ MaskInv
    BY <1>3, <1>4 DEF UcsiInv
  <1>s. UNCHANGED <<control, exec, outcome, acked, cci, mask>>
    BY <1>0 DEF NoWrite
  <1>5. CASE Ready(c, old_cci) /\ Goto("ack")
    <2>1. pc' = "ack"
      BY <1>5, Went
    <2>2. Base' /\ Running' /\ Cmd' = Cmd /\ op' = op
      <3>1. pc' \notin Local /\ pc' \in Remote
        BY <2>1 DEF Local, Remote
      <3>2. ret' \in {"ok", "err"} /\ polls' \in 0 .. MaxPolls - 1 /\ old_cci' \subseteq Flags
        BY <1>5, Went
      <3> QED
        BY <1>0, <1>1, <1>3, <3>1, <3>2, Moves
    <2>3. ASSUME Calm' PROVE MaskInv' /\ AckInv'
      <3>1. c \notin {old_cci, {"BUSY"}} /\ c \in Reads
        BY <1>2, <1>5 DEF Ready, Reads
      <3>2. outcome # "none" /\ PpmIdle /\ cci \ {"CHG"} \in Completions
        BY <1>0, <1>4, <2>3, <3>1 DEF WaitInv
      <3>3. \A x \in Reads' : x = cci
        BY <1>3, <1>s DEF Reads
      <3>4. MaskInv'
        BY <1>0, <1>4, <1>s, <2>2, <2>3 DEF MaskInv
      <3> QED
        BY <1>s, <2>1, <3>2, <3>3, <3>4 DEF AckInv, PpmIdle
    <2> QED
      BY <2>1, <2>2, <2>3, Arrives
  <1>6. CASE ~Ready(c, old_cci) /\ ~LastPoll /\ Again
    <2>1. pc' = "wait" /\ ret' = ret /\ old_cci' = old_cci /\ polls' \in 0 .. MaxPolls - 1
          /\ old_cci' \subseteq Flags
      BY <1>0, <1>6, Agains
    <2>2. Base' /\ Running' /\ Cmd' = Cmd /\ op' = op
      <3>1. pc' \notin Local /\ pc' \in Remote /\ ret' \in {"ok", "err"}
        BY <1>0, <2>1 DEF Local, Remote, TypeOK
      <3> QED
        BY <1>0, <1>1, <1>3, <2>1, <3>1, Moves
    <2>3. ASSUME Calm' PROVE MaskInv' /\ WaitInv'
      <3>1. MaskInv'
        BY <1>0, <1>4, <1>s, <2>1, <2>2, <2>3 DEF MaskInv
      <3>2. Reads' \subseteq Reads
        BY <1>3, <1>s DEF Reads
      <3>3. WaitInv'
        BY <1>0, <1>4, <1>s, <2>1, <2>2, <2>3, <3>2 DEF WaitInv, PpmIdle
      <3> QED
        BY <3>1, <3>3
    <2> QED
      BY <2>1, <2>2, <2>3, Arrives
  <1>7. CASE Return("err")
    BY <1>0, <1>1, <1>2, <1>3, <1>7, TimesOut
  <1> QED
    BY <1>2, <1>5, <1>6, <1>7

(* A step that writes gives up, or goes on. *)
Sent(at, cmd, l) ==
    /\ Running /\ pc = at /\ KeepSeq /\ Write(cmd) /\ Goto(l)
    /\ UNCHANGED <<faults, upset, rd, late>>

LEMMA Sends ==
  ASSUME UcsiInv, NEW at \in Local \cup Remote, NEW cmd \in Controls, NEW l, Send(at, cmd, l)
  PROVE  UcsiInv' \/ Sent(at, cmd, l)
  <1>0. Running /\ pc = at /\ KeepSeq /\ UNCHANGED <<rd, late>> /\ TypeOK
    BY DEF Send, Step, UcsiInv
  <1>1. CASE Write(cmd) /\ Goto(l) /\ UNCHANGED <<faults, upset>>
    BY <1>0, <1>1 DEF Sent
  <1>2. CASE WriteFails(cmd) /\ Return("err")
    <2>1. Fault /\ Wrote /\ late' = late /\ rd' \subseteq Flags /\ late' \subseteq SUBSET Flags
      BY <1>0, <1>2 DEF WriteFails, Wrote, TypeOK
    <2> QED
      BY <1>0, <1>2, <2>1, GivesUp
  <1> QED
    BY <1>1, <1>2 DEF Send

LEMMA SentBase ==
  ASSUME UcsiInv, NEW at, NEW cmd \in Controls, NEW l, Sent(at, cmd, l),
         \/ l \in Local /\ Cmd = "PPM_RESET"
         \/ l \in Remote /\ Cmd \in Commands
  PROVE  /\ Base' /\ Running' /\ Cmd' = Cmd /\ op' = op /\ pc' = l /\ (Calm' => Calm)
         /\ control' = {[cmd |-> cmd, cur |-> TRUE]} /\ polls' = 0
         /\ UNCHANGED <<cci, mask, rd, late>>
         /\ \A d \in exec' : ~d.cur /\ \E c \in exec : c.cmd = d.cmd
         /\ exec = {} => exec' = {}
  <1>0. TypeOK /\ Running /\ KeepSeq /\ Write(cmd) /\ Goto(l) /\ UNCHANGED <<faults, upset, rd, late>>
    BY DEF Sent, UcsiInv
  <1>1. /\ pc' = l /\ ret' \in {"ok", "err"} /\ polls' = 0 /\ polls' \in 0 .. MaxPolls - 1
        /\ old_cci' \subseteq Flags
    BY <1>0, Went
  <1>2. /\ upset \subseteq upset' /\ upset' \subseteq Upsets /\ (Calm' => Calm)
        /\ faults' \in 0 .. MaxFaults /\ rd' \subseteq Flags /\ late' \subseteq SUBSET Flags /\ Wrote
    BY <1>0, SameUpset DEF TypeOK, Wrote
  <1>3. l \in Local => l \notin Remote /\ "PPM_RESET" \notin Commands
    BY CommandSet DEF Local, Remote
  <1>4. Base' /\ Running' /\ Cmd' = Cmd /\ op' = op
    BY <1>0, <1>1, <1>2, <1>3, Moves
  <1>5. exec = {} => exec' = {}
    BY <1>0 DEF Write
  <1> QED
    BY <1>0, <1>1, <1>2, <1>4, <1>5, Writes

LEMMA SendAckInv == UcsiInv /\ send_ack => UcsiInv'
  <1> SUFFICES ASSUME UcsiInv, send_ack PROVE UcsiInv'
    OBVIOUS
  <1>1. PICK cmd \in Acks : Send("ack", cmd, "ackwait")
    BY DEF send_ack, Acks
  <1>2. cmd \in Controls /\ "ack" \in Local \cup Remote /\ "ackwait" \in Remote
    BY CommandSet DEF Remote
  <1> SUFFICES ASSUME Sent("ack", cmd, "ackwait") PROVE UcsiInv'
    BY <1>1, <1>2, Sends
  <1>0. Running /\ pc = "ack" /\ Write(cmd) /\ PlaceInv
    BY DEF Sent, UcsiInv
  <1>3. Cmd \in Commands
    BY <1>0 DEF PlaceInv
  <1>4. /\ Base' /\ Running' /\ Cmd' = Cmd /\ op' = op /\ pc' = "ackwait" /\ (Calm' => Calm)
        /\ control' = {[cmd |-> cmd, cur |-> TRUE]}
        /\ UNCHANGED <<cci, mask, rd, late>>
        /\ exec = {} => exec' = {}
    BY <1>2, <1>3, SentBase
  <1>5. acked' = FALSE /\ outcome' = outcome
    BY <1>0 DEF Write
  <1>6. ASSUME Calm' PROVE MaskInv' /\ AckInv'
    <2>1. MaskInv /\ AckInv
      BY <1>4, <1>6 DEF UcsiInv
    <2>2. MaskInv'
      BY <1>0, <1>4, <1>5, <2>1 DEF MaskInv
    <2>3. outcome # "none" /\ control = {} /\ exec = {} /\ \A x \in Reads : x \ {"CHG"} \in Completions
      BY <1>0, <2>1 DEF AckInv, PpmIdle
    <2>4. cci \ {"CHG"} \in Completions /\ \A x \in late : x \ {"CHG"} \in Completions
      BY <2>3 DEF Reads
    <2>5. \A x \in late : "ACK" \notin x
      <3> SUFFICES ASSUME NEW x \in late, "ACK" \in x PROVE FALSE
        OBVIOUS
      <3>1. "ACK" \in x \ {"CHG"} /\ x \ {"CHG"} \in Completions
        BY <2>4
      <3> QED
        BY <3>1 DEF Completions
    <2>6. ~PpmIdle' /\ exec' = {} /\ \A c \in control' \cup exec' : c.cmd \in Acks /\ c.cur
      <3> DEFINE w == [cmd |-> cmd, cur |-> TRUE]
      <3>1. w.cmd \in Acks /\ w.cur /\ control' = {w} /\ exec' = {}
        BY <1>4, <2>3
      <3> HIDE DEF w
      <3> QED
        BY <3>1 DEF PpmIdle
    <2> QED
      BY <1>4, <1>5, <2>2, <2>3, <2>4, <2>5, <2>6 DEF AckInv
  <1> QED
    BY <1>4, <1>6, Arrives

LEMMA WaitAckInv == UcsiInv /\ wait_ack => UcsiInv'
  <1> SUFFICES ASSUME UcsiInv, wait_ack PROVE UcsiInv'
    OBVIOUS
  <1>0. /\ Running /\ pc = "ackwait" /\ KeepSeq /\ NoWrite /\ Poll("ackwait")
        /\ TypeOK /\ PlaceInv
    BY DEF wait_ack, Poll, Step, UcsiInv
  <1>1. Cmd \in Commands /\ Cmd \notin {"VERSION", "PPM_RESET"}
    BY <1>0, CommandSet DEF PlaceInv
  <1>2. PICK c \in {cci} \cup late :
          /\ Answer(c) /\ faults' = faults
          /\ \/ Acknowledged(c) /\ Return("ok")
             \/ ~Acknowledged(c) /\ ~LastPoll /\ Again
             \/ ~Acknowledged(c) /\ LastPoll /\ Return("err")
    BY DEF wait_ack, Read
  <1>3. /\ rd' = c /\ rd' \subseteq Flags /\ late' \subseteq SUBSET Flags /\ late' \subseteq {cci}
        /\ upset \subseteq upset' /\ upset' \subseteq Upsets /\ (Calm' => Calm)
        /\ faults' \in 0 .. MaxFaults /\ Wrote
    BY <1>0, <1>2, Answers, Polls DEF TypeOK, Wrote
  <1>4. ASSUME Calm' PROVE AckInv /\ MaskInv
    BY <1>3, <1>4 DEF UcsiInv
  <1>s. UNCHANGED <<control, exec, outcome, acked, cci, mask>>
    BY <1>0 DEF NoWrite
  <1>5. CASE Acknowledged(c) /\ Return("ok")
    <2>1. pc' = "next" /\ ret' = "ok"
      BY <1>5, Gone
    <2>2. Base' /\ Running' /\ Cmd' = Cmd /\ op' = op
      <3>1. pc' \notin Local /\ pc' \notin Remote
        BY <2>1 DEF Local, Remote
      <3>2. ret' \in {"ok", "err"} /\ polls' \in 0 .. MaxPolls - 1 /\ old_cci' \subseteq Flags
        BY <1>5, Gone
      <3> QED
        BY <1>0, <1>1, <1>3, <2>1, <3>1, <3>2, Moves
    <2>3. ASSUME Calm' PROVE RestInv' /\ BeforeInv' /\ MaskInv' /\ OkInv'
      <3>1. outcome # "none" /\ acked
        <4>1. outcome # "none" /\ "ACK" \in c
          BY <1>0, <1>4, <1>5, <2>3 DEF AckInv, Acknowledged
        <4>2. ASSUME ~acked PROVE FALSE
          <5>1. cci \ {"CHG"} \in Completions \cup {{"BUSY"}} /\ \A x \in late : "ACK" \notin x
            BY <1>0, <1>4, <2>3, <4>2 DEF AckInv
          <5>2. "ACK" \notin cci
            <6>1. "ACK" \notin cci \ {"CHG"}
              BY <5>1 DEF Completions
            <6> QED
              BY <6>1
          <5> QED
            BY <1>2, <4>1, <5>1, <5>2
        <4> QED
          BY <4>1, <4>2
      <3>2. PpmIdle /\ cci \ {"CHG"} = {"ACK"} /\ "ACK" \in cci
        BY <1>0, <1>4, <2>3, <3>1 DEF AckInv
      <3>3. MaskInv'
        BY <1>0, <1>4, <1>s, <2>1, <2>2, <2>3 DEF MaskInv
      <3>4. BeforeInv'
        <4> SUFFICES ASSUME Cmd # "NOTIFY2" PROVE BeforeInv'
          BY <2>1, <2>2 DEF BeforeInv, Before
        <4>1. mask # "all" /\ "CHG" \notin cci
          BY <1>0, <1>4, <2>3 DEF MaskInv
        <4>2. cci = {"ACK"}
          <5>1. cci \ {"CHG"} = cci
            BY <4>1
          <5> QED
            BY <3>2, <5>1
        <4>3. c = {"ACK"}
          <5>1. \A x \in late : "ACK" \in x => x = {"ACK"}
            BY <1>0, <1>4, <2>3, <4>1 DEF AckInv
          <5> QED
            BY <1>2, <1>5, <4>2, <5>1 DEF Acknowledged
        <4>4. \A x \in Reads' : x = {"ACK"}
          BY <1>3, <1>s, <4>2 DEF Reads
        <4>5. rd' = {"ACK"} /\ mask' # "all"
          BY <1>3, <1>s, <4>1, <4>3
        <4>6. Only({"PPM_RESET"})' /\ PpmIdle'
          BY <1>s, <3>2 DEF Only, PpmIdle
        <4> QED
          BY <4>4, <4>5, <4>6 DEF BeforeInv
      <3>5. RestInv'
        BY <1>1, <2>1, <2>2 DEF RestInv, Running
      <3>6. OkInv'
        BY <1>s, <3>1, <3>2 DEF OkInv, PpmIdle
      <3> QED
        BY <3>3, <3>4, <3>5, <3>6
    <2> QED
      BY <2>1, <2>2, <2>3, Arrives
  <1>6. CASE ~Acknowledged(c) /\ ~LastPoll /\ Again
    <2>1. pc' = "ackwait" /\ ret' = ret /\ polls' \in 0 .. MaxPolls - 1 /\ old_cci' \subseteq Flags
      BY <1>0, <1>6, Agains
    <2>2. Base' /\ Running' /\ Cmd' = Cmd /\ op' = op
      <3>1. pc' \notin Local /\ pc' \in Remote /\ ret' \in {"ok", "err"}
        BY <1>0, <2>1 DEF Local, Remote, TypeOK
      <3> QED
        BY <1>0, <1>1, <1>3, <2>1, <3>1, Moves
    <2>3. ASSUME Calm' PROVE MaskInv' /\ AckInv'
      <3>1. MaskInv'
        BY <1>0, <1>4, <1>s, <2>1, <2>2, <2>3 DEF MaskInv
      <3>2. ~acked => "ACK" \notin cci
        <4> SUFFICES ASSUME ~acked, "ACK" \in cci PROVE FALSE
          OBVIOUS
        <4>1. "ACK" \in cci \ {"CHG"}
          OBVIOUS
        <4> QED
          BY <1>0, <1>4, <2>3, <4>1 DEF AckInv, Completions
      <3>3. "ACK" \in cci => cci = {"ACK"} \/ mask = "all"
        <4> SUFFICES ASSUME "ACK" \in cci, mask # "all" PROVE cci = {"ACK"}
          OBVIOUS
        <4>1. "CHG" \notin cci /\ cci \ {"CHG"} = {"ACK"}
          BY <1>0, <1>4, <2>3, <3>2 DEF MaskInv, AckInv
        <4>2. cci \ {"CHG"} = cci
          BY <4>1
        <4> QED
          BY <4>1, <4>2
      <3>4. AckInv'
        <4>1. pc' # "ack" /\ \A x \in late' : x = cci
          BY <1>3, <2>1
        <4> QED
          BY <1>0, <1>4, <1>s, <2>3, <3>2, <3>3, <4>1 DEF AckInv, PpmIdle
      <3> QED
        BY <3>1, <3>4
    <2> QED
      BY <2>1, <2>2, <2>3, Arrives
  <1>7. CASE Return("err")
    BY <1>0, <1>1, <1>2, <1>3, <1>7, TimesOut
  <1> QED
    BY <1>2, <1>5, <1>6, <1>7

-----------------------------------------------------------------------------
(* PPM_RESET. *)
LEMMA ResetReadInv == UcsiInv /\ reset_read => UcsiInv'
  <1> SUFFICES ASSUME UcsiInv, reset_read PROVE UcsiInv'
    OBVIOUS
  <1>0. /\ Running /\ pc = "reset" /\ KeepSeq /\ NoWrite /\ UNCHANGED upset
        /\ TypeOK /\ PlaceInv /\ CciInv
    BY DEF reset_read, Step, UcsiInv
  <1>1. Cmd = "PPM_RESET"
    BY <1>0 DEF PlaceInv
  <1>2. PICK c \in {cci} \cup late :
          Answer(c) /\ faults' = faults /\ Goto(IF "RC" \in c THEN "clear" ELSE "issue")
    BY DEF reset_read, Read
  <1>3. /\ late' \subseteq {cci}
        /\ late = {} => c = cci
        /\ late # {} => c \in late
    BY <1>0, <1>2, Answers
  <1>s. UNCHANGED <<control, exec, outcome, acked, cci, mask>>
    BY <1>0 DEF NoWrite
  <1>4. /\ pc' = (IF "RC" \in c THEN "clear" ELSE "issue") /\ ret' = "ok"
        /\ polls' \in 0 .. MaxPolls - 1 /\ old_cci' \subseteq Flags
    BY <1>2, Went
  <1>5. Base' /\ Running' /\ Cmd' = Cmd /\ op' = op
    <2>1. rd' \subseteq Flags /\ late' \subseteq SUBSET Flags
      BY <1>0, <1>2, Answers
    <2>2. pc' \in Local /\ pc' \notin Remote /\ Wrote /\ faults' \in 0 .. MaxFaults
      BY <1>0, <1>2, <1>4 DEF Local, Remote, Wrote, TypeOK
    <2> QED
      BY <1>0, <1>1, <1>4, <2>1, <2>2, SameUpset, Moves
  <1>6. ASSUME Calm' PROVE ClearInv'
    <2>1. RestInv
      BY <1>0, <1>6 DEF UcsiInv, Calm
    <2>2. PpmIdle /\ ("RC" \in cci => late \subseteq {{"RC"}} /\ cci = {"RC"})
          /\ (op = "prewarm" => \A x \in late : "RC" \in x => "RC" \in cci)
      BY <1>0, <2>1 DEF RestInv, CciInv
    <2>3. PpmIdle' /\ Only({"NOTIFY0", "ACK_CC"})'
      BY <1>s, <2>2 DEF PpmIdle, Only
    <2>4. CASE "RC" \in c
      <3>1. pc' = "clear"
        BY <1>4, <2>4
      <3>2. op = "prewarm" => "RC" \in cci
        BY <1>3, <2>2, <2>4
      <3>3. "RC" \in cci => cci = {"RC"} /\ late' \subseteq {{"RC"}}
        BY <1>3, <2>2
      <3> QED
        BY <1>s, <1>5, <2>3, <3>1, <3>2, <3>3 DEF ClearInv
    <2>5. CASE "RC" \notin c
      <3>1. pc' = "issue"
        BY <1>4, <2>5
      <3>2. "RC" \notin cci
        BY <1>3, <2>2, <2>5
      <3>3. \A x \in Reads' : "RC" \notin x
        BY <1>3, <1>s, <3>2 DEF Reads
      <3> QED
        BY <2>3, <3>1, <3>3 DEF ClearInv
    <2> QED
      BY <2>4, <2>5
  <1> QED
    BY <1>4, <1>5, <1>6, Arrives

LEMMA ClearSendInv == UcsiInv /\ clear_send => UcsiInv'
  <1> SUFFICES ASSUME UcsiInv, clear_send PROVE UcsiInv'
    OBVIOUS
  <1>1. "NOTIFY0" \in Controls /\ "clear" \in Local \cup Remote /\ "clearwait" \in Local
    BY CommandSet DEF Local
  <1> SUFFICES ASSUME Sent("clear", "NOTIFY0", "clearwait") PROVE UcsiInv'
    BY <1>1, Sends DEF clear_send
  <1>0. pc = "clear" /\ PlaceInv /\ CciInv
    BY DEF Sent, UcsiInv
  <1>2. Cmd = "PPM_RESET"
    BY <1>0 DEF PlaceInv
  <1>3. /\ Base' /\ Running' /\ Cmd' = Cmd /\ op' = op /\ pc' = "clearwait" /\ (Calm' => Calm)
        /\ control' = {[cmd |-> "NOTIFY0", cur |-> TRUE]} /\ polls' = 0
        /\ UNCHANGED <<cci, mask, rd, late>>
        /\ exec = {} => exec' = {}
    BY <1>1, <1>2, SentBase
  <1>4. ASSUME Calm' PROVE ClearInv'
    <2>1. /\ exec = {} /\ ("RC" \in cci => late \subseteq {{"RC"}})
          /\ op = "prewarm" => cci = {"RC"} /\ mask = "none"
      <3>1. ClearInv
        BY <1>3, <1>4 DEF UcsiInv
      <3> QED
        BY <1>0, <3>1 DEF ClearInv, PpmIdle, CciInv
    <2>2. Only({"NOTIFY0"})' /\ ~PpmIdle'
      <3>1. exec' = {} /\ control' # {} /\ \A c \in control' : c.cmd = "NOTIFY0"
        BY <1>3, <2>1
      <3> QED
        BY <3>1 DEF Only, PpmIdle
    <2>3. "RC" \in cci' => \A x \in late' : "CC" \notin x
      BY <1>3, <2>1
    <2>4. polls' # MaxPolls - 1
      BY <1>3
    <2> QED
      BY <1>3, <2>1, <2>2, <2>3, <2>4 DEF ClearInv
  <1> QED
    BY <1>3, <1>4, Arrives

LEMMA ClearAckInv == UcsiInv /\ clear_ack => UcsiInv'
  <1> SUFFICES ASSUME UcsiInv, clear_ack PROVE UcsiInv'
    OBVIOUS
  <1>1. "ACK_CC" \in Controls /\ "clearack" \in Local \cup Remote /\ "issue" \in Local
    BY CommandSet DEF Local, Acks
  <1> SUFFICES ASSUME Sent("clearack", "ACK_CC", "issue") PROVE UcsiInv'
    BY <1>1, Sends DEF clear_ack
  <1>0. pc = "clearack" /\ PlaceInv
    BY DEF Sent, UcsiInv
  <1>2. Cmd = "PPM_RESET"
    BY <1>0 DEF PlaceInv
  <1>3. /\ Base' /\ Running' /\ pc' = "issue" /\ (Calm' => Calm)
        /\ control' = {[cmd |-> "ACK_CC", cur |-> TRUE]}
        /\ UNCHANGED <<cci, mask, rd, late>>
        /\ \A d \in exec' : \E c \in exec : c.cmd = d.cmd
    BY <1>1, <1>2, SentBase
  <1>4. ASSUME Calm' PROVE ClearInv'
    <2>1. Only({"NOTIFY0", "ACK_CC"}) /\ \A x \in Reads : "RC" \notin x
      BY <1>0, <1>3, <1>4 DEF UcsiInv, ClearInv
    <2>2. Only({"NOTIFY0", "ACK_CC"})'
      BY <1>3, <2>1 DEF Only
    <2>3. \A x \in Reads' : "RC" \notin x
      BY <1>3, <2>1 DEF Reads
    <2> QED
      BY <1>3, <2>2, <2>3 DEF ClearInv
  <1> QED
    BY <1>3, <1>4, Arrives

LEMMA ResetIssueInv == UcsiInv /\ reset_issue => UcsiInv'
  <1> SUFFICES ASSUME UcsiInv, reset_issue PROVE UcsiInv'
    OBVIOUS
  <1>1. "PPM_RESET" \in Controls /\ "issue" \in Local \cup Remote /\ "poll" \in Local
    BY CommandSet DEF Local
  <1> SUFFICES ASSUME Sent("issue", "PPM_RESET", "poll") PROVE UcsiInv'
    BY <1>1, Sends DEF reset_issue
  <1>0. pc = "issue" /\ PlaceInv /\ Write("PPM_RESET")
    BY DEF Sent, UcsiInv
  <1>2. Cmd = "PPM_RESET"
    BY <1>0 DEF PlaceInv
  <1>3. /\ Base' /\ Running' /\ pc' = "poll" /\ (Calm' => Calm)
        /\ control' = {[cmd |-> "PPM_RESET", cur |-> TRUE]} /\ polls' = 0
        /\ UNCHANGED <<cci, mask, rd, late>>
        /\ \A d \in exec' : ~d.cur /\ \E c \in exec : c.cmd = d.cmd
    BY <1>1, <1>2, SentBase
  <1>4. outcome' = "none"
    BY <1>0 DEF Write, Acks
  <1>5. ASSUME Calm' PROVE ResetInv'
    <2>1. \A x \in Reads : "RC" \notin x
      BY <1>0, <1>3, <1>5 DEF UcsiInv, ClearInv
    <2>2. \A x \in Reads' : "RC" \notin x
      BY <1>3, <2>1 DEF Reads
    <2>3. polls' # MaxPolls - 1
      BY <1>3
    <2>4. control' # {} /\ \A c \in control' : c.cmd = "PPM_RESET" /\ c.cur
      BY <1>3
    <2>5. ~PpmIdle'
      BY <2>4 DEF PpmIdle
    <2>6. \A d \in exec' : d.cmd # "PPM_RESET" /\ ~d.cur
      <3>1. Only({"NOTIFY0", "ACK_CC"})
        BY <1>0, <1>3, <1>5 DEF UcsiInv, ClearInv
      <3> QED
        BY <1>3, <3>1 DEF Only
    <2> QED
      BY <1>3, <1>4, <2>2, <2>3, <2>4, <2>5, <2>6 DEF ResetInv
  <1> QED
    BY <1>3, <1>5, Arrives

LEMMA ClearWaitInv == UcsiInv /\ clear_wait => UcsiInv'
  <1> SUFFICES ASSUME UcsiInv, clear_wait PROVE UcsiInv'
    OBVIOUS
  <1>0. /\ Running /\ pc = "clearwait" /\ KeepSeq /\ NoWrite /\ Poll("clearwait")
        /\ TypeOK /\ PlaceInv /\ CciInv
    BY DEF clear_wait, Poll, Step, UcsiInv
  <1>1. Cmd = "PPM_RESET"
    BY <1>0 DEF PlaceInv
  <1>2. PICK c \in {cci} \cup late :
          /\ Answer(c) /\ faults' = faults
          /\ \/ "CC" \in c /\ Goto("clearack")
             \/ "CC" \notin c /\ ~LastPoll /\ Again
             \/ "CC" \notin c /\ LastPoll /\ Return("err")
    BY DEF clear_wait, Read
  <1>3. /\ rd' = c /\ rd' \subseteq Flags /\ late' \subseteq SUBSET Flags /\ late' \subseteq {cci}
        /\ late = {} => c = cci
        /\ late # {} => late' # {}
        /\ upset \subseteq upset' /\ upset' \subseteq Upsets
        /\ Calm' => Calm /\ (polls + 2 >= MaxPolls => PpmIdle)
        /\ faults' \in 0 .. MaxFaults /\ Wrote
    BY <1>0, <1>2, Answers, Polls DEF TypeOK, Wrote
  <1>4. ASSUME Calm'
        PROVE  /\ Only({"NOTIFY0"})
               /\ "RC" \in cci => cci = {"RC"} /\ \A x \in late : "CC" \notin x
               /\ op = "prewarm" => /\ mask = "none"
                                    /\ cci \in Completions \cup {{"RC"}, {"BUSY"}}
                                    /\ PpmIdle => cci \in Completions
               /\ op = "prewarm" /\ polls = MaxPolls - 1 => PpmIdle /\ late \subseteq {cci}
    BY <1>0, <1>3, <1>4 DEF UcsiInv, ClearInv, CciInv
  <1>s. UNCHANGED <<control, exec, outcome, acked, cci, mask>>
    BY <1>0 DEF NoWrite
  <1>o. Only({"NOTIFY0"}) => Only({"NOTIFY0"})' /\ Only({"NOTIFY0", "ACK_CC"})'
    BY <1>s DEF Only
  <1>5. CASE "CC" \in c /\ Goto("clearack")
    <2>1. pc' = "clearack"
      BY <1>5, Went
    <2>2. Base' /\ Running' /\ Cmd' = Cmd /\ op' = op
      <3>1. pc' \in Local /\ pc' \notin Remote
        BY <2>1 DEF Local, Remote
      <3>2. ret' \in {"ok", "err"} /\ polls' \in 0 .. MaxPolls - 1 /\ old_cci' \subseteq Flags
        BY <1>5, Went
      <3> QED
        BY <1>0, <1>1, <1>3, <3>1, <3>2, Moves
    <2>3. ASSUME Calm' PROVE ClearInv'
      <3>1. "RC" \notin cci
        BY <1>2, <1>4, <1>5, <2>3
      <3>2. \A x \in Reads' : "RC" \notin x
        BY <1>3, <1>s, <3>1 DEF Reads
      <3> QED
        BY <1>4, <1>o, <2>1, <2>3, <3>2 DEF ClearInv
    <2> QED
      BY <2>1, <2>2, <2>3, Arrives
  <1>6. CASE "CC" \notin c /\ ~LastPoll /\ Again
    <2>1. /\ pc' = "clearwait" /\ ret' = ret /\ polls' \in 0 .. MaxPolls - 1 /\ old_cci' \subseteq Flags
          /\ polls' = MaxPolls - 1 => polls + 2 >= MaxPolls
      BY <1>0, <1>6, Agains
    <2>2. Base' /\ Running' /\ Cmd' = Cmd /\ op' = op
      <3>1. pc' \in Local /\ pc' \notin Remote /\ ret' \in {"ok", "err"}
        BY <1>0, <2>1 DEF Local, Remote, TypeOK
      <3> QED
        BY <1>0, <1>1, <1>3, <2>1, <3>1, Moves
    <2>3. ASSUME Calm' PROVE ClearInv'
      <3>1. "RC" \in cci => \A x \in late' : "CC" \notin x
        BY <1>3, <1>4, <2>3
      <3>2. polls' = MaxPolls - 1 => PpmIdle' /\ late' \subseteq {cci} /\ (late' = {} => "CC" \notin cci)
        BY <1>3, <1>6, <1>s, <2>1, <2>3 DEF PpmIdle
      <3>3. op = "prewarm" => /\ mask = "none"
                              /\ cci \in Completions \cup {{"RC"}, {"BUSY"}}
                              /\ PpmIdle' => cci \in Completions
        BY <1>4, <1>s, <2>3 DEF PpmIdle
      <3> QED
        BY <1>4, <1>o, <1>s, <2>1, <2>2, <2>3, <3>1, <3>2, <3>3 DEF ClearInv
    <2> QED
      BY <2>1, <2>2, <2>3, Arrives
  <1>7. CASE "CC" \notin c /\ LastPoll /\ Return("err")
    <2>1. pc' = "next" /\ ret' = "err"
      BY <1>7, Gone
    <2>2. Base' /\ Running' /\ Cmd' = Cmd /\ op' = op
      <3>1. pc' \notin Local /\ pc' \notin Remote
        BY <2>1 DEF Local, Remote
      <3>2. ret' \in {"ok", "err"} /\ polls' \in 0 .. MaxPolls - 1 /\ old_cci' \subseteq Flags
        BY <1>7, Gone
      <3> QED
        BY <1>0, <1>1, <1>3, <2>1, <3>1, <3>2, Moves
    <2>3. ASSUME Calm' PROVE RestInv' /\ BeforeInv' /\ MaskInv' /\ OkInv'
      <3>1. BeforeInv'
        <4> SUFFICES ASSUME op = "prewarm" PROVE BeforeInv'
          BY <2>1, <2>2 DEF BeforeInv, Before
        <4>1. polls = MaxPolls - 1
          BY <1>0, <1>7 DEF LastPoll, TypeOK
        <4>2. PpmIdle /\ late \subseteq {cci} /\ cci \in Completions /\ mask = "none"
          BY <1>4, <2>3, <4>1
        <4>3. c = cci
          BY <1>2, <4>2
        <4>4. cci = {"NS"}
          BY <1>7, <4>2, <4>3 DEF Completions
        <4>5. \A x \in Reads' : x = {"NS"}
          BY <1>3, <1>s, <4>4 DEF Reads
        <4>6. PpmIdle' /\ Only({"PPM_RESET"})'
          BY <1>s, <4>2 DEF PpmIdle, Only
        <4> QED
          BY <1>3, <1>s, <4>2, <4>3, <4>4, <4>5, <4>6 DEF BeforeInv
      <3>2. RestInv'
        BY <1>1, <2>1, <2>2 DEF RestInv, Running
      <3>3. MaskInv' /\ OkInv'
        BY <2>1 DEF MaskInv, OkInv
      <3> QED
        BY <3>1, <3>2, <3>3
    <2> QED
      BY <2>1, <2>2, <2>3, Arrives
  <1> QED
    BY <1>2, <1>5, <1>6, <1>7

(* A poll that does not see RESET_COMPLETE. *)
LEMMA ResetGoesOn ==
  ASSUME UcsiInv, Running, pc = "poll", KeepSeq, Poll("poll"), NoWrite \/ Rewrite,
         NEW c \in {cci} \cup late, Answer(c), faults' = faults, "RC" \notin c,
         (LastPoll /\ Return("err")) \/ (~LastPoll /\ Again)
  PROVE  UcsiInv'
  <1>0. TypeOK /\ PlaceInv
    BY DEF UcsiInv
  <1>1. Cmd = "PPM_RESET"
    BY <1>0 DEF PlaceInv
  <1>3. /\ rd' \subseteq Flags /\ late' \subseteq SUBSET Flags /\ late' \subseteq {cci}
        /\ late = {} => c = cci
        /\ late # {} => c \in late /\ late' = {cci}
        /\ upset \subseteq upset' /\ upset' \subseteq Upsets
        /\ Calm' => Calm /\ (polls + 2 >= MaxPolls => PpmIdle)
        /\ faults' \in 0 .. MaxFaults /\ Wrote
    BY <1>0, Answers, Polls DEF TypeOK, Wrote
  <1>4. Calm' => ResetInv
    BY <1>3 DEF UcsiInv
  <1>s. UNCHANGED <<exec, outcome, acked, cci, mask>>
    BY DEF NoWrite, Rewrite
  <1>5. CASE LastPoll /\ Return("err")
    <2>1. pc' = "next" /\ ret' = "err"
      BY <1>5, Gone
    <2>2. Base' /\ Running'
      <3>1. pc' \notin Local /\ pc' \notin Remote
        BY <2>1 DEF Local, Remote
      <3>2. ret' \in {"ok", "err"} /\ polls' \in 0 .. MaxPolls - 1 /\ old_cci' \subseteq Flags
        BY <1>5, Gone
      <3> QED
        BY <1>0, <1>1, <1>3, <2>1, <3>1, <3>2, Moves
    <2>3. ~Calm'
      <3> SUFFICES ASSUME Calm' PROVE FALSE
        OBVIOUS
      <3>1. polls = MaxPolls - 1
        BY <1>0, <1>5 DEF LastPoll, TypeOK
      <3>2. late = {{"RC"}}
        BY <1>4, <3>1 DEF ResetInv
      <3> QED
        BY <1>3, <3>2
    <2> QED
      BY <2>1, <2>2, <2>3, Arrives
  <1>6. CASE ~LastPoll /\ Again
    <2>1. /\ pc' = "poll" /\ ret' = ret /\ polls' \in 0 .. MaxPolls - 1 /\ old_cci' \subseteq Flags
          /\ polls' = MaxPolls - 1 => polls + 2 >= MaxPolls
      BY <1>0, <1>6, Agains
    <2>2. Base' /\ Running'
      <3>1. pc' \in Local /\ pc' \notin Remote /\ ret' \in {"ok", "err"}
        BY <1>0, <2>1 DEF Local, Remote, TypeOK
      <3> QED
        BY <1>0, <1>1, <1>3, <2>1, <3>1, Moves
    <2>3. ASSUME Calm' PROVE ResetInv'
      <3>1. ResetInv
        BY <1>4, <2>3
      <3>2. Reads' \subseteq Reads
        BY <1>3, <1>s DEF Reads
      <3>3. \A x \in control' : x.cmd = "PPM_RESET" /\ x.cur
        BY <3>1 DEF ResetInv, NoWrite, Rewrite
      <3>4. control # {} => control' # {}
        BY DEF NoWrite, Rewrite
      <3>5. outcome = "none" => ~PpmIdle'
        BY <1>s, <3>1, <3>4 DEF ResetInv, PpmIdle
      <3>6. \A x \in exec : \/ x.cmd = "PPM_RESET" /\ x.cur
                            \/ /\ x.cmd # "PPM_RESET" /\ ~x.cur
                               /\ outcome = "none" /\ control' # {}
        BY <3>1, <3>4 DEF ResetInv
      <3>7. polls' = MaxPolls - 1 => late' = {{"RC"}} /\ outcome = "done"
        <4> SUFFICES ASSUME polls' = MaxPolls - 1 PROVE late' = {{"RC"}} /\ outcome = "done"
          OBVIOUS
        <4>1. PpmIdle
          BY <1>3, <2>1, <2>3
        <4>2. outcome = "done" /\ cci = {"RC"}
          BY <3>1, <4>1 DEF ResetInv, PpmIdle
        <4>3. late # {}
          BY <1>3, <4>2
        <4> QED
          BY <1>3, <4>2, <4>3
      <3>8. \A x \in Reads' : "RC" \in x => outcome = "done" /\ x = {"RC"}
        BY <3>1, <3>2 DEF ResetInv
      <3> QED
        BY <1>s, <3>1, <3>3, <3>5, <3>6, <3>7, <3>8 DEF ResetInv
    <2> QED
      BY <2>1, <2>2, <2>3, Arrives
  <1> QED
    BY <1>5, <1>6

LEMMA ResetPollInv == UcsiInv /\ reset_poll => UcsiInv'
  <1> SUFFICES ASSUME UcsiInv, reset_poll PROVE UcsiInv'
    OBVIOUS
  <1>0. Running /\ pc = "poll" /\ KeepSeq /\ Poll("poll") /\ TypeOK /\ PlaceInv
    BY DEF reset_poll, Poll, Step, UcsiInv
  <1>1. Cmd = "PPM_RESET"
    BY <1>0 DEF PlaceInv
  <1>2. PICK c \in {cci} \cup late :
          /\ Answer(c) /\ faults' = faults
          /\ \/ "RC" \in c /\ NoWrite /\ Return("ok")
             \/ "RC" \notin c /\ (NoWrite \/ Rewrite)
                /\ ((LastPoll /\ Return("err")) \/ (~LastPoll /\ Again))
    BY DEF reset_poll, Read, ReissueGoesOn
  <1>3. CASE "RC" \in c /\ NoWrite /\ Return("ok")
    <2>1. pc' = "next" /\ ret' = "ok"
      BY <1>3, Gone
    <2>2. /\ rd' = c /\ late' \subseteq SUBSET Flags /\ late' \subseteq {cci} /\ rd' \subseteq Flags
          /\ upset \subseteq upset' /\ upset' \subseteq Upsets /\ (Calm' => Calm)
          /\ faults' \in 0 .. MaxFaults /\ Wrote
      BY <1>0, <1>2, <1>3, Answers, Polls DEF TypeOK, Wrote
    <2>3. Base' /\ Running' /\ Cmd' = Cmd /\ op' = op
      <3>1. pc' \notin Local /\ pc' \notin Remote
        BY <2>1 DEF Local, Remote
      <3>2. ret' \in {"ok", "err"} /\ polls' \in 0 .. MaxPolls - 1 /\ old_cci' \subseteq Flags
        BY <1>3, Gone
      <3> QED
        BY <1>0, <1>1, <2>1, <2>2, <3>1, <3>2, Moves
    <2>s. UNCHANGED <<control, exec, outcome, acked, cci, mask>>
      BY <1>3 DEF NoWrite
    <2>4. ASSUME Calm' PROVE RestInv' /\ BeforeInv' /\ MaskInv' /\ OkInv'
      <3>1. ResetInv
        BY <2>2, <2>4 DEF UcsiInv
      <3>2. outcome = "done" /\ c = {"RC"} /\ mask = "none" /\ cci \in {{"RC"}, {"BUSY"}}
        BY <1>0, <1>2, <1>3, <3>1 DEF ResetInv, Reads
      <3>3. Only({"PPM_RESET"})'
        BY <1>0, <2>s, <3>1, <3>2 DEF ResetInv, Only
      <3>4. \A x \in Reads' : x \in {rd', {"BUSY"}}
        BY <2>2, <2>s, <3>2 DEF Reads
      <3>5. BeforeInv'
        BY <2>2, <2>s, <3>2, <3>3, <3>4 DEF BeforeInv
      <3>6. RestInv'
        BY <1>1, <2>1, <2>3 DEF RestInv, Running
      <3>7. MaskInv' /\ OkInv'
        BY <1>1, <2>1, <2>3, <2>s, <3>2 DEF MaskInv, OkInv
      <3> QED
        BY <3>5, <3>6, <3>7
    <2> QED
      BY <2>1, <2>3, <2>4, Arrives
  <1> QED
    BY <1>0, <1>2, <1>3, ResetGoesOn

LEMMA ReissueFailsInv == UcsiInv /\ reissue_fails => UcsiInv'
  <1> SUFFICES ASSUME UcsiInv, reissue_fails PROVE UcsiInv'
    OBVIOUS
  <1>0. /\ Running /\ pc = "poll" /\ KeepSeq /\ Fault /\ Return("err") /\ Wrote
        /\ TypeOK /\ PlaceInv
    BY DEF reissue_fails, Step, UcsiInv, Wrote
  <1>1. PICK c \in {cci} \cup late : Answer(c)
    BY DEF reissue_fails
  <1>2. rd' \subseteq Flags /\ late' \subseteq SUBSET Flags
    BY <1>0, <1>1, Answers
  <1>3. Cmd = "PPM_RESET" /\ pc \in Local \cup Remote
    BY <1>0 DEF PlaceInv, Local
  <1> QED
    BY <1>0, <1>2, <1>3, GivesUp

-----------------------------------------------------------------------------
(* The sequences. *)
LEMMA ReadVersionInv == UcsiInv /\ read_version => UcsiInv'
  <1> SUFFICES ASSUME UcsiInv, read_version PROVE UcsiInv'
    OBVIOUS
  <1>0. /\ Running /\ pc = "version" /\ KeepSeq /\ NoWrite /\ Return("ok")
        /\ TypeOK /\ PlaceInv /\ CciInv
    BY DEF read_version, Step, UcsiInv
  <1>1. op = "prewarm" /\ Cmd = "VERSION"
    BY <1>0, Sequences DEF PlaceInv, Cmd, Prog
  <1>s. UNCHANGED <<control, exec, outcome, acked, cci, mask>>
    BY <1>0 DEF NoWrite
  <1>2. /\ rd' \subseteq Flags /\ late' \subseteq SUBSET Flags /\ late' \subseteq {cci}
        /\ upset \subseteq upset' /\ upset' \subseteq Upsets /\ (Calm' => Calm)
        /\ faults' \in 0 .. MaxFaults
    <2>1. CASE (\E c \in {cci} \cup late : Read(c)) /\ UNCHANGED upset
      <3>1. PICK c \in {cci} \cup late : Answer(c) /\ faults' = faults
        BY <2>1 DEF Read
      <3> QED
        BY <1>0, <2>1, <3>1, Answers, SameUpset DEF TypeOK
    <2>2. CASE ReadFails
      <3>1. Fault /\ late' \in {{}, {cci}} /\ rd' = rd
        BY <2>2 DEF ReadFails
      <3> QED
        BY <1>0, <3>1, Faults DEF TypeOK
    <2> QED
      BY <2>1, <2>2 DEF read_version
  <1>3. pc' = "next" /\ ret' = "ok"
    BY <1>0, Gone
  <1>4. Base' /\ Running' /\ Cmd' = Cmd /\ op' = op
    <2>1. pc' \notin Local /\ pc' \notin Remote /\ Wrote
      BY <1>0, <1>3 DEF Local, Remote, Wrote
    <2>2. ret' \in {"ok", "err"} /\ polls' \in 0 .. MaxPolls - 1 /\ old_cci' \subseteq Flags
      BY <1>0, Gone
    <2> QED
      BY <1>0, <1>2, <1>3, <2>1, <2>2, Moves
  <1>5. ASSUME Calm' PROVE RestInv' /\ BeforeInv' /\ MaskInv' /\ OkInv'
    <2>1. PpmIdle
      BY <1>0, <1>2, <1>5 DEF UcsiInv, RestInv
    <2>2. PpmIdle' /\ ("RC" \in cci => late' \subseteq {{"RC"}})
      BY <1>0, <1>2, <1>s, <2>1 DEF PpmIdle, CciInv
    <2>3. \A x \in late' : "RC" \in x => "RC" \in cci
      BY <1>2
    <2>4. RestInv'
      BY <1>s, <1>3, <2>2, <2>3 DEF RestInv
    <2> QED
      BY <1>1, <1>3, <1>4, <2>4 DEF BeforeInv, Before, MaskInv, OkInv
  <1> QED
    BY <1>3, <1>4, <1>5, Arrives

(* The next step of the sequence. *)
LEMMA SeqGoesOnInv == UcsiInv /\ SeqGoesOn => UcsiInv'
  <1> SUFFICES ASSUME UcsiInv, SeqGoesOn PROVE UcsiInv'
    OBVIOUS
  <1>0. /\ Running /\ pc = "next" /\ (ret = "ok" \/ ~Fatal(Cmd)) /\ step < Len(Prog)
        /\ step' = step + 1 /\ pc' = Entry(Prog[step + 1]) /\ ret' = "ok"
        /\ UNCHANGED <<op, polls, old_cci, rd, ucsi_prewarmed, opens, faults, upset,
                       cci, control, exec, mask, late, outcome, acked>>
        /\ TypeOK /\ PlaceInv /\ CciInv /\ PrewarmInv
    BY DEF SeqGoesOn, Step, UcsiInv, ppm
  <1>1. /\ op \in {"prewarm", "discover"} /\ step \in DOMAIN Prog
        /\ step + 1 \in DOMAIN Prog /\ step + 1 \in DOMAIN Discover
        /\ Cmd # "NOTIFY2"
        /\ Cmd = "VERSION" => Prog[step + 1] = "PPM_RESET"
        /\ Cmd # "VERSION" => Prog[step + 1] \in Commands
    BY <1>0, Places DEF PlaceInv, Running
  <1>2. Prog' = Prog /\ Cmd' = Prog[step + 1] /\ Running'
    BY <1>0 DEF Prog, Cmd, Running
  <1>3. /\ Cmd = "VERSION" => pc' = "reset"
        /\ Cmd # "VERSION" => pc' = "command"
    BY <1>0, <1>1, CommandSet DEF Entry
  <1>4. Base'
    <2>1. TypeOK'
      BY <1>0, <1>1, <1>3 DEF TypeOK
    <2>2. PlaceInv'
      BY <1>0, <1>1, <1>2, <1>3 DEF PlaceInv, Running
    <2>3. CciInv' /\ PrewarmInv'
      BY <1>0 DEF CciInv, PrewarmInv
    <2> QED
      BY <2>1, <2>2, <2>3 DEF Base
  <1>5. CASE Cmd = "VERSION"
    <2>1. ASSUME Calm' PROVE RestInv'
      <3>1. RestInv
        BY <1>0, <2>1 DEF UcsiInv, Calm
      <3>2. /\ PpmIdle /\ ("RC" \in cci => late \subseteq {{"RC"}})
            /\ op = "prewarm" => \A x \in late : "RC" \in x => "RC" \in cci
        BY <1>0, <1>5, <3>1 DEF RestInv
      <3> QED
        BY <1>0, <1>3, <1>5, <3>2 DEF RestInv, PpmIdle
    <2> QED
      BY <1>2, <1>3, <1>4, <1>5, <2>1, Arrives
  <1>6. CASE Cmd # "VERSION"
    <2>1. ASSUME Calm' PROVE BeforeInv'
      <3>1. BeforeInv
        BY <1>0, <2>1 DEF UcsiInv, Calm
      <3>2. Before
        BY <1>0, <1>1, <1>6 DEF Before, Fatal, TypeOK
      <3> QED
        BY <1>0, <3>1, <3>2 DEF BeforeInv, Reads, Only, PpmIdle
    <2> QED
      BY <1>2, <1>3, <1>4, <1>6, <2>1, Arrives
  <1> QED
    BY <1>5, <1>6

(* What has to be shown where no step is under way. *)
LEMMA ArrivesIdle ==
  ASSUME Base', pc' = "idle", Calm' => RestInv'
  PROVE  UcsiInv'
  <1>1. ClearInv' /\ ResetInv' /\ BeforeInv' /\ MaskInv'
    BY DEF ClearInv, ResetInv, BeforeInv, Before, MaskInv
  <1>2. WaitInv' /\ AckInv' /\ OkInv'
    BY DEF WaitInv, AckInv, OkInv
  <1> QED
    BY <1>1, <1>2 DEF UcsiInv, Base

LEMMA SeqEndsInv == UcsiInv /\ SeqEnds => UcsiInv'
  <1> SUFFICES ASSUME UcsiInv, SeqEnds PROVE UcsiInv'
    OBVIOUS
  <1>0. /\ Running /\ pc = "next" /\ Waited(ret = "err")
        /\ (ret = "ok" /\ step = Len(Prog)) \/ (ret = "err" /\ Fatal(Cmd))
        /\ op' = IF op = "prewarm" THEN "pan" ELSE "ready"
        /\ ucsi_prewarmed' = (ucsi_prewarmed \/ PrewarmDone)
        /\ pc' = "idle" /\ step' = 1 /\ ret' = "ok"
        /\ UNCHANGED <<polls, old_cci, rd, opens, faults,
                       cci, control, exec, mask, late, outcome, acked>>
        /\ TypeOK /\ PlaceInv /\ CciInv /\ PrewarmInv
    BY DEF SeqEnds, Step, UcsiInv, ppm
  <1>1. (ret = "err") \in BOOLEAN
    OBVIOUS
  <1>2. /\ upset \subseteq upset' /\ upset' \subseteq Upsets
        /\ Calm' => Calm /\ (ret = "err" => PpmIdle)
    BY <1>0, <1>1, Waits
  <1>3. ret = "ok" => Cmd = "NOTIFY2"
    <2>1. op \in {"prewarm", "discover"} /\ step \in DOMAIN Prog
      BY <1>0 DEF PlaceInv, Running
    <2> QED
      BY <1>0, <2>1, Places
  <1>4. ~Running'
    BY <1>0 DEF Running
  <1>5. ASSUME Calm, ret = "ok"
        PROVE  PpmIdle /\ "RC" \notin cci /\ outcome # "none" /\ (outcome = "done" => mask = "all")
    <2>1. OkInv /\ MaskInv
      BY <1>5 DEF UcsiInv
    <2>2. PpmIdle /\ "ACK" \in cci /\ outcome # "none"
      BY <1>0, <1>3, <1>5, <2>1 DEF OkInv
    <2>3. outcome = "done" => mask = "all"
      BY <1>0, <1>3, <1>5, <2>1 DEF MaskInv
    <2> QED
      BY <1>0, <2>2, <2>3 DEF CciInv
  <1>6. Base'
    <2>1. TypeOK'
      <3>1. 1 \in DOMAIN Discover /\ ucsi_prewarmed' \in BOOLEAN
        BY <1>0, Sequences DEF TypeOK
      <3> QED
        BY <1>0, <1>2, <3>1 DEF TypeOK
    <2>2. PlaceInv'
      BY <1>0, <1>4 DEF PlaceInv
    <2>3. CciInv'
      BY <1>0 DEF CciInv
    <2>4. PrewarmInv'
      <3>1. op' # "prewarm" /\ ("refused" \notin upset' => outcome' # "refused")
        BY <1>0, <1>2 DEF PrewarmInv
      <3>2. ASSUME upset' = {}, op' = "pan", ucsi_prewarmed' PROVE mask' = "all"
        <4>1. op = "prewarm" /\ ~ucsi_prewarmed
          BY <1>0, <3>2 DEF PrewarmInv
        <4>2. ret = "ok"
          BY <1>0, <3>2, <4>1 DEF PrewarmDone
        <4>3. Calm /\ outcome # "refused"
          BY <1>0, <1>2, <3>2 DEF Calm, PrewarmInv
        <4>4. outcome = "done"
          BY <1>0, <1>5, <4>2, <4>3 DEF TypeOK
        <4> QED
          BY <1>0, <1>5, <4>2, <4>3, <4>4
      <3> QED
        BY <3>1, <3>2 DEF PrewarmInv
    <2> QED
      BY <2>1, <2>2, <2>3, <2>4 DEF Base
  <1>7. ASSUME Calm' PROVE RestInv'
    <2> SUFFICES ASSUME op = "prewarm" PROVE RestInv'
      BY <1>0 DEF RestInv
    <2>1. PpmIdle /\ ("RC" \in cci => late \subseteq {{"RC"}})
      <3>1. CASE ret = "ok"
        BY <1>2, <1>5, <1>7, <3>1
      <3>2. CASE ret = "err"
        <4>1. PpmIdle /\ Cmd # "PPM_RESET"
          BY <1>0, <1>2, <1>7, <3>2 DEF Fatal
        <4>2. late # {} => NoReset
          BY <1>0, <1>2, <1>7, <3>2, <4>1 DEF UcsiInv, RestInv
        <4>3. "RC" \in cci => late = {}
          BY <4>1, <4>2 DEF NoReset
        <4> QED
          BY <4>1, <4>3
      <3> QED
        BY <1>0, <3>1, <3>2
    <2> QED
      BY <1>0, <2>1 DEF RestInv, PpmIdle
  <1> QED
    BY <1>0, <1>6, <1>7, ArrivesIdle

LEMMA OpenSessionInv == UcsiInv /\ open_session => UcsiInv'
  <1> SUFFICES ASSUME UcsiInv, open_session PROVE UcsiInv'
    OBVIOUS
  <1>0. /\ op = "closed" /\ opens < MaxOpens /\ opens' = opens + 1 /\ op' = "prewarm"
        /\ pc' = Entry(Prewarm[1]) /\ rd' = {} /\ ucsi_prewarmed' = FALSE
        /\ UNCHANGED <<step, ret, polls, old_cci, faults, upset,
                       cci, control, exec, mask, late, outcome, acked>>
        /\ TypeOK /\ PlaceInv /\ CciInv /\ PrewarmInv
    BY DEF open_session, UcsiInv, ppm
  <1>1. pc' = "version" /\ step' = 1 /\ Running'
    BY <1>0, Sequences DEF Entry, PlaceInv, Running
  <1>2. Base'
    <2>1. opens' \in 0 .. MaxOpens
      BY <1>0 DEF TypeOK
    <2>2. TypeOK'
      BY <1>0, <1>1, <2>1 DEF TypeOK
    <2>3. PlaceInv'
      <3>1. 1 \in DOMAIN Prog'
        BY <1>0, Sequences DEF Prog
      <3> QED
        BY <1>0, <1>1, <3>1 DEF PlaceInv
    <2>4. CciInv' /\ PrewarmInv'
      BY <1>0 DEF CciInv, PrewarmInv
    <2> QED
      BY <2>2, <2>3, <2>4 DEF Base
  <1>3. ASSUME Calm' PROVE RestInv'
    <2>1. PpmIdle /\ ("RC" \in cci => late \subseteq {{"RC"}})
      BY <1>0, <1>3 DEF UcsiInv, Calm, RestInv
    <2> QED
      BY <1>0, <1>1, <2>1 DEF RestInv, PpmIdle
  <1> QED
    BY <1>1, <1>2, <1>3, Arrives

LEMMA EnablePanInv == UcsiInv /\ enable_pan => UcsiInv'
  <1> SUFFICES ASSUME UcsiInv, enable_pan PROVE UcsiInv'
    OBVIOUS
  <1>0. /\ op = "pan"
        /\ UNCHANGED <<rd, late>> \/ (rd' \in late /\ late' = {})
        /\ (op' = "discover" /\ pc' = Entry(Discover[1])) \/ (op' = "closed" /\ pc' = pc)
        /\ UNCHANGED <<step, ret, polls, old_cci, ucsi_prewarmed, opens, faults, upset,
                       control, exec, outcome, acked, cci, mask>>
        /\ TypeOK /\ PlaceInv /\ CciInv /\ PrewarmInv
    BY DEF enable_pan, UcsiInv, NoWrite
  <1>1. step = 1 /\ pc = "idle" /\ ret = "ok"
    BY <1>0 DEF PlaceInv, Running
  <1>2. (op' = "discover" /\ pc' = "reset") \/ (op' = "closed" /\ pc' = "idle")
    BY <1>0, <1>1, Sequences DEF Entry
  <1>3. rd' \subseteq Flags /\ late' \subseteq late
    BY <1>0 DEF TypeOK
  <1>4. Base'
    <2>1. TypeOK'
      BY <1>0, <1>2, <1>3 DEF TypeOK
    <2>2. PlaceInv'
      <3>1. op' = "discover" => 1 \in DOMAIN Prog' /\ Cmd' = "PPM_RESET"
        BY <1>0, <1>1, Sequences DEF Prog, Cmd
      <3> QED
        BY <1>0, <1>1, <1>2, <3>1 DEF PlaceInv, Running
    <2>3. CciInv' /\ PrewarmInv'
      BY <1>0, <1>2 DEF CciInv, PrewarmInv
    <2> QED
      BY <2>1, <2>2, <2>3 DEF Base
  <1>5. ASSUME Calm' PROVE RestInv'
    <2>1. PpmIdle /\ ("RC" \in cci => late \subseteq {{"RC"}})
      BY <1>0, <1>5 DEF UcsiInv, Calm, RestInv
    <2>2. PpmIdle' /\ ("RC" \in cci => late' \subseteq {{"RC"}})
      BY <1>0, <1>3, <2>1 DEF PpmIdle
    <2> QED
      BY <1>0, <1>2, <2>2 DEF RestInv
  <1>6. CASE op' = "discover" /\ pc' = "reset"
    <2>1. Running'
      BY <1>6 DEF Running
    <2> QED
      BY <1>4, <1>5, <1>6, <2>1, Arrives
  <1>7. CASE op' = "closed" /\ pc' = "idle"
    BY <1>4, <1>5, <1>7, ArrivesIdle
  <1> QED
    BY <1>2, <1>6, <1>7

-----------------------------------------------------------------------------
(* The PPM. *)
LEMMA PpmBase ==
  ASSUME UcsiInv, UNCHANGED client, UNCHANGED late,
         cci' \subseteq Flags, control' \subseteq Written, exec' \subseteq Written,
         \A c, d \in control' : c = d, \A c, d \in exec' : c = d,
         mask' \in {"none", "some", "all"}, outcome' \in {"none", "done", "refused"},
         acked' \in BOOLEAN, upset' \in {upset, upset \cup {"refused"}},
         CciInv', "refused" \notin upset' => outcome' # "refused",
         Calm /\ op = "pan" /\ mask = "all" => mask' = "all"
  PROVE  /\ Base' /\ (Calm' => Calm) /\ Cmd' = Cmd
         /\ UNCHANGED <<op, step, pc, ret, polls, old_cci, rd>>
  <1>0. /\ UNCHANGED <<op, step, pc, ret, polls, old_cci, rd, ucsi_prewarmed, opens, faults, late>>
        /\ TypeOK /\ PlaceInv /\ PrewarmInv
    BY DEF client, UcsiInv
  <1>1. Cmd' = Cmd /\ Prog' = Prog /\ (Running' <=> Running)
    BY <1>0 DEF Cmd, Prog, Running
  <1>2. TypeOK'
    BY <1>0 DEF TypeOK, Upsets
  <1>3. PlaceInv'
    BY <1>0, <1>1 DEF PlaceInv
  <1>4. PrewarmInv'
    BY <1>0 DEF PrewarmInv, Calm
  <1>5. Calm' => Calm
    BY DEF Calm
  <1> QED
    BY <1>0, <1>1, <1>2, <1>3, <1>4, <1>5 DEF Base

LEMMA PpmTakesInv == UcsiInv /\ PpmTakes => UcsiInv'
  <1> SUFFICES ASSUME UcsiInv, PpmTakes PROVE UcsiInv'
    OBVIOUS
  <1>0. /\ control # {} /\ (exec = {} \/ \E c \in control : c.cmd = "PPM_RESET")
        /\ exec' = control /\ control' = {} /\ cci' \in {cci, {"BUSY"}}
        /\ UNCHANGED <<client, mask, late, outcome, acked, upset>>
        /\ TypeOK /\ PlaceInv /\ CciInv /\ PrewarmInv
    BY DEF PpmTakes, UcsiInv
  <1>1. /\ Base' /\ (Calm' => Calm) /\ Cmd' = Cmd
        /\ UNCHANGED <<op, step, pc, ret, polls, old_cci, rd>>
    <2>1. "RC" \in cci' => cci' = cci
      BY <1>0
    <2>2. CciInv'
      BY <1>0, <2>1 DEF CciInv
    <2>3. cci' \subseteq Flags
      BY <1>0 DEF TypeOK, Flags
    <2>4. control' \subseteq Written /\ exec' \subseteq Written
          /\ (\A c, d \in control' : c = d) /\ \A c, d \in exec' : c = d
      BY <1>0 DEF TypeOK, PlaceInv
    <2>5. mask' \in {"none", "some", "all"} /\ outcome' \in {"none", "done", "refused"}
          /\ acked' \in BOOLEAN /\ ("refused" \notin upset' => outcome' # "refused")
      BY <1>0 DEF TypeOK, PrewarmInv
    <2> QED
      BY <1>0, <2>2, <2>3, <2>4, <2>5, PpmBase
  <1>2. ~PpmIdle /\ ~PpmIdle' /\ Reads' \subseteq Reads \cup {{"BUSY"}}
    BY <1>0 DEF PpmIdle, Reads
  <1>3. \A cmds : Only(cmds) => Only(cmds)'
    BY <1>0 DEF Only
  <1>4. ASSUME Calm
        PROVE  RestInv /\ ClearInv /\ ResetInv /\ BeforeInv /\ MaskInv /\ WaitInv /\ AckInv /\ OkInv
    BY <1>4 DEF UcsiInv
  <1> SUFFICES ASSUME Calm'
               PROVE  RestInv' /\ ClearInv' /\ ResetInv' /\ BeforeInv' /\ MaskInv' /\ WaitInv'
                      /\ AckInv' /\ OkInv'
    BY <1>1 DEF UcsiInv, Base
  <1>5. RestInv'
    <2>1. NoReset => NoReset'
      BY <1>0, <1>2 DEF NoReset
    <2> QED
      BY <1>0, <1>1, <1>2, <1>4, <2>1 DEF RestInv
  <1>6. ClearInv'
    <2>1. "RC" \in cci' => cci' = cci
      BY <1>0
    <2>2. pc \in {"clearack", "issue"} => \A x \in Reads' : "RC" \notin x
      BY <1>1, <1>2, <1>4 DEF ClearInv
    <2> QED
      BY <1>0, <1>1, <1>2, <1>3, <1>4, <2>1, <2>2 DEF ClearInv
  <1>7. ResetInv'
    <2> SUFFICES ASSUME pc = "poll" PROVE ResetInv'
      BY <1>1 DEF ResetInv
    <2>1. ResetInv
      BY <1>1, <1>4
    <2>2. \A x \in Reads' : "RC" \in x => outcome = "done" /\ x = {"RC"}
      BY <1>2, <2>1 DEF ResetInv
    <2>3. \A c \in exec' : c.cmd = "PPM_RESET" /\ c.cur
      BY <1>0, <2>1 DEF ResetInv
    <2>4. outcome = "done" => cci' = {"RC"} \/ (cci' = {"BUSY"} /\ exec' # {})
      BY <1>0, <2>1 DEF ResetInv
    <2> QED
      BY <1>0, <1>1, <1>2, <2>1, <2>2, <2>3, <2>4 DEF ResetInv
  <1>8. BeforeInv'
    <2>1. Before' <=> Before
      BY <1>1 DEF Before
    <2> QED
      BY <1>0, <1>1, <1>2, <1>3, <1>4, <2>1 DEF BeforeInv
  <1>9. MaskInv'
    <2>1. "CHG" \in cci' => "CHG" \in cci
      BY <1>0
    <2> QED
      BY <1>0, <1>1, <1>4, <2>1 DEF MaskInv
  <1>10. WaitInv'
    <2> SUFFICES ASSUME pc = "wait" PROVE WaitInv'
      BY <1>1 DEF WaitInv
    <2> DEFINE w == [cmd |-> Cmd, cur |-> TRUE]
    <2>1. outcome = "none" /\ control = {w} /\ old_cci \in {{"RC"}, {"NS"}, {"ACK"}}
          /\ \A x \in Reads : x \in {old_cci, {"BUSY"}}
      BY <1>0, <1>1, <1>2, <1>4 DEF WaitInv
    <2>2. \A x \in Reads' : x \in {old_cci', {"BUSY"}}
      BY <1>1, <1>2, <2>1
    <2>3. exec' = {[cmd |-> Cmd', cur |-> TRUE]} /\ control' = {}
      BY <1>0, <1>1, <2>1
    <2> QED
      BY <1>0, <1>1, <2>1, <2>2, <2>3 DEF WaitInv
  <1>11. AckInv'
    <2>1. pc # "ack"
      BY <1>1, <1>2, <1>4 DEF AckInv
    <2> SUFFICES ASSUME pc = "ackwait" PROVE AckInv'
      BY <1>1, <2>1 DEF AckInv
    <2>2. AckInv /\ ~acked
      BY <1>1, <1>2, <1>4 DEF AckInv
    <2>3. cci' \ {"CHG"} \in Completions \cup {{"BUSY"}}
      <3>1. {"BUSY"} \ {"CHG"} = {"BUSY"}
        OBVIOUS
      <3> QED
        BY <1>0, <2>2, <3>1 DEF AckInv
    <2> QED
      BY <1>0, <1>1, <1>2, <2>1, <2>2, <2>3 DEF AckInv
  <1>12. OkInv'
    BY <1>0, <1>1, <1>2, <1>4 DEF OkInv
  <1> QED
    BY <1>5, <1>6, <1>7, <1>8, <1>9, <1>10, <1>11, <1>12

LEMMA ConnectorChangeInv == UcsiInv /\ ConnectorChange => UcsiInv'
  <1> SUFFICES ASSUME UcsiInv, ConnectorChange PROVE UcsiInv'
    OBVIOUS
  <1>0. /\ mask = "all" /\ cci' = cci \cup {"CHG"}
        /\ UNCHANGED <<client, control, exec, mask, late, outcome, acked, upset>>
        /\ TypeOK /\ PlaceInv /\ CciInv /\ PrewarmInv
    BY DEF ConnectorChange, UcsiInv
  <1>2. "RC" \notin cci /\ "RC" \notin cci' /\ cci' \ {"CHG"} = cci \ {"CHG"}
    BY <1>0 DEF CciInv
  <1>1. /\ Base' /\ (Calm' => Calm) /\ Cmd' = Cmd
        /\ UNCHANGED <<op, step, pc, ret, polls, old_cci, rd>>
    <2>1. CciInv' /\ cci' \subseteq Flags
      BY <1>0, <1>2 DEF CciInv, TypeOK, Flags
    <2>2. control' \subseteq Written /\ exec' \subseteq Written
          /\ (\A c, d \in control' : c = d) /\ \A c, d \in exec' : c = d
      BY <1>0 DEF TypeOK, PlaceInv
    <2>3. mask' \in {"none", "some", "all"} /\ outcome' \in {"none", "done", "refused"}
          /\ acked' \in BOOLEAN /\ ("refused" \notin upset' => outcome' # "refused")
      BY <1>0 DEF TypeOK, PrewarmInv
    <2> QED
      BY <1>0, <2>1, <2>2, <2>3, PpmBase
  <1>3. (PpmIdle' <=> PpmIdle) /\ \A cmds : Only(cmds) => Only(cmds)'
    BY <1>0 DEF Only, PpmIdle
  <1>4. ASSUME Calm
        PROVE  RestInv /\ ClearInv /\ ResetInv /\ BeforeInv /\ MaskInv /\ WaitInv /\ AckInv /\ OkInv
    BY <1>4 DEF UcsiInv
  <1> SUFFICES ASSUME Calm'
               PROVE  RestInv' /\ ClearInv' /\ ResetInv' /\ BeforeInv' /\ MaskInv' /\ WaitInv'
                      /\ AckInv' /\ OkInv'
    BY <1>1 DEF UcsiInv, Base
  <1>5. RestInv'
    <2>1. NoReset => NoReset'
      BY <1>0, <1>2, <1>3 DEF NoReset
    <2> QED
      BY <1>0, <1>1, <1>2, <1>3, <1>4, <2>1 DEF RestInv
  <1>6. ClearInv'
    <2>1. pc \in {"clearack", "issue"} => \A x \in Reads' : "RC" \notin x
      BY <1>0, <1>1, <1>2, <1>4 DEF ClearInv, Reads
    <2>2. ~(op = "prewarm" /\ pc \in {"clear", "clearwait"})
      BY <1>0, <1>1, <1>2, <1>4 DEF ClearInv
    <2> QED
      BY <1>0, <1>1, <1>2, <1>3, <1>4, <2>1, <2>2 DEF ClearInv
  <1>7. ResetInv'
    <2> SUFFICES ASSUME pc = "poll" PROVE ResetInv'
      BY <1>1 DEF ResetInv
    <2>1. ResetInv /\ outcome = "none"
      BY <1>0, <1>1, <1>4 DEF ResetInv
    <2>2. \A x \in Reads' : "RC" \in x => outcome = "done" /\ x = {"RC"}
      BY <1>0, <1>2, <2>1 DEF ResetInv, Reads
    <2> QED
      BY <1>0, <1>1, <1>3, <2>1, <2>2 DEF ResetInv
  <1>8. BeforeInv'
    <2>1. Before' <=> Before
      BY <1>1 DEF Before
    <2> QED
      BY <1>0, <1>1, <1>4, <2>1 DEF BeforeInv
  <1>9. MaskInv'
    BY <1>0, <1>1, <1>4 DEF MaskInv
  <1>10. WaitInv'
    <2>1. pc = "wait" => outcome # "none"
      BY <1>0, <1>1, <1>4 DEF MaskInv
    <2> QED
      BY <1>0, <1>1, <1>2, <1>3, <1>4, <2>1 DEF WaitInv
  <1>11. AckInv'
    <2>1. pc = "ack" => \A x \in Reads' : x \ {"CHG"} \in Completions
      BY <1>0, <1>1, <1>2, <1>4 DEF AckInv, Reads
    <2> QED
      BY <1>0, <1>1, <1>2, <1>3, <1>4, <2>1 DEF AckInv
  <1>12. OkInv'
    BY <1>0, <1>1, <1>3, <1>4 DEF OkInv
  <1> QED
    BY <1>5, <1>6, <1>7, <1>8, <1>9, <1>10, <1>11, <1>12

(* The PPM is done with a command. *)
LEMMA FinishInv ==
  ASSUME UcsiInv, NEW c \in exec, NEW flags \in SUBSET Flags, NEW m \in {"none", "some", "all"},
         NEW result \in {"done", "refused"}, Finish(c, flags, m, result),
         upset' \in {upset, upset \cup {"refused"}},
         result = "refused" => "refused" \in upset',
         c.cmd = "PPM_RESET" => flags = {"RC"} /\ m = "none" /\ result = "done",
         c.cmd # "PPM_RESET" => "RC" \notin flags,
         c.cmd \in Acks => flags \ {"CHG"} = {"ACK"} /\ m = mask,
         c.cmd \notin Acks \cup {"PPM_RESET"} => flags \ {"CHG"} \in Completions,
         "CHG" \in flags => "CHG" \in cci,
         m = "all" => mask = "all" \/ c.cmd = "NOTIFY2",
         c.cmd = "NOTIFY2" /\ result = "done" => m = "all",
         c.cmd = "NOTIFY0" => m \in {"none", mask}
  PROVE  UcsiInv'
  <1>0. /\ exec = {c} /\ exec' = {} /\ cci' = flags /\ mask' = m
        /\ outcome' = IF c.cur /\ c.cmd \notin Acks THEN result ELSE outcome
        /\ acked' = (acked \/ (c.cur /\ c.cmd \in Acks))
        /\ UNCHANGED <<client, control, late>>
        /\ TypeOK /\ PlaceInv /\ CciInv /\ PrewarmInv
        /\ ~PpmIdle
    BY DEF Finish, UcsiInv, PpmIdle
  <1>p. Calm => ~(op \in {"closed", "pan"})
    BY <1>0 DEF UcsiInv, RestInv
  <1>1. /\ Base' /\ (Calm' => Calm) /\ Cmd' = Cmd
        /\ UNCHANGED <<op, step, pc, ret, polls, old_cci, rd>>
    <2>1. CciInv'
      BY <1>0 DEF CciInv
    <2>2. control' \subseteq Written /\ exec' \subseteq Written
          /\ (\A x, y \in control' : x = y) /\ \A x, y \in exec' : x = y
      BY <1>0 DEF TypeOK, PlaceInv
    <2>3. outcome' \in {"none", "done", "refused"}
          /\ acked' \in BOOLEAN /\ ("refused" \notin upset' => outcome' # "refused")
      BY <1>0 DEF TypeOK, PrewarmInv
    <2>4. UNCHANGED client /\ UNCHANGED late /\ mask' \in {"none", "some", "all"}
          /\ cci' \subseteq Flags
      BY <1>0
    <2> QED
      BY <1>p, <2>1, <2>2, <2>3, <2>4, PpmBase
  <1>3. PpmIdle' <=> control = {}
    BY <1>0 DEF PpmIdle
  <1>o. \A cmds : Only(cmds) => Only(cmds)' /\ c.cmd \in cmds
    BY <1>0 DEF Only
  <1>a. "PPM_RESET" \notin Acks /\ "NOTIFY0" \notin Acks
    BY DEF Acks
  <1>4. ASSUME Calm
        PROVE  RestInv /\ ClearInv /\ ResetInv /\ BeforeInv /\ MaskInv /\ WaitInv /\ AckInv /\ OkInv
    BY <1>4 DEF UcsiInv
  <1> SUFFICES ASSUME Calm'
               PROVE  RestInv' /\ ClearInv' /\ ResetInv' /\ BeforeInv' /\ MaskInv' /\ WaitInv'
                      /\ AckInv' /\ OkInv'
    BY <1>1 DEF UcsiInv, Base
  <1>5. RestInv'
    <2>1. NoReset => NoReset'
      BY <1>0, <1>3 DEF NoReset
    <2> QED
      BY <1>0, <1>1, <1>4, <2>1 DEF RestInv
  <1>6. ClearInv'
    <2>1. pc # "clear"
      BY <1>0, <1>1, <1>4 DEF ClearInv
    <2>2. ASSUME pc = "clearwait" PROVE ClearInv'
      <3>1. c.cmd = "NOTIFY0" /\ Only({"NOTIFY0"})'
        BY <1>1, <1>4, <1>o, <2>2 DEF ClearInv
      <3>2. "RC" \notin cci' /\ cci' \ {"CHG"} \in Completions
        BY <1>0, <1>a, <3>1
      <3>3. ASSUME op = "prewarm"
            PROVE  mask' = "none" /\ cci' \in Completions /\ polls # MaxPolls - 1
        <4>1. mask = "none" /\ cci \in Completions \cup {{"RC"}, {"BUSY"}} /\ polls # MaxPolls - 1
          BY <1>0, <1>1, <1>4, <2>2, <3>3 DEF ClearInv
        <4>2. "CHG" \notin cci'
          BY <1>0, <4>1 DEF Completions
        <4>3. cci' \ {"CHG"} = cci'
          BY <4>2
        <4> QED
          BY <1>0, <3>1, <3>2, <4>1, <4>3
      <3> QED
        BY <1>1, <2>2, <3>1, <3>2, <3>3 DEF ClearInv
    <2>3. ASSUME pc \in {"clearack", "issue"} PROVE ClearInv'
      <3>1. c.cmd # "PPM_RESET" /\ Only({"NOTIFY0", "ACK_CC"})' /\ \A x \in Reads : "RC" \notin x
        BY <1>1, <1>4, <1>o, <2>3 DEF ClearInv
      <3>2. \A x \in Reads' : "RC" \notin x
        BY <1>0, <3>1 DEF Reads
      <3> QED
        BY <1>1, <2>3, <3>1, <3>2 DEF ClearInv
    <2> QED
      BY <1>1, <2>1, <2>2, <2>3 DEF ClearInv
  <1>7. ResetInv'
    <2> SUFFICES ASSUME pc = "poll" PROVE ResetInv'
      BY <1>1 DEF ResetInv
    <2>0. ResetInv
      BY <1>1, <1>4
    <2>1. CASE c.cmd = "PPM_RESET" /\ c.cur
      <3>1. outcome' = "done" /\ cci' = {"RC"} /\ mask' = "none"
        BY <1>0, <1>a, <2>1
      <3>2. \A x \in Reads' : "RC" \in x => x = {"RC"}
        BY <1>0, <2>0, <3>1 DEF ResetInv, Reads
      <3> QED
        BY <1>0, <1>1, <2>0, <3>1, <3>2 DEF ResetInv
    <2>2. CASE c.cmd # "PPM_RESET" /\ ~c.cur /\ outcome = "none" /\ control # {}
      <3>1. outcome' = "none" /\ "RC" \notin cci'
        BY <1>0, <2>2
      <3>2. \A x \in Reads' : "RC" \notin x
        BY <1>0, <2>0, <2>2, <3>1 DEF ResetInv, Reads
      <3> QED
        BY <1>0, <1>1, <1>3, <2>0, <2>2, <3>1, <3>2 DEF ResetInv
    <2> QED
      BY <2>0, <2>1, <2>2 DEF ResetInv
  <1>8. BeforeInv'
    <2>1. Before' <=> Before
      BY <1>1 DEF Before
    <2> SUFFICES ASSUME Before PROVE BeforeInv'
      BY <2>1 DEF BeforeInv
    <2>2. BeforeInv /\ rd = {"RC"}
      BY <1>0, <1>1, <1>4 DEF BeforeInv
    <2>3. c.cmd = "PPM_RESET" /\ Only({"PPM_RESET"})'
      BY <1>o, <2>2 DEF BeforeInv
    <2>4. cci' = {"RC"} /\ mask' = "none"
      BY <1>0, <2>3
    <2>5. \A x \in Reads' : x \in {rd, {"BUSY"}}
      BY <1>0, <2>2, <2>4 DEF BeforeInv, Reads
    <2> QED
      BY <1>1, <2>2, <2>3, <2>4, <2>5 DEF BeforeInv
  <1>9. pc # "ack" /\ ~(pc = "next" /\ ret = "ok" /\ Cmd = "NOTIFY2")
    BY <1>0, <1>1, <1>4 DEF AckInv, OkInv
  <1>10. ASSUME pc = "wait" PROVE MaskInv' /\ WaitInv'
    <2> DEFINE w == [cmd |-> Cmd, cur |-> TRUE]
    <2>1. WaitInv /\ MaskInv /\ outcome = "none" /\ mask # "all" /\ "CHG" \notin cci
      BY <1>0, <1>1, <1>4, <1>10 DEF WaitInv, MaskInv
    <2>2. /\ old_cci \in {{"RC"}, {"NS"}, {"ACK"}}
          /\ \A x \in Reads : x \in {old_cci, {"BUSY"}}
          /\ \/ /\ control = {w} /\ c.cmd = "PPM_RESET" /\ ~c.cur /\ old_cci = {"RC"}
             \/ control = {} /\ c = w
      BY <1>0, <1>10, <2>1 DEF WaitInv
    <2>3. "CHG" \notin cci'
      BY <1>0, <2>1
    <2>4. CASE control = {w} /\ c.cmd = "PPM_RESET" /\ ~c.cur /\ old_cci = {"RC"}
      <3>1. outcome' = "none" /\ mask' = "none" /\ cci' = {"RC"}
        BY <1>0, <2>1, <2>4
      <3>2. MaskInv'
        BY <2>3, <3>1 DEF MaskInv
      <3>3. \A x \in Reads' : x \in {old_cci', {"BUSY"}}
        BY <1>0, <1>1, <2>2, <2>4, <3>1 DEF Reads
      <3>4. control' = {[cmd |-> Cmd', cur |-> TRUE]} /\ exec' = {}
        BY <1>0, <1>1, <2>4
      <3> QED
        BY <1>1, <2>2, <3>1, <3>2, <3>3, <3>4 DEF WaitInv
    <2>5. CASE control = {} /\ c = w
      <3>1. c.cmd = Cmd /\ c.cur
        BY <2>5
      <3>2. Cmd \notin Acks /\ Cmd # "PPM_RESET"
        <4>1. Cmd \in Commands
          BY <1>0, <1>10 DEF PlaceInv
        <4> QED
          BY <4>1, CommandSet DEF Acks
      <3>3. outcome' = result /\ cci' \ {"CHG"} \in Completions
        BY <1>0, <3>1, <3>2
      <3>4. mask' = "all" => Cmd = "NOTIFY2"
        BY <1>0, <2>1, <3>1
      <3>5. Cmd = "NOTIFY2" /\ result = "done" => mask' = "all"
        BY <1>0, <3>1
      <3>6. MaskInv'
        BY <1>1, <2>3, <3>3, <3>4, <3>5 DEF MaskInv
      <3> QED
        BY <1>1, <1>3, <2>2, <2>5, <3>3, <3>6 DEF WaitInv
    <2> QED
      BY <2>2, <2>4, <2>5
  <1>11. ASSUME pc = "ackwait" PROVE MaskInv' /\ AckInv'
    <2>1. AckInv /\ MaskInv /\ ~acked
      BY <1>0, <1>1, <1>4, <1>11 DEF AckInv
    <2>2. /\ c.cmd \in Acks /\ c.cur /\ control = {} /\ outcome # "none"
          /\ \A x \in late : "ACK" \notin x
      BY <1>0, <1>11, <2>1 DEF AckInv
    <2>3. outcome' = outcome /\ mask' = mask /\ cci' \ {"CHG"} = {"ACK"} /\ acked'
      BY <1>0, <2>2
    <2>4. MaskInv'
      BY <1>0, <1>1, <1>11, <2>1, <2>3 DEF MaskInv
    <2> QED
      BY <1>0, <1>1, <1>3, <1>11, <2>2, <2>3, <2>4 DEF AckInv
  <1>12. OkInv'
    BY <1>0, <1>1, <1>4 DEF OkInv
  <1>13. MaskInv' /\ WaitInv' /\ AckInv'
    <2>1. pc \notin {"wait", "ackwait"} => MaskInv'
      BY <1>1, <1>9 DEF MaskInv
    <2>2. pc # "wait" => WaitInv'
      BY <1>1 DEF WaitInv
    <2>3. pc # "ackwait" => AckInv'
      BY <1>1, <1>9 DEF AckInv
    <2> QED
      BY <1>10, <1>11, <2>1, <2>2, <2>3
  <1> QED
    BY <1>5, <1>6, <1>7, <1>8, <1>12, <1>13

LEMMA PpmCompletesInv == UcsiInv /\ PpmCompletes => UcsiInv'
  <1> SUFFICES ASSUME UcsiInv, PpmCompletes PROVE UcsiInv'
    OBVIOUS
  <1> DEFINE chg(c) == IF c.cmd \in {"PPM_RESET", "ACK_CC_CI"} THEN {} ELSE cci \cap {"CHG"}
             flag(c) == CASE c.cmd = "PPM_RESET" -> "RC"
                          [] c.cmd \in Acks -> "ACK"
                          [] OTHER -> "CC"
  <1>1. PICK c \in exec : Finish(c, chg(c) \cup {flag(c)}, MaskAfter(c.cmd), "done") /\ UNCHANGED upset
    BY DEF PpmCompletes
  <1>2. /\ c.cmd = "PPM_RESET" => flag(c) = "RC" /\ chg(c) = {}
        /\ c.cmd \in Acks => flag(c) = "ACK"
        /\ c.cmd \notin Acks \cup {"PPM_RESET"} => flag(c) = "CC"
        /\ chg(c) \subseteq {"CHG"} /\ chg(c) \subseteq cci
        /\ flag(c) \in {"RC", "ACK", "CC"}
    BY DEF Acks
  <1>3. /\ MaskAfter(c.cmd) \in {"none", "some", "all"}
        /\ c.cmd = "PPM_RESET" => MaskAfter(c.cmd) = "none"
        /\ c.cmd \in Acks => MaskAfter(c.cmd) = mask
        /\ MaskAfter(c.cmd) = "all" => mask = "all" \/ c.cmd = "NOTIFY2"
        /\ c.cmd = "NOTIFY2" => MaskAfter(c.cmd) = "all"
        /\ c.cmd = "NOTIFY0" => MaskAfter(c.cmd) = "none"
    BY DEF MaskAfter, Acks, UcsiInv, TypeOK
  <1> DEFINE flags == chg(c) \cup {flag(c)}
  <1> HIDE DEF chg, flag
  <1>4. /\ flags \in SUBSET Flags
        /\ c.cmd = "PPM_RESET" => flags = {"RC"}
        /\ c.cmd # "PPM_RESET" => "RC" \notin flags
        /\ c.cmd \in Acks => flags \ {"CHG"} = {"ACK"}
        /\ c.cmd \notin Acks \cup {"PPM_RESET"} => flags \ {"CHG"} = {"CC"}
        /\ "CHG" \in flags => "CHG" \in cci
    BY <1>2 DEF Flags
  <1>5. c.cmd \notin Acks \cup {"PPM_RESET"} => flags \ {"CHG"} \in Completions
    BY <1>4 DEF Completions
  <1> HIDE DEF flags
  <1>6. Finish(c, flags, MaskAfter(c.cmd), "done") /\ upset' = upset
    BY <1>1 DEF flags
  <1> QED
    BY <1>3, <1>4, <1>5, <1>6, FinishInv

LEMMA PpmFailsInv == UcsiInv /\ PpmFails => UcsiInv'
  <1> SUFFICES ASSUME UcsiInv, PpmFails PROVE UcsiInv'
    OBVIOUS
  <1>1. PICK c \in exec, flags \in {{"CC", "ERR"}, {"NS"}} :
          c.cmd \notin Acks \cup {"PPM_RESET"} /\ Finish(c, flags, mask, "refused")
    BY DEF PpmFails
  <1>2. flags \in SUBSET Flags /\ "RC" \notin flags /\ "CHG" \notin flags
    BY DEF Flags
  <1>3. flags \ {"CHG"} \in Completions
    <2>1. flags \ {"CHG"} = flags
      BY <1>2
    <2> QED
      BY <2>1 DEF Completions
  <1>4. upset' = upset \cup {"refused"} /\ "refused" \in upset' /\ mask \in {"none", "some", "all"}
    BY DEF PpmFails, UcsiInv, TypeOK
  <1> QED
    BY <1>1, <1>2, <1>3, <1>4, FinishInv

LEMMA UnchangedUcsi == UcsiInv /\ UNCHANGED vars => UcsiInv'
  <1> SUFFICES ASSUME UcsiInv, UNCHANGED vars PROVE UcsiInv'
    OBVIOUS
  <1>1. /\ UNCHANGED <<op, step, pc, ret, polls, old_cci, rd, ucsi_prewarmed, opens, faults>>
        /\ UNCHANGED <<cci, control, exec, mask, late, outcome, acked, upset>>
    BY DEF vars, client, ppm
  <1>2. Cmd' = Cmd /\ Prog' = Prog /\ (Running' <=> Running) /\ (Calm' <=> Calm)
        /\ Reads' = Reads /\ (PpmIdle' <=> PpmIdle) /\ (Before' <=> Before)
        /\ (NoReset' <=> NoReset) /\ \A cmds : Only(cmds)' <=> Only(cmds)
    BY <1>1 DEF Cmd, Prog, Running, Calm, Reads, PpmIdle, Before, NoReset, Only
  <1>3. TypeOK'
    BY <1>1 DEF UcsiInv, TypeOK
  <1>4. PlaceInv' /\ CciInv' /\ PrewarmInv'
    BY <1>1, <1>2 DEF UcsiInv, PlaceInv, CciInv, PrewarmInv
  <1>5. Calm' => RestInv' /\ ClearInv' /\ ResetInv' /\ BeforeInv'
    BY <1>1, <1>2 DEF UcsiInv, RestInv, ClearInv, ResetInv, BeforeInv
  <1>6. Calm' => MaskInv' /\ WaitInv' /\ AckInv' /\ OkInv'
    BY <1>1, <1>2 DEF UcsiInv, MaskInv, WaitInv, AckInv, OkInv
  <1> QED
    BY <1>3, <1>4, <1>5, <1>6 DEF UcsiInv

-----------------------------------------------------------------------------
(* The invariant behind the UCSI sequences holds for any number of polls,  *)
(* attempts and failed transfers: at every place of qpg_send_ucsi_command, *)
(* qpg_send_ucsi_ppm_reset and the sequences around them it says what the  *)
(* PPM may still execute and what the next two reads may answer.           *)
THEOREM UcsiInvariant == Spec => []UcsiInv
  <1>1. UcsiInv /\ [Next]_vars => UcsiInv'
    <2> SUFFICES ASSUME UcsiInv, [Next]_vars PROVE UcsiInv'
      OBVIOUS
    <2>1. CASE Command
      BY <2>1, SendCommandInv, WaitUcsiCciInv, SendAckInv, WaitAckInv, PollFailsInv DEF Command
    <2>2. CASE Reset
      BY <2>2, ResetReadInv, ClearSendInv, ClearWaitInv, ClearAckInv, ResetIssueInv,
         ResetPollInv, ReissueFailsInv, PollFailsInv DEF Reset
    <2>3. CASE read_version \/ SeqGoesOn \/ SeqEnds \/ open_session \/ enable_pan
      BY <2>3, ReadVersionInv, SeqGoesOnInv, SeqEndsInv, OpenSessionInv, EnablePanInv
    <2>4. CASE PpmNext
      BY <2>4, PpmTakesInv, PpmCompletesInv, PpmFailsInv, ConnectorChangeInv DEF PpmNext
    <2>5. CASE UNCHANGED vars
      BY <2>5, UnchangedUcsi
    <2> QED
      BY <2>1, <2>2, <2>3, <2>4, <2>5 DEF Next, ClientNext
  <1> QED
    BY InitUcsiInv, <1>1, PTL DEF Spec

(* A command or a PPM_RESET that returned 0 was executed by the PPM and,   *)
(* for a command, its acknowledgement was seen: the comparison with the    *)
(* CCI before the command (qpg_wait_ucsi_cci) and the clearing of a stale  *)
(* RESET_COMPLETE (qpg_send_ucsi_ppm_reset) keep completions that were     *)
(* left over, or came late, from passing for its own.                      *)
THEOREM CompletionsAreOurs == Spec => []CompletionIsOurs
  <1>1. UcsiInv => CompletionIsOurs
    BY DEF UcsiInv, OkInv, CompletionIsOurs
  <1> QED
    BY UcsiInvariant, <1>1, PTL

(* After a prewarm that succeeded and in which the PPM refused nothing,    *)
(* its notifications are all enabled when PAN_EN is sent                   *)
(* (qpg_ucsi_prewarm sets ucsi_prewarmed).                                 *)
THEOREM PrewarmEnables == Spec => []PrewarmedMeansEnabled
  <1>1. UcsiInv => PrewarmedMeansEnabled
    BY DEF UcsiInv, PrewarmInv, PrewarmedMeansEnabled
  <1> QED
    BY UcsiInvariant, <1>1, PTL
=============================================================================
