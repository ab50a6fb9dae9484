------------------------------ MODULE TftpGet -------------------------------
(***************************************************************************)
(* Reading a file with TFTP: net/tftp.c as tftpboot uses it, with windows  *)
(* (RFC 7440), and the restart of net_loop (net/net.c).  The server and    *)
(* the network are external.  A behaviour runs on one of two networks: a   *)
(* "lossy" one loses datagrams and is faster than the timers; a "wild" one *)
(* duplicates and reorders them, however the timers run, but delivers none *)
(* that is more than MaxAge blocks old.                                    *)
(*                                                                         *)
(* Blocks are numbered from 1 in the file and modulo SeqSize on the wire;  *)
(* a message carries the former, the handlers look at the latter.  Memory  *)
(* and offsets count in blocks.  The last block of a file is a short one.  *)
(* Each request makes the server answer from a port of its own; a restart  *)
(* uses another port of ours, so nothing sent before reaches the handler.  *)
(* There is one Ethernet interface and "ethrotate" is not "no": the        *)
(* rotation comes back to the same interface (net_restart_wrap), so a      *)
(* failure that net_loop sees is final.  With "ethrotate" set to "no" it   *)
(* would be tried again as often as "netretry" allows.                     *)
(***************************************************************************)
EXTENDS Integers, FiniteSets

CONSTANTS
    NBlocks,        \* blocks of the file
    SeqSize,        \* TFTP_SEQUENCE_SIZE: 65536
    Window,         \* tftp_window_size_option
    LoadSizes,      \* blocks that may fit below reserved memory
    Answers,        \* how the server may answer a request
    MaxPorts,       \* bound on the requests the server answers in one attempt
    MaxTimeouts,    \* tftp_timeout_count_max
    RetryCount,     \* "netretry"
    MaxAge,         \* how old, in blocks, a datagram may get
    MaxLoss,        \* bound on the datagrams a lossy network loses
    Networks        \* the networks to look at

TftpGetAssumption ==
    /\ NBlocks \in Nat \ {0} /\ SeqSize \in Nat /\ SeqSize > 2 * Window
    /\ Window \in Nat \ {0} /\ LoadSizes \subseteq Nat
    /\ Answers # {} /\ Answers \subseteq {"OACK", "BADOACK", "DATA", "NOTFOUND", "ERROR"}
    /\ MaxPorts \in Nat \ {0} /\ MaxTimeouts \in Nat /\ RetryCount \in Nat
    /\ MaxAge \in Nat /\ MaxAge + Window < SeqSize /\ MaxLoss \in Nat
    /\ Networks \subseteq {"lossy", "wild"}
    /\ MaxLoss <= MaxTimeouts

VARIABLES
    tftp_state, tftp_remote_port,
    tftp_cur_block, tftp_prev_block, tftp_block_wrap_offset,
    tftp_windowsize, tftp_next_ack, tftp_last_nack,
    tftp_load_size, timeout_count,
    net_state, net_try_count,
    mem,            \* which block of the file is at which place, 0 for none
    net_boot_file_size,
    got,            \* history: blocks accepted in this attempt
    network,        \* the kind of network
    net,            \* datagrams on their way
    base,           \* the server: last block acknowledged, by port
    opt,            \* the server: how it answered, by port
    losses          \* history: datagrams lost

client == <<tftp_state, tftp_remote_port, tftp_cur_block, tftp_prev_block,
            tftp_block_wrap_offset, tftp_windowsize, tftp_next_ack, tftp_last_nack,
            timeout_count, net_state, net_try_count, mem, net_boot_file_size, got>>
given == <<tftp_load_size, network>>
vars == <<client, given, net, base, opt, losses>>

Seq16 == 0 .. SeqSize - 1
Port == 1 .. MaxPorts
ToClient == {"OACK", "BADOACK", "DATA", "NOTFOUND", "ERROR"}

Signed(n) == IF n < SeqSize \div 2 THEN n ELSE n - SeqSize      \* (short)n
Wire(m) == m.blk % SeqSize

RRQ == [kind |-> "RRQ", port |-> 0, blk |-> 0]
Packet(k, p, b) == [kind |-> k, port |-> p, blk |-> b]

-----------------------------------------------------------------------------
(* The network. *)
Young(m) == m.kind \in ToClient \cup {"ACK"} =>
               m.blk + MaxAge >= (IF m.kind = "ACK" THEN base[m.port] ELSE got)

Left(m) == IF network = "wild" THEN net ELSE net \ {m}

Lose(m) ==
    /\ network = "lossy" /\ losses < MaxLoss
    /\ losses' = losses + 1
    /\ net' = net \ {m}
    /\ UNCHANGED <<client, base, opt>>

-----------------------------------------------------------------------------
(* The server. *)
ServerWindow(p) == IF opt[p] \in {"OACK", "WINDOW"} THEN Window ELSE 1
Serving(p) == opt[p] \in {"OACK", "WINDOW", "DATA"}

DataFrom(p, b) ==
    {Packet("DATA", p, i) : i \in {j \in b + 1 .. b + ServerWindow(p) : j <= NBlocks}}

(* A request: data, the options, or an error, from a new port. *)
ServerRequest ==
    /\ RRQ \in net
    /\ \E p \in Port, a \in Answers :
          /\ opt[p] = "none" /\ \A q \in Port : q < p => opt[q] # "none"
          /\ opt' = [opt EXCEPT ![p] = a]
          /\ net' = Left(RRQ) \cup
                      {IF a = "DATA" THEN Packet("DATA", p, 1) ELSE Packet(a, p, 0)}
    /\ UNCHANGED <<client, base, losses>>

InWindow(m) ==
    /\ Serving(m.port)
    /\ \E b \in base[m.port] .. base[m.port] + ServerWindow(m.port) :
          b <= NBlocks /\ b % SeqSize = Wire(m)

(* An acknowledgement of a block of the window moves it. *)
ServerAck(m) ==
    /\ m \in net /\ m.kind = "ACK" /\ Young(m)
    /\ Serving(m.port)
    /\ \E b \in base[m.port] .. base[m.port] + ServerWindow(m.port) :
          /\ b <= NBlocks /\ b % SeqSize = Wire(m)
          /\ base' = [base EXCEPT ![m.port] = b]
          /\ net' = Left(m) \cup DataFrom(m.port, b)
    /\ opt' = [opt EXCEPT ![m.port] = IF @ = "OACK" THEN "WINDOW" ELSE @]
    /\ UNCHANGED <<client, losses>>

ServerTimeout(p) ==
    /\ Serving(p) /\ base[p] < NBlocks
    /\ network = "lossy" => net = {}
    /\ net' = net \cup (IF opt[p] = "OACK"
                        THEN {Packet("OACK", p, 0)} ELSE DataFrom(p, base[p]))
    /\ UNCHANGED <<client, base, opt, losses>>

-----------------------------------------------------------------------------
(* What tftp_send puts on the wire. *)
tftp_send_Next(state, port, count) ==                           \* mutant
    IF state = "SEND_RRQ" THEN {RRQ} ELSE {Packet("ACK", port, count + 1)}
tftp_send(state, port, count) ==
    IF state = "SEND_RRQ" THEN {RRQ} ELSE {Packet("ACK", port, count)}

(* tftp_start for a read, and net_loop around it. *)
Start ==
    /\ tftp_state' = "SEND_RRQ" /\ tftp_remote_port' = 0
    /\ tftp_cur_block' = 0 /\ tftp_windowsize' = 1 /\ tftp_last_nack' = 0
    /\ timeout_count' = 0 /\ net_boot_file_size' = 0 /\ got' = 0
    /\ net' = {RRQ}
    /\ base' = [p \in Port |-> 0] /\ opt' = [p \in Port |-> "none"]

(* net_start_again: other datagrams are for a port we no longer have. *)
net_start_again ==
    /\ IF net_try_count > RetryCount
       THEN /\ net_state' = "FAIL"
            /\ net' = {}
            /\ UNCHANGED <<tftp_state, tftp_remote_port, tftp_cur_block, tftp_windowsize,
                           tftp_last_nack, timeout_count, net_boot_file_size, got,
                           net_try_count, base, opt>>
       ELSE /\ net_try_count' = net_try_count + 1
            /\ UNCHANGED net_state
            /\ Start
    /\ UNCHANGED <<tftp_prev_block, tftp_block_wrap_offset, tftp_next_ack, mem, losses>>

-----------------------------------------------------------------------------
(* tftp_handler: datagrams for our port, and from the server's port once   *)
(* it is known.                                                            *)
Receive(m, k) ==
    /\ net_state = "CONTINUE"
    /\ m \in net /\ m.kind = k /\ Young(m)
    /\ tftp_state = "SEND_RRQ" \/ m.port = tftp_remote_port

(* Anything else is dropped: a datagram from another port, or after the    *)
(* end, or too old; an acknowledgement outside the server's window.        *)
Dropped(m) ==
    /\ m \in net
    /\ IF m.kind \in ToClient
       THEN ~(net_state = "CONTINUE" /\ Young(m)
              /\ (tftp_state = "SEND_RRQ" \/ m.port = tftp_remote_port))
       ELSE IF m = RRQ THEN \A p \in Port : opt[p] # "none"
       ELSE ~(Young(m) /\ InWindow(m))
    /\ net' = Left(m)
    /\ UNCHANGED <<client, base, opt, losses>>

(* case TFTP_OACK; a value that was not offered ends the transfer. *)
RecvOack(m) ==
    /\ Receive(m, "OACK")
    /\ tftp_state' = "OACK" /\ tftp_remote_port' = m.port
    /\ tftp_windowsize' = Window /\ tftp_next_ack' = Window
    /\ net' = Left(m) \cup tftp_send("OACK", m.port, got)
    /\ UNCHANGED <<tftp_cur_block, tftp_prev_block, tftp_block_wrap_offset, tftp_last_nack,
                   timeout_count, net_state, net_try_count, mem, net_boot_file_size, got,
                   base, opt, losses>>

RecvBadOack(m) ==
    /\ Receive(m, "BADOACK")
    /\ tftp_state' = "INVALID_OPTION" /\ tftp_remote_port' = m.port
    /\ tftp_next_ack' = tftp_windowsize
    /\ net_state' = "FAIL"
    /\ net' = Left(m)
    /\ UNCHANGED <<tftp_cur_block, tftp_prev_block, tftp_block_wrap_offset, tftp_windowsize,
                   tftp_last_nack, timeout_count, net_try_count, mem, net_boot_file_size,
                   got, base, opt, losses>>

(* case TFTP_DATA, not the expected block: the first one from further on   *)
(* tells the server what is missing, others are ignored; neither counts as *)
(* progress.                                                               *)
Expected == (tftp_cur_block + 1) % SeqSize

BlockAhead(n) == Expected - Signed(n) <= 0

RecvOther(m) ==
    /\ Receive(m, "DATA") /\ Wire(m) # Expected
    /\ IF BlockAhead(Wire(m)) /\ tftp_last_nack # tftp_cur_block
       THEN /\ net' = Left(m) \cup tftp_send(tftp_state, tftp_remote_port, got)
            /\ tftp_last_nack' = tftp_cur_block
            /\ tftp_next_ack' = (tftp_cur_block + tftp_windowsize) % SeqSize
       ELSE /\ net' = Left(m)
            /\ UNCHANGED <<tftp_last_nack, tftp_next_ack>>
    /\ UNCHANGED <<tftp_state, tftp_remote_port, tftp_cur_block, tftp_prev_block,
                   tftp_block_wrap_offset, tftp_windowsize, timeout_count, net_state,
                   net_try_count, mem, net_boot_file_size, got, base, opt, losses>>

(* The expected block.  first: no block came before it, and new_transfer   *)
(* clears the counters.                                                    *)
First == tftp_state \in {"SEND_RRQ", "OACK"}

RecvNotFirst(m) ==
    /\ Receive(m, "DATA") /\ Wire(m) = Expected /\ First /\ Expected # 1
    /\ net_start_again

Prev == IF First THEN 0 ELSE tftp_prev_block

(* update_block_number *)
WrapOffset_Late(first) ==                                       \* mutant
    (IF first THEN 0 ELSE tftp_block_wrap_offset)
      + (IF Expected = 1 /\ Prev # 0 THEN SeqSize ELSE 0)
WrapOffset(first) ==
    (IF first THEN 0 ELSE tftp_block_wrap_offset)
      + (IF Expected = 0 /\ Prev # 0 THEN SeqSize ELSE 0)

(* store_block: where the block goes *)
Offset == Expected + WrapOffset(First) - 1

(* The window is acknowledged with its last block. *)
AckDue(b, due) == b = due

AckAt == IF tftp_state = "SEND_RRQ" THEN tftp_windowsize ELSE tftp_next_ack

Accept(m, port) ==
    /\ tftp_cur_block' = Expected /\ tftp_prev_block' = Expected
    /\ tftp_state' = "DATA" /\ tftp_remote_port' = port
    /\ tftp_block_wrap_offset' = WrapOffset(First)
    /\ got' = got + 1

RecvBlock(m) ==
    /\ Receive(m, "DATA") /\ Wire(m) = Expected
    /\ First => Expected = 1
    /\ Offset < tftp_load_size
    /\ Accept(m, m.port)
    /\ mem' = [mem EXCEPT ![Offset] = m.blk]
    /\ net_boot_file_size' = IF net_boot_file_size < Offset + 1 THEN Offset + 1
                             ELSE net_boot_file_size
    /\ timeout_count' = 0
    /\ LET ack == tftp_send("DATA", m.port, got + 1)
           due == AckDue(Expected, AckAt)
       IN  IF m.blk = NBlocks
           THEN /\ net' = Left(m) \cup ack
                /\ net_state' = "SUCCESS"
                /\ tftp_next_ack' = AckAt
           ELSE /\ net' = IF due THEN Left(m) \cup ack ELSE Left(m)
                /\ tftp_next_ack' = IF due THEN (AckAt + tftp_windowsize) % SeqSize
                                    ELSE AckAt
                /\ UNCHANGED net_state
    /\ UNCHANGED <<tftp_windowsize, tftp_last_nack, net_try_count, base, opt, losses>>

(* store_block refuses to overwrite reserved memory. *)
RecvTooLarge(m) ==
    /\ Receive(m, "DATA") /\ Wire(m) = Expected
    /\ First => Expected = 1
    /\ Offset >= tftp_load_size
    /\ Accept(m, m.port)
    /\ net_state' = "FAIL"
    /\ tftp_next_ack' = AckAt
    /\ net' = Left(m)
    /\ UNCHANGED <<tftp_windowsize, tftp_last_nack, timeout_count, net_try_count, mem,
                   net_boot_file_size, base, opt, losses>>

(* case TFTP_ERROR: two codes end the transfer, the others start it again. *)
RecvNotFound(m) ==
    /\ Receive(m, "NOTFOUND")
    /\ net_state' = "FAIL"
    /\ net' = Left(m)
    /\ UNCHANGED <<tftp_state, tftp_remote_port, tftp_cur_block, tftp_prev_block,
                   tftp_block_wrap_offset, tftp_windowsize, tftp_next_ack, tftp_last_nack,
                   timeout_count, net_try_count, mem, net_boot_file_size, got,
                   base, opt, losses>>

RecvError(m) == Receive(m, "ERROR") /\ net_start_again

icmp_handler == network = "wild" /\ net_state = "CONTINUE" /\ net_start_again

Retries_Fewer(n) == n < MaxTimeouts                             \* mutant
Retries(n) == n <= MaxTimeouts

tftp_timeout_handler ==
    /\ net_state = "CONTINUE"
    /\ network = "lossy" => net = {}
    /\ IF Retries(timeout_count + 1)
       THEN /\ timeout_count' = timeout_count + 1
            /\ net' = net \cup tftp_send(tftp_state, tftp_remote_port, got)
            /\ UNCHANGED <<tftp_state, tftp_remote_port, tftp_cur_block, tftp_prev_block,
                           tftp_block_wrap_offset, tftp_windowsize, tftp_next_ack,
                           tftp_last_nack, net_state, net_try_count, mem,
                           net_boot_file_size, got, base, opt, losses>>
       ELSE net_start_again

-----------------------------------------------------------------------------
Init ==
    /\ tftp_state = "SEND_RRQ" /\ tftp_remote_port = 0
    /\ tftp_cur_block = 0 /\ tftp_windowsize = 1 /\ tftp_last_nack = 0
    /\ timeout_count = 0 /\ net_boot_file_size = 0 /\ got = 0
    /\ net = {RRQ}
    /\ base = [p \in Port |-> 0] /\ opt = [p \in Port |-> "none"]
    /\ tftp_prev_block = 0 /\ tftp_block_wrap_offset = 0 /\ tftp_next_ack = 0
    /\ tftp_load_size \in LoadSizes
    /\ mem = [i \in 0 .. tftp_load_size - 1 |-> 0]
    /\ net_state = "CONTINUE" /\ net_try_count = 1
    /\ network \in Networks /\ losses = 0

Deliver ==
    \/ ServerRequest
    \/ \E m \in net :
          \/ ServerAck(m) \/ Dropped(m)
          \/ RecvOack(m) \/ RecvBadOack(m)
          \/ RecvOther(m) \/ RecvNotFirst(m) \/ RecvBlock(m) \/ RecvTooLarge(m)
          \/ RecvNotFound(m) \/ RecvError(m)

Next ==
    \/ Deliver \/ tftp_timeout_handler \/ icmp_handler
    \/ \E p \in Port : ServerTimeout(p)
    \/ \E m \in net : Lose(m)

-----------------------------------------------------------------------------
TypeOK ==
    /\ tftp_state \in {"SEND_RRQ", "OACK", "DATA", "INVALID_OPTION"}
    /\ tftp_remote_port \in 0 .. MaxPorts
    /\ tftp_cur_block \in Seq16 /\ tftp_prev_block \in Seq16
    /\ tftp_block_wrap_offset \in Nat
    /\ tftp_windowsize \in {1, Window} /\ tftp_next_ack \in Seq16 /\ tftp_last_nack \in Seq16
    /\ timeout_count \in 0 .. MaxTimeouts
    /\ net_state \in {"CONTINUE", "SUCCESS", "FAIL"} /\ net_try_count \in 1 .. RetryCount + 1
    /\ tftp_load_size \in LoadSizes /\ network \in Networks
    /\ mem \in [0 .. tftp_load_size - 1 -> 0 .. NBlocks]
    /\ net_boot_file_size \in 0 .. tftp_load_size
    /\ base \in [Port -> 0 .. NBlocks]
    /\ losses \in 0 .. MaxLoss

(***************************************************************************)
(* What the read relies on, as an inductive invariant.                     *)
(***************************************************************************)
(* The counters of the client tell how many blocks it has accepted.        *)
CountInv ==
    /\ got \in Nat /\ tftp_cur_block = got % SeqSize
    /\ tftp_state = "SEND_RRQ" => got = 0
    /\ tftp_state = "OACK" => got <= MaxAge
    /\ tftp_state = "DATA" => /\ tftp_prev_block = tftp_cur_block
                              /\ tftp_block_wrap_offset + tftp_cur_block = got
    /\ tftp_state \in {"OACK", "DATA"} => tftp_remote_port \in Port
    /\ tftp_state = "INVALID_OPTION" => net_state = "FAIL"

(* What is accepted is stored, each block at its place; only the block for *)
(* which there is no memory is accepted without.                           *)
StoreInv ==
    /\ net_boot_file_size <= got
    /\ net_state # "FAIL" => net_boot_file_size = got
    /\ net_state = "SUCCESS" => got = NBlocks
    /\ \A i \in 1 .. net_boot_file_size : mem[i - 1] = i

(* The server is behind the client, and nothing on its way is more than a  *)
(* window ahead of the server.                                             *)
Datagram(m) ==
    /\ m = RRQ \/ m.port \in Port
    /\ m.kind = "OACK" => m.blk = 0
    /\ m.kind = "DATA" => m.blk \in 1 .. NBlocks /\ m.blk <= base[m.port] + Window
    /\ m.kind = "ACK" => m.blk \in 0 .. net_boot_file_size /\ m.blk <= base[m.port] + Window

WindowInv ==
    /\ \A p \in Port : base[p] <= net_boot_file_size
    /\ tftp_state \in {"OACK", "DATA"} =>
            net_boot_file_size <= base[tftp_remote_port] + Window
    /\ \A m \in net : Datagram(m)

GetInv == TypeOK /\ CountInv /\ StoreInv /\ WindowInv
=============================================================================
