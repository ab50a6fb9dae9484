------------------------------ MODULE TftpPut -------------------------------
(***************************************************************************)
(* Writing a file with TFTP: net/tftp.c as tftpput uses it.  The server    *)
(* and the network are external, as in TftpGet.  One block is under way at *)
(* a time; the client takes the next one from the number acknowledged.     *)
(* Blocks are numbered from 1 in the image and modulo SeqSize on the wire; *)
(* a data message carries its number on the wire and what it holds.  The   *)
(* last block of the image is a short one.                                 *)
(***************************************************************************)
EXTENDS Integers, Sequences

CONSTANTS
    SaveSizes,      \* blocks of the image, by network
    SeqSize,        \* TFTP_SEQUENCE_SIZE: 65536
    Answers,        \* how the server may answer a request
    MaxTimeouts,    \* tftp_timeout_count_max
    MaxAge,         \* how old, in blocks, a datagram may get
    MaxLoss,        \* bound on the datagrams a lossy network loses
    MaxCount,       \* bound on the blocks sent past the end of the image
    Networks        \* the networks to look at

TftpPutAssumption ==
    /\ SaveSizes \in [Networks -> Nat \ {0}] /\ SeqSize \in Nat /\ SeqSize > 2
    /\ Answers # {} /\ Answers \subseteq {"OACK", "ACK", "BADOACK", "ERROR"}
    /\ MaxTimeouts \in Nat /\ MaxLoss \in 0 .. MaxTimeouts
    /\ MaxAge \in Nat /\ MaxAge < SeqSize - 1
    /\ MaxCount \in Nat /\ Networks \subseteq {"lossy", "wild"}

VARIABLES
    tftp_state, tftp_cur_block, tftp_prev_block, tftp_block_wrap_offset,
    tftp_put_final_block_sent, timeout_count, net_state,
    net_boot_file_size,     \* image_save_size
    network,        \* the kind of network
    net,            \* datagrams on their way
    file,           \* the server: the blocks it has
    answer,         \* the server: how it answered the request
    losses          \* history: datagrams lost

client == <<tftp_state, tftp_cur_block, tftp_prev_block, tftp_block_wrap_offset,
            tftp_put_final_block_sent, timeout_count, net_state>>
server == <<file, answer>>
given == <<net_boot_file_size, network>>
vars == <<client, given, net, server, losses>>

Seq16 == 0 .. SeqSize - 1
Image == [i \in 1 .. net_boot_file_size |-> i]
Junk == 0           \* what is in memory after the image

(* A datagram, and how many blocks the server had when it was sent. *)
Answer(k) == [kind |-> k, blk |-> 0, data |-> 0, at |-> Len(file)]
Request == [kind |-> "WRQ", blk |-> 0, data |-> 0, at |-> 0]
Ack(n) == [Answer("ACK") EXCEPT !.blk = n]

Young(m) == m.at + MaxAge >= Len(file)
Left(m) == IF network = "wild" THEN net ELSE net \ {m}

Lose(m) ==
    /\ network = "lossy" /\ losses < MaxLoss
    /\ losses' = losses + 1
    /\ net' = net \ {m}
    /\ UNCHANGED <<client, server>>

-----------------------------------------------------------------------------
(* The server: a block that continues the file is kept, and what it has is *)
(* acknowledged; a short block ends the file.                              *)
FileDone == file # <<>> /\ file[Len(file)] = net_boot_file_size
LastAnswer == IF file = <<>> THEN Answer(answer) ELSE Ack(Len(file) % SeqSize)

ServerRequest ==
    /\ Request \in net /\ answer = "none"
    /\ answer' \in Answers
    /\ net' = Left(Request) \cup {Answer(answer')}
    /\ UNCHANGED <<client, file, losses>>

ServerData(m) ==
    /\ m.kind = "DATA" /\ Young(m) /\ answer \in {"OACK", "ACK"}
    /\ LET next == m.blk = (Len(file) + 1) % SeqSize /\ ~FileDone
           f == IF next THEN Append(file, m.data) ELSE file
       IN  /\ file' = f
           /\ net' = Left(m) \cup {[Ack(Len(f) % SeqSize) EXCEPT !.at = Len(f)]}
    /\ UNCHANGED <<client, answer, losses>>

(* Only on a wild network does it repeat its last answer after a timeout:  *)
(* a lossy one leaves all repetition to the client.                        *)
ServerTimeout ==
    /\ network = "wild" /\ answer # "none"
    /\ net' = net \cup {LastAnswer}
    /\ UNCHANGED <<client, server, losses>>

ServerRequestAgain ==
    /\ Request \in net /\ answer # "none"
    /\ net' = Left(Request) \cup {LastAnswer}
    /\ UNCHANGED <<client, server, losses>>

-----------------------------------------------------------------------------
(* load_block: the block of the image at the offset of this block number.  *)
(* Beyond the end, image size less offset is negative as an unsigned       *)
(* number: a full block of what follows the image.                         *)
load_block(n, wrap) ==
    LET i == n + wrap IN IF i \in 1 .. net_boot_file_size THEN i ELSE Junk

FinalBlock_Early(b) == b >= net_boot_file_size - 1                         \* mutant
FinalBlock(b) == b = net_boot_file_size        \* loaded < toload

(* tftp_send in STATE_DATA or STATE_OACK *)
SendBlock(n, wrap, left) ==
    /\ net' = left \cup {[kind |-> "DATA", blk |-> n % SeqSize, data |-> load_block(n, wrap),
                     at |-> Len(file)]}
    /\ tftp_put_final_block_sent' = FinalBlock(load_block(n, wrap))

(* update_block_number *)
Wrapped(prev, cur) ==
    IF cur = 0 /\ prev # 0 THEN tftp_block_wrap_offset + SeqSize
    ELSE tftp_block_wrap_offset

Receive(m, k) == net_state = "CONTINUE" /\ m \in net /\ m.kind = k /\ Young(m)

(* case TFTP_ACK after the last block: whatever is acknowledged. *)
RecvFinalAck(m) ==
    /\ Receive(m, "ACK") /\ tftp_put_final_block_sent
    /\ net_state' = "SUCCESS"
    /\ timeout_count' = 0
    /\ net' = Left(m)
    /\ UNCHANGED <<tftp_state, tftp_cur_block, tftp_prev_block, tftp_block_wrap_offset,
                   tftp_put_final_block_sent, server, losses>>

(* ... and before it: the number acknowledged says which block is next; it *)
(* is sent now only when the current one was acknowledged.                 *)
AckOk(n) == tftp_cur_block = n

RecvAck(m) ==
    /\ Receive(m, "ACK") /\ ~tftp_put_final_block_sent
    /\ tftp_block_wrap_offset + tftp_cur_block < net_boot_file_size + MaxCount
    /\ LET cur == (m.blk + 1) % SeqSize
           wrap == Wrapped(tftp_cur_block, cur)
       IN  /\ tftp_prev_block' = tftp_cur_block
           /\ tftp_cur_block' = cur
           /\ tftp_block_wrap_offset' = wrap
           /\ timeout_count' = 0
           /\ IF AckOk(m.blk)
              THEN /\ tftp_state' = IF m.blk = 0 /\ tftp_state = "SEND_WRQ" THEN "DATA"
                                    ELSE tftp_state
                   /\ IF tftp_state' = "SEND_WRQ"
                      THEN net' = Left(m) \cup {Request} /\ UNCHANGED tftp_put_final_block_sent
                      ELSE SendBlock(cur, wrap, Left(m))
              ELSE /\ net' = Left(m)
                   /\ UNCHANGED <<tftp_state, tftp_put_final_block_sent>>
    /\ UNCHANGED <<net_state, server, losses>>

(* case TFTP_OACK: the next block, whichever was sent before. *)
RecvOack(m) ==
    /\ Receive(m, "OACK")
    /\ tftp_block_wrap_offset + tftp_cur_block < net_boot_file_size + MaxCount
    /\ tftp_state' = "DATA"
    /\ tftp_cur_block' = tftp_cur_block + 1
    /\ SendBlock(tftp_cur_block', tftp_block_wrap_offset, Left(m))
    /\ UNCHANGED <<tftp_prev_block, tftp_block_wrap_offset, timeout_count, net_state,
                   server, losses>>

(* An option that was not offered, or an error, ends the transfer. *)
RecvRefusal(m) ==
    /\ Receive(m, "BADOACK") \/ Receive(m, "ERROR")
    /\ net_state' = "FAIL"
    /\ net' = Left(m)
    /\ UNCHANGED <<tftp_state, tftp_cur_block, tftp_prev_block, tftp_block_wrap_offset,
                   tftp_put_final_block_sent, timeout_count, server, losses>>

Dropped(m) ==
    /\ ~Young(m) \/ (m.kind \notin {"WRQ", "DATA"} /\ net_state # "CONTINUE")
    /\ net' = Left(m)
    /\ UNCHANGED <<client, server, losses>>

(* Without "netretry" too many timeouts end the transfer. *)
Retries(n) == n <= MaxTimeouts

tftp_timeout_handler ==
    /\ net_state = "CONTINUE"
    /\ network = "lossy" => net = {}
    /\ IF Retries(timeout_count + 1)
       THEN /\ timeout_count' = timeout_count + 1
            /\ IF tftp_state = "SEND_WRQ"
               THEN net' = net \cup {Request} /\ UNCHANGED tftp_put_final_block_sent
               ELSE SendBlock(tftp_cur_block, tftp_block_wrap_offset, net)
            /\ UNCHANGED net_state
       ELSE /\ net_state' = "FAIL"
            /\ UNCHANGED <<timeout_count, net, tftp_put_final_block_sent>>
    /\ UNCHANGED <<tftp_state, tftp_cur_block, tftp_prev_block, tftp_block_wrap_offset,
                   server, losses>>

-----------------------------------------------------------------------------
(* tftp_start for a write *)
Init ==
    /\ tftp_state = "SEND_WRQ" /\ tftp_cur_block = 0 /\ tftp_prev_block = 0
    /\ tftp_block_wrap_offset = 0 /\ tftp_put_final_block_sent = FALSE
    /\ timeout_count = 0 /\ net_state = "CONTINUE"
    /\ network \in Networks /\ net_boot_file_size = SaveSizes[network]
    /\ net = {Request} /\ file = <<>> /\ answer = "none" /\ losses = 0

Deliver ==
    \/ ServerRequest \/ ServerRequestAgain
    \/ \E m \in net : \/ ServerData(m)
                      \/ RecvFinalAck(m) \/ RecvAck(m) \/ RecvOack(m)
                      \/ RecvRefusal(m) \/ Dropped(m)

Next == Deliver \/ ServerTimeout \/ tftp_timeout_handler \/ (\E m \in net : Lose(m))

-----------------------------------------------------------------------------
TypeOK ==
    /\ tftp_state \in {"SEND_WRQ", "DATA"}
    /\ tftp_cur_block \in Nat /\ tftp_prev_block \in Nat
    /\ tftp_block_wrap_offset \in Nat /\ tftp_put_final_block_sent \in BOOLEAN
    /\ timeout_count \in 0 .. MaxTimeouts
    /\ net_state \in {"CONTINUE", "SUCCESS", "FAIL"}
    /\ network \in Networks /\ net_boot_file_size = SaveSizes[network]
    /\ file \in Seq(0 .. net_boot_file_size) /\ answer \in Answers \cup {"none"}
    /\ losses \in 0 .. MaxLoss

(***************************************************************************)
(* What the write relies on, as inductive invariants.                      *)
(***************************************************************************)
Datagrams == [kind : {"WRQ", "OACK", "ACK", "BADOACK", "ERROR", "DATA"},
              blk : Seq16, data : 0 .. net_boot_file_size, at : Nat]

(* The block under way, counted from 1. *)
Current == tftp_block_wrap_offset + tftp_cur_block

Prefix == Len(file) <= net_boot_file_size /\ \A i \in DOMAIN file : file[i] = i

(* On a network that does not duplicate, one datagram is under way at a    *)
(* time, and the server is at most one block behind.                       *)
LossyInv ==
    /\ Prefix
    /\ \A m, n \in net : m = n
    /\ tftp_cur_block = Current % SeqSize
    /\ tftp_state = "SEND_WRQ" =>
          /\ Current = 0 /\ tftp_block_wrap_offset = 0
          /\ file = <<>> /\ ~tftp_put_final_block_sent
          /\ \A m \in net : m.kind # "DATA" /\ m.blk = 0
    /\ tftp_state = "DATA" =>
          /\ Current \in 1 .. net_boot_file_size /\ Len(file) \in {Current - 1, Current}
          /\ tftp_put_final_block_sent <=> Current = net_boot_file_size
          /\ \A m \in net : /\ m.blk = tftp_cur_block
                            /\ \/ m.kind = "DATA" /\ m.data = Current
                               \/ m.kind = "ACK" /\ Len(file) = Current
    /\ net_state = "SUCCESS" => Len(file) = net_boot_file_size

(* When the block number does not wrap, whatever is duplicated or late:    *)
(* until the server has it all, a number is that of the block of the image.*)
ShortInv ==
    /\ Prefix
    /\ tftp_cur_block < SeqSize
    /\ \A m \in net : m.kind = "ACK" => m.blk <= Len(file)
    /\ Len(file) < net_boot_file_size =>
          /\ tftp_block_wrap_offset = 0
          /\ \A m \in net : m.kind = "DATA" /\ m.blk \in 1 .. net_boot_file_size
                                => m.data = m.blk

PutInv ==
    /\ TypeOK /\ net \subseteq Datagrams
    /\ network = "lossy" => LossyInv
    /\ net_boot_file_size + MaxCount < SeqSize => ShortInv
=============================================================================
