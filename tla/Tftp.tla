-------------------------------- MODULE Tftp --------------------------------
(***************************************************************************)
(* The TFTP client: tftp_start begins a read (TftpGet) or a write          *)
(* (TftpPut), which share the handler, the timer and the static variables  *)
(* of net/tftp.c.  tftp_put_active says which of the two it is.            *)
(***************************************************************************)
EXTENDS Integers, Sequences

CONSTANTS
    NBlocks, LoadSizes, Window, Answers, MaxPorts, RetryCount,  \* a read
    SaveSizes, PutAnswers, MaxCount,                            \* a write
    SeqSize, MaxTimeouts, MaxAge, MaxLoss, Networks

VARIABLES
    tftp_put_active,
    tftp_state, tftp_cur_block, tftp_prev_block, tftp_block_wrap_offset,
    timeout_count, net_state, net_boot_file_size, network, net, losses,
    tftp_remote_port, tftp_windowsize, tftp_next_ack, tftp_last_nack,
    tftp_load_size, net_try_count, mem, got, base, opt,         \* a read
    tftp_put_final_block_sent, file, answer                     \* a write

Get == INSTANCE TftpGet
Put == INSTANCE TftpPut WITH Answers <- PutAnswers

ASSUME TftpAssumption == Get!TftpGetAssumption /\ Put!TftpPutAssumption

ofGet == <<tftp_remote_port, tftp_windowsize, tftp_next_ack, tftp_last_nack,
           tftp_load_size, net_try_count, mem, got, base, opt>>
ofPut == <<tftp_put_final_block_sent, file, answer>>
vars == <<tftp_put_active, tftp_state, tftp_cur_block, tftp_prev_block,
          tftp_block_wrap_offset, timeout_count, net_state, net_boot_file_size, network,
          net, losses, ofGet, ofPut>>

(* tftp_start *)
StartGet ==
    /\ tftp_put_active = FALSE
    /\ Get!Init
    /\ tftp_put_final_block_sent = FALSE /\ file = <<>> /\ answer = "none"

StartPut ==
    /\ tftp_put_active = TRUE
    /\ Put!Init
    /\ tftp_remote_port = 0 /\ tftp_windowsize = 1 /\ tftp_next_ack = 0
    /\ tftp_last_nack = 0 /\ tftp_load_size = 0 /\ net_try_count = 1 /\ mem = <<>>
    /\ got = 0 /\ base = <<>> /\ opt = <<>>

Init == StartGet \/ StartPut

reading == UNCHANGED <<tftp_put_active, tftp_load_size, network, ofPut>>
writing == UNCHANGED <<tftp_put_active, net_boot_file_size, network, ofGet>>

Deliver ==
    \/ ~tftp_put_active /\ Get!Deliver /\ reading
    \/ tftp_put_active /\ Put!Deliver /\ writing

tftp_timeout_handler ==
    \/ ~tftp_put_active /\ Get!tftp_timeout_handler /\ reading
    \/ tftp_put_active /\ Put!tftp_timeout_handler /\ writing

Next ==
    \/ ~tftp_put_active /\ Get!Next /\ reading
    \/ tftp_put_active /\ Put!Next /\ writing

Spec == Init /\ [][Next]_vars

(* Datagrams that are not lost arrive, and the client's timer runs out,    *)
(* whatever the server sends again: only progress sets it back.            *)
FairSpec ==
    /\ Spec
    /\ WF_vars(Deliver) /\ SF_vars(tftp_timeout_handler)

-----------------------------------------------------------------------------
TypeOK == IF tftp_put_active THEN Put!TypeOK ELSE Get!TypeOK

(* A read that reports success stored the whole file, every block at its   *)
(* place, and reports its size: across wraps of the block number, restarts,*)
(* duplicates and reordering (store_block, update_block_number).           *)
FileIntact ==
    ~tftp_put_active /\ net_state = "SUCCESS" =>
        /\ net_boot_file_size = NBlocks
        /\ \A i \in 0 .. NBlocks - 1 : mem[i] = i + 1

(* What the server may forget is in memory: a block it holds acknowledged  *)
(* was stored at its place (tftp_send after store_block).                  *)
AckedIsStored ==
    \A p \in DOMAIN base : \A i \in 1 .. base[p] : mem[i - 1] = i

(* What the server has of a write is the beginning of the image: no block  *)
(* is left out, repeated, or taken from another place of memory, across    *)
(* wraps of the block number when no datagram is duplicated.  A write that *)
(* reports success then left all of it (load_block, case TFTP_ACK).        *)
PutIntact ==
    tftp_put_active =>
        /\ network = "lossy" \/ net_boot_file_size + MaxCount < SeqSize =>
              /\ Len(file) <= net_boot_file_size
              /\ file = SubSeq(Put!Image, 1, Len(file))
        /\ network = "lossy" /\ net_state = "SUCCESS" => file = Put!Image

(* The transfer ends in success when the server does not refuse it, the    *)
(* memory suffices, and fewer datagrams are lost than there are retries,   *)
(* whatever their order: the two ends agree again after each loss          *)
(* (tftp_next_ack, tftp_last_nack, tftp_timeout_handler).                  *)
Refused ==
    \/ answer \in {"BADOACK", "ERROR"}
    \/ \E p \in DOMAIN opt : opt[p] \in {"BADOACK", "NOTFOUND", "ERROR"}
    \/ ~tftp_put_active /\ tftp_load_size < NBlocks

Succeeds == <>(net_state = "SUCCESS" \/ network = "wild" \/ Refused)

-----------------------------------------------------------------------------
(* The inductive invariant: that of the transfer that runs. *)
TftpInv ==
    /\ tftp_put_active \in BOOLEAN
    /\ IF tftp_put_active THEN Put!PutInv /\ base = <<>> ELSE Get!GetInv
=============================================================================
