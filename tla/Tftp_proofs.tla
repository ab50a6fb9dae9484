---------------------------- MODULE Tftp_proofs -----------------------------
(***************************************************************************)
(* Proofs about the TFTP client, for files and images of any size, block   *)
(* numbers that wrap at any place the assumptions allow, and any number of *)
(* timeouts, restarts, losses and duplicates.                              *)
(***************************************************************************)
EXTENDS Tftp, SequenceTheorems, TLAPS

-----------------------------------------------------------------------------
(* Block numbers on the wire. *)

LEMMA Split ==
  ASSUME NEW n \in Nat, NEW s \in Nat \ {0}
  PROVE  /\ n % s \in 0 .. s - 1 /\ n \div s \in Nat
         /\ n = s * (n \div s) + (n % s)
  <1>1. n % s \in 0 .. s - 1
    OBVIOUS
  <1>2. n = s * (n \div s) + (n % s)
    OBVIOUS
  <1>3. n \div s \in Int
    OBVIOUS
  <1>4. n \div s \in Nat
    OBVIOUS
  <1> QED
    BY <1>1, <1>2, <1>3, <1>4

LEMMA OnTheWire ==
  ASSUME NEW s \in Nat, s > 0
  PROVE  \A a, b \in Nat : (a + b) % s \in 0 .. s - 1
  <1> SUFFICES ASSUME NEW a \in Nat, NEW b \in Nat
               PROVE  (a + b) % s \in 0 .. s - 1
    OBVIOUS
  <1> DEFINE n == a + b
  <1>1. n \in Nat /\ s \in Nat \ {0}
    OBVIOUS
  <1> HIDE DEF n
  <1>2. n % s \in 0 .. s - 1
    BY <1>1, Split
  <1> QED
    BY <1>2 DEF n

LEMMA Multiples ==
  ASSUME NEW s \in Nat \ {0}, NEW a \in Nat, NEW b \in Nat, a < b
  PROVE  s * a + s <= s * b
  OBVIOUS

LEMMA SmallMod ==
  ASSUME NEW n \in Nat, NEW s \in Nat \ {0}, n < s
  PROVE  n % s = n
  OBVIOUS

(* Two numbers less than s apart that look the same are the same. *)
LEMMA NearEqual ==
  ASSUME NEW x \in Nat, NEW y \in Nat, NEW s \in Nat \ {0},
         x % s = y % s, x < y + s, y < x + s
  PROVE  x = y
  <1> DEFINE a == x \div s
             b == y \div s
             r == x % s
             u == s * a
             v == s * b
  <1>1. /\ a \in Nat /\ b \in Nat /\ r \in 0 .. s - 1
        /\ x = u + r /\ y = v + r
    BY Split
  <1>2. u \in Int /\ v \in Int
    BY <1>1
  <1>3. a < b => u + s <= v
    BY <1>1, Multiples
  <1>4. b < a => v + s <= u
    BY <1>1, Multiples
  <1>5. a = b => u = v
    OBVIOUS
  <1> HIDE DEF u, v, r
  <1>6. ~(a < b) /\ ~(b < a)
    BY <1>1, <1>2, <1>3, <1>4
  <1> QED
    BY <1>1, <1>5, <1>6

(* A quotient and a remainder are the only ones. *)
LEMMA Remainder ==
  ASSUME NEW n \in Nat, NEW s \in Nat \ {0}, NEW q \in Nat, NEW r \in 0 .. s - 1, n = s * q + r
  PROVE  n % s = r
  <1> DEFINE a == n \div s
             k == n % s
             u == s * a
             v == s * q
  <1>1. a \in Nat /\ k \in 0 .. s - 1 /\ n = u + k /\ n = v + r
    BY Split
  <1>2. u \in Int /\ v \in Int
    BY <1>1
  <1>3. (a < q => u + s <= v) /\ (q < a => v + s <= u)
    BY <1>1, Multiples
  <1>4. a = q => u = v
    OBVIOUS
  <1>5. a < q \/ q < a \/ a = q
    BY <1>1
  <1> HIDE DEF a, u, v, k
  <1>6. k = r
    BY <1>1, <1>2, <1>3, <1>4, <1>5
  <1> QED
    BY <1>6 DEF k

(* Counting on. *)
LEMMA NextMod ==
  ASSUME NEW n \in Nat, NEW s \in Nat, s > 1
  PROVE  /\ n % s \in 0 .. s - 1
         /\ (n % s) + 1 < s => (n + 1) % s = (n % s) + 1
         /\ (n % s) + 1 = s => (n + 1) % s = 0
         /\ ((n % s) + 1) % s = (n + 1) % s
         /\ (n + 1) % s # n % s
  <1> DEFINE q == n \div s
             r == n % s
             u == s * q
  <1>0. s \in Nat \ {0} /\ n + 1 \in Nat
    OBVIOUS
  <1>1. q \in Nat /\ r \in 0 .. s - 1 /\ n = u + r
    BY <1>0, Split
  <1>2. u \in Int /\ s * (q + 1) = u + s
    BY <1>1
  <1>3. CASE r + 1 < s
    <2>1. n + 1 = u + (r + 1) /\ r + 1 \in 0 .. s - 1
      <3> HIDE DEF u, r
      <3> QED
        BY <1>1, <1>2, <1>3
    <2>2. (n + 1) % s = r + 1
      <3> DEFINE k == r + 1
      <3>1. k \in 0 .. s - 1 /\ n + 1 = s * q + k
        BY <2>1
      <3> HIDE DEF k, q
      <3> QED
        BY <1>0, <1>1, <3>1, Remainder DEF k
    <2>3. (r + 1) % s = r + 1
      BY <1>1, <1>3, SmallMod
    <2> HIDE DEF r
    <2>4. (n + 1) % s = r + 1 /\ (r + 1) % s = (n + 1) % s /\ r + 1 # s /\ r + 1 # r
      BY <1>1, <1>3, <2>2, <2>3
    <2>5. (n + 1) % s # r
      BY <1>1, <2>4
    <2> QED
      BY <1>1, <2>4, <2>5 DEF r
  <1>4. CASE r + 1 = s
    <2>1. n + 1 = s * (q + 1) + 0 /\ 0 \in 0 .. s - 1 /\ q + 1 \in Nat
      <3> HIDE DEF u, r
      <3> QED
        BY <1>1, <1>2, <1>4
    <2>2. (n + 1) % s = 0
      <3> DEFINE k == q + 1
      <3>1. k \in Nat /\ n + 1 = s * k + 0
        BY <2>1
      <3> HIDE DEF k
      <3> QED
        BY <1>0, <2>1, <3>1, Remainder
    <2>3. s = s * 1 + 0
      OBVIOUS
    <2>4. s % s = 0
      BY <2>1, <2>3, Remainder
    <2> HIDE DEF r
    <2>5. (r + 1) % s = 0 /\ r # 0 /\ ~(r + 1 < s)
      BY <1>1, <1>4, <2>4
    <2> QED
      BY <1>1, <2>2, <2>5 DEF r
  <1> QED
    BY <1>1, <1>3, <1>4

-----------------------------------------------------------------------------
(* Reading. *)

LEMMA GetConstants ==
  /\ SeqSize \in Nat /\ SeqSize > 2 /\ Window \in Nat \ {0} /\ MaxAge \in Nat
  /\ SeqSize > Window + 1 /\ MaxAge + Window < SeqSize /\ NBlocks \in Nat \ {0}
  /\ MaxPorts \in Nat \ {0} /\ MaxTimeouts \in Nat /\ RetryCount \in Nat /\ MaxLoss \in Nat
  /\ LoadSizes \subseteq Nat
  BY TftpAssumption DEF Get!TftpGetAssumption

(* The types of a read, of what the steps below need. *)
LEMMA GetTypes ==
  ASSUME Get!GetInv
  PROVE  /\ got \in Nat /\ tftp_load_size \in Nat /\ net_boot_file_size \in 0 .. tftp_load_size
         /\ base \in [Get!Port -> 0 .. NBlocks] /\ \A p \in Get!Port : base[p] \in Nat
         /\ tftp_cur_block \in 0 .. SeqSize - 1 /\ tftp_block_wrap_offset \in Nat
         /\ timeout_count \in 0 .. MaxTimeouts /\ tftp_windowsize \in {1, Window}
         /\ net_state \in {"CONTINUE", "SUCCESS", "FAIL"} /\ losses \in 0 .. MaxLoss
         /\ mem \in [0 .. tftp_load_size - 1 -> 0 .. NBlocks]
  BY GetConstants DEF Get!GetInv, Get!TypeOK, Get!CountInv, Get!Seq16

LEMMA GetStart == StartGet => TftpInv
  <1> SUFFICES ASSUME StartGet PROVE TftpInv
    OBVIOUS
  <1>1. /\ tftp_put_active = FALSE /\ Get!Init
        /\ got = 0 /\ tftp_load_size \in LoadSizes /\ tftp_load_size \in Nat
    BY GetConstants DEF StartGet, Get!Init
  <1>2. Get!TypeOK
    BY <1>1, GetConstants DEF Get!Init, Get!TypeOK, Get!Seq16, Get!Port
  <1>3. Get!CountInv
    BY <1>1, GetConstants, SmallMod DEF Get!Init, Get!CountInv
  <1>4. Get!StoreInv
    BY <1>1 DEF Get!Init, Get!StoreInv
  <1>5. Get!WindowInv
    BY <1>1 DEF Get!Init, Get!WindowInv, Get!Datagram, Get!RRQ
  <1> QED
    BY <1>1, <1>2, <1>3, <1>4, <1>5 DEF TftpInv, Get!GetInv

(* A step that accepts no block and keeps the server's account keeps the   *)
(* invariant if what it sends is a datagram like those before.             *)
LEMMA GetQuiet ==
  ASSUME Get!GetInv,
         UNCHANGED <<tftp_state, tftp_remote_port, tftp_cur_block, tftp_prev_block,
                     tftp_block_wrap_offset, tftp_windowsize, net_try_count, tftp_load_size,
                     network, mem, net_boot_file_size, got, base>>,
         tftp_next_ack' \in Get!Seq16, tftp_last_nack' \in Get!Seq16,
         timeout_count' \in 0 .. MaxTimeouts, losses' \in 0 .. MaxLoss,
         net_state' \in {net_state, "FAIL"},
         \A m \in net' : m \in net \/ Get!Datagram(m)
  PROVE  Get!GetInv'
  <1>1. Get!TypeOK'
    BY DEF Get!GetInv, Get!TypeOK, Get!Seq16, Get!Port
  <1>2. Get!CountInv'
    BY DEF Get!GetInv, Get!CountInv, Get!Port
  <1>3. Get!StoreInv'
    BY DEF Get!GetInv, Get!StoreInv
  <1>4. Get!WindowInv'
    <2>1. \A m : Get!Datagram(m) => Get!Datagram(m)'
      BY DEF Get!Datagram, Get!RRQ, Get!Port
    <2>2. \A m \in net' : Get!Datagram(m)'
      BY <2>1 DEF Get!GetInv, Get!WindowInv
    <2> QED
      BY <2>2 DEF Get!GetInv, Get!WindowInv, Get!Port
  <1> QED
    BY <1>1, <1>2, <1>3, <1>4 DEF Get!GetInv

(* A new attempt: nothing of the one before is on its way to the new port. *)
LEMMA GetAgain ==
  ASSUME Get!GetInv, Get!net_start_again, net_state = "CONTINUE",
         UNCHANGED <<tftp_load_size, network>>
  PROVE  Get!GetInv'
  <1>1. CASE net_try_count > RetryCount
    <2>1. /\ UNCHANGED <<tftp_state, tftp_remote_port, tftp_cur_block, tftp_prev_block,
                         tftp_block_wrap_offset, tftp_windowsize, net_try_count, mem,
                         net_boot_file_size, got, base, tftp_next_ack, tftp_last_nack,
                         timeout_count, losses>>
          /\ net_state' = "FAIL" /\ net' = {}
      BY <1>1 DEF Get!net_start_again
    <2>2. tftp_next_ack \in Get!Seq16 /\ tftp_last_nack \in Get!Seq16
      BY DEF Get!GetInv, Get!TypeOK
    <2> QED
      BY <2>1, <2>2, GetQuiet, GetTypes
  <1>2. CASE ~(net_try_count > RetryCount)
    <2>1. /\ tftp_state' = "SEND_RRQ" /\ tftp_remote_port' = 0
          /\ tftp_cur_block' = 0 /\ tftp_windowsize' = 1 /\ tftp_last_nack' = 0
          /\ timeout_count' = 0 /\ net_boot_file_size' = 0 /\ got' = 0
          /\ net' = {Get!RRQ} /\ base' = [p \in Get!Port |-> 0]
          /\ net_try_count' = net_try_count + 1
          /\ UNCHANGED <<net_state, tftp_prev_block, tftp_block_wrap_offset, tftp_next_ack, mem, losses>>
      BY <1>2 DEF Get!net_start_again, Get!Start
    <2>2. Get!TypeOK'
      BY <1>2, <2>1, GetConstants, GetTypes DEF Get!GetInv, Get!TypeOK, Get!Seq16, Get!Port
    <2>3. Get!CountInv'
      BY <2>1, GetConstants, SmallMod DEF Get!CountInv
    <2>4. Get!StoreInv'
      BY <2>1 DEF Get!StoreInv
    <2>5. Get!WindowInv'
      BY <2>1 DEF Get!WindowInv, Get!Datagram, Get!RRQ, Get!Port
    <2> QED
      BY <2>2, <2>3, <2>4, <2>5 DEF Get!GetInv
  <1> QED
    BY <1>1, <1>2

(* What the client sends while the transfer goes on. *)
LEMMA GetSends ==
  ASSUME Get!GetInv, net_state = "CONTINUE",
         NEW m \in Get!tftp_send(tftp_state, tftp_remote_port, got)
  PROVE  Get!Datagram(m)
  <1>1. CASE tftp_state = "SEND_RRQ"
    <2>1. m = Get!RRQ
      BY <1>1 DEF Get!tftp_send
    <2> QED
      BY <2>1 DEF Get!Datagram, Get!RRQ
  <1>2. CASE tftp_state \in {"OACK", "DATA"}
    <2>1. m = Get!Packet("ACK", tftp_remote_port, got)
      BY <1>2 DEF Get!tftp_send
    <2>2. m.kind = "ACK" /\ m.port = tftp_remote_port /\ m.blk = got
      BY <2>1 DEF Get!Packet
    <2>3. /\ tftp_remote_port \in Get!Port /\ got = net_boot_file_size
          /\ net_boot_file_size <= base[tftp_remote_port] + Window
      BY <1>2 DEF Get!GetInv, Get!CountInv, Get!StoreInv, Get!WindowInv
    <2> QED
      BY <2>2, <2>3, GetTypes DEF Get!Datagram
  <1>3. tftp_state \in {"SEND_RRQ", "OACK", "DATA"}
    BY DEF Get!GetInv, Get!CountInv, Get!TypeOK
  <1> QED
    BY <1>1, <1>2, <1>3

(* What the server sends: no more than a window from where it is. *)
LEMMA GetServes ==
  ASSUME NEW p \in Get!Port, NEW b \in Nat, NEW m \in Get!DataFrom(p, b)
  PROVE  m.kind = "DATA" /\ m.port = p /\ m.blk \in 1 .. NBlocks /\ m.blk <= b + Window
  <1>1. PICK i \in b + 1 .. b + Get!ServerWindow(p) : i <= NBlocks /\ m = Get!Packet("DATA", p, i)
    BY DEF Get!DataFrom
  <1>2. Get!ServerWindow(p) \in Nat /\ Get!ServerWindow(p) <= Window
    BY GetConstants DEF Get!ServerWindow
  <1>3. i \in 1 .. NBlocks /\ i <= b + Window
    BY <1>1, <1>2, GetConstants
  <1> QED
    BY <1>1, <1>3 DEF Get!Packet

LEMMA GetLose ==
  ASSUME Get!GetInv, NEW m \in net, Get!Lose(m), UNCHANGED <<tftp_load_size, network>>
  PROVE  Get!GetInv'
  <1>1. losses' \in 0 .. MaxLoss
    BY GetTypes, GetConstants DEF Get!Lose
  <1>2. tftp_next_ack \in Get!Seq16 /\ tftp_last_nack \in Get!Seq16
    BY DEF Get!GetInv, Get!TypeOK
  <1> QED
    BY <1>1, <1>2, GetQuiet, GetTypes DEF Get!Lose, Get!client

LEMMA GetDropped ==
  ASSUME Get!GetInv, NEW m \in net, Get!Dropped(m), UNCHANGED <<tftp_load_size, network>>
  PROVE  Get!GetInv'
  <1>1. tftp_next_ack \in Get!Seq16 /\ tftp_last_nack \in Get!Seq16
    BY DEF Get!GetInv, Get!TypeOK
  <1>2. net' \subseteq net
    BY DEF Get!Dropped, Get!Left
  <1> QED
    BY <1>1, <1>2, GetQuiet, GetTypes DEF Get!Dropped, Get!client

LEMMA GetNotFound ==
  ASSUME Get!GetInv, NEW m \in net, Get!RecvNotFound(m), UNCHANGED <<tftp_load_size, network>>
  PROVE  Get!GetInv'
  <1>1. tftp_next_ack \in Get!Seq16 /\ tftp_last_nack \in Get!Seq16
    BY DEF Get!GetInv, Get!TypeOK
  <1>2. net' \subseteq net
    BY DEF Get!RecvNotFound, Get!Left
  <1> QED
    BY <1>1, <1>2, GetQuiet, GetTypes DEF Get!RecvNotFound

LEMMA GetRequest ==
  ASSUME Get!GetInv, Get!ServerRequest, UNCHANGED <<tftp_load_size, network>>
  PROVE  Get!GetInv'
  <1>1. tftp_next_ack \in Get!Seq16 /\ tftp_last_nack \in Get!Seq16
    BY DEF Get!GetInv, Get!TypeOK
  <1>2. PICK p \in Get!Port, a \in Answers :
          net' = Get!Left(Get!RRQ) \cup
                   {IF a = "DATA" THEN Get!Packet("DATA", p, 1) ELSE Get!Packet(a, p, 0)}
    BY DEF Get!ServerRequest
  <1>3. a # "ACK"
    BY TftpAssumption DEF Get!TftpGetAssumption
  <1>4. base[p] \in Nat /\ 1 <= base[p] + Window /\ 1 \in 1 .. NBlocks
    BY GetTypes, GetConstants
  <1>5. Get!Datagram(IF a = "DATA" THEN Get!Packet("DATA", p, 1) ELSE Get!Packet(a, p, 0))
    BY <1>3, <1>4 DEF Get!Datagram, Get!Packet
  <1>6. \A m \in net' : m \in net \/ Get!Datagram(m)
    BY <1>2, <1>5 DEF Get!Left
  <1> QED
    BY <1>1, <1>6, GetQuiet, GetTypes DEF Get!ServerRequest, Get!client

LEMMA GetServerTimeout ==
  ASSUME Get!GetInv, NEW p \in Get!Port, Get!ServerTimeout(p),
         UNCHANGED <<tftp_load_size, network>>
  PROVE  Get!GetInv'
  <1>1. tftp_next_ack \in Get!Seq16 /\ tftp_last_nack \in Get!Seq16
    BY DEF Get!GetInv, Get!TypeOK
  <1>2. \A m \in Get!DataFrom(p, base[p]) : Get!Datagram(m)
    BY GetTypes, GetServes DEF Get!Datagram
  <1>3. Get!Datagram(Get!Packet("OACK", p, 0))
    BY DEF Get!Datagram, Get!Packet
  <1>4. \A m \in net' : m \in net \/ Get!Datagram(m)
    BY <1>2, <1>3 DEF Get!ServerTimeout
  <1> QED
    BY <1>1, <1>4, GetQuiet, GetTypes DEF Get!ServerTimeout, Get!client

LEMMA GetOther ==
  ASSUME Get!GetInv, NEW m \in net, Get!RecvOther(m), UNCHANGED <<tftp_load_size, network>>
  PROVE  Get!GetInv'
  <1>1. tftp_next_ack \in Get!Seq16 /\ tftp_last_nack \in Get!Seq16
    BY DEF Get!GetInv, Get!TypeOK
  <1>2. (tftp_cur_block + tftp_windowsize) % SeqSize \in Get!Seq16 /\ tftp_cur_block \in Get!Seq16
    <2>1. /\ tftp_cur_block \in Nat /\ tftp_windowsize \in Nat /\ SeqSize \in Nat /\ SeqSize > 0
          /\ tftp_cur_block \in 0 .. SeqSize - 1
      BY GetTypes, GetConstants
    <2>2. (tftp_cur_block + tftp_windowsize) % SeqSize \in 0 .. SeqSize - 1
      BY <2>1, OnTheWire
    <2> QED
      BY <2>1, <2>2 DEF Get!Seq16
  <1>3. tftp_next_ack' \in Get!Seq16 /\ tftp_last_nack' \in Get!Seq16
    BY <1>1, <1>2 DEF Get!RecvOther
  <1>4. net_state = "CONTINUE"
    BY DEF Get!RecvOther, Get!Receive
  <1>5. \A k \in net' : k \in net \/ k \in Get!tftp_send(tftp_state, tftp_remote_port, got)
    BY DEF Get!RecvOther, Get!Left
  <1>6. \A k \in net' : k \in net \/ Get!Datagram(k)
    BY <1>4, <1>5, GetSends
  <1> QED
    BY <1>3, <1>6, GetQuiet, GetTypes DEF Get!RecvOther

LEMMA GetTimeout ==
  ASSUME Get!GetInv, Get!tftp_timeout_handler, UNCHANGED <<tftp_load_size, network>>
  PROVE  Get!GetInv'
  <1>1. net_state = "CONTINUE"
    BY DEF Get!tftp_timeout_handler
  <1>2. CASE ~Get!Retries(timeout_count + 1)
    BY <1>1, <1>2, GetAgain DEF Get!tftp_timeout_handler
  <1>3. CASE Get!Retries(timeout_count + 1)
    <2>1. tftp_next_ack \in Get!Seq16 /\ tftp_last_nack \in Get!Seq16
      BY DEF Get!GetInv, Get!TypeOK
    <2>2. timeout_count' \in 0 .. MaxTimeouts
      BY <1>3, GetTypes, GetConstants DEF Get!tftp_timeout_handler, Get!Retries
    <2>3. \A k \in net' : k \in net \/ k \in Get!tftp_send(tftp_state, tftp_remote_port, got)
      BY <1>3 DEF Get!tftp_timeout_handler
    <2>4. \A k \in net' : k \in net \/ Get!Datagram(k)
      BY <1>1, <2>3, GetSends
    <2> QED
      BY <1>3, <2>1, <2>2, <2>4, GetQuiet, GetTypes DEF Get!tftp_timeout_handler
  <1> QED
    BY <1>2, <1>3

(* The server and the client only go forward, and what is on its way stays *)
(* within the window.                                                      *)
LEMMA GetForward ==
  ASSUME Get!GetInv, base' \in [Get!Port -> 0 .. NBlocks],
         net_boot_file_size' \in Nat, net_boot_file_size <= net_boot_file_size',
         \A p \in Get!Port : base[p] <= base'[p],
         NEW m, Get!Datagram(m)
  PROVE  Get!Datagram(m)'
  <1>1. base \in [Get!Port -> 0 .. NBlocks] /\ net_boot_file_size \in Nat
    BY GetTypes
  <1> DEFINE n == net_boot_file_size
             o == net_boot_file_size'
  <1>2. n \in Nat /\ o \in Nat /\ n <= o
    BY <1>1
  <1>3. CASE m = Get!RRQ
    BY <1>3 DEF Get!Datagram, Get!RRQ
  <1>4. CASE m.port \in Get!Port
    <2> DEFINE b == base[m.port]
               c == base'[m.port]
    <2>1. b \in Nat /\ c \in Nat /\ b <= c
      BY <1>1, <1>4, GetConstants
    <2>2. /\ m.kind = "OACK" => m.blk = 0
          /\ m.kind = "DATA" => m.blk \in 1 .. NBlocks /\ m.blk <= b + Window
          /\ m.kind = "ACK" => m.blk \in 0 .. n /\ m.blk <= b + Window
      BY DEF Get!Datagram
    <2> HIDE DEF b, c, n, o
    <2>3. /\ m.kind = "DATA" => m.blk \in 1 .. NBlocks /\ m.blk <= c + Window
          /\ m.kind = "ACK" => m.blk \in 0 .. o /\ m.blk <= c + Window
      BY <1>2, <2>1, <2>2, GetConstants
    <2> QED
      BY <1>4, <2>2, <2>3 DEF Get!Datagram, Get!Port, Get!RRQ, c, o
  <1> QED
    BY <1>3, <1>4 DEF Get!Datagram

(* The server takes an acknowledgement for the block that it names. *)
LEMMA GetAck ==
  ASSUME Get!GetInv, NEW m \in net, Get!ServerAck(m), UNCHANGED <<tftp_load_size, network>>
  PROVE  Get!GetInv'
  <1> DEFINE q == m.port
  <1>1. /\ m.kind = "ACK" /\ m.blk + MaxAge >= base[q]
        /\ UNCHANGED <<tftp_state, tftp_remote_port, tftp_cur_block, tftp_prev_block,
                       tftp_block_wrap_offset, tftp_windowsize, tftp_next_ack, tftp_last_nack,
                       timeout_count, net_state, net_try_count, mem, net_boot_file_size, got,
                       losses>>
    BY DEF Get!ServerAck, Get!Young, Get!client
  <1>2. PICK b \in base[q] .. base[q] + Get!ServerWindow(q) :
          /\ b <= NBlocks /\ b % SeqSize = Get!Wire(m)
          /\ base' = [base EXCEPT ![q] = b] /\ net' = Get!Left(m) \cup Get!DataFrom(q, b)
    BY DEF Get!ServerAck
  <1>3. /\ m.blk \in 0 .. net_boot_file_size /\ m.blk <= base[q] + Window /\ q \in Get!Port
    BY <1>1 DEF Get!GetInv, Get!WindowInv, Get!Datagram, Get!RRQ
  <1>4. base[q] \in Nat /\ Get!ServerWindow(q) \in Nat /\ Get!ServerWindow(q) <= Window
    BY <1>3, GetTypes, GetConstants DEF Get!ServerWindow
  <1>5. b \in Nat /\ base[q] <= b /\ b <= base[q] + Window /\ m.blk \in Nat
    <2> DEFINE x == base[q]
               w == Get!ServerWindow(q)
    <2>1. b \in x .. x + w /\ x \in Nat /\ w \in Nat /\ w <= Window
      BY <1>2, <1>4
    <2> HIDE DEF x, w, q
    <2>2. b \in Nat /\ x <= b /\ b <= x + Window
      BY <2>1, GetConstants
    <2>3. m.blk \in Nat
      BY <1>3, GetTypes
    <2> QED
      BY <2>2, <2>3 DEF x
  <1>6. b % SeqSize = m.blk % SeqSize /\ SeqSize \in Nat \ {0}
    BY <1>2, GetConstants DEF Get!Wire
  <1>7. b < m.blk + SeqSize /\ m.blk < b + SeqSize
    BY <1>1, <1>3, <1>4, <1>5, GetConstants
  <1>8. b = m.blk
    BY <1>5, <1>6, <1>7, NearEqual
  <1>9. /\ base' \in [Get!Port -> 0 .. NBlocks] /\ \A p \in Get!Port : base[p] <= base'[p]
        /\ \A p \in Get!Port : base'[p] <= net_boot_file_size
    <2>1. b \in 0 .. NBlocks
      BY <1>2, <1>5, GetConstants
    <2>2. base'[q] = b /\ \A p \in Get!Port \ {q} : base'[p] = base[p]
      BY <1>2, <1>3, GetTypes
    <2>3. \A p \in Get!Port : base[p] <= net_boot_file_size /\ base[p] <= base[p]
      BY GetTypes DEF Get!GetInv, Get!WindowInv
    <2>4. b <= net_boot_file_size
      BY <1>3, <1>8
    <2>5. base' \in [Get!Port -> 0 .. NBlocks]
      BY <1>2, <2>1, GetTypes
    <2> QED
      BY <1>5, <2>2, <2>3, <2>4, <2>5
  <1>10. Get!TypeOK'
    BY <1>1, <1>9 DEF Get!GetInv, Get!TypeOK, Get!Seq16, Get!Port
  <1>11. Get!CountInv' /\ Get!StoreInv'
    BY <1>1 DEF Get!GetInv, Get!CountInv, Get!StoreInv, Get!Port
  <1>12. Get!WindowInv'
    <2>1. \A k : Get!Datagram(k) => Get!Datagram(k)'
      BY <1>1, <1>9, GetForward, GetTypes
    <2>2. \A k \in Get!DataFrom(q, b) : Get!Datagram(k)'
      <3>1. base'[q] = b
        BY <1>2, <1>3, GetTypes
      <3> QED
        BY <1>3, <1>5, <3>1, GetServes DEF Get!Datagram, Get!Port
    <2>3. \A k \in net' : Get!Datagram(k)'
      BY <1>2, <2>1, <2>2 DEF Get!GetInv, Get!WindowInv, Get!Left
    <2>4. tftp_state' \in {"OACK", "DATA"} =>
            net_boot_file_size' <= base'[tftp_remote_port'] + Window
      <3> SUFFICES ASSUME tftp_state \in {"OACK", "DATA"}
                   PROVE  net_boot_file_size <= base'[tftp_remote_port] + Window
        BY <1>1
      <3> DEFINE p == tftp_remote_port
                 x == base[p]
                 y == base'[p]
      <3>1. p \in Get!Port /\ net_boot_file_size <= x + Window
        BY DEF Get!GetInv, Get!CountInv, Get!WindowInv
      <3>2. x \in Nat /\ y \in Nat /\ x <= y
        BY <1>9, <3>1, GetTypes, GetConstants
      <3> HIDE DEF x, y
      <3>3. net_boot_file_size <= y + Window
        BY <3>1, <3>2, GetTypes, GetConstants
      <3> QED
        BY <3>3 DEF y
    <2>5. \A p \in Get!Port : base'[p] <= net_boot_file_size'
      BY <1>1, <1>9
    <2> QED
      BY <2>3, <2>4, <2>5 DEF Get!WindowInv, Get!Port
  <1> QED
    BY <1>10, <1>11, <1>12 DEF Get!GetInv

LEMMA GetBadOack ==
  ASSUME Get!GetInv, NEW m \in net, Get!RecvBadOack(m), UNCHANGED <<tftp_load_size, network>>
  PROVE  Get!GetInv'
  <1>1. /\ tftp_state' = "INVALID_OPTION" /\ tftp_remote_port' = m.port
        /\ tftp_next_ack' = tftp_windowsize /\ net_state' = "FAIL" /\ net' \subseteq net
        /\ m.kind = "BADOACK"
        /\ UNCHANGED <<tftp_cur_block, tftp_prev_block, tftp_block_wrap_offset, tftp_windowsize,
                       tftp_last_nack, timeout_count, net_try_count, mem, net_boot_file_size,
                       got, base, losses>>
    BY DEF Get!RecvBadOack, Get!Left, Get!Receive
  <1>2. m.port \in 0 .. MaxPorts
    BY <1>1, GetConstants DEF Get!GetInv, Get!WindowInv, Get!Datagram, Get!RRQ, Get!Port
  <1>3. tftp_windowsize \in Get!Seq16
    BY GetTypes, GetConstants DEF Get!Seq16
  <1>4. Get!TypeOK'
    BY <1>1, <1>2, <1>3 DEF Get!GetInv, Get!TypeOK, Get!Seq16, Get!Port
  <1>5. Get!CountInv' /\ Get!StoreInv'
    BY <1>1 DEF Get!GetInv, Get!CountInv, Get!StoreInv
  <1>6. Get!WindowInv'
    <2>1. \A k : Get!Datagram(k) => Get!Datagram(k)'
      BY <1>1 DEF Get!Datagram, Get!Port, Get!RRQ
    <2> QED
      BY <1>1, <2>1 DEF Get!GetInv, Get!WindowInv, Get!Port
  <1> QED
    BY <1>4, <1>5, <1>6 DEF Get!GetInv

LEMMA GetOack ==
  ASSUME Get!GetInv, NEW m \in net, Get!RecvOack(m), UNCHANGED <<tftp_load_size, network>>
  PROVE  Get!GetInv'
  <1>1. /\ net_state = "CONTINUE" /\ m.kind = "OACK" /\ m.blk + MaxAge >= got
        /\ tftp_state = "SEND_RRQ" \/ m.port = tftp_remote_port
        /\ tftp_state' = "OACK" /\ tftp_remote_port' = m.port
        /\ tftp_windowsize' = Window /\ tftp_next_ack' = Window
        /\ UNCHANGED <<tftp_cur_block, tftp_prev_block, tftp_block_wrap_offset, tftp_last_nack,
                       timeout_count, net_state, net_try_count, mem, net_boot_file_size, got,
                       base, losses>>
    BY DEF Get!RecvOack, Get!Receive, Get!Young, Get!ToClient
  <1>2. m.port \in Get!Port /\ m.blk = 0 /\ got <= MaxAge /\ got = net_boot_file_size
    <2>1. m.port \in Get!Port /\ m.blk = 0
      BY <1>1 DEF Get!GetInv, Get!WindowInv, Get!Datagram, Get!RRQ
    <2>2. got = net_boot_file_size
      BY <1>1 DEF Get!GetInv, Get!StoreInv
    <2> QED
      BY <1>1, <2>1, <2>2, GetTypes, GetConstants
  <1>3. net_boot_file_size <= base[m.port] + Window
    <2>1. CASE tftp_state = "SEND_RRQ"
      <3>1. net_boot_file_size = 0
        BY <1>2, <2>1 DEF Get!GetInv, Get!CountInv
      <3> QED
        BY <1>2, <3>1, GetTypes, GetConstants
    <2>2. CASE tftp_state # "SEND_RRQ"
      <3>1. tftp_state \in {"OACK", "DATA"}
        BY <1>1, <2>2 DEF Get!GetInv, Get!TypeOK, Get!CountInv
      <3> QED
        BY <1>1, <2>2, <3>1 DEF Get!GetInv, Get!WindowInv
    <2> QED
      BY <2>1, <2>2
  <1>4. \A k \in net' : k \in net \/ k = Get!Packet("ACK", m.port, got)
    BY DEF Get!RecvOack, Get!tftp_send, Get!Left
  <1>5. Window \in Get!Seq16 /\ m.port \in 0 .. MaxPorts
    BY <1>2, GetConstants DEF Get!Seq16, Get!Port
  <1>6. Get!TypeOK'
    BY <1>1, <1>5 DEF Get!GetInv, Get!TypeOK, Get!Seq16, Get!Port
  <1>7. Get!CountInv' /\ Get!StoreInv'
    BY <1>1, <1>2 DEF Get!GetInv, Get!CountInv, Get!StoreInv, Get!Port
  <1>8. Get!WindowInv'
    <2>1. \A k : Get!Datagram(k) => Get!Datagram(k)'
      BY <1>1 DEF Get!Datagram, Get!Port, Get!RRQ
    <2>2. Get!Datagram(Get!Packet("ACK", m.port, got))
      BY <1>2, <1>3, GetTypes DEF Get!Datagram, Get!Packet
    <2>3. \A k \in net' : Get!Datagram(k)'
      BY <1>4, <2>1, <2>2 DEF Get!GetInv, Get!WindowInv
    <2> QED
      BY <1>1, <1>3, <2>3 DEF Get!GetInv, Get!WindowInv, Get!Port
  <1> QED
    BY <1>6, <1>7, <1>8 DEF Get!GetInv

(* The block the client takes for the next one is the next one, and its    *)
(* place is the one that update_block_number computes.                     *)
LEMMA GetNext ==
  ASSUME Get!GetInv, NEW m \in net, Get!Receive(m, "DATA"), Get!Wire(m) = Get!Expected,
         Get!First => Get!Expected = 1
  PROVE  /\ m.blk = got + 1 /\ m.port \in Get!Port /\ m.blk <= NBlocks
         /\ got = net_boot_file_size /\ got + 1 <= base[m.port] + Window
         /\ Get!Expected = (got + 1) % SeqSize /\ Get!Expected \in Get!Seq16
         /\ Get!WrapOffset(Get!First) \in Nat
         /\ Get!WrapOffset(Get!First) + Get!Expected = got + 1
         /\ Get!Offset = got
  <1> DEFINE s == SeqSize
             e == Get!Expected
             c == tftp_cur_block
             w == tftp_block_wrap_offset
             x == base[m.port]
  <1>1. s \in Nat /\ s > 1 /\ s \in Nat \ {0} /\ got \in Nat /\ got + 1 \in Nat
    BY GetConstants, GetTypes
  <1>2. /\ net_state = "CONTINUE" /\ m.kind = "DATA" /\ m.blk + MaxAge >= got
    BY DEF Get!Receive, Get!Young, Get!ToClient
  <1>3. /\ m.port \in Get!Port /\ m.blk \in 1 .. NBlocks /\ m.blk <= x + Window
    BY <1>2 DEF Get!GetInv, Get!WindowInv, Get!Datagram, Get!RRQ
  <1>4. got = net_boot_file_size /\ x <= net_boot_file_size /\ x \in Nat
    BY <1>2, <1>3, GetTypes DEF Get!GetInv, Get!StoreInv, Get!WindowInv
  <1>5. /\ c = got % s /\ c \in 0 .. s - 1
        /\ c + 1 < s => (got + 1) % s = c + 1
        /\ c + 1 = s => (got + 1) % s = 0
        /\ (c + 1) % s = (got + 1) % s
    BY <1>1, NextMod DEF Get!GetInv, Get!CountInv
  <1>6. e = (got + 1) % s
    BY <1>5 DEF Get!Expected
  <1>7. m.blk = got + 1
    <2> DEFINE b == m.blk
               n == got + 1
    <2>1. b % s = n % s
      BY <1>6 DEF Get!Wire
    <2>2. b < n + s /\ n < b + s /\ b \in Nat
      BY <1>1, <1>2, <1>3, <1>4, GetConstants
    <2> HIDE DEF b, n, s
    <2>3. n \in Nat
      BY <1>1 DEF n
    <2>4. b = n
      BY <1>1, <2>1, <2>2, <2>3, NearEqual
    <2> QED
      BY <2>4 DEF b, n
  <1>8. e \in 0 .. s - 1
    BY <1>1, <1>6, <1>5
  <1>9. /\ Get!WrapOffset(Get!First) \in Nat /\ Get!WrapOffset(Get!First) + e = got + 1
    <2>1. CASE Get!First
      <3>1. got <= MaxAge
        BY <2>1, GetConstants DEF Get!GetInv, Get!CountInv, Get!First
      <3>2. got < s /\ got + 1 < s
        BY <1>1, <3>1, GetConstants
      <3>3. c = got
        BY <1>1, <1>5, <3>2, SmallMod
      <3>4. e = got + 1
        BY <1>5, <1>6, <3>2, <3>3
      <3>5. e = 1
        BY <2>1
      <3>6. Get!WrapOffset(Get!First) = 0
        BY <2>1, <3>5 DEF Get!WrapOffset
      <3> QED
        BY <1>1, <3>4, <3>5, <3>6
    <2>2. CASE ~Get!First
      <3>1. tftp_state = "DATA"
        BY <1>2, <2>2 DEF Get!GetInv, Get!CountInv, Get!TypeOK, Get!First
      <3>2. tftp_prev_block = c /\ w + c = got /\ w \in Nat
        BY <3>1, GetTypes DEF Get!GetInv, Get!CountInv
      <3>3. Get!WrapOffset(Get!First) = w + (IF e = 0 /\ c # 0 THEN s ELSE 0)
        BY <2>2, <3>2 DEF Get!WrapOffset, Get!Prev
      <3> HIDE DEF e, c, w, s
      <3>4. CASE c + 1 < s
        <4>1. e = c + 1 /\ e # 0
          BY <1>5, <1>6, <3>4
        <4> QED
          BY <1>1, <1>5, <3>2, <3>3, <4>1
      <3>5. CASE c + 1 = s
        <4>1. e = 0 /\ c # 0
          BY <1>1, <1>5, <1>6, <3>5
        <4> QED
          BY <1>1, <1>5, <3>2, <3>3, <3>5, <4>1
      <3> QED
        BY <1>1, <1>5, <3>4, <3>5
    <2> QED
      BY <2>1, <2>2
  <1>10. Get!Offset = got
    <2> DEFINE o == Get!WrapOffset(Get!First)
    <2>1. Get!Offset = e + o - 1
      BY DEF Get!Offset
    <2>2. o \in Nat /\ o + e = got + 1
      BY <1>9
    <2> HIDE DEF o, e, s
    <2> QED
      BY <1>1, <1>8, <2>1, <2>2
  <1>11. m.blk <= NBlocks
    BY <1>3, GetConstants
  <1>12. got + 1 <= base[m.port] + Window
    BY <1>3, <1>7
  <1>13. e \in Get!Seq16
    BY <1>8 DEF Get!Seq16
  <1> QED
    BY <1>3, <1>4, <1>6, <1>7, <1>9, <1>10, <1>11, <1>12, <1>13

LEMMA GetAckAt ==
  ASSUME Get!GetInv
  PROVE  /\ Get!AckAt \in Get!Seq16
         /\ (Get!AckAt + tftp_windowsize) % SeqSize \in Get!Seq16
  <1>1. Get!AckAt \in Get!Seq16
    BY GetConstants DEF Get!AckAt, Get!GetInv, Get!TypeOK, Get!Seq16
  <1> DEFINE a == Get!AckAt
  <1>2. a \in Nat /\ tftp_windowsize \in Nat /\ SeqSize > 0
    BY <1>1, GetTypes, GetConstants DEF Get!Seq16
  <1> HIDE DEF a
  <1>3. (a + tftp_windowsize) % SeqSize \in 0 .. SeqSize - 1
    BY <1>2, GetConstants, OnTheWire
  <1> QED
    BY <1>1, <1>3 DEF a, Get!Seq16

LEMMA GetTooLarge ==
  ASSUME Get!GetInv, NEW m \in net, Get!RecvTooLarge(m), UNCHANGED <<tftp_load_size, network>>
  PROVE  Get!GetInv'
  <1>1. /\ tftp_cur_block' = Get!Expected /\ tftp_prev_block' = Get!Expected
        /\ tftp_state' = "DATA" /\ tftp_remote_port' = m.port
        /\ tftp_block_wrap_offset' = Get!WrapOffset(Get!First) /\ got' = got + 1
        /\ net_state' = "FAIL" /\ tftp_next_ack' = Get!AckAt /\ net' \subseteq net
        /\ UNCHANGED <<tftp_windowsize, tftp_last_nack, timeout_count, net_try_count, mem,
                       net_boot_file_size, base, losses>>
    BY DEF Get!RecvTooLarge, Get!Accept, Get!Left
  <1>2. /\ m.port \in Get!Port /\ got = net_boot_file_size /\ got + 1 <= base[m.port] + Window
        /\ Get!Expected = (got + 1) % SeqSize /\ Get!Expected \in Get!Seq16
        /\ Get!WrapOffset(Get!First) \in Nat
        /\ Get!WrapOffset(Get!First) + Get!Expected = got + 1
    BY GetNext DEF Get!RecvTooLarge
  <1>3. Get!AckAt \in Get!Seq16
    BY GetAckAt
  <1>4. m.port \in 0 .. MaxPorts
    BY <1>2, GetConstants DEF Get!Port
  <1>5. Get!TypeOK'
    BY <1>1, <1>2, <1>3, <1>4 DEF Get!GetInv, Get!TypeOK, Get!Seq16, Get!Port
  <1>6. got + 1 \in Nat /\ net_boot_file_size <= got + 1 /\ net_boot_file_size <= base[m.port] + Window
    <2>1. got \in Nat /\ base[m.port] \in Nat /\ Window \in Nat
      BY <1>2, GetTypes, GetConstants
    <2> DEFINE x == base[m.port]
    <2>2. got + 1 <= x + Window /\ x \in Nat
      BY <1>2, <2>1
    <2> HIDE DEF x
    <2>3. got + 1 \in Nat /\ got <= got + 1 /\ got <= x + Window
      BY <2>1, <2>2
    <2> QED
      BY <1>2, <2>3 DEF x
  <1>7. Get!CountInv'
    BY <1>1, <1>2, <1>6 DEF Get!CountInv, Get!Port
  <1>8. Get!StoreInv'
    BY <1>1, <1>6 DEF Get!GetInv, Get!StoreInv
  <1>9. Get!WindowInv'
    <2>1. \A k : Get!Datagram(k) => Get!Datagram(k)'
      BY <1>1 DEF Get!Datagram, Get!Port, Get!RRQ
    <2> QED
      BY <1>1, <1>6, <2>1 DEF Get!GetInv, Get!WindowInv, Get!Port
  <1> QED
    BY <1>5, <1>7, <1>8, <1>9 DEF Get!GetInv

LEMMA GetBlock ==
  ASSUME Get!GetInv, NEW m \in net, Get!RecvBlock(m), UNCHANGED <<tftp_load_size, network>>
  PROVE  Get!GetInv'
  <1>1. /\ m.blk = got + 1 /\ m.port \in Get!Port /\ m.blk <= NBlocks
        /\ got = net_boot_file_size /\ got + 1 <= base[m.port] + Window
        /\ Get!Expected = (got + 1) % SeqSize /\ Get!Expected \in Get!Seq16
        /\ Get!WrapOffset(Get!First) \in Nat
        /\ Get!WrapOffset(Get!First) + Get!Expected = got + 1
        /\ Get!Offset = got
    BY GetNext DEF Get!RecvBlock
  <1>2. /\ tftp_cur_block' = Get!Expected /\ tftp_prev_block' = Get!Expected
        /\ tftp_state' = "DATA" /\ tftp_remote_port' = m.port
        /\ tftp_block_wrap_offset' = Get!WrapOffset(Get!First) /\ got' = got + 1
        /\ timeout_count' = 0
        /\ UNCHANGED <<tftp_windowsize, tftp_last_nack, net_try_count, base, losses>>
    BY DEF Get!RecvBlock, Get!Accept
  <1>3. /\ got < tftp_load_size /\ mem' = [mem EXCEPT ![got] = got + 1]
        /\ net_boot_file_size' = got + 1
    <2>1. /\ got < tftp_load_size /\ mem' = [mem EXCEPT ![got] = got + 1]
          /\ net_boot_file_size' = IF net_boot_file_size < got + 1 THEN got + 1
                                   ELSE net_boot_file_size
      BY <1>1 DEF Get!RecvBlock
    <2>2. net_boot_file_size < got + 1
      BY <1>1, GetTypes
    <2> QED
      BY <2>1, <2>2
  <1>4. /\ tftp_next_ack' \in Get!Seq16 /\ net_state' \in {net_state, "SUCCESS"}
        /\ net_state' = "SUCCESS" => got + 1 = NBlocks
        /\ \A k \in net' : k \in net \/ k = Get!Packet("ACK", m.port, got + 1)
    <2> DEFINE ack == Get!tftp_send("DATA", m.port, got + 1)
               due == Get!AckDue(Get!Expected, Get!AckAt)
    <2>0. net_state = "CONTINUE" /\ ack = {Get!Packet("ACK", m.port, got + 1)}
      BY DEF Get!RecvBlock, Get!Receive, Get!tftp_send
    <2>1. CASE m.blk = NBlocks
      <3>1. net' = Get!Left(m) \cup ack /\ net_state' = "SUCCESS" /\ tftp_next_ack' = Get!AckAt
        BY <2>1 DEF Get!RecvBlock
      <3> QED
        BY <1>1, <2>0, <2>1, <3>1, GetAckAt DEF Get!Left
    <2>2. CASE m.blk # NBlocks
      <3>1. /\ net' = IF due THEN Get!Left(m) \cup ack ELSE Get!Left(m)
            /\ tftp_next_ack' = IF due THEN (Get!AckAt + tftp_windowsize) % SeqSize
                                ELSE Get!AckAt
            /\ UNCHANGED net_state
        BY <2>2 DEF Get!RecvBlock
      <3> QED
        BY <2>0, <3>1, GetAckAt DEF Get!Left
    <2> QED
      BY <2>1, <2>2
  <1>5. got + 1 \in 1 .. NBlocks /\ got + 1 \in 0 .. tftp_load_size /\ got \in 0 .. tftp_load_size - 1
    <2>1. got \in Nat /\ tftp_load_size \in Nat /\ got + 1 <= NBlocks /\ got < tftp_load_size
      BY <1>1, <1>3, GetTypes
    <2> QED
      BY <2>1, GetConstants
  <1>6. Get!TypeOK'
    <2>1. mem' \in [0 .. tftp_load_size - 1 -> 0 .. NBlocks]
      BY <1>3, <1>5, GetTypes, GetConstants
    <2>2. m.port \in 0 .. MaxPorts /\ 0 \in 0 .. MaxTimeouts
      BY <1>1, GetConstants DEF Get!Port
    <2>3. net_state' \in {"CONTINUE", "SUCCESS", "FAIL"}
      BY <1>4, GetTypes
    <2> QED
      BY <1>1, <1>2, <1>3, <1>4, <1>5, <2>1, <2>2, <2>3 DEF Get!GetInv, Get!TypeOK, Get!Seq16, Get!Port
  <1>7. Get!CountInv'
    BY <1>1, <1>2, <1>5, GetConstants DEF Get!CountInv, Get!Port
  <1>8. Get!StoreInv'
    <2>1. \A i \in 1 .. got + 1 : mem'[i - 1] = i
      <3> SUFFICES ASSUME NEW i \in 1 .. got + 1 PROVE mem'[i - 1] = i
        OBVIOUS
      <3>1. CASE i = got + 1
        <4>1. i - 1 = got
          BY <3>1, GetTypes
        <4> QED
          BY <1>3, <1>5, <3>1, <4>1, GetTypes
      <3>2. CASE i # got + 1
        <4>1. i \in 1 .. net_boot_file_size /\ i - 1 # got /\ i - 1 \in 0 .. tftp_load_size - 1
          BY <1>1, <1>3, <3>2, GetTypes
        <4>2. mem[i - 1] = i
          BY <4>1 DEF Get!GetInv, Get!StoreInv
        <4> QED
          BY <1>3, <4>1, <4>2, GetTypes
      <3> QED
        BY <3>1, <3>2
    <2>2. got + 1 <= got + 1
      BY <1>5
    <2> QED
      BY <1>2, <1>3, <1>4, <2>1, <2>2 DEF Get!StoreInv
  <1>9. Get!WindowInv'
    <2>1. \A p \in Get!Port : base[p] <= net_boot_file_size /\ base[p] <= base[p]
      BY GetTypes DEF Get!GetInv, Get!WindowInv
    <2>2. net_boot_file_size <= net_boot_file_size' /\ net_boot_file_size' \in Nat
      BY <1>1, <1>3, GetTypes
    <2>3. \A k : Get!Datagram(k) => Get!Datagram(k)'
      BY <1>2, <2>1, <2>2, GetForward, GetTypes
    <2>4. PICK k : k = Get!Packet("ACK", m.port, got + 1)
      OBVIOUS
    <2>5. (Get!Datagram(k))'
      <3>1. k.kind = "ACK" /\ k.port = m.port /\ k.blk = got + 1
        BY <2>4 DEF Get!Packet
      <3>2. k.blk \in 0 .. net_boot_file_size' /\ k.blk <= base'[k.port] + Window
        BY <1>1, <1>2, <1>3, <1>5, <3>1
      <3> QED
        BY <1>1, <3>1, <3>2 DEF Get!Datagram, Get!Port, Get!RRQ
    <2>6. \A h \in net' : Get!Datagram(h)'
      BY <1>4, <2>3, <2>4, <2>5 DEF Get!GetInv, Get!WindowInv
    <2>7. \A p \in Get!Port : base[p] <= got + 1
      BY <1>1, <2>1, GetTypes
    <2> QED
      BY <1>1, <1>2, <1>3, <2>6, <2>7 DEF Get!WindowInv, Get!Port
  <1> QED
    BY <1>6, <1>7, <1>8, <1>9 DEF Get!GetInv

LEMMA GetStep ==
  ASSUME Get!GetInv, Get!Next, UNCHANGED <<tftp_load_size, network>>
  PROVE  Get!GetInv'
  <1>1. CASE Get!ServerRequest
    BY <1>1, GetRequest
  <1>2. ASSUME NEW m \in net, Get!ServerAck(m)
        PROVE  Get!GetInv'
    BY <1>2, GetAck
  <1>3. ASSUME NEW m \in net, Get!Dropped(m)
        PROVE  Get!GetInv'
    BY <1>3, GetDropped
  <1>4. ASSUME NEW m \in net, Get!RecvOack(m)
        PROVE  Get!GetInv'
    BY <1>4, GetOack
  <1>5. ASSUME NEW m \in net, Get!RecvBadOack(m)
        PROVE  Get!GetInv'
    BY <1>5, GetBadOack
  <1>6. ASSUME NEW m \in net, Get!RecvOther(m)
        PROVE  Get!GetInv'
    BY <1>6, GetOther
  <1>7. ASSUME NEW m \in net, Get!RecvNotFirst(m)
        PROVE  Get!GetInv'
    BY <1>7, GetAgain DEF Get!RecvNotFirst, Get!Receive
  <1>8. ASSUME NEW m \in net, Get!RecvBlock(m)
        PROVE  Get!GetInv'
    BY <1>8, GetBlock
  <1>9. ASSUME NEW m \in net, Get!RecvTooLarge(m)
        PROVE  Get!GetInv'
    BY <1>9, GetTooLarge
  <1>10. ASSUME NEW m \in net, Get!RecvNotFound(m)
         PROVE  Get!GetInv'
    BY <1>10, GetNotFound
  <1>11. ASSUME NEW m \in net, Get!RecvError(m)
         PROVE  Get!GetInv'
    BY <1>11, GetAgain DEF Get!RecvError, Get!Receive
  <1>12. CASE Get!tftp_timeout_handler
    BY <1>12, GetTimeout
  <1>13. CASE Get!icmp_handler
    BY <1>13, GetAgain DEF Get!icmp_handler
  <1>14. ASSUME NEW p \in Get!Port, Get!ServerTimeout(p)
         PROVE  Get!GetInv'
    BY <1>14, GetServerTimeout
  <1>15. ASSUME NEW m \in net, Get!Lose(m)
         PROVE  Get!GetInv'
    BY <1>15, GetLose
  <1> QED
    BY <1>1, <1>2, <1>3, <1>4, <1>5, <1>6, <1>7, <1>8, <1>9, <1>10, <1>11, <1>12, <1>13,
       <1>14, <1>15 DEF Get!Next, Get!Deliver

-----------------------------------------------------------------------------
(* Writing. *)

LEMMA PutConstants ==
  /\ SaveSizes \in [Networks -> Nat \ {0}] /\ SeqSize \in Nat /\ SeqSize > 2
  /\ PutAnswers \subseteq {"OACK", "ACK", "BADOACK", "ERROR"}
  /\ MaxTimeouts \in Nat /\ MaxLoss \in Nat /\ MaxAge \in Nat /\ MaxCount \in Nat
  BY TftpAssumption DEF Put!TftpPutAssumption

PutTyped == Put!TypeOK /\ net \subseteq Put!Datagrams

LEMMA PutTypes ==
  ASSUME PutTyped
  PROVE  /\ net_boot_file_size \in Nat \ {0} /\ file \in Seq(0 .. net_boot_file_size)
         /\ Len(file) \in Nat /\ tftp_cur_block \in Nat /\ tftp_block_wrap_offset \in Nat
         /\ timeout_count \in 0 .. MaxTimeouts /\ losses \in 0 .. MaxLoss
         /\ tftp_put_final_block_sent \in BOOLEAN /\ tftp_state \in {"SEND_WRQ", "DATA"}
         /\ answer \in PutAnswers \cup {"none"} /\ network \in Networks
         /\ net_boot_file_size = SaveSizes[network] /\ tftp_prev_block \in Nat
         /\ net_state \in {"CONTINUE", "SUCCESS", "FAIL"}
         /\ \A m \in net : m.blk \in 0 .. SeqSize - 1 /\ m.data \in 0 .. net_boot_file_size
  BY PutConstants, LenProperties DEF PutTyped, Put!TypeOK, Put!Datagrams, Put!Seq16

LEMMA PutStart == StartPut => TftpInv
  <1> SUFFICES ASSUME StartPut PROVE TftpInv
    OBVIOUS
  <1>1. /\ tftp_put_active = TRUE /\ Put!Init /\ base = <<>>
    BY DEF StartPut
  <1>2. /\ net_boot_file_size \in Nat \ {0} /\ Len(file) = 0 /\ file = <<>>
        /\ file \in Seq(0 .. net_boot_file_size)
    BY <1>1, PutConstants DEF Put!Init
  <1>3. Put!TypeOK /\ net \subseteq Put!Datagrams
    <2>0. 0 \in 0 .. MaxTimeouts /\ 0 \in 0 .. MaxLoss /\ 0 \in Nat
      BY PutConstants
    <2>1. Put!TypeOK
      BY <1>1, <1>2, <2>0 DEF Put!Init, Put!TypeOK
    <2>2. Put!Request \in Put!Datagrams
      BY <1>2, PutConstants DEF Put!Datagrams, Put!Request, Put!Seq16
    <2> QED
      BY <1>1, <2>1, <2>2 DEF Put!Init
  <1>4. Put!Prefix
    BY <1>2 DEF Put!Prefix
  <1>5. Put!LossyInv
    BY <1>1, <1>2, <1>4, PutConstants, SmallMod
    DEF Put!Init, Put!LossyInv, Put!Current, Put!Request
  <1>6. Put!ShortInv
    BY <1>1, <1>2, <1>4, PutConstants DEF Put!Init, Put!ShortInv, Put!Request
  <1> QED
    BY <1>1, <1>3, <1>5, <1>6 DEF TftpInv, Put!PutInv

(* What the server sends. *)
LEMMA PutAnswered ==
  ASSUME PutTyped, answer # "none", NEW m, m = Put!LastAnswer
  PROVE  /\ m \in Put!Datagrams /\ m.kind # "DATA"
         /\ file = <<>> => m.blk = 0
         /\ file # <<>> => m.blk = Len(file) % SeqSize
  <1>1. answer \in {"OACK", "ACK", "BADOACK", "ERROR"} /\ 0 \in 0 .. SeqSize - 1
    <2>1. answer \in PutAnswers
      BY PutTypes
    <2> QED
      BY <2>1, PutConstants
  <1>2. Len(file) % SeqSize \in 0 .. SeqSize - 1
    BY PutTypes, PutConstants, Split
  <1>3. CASE file = <<>>
    BY <1>1, <1>3, PutTypes DEF Put!LastAnswer, Put!Answer, Put!Datagrams, Put!Seq16
  <1>4. CASE file # <<>>
    BY <1>1, <1>2, <1>4, PutTypes
    DEF Put!LastAnswer, Put!Answer, Put!Ack, Put!Datagrams, Put!Seq16
  <1> QED
    BY <1>3, <1>4

(* What the client sends. *)
LEMMA PutSent ==
  ASSUME PutTyped, NEW n \in Nat, NEW w \in Nat, NEW left, Put!SendBlock(n, w, left)
  PROVE  \E d \in Put!Datagrams :
            /\ net' = left \cup {d}
            /\ d.kind = "DATA" /\ d.blk = n % SeqSize
            /\ d.data = (IF n + w \in 1 .. net_boot_file_size THEN n + w ELSE 0)
            /\ tftp_put_final_block_sent' = (d.data = net_boot_file_size)
  <1> DEFINE b == Put!load_block(n, w)
             d == [kind |-> "DATA", blk |-> n % SeqSize, data |-> b, at |-> Len(file)]
  <1>1. n % SeqSize \in 0 .. SeqSize - 1
    BY PutConstants, Split
  <1>2. b = (IF n + w \in 1 .. net_boot_file_size THEN n + w ELSE 0) /\ b \in 0 .. net_boot_file_size
    BY PutTypes DEF Put!load_block, Put!Junk
  <1>3. net' = left \cup {d} /\ tftp_put_final_block_sent' = (b = net_boot_file_size)
    BY DEF Put!SendBlock, Put!FinalBlock
  <1> HIDE DEF b
  <1>4. d \in Put!Datagrams
    BY <1>1, <1>2, PutTypes DEF Put!Datagrams, Put!Seq16
  <1> QED
    BY <1>2, <1>3, <1>4

LEMMA PutRequestTyped == PutTyped => Put!Request \in Put!Datagrams
  BY PutTypes, PutConstants DEF Put!Datagrams, Put!Request, Put!Seq16

(* A step that sends at most one datagram keeps the types if that datagram *)
(* and the variables it sets have theirs.                                  *)
LEMMA PutTypeStep ==
  ASSUME PutTyped, UNCHANGED <<net_boot_file_size, network>>,
         \A m \in net' : m \in Put!Datagrams,
         tftp_state' \in {"SEND_WRQ", "DATA"}, tftp_cur_block' \in Nat,
         tftp_prev_block' \in Nat, tftp_block_wrap_offset' \in Nat,
         tftp_put_final_block_sent' \in BOOLEAN, timeout_count' \in 0 .. MaxTimeouts,
         net_state' \in {"CONTINUE", "SUCCESS", "FAIL"},
         file' \in Seq(0 .. net_boot_file_size), answer' \in PutAnswers \cup {"none"},
         losses' \in 0 .. MaxLoss
  PROVE  PutTyped'
  <1>1. Put!TypeOK'
    BY DEF PutTyped, Put!TypeOK
  <1>2. (net \subseteq Put!Datagrams)'
    BY DEF Put!Datagrams, Put!Seq16
  <1> QED
    BY <1>1, <1>2 DEF PutTyped

LEMMA PutLeft ==
  ASSUME NEW m \in net
  PROVE  /\ Put!Left(m) \subseteq net
         /\ network = "lossy" /\ Put!LossyInv => Put!Left(m) = {}
  <1>1. network = "lossy" => Put!Left(m) = net \ {m}
    BY DEF Put!Left
  <1>2. Put!LossyInv => \A k \in net : k = m
    BY DEF Put!LossyInv
  <1>3. Put!Left(m) \subseteq net
    BY DEF Put!Left
  <1> QED
    BY <1>1, <1>2, <1>3

(* Losing, dropping, or ending in failure: nothing is sent. *)
LEMMA PutQuiet ==
  ASSUME Put!PutInv, net' \subseteq net, net_state' \in {net_state, "FAIL"},
         losses' \in 0 .. MaxLoss,
         UNCHANGED <<net_boot_file_size, network, tftp_state, tftp_cur_block, tftp_prev_block,
                     tftp_block_wrap_offset, tftp_put_final_block_sent, timeout_count,
                     file, answer>>
  PROVE  Put!PutInv'
  <1>1. PutTyped
    BY DEF Put!PutInv, PutTyped
  <1>2. PutTyped'
    <2>1. net' \subseteq Put!Datagrams
      BY <1>1 DEF PutTyped
    <2>2. net_state' \in {"CONTINUE", "SUCCESS", "FAIL"}
      BY <1>1, PutTypes
    <2> QED
      BY <1>1, <2>1, <2>2, PutTypeStep, PutTypes
  <1>3. Put!LossyInv => Put!LossyInv'
    BY DEF Put!LossyInv, Put!Prefix, Put!Current
  <1>4. Put!ShortInv => Put!ShortInv'
    BY DEF Put!ShortInv, Put!Prefix
  <1> QED
    BY <1>2, <1>3, <1>4 DEF Put!PutInv, PutTyped

(* An answer of the server, for the first time or again. *)
LEMMA PutReply ==
  ASSUME Put!PutInv, NEW d \in Put!Datagrams, d.kind # "DATA",
         d.blk = 0 \/ (file # <<>> /\ d.blk = Len(file) % SeqSize),
         net' \subseteq net \cup {d},
         network = "lossy" => net' = {d} /\ tftp_state = "SEND_WRQ",
         answer' \in PutAnswers,
         UNCHANGED <<net_boot_file_size, network, tftp_state, tftp_cur_block, tftp_prev_block,
                     tftp_block_wrap_offset, tftp_put_final_block_sent, timeout_count,
                     net_state, file, losses>>
  PROVE  Put!PutInv'
  <1>1. PutTyped
    BY DEF Put!PutInv, PutTyped
  <1>2. PutTyped'
    <2>1. \A m \in net' : m \in Put!Datagrams
      BY <1>1 DEF PutTyped
    <2> QED
      BY <1>1, <2>1, PutTypeStep, PutTypes
  <1>3. ASSUME network = "lossy", Put!LossyInv
        PROVE  Put!LossyInv'
    <2>1. net' = {d} /\ tftp_state = "SEND_WRQ" /\ d.blk = 0
      BY <1>3 DEF Put!LossyInv
    <2> QED
      BY <1>3, <2>1 DEF Put!LossyInv, Put!Prefix, Put!Current
  <1>4. ASSUME net_boot_file_size + MaxCount < SeqSize, Put!ShortInv
        PROVE  Put!ShortInv'
    <2>1. Len(file) < SeqSize
      BY <1>1, <1>4, PutTypes, PutConstants DEF Put!ShortInv, Put!Prefix
    <2>2. Len(file) % SeqSize = Len(file)
      BY <1>1, <2>1, PutTypes, PutConstants, SmallMod
    <2>3. d.blk <= Len(file)
      BY <1>1, <2>2, PutTypes
    <2> QED
      BY <1>4, <2>3 DEF Put!ShortInv, Put!Prefix
  <1> QED
    BY <1>2, <1>3, <1>4 DEF Put!PutInv, PutTyped

LEMMA PutAgain ==
  ASSUME Put!PutInv, Put!Request \in net, network = "lossy"
  PROVE  tftp_state = "SEND_WRQ" /\ Put!Left(Put!Request) = {} /\ file = <<>>
  <1>1. Put!LossyInv /\ tftp_state \in {"SEND_WRQ", "DATA"}
    BY DEF Put!PutInv, Put!TypeOK
  <1>2. Put!Request.kind = "WRQ"
    BY DEF Put!Request
  <1>3. tftp_state = "SEND_WRQ"
    BY <1>1, <1>2 DEF Put!LossyInv
  <1> QED
    BY <1>1, <1>3, PutLeft DEF Put!LossyInv

LEMMA PutRequest ==
  ASSUME Put!PutInv, Put!ServerRequest, UNCHANGED <<net_boot_file_size, network>>
  PROVE  Put!PutInv'
  <1>1. PutTyped /\ Put!Request \in net
    BY DEF Put!PutInv, PutTyped, Put!ServerRequest
  <1>2. answer' \in PutAnswers
    BY DEF Put!ServerRequest
  <1>3. PICK a \in PutAnswers : a = answer'
    BY <1>2
  <1> DEFINE d == [kind |-> a, blk |-> 0, data |-> 0, at |-> Len(file)]
  <1>4. net' = Put!Left(Put!Request) \cup {d}
    BY <1>3 DEF Put!ServerRequest, Put!Answer
  <1>5. a \in {"OACK", "ACK", "BADOACK", "ERROR"}
    BY PutConstants
  <1>6. d \in Put!Datagrams /\ d.kind # "DATA" /\ d.blk = 0
    BY <1>1, <1>5, PutTypes, PutConstants DEF Put!Datagrams, Put!Seq16
  <1>7. net' \subseteq net \cup {d}
    BY <1>1, <1>4, PutLeft
  <1>8. network = "lossy" => net' = {d} /\ tftp_state = "SEND_WRQ"
    BY <1>1, <1>4, PutAgain
  <1> HIDE DEF d
  <1> QED
    BY <1>2, <1>6, <1>7, <1>8, PutReply DEF Put!ServerRequest, Put!client

LEMMA PutRequestAgain ==
  ASSUME Put!PutInv, Put!ServerRequestAgain, UNCHANGED <<net_boot_file_size, network>>
  PROVE  Put!PutInv'
  <1>1. /\ PutTyped /\ Put!Request \in net /\ answer # "none" /\ answer \in PutAnswers
        /\ net' = Put!Left(Put!Request) \cup {Put!LastAnswer}
    BY PutTypes DEF Put!PutInv, PutTyped, Put!ServerRequestAgain
  <1>2. PICK d : d = Put!LastAnswer
    OBVIOUS
  <1>3. /\ d \in Put!Datagrams /\ d.kind # "DATA"
        /\ d.blk = 0 \/ (file # <<>> /\ d.blk = Len(file) % SeqSize)
    BY <1>1, <1>2, PutAnswered
  <1>4. net' \subseteq net \cup {d}
    BY <1>1, <1>2, PutLeft
  <1>5. network = "lossy" => net' = {d} /\ tftp_state = "SEND_WRQ"
    BY <1>1, <1>2, PutAgain
  <1> QED
    BY <1>1, <1>3, <1>4, <1>5, PutReply DEF Put!ServerRequestAgain, Put!client, Put!server

LEMMA PutServerTimeout ==
  ASSUME Put!PutInv, Put!ServerTimeout, UNCHANGED <<net_boot_file_size, network>>
  PROVE  Put!PutInv'
  <1>1. /\ PutTyped /\ answer # "none" /\ answer \in PutAnswers /\ network # "lossy"
        /\ net' = net \cup {Put!LastAnswer}
    BY PutTypes DEF Put!PutInv, PutTyped, Put!ServerTimeout
  <1>2. PICK d : d = Put!LastAnswer
    OBVIOUS
  <1>3. /\ d \in Put!Datagrams /\ d.kind # "DATA"
        /\ d.blk = 0 \/ (file # <<>> /\ d.blk = Len(file) % SeqSize)
    BY <1>1, <1>2, PutAnswered
  <1> QED
    BY <1>1, <1>2, <1>3, PutReply DEF Put!ServerTimeout, Put!client, Put!server

(* A block that continues what the server has of the image. *)
LEMMA PutAppend ==
  ASSUME PutTyped, Put!Prefix, Len(file) < net_boot_file_size,
         file' = Append(file, Len(file) + 1), UNCHANGED net_boot_file_size
  PROVE  /\ Put!Prefix' /\ Len(file') = Len(file) + 1 /\ file' # <<>>
         /\ file' \in Seq(0 .. net_boot_file_size)
  <1> DEFINE n == Len(file)
             g == Append(file, n + 1)
  <1>1. /\ n \in Nat /\ net_boot_file_size \in Nat /\ file \in Seq(0 .. net_boot_file_size)
        /\ n + 1 \in 0 .. net_boot_file_size
    BY PutTypes
  <1>2. /\ g \in Seq(0 .. net_boot_file_size) /\ Len(g) = n + 1
        /\ \A i \in 1 .. n : g[i] = file[i] /\ g[n + 1] = n + 1
        /\ g[n + 1] = n + 1
    <2> HIDE DEF n
    <2>1. n = Len(file)
      BY DEF n
    <2> QED
      BY <1>1, <2>1, AppendProperties
  <1>3. DOMAIN g = 1 .. n + 1 /\ DOMAIN file = 1 .. n
    BY <1>1, <1>2, LenProperties
  <1>4. \A i \in 1 .. n : file[i] = i
    BY <1>3 DEF Put!Prefix
  <1>5. file' = g
    OBVIOUS
  <1> HIDE DEF g, n
  <1>6. \A i \in DOMAIN g : g[i] = i
    <2> SUFFICES ASSUME NEW i \in 1 .. n + 1 PROVE g[i] = i
      BY <1>3
    <2>1. i \in 1 .. n \/ i = n + 1
      BY <1>1
    <2> QED
      BY <1>2, <1>4, <2>1
  <1>7. Len(g) <= net_boot_file_size
    BY <1>1, <1>2
  <1>8. g # <<>>
    BY <1>1, <1>2
  <1> QED
    BY <1>2, <1>5, <1>6, <1>7, <1>8 DEF Put!Prefix, n

LEMMA PutDone ==
  ASSUME PutTyped, Put!Prefix
  PROVE  Put!FileDone <=> Len(file) = net_boot_file_size
  <1>1. /\ net_boot_file_size \in Nat \ {0} /\ file \in Seq(0 .. net_boot_file_size)
        /\ Len(file) \in Nat /\ DOMAIN file = 1 .. Len(file)
    BY PutTypes, LenProperties
  <1>2. CASE file = <<>>
    BY <1>1, <1>2 DEF Put!FileDone
  <1>3. CASE file # <<>>
    <2>1. Len(file) \in DOMAIN file
      BY <1>1, <1>3, EmptySeq
    <2>2. file[Len(file)] = Len(file)
      BY <2>1 DEF Put!Prefix
    <2> QED
      BY <1>3, <2>2 DEF Put!FileDone
  <1> QED
    BY <1>2, <1>3

(* What a block does to the server's file, and the acknowledgement. *)
LEMMA PutData ==
  ASSUME PutTyped, NEW m \in net, Put!ServerData(m), UNCHANGED <<net_boot_file_size, network>>
  PROVE  /\ m.kind = "DATA" /\ answer \in PutAnswers
         /\ UNCHANGED <<tftp_state, tftp_cur_block, tftp_prev_block, tftp_block_wrap_offset,
                        tftp_put_final_block_sent, timeout_count, net_state, answer, losses>>
         /\ IF m.blk = (Len(file) + 1) % SeqSize /\ ~Put!FileDone
            THEN file' = Append(file, m.data) ELSE file' = file
         /\ \E d \in Put!Datagrams :
               /\ net' = Put!Left(m) \cup {d} /\ d.kind = "ACK"
               /\ d.blk = Len(file') % SeqSize
         /\ PutTyped'
  <1> DEFINE f == IF m.blk = (Len(file) + 1) % SeqSize /\ ~Put!FileDone
                  THEN Append(file, m.data) ELSE file
             d == [Put!Ack(Len(f) % SeqSize) EXCEPT !.at = Len(f)]
  <1>1. /\ m.kind = "DATA" /\ answer \in {"OACK", "ACK"} /\ file' = f
        /\ net' = Put!Left(m) \cup {d}
        /\ UNCHANGED <<tftp_state, tftp_cur_block, tftp_prev_block, tftp_block_wrap_offset,
                       tftp_put_final_block_sent, timeout_count, net_state, answer, losses>>
    BY DEF Put!ServerData, Put!client
  <1>2. answer \in PutAnswers
    BY <1>1, PutTypes
  <1>3. f \in Seq(0 .. net_boot_file_size)
    BY PutTypes, AppendProperties
  <1>4. Len(f) \in Nat /\ Len(f) % SeqSize \in 0 .. SeqSize - 1
    <2>1. Len(f) \in Nat
      BY <1>3, LenProperties
    <2> HIDE DEF f
    <2> QED
      BY <2>1, PutConstants, Split
  <1>5. /\ d = [kind |-> "ACK", blk |-> Len(f) % SeqSize, data |-> 0, at |-> Len(f)]
    <2> DEFINE l == Len(f)
               x == l % SeqSize
    <2> HIDE DEF f, l, x
    <2>1. Put!Ack(x) = [kind |-> "ACK", blk |-> x, data |-> 0, at |-> Len(file)]
      BY DEF Put!Ack, Put!Answer
    <2>2. [Put!Ack(x) EXCEPT !.at = l] = [kind |-> "ACK", blk |-> x, data |-> 0, at |-> l]
      BY <2>1
    <2> QED
      BY <2>2 DEF l, x
  <1>6. d \in Put!Datagrams /\ d.kind = "ACK" /\ d.blk = Len(f) % SeqSize
    <2> HIDE DEF f
    <2> QED
      BY <1>4, <1>5, PutTypes DEF Put!Datagrams, Put!Seq16
  <1> HIDE DEF d
  <1>7. \A k \in net' : k \in Put!Datagrams
    BY <1>1, <1>6, PutLeft DEF PutTyped
  <1>8. PutTyped'
    BY <1>1, <1>2, <1>3, <1>7, PutTypeStep, PutTypes
  <1>9. \E e \in Put!Datagrams : /\ net' = Put!Left(m) \cup {e} /\ e.kind = "ACK"
                                 /\ e.blk = Len(file') % SeqSize
    BY <1>1, <1>6
  <1> QED
    BY <1>1, <1>2, <1>8, <1>9

LEMMA PutServerData ==
  ASSUME Put!PutInv, NEW m \in net, Put!ServerData(m), UNCHANGED <<net_boot_file_size, network>>
  PROVE  Put!PutInv'
  <1> DEFINE n == Len(file)
             size == net_boot_file_size
             c == Put!Current
             s == SeqSize
             keep == m.blk = (n + 1) % s /\ ~Put!FileDone
  <1>1. PutTyped
    BY DEF Put!PutInv, PutTyped
  <1>2. /\ m.kind = "DATA" /\ PutTyped'
        /\ UNCHANGED <<tftp_state, tftp_cur_block, tftp_prev_block, tftp_block_wrap_offset,
                       tftp_put_final_block_sent, timeout_count, net_state, answer, losses>>
        /\ IF keep THEN file' = Append(file, m.data) ELSE file' = file
    BY <1>1, PutData
  <1>3. PICK d \in Put!Datagrams : /\ net' = Put!Left(m) \cup {d} /\ d.kind = "ACK"
                                   /\ d.blk = Len(file') % s
    BY <1>1, PutData
  <1>4. size \in Nat \ {0} /\ n \in Nat /\ s \in Nat /\ s > 1 /\ s \in Nat \ {0}
    BY <1>1, PutTypes, PutConstants
  <1>5. ASSUME network = "lossy", Put!LossyInv
        PROVE  Put!LossyInv'
    <2>1. net' = {d}
      BY <1>3, <1>5, PutLeft
    <2>2. tftp_state = "DATA"
      BY <1>1, <1>2, <1>5, PutTypes DEF Put!LossyInv
    <2>3. /\ Put!Prefix /\ c \in 1 .. size /\ n \in {c - 1, c} /\ tftp_cur_block = c % s
          /\ m.blk = tftp_cur_block /\ m.data = c
          /\ net_state = "SUCCESS" => n = size
      BY <1>2, <1>5, <2>2 DEF Put!LossyInv
    <2>4. c \in Nat /\ c + 1 \in Nat /\ c' = c
      BY <1>2, <1>4, <2>3 DEF Put!Current
    <2> HIDE DEF c
    <2>5. Put!Prefix' /\ Len(file') = c
      <3>1. CASE n = c - 1
        <4>1. n + 1 = c /\ n < size
          BY <1>4, <2>3, <3>1
        <4>2. m.blk = (n + 1) % s
          BY <2>3, <4>1
        <4>3. ~Put!FileDone
          BY <1>1, <1>4, <2>3, <4>1, PutDone
        <4>4. file' = Append(file, n + 1)
          BY <1>2, <2>3, <4>1, <4>2, <4>3
        <4> QED
          BY <1>1, <2>3, <4>1, <4>4, PutAppend
      <3>2. CASE n = c
        <4>1. (c + 1) % s # c % s
          BY <1>4, <2>4, NextMod
        <4>2. file' = file
          BY <1>2, <2>3, <3>2, <4>1
        <4> QED
          BY <2>3, <3>2, <4>2 DEF Put!Prefix
      <3> QED
        BY <2>3, <3>1, <3>2
    <2>6. d.blk = tftp_cur_block
      BY <1>3, <2>3, <2>5
    <2>7. net_state = "SUCCESS" => c = size
      BY <1>4, <2>3
    <2>8. Put!Current' = c
      BY <2>4 DEF c
    <2>9. tftp_put_final_block_sent <=> c = size
      BY <1>5, <2>2 DEF Put!LossyInv, c
    <2>10. c \in {c - 1, c}
      OBVIOUS
    <2> QED
      BY <1>2, <1>3, <2>1, <2>2, <2>3, <2>5, <2>6, <2>7, <2>8, <2>9, <2>10 DEF Put!LossyInv
  <1>6. ASSUME size + MaxCount < s, Put!ShortInv
        PROVE  Put!ShortInv'
    <2>1. Put!Prefix /\ n <= size /\ n < s
      BY <1>4, <1>6, PutConstants DEF Put!ShortInv, Put!Prefix
    <2>2. Put!Prefix' /\ Len(file') \in Nat /\ n <= Len(file')
      <3>1. CASE ~keep
        BY <1>2, <1>4, <2>1, <3>1 DEF Put!Prefix
      <3>2. CASE keep
        <4>1. n < size
          BY <1>1, <1>4, <2>1, <3>2, PutDone
        <4>2. n + 1 \in Nat /\ n + 1 < s /\ n + 1 \in 1 .. size
          BY <1>4, <1>6, <4>1, PutConstants
        <4>3. m.blk = n + 1
          BY <1>4, <3>2, <4>2, SmallMod
        <4>4. m.data = n + 1
          BY <1>2, <1>6, <4>1, <4>2, <4>3 DEF Put!ShortInv
        <4>5. Put!Prefix' /\ Len(file') = n + 1
          BY <1>1, <1>2, <2>1, <3>2, <4>1, <4>4, PutAppend
        <4> QED
          BY <1>4, <4>5
      <3> QED
        BY <3>1, <3>2
    <2>3. Len(file') <= size
      BY <2>2 DEF Put!Prefix
    <2> DEFINE l == Len(file')
    <2>4. d.blk = l % s /\ l \in Nat /\ l <= size /\ n <= l
      BY <1>3, <2>2, <2>3
    <2>5. \A k \in net' : k \in net \/ k = d
      BY <1>3, PutLeft
    <2> HIDE DEF l, n
    <2>6. d.blk = l
      BY <1>4, <1>6, <2>4, PutConstants, SmallMod
    <2>7. \A k \in net' : k.kind = "ACK" => k.blk <= l
      <3> SUFFICES ASSUME NEW k \in net', k.kind = "ACK" PROVE k.blk <= l
        OBVIOUS
      <3>1. CASE k \in net
        <4>1. k.blk <= n /\ k.blk \in Nat
          BY <1>1, <1>6, <3>1, PutTypes DEF Put!ShortInv, n
        <4> QED
          BY <1>4, <2>4, <4>1
      <3>2. CASE k = d
        BY <2>4, <2>6, <3>2
      <3> QED
        BY <2>5, <3>1, <3>2
    <2>8. l < size => n < size
      BY <1>4, <2>4
    <2>9. l < size => /\ tftp_block_wrap_offset = 0
                      /\ \A k \in net' : k.kind = "DATA" /\ k.blk \in 1 .. size => k.data = k.blk
      BY <1>3, <1>6, <2>5, <2>8 DEF Put!ShortInv, n
    <2> QED
      BY <1>2, <1>6, <2>2, <2>7, <2>9 DEF Put!ShortInv, l
  <1> QED
    BY <1>2, <1>5, <1>6 DEF Put!PutInv, PutTyped

(* A block under way, one at a time. *)
LEMMA PutUnderway ==
  ASSUME PutTyped', Put!Prefix, UNCHANGED <<net_boot_file_size, file>>,
         NEW k \in 1 .. net_boot_file_size, NEW d,
         tftp_state' = "DATA", net' = {d}, net_state' = "CONTINUE",
         tftp_block_wrap_offset' + tftp_cur_block' = k, tftp_cur_block' = k % SeqSize,
         Len(file) \in {k - 1, k}, tftp_put_final_block_sent' <=> k = net_boot_file_size,
         d.kind = "DATA", d.data = k, d.blk = tftp_cur_block'
  PROVE  Put!LossyInv'
  <1>1. Put!Prefix' /\ Put!Current' = k
    BY DEF Put!Prefix, Put!Current
  <1> QED
    BY <1>1 DEF Put!LossyInv

(* Block numbers that do not wrap. *)
LEMMA PutShort ==
  ASSUME PutTyped, Put!ShortInv, UNCHANGED <<net_boot_file_size, file>>,
         tftp_cur_block' \in Nat, tftp_cur_block' < SeqSize,
         Len(file) < net_boot_file_size => tftp_block_wrap_offset' = 0,
         \A k \in net' : \/ k \in net \/ k.kind = "WRQ"
                         \/ /\ k.kind = "DATA" /\ k.blk = tftp_cur_block'
                            /\ k.data = (IF tftp_cur_block' + tftp_block_wrap_offset'
                                              \in 1 .. net_boot_file_size
                                         THEN tftp_cur_block' + tftp_block_wrap_offset'
                                         ELSE 0)
  PROVE  Put!ShortInv'
  <1>1. Put!Prefix'
    BY DEF Put!ShortInv, Put!Prefix
  <1>2. \A k \in net' : k.kind = "ACK" => k.blk <= Len(file)
    BY DEF Put!ShortInv
  <1>3. ASSUME Len(file) < net_boot_file_size, NEW k \in net', k.kind = "DATA",
               k.blk \in 1 .. net_boot_file_size
        PROVE  k.data = k.blk
    <2>1. CASE k \in net
      BY <1>3, <2>1 DEF Put!ShortInv
    <2>2. CASE k \notin net
      <3> DEFINE c == tftp_cur_block'
                 w == tftp_block_wrap_offset'
      <3>1. w = 0 /\ c \in Nat /\ k.blk = c
            /\ k.data = (IF c + w \in 1 .. net_boot_file_size THEN c + w ELSE 0)
        BY <1>3, <2>2
      <3> HIDE DEF c, w
      <3>2. c + w = c
        BY <3>1
      <3> QED
        BY <1>3, <3>1, <3>2
    <2> QED
      BY <2>1, <2>2
  <1> QED
    BY <1>1, <1>2, <1>3 DEF Put!ShortInv

LEMMA PutLose ==
  ASSUME Put!PutInv, NEW m \in net, Put!Lose(m), UNCHANGED <<net_boot_file_size, network>>
  PROVE  Put!PutInv'
  <1>1. losses' \in 0 .. MaxLoss
    BY PutConstants DEF Put!Lose, Put!PutInv, Put!TypeOK
  <1> QED
    BY <1>1, PutQuiet DEF Put!Lose, Put!client, Put!server

LEMMA PutDropped ==
  ASSUME Put!PutInv, NEW m \in net, Put!Dropped(m), UNCHANGED <<net_boot_file_size, network>>
  PROVE  Put!PutInv'
  <1>1. losses' \in 0 .. MaxLoss
    BY DEF Put!Dropped, Put!PutInv, Put!TypeOK
  <1> QED
    BY <1>1, PutQuiet, PutLeft DEF Put!Dropped, Put!client, Put!server

LEMMA PutRefusal ==
  ASSUME Put!PutInv, NEW m \in net, Put!RecvRefusal(m), UNCHANGED <<net_boot_file_size, network>>
  PROVE  Put!PutInv'
  <1>1. losses' \in 0 .. MaxLoss
    BY DEF Put!RecvRefusal, Put!PutInv, Put!TypeOK
  <1> QED
    BY <1>1, PutQuiet, PutLeft DEF Put!RecvRefusal, Put!server

LEMMA PutFinalAck ==
  ASSUME Put!PutInv, NEW m \in net, Put!RecvFinalAck(m), UNCHANGED <<net_boot_file_size, network>>
  PROVE  Put!PutInv'
  <1>1. PutTyped
    BY DEF Put!PutInv, PutTyped
  <1>2. /\ m.kind = "ACK" /\ tftp_put_final_block_sent /\ net_state' = "SUCCESS"
        /\ timeout_count' = 0 /\ net' = Put!Left(m)
        /\ UNCHANGED <<tftp_state, tftp_cur_block, tftp_prev_block, tftp_block_wrap_offset,
                       tftp_put_final_block_sent, file, answer, losses>>
    BY DEF Put!RecvFinalAck, Put!Receive, Put!server
  <1>3. PutTyped'
    <2>1. \A k \in net' : k \in Put!Datagrams
      BY <1>1, <1>2, PutLeft DEF PutTyped
    <2>2. 0 \in 0 .. MaxTimeouts
      BY PutConstants
    <2> QED
      BY <1>1, <1>2, <2>1, <2>2, PutTypeStep, PutTypes
  <1>4. ASSUME network = "lossy", Put!LossyInv
        PROVE  Put!LossyInv'
    <2>1. net' = {}
      BY <1>2, <1>4, PutLeft
    <2>2. tftp_state = "DATA"
      BY <1>1, <1>2, <1>4, PutTypes DEF Put!LossyInv
    <2>3. Len(file) = net_boot_file_size
      BY <1>2, <1>4, <2>2 DEF Put!LossyInv
    <2> QED
      BY <1>2, <1>4, <2>1, <2>2, <2>3 DEF Put!LossyInv, Put!Prefix, Put!Current
  <1>5. ASSUME Put!ShortInv
        PROVE  Put!ShortInv'
    <2>1. net' \subseteq net
      BY <1>2, PutLeft
    <2> QED
      BY <1>2, <1>5, <2>1 DEF Put!ShortInv, Put!Prefix
  <1> QED
    BY <1>3, <1>4, <1>5 DEF Put!PutInv, PutTyped

LEMMA PutOack ==
  ASSUME Put!PutInv, NEW m \in net, Put!RecvOack(m), UNCHANGED <<net_boot_file_size, network>>
  PROVE  Put!PutInv'
  <1> DEFINE c == tftp_cur_block + 1
             w == tftp_block_wrap_offset
             size == net_boot_file_size
  <1>1. PutTyped
    BY DEF Put!PutInv, PutTyped
  <1>2. /\ net_state = "CONTINUE" /\ m.kind = "OACK" /\ w + tftp_cur_block < size + MaxCount
        /\ tftp_state' = "DATA" /\ tftp_cur_block' = c
        /\ UNCHANGED <<tftp_prev_block, tftp_block_wrap_offset, timeout_count, net_state,
                       file, answer, losses>>
        /\ Put!SendBlock(c, w, Put!Left(m))
    BY DEF Put!RecvOack, Put!Receive, Put!server
  <1>3. /\ c \in Nat /\ tftp_cur_block \in Nat /\ w \in Nat /\ size \in Nat \ {0}
        /\ Len(file) \in Nat
    BY <1>1, PutTypes
  <1> HIDE DEF c
  <1>4. PICK d \in Put!Datagrams :
            /\ net' = Put!Left(m) \cup {d} /\ d.kind = "DATA" /\ d.blk = c % SeqSize
            /\ d.data = (IF c + w \in 1 .. size THEN c + w ELSE 0)
            /\ tftp_put_final_block_sent' = (d.data = size)
    BY <1>1, <1>2, <1>3, PutSent
  <1>5. PutTyped'
    <2>1. \A k \in net' : k \in Put!Datagrams
      BY <1>1, <1>4, PutLeft DEF PutTyped
    <2>2. tftp_put_final_block_sent' \in BOOLEAN
      BY <1>4
    <2> QED
      BY <1>1, <1>2, <1>3, <2>1, <2>2, PutTypeStep, PutTypes
  <1>6. ASSUME network = "lossy", Put!LossyInv
        PROVE  Put!LossyInv'
    <2>1. net' = {d}
      BY <1>4, <1>6, PutLeft
    <2>2. tftp_state = "SEND_WRQ"
      BY <1>1, <1>2, <1>6, PutTypes DEF Put!LossyInv
    <2>3. Put!Current = 0 /\ w = 0 /\ file = <<>> /\ Put!Prefix
      BY <1>6, <2>2 DEF Put!LossyInv
    <2>4. c = 1 /\ c + w = 1
      BY <1>3, <2>3 DEF c, Put!Current
    <2>5. 1 % SeqSize = 1
      BY PutConstants, SmallMod
    <2>6. d.data = 1 /\ 1 \in 1 .. size /\ d.blk = 1 /\ Len(file) = 0
      BY <1>3, <1>4, <2>3, <2>4, <2>5
    <2>7. /\ tftp_block_wrap_offset' + tftp_cur_block' = 1 /\ tftp_cur_block' = 1
          /\ tftp_put_final_block_sent' <=> 1 = size
      <3>1. tftp_block_wrap_offset' = 0 /\ tftp_cur_block' = 1
        BY <1>2, <2>3, <2>4
      <3>2. tftp_put_final_block_sent' <=> 1 = size
        BY <1>4, <2>6
      <3> QED
        BY <3>1, <3>2
    <2>8. Len(file) \in {1 - 1, 1}
      BY <2>6
    <2> QED
      BY <1>2, <1>4, <1>5, <2>1, <2>3, <2>5, <2>6, <2>7, <2>8, PutUnderway
  <1>7. ASSUME size + MaxCount < SeqSize, Put!ShortInv
        PROVE  Put!ShortInv'
    <2>1. c < SeqSize
      BY <1>2, <1>3, <1>7, PutConstants DEF c
    <2>2. d.blk = c
      BY <1>3, <1>4, <2>1, PutConstants, SmallMod
    <2>3. Len(file) < size => w = 0
      BY <1>7 DEF Put!ShortInv
    <2>4. \A k \in net' : k \in net \/ k = d
      BY <1>4, PutLeft
    <2> QED
      BY <1>1, <1>2, <1>3, <1>4, <1>7, <2>1, <2>2, <2>3, <2>4, PutShort
  <1> QED
    BY <1>5, <1>6, <1>7 DEF Put!PutInv, PutTyped

LEMMA PutTimeout ==
  ASSUME Put!PutInv, Put!tftp_timeout_handler, UNCHANGED <<net_boot_file_size, network>>
  PROVE  Put!PutInv'
  <1> DEFINE c == tftp_cur_block
             w == tftp_block_wrap_offset
             size == net_boot_file_size
  <1>1. PutTyped
    BY DEF Put!PutInv, PutTyped
  <1>2. /\ net_state = "CONTINUE" /\ (network = "lossy" => net = {})
        /\ UNCHANGED <<tftp_state, tftp_cur_block, tftp_prev_block, tftp_block_wrap_offset,
                       file, answer, losses>>
    BY DEF Put!tftp_timeout_handler, Put!server
  <1>3. CASE ~Put!Retries(timeout_count + 1)
    <2>1. /\ net_state' = "FAIL" /\ UNCHANGED <<timeout_count, net, tftp_put_final_block_sent>>
      BY <1>3 DEF Put!tftp_timeout_handler
    <2> QED
      BY <1>1, <1>2, <2>1, PutQuiet, PutTypes
  <1>4. CASE Put!Retries(timeout_count + 1)
    <2>1. timeout_count' \in 0 .. MaxTimeouts /\ net_state' = net_state
      BY <1>1, <1>4, PutTypes, PutConstants DEF Put!tftp_timeout_handler, Put!Retries
    <2>2. CASE tftp_state = "SEND_WRQ"
      <3>1. net' = net \cup {Put!Request} /\ UNCHANGED tftp_put_final_block_sent
        BY <1>4, <2>2 DEF Put!tftp_timeout_handler
      <3>2. Put!Request.kind = "WRQ" /\ Put!Request.blk = 0
        BY DEF Put!Request
      <3>3. PutTyped'
        <4>1. \A k \in net' : k \in Put!Datagrams
          BY <1>1, <3>1, PutRequestTyped DEF PutTyped
        <4> QED
          BY <1>1, <1>2, <2>1, <3>1, <4>1, PutTypeStep, PutTypes
      <3>4. ASSUME network = "lossy", Put!LossyInv
            PROVE  Put!LossyInv'
        <4>1. net' = {Put!Request}
          BY <1>2, <3>1, <3>4
        <4>2. \A k \in net' : k.kind # "DATA" /\ k.blk = 0
          BY <3>2, <4>1
        <4> QED
          BY <1>2, <2>1, <2>2, <3>1, <3>4, <4>1, <4>2 DEF Put!LossyInv, Put!Prefix, Put!Current
      <3>5. ASSUME Put!ShortInv
            PROVE  Put!ShortInv'
        <4>1. \A k \in net' : k \in net \/ k.kind = "WRQ"
          BY <3>1, <3>2
        <4>2. c < SeqSize /\ (Len(file) < size => w = 0)
          BY <3>5 DEF Put!ShortInv
        <4> QED
          BY <1>1, <1>2, <3>5, <4>1, <4>2, PutShort, PutTypes
      <3> QED
        BY <3>3, <3>4, <3>5 DEF Put!PutInv, PutTyped
    <2>3. CASE tftp_state = "DATA"
      <3>1. Put!SendBlock(c, w, net)
        BY <1>4, <2>3 DEF Put!tftp_timeout_handler
      <3>2. c \in Nat /\ w \in Nat /\ size \in Nat \ {0}
        BY <1>1, PutTypes
      <3>3. PICK d \in Put!Datagrams :
              /\ net' = net \cup {d} /\ d.kind = "DATA" /\ d.blk = c % SeqSize
              /\ d.data = (IF c + w \in 1 .. size THEN c + w ELSE 0)
              /\ tftp_put_final_block_sent' = (d.data = size)
        BY <1>1, <3>1, <3>2, PutSent
      <3>4. PutTyped'
        <4>1. \A k \in net' : k \in Put!Datagrams
          BY <1>1, <3>3 DEF PutTyped
        <4>2. tftp_put_final_block_sent' \in BOOLEAN
          BY <3>3
        <4> QED
          BY <1>1, <1>2, <2>1, <4>1, <4>2, PutTypeStep, PutTypes
      <3>5. ASSUME network = "lossy", Put!LossyInv
            PROVE  Put!LossyInv'
        <4>1. net' = {d}
          BY <1>2, <3>3, <3>5
        <4>2. PICK k \in 1 .. size : k = Put!Current
          BY <2>3, <3>5 DEF Put!LossyInv
        <4>3. /\ Len(file) \in {k - 1, k} /\ Put!Prefix /\ c = k % SeqSize
          BY <2>3, <3>5, <4>2 DEF Put!LossyInv
        <4>4. w + c = k /\ c + w = k
          BY <3>2, <4>2 DEF Put!Current
        <4>5. d.data = k
          BY <3>3, <4>4
        <4>6. c \in Nat /\ c < SeqSize
          BY <3>2, <4>2, <4>3, PutConstants
        <4>7. d.blk = c
          BY <3>3, <4>6, PutConstants, SmallMod
        <4> QED
          BY <1>2, <2>1, <2>3, <3>3, <3>4, <4>1, <4>3, <4>4, <4>5, <4>7, PutUnderway
      <3>6. ASSUME Put!ShortInv
            PROVE  Put!ShortInv'
        <4>1. c < SeqSize /\ (Len(file) < size => w = 0)
          BY <3>6 DEF Put!ShortInv
        <4>2. d.blk = c
          BY <3>2, <3>3, <4>1, PutConstants, SmallMod
        <4>3. \A k \in net' : k \in net \/ k = d
          BY <3>3
        <4> QED
          BY <1>1, <1>2, <3>2, <3>3, <3>6, <4>1, <4>2, <4>3, PutShort
      <3> QED
        BY <3>4, <3>5, <3>6 DEF Put!PutInv, PutTyped
    <2> QED
      BY <1>1, <2>2, <2>3, PutTypes
  <1> QED
    BY <1>3, <1>4

LEMMA PutAck ==
  ASSUME Put!PutInv, NEW m \in net, Put!RecvAck(m), UNCHANGED <<net_boot_file_size, network>>
  PROVE  Put!PutInv'
  <1> DEFINE b == m.blk
             s == SeqSize
             c == (b + 1) % s
             v == tftp_block_wrap_offset
             w == Put!Wrapped(tftp_cur_block, c)
             size == net_boot_file_size
  <1>1. PutTyped
    BY DEF Put!PutInv, PutTyped
  <1>2. /\ net_state = "CONTINUE" /\ m.kind = "ACK" /\ ~tftp_put_final_block_sent
        /\ tftp_prev_block' = tftp_cur_block /\ tftp_cur_block' = c
        /\ tftp_block_wrap_offset' = w /\ timeout_count' = 0
        /\ UNCHANGED <<net_state, file, answer, losses>>
    BY DEF Put!RecvAck, Put!Receive, Put!server
  <1>3. /\ b \in 0 .. s - 1 /\ s \in Nat \ {0} /\ s > 1 /\ size \in Nat \ {0} /\ Len(file) \in Nat
        /\ tftp_cur_block \in Nat /\ v \in Nat /\ b \in Nat
    BY <1>1, PutTypes, PutConstants
  <1>4. c \in 0 .. s - 1 /\ c \in Nat /\ c < s
    <2> HIDE DEF b, s
    <2>1. c \in 0 .. s - 1
      BY <1>3, OnTheWire
    <2> QED
      BY <1>3, <2>1
  <1>5. w = (IF c = 0 /\ tftp_cur_block # 0 THEN v + s ELSE v) /\ w \in Nat
    <2>1. w = (IF c = 0 /\ tftp_cur_block # 0 THEN v + s ELSE v)
      BY DEF Put!Wrapped
    <2> QED
      BY <1>3, <2>1
  <1>6. \/ /\ tftp_cur_block # b /\ net' = Put!Left(m)
           /\ UNCHANGED <<tftp_state, tftp_put_final_block_sent>>
        \/ /\ b # 0 /\ tftp_state = "SEND_WRQ" /\ net' = Put!Left(m) \cup {Put!Request}
           /\ UNCHANGED <<tftp_state, tftp_put_final_block_sent>>
        \/ /\ tftp_state' = "DATA" /\ Put!SendBlock(c, w, Put!Left(m))
    <2>1. CASE tftp_cur_block # b
      BY <2>1 DEF Put!RecvAck, Put!AckOk
    <2>2. CASE tftp_cur_block = b
      <3>1. /\ tftp_state' = IF b = 0 /\ tftp_state = "SEND_WRQ" THEN "DATA" ELSE tftp_state
            /\ IF tftp_state' = "SEND_WRQ"
               THEN net' = Put!Left(m) \cup {Put!Request} /\ UNCHANGED tftp_put_final_block_sent
               ELSE Put!SendBlock(c, w, Put!Left(m))
        BY <2>2 DEF Put!RecvAck, Put!AckOk
      <3>2. tftp_state \in {"SEND_WRQ", "DATA"}
        BY <1>1, PutTypes
      <3> HIDE DEF b, c, w
      <3>3. CASE tftp_state' = "SEND_WRQ"
        BY <3>1, <3>3
      <3>4. CASE tftp_state' # "SEND_WRQ"
        BY <3>1, <3>2, <3>4
      <3> QED
        BY <3>3, <3>4
    <2> QED
      BY <2>1, <2>2
  <1> HIDE DEF c, w
  <1>7. size + MaxCount < s /\ Put!ShortInv => (Len(file) < size => w = 0)
    <2> SUFFICES ASSUME size + MaxCount < s, Put!ShortInv, Len(file) < size
                 PROVE  w = 0
      OBVIOUS
    <2>1. v = 0 /\ b <= Len(file)
      BY <1>2 DEF Put!ShortInv
    <2>2. b + 1 \in Nat /\ b + 1 < s
      BY <1>3, <2>1, PutConstants
    <2>3. c = b + 1
      BY <1>3, <2>2, SmallMod DEF c
    <2>4. c # 0
      BY <1>3, <2>3
    <2> QED
      BY <1>5, <2>1, <2>4
  <1>8. CASE /\ tftp_state' = "DATA" /\ Put!SendBlock(c, w, Put!Left(m))
    <2>1. PICK d \in Put!Datagrams :
            /\ net' = Put!Left(m) \cup {d} /\ d.kind = "DATA" /\ d.blk = c % s
            /\ d.data = (IF c + w \in 1 .. size THEN c + w ELSE 0)
            /\ tftp_put_final_block_sent' = (d.data = size)
      BY <1>1, <1>4, <1>5, <1>8, PutSent
    <2>2. d.blk = c
      BY <1>3, <1>4, <2>1, SmallMod
    <2>3. PutTyped'
      <3>1. \A k \in net' : k \in Put!Datagrams
        BY <1>1, <2>1, PutLeft DEF PutTyped
      <3>2. tftp_put_final_block_sent' \in BOOLEAN /\ 0 \in 0 .. MaxTimeouts
        BY <2>1, PutConstants
      <3> QED
        BY <1>1, <1>2, <1>4, <1>5, <1>8, <3>1, <3>2, PutTypeStep, PutTypes
    <2>4. ASSUME network = "lossy", Put!LossyInv
          PROVE  Put!LossyInv'
      <3>1. net' = {d}
        BY <2>1, <2>4, PutLeft
      <3>2. PICK k \in 1 .. size : k - 1 = Put!Current
        <4>1. CASE tftp_state = "SEND_WRQ"
          <5>1. Put!Current = 0
            BY <2>4, <4>1 DEF Put!LossyInv
          <5>2. 1 \in 1 .. size /\ 1 - 1 = 0
            BY <1>3
          <5> QED
            BY <5>1, <5>2
        <4>2. CASE tftp_state = "DATA"
          <5>1. Put!Current \in 1 .. size /\ Put!Current # size
            BY <1>2, <2>4, <4>2 DEF Put!LossyInv
          <5>2. Put!Current + 1 \in 1 .. size /\ (Put!Current + 1) - 1 = Put!Current
            BY <1>3, <5>1
          <5> QED
            BY <5>2
        <4> QED
          BY <1>1, <4>1, <4>2, PutTypes
      <3>3. /\ Len(file) = k - 1 /\ b = tftp_cur_block /\ Put!Prefix
            /\ tftp_cur_block = (k - 1) % s /\ v + tftp_cur_block = k - 1
        <4>1. CASE tftp_state = "SEND_WRQ"
          <5>1. Put!Current = 0 /\ v = 0 /\ Len(file) = 0 /\ b = 0 /\ Put!Prefix
            BY <2>4, <4>1 DEF Put!LossyInv
          <5>2. v + tftp_cur_block = k - 1 /\ tftp_cur_block = (k - 1) % s
            BY <2>4, <3>2 DEF Put!Current, Put!LossyInv
          <5>3. tftp_cur_block = 0
            BY <1>3, <3>2, <5>1, <5>2
          <5> QED
            BY <3>2, <5>1, <5>2, <5>3
        <4>2. CASE tftp_state = "DATA"
          <5>1. Len(file) = Put!Current /\ b = tftp_cur_block /\ Put!Prefix
            BY <1>2, <2>4, <4>2 DEF Put!LossyInv
          <5>2. v + tftp_cur_block = k - 1 /\ tftp_cur_block = (k - 1) % s
            BY <2>4, <3>2 DEF Put!Current, Put!LossyInv
          <5> QED
            BY <3>2, <5>1, <5>2
        <4> QED
          BY <1>1, <4>1, <4>2, PutTypes
      <3> DEFINE j == k - 1
      <3>4. j \in Nat /\ j + 1 = k
        BY <1>3
      <3>5. tftp_cur_block = j % s /\ v + tftp_cur_block = j /\ c = (tftp_cur_block + 1) % s
        BY <3>3 DEF c
      <3> HIDE DEF j, b
      <3>6. c = k % s /\ w + c = k
        <4> DEFINE r == j % s
        <4>1. /\ r \in 0 .. s - 1 /\ (r + 1 < s => (j + 1) % s = r + 1)
              /\ (r + 1 = s => (j + 1) % s = 0) /\ (r + 1) % s = (j + 1) % s
          BY <1>3, <3>4, NextMod
        <4>2. c = k % s /\ tftp_cur_block = r /\ v + r = j
          BY <3>4, <3>5, <4>1
        <4> HIDE DEF r
        <4>3. CASE r + 1 < s
          <5>1. c = r + 1 /\ c # 0
            BY <3>4, <4>1, <4>2, <4>3
          <5>2. w = v
            BY <1>5, <5>1
          <5> QED
            BY <1>3, <3>4, <4>1, <4>2, <5>1, <5>2
        <4>4. CASE r + 1 = s
          <5>1. c = 0 /\ r # 0
            BY <1>3, <3>4, <4>1, <4>2, <4>4
          <5>2. w = v + s
            BY <1>5, <4>2, <5>1
          <5> QED
            BY <1>3, <3>4, <4>1, <4>2, <4>4, <5>1, <5>2
        <4> QED
          BY <1>3, <4>1, <4>3, <4>4
      <3>7. c + w = k /\ d.data = k
        BY <1>3, <1>4, <1>5, <2>1, <3>6
      <3>8. tftp_put_final_block_sent' <=> k = size
        BY <2>1, <3>7
      <3> QED
        BY <1>2, <1>8, <2>1, <2>2, <2>3, <3>1, <3>3, <3>6, <3>7, <3>8, PutUnderway
    <2>5. ASSUME size + MaxCount < s, Put!ShortInv
          PROVE  Put!ShortInv'
      <3>1. \A k \in net' : k \in net \/ k = d
        BY <2>1, PutLeft
      <3> QED
        BY <1>1, <1>2, <1>4, <1>7, <2>1, <2>2, <2>5, <3>1, PutShort
    <2> QED
      BY <2>3, <2>4, <2>5 DEF Put!PutInv, PutTyped
  <1>9. CASE /\ \/ tftp_cur_block # b /\ net' = Put!Left(m)
                \/ /\ b # 0 /\ tftp_state = "SEND_WRQ"
                   /\ net' = Put!Left(m) \cup {Put!Request}
             /\ UNCHANGED <<tftp_state, tftp_put_final_block_sent>>
    <2>1. \A k \in net' : k \in net \/ k = Put!Request
      BY <1>9, PutLeft
    <2>2. PutTyped'
      <3>1. \A k \in net' : k \in Put!Datagrams
        BY <1>1, <2>1, PutRequestTyped DEF PutTyped
      <3>2. 0 \in 0 .. MaxTimeouts
        BY PutConstants
      <3> QED
        BY <1>1, <1>2, <1>4, <1>5, <1>9, <3>1, <3>2, PutTypeStep, PutTypes
    <2>3. ASSUME network = "lossy", Put!LossyInv
          PROVE  FALSE
      <3>1. CASE tftp_state = "SEND_WRQ"
        <4>1. b = 0 /\ v + tftp_cur_block = 0
          BY <2>3, <3>1 DEF Put!LossyInv, Put!Current
        <4>2. tftp_cur_block = 0
          BY <1>3, <4>1
        <4> QED
          BY <1>9, <4>1, <4>2
      <3>2. CASE tftp_state = "DATA"
        BY <1>9, <2>3, <3>2 DEF Put!LossyInv
      <3> QED
        BY <1>1, <3>1, <3>2, PutTypes
    <2>4. ASSUME size + MaxCount < s, Put!ShortInv
          PROVE  Put!ShortInv'
      <3>1. \A k \in net' : k \in net \/ k.kind = "WRQ"
        BY <2>1 DEF Put!Request
      <3> QED
        BY <1>1, <1>2, <1>4, <1>7, <2>4, <3>1, PutShort
    <2> QED
      BY <2>2, <2>3, <2>4 DEF Put!PutInv, PutTyped
  <1> QED
    BY <1>6, <1>8, <1>9

LEMMA PutStep ==
  ASSUME Put!PutInv, Put!Next, UNCHANGED <<net_boot_file_size, network>>
  PROVE  Put!PutInv'
  <1>1. CASE Put!ServerRequest
    BY <1>1, PutRequest
  <1>2. CASE Put!ServerRequestAgain
    BY <1>2, PutRequestAgain
  <1>3. ASSUME NEW m \in net, Put!ServerData(m)
        PROVE  Put!PutInv'
    BY <1>3, PutServerData
  <1>4. ASSUME NEW m \in net, Put!RecvFinalAck(m)
        PROVE  Put!PutInv'
    BY <1>4, PutFinalAck
  <1>5. ASSUME NEW m \in net, Put!RecvAck(m)
        PROVE  Put!PutInv'
    BY <1>5, PutAck
  <1>6. ASSUME NEW m \in net, Put!RecvOack(m)
        PROVE  Put!PutInv'
    BY <1>6, PutOack
  <1>7. ASSUME NEW m \in net, Put!RecvRefusal(m)
        PROVE  Put!PutInv'
    BY <1>7, PutRefusal
  <1>8. ASSUME NEW m \in net, Put!Dropped(m)
        PROVE  Put!PutInv'
    BY <1>8, PutDropped
  <1>9. CASE Put!ServerTimeout
    BY <1>9, PutServerTimeout
  <1>10. CASE Put!tftp_timeout_handler
    BY <1>10, PutTimeout
  <1>11. ASSUME NEW m \in net, Put!Lose(m)
         PROVE  Put!PutInv'
    BY <1>11, PutLose
  <1> QED
    BY <1>1, <1>2, <1>3, <1>4, <1>5, <1>6, <1>7, <1>8, <1>9, <1>10, <1>11
    DEF Put!Next, Put!Deliver

-----------------------------------------------------------------------------
(* The client. *)

LEMMA TftpStep == TftpInv /\ [Next]_vars => TftpInv'
  <1> SUFFICES ASSUME TftpInv, [Next]_vars PROVE TftpInv'
    OBVIOUS
  <1>1. CASE ~tftp_put_active /\ Get!Next /\ reading
    <2>1. Get!GetInv /\ tftp_put_active' = tftp_put_active /\ UNCHANGED <<tftp_load_size, network>>
      BY <1>1 DEF TftpInv, reading
    <2>2. Get!GetInv'
      BY <1>1, <2>1, GetStep
    <2> QED
      BY <1>1, <2>1, <2>2 DEF TftpInv
  <1>2. CASE tftp_put_active /\ Put!Next /\ writing
    <2>1. /\ Put!PutInv /\ tftp_put_active' = tftp_put_active
          /\ UNCHANGED <<net_boot_file_size, network>>
          /\ base = <<>> /\ UNCHANGED base
      BY <1>2 DEF TftpInv, writing, ofGet
    <2>2. Put!PutInv'
      BY <1>2, <2>1, PutStep
    <2> QED
      BY <1>2, <2>1, <2>2 DEF TftpInv
  <1>3. CASE UNCHANGED vars
    <2>1. UNCHANGED <<tftp_put_active, tftp_state, tftp_cur_block, tftp_prev_block,
                      tftp_block_wrap_offset, timeout_count, net_state, net_boot_file_size,
                      network, net, losses, tftp_remote_port, tftp_windowsize, tftp_next_ack,
                      tftp_last_nack, tftp_load_size, net_try_count, mem, got, base>>
          /\ UNCHANGED <<tftp_put_final_block_sent, file, answer>>
      BY <1>3 DEF vars, ofGet, ofPut
    <2>2. CASE ~tftp_put_active
      <3>1. Get!GetInv
        BY <2>2 DEF TftpInv
      <3>2. tftp_next_ack \in Get!Seq16 /\ tftp_last_nack \in Get!Seq16
        BY <3>1 DEF Get!GetInv, Get!TypeOK
      <3>3. Get!GetInv'
        BY <2>1, <3>1, <3>2, GetQuiet, GetTypes
      <3> QED
        BY <2>1, <2>2, <3>3 DEF TftpInv
    <2>3. CASE tftp_put_active
      <3>1. Put!PutInv /\ losses \in 0 .. MaxLoss /\ base = <<>>
        BY <2>3 DEF TftpInv, Put!PutInv, Put!TypeOK
      <3>2. Put!PutInv'
        BY <2>1, <3>1, PutQuiet
      <3> QED
        BY <2>1, <2>3, <3>1, <3>2 DEF TftpInv
    <2> QED
      BY <2>2, <2>3 DEF TftpInv
  <1> QED
    BY <1>1, <1>2, <1>3 DEF Next

(* The inductive invariant of the client: a read keeps what CountInv,      *)
(* StoreInv and WindowInv say, a write what LossyInv and ShortInv say,     *)
(* whatever is lost, late or sent twice (tftp_handler,                     *)
(* tftp_timeout_handler, net_start_again).                                 *)
THEOREM TftpInvariant == Spec => []TftpInv
  <1>1. Init => TftpInv
    BY GetStart, PutStart DEF Init
  <1>2. TftpInv /\ [Next]_vars => TftpInv'
    BY TftpStep
  <1> QED
    BY <1>1, <1>2, PTL DEF Spec

(* A read that reports success stored the whole file, every block at its   *)
(* place, and reports its size, for files that are longer than the block   *)
(* number counts (store_block, update_block_number).                       *)
THEOREM FilesAreIntact == Spec => []FileIntact
  <1>1. TftpInv => FileIntact
    <2> SUFFICES ASSUME TftpInv, ~tftp_put_active, net_state = "SUCCESS"
                 PROVE  /\ net_boot_file_size = NBlocks
                        /\ \A i \in 0 .. NBlocks - 1 : mem[i] = i + 1
      BY DEF FileIntact
    <2>1. Get!GetInv
      BY DEF TftpInv
    <2>2. net_boot_file_size = NBlocks
      BY <2>1 DEF Get!GetInv, Get!StoreInv
    <2>3. ASSUME NEW i \in 0 .. NBlocks - 1
          PROVE  mem[i] = i + 1
      <3> DEFINE j == i + 1
      <3>1. j \in 1 .. net_boot_file_size /\ j - 1 = i
        BY <2>2, GetConstants
      <3>2. mem[j - 1] = j
        BY <2>1, <3>1 DEF Get!GetInv, Get!StoreInv
      <3> QED
        BY <3>1, <3>2
    <2> QED
      BY <2>2, <2>3
  <1> QED
    BY <1>1, TftpInvariant, PTL

(* What the server holds acknowledged, and may forget, is in memory at its *)
(* place (tftp_send after store_block, and the server's window).           *)
THEOREM AckedBlocksAreStored == Spec => []AckedIsStored
  <1>1. TftpInv => AckedIsStored
    <2> SUFFICES ASSUME TftpInv, NEW p \in DOMAIN base, NEW i \in 1 .. base[p]
                 PROVE  mem[i - 1] = i
      BY DEF AckedIsStored
    <2>1. CASE tftp_put_active
      <3>1. base = <<>>
        BY <2>1 DEF TftpInv
      <3> QED
        BY <3>1
    <2>2. CASE ~tftp_put_active
      <3>1. Get!GetInv
        BY <2>2 DEF TftpInv
      <3>2. p \in Get!Port
        BY <3>1, GetTypes
      <3>3. base[p] \in Nat /\ base[p] <= net_boot_file_size /\ net_boot_file_size \in Nat
        BY <3>1, <3>2, GetTypes DEF Get!GetInv, Get!WindowInv
      <3>4. i \in 1 .. net_boot_file_size
        BY <3>3
      <3> QED
        BY <3>1, <3>4 DEF Get!GetInv, Get!StoreInv
    <2> QED
      BY <2>1, <2>2
  <1> QED
    BY <1>1, TftpInvariant, PTL

(* A file that numbers its blocks from 1 is a beginning of the image. *)
LEMMA PutPrefix ==
  ASSUME PutTyped, Put!Prefix
  PROVE  /\ Len(file) <= net_boot_file_size
         /\ file = SubSeq(Put!Image, 1, Len(file))
         /\ Len(file) = net_boot_file_size => file = Put!Image
  <1> DEFINE n == Len(file)
             size == net_boot_file_size
             image == Put!Image
             S == 0 .. size
             t == SubSeq(image, 1, n)
  <1>1. /\ size \in Nat \ {0} /\ file \in Seq(S) /\ n \in Nat /\ n <= size
        /\ DOMAIN file = 1 .. n /\ \A i \in 1 .. n : file[i] = i
    BY PutTypes, LenProperties DEF Put!Prefix
  <1>2. image = [i \in 1 .. size |-> i]
    BY DEF Put!Image
  <1>3. \A i \in 1 .. size : image[i] = i /\ i \in S
    BY <1>1, <1>2
  <1> HIDE DEF image
  <1>4. \A i \in 1 .. n : i \in 1 .. size /\ image[i] \in S /\ image[i] = i
    BY <1>1, <1>3
  <1>5. /\ t \in Seq(S) /\ Len(t) = n
        /\ \A i \in 1 .. n : t[i] = image[i]
    <2> HIDE DEF n, S
    <2>1. 1 \in Int /\ n \in Int
      BY <1>1
    <2>2. /\ t \in Seq(S) /\ Len(t) = (IF 1 <= n THEN n - 1 + 1 ELSE 0)
          /\ \A i \in 1 .. n - 1 + 1 : t[i] = image[1 + i - 1]
      BY <1>4, <2>1, SubSeqProperties
    <2>3. Len(t) = n /\ n - 1 + 1 = n
      BY <1>1, <2>2
    <2>4. \A i \in 1 .. n : 1 + i - 1 = i
      BY <1>1
    <2> QED
      BY <2>2, <2>3, <2>4
  <1>6. file = t
    <2>1. \A i \in 1 .. n : file[i] = t[i]
      BY <1>1, <1>4, <1>5
    <2> HIDE DEF t, S
    <2> QED
      BY <1>1, <1>5, <2>1, SeqEqual
  <1>7. n = size => file = image
    <2>1. file = [i \in DOMAIN file |-> file[i]]
      BY <1>1
    <2> QED
      BY <1>1, <1>2, <2>1
  <1> QED
    BY <1>1, <1>6, <1>7 DEF image

(* What the server has of a write is the beginning of the image, across    *)
(* wraps of the block number on a network that does not duplicate, and     *)
(* whatever is duplicated or late when the number does not wrap; on the    *)
(* former a write that reports success left all of the image (load_block,  *)
(* case TFTP_ACK).                                                         *)
THEOREM PutsAreIntact == Spec => []PutIntact
  <1>1. TftpInv => PutIntact
    <2> SUFFICES ASSUME TftpInv, tftp_put_active PROVE PutIntact
      BY DEF PutIntact
    <2>1. Put!PutInv /\ PutTyped
      BY DEF TftpInv, Put!PutInv, PutTyped
    <2>2. ASSUME network = "lossy" \/ net_boot_file_size + MaxCount < SeqSize
          PROVE  Put!Prefix
      BY <2>1, <2>2 DEF Put!PutInv, Put!LossyInv, Put!ShortInv
    <2>3. network = "lossy" /\ net_state = "SUCCESS" => Len(file) = net_boot_file_size
      BY <2>1 DEF Put!PutInv, Put!LossyInv
    <2> QED
      BY <2>1, <2>2, <2>3, PutPrefix DEF PutIntact
  <1> QED
    BY <1>1, TftpInvariant, PTL

(* The variables of the read or of the write that runs keep their types:   *)
(* block numbers of a read stay below SeqSize, retries within their bound, *)
(* and nothing is stored outside the memory for it.                        *)
THEOREM TftpTypes == Spec => []TypeOK
  <1>1. TftpInv => TypeOK
    BY DEF TftpInv, TypeOK, Get!GetInv, Put!PutInv
  <1> QED
    BY <1>1, TftpInvariant, PTL
=============================================================================
