# Verification of the Tachyon U-Boot fork

This directory holds TLA+ models, TLC configurations and TLAPS proofs for the
Particle Tachyon (QCM6490) fork of U-Boot. They cover the drivers that the fork
adds, which talk to the other processors of the SoC, and three upstream parts of
the tree that must survive power loss or a bad network: the redundant
environment, Android A/B slot selection and TFTP. The fork does not change these
three, and `qcm6490_tachyon_defconfig` enables neither `ANDROID_AB` and
`BOOTMETH_ANDROID` nor a redundant environment on MMC: they are modelled as the
boards that do enable them use them. These are the parts
of the boot loader where something happens concurrently with it, or where it
may stop at any point, and so the parts that tests on one board reach least.
`PROJECT.json` maps every definition to the lines it models and lists runs,
mutants, hazards and theorems.

## The system

U-Boot runs on one core, without threads and without interrupts. It shares
memory with three processors that run their own firmware:

    alt-mode client   UCSI client   battmgr     qcom_adsp_pas.c
            \             |          /                |
             +--- PMIC-GLINK session ---+      AOSS QMP mailbox   RPMh
                         |                            |             |
               two rings in SMEM, IPCC doorbell   MSGRAM, IPCC     TCS
                         |                            |             |
                       ADSP                          AOP        RPMh block

| Component | State | Operations | What is hard | What makes it correct |
|---|---|---|---|---|
| GLINK ring (`pmic_glink.c`: `qpg_tx`, `qpg_rx_*`) | bytes, head, tail of each direction | send a packet, poll for one | two processors, stale pointers, wrap, full against empty | it is a queue of whole messages |
| GLINK session (`pmic_glink.c`) | `struct qpg`: handshake flags, intents, answer flags | open, poll, send a request and wait | waits nest inside polls, flow control in both directions, timeouts, retry on used rings | intents are neither lost nor duplicated, an answer belongs to its request, every call returns |
| UCSI client (`pmic_glink_ucsi.c`) | last CCI, buffers | PPM reset, commands, acknowledgements | late completions | a result belongs to its command |
| Alt-mode client (`pmic_glink_altmode.c`) | cached connector state | parse notifications, poll, refresh | state from several notifications and a reopen | cached values describe one connection |
| IPCRTR / servreg (`pmic_glink.c`) | a second channel, a queue of intents | qrtr hello, lookups | shares ring and polls with the session | same as the session |
| AOSS QMP (`qcom_aoss_qmp.c`) | descriptor words, one message buffer | probe, remove, send | words of old handshakes, old doorbells, late acknowledgements | a message is taken whole and once, failures close |
| ADSP boot (`qcom_adsp_pas.c`) | resources taken, failed flag, the flag of the XO clock (`clock-rpmh.c`) | start, wait, release | error paths, retry, a clock without a count | everything taken is given back |
| RPMh (`rpmh-rsc.c`, `rpmh.c`) | TCS slots | write a vote and wait | slot in use, completion | a vote is sent once |
| SMEM (`msm_smem.c`) | partitions | allocate, get | layout shared with other hosts | regions are disjoint |
| DisplayPort (`qcom_tachyon_dp*.c`) | link parameters | AUX, training, enable | retries, lowering the rate | training ends, the result is one the sink accepted |
| Board and platform code | none that lives on | fix-ups at boot | | |
| Redundant environment (`env/mmc.c`, `env/common.c`) | two copies with checksum and serial, `gd->env_valid`, `env_flags` | load, save, erase | power loss between any two writes, a serial of one byte, device errors | one register that survives power loss |
| Android A/B (`boot/android_ab.c`, `bootmeth_android.c`) | two copies of the metadata | select to scan, select to boot | power loss, torn writes, transfers that fail unnoticed, the running system writes too | a bad update runs out of tries, a good slot comes back |
| TFTP (`net/tftp.c`, `net/net.c`) | block counters, window, retries | read, write | loss, duplication, reordering, block numbers that wrap | the file in order, or an error |
| FWU metadata, LMB (upstream) | two copies; regions | update, reserve | power loss; overlap | one valid copy; regions stay disjoint |

Components call each other downwards only, except that a poll of the ring calls
the alt-mode parser, which may send a request of its own and poll again.

## Modules

| Module | Role |
|---|---|
| `GlinkQueue` | abstract specification of one direction of the transport: a FIFO queue of whole messages |
| `GlinkFifo`, `MCGlinkFifo` | the ring, byte by byte; every access of shared memory that can be interleaved is a step |
| `GlinkFifo_proofs` | inductive invariant, safety, refinement of `GlinkQueue` |
| `GlinkSession`, `MCGlinkSession` | `struct qpg`, the call stack of U-Boot, the two queues, the ADSP |
| `GlinkSession_proofs` | inductive invariants over stack and queues; intents, answers and acknowledgements |
| `Ucsi`, `MCUcsi` | PPM_RESET, commands and acknowledgements over the CCI; the PPM |
| `Ucsi_proofs` | inductive invariant of client and PPM; completions belong to their commands |
| `Altmode`, `MCAltmode` | the cached connector state, the SBU multiplexer, notifications and reads |
| `Altmode_proofs` | inductive invariant of messages and cache; the cache is fresh |
| `AossQmp`, `MCAossQmp` | link and channel handshake, one-message mailbox, the AOP |
| `AdspPas`, `MCAdspPas` | the resources of an ADSP boot, its error labels, the wait for the ADSP |
| `AdspBoot_proofs` | mailbox and boot: inductive invariants, the handshake, whole messages; the resources are balanced |
| `EnvStore` | abstract specification of a stored environment: a register that survives power loss |
| `EnvRedund`, `MCEnvRedund` | the two copies on the device, part by part |
| `EnvRedund_proofs` | inductive invariant, crash safety, refinement of `EnvStore` |
| `AndroidAb`, `MCAndroidAb` | slot selection, both copies of the metadata, the running system |
| `AndroidAb_proofs` | inductive invariant, the choice of a slot and the account of tries |
| `TftpGet`, `TftpPut` | a read and a write, each with its server |
| `Tftp`, `MCTftp` | the client: `TftpGet` and `TftpPut` composed over the static variables they share |
| `Tftp_proofs` | inductive invariants of a read and of a write; files and images arrive intact |

`GlinkSession` uses queues of whole messages for its two rings. That is what
`GlinkFifo` is proved to provide (`RingIsQueue`), for a ring of any size. `Ucsi`
and `Altmode` use in turn what `GlinkSession` shows of a request: its answers
come in order, and the answer of a request that timed out may satisfy the next
one. `AdspPas` uses the mailbox through the result of a send only, and is the
step that every open of a session begins with.

### GlinkFifo

`fifo`, `head` and `tail` are shared memory. The producer is `qpg_tx`:
`TxBegin` (read the pointers, check the room, compute `next`), `TxHeader` and
`TxData` (the two copies), `TxPublish` (the store to the head after `wmb()`).
The consumer is the receive half of `qpg_poll`: `RxPoll` (read the pointers),
`RxHeader` (peek the header, `qpg_rx_packet_len`), `RxPayload` (the copy),
`RxAdvance` (the store to the tail). Each byte of the ring names its message
and its position in it, so a torn, stale or misplaced byte shows. `unread` is a
history variable. The driver owns one end of each ring; the ADSP's end is
assumed to be the mirror image, which is what the protocol asks of it. The
sizes are constants; the instance is the ring scaled down by four (8-byte
alignment becomes 2). `fifo` writes of one `memcpy` are one step: the consumer
does not look at those cells before the head moves, and that it does not is
what `UnreadIntact` and `WholeMessage` check.

### GlinkSession

`pg` is `struct qpg` without addresses and channel numbers, `stack` the calls in
progress (a frame says which function it is, where it waits and how many idle
polls it has seen), `ret` the result on its way up. `CallOpen`, `CallPoll` and
`CallRefresh` are the calls from outside. `PollMessage` and `PollEmpty` are one
call of `qpg_poll`; the `After...` actions are the code after a wait is over;
`KeepWaiting` and `TimeOut` are the loop of `qpg_drain_until`. A notification
pushes a frame for ALTMODE_PAN_ACK onto the stack, in the middle of whatever
wait met it. A send that finds the ring full fails as `qpg_tx` does; which of
the callers ignore that is modelled. Prewarm and discovery are any run of at
most `MaxUcsi` UCSI reads and writes, ended at any point: the session ignores
their result. An open whose `qpg_init` fails has reset `struct qpg` and sends
nothing. `earned` and `noted` are history: the ADSP carried out a PAN_EN since it
took the last VERSION; a notification was met since the last reset of `struct qpg`.

The ADSP is external: it answers VERSION, advertises the channel, posts
intents, answers requests in order, gives intents back either by
RX_DONE_W_REUSE or by RX_DONE and a new INTENT, asks for intents when it has
none, and notifies. A VERSION starts its side afresh, and it advertises again a
channel that had been open.

### AossQmp

`desc` holds the eight state words of the descriptor table, `body` and `len`
the message area. The words written between two waits are one step and the
doorbell for them another, as the AOP may be awake because of an older
doorbell. Every word of a message is a step. The doorbell may fail
(`KickMayFail`). The AOP is external: on a doorbell it follows U-Boot's link and
channel state and takes a message if the length is not 0; it clears the length
in a later step. `PromptAck` is the assumption that it does so before U-Boot
gives the message up.

### Ucsi

`op` is the sequence that runs (prewarm, then PAN_EN, then discover), `step` the
place in it, `pc` the place in a step: `send_command`, `wait_ucsi_cci`,
`send_ack`, `wait_ack` are `qpg_send_ucsi_command`; `reset_read` to `reset_poll`
are `qpg_send_ucsi_ppm_reset` with its clearing of an old RESET_COMPLETE and its
reissue of the reset. `cci` is the PPM's status, `rd` the last one read: they
differ, and a failed read leaves an answer that may come late (`late`). The PPM
(external) takes a command when it is done with the one before and a reset at
any time, completes or refuses it, and may report a connector change. `outcome`
and `acked` are history: what became of the command written last. `upset`
records a transfer that failed within a PPM_RESET or while the answer to an
earlier read was still out, a PPM that was slower than the client's waits, and a
refused command.

### Altmode

A call (`qpg_open_session`, `qcom_pmic_glink_get_altmode`,
`qcom_pmic_glink_request_dfp`) waits, and each wait handles messages: a
notification is decoded (`Apply`), routes the SBU lines, is cached and is
acknowledged in a wait nested in the first (`depth`). When nothing is cached,
READ_SEL and READ ask for the state. An open that is not the first clears the
session and keeps the cached alt mode. Every wait may time out; the answer
still comes. `overtaken` records that the connector changed while a READ was
under way: awaited, or given up and not yet answered or received, since its
answer passes for that of the next READ.

### AdspPas

One action for each step of `qcom_q6v5_pas_boot_node`; every step may fail, and
the error labels (`out_free_metadata` to `out_qmp_off`) are operators that each
action jumps to as the code does. `poll_...` is `qpas_wait_for_start`. The ADSP
raises handover, ready and fatal in any order of `Orders`. The clock is XO, the
only one the node names, and `xo_on` the flag its driver (`clock-rpmh.c`) keeps
for all users: there is no count. `qpas_disable_clocks` disables it twice, by
`clk_disable_bulk` and again within `clk_release_bulk`, and the second time finds
the flag clear. `OtherEnablesXo` is another driver that enables it. The results
of giving back clock, power domains and load state are ignored by the code; an
exit chooses which of them are refused (`Refusals`). `mishaps` records these and
the failures after which the code does not clean up.

### EnvRedund

`disk` is the two copies, `env`, `env_valid` and `env_flags` the memory of
U-Boot. A copy is written in two parts; `WritePart` may be followed by
`PowerLoss` or by `SaveFail`. The checksum is the data it was computed from, so
a copy mixed from two saves is refused exactly when its data differs from what
was saved. The device may come blank, fail a write or an erase, fail to read
any of the copies, and write the parts of a copy in the other order; `upsets`
records which of these happened, so that each property says what it depends on.
An import that fails for want of memory leaves the default environment in memory
and everything else as it was found (`EnvStore` allows that of a load).

### AndroidAb

`ab_select_slot` reads the metadata (falling back to the backup, then to a
default), picks a slot (`SelectLoop`: one `Pick` for each of the four entries of
`slot_info`, to which the code cuts a larger number of slots down), counts
the try, and stores both copies, each write in two steps so that it may be torn.
It is called by the scan, which finds the slot's images, and again by the boot
(`BootFlow`), after it has verified the images of the slot the scan found. A boot
that fails, before or after the try was counted (`StartOs` without a slot,
`LoadFails`), leaves the bootflow to be booted again: `pslot` is the name it then
verifies, which bootm may have freed. The running system (external) marks its
slot successful or corrupted and installs updates by rewriting the first copy.
Power may fail at any point.

The device may fail a transfer (`DeviceMayFail`). An error code ends the selection
(`ReadError`, `StoreError`). But `mmc_bread` and `mmc_bwrite` return 0 blocks,
which `IS_ERR_VALUE` does not see: after such a write the selection goes on
(`StoreFail`), with a block that is as it was (`lost`) or half written (`torn`);
after such a read it works on a buffer from malloc that was never written, taken
here as one whose checksum is wrong (`Read`). `failed` says what failed since the
scan.

### Tftp

`TftpGet` is `tftp_handler` for a read with windows (RFC 7440): the options, the
expected block, blocks out of order and their one early acknowledgement, the
wrap of the block number, the limit of memory, errors and `net_start_again`.
`TftpPut` is the same handler for a write. A behaviour runs on one of two
networks: a lossy one loses up to `MaxLoss` datagrams and is faster than the
timers; a wild one duplicates and reorders, with timers that run at any time,
and delivers nothing older than `MaxAge` blocks. Without such a limit no
protocol with block numbers that wrap can be right. `got`, `base` and the block
a message really carries are not seen by the client: the handlers look at the
number on the wire.

## Runs

| Run | Question |
|---|---|
| `glink_ring` | Is the ring a queue of whole messages, whatever the interleaving? |
| `glink_session` | With a live ADSP in time, two intents and UCSI traffic: are intents conserved, answers matched, notifications acknowledged once, and does the session come up, with waits nesting freely? |
| `glink_session_retry` | With an ADSP of any speed, a small ring and a second open: what still holds, is a session ready by its own PAN_EN, and does every call return? |
| `glink_stale_open_ack` | Is the OPEN_ACK that ends the wait always the one for this attempt? No. |
| `aoss_qmp` | Handshake and mailbox with failing doorbells and timeouts |
| `aoss_qmp_late_ack` | Was a message whose send returned 0 taken, with an AOP that acknowledges late? No. |
| `ucsi` | Is a completion that ends a wait that of the command waited for, and does every sequence end? |
| `altmode` | Does the cached alt mode agree with the connector and with the SBU lines once all is quiet? |
| `adsp_boot` | Is everything an ADSP boot takes given back or held by a running ADSP, and is a running ADSP never overwritten? |
| `env_redund` | Does a device keep an environment it can load, is it the last one saved, and are the two copies one register (`ImplementsStore`)? |
| `android_ab` | Does a bad update run out of tries and a good slot come back (`RollsBack`), wherever power fails and whatever the device fails to read or write? |
| `tftp` | Is a file that was read or written intact, does the server's account agree with memory, and does a transfer survive losses? |

**Bounds.** The ring has 12 cells and messages of 2 to 6, so that it wraps at
every aligned offset, fills up and holds several messages; the proofs lift the
bound. `glink_session` has one open, one UCSI request in each of prewarm and
discovery, two notifications (an acknowledgement nests in a request and in
another acknowledgement), and two remote intents, which let the single slot
`pg->riid` be overwritten. `glink_session_retry` has an open and its retry or a
later call. Rings of 3 and 6 messages: with 3 the driver meets a full ring, with
6 it does not. `Patience` is 1: a wait that gives up after the first idle poll
shows every timeout. Three sends and three probes of the mailbox let a late
effect of one call meet a later one.
`ucsi`: two opens, one failed transfer anywhere, 4 polls in a wait, so that the
PPM is done early, at the last poll, or not at all. `altmode`: two changes of
the connector, five calls (an open, its retry, three others), two timeouts; the
fifth call lets a READ take the answer to one that was given up.
`adsp_boot`: three calls, so that a retry follows a failure and a failure a
retry; two power domains, so that the second fails with the first on.
`env_redund`: two values for each part; the serial wraps at 3, the least modulus
at which old, new and next differ, and every serial is a start. The number of
saves, resets and faults is not bounded. `android_ab`: two tries and two
priorities, one update, one torn write or failed read and one write lost
unnoticed; the number of boots, of reruns of a bootflow and of errors the device
reports is not bounded. (Two updates pass as well, in four minutes.)
`tftp`: block numbers wrap at 8, after the window of 3 has moved, in a file of 9
blocks and an image of 10; on the wild network the image has 3 blocks and a
datagram may be 4 blocks old.

**Deadlock** is checked in the ring, environment and A/B runs, which never stop.
In the others the system stops when the calls are used up or the transfer is
over. What must not stop is stated by `CallReturns`, `SessionComesUp`,
`Returns`, `BootReturns` and `Succeeds`.

**Fairness.** U-Boot is the only code on its core and every wait is a loop, so
its own steps are weakly fair (`DriverRuns`, `ClientNext` of `Ucsi`, `BootNext`
of `AdspPas`). `glink_session_retry`, `aoss_qmp`, `ucsi` and `adsp_boot` assume
nothing of the other processor: calls return from the timeouts alone. A read
error of the SMP2P item is not counted on to end a wait. `AdspRuns`, weak
fairness of each duty of the ADSP, is used by `glink_session` for
`SessionComesUp`, which no driver could have with a dead ADSP. `RollsBack` needs
strong fairness of the steps of a boot, since power may fail, or the device report
an error, in each of them: not in the same one for ever (a write once begun has
weak fairness only, as the interruptions are bounded there); and a system that
does not come up is reset, which is the watchdog's or the user's part. `Succeeds` needs that
datagrams not lost arrive, and strong fairness of the client's timer, which
packets without progress do not set back in the code. Messages of the ADSP are
bounded in the session model, so the run does not speak about an ADSP that
floods the ring: the inner loop of `qpg_drain_until` has no bound of its own.

### Where the promises stop

Two runs fail, as the code does not do what its comments say.

`glink_stale_open_ack`: an open times out while it waits for OPEN_ACK; the ADSP
answers late. The retry resets `struct qpg`, finds that OPEN_ACK in the ring,
and once it has sent its own OPEN the wait is over at once. U-Boot goes on as if
the channel were open, and posts its intent, before the ADSP has taken the OPEN.
`LiidConserved` and `AnswerIsOurs` are checked without retries and timeouts for a
similar reason: `next_liid` restarts on a retry, and the late answer of a request
that timed out sets the flag of the next. The proofs say which of the two each
property needs.

`aoss_qmp_late_ack`: the AOP takes a message, U-Boot times out, clears the
length and posts the next message; the AOP clears the length for the first. The
second send returns 0; its message was not taken. `SuccessIsReal` proves that
`PromptAck` is all that is missing.

Elsewhere a property or an instance names the condition under which it holds.
These are the behaviours behind those conditions; dropping a condition from its
property shows TLC's trace of it.

- Environment. On a device without an environment a load leaves `ENV_INVALID`.
  The first save then goes to copy 1, and the toggle of `gd->env_valid` names
  copy 2, which was never written (`mmc.c:361`): the second save overwrites
  copy 1, the only valid one, and a power loss in the middle leaves
  none (`"blank"` in `NeverLosesLast`). A failed write has used up a serial
  number; where it wraps, that makes the older copy the newer one
  (`common.c:545`, `486`; `"write"` in `SavedIsStored`). A device that writes
  the second part of a copy first can complete a copy that an earlier,
  interrupted save left (`"order"` in `ImplementsStore`).
- Session. On a second attempt the wait for PAN_EN may be ended by the answer to
  the ALTMODE_PAN_ACK of a notification met in it, whose own wait gave up
  (`pmic_glink.c:774`; `noted` in `ReadyMeansPanEnabled`): the session is declared
  ready with notifications enabled by the first attempt's PAN_EN and its own not
  yet carried out.
- A/B. A write that fails unnoticed starts the slot without recording the try
  (`android_ab.c:156`): one more try for each (`lost` in `NoExtraTries`). After a
  failed transfer, or when a bootflow is booted again after a failure, the second
  selection may come to another slot than the one verified
  (`bootmeth_android.c:630`, `635`; `failed` in `BootsVerifiedSlot`), and after a
  failed transfer the copies may differ as the system starts (`BackupFollows`).
- A/B. A slot whose images cannot be read or verified costs no try, so it is
  selected for ever (`bootmeth_android.c:635`; `GoodImage = {1}` refutes
  `RollsBack`). A slot marked successful with its last try used is refused
  (`android_ab.c:293`, against the comment at 277; `SelectionInv` asks for
  `OsKeepsTry`). Two torn writes, or a torn write and a failed read, lose both
  copies and with them the count (`MaxTorn = 2` refutes `NoExtraTries`).
- TFTP. The comparison that recognises a block from further on is of a signed
  16-bit number (`tftp.c:605`), so in the upper half of the numbers no early
  acknowledgement is sent and the timer has to help. After the last block of a
  write any ACK, an old one too, ends it with success (`482`); a duplicate ACK
  around the wrap counts the wrap twice (`493`). `PutIntact` asks for a network
  without duplicates, or an image without a wrap, for these reasons.
- UCSI. A PPM_RESET given up half way may complete later and be taken for the
  completion of the next command (`pmic_glink_ucsi.c:190`); so may the
  completion of a command whose write was reported as failed while the answer to
  an earlier read was still out, since every read from then on is answered with
  the CCI of the one before (`32`). A refused SET_NOTIFICATION_ENABLE is reported
  as prewarmed all the same (`194`).
- Alt mode. A READ that is overtaken by a newer notification has the last word
  (`pmic_glink_altmode.c:547`). So has the late answer to a READ that was given
  up, when the next READ takes it for its own. `request_dfp` relies on `dp_seen`, which is not
  cleared when DisplayPort is left (`771`); no property covers that.
- ADSP boot. XO is switched off by a failure or a handover also when another
  driver has enabled it, since its driver keeps one flag and no count
  (`clock-rpmh.c:66`); no doc promises otherwise, and `ResourcesBalanced` does not
  ask for it. A vote or a load state the firmware refuses to take back stays
  (`"clk"`, `"vote"`, `"qmp"`). A failed PAS_MEM_SETUP leaks the
  metadata buffer (`2067`). A read error of the SMP2P item leaves the ADSP
  running, and the next attempt loads over it (`985`). A power domain that
  cannot be switched on keeps its performance vote (`232`). An ADSP that is
  ready before it hands over leaves the proxy votes on (`1029`).

## Proofs

For every value of the constants that satisfies the named assumptions
(`FifoAssumption`, `ReserveAssumption`, `MessageAssumption`; `SessionAssumption`;
`QmpAssumption`; `EnvAssumption`; `AdspPasAssumption`; `AbAssumption`;
`AltmodeAssumption`; `UcsiAssumption`; `TftpAssumption`). The bounds on calls, faults,
opens and the like that the runs need are constants here, so they are lifted. Each proof has one lemma per
action; what follows is the argument.

*Ring.* `IndInv` adds to the safety properties what each side relies on while
it is midway: unread messages lie end to end from tail to head (`Contiguous`),
the bytes of the message being written already lie from the head on and its
`next` is right for the current head (`WriterInv`), and the reader's snapshot
of the available bytes covers the oldest message (`ReaderInv`). The other side's
moves only enlarge what a side believes: the tail grows under the writer, the
head under the reader. One lemma per action; `WriteSpares` (a copy into the
claimed cells touches no unread byte) and `ClaimDisjoint` carry the argument,
`OffsetInjective` and `WrapShift` are the arithmetic of the wrap. From it:
`ReceivesWholeMessages`, `PacketsNeverRefused`, `PointersTellEmpty`,
`ReservesStayFree`, `PublishedBytesStay`, and the refinement `RingIsQueue`.
`MessageAssumption` asks that sender and receiver agree on the length of a
packet after alignment, which the headers the driver builds satisfy.

*Session.* `SessionInv` holds on every open, retry, timeout and full ring. It
gives the discipline of the stack (one call from outside, what it waits for, then
acknowledgements only), shows that there is at most one permission to open (an
advertisement in `rx`, or its flag in `pg`, or the OPEN itself), and that nobody
speaks of PAN before ALTMODE_PAN_EN was carried out. From it: `OpenIsAnswered`,
and, with the sum of what is acknowledged, on its way or still to
be acknowledged, `AcksAreNotRepeated`. `ReadyIsEarned` is about the attempt, so what
an earlier one left in the rings has to be told apart: `OwnInv` orders both queues
(requests before a later VERSION, what the ADSP says on the channel before a later
advertisement), so that whatever is heard once this attempt's channel is open is
said on it; `EarnedInv` concludes that, without a notification, no PAN request is
open and no answer to one is met before PAN_EN is carried out. The other theorems have hypotheses on the
behaviour, each one a way in which the code does lose the property:

| Theorem | one open (`OneOpen`) | no timeout | nothing lost to a full ring (`NoneLost`) |
|---|---|---|---|
| `OpenAckIsEarned`, `RiidsAreExclusive` | x | | |
| `LiidsAreConserved`, `RiidIsNotStranded` | x | | x |
| `EveryNotifyIsAcked` | x | x | x |
| `AnswersAreOurs` | | x | |

All three hold throughout the instance of `glink_session`; so the theorems state
what that run checks for every instance, and most of them for timeouts, retries or
full rings that the run leaves out. `HandshakeInv` is what one open gives: one
VERSION, one OPEN after it, and no acknowledgement before its cause. `RiidInv` adds
that no intent of the ADSP is heard of before the channel is open. `LiidInv` counts the places of every
intent, granted or not. `StrandInv` follows the one intent the driver remembers: it
is out with data, at the ADSP, on its way back, or available; an RX_DONE that frees
it has its new INTENT behind it. `AnswerInv` says that at most one request of a kind
(PAN apart) is unanswered, and that the caller's own frame waits for it. Everything is counted
with `Num`, the number of messages of a kind in a queue, and its lemmas on appending
to a queue, joining two and taking the head.

*Mailbox.* `QmpInv` records at every wait of `qmp_open` which words are up, why
the AOP cannot take them down (it follows U-Boot's, and those stay up during an
open), and that the length is set only while a whole message is wanted. From
it: `ProbedMeansLinked`, `FailuresClose`, `MessagesWhole` and the action
property `GivenUpMeansWithdrawn`. `AckInv` adds the account of which messages
were taken; `SuccessIsReal` follows under `PromptAck`.

*Environment.* `EnvInv` says of a save in progress which parts of the target
already hold the new copy (`WriteInv`); that the copy the save spares is valid
(`ActiveInv`); that it carries the serial before the new one (`SerialInv`,
`TurnInv`). The three differ in the faults they survive, so each is conditional
on `upsets`. `NextSerialWins` is the arithmetic of the wrap: a copy with the next
serial is the newer one for every modulus above 2, and `TargetChosen` concludes
that a target becomes the stored copy with its last part and not before. From it:
`SavesAreKept`, the action property `NothingIsLost`, and `CopiesAreOneRegister`,
where every step of a save but the last part written is a stutter of `EnvStore`.

*ADSP boot.* `HeldInv` gives for every `pc` what is held there; `IdleInv` and
`BootedHolds` what is left after a failure and after a success. An error label
is entered from several steps; a lemma for each label (`OutClocksInv`,
`OutFreeMetadataInv`, `DiesInv`) shows that it releases exactly what is held where
it is jumped to, whatever is refused. The clock is on because of the boot, of
another user, or of a refusal, and nothing else (`xo_on` in `HeldInv` and
`IdleInv`). `meta` counts what piles up over calls, hence the bounds by `calls`.
`RunningInv` is what `LoadsIntoStoppedAdsp` needs.

*A/B.* `PlaceInv` says which copies are valid and, as long as no transfer failed,
agree at each step, `ChoiceInv` that the slot is the choice made from `abc`, which
a scan leaves as it is: so the second selection of a first boot repeats the first
(`SelectLoopFacts`). `TriesInv` says of every copy that the attempts made, the one
being made, and the tries it still grants are at most `MaxTries` and the writes
lost unnoticed; `TornInv` that a selection always finds one of the copies.
`TriesAreNotRegained` is proved under `MaxTorn <= 1`; the model refutes it without
(see above). `SelectionHolds` has no assumption: what it depends on is in
`SelectionInv`.

*Alt mode.* Whatever is out of date is followed by news: a message in `chan` that
does not tell the connector has a notification behind it (`OrderInv`), and so has
the cache, or a PAN_EN that will bring one is under way (`NewsInv`). READ answers
are the exception and need `~overtaken` (`ReadInv`). `FirstInv` covers an ADSP
that says nothing after PAN_EN because nothing changed, `SilenceInv` the time
before. The depth to which waits nest plays no part: what a wait handles does not
depend on it.

*UCSI.* At every `pc` the invariant says which words the next reads may return
(`Reads`: the CCI and a late answer), what the PPM still has to do, and which of
the two is the command's own (`WaitInv`, `AckInv`, `ResetInv`). `BeforeInv` is the
fact the comparison with `old_cci` relies on: when a command is sent, any read
still out returns what was read last, or BUSY. `NoReset` and `RestInv` carry that
over to the next sequence. All this is under `Calm`; `PrewarmInv` adds what
`PrewarmEnables` needs.

*TFTP.* A read. The counters of the client tell how many blocks it accepted
(`CountInv`: block number plus wrap offset, which is where `store_block` puts the
block), what it accepted is stored (`StoreInv`), the server is behind the client,
and nothing on its way is more than a window ahead of the server (`WindowInv`).
With the limit on the age of a datagram the block it carries is then less than
`SeqSize` from the one expected, on both sides; `NearEqual` says that two such
numbers that look the same on the wire are the same. That is all `MaxAge + Window <
SeqSize` is for. `GetNext` concludes that the block the client takes for the next
one is the next one, `GetAck` that the server takes an acknowledgement for the
block it names. Without `WindowInv` neither is inductive: an acknowledgement from a
window ahead could pass for one of this window. A write. `LossyInv` is
stop-and-wait: one datagram under way, the server at most one block behind, and
the block under way is wrap offset plus number. `ShortInv` is for duplicates: as
long as the server does not have it all, the wrap offset is 0 and a number is that
of the block. These are the two cases `PutIntact` names; outside them it is
false (see above). From it: `FilesAreIntact`, `AckedBlocksAreStored`,
`PutsAreIntact`. A duplicate of the option answer moves the number of a write
on without a modulus (`tftp.c:585`), so `TypeOK` bounds it only for a read.

The invariants `IndInv`, `SessionInv` (with `OwnInv`, `EarnedInv`, `HandshakeInv`, `RiidInv`, `LiidInv`,
`StrandInv` and `AnswerInv`), `QmpInv`, `PromptInv`, `AdspInv`, `AbInv`, `AltInv`,
`UcsiInv` and `TftpInv` (`GetInv`, `PutInv`), the type invariants and `ReservesKept` are not properties of a run: they
are proved for every instance, and the run checks what follows from them.

*Only model-checked:* liveness, `SessionComesUp`, `CallReturns` (session and
mailbox), `RollsBack`, `Succeeds`, `Returns` and `BootReturns`: the prover has no
ENABLED and no fairness. Every other property of a passing run is a theorem.

## Not modelled

- Payload decoding, packet names, channel numbers, logging, the device model.
- IPCRTR, qrtr and servreg, battmgr: off by default.
- RPMh, SMEM, the command database, the IPCC doorbell beyond its effect, the
  DisplayPort output and the orientation of the QMP PHY: see the plan.
- In the ADSP boot, the layout and the checks of the firmware's segments: a
  step that fails on them fails as any other.
- In the descriptor table of the mailbox, a bad magic, version or size: the
  probe fails before it changes anything.
- A malformed packet from the ADSP. `qpg_poll` leaves some of them in the ring
  for ever (INTENT without intents, data without bytes).
- A GPIO of the SBU multiplexer that cannot be requested: the lines then stay as
  they are (`pmic_glink_altmode.c:144`).
- The messages of the BCB, recovery and the boot loader mode of Android; how images
  are found and verified, beyond whether they are (`GoodImage`).
- Environment drivers other than MMC, and the hardware partition it selects.
- The TFTP server of U-Boot (`tftpsrv`), ARP, fragments, and going on to
  another Ethernet interface after a failure. There is one interface and the
  rotation comes back to it, which makes a failure final; with `ethrotate` set to
  `no` it would be restarted as `netretry` allows (`net.c:720`).
- FWU metadata and LMB; the rest of upstream U-Boot: the EFI loader, the shell,
  drivers and architectures, most of it sequential code without the hazards
  above, and far too large to be modelled.

## Plan

1. (done) Ring, its refinement and proofs; mailbox with proofs; session.
2. (done) The clients above the session and the boot below it: `Ucsi`,
   `Altmode`, `AdspPas`.
3. (done) What survives power loss and a bad network: `EnvRedund` with
   `EnvStore`, `AndroidAb`, `Tftp`.
4. Proofs. Done: environment with its refinement, ADSP boot, A/B, alt mode, UCSI,
   session, TFTP. Nothing is left but liveness, which stays with TLC.
5. `Ipcrtr`: the second channel and its queue of 32 intents. `Rpmh` and `Smem`:
   the TCS protocol; allocation against a reference. `Lmb` and `Fwu`.
