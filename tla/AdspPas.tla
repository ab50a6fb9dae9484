------------------------------ MODULE AdspPas ------------------------------
(***************************************************************************)
(* Booting the ADSP through the firmware's peripheral authentication       *)
(* service (src/drivers/soc/qcom/qcom_adsp_pas.c).                         *)
(*                                                                         *)
(* qcom_q6v5_pas_boot_node takes resources one after the other: the AOSS   *)
(* load state, power domains, clocks, the mapped carveout, the firmware    *)
(* file and the metadata buffer.  It lets the secure firmware start the    *)
(* ADSP and polls the SMP2P item for its signals.  Each error jumps to the *)
(* label that releases what is held at that point.  qcom_adsp_pas_boot is  *)
(* called at boot and again by every attempt to open a GLINK session.      *)
(***************************************************************************)
EXTENDS Naturals, Integers

CONSTANTS Domains,     \* number of proxy power domains
          MaxCalls,    \* bound: calls of qcom_adsp_pas_boot
          MaxPolls,    \* the polls that fit into the wait for the ADSP
          Orders       \* the orders in which the ADSP may raise its signals

Steps == {"idle", "smp2p", "qmp", "pd", "clk", "mem", "fw", "init", "load", "auth", "wait"}
Signals == {"handover", "ready", "fatal"}

ASSUME AdspPasAssumption ==
    /\ Domains \in Nat \ {0} /\ MaxCalls \in Nat /\ MaxPolls \in Nat \ {0}
    /\ \A o \in Orders : \A s \in o : s.n \in Nat /\ s.sigs \subseteq Signals

VARIABLES pc,            \* the step that is next, "idle" between calls
          ret,           \* what the last call returned
          booted, failed,
          qmp,           \* the AOSS load state is on
          enabled,       \* power domains that are on (pds->enabled)
          votes,         \* power domains with a performance vote
          xo_on,         \* the clock XO is voted for (qcom_rpmh_clk_priv)
          xo_user,       \* another driver has enabled XO
          clk_valid, clk_enabled,   \* the flags of struct qpas_clocks
          mapped, fw,    \* the carveout and the firmware file
          meta,          \* metadata buffers that are allocated
          metadata_ctx,  \* the caller knows of one
          reserved,      \* the carveout is reserved in the LMB
          handover_seen, polls,
          adsp,          \* the ADSP: is it running?
          smp2p,         \* the signals in its SMP2P item
          order,         \* the signals it has yet to raise, in order
          calls,
          mishaps        \* history: what a failure has left behind

proc == <<booted, failed>>
power == <<enabled, votes>>
clocks == <<xo_on, clk_valid, clk_enabled>>
memory == <<mapped, fw, meta, metadata_ctx, reserved>>
remote == <<adsp, smp2p, order>>
vars == <<pc, ret, proc, qmp, power, clocks, xo_user, memory, handover_seen, polls, remote,
          calls, mishaps>>

-----------------------------------------------------------------------------
At(step) == pc = step
Ok(step) == pc' = step /\ UNCHANGED ret
Returns(r) == pc' = "idle" /\ ret' = r

(* What an exit leaves on because the firmware refuses the request: the    *)
(* load state, votes for power domains, the vote for XO.  The code ignores *)
(* these results.                                                          *)
Refusals == SUBSET {"qmp", "vote", "clk"}
Mishaps == {"qmp", "vote", "clk", "mem_setup", "running"}

(* qcom_rpmh_clk_disable: the driver of XO keeps no count but one flag.  A *)
(* clock that is off is left alone, one that is on goes off for every      *)
(* other driver too, or stays on when the request is refused.              *)
rpmh_clk_disable(on, f) == on /\ "clk" \in f

(* qpas_disable_clocks: clk_disable_bulk for clocks that are enabled, then *)
(* clk_release_bulk, which disables them once more, for valid ones.  The   *)
(* node has one clock, XO.                                                 *)
disable_clocks(f) ==
    LET disabled == IF clk_enabled THEN rpmh_clk_disable(xo_on, f) ELSE xo_on
    IN  /\ "clk" \in f => xo_on /\ clk_valid
        /\ xo_on' = IF clk_valid THEN rpmh_clk_disable(disabled, f) ELSE disabled
        /\ UNCHANGED <<clk_valid, clk_enabled>>

(* qpas_disable_power_domains                                              *)
disable_power_domains(f) ==
    /\ enabled' = 0
    /\ \E kept \in SUBSET (1 .. enabled) :
          /\ (kept # {}) <=> ("vote" \in f)
          /\ votes' = (votes \ 1 .. enabled) \cup kept

(* The labels, from the last to the first.  Only an error gives back what  *)
(* a running ADSP needs; f is what the exit leaves behind.                 *)
out_qmp_off(f) ==
    /\ qmp' = ("qmp" \in f)
    /\ mishaps' = mishaps \cup f
    /\ Returns("err")

out_clocks(f) == disable_clocks(f) /\ disable_power_domains(f) /\ out_qmp_off(f)
out_unmap(f) == mapped' = FALSE /\ out_clocks(f)
out_free_fw(f) == fw' = FALSE /\ out_unmap(f)

free_metadata == meta' = IF metadata_ctx THEN meta - 1 ELSE meta
out_free_metadata(f) == free_metadata /\ out_free_fw(f)

Keep == UNCHANGED <<proc, handover_seen, polls, calls, xo_user>>

-----------------------------------------------------------------------------
(* qcom_q6v5_pas_boot: an ADSP that is up needs nothing, one that failed   *)
(* is not tried again.  The flags of a new attempt are clear.              *)
boot ==
    /\ At("idle") /\ calls < MaxCalls
    /\ calls' = calls + 1
    /\ \/ booted /\ Returns("ok") /\ UNCHANGED <<clk_valid, clk_enabled, handover_seen, polls, enabled, metadata_ctx>>
       \/ ~booted /\ failed /\ Returns("err")
          /\ UNCHANGED <<clk_valid, clk_enabled, handover_seen, polls, enabled, metadata_ctx>>
       \/ /\ ~booted /\ ~failed /\ Ok("smp2p")
          /\ clk_valid' = FALSE /\ clk_enabled' = FALSE /\ enabled' = 0
          /\ handover_seen' = FALSE /\ polls' = 0 /\ metadata_ctx' = FALSE
    /\ UNCHANGED <<proc, qmp, votes, xo_on, xo_user, mapped, fw, meta, reserved, remote, mishaps>>

(* Step 0, the outbound SMP2P item, holds nothing.                         *)
smp2p_init ==
    /\ At("smp2p")
    /\ Ok("qmp") \/ Returns("err")
    /\ Keep /\ UNCHANGED <<qmp, power, clocks, memory, remote, mishaps>>

load_state ==
    /\ At("qmp")
    /\ \/ Ok("pd") /\ qmp' = TRUE
       \/ Returns("err") /\ UNCHANGED qmp
    /\ Keep /\ UNCHANGED <<power, clocks, memory, remote, mishaps>>

(* qpas_enable_power_domains, one domain: it gets a vote, then it is       *)
(* switched on.  When that fails, the domains before it are switched off,  *)
(* and its own vote stays.                                                 *)
enable_power_domain ==
    /\ At("pd")
    /\ \/ /\ enabled < Domains
          /\ enabled' = enabled + 1 /\ votes' = votes \cup {enabled + 1}
          /\ UNCHANGED <<pc, ret, qmp, mishaps>>
       \/ enabled = Domains /\ Ok("clk") /\ UNCHANGED <<power, qmp, mishaps>>
       \/ /\ enabled < Domains
          /\ \E f \in Refusals : disable_power_domains(f) /\ out_qmp_off(f) /\ "clk" \notin f
       \/ /\ enabled < Domains
          /\ enabled' = 0 /\ votes' = (votes \ 1 .. enabled) \cup {enabled + 1}
          /\ \E f \in SUBSET {"qmp"} : out_qmp_off(f \cup {"vote"})
    /\ Keep /\ UNCHANGED <<clocks, memory, remote>>

(* qpas_enable_clocks; a node without clocks is no error, and a clock that *)
(* is on needs no request.                                                 *)
enable_clocks ==
    /\ At("clk")
    /\ \/ /\ Ok("mem")
          /\ xo_on' = TRUE /\ clk_valid' = TRUE /\ clk_enabled' = TRUE
          /\ UNCHANGED <<qmp, power, mishaps>>
       \/ Ok("mem") /\ UNCHANGED <<qmp, power, clocks, mishaps>>
       \/ \E f \in Refusals : out_clocks(f)
       \/ /\ ~xo_on /\ clk_valid' = TRUE /\ UNCHANGED <<xo_on, clk_enabled>>
          /\ \E f \in Refusals : disable_power_domains(f) /\ out_qmp_off(f) /\ "clk" \notin f
    /\ Keep /\ UNCHANGED <<memory, remote>>

(* The carveout is mapped and reserved; the reservation stays.             *)
get_memory_region ==
    /\ At("mem")
    /\ \/ Ok("fw") /\ mapped' = TRUE /\ reserved' = TRUE
          /\ UNCHANGED <<qmp, power, clocks, mishaps>>
       \/ (\E f \in Refusals : out_clocks(f)) /\ UNCHANGED <<mapped, reserved>>
    /\ Keep /\ UNCHANGED <<fw, meta, metadata_ctx, remote>>

read_firmware ==
    /\ At("fw")
    /\ \/ Ok("init") /\ fw' = TRUE /\ UNCHANGED <<qmp, power, clocks, mapped, mishaps>>
       \/ (\E f \in Refusals : out_unmap(f)) /\ UNCHANGED fw
       \/ \E f \in Refusals : out_free_fw(f)
    /\ Keep /\ UNCHANGED <<meta, metadata_ctx, reserved, remote>>

(* qpas_mdt_init_image: PAS_INIT_IMAGE with a metadata buffer, which it    *)
(* frees itself when that fails; then PAS_MEM_SETUP for an image that is   *)
(* relocated.                                                              *)
init_image ==
    /\ At("init")
    /\ \/ /\ Ok("load") /\ meta' = meta + 1 /\ metadata_ctx' = TRUE
          /\ UNCHANGED <<qmp, power, clocks, mapped, fw, mishaps>>
       \/ (\E f \in Refusals : out_free_fw(f)) /\ UNCHANGED <<meta, metadata_ctx>>
       \/ /\ \E f \in Refusals : out_free_fw(f \cup {"mem_setup"})
          /\ meta' = meta + 1 /\ metadata_ctx' = TRUE
    /\ Keep /\ UNCHANGED <<reserved, remote>>

load_segments ==
    /\ At("load")
    /\ \/ Ok("auth") /\ UNCHANGED <<qmp, power, clocks, memory, mishaps>>
       \/ (\E f \in Refusals : out_free_metadata(f)) /\ UNCHANGED <<metadata_ctx, reserved>>
    /\ Keep /\ UNCHANGED remote

(* PAS_AUTH_AND_RESET starts the ADSP.                                     *)
auth_and_reset ==
    /\ At("auth")
    /\ \/ /\ Ok("wait") /\ adsp' = TRUE /\ order' \in Orders
          /\ UNCHANGED <<qmp, power, clocks, memory, smp2p, mishaps>>
       \/ (\E f \in Refusals : out_free_metadata(f))
          /\ UNCHANGED <<metadata_ctx, reserved, remote>>
    /\ Keep

-----------------------------------------------------------------------------
(***************************************************************************)
(* qpas_wait_for_start                                                     *)
(***************************************************************************)
InTime == polls < MaxPolls

(* Mutant: the ADSP is left as it is.                                      *)
Dies_LeftRunning ==
    /\ \E f \in Refusals : out_free_metadata(f)
    /\ UNCHANGED <<adsp, proc, metadata_ctx, reserved, smp2p, order, handover_seen>>

(* The ADSP is shut down and not tried again.                              *)
Dies ==
    /\ adsp' = FALSE /\ failed' = TRUE
    /\ \E f \in Refusals : out_free_metadata(f)
    /\ UNCHANGED <<booted, metadata_ctx, reserved, smp2p, order, handover_seen>>

(* Mutant: the handover gives back the power domains only.                 *)
Handover_KeepsClocks ==
    IF "handover" \in smp2p /\ ~handover_seen
    THEN /\ handover_seen' = TRUE /\ UNCHANGED clocks
         /\ \E f \in SUBSET {"vote"} :
               disable_power_domains(f) /\ mishaps' = mishaps \cup f
    ELSE UNCHANGED <<handover_seen, clocks, power, mishaps>>

(* The first handover that is seen gives back the proxy resources.         *)
Handover ==
    IF "handover" \in smp2p /\ ~handover_seen
    THEN /\ handover_seen' = TRUE
         /\ \E f \in SUBSET {"vote", "clk"} :
               disable_clocks(f) /\ disable_power_domains(f) /\ mishaps' = mishaps \cup f
    ELSE UNCHANGED <<handover_seen, clocks, power, mishaps>>

poll_fatal ==
    /\ At("wait") /\ InTime /\ "fatal" \in smp2p
    /\ Dies
    /\ UNCHANGED <<polls, calls, xo_user>>

IsReady == "ready" \in smp2p

(* Ready: the boot is done; what the ADSP needs stays on.                  *)
poll_ready ==
    /\ At("wait") /\ InTime /\ "fatal" \notin smp2p /\ IsReady
    /\ Handover
    /\ booted' = TRUE
    /\ Returns("ok")
    /\ mapped' = FALSE /\ fw' = FALSE /\ free_metadata
    /\ UNCHANGED <<failed, qmp, metadata_ctx, reserved, remote, polls, calls, xo_user>>

(* Mutant: an item that is not there yet is waited for without a timeout.  *)
GoesOn_NoItem == polls' = IF smp2p = {} THEN polls ELSE polls + 1

(* Time passes by 20 ms, whether or not the item is there.                 *)
GoesOn == polls' = polls + 1

poll_again ==
    /\ At("wait") /\ InTime /\ "fatal" \notin smp2p /\ ~IsReady
    /\ Handover /\ GoesOn
    /\ UNCHANGED <<pc, ret, proc, qmp, memory, remote, calls, xo_user>>

poll_times_out ==
    /\ At("wait") /\ ~InTime
    /\ Dies
    /\ UNCHANGED <<polls, calls, xo_user>>

(* The item cannot be read: the wait ends and the ADSP is left alone.      *)
poll_fails ==
    /\ At("wait") /\ InTime
    /\ \E f \in Refusals : out_free_metadata(f \cup {"running"})
    /\ Keep /\ UNCHANGED <<metadata_ctx, reserved, remote>>

-----------------------------------------------------------------------------
(* The ADSP (external) raises its next signals.                            *)
AdspSignals ==
    /\ adsp /\ order # {}
    /\ \E s \in order :
         /\ \A t \in order : s.n <= t.n
         /\ smp2p' = smp2p \cup s.sigs
         /\ order' = order \ {s}
    /\ Keep /\ UNCHANGED <<pc, ret, qmp, power, clocks, memory, adsp, mishaps>>

(* Another driver whose node names XO (UFS, SDHC) is probed, between two   *)
(* calls or by the read of the firmware file, and enables it.              *)
OtherEnablesXo ==
    /\ pc \in {"idle", "fw"}
    /\ xo_on' = TRUE /\ xo_user' = TRUE
    /\ UNCHANGED <<pc, ret, proc, qmp, power, clk_valid, clk_enabled, memory, handover_seen,
                   polls, remote, calls, mishaps>>

Init ==
    /\ pc = "idle" /\ ret = "ok" /\ booted = FALSE /\ failed = FALSE
    /\ qmp = FALSE /\ enabled = 0 /\ votes = {}
    /\ xo_on = FALSE /\ xo_user = FALSE /\ clk_valid = FALSE /\ clk_enabled = FALSE
    /\ mapped = FALSE /\ fw = FALSE /\ meta = 0 /\ metadata_ctx = FALSE
    /\ reserved = FALSE /\ handover_seen = FALSE /\ polls = 0
    /\ adsp = FALSE /\ smp2p = {} /\ order = {} /\ calls = 0 /\ mishaps = {}

BootNext ==
    \/ boot \/ smp2p_init \/ load_state \/ enable_power_domain \/ enable_clocks
    \/ get_memory_region \/ read_firmware \/ init_image \/ load_segments
    \/ auth_and_reset
    \/ poll_fatal \/ poll_ready \/ poll_again \/ poll_times_out

Next == BootNext \/ poll_fails \/ AdspSignals \/ OtherEnablesXo

Spec == Init /\ [][Next]_vars

(* The boot loader runs on; the ADSP need not do anything, and a read that *)
(* fails is not counted on to end the wait.                                *)
FairSpec == Spec /\ WF_vars(BootNext)

-----------------------------------------------------------------------------
TypeOK ==
    /\ pc \in Steps /\ ret \in {"ok", "err"}
    /\ booted \in BOOLEAN /\ failed \in BOOLEAN /\ qmp \in BOOLEAN
    /\ xo_on \in BOOLEAN /\ xo_user \in BOOLEAN
    /\ clk_valid \in BOOLEAN /\ clk_enabled \in BOOLEAN
    /\ mapped \in BOOLEAN /\ fw \in BOOLEAN /\ metadata_ctx \in BOOLEAN
    /\ reserved \in BOOLEAN /\ handover_seen \in BOOLEAN /\ adsp \in BOOLEAN
    /\ meta \in 0 .. MaxCalls
    /\ enabled \in 0 .. Domains /\ votes \subseteq 1 .. Domains
    /\ polls \in 0 .. MaxPolls /\ calls \in 0 .. MaxCalls
    /\ smp2p \subseteq Signals
    /\ mishaps \subseteq Mishaps

(* What a call holds on its way, by the step that is next: the labels rely *)
(* on the flags that say so.  A mishap of an earlier call is accounted for *)
(* where it left something behind.                                         *)
HasLoadState == pc \notin {"idle", "smp2p", "qmp"}
HasClocks == HasLoadState /\ pc \notin {"pd", "clk"}
HasMapping == HasClocks /\ pc # "mem"
HasFile == HasMapping /\ pc # "fw"
HasMetadata == pc \in {"load", "auth", "wait"}

(* The boot itself has XO on. *)
ClocksOn == clk_enabled /\ ~handover_seen

HeldInv ==
    pc # "idle" =>
        /\ ~booted /\ ~failed /\ calls > 0
        /\ HasLoadState => qmp
        /\ ~HasLoadState /\ "qmp" \notin mishaps => ~qmp
        /\ (mapped <=> HasMapping) /\ (fw <=> HasFile)
        /\ mapped => reserved
        /\ metadata_ctx <=> HasMetadata
        /\ ~HasLoadState => enabled = 0
        /\ ~HasClocks => ~clk_enabled /\ ~clk_valid
        /\ (pc = "clk" \/ HasClocks) /\ ~handover_seen => enabled = Domains
        /\ clk_enabled <=> clk_valid
        /\ pc # "wait" => ~handover_seen
        /\ handover_seen => enabled = 0
        /\ 1 .. enabled \subseteq votes
        /\ "vote" \notin mishaps => votes = 1 .. enabled
        /\ "mem_setup" \notin mishaps => meta = IF HasMetadata THEN 1 ELSE 0
        /\ ClocksOn => xo_on
        /\ xo_on => ClocksOn \/ xo_user \/ "clk" \in mishaps
        /\ HasMetadata => meta > 0
        /\ meta < (IF HasMetadata THEN calls + 1 ELSE calls)

(* Between two calls nothing is held, unless the ADSP runs. *)
IdleInv ==
    pc = "idle" /\ ~booted =>
        /\ ~mapped /\ ~fw /\ enabled = 0
        /\ "qmp" \notin mishaps => ~qmp
        /\ "vote" \notin mishaps => votes = {}
        /\ "mem_setup" \notin mishaps => meta = 0
        /\ xo_on => xo_user \/ "clk" \in mishaps
        /\ meta <= calls

(* The ADSP runs while it is waited for and after a boot, and otherwise    *)
(* only if its SMP2P item could not be read.                               *)
RunningInv ==
    /\ pc = "wait" => adsp
    /\ pc # "wait" /\ ~booted /\ "running" \notin mishaps => ~adsp

(* A call that fails gives everything back, whichever label the failure    *)
(* jumped to (out_free_metadata .. out_qmp_off): the mapping, the file and *)
(* the metadata buffer are gone, and the AOSS load state, the votes for    *)
(* the power domains and the vote for XO are off unless the firmware       *)
(* refused to take them back.                                              *)
FailureReleases ==
    pc = "idle" /\ ret = "err" =>
        /\ ~mapped /\ ~fw /\ enabled = 0
        /\ "qmp" \notin mishaps => ~qmp
        /\ "vote" \notin mishaps => votes = {}
        /\ "mem_setup" \notin mishaps => meta = 0
        /\ xo_on => xo_user \/ "clk" \in mishaps

(* The boot is reported as done only for an ADSP that runs, has said that  *)
(* it is ready, and has its load state on and its carveout reserved.  It   *)
(* has its proxy resources until it has taken over, from the release of    *)
(* its reset on; then the boot loader's own votes keep nothing on          *)
(* (qpas_wait_for_start).                                                  *)
BootedHolds ==
    /\ booted => adsp /\ "ready" \in smp2p /\ qmp /\ reserved /\ ~failed /\ ~mapped /\ ~fw
    /\ (booted \/ pc = "wait") /\ ~handover_seen =>
          enabled = Domains /\ votes = 1 .. Domains /\ (clk_enabled => xo_on)
    /\ booted /\ handover_seen =>
          /\ enabled = 0
          /\ "vote" \notin mishaps => votes = {}
          /\ xo_on => xo_user \/ "clk" \in mishaps
    /\ booted /\ "mem_setup" \notin mishaps => meta = 0

(* What a call took is given back when it fails, and held by an ADSP that  *)
(* runs when it succeeds, over any sequence of calls that fail at any      *)
(* step; the failures that leave something behind are told apart.          *)
ResourcesBalanced == FailureReleases /\ BootedHolds

(* The inductive invariant behind the two properties of the boot. *)
AdspInv ==
    /\ TypeOK /\ HeldInv /\ IdleInv /\ BootedHolds /\ RunningInv
    /\ booted => pc = "idle" /\ ret = "ok" /\ meta <= calls
    /\ order \subseteq UNION Orders

(* The firmware's segments are never written into the memory of an ADSP    *)
(* that runs (load_segments, qpas_wait_for_start, qcom_q6v5_pas_boot),     *)
(* unless its SMP2P item could not be read in an earlier call.             *)
NeverLoadsOverRunning ==
    pc \in {"init", "load", "auth"} /\ "running" \notin mishaps => ~adsp

(* Every call returns, whatever the ADSP does or leaves undone.            *)
BootReturns == pc # "idle" ~> pc = "idle"
=============================================================================
