----------------------------- MODULE AndroidAb ------------------------------
(***************************************************************************)
(* A/B slot selection: ab_select_slot of boot/android_ab.c and its two     *)
(* uses by boot/bootmeth_android.c, one to find the images of a slot and   *)
(* one, which counts the attempt, to boot it, after the images of the      *)
(* first slot were verified.  The metadata is kept twice on the device;    *)
(* the update engine of the running system, which is external, rewrites    *)
(* the first copy.  A copy whose checksum is wrong is the value Bad.       *)
(*                                                                         *)
(* Power may fail at any step.  The device may fail too: only an error     *)
(* code ends a selection, and a transfer that fails on MMC, the one device *)
(* android_check accepts, returns 0 blocks instead.  A read that failed    *)
(* leaves a buffer that was never written, whose checksum is wrong; a      *)
(* write that failed passes for one that was done.                         *)
(***************************************************************************)
EXTENDS Integers

CONSTANTS
    NumSlots,       \* slots in the metadata
    MaxTries,       \* tries_remaining of a fresh slot: 7
    MaxPriority,    \* priority of a fresh slot: 15
    HasBackup,      \* CONFIG_ANDROID_AB_BACKUP_OFFSET is not 0
    DeviceMayFail,  \* the device may fail a transfer
    GoodImage,      \* slots whose images are found and verify
    OsKeepsTry,     \* the system leaves a slot it marks successful a try
    MaxInstalls,    \* bound on the updates the system installs
    MaxTorn,        \* bound on the writes interrupted half way and the reads
                    \* that fail
    MaxLost         \* bound on the writes that fail and change nothing

(* ARRAY_SIZE(abc->slot_info); a larger nb_slot is cut down to it. *)
MaxSlots == 4

ASSUME AbAssumption ==
    /\ NumSlots \in 1 .. MaxSlots /\ MaxTries \in Nat \ {0} /\ MaxPriority \in Nat \ {0}
    /\ HasBackup \in BOOLEAN /\ DeviceMayFail \in BOOLEAN /\ OsKeepsTry \in BOOLEAN
    /\ MaxInstalls \in Nat /\ MaxTorn \in Nat /\ MaxLost \in Nat
    /\ GoodImage \subseteq 1 .. NumSlots

VARIABLES
    primary,        \* the metadata at offset 0
    backup,         \* the metadata at the backup offset
    abc,            \* the copy ab_select_slot works on
    backup_stale,   \* backup_abc, as it was read, is not abc
    pc,             \* where U-Boot is, or "os" or "off"
    count,          \* dec_tries
    slot,           \* the slot selected, 0 for none
    pslot,          \* priv->slot of the bootflow, 0 once it is freed
    verified,       \* the slot whose images the last boot verified
    failed,         \* history: what failed since the scan began, "io" for a
                    \* transfer and "boot" for a boot of the bootflow
    attempts,       \* history: boots of each slot since it was installed, while
                    \* it was not known to be good, up to one too many
    installs,       \* history: updates installed
    torn,           \* history: writes interrupted half way, reads that failed
    lost            \* history: writes that failed unnoticed and changed nothing

disk == <<primary, backup>>
history == <<attempts, installs>>
vars == <<disk, abc, backup_stale, pc, count, slot, pslot, verified, failed,
          history, torn, lost>>

Slot == 1 .. NumSlots
Meta == [priority : 0 .. MaxPriority, tries_remaining : 0 .. MaxTries,
         successful_boot : BOOLEAN, verity_corrupted : BOOLEAN]
Control == [slot_suffix : Slot, slot_info : [Slot -> Meta]]
Bad == [slot_suffix |-> 0]

Fresh == [priority |-> MaxPriority, tries_remaining |-> MaxTries,
          successful_boot |-> FALSE, verity_corrupted |-> FALSE]

ab_control_default == [slot_suffix |-> 1, slot_info |-> [s \in Slot |-> Fresh]]

(* What a selection starts from, of the copies it read: the backup is     *)
(* asked when the checksum of the first copy is wrong.                     *)
Loaded_NoBackup(rp, rb) == IF rp # Bad THEN rp ELSE ab_control_default  \* mutant
Loaded(rp, rb) ==
    IF rp # Bad THEN rp
    ELSE IF HasBackup /\ rb # Bad THEN rb
    ELSE ab_control_default

(* blk_dread of a copy: what is there, or a buffer whose checksum is wrong. *)
Read(c) == {c} \cup (IF DeviceMayFail THEN {Bad} ELSE {})

-----------------------------------------------------------------------------
(* ab_compare_slots: a is better than b. *)
Better(a, b) ==
    IF a.priority # b.priority THEN a.priority > b.priority
    ELSE IF a.successful_boot # b.successful_boot THEN a.successful_boot
    ELSE a.tries_remaining > b.tries_remaining

Bootable(m) == ~m.verity_corrupted /\ m.tries_remaining # 0

(* The loop over the slots, from the first one; slot_info has MaxSlots     *)
(* entries.                                                                *)
Pick(info, sel, i) ==
    IF i <= NumSlots /\ Bootable(info[i]) /\ (sel = 0 \/ Better(info[i], info[sel]))
    THEN i
    ELSE sel

SelectLoop(info) ==
    LET s1 == Pick(info, 0, 1)
        s2 == Pick(info, s1, 2)
        s3 == Pick(info, s2, 3)
    IN  Pick(info, s3, MaxSlots)

(* An attempt of a slot that is not known to be good costs a try.          *)
CountTry_Never(c, s, dec) == c                                  \* mutant
CountTry_Always(c, s, dec) ==                                   \* mutant
    IF s # 0 /\ ~c.slot_info[s].successful_boot
    THEN [c EXCEPT !.slot_info[s].tries_remaining = @ - 1]
    ELSE c
CountTry(c, s, dec) ==
    IF s # 0 /\ dec /\ ~c.slot_info[s].successful_boot
    THEN [c EXCEPT !.slot_info[s].tries_remaining = @ - 1]
    ELSE c

SetSuffix(c, s) == IF s # 0 THEN [c EXCEPT !.slot_suffix = s] ELSE c

(* Once the primary is as it should be: the backup is written when it was  *)
(* read different.                                                         *)
CheckBackup(stale) == IF stale THEN "store_backup" ELSE "selected"

(* ab_select_slot up to its first write, when rp and rb were read. *)
ab_select_slot(dec, rp, rb) ==
    LET from == Loaded(rp, rb)
        s == SelectLoop(from.slot_info)
        c == SetSuffix(CountTry(from, s, dec), s)
    IN  /\ slot' = s
        /\ abc' = c
        /\ count' = dec
        /\ backup_stale' = (HasBackup /\ rb # c)
        /\ pc' = IF c # rp THEN "store_primary" ELSE CheckBackup(backup_stale')
        /\ torn' = torn + (IF rp # primary THEN 1 ELSE 0) + (IF rb # backup THEN 1 ELSE 0)
        /\ torn' <= MaxTorn
        /\ UNCHANGED <<disk, history, lost>>

(* A read that failed is remembered. *)
Misread(rp, rb) == IF rp # primary \/ rb # backup THEN {"io"} ELSE {}

-----------------------------------------------------------------------------
(* U-Boot. *)

(* android_read_bootflow: may be repeated, the first selection counts no   *)
(* attempt.                                                                *)
Scan ==
    /\ pc \in {"off", "prompt", "scanned"}
    /\ \E rp \in Read(primary), rb \in Read(backup) :
          /\ ab_select_slot(FALSE, rp, rb)
          /\ failed' = Misread(rp, rb)
    /\ pslot' = 0 /\ verified' = 0

(* boot_android_normal: verify the images of the slot found, or of any     *)
(* where its name was freed, then read the slot again, now counting the    *)
(* attempt.  A bootflow that could not be booted may be booted again.      *)
BootFlow ==
    /\ pc = "scanned"
    /\ verified' \in GoodImage /\ (pslot # 0 => verified' = pslot)
    /\ \E rp \in Read(primary), rb \in Read(backup) :
          /\ ab_select_slot(TRUE, rp, rb)
          /\ failed' = failed \cup Misread(rp, rb)
    /\ UNCHANGED pslot

(* An error of blk_dread ends the selection: the scan finds no bootflow, a *)
(* boot leaves everything as it is.                                        *)
ReadError ==
    /\ DeviceMayFail
    /\ pc \in {"off", "scanned"} /\ pc' = "prompt"
    /\ UNCHANGED <<disk, abc, backup_stale, count, slot, pslot, verified, failed,
                   history, torn, lost>>

(* A write is cut short. *)
Interrupt ==
    IF pc \in {"primary_torn", "backup_torn"}
    THEN torn < MaxTorn /\ torn' = torn + 1
    ELSE UNCHANGED torn

(* ab_control_store: the block is no longer what it was, then it is new.   *)
Overwrite ==
    \/ /\ pc = "store_primary" /\ pc' = "primary_torn"
       /\ primary' = Bad /\ UNCHANGED backup
    \/ /\ pc = "store_backup" /\ pc' = "backup_torn"
       /\ backup' = Bad /\ UNCHANGED primary

Written ==
    \/ /\ pc = "primary_torn" /\ pc' = CheckBackup(backup_stale)
       /\ primary' = abc /\ UNCHANGED backup
    \/ /\ pc = "backup_torn" /\ pc' = "selected"
       /\ backup' = abc /\ UNCHANGED primary

Store == (Overwrite \/ Written)
         /\ UNCHANGED <<abc, backup_stale, count, slot, pslot, verified, failed,
                        history, torn, lost>>

(* A write that fails is not noticed: the selection goes on, and the block *)
(* is what it was or half written.                                         *)
StoreFail ==
    /\ DeviceMayFail
    /\ \/ pc \in {"store_primary", "primary_torn"} /\ pc' = CheckBackup(backup_stale)
       \/ pc \in {"store_backup", "backup_torn"} /\ pc' = "selected"
    /\ Interrupt
    /\ IF pc \in {"store_primary", "store_backup"}
       THEN lost < MaxLost /\ lost' = lost + 1
       ELSE UNCHANGED lost
    /\ failed' = failed \cup {"io"}
    /\ UNCHANGED <<disk, abc, backup_stale, count, slot, pslot, verified, history>>

(* An error of blk_dwrite ends the selection before anything is written. *)
StoreError ==
    /\ DeviceMayFail
    /\ pc \in {"store_primary", "store_backup"}
    /\ pc' = IF count THEN "scanned" ELSE "prompt"
    /\ failed' = failed \cup {"io"}
    /\ UNCHANGED <<disk, abc, backup_stale, count, slot, pslot, verified,
                   history, torn, lost>>

(* ab_select_slot returns to the scan: the images of the slot are found,   *)
(* or they are not.                                                        *)
ScanDone ==
    /\ pc = "selected" /\ ~count
    /\ IF slot \in GoodImage THEN pc' = "scanned" /\ pslot' = slot
                             ELSE pc' = "prompt" /\ UNCHANGED pslot
    /\ UNCHANGED <<disk, abc, backup_stale, count, slot, verified, failed,
                   history, torn, lost>>

(* ... or to the boot, which starts the slot; without a slot the boot ends *)
(* and the bootflow is as it was.                                          *)
StartOs ==
    /\ pc = "selected" /\ count
    /\ IF slot = 0
       THEN /\ pc' = "scanned" /\ failed' = failed \cup {"boot"}
            /\ UNCHANGED <<pslot, attempts>>
       ELSE /\ pc' = "os" /\ pslot' = 0 /\ UNCHANGED failed
            /\ attempts' = [attempts EXCEPT ![slot] =
                  IF abc.slot_info[slot].successful_boot \/ @ > MaxTries + MaxLost
                  THEN @ ELSE @ + 1]
    /\ UNCHANGED <<disk, abc, backup_stale, count, slot, verified, installs, torn, lost>>

(* The images of the slot cannot be read, or bootm fails once its name is  *)
(* freed.                                                                  *)
LoadFails ==
    /\ pc = "selected" /\ count /\ slot # 0
    /\ pc' = "scanned"
    /\ pslot' \in {slot, 0}
    /\ failed' = failed \cup {"boot"}
    /\ UNCHANGED <<disk, abc, backup_stale, count, slot, verified, history, torn, lost>>

-----------------------------------------------------------------------------
(* The running system and the power supply. *)

OsWrite(c) ==
    /\ pc = "os" /\ primary # Bad
    /\ primary' = c
    /\ UNCHANGED <<backup, abc, backup_stale, pc, count, slot, pslot, verified, failed,
                   torn, lost>>

OsMarkSuccessful ==
    /\ OsWrite([primary EXCEPT
          !.slot_info[slot].successful_boot = TRUE,
          !.slot_info[slot].tries_remaining = IF OsKeepsTry /\ @ = 0 THEN 1 ELSE @])
    /\ UNCHANGED <<attempts, installs>>

OsMarkCorrupted ==
    /\ OsWrite([primary EXCEPT !.slot_info[slot].verity_corrupted = TRUE])
    /\ UNCHANGED <<attempts, installs>>

(* An update goes to a slot that is not running; the running one steps     *)
(* back in priority.                                                       *)
OsInstall(s) ==
    /\ s # slot /\ installs < MaxInstalls
    /\ OsWrite([primary EXCEPT !.slot_info[s] = Fresh,
                               !.slot_info[slot].priority = MaxPriority - 1])
    /\ attempts' = [attempts EXCEPT ![s] = 0]
    /\ installs' = installs + 1

PowerLoss ==
    /\ pc # "off"
    /\ pc' = "off"
    /\ \/ Interrupt /\ UNCHANGED primary
       \/ /\ pc = "os" /\ primary' = Bad   \* while the system was writing it
          /\ torn < MaxTorn /\ torn' = torn + 1
    /\ abc' = Bad /\ backup_stale' = FALSE /\ count' = FALSE /\ slot' = 0
    /\ pslot' = 0 /\ verified' = 0 /\ failed' = {}
    /\ UNCHANGED <<backup, history, lost>>

-----------------------------------------------------------------------------
(* A device from the factory, or one in use. *)
Init ==
    /\ primary = [slot_suffix |-> 1, slot_info |-> [s \in Slot |->
                     IF s = 1 THEN [Fresh EXCEPT !.successful_boot = TRUE]
                     ELSE [Fresh EXCEPT !.priority = 0, !.tries_remaining = 0]]]
    /\ backup = primary
    /\ abc = Bad /\ backup_stale = FALSE /\ pc = "off" /\ count = FALSE
    /\ slot = 0 /\ pslot = 0 /\ verified = 0 /\ failed = {}
    /\ attempts = [s \in Slot |-> 0] /\ installs = 0 /\ torn = 0 /\ lost = 0

Next ==
    \/ Scan \/ BootFlow \/ ReadError \/ Store \/ StoreFail \/ StoreError
    \/ ScanDone \/ StartOs \/ LoadFails
    \/ OsMarkSuccessful \/ OsMarkCorrupted \/ (\E s \in Slot : OsInstall(s))
    \/ PowerLoss

Spec == Init /\ [][Next]_vars

-----------------------------------------------------------------------------
(* Within ab_select_slot. *)
Selecting == {"store_primary", "primary_torn", "store_backup", "backup_torn", "selected"}

(* The slot is marked successful in the metadata. *)
KnownGood(s) == Loaded(primary, backup).slot_info[s].successful_boot

(* A reset is followed by a boot; power stays on and the device works      *)
(* often enough for each step of a boot to be taken some time; a system    *)
(* that does not come up is reset.                                         *)
SelectStep == Store \/ ScanDone \/ StartOs

FairSpec ==
    /\ Spec
    /\ WF_vars(Scan) /\ SF_vars(BootFlow) /\ WF_vars(Written /\ Store)
    /\ \A dec \in BOOLEAN, p \in {"store_primary", "store_backup", "selected"} :
          SF_vars(count = dec /\ pc = p /\ SelectStep)
    /\ WF_vars(PowerLoss /\ pc = "os" /\ ~KnownGood(slot))

-----------------------------------------------------------------------------
TypeOK ==
    /\ primary \in Control \cup {Bad} /\ backup \in Control \cup {Bad}
    /\ abc \in Control \cup {Bad} /\ backup_stale \in BOOLEAN
    /\ pc \in {"off", "prompt", "scanned", "os"} \cup Selecting
    /\ count \in BOOLEAN /\ slot \in 0 .. NumSlots
    /\ pslot \in 0 .. NumSlots /\ verified \in 0 .. NumSlots
    /\ failed \subseteq {"io", "boot"}
    /\ attempts \in [Slot -> 0 .. MaxTries + MaxLost + 1] /\ installs \in 0 .. MaxInstalls
    /\ torn \in 0 .. MaxTorn /\ lost \in 0 .. MaxLost

(* An update that never proves good is started at most MaxTries times,     *)
(* wherever power fails, and once more for each write that failed          *)
(* unnoticed: going back to the older copy, or booting the bootflow again, *)
(* does not give back tries that were used.                                *)
NoExtraTries ==
    HasBackup /\ pc \in {"off", "os"} =>
        LET info == Loaded(primary, backup).slot_info
        IN  \A s \in Slot :
               ~info[s].successful_boot
                  => attempts[s] + info[s].tries_remaining <= MaxTries + lost

(* The slot that is started is the one whose images were verified,         *)
(* although the slot is selected again in between (boot_android_normal),   *)
(* when no transfer failed and the bootflow is booted for the first time.  *)
BootsVerifiedSlot == pc = "os" /\ failed = {} => slot = verified

(* The running system finds both copies of the metadata valid and, until   *)
(* it writes, equal, unless a transfer failed in this boot: what it is     *)
(* about to lose by a torn write of its own is in the backup.              *)
BackupFollows == HasBackup /\ pc = "os" /\ "io" \notin failed => backup = abc

(* No slot is refused that is not corrupted and either has tries left or   *)
(* is known to be good (the comment in ab_select_slot).                    *)
SuccessfulIsBootable ==
    pc = "selected" /\ slot = 0 =>
        \A s \in Slot : LET m == abc.slot_info[s]
                        IN  m.verity_corrupted
                            \/ (m.tries_remaining = 0 /\ ~m.successful_boot)

(* What ab_select_slot promises to those who call it: the slot verified is *)
(* the slot started and the system starts from two equal copies, unless    *)
(* something failed since the scan, and no slot is refused that could be   *)
(* booted, when the system leaves a slot it marks successful a try.        *)
SelectionInv ==
    TypeOK /\ BootsVerifiedSlot /\ BackupFollows /\ (OsKeepsTry => SuccessfulIsBootable)

-----------------------------------------------------------------------------
(***************************************************************************)
(* The inductive invariant behind SelectionInv and NoExtraTries.           *)
(***************************************************************************)

(* Which copies are valid, and which agree, at each step of a selection;   *)
(* a backup that need not be written is equal.                             *)
PlaceInv ==
    /\ pc \in Selecting \cup {"scanned", "os"} => abc # Bad
    /\ pc = "primary_torn" => primary = Bad
    /\ pc = "backup_torn" => backup = Bad
    /\ HasBackup /\ pc \in {"store_primary", "primary_torn"} /\ ~backup_stale
          => backup = abc
    /\ pc \in {"store_backup", "backup_torn", "selected"} /\ "io" \notin failed
          => primary = abc
    /\ pc = "scanned" /\ failed = {} => primary = abc
    /\ HasBackup /\ pc \in {"selected", "os"} /\ "io" \notin failed => backup = abc

(* The choice depends on slot_info only, which a scan leaves as it is. *)
ChoiceInv ==
    /\ pc \in Selecting /\ (~count \/ slot = 0) => slot = SelectLoop(abc.slot_info)
    /\ pc = "scanned" /\ failed = {}
          => slot = SelectLoop(abc.slot_info) /\ slot # 0 /\ slot = pslot
    /\ pc = "os" => slot # 0
    /\ (pc = "os" \/ (pc \in Selecting /\ count)) /\ failed = {} => slot # 0 /\ slot = verified

(* A slot that is marked successful keeps a try. *)
KeepsTry(c) ==
    c # Bad => \A s \in Slot : c.slot_info[s].successful_boot => c.slot_info[s].tries_remaining # 0

KeepsTryInv == OsKeepsTry => KeepsTry(primary) /\ KeepsTry(backup) /\ KeepsTry(abc)

(* One torn write, or one failed read, leaves one valid copy. *)
TornInv ==
    HasBackup /\ MaxTorn <= 1 =>
        /\ primary = Bad /\ pc # "primary_torn" => torn = 1
        /\ backup = Bad /\ pc # "backup_torn" => torn = 1
        /\ primary = Bad /\ backup = Bad => pc \in {"primary_torn", "backup_torn"} /\ torn = 1

(* No copy grants more tries than are left, whichever of them holds the    *)
(* try that the boot under way costs.                                      *)
Within(c, s, spent) ==
    ~c.slot_info[s].successful_boot
        => attempts[s] + spent + c.slot_info[s].tries_remaining <= MaxTries + lost

Spent(s) == IF count /\ s = slot /\ ~abc.slot_info[s].successful_boot THEN 1 ELSE 0

PrimarySpent(s) == IF pc \in {"store_backup", "backup_torn", "selected"} THEN Spent(s) ELSE 0
BackupSpent(s) == IF pc = "selected" THEN Spent(s) ELSE 0

TriesInv ==
    HasBackup /\ MaxTorn <= 1 =>
        /\ primary # Bad => \A s \in Slot : Within(primary, s, PrimarySpent(s))
        /\ backup # Bad => \A s \in Slot : Within(backup, s, BackupSpent(s))
        /\ pc \in Selecting => \A s \in Slot : Within(abc, s, Spent(s))

AbInv == TypeOK /\ PlaceInv /\ ChoiceInv /\ KeepsTryInv /\ TornInv /\ TriesInv

-----------------------------------------------------------------------------
(* As long as some slot is known to be good, a good slot is running again  *)
(* and again: the tries of a bad update are used up and the device falls   *)
(* back to the other slot.                                                 *)
Good(s) == KnownGood(s) /\ Bootable(Loaded(primary, backup).slot_info[s])

RollsBack ==
    []<>(\/ pc = "os" /\ KnownGood(slot)
         \/ ~ \E s \in Slot : Good(s))
=============================================================================
