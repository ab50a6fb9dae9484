----------------------------- MODULE EnvRedund ------------------------------
(***************************************************************************)
(* The redundant environment of env/mmc.c and env/common.c: two copies on  *)
(* the device, each with a checksum of its data and a serial number (the   *)
(* "flags" byte), written in turn by saveenv.  A copy is larger than what  *)
(* the device writes at once: here it has two parts, the first with        *)
(* checksum and serial.  Power may fail between any two steps, and the     *)
(* device may report an error.                                             *)
(*                                                                         *)
(* The checksum is modelled by the data it was computed from: a copy is    *)
(* accepted exactly when its data is that.                                 *)
(***************************************************************************)
EXTENDS Integers

CONSTANTS
    Half,           \* what one of the two parts may hold
    None,           \* the checksum of an area that was never written
    SerialMod,      \* the serial is a byte: 256
    InOrder,        \* the device always writes the parts of a copy in order
    WriteMayFail,   \* the device may fail a write or an erase
    ReadFaults,     \* the sets of copies a load may fail to read
    CanErase,       \* "env erase" is available
    BlankStart      \* the device may hold no environment at all

Content == Half \X Half

ASSUME EnvAssumption ==
    /\ SerialMod \in Nat /\ SerialMod > 2
    /\ None \notin Content
    /\ InOrder \in BOOLEAN /\ WriteMayFail \in BOOLEAN
    /\ CanErase \in BOOLEAN /\ BlankStart \in BOOLEAN
    /\ ReadFaults \subseteq SUBSET {1, 2}
    /\ {} \in ReadFaults
    /\ Half # {}

Default == CHOOSE c \in Content : TRUE

VARIABLES
    disk,       \* the two copies
    env,        \* env_htab
    env_valid,  \* gd->env_valid
    env_flags,  \* the serial last read or exported
    pc,         \* "off", "idle", "write" (saveenv) or "erase"
    new,        \* the exported copy saveenv is writing
    todo,       \* parts of it still to be written, or copies to be erased
    saved,      \* history: what the last save stored, if it returned 0
    upsets      \* history: what the device met besides saves and power loss

vars == <<disk, env, env_valid, env_flags, pc, new, todo, saved, upsets>>

Serial == 0 .. SerialMod - 1
Copy == [crc : Content \cup {None}, flags : Serial, head : Half, tail : Half]

Whole(c, f) == [crc |-> c, flags |-> f, head |-> c[1], tail |-> c[2]]
Blank == [Whole(Default, 0) EXCEPT !.crc = None]

-----------------------------------------------------------------------------
(* Selecting a copy. *)

crc_ok_Unchecked(d, i) == d[i].crc # None                       \* mutant
crc_ok(d, i) == d[i].crc = <<d[i].head, d[i].tail>>

(* Both copies are good: the serial decides, and 0 follows the largest. *)
CheckSerial_NoWrap(f1, f2) == IF f2 > f1 THEN "REDUND" ELSE "VALID"     \* mutant
CheckSerial(f1, f2) ==
    IF f1 = SerialMod - 1 /\ f2 = 0 THEN "REDUND"
    ELSE IF f2 = SerialMod - 1 /\ f1 = 0 THEN "VALID"
    ELSE IF f2 > f1 THEN "REDUND"
    ELSE "VALID"

(* env_check_redund, when not both reads failed. *)
env_check_redund(d, failed) ==
    LET ok(i) == i \notin failed /\ crc_ok(d, i)
    IN  IF ok(1) /\ ok(2) THEN CheckSerial(d[1].flags, d[2].flags)
        ELSE IF ok(1) THEN "VALID"
        ELSE IF ok(2) THEN "REDUND"
        ELSE "INVALID"

Chosen(v) == IF v = "VALID" THEN 1 ELSE 2
Data(c) == <<c.head, c.tail>>

(* What a load with no read error finds. *)
Stored ==
    LET v == env_check_redund(disk, {})
    IN  IF v = "INVALID" THEN None ELSE Data(disk[Chosen(v)])

(* env_mmc_load and env_import_redund, with valid and flags the values of  *)
(* gd->env_valid and env_flags before.  An import that fails, for want of  *)
(* memory, leaves the default environment and the rest as it was found.    *)
env_mmc_load(valid, flags) ==
    \E failed \in ReadFaults :
        LET v == IF failed = {1, 2} THEN valid ELSE env_check_redund(disk, failed)
            found == failed # {1, 2} /\ v # "INVALID"
        IN  /\ env_valid' = v
            /\ env' \in {Default} \cup (IF found THEN {Data(disk[Chosen(v)])} ELSE {})
            /\ env_flags' = IF found THEN disk[Chosen(v)].flags ELSE flags
            /\ upsets' = IF failed = {} THEN upsets ELSE upsets \cup {"read"}

-----------------------------------------------------------------------------
Init ==
    /\ \E c1, c2 \in Content, f \in Serial :
        \/ /\ disk \in {<<Whole(c1, f), Blank>>, <<Blank, Whole(c2, f)>>,
                        <<Whole(c1, f), Whole(c1, f)>>}
           /\ upsets = {}
        \/ /\ BlankStart
           /\ disk = <<Blank, Blank>>
           /\ upsets = {"blank"}
    /\ env = Default /\ env_valid = "VALID" /\ env_flags = 0
    /\ pc = "off" /\ new = Blank /\ todo = {}
    /\ saved = None

(* env_init leaves ENV_VALID, env_relocate loads. *)
Boot ==
    /\ pc = "off"
    /\ env_mmc_load("VALID", 0)
    /\ pc' = "idle"
    /\ UNCHANGED <<disk, new, todo, saved>>

(* env_reload: "env load" on the command line. *)
env_reload ==
    /\ pc = "idle"
    /\ env_mmc_load(env_valid, env_flags)
    /\ UNCHANGED <<disk, pc, new, todo, saved>>

SetEnv ==
    /\ pc = "idle"
    /\ env' \in Content
    /\ UNCHANGED <<disk, env_valid, env_flags, pc, new, todo, saved, upsets>>

(* env_mmc_save up to the write: env_export increases the serial, and the  *)
(* copy that is not the valid one will be written.                         *)
NextSerial == (env_flags + 1) % SerialMod

Target_Same == IF env_valid = "VALID" THEN 1 ELSE 2     \* mutant
Target == IF env_valid = "VALID" THEN 2 ELSE 1

SaveBegin ==
    /\ pc = "idle"
    /\ env_flags' = NextSerial
    /\ new' = Whole(env, NextSerial)
    /\ pc' = "write"
    /\ todo' = {"head", "tail"}
    /\ saved' = None
    /\ UNCHANGED <<disk, env, env_valid, upsets>>

(* write_env, part by part *)
WritePart(part) ==
    /\ pc = "write" /\ part \in todo
    /\ InOrder /\ part = "tail" => "head" \notin todo
    /\ todo' = todo \ {part}
    /\ disk' = IF part = "head"
               THEN [disk EXCEPT ![Target] = [new EXCEPT !.tail = disk[Target].tail]]
               ELSE [disk EXCEPT ![Target].tail = new.tail]
    /\ upsets' = IF part = "tail" /\ "head" \in todo THEN upsets \cup {"order"} ELSE upsets
    /\ UNCHANGED <<env, env_valid, env_flags, pc, new, saved>>

Toggle_Never == env_valid                               \* mutant
Toggle == IF env_valid = "REDUND" THEN "VALID" ELSE "REDUND"

SaveDone ==
    /\ pc = "write" /\ todo = {}
    /\ env_valid' = Toggle
    /\ pc' = "idle"
    /\ saved' = Data(new)
    /\ UNCHANGED <<disk, env, env_flags, new, todo, upsets>>

(* The write fails: some parts may have been written; the serial stays     *)
(* increased.                                                              *)
SaveFail ==
    /\ WriteMayFail
    /\ pc = "write"
    /\ pc' = "idle"
    /\ todo' = {}
    /\ upsets' = upsets \cup {"write"}
    /\ UNCHANGED <<disk, env, env_valid, env_flags, new, saved>>

(* env_mmc_erase: copy 1, then copy 2 even if the first failed; nothing in *)
(* memory changes.                                                         *)
EraseBegin ==
    /\ CanErase
    /\ pc = "idle"
    /\ pc' = "erase"
    /\ todo' = {1, 2}
    /\ saved' = None
    /\ upsets' = upsets \cup {"erase"}
    /\ UNCHANGED <<disk, env, env_valid, env_flags, new>>

EraseCopy(i) ==
    /\ pc = "erase" /\ i \in todo /\ \A j \in todo : i <= j
    /\ todo' = todo \ {i}
    /\ pc' = IF todo' = {} THEN "idle" ELSE "erase"
    /\ \/ disk' = [disk EXCEPT ![i] = Blank]
       \/ WriteMayFail /\ UNCHANGED disk
    /\ UNCHANGED <<env, env_valid, env_flags, new, saved, upsets>>

(* Power loss, or a reset, at any point. *)
PowerLoss ==
    /\ pc # "off"
    /\ pc' = "off"
    /\ env' = Default /\ env_valid' = "VALID" /\ env_flags' = 0
    /\ new' = Blank /\ todo' = {}
    /\ UNCHANGED <<disk, saved, upsets>>

Next ==
    \/ Boot \/ env_reload \/ SetEnv
    \/ SaveBegin \/ (\E p \in {"head", "tail"} : WritePart(p)) \/ SaveDone \/ SaveFail
    \/ EraseBegin \/ (\E i \in {1, 2} : EraseCopy(i))
    \/ PowerLoss

Spec == Init /\ [][Next]_vars

-----------------------------------------------------------------------------
TypeOK ==
    /\ disk \in [{1, 2} -> Copy] /\ new \in Copy
    /\ env \in Content
    /\ env_valid \in {"INVALID", "VALID", "REDUND"}
    /\ env_flags \in Serial
    /\ pc \in {"off", "idle", "write", "erase"}
    /\ pc \in {"off", "idle"} => todo = {}
    /\ pc = "write" => /\ todo \subseteq {"head", "tail"}
                       /\ InOrder /\ "head" \in todo => "tail" \in todo
    /\ pc = "erase" => todo \subseteq {1, 2}
    /\ saved \in Content \cup {None}
    /\ upsets \subseteq {"blank", "read", "write", "erase", "order"}

(* While the device holds an environment it can load, no save, failed save *)
(* or power loss leaves it without one: env_mmc_save writes the copy that  *)
(* is not needed.  The promise ends with an erase, with a copy that could  *)
(* not be read, and on a device that came without an environment: there    *)
(* the toggle of env_mmc_save names a copy that was never written.         *)
NeverLosesLast ==
    [][upsets' \subseteq {"write", "order"} /\ Stored # None => Stored' # None]_vars

(* An environment whose save returned 0 is the one that is loaded, until   *)
(* the next save or erase begins (env_save, env_check_redund), as long as  *)
(* no write failed and every copy could be read: a failed write uses up a  *)
(* serial, and at the wrap that makes the older copy the newer one.        *)
SavedIsStored ==
    saved # None /\ upsets \subseteq {"blank", "erase", "order"} => Stored = saved

(* What saveenv has exported and how far it is written. *)
WriteInv ==
    pc = "write" =>
        /\ new = Whole(env, env_flags)
        /\ "head" \notin todo => /\ disk[Target].crc = new.crc
                                 /\ disk[Target].flags = new.flags
                                 /\ disk[Target].head = new.head
        /\ "tail" \notin todo => disk[Target].tail = new.tail

(* The valid copy is known and intact.                                     *)
ActiveInv ==
    /\ pc = "off" => \E i \in {1, 2} : crc_ok(disk, i)
    /\ pc # "off" => env_valid # "INVALID" /\ crc_ok(disk, Chosen(env_valid))

(* The serial numbers name the valid copy, also while the other one is     *)
(* half written; the exported serial is the next one.                      *)
SerialInv ==
    /\ pc = "idle" => /\ env_valid = env_check_redund(disk, {})
                      /\ env_flags = disk[Chosen(env_valid)].flags
    /\ pc = "write" =>
          /\ env_flags = (disk[Chosen(env_valid)].flags + 1) % SerialMod
          /\ "head" \in todo => env_valid = env_check_redund(disk, {})

(* The copy a save spares: if it is intact, the serial of the save is the  *)
(* one after its own.  After an erase, or on a new device, it may not be;  *)
(* a load that found nothing leaves copy 2 to be spared, which is empty.   *)
Spared == IF Target = 1 THEN 2 ELSE 1

TurnInv ==
    /\ pc \in {"idle", "erase"} /\ crc_ok(disk, Spared) => env_flags = disk[Spared].flags
    /\ pc = "write" /\ crc_ok(disk, Spared) =>
          env_flags = (disk[Spared].flags + 1) % SerialMod
    /\ pc # "off" /\ env_valid = "INVALID" => ~crc_ok(disk, 2)

(* What env_mmc_load and env_mmc_save rely on: gd->env_valid names an      *)
(* intact copy, also after failed writes; until one fails the serials of   *)
(* the two copies agree with it; and until one fails, after an erase and   *)
(* on a new device too, the next save will be newer than what it spares.   *)
EnvInv ==
    /\ TypeOK /\ WriteInv
    /\ pc = "erase" => "erase" \in upsets
    /\ saved # None => pc \in {"off", "idle"}
    /\ upsets \subseteq {"write", "order"} => ActiveInv
    /\ upsets = {} => SerialInv
    /\ upsets \subseteq {"blank", "erase", "order"} => TurnInv

(* The two copies are one register that survives power loss: saves take    *)
(* effect at one instant, and only saves change what is loaded, up to the  *)
(* first upset of the device.  Parts written out of order are one: the     *)
(* tail of a save can complete a copy that an interrupted save left.       *)
Store == INSTANCE EnvStore WITH
            stored <- Stored,
            state <- IF pc = "off" THEN "off"
                     ELSE IF pc = "write" THEN "saving" ELSE "ready"

ImplementsStore ==
    /\ upsets = {} => Store!Init
    /\ [][upsets' = {} => Store!Next]_(Store!vars)
=============================================================================
