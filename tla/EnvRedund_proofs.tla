-------------------------- MODULE EnvRedund_proofs --------------------------
(***************************************************************************)
(* Proofs about the redundant environment, for every content, every size   *)
(* of the serial number and every combination of faults of the device.     *)
(***************************************************************************)
EXTENDS EnvRedund, TLAPS

(* What a part of Content is; None is no content. *)
LEMMA ContentParts ==
  /\ \A h, t \in Half : <<h, t>> \in Content /\ <<h, t>> # None
  /\ Default \in Content /\ Default[1] \in Half /\ Default[2] \in Half
  /\ \A c \in Content : c[1] \in Half /\ c[2] \in Half /\ c = <<c[1], c[2]>>
  <1>1. \A h, t \in Half : <<h, t>> \in Content /\ <<h, t>> # None
    BY EnvAssumption DEF Content
  <1>2. \E c \in Content : TRUE
    <2> PICK h \in Half : TRUE
      BY EnvAssumption
    <2> QED
      BY <1>1
  <1>3. Default \in Content
    BY <1>2 DEF Default
  <1>4. \A c \in Content : c[1] \in Half /\ c[2] \in Half /\ c = <<c[1], c[2]>>
    BY DEF Content
  <1> QED
    BY <1>1, <1>3, <1>4

(* A whole copy is a copy, and is accepted. *)
LEMMA WholeCopy ==
  ASSUME NEW c \in Content, NEW f \in Serial
  PROVE  /\ Whole(c, f) \in Copy
         /\ Whole(c, f).crc = <<Whole(c, f).head, Whole(c, f).tail>>
         /\ Data(Whole(c, f)) = c
         /\ Whole(c, f).flags = f
  BY ContentParts DEF Whole, Copy, Data

(* A blank area is a copy, and is refused. *)
LEMMA BlankCopy ==
  /\ Blank \in Copy
  /\ Blank.crc # <<Blank.head, Blank.tail>>
  <1>1. 0 \in Serial
    BY EnvAssumption DEF Serial
  <1>2. Blank = [crc |-> None, flags |-> 0, head |-> Default[1], tail |-> Default[2]]
    BY DEF Blank, Whole
  <1> QED
    BY <1>1, <1>2, ContentParts DEF Copy

(* The next serial is a serial, and of a copy and the one after it, in     *)
(* either place, the later one is chosen: also when the serial wraps.      *)
LEMMA NextSerialWins ==
  ASSUME NEW f \in Serial
  PROVE  /\ (f + 1) % SerialMod \in Serial
         /\ CheckSerial(f, (f + 1) % SerialMod) = "REDUND"
         /\ CheckSerial((f + 1) % SerialMod, f) = "VALID"
  <1> USE EnvAssumption DEF Serial
  <1>1. CASE f = SerialMod - 1
    <2>1. (f + 1) % SerialMod = 0
      BY <1>1
    <2> QED
      BY <1>1, <2>1 DEF CheckSerial
  <1>2. CASE f # SerialMod - 1
    <2>1. (f + 1) % SerialMod = f + 1
      BY <1>2
    <2> QED
      BY <1>2, <2>1 DEF CheckSerial
  <1> QED
    BY <1>1, <1>2

(* env_check_redund names an intact copy if there is one. *)
LEMMA CheckFinds ==
  ASSUME NEW d
  PROVE  /\ env_check_redund(d, {}) \in {"INVALID", "VALID", "REDUND"}
         /\ env_check_redund(d, {}) = "INVALID" <=> ~crc_ok(d, 1) /\ ~crc_ok(d, 2)
         /\ env_check_redund(d, {}) # "INVALID" => crc_ok(d, Chosen(env_check_redund(d, {})))
  BY DEF env_check_redund, CheckSerial, Chosen

(* ... so that something is stored exactly when a copy is intact. *)
LEMMA StoredSomething ==
  ASSUME disk \in [{1, 2} -> Copy]
  PROVE  Stored # None <=> crc_ok(disk, 1) \/ crc_ok(disk, 2)
  <1>1. \A i \in {1, 2} : Data(disk[i]) # None
    BY ContentParts DEF Data, Copy
  <1>2. Chosen(env_check_redund(disk, {})) \in {1, 2}
    BY DEF Chosen
  <1> QED
    BY <1>1, <1>2, CheckFinds DEF Stored

(* The copy that is written and the copy that is in use. *)
LEMMA TwoCopies ==
  /\ Target \in {1, 2} /\ Spared \in {1, 2} /\ Spared # Target
  /\ \A v : Chosen(v) \in {1, 2}
  /\ env_valid \in {"VALID", "REDUND"} => Spared = Chosen(env_valid)
  BY DEF Target, Spared, Chosen

-----------------------------------------------------------------------------
(* The invariant holds initially. *)
LEMMA InitEnvInv == Init => EnvInv
  <1> SUFFICES ASSUME Init PROVE EnvInv
    OBVIOUS
  <1> USE EnvAssumption
  <1>1. PICK c1 \in Content, c2 \in Content, f \in Serial :
          \/ /\ disk \in {<<Whole(c1, f), Blank>>, <<Blank, Whole(c2, f)>>,
                          <<Whole(c1, f), Whole(c1, f)>>}
             /\ upsets = {}
          \/ /\ disk = <<Blank, Blank>> /\ upsets = {"blank"}
    BY DEF Init
  <1>2. disk \in [{1, 2} -> Copy]
    BY <1>1, WholeCopy, BlankCopy
  <1>3. 0 \in Serial
    BY DEF Serial
  <1>4. upsets = {} => crc_ok(disk, 1) \/ crc_ok(disk, 2)
    BY <1>1, WholeCopy DEF crc_ok
  <1>5. TypeOK
    BY <1>1, <1>2, <1>3, BlankCopy, ContentParts DEF Init, TypeOK
  <1>6. upsets \subseteq {"write", "order"} => upsets = {}
    BY <1>1
  <1>7. upsets \subseteq {"write", "order"} => ActiveInv
    BY <1>4, <1>6 DEF Init, ActiveInv
  <1>8. upsets = {} => SerialInv
    BY DEF Init, SerialInv
  <1>9. TurnInv
    BY DEF Init, TurnInv
  <1>10. WriteInv /\ saved = None /\ pc = "off"
    BY DEF Init, WriteInv
  <1> QED
    BY <1>5, <1>7, <1>8, <1>9, <1>10 DEF EnvInv

(* A load that met no read error. *)
LEMMA CleanLoad ==
  ASSUME disk \in [{1, 2} -> Copy], NEW valid, NEW flags,
         env_mmc_load(valid, flags), "read" \notin upsets'
  PROVE  /\ env_valid' = env_check_redund(disk, {})
         /\ upsets' = upsets
         /\ env_valid' # "INVALID" =>
              /\ env' \in {Default, Data(disk[Chosen(env_valid')])}
              /\ env_flags' = disk[Chosen(env_valid')].flags
         /\ env_valid' = "INVALID" => env' = Default
  <1>1. PICK failed \in ReadFaults :
          LET v == IF failed = {1, 2} THEN valid ELSE env_check_redund(disk, failed)
              found == failed # {1, 2} /\ v # "INVALID"
          IN  /\ env_valid' = v
              /\ env' \in {Default} \cup (IF found THEN {Data(disk[Chosen(v)])} ELSE {})
              /\ env_flags' = IF found THEN disk[Chosen(v)].flags ELSE flags
              /\ upsets' = IF failed = {} THEN upsets ELSE upsets \cup {"read"}
    BY DEF env_mmc_load
  <1>2. failed = {}
    BY <1>1
  <1>3. failed # {1, 2}
    BY <1>2
  <1> QED
    BY <1>1, <1>2, <1>3

(* Any load keeps the types. *)
LEMMA LoadTypes ==
  ASSUME TypeOK, NEW valid \in {"INVALID", "VALID", "REDUND"}, NEW flags \in Serial,
         env_mmc_load(valid, flags)
  PROVE  /\ env' \in Content
         /\ env_valid' \in {"INVALID", "VALID", "REDUND"}
         /\ env_flags' \in Serial
         /\ upsets' \in {upsets, upsets \cup {"read"}}
         /\ upsets' \subseteq {"blank", "read", "write", "erase", "order"}
  <1>1. PICK failed \in ReadFaults :
          LET v == IF failed = {1, 2} THEN valid ELSE env_check_redund(disk, failed)
              found == failed # {1, 2} /\ v # "INVALID"
          IN  /\ env_valid' = v
              /\ env' \in {Default} \cup (IF found THEN {Data(disk[Chosen(v)])} ELSE {})
              /\ env_flags' = IF found THEN disk[Chosen(v)].flags ELSE flags
              /\ upsets' = IF failed = {} THEN upsets ELSE upsets \cup {"read"}
    BY DEF env_mmc_load
  <1>2. \A i \in {1, 2} : Data(disk[i]) \in Content /\ disk[i].flags \in Serial
    BY ContentParts DEF TypeOK, Copy, Data
  <1>3. env_check_redund(disk, failed) \in {"INVALID", "VALID", "REDUND"}
    BY DEF env_check_redund, CheckSerial
  <1> QED
    BY <1>1, <1>2, <1>3, TwoCopies, ContentParts DEF TypeOK

(* A load, by a boot or by the command, establishes the invariant for the  *)
(* copies that are there.                                                  *)
LEMMA LoadInv ==
  ASSUME EnvInv, pc \in {"off", "idle"}, pc' = "idle",
         NEW valid \in {"INVALID", "VALID", "REDUND"}, NEW flags \in Serial,
         env_mmc_load(valid, flags), UNCHANGED <<disk, new, todo, saved>>
  PROVE  EnvInv'
  <1>0. TypeOK /\ disk \in [{1, 2} -> Copy] /\ todo = {}
    BY DEF EnvInv, TypeOK
  <1>1. TypeOK'
    BY <1>0, LoadTypes DEF TypeOK
  <1>2. WriteInv'
    BY DEF WriteInv
  <1>3. ASSUME upsets' \subseteq {"write", "order"} PROVE ActiveInv'
    <2>1. "read" \notin upsets' /\ upsets' = upsets
      BY <1>0, <1>3, CleanLoad
    <2>2. crc_ok(disk, 1) \/ crc_ok(disk, 2)
      BY <2>1, <1>3, TwoCopies DEF EnvInv, ActiveInv
    <2> QED
      BY <1>0, <2>1, <2>2, CleanLoad, CheckFinds DEF ActiveInv, crc_ok
  <1>4. ASSUME upsets' = {} PROVE SerialInv'
    <2>1. upsets' = upsets /\ env_valid' = env_check_redund(disk, {})
      BY <1>0, <1>4, CleanLoad
    <2>2. env_valid' # "INVALID"
      BY <1>3, <1>4 DEF ActiveInv
    <2> QED
      BY <1>0, <1>4, <2>1, <2>2, CleanLoad DEF SerialInv
  <1>5. ASSUME upsets' \subseteq {"blank", "erase", "order"} PROVE TurnInv'
    <2>1. "read" \notin upsets'
      BY <1>5
    <2>2. /\ env_valid' = env_check_redund(disk, {})
          /\ env_valid' # "INVALID" => env_flags' = disk[Chosen(env_valid')].flags
      BY <1>0, <2>1, CleanLoad
    <2>3. CASE env_valid' = "INVALID"
      <3>1. ~crc_ok(disk', 1) /\ ~crc_ok(disk', 2)
        BY <2>2, <2>3, CheckFinds
      <3>2. Spared' \in {1, 2}
        BY DEF Spared
      <3> QED
        BY <3>1, <3>2 DEF TurnInv
    <2>4. CASE env_valid' # "INVALID"
      <3>1. Spared' = Chosen(env_valid')
        BY <2>2, <2>4, CheckFinds DEF Spared, Target, Chosen
      <3> QED
        BY <2>2, <2>4, <3>1 DEF TurnInv
    <2> QED
      BY <2>3, <2>4
  <1> QED
    BY <1>1, <1>2, <1>3, <1>4, <1>5 DEF EnvInv

(* saveenv exports the environment with the next serial. *)
LEMMA SaveBeginInv == EnvInv /\ SaveBegin => EnvInv'
  <1> SUFFICES ASSUME EnvInv, SaveBegin PROVE EnvInv'
    OBVIOUS
  <1> USE DEF SaveBegin
  <1>0. TypeOK /\ disk \in [{1, 2} -> Copy] /\ env \in Content /\ env_flags \in Serial
    BY DEF EnvInv, TypeOK
  <1>1. NextSerial \in Serial
    BY <1>0, NextSerialWins DEF NextSerial
  <1>2. new' = Whole(env', env_flags') /\ new' \in Copy
    BY <1>0, <1>1, WholeCopy
  <1>3. TypeOK'
    BY <1>0, <1>1, <1>2 DEF TypeOK
  <1>4. WriteInv'
    BY <1>2 DEF WriteInv
  <1>5. upsets' \subseteq {"write", "order"} => ActiveInv'
    BY DEF EnvInv, ActiveInv, crc_ok
  <1>6. upsets' = {} => SerialInv'
    BY DEF EnvInv, SerialInv, NextSerial
  <1>7. upsets' \subseteq {"blank", "erase", "order"} => TurnInv'
    <2>1. Spared' = Spared
      BY DEF Spared, Target
    <2> QED
      BY <2>1 DEF EnvInv, TurnInv, crc_ok, NextSerial
  <1> QED
    BY <1>3, <1>4, <1>5, <1>6, <1>7 DEF EnvInv

(* A part of the copy is written: only the target changes. *)
LEMMA PartEffect ==
  ASSUME TypeOK, NEW part \in {"head", "tail"}, WritePart(part)
  PROVE  /\ disk' \in [{1, 2} -> Copy]
         /\ disk'[Spared] = disk[Spared]
         /\ part = "head" =>
              /\ disk'[Target].crc = new.crc /\ disk'[Target].flags = new.flags
              /\ disk'[Target].head = new.head /\ disk'[Target].tail = disk[Target].tail
         /\ part = "tail" =>
              /\ disk'[Target].crc = disk[Target].crc
              /\ disk'[Target].flags = disk[Target].flags
              /\ disk'[Target].head = disk[Target].head /\ disk'[Target].tail = new.tail
  <1>1. disk \in [{1, 2} -> Copy] /\ new \in Copy
    BY DEF TypeOK
  <1>2. CASE part = "head"
    <2>1. disk' = [disk EXCEPT ![Target] = [new EXCEPT !.tail = disk[Target].tail]]
      BY <1>2 DEF WritePart
    <2>2. [new EXCEPT !.tail = disk[Target].tail] \in Copy
      BY <1>1, TwoCopies DEF Copy
    <2> QED
      BY <1>1, <1>2, <2>1, <2>2, TwoCopies DEF Copy
  <1>3. CASE part = "tail"
    <2>1. disk' = [disk EXCEPT ![Target].tail = new.tail]
      BY <1>3 DEF WritePart
    <2>2. [disk[Target] EXCEPT !.tail = new.tail] \in Copy
      BY <1>1, TwoCopies DEF Copy
    <2> QED
      BY <1>1, <1>3, <2>1, <2>2, TwoCopies DEF Copy
  <1> QED
    BY <1>2, <1>3

LEMMA WritePartInv ==
  ASSUME EnvInv, NEW part \in {"head", "tail"}, WritePart(part)
  PROVE  EnvInv'
  <1>0. TypeOK /\ pc = "write" /\ pc' = "write" /\ part \in todo
          /\ todo' = todo \ {part}
          /\ UNCHANGED <<env, env_valid, env_flags, new, saved>>
    BY DEF EnvInv, WritePart
  <1>u. upsets' = IF part = "tail" /\ "head" \in todo THEN upsets \cup {"order"} ELSE upsets
    BY DEF WritePart
  <1>1. Target' = Target /\ Spared' = Spared /\ disk'[Spared] = disk[Spared]
    BY <1>0, PartEffect DEF Target, Spared
  <1>2. TypeOK'
    <2>1. disk' \in [{1, 2} -> Copy]
      BY <1>0, PartEffect
    <2>2. todo' \subseteq {"head", "tail"}
            /\ (InOrder /\ "head" \in todo' => "tail" \in todo')
      BY <1>0 DEF TypeOK, WritePart
    <2> QED
      BY <1>0, <1>u, <2>1, <2>2 DEF TypeOK
  <1>3. WriteInv'
    BY <1>0, <1>1, PartEffect DEF EnvInv, WriteInv
  <1>4. ASSUME upsets' \subseteq {"write", "order"} PROVE ActiveInv'
    <2>1. ActiveInv
      BY <1>4, <1>u DEF EnvInv
    <2>2. Spared = Chosen(env_valid) /\ env_valid # "INVALID"
      BY <1>0, <2>1, TwoCopies DEF ActiveInv, TypeOK
    <2> QED
      BY <1>0, <1>1, <2>1, <2>2 DEF ActiveInv, crc_ok
  <1>5. ASSUME upsets' = {} PROVE SerialInv'
    <2>1. ActiveInv /\ SerialInv /\ ~(part = "tail" /\ "head" \in todo)
      BY <1>5, <1>u DEF EnvInv
    <2>2. Spared = Chosen(env_valid)
      BY <1>0, <2>1, TwoCopies DEF ActiveInv, TypeOK
    <2> QED
      BY <1>0, <1>1, <2>1, <2>2 DEF SerialInv
  <1>6. ASSUME upsets' \subseteq {"blank", "erase", "order"} PROVE TurnInv'
    <2>1. TurnInv
      BY <1>6, <1>u DEF EnvInv
    <2>2. env_valid = "INVALID" => Spared = 2
      BY DEF Spared, Target
    <2> QED
      BY <1>0, <1>1, <2>1, <2>2 DEF TurnInv, crc_ok
  <1> QED
    BY <1>0, <1>2, <1>3, <1>4, <1>5, <1>6 DEF EnvInv

(* The copy that was written is whole. *)
LEMMA TargetWhole ==
  ASSUME EnvInv, pc = "write", todo = {}
  PROVE  /\ crc_ok(disk, Target)
         /\ Data(disk[Target]) = env
         /\ Data(new) = env
         /\ disk[Target].flags = env_flags
  <1>1. env \in Content /\ env_flags \in Serial
    BY DEF EnvInv, TypeOK
  <1>2. new = Whole(env, env_flags)
    BY DEF EnvInv, WriteInv
  <1>3. /\ disk[Target].crc = new.crc /\ disk[Target].flags = new.flags
        /\ disk[Target].head = new.head /\ disk[Target].tail = new.tail
    BY DEF EnvInv, WriteInv
  <1>4. new.crc = <<new.head, new.tail>> /\ Data(new) = env /\ new.flags = env_flags
    BY <1>1, <1>2, WholeCopy
  <1> QED
    BY <1>3, <1>4 DEF crc_ok, Data

(* A whole target whose serial follows that of the spared copy, or whose   *)
(* spared copy is not intact, is the one that a load finds.                *)
LEMMA TargetChosen ==
  ASSUME disk \in [{1, 2} -> Copy], crc_ok(disk, Target),
         crc_ok(disk, Spared) =>
            disk[Target].flags = (disk[Spared].flags + 1) % SerialMod
  PROVE  /\ env_check_redund(disk, {}) = IF Target = 1 THEN "VALID" ELSE "REDUND"
         /\ Stored = Data(disk[Target])
  <1>1. disk[1].flags \in Serial /\ disk[2].flags \in Serial
    BY DEF Copy
  <1>2. CASE Target = 1
    <2>1. Spared = 2
      BY <1>2 DEF Spared
    <2>2. env_check_redund(disk, {}) = "VALID"
      BY <1>1, <1>2, <2>1, NextSerialWins DEF env_check_redund
    <2> QED
      BY <1>2, <2>2 DEF Stored, Chosen
  <1>3. CASE Target = 2
    <2>1. Spared = 1
      BY <1>3 DEF Spared
    <2>2. env_check_redund(disk, {}) = "REDUND"
      BY <1>1, <1>3, <2>1, NextSerialWins DEF env_check_redund
    <2> QED
      BY <1>3, <2>2 DEF Stored, Chosen
  <1> QED
    BY <1>2, <1>3, TwoCopies

LEMMA SaveDoneInv == EnvInv /\ SaveDone => EnvInv'
  <1> SUFFICES ASSUME EnvInv, SaveDone PROVE EnvInv'
    OBVIOUS
  <1>0. /\ TypeOK /\ pc = "write" /\ todo = {} /\ pc' = "idle" /\ env_valid' = Toggle
        /\ saved' = Data(new)
        /\ UNCHANGED <<disk, env, env_flags, new, todo, upsets>>
    BY DEF EnvInv, SaveDone
  <1>1. /\ crc_ok(disk, Target) /\ Data(new) = env
        /\ disk[Target].flags = env_flags
    BY <1>0, TargetWhole
  <1>2. TypeOK'
    BY <1>0, <1>1 DEF TypeOK, Toggle
  <1>3. WriteInv'
    BY <1>0 DEF WriteInv
  <1>4. ASSUME upsets' \subseteq {"write", "order"} PROVE ActiveInv'
    <2>1. env_valid \in {"VALID", "REDUND"}
      BY <1>0, <1>4 DEF EnvInv, ActiveInv, TypeOK
    <2>2. Chosen(env_valid') = Target /\ env_valid' # "INVALID"
      BY <1>0, <2>1 DEF Toggle, Chosen, Target
    <2> QED
      BY <1>0, <1>1, <2>2 DEF ActiveInv, crc_ok
  <1>5. ASSUME upsets' = {} PROVE SerialInv'
    <2>1. ActiveInv /\ SerialInv
      BY <1>0, <1>5 DEF EnvInv
    <2>2. env_valid \in {"VALID", "REDUND"}
      BY <1>0, <2>1 DEF ActiveInv, TypeOK
    <2>3. Chosen(env_valid') = Target
          /\ env_valid' = IF Target = 1 THEN "VALID" ELSE "REDUND"
      BY <1>0, <2>2 DEF Toggle, Chosen, Target
    <2>4. disk[Target].flags = (disk[Spared].flags + 1) % SerialMod
      BY <1>0, <1>1, <2>1, <2>2, TwoCopies DEF SerialInv
    <2>5. env_valid' = env_check_redund(disk, {})
      BY <1>0, <1>1, <2>3, <2>4, TargetChosen DEF TypeOK
    <2> QED
      BY <1>0, <1>1, <2>3, <2>5 DEF SerialInv
  <1>6. ASSUME upsets' \subseteq {"blank", "erase", "order"} PROVE TurnInv'
    <2>1. TurnInv
      BY <1>0, <1>6 DEF EnvInv
    <2>2. env_valid' \in {"VALID", "REDUND"}
      BY <1>0 DEF Toggle
    <2>3. CASE env_valid = "INVALID"
      <3>1. Spared' = 2 /\ ~crc_ok(disk, 2)
        BY <1>0, <2>1, <2>3 DEF Toggle, Spared, Target, TurnInv
      <3> QED
        BY <1>0, <2>2, <3>1 DEF TurnInv
    <2>4. CASE env_valid # "INVALID"
      <3>1. Spared' = Target
        BY <1>0, <2>4 DEF Toggle, Spared, Target, TypeOK
      <3> QED
        BY <1>0, <1>1, <2>2, <3>1 DEF TurnInv
    <2> QED
      BY <2>3, <2>4
  <1> QED
    BY <1>0, <1>2, <1>3, <1>4, <1>5, <1>6 DEF EnvInv

LEMMA SaveFailInv == EnvInv /\ SaveFail => EnvInv'
  <1> SUFFICES ASSUME EnvInv, SaveFail PROVE EnvInv'
    OBVIOUS
  <1>0. /\ TypeOK /\ pc = "write" /\ pc' = "idle" /\ todo' = {}
        /\ upsets' = upsets \cup {"write"}
        /\ UNCHANGED <<disk, env, env_valid, env_flags, new, saved>>
    BY DEF EnvInv, SaveFail
  <1>1. TypeOK' /\ WriteInv'
    BY <1>0 DEF TypeOK, WriteInv
  <1>2. upsets' \subseteq {"write", "order"} => ActiveInv'
    BY <1>0 DEF EnvInv, ActiveInv, crc_ok
  <1> QED
    BY <1>0, <1>1, <1>2 DEF EnvInv

(* An erase: copies disappear, and none comes back. *)
LEMMA EraseBeginInv == EnvInv /\ EraseBegin => EnvInv'
  <1> SUFFICES ASSUME EnvInv, EraseBegin PROVE EnvInv'
    OBVIOUS
  <1>0. /\ TypeOK /\ pc = "idle" /\ pc' = "erase" /\ todo' = {1, 2} /\ saved' = None
        /\ upsets' = upsets \cup {"erase"}
        /\ UNCHANGED <<disk, env, env_valid, env_flags, new>>
    BY DEF EnvInv, EraseBegin
  <1>1. TypeOK' /\ WriteInv'
    BY <1>0 DEF TypeOK, WriteInv
  <1>2. upsets' \subseteq {"blank", "erase", "order"} => TurnInv'
    <2>1. Spared' = Spared
      BY <1>0 DEF Spared, Target
    <2> QED
      BY <1>0, <2>1 DEF EnvInv, TurnInv, crc_ok
  <1> QED
    BY <1>0, <1>1, <1>2 DEF EnvInv

LEMMA EraseCopyInv ==
  ASSUME EnvInv, NEW i \in {1, 2}, EraseCopy(i)
  PROVE  EnvInv'
  <1>0. /\ TypeOK /\ pc = "erase" /\ pc' \in {"idle", "erase"} /\ todo' \subseteq {1, 2}
        /\ pc' = "idle" => todo' = {}
        /\ disk' = [disk EXCEPT ![i] = Blank] \/ disk' = disk
        /\ saved = None /\ "erase" \in upsets
        /\ UNCHANGED <<env, env_valid, env_flags, new, saved, upsets>>
    BY DEF EnvInv, EraseCopy, TypeOK
  <1>1. disk \in [{1, 2} -> Copy] /\ disk' \in [{1, 2} -> Copy]
    BY <1>0, BlankCopy DEF TypeOK
  <1>2. \A j \in {1, 2} : disk'[j] = disk[j] \/ disk'[j] = Blank
    BY <1>0, <1>1
  <1>3. \A j \in {1, 2} : crc_ok(disk', j) => crc_ok(disk, j) /\ disk'[j] = disk[j]
    BY <1>2, BlankCopy DEF crc_ok
  <1>4. TypeOK' /\ WriteInv'
    BY <1>0, <1>1 DEF TypeOK, WriteInv
  <1>5. upsets' \subseteq {"blank", "erase", "order"} => TurnInv'
    <2>1. Spared' = Spared /\ Spared \in {1, 2}
      BY <1>0 DEF Spared, Target
    <2> QED
      BY <1>0, <1>3, <2>1 DEF EnvInv, TurnInv
  <1> QED
    BY <1>0, <1>4, <1>5 DEF EnvInv

(* Power loss keeps what is on the device. *)
LEMMA PowerLossInv == EnvInv /\ PowerLoss => EnvInv'
  <1> SUFFICES ASSUME EnvInv, PowerLoss PROVE EnvInv'
    OBVIOUS
  <1>0. /\ TypeOK /\ pc # "off" /\ pc' = "off" /\ env' = Default /\ env_valid' = "VALID"
        /\ env_flags' = 0 /\ new' = Blank /\ todo' = {}
        /\ UNCHANGED <<disk, saved, upsets>>
    BY DEF EnvInv, PowerLoss
  <1>1. 0 \in Serial
    BY EnvAssumption DEF Serial
  <1>2. TypeOK' /\ WriteInv'
    BY <1>0, <1>1, BlankCopy, ContentParts DEF TypeOK, WriteInv
  <1>3. upsets' \subseteq {"write", "order"} => ActiveInv'
    BY <1>0, TwoCopies DEF EnvInv, ActiveInv, crc_ok
  <1>4. SerialInv' /\ TurnInv'
    BY <1>0 DEF SerialInv, TurnInv
  <1> QED
    BY <1>0, <1>2, <1>3, <1>4 DEF EnvInv

LEMMA SetEnvInv == EnvInv /\ SetEnv => EnvInv'
  <1> SUFFICES ASSUME EnvInv, SetEnv PROVE EnvInv'
    OBVIOUS
  <1>0. /\ TypeOK /\ pc = "idle" /\ env' \in Content
        /\ UNCHANGED <<disk, env_valid, env_flags, pc, new, todo, saved, upsets>>
    BY DEF EnvInv, SetEnv
  <1>1. TypeOK' /\ WriteInv'
    BY <1>0 DEF TypeOK, WriteInv
  <1>2. /\ ActiveInv => ActiveInv'
        /\ SerialInv => SerialInv'
    BY <1>0 DEF ActiveInv, SerialInv, crc_ok
  <1>3. TurnInv => TurnInv'
    BY <1>0 DEF TurnInv, Spared, Target, crc_ok
  <1> QED
    BY <1>0, <1>1, <1>2, <1>3 DEF EnvInv

LEMMA EnvInvNext == EnvInv /\ [Next]_vars => EnvInv'
  <1> SUFFICES ASSUME EnvInv, [Next]_vars PROVE EnvInv'
    OBVIOUS
  <1>0. TypeOK
    BY DEF EnvInv
  <1>1. CASE Boot
    <2>1. 0 \in Serial
      BY EnvAssumption DEF Serial
    <2> QED
      BY <1>1, <2>1, LoadInv DEF Boot
  <1>2. CASE env_reload
    BY <1>0, <1>2, LoadInv DEF env_reload, TypeOK
  <1>3. CASE UNCHANGED vars
    BY <1>3 DEF vars, EnvInv, TypeOK, WriteInv, ActiveInv, SerialInv, TurnInv, Spared,
                Target, crc_ok
  <1> QED
    BY <1>1, <1>2, <1>3, SetEnvInv, SaveBeginInv, WritePartInv, SaveDoneInv, SaveFailInv,
       EraseBeginInv, EraseCopyInv, PowerLossInv
       DEF Next

-----------------------------------------------------------------------------
(* gd->env_valid, the serials and the two copies agree as env_mmc_load and *)
(* env_mmc_save need it, for every sequence of saves, loads, erases, power *)
(* losses and faults of the device.                                        *)
THEOREM EnvInvariant == Spec => []EnvInv
  <1>1. Init => EnvInv
    BY InitEnvInv
  <1>2. EnvInv /\ [Next]_vars => EnvInv'
    BY EnvInvNext
  <1> QED
    BY <1>1, <1>2, PTL DEF Spec

(* What is stored depends on the device only. *)
LEMMA StoredSame == UNCHANGED disk => Stored' = Stored
  BY DEF Stored, env_check_redund, crc_ok, Data

(* What a save stored is what a load finds, until the next save or erase   *)
(* begins, across power loss and across a wrap of the serial.              *)
THEOREM SavesAreKept == Spec => []SavedIsStored
  <1>1. Init => SavedIsStored
    BY DEF Init, SavedIsStored
  <1>2. ASSUME EnvInv, SavedIsStored, [Next]_vars
        PROVE  SavedIsStored'
    <2> SUFFICES ASSUME saved' # None, upsets' \subseteq {"blank", "erase", "order"}
                 PROVE  Stored' = saved'
      BY DEF SavedIsStored
    <2>1. CASE SaveDone
      <3>1. /\ pc = "write" /\ todo = {} /\ UNCHANGED <<disk, upsets>> /\ saved' = Data(new)
        BY <2>1 DEF SaveDone
      <3>2. TurnInv /\ disk \in [{1, 2} -> Copy]
        BY <1>2, <3>1 DEF EnvInv, TypeOK
      <3>3. /\ crc_ok(disk, Target) /\ Data(disk[Target]) = Data(new)
            /\ disk[Target].flags = env_flags
        BY <1>2, <3>1, TargetWhole
      <3>4. Stored = Data(disk[Target])
        BY <3>1, <3>2, <3>3, TargetChosen DEF TurnInv
      <3> QED
        BY <3>1, <3>3, <3>4, StoredSame
    <2>2. CASE SaveBegin \/ EraseBegin
      BY <2>2 DEF SaveBegin, EraseBegin
    <2>3. CASE \/ \E p \in {"head", "tail"} : WritePart(p)
               \/ \E i \in {1, 2} : EraseCopy(i)
               \/ SaveFail
      BY <1>2, <2>3 DEF WritePart, EraseCopy, SaveFail, EnvInv
    <2>4. CASE Boot \/ env_reload
      <3>1. saved' = saved /\ UNCHANGED disk /\ upsets \subseteq upsets'
        BY <2>4 DEF Boot, env_reload, env_mmc_load
      <3> QED
        BY <1>2, <3>1, StoredSame DEF SavedIsStored
    <2>5. CASE SetEnv \/ PowerLoss \/ UNCHANGED vars
      <3>1. UNCHANGED <<saved, disk, upsets>>
        BY <2>5 DEF SetEnv, PowerLoss, vars
      <3> QED
        BY <1>2, <3>1, StoredSame DEF SavedIsStored
    <2> QED
      BY <1>2, <2>1, <2>2, <2>3, <2>4, <2>5 DEF Next
  <1> QED
    BY <1>1, <1>2, EnvInvariant, PTL DEF Spec

(* No save, failed save or power loss leaves the device without an         *)
(* environment to load.                                                    *)
THEOREM NothingIsLost == Spec => NeverLosesLast
  <1>1. ASSUME EnvInv, EnvInv', [Next]_vars
        PROVE  [upsets' \subseteq {"write", "order"} /\ Stored # None => Stored' # None]_vars
    <2> SUFFICES ASSUME upsets' \subseteq {"write", "order"} PROVE Stored' # None
      OBVIOUS
    <2>1. ActiveInv' /\ disk' \in [{1, 2} -> Copy]
      BY <1>1 DEF EnvInv, TypeOK
    <2>2. crc_ok(disk', 1) \/ crc_ok(disk', 2)
      BY <2>1 DEF ActiveInv, Chosen
    <2>3. \A i \in {1, 2} : Data(disk'[i]) # None
      BY <2>1, ContentParts DEF Data, Copy
    <2>4. env_check_redund(disk', {}) # "INVALID"
      BY <2>2, CheckFinds
    <2> QED
      BY <2>3, <2>4 DEF Stored, Chosen
  <1> QED
    BY <1>1, EnvInvariant, PTL DEF Spec, NeverLosesLast

-----------------------------------------------------------------------------
(* Refinement: until the device fails, the two copies are one register.    *)

(* A load finds what is stored. *)
LEMMA LoadIsLoad ==
  ASSUME EnvInv, pc \in {"off", "idle"}, pc' = "idle", UNCHANGED disk,
         NEW valid, NEW flags, env_mmc_load(valid, flags), upsets' = {}
  PROVE  Store!Load
  <1>1. disk \in [{1, 2} -> Copy]
    BY DEF EnvInv, TypeOK
  <1>2. /\ env_valid' = env_check_redund(disk, {}) /\ upsets = {}
        /\ env_valid' # "INVALID" => env' \in {Default, Data(disk[Chosen(env_valid')])}
        /\ env_valid' = "INVALID" => env' = Default
    BY <1>1, CleanLoad
  <1>3. env' \in {Default, IF Stored = None THEN Default ELSE Stored}
    <2>1. Stored # None <=> env_valid' # "INVALID"
      BY <1>1, <1>2, CheckFinds, StoredSomething
    <2> QED
      BY <1>2, <2>1 DEF Stored
  <1> QED
    BY <1>3, StoredSame DEF Store!Load, Store!Loaded

(* While the target is not whole, or before its checksum and serial are    *)
(* written, the spared copy is what is stored; afterwards the target is.   *)
WhileWriting ==
    /\ "head" \in todo => Stored = Data(disk[Spared])
    /\ "head" \notin todo /\ ~crc_ok(disk, Target) => Stored = Data(disk[Spared])
    /\ "head" \notin todo /\ crc_ok(disk, Target) => Stored = env
    /\ todo = {} => crc_ok(disk, Target)

LEMMA StoredWhileWriting == EnvInv /\ pc = "write" /\ upsets = {} => WhileWriting
  <1> SUFFICES ASSUME EnvInv, pc = "write", upsets = {} PROVE WhileWriting
    OBVIOUS
  <1>1. ActiveInv /\ SerialInv /\ WriteInv /\ disk \in [{1, 2} -> Copy] /\ TypeOK
    BY DEF EnvInv, TypeOK
  <1>2. Spared = Chosen(env_valid) /\ env_valid \in {"VALID", "REDUND"}
          /\ crc_ok(disk, Spared)
    BY <1>1, TwoCopies DEF ActiveInv, TypeOK
  <1>3. "head" \in todo => Stored = Data(disk[Spared])
    BY <1>1, <1>2 DEF SerialInv, Stored
  <1>4. ~crc_ok(disk, Target) => Stored = Data(disk[Spared])
    <2> SUFFICES ASSUME ~crc_ok(disk, Target) PROVE Stored = Data(disk[Spared])
      OBVIOUS
    <2>1. env_check_redund(disk, {}) = env_valid
      BY <1>2 DEF env_check_redund, Target, Spared, Chosen
    <2> QED
      BY <1>2, <2>1 DEF Stored
  <1>5. ASSUME "head" \notin todo, crc_ok(disk, Target) PROVE Stored = env
    <2>1. new = Whole(env, env_flags) /\ env \in Content /\ env_flags \in Serial
      BY <1>1 DEF WriteInv, TypeOK
    <2>2. disk[Target].crc = env /\ disk[Target].flags = env_flags
      BY <1>1, <1>5, <2>1 DEF WriteInv, Whole
    <2>3. disk[Target].flags = (disk[Spared].flags + 1) % SerialMod
      BY <1>1, <1>2, <2>2 DEF SerialInv
    <2>4. Stored = Data(disk[Target])
      BY <1>1, <1>5, <2>3, TargetChosen
    <2> QED
      BY <1>5, <2>2, <2>4 DEF crc_ok, Data
  <1> QED
    BY <1>3, <1>4, <1>5, TargetWhole DEF WhileWriting

(* Until the first upset of the device every step is one of a register     *)
(* that survives power loss, or changes nothing of it.                     *)
THEOREM CopiesAreOneRegister == Spec => ImplementsStore
  <1>1. Init => (upsets = {} => Store!Init)
    <2> SUFFICES ASSUME Init, upsets = {} PROVE Store!Init
      OBVIOUS
    <2>1. EnvInv /\ pc = "off" /\ env = Default
      BY InitEnvInv DEF Init
    <2>2. disk \in [{1, 2} -> Copy] /\ (crc_ok(disk, 1) \/ crc_ok(disk, 2))
      BY <2>1 DEF EnvInv, TypeOK, ActiveInv
    <2>3. env_check_redund(disk, {}) # "INVALID"
      BY <2>2, CheckFinds
    <2>4. \A i \in {1, 2} : Data(disk[i]) \in Content
      BY <2>2, ContentParts DEF Data, Copy
    <2>5. Stored \in Content
      BY <2>3, <2>4 DEF Stored, Chosen
    <2> QED
      BY <2>1, <2>5 DEF Store!Init
  <1>w. (EnvInv /\ pc = "write" /\ upsets = {} => WhileWriting)'
    BY StoredWhileWriting, PTL
  <1>2. ASSUME EnvInv, EnvInv', [Next]_vars
        PROVE  [upsets' = {} => Store!Next]_(Store!vars)
    <2> SUFFICES ASSUME upsets' = {}, ~UNCHANGED Store!vars PROVE Store!Next
      OBVIOUS
    <2>1. CASE Boot \/ env_reload
      BY <1>2, <2>1, LoadIsLoad DEF Boot, env_reload, Store!Next
    <2>2. CASE SetEnv
      BY <2>2, StoredSame DEF SetEnv, Store!Next, Store!SetEnv
    <2>3. CASE SaveBegin
      BY <2>3, StoredSame DEF SaveBegin, Store!Next, Store!BeginSave
    <2>4. ASSUME NEW part \in {"head", "tail"}, WritePart(part) PROVE Store!Next
      <3>1. /\ TypeOK /\ pc = "write" /\ pc' = "write" /\ upsets = {}
            /\ UNCHANGED <<env, env_valid>> /\ part \in todo /\ todo' = todo \ {part}
            /\ ~(part = "tail" /\ "head" \in todo)
        BY <1>2, <2>4 DEF EnvInv, WritePart
      <3>2. disk'[Spared] = disk[Spared] /\ Spared' = Spared /\ Target' = Target
        BY <2>4, <3>1, PartEffect DEF Spared, Target
      <3>3. WhileWriting /\ WhileWriting'
        BY <1>2, <3>1, StoredWhileWriting, <1>w
      <3>4. Stored' \in {Data(disk[Spared]), env}
        BY <3>2, <3>3, <3>1 DEF WhileWriting, Data
      <3>5. Stored = Data(disk[Spared]) \/ Stored = env
        BY <3>3 DEF WhileWriting
      <3>6. CASE Stored' = env
        BY <3>1, <3>6 DEF Store!Next, Store!TakeEffect
      <3>7. CASE Stored' = Data(disk[Spared]) /\ Stored = Data(disk[Spared])
        BY <3>1, <3>7 DEF Store!vars
      <3>8. CASE Stored = env /\ Stored # Data(disk[Spared])
        <4>1. part = "tail" /\ "head" \notin todo /\ todo' = {}
          BY <3>1, <3>3, <3>8 DEF WhileWriting, TypeOK
        <4> QED
          BY <3>1, <3>3, <3>6, <4>1 DEF WhileWriting
      <3> QED
        BY <3>4, <3>5, <3>6, <3>7, <3>8
    <2>5. CASE SaveDone
      <3>1. /\ pc = "write" /\ pc' = "idle" /\ todo = {} /\ upsets = {}
            /\ UNCHANGED <<disk, env>>
        BY <2>5 DEF SaveDone
      <3>2. Stored = env
        BY <1>2, <3>1, StoredWhileWriting DEF WhileWriting
      <3> QED
        BY <3>1, <3>2, StoredSame DEF Store!Next, Store!EndSave
    <2>6. CASE PowerLoss
      BY <2>6, StoredSame DEF PowerLoss, Store!Next, Store!PowerLoss
    <2>7. CASE SaveFail \/ EraseBegin
      BY <2>7 DEF SaveFail, EraseBegin
    <2>8. ASSUME NEW i \in {1, 2}, EraseCopy(i) PROVE Store!Next
      BY <1>2, <2>8 DEF EraseCopy, EnvInv
    <2>9. CASE UNCHANGED vars
      BY <2>9, StoredSame DEF vars, Store!vars
    <2> QED
      BY <1>2, <2>1, <2>2, <2>3, <2>4, <2>5, <2>6, <2>7, <2>8, <2>9 DEF Next
  <1> QED
    BY <1>1, <1>2, EnvInvariant, PTL DEF Spec, ImplementsStore
=============================================================================
