-------------------------- MODULE AndroidAb_proofs --------------------------
(***************************************************************************)
(* Proofs about the A/B slot selection, for every number of slots that the *)
(* metadata has room for, every number of tries and priorities, with and   *)
(* without a backup copy.                                                  *)
(***************************************************************************)
EXTENDS AndroidAb, TLAPS

USE AbAssumption DEF MaxSlots, disk, history

-----------------------------------------------------------------------------
(* The operators of a selection. *)

LEMMA BadIsNotControl == Bad \notin Control
  BY DEF Bad, Control, Slot

LEMMA FreshIsMeta == Fresh \in Meta
  <1>1. MaxPriority \in 0 .. MaxPriority /\ MaxTries \in 0 .. MaxTries
    OBVIOUS
  <1> QED
    BY <1>1 DEF Fresh, Meta

LEMMA DefaultIsControl == ab_control_default \in Control
  <1>1. 1 \in Slot
    BY DEF Slot
  <1> QED
    BY <1>1, FreshIsMeta DEF ab_control_default, Control

(* One pass of the loop. *)
LEMMA PickFacts ==
  ASSUME NEW info, NEW sel \in 0 .. NumSlots, NEW i \in 1 .. MaxSlots,
         NEW r, r = Pick(info, sel, i)
  PROVE  /\ r \in 0 .. NumSlots
         /\ r = sel \/ (r = i /\ Bootable(info[i]))
         /\ r = 0 => sel = 0 /\ (i <= NumSlots => ~Bootable(info[i]))
  BY DEF Pick

(* The loop ends with a bootable slot, or there is none. *)
LEMMA SelectLoopFacts ==
  ASSUME NEW info
  PROVE  /\ SelectLoop(info) \in 0 .. NumSlots
         /\ SelectLoop(info) # 0 => Bootable(info[SelectLoop(info)])
         /\ SelectLoop(info) = 0 => \A s \in Slot : ~Bootable(info[s])
  <1> DEFINE s1 == Pick(info, 0, 1)
             s2 == Pick(info, s1, 2)
             s3 == Pick(info, s2, 3)
             s4 == Pick(info, s3, 4)
  <1>0. SelectLoop(info) = s4
    BY DEF SelectLoop
  <1>a. 0 \in 0 .. NumSlots /\ 1 \in 1 .. MaxSlots /\ 2 \in 1 .. MaxSlots
        /\ 3 \in 1 .. MaxSlots /\ 4 \in 1 .. MaxSlots
    OBVIOUS
  <1>1. /\ s1 \in 0 .. NumSlots /\ (s1 # 0 => Bootable(info[s1]))
        /\ s1 = 0 => ~Bootable(info[1])
    BY <1>a, PickFacts
  <1> HIDE DEF s1
  <1>2. /\ s2 \in 0 .. NumSlots /\ (s2 # 0 => Bootable(info[s2]))
        /\ s2 = 0 => s1 = 0 /\ (2 <= NumSlots => ~Bootable(info[2]))
    BY <1>a, <1>1, PickFacts
  <1> HIDE DEF s2
  <1>3. /\ s3 \in 0 .. NumSlots /\ (s3 # 0 => Bootable(info[s3]))
        /\ s3 = 0 => s2 = 0 /\ (3 <= NumSlots => ~Bootable(info[3]))
    BY <1>a, <1>2, PickFacts
  <1> HIDE DEF s3
  <1>4. /\ s4 \in 0 .. NumSlots /\ (s4 # 0 => Bootable(info[s4]))
        /\ s4 = 0 => s3 = 0 /\ (4 <= NumSlots => ~Bootable(info[4]))
    BY <1>a, <1>3, PickFacts
  <1> HIDE DEF s4
  <1>5. s4 = 0 => \A s \in Slot : ~Bootable(info[s])
    <2> SUFFICES ASSUME s4 = 0, NEW s \in Slot PROVE ~Bootable(info[s])
      OBVIOUS
    <2>1. s \in Int /\ s <= NumSlots /\ (s = 1 \/ s = 2 \/ s = 3 \/ s = 4)
      BY DEF Slot
    <2> QED
      BY <1>1, <1>2, <1>3, <1>4, <2>1
  <1> QED
    BY <1>0, <1>4, <1>5

(* What counting an attempt and setting the suffix leave alone. *)
LEMMA CountTryFacts ==
  ASSUME NEW c \in Control, NEW s \in 0 .. NumSlots, NEW dec \in BOOLEAN,
         s # 0 => Bootable(c.slot_info[s])
  PROVE  LET d == SetSuffix(CountTry(c, s, dec), s)
         IN  /\ d \in Control
             /\ ~dec \/ s = 0 => d.slot_info = c.slot_info
             /\ \A t \in Slot :
                  /\ d.slot_info[t].successful_boot = c.slot_info[t].successful_boot
                  /\ d.slot_info[t].tries_remaining =
                       IF t = s /\ dec /\ ~c.slot_info[t].successful_boot
                       THEN c.slot_info[t].tries_remaining - 1
                       ELSE c.slot_info[t].tries_remaining
  <1> DEFINE e == CountTry(c, s, dec)
             d == SetSuffix(e, s)
  <1>1. c.slot_info \in [Slot -> Meta] /\ c.slot_suffix \in Slot
    BY DEF Control
  <1>2. CASE s # 0 /\ dec /\ ~c.slot_info[s].successful_boot
    <2>0. s \in Slot
      BY <1>2 DEF Slot
    <2>1. c.slot_info[s] \in Meta /\ c.slot_info[s].tries_remaining # 0
      BY <1>1, <1>2, <2>0 DEF Bootable
    <2> DEFINE m == [c.slot_info[s] EXCEPT !.tries_remaining = @ - 1]
    <2>2. /\ m \in Meta /\ m.tries_remaining = c.slot_info[s].tries_remaining - 1
          /\ m.successful_boot = c.slot_info[s].successful_boot
      BY <2>1 DEF Meta
    <2> DEFINE f == [c.slot_info EXCEPT ![s] = m]
    <2>3. d = [slot_suffix |-> s, slot_info |-> f]
      BY <1>2 DEF CountTry, SetSuffix, Control
    <2> HIDE DEF m
    <2>f. f \in [Slot -> Meta]
      BY <1>1, <2>0, <2>2
    <2>4. d \in Control /\ d.slot_info = [c.slot_info EXCEPT ![s] = m]
      <3> HIDE DEF f, d
      <3>1. d \in Control /\ d.slot_info = f
        BY <2>0, <2>3, <2>f DEF Control
      <3> QED
        BY <3>1 DEF f
    <2> QED
      BY <1>1, <1>2, <2>0, <2>2, <2>4
  <1>3. CASE ~(s # 0 /\ dec /\ ~c.slot_info[s].successful_boot)
    <2>1. d = IF s # 0 THEN [c EXCEPT !.slot_suffix = s] ELSE c
      BY <1>3 DEF CountTry, SetSuffix
    <2>2. d \in Control /\ d.slot_info = c.slot_info
      BY <1>1, <2>1 DEF Control, Slot
    <2>3. \A t \in Slot : ~(t = s /\ dec /\ ~c.slot_info[t].successful_boot)
      BY <1>3 DEF Slot
    <2> QED
      BY <2>2, <2>3
  <1> QED
    BY <1>2, <1>3

LEMMA LoadedIsControl ==
  ASSUME NEW rp \in Control \cup {Bad}, NEW rb \in Control \cup {Bad}
  PROVE  Loaded(rp, rb) \in Control
  BY DefaultIsControl DEF Loaded

-----------------------------------------------------------------------------
(* The inductive invariant. *)

LEMMA InitAbInv == Init => AbInv
  <1> SUFFICES ASSUME Init PROVE AbInv
    OBVIOUS
  <1> DEFINE one == [Fresh EXCEPT !.successful_boot = TRUE]
             other == [Fresh EXCEPT !.priority = 0, !.tries_remaining = 0]
             info == [s \in Slot |-> IF s = 1 THEN one ELSE other]
  <1>1. 0 \in 0 .. MaxPriority /\ 0 \in 0 .. MaxTries /\ MaxPriority \in 0 .. MaxPriority
        /\ MaxTries \in 0 .. MaxTries /\ 1 \in Slot
    BY DEF Slot
  <1>2. /\ one \in Meta /\ other \in Meta
        /\ one.tries_remaining # 0 /\ one.successful_boot
        /\ other.tries_remaining = 0 /\ ~other.successful_boot
    BY <1>1 DEF Fresh, Meta
  <1>3. primary = [slot_suffix |-> 1, slot_info |-> info]
    BY DEF Init
  <1> HIDE DEF one, other
  <1>4. info \in [Slot -> Meta]
    BY <1>2
  <1>5. primary \in Control /\ primary.slot_info = info /\ backup = primary
    <2> HIDE DEF info
    <2>1. primary \in Control /\ primary.slot_info = info
      BY <1>1, <1>3, <1>4 DEF Control
    <2> QED
      BY <2>1 DEF Init
  <1>6. primary # Bad
    BY <1>5, BadIsNotControl
  <1>7. \A s \in Slot : /\ primary.slot_info[s].successful_boot => primary.slot_info[s].tries_remaining # 0
                        /\ ~primary.slot_info[s].successful_boot => primary.slot_info[s].tries_remaining = 0
    BY <1>2, <1>5
  <1>8. TypeOK
    <2>1. 0 \in 0 .. MaxTries + MaxLost + 1 /\ 0 \in 0 .. NumSlots /\ 0 \in 0 .. MaxInstalls
          /\ 0 \in 0 .. MaxTorn /\ 0 \in 0 .. MaxLost
      OBVIOUS
    <2> QED
      BY <1>5, <2>1 DEF Init, TypeOK
  <1>9. PlaceInv /\ ChoiceInv /\ TornInv
    BY <1>5, <1>6 DEF Init, PlaceInv, ChoiceInv, TornInv, Selecting
  <1>10. KeepsTryInv
    BY <1>5, <1>7 DEF Init, KeepsTryInv, KeepsTry
  <1>11. TriesInv
    BY <1>5, <1>7 DEF Init, TriesInv, Within, PrimarySpent, BackupSpent, Selecting
  <1> QED
    BY <1>8, <1>9, <1>10, <1>11 DEF AbInv

(* What the boot under way costs. *)
LEMMA SpentFacts ==
  ASSUME NEW s
  PROVE  Spent(s) \in {0, 1} /\ PrimarySpent(s) \in {0, 1} /\ BackupSpent(s) \in {0, 1}
  BY DEF Spent, PrimarySpent, BackupSpent

(* A copy that has room for a try has room without it. *)
LEMMA WithinLess ==
  ASSUME TypeOK, NEW c \in Control, NEW s \in Slot, NEW k \in {0, 1}, Within(c, s, k)
  PROVE  Within(c, s, 0)
  <1>1. attempts[s] \in Int /\ lost \in Int
    BY DEF TypeOK
  <1>2. c.slot_info[s].tries_remaining \in Int
    BY DEF Control, Meta
  <1> QED
    BY <1>1, <1>2 DEF Within

(* A write that failed unnoticed makes room for a try. *)
LEMMA WithinMore ==
  ASSUME TypeOK, NEW c \in Control, NEW s \in Slot, NEW j \in {0, 1}, Within(c, s, j),
         NEW l, l = lost + 1, NEW k \in {0, 1}, ~c.slot_info[s].successful_boot
  PROVE  attempts[s] + k + c.slot_info[s].tries_remaining <= MaxTries + l
  <1>1. attempts[s] \in Int /\ lost \in Int
    BY DEF TypeOK
  <1>2. c.slot_info[s].tries_remaining \in Int
    BY DEF Control, Meta
  <1> QED
    BY <1>1, <1>2 DEF Within

(* Every copy has room at least for what was started. *)
LEMMA WithinAll ==
  ASSUME AbInv, HasBackup, MaxTorn <= 1, NEW s \in Slot
  PROVE  /\ primary # Bad => Within(primary, s, 0)
         /\ backup # Bad => Within(backup, s, 0)
         /\ pc \in Selecting => Within(abc, s, 0)
  <1>t. TypeOK /\ PlaceInv /\ TriesInv
    BY DEF AbInv
  <1>1. ASSUME primary # Bad PROVE Within(primary, s, 0)
    <2>1. Within(primary, s, PrimarySpent(s)) /\ primary \in Control
      BY <1>t, <1>1 DEF TriesInv, TypeOK
    <2> QED
      BY <1>t, <2>1, SpentFacts, WithinLess
  <1>2. ASSUME backup # Bad PROVE Within(backup, s, 0)
    <2>1. Within(backup, s, BackupSpent(s)) /\ backup \in Control
      BY <1>t, <1>2 DEF TriesInv, TypeOK
    <2> QED
      BY <1>t, <2>1, SpentFacts, WithinLess
  <1>3. ASSUME pc \in Selecting PROVE Within(abc, s, 0)
    <2>1. Within(abc, s, Spent(s)) /\ abc \in Control
      BY <1>t, <1>3 DEF TriesInv, TypeOK, PlaceInv
    <2> QED
      BY <1>t, <2>1, SpentFacts, WithinLess
  <1> QED
    BY <1>1, <1>2, <1>3

(* What a selection starts from has the invariants of the copies, also     *)
(* when a copy could not be read.                                          *)
LEMMA LoadedFacts ==
  ASSUME AbInv, pc \in {"off", "prompt", "scanned"},
         NEW rp \in Read(primary), NEW rb \in Read(backup),
         torn + (IF rp # primary THEN 1 ELSE 0) + (IF rb # backup THEN 1 ELSE 0) <= MaxTorn
  PROVE  /\ Loaded(rp, rb) \in Control
         /\ OsKeepsTry => KeepsTry(Loaded(rp, rb))
         /\ HasBackup /\ MaxTorn <= 1 => \A s \in Slot : Within(Loaded(rp, rb), s, 0)
         /\ pc = "scanned" /\ failed = {} /\ rp = primary => Loaded(rp, rb) = abc
  <1>0. rp \in {primary, Bad} /\ rb \in {backup, Bad}
    BY DEF Read
  <1>1. OsKeepsTry => KeepsTry(ab_control_default)
    BY DEF KeepsTry, ab_control_default, Fresh
  <1>2. OsKeepsTry => KeepsTry(Loaded(rp, rb))
    BY <1>0, <1>1 DEF AbInv, KeepsTryInv, Loaded
  <1>3. ASSUME HasBackup, MaxTorn <= 1
        PROVE  Loaded(rp, rb) \in {primary, backup} /\ Loaded(rp, rb) # Bad
    <2>1. torn \in Int /\ (primary = Bad => torn = 1) /\ (backup = Bad => torn = 1)
          /\ ~(primary = Bad /\ backup = Bad)
      BY <1>3 DEF AbInv, TornInv, TypeOK
    <2>2. rp # Bad \/ rb # Bad
      <3> SUFFICES ASSUME rp = Bad, rb = Bad PROVE FALSE
        OBVIOUS
      <3>0. torn \in Nat
        BY DEF AbInv, TypeOK
      <3>1. CASE primary = Bad
        <4>1. torn = 1 /\ rp = primary /\ rb # backup
          BY <2>1, <3>1
        <4> QED
          BY <1>3, <4>1
      <3>2. CASE primary # Bad
        <4>1. rp # primary /\ (rb # backup \/ torn = 1)
          BY <2>1, <3>2
        <4> QED
          BY <1>3, <3>0, <4>1
      <3> QED
        BY <3>1, <3>2
    <2> QED
      BY <1>0, <1>3, <2>2 DEF Loaded
  <1>4. HasBackup /\ MaxTorn <= 1 => \A s \in Slot : Within(Loaded(rp, rb), s, 0)
    BY <1>3, WithinAll
  <1>5. pc = "scanned" /\ failed = {} /\ rp = primary => Loaded(rp, rb) = abc
    BY DEF AbInv, PlaceInv, Loaded
  <1>6. Loaded(rp, rb) \in Control
    BY <1>0, LoadedIsControl DEF AbInv, TypeOK
  <1> QED
    BY <1>2, <1>4, <1>5, <1>6

LEMMA SelectInv ==
  ASSUME AbInv, pc \in {"off", "prompt", "scanned"}, NEW dec \in BOOLEAN,
         NEW rp \in Read(primary), NEW rb \in Read(backup),
         ab_select_slot(dec, rp, rb), failed' \subseteq {"io", "boot"},
         failed' = {} => rp = primary,
         pslot' \in 0 .. NumSlots, verified' \in 0 .. NumSlots,
         dec => pc = "scanned" /\ (failed' = {} => failed = {} /\ verified' = pslot)
  PROVE  AbInv'
  <1> DEFINE F == Loaded(rp, rb)
             s == SelectLoop(F.slot_info)
             d == SetSuffix(CountTry(F, s, dec), s)
             x == (IF rp # primary THEN 1 ELSE 0) + (IF rb # backup THEN 1 ELSE 0)
  <1>r. rp \in {primary, Bad} /\ rb \in {backup, Bad}
    BY DEF Read
  <1>t. TypeOK /\ PlaceInv /\ ChoiceInv /\ KeepsTryInv /\ TornInv /\ TriesInv
    BY DEF AbInv
  <1>x. torn \in 0 .. MaxTorn /\ torn' \in 0 .. MaxTorn /\ torn <= torn'
        /\ torn + (IF rp # primary THEN 1 ELSE 0) + (IF rb # backup THEN 1 ELSE 0) <= MaxTorn
    BY <1>t DEF ab_select_slot, TypeOK
  <1>1. /\ F \in Control
        /\ OsKeepsTry => KeepsTry(F)
        /\ HasBackup /\ MaxTorn <= 1 => \A t \in Slot : Within(F, t, 0)
        /\ pc = "scanned" /\ failed = {} /\ rp = primary => F = abc
    BY <1>x, LoadedFacts
  <1>2. /\ s \in 0 .. NumSlots
        /\ s # 0 => Bootable(F.slot_info[s])
    BY SelectLoopFacts
  <1>3. /\ slot' = s /\ abc' = d /\ count' = dec
        /\ backup_stale' = (HasBackup /\ rb # d)
        /\ pc' = IF d # rp THEN "store_primary" ELSE CheckBackup(backup_stale')
        /\ UNCHANGED <<primary, backup, attempts, installs, lost>>
    BY DEF ab_select_slot
  <1> HIDE DEF s, F
  <1>4. /\ d \in Control
        /\ ~dec \/ s = 0 => d.slot_info = F.slot_info
        /\ \A t \in Slot :
             /\ d.slot_info[t].successful_boot = F.slot_info[t].successful_boot
             /\ d.slot_info[t].tries_remaining =
                  IF t = s /\ dec /\ ~F.slot_info[t].successful_boot
                  THEN F.slot_info[t].tries_remaining - 1
                  ELSE F.slot_info[t].tries_remaining
    BY <1>1, <1>2, CountTryFacts
  <1> HIDE DEF d
  <1>b. d # Bad /\ abc' # Bad
    BY <1>3, <1>4, BadIsNotControl
  <1>p. /\ pc' \in {"store_primary", "store_backup", "selected"}
        /\ pc' \in {"store_backup", "selected"} => primary = abc'
        /\ HasBackup /\ (pc' = "selected" \/ ~backup_stale') => backup = abc'
    BY <1>r, <1>3, <1>b DEF CheckBackup
  <1>5. TypeOK'
    BY <1>t, <1>x, <1>2, <1>3, <1>4, <1>p DEF TypeOK, Selecting
  <1>6. PlaceInv'
    BY <1>3, <1>b, <1>p DEF PlaceInv, Selecting
  <1>7. ChoiceInv'
    <2>1. ASSUME ~dec \/ s = 0 PROVE slot' = SelectLoop(abc'.slot_info)
      BY <1>3, <1>4, <2>1 DEF s
    <2>2. ASSUME dec, failed' = {} PROVE slot' # 0 /\ slot' = verified'
      <3>1. F = abc /\ slot # 0 /\ slot = pslot /\ slot = SelectLoop(abc.slot_info)
        BY <1>t, <1>1, <2>2 DEF ChoiceInv
      <3>2. s = slot
        BY <3>1 DEF s
      <3> QED
        BY <1>3, <2>2, <3>1, <3>2
    <2> QED
      BY <1>3, <1>p, <2>1, <2>2 DEF ChoiceInv
  <1>8. KeepsTryInv'
    <2>1. F # Bad
      BY <1>1, BadIsNotControl
    <2>2. OsKeepsTry => KeepsTry(d)
      BY <1>1, <1>4, <2>1 DEF KeepsTry
    <2> QED
      BY <1>t, <1>3, <2>2 DEF KeepsTryInv, KeepsTry
  <1>9. TornInv'
    <2> SUFFICES ASSUME HasBackup, MaxTorn <= 1 PROVE TornInv'
      BY DEF TornInv
    <2>1. torn = 1 => torn' = 1
      BY <1>x
    <2> QED
      BY <1>t, <1>3, <1>p, <2>1 DEF TornInv
  <1>10. TriesInv'
    <2> SUFFICES ASSUME HasBackup, MaxTorn <= 1 PROVE TriesInv'
      BY DEF TriesInv
    <2>2. \A t \in Slot : Within(abc, t, Spent(t))'
      <3> SUFFICES ASSUME NEW t \in Slot, ~d.slot_info[t].successful_boot
                   PROVE  attempts[t] + (IF dec /\ t = s THEN 1 ELSE 0)
                            + d.slot_info[t].tries_remaining <= MaxTries + lost
        BY <1>3 DEF Within, Spent
      <3>1. attempts[t] \in Int /\ lost \in Int
        BY <1>t DEF TypeOK
      <3>2. F.slot_info[t].tries_remaining \in Int
        BY <1>1 DEF Control, Meta
      <3>3. attempts[t] + 0 + F.slot_info[t].tries_remaining <= MaxTries + lost
        BY <1>1, <1>4 DEF Within
      <3>4. d.slot_info[t].tries_remaining = IF t = s /\ dec THEN F.slot_info[t].tries_remaining - 1
                                             ELSE F.slot_info[t].tries_remaining
        BY <1>4
      <3>5. CASE t = s /\ dec
        BY <3>1, <3>2, <3>3, <3>4, <3>5
      <3>6. CASE ~(t = s /\ dec)
        BY <3>1, <3>2, <3>3, <3>4, <3>6
      <3> QED
        BY <3>5, <3>6
    <2>3. primary' # Bad => \A t \in Slot : Within(primary, t, PrimarySpent(t))'
      <3>1. CASE pc' = "store_primary"
        <4>1. primary # Bad => \A t \in Slot : Within(primary, t, 0)
          BY WithinAll
        <4> QED
          BY <1>3, <3>1, <4>1 DEF Within, PrimarySpent
      <3>2. CASE pc' \in {"store_backup", "selected"}
        BY <1>3, <1>p, <2>2, <3>2 DEF Within, PrimarySpent
      <3> QED
        BY <1>p, <3>1, <3>2
    <2>4. backup' # Bad => \A t \in Slot : Within(backup, t, BackupSpent(t))'
      <3>1. CASE pc' # "selected"
        <4>1. backup # Bad => \A t \in Slot : Within(backup, t, 0)
          BY WithinAll
        <4> QED
          BY <1>3, <3>1, <4>1 DEF Within, BackupSpent
      <3>2. CASE pc' = "selected"
        BY <1>3, <1>p, <2>2, <3>2 DEF Within, BackupSpent
      <3> QED
        BY <3>1, <3>2
    <2> QED
      BY <2>2, <2>3, <2>4 DEF TriesInv
  <1> QED
    BY <1>5, <1>6, <1>7, <1>8, <1>9, <1>10 DEF AbInv

LEMMA ScanInv == AbInv /\ Scan => AbInv'
  <1> SUFFICES ASSUME AbInv, Scan PROVE AbInv'
    OBVIOUS
  <1>1. PICK rp \in Read(primary), rb \in Read(backup) :
          ab_select_slot(FALSE, rp, rb) /\ failed' = Misread(rp, rb)
    BY DEF Scan
  <1>2. pc \in {"off", "prompt", "scanned"} /\ pslot' = 0 /\ verified' = 0
    BY DEF Scan
  <1>3. failed' \subseteq {"io", "boot"} /\ (failed' = {} => rp = primary)
    BY <1>1 DEF Misread
  <1>4. 0 \in 0 .. NumSlots
    OBVIOUS
  <1> QED
    BY <1>1, <1>2, <1>3, <1>4, SelectInv

LEMMA BootFlowInv == AbInv /\ BootFlow => AbInv'
  <1> SUFFICES ASSUME AbInv, BootFlow PROVE AbInv'
    OBVIOUS
  <1>1. PICK rp \in Read(primary), rb \in Read(backup) :
          ab_select_slot(TRUE, rp, rb) /\ failed' = failed \cup Misread(rp, rb)
    BY DEF BootFlow
  <1>2. /\ pc = "scanned" /\ pslot' = pslot
        /\ verified' \in 1 .. NumSlots /\ (pslot # 0 => verified' = pslot)
    BY DEF BootFlow
  <1>3. /\ failed' \subseteq {"io", "boot"}
        /\ failed' = {} => rp = primary /\ failed = {}
    BY <1>1 DEF Misread, AbInv, TypeOK
  <1>4. failed = {} => pslot # 0
    BY <1>2 DEF AbInv, ChoiceInv
  <1>5. pslot' \in 0 .. NumSlots /\ verified' \in 0 .. NumSlots
    BY <1>2 DEF AbInv, TypeOK
  <1> QED
    BY <1>1, <1>2, <1>3, <1>4, <1>5, SelectInv

(* Where a selection goes on once the primary is dealt with. *)
LEMMA CheckBackupFacts ==
  ASSUME AbInv, pc \in {"store_primary", "primary_torn"}
  PROVE  /\ CheckBackup(backup_stale) \in {"store_backup", "selected"}
         /\ HasBackup /\ CheckBackup(backup_stale) = "selected" => backup = abc
  BY DEF AbInv, PlaceInv, CheckBackup

LEMMA StoreInv == AbInv /\ Store => AbInv'
  <1> SUFFICES ASSUME AbInv, Store PROVE AbInv'
    OBVIOUS
  <1>0. UNCHANGED <<abc, backup_stale, count, slot, pslot, verified, failed,
                    attempts, installs, torn, lost>>
    BY DEF Store
  <1>t. TypeOK /\ PlaceInv /\ ChoiceInv /\ KeepsTryInv /\ TornInv /\ TriesInv /\ torn \in 0 .. MaxTorn
    BY DEF AbInv, TypeOK
  <1>w. ASSUME HasBackup, MaxTorn <= 1
        PROVE  /\ primary # Bad => \A s \in Slot : Within(primary, s, 0)
               /\ backup # Bad => \A s \in Slot : Within(backup, s, 0)
    BY <1>w, WithinAll
  <1>1. CASE pc = "store_primary" /\ pc' = "primary_torn" /\ primary' = Bad /\ UNCHANGED backup
    <2>1. TypeOK'
      BY <1>0, <1>t, <1>1 DEF TypeOK, Selecting
    <2>2. PlaceInv' /\ ChoiceInv'
      BY <1>0, <1>t, <1>1 DEF PlaceInv, ChoiceInv, Selecting
    <2>3. KeepsTryInv' /\ TornInv'
      BY <1>0, <1>t, <1>1 DEF KeepsTryInv, KeepsTry, TornInv
    <2>4. TriesInv'
      BY <1>0, <1>t, <1>w, <1>1 DEF TriesInv, Within, BackupSpent, Spent, Selecting
    <2> QED
      BY <2>1, <2>2, <2>3, <2>4 DEF AbInv
  <1>2. CASE pc = "store_backup" /\ pc' = "backup_torn" /\ backup' = Bad /\ UNCHANGED primary
    <2>1. TypeOK'
      BY <1>0, <1>t, <1>2 DEF TypeOK, Selecting
    <2>2. PlaceInv' /\ ChoiceInv'
      BY <1>0, <1>t, <1>2 DEF PlaceInv, ChoiceInv, Selecting
    <2>3. KeepsTryInv' /\ TornInv'
      BY <1>0, <1>t, <1>2 DEF KeepsTryInv, KeepsTry, TornInv, PlaceInv, Selecting
    <2>4. TriesInv'
      BY <1>0, <1>t, <1>2 DEF TriesInv, Within, PrimarySpent, Spent, Selecting
    <2> QED
      BY <2>1, <2>2, <2>3, <2>4 DEF AbInv
  <1>3. CASE pc = "primary_torn" /\ pc' = CheckBackup(backup_stale) /\ primary' = abc /\ UNCHANGED backup
    <2>0. abc # Bad /\ (HasBackup /\ MaxTorn <= 1 => \A s \in Slot : Within(abc, s, Spent(s)))
      BY <1>t, <1>3 DEF PlaceInv, TriesInv, Selecting
    <2>p. pc' \in {"store_backup", "selected"} /\ (HasBackup /\ pc' = "selected" => backup = abc)
      BY <1>3, CheckBackupFacts
    <2>1. TypeOK'
      BY <1>0, <1>t, <1>3, <2>p DEF TypeOK, Selecting
    <2>2. PlaceInv' /\ ChoiceInv'
      BY <1>0, <1>t, <1>3, <2>p DEF PlaceInv, ChoiceInv, Selecting
    <2>3. KeepsTryInv' /\ TornInv'
      BY <1>0, <1>t, <1>3, <2>0, <2>p DEF KeepsTryInv, KeepsTry, TornInv
    <2>4. TriesInv'
      <3> SUFFICES ASSUME HasBackup, MaxTorn <= 1 PROVE TriesInv'
        BY DEF TriesInv
      <3>1. \A s \in Slot : Within(abc, s, Spent(s))'
        BY <1>0, <2>0 DEF Within, Spent
      <3>2. \A s \in Slot : Within(primary, s, PrimarySpent(s))'
        BY <1>0, <1>3, <2>p, <3>1 DEF Within, PrimarySpent
      <3>3. CASE pc' = "selected"
        <4>1. \A s \in Slot : Within(backup, s, BackupSpent(s))'
          BY <1>0, <1>3, <2>p, <3>1, <3>3 DEF Within, BackupSpent
        <4> QED
          BY <3>1, <3>2, <4>1 DEF TriesInv
      <3>4. CASE pc' = "store_backup"
        <4>1. backup' # Bad => \A s \in Slot : Within(backup, s, BackupSpent(s))'
          <5>1. \A s \in Slot : BackupSpent(s)' = 0
            BY <3>4 DEF BackupSpent
          <5>2. backup # Bad => \A s \in Slot : Within(backup, s, 0)
            BY <1>w
          <5> QED
            BY <1>0, <1>3, <5>1, <5>2 DEF Within
        <4> QED
          BY <3>1, <3>2, <4>1 DEF TriesInv
      <3> QED
        BY <2>p, <3>3, <3>4
    <2> QED
      BY <2>1, <2>2, <2>3, <2>4 DEF AbInv
  <1>4. CASE pc = "backup_torn" /\ pc' = "selected" /\ backup' = abc /\ UNCHANGED primary
    <2>0. abc # Bad /\ (HasBackup /\ MaxTorn <= 1 => \A s \in Slot : Within(abc, s, Spent(s)))
      BY <1>t, <1>4 DEF PlaceInv, TriesInv, Selecting
    <2>1. TypeOK'
      BY <1>0, <1>t, <1>4 DEF TypeOK, Selecting
    <2>2. PlaceInv' /\ ChoiceInv'
      BY <1>0, <1>t, <1>4 DEF PlaceInv, ChoiceInv, Selecting
    <2>3. KeepsTryInv' /\ TornInv'
      BY <1>0, <1>t, <1>4, <2>0 DEF KeepsTryInv, KeepsTry, TornInv
    <2>4. TriesInv'
      <3> SUFFICES ASSUME HasBackup, MaxTorn <= 1 PROVE TriesInv'
        BY DEF TriesInv
      <3>1. \A s \in Slot : Within(abc, s, Spent(s))'
        BY <1>0, <2>0 DEF Within, Spent
      <3>2. \A s \in Slot : Within(backup, s, BackupSpent(s))'
        BY <1>0, <1>4, <3>1 DEF Within, BackupSpent
      <3>3. primary' # Bad => \A s \in Slot : Within(primary, s, PrimarySpent(s))'
        BY <1>0, <1>t, <1>4 DEF TriesInv, Within, PrimarySpent, Spent
      <3> QED
        BY <3>1, <3>2, <3>3 DEF TriesInv
    <2> QED
      BY <2>1, <2>2, <2>3, <2>4 DEF AbInv
  <1> QED
    BY <1>1, <1>2, <1>3, <1>4 DEF Store, Overwrite, Written

(* A write is cut short while U-Boot stores a copy. *)
LEMMA InterruptFacts ==
  ASSUME AbInv, Interrupt
  PROVE  /\ torn' \in 0 .. MaxTorn
         /\ MaxTorn <= 1 /\ pc \in {"primary_torn", "backup_torn"} => torn = 0 /\ torn' = 1
         /\ pc \notin {"primary_torn", "backup_torn"} => torn' = torn
  BY DEF AbInv, TypeOK, Interrupt

(* The copies when a write is cut short, wherever U-Boot goes on. *)
LEMMA InterruptTorn ==
  ASSUME AbInv, Interrupt, pc' \notin {"primary_torn", "backup_torn"}, UNCHANGED <<primary, backup>>
  PROVE  TornInv'
  <1>t. TornInv
    BY DEF AbInv
  <1>1. CASE pc = "primary_torn"
    BY <1>t, <1>1, InterruptFacts DEF TornInv
  <1>2. CASE pc = "backup_torn"
    BY <1>t, <1>2, InterruptFacts DEF TornInv
  <1>3. CASE pc \notin {"primary_torn", "backup_torn"}
    BY <1>t, <1>3, InterruptFacts DEF TornInv
  <1> QED
    BY <1>1, <1>2, <1>3

(* Outside a selection no try is under way. *)
LEMMA OutsideTries ==
  ASSUME AbInv, pc' \in {"prompt", "off", "scanned"}, primary' \in {primary, Bad},
         UNCHANGED <<backup, attempts, lost>>
  PROVE  TriesInv'
  <1>w. ASSUME HasBackup, MaxTorn <= 1
        PROVE  /\ primary # Bad => \A s \in Slot : Within(primary, s, 0)
               /\ backup # Bad => \A s \in Slot : Within(backup, s, 0)
    BY <1>w, WithinAll
  <1> QED
    <2> SUFFICES ASSUME HasBackup, MaxTorn <= 1 PROVE TriesInv'
      BY DEF TriesInv
    <2>1. \A s \in Slot : PrimarySpent(s)' = 0 /\ BackupSpent(s)' = 0
      BY DEF PrimarySpent, BackupSpent
    <2>2. primary' # Bad => \A s \in Slot : Within(primary, s, PrimarySpent(s))'
      <3>1. primary' # Bad => primary' = primary /\ primary # Bad
        OBVIOUS
      <3> QED
        BY <1>w, <2>1, <3>1 DEF Within
    <2>3. backup' # Bad => \A s \in Slot : Within(backup, s, BackupSpent(s))'
      BY <1>w, <2>1 DEF Within
    <2>4. pc' \notin Selecting
      BY DEF Selecting
    <2> QED
      BY <2>2, <2>3, <2>4 DEF TriesInv

(* An unnoticed write failure: what the block does not record makes room   *)
(* for one try more.                                                       *)
LEMMA StoreFailInv == AbInv /\ StoreFail => AbInv'
  <1> SUFFICES ASSUME AbInv, StoreFail PROVE AbInv'
    OBVIOUS
  <1>t. TypeOK /\ PlaceInv /\ ChoiceInv /\ KeepsTryInv /\ TornInv /\ TriesInv
    BY DEF AbInv
  <1>0. /\ Interrupt /\ failed' = failed \cup {"io"}
        /\ UNCHANGED <<primary, backup, abc, backup_stale, count, slot, pslot, verified,
                       attempts, installs>>
    BY DEF StoreFail
  <1>p. /\ pc \in {"store_primary", "primary_torn", "store_backup", "backup_torn"}
        /\ pc \in {"store_primary", "primary_torn"} => pc' = CheckBackup(backup_stale)
        /\ pc \in {"store_backup", "backup_torn"} => pc' = "selected"
    BY DEF StoreFail
  <1>q. /\ pc' \in {"store_backup", "selected"}
        /\ HasBackup /\ pc \in {"store_primary", "primary_torn"} /\ pc' = "selected" => backup = abc
    BY <1>p, CheckBackupFacts
  <1>l. /\ lost \in Nat /\ lost' \in 0 .. MaxLost
        /\ lost' = lost \/ (lost' = lost + 1)
        /\ pc \in {"store_primary", "store_backup"} => lost' = lost + 1
    BY <1>t DEF StoreFail, TypeOK
  <1>1. TypeOK'
    BY <1>t, <1>0, <1>l, <1>q, InterruptFacts DEF TypeOK, Selecting
  <1>2. PlaceInv' /\ ChoiceInv'
    BY <1>t, <1>0, <1>p, <1>q DEF PlaceInv, ChoiceInv, Selecting
  <1>3. KeepsTryInv'
    BY <1>t, <1>0 DEF KeepsTryInv, KeepsTry
  <1>4. TornInv'
    BY <1>0, <1>q, InterruptTorn
  <1>5. TriesInv'
    <2> SUFFICES ASSUME HasBackup, MaxTorn <= 1 PROVE TriesInv'
      BY DEF TriesInv
    <2>a. abc \in Control /\ \A s \in Slot : Within(abc, s, Spent(s))
      BY <1>t, <1>p DEF TypeOK, PlaceInv, TriesInv, Selecting
    <2>0. ASSUME NEW c \in Control, NEW s \in Slot, NEW k \in {0, 1}, Within(c, s, k),
                 ~c.slot_info[s].successful_boot
          PROVE  attempts[s] + k + c.slot_info[s].tries_remaining <= MaxTries + lost'
      <3>1. CASE lost' = lost + 1
        BY <1>t, <2>0, <3>1, WithinMore
      <3>2. CASE lost' = lost
        BY <2>0, <3>2 DEF Within
      <3> QED
        BY <1>l, <3>1, <3>2
    <2>s. \A s \in Slot : Spent(s)' = Spent(s) /\ Spent(s) \in {0, 1}
      BY <1>0, SpentFacts DEF Spent
    <2>1. \A s \in Slot : Within(abc, s, Spent(s))'
      <3> SUFFICES ASSUME NEW s \in Slot, ~abc.slot_info[s].successful_boot
                   PROVE  attempts[s] + Spent(s) + abc.slot_info[s].tries_remaining <= MaxTries + lost'
        BY <1>0, <2>s DEF Within
      <3> QED
        BY <2>a, <2>s, <2>0
    <2>2. primary' # Bad => \A s \in Slot : Within(primary, s, PrimarySpent(s))'
      <3> SUFFICES ASSUME primary # Bad, NEW s \in Slot, ~primary.slot_info[s].successful_boot
                   PROVE  attempts[s] + Spent(s) + primary.slot_info[s].tries_remaining
                            <= MaxTries + lost'
        BY <1>0, <1>q, <2>s DEF Within, PrimarySpent
      <3>1. primary \in Control /\ Within(primary, s, PrimarySpent(s)) /\ PrimarySpent(s) \in {0, 1}
        BY <1>t, SpentFacts DEF TypeOK, TriesInv
      <3>2. CASE pc = "store_primary"
        BY <1>t, <1>l, <2>s, <3>1, <3>2, WithinMore
      <3>3. CASE pc \in {"store_backup", "backup_torn"}
        <4>1. PrimarySpent(s) = Spent(s)
          BY <3>3 DEF PrimarySpent
        <4> QED
          BY <2>0, <3>1, <4>1
      <3>4. pc # "primary_torn"
        BY <1>t DEF PlaceInv
      <3> QED
        BY <1>p, <3>2, <3>3, <3>4
    <2>3. backup' # Bad => \A s \in Slot : Within(backup, s, BackupSpent(s))'
      <3>1. CASE pc' = "store_backup"
        <4> SUFFICES ASSUME backup # Bad, NEW s \in Slot, ~backup.slot_info[s].successful_boot
                     PROVE  attempts[s] + 0 + backup.slot_info[s].tries_remaining
                              <= MaxTries + lost'
          BY <1>0, <3>1 DEF Within, BackupSpent
        <4>1. backup \in Control /\ Within(backup, s, 0)
          BY <1>t, WithinAll DEF TypeOK
        <4> QED
          BY <2>0, <4>1
      <3>2. CASE pc' = "selected" /\ backup = abc
        BY <1>0, <2>1, <3>2 DEF Within, BackupSpent
      <3>3. CASE pc' = "selected" /\ pc = "store_backup"
        <4> SUFFICES ASSUME backup # Bad, NEW s \in Slot, ~backup.slot_info[s].successful_boot
                     PROVE  attempts[s] + Spent(s) + backup.slot_info[s].tries_remaining
                              <= MaxTries + lost'
          BY <1>0, <2>s, <3>3 DEF Within, BackupSpent
        <4>1. backup \in Control /\ Within(backup, s, 0)
          BY <1>t, WithinAll DEF TypeOK
        <4> QED
          BY <1>t, <1>l, <2>s, <3>3, <4>1, WithinMore
      <3>4. pc = "backup_torn" => backup' = Bad
        BY <1>t, <1>0 DEF PlaceInv
      <3> QED
        BY <1>p, <1>q, <3>1, <3>2, <3>3, <3>4
    <2> QED
      BY <2>1, <2>2, <2>3 DEF TriesInv
  <1> QED
    BY <1>1, <1>2, <1>3, <1>4, <1>5 DEF AbInv

(* A selection or a boot ends, or a scan finds the slot. *)
LEMMA LeavesSelection ==
  ASSUME AbInv, pc' \in {"prompt", "scanned"},
         UNCHANGED <<primary, backup, abc, backup_stale, count, slot, attempts, installs, torn, lost>>,
         pslot' \in 0 .. NumSlots, verified' \in 0 .. NumSlots, failed' \subseteq {"io", "boot"},
         pc \notin {"primary_torn", "backup_torn"},
         pc' = "scanned" => /\ pc \in Selecting
                            /\ failed' = {} => /\ pc = "selected" /\ failed = {} /\ ~count
                                               /\ slot # 0 /\ pslot' = slot
  PROVE  AbInv'
  <1>t. TypeOK /\ PlaceInv /\ ChoiceInv /\ KeepsTryInv /\ TornInv
    BY DEF AbInv
  <1>1. TypeOK'
    BY <1>t DEF TypeOK
  <1>2. PlaceInv'
    BY <1>t DEF PlaceInv, Selecting
  <1>3. ChoiceInv'
    BY <1>t DEF ChoiceInv, Selecting
  <1>4. KeepsTryInv' /\ TornInv'
    BY <1>t DEF KeepsTryInv, KeepsTry, TornInv
  <1>5. TriesInv'
    BY OutsideTries
  <1> QED
    BY <1>1, <1>2, <1>3, <1>4, <1>5 DEF AbInv

LEMMA ReadErrorInv == AbInv /\ ReadError => AbInv'
  <1> SUFFICES ASSUME AbInv, ReadError PROVE AbInv'
    OBVIOUS
  <1>1. /\ pc \in {"off", "scanned"} /\ pc' = "prompt"
        /\ UNCHANGED <<primary, backup, abc, backup_stale, count, slot, pslot, verified, failed,
                       attempts, installs, torn, lost>>
    BY DEF ReadError
  <1>2. pslot' \in 0 .. NumSlots /\ verified' \in 0 .. NumSlots /\ failed' \subseteq {"io", "boot"}
    BY <1>1 DEF AbInv, TypeOK
  <1> QED
    BY <1>1, <1>2, LeavesSelection

LEMMA StoreErrorInv == AbInv /\ StoreError => AbInv'
  <1> SUFFICES ASSUME AbInv, StoreError PROVE AbInv'
    OBVIOUS
  <1>1. /\ pc \in {"store_primary", "store_backup"} /\ pc' \in {"prompt", "scanned"}
        /\ failed' = failed \cup {"io"}
        /\ UNCHANGED <<primary, backup, abc, backup_stale, count, slot, pslot, verified,
                       attempts, installs, torn, lost>>
    BY DEF StoreError
  <1>2. pslot' \in 0 .. NumSlots /\ verified' \in 0 .. NumSlots /\ failed' \subseteq {"io", "boot"}
    BY <1>1 DEF AbInv, TypeOK
  <1>3. failed' # {} /\ pc \in Selecting
    BY <1>1 DEF Selecting
  <1> QED
    BY <1>1, <1>2, <1>3, LeavesSelection

LEMMA ScanDoneInv == AbInv /\ ScanDone => AbInv'
  <1> SUFFICES ASSUME AbInv, ScanDone PROVE AbInv'
    OBVIOUS
  <1>1. /\ pc = "selected" /\ ~count /\ pc' \in {"scanned", "prompt"}
        /\ pc' = "scanned" => pslot' = slot /\ slot \in 1 .. NumSlots
        /\ pc' = "prompt" => pslot' = pslot
        /\ UNCHANGED <<primary, backup, abc, backup_stale, count, slot, verified, failed,
                       attempts, installs, torn, lost>>
    BY DEF ScanDone
  <1>2. pslot' \in 0 .. NumSlots /\ verified' \in 0 .. NumSlots /\ failed' \subseteq {"io", "boot"}
    BY <1>1 DEF AbInv, TypeOK
  <1>3. slot \in 1 .. NumSlots => slot # 0
    OBVIOUS
  <1>4. pc \in Selecting
    BY <1>1 DEF Selecting
  <1> QED
    BY <1>1, <1>2, <1>3, <1>4, LeavesSelection

LEMMA LoadFailsInv == AbInv /\ LoadFails => AbInv'
  <1> SUFFICES ASSUME AbInv, LoadFails PROVE AbInv'
    OBVIOUS
  <1>1. /\ pc = "selected" /\ pc' = "scanned" /\ pslot' \in {slot, 0}
        /\ failed' = failed \cup {"boot"}
        /\ UNCHANGED <<primary, backup, abc, backup_stale, count, slot, verified,
                       attempts, installs, torn, lost>>
    BY DEF LoadFails
  <1>2. pslot' \in 0 .. NumSlots /\ verified' \in 0 .. NumSlots /\ failed' \subseteq {"io", "boot"}
    BY <1>1 DEF AbInv, TypeOK
  <1>3. failed' # {} /\ pc \in Selecting
    BY <1>1 DEF Selecting
  <1> QED
    BY <1>1, <1>2, <1>3, LeavesSelection

(* The attempt, for which every copy has room, is made. *)
LEMMA StartOsInv == AbInv /\ StartOs => AbInv'
  <1> SUFFICES ASSUME AbInv, StartOs PROVE AbInv'
    OBVIOUS
  <1>t. TypeOK /\ PlaceInv /\ ChoiceInv /\ KeepsTryInv /\ TornInv /\ TriesInv
    BY DEF AbInv
  <1>0. /\ pc = "selected" /\ count
        /\ UNCHANGED <<primary, backup, abc, backup_stale, count, slot, verified, installs, torn, lost>>
    BY DEF StartOs
  <1>1. CASE slot = 0
    <2>1. pc' = "scanned" /\ failed' = failed \cup {"boot"} /\ UNCHANGED <<pslot, attempts>>
      BY <1>1 DEF StartOs
    <2>2. pslot' \in 0 .. NumSlots /\ verified' \in 0 .. NumSlots /\ failed' \subseteq {"io", "boot"}
      BY <1>t, <1>0, <2>1 DEF TypeOK
    <2>3. failed' # {} /\ pc \in Selecting
      BY <1>0, <2>1 DEF Selecting
    <2> QED
      BY <1>0, <2>1, <2>2, <2>3, LeavesSelection
  <1>2. CASE slot # 0
    <2>1. /\ pc' = "os" /\ pslot' = 0 /\ failed' = failed /\ slot \in Slot
          /\ attempts \in [Slot -> 0 .. MaxTries + MaxLost + 1]
      BY <1>t, <1>2 DEF StartOs, TypeOK, Slot
    <2>2. attempts' = [attempts EXCEPT ![slot] =
             IF abc.slot_info[slot].successful_boot \/ attempts[slot] > MaxTries + MaxLost
             THEN attempts[slot] ELSE attempts[slot] + 1]
      BY <1>2 DEF StartOs
    <2>3. attempts' \in [Slot -> 0 .. MaxTries + MaxLost + 1]
      <3>1. attempts[slot] \in 0 .. MaxTries + MaxLost + 1
        BY <2>1
      <3>2. (IF abc.slot_info[slot].successful_boot \/ attempts[slot] > MaxTries + MaxLost
             THEN attempts[slot] ELSE attempts[slot] + 1) \in 0 .. MaxTries + MaxLost + 1
        BY <3>1
      <3> QED
        BY <2>1, <2>2, <3>2
    <2>4. TypeOK'
      <3>1. 0 \in 0 .. NumSlots
        OBVIOUS
      <3> QED
        BY <1>t, <1>0, <2>1, <2>3, <3>1 DEF TypeOK
    <2>5. PlaceInv' /\ ChoiceInv'
      BY <1>t, <1>0, <1>2, <2>1 DEF PlaceInv, ChoiceInv, Selecting
    <2>6. KeepsTryInv' /\ TornInv'
      BY <1>t, <1>0, <2>1 DEF KeepsTryInv, KeepsTry, TornInv
    <2>7. ASSUME HasBackup, MaxTorn <= 1, NEW c \in Control, NEW s \in Slot,
                 Within(c, s, Spent(s)), ~c.slot_info[s].successful_boot
          PROVE  attempts'[s] + 0 + c.slot_info[s].tries_remaining <= MaxTries + lost
      <3>1. attempts[s] + Spent(s) + c.slot_info[s].tries_remaining <= MaxTries + lost
        BY <2>7 DEF Within
      <3>2. c.slot_info[s].tries_remaining \in Int /\ attempts[s] \in Int /\ lost \in Int
        BY <1>t, <2>1, <2>7 DEF Control, Meta, TypeOK
      <3>3. CASE s = slot /\ ~abc.slot_info[s].successful_boot
        <4>1. Spent(s) = 1
          BY <1>0, <3>3 DEF Spent
        <4>2. attempts'[s] = attempts[s] \/ attempts'[s] = attempts[s] + 1
          BY <2>1, <2>2, <3>3
        <4> QED
          BY <3>1, <3>2, <4>1, <4>2
      <3>4. CASE ~(s = slot /\ ~abc.slot_info[s].successful_boot)
        <4>1. attempts'[s] = attempts[s]
          BY <2>1, <2>2, <3>4
        <4> QED
          BY <3>1, <3>2, <4>1, SpentFacts
      <3> QED
        BY <3>3, <3>4
    <2>8. TriesInv'
      <3> SUFFICES ASSUME HasBackup, MaxTorn <= 1 PROVE TriesInv'
        BY DEF TriesInv
      <3>0. \A s \in Slot : /\ PrimarySpent(s) = Spent(s) /\ BackupSpent(s) = Spent(s)
                            /\ PrimarySpent(s)' = 0 /\ BackupSpent(s)' = 0
        BY <1>0, <2>1 DEF PrimarySpent, BackupSpent
      <3>1. primary' # Bad => \A s \in Slot : Within(primary, s, PrimarySpent(s))'
        <4> SUFFICES ASSUME primary # Bad, NEW s \in Slot, ~primary.slot_info[s].successful_boot
                     PROVE  attempts'[s] + 0 + primary.slot_info[s].tries_remaining <= MaxTries + lost
          BY <1>0, <3>0 DEF Within
        <4>1. primary \in Control /\ Within(primary, s, Spent(s))
          BY <1>t, <3>0 DEF TypeOK, TriesInv
        <4> QED
          BY <2>7, <4>1
      <3>2. backup' # Bad => \A s \in Slot : Within(backup, s, BackupSpent(s))'
        <4> SUFFICES ASSUME backup # Bad, NEW s \in Slot, ~backup.slot_info[s].successful_boot
                     PROVE  attempts'[s] + 0 + backup.slot_info[s].tries_remaining <= MaxTries + lost
          BY <1>0, <3>0 DEF Within
        <4>1. backup \in Control /\ Within(backup, s, Spent(s))
          BY <1>t, <3>0 DEF TypeOK, TriesInv
        <4> QED
          BY <2>7, <4>1
      <3>3. pc' \notin Selecting
        BY <2>1 DEF Selecting
      <3> QED
        BY <3>1, <3>2, <3>3 DEF TriesInv
    <2> QED
      BY <2>4, <2>5, <2>6, <2>8 DEF AbInv
  <1> QED
    BY <1>1, <1>2

(* The system writes metadata that marks no slot good without a try and    *)
(* gives back no try that was used.                                        *)
LEMMA OsWriteInv ==
  ASSUME AbInv, NEW c \in Control, OsWrite(c), OsKeepsTry => KeepsTry(c),
         attempts' \in [Slot -> 0 .. MaxTries + MaxLost + 1], installs' \in 0 .. MaxInstalls,
         \A s \in Slot : attempts'[s] <= attempts[s],
         HasBackup /\ MaxTorn <= 1 =>
             \A s \in Slot : ~c.slot_info[s].successful_boot
                => attempts'[s] + c.slot_info[s].tries_remaining <= MaxTries + lost
  PROVE  AbInv'
  <1>t. TypeOK /\ PlaceInv /\ ChoiceInv /\ KeepsTryInv /\ TornInv /\ TriesInv
    BY DEF AbInv
  <1>0. /\ pc = "os" /\ primary' = c /\ primary' # Bad
        /\ UNCHANGED <<backup, abc, backup_stale, pc, count, slot, pslot, verified, failed, torn, lost>>
    BY BadIsNotControl DEF OsWrite
  <1>1. TypeOK'
    BY <1>t, <1>0 DEF TypeOK
  <1>2. PlaceInv' /\ ChoiceInv'
    BY <1>t, <1>0 DEF PlaceInv, ChoiceInv, Selecting
  <1>3. KeepsTryInv' /\ TornInv'
    BY <1>t, <1>0 DEF KeepsTryInv, KeepsTry, TornInv
  <1>4. TriesInv'
    <2> SUFFICES ASSUME HasBackup, MaxTorn <= 1 PROVE TriesInv'
      BY DEF TriesInv
    <2>0. \A s \in Slot : PrimarySpent(s)' = 0 /\ BackupSpent(s)' = 0
      BY <1>0 DEF PrimarySpent, BackupSpent
    <2>1. ASSUME backup # Bad, NEW s \in Slot PROVE Within(backup, s, BackupSpent(s))'
      <3>1. Within(backup, s, 0) /\ backup \in Control
        BY <1>t, <2>1, WithinAll DEF TypeOK
      <3>2. /\ attempts[s] \in Int /\ attempts'[s] \in Int /\ attempts'[s] <= attempts[s]
            /\ backup.slot_info[s].tries_remaining \in Int /\ lost \in Int
        BY <1>t, <3>1 DEF TypeOK, Control, Meta
      <3> QED
        BY <1>0, <2>0, <3>1, <3>2 DEF Within
    <2>2. ASSUME NEW s \in Slot PROVE Within(primary, s, PrimarySpent(s))'
      <3>1. attempts'[s] \in Int
        BY <2>2
      <3> QED
        BY <1>0, <2>0, <2>2, <3>1 DEF Within
    <2> QED
      BY <1>0, <2>1, <2>2 DEF TriesInv, Selecting
  <1> QED
    BY <1>1, <1>2, <1>3, <1>4 DEF AbInv

(* The metadata of the running system. *)
LEMMA RunningFacts ==
  ASSUME AbInv, pc = "os", primary # Bad
  PROVE  /\ slot \in Slot /\ primary \in Control /\ primary # Bad
         /\ primary.slot_info \in [Slot -> Meta] /\ primary.slot_suffix \in Slot
         /\ attempts \in [Slot -> 0 .. MaxTries + MaxLost + 1] /\ installs \in 0 .. MaxInstalls
         /\ \A s \in Slot : primary.slot_info[s].tries_remaining \in Int /\ attempts[s] \in Int
  <1>1. slot \in Slot /\ primary \in Control /\ primary # Bad
    BY DEF AbInv, PlaceInv, ChoiceInv, TypeOK, Slot
  <1>2. attempts \in [Slot -> 0 .. MaxTries + MaxLost + 1] /\ installs \in 0 .. MaxInstalls
    BY DEF AbInv, TypeOK
  <1>3. primary.slot_info \in [Slot -> Meta] /\ primary.slot_suffix \in Slot
    BY <1>1 DEF Control
  <1>4. ASSUME NEW s \in Slot
        PROVE  primary.slot_info[s].tries_remaining \in Int /\ attempts[s] \in Int
    BY <1>2, <1>3 DEF Meta
  <1> QED
    BY <1>1, <1>2, <1>3, <1>4

(* Metadata with one or more slots rewritten. *)
LEMMA Rewrites ==
  ASSUME NEW c \in Control, NEW f \in [Slot -> Meta]
  PROVE  [c EXCEPT !.slot_info = f] \in Control /\ [c EXCEPT !.slot_info = f].slot_info = f
  BY DEF Control

LEMMA OsMarkSuccessfulInv == AbInv /\ OsMarkSuccessful => AbInv'
  <1> SUFFICES ASSUME AbInv, OsMarkSuccessful PROVE AbInv'
    OBVIOUS
  <1>0. pc = "os" /\ primary # Bad
    BY DEF OsMarkSuccessful, OsWrite
  <1>1. primary.slot_info[slot] \in Meta /\ 1 \in 0 .. MaxTries
    BY <1>0, RunningFacts
  <1> DEFINE m == [primary.slot_info[slot] EXCEPT !.successful_boot = TRUE,
                      !.tries_remaining = IF OsKeepsTry /\ @ = 0 THEN 1 ELSE @]
             f == [primary.slot_info EXCEPT ![slot] = m]
             c == [primary EXCEPT !.slot_info = f]
  <1>2. /\ m \in Meta /\ m.successful_boot
        /\ OsKeepsTry => m.tries_remaining # 0
    <2> DEFINE r == IF OsKeepsTry /\ primary.slot_info[slot].tries_remaining = 0 THEN 1
                    ELSE primary.slot_info[slot].tries_remaining
    <2>1. r \in 0 .. MaxTries /\ (OsKeepsTry => r # 0)
      BY <1>1 DEF Meta
    <2>2. m = [primary.slot_info[slot] EXCEPT !.successful_boot = TRUE, !.tries_remaining = r]
      BY <1>1 DEF Meta
    <2> HIDE DEF r, m
    <2> QED
      BY <1>1, <2>1, <2>2 DEF Meta
  <1>3. OsWrite(c) /\ UNCHANGED <<attempts, installs>>
    BY <1>0, RunningFacts DEF OsMarkSuccessful, Control, Meta
  <1> HIDE DEF m
  <1>4. /\ f \in [Slot -> Meta] /\ f[slot] = m
        /\ \A s \in Slot : s # slot => f[s] = primary.slot_info[s]
    BY <1>0, <1>2, RunningFacts
  <1> HIDE DEF f
  <1>5. c \in Control /\ c.slot_info = f
    BY <1>0, <1>4, Rewrites, RunningFacts
  <1> HIDE DEF c
  <1>6. OsKeepsTry => KeepsTry(c)
    BY <1>0, <1>2, <1>4, <1>5, RunningFacts DEF KeepsTry, AbInv, KeepsTryInv
  <1>7. HasBackup /\ MaxTorn <= 1 =>
            \A s \in Slot : ~c.slot_info[s].successful_boot
               => attempts'[s] + c.slot_info[s].tries_remaining <= MaxTries + lost
    <2> SUFFICES ASSUME HasBackup, MaxTorn <= 1, NEW s \in Slot, ~c.slot_info[s].successful_boot
                 PROVE  attempts'[s] + c.slot_info[s].tries_remaining <= MaxTries + lost
      OBVIOUS
    <2>1. s # slot
      BY <1>2, <1>4, <1>5
    <2> QED
      BY <1>0, <1>3, <1>4, <1>5, <2>1, RunningFacts DEF AbInv, TypeOK, TriesInv, Within, PrimarySpent
  <1>8. \A s \in Slot : attempts'[s] <= attempts[s]
    BY <1>0, <1>3, RunningFacts
  <1> QED
    BY <1>0, <1>3, <1>5, <1>6, <1>7, <1>8, RunningFacts, OsWriteInv

LEMMA OsMarkCorruptedInv == AbInv /\ OsMarkCorrupted => AbInv'
  <1> SUFFICES ASSUME AbInv, OsMarkCorrupted PROVE AbInv'
    OBVIOUS
  <1>0. pc = "os" /\ primary # Bad
    BY DEF OsMarkCorrupted, OsWrite
  <1>1. primary.slot_info[slot] \in Meta
    BY <1>0, RunningFacts
  <1> DEFINE m == [primary.slot_info[slot] EXCEPT !.verity_corrupted = TRUE]
             f == [primary.slot_info EXCEPT ![slot] = m]
             c == [primary EXCEPT !.slot_info = f]
  <1>2. /\ m \in Meta /\ m.successful_boot = primary.slot_info[slot].successful_boot
        /\ m.tries_remaining = primary.slot_info[slot].tries_remaining
    BY <1>1 DEF Meta
  <1>3. OsWrite(c) /\ UNCHANGED <<attempts, installs>>
    BY <1>0, RunningFacts DEF OsMarkCorrupted, Control, Meta
  <1> HIDE DEF m
  <1>4. /\ f \in [Slot -> Meta]
        /\ \A s \in Slot : /\ f[s].successful_boot = primary.slot_info[s].successful_boot
                           /\ f[s].tries_remaining = primary.slot_info[s].tries_remaining
    BY <1>0, <1>2, RunningFacts
  <1> HIDE DEF f
  <1>5. c \in Control /\ c.slot_info = f
    BY <1>0, <1>4, Rewrites, RunningFacts
  <1> HIDE DEF c
  <1>6. OsKeepsTry => KeepsTry(c)
    BY <1>0, <1>4, <1>5, RunningFacts DEF KeepsTry, AbInv, KeepsTryInv
  <1>7. HasBackup /\ MaxTorn <= 1 =>
            \A s \in Slot : ~c.slot_info[s].successful_boot
               => attempts'[s] + c.slot_info[s].tries_remaining <= MaxTries + lost
    BY <1>0, <1>3, <1>4, <1>5, RunningFacts DEF AbInv, TypeOK, TriesInv, Within, PrimarySpent
  <1>8. \A s \in Slot : attempts'[s] <= attempts[s]
    BY <1>0, <1>3, RunningFacts
  <1> QED
    BY <1>0, <1>3, <1>5, <1>6, <1>7, <1>8, RunningFacts, OsWriteInv

LEMMA OsInstallInv == ASSUME AbInv, NEW n \in Slot, OsInstall(n) PROVE AbInv'
  <1>0. pc = "os" /\ primary # Bad /\ n # slot /\ installs < MaxInstalls /\ installs' = installs + 1
        /\ attempts' = [attempts EXCEPT ![n] = 0]
    BY DEF OsInstall, OsWrite
  <1>1. primary.slot_info[slot] \in Meta /\ MaxPriority - 1 \in 0 .. MaxPriority
    BY <1>0, RunningFacts
  <1> DEFINE m == [primary.slot_info[slot] EXCEPT !.priority = MaxPriority - 1]
             f == [primary.slot_info EXCEPT ![n] = Fresh, ![slot] = m]
             c == [primary EXCEPT !.slot_info = f]
  <1>2. /\ m \in Meta /\ m.successful_boot = primary.slot_info[slot].successful_boot
        /\ m.tries_remaining = primary.slot_info[slot].tries_remaining
    BY <1>1 DEF Meta
  <1>3. OsWrite(c)
    BY <1>0, RunningFacts DEF OsInstall, Control, Meta
  <1> HIDE DEF m
  <1>4. /\ f \in [Slot -> Meta] /\ f[n] = Fresh
        /\ \A s \in Slot \ {n} : /\ f[s].successful_boot = primary.slot_info[s].successful_boot
                                 /\ f[s].tries_remaining = primary.slot_info[s].tries_remaining
    BY <1>0, <1>2, RunningFacts, FreshIsMeta
  <1> HIDE DEF f
  <1>5. c \in Control /\ c.slot_info = f
    BY <1>0, <1>4, Rewrites, RunningFacts
  <1> HIDE DEF c
  <1>f. ~Fresh.successful_boot /\ Fresh.tries_remaining = MaxTries
    BY DEF Fresh
  <1>6. OsKeepsTry => KeepsTry(c)
    BY <1>0, <1>4, <1>5, <1>f, RunningFacts DEF KeepsTry, AbInv, KeepsTryInv
  <1>a. /\ attempts' \in [Slot -> 0 .. MaxTries + MaxLost + 1] /\ attempts'[n] = 0
        /\ \A s \in Slot \ {n} : attempts'[s] = attempts[s]
    <2>1. 0 \in 0 .. MaxTries + MaxLost + 1
      OBVIOUS
    <2> QED
      BY <1>0, <2>1, RunningFacts
  <1>7. HasBackup /\ MaxTorn <= 1 =>
            \A s \in Slot : ~c.slot_info[s].successful_boot
               => attempts'[s] + c.slot_info[s].tries_remaining <= MaxTries + lost
    <2> SUFFICES ASSUME HasBackup, MaxTorn <= 1, NEW s \in Slot, ~c.slot_info[s].successful_boot
                 PROVE  attempts'[s] + c.slot_info[s].tries_remaining <= MaxTries + lost
      OBVIOUS
    <2>l. lost \in Nat
      BY DEF AbInv, TypeOK
    <2>1. CASE s = n
      BY <1>4, <1>5, <1>f, <1>a, <2>l, <2>1
    <2>2. CASE s # n
      BY <1>0, <1>4, <1>5, <1>a, <2>2, RunningFacts DEF AbInv, TypeOK, TriesInv, Within, PrimarySpent
    <2> QED
      BY <2>1, <2>2
  <1>8. \A s \in Slot : attempts'[s] <= attempts[s]
    <2> SUFFICES ASSUME NEW s \in Slot PROVE attempts'[s] <= attempts[s]
      OBVIOUS
    <2>1. attempts[s] \in 0 .. MaxTries + MaxLost + 1
      BY <1>0, RunningFacts
    <2> QED
      BY <1>a, <2>1
  <1>9. installs' \in 0 .. MaxInstalls
    BY <1>0, RunningFacts
  <1> QED
    BY <1>3, <1>5, <1>6, <1>7, <1>8, <1>9, <1>a, OsWriteInv

LEMMA PowerLossInv == AbInv /\ PowerLoss => AbInv'
  <1> SUFFICES ASSUME AbInv, PowerLoss PROVE AbInv'
    OBVIOUS
  <1>t. TypeOK /\ PlaceInv /\ KeepsTryInv /\ TornInv /\ TriesInv
    BY DEF AbInv
  <1>0. /\ pc' = "off" /\ UNCHANGED <<backup, attempts, installs, lost>>
        /\ abc' = Bad /\ backup_stale' = FALSE /\ count' = FALSE /\ slot' = 0
        /\ pslot' = 0 /\ verified' = 0 /\ failed' = {}
    BY DEF PowerLoss
  <1>1. primary' \in {primary, Bad} /\ torn' \in 0 .. MaxTorn
    <2>1. CASE Interrupt /\ UNCHANGED primary
      BY <2>1, InterruptFacts
    <2>2. CASE pc = "os" /\ primary' = Bad /\ torn < MaxTorn /\ torn' = torn + 1
      BY <1>t, <2>2 DEF TypeOK
    <2> QED
      BY <2>1, <2>2 DEF PowerLoss
  <1>2. TypeOK'
    <2>1. 0 \in 0 .. NumSlots
      OBVIOUS
    <2> QED
      BY <1>t, <1>0, <1>1, <2>1 DEF TypeOK
  <1>3. PlaceInv' /\ ChoiceInv' /\ KeepsTryInv'
    BY <1>t, <1>0, <1>1 DEF PlaceInv, ChoiceInv, KeepsTryInv, KeepsTry, Selecting
  <1>4. TornInv'
    <2>1. CASE Interrupt /\ UNCHANGED primary
      BY <1>0, <2>1, InterruptTorn
    <2>2. CASE pc = "os" /\ primary' = Bad /\ torn < MaxTorn /\ torn' = torn + 1
      <3> SUFFICES ASSUME HasBackup, MaxTorn <= 1 PROVE TornInv'
        BY DEF TornInv
      <3>1. torn = 0 /\ torn' = 1
        BY <1>t, <2>2 DEF TypeOK
      <3>2. backup # Bad
        BY <1>t, <2>2, <3>1 DEF TornInv
      <3> QED
        BY <1>0, <3>1, <3>2 DEF TornInv
    <2> QED
      BY <2>1, <2>2 DEF PowerLoss
  <1>5. TriesInv'
    BY <1>0, <1>1, OutsideTries
  <1> QED
    BY <1>2, <1>3, <1>4, <1>5 DEF AbInv

LEMMA UnchangedAb == AbInv /\ UNCHANGED vars => AbInv'
  <1> SUFFICES ASSUME AbInv, UNCHANGED vars PROVE AbInv'
    OBVIOUS
  <1>1. TypeOK' /\ PlaceInv' /\ ChoiceInv' /\ KeepsTryInv' /\ TornInv'
    BY DEF vars, AbInv, TypeOK, PlaceInv, ChoiceInv, KeepsTryInv, KeepsTry, TornInv
  <1>2. TriesInv'
    BY DEF vars, AbInv, TriesInv, Within, PrimarySpent, BackupSpent, Spent
  <1> QED
    BY <1>1, <1>2 DEF AbInv

-----------------------------------------------------------------------------
(* Whatever the system writes, wherever power fails, whichever reads and   *)
(* writes of the device fail unnoticed and however often a bootflow is     *)
(* booted again, the copies of the metadata and the choice made from them  *)
(* agree as far as ab_select_slot and boot_android_normal can make them.   *)
THEOREM AbInvariant == Spec => []AbInv
  <1>1. AbInv /\ [Next]_vars => AbInv'
    BY ScanInv, BootFlowInv, ReadErrorInv, StoreInv, StoreFailInv, StoreErrorInv, ScanDoneInv,
       StartOsInv, LoadFailsInv, OsMarkSuccessfulInv, OsMarkCorruptedInv, OsInstallInv,
       PowerLossInv, UnchangedAb
       DEF Next
  <1> QED
    BY <1>1, InitAbInv, PTL DEF Spec

(* Unless something failed since the scan, boot_android_normal starts the  *)
(* slot whose images it verified although it selects again; unless a       *)
(* transfer failed, the system starts from two equal copies; no slot that  *)
(* could be booted is refused, when the system leaves a slot it marks      *)
(* successful a try.                                                       *)
THEOREM SelectionHolds == Spec => []SelectionInv
  <1>1. AbInv => SelectionInv
    <2> SUFFICES ASSUME AbInv PROVE SelectionInv
      OBVIOUS
    <2>1. BootsVerifiedSlot /\ BackupFollows
      BY DEF AbInv, PlaceInv, ChoiceInv, BootsVerifiedSlot, BackupFollows
    <2>2. OsKeepsTry => SuccessfulIsBootable
      <3> SUFFICES ASSUME OsKeepsTry, pc = "selected", slot = 0, NEW s \in Slot
                   PROVE  \/ abc.slot_info[s].verity_corrupted
                          \/ abc.slot_info[s].tries_remaining = 0 /\ ~abc.slot_info[s].successful_boot
        BY DEF SuccessfulIsBootable
      <3>1. SelectLoop(abc.slot_info) = 0 /\ abc # Bad
        BY DEF AbInv, ChoiceInv, PlaceInv, Selecting
      <3>2. ~Bootable(abc.slot_info[s])
        BY <3>1, SelectLoopFacts
      <3>3. abc.slot_info[s].successful_boot => abc.slot_info[s].tries_remaining # 0
        BY <3>1 DEF AbInv, KeepsTryInv, KeepsTry
      <3> QED
        BY <3>2, <3>3 DEF Bootable
    <2> QED
      BY <2>1, <2>2 DEF AbInv, SelectionInv
  <1> QED
    BY <1>1, AbInvariant, PTL

(* While at most one write is cut short or one read fails, an update that  *)
(* never proves good is started at most as often as it was installed with  *)
(* tries, and once more for each write of ab_control_store that failed     *)
(* unnoticed: going back to the other copy of the metadata or booting the  *)
(* bootflow again gives it no try.                                         *)
THEOREM TriesAreNotRegained ==
  ASSUME MaxTorn <= 1
  PROVE  Spec => []NoExtraTries
  <1>1. AbInv => NoExtraTries
    <2> DEFINE L == Loaded(primary, backup)
    <2> SUFFICES ASSUME AbInv, HasBackup, pc \in {"off", "os"}, NEW s \in Slot,
                        ~L.slot_info[s].successful_boot
                 PROVE  attempts[s] + L.slot_info[s].tries_remaining <= MaxTries + lost
      BY DEF NoExtraTries
    <2>1. L \in {primary, backup} /\ L # Bad
      BY DEF AbInv, TornInv, Loaded
    <2>2. Within(L, s, 0)
      BY <2>1, WithinAll
    <2>3. L \in Control /\ attempts[s] \in Int /\ lost \in Int
      BY LoadedIsControl DEF AbInv, TypeOK
    <2>4. L.slot_info[s].tries_remaining \in Int
      BY <2>3 DEF Control, Meta
    <2> HIDE DEF L
    <2> QED
      BY <2>2, <2>3, <2>4 DEF Within
  <1> QED
    BY <1>1, AbInvariant, PTL
=============================================================================
