-------------------------------- MODULE OTA ----------------------------------
(***************************************************************************)
(* Which application a device boots: the two otadata sectors as            *)
(* components/app_update (the application) and components/bootloader_      *)
(* support (the bootloader) write them, an erase and a write at a time,    *)
(* with a power loss possible at any point.  An interrupted erase or write *)
(* of a sector leaves a CRC that does not match.                           *)
(***************************************************************************)
EXTENDS Integers, Sequences

CONSTANTS Builds,      \* the configurations looked at, see Build
          MaxSeq,      \* bound on ota_seq
          MaxLosses    \* bound on power losses

(* Uses: "download"  a download into the partition selected for the next boot
         "again"     esp_ota_set_boot_partition for the partition already selected
         "reselect"  esp_ota_set_boot_partition for another one before the restart, or
                     for the running partition
         "early"     the app marks itself valid or invalid after selecting another
         "update"    an app that marked itself invalid starts a download
         "switch"    an unconfirmed app selects another partition
         "erase"     an unconfirmed app, or one that is not selected any more,
                     erases the previous one
         "resume"    an unconfirmed app resumes a download
         "factory"   esp_ota_set_boot_partition for the factory app *)
AllUses == {"download", "again", "reselect", "early", "update",
            "switch", "erase", "resume", "factory"}

\* A partition table, an option and a caller:
Build == [slots    : Nat \ {0},      \* number of ota_x partitions
          factory  : BOOLEAN,        \* there is a factory app
          rollback : BOOLEAN,        \* CONFIG_BOOTLOADER_APP_ROLLBACK_ENABLE
          uses     : SUBSET AllUses] \* what callers do beyond the documented order

ASSUME OTAAssumption ==
    /\ Builds \subseteq Build
    /\ \A b \in Builds : b.slots <= MaxSeq
    /\ MaxSeq \in Nat \ {0} /\ MaxLosses \in Nat

VARIABLES build,     \* the configuration of this device
          otadata,   \* the two sectors
          img,       \* slots whose image passes esp_image_verify
          pc,        \* "off", "boot" (the bootloader), "load", "app"
          running,   \* esp_ota_get_running_partition, None in the bootloader
          jobs,      \* the erases and writes the current call has still to do
          update,    \* the partition of the open OTA handle, or None
          losses,    \* power losses so far
          good,      \* history: the last app that confirmed itself
          chosen,    \* history: the app selected since and not confirmed yet
          tries      \* history: how often chosen has been started, up to 2

hist == <<good, chosen, tries>>
vars == <<build, otadata, img, pc, running, jobs, update, losses, good, chosen, tries>>

NSlots     == build.slots
HasFactory == build.factory
Rollback   == build.rollback
Uses       == build.uses

Factory == -1                                   \* FACTORY_INDEX
None    == -2
Slots   == (IF HasFactory THEN -1 ELSE 0) .. NSlots - 1

States == {"NEW", "PENDING_VERIFY", "VALID", "INVALID", "ABORTED", "UNDEFINED"}
Entry  == [seq : 0 .. MaxSeq, st : States, crc : BOOLEAN]
Blank  == [seq |-> 0, st |-> "UNDEFINED", crc |-> FALSE]    \* seq 0 stands for 0xFFFFFFFF
Other(i) == 1 - i

Slot(e) == (e.seq - 1) % NSlots

-----------------------------------------------------------------------------
(* bootloader_common_loader.c: the selection both sides share. *)
SelectInvalid(e) == e.seq = 0 \/ e.st \in {"INVALID", "ABORTED"}
SelectValid(e)   == ~SelectInvalid(e) /\ e.crc

ActiveMutant(od) ==
    CASE SelectValid(od[0]) /\ SelectValid(od[1]) -> IF od[0].seq <= od[1].seq THEN 0 ELSE 1
      [] SelectValid(od[0]) /\ ~SelectValid(od[1]) -> 0
      [] ~SelectValid(od[0]) /\ SelectValid(od[1]) -> 1
      [] OTHER -> -1

Active(od) ==
    CASE SelectValid(od[0]) /\ SelectValid(od[1]) -> IF od[0].seq >= od[1].seq THEN 0 ELSE 1
      [] SelectValid(od[0]) /\ ~SelectValid(od[1]) -> 0
      [] ~SelectValid(od[0]) /\ SelectValid(od[1]) -> 1
      [] OTHER -> -1

\* The least sequence number from seq on that maps to slot s.
SeqFor(s, seq) == CHOOSE q \in seq .. seq + NSlots - 1 : q % NSlots = (s + 1) % NSlots

Init ==
    /\ build \in Builds
    /\ otadata = [i \in {0, 1} |-> Blank]
    /\ img = {IF HasFactory THEN Factory ELSE 0}
    /\ pc = "off"
    /\ running = None
    /\ jobs = <<>>
    /\ update = None
    /\ losses = 0
    /\ good = (IF HasFactory THEN Factory ELSE 0)
    /\ chosen = None
    /\ tries = 0

-----------------------------------------------------------------------------
(* Flash operations on the otadata partition. *)
EraseJob(i)    == [op |-> "erase", sec |-> i, ent |-> Blank]
FormatJob(i)   == [op |-> "format", sec |-> i, ent |-> Blank]   \* an erase of the whole partition
WriteJob(i, e) == [op |-> "write", sec |-> i, ent |-> e]

\* The erase of at most one sector.
EraseAll(secs) == IF secs = {} THEN <<>> ELSE <<EraseJob(CHOOSE i \in secs : TRUE)>>

\* rewrite_ota_seq, write_otadata
Rewrite(i, e) == <<EraseJob(i), WriteJob(i, e)>>

\* Where mark_app_invalid_rollback goes: esp_ota_check_rollback_is_possible.
RollbackSlot(od) ==
    LET last == od[Other(Active(od))]
    IN  IF SelectValid(last) THEN Slot(last) ELSE Factory

\* History: what sector i holding e makes of the good app.  An app that gave itself
\* up is not the good one once its entry no longer counts; with the partition
\* formatted the good one is the factory app.
GoodAfter(i, e) ==
    CASE jobs[Len(jobs)].ent.st = "INVALID" /\ SelectValid(otadata[i]) /\ ~SelectValid(e)
           -> RollbackSlot(otadata)
      [] Head(jobs).op = "format" /\ Active([otadata EXCEPT ![i] = e]) = -1 -> Factory
      [] OTHER -> good

JobStep ==
    LET j      == Head(jobs)
        e      == IF j.op = "write" /\ otadata[j.sec] # Blank    \* not erased first
                  THEN [j.ent EXCEPT !.crc = FALSE] ELSE j.ent
        Is(st) == j.op = "write" /\ j.ent.st = st
        new    == Is("NEW") \/ Is("UNDEFINED")
    IN  /\ jobs # <<>>
        /\ jobs' = Tail(jobs)
        /\ otadata' = [otadata EXCEPT ![j.sec] = e]
        /\ good' = IF Is("VALID") THEN running ELSE GoodAfter(j.sec, e)   \* who confirms
        /\ chosen' = CASE new -> Slot(j.ent) [] Is("VALID") -> None [] OTHER -> chosen
        /\ tries' = IF new THEN 0 ELSE tries
        /\ UNCHANGED <<img, pc, running, update, losses>>

\* What an interrupted operation may leave of a sector.
Torn(j) == {otadata[j.sec], Blank} \cup {[e EXCEPT !.crc = FALSE] : e \in {otadata[j.sec], j.ent}}

PowerLoss ==
    /\ pc # "off" /\ losses < MaxLosses
    /\ losses' = losses + 1
    /\ IF jobs = <<>> THEN UNCHANGED <<otadata, good>>
       ELSE LET j == Head(jobs)
            IN  \E e \in Torn(j) :
                   /\ otadata' = [otadata EXCEPT ![j.sec] = e]
                   /\ good' = GoodAfter(j.sec, e)
    /\ pc' = "off" /\ running' = None /\ jobs' = <<>> /\ update' = None
    /\ UNCHANGED <<img, chosen, tries>>

\* esp_restart, or the application crashes.
Restart ==
    /\ pc = "app" /\ jobs = <<>>
    /\ pc' = "off" /\ running' = None /\ update' = None
    /\ UNCHANGED <<otadata, img, jobs, losses, hist>>

-----------------------------------------------------------------------------
(* The bootloader. *)
PowerOn ==
    /\ pc = "off"
    /\ pc' = "boot"
    /\ UNCHANGED <<otadata, img, running, jobs, update, losses, hist>>

\* get_selected_boot_partition, first part: an app that was not confirmed.
Unconfirmed == {i \in {0, 1} : Rollback /\ otadata[i].st = "PENDING_VERIFY"}

BootAbort ==
    /\ pc = "boot" /\ jobs = <<>>
    /\ \E i \in Unconfirmed :
          /\ \A k \in Unconfirmed : i <= k
          /\ jobs' = Rewrite(i, [otadata[i] EXCEPT !.st = "ABORTED"])
    /\ UNCHANGED <<otadata, img, pc, running, update, losses, hist>>

\* Second part: a new app is started for the first time.
BootSelect ==
    LET a == Active(otadata)
    IN  /\ pc = "boot" /\ jobs = <<>> /\ Unconfirmed = {}
        /\ pc' = "load"
        /\ jobs' = IF Rollback /\ a # -1 /\ otadata[a].st = "NEW"
                   THEN Rewrite(a, [otadata[a] EXCEPT !.st = "PENDING_VERIFY"])
                   ELSE <<>>
        /\ UNCHANGED <<otadata, img, running, update, losses, hist>>

NeverUsed == \A i \in {0, 1} : otadata[i].seq = 0 \/ ~otadata[i].crc
BothInvalid == \A i \in {0, 1} : SelectInvalid(otadata[i])

\* Mutant: the sequence number is taken modulo the number of slots as it is.
BootIndexMutant ==
    IF BothInvalid
    THEN IF HasFactory THEN Factory ELSE 0
    ELSE IF Active(otadata) # -1 THEN otadata[Active(otadata)].seq % NSlots ELSE Factory

BootIndex ==
    IF BothInvalid
    THEN IF HasFactory THEN Factory ELSE 0
    ELSE IF Active(otadata) # -1 THEN Slot(otadata[Active(otadata)]) ELSE Factory

\* load_boot_image: down from the selected index to the factory app, then up.
Before(s, t) == IF s <= BootIndex THEN t > BootIndex \/ t < s ELSE t > s
LoadedMutant(s) == s \in img \ {Factory} /\ \A t \in img \ {s, Factory} : Before(s, t)

Loaded(s) == s \in img /\ \A t \in img \ {s} : Before(s, t)

\* set_actual_ota_seq: otadata that was never used gets an entry for the app loaded.
ActualSeq(s) ==
    IF ~HasFactory /\ BothInvalid /\ NeverUsed
    THEN Rewrite(0, [seq |-> s + 1, st |-> "VALID", crc |-> TRUE])
    ELSE <<>>

Load ==
    /\ pc = "load" /\ jobs = <<>>
    /\ IF \E s \in Slots : Loaded(s)
       THEN LET s == CHOOSE t \in Slots : Loaded(t)
            IN  /\ pc' = "app"
                /\ running' = s
                /\ tries' = IF s = chosen /\ tries < 2 THEN tries + 1 ELSE tries
                /\ jobs' = ActualSeq(s)
       ELSE pc' = "off" /\ UNCHANGED <<running, tries, jobs>>        \* bootloader_reset
    /\ UNCHANGED <<otadata, img, update, losses, good, chosen>>

-----------------------------------------------------------------------------
(* The application. *)
Idle == pc = "app" /\ jobs = <<>>

\* esp_ota_get_state_partition: the first sector that names the slot.
StateOf(s) ==
    LET found == {i \in {0, 1} : otadata[i].crc /\ Slot(otadata[i]) = s}
    IN  IF found = {} \/ s = Factory THEN "NOT_FOUND"
        ELSE otadata[IF 0 \in found THEN 0 ELSE 1].st

Pending   == StateOf(running) = "PENDING_VERIFY"
Unproven  == StateOf(running) \in {"PENDING_VERIFY", "INVALID"}

\* Another app than the running one is selected for the next boot.
Elsewhere == Active(otadata) # -1 /\ Slot(otadata[Active(otadata)]) # running

\* erase_last_boot_app_partition, up to its erase of the otadata sector.
LastBoot ==
    {i \in {0, 1} :
        /\ Active(otadata) = Other(i)
        /\ otadata[i].seq # 0 /\ otadata[i].crc
        /\ Slot(otadata[i]) # running}

\* A partition a caller downloads into.
Target(p) ==
    Active(otadata) # -1 /\ Slot(otadata[Active(otadata)]) = p => "download" \in Uses

\* Partitions esp_ota_begin and esp_ota_resume accept.
Writable(p) == p # Factory /\ p # running

\* esp_ota_begin; the partition is erased here, or as it is written (OTA_WITH_SEQUENTIAL_WRITES).
BeginMutant(p, sequential) ==
    /\ Idle /\ update = None /\ p # Factory /\ Target(p)
    /\ Rollback => ~Pending
    /\ Unproven => "update" \in Uses
    /\ img' = IF sequential THEN img ELSE img \ {p}
    /\ jobs' = IF Rollback THEN EraseAll(LastBoot) ELSE <<>>
    /\ update' = p
    /\ UNCHANGED <<otadata, pc, running, losses, hist>>

Begin(p, sequential) ==
    /\ Idle /\ update = None /\ Writable(p) /\ Target(p)
    /\ Rollback => ~Pending
    /\ Unproven => "update" \in Uses
    /\ img' = IF sequential THEN img ELSE img \ {p}
    /\ jobs' = IF Rollback THEN EraseAll(LastBoot) ELSE <<>>
    /\ update' = p
    /\ UNCHANGED <<otadata, pc, running, losses, hist>>

\* esp_ota_resume: no look at the running app's state.
Resume(p) ==
    /\ Idle /\ update = None /\ Writable(p) /\ Target(p)
    /\ Unproven => "resume" \in Uses
    /\ update' = p
    /\ UNCHANGED <<otadata, img, pc, running, jobs, losses, hist>>

\* esp_ota_write: the old image is gone, the new one is not complete.
Write ==
    /\ Idle /\ update \in img /\ Target(update)
    /\ img' = img \ {update}
    /\ UNCHANGED <<otadata, pc, running, jobs, update, losses, hist>>

\* The last esp_ota_write and esp_ota_end of a good image; or a bad one; or esp_ota_abort.
End(ok) ==
    /\ Idle /\ update # None
    /\ img' = IF ok THEN img \cup {update} ELSE img
    /\ update' = None
    /\ UNCHANGED <<otadata, pc, running, jobs, losses, hist>>

\* esp_ota_set_boot_partition, esp_rewrite_ota_data
SetBoot(p) ==
    LET a    == Active(otadata)
        sec  == IF a = -1 THEN 0 ELSE Other(a)
        seq  == IF a = -1 THEN p + 1 ELSE SeqFor(p, otadata[a].seq)
    IN  /\ Idle /\ p # Factory /\ p \in img /\ seq <= MaxSeq
        /\ Elsewhere => (IF p = Slot(otadata[a]) THEN "again" ELSE "reselect") \in Uses
        /\ p = running => "reselect" \in Uses
        /\ Unproven => "switch" \in Uses
        /\ p = update => "download" \in Uses
        /\ jobs' = Rewrite(sec, [seq |-> seq, st |-> IF Rollback THEN "NEW" ELSE "UNDEFINED", crc |-> TRUE])
        /\ UNCHANGED <<otadata, img, pc, running, update, losses, hist>>

\* The factory app: the whole partition is erased.
SetFactory ==
    /\ Idle /\ Factory \in img /\ "factory" \in Uses
    /\ Elsewhere => "reselect" \in Uses
    /\ Unproven => "switch" \in Uses
    /\ jobs' = <<FormatJob(0), FormatJob(1)>>
    /\ UNCHANGED <<otadata, img, pc, running, update, losses, hist>>

\* esp_ota_current_ota_is_workable(true).  The code does not ask whether the active
\* entry is the running app's: not to select another one first is left to the caller.
MarkValid ==
    LET a == Active(otadata)
    IN  /\ Idle /\ a # -1 /\ otadata[a].st # "VALID"
        /\ Elsewhere => "early" \in Uses
        /\ jobs' = Rewrite(a, [otadata[a] EXCEPT !.st = "VALID"])
        /\ UNCHANGED <<otadata, img, pc, running, update, losses, hist>>

\* esp_ota_current_ota_is_workable(false)
MarkInvalid ==
    LET a == Active(otadata)
    IN  /\ Idle /\ a # -1
        /\ RollbackSlot(otadata) \in img
        /\ Elsewhere => "early" \in Uses
        /\ jobs' = Rewrite(a, [otadata[a] EXCEPT !.st = "INVALID"])
        /\ UNCHANGED <<otadata, img, pc, running, update, losses, hist>>

\* esp_ota_erase_last_boot_app_partition
EraseLast ==
    /\ Idle
    /\ \E i \in LastBoot :
          /\ Unproven \/ Elsewhere => "erase" \in Uses
          /\ img' = img \ {Slot(otadata[i])}
          /\ jobs' = <<EraseJob(i)>>
    /\ UNCHANGED <<otadata, pc, running, update, losses, hist>>

Bootloader ==
    /\ UNCHANGED build
    /\ PowerOn \/ BootAbort \/ BootSelect \/ Load \/ JobStep

App == \/ \E p \in Slots : Resume(p) \/ SetBoot(p) \/ \E sequential \in BOOLEAN : Begin(p, sequential)
       \/ \E ok \in BOOLEAN : End(ok)
       \/ Write \/ SetFactory \/ MarkValid \/ MarkInvalid \/ EraseLast

Next == Bootloader \/ (UNCHANGED build /\ (App \/ PowerLoss \/ Restart))

Spec     == Init /\ [][Next]_vars
LiveSpec == Spec /\ WF_vars(Bootloader)

-----------------------------------------------------------------------------
TypeOK ==
    /\ build \in Builds
    /\ otadata \in [{0, 1} -> Entry]
    /\ img \subseteq Slots
    /\ pc \in {"off", "boot", "load", "app"}
    /\ running \in Slots \cup {None} /\ (running # None <=> pc = "app")
    /\ jobs \in Seq([op : {"erase", "format", "write"}, sec : {0, 1}, ent : Entry])
    /\ update \in Slots \cup {None}
    /\ losses \in 0 .. MaxLosses
    /\ good \in Slots /\ chosen \in Slots \cup {None} /\ tries \in 0 .. 2

\* The state is well formed, and however the application calls the update functions and whenever power fails,
\* the application that runs is intact and so is at least one for the next boot
\* (esp_ota_begin refuses the running partition, erase_last_boot_app_partition
\* spares it).
Bootable == TypeOK /\ img # {} /\ (running # None => running \in img)

\* With CONFIG_BOOTLOADER_APP_ROLLBACK_ENABLE the bootloader starts the last app
\* that confirmed itself, or gives the app selected since its one attempt, whatever
\* the power losses did to the otadata sectors; for callers that keep to the
\* documented order (Uses = {}).
RollsBack ==
    [][Rollback /\ Uses = {} /\ running = None /\ running' # None
          => running' = good \/ (running' = chosen /\ tries = 0)]_vars

\* esp_ota_set_boot_partition has selected an intact app that was not started yet.
Selected ==
    LET a == Active(otadata)
    IN  /\ chosen \in img /\ a # -1
        /\ Slot(otadata[a]) = chosen /\ otadata[a].st \in {"NEW", "UNDEFINED"}

\* An update takes effect: the app that is selected when the device is switched on is
\* the one that runs, whatever other entries the bootloader aborts and rewrites on the
\* way (get_selected_boot_partition, load_boot_image); unless power goes while its own
\* entry is rewritten, which leaves the device off with the app not selected any more.
Updates == pc = "off" /\ Selected ~> running = chosen \/ (pc = "off" /\ ~Selected)

\* A device that is switched on ends up running an application: every otadata
\* content leads load_boot_image to some intact image.
Boots == running = None ~> running # None
==============================================================================
