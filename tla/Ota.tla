-------------------------------- MODULE Ota ---------------------------------
(***************************************************************************)
(* Firmware update: POST /ota of http_server.c, the confirmation of an     *)
(* image by the first snapshot it accepts, and the bootloader that returns *)
(* to the other image if that never happens.  The OTA library and the      *)
(* bootloader are external.                                                *)
(***************************************************************************)
EXTENDS Integers

VARIABLES
  rollback,  \* CONFIG_BOOTLOADER_APP_ROLLBACK_ENABLE (the AMOLED builds)
  image,     \* flash: is the image of each partition complete?
  state,     \* flash: esp_ota_img_states_t of each partition
  boot,      \* flash: the partition to boot
  running,   \* the partition the firmware runs from
  upload,    \* ota_post_handler: the stage of the upload in hand
  mutex,     \* s_ota_mutex
  reboot,    \* is the timer of ota_reboot_cb running?
  done,      \* s_done of maybe_mark_ota_valid
  kept       \* history: images that answered 204 to a push whose call of
             \* maybe_mark_ota_valid met no error

\* What an accepted snapshot leaves alone, and what a stage of an upload does.
flashVars == <<rollback, image, state, boot, running>>

Partitions == {"ota_0", "ota_1"}
Other(p) == CHOOSE q \in Partitions : q # p
ImageStates == {"valid", "new", "pending", "aborted"}

TypeOK ==
  /\ rollback \in BOOLEAN
  /\ image \in [Partitions -> {"whole", "torn"}]
  /\ state \in [Partitions -> ImageStates]
  /\ boot \in Partitions
  /\ running \in Partitions
  /\ upload \in {"none", "taken", "writing", "written", "ended", "sealed"}
  /\ mutex \in BOOLEAN
  /\ reboot \in BOOLEAN
  /\ done \in BOOLEAN
  /\ kept \subseteq Partitions

\* Flashed over the wire: one image, nothing in the other partition.
Init ==
  /\ rollback \in BOOLEAN
  /\ image = [p \in Partitions |-> IF p = "ota_0" THEN "whole" ELSE "torn"]
  /\ state = [p \in Partitions |-> "valid"]
  /\ boot = "ota_0" /\ running = "ota_0"
  /\ upload = "none" /\ mutex = FALSE /\ reboot = FALSE /\ done = FALSE
  /\ kept = {}

-----------------------------------------------------------------------------
(* The bootloader, at every restart: a new image gets one trial.           *)

Unproved == rollback /\ state[boot] = "pending"
Boots    == IF Unproved THEN Other(boot) ELSE boot

Restart ==
  /\ running' = Boots
  /\ boot' = Boots
  /\ state' = [state EXCEPT
                 ![boot] = IF Unproved THEN "aborted"
                           ELSE IF rollback /\ @ = "new" THEN "pending" ELSE @]
  /\ upload' = "none" /\ mutex' = FALSE /\ reboot' = FALSE /\ done' = FALSE
  /\ UNCHANGED <<rollback, image, kept>>

-----------------------------------------------------------------------------
(* ota_post_handler.  Any stage but the last may fail: Drop.               *)

target == Other(running)

\* The mutex is not waited for: a second upload is refused with 409.
Take ==
  /\ upload = "none" /\ ~mutex
  /\ mutex' = TRUE /\ upload' = "taken"
  /\ UNCHANGED <<flashVars, reboot, done, kept>>

\* esp_ota_begin erases; it refuses while the running image is on trial.
Begin ==
  /\ upload = "taken"
  /\ ~(rollback /\ state[running] = "pending")
  /\ image' = [image EXCEPT ![target] = "torn"]
  /\ kept' = kept \ {target}
  /\ upload' = "writing"
  /\ UNCHANGED <<rollback, state, boot, running, mutex, reboot, done>>

\* The loop of httpd_req_recv and esp_ota_write; a silent sender is waited for.
Write ==
  /\ upload = "writing" /\ upload' = "written"
  /\ UNCHANGED <<flashVars, mutex, reboot, done, kept>>

\* Mutant of End: the image is taken for whole without its checksum.
EndUnchecked(good) ==
  /\ upload = "written" /\ upload' = "ended"
  /\ image' = [image EXCEPT ![target] = IF good THEN "whole" ELSE "torn"]
  /\ UNCHANGED <<rollback, state, boot, running, mutex, reboot, done, kept>>

\* esp_ota_end: a bad image is rejected, and its partition is as good as torn.
End(good) ==
  /\ upload = "written" /\ good /\ upload' = "ended"
  /\ image' = [image EXCEPT ![target] = "whole"]
  /\ UNCHANGED <<rollback, state, boot, running, mutex, reboot, done, kept>>

\* esp_ota_set_boot_partition
Seal ==
  /\ upload = "ended" /\ upload' = "sealed"
  /\ boot' = target
  /\ state' = [state EXCEPT ![target] = IF rollback THEN "new" ELSE "valid"]
  /\ UNCHANGED <<rollback, image, running, mutex, reboot, done, kept>>

\* The reply and the timer; its start is not checked.  The mutex stays taken.
Arm(started) ==
  /\ upload = "sealed" /\ upload' = "none"
  /\ reboot' = (reboot \/ started)
  /\ UNCHANGED <<flashVars, mutex, done, kept>>

\* No partition, no memory, a broken connection, a failed write, a rejected
\* image, a failed esp_ota_set_boot_partition: give the mutex back.
Drop ==
  /\ upload \in {"taken", "writing", "written", "ended"}
  /\ upload' = "none" /\ mutex' = FALSE
  /\ UNCHANGED <<flashVars, reboot, done, kept>>

-----------------------------------------------------------------------------
(* maybe_mark_ota_valid, after a snapshot was accepted.                    *)

\* Mutant of Confirm: one attempt is all there is.
ConfirmOnce(ok) ==
  /\ done' = TRUE
  /\ state' = [state EXCEPT ![running] =
                 IF ~done /\ ok /\ @ = "pending" THEN "valid" ELSE @]
  /\ kept' = IF ok THEN kept \cup {running} ELSE kept
  /\ UNCHANGED <<rollback, image, boot, running, upload, mutex, reboot>>

\* Done once per boot; an error leaves it to the next snapshot.
Confirm(ok) ==
  /\ done' = (done \/ ok)
  /\ state' = [state EXCEPT ![running] =
                 IF ~done /\ ok /\ @ = "pending" THEN "valid" ELSE @]
  /\ kept' = IF ok THEN kept \cup {running} ELSE kept
  /\ UNCHANGED <<rollback, image, boot, running, upload, mutex, reboot>>

-----------------------------------------------------------------------------

\* Whatever the power does: what boots next is complete, and so is what boots
\* if that turns out to be on trial for the last time.
AlwaysBootable ==
  /\ image[Boots] = "whole"
  /\ rollback /\ state[boot] \in {"new", "pending"} => image[Other(boot)] = "whole"

\* An image that answered a push is never taken back.
PushKeepsImage ==
  rollback => \A p \in kept : state[p] \notin {"pending", "aborted"}
=============================================================================
