----------------------------- MODULE FlashDisk -----------------------------
(***************************************************************************)
(* The serial flash as a disk (src/firmware/src/app_flash.c): registered   *)
(* with the file system, mounted, formatted if it is blank, and then free  *)
(* for the "flash" command.  The SST25 driver, the file system and what is *)
(* on the medium are external.  The medium outlives the power.             *)
(***************************************************************************)

VARIABLES
  state,             \* AppFlashData::state
  format_attempted,  \* AppFlashData::format_attempted
  driver_ready,      \* external: DRV_SST25_Status is SYS_STATUS_READY
  volume             \* external: what is on the medium

vars == <<state, format_attempted, driver_ready, volume>>

State == {"register_media", "mount_disk", "ensure_formatted", "format",
          "idle", "error"}

\* A medium without a file system, one with an empty file system, one with files.
Volume == {"blank", "empty", "files"}

Result == {"success", "failure"}

\* APP_Flash_Initialize.
Init ==
  /\ state = "register_media"
  /\ format_attempted = FALSE
  /\ driver_ready = FALSE
  /\ volume \in Volume

Goto(next) == state' = next

(***************************************************************************)
(* The file system.  A query finds no sectors exactly on a blank medium.   *)
(* Formatting destroys what was there even if it fails half way, and it    *)
(* may report success of a medium which does not keep what is written.     *)
(***************************************************************************)
TotalSectors == IF volume = "blank" THEN {0} ELSE {1}

SYS_FS_DriveFormat(result) ==
  volume' \in IF result = "success" THEN {"empty", "blank"} ELSE {volume, "blank"}

(***************************************************************************)
(* The states of APP_Flash_Tasks.                                          *)
(***************************************************************************)
RegisterMedia(result) ==
  /\ state = "register_media"
  /\ driver_ready
  /\ Goto(IF result = "success" THEN "mount_disk" ELSE "error")
  /\ UNCHANGED <<format_attempted, driver_ready, volume>>

MountDisk ==
  /\ state = "mount_disk"
  /\ Goto("ensure_formatted")
  /\ UNCHANGED <<format_attempted, driver_ready, volume>>

\* A disk which cannot be mounted, or a driver that is not ready, is tried
\* again with the next poll; nothing is left to do for an idle or failed one.
Wait ==
  /\ \/ state = "register_media" /\ ~driver_ready
     \/ state \in {"mount_disk", "idle", "error"}
  /\ UNCHANGED vars

\* A defect: a query that fails is taken for a drive without sectors.
EnsureFormatted_FailedIsBlank(result) ==
  /\ state = "ensure_formatted"
  /\ \E total_sectors \in IF result = "success" THEN TotalSectors ELSE {0} :
       Goto(IF total_sectors # 0 THEN "idle"
            ELSE IF format_attempted THEN "error" ELSE "format")
  /\ UNCHANGED <<format_attempted, driver_ready, volume>>

EnsureFormatted(result) ==
  /\ state = "ensure_formatted"
  /\ \/ result = "failure" /\ Goto("error")
     \/ /\ result = "success"
        /\ \E total_sectors \in TotalSectors :
             Goto(IF total_sectors # 0 THEN "idle"
                  ELSE IF format_attempted THEN "error" ELSE "format")
  /\ UNCHANGED <<format_attempted, driver_ready, volume>>

\* A defect: the attempt is not remembered.
Format_Again(result) ==
  /\ state = "format"
  /\ SYS_FS_DriveFormat(result)
  /\ Goto(IF result = "success" THEN "ensure_formatted" ELSE "error")
  /\ UNCHANGED <<format_attempted, driver_ready>>

Format(result) ==
  /\ state = "format"
  /\ format_attempted' = TRUE
  /\ SYS_FS_DriveFormat(result)
  /\ Goto(IF result = "success" THEN "ensure_formatted" ELSE "error")
  /\ UNCHANGED driver_ready

APP_Flash_Tasks ==
  \/ Wait
  \/ MountDisk
  \/ \E result \in Result :
       RegisterMedia(result) \/ EnsureFormatted(result) \/ Format(result)

APP_Flash_IsBusy == state # "idle"

(***************************************************************************)
(* What the "flash" command calls, whatever the state.                     *)
(***************************************************************************)
APP_Flash_DriveSectorGet == UNCHANGED vars

APP_Flash_DriveFormat(result) ==
  /\ SYS_FS_DriveFormat(result)
  /\ UNCHANGED <<state, format_attempted, driver_ready>>

(***************************************************************************)
(* The environment: the driver gets ready, the power fails at any time and *)
(* comes back.  The firmware itself writes no files.                       *)
(***************************************************************************)
DriverReady ==
  /\ ~driver_ready
  /\ driver_ready' = TRUE
  /\ UNCHANGED <<state, format_attempted, volume>>

PowerCycle ==
  /\ state' = "register_media"
  /\ format_attempted' = FALSE
  /\ driver_ready' = FALSE
  /\ UNCHANGED volume

TypeOK ==
  /\ state \in State
  /\ format_attempted \in BOOLEAN
  /\ driver_ready \in BOOLEAN
  /\ volume \in Volume
=============================================================================
