------------------------------ MODULE OtaBoot ------------------------------
(***************************************************************************)
(* The firmware update: remote_http_firmware_update (src/src/ota_apply.c)  *)
(* copies the package on the SD card into flash slot 1 and reboots, and    *)
(* the resident boot loader (src/bootloader/main.c) copies slot 1 over     *)
(* slot 0 and starts it.  The two programs meet in one watchdog scratch    *)
(* register, which a watchdog reset keeps and a power cycle clears.        *)
(***************************************************************************)
EXTENDS Integers

CONSTANTS
  Pages,       \* flash pages of a slot
  ImagePages,  \* pages the package fills, from the start of the slot
  VectorPage,  \* the page that holds the initial stack pointer and reset
  SectorOf,    \* the erase sector of each page
  Faults       \* what may go wrong, a subset of FaultKinds

FaultKinds == {"power loss",       \* at any moment
               "bad read",         \* a block of the package cannot be read
               "altered package"}  \* the package changed after it was fetched

ASSUME ConstantsAssumption ==
  /\ Pages \in Nat \ {0}
  /\ ImagePages \in 1 .. Pages
  /\ VectorPage \in 0 .. ImagePages - 1
  /\ SectorOf \in [0 .. Pages - 1 -> Nat]
  /\ \A p, q \in 0 .. Pages - 1 : p <= q => SectorOf[p] <= SectorOf[q]
  /\ Faults \subseteq FaultKinds

VARIABLES
  phase,    \* where the processor is
  scratch,  \* watchdog_hw->scratch[2]
  slot0, slot1,  \* what each page of the slots holds
  index,    \* the block, sector or page that is next
  sector,   \* current_sector
  buffer,   \* pages put into sector_buf since it was cleared
  package,  \* M65_FIRMWARE_PACKAGE_PATH on the SD card
  sound     \* history: since the board left the factory, or was recovered, each
            \* block that was staged was read and no copy was cut off

vars == <<phase, scratch, slot0, slot1, index, sector, buffer, package, sound>>

SlotPages == 0 .. Pages - 1
Image == 0 .. ImagePages - 1
NoSector == SectorOf[Pages - 1] + 1

\* "cur" is the firmware the board was built with, "new" the package as it
\* was signed, "altered" any other package, "prev" an update staged before.
Contents == {"blank", "cur", "prev", "new", "altered"}
ImageOf(pkg) == IF pkg = "signed" THEN "new" ELSE "altered"

Factory == [p \in SlotPages |-> IF p \in Image THEN "cur" ELSE "blank"]

Init ==
  /\ phase = "app" /\ scratch = "clear"
  /\ slot0 = Factory
  /\ slot1 \in {[p \in SlotPages |-> c] : c \in {"blank", "prev"}}
  /\ index = 0 /\ sector = NoSector /\ buffer = {}
  /\ package = "signed"
  /\ sound = TRUE

-----------------------------------------------------------------------------
(* The application, src/src/ota_apply.c.                                   *)

\* The card is taken out, or written by a command that checks no signature.
PackageAltered ==
  /\ "altered package" \in Faults
  /\ phase = "app"
  /\ package' = "altered"
  /\ UNCHANGED <<phase, scratch, slot0, slot1, index, sector, buffer, sound>>

\* firmware_update_available: the package on the card is not, as its version
\* file says, the build that is running.
UpdateAvailable == ~ (package = "signed" /\ slot0[VectorPage] = "new")

\* Nothing verifies the package again.
BeginUpdate ==
  /\ phase = "app" /\ UpdateAvailable
  /\ phase' = "stage"
  /\ index' = 0 /\ sector' = NoSector /\ buffer' = {}
  /\ UNCHANGED <<scratch, slot0, slot1, package, sound>>

\* A dirty sector buffer is erased and programmed; the pages no block filled
\* are 0xFF.
Flushed ==
  [p \in SlotPages |->
     IF buffer = {} \/ SectorOf[p] # sector THEN slot1[p]
     ELSE IF p \in buffer THEN ImageOf(package) ELSE "blank"]

\* The next block of the package goes into the buffer of its sector, after
\* the buffer of another sector was written out.
StageBlock ==
  /\ phase = "stage" /\ index < ImagePages
  /\ IF SectorOf[index] = sector
       THEN /\ buffer' = buffer \cup {index}
            /\ UNCHANGED <<slot1, sector>>
       ELSE /\ slot1' = Flushed
            /\ sector' = SectorOf[index] /\ buffer' = {index}
  /\ index' = index + 1
  /\ UNCHANGED <<phase, scratch, slot0, package, sound>>

\* A block whose magic numbers are wrong is passed over.
SkipBlock ==
  /\ "bad read" \in Faults
  /\ phase = "stage" /\ index < ImagePages
  /\ index' = index + 1
  /\ sound' = FALSE
  /\ UNCHANGED <<phase, scratch, slot0, slot1, sector, buffer, package>>

\* Mutant: the last sector buffer is not written.
LastSectorLost == slot1

Staged == Flushed

\* The package ends, or a read fails or is short: the last sector is written,
\* the register is armed and the watchdog reboots the board either way.
EndStaging ==
  /\ phase = "stage"
  /\ index = ImagePages \/ "bad read" \in Faults
  /\ slot1' = Staged
  /\ scratch' = "ota" /\ phase' = "boot"
  /\ sound' = (sound /\ index = ImagePages)
  /\ UNCHANGED <<slot0, index, sector, buffer, package>>

\* remote_http.c marks a WiFi hardware probe in the same register, and clears
\* the mark when the probe returned.
ProbeMark ==
  /\ phase = "app"
  /\ scratch' = IF scratch = "probe" THEN "clear" ELSE "probe"
  /\ UNCHANGED <<phase, slot0, slot1, index, sector, buffer, package, sound>>

\* A watchdog reset, for instance of a probe that hangs.
WatchdogReset ==
  /\ phase = "app"
  /\ phase' = "boot"
  /\ UNCHANGED <<scratch, slot0, slot1, index, sector, buffer, package, sound>>

-----------------------------------------------------------------------------
(* The boot loader, src/bootloader/main.c.                                 *)

\* Mutant: the register is left for the application to clear.
MarkKept == scratch

MarkCleared == "clear"

\* main: the register is cleared before the copy is made.
BootArmed ==
  /\ phase = "boot" /\ scratch = "ota"
  /\ scratch' = MarkCleared /\ phase' = "erase" /\ index' = 0
  /\ UNCHANGED <<slot0, slot1, sector, buffer, package, sound>>

SlotErased == index = NoSector

\* do_ota_update, first loop: slot 0 is erased sector by sector.
EraseSector ==
  /\ phase = "erase"
  /\ IF SlotErased
       THEN /\ phase' = "copy" /\ index' = 0
            /\ UNCHANGED slot0
       ELSE /\ slot0' = [p \in SlotPages |->
                           IF SectorOf[p] = index THEN "blank" ELSE slot0[p]]
            /\ index' = index + 1
            /\ UNCHANGED phase
  /\ UNCHANGED <<scratch, slot1, sector, buffer, package, sound>>

\* do_ota_update, second loop: slot 1 is copied page by page.
CopyPage ==
  /\ phase = "copy"
  /\ IF index = Pages
       THEN /\ phase' = "check"
            /\ UNCHANGED <<slot0, index>>
       ELSE /\ slot0' = [slot0 EXCEPT ![index] = slot1[index]]
            /\ index' = index + 1
            /\ UNCHANGED phase
  /\ UNCHANGED <<scratch, slot1, sector, buffer, package, sound>>

\* slot_vectors_look_valid reads one page.  An altered image may have any
\* vectors.
VectorsMayBe(valid) ==
  CASE slot0[VectorPage] = "blank"   -> valid = FALSE
    [] slot0[VectorPage] = "altered" -> TRUE
    [] OTHER                         -> valid = TRUE

\* Mutant: the boot loader starts over instead of leaving.
TryAgain(valid) == IF valid THEN "app" ELSE "boot"

Outcome(valid) == IF valid THEN "app" ELSE "bootsel"

\* main: a slot that looks valid is started, otherwise the board waits in
\* the mask ROM for a factory image.
Launch ==
  /\ phase = "check" \/ (phase = "boot" /\ scratch # "ota")
  /\ \E valid \in BOOLEAN :
       /\ VectorsMayBe(valid)
       /\ phase' = Outcome(valid)
  /\ UNCHANGED <<scratch, slot0, slot1, index, sector, buffer, package, sound>>

\* The operator copies the factory image over USB.
Recover ==
  /\ phase = "bootsel"
  /\ slot0' = Factory
  /\ phase' = "boot" /\ scratch' = "clear"
  /\ sound' = TRUE
  /\ UNCHANGED <<slot1, index, sector, buffer, package>>

-----------------------------------------------------------------------------

\* Power is lost at any moment.  A sector of slot 1 that was being written is
\* left blank.
PowerLoss ==
  /\ "power loss" \in Faults
  /\ phase' = "boot" /\ scratch' = "clear"
  /\ index' = 0 /\ sector' = NoSector /\ buffer' = {}
  /\ slot1' \in {slot1, [p \in SlotPages |->
                 IF phase = "stage" /\ SectorOf[p] = sector THEN "blank"
                 ELSE slot1[p]]}
  /\ sound' = (sound /\ phase \notin {"erase", "copy"})
  /\ UNCHANGED <<slot0, package>>

BootStep == BootArmed \/ EraseSector \/ CopyPage \/ Launch

Next ==
  \/ PackageAltered \/ BeginUpdate \/ StageBlock \/ SkipBlock \/ EndStaging
  \/ ProbeMark \/ WatchdogReset
  \/ BootStep
  \/ Recover \/ PowerLoss

Spec == Init /\ [][Next]_vars

\* The boot loader runs without interruption.
FairSpec == Spec /\ WF_vars(BootStep)

-----------------------------------------------------------------------------
(* Properties.                                                             *)

TypeOK ==
  /\ phase \in {"app", "stage", "boot", "erase", "copy", "check", "bootsel"}
  /\ scratch \in {"clear", "probe", "ota"}
  /\ slot0 \in [SlotPages -> Contents] /\ slot1 \in [SlotPages -> Contents]
  /\ index \in 0 .. (IF phase = "erase" THEN NoSector ELSE Pages)
  /\ sector \in 0 .. NoSector
  /\ buffer \subseteq Image
  /\ package \in {"signed", "altered"}
  /\ sound \in BOOLEAN

\* "M65BOOT invalid app slot, entering BOOTSEL" (src/bootloader/main.c:243):
\* the firmware that runs is one whole image, every page the image fills comes
\* from the build whose vectors were checked.
RunsWholeImage ==
  phase = "app" => \A p \in Image : slot0[p] = slot0[VectorPage]

\* It is, whatever became of the package and wherever the power was lost, as
\* long as no block was missed when an update was staged and no copy was cut
\* off: a power cut while a package is staged, or between the reset and the
\* copy, costs the update but not the firmware.
WholeUnlessCut == sound => RunsWholeImage

\* No application runs with the copy still armed: a later watchdog reset
\* does not copy slot 1 once more.
RunsDisarmed == phase \in {"app", "stage"} => scratch # "ota"

\* An application that staged an update is not left half way: the board comes
\* up in an application or in the recovery ROM.
BootEnds ==
  phase \in {"boot", "erase", "copy", "check"} ~> phase \in {"app", "bootsel"}

=============================================================================
