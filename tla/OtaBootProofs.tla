--------------------------- MODULE OtaBootProofs ---------------------------
(***************************************************************************)
(* WholeUnlessCut and RunsDisarmed for slots and sectors of every size and *)
(* under every fault.                                                      *)
(***************************************************************************)
EXTENDS OtaBoot, TLAPS

-----------------------------------------------------------------------------
(* The mark in the register.                                               *)

\* The register is armed only between the end of staging and the boot.
ArmedOnlyInBoot == scratch = "ota" => phase = "boot"

\* Only EndStaging arms the register, and BootArmed clears it.
LEMMA NextKeepsArmed == ArmedOnlyInBoot /\ [Next]_vars => ArmedOnlyInBoot'
  <1> SUFFICES ASSUME ArmedOnlyInBoot, [Next]_vars PROVE ArmedOnlyInBoot'
    OBVIOUS
  <1>1. CASE PackageAltered \/ BeginUpdate \/ StageBlock \/ SkipBlock
             \/ EndStaging
    BY <1>1 DEF ArmedOnlyInBoot, PackageAltered, BeginUpdate, StageBlock,
                SkipBlock, EndStaging
  <1>2. CASE ProbeMark \/ WatchdogReset \/ Recover \/ PowerLoss
    BY <1>2 DEF ArmedOnlyInBoot, ProbeMark, WatchdogReset, Recover, PowerLoss
  <1>3. CASE BootStep
    BY <1>3 DEF ArmedOnlyInBoot, BootStep, BootArmed, MarkCleared,
                EraseSector, CopyPage, Launch
  <1>4. CASE UNCHANGED vars
    BY <1>4 DEF ArmedOnlyInBoot, vars
  <1> QED BY <1>1, <1>2, <1>3, <1>4 DEF Next

\* Whatever fails, no application runs with the copy still armed, so a
\* watchdog reset copies nothing (RunsDisarmed of the runs).
THEOREM AlwaysDisarmed == Spec => []RunsDisarmed
  <1>1. Init => ArmedOnlyInBoot
    BY DEF Init, ArmedOnlyInBoot
  <1>2. ArmedOnlyInBoot => RunsDisarmed
    BY DEF ArmedOnlyInBoot, RunsDisarmed
  <1> QED BY <1>1, <1>2, NextKeepsArmed, PTL DEF Spec

-----------------------------------------------------------------------------
(* The image.                                                              *)

\* Every page of the image comes from one build.
Uniform(slot) == \A p, q \in Image : slot[p] = slot[q]

\* While the package is staged and no block was missed, the blocks read so far
\* are in slot 1, except those of the current sector, which are in its buffer.
StagedSoFar ==
  phase = "stage" /\ sound =>
    /\ index \in 0 .. ImagePages
    /\ index = 0 => sector = NoSector
    /\ index > 0 => sector = SectorOf[index - 1]
    /\ buffer = {p \in 0 .. index - 1 : SectorOf[p] = sector}
    /\ \A p \in 0 .. index - 1 :
         SectorOf[p] # sector => slot1[p] = ImageOf(package)

\* While slot 1 is copied, slot 0 agrees with it up to index.
CopiedSoFar ==
  phase = "copy" =>
    /\ index \in 0 .. Pages
    /\ \A p \in 0 .. index - 1 : slot0[p] = slot1[p]

\* Slot 1 is whole from the moment the copy is armed to its end, and slot 0
\* whenever it is not being copied.
WholeWhereNeeded ==
  sound =>
    /\ (phase = "boot" /\ scratch = "ota") \/ phase \in {"erase", "copy"}
         => Uniform(slot1)
    /\ phase \notin {"erase", "copy"} => Uniform(slot0)

WInv == TypeOK /\ ArmedOnlyInBoot /\ StagedSoFar /\ CopiedSoFar
          /\ WholeWhereNeeded

\* The pages of the image are pages of the slot.
LEMMA Sizes ==
  /\ Pages \in Nat \ {0} /\ ImagePages \in 1 .. Pages
  /\ Image \subseteq SlotPages /\ VectorPage \in Image
  /\ SectorOf \in [SlotPages -> Nat]
  /\ \A p, q \in SlotPages : p <= q => SectorOf[p] <= SectorOf[q]
  BY ConstantsAssumption DEF ConstantsAssumption, Image, SlotPages

\* Every sector of the slot comes before NoSector.
LEMMA SectorsEnd ==
  NoSector \in Nat /\ \A p \in SlotPages : SectorOf[p] \in 0 .. NoSector - 1
  <1>1. Pages - 1 \in SlotPages /\ \A p \in SlotPages : p <= Pages - 1
    BY Sizes DEF SlotPages
  <1>2. /\ SectorOf[Pages - 1] \in Nat
        /\ \A p \in SlotPages : /\ SectorOf[p] \in Nat
                                /\ SectorOf[p] <= SectorOf[Pages - 1]
    BY <1>1, Sizes
  <1> QED BY <1>2 DEF NoSector

\* The factory image is one build.
LEMMA FactoryIsWhole == Uniform(Factory) /\ Factory \in [SlotPages -> Contents]
  BY Sizes DEF Uniform, Factory, Contents

\* A package has contents that a page can hold.
LEMMA ImageIsContent == ImageOf(package) \in Contents
  BY DEF ImageOf, Contents

\* Writing out the sector buffer keeps slot 1 well typed.
LEMMA FlushedIsTyped ==
  ASSUME slot1 \in [SlotPages -> Contents]
  PROVE  Flushed \in [SlotPages -> Contents]
  BY ImageIsContent DEF Flushed, Contents

\* Writing the buffer out completes every page read so far.
LEMMA FlushedSoFar ==
  ASSUME TypeOK, StagedSoFar, phase = "stage", sound, NEW p \in 0 .. index - 1
  PROVE  p \in SlotPages /\ Flushed[p] = ImageOf(package)
  <1>1. index \in 0 .. ImagePages
        /\ buffer = {q \in 0 .. index - 1 : SectorOf[q] = sector}
        /\ (SectorOf[p] # sector => slot1[p] = ImageOf(package))
    BY DEF StagedSoFar
  <1>2. p \in SlotPages
    BY <1>1, Sizes DEF SlotPages
  <1>3. SectorOf[p] = sector => p \in buffer
    BY <1>1
  <1> QED BY <1>1, <1>2, <1>3 DEF Flushed

-----------------------------------------------------------------------------
(* The steps.                                                              *)

\* The start of an update keeps the invariant.
LEMMA BeginUpdateStep ==
  ASSUME WInv, BeginUpdate
  PROVE  WInv'
  <1>1. 0 \in 0 .. Pages /\ 0 \in 0 .. ImagePages /\ NoSector \in 0 .. NoSector
        /\ 0 .. 0 - 1 = {}
    BY Sizes, SectorsEnd
  <1>2. TypeOK' /\ ArmedOnlyInBoot'
    BY <1>1 DEF WInv, TypeOK, ArmedOnlyInBoot, BeginUpdate
  <1>3. StagedSoFar'
    BY <1>1 DEF StagedSoFar, BeginUpdate
  <1> QED BY <1>2, <1>3
          DEF WInv, CopiedSoFar, WholeWhereNeeded, BeginUpdate, Uniform

\* A block of the package keeps the invariant.
LEMMA StageBlockStep ==
  ASSUME WInv, StageBlock
  PROVE  WInv'
  <1>1. /\ phase = "stage" /\ phase' = "stage" /\ index < ImagePages
        /\ index' = index + 1 /\ UNCHANGED <<scratch, slot0, package, sound>>
        /\ index \in 0 .. ImagePages
    BY Sizes DEF StageBlock, WInv, TypeOK
  <1>2. /\ index \in SlotPages /\ index \in Image /\ index \in Nat
        /\ index' \in 0 .. ImagePages /\ index' \in 0 .. Pages
        /\ index' > 0 /\ index' - 1 = index
        /\ \A p : p \in 0 .. index' - 1 <=> p \in 0 .. index - 1 \/ p = index
    BY <1>1, Sizes DEF SlotPages, Image
  <1>3. sector' = SectorOf[index] /\ sector' \in 0 .. NoSector
    <2>1. sector' = SectorOf[index]
      BY DEF StageBlock
    <2>2. SectorOf[index] \in 0 .. NoSector
      BY <1>2, SectorsEnd
    <2> QED BY <2>1, <2>2
  <1>4. slot1' \in [SlotPages -> Contents] /\ buffer' \subseteq Image
    BY <1>2, FlushedIsTyped DEF WInv, TypeOK, StageBlock
  <1>5. TypeOK' /\ ArmedOnlyInBoot'
    BY <1>1, <1>2, <1>3, <1>4 DEF WInv, TypeOK, ArmedOnlyInBoot
  <1>6. StagedSoFar'
    <2> SUFFICES ASSUME sound PROVE StagedSoFar'
      BY <1>1 DEF StagedSoFar
    <2>1. CASE SectorOf[index] = sector
      <3>1. buffer' = buffer \cup {index} /\ slot1' = slot1 /\ sector' = sector
        BY <2>1 DEF StageBlock
      <3>2. buffer' = {p \in 0 .. index' - 1 : SectorOf[p] = sector'}
        BY <1>1, <1>2, <2>1, <3>1 DEF WInv, StagedSoFar
      <3>3. \A p \in 0 .. index' - 1 :
              SectorOf[p] # sector' => slot1'[p] = ImageOf(package')
        BY <1>1, <1>2, <2>1, <3>1 DEF WInv, StagedSoFar, ImageOf
      <3> QED BY <1>1, <1>2, <1>3, <3>2, <3>3 DEF StagedSoFar
    <2>2. CASE SectorOf[index] # sector
      <3>1. buffer' = {index} /\ slot1' = Flushed
        BY <2>2 DEF StageBlock
      <3>2. \A p \in 0 .. index - 1 : SectorOf[p] # SectorOf[index]
        <4> SUFFICES ASSUME NEW p \in 0 .. index - 1
                     PROVE  SectorOf[p] # SectorOf[index]
          OBVIOUS
        <4>1. /\ p \in SlotPages /\ index - 1 \in SlotPages
              /\ p <= index - 1 /\ index - 1 <= index /\ index > 0
          <5>1. p \in Nat /\ index > 0 /\ p <= index - 1
            BY <1>2
          <5>2. p \in 0 .. Pages - 1 /\ index - 1 \in 0 .. Pages - 1
            BY <1>1, <1>2, <5>1, Sizes
          <5> QED BY <1>2, <5>1, <5>2 DEF SlotPages
        <4>2. sector = SectorOf[index - 1]
          BY <1>1, <4>1 DEF WInv, StagedSoFar
        <4>3. /\ SectorOf[p] \in Nat /\ SectorOf[index] \in Nat
              /\ SectorOf[index - 1] \in Nat
              /\ SectorOf[p] <= SectorOf[index - 1]
              /\ SectorOf[index - 1] <= SectorOf[index]
          BY <1>2, <4>1, Sizes
        <4> QED BY <2>2, <4>2, <4>3
      <3>3. buffer' = {p \in 0 .. index' - 1 : SectorOf[p] = sector'}
        BY <1>2, <1>3, <3>1, <3>2
      <3>4. \A p \in 0 .. index' - 1 :
              SectorOf[p] # sector' => slot1'[p] = ImageOf(package')
        BY <1>1, <1>2, <1>3, <3>1, FlushedSoFar DEF WInv, ImageOf
      <3> QED BY <1>1, <1>2, <1>3, <3>3, <3>4 DEF StagedSoFar
    <2> QED BY <2>1, <2>2
  <1> QED BY <1>1, <1>5, <1>6
          DEF WInv, CopiedSoFar, WholeWhereNeeded, Uniform

\* A block that is missed costs the soundness, and nothing else.
LEMMA SkipBlockStep ==
  ASSUME WInv, SkipBlock
  PROVE  WInv'
  <1>1. /\ phase = "stage" /\ index \in 0 .. Pages /\ index < ImagePages
        /\ index' = index + 1 /\ phase' = phase
    BY DEF SkipBlock, WInv, TypeOK
  <1>2. index' \in 0 .. Pages
    BY <1>1, Sizes
  <1> QED BY <1>1, <1>2 DEF SkipBlock, WInv, TypeOK, ArmedOnlyInBoot, StagedSoFar,
                      CopiedSoFar, WholeWhereNeeded

\* The last sector completes slot 1 before the register is armed.
LEMMA EndStagingStep ==
  ASSUME WInv, EndStaging
  PROVE  WInv'
  <1>1. /\ phase = "stage" /\ slot1' = Flushed
        /\ scratch' = "ota" /\ phase' = "boot"
        /\ sound' = (sound /\ index = ImagePages)
        /\ UNCHANGED <<slot0, index, sector, buffer, package>>
    BY DEF EndStaging, Staged
  <1>2. sound' => Image = 0 .. index - 1
    BY <1>1 DEF Image
  <1>3. sound' => Uniform(slot1)'
    BY <1>1, <1>2, FlushedSoFar DEF WInv, Uniform
  <1>4. TypeOK' /\ ArmedOnlyInBoot'
    BY <1>1, FlushedIsTyped DEF WInv, TypeOK, ArmedOnlyInBoot
  <1> QED BY <1>1, <1>3, <1>4
          DEF WInv, StagedSoFar, CopiedSoFar, WholeWhereNeeded, Uniform

\* The power may go at any moment but that of the copy.
LEMMA PowerLossStep ==
  ASSUME WInv, PowerLoss
  PROVE  WInv'
  <1>1. 0 \in 0 .. Pages /\ NoSector \in 0 .. NoSector
    BY Sizes, SectorsEnd
  <1>2. slot1' \in [SlotPages -> Contents]
    BY DEF PowerLoss, WInv, TypeOK, Contents
  <1>3. TypeOK' /\ ArmedOnlyInBoot'
    BY <1>1, <1>2 DEF PowerLoss, WInv, TypeOK, ArmedOnlyInBoot
  <1> QED BY <1>3
          DEF PowerLoss, WInv, StagedSoFar, CopiedSoFar, WholeWhereNeeded, Uniform

\* The copy of a whole slot 1 makes a whole slot 0.
LEMMA CopyPageStep ==
  ASSUME WInv, CopyPage
  PROVE  WInv'
  <1>1. /\ phase = "copy" /\ index \in 0 .. Pages /\ (sound => Uniform(slot1))
        /\ \A p \in 0 .. index - 1 : slot0[p] = slot1[p]
        /\ UNCHANGED <<scratch, slot1, sector, buffer, package, sound>>
        /\ slot0 \in [SlotPages -> Contents]
        /\ slot1 \in [SlotPages -> Contents]
    BY DEF CopyPage, WInv, CopiedSoFar, WholeWhereNeeded, TypeOK
  <1>2. CASE index = Pages /\ phase' = "check" /\ UNCHANGED <<slot0, index>>
    <2>1. sound => Uniform(slot0)'
      <3>1. Image \subseteq 0 .. index - 1
        BY <1>2, Sizes DEF SlotPages
      <3> QED BY <1>1, <1>2, <3>1 DEF Uniform
    <2>2. TypeOK' /\ ArmedOnlyInBoot'
      BY <1>1, <1>2 DEF WInv, TypeOK, ArmedOnlyInBoot
    <2> QED BY <1>1, <1>2, <2>1, <2>2
            DEF StagedSoFar, CopiedSoFar, WholeWhereNeeded, WInv
  <1>3. CASE /\ index # Pages
             /\ slot0' = [slot0 EXCEPT ![index] = slot1[index]]
             /\ index' = index + 1 /\ phase' = phase
    <2>1. index \in SlotPages /\ index' \in 0 .. Pages
          /\ \A p : p \in 0 .. index' - 1 <=> p \in 0 .. index - 1 \/ p = index
      BY <1>1, <1>3, Sizes DEF SlotPages
    <2>2. slot0' \in [SlotPages -> Contents]
      BY <1>1, <1>3, <2>1
    <2>3. \A p \in 0 .. index' - 1 : slot0'[p] = slot1'[p]
      BY <1>1, <1>3, <2>1
    <2>4. TypeOK' /\ ArmedOnlyInBoot'
      BY <1>1, <1>3, <2>1, <2>2 DEF WInv, TypeOK, ArmedOnlyInBoot
    <2> QED BY <1>1, <1>3, <2>1, <2>3, <2>4
            DEF StagedSoFar, CopiedSoFar, WholeWhereNeeded, WInv, Uniform
  <1> QED BY <1>2, <1>3 DEF CopyPage

\* Erasing slot 0 leaves slot 1 whole.
LEMMA EraseSectorStep ==
  ASSUME WInv, EraseSector
  PROVE  WInv'
  <1>1. /\ phase = "erase" /\ index \in 0 .. NoSector
        /\ (sound => Uniform(slot1))
        /\ UNCHANGED <<scratch, slot1, sector, buffer, package, sound>>
        /\ slot0 \in [SlotPages -> Contents]
    BY DEF EraseSector, WInv, WholeWhereNeeded, TypeOK
  <1>2. CASE phase' = "copy" /\ index' = 0 /\ slot0' = slot0
    <2>1. 0 \in 0 .. Pages /\ 0 .. 0 - 1 = {}
      BY Sizes
    <2>2. TypeOK' /\ ArmedOnlyInBoot'
      BY <1>1, <1>2, <2>1 DEF WInv, TypeOK, ArmedOnlyInBoot
    <2>3. CopiedSoFar'
      BY <1>2, <2>1 DEF CopiedSoFar
    <2> QED BY <1>1, <1>2, <2>2, <2>3
            DEF WInv, StagedSoFar, WholeWhereNeeded, Uniform
  <1>3. CASE /\ index # NoSector /\ index' = index + 1 /\ phase' = phase
             /\ slot0' = [p \in SlotPages |->
                            IF SectorOf[p] = index THEN "blank" ELSE slot0[p]]
    <2>1. index' \in 0 .. NoSector
      BY <1>1, <1>3, SectorsEnd
    <2>2. slot0' \in [SlotPages -> Contents]
      BY <1>1, <1>3 DEF Contents
    <2>3. TypeOK' /\ ArmedOnlyInBoot'
      BY <1>1, <1>3, <2>1, <2>2 DEF WInv, TypeOK, ArmedOnlyInBoot
    <2> QED BY <1>1, <1>3, <2>3
            DEF WInv, StagedSoFar, CopiedSoFar, WholeWhereNeeded, Uniform
  <1> QED BY <1>2, <1>3 DEF EraseSector, SlotErased

\* The boot loader finds slot 1 whole when the register is armed.
LEMMA BootArmedStep ==
  ASSUME WInv, BootArmed
  PROVE  WInv'
  <1>1. 0 \in 0 .. NoSector
    BY SectorsEnd
  <1>2. TypeOK' /\ ArmedOnlyInBoot'
    BY <1>1 DEF WInv, TypeOK, ArmedOnlyInBoot, BootArmed, MarkCleared
  <1> QED BY <1>2 DEF WInv, BootArmed, StagedSoFar, CopiedSoFar,
                      WholeWhereNeeded, Uniform

\* The steps that write no slot, and the factory image.
LEMMA OtherSteps ==
  ASSUME WInv, \/ PackageAltered \/ ProbeMark \/ WatchdogReset \/ Launch
               \/ Recover \/ UNCHANGED vars
  PROVE  WInv'
  <1>1. CASE Recover
    BY <1>1, FactoryIsWhole
       DEF WInv, TypeOK, ArmedOnlyInBoot, StagedSoFar, CopiedSoFar,
           WholeWhereNeeded, Recover
  <1>2. CASE UNCHANGED vars
    BY <1>2 DEF WInv, TypeOK, ArmedOnlyInBoot, StagedSoFar, CopiedSoFar,
                WholeWhereNeeded, Uniform, vars, ImageOf
  <1>3. CASE PackageAltered \/ ProbeMark
    <2>1. /\ phase = "app" /\ phase' = "app" /\ scratch' \in {"clear", "probe"}
          /\ package' \in {"signed", "altered"}
          /\ UNCHANGED <<slot0, slot1, index, sector, buffer, sound>>
      BY <1>3 DEF WInv, TypeOK, ArmedOnlyInBoot, PackageAltered, ProbeMark
    <2> QED
      BY <2>1 DEF WInv, TypeOK, ArmedOnlyInBoot, StagedSoFar, CopiedSoFar,
                  WholeWhereNeeded, Uniform
  <1>5. CASE WatchdogReset
    <2>1. scratch # "ota" /\ phase = "app" /\ phase' = "boot" /\ scratch' = scratch
      BY <1>5 DEF WInv, ArmedOnlyInBoot, WatchdogReset
    <2> QED
      BY <1>5, <2>1
      DEF WInv, TypeOK, ArmedOnlyInBoot, StagedSoFar, CopiedSoFar,
          WholeWhereNeeded, Uniform, WatchdogReset
  <1>4. CASE Launch
    BY <1>4 DEF WInv, TypeOK, ArmedOnlyInBoot, StagedSoFar, CopiedSoFar,
                WholeWhereNeeded, Uniform, Launch, Outcome
  <1> QED BY <1>1, <1>2, <1>3, <1>4, <1>5

\* The invariant holds of a board from the factory.
LEMMA InitHolds == Init => WInv
  <1> SUFFICES ASSUME Init PROVE WInv
    OBVIOUS
  <1>1. 0 \in 0 .. Pages /\ NoSector \in 0 .. NoSector
    BY Sizes, SectorsEnd
  <1>2. TypeOK
    BY <1>1, FactoryIsWhole DEF Init, TypeOK, Contents
  <1> QED BY <1>2, FactoryIsWhole
          DEF Init, WInv, ArmedOnlyInBoot, StagedSoFar, CopiedSoFar,
              WholeWhereNeeded

\* Every step keeps the invariant.
LEMMA NextKeeps == WInv /\ [Next]_vars => WInv'
  BY BeginUpdateStep, StageBlockStep, SkipBlockStep, EndStagingStep,
     CopyPageStep, EraseSectorStep, BootArmedStep, PowerLossStep, OtherSteps
  DEF Next, BootStep

\* The state of the two programs has its form, whatever fails (TypeOK of the
\* runs).
THEOREM TypeCorrect == Spec => []TypeOK
  <1>1. WInv => TypeOK
    BY DEF WInv
  <1> QED BY <1>1, InitHolds, NextKeeps, PTL DEF Spec

\* The firmware that runs is one whole image, for every size of the slots and
\* every layout of their sectors, even if the package was altered and wherever
\* the power was lost, unless a block was missed or a copy was cut off
\* (WholeUnlessCut of the runs).
THEOREM WholeImageRuns == Spec => []WholeUnlessCut
  <1>1. WInv => WholeUnlessCut
    BY Sizes DEF WInv, WholeWhereNeeded, WholeUnlessCut, RunsWholeImage, Uniform
  <1> QED BY <1>1, InitHolds, NextKeeps, PTL DEF Spec

=============================================================================
