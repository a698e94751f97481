-------------------------- MODULE CardWritesProofs --------------------------
(***************************************************************************)
(* Proofs about CardWrites.  The commands share only the job and the       *)
(* grant, so the invariant has a part for each of them: how far the core   *)
(* file, the settings and the theme are when the job is at a given call.   *)
(***************************************************************************)
EXTENDS CardWrites, TLAPS

\* How far AT+FILEWRITE is at each call.
FileSteps ==
  job.kind = "file" =>
    /\ ~ file.told /\ file.written >= 0
    /\ job.step \in {"check", "receive", "sync", "delete", "rename"}
    /\ job.step \in {"check", "receive"} => file.written < Chunks
    /\ job.step \in {"check", "receive", "sync"} /\ file.kept =>
         file.final # "none"
    /\ job.step = "receive" => file.overdue = 0
    /\ job.step \in {"sync", "delete", "rename"} => file.written = Chunks
    /\ job.step \in {"delete", "rename"} => file.safe = Chunks

FileInv == FileSteps /\ NeverTorn /\ OneCopy /\ OneChunkOverdue

\* What AT&W has put on the card.
SaveSteps ==
  /\ job.kind = "save" =>
       /\ job.step \in {"open", "write"}
       /\ cfg.last = NoValue /\ ~ cfg.fresh
  /\ cfg.last # NoValue => /\ cfg.saved = Written(cfg.last)
                           /\ cfg.ram.name \in {cfg.last.name, NoValue}

\* The settings after a load, in the terms of the model.
Returned ==
  cfg.fresh /\ cfg.last # NoValue =>
    cfg.ram = Loaded(Written(cfg.last), Defaults)

SaveInv == SaveSteps /\ Returned

\* What WWW has while a theme is installed.
ThemeSteps ==
  job.kind = "theme" =>
    /\ job.package \in Signed
    /\ job.step \in {"clear", "clearSub", "extract", "write"}
    /\ job.step = "write" => \A page \in www : page.package = job.package

ThemeInv == ThemeSteps /\ OneTheme /\ InstallIsWhole

IInv == TypeOK /\ FileInv /\ SaveInv /\ ThemeInv

FileActions ==
  \/ FileBegin \/ FileRefused \/ FileCheck \/ FileChunk \/ FileChunkFails
  \/ FileSync \/ FileDelete \/ FileRename \/ CleanUp

SaveActions ==
  \/ SetInterval \/ Save \/ SaveOpen \/ SaveWrite
  \/ FirstInit \/ HotPlug \/ Mount

ThemeActions ==
  ThemeBegin \/ ThemeClear \/ ThemeClearSub \/ ThemeExtract \/ ThemeWrite

JobType ==
  [kind : {"idle", "file", "save", "theme"},
   step : {"none", "check", "receive", "sync", "delete", "rename",
           "open", "write", "clear", "clearSub", "extract"},
   package : Packages \cup {NoValue}]
FileType ==
  [final : {"none", "old", "new", "torn"}, written : -1 .. Chunks,
   safe : -1 .. Chunks, told : BOOLEAN,
   kept : BOOLEAN, overdue : Nat]
CfgType ==
  [ram : Settings(0), saved : Settings(NoValue), fresh : BOOLEAN,
   last : Settings(0) \cup {NoValue}]
BootType == {"starts", "waits", "loaded"}
PageType == [package : Packages, file : Files, whole : BOOLEAN]
GrantType == [active : BOOLEAN, pin : BOOLEAN]
BudgetType == [faults : 0 .. MaxFaults, cuts : 0 .. MaxCuts]

\* The counts of chunks.
LEMMA ChunkCounts ==
  /\ Chunks \in Nat /\ Chunks >= 1
  /\ -1 \in -1 .. Chunks /\ 0 \in -1 .. Chunks
  BY CardAssumption

\* TypeOK as named sets.
LEMMA Types ==
  TypeOK <=> /\ job \in JobType /\ file \in FileType /\ cfg \in CfgType
             /\ boot \in BootType /\ www \subseteq PageType
             /\ grant \in GrantType /\ budget \in BudgetType
  BY DEF TypeOK, JobType, FileType, CfgType, BootType, PageType, GrantType,
     BudgetType

LEMMA SignedOnes == Signed \subseteq Packages
  BY CardAssumption

LEMMA Bounds == MaxFaults \in Nat /\ MaxCuts \in Nat
  BY CardAssumption

\* The calls that fail or not spend no more than there is.
LEMMA BudgetKept ==
  ASSUME budget \in BudgetType, Works \/ Fault \/ Fails(2)
  PROVE  budget' \in BudgetType
  <1>1. CASE Works
    BY <1>1 DEF Works
  <1>2. ASSUME NEW calls \in {1, 2}, Fails(calls) PROVE budget' \in BudgetType
    <2>1. budget.faults \in 0 .. MaxFaults /\ budget.faults >= calls
      BY <1>2 DEF Fails, BudgetType
    <2>2. budget.faults - calls \in 0 .. MaxFaults
      BY <2>1, Bounds
    <2> QED
      BY <1>2, <2>2 DEF Fails, BudgetType
  <1> QED
    BY <1>1, <1>2 DEF Fault

-----------------------------------------------------------------------------
(* The core file.                                                          *)

\* A command that fails while a copy is under the name.
LEMMA FailsKeeps ==
  ASSUME file \in FileType, FileInv, FileFails,
         file.kept => file.final # "none"
  PROVE  job' = Idle /\ file' \in FileType /\ FileInv'
  <1>1. /\ file.final \in {"none", "old", "new"}
        /\ file.written \in -1 .. Chunks /\ file.overdue \in {0, 1}
    BY DEF FileInv, NeverTorn, OneChunkOverdue, FileType
  <1>2. job' = Idle
    BY DEF FileFails, Ends
  <1>3. \/ file' = [file EXCEPT !.written = -1, !.safe = -1]
        \/ file' = [file EXCEPT !.safe = file.written]
    BY DEF FileFails, Discards, FileType
  <1>4. /\ file' \in FileType /\ file'.final = file.final
        /\ file'.told = file.told /\ file'.kept = file.kept
        /\ file'.overdue = file.overdue
    BY <1>3, ChunkCounts DEF FileType
  <1>5. job'.kind = "idle"
    BY <1>2 DEF Idle
  <1>6. FileSteps'
    BY <1>5 DEF FileSteps
  <1>7. NeverTorn' /\ OneCopy' /\ OneChunkOverdue'
    BY <1>1, <1>4 DEF FileInv, NeverTorn, OneCopy, OneChunkOverdue
  <1> QED
    BY <1>2, <1>4, <1>6, <1>7 DEF FileInv

\* What is left of the core file f when two calls may have failed.
LEMMA FailsTyped ==
  ASSUME NEW f \in FileType, NEW safe \in -1 .. Chunks, FailsToo(f, safe)
  PROVE  /\ file' \in FileType /\ file'.final = f.final /\ file'.told = f.told
         /\ file'.kept = f.kept /\ file'.overdue = f.overdue
  <1>1. \/ file' = [f EXCEPT !.written = -1, !.safe = -1]
        \/ file' = [f EXCEPT !.safe = safe]
    BY DEF FailsToo
  <1> QED
    BY <1>1, ChunkCounts DEF FileType

\* Every action of AT+FILEWRITE keeps the part of the core file.
LEMMA FileKept ==
  ASSUME TypeOK, FileInv, FileActions
  PROVE  job' \in JobType /\ file' \in FileType /\ FileInv'
  <1>1. job \in JobType /\ file \in FileType
    BY Types
  <1>2. /\ job.kind = "idle" => job'.kind # "file" \/ FileBegin
        /\ Idle \in JobType /\ Idle.kind # "file"
    BY <1>1 DEF Idle, JobType, FileActions, FileRefused, FileCheck, FileChunk,
       FileChunkFails, FileSync, FileDelete, FileRename, CleanUp, At, Idle
  <1> USE DEF FileInv, NeverTorn, OneCopy, OneChunkOverdue, FileType
  <1>3. CASE FileBegin
    <2>1. job' \in JobType /\ job'.kind = "file" /\ job'.step = "check"
      BY <1>1, <1>3 DEF FileBegin, Begins, JobType
    <2>2. file' = [file EXCEPT !.written = 0, !.safe = 0, !.told = FALSE,
                               !.overdue = 0, !.kept = @ /\ ~ OnlyCopy]
      BY <1>3 DEF FileBegin
    <2>3. /\ file' \in FileType /\ file'.final = file.final
          /\ file'.written = 0 /\ file'.safe = 0 /\ file'.told = FALSE
          /\ file'.overdue = 0 /\ file'.kept = (file.kept /\ ~ OnlyCopy)
      BY <1>1, <2>2, ChunkCounts
    <2> QED
      BY <1>1, <2>1, <2>3, ChunkCounts DEF FileSteps, OnlyCopy
  <1>4. CASE FileRefused
    <2>1. job' \in JobType /\ FileSteps'
      BY <1>1, <1>2, <1>4 DEF FileRefused, FileSteps
    <2>2. CASE file' = [file EXCEPT !.told = FALSE]
      <3>1. /\ file' \in FileType /\ ~ file'.told
            /\ file'.final = file.final /\ file'.kept = file.kept
            /\ file'.safe = file.safe /\ file'.overdue = file.overdue
        BY <1>1, <2>2
      <3> QED
        BY <1>1, <2>1, <3>1
    <2>3. CASE file' = [file EXCEPT !.written = -1, !.safe = -1,
                                    !.told = FALSE, !.kept = @ /\ ~ OnlyCopy]
      <3>1. /\ file' \in FileType /\ ~ file'.told
            /\ file'.final = file.final /\ file'.overdue = file.overdue
            /\ file'.kept = (file.kept /\ ~ OnlyCopy)
        BY <1>1, <2>3, ChunkCounts
      <3> QED
        BY <1>1, <2>1, <3>1 DEF OnlyCopy
    <2> QED BY <1>4, <2>2, <2>3 DEF FileRefused
  <1>5. CASE FileCheck
    <2>1. CASE FileFails
      BY <1>1, <1>2, <1>5, <2>1, FailsKeeps DEF FileCheck, At, FileSteps
    <2>2. CASE ~ FileFails
      BY <1>1, <1>5, <2>2, ChunkCounts, SMTT(60)
      DEF FileCheck, At, Goes, FileSteps, JobType, GrantedForChunk
    <2> QED BY <2>1, <2>2
  <1>6. CASE FileChunk
    <2>1. /\ job.kind = "file" /\ job.step = "receive"
          /\ job' = [job EXCEPT !.step = IF file.written + 1 = Chunks
                                           THEN "sync" ELSE "check"]
          /\ file' = [file EXCEPT !.written = @ + 1,
                                  !.overdue = IF Granted THEN @ ELSE @ + 1]
      BY <1>6 DEF FileChunk, At, Goes, Last
    <2>2. /\ job' \in JobType /\ job'.kind = "file"
          /\ job'.step = IF file.written + 1 = Chunks THEN "sync" ELSE "check"
      BY <1>1, <2>1 DEF JobType
    <2>3. /\ ~ file.told /\ file.written \in 0 .. Chunks - 1
          /\ file.overdue = 0 /\ (file.kept => file.final # "none")
      BY <1>1, <2>1, ChunkCounts DEF FileSteps
    <2>4. file.written + 1 \in -1 .. Chunks
      BY <2>3, ChunkCounts
    <2>5. /\ file' \in FileType /\ file'.final = file.final
          /\ file'.written = file.written + 1 /\ ~ file'.told
          /\ file'.overdue \in {0, 1} /\ file'.kept = file.kept
      <3>1. CASE Granted
        <4>1. file' = [file EXCEPT !.written = file.written + 1, !.overdue = 0]
          BY <1>1, <2>1, <2>3, <3>1
        <4> QED
          BY <1>1, <2>3, <2>4, <4>1
      <3>2. CASE ~ Granted
        <4>1. file' = [file EXCEPT !.written = file.written + 1, !.overdue = 1]
          BY <1>1, <2>1, <2>3, <3>2
        <4> QED
          BY <1>1, <2>3, <2>4, <4>1
      <3> QED
        BY <3>1, <3>2
    <2> QED
      BY <1>1, <2>2, <2>3, <2>5, ChunkCounts DEF FileSteps
  <1>7. CASE FileChunkFails
    <2>1. CASE FileFails
      BY <1>1, <1>2, <1>7, <2>1, FailsKeeps DEF FileChunkFails, At, FileSteps
    <2>2. CASE ~ FileFails
      <3>1. /\ \E safe \in {file.safe, file.written} : FailsToo(file, safe)
            /\ job' = Idle /\ job.kind = "file"
            /\ job.step \in {"receive", "sync"}
        BY <1>7, <2>2 DEF FileChunkFails, At, Ends
      <3>2. job' \in JobType /\ FileSteps'
        BY <1>2, <3>1 DEF FileSteps
      <3>3. /\ file' \in FileType /\ ~ file'.told
            /\ file'.final = file.final /\ file'.kept = file.kept
            /\ file'.overdue = file.overdue
        <4>1. ~ file.told
          BY <3>1 DEF FileSteps
        <4> QED
          BY <1>1, <3>1, <4>1, FailsTyped
      <3>4. file.kept => file.final # "none"
        BY <3>1 DEF FileSteps
      <3> QED
        BY <1>1, <3>2, <3>3, <3>4
    <2> QED BY <2>1, <2>2
  <1>8. CASE FileSync
    <2>1. /\ job.kind = "file" /\ job.step = "sync"
          /\ job' = [job EXCEPT !.step = "delete"]
          /\ file' = [file EXCEPT !.safe = file.written]
      BY <1>8 DEF FileSync, At, Goes
    <2>2. job' \in JobType /\ job'.kind = "file" /\ job'.step = "delete"
      BY <1>1, <2>1 DEF JobType
    <2>3. /\ file' \in FileType /\ file'.final = file.final
          /\ file'.written = file.written /\ file'.safe = file.written
          /\ file'.told = file.told /\ file'.overdue = file.overdue
          /\ file'.kept = file.kept
      BY <1>1, <2>1
    <2> QED
      BY <1>1, <2>1, <2>2, <2>3, ChunkCounts DEF FileSteps
  <1>9. CASE FileDelete
    BY <1>1, <1>9, ChunkCounts, SMTT(60) DEF FileDelete, At, Goes, FileSteps, JobType
  <1>10. CASE FileRename
    <2>1. CASE FileFails /\ file.final # "none"
      BY <1>1, <1>2, <2>1, FailsKeeps
    <2>2. CASE ~ (FileFails /\ file.final # "none")
      <3>1. /\ job' = Idle /\ job.kind = "file" /\ job.step = "rename"
            /\ file.final = "none"
        BY <1>10, <2>2 DEF FileRename, At, Ends
      <3>2. job' \in JobType /\ FileSteps' /\ file.safe = Chunks
        BY <1>2, <3>1 DEF FileSteps
      <3>3. CASE file' = [file EXCEPT !.final = Sent(file.safe), !.written = -1,
                                      !.safe = -1, !.told = TRUE, !.kept = TRUE]
        <4>1. Sent(file.safe) = "new"
          BY <3>2 DEF Sent
        <4>2. /\ file' \in FileType /\ file'.told
              /\ file'.final = "new" /\ file'.overdue = file.overdue
          BY <1>1, <3>3, <4>1, ChunkCounts
        <4> QED
          BY <1>1, <3>2, <4>2
      <3>4. CASE FailsToo([file EXCEPT !.kept = FALSE], file.safe)
        <4> DEFINE lost == [file EXCEPT !.kept = FALSE]
        <4>0. /\ lost \in FileType /\ ~ lost.told /\ ~ lost.kept
              /\ lost.final = "none" /\ lost.overdue = file.overdue
              /\ file.safe \in -1 .. Chunks
          BY <1>1, <3>1 DEF FileSteps
        <4>1. /\ file' \in FileType /\ ~ file'.told /\ ~ file'.kept
              /\ file'.final = "none" /\ file'.overdue = file.overdue
          <5> HIDE DEF lost
          <5>1. FailsToo(lost, file.safe)
            BY <3>4 DEF lost
          <5> QED
            BY <4>0, <5>1, FailsTyped
        <4> QED
          BY <1>1, <3>2, <4>1
      <3> QED
        BY <1>10, <2>2, <3>3, <3>4 DEF FileRename
    <2> QED BY <2>1, <2>2
  <1>11. CASE CleanUp
    <2>1. /\ job' = Idle
          /\ file' = [file EXCEPT !.written = -1, !.safe = -1,
                                  !.kept = @ /\ ~ OnlyCopy]
      BY <1>11 DEF CleanUp
    <2>2. job' \in JobType /\ FileSteps'
      BY <1>2, <2>1 DEF FileSteps
    <2>3. /\ file' \in FileType /\ file'.final = file.final
          /\ file'.told = file.told /\ file'.overdue = file.overdue
          /\ file'.kept = (file.kept /\ ~ OnlyCopy)
      BY <1>1, <2>1, ChunkCounts
    <2> QED
      BY <1>1, <2>2, <2>3 DEF OnlyCopy
  <1> QED
    BY <1>3, <1>4, <1>5, <1>6, <1>7, <1>8, <1>9, <1>10, <1>11 DEF FileActions

-----------------------------------------------------------------------------
(* The settings.                                                           *)

LEMMA Hours ==
  0 \in Nat /\ NoValue \notin Intervals /\ 3 \in Intervals /\ 0 \notin Intervals
  BY CardAssumption

\* What is written, and what is loaded from a file, are settings.
LEMMA SettingsTypes ==
  ASSUME NEW v \in Settings(0), NEW saved \in Settings(NoValue)
  PROVE  /\ Written(v) \in Settings(NoValue)
         /\ Beginnings(v) \subseteq Settings(NoValue)
         /\ Loaded(saved, v) \in Settings(0)
         /\ Defaults \in Settings(0) /\ Empty \in Settings(NoValue)
  BY Hours DEF Settings, Written, Beginnings, Loaded, Defaults, Empty

\* Settings that were written come back, onto any interval and onto the same
\* name or none.
LEMMA ComesBack ==
  ASSUME NEW v \in Settings(0), NEW u \in Settings(0),
         u.name \in {v.name, NoValue}
  PROVE  /\ Loaded(Written(v), u) = Loaded(Written(v), Defaults)
         /\ Loaded(Written(v), u).name = v.name
  BY Hours DEF Settings, Written, Loaded, Defaults

LEMMA ReturnMeans ==
  ASSUME cfg \in CfgType, Returned
  PROVE  SettingsReturn
  BY Hours DEF SettingsReturn, Returned, CfgType, Settings, Written, Loaded, Defaults

\* A load, whether it succeeds or not, keeps the part of the settings.
LEMMA LoadsKept ==
  ASSUME cfg \in CfgType, SaveInv, Loads, job' = job, job.kind # "save"
  PROVE  cfg' \in CfgType /\ SaveInv'
  <1>1. /\ cfg.ram \in Settings(0) /\ cfg.saved \in Settings(NoValue)
        /\ cfg.last # NoValue => cfg.last \in Settings(0)
    BY DEF CfgType
  <1>2. CASE cfg' = cfg
    BY <1>2 DEF SaveInv, SaveSteps, Returned
  <1>3. CASE cfg' = [cfg EXCEPT !.ram = Loaded(cfg.saved, cfg.ram), !.fresh = TRUE]
    <2>1. Loaded(cfg.saved, cfg.ram) \in Settings(0)
      BY <1>1, SettingsTypes
    <2>2. /\ cfg' \in CfgType /\ cfg'.ram = Loaded(cfg.saved, cfg.ram)
          /\ cfg'.saved = cfg.saved /\ cfg'.last = cfg.last
      BY <1>3, <2>1 DEF CfgType
    <2>3. ASSUME cfg.last # NoValue
          PROVE  /\ cfg'.ram = Loaded(Written(cfg.last), Defaults)
                 /\ cfg'.ram.name = cfg.last.name
      <3>1. /\ cfg.last \in Settings(0) /\ cfg.saved = Written(cfg.last)
            /\ cfg.ram.name \in {cfg.last.name, NoValue}
        BY <1>1, <2>3 DEF SaveInv, SaveSteps
      <3> QED
        BY <1>1, <2>2, <3>1, ComesBack
    <2> QED
      BY <2>2, <2>3 DEF SaveInv, SaveSteps, Returned
  <1> QED
    BY <1>2, <1>3 DEF Loads

\* Every action that touches the settings keeps their part.
LEMMA SaveKept ==
  ASSUME TypeOK, SaveInv, SaveActions
  PROVE  job' \in JobType /\ cfg' \in CfgType /\ SaveInv'
  <1>1. job \in JobType /\ cfg \in CfgType
    BY Types
  <1>2. /\ cfg.ram \in Settings(0) /\ cfg.saved \in Settings(NoValue)
        /\ cfg.last \in Settings(0) \cup {NoValue} /\ cfg.fresh \in BOOLEAN
    BY <1>1 DEF CfgType
  <1>3. Idle \in JobType /\ Idle.kind = "idle"
    BY DEF Idle, JobType
  <1>4. CASE SetInterval
    <2>1. PICK hours \in Intervals :
            cfg' = [cfg EXCEPT !.ram.interval = hours, !.fresh = FALSE]
      BY <1>4 DEF SetInterval
    <2>2. /\ [cfg.ram EXCEPT !.interval = hours] \in Settings(0)
          /\ [cfg.ram EXCEPT !.interval = hours].name = cfg.ram.name
      BY <1>2 DEF Settings
    <2>3. /\ cfg' \in CfgType /\ cfg'.saved = cfg.saved /\ cfg'.last = cfg.last
          /\ cfg'.ram.name = cfg.ram.name /\ cfg'.fresh = FALSE
      BY <1>1, <1>2, <2>1, <2>2 DEF CfgType
    <2> QED
      BY <1>1, <1>3, <1>4, <2>3 DEF SetInterval, SaveInv, SaveSteps, Returned
  <1>5. CASE Save
    <2>1. PICK name \in MachineNames \cup {cfg.ram.name} :
            cfg' = [cfg EXCEPT !.ram.name = name, !.last = NoValue, !.fresh = FALSE]
      BY <1>5 DEF Save
    <2>2. [cfg.ram EXCEPT !.name = name] \in Settings(0)
      BY <1>2 DEF Settings
    <2>3. cfg' \in CfgType /\ cfg'.last = NoValue /\ cfg'.fresh = FALSE
      BY <1>1, <1>2, <2>1, <2>2 DEF CfgType
    <2>4. job' \in JobType /\ job'.kind = "save" /\ job'.step = "open"
      BY <1>5 DEF Save, Begins, JobType
    <2> QED
      BY <2>3, <2>4 DEF SaveInv, SaveSteps, Returned
  <1>6. CASE SaveOpen
    <2>1. cfg' = cfg /\ job.kind = "save"
      BY <1>6 DEF SaveOpen, At
    <2>2. job' = [job EXCEPT !.step = "write"] \/ job' = Idle
      BY <1>6 DEF SaveOpen, Goes, Ends
    <2>3. /\ job' \in JobType
          /\ job'.kind = "save" => job'.step = "write"
      BY <1>1, <1>3, <2>2 DEF JobType
    <2> QED
      BY <1>1, <2>1, <2>3 DEF SaveInv, SaveSteps, Returned
  <1>7. CASE SaveWrite
    <2>1. job' = Idle /\ cfg.last = NoValue /\ ~ cfg.fresh
      BY <1>7 DEF SaveWrite, Ends, SaveInv, SaveSteps, At
    <2>2. CASE cfg' = [cfg EXCEPT !.saved = Written(cfg.ram), !.last = cfg.ram]
      <3>1. Written(cfg.ram) \in Settings(NoValue)
        BY <1>2, SettingsTypes
      <3>2. /\ cfg' \in CfgType /\ cfg'.saved = Written(cfg.ram)
            /\ cfg'.last = cfg.ram /\ cfg'.ram = cfg.ram
            /\ cfg'.fresh = cfg.fresh
        BY <1>1, <1>2, <2>2, <3>1 DEF CfgType
      <3> QED
        BY <1>3, <2>1, <3>2 DEF SaveInv, SaveSteps, Returned
    <2>3. CASE \E saved \in Beginnings(cfg.ram) : cfg' = [cfg EXCEPT !.saved = saved]
      <3>1. PICK saved \in Settings(NoValue) : cfg' = [cfg EXCEPT !.saved = saved]
        BY <1>2, <2>3, SettingsTypes
      <3>2. cfg' \in CfgType /\ cfg'.last = cfg.last /\ cfg'.fresh = cfg.fresh
        BY <1>1, <1>2, <3>1 DEF CfgType
      <3> QED
        BY <1>3, <2>1, <3>2 DEF SaveInv, SaveSteps, Returned
    <2> QED
      BY <1>7, <2>2, <2>3 DEF SaveWrite
  <1>8. CASE FirstInit \/ HotPlug \/ Mount
    <2>1. /\ job' = job /\ job.kind = "idle"
          /\ Loads \/ cfg' = cfg
      BY <1>3, <1>8 DEF FirstInit, HotPlug, Mount
    <2>2. CASE Loads
      BY <1>1, <2>1, <2>2, LoadsKept
    <2>3. CASE cfg' = cfg
      BY <1>1, <2>1, <2>3 DEF SaveInv, SaveSteps, Returned
    <2> QED
      BY <2>1, <2>2, <2>3
  <1> QED
    BY <1>4, <1>5, <1>6, <1>7, <1>8 DEF SaveActions

-----------------------------------------------------------------------------
(* The theme.                                                              *)

\* The steps of an install that leave it in progress.
LEMMA ThemeGoes ==
  ASSUME job \in JobType, NEW step \in {"clear", "clearSub", "extract", "write"},
         Goes(step)
  PROVE  /\ job' \in JobType /\ job'.kind = job.kind /\ job'.step = step
         /\ job'.package = job.package
  BY DEF Goes, JobType

\* A step that leaves WWW in order and ends the command.
LEMMA ThemeEnds ==
  ASSUME OneTheme, www' \subseteq www, Ends
  PROVE  job' \in JobType /\ ThemeInv'
  BY DEF Ends, Idle, JobType, ThemeInv, ThemeSteps, OneTheme, InstallIsWhole, At

\* Every action of an install keeps the part of the theme.
LEMMA ThemeKept ==
  ASSUME TypeOK, ThemeInv, ThemeActions
  PROVE  job' \in JobType /\ www' \subseteq PageType /\ ThemeInv'
  <1>1. job \in JobType /\ www \subseteq PageType /\ OneTheme
    BY Types DEF ThemeInv
  <1>2. CASE Ends /\ www' \subseteq www
    BY <1>1, <1>2, ThemeEnds
  <1>3. CASE ThemeBegin
    <2>1. PICK package \in Signed :
            job' = [kind |-> "theme", step |-> "clear", package |-> package]
      BY <1>3 DEF ThemeBegin, Begins, VerifyStored
    <2>2. /\ job' \in JobType /\ job'.kind = "theme" /\ job'.step = "clear"
          /\ job'.package \in Signed
      BY <2>1, CardAssumption DEF JobType
    <2> QED
      BY <1>1, <1>3, <2>2
      DEF ThemeBegin, ThemeInv, ThemeSteps, OneTheme, InstallIsWhole, At
  <1>4. CASE ThemeClear
    <2>1. job.kind = "theme" /\ job.package \in Signed
      BY <1>4 DEF ThemeClear, At, ThemeInv, ThemeSteps
    <2>2. CASE \E step \in {"clear", "clearSub"} : Goes(step) /\ www' \subseteq www
      BY <1>1, <2>1, <2>2, ThemeGoes
      DEF ThemeInv, ThemeSteps, OneTheme, InstallIsWhole, At
    <2>3. CASE Goes("extract") /\ www = {} /\ www' = www
      BY <1>1, <2>1, <2>3, ThemeGoes
      DEF ThemeInv, ThemeSteps, OneTheme, InstallIsWhole, At
    <2> QED
      BY <1>2, <1>4, <2>2, <2>3 DEF ThemeClear, ThemeStops
  <1>5. CASE ThemeClearSub
    <2>1. CASE job' = job /\ www' \subseteq www
      BY <1>1, <1>5, <2>1
      DEF ThemeClearSub, ThemeInv, ThemeSteps, OneTheme, InstallIsWhole, At
    <2> QED
      BY <1>2, <1>5, <2>1 DEF ThemeClearSub, ThemeStops
  <1>6. CASE ThemeExtract
    <2>1. /\ job.kind = "theme" /\ job.package \in Signed
          /\ \A page \in www : page.whole /\ page.package = job.package
      BY <1>6 DEF ThemeExtract, At, ThemeInv, ThemeSteps, InstallIsWhole
    <2>2. CASE Goes("write") /\ \E f \in Files :
                 www' = www \cup {[package |-> job.package, file |-> f,
                                   whole |-> FALSE]}
      <3>1. /\ job' \in JobType /\ job'.kind = "theme" /\ job'.step = "write"
            /\ job'.package = job.package
        BY <1>1, <2>1, <2>2, ThemeGoes
      <3>2. PICK f \in Files :
              www' = www \cup {[package |-> job.package, file |-> f,
                                whole |-> FALSE]}
        BY <2>2
      <3>3. [package |-> job.package, file |-> f, whole |-> FALSE] \in PageType
        BY <2>1, SignedOnes DEF PageType
      <3>4. www' \subseteq PageType
        BY <1>1, <3>2, <3>3
      <3>5. \A page \in www' : page.package = job.package
        BY <2>1, <3>2
      <3> QED
        BY <2>1, <3>1, <3>4, <3>5
        DEF ThemeInv, ThemeSteps, OneTheme, InstallIsWhole, At
    <2> QED
      BY <1>2, <1>6, <2>2 DEF ThemeExtract, ThemeStops
  <1>7. CASE ThemeWrite
    <2>1. /\ job.kind = "theme" /\ job.package \in Signed
          /\ \A page \in www : page.package = job.package
      BY <1>7 DEF ThemeWrite, At, ThemeInv, ThemeSteps
    <2>2. CASE Goes("extract") /\ www' = {[page EXCEPT !.whole = TRUE] : page \in www}
      <3>1. /\ job' \in JobType /\ job'.kind = "theme" /\ job'.step = "extract"
            /\ job'.package = job.package
        BY <1>1, <2>1, <2>2, ThemeGoes
      <3>2. ASSUME NEW page \in www'
            PROVE  page \in PageType /\ page.whole /\ page.package = job.package
        BY <1>1, <2>1, <2>2 DEF PageType
      <3> QED
        BY <2>1, <3>1, <3>2 DEF ThemeInv, ThemeSteps, OneTheme, InstallIsWhole, At
    <2> QED
      BY <1>2, <1>7, <2>2 DEF ThemeWrite, ThemeStops
  <1> QED
    BY <1>3, <1>4, <1>5, <1>6, <1>7 DEF ThemeActions

-----------------------------------------------------------------------------
(* The whole of it.                                                        *)

\* What the operator, the clock and the power do.
LEMMA PowerKept ==
  ASSUME IInv, PowerCut
  PROVE  IInv'
  <1>1. /\ job \in JobType /\ file \in FileType /\ cfg \in CfgType
        /\ www \subseteq PageType /\ grant \in GrantType /\ budget \in BudgetType
    BY Types DEF IInv
  <1>2. job' = Idle /\ job' \in JobType /\ job'.kind = "idle"
    BY DEF PowerCut, Ends, Idle, JobType
  <1>3. /\ file' \in FileType /\ file'.final = file.final /\ ~ file'.told
        /\ file'.overdue = 0 /\ file'.kept = file.kept /\ file'.safe = file.safe
    BY <1>1 DEF PowerCut, FileType
  <1>4. FileInv'
    BY <1>2, <1>3
    DEF IInv, FileInv, FileSteps, NeverTorn, OneCopy, OneChunkOverdue
  <1>5. /\ cfg.ram \in Settings(0) /\ cfg.saved \in Settings(NoValue)
        /\ cfg.last \in Settings(0) \cup {NoValue}
    BY <1>1 DEF CfgType
  <1>6. PICK saved \in {cfg.saved} \cup
                  IF At("save", "write") THEN Beginnings(cfg.ram) ELSE {} :
          cfg' = [cfg EXCEPT !.saved = saved, !.ram = Defaults, !.fresh = FALSE]
    BY DEF PowerCut
  <1>7. saved \in Settings(NoValue) /\ Defaults \in Settings(0)
    BY <1>5, <1>6, SettingsTypes
  <1>8. /\ cfg' \in CfgType /\ cfg'.saved = saved /\ cfg'.last = cfg.last
        /\ cfg'.ram = Defaults /\ cfg'.fresh = FALSE
    BY <1>1, <1>6, <1>7 DEF CfgType
  <1>9. cfg.last # NoValue => saved = Written(cfg.last)
    BY <1>6 DEF IInv, SaveInv, SaveSteps, At
  <1>10. SaveInv'
    BY <1>2, <1>8, <1>9 DEF SaveInv, SaveSteps, Returned, Defaults
  <1>11. www' = www /\ ThemeInv'
    BY <1>2 DEF PowerCut, IInv, ThemeInv, ThemeSteps, OneTheme, InstallIsWhole, At
  <1>12. grant' \in GrantType /\ budget' \in BudgetType
    <2>1. budget.cuts \in 0 .. MaxCuts /\ budget.cuts > 0
      BY <1>1 DEF PowerCut, BudgetType
    <2>2. budget.cuts - 1 \in 0 .. MaxCuts
      BY <2>1, Bounds
    <2> QED
      BY <1>1, <2>2 DEF PowerCut, GrantType, BudgetType
  <1>13. boot' \in BootType
    BY DEF PowerCut, BootType
  <1>14. TypeOK'
    BY <1>1, <1>2, <1>3, <1>8, <1>11, <1>12, <1>13
    DEF TypeOK, JobType, FileType, CfgType, BootType, PageType, GrantType,
        BudgetType
  <1> QED
    BY <1>4, <1>10, <1>11, <1>14 DEF IInv

\* The invariant holds at the start.
LEMMA InitOK == Init => IInv
  <1> SUFFICES ASSUME Init PROVE IInv
    OBVIOUS
  <1>1. job \in JobType /\ job.kind = "idle" /\ ~ At("theme", "extract")
    BY DEF Init, Idle, JobType, At
  <1>2. /\ file \in FileType /\ file.final \in {"none", "old"}
        /\ ~ file.told /\ file.overdue = 0
        /\ file.kept => file.final = "old"
    <2>1. CASE file = NoFile
      BY <2>1, ChunkCounts DEF NoFile, FileType
    <2>2. CASE file = [NoFile EXCEPT !.final = "old", !.kept = TRUE]
      <3>1. file = [final |-> "old", written |-> -1, safe |-> -1,
                    told |-> FALSE, kept |-> TRUE, overdue |-> 0]
        BY <2>2 DEF NoFile
      <3> QED
        BY <3>1, ChunkCounts DEF FileType
    <2> QED
      BY <2>1, <2>2 DEF Init
  <1>3. FileInv
    BY <1>1, <1>2 DEF FileInv, FileSteps, NeverTorn, OneCopy, OneChunkOverdue
  <1>4. Defaults \in Settings(0) /\ Empty \in Settings(NoValue)
    BY Hours DEF Settings, Defaults, Empty
  <1>5. cfg \in CfgType /\ cfg.last = NoValue /\ ~ cfg.fresh
    BY <1>4 DEF Init, CfgType
  <1>6. SaveInv
    BY <1>1, <1>5 DEF SaveInv, SaveSteps, Returned
  <1>7. www \subseteq PageType /\ OneTheme
    <2>1. CASE www = {}
      BY <2>1 DEF OneTheme
    <2>2. CASE \E package \in Signed : www = Theme(package)
      <3>1. PICK package \in Signed : www = Theme(package)
        BY <2>2
      <3>2. \A page \in www : page \in PageType /\ page.package = package
        BY <3>1, SignedOnes DEF Theme, PageType
      <3> QED
        BY <3>1, <3>2 DEF OneTheme
    <2> QED
      BY <2>1, <2>2 DEF Init
  <1>8. ThemeInv
    BY <1>1, <1>7 DEF ThemeInv, ThemeSteps, InstallIsWhole
  <1>9. grant \in GrantType /\ budget \in BudgetType /\ boot \in BootType
    BY Bounds DEF Init, GrantType, BudgetType, BootType
  <1> QED
    BY <1>1, <1>2, <1>3, <1>5, <1>6, <1>7, <1>8, <1>9, Types DEF IInv

\* No command touches the grant and the budget but as they allow.
LEMMA RestKept ==
  ASSUME IInv, FileActions \/ SaveActions \/ ThemeActions
  PROVE  grant' \in GrantType /\ budget' \in BudgetType
  <1>1. grant \in GrantType /\ budget \in BudgetType
    BY Types DEF IInv
  <1>2. Granted \in BOOLEAN
    BY <1>1 DEF Granted, GrantType
  <1>3. Checked \/ UNCHANGED grant
    BY DEF FileActions, SaveActions, ThemeActions, FileBegin, FileRefused,
       FileCheck, FileChunk, FileChunkFails, FileSync, FileDelete, FileRename,
       CleanUp, SetInterval, Save, SaveOpen, SaveWrite, FirstInit, HotPlug,
       Mount, ThemeBegin, ThemeClear, ThemeClearSub, ThemeExtract, ThemeWrite,
       ThemeStops, Begins
  <1>4. Works \/ Fault \/ Fails(2)
    BY DEF FileActions, SaveActions, ThemeActions, FileBegin, FileRefused,
       FileCheck, FileChunk, FileChunkFails, FileSync, FileDelete, FileRename,
       CleanUp, SetInterval, Save, SaveOpen, SaveWrite, FirstInit, HotPlug,
       Mount, Loads, ThemeBegin, ThemeClear, ThemeClearSub, ThemeExtract,
       ThemeWrite, FileFails, Discards, FailsToo, Works
  <1>5. grant' \in GrantType
    BY <1>1, <1>2, <1>3 DEF Checked, GrantType
  <1> QED
    BY <1>1, <1>4, <1>5, BudgetKept

\* Every step keeps the invariant.
LEMMA NextKept == IInv /\ [Next]_vars => IInv'
  <1> SUFFICES ASSUME IInv, [Next]_vars PROVE IInv'
    OBVIOUS
  <1>1. /\ job \in JobType /\ file \in FileType /\ cfg \in CfgType
        /\ www \subseteq PageType /\ grant \in GrantType /\ budget \in BudgetType
        /\ boot \in BootType /\ FileInv /\ SaveInv /\ ThemeInv /\ TypeOK
    BY Types DEF IInv
  <1>0. boot' \in BootType
    BY <1>1 DEF Next, vars, FirstInit, HotPlug, Mount, PowerCut, BootType
  <1>2. CASE FileActions
    <2>1. job' \in JobType /\ file' \in FileType /\ FileInv'
      BY <1>1, <1>2, FileKept
    <2>2. cfg' = cfg /\ www' = www
      BY <1>2
      DEF FileActions, FileBegin, FileRefused, FileCheck, FileChunk,
          FileChunkFails, FileSync, FileDelete, FileRename, CleanUp, FileFails
    <2>3. /\ job'.kind \in {"file", "idle"}
      BY <1>1, <1>2
      DEF FileActions, FileBegin, FileRefused, FileCheck, FileChunk,
          FileChunkFails, FileSync, FileDelete, FileRename, CleanUp, FileFails,
          Begins, Goes, Ends, Idle, At, JobType
    <2>4. SaveInv'
      BY <1>1, <2>2, <2>3 DEF SaveInv, SaveSteps, Returned
    <2>5. ThemeInv'
      BY <1>1, <2>2, <2>3 DEF ThemeInv, ThemeSteps, OneTheme, InstallIsWhole, At
    <2>6. grant' \in GrantType /\ budget' \in BudgetType
      BY <1>2, RestKept
    <2> QED
      BY <1>0, <1>1, <2>1, <2>2, <2>4, <2>5, <2>6
      DEF IInv, TypeOK, JobType, FileType, CfgType, BootType, PageType,
          GrantType, BudgetType
  <1>3. CASE SaveActions
    <2>1. job' \in JobType /\ cfg' \in CfgType /\ SaveInv'
      BY <1>1, <1>3, SaveKept
    <2>2. file' = file /\ www' = www
      BY <1>3 DEF SaveActions, SetInterval, Save, SaveOpen, SaveWrite, FirstInit,
         HotPlug, Mount
    <2>3. job'.kind \in {"save", "idle"}
      <3>1. \/ job' = job /\ job.kind = "idle"
            \/ job' = [kind |-> "save", step |-> "open", package |-> NoValue]
            \/ job' = [job EXCEPT !.step = "write"] /\ job.kind = "save"
            \/ job' = Idle
        BY <1>3
        DEF SaveActions, SetInterval, Save, SaveOpen, SaveWrite, FirstInit,
            HotPlug, Mount, Begins, Goes, Ends, Idle, At
      <3> QED
        BY <1>1, <3>1 DEF Idle, JobType
    <2>4. FileInv'
      BY <1>1, <2>2, <2>3
      DEF FileInv, FileSteps, NeverTorn, OneCopy, OneChunkOverdue
    <2>5. ThemeInv'
      BY <1>1, <2>2, <2>3 DEF ThemeInv, ThemeSteps, OneTheme, InstallIsWhole, At
    <2>6. grant' \in GrantType /\ budget' \in BudgetType
      BY <1>3, RestKept
    <2> QED
      BY <1>0, <1>1, <2>1, <2>2, <2>4, <2>5, <2>6
      DEF IInv, TypeOK, JobType, FileType, CfgType, BootType, PageType,
          GrantType, BudgetType
  <1>4. CASE ThemeActions
    <2>1. job' \in JobType /\ www' \subseteq PageType /\ ThemeInv'
      BY <1>1, <1>4, ThemeKept
    <2>2. file' = file /\ cfg' = cfg
      BY <1>4
      DEF ThemeActions, ThemeBegin, ThemeClear, ThemeClearSub, ThemeExtract,
          ThemeWrite, ThemeStops
    <2>3. job'.kind \in {"theme", "idle"}
      BY <1>1, <1>4
      DEF ThemeActions, ThemeBegin, ThemeClear, ThemeClearSub, ThemeExtract,
          ThemeWrite, ThemeStops, Begins, Goes, Ends, Idle, At, JobType
    <2>4. FileInv'
      BY <1>1, <2>2, <2>3
      DEF FileInv, FileSteps, NeverTorn, OneCopy, OneChunkOverdue
    <2>5. SaveInv'
      BY <1>1, <2>2, <2>3 DEF SaveInv, SaveSteps, Returned
    <2>6. grant' \in GrantType /\ budget' \in BudgetType
      BY <1>4, RestKept
    <2> QED
      BY <1>0, <1>1, <2>1, <2>2, <2>4, <2>5, <2>6
      DEF IInv, TypeOK, JobType, FileType, CfgType, BootType, PageType,
          GrantType, BudgetType
  <1>5. CASE Press \/ Expire \/ UNCHANGED vars
    <2>1. UNCHANGED <<job, file, cfg, www, budget>>
      BY <1>5 DEF Press, Expire, vars
    <2>2. grant' \in GrantType
      BY <1>1, <1>5 DEF Press, Expire, vars, GrantType
    <2>3. FileInv'
      BY <1>1, <2>1 DEF FileInv, FileSteps, NeverTorn, OneCopy, OneChunkOverdue
    <2>4. SaveInv'
      BY <1>1, <2>1 DEF SaveInv, SaveSteps, Returned
    <2>5. ThemeInv'
      BY <1>1, <2>1 DEF ThemeInv, ThemeSteps, OneTheme, InstallIsWhole, At
    <2> QED
      BY <1>0, <1>1, <2>1, <2>2, <2>3, <2>4, <2>5
      DEF IInv, TypeOK, JobType, FileType, CfgType, BootType, PageType,
          GrantType, BudgetType
  <1> QED
    BY <1>2, <1>3, <1>4, <1>5, PowerKept
    DEF Next, Commands, FileActions, SaveActions, ThemeActions

\* The invariant, for any number of chunks, packages, files, faults and power
\* cuts; what the theorems below say of cmd_write_file, at_settings_save and
\* remote_http_theme_install_named is read off it.
THEOREM Invariant == Spec => []IInv
  BY InitOK, NextKept, PTL DEF Spec

\* The state has the form it is meant to have, whatever card fails.
THEOREM TypesHold == Spec => []TypeOK
  <1>1. IInv => TypeOK
    BY DEF IInv
  <1> QED
    BY <1>1, Invariant, PTL

\* Under the name of a core there is never part of what cmd_write_file was
\* sent, whichever call fails and whenever the power goes.
THEOREM FinalIsNeverTorn == Spec => []NeverTorn
  <1>1. IInv => NeverTorn
    BY DEF IInv, FileInv
  <1> QED
    BY <1>1, Invariant, PTL

\* cmd_write_file keeps a copy of the core on the card, the old one or the
\* new one, through every power cut.
THEOREM OneCopyIsKept == Spec => []OneCopy
  <1>1. IInv => OneCopy
    BY DEF IInv, FileInv
  <1> QED
    BY <1>1, Invariant, PTL

\* cmd_write_file writes no second chunk after the grant has expired.
THEOREM GrantOverdueByOne == Spec => []OneChunkOverdue
  <1>1. IInv => OneChunkOverdue
    BY DEF IInv, FileInv
  <1> QED
    BY <1>1, Invariant, PTL

\* What at_settings_save wrote is what at_settings_load brings back when it
\* can read it, however often it could not and whatever ran meanwhile.
THEOREM SettingsComeBack == Spec => []SettingsReturn
  <1>1. IInv => SettingsReturn
    BY Types, ReturnMeans DEF IInv, SaveInv
  <1> QED
    BY <1>1, Invariant, PTL

\* theme_archive_process never mixes two themes in WWW, however often an
\* install is broken off.
THEOREM ThemesAreNotMixed == Spec => []OneTheme
  <1>1. IInv => OneTheme
    BY DEF IInv, ThemeInv
  <1> QED
    BY <1>1, Invariant, PTL

\* theme_archive_process goes to the next file only when the last is whole.
THEOREM InstallsWholeThemes == Spec => []InstallIsWhole
  <1>1. IInv => InstallIsWhole
    BY DEF IInv, ThemeInv
  <1> QED
    BY <1>1, Invariant, PTL

=============================================================================
