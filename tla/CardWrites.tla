----------------------------- MODULE CardWrites -----------------------------
(***************************************************************************)
(* What the console writes to the card: AT+FILEWRITE and AT&W of           *)
(* src/src/main.c and the theme install of src/src/remote_http.c, each a   *)
(* row of calls on the card any of which may fail, or be the last before   *)
(* the power goes; under the write grant of src/src/write_gate.c.          *)
(*                                                                         *)
(* The commands do not return before they are done, and nothing else runs  *)
(* meanwhile.  Data that was not synced is lost with the power.            *)
(***************************************************************************)
EXTENDS Integers

CONSTANTS
  Chunks,      \* chunks of the file that is sent
  Packages,    \* theme packages on the card
  Signed,      \* those whose stored signature verifies
  Malformed,   \* those that the dry run refuses
  Short,       \* those that end early, which only extracting them shows
  Files,       \* files of a theme
  SubFiles,    \* those in a subdirectory of WWW
  Intervals,   \* fetch_interval_hours that can be set
  MachineNames,\* machine names
  MaxFaults,   \* bound on calls that fail
  MaxCuts,     \* bound on power cuts
  NoValue

ASSUME CardAssumption ==
  /\ Chunks \in Nat \ {0}
  /\ Signed \subseteq Packages /\ Malformed \subseteq Packages
  /\ Short \subseteq Packages /\ SubFiles \subseteq Files
  /\ Intervals \subseteq Nat \ 0 .. 2 /\ 3 \in Intervals
  /\ MaxFaults \in Nat /\ MaxCuts \in Nat
  /\ NoValue \notin Intervals \cup MachineNames

VARIABLES
  job,      \* the command in progress and its next call
  file,     \* the core file that AT+FILEWRITE sends
  cfg,      \* the settings, in memory and on the card
  boot,     \* remote_init_done and sd_config_loaded
  www,      \* the files in WWW
  grant,    \* the write grant: not expired, and the pin
  budget    \* faults and power cuts that are left

vars == <<job, file, cfg, boot, www, grant, budget>>

(* The core file: what the card has under its name, the chunks of its      *)
(* .partial that are written, and those that a power cut leaves (-1 for no *)
(* .partial).  History: whether the last command told that it is done,     *)
(* whether a file was on the card and nothing but the power was lost       *)
(* since, and how many chunks were written since the grant was last seen.  *)
NoFile ==
  [final |-> "none", written |-> -1, safe |-> -1, told |-> FALSE,
   kept |-> FALSE, overdue |-> 0]

(* The settings: at_settings and the machine name, AT_SETTINGS.cfg; and as *)
(* history the settings that the last AT&W saved, if it succeeded, and     *)
(* whether a load succeeded and nothing was set since.  They are loaded    *)
(* some time after the start; when there is no card then, as soon as one   *)
(* can be mounted.                                                         *)
Defaults == [interval |-> 0, name |-> NoValue]
Empty == [interval |-> NoValue, name |-> NoValue]

Idle == [kind |-> "idle", step |-> "none", package |-> NoValue]
Theme(package) == [package : {package}, file : Files, whole : {TRUE}]

Init ==
  /\ job = Idle
  /\ file \in {NoFile, [NoFile EXCEPT !.final = "old", !.kept = TRUE]}
  /\ cfg = [ram |-> Defaults, saved |-> Empty, last |-> NoValue, fresh |-> FALSE]
  /\ boot = "starts"
  /\ www \in {Theme(p) : p \in Signed \ (Malformed \cup Short)} \cup {{}}
  /\ grant = [active |-> FALSE, pin |-> FALSE]
  /\ budget = [faults |-> MaxFaults, cuts |-> MaxCuts]

-----------------------------------------------------------------------------
(* Calls on the card, and the grant.                                       *)

Works == UNCHANGED budget
Fails(calls) ==
  budget.faults >= calls /\ budget' = [budget EXCEPT !.faults = @ - calls]
Fault == Fails(1)

At(kind, step) == job.kind = kind /\ job.step = step
Goes(step) == job' = [job EXCEPT !.step = step]
Ends == job' = Idle

\* write_gate_active, which looks at the pin first.
Granted == grant.active \/ grant.pin
Checked == grant' = [grant EXCEPT !.active = Granted]

\* A command that needs the grant, require_write_authority.
Begins(kind, step, package) ==
  /\ job = Idle /\ Granted /\ Checked
  /\ job' = [kind |-> kind, step |-> step, package |-> package]

-----------------------------------------------------------------------------
(* AT+FILEWRITE, cmd_write_file.                                           *)

\* The whole .partial is the only copy.
OnlyCopy == file.final = "none" /\ file.safe = Chunks

\* The .partial is deleted and opened anew, or cannot be opened.
FileBegin ==
  /\ Begins("file", "check", NoValue) /\ Works
  /\ file' = [file EXCEPT !.written = 0, !.safe = 0, !.told = FALSE,
                          !.overdue = 0, !.kept = @ /\ ~ OnlyCopy]
  /\ UNCHANGED <<cfg, www>>

FileRefused ==
  /\ job = Idle /\ Granted /\ Checked /\ Fault
  /\ file' \in {[file EXCEPT !.told = FALSE],
                [file EXCEPT !.written = -1, !.safe = -1, !.told = FALSE,
                             !.kept = @ /\ ~ OnlyCopy]}
  /\ UNCHANGED <<job, cfg, www>>

\* The .partial, closed, is deleted, or stays; the result is not looked at.
Discards(f) ==
  \/ file' = [f EXCEPT !.written = -1, !.safe = -1] /\ Works
  \/ file' = [f EXCEPT !.safe = f.written] /\ Fault

\* The command ends with an error.
FileFails ==
  /\ Ends
  /\ Discards(file)
  /\ UNCHANGED <<cfg, www>>

\* Mutant: the grant is looked at once.
GrantedOnce == Granted \/ file.written > 0

\* Before each chunk the grant is looked at.
GrantedForChunk == Granted

FileCheck ==
  /\ At("file", "check")
  /\ \/ /\ GrantedForChunk /\ Checked
        /\ Goes("receive") /\ Works
        /\ file' = [file EXCEPT !.overdue = IF Granted THEN 0 ELSE @]
        /\ UNCHANGED <<cfg, www>>
     \/ ~ GrantedForChunk /\ FileFails /\ UNCHANGED grant

\* Mutant: one chunk is left out.
LastButOne(chunks) == chunks + 1 >= Chunks

Last(chunks) == chunks = Chunks

\* The chunk comes within five seconds and is written.
FileChunk ==
  /\ At("file", "receive") /\ Works
  /\ file' = [file EXCEPT !.written = @ + 1,
                          !.overdue = IF Granted THEN @ ELSE @ + 1]
  /\ Goes(IF Last(file.written + 1) THEN "sync" ELSE "check")
  /\ UNCHANGED <<cfg, www, grant>>

\* A call failed, and the .partial is deleted, or stays as written as it is.
FailsToo(f, safe) ==
  \/ file' = [f EXCEPT !.written = -1, !.safe = -1] /\ Fault
  \/ file' = [f EXCEPT !.safe = safe] /\ Fails(2)

\* It does not come, or the card fails.
FileChunkFails ==
  /\ \/ At("file", "receive") /\ FileFails
     \/ /\ At("file", "receive") \/ At("file", "sync")
        /\ Ends
        /\ \E safe \in {file.safe, file.written} : FailsToo(file, safe)
        /\ UNCHANGED <<cfg, www>>
  /\ UNCHANGED grant

\* Mutant: the old file is deleted before the new one is synced.
FileSyncLate ==
  /\ At("file", "sync") /\ Works
  /\ file' = [file EXCEPT !.final = "none"]
  /\ Goes("rename")
  /\ UNCHANGED <<cfg, www, grant>>

FileSync ==
  /\ At("file", "sync") /\ Works
  /\ file' = [file EXCEPT !.safe = file.written]
  /\ Goes("delete")
  /\ UNCHANGED <<cfg, www, grant>>

\* The old file is deleted; when it is not, the rename will fail.
FileDelete ==
  /\ At("file", "delete")
  /\ \/ Works /\ file' = [file EXCEPT !.final = "none"]
     \/ Fault /\ UNCHANGED file
  /\ Goes("rename")
  /\ UNCHANGED <<cfg, www, grant>>

\* What a file of that many chunks is.
Sent(chunks) == IF chunks = Chunks THEN "new" ELSE "torn"

FileRename ==
  /\ At("file", "rename")
  /\ \/ /\ file.final = "none" /\ Works
        /\ file' = [file EXCEPT !.final = Sent(file.safe), !.written = -1,
                                !.safe = -1, !.told = TRUE, !.kept = TRUE]
        /\ Ends /\ UNCHANGED <<cfg, www>>
     \/ /\ file.final # "none"
        /\ FileFails
     \/ /\ file.final = "none"
        /\ FailsToo([file EXCEPT !.kept = FALSE], file.safe)
        /\ Ends /\ UNCHANGED <<cfg, www>>
  /\ UNCHANGED grant

\* delete_stale_partials_for_fetch: the mirror update deletes the .partial.
CleanUp ==
  /\ job = Idle /\ file.written # -1
  /\ file' = [file EXCEPT !.written = -1, !.safe = -1,
                          !.kept = @ /\ ~ OnlyCopy]
  /\ UNCHANGED <<job, cfg, www, grant, budget>>

-----------------------------------------------------------------------------
(* The settings.                                                           *)

\* AT+FETCHINTERVAL; other settings are like it.
SetInterval ==
  /\ job = Idle /\ Granted /\ Checked
  /\ \E hours \in Intervals : 
       cfg' = [cfg EXCEPT !.ram.interval = hours, !.fresh = FALSE]
  /\ UNCHANGED <<job, file, www, budget>>

\* AT&W, and AT+MACHINE, which sets the name and then does the same.
Save ==
  /\ Begins("save", "open", NoValue)
  /\ \E name \in MachineNames \cup {cfg.ram.name} :
       cfg' = [cfg EXCEPT !.ram.name = name, !.last = NoValue, !.fresh = FALSE]
  /\ UNCHANGED <<file, www, budget>>

\* Mutant: the machine name is not written.
WrittenNameless(v) ==
  [interval |-> IF v.interval = 0 THEN 3 ELSE v.interval, name |-> NoValue]

\* What at_settings_save writes: no interval of its own is three hours.
Written(v) ==
  [interval |-> IF v.interval = 0 THEN 3 ELSE v.interval, name |-> v.name]

\* Opening the file empties it, at the latest when it is closed.
SaveOpen ==
  /\ At("save", "open") /\ UNCHANGED <<file, cfg, www, grant>>
  /\ \/ Works /\ Goes("write")
     \/ Fault /\ Ends

\* What there may be when writing, syncing or the power failed.
Beginnings(v) == {Empty, [Written(v) EXCEPT !.name = NoValue], Written(v)}

SaveWrite ==
  /\ At("save", "write") /\ Ends /\ UNCHANGED <<file, www, grant>>
  /\ \/ Works /\ cfg' = [cfg EXCEPT !.saved = Written(cfg.ram), !.last = cfg.ram]
     \/ /\ Fault
        /\ \E saved \in Beginnings(cfg.ram) : cfg' = [cfg EXCEPT !.saved = saved]

\* at_settings_load: what the file does not say stays as it is.
Loaded(saved, v) ==
  [interval |-> IF saved.interval = NoValue THEN v.interval ELSE saved.interval,
   name |-> IF saved.name = NoValue THEN v.name ELSE saved.name]

\* The file cannot be opened or read: the settings stay as they are, and it
\* counts as loaded.
Loads ==
  \/ /\ cfg' = [cfg EXCEPT !.ram = Loaded(cfg.saved, @), !.fresh = TRUE]
     /\ Works
  \/ UNCHANGED cfg /\ Fault

\* main: the first load, after a delay.  With no card there is none, unless it
\* can be mounted just now.
FirstInit ==
  /\ job = Idle /\ boot = "starts"
  /\ \/ Loads /\ boot' = "loaded"
     \/ (Loads \/ (UNCHANGED cfg /\ Works)) /\ boot' = "waits"
  /\ UNCHANGED <<job, file, www, grant>>

\* sd_hotplug_poll, when a card is there.
HotPlug ==
  /\ job = Idle /\ boot = "waits"
  /\ Loads /\ boot' = "loaded"
  /\ UNCHANGED <<job, file, www, grant>>

\* AT+MOUNT; when the card cannot be mounted the load waits for one.
Mount ==
  /\ job = Idle
  /\ \/ boot = "starts" /\ Works /\ UNCHANGED <<cfg, boot>>
     \/ boot # "starts" /\ Loads /\ boot' = "loaded"
     \/ boot # "starts" /\ UNCHANGED cfg /\ Works /\ boot' = "waits"
  /\ UNCHANGED <<job, file, www, grant>>

-----------------------------------------------------------------------------
(* AT+THEMEINSTALL, remote_http_theme_install_named.                       *)

\* signed_file_verify_stored
VerifyStored(package) == package \in Signed

\* theme_archive_process without writing: the names and lengths in the
\* archive are looked at, and the data skipped.
DryRun(package) == package \notin Malformed

ThemeBegin ==
  /\ \E package \in Packages :
       /\ VerifyStored(package) /\ DryRun(package)
       /\ Begins("theme", "clear", package)
  /\ UNCHANGED <<file, cfg, www, budget>>

ThemeStops == Ends /\ UNCHANGED <<file, cfg, grant>>

\* delete_tree empties WWW entry by entry.
ThemeClear ==
  /\ At("theme", "clear")
  /\ \/ \E page \in www :
          /\ Works /\ www' = www \ {page}
          /\ Goes(IF page.file \in SubFiles THEN "clearSub" ELSE "clear")
          /\ UNCHANGED <<file, cfg, grant>>
     \/ www # {} /\ Fault /\ UNCHANGED www /\ ThemeStops
     \/ /\ www = {} /\ Works /\ Goes("extract")
        /\ UNCHANGED <<file, cfg, www, grant>>

\* Mutant: the install goes on although WWW could not be cleared.
ThemeClearSubGoesOn ==
  /\ At("theme", "clearSub") /\ Works
  /\ Goes("extract")
  /\ UNCHANGED <<file, cfg, www, grant>>

\* A subdirectory is emptied and deleted; its listing has closed the DIR that
\* WWW was listed with, so that WWW is not listed to its end.
ThemeClearSub ==
  LET pages == {page \in www : page.file \in SubFiles}
  IN /\ At("theme", "clearSub")
     /\ \/ \E page \in pages :
             /\ Works /\ www' = www \ {page}
             /\ UNCHANGED <<job, file, cfg, grant>>
        \/ (Fault \/ (pages = {} /\ Works)) /\ UNCHANGED www /\ ThemeStops

\* theme_archive_process writes the files of the package one after the other.
ThemeExtract ==
  /\ At("theme", "extract")
  /\ LET left == Files \ {page.file : page \in www}
     IN \/ \E f \in left :
             /\ www' = www \cup {[package |-> job.package, file |-> f,
                                  whole |-> FALSE]}
             /\ Works /\ Goes("write") /\ UNCHANGED <<file, cfg, grant>>
        \/ left # {} /\ Fault /\ UNCHANGED www /\ ThemeStops
        \/ left = {} /\ Works /\ UNCHANGED www /\ ThemeStops

\* Mutant: a file that could not be written is passed over.
ThemeWriteGoesOn ==
  /\ At("theme", "write")
  /\ Works \/ Fault
  /\ www' = {[page EXCEPT !.whole = TRUE] : page \in www} \/ UNCHANGED www
  /\ Goes("extract") /\ UNCHANGED <<file, cfg, grant>>

\* The file is filled and synced; a package that ends early ends here.
ThemeWrite ==
  /\ At("theme", "write")
  /\ \/ /\ Works
        /\ www' = {[page EXCEPT !.whole = TRUE] : page \in www}
        /\ Goes("extract") /\ UNCHANGED <<file, cfg, grant>>
     \/ (Fault \/ (job.package \in Short /\ Works)) /\ UNCHANGED www /\ ThemeStops

-----------------------------------------------------------------------------
(* The operator, the clock and the power.                                  *)

Press ==
  /\ grant' = [grant EXCEPT !.pin = ~ @]
  /\ UNCHANGED <<job, file, cfg, www, budget>>

Expire ==
  /\ grant.active /\ grant' = [grant EXCEPT !.active = FALSE]
  /\ UNCHANGED <<job, file, cfg, www, budget>>

\* The board starts again, with the defaults; what was not synced is lost, and
\* a file that was being emptied is empty or as it was.
PowerCut ==
  /\ budget.cuts > 0 /\ budget' = [budget EXCEPT !.cuts = @ - 1]
  /\ Ends
  /\ file' = [file EXCEPT !.written = file.safe, !.told = FALSE, !.overdue = 0]
  /\ \E saved \in {cfg.saved} \cup
                    IF At("save", "write") THEN Beginnings(cfg.ram) ELSE {} :
       cfg' = [cfg EXCEPT !.saved = saved, !.ram = Defaults, !.fresh = FALSE]
  /\ boot' = "starts"
  /\ grant' = [grant EXCEPT !.active = FALSE]
  /\ UNCHANGED www

Commands ==
  \/ FileBegin \/ FileRefused \/ FileCheck \/ FileChunk \/ FileChunkFails
  \/ FileSync \/ FileDelete \/ FileRename \/ CleanUp
  \/ SetInterval \/ Save \/ SaveOpen \/ SaveWrite
  \/ ThemeBegin \/ ThemeClear \/ ThemeClearSub \/ ThemeExtract \/ ThemeWrite

Next ==
  \/ UNCHANGED boot /\ (Commands \/ Press \/ Expire)
  \/ FirstInit \/ HotPlug \/ Mount \/ PowerCut

Spec == Init /\ [][Next]_vars

-----------------------------------------------------------------------------
(* Properties.                                                             *)

Settings(unset) ==
  [interval : Intervals \cup {unset}, name : MachineNames \cup {NoValue}]

TypeOK ==
  /\ job \in [kind : {"idle", "file", "save", "theme"},
             step : {"none", "check", "receive", "sync", "delete", "rename",
                     "open", "write", "clear", "clearSub", "extract"},
             package : Packages \cup {NoValue}]
  /\ file \in [final : {"none", "old", "new", "torn"}, written : -1 .. Chunks,
               safe : -1 .. Chunks, told : BOOLEAN,
               kept : BOOLEAN, overdue : Nat]
  /\ cfg \in [ram : Settings(0), saved : Settings(NoValue), fresh : BOOLEAN,
              last : Settings(0) \cup {NoValue}]
  /\ boot \in {"starts", "waits", "loaded"}
  /\ www \subseteq [package : Packages, file : Files, whole : BOOLEAN]
  /\ grant \in [active : BOOLEAN, pin : BOOLEAN]
  /\ budget \in [faults : 0 .. MaxFaults, cuts : 0 .. MaxCuts]

\* Under the name of the core there is never part of what was sent, and a
\* host that was told that it is done has its file there.
NeverTorn ==
  /\ file.final # "torn"
  /\ file.told => file.final = "new"

\* A copy of the core, the old or the new one, is on the card through every
\* power cut: it is lost only when the rename fails, and when a command that
\* was cut between the two is repeated or the mirror update cleans up.
OneCopy == file.kept => file.final # "none" \/ file.safe = Chunks

\* The grant may expire while a chunk is awaited: at most this one is
\* written without it.
OneChunkOverdue == file.overdue <= 1

\* Once they could be read, and until something is set, the settings are those
\* of the last AT&W, if it succeeded, but that no interval of its own has
\* become three hours: over power cuts, loads that fail, cards that come
\* late and commands that run before the first load.
SettingsReturn ==
  cfg.fresh /\ cfg.last # NoValue =>
    /\ cfg.ram.name = cfg.last.name
    /\ cfg.ram.interval = IF cfg.last.interval = 0 THEN 3 ELSE cfg.last.interval

\* However an install ends, WWW has no pages of two themes and none of a
\* package whose signature does not verify.
OneTheme ==
  \A p, q \in www : p.package = q.package /\ p.package \in Signed

\* An install that ends well has written every file to its end.
InstallIsWhole ==
  At("theme", "extract") =>
    \A page \in www : page.whole /\ page.package = job.package

=============================================================================
