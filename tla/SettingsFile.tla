---------------------------- MODULE SettingsFile ----------------------------
(***************************************************************************)
(* settings.c: the settings are saved to a temporary file, synced, read    *)
(* back and renamed over MCINSPECTOR.CFG, and loaded when the console      *)
(* boots.  The stick applies what it was sent in order, so a power cut     *)
(* leaves one of the states since the last sync.                           *)
(***************************************************************************)
EXTENDS SaveMedia

CONSTANTS Settings,      \* complete settings
          Defaults,      \* MciSettingsDefaults()
          Absent,        \* no such file
          Torn,          \* a file that is not what the program wrote
          Mixed          \* settings a torn file left behind

ASSUME SettingsAssumption ==
    /\ Defaults \in Settings
    /\ Absent \notin Settings /\ Torn \notin Settings /\ Mixed \notin Settings
    /\ Absent # Torn

VARIABLES file,      \* MCINSPECTOR.CFG
          temp,      \* MCINSPECTOR.CFG.tmp
          disk,      \* what a power cut may leave of the two
          mem,       \* the settings in use
          spc,       \* where the save is
          old,       \* the file when the save began
          prior,     \* and what a power cut might have left then
          outcome    \* how the last save ended

filesVars == <<file, temp, disk>>
saveVars == <<mem, old, prior>>
settingsVars == <<filesVars, saveVars, spc, outcome>>

SettingsInit ==
    /\ file \in {Absent, Defaults} /\ temp = Absent /\ disk = {<<file, temp>>}
    /\ mem = Defaults /\ spc = "idle" /\ old = file /\ prior = disk
    /\ outcome = "none"

-----------------------------------------------------------------------------
(* Every change may reach the stick or not; a sync that worked empties     *)
(* what is still to come.                                                  *)
Change(f, t) == file' = f /\ temp' = t /\ disk' = disk \cup {<<f, t>>}
NoFault == UNCHANGED faults
Step(from, to) == spc = from /\ spc' = to /\ UNCHANGED <<saveVars, outcome, op>>
Return(how) == spc' = "idle" /\ outcome' = how /\ op' = "menu" /\ UNCHANGED saveVars

(* The user changes a setting and presses SQUARE on the settings page.     *)
SaveSettings ==
    /\ op = "menu" /\ spc = "idle"
    /\ mem' \in Settings /\ op' = "settings" /\ spc' = "locate" /\ old' = file /\ prior' = disk
    /\ outcome' = "none" /\ NoFault /\ UNCHANGED filesVars

(* FindWritableConfig() and EnsureConfigDirectory()                        *)
LocateConfig ==
    /\ UNCHANGED filesVars
    /\ \/ Step("locate", "removeTemp") /\ NoFault
       \/ spc = "locate" /\ FaultSpent /\ Return("failed")

(* A temporary file an earlier save left; the result is not looked at.     *)
RemoveTemp ==
    /\ Step("removeTemp", "write")
    /\ \/ Change(file, Absent) /\ NoFault
       \/ FaultSpent /\ UNCHANGED filesVars

(* Open without truncation, write all, close: over a file that could not   *)
(* be removed the end of the older text stays.                             *)
WriteTemp ==
    \/ /\ Step("write", "sync")
       /\ \/ Change(file, IF temp = Absent THEN mem ELSE Torn) /\ NoFault
          \/ Change(file, Torn) /\ FaultSpent
    \/ /\ Step("write", "giveUp") /\ FaultSpent
       /\ Change(file, Torn) \/ Change(file, mem)
    \/ /\ spc = "write" /\ FaultSpent /\ Return("failed") /\ UNCHANGED filesVars

SyncTemp ==
    /\ Step("sync", "readBack") /\ UNCHANGED <<file, temp>>
    /\ \/ disk' = {<<file, temp>>} /\ NoFault
       \/ FaultSpent /\ UNCHANGED disk

(* The temporary file is compared with the text, its length included.      *)
ReadBackSkipped ==
    /\ UNCHANGED filesVars /\ NoFault /\ Step("readBack", "removeOld")
ReadBack ==
    /\ UNCHANGED filesVars
    /\ \/ temp = mem /\ Step("readBack", "removeOld") /\ NoFault
       \/ temp # mem /\ Step("readBack", "giveUp") /\ NoFault
       \/ Step("readBack", "giveUp") /\ FaultSpent

(* The old file is removed and the temporary one renamed; only the rename  *)
(* is checked, and it does not replace a file that is still there.         *)
RemoveOld ==
    /\ Step("removeOld", "rename")
    /\ \/ Change(Absent, temp) /\ NoFault
       \/ FaultSpent /\ UNCHANGED filesVars

RenameUnchecked ==
    \/ /\ file = Absent /\ Step("rename", "syncFile") /\ NoFault
       /\ Change(temp, Absent)
    \/ /\ Step("rename", "syncFile") /\ UNCHANGED filesVars
       /\ IF file = Absent THEN FaultSpent ELSE NoFault
Rename ==
    \/ /\ file = Absent /\ Step("rename", "syncFile") /\ NoFault
       /\ Change(temp, Absent)
    \/ /\ Step("rename", "renameFailed") /\ UNCHANGED filesVars
       /\ IF file = Absent THEN FaultSpent ELSE NoFault

SyncFile ==
    /\ spc = "syncFile" /\ Return("saved") /\ UNCHANGED <<file, temp>>
    /\ \/ disk' = {<<file, temp>>} /\ NoFault
       \/ FaultSpent /\ UNCHANGED disk

(* Every failure after the open removes the temporary file.                *)
GiveUp ==
    /\ \/ spc = "giveUp" /\ Return("failed")
       \/ spc = "renameFailed" /\ Return("renameFailed")
    /\ \/ Change(file, Absent) /\ NoFault
       \/ FaultSpent /\ UNCHANGED filesVars

-----------------------------------------------------------------------------
(* The power goes and comes back; the program loads its settings: a file   *)
(* that is missing or refused leaves the defaults, and a torn one whose    *)
(* version line survived is applied as far as it goes.                     *)
Loaded(f) == IF f \in Settings THEN {f} ELSE IF f = Absent THEN {Defaults}
             ELSE {Defaults, Mixed}
SettingsCut ==
    /\ \E d \in disk : /\ file' = d[1] /\ temp' = d[2] /\ old' = d[1]
                       /\ disk' = {d} /\ prior' = {d}
    /\ mem' = Defaults /\ spc' = "idle" /\ outcome' = "none"
LoadFromMass ==
    /\ mem' \in Loaded(file)
    /\ UNCHANGED <<filesVars, spc, old, prior, outcome>>

SettingsStep ==
    \/ LocateConfig \/ RemoveTemp \/ WriteTemp \/ SyncTemp \/ ReadBack
    \/ RemoveOld \/ Rename \/ SyncFile \/ GiveUp

-----------------------------------------------------------------------------
(* MCINSPECTOR.CFG never holds anything but complete settings, in what the *)
(* program sees and in whatever a power cut leaves (settings.c:395-425).   *)
ConfigWhole == \A d \in disk \cup {<<file, temp>>} : d[1] \in Settings \cup {Absent}

(* Until a save has returned, what a cut leaves is the file as it was, the *)
(* new one, or no file and the complete new one under the temporary name;  *)
(* a save that failed left the old file, unless it was the rename that did *)
(* (settings.c:424), and one that succeeded left the new.                  *)
Survives(d) ==
    \/ d[1] = old \/ d[1] = mem
    \/ d = <<Absent, mem>>
    \/ d[1] = Absent /\ "renameFailed" \in {spc, outcome}
SettingsSurvive ==
    /\ \A d \in disk \ prior : Survives(d)
    /\ outcome = "saved" => file = mem
    /\ outcome = "failed" => file = old
=============================================================================
