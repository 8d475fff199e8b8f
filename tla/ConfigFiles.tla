---------------------------- MODULE ConfigFiles ----------------------------
(***************************************************************************)
(* The configuration on disk: its files, the zips they are backed up to    *)
(* and the restore of such a zip (core/config_backup.py, with the handlers *)
(* of modules/settings/ui/main_view.py and the savers of core/settings.py).*)
(*                                                                         *)
(* Everything runs on Qt's thread, so nothing interleaves; what makes it   *)
(* hard is that any operation may end between two of its steps, because    *)
(* the file system refuses one or because the app is killed.  The two are  *)
(* not the same for a zip: one whose writing fails is closed on the way    *)
(* out, and read_backup takes it for a backup.                             *)
(***************************************************************************)
EXTENDS Naturals, Sequences

CONSTANTS
  ConfigNames,  \* names of configuration files
  ConfigValues, \* what a file may hold
  None,         \* there is no such file
  Torn,         \* an interrupted write: the file is empty or cut short
  MaxRestores   \* bound of the model: restores

ASSUME ConfigAssumption ==
  /\ None \notin ConfigValues /\ Torn \notin ConfigValues /\ None # Torn
  /\ MaxRestores \in Nat

VARIABLES
  config,     \* the files of settings.data_dir()
  zips,       \* the user's backup, then the safety zip of every restore
  step,       \* where the operation that runs is
  contents,   \* the backup that is being restored, as read_backup returned it
  todo,       \* the files its loop has still to remove, or to write
  staged,     \* the files whose new contents are in their ".name.tmp"
  base        \* the configuration when the last restore began, or as the
              \* user changed it since

configVars == <<config, zips, step, contents, todo, staged, base>>

Files == [ConfigNames -> ConfigValues \union {None, Torn}]
Zips  == [readable : BOOLEAN, files : Files]  \* would read_backup accept it?
Steps == {"idle", "save", "export", "safety", "remove", "write"}

ConfigTypeOK ==
  /\ config \in Files
  /\ zips \in Seq(Zips) /\ zips # <<>>
  /\ step \in Steps
  /\ contents \in Files
  /\ todo \subseteq ConfigNames
  /\ staged \subseteq ConfigNames
  /\ base \in Files

(* Whatever the user had, and a backup that was made of something else.    *)
ConfigInit ==
  /\ config \in [ConfigNames -> ConfigValues \union {None}]
  /\ \E files \in [ConfigNames -> ConfigValues \union {None}] :
       /\ zips = <<[readable |-> TRUE, files |-> files]>>
       /\ contents = files
  /\ step = "idle"
  /\ todo = {}
  /\ staged = {}
  /\ base = config

Present(files) == {n \in ConfigNames : files[n] # None}
Last == Len(zips)

\* Bound of the model: what the user does when no restore is left to come.
RestoresLeft == Last <= MaxRestores

-----------------------------------------------------------------------------
(* Saving a setting: write_text truncates the file, then fills it.         *)

SaveTruncates(n) ==
  /\ step = "idle" /\ RestoresLeft
  /\ config' = [config EXCEPT ![n] = Torn]
  /\ step' = "save"
  /\ base' = config'
  /\ UNCHANGED <<zips, contents, todo, staged>>

SaveFills(n, v) ==
  /\ step = "save" /\ config[n] = Torn
  /\ config' = [config EXCEPT ![n] = v]
  /\ base' = config'
  /\ step' = "idle"
  /\ UNCHANGED <<zips, contents, todo, staged>>

\* A setting that goes back to its default has no file.
ClearSetting(n) ==
  /\ step = "idle" /\ RestoresLeft
  /\ config' = [config EXCEPT ![n] = None]
  /\ base' = config'
  /\ UNCHANGED <<zips, step, contents, todo, staged>>

-----------------------------------------------------------------------------
(* export_config: a zip has no directory until it is closed, and without   *)
(* one read_backup refuses it.  An OSError while a file is added leaves    *)
(* the `with` block, which closes the zip: its directory then names the    *)
(* files added so far, and the one being added as far as it got.           *)

Open(k)  == [zips EXCEPT ![k].readable = FALSE]
Close(k) == [zips EXCEPT ![k] = [readable |-> TRUE, files |-> config]]

\* What such a zip holds of the files there are.
Pieces(files) ==
  LET all == Present(files)
  IN  {[n \in ConfigNames |-> IF n \in whole THEN files[n]
                             ELSE IF n \in half THEN Torn ELSE None] :
         whole \in SUBSET all \ {all}, half \in {{}} \union {{n} : n \in all}}

\* The user backs up over the backup there is.
Export ==
  /\ step = "idle" /\ RestoresLeft
  /\ zips' = Open(1)
  /\ step' = "export"
  /\ UNCHANGED <<config, contents, todo, staged, base>>

ExportEnds ==
  /\ step = "export"
  /\ zips' = Close(1)
  /\ step' = "idle"
  /\ UNCHANGED <<config, contents, todo, staged, base>>

\* A file cannot be added, to the backup or to the safety zip of a restore, which
\* then ends before it has changed anything.
ExportFails ==
  /\ step \in {"export", "safety"}
  /\ \E piece \in Pieces(config) :
       zips' = [zips EXCEPT ![IF step = "export" THEN 1 ELSE Last] =
                  [readable |-> TRUE, files |-> piece]]
  /\ step' = "idle"
  /\ UNCHANGED <<config, contents, todo, staged, base>>

-----------------------------------------------------------------------------
(* restore_config of the backup or, to undo a restore, of its safety zip.  *)

\* read_backup accepts the zip, which it does not compare with the list of files
\* in its manifest; the safety zip gets a name of its own.
Restore(k) ==
  /\ step = "idle" /\ RestoresLeft
  /\ zips[k].readable
  /\ contents' = zips[k].files
  /\ zips' = Append(zips, [readable |-> FALSE, files |-> config])
  /\ step' = "safety"
  /\ base' = config
  /\ UNCHANGED <<config, todo, staged>>

\* Mutant of SafetyEnds: the restore goes on before the safety zip is closed.
SafetyLeftOpen ==
  /\ step = "safety"
  /\ todo' = Present(config) \ Present(contents)
  /\ step' = "remove"
  /\ UNCHANGED <<config, zips, contents, staged, base>>

SafetyEnds ==
  /\ step = "safety"
  /\ zips' = Close(Last)
  /\ todo' = Present(config) \ Present(contents)
  /\ step' = "remove"
  /\ UNCHANGED <<config, contents, staged, base>>

Remove(n) ==
  /\ step = "remove" /\ n \in todo
  /\ config' = [config EXCEPT ![n] = None]
  /\ todo' = todo \ {n}
  /\ UNCHANGED <<zips, step, contents, staged, base>>

Removed ==
  /\ step = "remove" /\ todo = {}
  /\ todo' = Present(contents)
  /\ step' = "write"
  /\ UNCHANGED <<config, zips, contents, staged, base>>

WriteTemp(n) ==
  /\ step = "write" /\ n \in todo \ staged /\ todo \intersect staged = {}
  /\ staged' = staged \union {n}
  /\ UNCHANGED <<config, zips, step, contents, todo, base>>

Replace(n) ==
  /\ step = "write" /\ n \in todo \intersect staged
  /\ config' = [config EXCEPT ![n] = contents[n]]
  /\ todo' = todo \ {n}
  /\ staged' = staged \ {n}
  /\ UNCHANGED <<zips, step, contents, base>>

RestoreEnds ==
  /\ step = "write" /\ todo = {}
  /\ step' = "idle"
  /\ UNCHANGED <<config, zips, contents, todo, staged, base>>

(* The app is killed between two steps, or an OSError ends the operation   *)
(* anywhere but in adding a file to a zip.  What is on disk stays: a zip   *)
(* without its manifest or its directory, a truncated file, a ".name.tmp"  *)
(* that no loader and no backup looks at and that the next restore         *)
(* overwrites.                                                             *)
Interrupted ==
  /\ step # "idle"
  /\ step' = "idle"
  /\ todo' = {}
  /\ staged' = {}
  /\ UNCHANGED <<config, zips, contents, base>>

-----------------------------------------------------------------------------
ConfigNext ==
  \/ \E n \in ConfigNames :
       \/ SaveTruncates(n) \/ ClearSetting(n)
       \/ \E v \in ConfigValues : SaveFills(n, v)
       \/ Remove(n) \/ WriteTemp(n) \/ Replace(n)
  \/ \E k \in DOMAIN zips : Restore(k)
  \/ Export \/ ExportEnds \/ ExportFails
  \/ SafetyEnds \/ Removed \/ RestoreEnds
  \/ Interrupted

ConfigSpec == ConfigInit /\ [][ConfigNext]_configVars

-----------------------------------------------------------------------------
(* What the user had before a restore is never lost by it: it is in place, *)
(* or whole in the safety zip of that restore.                             *)
OldKept ==
  \/ config = base
  \/ zips[Last].readable /\ zips[Last].files = base

(* A restore that is cut short leaves old files and new files, and none    *)
(* that is neither.                                                        *)
NoThirdState == \A n \in ConfigNames : config[n] \in {base[n], contents[n]}

(* A restore that gets to its end has put the backup in place, "so the     *)
(* result matches the backup rather than a blend", whatever an earlier one *)
(* left behind.  That is so of a backup that holds only a part of what it  *)
(* should, too: the files it lacks are removed.                            *)
EndMatches == step = "write" /\ todo = {} => config = contents

(* Together: a restore can be interrupted anywhere and then undone.        *)
RestoreIsUndoable == OldKept /\ NoThirdState /\ EndMatches
=============================================================================
