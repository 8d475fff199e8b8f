--------------------------- MODULE StoredSettings ---------------------------
(***************************************************************************)
(* The single settings (core/settings.py) and the page that shows them     *)
(* (modules/settings' view, built once, when the program starts; the       *)
(* modules of the sidebar are chosen then too, by registry.py).            *)
(*                                                                         *)
(* A setting is a small file of its own, and each kind of setting has its  *)
(* own reading of no file, of an empty one (a save that a crash cut off),  *)
(* and of what is in it.  A value is the set of what is switched on or     *)
(* chosen.  A restore of the configuration replaces the files under the    *)
(* page.  One setting stands for each kind; h264 is the only one whose     *)
(* control depends on another's.                                           *)
(***************************************************************************)
EXTENDS Naturals

CONSTANTS
  Modules,     \* those that can be switched off
  MaxEvents    \* bound of the model: what happens

\* Of the constants; an ASSUME of the module that instantiates this one.
EventsAssumption == MaxEvents \in Nat

Flags == {"pipeline", "h264"}
Settings == Flags \union {"gpu", "size", "folder", "modules", "username"}
Resolutions == {"window", "fixed"}         \* RDP_RESOLUTION_PRESETS
Folders == {"downloads", "other"}

VARIABLES
  file,        \* what each setting's file holds
  exists,      \* the folders there are
  page,        \* what the page's controls show
  lastFolder,  \* _rdp_shared_folder
  loaded,      \* the modules in the sidebar
  expected,    \* history: the values the user, a restore or a cut has set,
  cut,         \*   the settings a crash has cut off,
  replaced,    \*   the files were restored under the page,
  stale,       \*   the modules were saved from the page since then
  events

histVars == <<expected, cut, replaced, stale>>
vars == <<file, exists, page, lastFolder, loaded, histVars, events>>

Values(s) ==
  CASE s \in Flags \union {"gpu"} -> {{}, {"on"}}
    [] s = "size" -> {{"window"}, {"fixed"}, {"odd"}}
    [] s = "folder" -> {{}, {"downloads"}, {"other"}}
    [] s = "modules" -> SUBSET Modules
    [] s = "username" -> {{}, {"bob"}}

TypeOK ==
  /\ \A s \in Settings : /\ file[s].state \in {"absent", "text"}
                         /\ file[s].value \in Values(s) \union {{}}
                         /\ page[s] \in Values(s) /\ expected[s] \in Values(s)
  /\ exists \subseteq Folders /\ lastFolder \in Folders
  /\ loaded \subseteq Modules /\ cut \subseteq Settings /\ {replaced, stale} \subseteq BOOLEAN
  /\ events \in 0..MaxEvents

-----------------------------------------------------------------------------
(* core/settings.py.  An empty file has the value {}.                      *)

Absent == [state |-> "absent", value |-> {}]
Text(v) == [state |-> "text", value |-> v]
Empty == Text({})

\* load_rdp_graphics_pipeline and the other flags: it is there, or not.
LoadFlag(c) == IF c.state = "text" THEN {"on"} ELSE {}
\* load_rdp_gpu_rendering, whose file says the opposite.
LoadGpu(c) == IF c.state = "text" THEN {} ELSE {"on"}
\* load_default_rdp_resolution, and the other choices.
LoadSize(c) == IF c.value = {} THEN {"window"} ELSE c.value
\* load_rdp_shared_folder: nothing chosen yet, chosen to be nothing, or gone.
LoadFolder(c) == (IF c.state = "absent" THEN {"downloads"} ELSE c.value) \intersect exists
\* load_disabled_modules.
LoadModules(c) == c.value
\* load_default_username, and the paths.
LoadText(c) == c.value

Loaded(s, c) ==
  CASE s \in Flags -> LoadFlag(c)
    [] s = "gpu" -> LoadGpu(c)
    [] s = "size" -> LoadSize(c)
    [] s = "folder" -> LoadFolder(c)
    [] s = "modules" -> LoadModules(c)
    [] s = "username" -> LoadText(c)
Load(s) == Loaded(s, file[s])

\* What the save_ functions leave: no file at all, for most defaults.
SavedFlag(v) == IF v = {} THEN Absent ELSE Text(v)
SavedGpu(v) == IF v = {} THEN Text({"on"}) ELSE Absent
SavedSize(v) == IF v = {"window"} THEN Absent ELSE Text(v)
SavedFolder(v) == Text(v)
SavedModules(v) == IF v = {} THEN Absent ELSE Text(v)
SavedText(v) == IF v = {} THEN Absent ELSE Text(v)

Saved(s, v) ==
  CASE s \in Flags -> SavedFlag(v)
    [] s = "gpu" -> SavedGpu(v)
    [] s = "size" -> SavedSize(v)
    [] s = "folder" -> SavedFolder(v)
    [] s = "modules" -> SavedModules(v)
    [] s = "username" -> SavedText(v)

-----------------------------------------------------------------------------
(* The page.                                                               *)

\* The _build_..._section functions; a size that is no preset shows the first.
Shown(s, c) == IF s = "size" /\ LoadSize(c) \notin {{v} : v \in Resolutions} THEN {"window"}
               ELSE Loaded(s, c)

\* What an absent folder is offered as.
Offered(v) == IF v = {} THEN "downloads" ELSE CHOOSE f \in v : TRUE

Init ==
  /\ file = [s \in Settings |-> Absent] /\ exists = Folders
  /\ page = [s \in Settings |-> Shown(s, Absent)]
  /\ lastFolder = "downloads" /\ loaded = Modules
  /\ expected = [s \in Settings |-> Loaded(s, Absent)] 
  /\ cut = {} /\ replaced = FALSE /\ stale = FALSE
  /\ events = 0

Event == events < MaxEvents /\ events' = events + 1

Set(s, v) ==
  /\ file' = [file EXCEPT ![s] = Saved(s, v)] /\ page' = [page EXCEPT ![s] = v]
  /\ cut' = cut \ {s}

\* _on_rdp_graphics_pipeline_changed and the others; h264 needs the pipeline.
ToggleFlag(s) ==
  /\ Event /\ (s = "h264" => page["pipeline"] = {"on"})
  /\ LET v == {"on"} \ page[s]
     IN Set(s, v) /\ expected' = [expected EXCEPT ![s] = v]
  /\ UNCHANGED <<exists, lastFolder, loaded, replaced, stale>>

\* _on_rdp_resolution_changed: a preset other than the one shown.
ChooseSize(v) ==
  /\ Event /\ page["size"] # {v}
  /\ Set("size", {v}) /\ expected' = [expected EXCEPT !["size"] = {v}]
  /\ UNCHANGED <<exists, lastFolder, loaded, replaced, stale>>

Share(v) ==
  /\ Set("folder", v) /\ expected' = [expected EXCEPT !["folder"] = v]
  /\ UNCHANGED <<exists, loaded, replaced, stale>>

\* _on_rdp_share_toggled.
ToggleShare ==
  /\ Event /\ UNCHANGED lastFolder
  /\ Share(IF page["folder"] = {} THEN {lastFolder} ELSE {})

\* _on_choose_rdp_shared_folder_clicked, which checks the box as well.
ChooseFolder(f) ==
  /\ Event /\ f \in exists /\ lastFolder' = f
  /\ Share({f})

\* _on_module_toggled saves what every checkbox shows.
ToggleModule(m) ==
  /\ Event
  /\ LET flipped(v) == (v \ {m}) \union ({m} \ v)
     IN /\ Set("modules", flipped(page["modules"]))
        /\ expected' = [expected EXCEPT !["modules"] =
             (@ \ {m}) \union (flipped(page["modules"]) \intersect {m})]
  /\ stale' = (stale \/ replaced)
  /\ UNCHANGED <<exists, lastFolder, loaded, replaced>>

\* _on_set_default_username_clicked, whose dialog reads the file.
SetUsername(v) ==
  /\ Event /\ Set("username", v) /\ expected' = [expected EXCEPT !["username"] = v]
  /\ UNCHANGED <<exists, lastFolder, loaded, replaced, stale>>

-----------------------------------------------------------------------------
\* Another machine's configuration, or one with nothing set.
Backups ==
  {[s \in Settings |-> Absent],
   [s \in Settings |->
      CASE s \in Flags -> Text({"on"}) [] s = "gpu" -> Text({"on"})
        [] s = "size" -> Text({"odd"}) [] s = "folder" -> Text({"other"})
        [] s = "modules" -> Text(Modules) [] s = "username" -> Text({"bob"})]}

\* A restore; it takes effect at the next start.
Restore ==
  /\ Event /\ file' \in Backups
  /\ expected' = [s \in Settings |-> Loaded(s, file'[s])]
  /\ cut' = {} /\ replaced' = TRUE /\ stale' = FALSE
  /\ UNCHANGED <<exists, page, lastFolder, loaded>>

\* The program starts: load_modules, and the page is built.
Starts ==
  /\ page' = [s \in Settings |-> Shown(s, file'[s])]
  /\ lastFolder' = Offered(LoadFolder(file'["folder"]))
  /\ loaded' = Modules \ LoadModules(file'["modules"])
  /\ replaced' = FALSE

Restart == Event /\ UNCHANGED <<file, exists, expected, cut, stale>> /\ Starts

\* A crash after a save has opened its file, and the next start.
Crash(s) ==
  /\ Event
  /\ \E v \in Values(s) : Saved(s, v).state = "text"
  /\ file' = [file EXCEPT ![s] = Empty] /\ cut' = cut \union {s}
  /\ expected' = [expected EXCEPT ![s] = Loaded(s, Empty)]
  /\ stale' = (stale /\ s # "modules")
  /\ UNCHANGED exists /\ Starts

FolderGoes(f) ==
  /\ Event /\ f \in exists /\ exists' = exists \ {f}
  /\ UNCHANGED <<file, page, lastFolder, loaded, histVars>>

Next ==
  \/ \E s \in Flags \union {"gpu"} : ToggleFlag(s)
  \/ \E v \in Resolutions : ChooseSize(v)
  \/ ToggleShare \/ \E f \in Folders : ChooseFolder(f) \/ FolderGoes(f)
  \/ \E m \in Modules : ToggleModule(m)
  \/ \E v \in Values("username") : SetUsername(v)
  \/ Restore \/ Restart \/ \E s \in Settings : Crash(s)

Spec == Init /\ [][Next]_vars

-----------------------------------------------------------------------------
(* The properties.                                                         *)

\* What the user or a restore has set is what is read, also after a restart.
\* Not so of modules switched on the page after a restore: it saves what its
\* other boxes showed before.  A folder that is gone is not shared.
ValuesKept ==
  \A s \in Settings \ cut :
    \/ Load(s) = expected[s] \/ (s = "folder" /\ Load(s) = expected[s] \intersect exists)
    \/ s = "modules" /\ stale

\* A setting that a crash has cut off reads as its default, or, where that
\* would switch something on, as off: no folder is shared by accident.
CutIsSafe ==
  \A s \in cut : \/ Load(s) \in {Loaded(s, Absent), {}}
                 \/ s \in Flags /\ Load(s) = {"on"}

\* The page shows what is stored, until a restore replaces it; except a size
\* it has no preset for, and a folder that has gone.
PageTrue ==
  replaced \/ \A s \in Settings :
    \/ page[s] = Load(s)
    \/ s = "size" /\ Load(s) = {"odd"} /\ page[s] = {"window"}
    \/ s = "folder" /\ page[s] \notin {{f} : f \in exists}

SettingsKept == ValuesKept /\ CutIsSafe /\ PageTrue
=============================================================================
