------------------------- MODULE GuiConfiguration -------------------------
(***************************************************************************)
(* The configuration tab of the graphical front end and its Start button   *)
(* (bin/tip-prep-gui/app.rs): files are loaded into a form, the form is    *)
(* edited and saved, and a run gets the configuration the form stands for  *)
(* when Start is pressed.  The tab stays enabled while a run is going on.  *)
(* GuiSession has the run's thread; here it is only going or not.          *)
(***************************************************************************)
EXTENDS Configuration, FiniteSets

CONSTANTS
  Paths,      \* the files Load and Save can name
  Documents,  \* what a hand-written file may contain
  Edits,      \* the <<field, text>> pairs typed into the form
  MaxEdits    \* bound on the edits of a behaviour

\* Files and edits are typed: what is not is Junk.
ASSUME FilesAssumption ==
  /\ \A d \in Documents : IsDocument(d)
  /\ \A e \in Edits : e[1] \in DOMAIN DefaultForm /\ IsText(e[1], e[2])
  /\ None \notin Documents /\ MaxEdits \in Nat

VARIABLES
  disk,     \* path -> document, None where there is no file
  form,     \* config: EditableConfig
  message,  \* the message line
  run,      \* the configuration of the current or last run, None before
  running,  \* is_running()
  source,   \* history: the configuration the form was loaded from and not edited since
  runSource,\* history: `source` when the run was started
  saved,    \* history: path -> the configuration the tab wrote there last, None
  edits     \* history: edits so far

tab     == <<form, source, edits>>
session == <<run, running, runSource>>
files   == <<disk, saved>>
vars    == <<tab, session, files, message>>

Init ==
  /\ disk \in [Paths -> Documents \cup {None}]
  /\ form = DefaultForm
  /\ message = "none"
  /\ run = None /\ running = FALSE
  /\ source = None /\ runSource = None
  /\ saved = [p \in Paths |-> None]
  /\ edits = 0

-----------------------------------------------------------------------------
\* load_config_from_file: a failed load leaves the form as it is.
Load(p) ==
  LET config == LoadConfig(disk[p])
  IN /\ IF config = None
          THEN /\ message' = IF disk[p] = None THEN "notFound" ELSE "loadFailed"
               /\ UNCHANGED <<form, source>>
          ELSE /\ message' = "loaded"
               /\ form' = FromAppConfig(config)
               /\ source' = config
     /\ UNCHANGED <<edits, session, files>>

\* A widget of the tab.
Edit ==
  /\ edits < MaxEdits
  /\ \E e \in Edits : form' = [form EXCEPT ![e[1]] = e[2]] /\ form' # form
  /\ edits' = edits + 1
  /\ source' = None
  /\ UNCHANGED <<session, files, message>>

\* The "Reset to Defaults" button.
Reset ==
  /\ form' = DefaultForm
  /\ source' = None
  /\ message' = "reset"
  /\ UNCHANGED <<edits, session, files>>

\* save_config_to_file: what is written is not validated; a write that fails
\* may have truncated the file.
Save(p) ==
  LET config == ToAppConfig(form)
  IN /\ \/ /\ config = None
           /\ message' = "invalid"
           /\ UNCHANGED files
        \/ /\ config # None
           /\ disk' = [disk EXCEPT ![p] = Serialize(config)]
           /\ saved' = [saved EXCEPT ![p] = config]
           /\ message' = "saved"
        \/ /\ config # None
           /\ \/ UNCHANGED files
              \/ disk' = [disk EXCEPT ![p] = << >>] /\ saved' = [saved EXCEPT ![p] = None]
           /\ message' = "writeFailed"
     /\ UNCHANGED <<tab, session>>

\* The Start button, start_controller: the form must parse; nothing validates
\* what it stands for.
Start ==
  LET config == ToAppConfig(form)
  IN /\ ~running
     /\ IF config = None
          THEN message' = "invalid" /\ UNCHANGED session
          ELSE /\ run' = config /\ runSource' = source
               /\ running' = TRUE
               /\ message' = "started"
     /\ UNCHANGED <<tab, files>>

\* The run's thread has ended (GuiSession!CheckThread).
RunEnds ==
  /\ running
  /\ running' = FALSE
  /\ message' \in {"finished", "completed", "failed"}
  /\ UNCHANGED <<run, runSource, tab, files>>

\* Somebody writes the file with an editor.
ReplaceFile(p) ==
  /\ disk' \in {[disk EXCEPT ![p] = d] : d \in Documents}
  /\ disk' # disk
  /\ saved' = [saved EXCEPT ![p] = None]
  /\ UNCHANGED <<tab, session, message>>

Next ==
  \/ \E p \in Paths : Load(p) \/ Save(p) \/ ReplaceFile(p)
  \/ Edit \/ Reset \/ Start \/ RunEnds

Spec == Init /\ [][Next]_vars
-----------------------------------------------------------------------------
(***************************************************************************)
(* Properties.                                                             *)
(***************************************************************************)

\* The parts of a configuration a run acts on: the first port, no switch for a
\* disabled one, no mapping for an empty one.
Port(c)    == IF c.control_ports = << >> THEN None ELSE Head(c.control_ports)
Method(c)  == LET s == c.pulse_method.random_polarity_switch
              IN IF s # None /\ ~s.enabled
                   THEN [c.pulse_method EXCEPT !.random_polarity_switch = None]
                   ELSE c.pulse_method
Mapping(c) == IF c.tcp_channel_mapping = None THEN << >> ELSE c.tcp_channel_mapping
Plain      == Keys \ {"control_ports", "pulse_method", "tcp_channel_mapping", "timing"}

\* A configuration that was loaded and not edited since is the one a run gets,
\* whatever was loaded, edited, saved or started before: it is never refused,
\* it passes validation, and but for the timing table it is what the command
\* line would run from the same file (from_app_config, to_app_config).
LoadedIsRun ==
  /\ run # None /\ runSource # None =>
       /\ Valid(run)
       /\ \A k \in Plain : run[k] = runSource[k]
       /\ Port(runSource) \in {None, Port(run)}
       /\ Method(run) = Method(runSource) /\ Mapping(run) = Mapping(runSource)
  /\ message = "invalid" => source = None

\* A configuration saved from the tab and loaded again is the configuration
\* saved, whatever happened in between, or -- saving does not validate -- it is
\* refused and the form stays; what the environment overrides and an empty scan
\* speed excepted (save_config_to_file, load_config_from_file).
SavedReloads ==
  [][\A p \in Paths : Load(p) /\ saved[p] # None =>
       LET c == saved[p]
       IN IF Valid(Over(Environment, c))
            THEN \A k \in Keys \ (DOMAIN Environment \cup {"scan_speed_m_s"}) :
                   ToAppConfig(form')[k] = c[k]
            ELSE UNCHANGED form /\ message' = "loadFailed"]_vars

\* config.md:88: "scan speed during the check; omit to keep current": a file
\* without a speed, hand-written or saved from an emptied field, is loaded
\* without one.
OmittedSpeedKept ==
  [][\A p \in Paths :
       Load(p) /\ message' = "loaded" /\ "scan_speed_m_s" \notin DOMAIN Over(Environment, disk[p])
         => form'.scan_speed_nm_s = Empty]_vars

\* mock_demo.toml:3-7: "Pair this with the GUI's "Simulate" checkbox ... Timings
\* here are deliberately compressed": a file's timings are those of the run.
LoadedTimingIsRun == run # None /\ runSource # None => run.timing = runSource.timing
=============================================================================
