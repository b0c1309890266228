----------------------------- MODULE ConfigFile -----------------------------
(***************************************************************************)
(* The settings: moonlight.conf on the SD card and the CONFIGURATION in    *)
(* memory.  They are read when the program starts (config_ensure_wii and   *)
(* config_parse in src/config.c), changed in the menus (settings_menu and  *)
(* enter_address in src/main.c) and saved by config_save, between whose    *)
(* steps the console can be switched off.  While it is off, the user may   *)
(* edit the file on a computer.                                            *)
(*                                                                         *)
(* A few settings stand for all: "viewonly" for everything that is written *)
(* only where it differs from its default, "autostream" for everything     *)
(* that is read but never written (remote, codec, port, keydir, ...).      *)
(***************************************************************************)
EXTENDS Integers

CONSTANT MaxEdits  \* bound: changes the user makes, in the menus and in the file

ASSUME EditsAssumption == MaxEdits \in Nat

VARIABLES
  stage,   \* "off", "ensure", "parse", "create", "menu", "settings", "save", "write"
  present, \* moonlight.conf exists
  file,    \* its lines, as a function from settings
  config,  \* the settings in memory
  edits,   \* changes made so far
  chosen,  \* auxiliary: the settings as the user last chose them, here or there
  unread,  \* auxiliary: this start has not read the whole file
  lost     \* auxiliary: a change did not reach the card, or what was there is gone

confVars == <<stage, present, file, config, edits, chosen, unread, lost>>

NoAddress == "none"
Empty == [s \in {} |-> NoAddress]  \* also the template, which has comments only

Defaults ==
  [width |-> 640, fps |-> 30, bitrate |-> -1, viewonly |-> FALSE,
   address |-> NoAddress, autostream |-> FALSE]

Settings == DOMAIN Defaults
NeverWritten == {"autostream"}
Kept == Settings \ NeverWritten

\* What a user may write into the file, and choose in the menus.
FileValues ==
  [width |-> {640, 1280}, fps |-> {30, 60}, bitrate |-> {-1, 8000}, viewonly |-> BOOLEAN,
   address |-> {"pc"}, autostream |-> BOOLEAN]

MenuValues == [width |-> {640, 1280}, fps |-> {30, 60}, bitrate |-> {8000}, viewonly |-> BOOLEAN]

-----------------------------------------------------------------------------
(* Reading and writing.                                                    *)

\* The rows of the table that the two resolutions fall into: 640x480 and 1280x720.
BitrateOf(c) == (IF c.width <= 640 THEN 1500 ELSE 5000) * (c.fps \div 30)

\* config_file_parse over the defaults, then the derived bitrate.
ParseOf(f) ==
  LET given == [s \in Settings |-> IF s \in DOMAIN f THEN f[s] ELSE Defaults[s]]
  IN  IF given.bitrate = -1 THEN [given EXCEPT !.bitrate = BitrateOf(given)] ELSE given

\* Mutant: the stream parameters are written where they differ from the desktop's defaults.
Written_DesktopDefaults(c) ==
  [s \in {k \in Kept : c[k] # [Defaults EXCEPT !.width = 1280, !.fps = 60][k]} |-> c[s]]

Written(c) ==
  [s \in {"width", "fps", "bitrate"} \cup {k \in Kept : c[k] # Defaults[k]} |-> c[s]]

-----------------------------------------------------------------------------
ConfInit ==
  /\ stage = "off" /\ present = FALSE /\ file = Empty
  /\ config = Defaults /\ chosen = ParseOf(Empty)
  /\ edits = 0 /\ unread = FALSE /\ lost = FALSE

StartMain ==
  /\ stage = "off"
  /\ stage' = "ensure"
  /\ UNCHANGED <<present, file, config, edits, chosen, unread, lost>>

\* Mutant: the template is written without a look for the file.
ConfigEnsure_Always ==
  /\ stage = "ensure"
  /\ stage' = "parse"
  /\ present' = TRUE /\ file' = Empty
  /\ UNCHANGED <<config, edits, chosen, unread, lost>>

\* The template is written if access finds no file: there is none, or the card could
\* not be asked, and then fopen empties the one there is.  The card may refuse it.
ConfigEnsure ==
  /\ stage = "ensure"
  /\ stage' = "parse"
  /\ \/ present' = TRUE /\ file' = Empty /\ lost' = (lost \/ present)
     \/ UNCHANGED <<present, file, lost>>
  /\ UNCHANGED <<config, edits, chosen, unread>>

\* config_parse ignores the result of config_file_parse, which reads nothing when fopen
\* or malloc fails, and only some of the lines when getline does; they may stand in
\* any order.
ConfigParse ==
  /\ stage = "parse"
  /\ stage' = "create"
  /\ \E read \in SUBSET DOMAIN file :
       /\ config' = ParseOf([s \in read |-> file[s]])
       /\ unread' = (read # DOMAIN file)
  /\ UNCHANGED <<present, file, edits, chosen, lost>>

\* create_client has returned one.  If the file was read, what it does not say is lost
\* for good, and the user goes on from what it does say.
MainMenu ==
  /\ stage = "create"
  /\ stage' = "menu"
  /\ IF unread THEN UNCHANGED <<chosen, lost>> ELSE chosen' = config /\ lost' = FALSE
  /\ UNCHANGED <<present, file, config, edits, unread>>

-----------------------------------------------------------------------------
(* The menus.                                                              *)

Choose(s, v) ==
  /\ edits < MaxEdits /\ edits' = edits + 1
  /\ config' = [config EXCEPT ![s] = v] /\ chosen' = [chosen EXCEPT ![s] = v]
  /\ UNCHANGED <<present, file, unread, lost>>

OpenSettings ==
  /\ stage = "menu"
  /\ stage' = "settings"
  /\ UNCHANGED <<present, file, config, edits, chosen, unread, lost>>

ChangeSetting ==
  /\ stage = "settings"
  /\ \E s \in DOMAIN MenuValues : \E v \in MenuValues[s] : Choose(s, v)
  /\ UNCHANGED stage

\* Mutant: a menu left by the home button is not saved.
LeaveSettings_HomeDiscards ==
  /\ stage = "settings"
  /\ stage' \in {"save", "menu"}
  /\ UNCHANGED <<present, file, config, edits, chosen, unread, lost>>

\* By B, by the home button or because the program ends.
LeaveSettings ==
  /\ stage = "settings"
  /\ stage' = "save"
  /\ UNCHANGED <<present, file, config, edits, chosen, unread, lost>>

EnterAddress ==
  /\ stage = "menu"
  /\ Choose("address", "pc")
  /\ stage' = "save"

-----------------------------------------------------------------------------
(* config_save.                                                            *)

OpenForWriting ==
  /\ stage = "save"
  /\ stage' = "write" /\ present' = TRUE /\ file' = Empty
  /\ UNCHANGED <<config, edits, chosen, unread, lost>>

\* fopen fails: the program exits.
CannotOpen ==
  /\ stage = "save"
  /\ stage' = "off" /\ config' = Defaults /\ unread' = FALSE /\ lost' = TRUE
  /\ UNCHANGED <<present, file, edits, chosen>>

\* The lines reach the card with fclose, whose result is not looked at: a full
\* card leaves the file empty.  Settings that were not read are not written again.
WriteLines ==
  /\ stage = "write"
  /\ stage' = "menu"
  /\ \/ file' = Written(config) /\ lost' = unread
     \/ lost' = TRUE /\ UNCHANGED file
  /\ UNCHANGED <<present, config, edits, chosen, unread>>

-----------------------------------------------------------------------------
\* At any time, or when the user quits.
StopMain ==
  /\ stage # "off"
  /\ stage' = "off" /\ config' = Defaults /\ unread' = FALSE
  /\ lost' = (lost \/ stage \in {"settings", "save", "write"})
  /\ UNCHANGED <<present, file, edits, chosen>>

\* On a computer: a line is added, or the value of one is replaced.
EditFile ==
  /\ stage = "off"
  /\ edits < MaxEdits /\ edits' = edits + 1
  /\ \E s \in Settings : \E v \in FileValues[s] :
       file' = [t \in DOMAIN file \cup {s} |-> IF t = s THEN v ELSE file[t]]
  /\ present' = TRUE
  /\ chosen' = ParseOf(file') /\ lost' = FALSE
  /\ UNCHANGED <<stage, config, unread>>

-----------------------------------------------------------------------------
ConfTypeOK ==
  /\ stage \in {"off", "ensure", "parse", "create", "menu", "settings", "save", "write"}
  /\ present \in BOOLEAN /\ DOMAIN file \subseteq Settings
  /\ DOMAIN config = Settings /\ DOMAIN chosen = Settings
  /\ edits \in 0 .. MaxEdits /\ unread \in BOOLEAN /\ lost \in BOOLEAN

\* What the program starts with is what the user last chose, in its menus or in
\* the file, whatever was changed together and in whichever order -- unless the
\* console was switched off before a save was complete, the card refused it, the
\* file could not be asked for or read as a whole at this start, or settings were
\* saved after a start at which it could not be read.  A start that did not read
\* the file, and saved nothing, has changed nothing for the next one.
\* (The remark in config_save tells of a version for which this was not so.)
SettingsSurvive ==
  (stage = "create" /\ ~ unread /\ ~ lost) => \A s \in Kept : config[s] = chosen[s]
=============================================================================
