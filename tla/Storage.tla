------------------------------ MODULE Storage -------------------------------
(***************************************************************************)
(* What the SD card holds and main in src/main.c reads when it starts: the *)
(* settings (ConfigFile), then the identity of the console (KeyStore).     *)
(* The menus, which save settings, are only reached with a client; a power *)
(* cut, the end of the program and a failed config_save end both.          *)
(***************************************************************************)
EXTENDS KeyStore, ConfigFile

storageVars == <<vars, confVars>>

StorageInit == Init /\ ConfInit

-----------------------------------------------------------------------------
ReadSettings == (StartMain \/ ConfigEnsure \/ ConfigParse) /\ UNCHANGED vars

\* create_client.
CreateClient ==
  /\ stage = "create"
  /\ \/ SwitchOn
     \/ LoadClient \/ ReloadClient
     \/ MakeDirectory \/ WriteUniqueId
     \/ Generate \/ OpenFile \/ WriteFile
  /\ UNCHANGED confVars

ClientCreated == pc = "client" /\ MainMenu /\ UNCHANGED vars

UseMenus ==
  /\ \/ OpenSettings \/ ChangeSetting \/ LeaveSettings \/ EnterAddress
     \/ OpenForWriting \/ WriteLines
  /\ UNCHANGED vars

EndProgram ==
  /\ CannotOpen \/ StopMain
  /\ IF pc = "off" THEN UNCHANGED vars ELSE SwitchOff

EditCard == EditFile /\ UNCHANGED vars

StorageNext ==
  \/ ReadSettings \/ CreateClient \/ ClientCreated \/ UseMenus \/ EndProgram \/ EditCard

StorageSpec == StorageInit /\ [][StorageNext]_storageVars

-----------------------------------------------------------------------------
StorageTypeOK == TypeOK /\ ConfTypeOK
=============================================================================
