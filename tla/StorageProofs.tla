--------------------------- MODULE StorageProofs ----------------------------
(***************************************************************************)
(* Proofs about Storage, for any number of pairs of keys and of changes of *)
(* the settings: however often the console is switched off while it writes *)
(* its identity or its settings, and whatever the card does not take.      *)
(*                                                                         *)
(* Storage implements KeyStore, whose results come first; those about the  *)
(* settings rest on a lemma of what config_save writes and what            *)
(* config_file_parse makes of it.                                          *)
(***************************************************************************)
EXTENDS Storage, TLAPS

Creating == {"conf", "id", "generate", "open", "write"}

\* What the steps of mkcert_generate rely on of the ones before.
StepInv ==
  /\ pc \in {"generate", "open", "write", "reload"} => idOk \/ (disturbed /\ lostPart)
  /\ pc \in {"open", "write"} => done < 2 /\ generated # Bad
  /\ pc \in {"open", "write"} => pair["cert"] # generated
  /\ pc \in {"open", "write"} /\ done = 0 => pair["key"] # generated
  /\ pc = "client" => Loads

\* As long as gs_new never failed on good files, the ones that a client ran with are
\* still good, and are not being replaced.
KnownInv ==
  known # Unknown /\ ~ lostLoad => Loads /\ pair = known /\ pc \in {"off", "load", "client"}

Usable == Loads /\ pair["key"] = pair["cert"]

\* As long as, besides, no unique id and no key was cut short, a certificate is
\* complete only if all the files are, and belong together; and once the new key is
\* there the old certificate is not, since the key is written first.
PairInv ==
  ~ lostLoad /\ ~ lostPart =>
    /\ pair["cert"] # Bad => Usable /\ pc \notin Creating
    /\ pc \in {"open", "write"} /\ done = 1 => pair["key"] = generated

Inv == TypeOK /\ StepInv /\ KnownInv /\ PairInv

-----------------------------------------------------------------------------
\* The invariant: at every point where the console can be switched off, what is
\* on the card is good, or will be seen not to be good when it is loaded.
THEOREM Recoverable == Spec => []Inv
<1> USE PairsAssumption DEF PairsAssumption, Files, Bad, Creating, Usable, Loads, Unknown
<1>1. Init => Inv
  <2>1. Init => TypeOK
    <3>1. Init => pair \in [Files -> 0 .. generated] /\ generated \in 0 .. MaxPairs
      BY DEF Init
    <3>2. Init => done \in 0 .. 2
      BY DEF Init
    <3> QED
      BY <3>1, <3>2, Zenon DEF Init, TypeOK
  <2>2. Init => StepInv /\ KnownInv
    BY DEF Init, StepInv, KnownInv
  <2>3. Init => PairInv
    BY DEF Init, PairInv
  <2> QED
    BY <2>1, <2>2, <2>3 DEF Inv
<1>2. Inv /\ [Next]_vars => Inv'
  <2> SUFFICES ASSUME Inv, [Next]_vars
               PROVE  Inv'
    OBVIOUS
  <2> USE DEF Inv, TypeOK, StepInv, KnownInv, PairInv
  <2>0. /\ pair["key"] \in 0 .. generated /\ pair["cert"] \in 0 .. generated
        /\ pair \in [Files -> 0 .. generated + 1] /\ known \in [Files -> 0 .. generated + 1]
        /\ \A f \in Files : [pair EXCEPT ![f] = Bad] \in [Files -> 0 .. generated]
        /\ \A f \in Files : [pair EXCEPT ![f] = generated] \in [Files -> 0 .. generated]
    OBVIOUS
  <2>1. CASE SwitchOn
    BY <2>1 DEF SwitchOn
  <2>2. CASE SwitchOff
    BY <2>2 DEF SwitchOff
  <2>3. CASE LoadClient
    BY <2>3 DEF LoadClient, GsNew
  <2>4. CASE ReloadClient
    BY <2>4 DEF ReloadClient, GsNew
  <2>5. CASE MakeDirectory
    BY <2>5 DEF MakeDirectory, InitFails
  <2>6. CASE WriteUniqueId
    <3>1. TypeOK'
      BY <2>6 DEF WriteUniqueId, InitFails
    <3>2. StepInv'
      BY <2>6 DEF WriteUniqueId, InitFails
    <3>3. KnownInv'
      BY <2>6 DEF WriteUniqueId, InitFails
    <3>4. PairInv'
      BY <2>6 DEF WriteUniqueId, InitFails
    <3> QED
      BY <3>1, <3>2, <3>3, <3>4
  <2>7. CASE Generate
    <3>1. CASE pc' = "failed"
      BY <2>7, <3>1 DEF Generate, InitFails
    <3>2. CASE pc' = "open"
      <4>1. /\ generated' = generated + 1 /\ generated < MaxPairs
            /\ done' = 0 /\ pair' = pair /\ idOk' = idOk
            /\ disturbed' = disturbed /\ lostLoad' = lostLoad /\ lostPart' = lostPart
            /\ pc = "generate" /\ known' = known
        BY <2>7, <3>2 DEF Generate, InitFails
      <4>2. /\ generated' \in 0 .. MaxPairs /\ done' \in 0 .. 2 /\ generated' # Bad
            /\ pair' \in [Files -> 0 .. generated'] /\ known' \in [Files -> 0 .. generated']
            /\ done' < 2 /\ done' # 1
            /\ pair'["cert"] # generated' /\ pair'["key"] # generated'
        BY <2>0, <4>1
      <4> QED
        BY <3>2, <4>1, <4>2, Zenon
    <3> QED
      BY <2>7, <3>1, <3>2 DEF Generate, InitFails
  <2>8. CASE OpenFile
    <3>1. TypeOK'
      BY <2>0, <2>8 DEF OpenFile, InitFails, FileOf
    <3>2. StepInv'
      BY <2>0, <2>8 DEF OpenFile, InitFails, FileOf
    <3>3. KnownInv'
      BY <2>0, <2>8 DEF OpenFile, InitFails, FileOf
    <3>4. PairInv'
      <4>1. /\ pair["cert"] = Bad => pair'["cert"] = Bad
            /\ done = 1 => pair'["key"] = pair["key"]
        <5>1. CASE pair' = pair
          BY <5>1
        <5>2. CASE pair' = [pair EXCEPT ![FileOf(done + 1)] = Bad]
          <6>1. done = 1 => FileOf(done + 1) = "cert"
            BY DEF FileOf
          <6>2. pair'["cert"] \in {Bad, pair["cert"]}
            BY <2>0, <5>2
          <6> QED
            BY <2>0, <5>2, <6>1, <6>2
        <5> QED
          BY <2>8, <5>1, <5>2, Zenon DEF OpenFile, InitFails
      <4>2. /\ generated' = generated /\ done' = done /\ pc = "open"
            /\ lostLoad' = lostLoad /\ lostPart' = lostPart
        BY <2>8 DEF OpenFile, InitFails
      <4> QED
        BY <4>1, <4>2, Zenon
    <3> QED
      BY <3>1, <3>2, <3>3, <3>4
  <2>9. CASE WriteFile
    <3>0. /\ pc = "write" /\ done' = done + 1 /\ generated' = generated
          /\ idOk' = idOk /\ lostLoad' = lostLoad /\ known' = known
          /\ pc' = IF done' = 2 THEN "reload" ELSE "open"
      BY <2>9 DEF WriteFile
    <3>d. done \in {0, 1}
      BY <3>0
    <3>1. TypeOK'
      <4>1. pair' \in [Files -> 0 .. generated]
        BY <2>0, <2>9, <3>d DEF WriteFile, FileOf
      <4>2. done' \in 0 .. 2
        BY <3>0, <3>d
      <4>3. disturbed' \in BOOLEAN /\ lostPart' \in BOOLEAN
        BY <2>9, Zenon DEF WriteFile
      <4> QED
        BY <3>0, <4>1, <4>2, <4>3, Zenon
    <3>2. StepInv'
      BY <2>0, <2>9 DEF WriteFile, FileOf
    <3>3. KnownInv'
      BY <2>0, <2>9 DEF WriteFile, FileOf
    <3>4. PairInv'
      <4> SUFFICES ASSUME ~ lostLoad', ~ lostPart'
                   PROVE  /\ pair'["cert"] # Bad => Usable' /\ pc' \notin Creating
                          /\ pc' \in {"open", "write"} /\ done' = 1 => pair'["key"] = generated'
        OBVIOUS
      <4>0. lostPart' = lostPart \/ lostPart' = (lostPart \/ FileOf(done + 1) = "key")
        BY <2>9, Zenon DEF WriteFile
      <4>1. ~ lostPart /\ pair["cert"] = Bad
        <5>1. ~ lostPart /\ ~ lostLoad /\ pc \in Creating
          BY <3>0, <4>0
        <5> QED
          BY <5>1
      <4>2. CASE done = 0
        <5>1. pair' = [pair EXCEPT !["key"] = generated]
          <6>1. FileOf(done + 1) = "key"
            BY <4>2 DEF FileOf
          <6> QED
            BY <2>9, <6>1, Zenon DEF WriteFile
        <5>2. pair'["key"] = generated /\ pair'["cert"] = Bad
          BY <2>0, <4>1, <5>1
        <5> QED
          BY <3>0, <5>2, Zenon
      <4>3. CASE done = 1
        <5>1. FileOf(done + 1) = "cert"
          BY <4>3 DEF FileOf
        <5>2. \/ pair' = [pair EXCEPT !["cert"] = generated]
              \/ pair' = pair
          BY <2>9, <5>1, Zenon DEF WriteFile
        <5>3. pair["key"] = generated /\ generated # Bad
          BY <3>0, <4>1, <4>3, Zenon
        <5>4. pair'["key"] = generated /\ pair'["cert"] \in {Bad, generated}
          BY <2>0, <4>1, <5>2, <5>3
        <5>5. done' = 2 /\ pc' = "reload"
          BY <3>0, <4>3
        <5>6. idOk'
          BY <3>0, <4>1, Zenon
        <5> QED
          BY <5>3, <5>4, <5>5, <5>6
      <4> QED
        BY <3>d, <4>2, <4>3
    <3> QED
      BY <3>1, <3>2, <3>3, <3>4
  <2>10. CASE UNCHANGED vars
    BY <2>10 DEF vars
  <2> QED
    BY <2>1, <2>2, <2>3, <2>4, <2>5, <2>6, <2>7, <2>8, <2>9, <2>10 DEF Next
<1> QED
  BY <1>1, <1>2, PTL DEF Spec

\* The key of a running client belongs to its certificate, unless gs_new failed on
\* good files, or a unique id or a key was cut short.
THEOREM KeyFits == Spec => []KeyFitsCertificate
<1>1. Inv => KeyFitsCertificate
  BY DEF Inv, PairInv, StepInv, KeyFitsCertificate, TypeOK, Usable, Loads, Files, Bad
<1> QED
  BY <1>1, Recoverable, PTL

\* The files that a client ran with stay as they are, unless gs_new failed on them.
THEOREM IdentityIsKept == Spec => []IdentityKept
<1>1. Inv => IdentityKept
  BY DEF Inv, KnownInv, IdentityKept, Loads
<1> QED
  BY <1>1, Recoverable, PTL

\* What a start that nothing disturbs relies on: the files that mkcert_generate has
\* closed are good, so that gs_new, called again, can load them.
WrittenInv ==
  /\ ~ disturbed /\ pc \in {"open", "write", "reload"} =>
       (done >= 1 => pair["key"] # Bad) /\ (done >= 2 => pair["cert"] # Bad)
  /\ pc = "reload" => done = 2
  /\ StartsUnlessDisturbed

\* Only a start that something disturbs ends without a client, whatever the ones
\* before have left on the card.
THEOREM StartsWithClient == Spec => []StartsUnlessDisturbed
<1> USE PairsAssumption DEF PairsAssumption, Files, Bad, Loads, StartsUnlessDisturbed
<1>1. Init => WrittenInv
  BY DEF Init, WrittenInv
<1>2. Inv /\ WrittenInv /\ [Next]_vars => WrittenInv'
  <2> SUFFICES ASSUME Inv, WrittenInv, [Next]_vars PROVE WrittenInv'
    OBVIOUS
  <2> USE DEF WrittenInv
  <2>1. CASE SwitchOn
    BY <2>1 DEF SwitchOn
  <2>2. CASE SwitchOff
    BY <2>2 DEF SwitchOff
  <2>3. CASE LoadClient
    BY <2>3 DEF LoadClient, GsNew
  <2>4. CASE ReloadClient
    <3>1. pc = "reload" /\ pc' \in {"client", "failed"} /\ (pc' = "failed" => disturbed' = (disturbed \/ Loads))
      BY <2>4 DEF ReloadClient, GsNew
    <3>2. ~ disturbed => Loads
      BY <3>1 DEF Inv, StepInv
    <3> QED
      BY <3>1, <3>2
  <2>5. CASE MakeDirectory
    BY <2>5 DEF MakeDirectory, InitFails
  <2>6. CASE WriteUniqueId
    BY <2>6 DEF WriteUniqueId, InitFails
  <2>7. CASE Generate
    BY <2>7 DEF Generate, InitFails
  <2>8. CASE OpenFile
    <3>1. CASE pc' = "failed"
      BY <2>8, <3>1 DEF OpenFile, InitFails
    <3>2. CASE pc' # "failed"
      <4>1. /\ pair' = [pair EXCEPT ![FileOf(done + 1)] = Bad]
            /\ pc = "open" /\ pc' = "write" /\ UNCHANGED <<done, disturbed>>
        BY <2>8, <3>2 DEF OpenFile, InitFails
      <4>2. done \in {0, 1}
        BY <4>1 DEF Inv, TypeOK, StepInv
      <4>3. done = 1 => pair'["key"] = pair["key"]
        BY <4>1 DEF Inv, TypeOK, FileOf
      <4> QED
        BY <4>1, <4>2, <4>3
    <3> QED
      BY <3>1, <3>2
  <2>9. CASE WriteFile
    <3>1. CASE disturbed'
      BY <2>9, <3>1 DEF WriteFile, Inv, TypeOK, StepInv
    <3>2. CASE ~ disturbed'
      <4>1. /\ pair' = [pair EXCEPT ![FileOf(done + 1)] = generated]
            /\ pc = "write" /\ UNCHANGED disturbed /\ done' = done + 1
            /\ pc' = IF done' = 2 THEN "reload" ELSE "open"
        BY <2>9, <3>2 DEF WriteFile
      <4>2. done \in {0, 1} /\ generated # Bad
        BY <4>1 DEF Inv, TypeOK, StepInv
      <4>3. done = 0 => pair'["key"] = generated
        BY <4>1 DEF Inv, TypeOK, FileOf
      <4>4. done = 1 => pair'["key"] = pair["key"] /\ pair'["cert"] = generated
        BY <4>1 DEF Inv, TypeOK, FileOf
      <4> QED
        BY <3>2, <4>1, <4>2, <4>3, <4>4
    <3> QED
      BY <3>1, <3>2
  <2>10. CASE UNCHANGED vars
    BY <2>10 DEF vars
  <2> QED
    BY <2>1, <2>2, <2>3, <2>4, <2>5, <2>6, <2>7, <2>8, <2>9, <2>10 DEF Next
<1>3. WrittenInv => StartsUnlessDisturbed
  BY DEF WrittenInv
<1> QED
  BY <1>1, <1>2, <1>3, Recoverable, PTL DEF Spec

\* Reading and saving the settings, and the end of the program that they bring
\* about, are steps of KeyStore or none.
THEOREM ImplementsKeyStore == StorageSpec => Spec
<1>1. StorageInit => Init
  BY DEF StorageInit
<1>2. [StorageNext]_storageVars => [Next]_vars
  BY DEF StorageNext, ReadSettings, CreateClient, ClientCreated, UseMenus, EndProgram, EditCard,
     Next, storageVars
<1> QED
  BY <1>1, <1>2, PTL DEF StorageSpec, Spec

\* So what is proved of the identity holds of the program that reads and saves its
\* settings besides.
THEOREM StorageKeepsIdentity ==
  StorageSpec => []KeyFitsCertificate /\ []StartsUnlessDisturbed /\ []IdentityKept
BY ImplementsKeyStore, KeyFits, StartsWithClient, IdentityIsKept, PTL

-----------------------------------------------------------------------------
(* What config_save writes and config_file_parse reads: ConfigFile.        *)

\* The settings by name.
LEMMA SettingsAre ==
  /\ Settings = {"width", "fps", "bitrate", "viewonly", "address", "autostream"}
  /\ Kept = {"width", "fps", "bitrate", "viewonly", "address"}
BY DEF Settings, Kept, Defaults, NeverWritten

\* What config_file_parse makes of a file: every setting has a value, the one of
\* its line if there is one, but the bitrate is never left open.
LEMMA ParseOfIs ==
  ASSUME NEW f, DOMAIN f \subseteq Settings, "fps" \in DOMAIN f => f["fps"] \in Int
  PROVE  /\ DOMAIN ParseOf(f) = Settings
         /\ \A s \in Settings \ {"bitrate"} :
              ParseOf(f)[s] = IF s \in DOMAIN f THEN f[s] ELSE Defaults[s]
         /\ "bitrate" \in DOMAIN f /\ f["bitrate"] # -1 => ParseOf(f)["bitrate"] = f["bitrate"]
         /\ ParseOf(f)["bitrate"] # -1
         /\ ParseOf(f)["fps"] \in Int
<1> DEFINE given == [s \in Settings |-> IF s \in DOMAIN f THEN f[s] ELSE Defaults[s]]
<1>1. ParseOf(f) = IF given["bitrate"] = -1 THEN [given EXCEPT !["bitrate"] = BitrateOf(given)] ELSE given
  BY DEF ParseOf
<1>2. DOMAIN given = Settings
  OBVIOUS
<1>3. \A s \in Settings : given[s] = IF s \in DOMAIN f THEN f[s] ELSE Defaults[s]
  OBVIOUS
<1>4. given["fps"] \in Int
  BY <1>3, SettingsAre DEF Defaults
<1>5. BitrateOf(given) # -1
  <2>1. given["fps"] \div 30 \in Int
    BY <1>4
  <2>2. BitrateOf(given) = 1500 * (given["fps"] \div 30) \/ BitrateOf(given) = 5000 * (given["fps"] \div 30)
    BY DEF BitrateOf
  <2> HIDE DEF given
  <2> QED
    BY <2>1, <2>2
<1> HIDE DEF given
<1> QED
  BY <1>1, <1>2, <1>3, <1>4, <1>5, SettingsAre

\* What config_save writes is read back as it was, except for what it never writes.
LEMMA ReadBack ==
  ASSUME NEW c, DOMAIN c = Settings, c["bitrate"] # -1, c["fps"] \in Int
  PROVE  /\ DOMAIN Written(c) \subseteq Settings
         /\ "fps" \in DOMAIN Written(c) => Written(c)["fps"] \in Int
         /\ \A s \in Kept : ParseOf(Written(c))[s] = c[s]
<1> DEFINE W == {"width", "fps", "bitrate"} \cup {k \in Kept : c[k] # Defaults[k]}
<1>1. Written(c) = [s \in W |-> c[s]]
  BY DEF Written
<1>2. W \subseteq Settings /\ "fps" \in W /\ "bitrate" \in W
  BY SettingsAre
<1>3. \A s \in Kept \ W : c[s] = Defaults[s]
  OBVIOUS
<1> HIDE DEF W
<1>4. /\ DOMAIN Written(c) = W
      /\ \A s \in W : Written(c)[s] = c[s]
  BY <1>1
<1>5. DOMAIN Written(c) \subseteq Settings /\ Written(c)["fps"] \in Int
  BY <1>2, <1>4
<1>6. ASSUME NEW s \in Kept PROVE ParseOf(Written(c))[s] = c[s]
  <2>1. CASE s = "bitrate"
    BY <1>2, <1>4, <1>5, <2>1, ParseOfIs
  <2>2. CASE s # "bitrate"
    <3>1. s \in Settings \ {"bitrate"}
      BY <2>2, SettingsAre
    <3>2. ParseOf(Written(c))[s] = IF s \in W THEN Written(c)[s] ELSE Defaults[s]
      BY <1>4, <1>5, <3>1, ParseOfIs
    <3> QED
      BY <1>3, <1>4, <3>2
  <2> QED
    BY <2>1, <2>2
<1> QED
  BY <1>5, <1>6

FileTyped ==
  /\ file = [s \in DOMAIN file |-> file[s]]
  /\ DOMAIN file \subseteq Settings /\ ("fps" \in DOMAIN file => file["fps"] \in Int)

\* The file says what the user last chose.
FileTells == \A s \in Kept : ParseOf(file)[s] = chosen[s]

\* Where the program has yet to read the file, or has read it, or has saved it, it
\* says what the user chose, unless something was lost; in the menus the settings
\* in memory are what the user chose, if the file was read, and can be written.
ConfInv ==
  /\ stage \in {"off", "ensure", "parse", "create", "menu", "settings", "save", "write"}
  /\ FileTyped
  /\ DOMAIN config = Settings /\ config["fps"] \in Int
  /\ ~ present => file = Empty /\ stage # "write"
  /\ stage \in {"create", "menu", "settings", "save", "write"} => config["bitrate"] # -1
  /\ stage \in {"menu", "settings", "save", "write"} /\ ~ unread => config = chosen
  /\ stage = "create" /\ ~ unread => config = ParseOf(file)
  /\ stage \in {"off", "ensure", "parse", "create", "menu"} /\ ~ lost => FileTells

\* ConfInv holds on a card without a file ...
LEMMA ConfInitInv == ConfInit => ConfInv
<1> SUFFICES ASSUME ConfInit PROVE ConfInv
  OBVIOUS
<1>1. DOMAIN file = {}
  BY DEF ConfInit, Empty
<1>2. FileTyped
  BY <1>1 DEF ConfInit, Empty, FileTyped
<1>3. DOMAIN config = Settings /\ config["fps"] \in Int
  BY DEF ConfInit, Settings, Defaults
<1> QED
  BY <1>1, <1>2, <1>3 DEF ConfInit, ConfInv, FileTells, Empty

\* ... and no step of the program, of the user or of the power switch breaks it.
LEMMA StartKeepsConf ==
  ASSUME ConfInv, StartMain \/ ConfigEnsure \/ ConfigParse \/ MainMenu
  PROVE  ConfInv'
<1>1. CASE StartMain
  BY <1>1 DEF StartMain, ConfInv, FileTells, FileTyped
<1>2. CASE ConfigEnsure
  <2>1. stage = "ensure" /\ stage' = "parse" /\ UNCHANGED <<config, chosen, unread>>
    BY <1>2 DEF ConfigEnsure
  <2>2. CASE UNCHANGED <<present, file, lost>>
    BY <2>1, <2>2 DEF ConfInv, FileTyped, FileTells
  <2>3. CASE present' = TRUE /\ file' = Empty /\ lost' = (lost \/ present)
    <3>1. FileTyped'
      BY <2>3 DEF FileTyped, Empty
    <3>2. ~ lost' => ~ lost /\ ~ present
      BY <2>3, Zenon
    <3>3. ~ lost' => FileTells'
      BY <2>1, <2>3, <3>2 DEF ConfInv, FileTells
    <3> QED
      BY <2>1, <2>3, <3>1, <3>3 DEF ConfInv
  <2> QED
    BY <1>2, <2>2, <2>3, Zenon DEF ConfigEnsure
<1>3. CASE ConfigParse
  <2>1. /\ stage = "parse" /\ stage' = "create" /\ UNCHANGED <<present, file, chosen, lost>>
    BY <1>3 DEF ConfigParse
  <2>2. PICK read \in SUBSET DOMAIN file :
          /\ config' = ParseOf([s \in read |-> file[s]])
          /\ unread' = (read # DOMAIN file)
    BY <1>3 DEF ConfigParse
  <2> DEFINE given == [s \in read |-> file[s]]
  <2>3. DOMAIN given \subseteq Settings /\ ("fps" \in DOMAIN given => given["fps"] \in Int)
    BY DEF ConfInv, FileTyped
  <2>4. config' = ParseOf(given)
    BY <2>2
  <2>5. ~ unread' => given = file
    BY <2>2 DEF ConfInv, FileTyped
  <2> HIDE DEF given
  <2>6. DOMAIN config' = Settings /\ config'["fps"] \in Int /\ config'["bitrate"] # -1
    BY <2>3, <2>4, ParseOfIs
  <2>7. ~ unread' => config' = ParseOf(file)
    BY <2>4, <2>5
  <2>8. FileTyped' /\ (~ lost' => FileTells')
    BY <2>1 DEF ConfInv, FileTells, FileTyped
  <2> QED
    BY <2>1, <2>6, <2>7, <2>8 DEF ConfInv
<1>4. CASE MainMenu
  <2>1. /\ stage = "create" /\ stage' = "menu" /\ UNCHANGED <<present, file, config, unread>>
    BY <1>4 DEF MainMenu
  <2>2. CASE unread
    <3>1. UNCHANGED <<chosen, lost>>
      BY <1>4, <2>2 DEF MainMenu
    <3> QED
      BY <2>1, <2>2, <3>1 DEF ConfInv, FileTells, FileTyped
  <2>3. CASE ~ unread
    <3>1. chosen' = config /\ config = ParseOf(file)
      BY <1>4, <2>1, <2>3 DEF MainMenu, ConfInv
    <3> QED
      BY <2>1, <3>1 DEF ConfInv, FileTells, FileTyped
  <2> QED
    BY <2>2, <2>3
<1> QED
  BY <1>1, <1>2, <1>3, <1>4

\* The menus, config_save, the end of the program and the user's editor.
LEMMA MenusKeepConf ==
  ASSUME ConfInv,
         \/ OpenSettings \/ ChangeSetting \/ LeaveSettings \/ EnterAddress
         \/ OpenForWriting \/ WriteLines \/ CannotOpen \/ StopMain \/ EditFile
  PROVE  ConfInv'
<1>1. CASE OpenSettings
  BY <1>1 DEF OpenSettings, ConfInv, FileTyped
<1>2. ASSUME NEW s \in Settings, NEW v, Choose(s, v), stage' \in {"settings", "save"},
             s = "fps" => v \in Int, s = "bitrate" => v # -1,
             stage \in {"menu", "settings"}
      PROVE  ConfInv'
  <2>1. /\ config' = [config EXCEPT ![s] = v] /\ chosen' = [chosen EXCEPT ![s] = v]
        /\ UNCHANGED <<present, file, unread, lost>>
    BY <1>2 DEF Choose
  <2>2. DOMAIN config' = Settings /\ config'["fps"] \in Int /\ config'["bitrate"] # -1
    BY <1>2, <2>1, SettingsAre DEF ConfInv
  <2> QED
    BY <1>2, <2>1, <2>2 DEF ConfInv, FileTyped
<1>3. CASE ChangeSetting
  <2>0. PICK s \in DOMAIN MenuValues : \E v \in MenuValues[s] : Choose(s, v)
    BY <1>3 DEF ChangeSetting
  <2>1. PICK v \in MenuValues[s] : Choose(s, v)
    BY <2>0
  <2>2. s \in Settings /\ (s = "fps" => v \in Int) /\ (s = "bitrate" => v # -1)
    BY SettingsAre DEF MenuValues
  <2>3. stage = "settings" /\ stage' = "settings"
    BY <1>3 DEF ChangeSetting
  <2> QED
    BY <1>2, <2>1, <2>2, <2>3
<1>4. CASE LeaveSettings
  BY <1>4 DEF LeaveSettings, ConfInv, FileTyped
<1>5. CASE EnterAddress
  BY <1>2, <1>5, SettingsAre DEF EnterAddress
<1>6. CASE OpenForWriting
  BY <1>6 DEF OpenForWriting, ConfInv, Empty, FileTyped
<1>7. CASE WriteLines
  <2>1. /\ stage = "write" /\ stage' = "menu"
        /\ UNCHANGED <<present, config, edits, chosen, unread>>
    BY <1>7 DEF WriteLines
  <2>2. CASE file' = Written(config) /\ lost' = unread
    <3>1. FileTyped' /\ \A s \in Kept : ParseOf(file')[s] = config[s]
      <4>1. FileTyped'
        BY <2>1, <2>2, ReadBack DEF ConfInv, FileTyped, Written
      <4>2. \A s \in Kept : ParseOf(file')[s] = config[s]
        BY <2>1, <2>2, ReadBack DEF ConfInv
      <4> QED
        BY <4>1, <4>2
    <3>2. ~ lost' => config = chosen
      BY <2>1, <2>2 DEF ConfInv
    <3>3. ~ lost' => FileTells'
      BY <2>1, <3>1, <3>2 DEF FileTells
    <3> QED
      BY <2>1, <3>1, <3>3 DEF ConfInv
  <2>3. CASE lost' = TRUE /\ UNCHANGED file
    BY <2>1, <2>3 DEF ConfInv, FileTyped
  <2> QED
    BY <1>7, <2>2, <2>3 DEF WriteLines
<1>8. CASE CannotOpen \/ StopMain
  <2>1. /\ stage' = "off" /\ config' = Defaults /\ UNCHANGED <<present, file, chosen>>
        /\ ~ lost' => ~ lost /\ stage \notin {"settings", "save", "write"}
    BY <1>8, Zenon DEF CannotOpen, StopMain
  <2>2. DOMAIN config' = Settings /\ config'["fps"] \in Int
    BY <2>1 DEF Settings, Defaults
  <2>3. ~ lost' => FileTells'
    BY <1>8, <2>1 DEF CannotOpen, StopMain, ConfInv, FileTells
  <2> QED
    BY <2>1, <2>2, <2>3 DEF ConfInv, FileTyped
<1>9. CASE EditFile
  <2>0. PICK s \in Settings : \E v \in FileValues[s] :
          file' = [t \in DOMAIN file \cup {s} |-> IF t = s THEN v ELSE file[t]]
    BY <1>9 DEF EditFile
  <2>1. PICK v \in FileValues[s] :
          file' = [t \in DOMAIN file \cup {s} |-> IF t = s THEN v ELSE file[t]]
    BY <2>0
  <2>2. stage = "off" /\ stage' = "off" /\ present' = TRUE /\ chosen' = ParseOf(file') /\ config' = config
    BY <1>9 DEF EditFile
  <2>3. s = "fps" => v \in Int
    BY SettingsAre DEF FileValues
  <2>4. FileTyped'
    BY <2>1, <2>3 DEF ConfInv, FileTyped
  <2> QED
    BY <2>2, <2>4 DEF ConfInv, FileTells
<1> QED
  BY <1>1, <1>3, <1>4, <1>5, <1>6, <1>7, <1>8, <1>9

\* The settings survive: the program starts with what the user last chose.
THEOREM Survive == StorageSpec => []SettingsSurvive
<1>1. StorageInit => ConfInv
  BY ConfInitInv DEF StorageInit
<1>2. ConfInv /\ [StorageNext]_storageVars => ConfInv'
  <2> SUFFICES ASSUME ConfInv, [StorageNext]_storageVars PROVE ConfInv'
    OBVIOUS
  <2>1. CASE UNCHANGED confVars
    BY <2>1 DEF confVars, ConfInv, FileTells, FileTyped
  <2> QED
    BY <2>1, StartKeepsConf, MenusKeepConf
       DEF StorageNext, ReadSettings, CreateClient, ClientCreated, UseMenus, EndProgram, EditCard,
         storageVars
<1>3. ConfInv => SettingsSurvive
  BY DEF ConfInv, FileTells, SettingsSurvive
<1> QED
  BY <1>1, <1>2, <1>3, PTL DEF StorageSpec
=============================================================================
