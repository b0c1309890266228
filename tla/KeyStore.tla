------------------------------ MODULE KeyStore ------------------------------
(***************************************************************************)
(* The identity of the console: the unique id, the private key and the     *)
(* certificate that libgamestream/conf.c loads from the SD card when the   *)
(* program starts, and writes when they cannot be loaded (create_client in *)
(* src/main.c, mkcert_generate in libgamestream/mkcert.c).                 *)
(*                                                                         *)
(* The console can be switched off between any two steps.  A file is as    *)
(* fopen(.., "w") and fclose leave it: empty after the one, complete or    *)
(* cut short after the other.  A key and a certificate are represented by  *)
(* the number of the pair they were generated with.                        *)
(***************************************************************************)
EXTENDS Naturals

CONSTANT MaxPairs  \* bound: pairs generated

ASSUME PairsAssumption == MaxPairs \in Nat

VARIABLES
  pc,        \* where create_client is: "off", "load", "conf", "id", "generate", "open",
             \* "write", "reload"; then "client" or "failed"
  idOk,      \* the file of the unique id is complete
  pair,      \* the key file and the certificate file: Bad, or the pair they are of
  generated, \* pairs generated so far
  done,      \* how many of the two files of the pair mkcert_generate has closed
  disturbed, \* auxiliary: something failed since the console was switched on
  lostLoad,  \* auxiliary: gs_new once failed although the files were good
  lostPart,  \* auxiliary: a unique id or a key was once not written completely
  known      \* auxiliary: the pair that the last client ran with, or Unknown

vars == <<pc, idOk, pair, generated, done, disturbed, lostLoad, lostPart, known>>

Bad == 0  \* missing, empty or cut short: it does not parse
Files == {"key", "cert"}
Unknown == [f \in Files |-> Bad]  \* no client has run yet

Init ==
  /\ pc = "off"
  /\ idOk = FALSE /\ pair = [f \in Files |-> Bad]
  /\ generated = 0 /\ done = 0
  /\ disturbed = FALSE /\ lostLoad = FALSE /\ lostPart = FALSE
  /\ known = Unknown

\* Mutant: the files are written anew without a look at them.
SwitchOn_NoLoad ==
  /\ pc = "off"
  /\ pc' = "conf" /\ disturbed' = FALSE
  /\ UNCHANGED <<idOk, pair, generated, done, lostLoad, lostPart, known>>

SwitchOn ==
  /\ pc = "off"
  /\ pc' = "load" /\ disturbed' = FALSE
  /\ UNCHANGED <<idOk, pair, generated, done, lostLoad, lostPart, known>>

\* At any time, or when the program has ended.
SwitchOff ==
  /\ pc # "off"
  /\ pc' = "off"
  /\ UNCHANGED <<idOk, pair, generated, done, disturbed, lostLoad, lostPart, known>>

-----------------------------------------------------------------------------
(* gs_new.                                                                 *)

\* gs_conf_load parses each file by itself: nothing compares the key with the
\* certificate.
Loads == idOk /\ \A f \in Files : pair[f] # Bad

\* It can also fail for want of memory, or because the card is not read.
GsNew(from, otherwise) ==
  /\ pc = from
  /\ \/ /\ Loads
        /\ pc' = "client" /\ known' = pair
        /\ UNCHANGED <<disturbed, lostLoad>>
     \/ /\ pc' = otherwise
        /\ disturbed' = (disturbed \/ Loads) /\ lostLoad' = (lostLoad \/ Loads)
        /\ UNCHANGED known
  /\ UNCHANGED <<idOk, pair, generated, done, lostPart>>

\* Mutant: create_client gives up when the files cannot be loaded.
LoadClient_Once == GsNew("load", "failed")

LoadClient == GsNew("load", "conf")

ReloadClient == GsNew("reload", "failed")

-----------------------------------------------------------------------------
(* gs_conf_init: mkdirtree, init_unique_id, init_cert.                     *)

\* A step of it that reports its failure: the program ends.
InitFails(file) ==
  /\ pc' = "failed" /\ disturbed' = TRUE
  /\ file
  /\ UNCHANGED <<generated, done, lostLoad, lostPart, known>>

MakeDirectory ==
  /\ pc = "conf"
  /\ \/ /\ pc' = "id" /\ idOk' = FALSE  \* and fopen has emptied the file of the id
        /\ UNCHANGED <<pair, generated, done, disturbed, lostLoad, lostPart, known>>
     \/ InitFails(UNCHANGED <<idOk, pair>>)

\* fwrite, whose result is looked at, only fills the buffer of stdio; it reaches the
\* card with fclose, whose result is not: a short id goes unnoticed.
WriteUniqueId ==
  /\ pc = "id"
  /\ \/ /\ pc' = "generate" /\ idOk' = TRUE
        /\ UNCHANGED <<pair, generated, done, disturbed, lostLoad, lostPart, known>>
     \/ /\ pc' = "generate" /\ disturbed' = TRUE /\ lostPart' = TRUE
        /\ UNCHANGED <<idOk, pair, generated, done, lostLoad, known>>
     \/ InitFails(UNCHANGED <<idOk, pair>>)

-----------------------------------------------------------------------------
(* mkcert_generate.                                                        *)

\* Mutant: the certificate is written before the key.
FileOf_CertFirst(n) == IF n = 1 THEN "cert" ELSE "key"

FileOf(n) == IF n = 1 THEN "key" ELSE "cert"

Generate ==
  /\ pc = "generate"
  /\ \/ /\ generated < MaxPairs
        /\ generated' = generated + 1 /\ done' = 0
        /\ pc' = "open"
        /\ UNCHANGED <<idOk, pair, disturbed, lostLoad, lostPart, known>>
     \/ InitFails(UNCHANGED <<idOk, pair>>)

OpenFile ==
  /\ pc = "open"
  /\ \/ /\ pair' = [pair EXCEPT ![FileOf(done + 1)] = Bad]
        /\ pc' = "write"
        /\ UNCHANGED <<idOk, generated, done, disturbed, lostLoad, lostPart, known>>
     \/ InitFails(UNCHANGED <<idOk, pair>>)

\* What fwrite wrote is not looked at.
WriteFile ==
  /\ pc = "write"
  /\ \/ /\ pair' = [pair EXCEPT ![FileOf(done + 1)] = generated]
        /\ UNCHANGED <<disturbed, lostPart>>
     \/ /\ disturbed' = TRUE /\ lostPart' = (lostPart \/ FileOf(done + 1) = "key")
        /\ UNCHANGED pair
  /\ done' = done + 1
  /\ pc' = IF done' = 2 THEN "reload" ELSE "open"
  /\ UNCHANGED <<idOk, generated, lostLoad, known>>

-----------------------------------------------------------------------------
Next ==
  \/ SwitchOn \/ SwitchOff
  \/ LoadClient \/ ReloadClient
  \/ MakeDirectory \/ WriteUniqueId
  \/ Generate \/ OpenFile \/ WriteFile

Spec == Init /\ [][Next]_vars

-----------------------------------------------------------------------------
TypeOK ==
  /\ pc \in {"off", "load", "conf", "id", "generate", "open", "write", "reload", "client", "failed"}
  /\ idOk \in BOOLEAN
  /\ pair \in [Files -> 0 .. generated]
  /\ generated \in 0 .. MaxPairs /\ done \in 0 .. 2
  /\ disturbed \in BOOLEAN /\ lostLoad \in BOOLEAN /\ lostPart \in BOOLEAN
  /\ known \in [Files -> 0 .. generated]

\* A client never runs with a key that does not belong to its certificate (no
\* host would accept it, and it would never be repaired, as both files load),
\* wherever the console was switched off and whichever certificate was cut short
\* -- as long as gs_new never failed on good files, and no unique id and no key
\* was cut short.
KeyFitsCertificate == (pc = "client" /\ ~ lostLoad /\ ~ lostPart) => pair["key"] = pair["cert"]

\* The files a client has once run with, which hosts may have been paired with, are
\* neither emptied nor replaced, whatever was cut short before, as long as gs_new
\* never failed on good files.
IdentityKept == (known # Unknown /\ ~ lostLoad) => idOk /\ pair = known

\* Whatever an earlier start has left behind, the next one ends with a client if
\* nothing fails during it.
StartsUnlessDisturbed == pc = "failed" => disturbed
=============================================================================
