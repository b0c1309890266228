---------------------------- MODULE HostSession ----------------------------
(***************************************************************************)
(* What the console knows about the host: the requests of                  *)
(* libgamestream/client.c (status, pairing, unpairing, start, quit) as     *)
(* src/main.c issues them, over a network that loses requests and answers, *)
(* to a host that other people use too.                                    *)
(*                                                                         *)
(* SERVER_DATA is filled when the console connects and from then on only   *)
(* updated by what the console does itself.  The host is external: it is   *)
(* modelled by what client.c sends and expects.  Of an answer, only what   *)
(* client.c tells apart is kept; see Replies.                              *)
(***************************************************************************)
EXTENDS Integers

CONSTANT Apps  \* ids of the apps of the host; 0 is none

ASSUME AppsAssumption == Apps \subseteq Nat \ {0} /\ Apps # {}

VARIABLES
  \* the console
  pc,           \* where the main thread is: a menu, or the request it waits for
  paired,       \* server->paired
  currentGame,  \* server->currentGame
  appId,        \* the app do_stream has chosen
  \* the host
  hostPaired,   \* it accepts this console
  hostStage,    \* the last stage it has completed of a pairing
  hostGame,     \* the app it runs
  \* auxiliary
  accepted,     \* the host accepted the last start request
  pairDoubt,    \* since paired was last learnt, the network or the host kept something from us
  gameDoubt,    \* the same for currentGame
  startFailed   \* since then a start request failed

consoleVars == <<pc, paired, currentGame, appId>>
hostVars == <<hostPaired, hostStage, hostGame>>
auxVars == <<accepted, pairDoubt, gameDoubt, startFailed>>
vars == <<consoleVars, hostVars, auxVars>>

\* What becomes of a request: it does not arrive; the host acts on it but its
\* answer does not arrive (in time), or arrives cut short (see HttpClient) so that
\* it does not parse; the answer has a status other than 200; the answer says no,
\* in the field that client.c looks at ("paired", "gamesession", "cancel"); the
\* answer is the one hoped for.  (A refusal that is cut short has the effect of an
\* error on gs_pair, gs_start_app and gs_quit_app, of a refusal on gs_unpair.)
Replies == {"lost", "unheard", "cut", "error", "refused", "ok"}

Acts(reply) == reply \in {"unheard", "cut", "ok"}  \* the host did what was asked

Init ==
  /\ pc = "offline" /\ paired = FALSE /\ currentGame = 0 /\ appId = 0
  /\ hostPaired \in BOOLEAN /\ hostStage = 0 /\ hostGame \in {0} \cup Apps
  /\ accepted = FALSE
  /\ pairDoubt = FALSE /\ gameDoubt = FALSE /\ startFailed = FALSE

-----------------------------------------------------------------------------
(* connect_server: load_server_status asks over HTTPS, then over HTTP.     *)

\* Only a paired console gets an answer over HTTPS.
StatusHttps ==
  /\ pc = "offline"
  /\ hostPaired
  /\ pc' = "menu"
  /\ paired' = TRUE
  /\ currentGame' = hostGame
  /\ pairDoubt' = FALSE /\ gameDoubt' = FALSE /\ startFailed' = FALSE
  /\ UNCHANGED <<appId, hostVars, accepted>>

\* The answer over HTTP never says that the console is paired.
StatusHttp ==
  /\ pc = "offline"
  /\ pc' = "menu"
  /\ paired' = FALSE
  /\ currentGame' = hostGame
  /\ pairDoubt' = hostPaired /\ gameDoubt' = FALSE /\ startFailed' = FALSE
  /\ UNCHANGED <<appId, hostVars, accepted>>

Disconnect ==
  /\ pc = "menu"
  /\ pc' = "offline"
  /\ UNCHANGED <<paired, currentGame, appId, hostVars, auxVars>>

-----------------------------------------------------------------------------
(* gs_pair: five requests, which the host follows in order.                *)

PairStages == 1 .. 5
PairPc == <<"pair1", "pair2", "pair3", "pair4", "pair5">>

BeginPair ==
  /\ pc = "menu" /\ ~ paired
  /\ pc' = PairPc[1]
  /\ hostStage' = 0
  /\ UNCHANGED <<paired, currentGame, appId, hostPaired, hostGame, auxVars>>

\* The host: after clientpairingsecret, the fourth request, it accepts the
\* console; the fifth is an HTTPS request, for which it must have.
HostPairs(k, reply) ==
  /\ Acts(reply) => hostStage = k - 1 /\ (k = 5 => hostPaired)
  /\ hostStage' = IF Acts(reply) THEN k ELSE hostStage
  /\ hostPaired' = (hostPaired \/ (k = 4 /\ Acts(reply)))

\* Mutant: the last request is sent but its answer is not looked at.
PairAnswered_SkipsLast(k, reply) == reply = "ok" \/ k = 5

\* The request was answered, and the answer is what the protocol expects.
PairAnswered(k, reply) == reply = "ok"

PairStage(k, reply) ==
  /\ pc = PairPc[k]
  /\ HostPairs(k, reply)
  /\ \/ /\ PairAnswered(k, reply) /\ k < 5
        /\ pc' = PairPc[k + 1]
        /\ UNCHANGED <<paired, pairDoubt>>
     \/ /\ PairAnswered(k, reply) /\ k = 5
        /\ pc' = "menu"
        /\ paired' = TRUE /\ pairDoubt' = FALSE
     \/ /\ k = 1 /\ reply = "refused"  \* declined, but with ret still GS_OK
        /\ pc' = "menu"
        /\ UNCHANGED <<paired, pairDoubt>>
     \/ /\ ~ PairAnswered(k, reply) /\ ~ (k = 1 /\ reply = "refused")
        /\ pc' = "pairFailed"
        /\ UNCHANGED <<paired, pairDoubt>>
  /\ UNCHANGED <<currentGame, appId, hostGame, accepted, gameDoubt, startFailed>>

\* The answer says yes, but what it carries is of no use: the certificate of the
\* first one (another device is pairing), the signature or the PIN of the third.
PairContentsWrong(k) ==
  /\ pc = PairPc[k]
  /\ HostPairs(k, "ok")
  /\ pc' = "pairFailed"
  /\ UNCHANGED <<paired, currentGame, appId, hostGame, auxVars>>

\* gs_unpair, from the menu or to clean up after a failed pairing: paired is
\* cleared by any answer whose status is not known to be an error.
Unpair(reply) ==
  /\ hostPaired' = (hostPaired /\ ~ Acts(reply))
  /\ paired' = (paired /\ reply \notin {"cut", "refused", "ok"})
  /\ pairDoubt' = (pairDoubt \/ reply \notin {"cut", "ok"})

\* Mutant: a failed pairing is not undone.
PairFailed_KeepsPairing(reply) ==
  /\ pc = "pairFailed"
  /\ pc' = "menu"
  /\ UNCHANGED <<paired, currentGame, appId, hostVars, auxVars>>

PairFailed(reply) ==
  /\ pc = "pairFailed"
  /\ Unpair(reply)
  /\ pc' = "menu"
  /\ UNCHANGED <<currentGame, appId, hostStage, hostGame, accepted, gameDoubt, startFailed>>

UnpairChosen(reply) ==
  /\ pc = "menu" /\ paired
  /\ Unpair(reply)
  /\ UNCHANGED <<pc, currentGame, appId, hostStage, hostGame, accepted, gameDoubt, startFailed>>

-----------------------------------------------------------------------------
(* gs_start_app, LiStartConnection and gs_quit_app, in do_stream.          *)

\* An app that is found in the list; otherwise do_stream returns.
ChooseStream(app) ==
  /\ pc = "menu"
  /\ pc' = "start"
  /\ appId' = app
  /\ UNCHANGED <<paired, currentGame, hostVars, auxVars>>

\* The action of the request: a host that runs something is asked to resume.
Launches == currentGame = 0

\* The host launches when it runs nothing and resumes when it runs something.
HostStarts(reply) ==
  /\ Acts(reply) => hostPaired /\ (Launches <=> hostGame = 0)
  /\ hostGame' = IF Acts(reply) /\ Launches THEN appId ELSE hostGame

\* currentGame is set as soon as there is any answer ...
GameKnown(reply) == reply \in {"cut", "error", "refused", "ok"}

\* ... and an answer with a status other than 200, or none, makes ret 1, which
\* do_stream, looking for negative values, takes for success.
StartTakenForSuccess(reply) == reply \in {"cut", "error", "ok"}

StartApp(reply) ==
  /\ pc = "start"
  /\ HostStarts(reply)
  /\ currentGame' = IF GameKnown(reply) THEN appId ELSE currentGame
  /\ accepted' = (reply \in {"cut", "ok"})
  /\ pc' = IF StartTakenForSuccess(reply) THEN "connecting" ELSE "menu"
  /\ gameDoubt' = (gameDoubt \/ reply = "unheard")
  /\ startFailed' = (startFailed \/ ~ accepted')
  /\ UNCHANGED <<paired, appId, hostPaired, hostStage, pairDoubt>>

\* LiStartConnection: the host streams only what it runs for this console.
ConnectionStarts ==
  /\ pc = "connecting"
  /\ accepted /\ hostGame # 0
  /\ pc' = "stream"
  /\ UNCHANGED <<paired, currentGame, appId, hostVars, auxVars>>

ConnectionFails ==
  /\ pc = "connecting"
  /\ pc' = "menu"
  /\ UNCHANGED <<paired, currentGame, appId, hostVars, auxVars>>

\* The stream ends; with quitappafter, gs_quit_app follows.
StreamEnds ==
  /\ pc = "stream"
  /\ pc' \in {"menu", "quit"}
  /\ UNCHANGED <<paired, currentGame, appId, hostVars, auxVars>>

\* Mutant: the game is forgotten whatever the answer.
QuitKnown_Always(reply) == TRUE

\* currentGame is cleared only by an answer that says so.
QuitKnown(reply) == reply = "ok"

QuitApp(reply) ==
  /\ pc = "quit"
  /\ Acts(reply) => hostPaired
  /\ hostGame' = IF Acts(reply) THEN 0 ELSE hostGame
  /\ currentGame' = IF QuitKnown(reply) THEN 0 ELSE currentGame
  /\ gameDoubt' = (gameDoubt \/ reply \in {"unheard", "cut"})
  /\ pc' = "menu"
  /\ UNCHANGED <<paired, appId, hostPaired, hostStage, accepted, pairDoubt, startFailed>>

-----------------------------------------------------------------------------
(* The host on its own.                                                    *)

\* The game is closed on the host, or another client starts one.
HostGameChanges ==
  /\ hostGame' \in IF hostGame = 0 THEN Apps ELSE {0}
  /\ gameDoubt' = TRUE
  /\ UNCHANGED <<consoleVars, hostPaired, hostStage, accepted, pairDoubt, startFailed>>

\* The console is removed from the host's list.
HostForgets ==
  /\ hostPaired
  /\ hostPaired' = FALSE
  /\ pairDoubt' = TRUE
  /\ UNCHANGED <<consoleVars, hostStage, hostGame, accepted, gameDoubt, startFailed>>

-----------------------------------------------------------------------------
Requests(reply) ==
  \/ \E k \in PairStages : PairStage(k, reply)
  \/ PairFailed(reply) \/ UnpairChosen(reply)
  \/ StartApp(reply) \/ QuitApp(reply)

Next ==
  \/ StatusHttps \/ StatusHttp \/ Disconnect
  \/ BeginPair \/ (\E k \in {1, 3} : PairContentsWrong(k))
  \/ \E reply \in Replies : Requests(reply)
  \/ \E app \in Apps : ChooseStream(app)
  \/ ConnectionStarts \/ ConnectionFails \/ StreamEnds
  \/ HostGameChanges \/ HostForgets

Spec == Init /\ [][Next]_vars

-----------------------------------------------------------------------------
TypeOK ==
  /\ pc \in {"offline", "menu", "pairFailed", "start", "connecting", "stream", "quit"}
              \cup { PairPc[k] : k \in PairStages }
  /\ paired \in BOOLEAN
  /\ currentGame \in {0} \cup Apps /\ appId \in {0} \cup Apps
  /\ hostPaired \in BOOLEAN /\ hostStage \in 0 .. 5 /\ hostGame \in {0} \cup Apps
  /\ accepted \in BOOLEAN /\ pairDoubt \in BOOLEAN
  /\ gameDoubt \in BOOLEAN /\ startFailed \in BOOLEAN

\* In the menu the console and the host agree on the pairing, however a pairing
\* was cut short: only a host that forgets it, an unanswered request to unpair
\* and a status that came over HTTP can set them apart.
PairingKnown == (pc = "menu" /\ ~ pairDoubt) => (paired <=> hostPaired)

\* The console never takes itself for paired with a host that has not accepted
\* it: no answer is taken for the last one of the pairing that is not.
PairedOnlyByHost == [][paired' /\ ~ paired => hostPaired']_vars

\* As long as every start request was accepted, the console knows whether a game
\* runs, so the next start asks for the right thing, launch or resume: only
\* somebody else at the host, or an unheard answer, can set them apart.
GameRunsAsKnown ==
  (pc \in {"menu", "start"} /\ ~ gameDoubt /\ ~ startFailed) => (currentGame = 0 <=> hostGame = 0)

\* main.c:446-449 shows "Gamestream error" when gs_start_app reports GS_ERROR: a
\* connection is only attempted for a start request that the host accepted.
ConnectsOnlyWhenAccepted == pc = "connecting" => accepted
=============================================================================
