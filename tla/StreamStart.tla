---------------------------- MODULE StreamStart -----------------------------
(***************************************************************************)
(* From the main menu to the stream: do_stream of src/main.c first finds   *)
(* out which app to start (AppChoice), then has the host start it          *)
(* (HostSession), while the host goes on with its own life.                *)
(*                                                                         *)
(* The choice goes on while the main thread of HostSession is in "menu";   *)
(* choicePc is "idle" when there is none.                                  *)
(***************************************************************************)
EXTENDS HostSession, AppChoice

ASSUME SameApps == Ids = Apps

streamStartVars == <<vars, choiceVars>>

Idle ==
  /\ choicePc' = "idle" /\ list' = <<>> /\ sel' = 0
  /\ found' = None /\ marked' = None

-----------------------------------------------------------------------------
StreamStartInit ==
  /\ Init
  /\ choicePc = "idle" /\ list = <<>> /\ sel = 0
  /\ found = None /\ marked = None

\* "Stream" is chosen in the main menu.
BeginChoice ==
  /\ pc = "menu" /\ choicePc = "idle"
  /\ choicePc' = "ask"
  /\ UNCHANGED <<vars, list, sel, found, marked>>

\* The list is asked for over HTTPS, which only a paired console can.
Choose ==
  /\ choicePc # "idle"
  /\ ChoiceNext
  /\ list' # list => hostPaired
  /\ UNCHANGED vars

\* do_stream returns: the app was not found, or home was pressed.
GiveUp ==
  /\ choicePc \in {"notFound", "back"}
  /\ Idle
  /\ UNCHANGED vars

Start ==
  /\ choicePc = "start"
  /\ ChooseStream(found)
  /\ Idle

\* Everything else the main thread does.
OtherConsoleStep ==
  /\ choicePc = "idle"
  /\ \/ StatusHttps \/ StatusHttp \/ Disconnect
     \/ BeginPair \/ (\E k \in {1, 3} : PairContentsWrong(k))
     \/ \E reply \in Replies : Requests(reply)
     \/ ConnectionStarts \/ ConnectionFails \/ StreamEnds
  /\ UNCHANGED choiceVars

HostStep == (HostGameChanges \/ HostForgets) /\ UNCHANGED choiceVars

StreamStartNext ==
  BeginChoice \/ Choose \/ GiveUp \/ Start \/ OtherConsoleStep \/ HostStep

StreamStartSpec == StreamStartInit /\ [][StreamStartNext]_streamStartVars

-----------------------------------------------------------------------------
StreamStartTypeOK == TypeOK /\ (choicePc # "idle" => pc = "menu" /\ ChoiceTypeOK)
=============================================================================
