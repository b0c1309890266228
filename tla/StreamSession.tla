--------------------------- MODULE StreamSession ---------------------------
(***************************************************************************)
(* Who starts and who stops a stream: the menu loop, do_stream and the     *)
(* input thread of src/main.c, src/wii/menu.c, src/wii/input.c and         *)
(* src/wii/proc.c, and the termination callbacks of src/_connection.c,     *)
(* which moonlight-common-c runs on detached AsyncTerm threads.            *)
(*                                                                         *)
(* They communicate through plain globals: state, running, want_main_menu  *)
(* and the three statics of home_poll.  The main thread reads the Wiimote  *)
(* in the menus and the input thread reads it during a stream.             *)
(*                                                                         *)
(* Time is counted in ticks, of which HoldTicks make HOME_HOLD_MICROS.     *)
(* homeEnabled is 1 from boot on and only ever set to 1, so it is left     *)
(* out.  The settings and the address entry are the "submenu", connecting  *)
(* and pairing the "request": what they do is of no concern here.          *)
(***************************************************************************)
EXTENDS Integers

CONSTANTS
  HoldTicks,       \* HOME_HOLD_MICROS
  MaxTerminations  \* bound: terminations under way at once

ASSUME SessionAssumption ==
  /\ HoldTicks \in Nat
  /\ MaxTerminations \in Nat

VARIABLES
  \* globals of the program
  state,             \* "INVALID", "STREAMING", "STOP_STREAM"
  running,           \* cleared to leave the program
  wantMainMenu,      \* a short press of home in a menu
  homeHeld, homeLongFired, \* home_poll: button down at the last poll; QUIT fired
  homeAge,           \* ticks since homeDownMicros
  \* threads
  main,              \* where the main thread is
  inputRunning,      \* input_thread_running
  input,             \* the input thread: "none", "check", "update", "send"
  \* the connection
  alreadyTerminated, connectionInterrupted,
  terminating,       \* connection threads that passed the test of alreadyTerminated
  asyncTerm,         \* AsyncTerm threads that have not run yet
  \* the Wiimote
  pressed, pressAge, \* home is down, and for how many ticks
  wiimoteOk,         \* it is connected and sends data
  \* auxiliary
  polled,            \* home_poll ran since the button or the clock last changed
  stale              \* this press began while home_poll remembered the one before

homeVars == <<homeHeld, homeLongFired, homeAge, polled>>
inputVars == <<inputRunning, input>>
connectionVars == <<alreadyTerminated, connectionInterrupted, terminating, asyncTerm>>
wiimoteVars == <<pressed, pressAge, wiimoteOk, stale>>
vars == <<state, running, wantMainMenu, homeVars, main, inputVars, connectionVars, wiimoteVars>>

Menus == {"menu", "submenu", "chooseApp", "notice"}  \* the main thread polls the Wiimote
HttpCalls == {"request", "appList", "appId", "startApp", "quitApp"}

Init ==
  /\ state = "INVALID" /\ running = TRUE /\ wantMainMenu = FALSE
  /\ homeHeld = FALSE /\ homeLongFired = FALSE /\ homeAge = 0
  /\ main = "top"
  /\ inputRunning = FALSE /\ input = "none"
  /\ alreadyTerminated = FALSE /\ connectionInterrupted = FALSE
  /\ terminating = 0 /\ asyncTerm = 0
  /\ pressed = FALSE /\ pressAge = 0 /\ wiimoteOk = TRUE
  /\ polled = FALSE /\ stale = FALSE

-----------------------------------------------------------------------------
(* The Wiimote and the clock.  The polls, 100 or 200 a second, are fast     *)
(* compared with the user's thumb and with a tick: where somebody polls a  *)
(* Wiimote that sends data, a poll sees every press, release and tick.     *)

SomebodyPolls == wiimoteOk /\ (main \in Menus \/ (input # "none" /\ inputRunning))

ButtonOrClock ==
  /\ SomebodyPolls => polled
  /\ polled' = FALSE
  /\ UNCHANGED <<state, running, wantMainMenu, homeHeld, homeLongFired, main, inputVars,
                 connectionVars, wiimoteOk>>

Press ==
  /\ ~ pressed
  /\ pressed' = TRUE /\ pressAge' = 0
  /\ stale' = homeHeld
  /\ UNCHANGED homeAge
  /\ ButtonOrClock

Release ==
  /\ pressed
  /\ pressed' = FALSE
  /\ UNCHANGED <<pressAge, homeAge, stale>>
  /\ ButtonOrClock

Older(age) == IF age > HoldTicks THEN age ELSE age + 1

Tick ==
  /\ homeAge' = Older(homeAge) /\ pressAge' = Older(pressAge)
  /\ UNCHANGED <<pressed, stale>>
  /\ ButtonOrClock

\* The Wiimote goes out of reach, or comes back.
LinkChanges ==
  /\ wiimoteOk' = ~ wiimoteOk
  /\ UNCHANGED <<state, running, wantMainMenu, homeVars, main, inputVars, connectionVars,
                 pressed, pressAge, stale>>

-----------------------------------------------------------------------------
(* home_poll, with the action it returns.                                  *)

\* Mutant: the time of the press is taken at every poll.
HomePoll_RestartsHold(action) ==
  /\ polled' = TRUE
  /\ \/ /\ pressed /\ action = "NONE"
        /\ homeHeld' = TRUE /\ homeLongFired' = FALSE /\ homeAge' = 0
     \/ /\ ~ pressed
        /\ action = IF homeHeld THEN "BACK" ELSE "NONE"
        /\ homeHeld' = FALSE /\ homeLongFired' = FALSE
        /\ UNCHANGED homeAge

\* Mutant: a new press keeps the time of an older one.
HomePoll_OldTime(action) ==
  /\ polled' = TRUE
  /\ \/ /\ pressed /\ ~ homeHeld /\ action = "NONE"
        /\ homeHeld' = TRUE /\ homeLongFired' = FALSE
        /\ UNCHANGED homeAge
     \/ /\ pressed /\ homeHeld
        /\ action = IF homeLongFired \/ homeAge <= HoldTicks THEN "NONE" ELSE "QUIT"
        /\ homeLongFired' = (homeLongFired \/ action = "QUIT")
        /\ UNCHANGED <<homeHeld, homeAge>>
     \/ /\ ~ pressed
        /\ action = IF homeHeld /\ ~ homeLongFired THEN "BACK" ELSE "NONE"
        /\ homeHeld' = FALSE /\ homeLongFired' = FALSE
        /\ UNCHANGED homeAge

HomePoll(action) ==
  /\ polled' = TRUE
  /\ \/ /\ pressed /\ ~ homeHeld /\ action = "NONE"
        /\ homeHeld' = TRUE /\ homeLongFired' = FALSE /\ homeAge' = 0
     \/ /\ pressed /\ homeHeld /\ ~ homeLongFired /\ homeAge > HoldTicks /\ action = "QUIT"
        /\ homeLongFired' = TRUE
        /\ UNCHANGED <<homeHeld, homeAge>>
     \/ /\ pressed /\ homeHeld /\ (homeLongFired \/ homeAge <= HoldTicks) /\ action = "NONE"
        /\ UNCHANGED <<homeHeld, homeLongFired, homeAge>>
     \/ /\ ~ pressed
        /\ action = IF homeHeld /\ ~ homeLongFired THEN "BACK" ELSE "NONE"
        /\ homeHeld' = FALSE /\ homeLongFired' = FALSE
        /\ UNCHANGED homeAge

-----------------------------------------------------------------------------
(* The main thread: menus.                                                 *)

\* wii_input_buttons_triggered: HOME_BACK asks for the main menu, HOME_QUIT ends
\* the program; a Wiimote without data does not even reach home_poll.
MenuPoll ==
  \/ /\ wiimoteOk
     /\ \E action \in {"NONE", "BACK", "QUIT"} :
          /\ HomePoll(action)
          /\ running' = (running /\ action # "QUIT")
          /\ wantMainMenu' = (wantMainMenu \/ action = "BACK")
  \/ /\ ~ wiimoteOk
     /\ UNCHANGED <<running, wantMainMenu, homeVars>>

\* Mutant: the menus do not look at running.
MenuLeaves_HomeOnly == wantMainMenu

\* What makes menu_select and menu_input_string return without a choice.
MenuLeaves == ~ running \/ wantMainMenu

\* One turn of a menu loop; after it the user has pressed nothing.
MenuTurn ==
  /\ main \in Menus \ {"notice"}
  /\ ~ MenuLeaves
  /\ MenuPoll
  /\ UNCHANGED <<state, main, inputVars, connectionVars, wiimoteVars>>

\* The same, and the poll sees button A or B and moves the main thread.
MenuChoice(from, to) ==
  /\ main = from
  /\ ~ MenuLeaves
  /\ wiimoteOk
  /\ MenuPoll
  /\ main' = to
  /\ UNCHANGED <<state, inputVars, connectionVars, wiimoteVars>>

MainStep(from, to) ==
  /\ main = from
  /\ main' = to
  /\ UNCHANGED <<state, running, wantMainMenu, homeVars, inputVars, connectionVars, wiimoteVars>>

\* The head of main_menu's loop: "clear it so it only unwinds the submenu that
\* set it".
MainMenuTop ==
  /\ main = "top"
  /\ IF running THEN wantMainMenu' = FALSE /\ main' = "menu"
                ELSE UNCHANGED wantMainMenu /\ main' = "exit"
  /\ UNCHANGED <<state, running, homeVars, inputVars, connectionVars, wiimoteVars>>

\* Stream, or another entry, is chosen; B or a home press redraws the menu.
MainMenu ==
  \/ MenuChoice("menu", "appList")
  \/ MenuChoice("menu", "request")
  \/ MenuChoice("menu", "submenu")
  \/ MenuChoice("menu", "top")
  \/ MenuLeaves /\ MainStep("menu", "top")

\* The Quit entry.
QuitChosen ==
  /\ main = "menu" /\ ~ MenuLeaves /\ wiimoteOk
  /\ \E action \in {"NONE", "BACK", "QUIT"} :
       /\ HomePoll(action)
       /\ wantMainMenu' = (wantMainMenu \/ action = "BACK")
  /\ running' = FALSE
  /\ main' = "top"
  /\ UNCHANGED <<state, inputVars, connectionVars, wiimoteVars>>

Submenu ==
  \/ MenuChoice("submenu", "top")
  \/ MenuLeaves /\ MainStep("submenu", "top")

\* Connect, Pair and Unpair; a connection with autostream goes on to do_stream.
Request ==
  \/ MainStep("request", "notice")
  \/ MainStep("request", "top")
  \/ MainStep("request", "appList")

-----------------------------------------------------------------------------
(* The main thread: do_stream.                                             *)

\* gs_applist.
AppList ==
  \/ MainStep("appList", "chooseApp")
  \/ MainStep("appList", "haveApp")
  \/ MainStep("appList", "noList")

\* An app is chosen, and found again in the list or not (see AppChoice); or
\* menu_select returns without a choice, for whatever reason, and the app of the
\* configuration is looked up instead.
ChooseApp ==
  \/ MenuChoice("chooseApp", "haveApp")
  \/ MenuChoice("chooseApp", "noApp")
  \/ MenuChoice("chooseApp", "defaultApp")
  \/ MenuLeaves /\ MainStep("chooseApp", "defaultApp")

DefaultApp == MainStep("defaultApp", "haveApp") \/ MainStep("defaultApp", "noApp")

\* Mutant: a home press in the app list is forgotten.
HomeBacksOut_Never == FALSE

\* "Home (short press) during the app list backs out to the main menu."
HomeBacksOut == wantMainMenu

AppChosen ==
  \/ HomeBacksOut /\ \E from \in {"haveApp", "noApp", "noList"} : MainStep(from, "top")
  \/ ~ HomeBacksOut /\ MainStep("haveApp", "startApp")
  \/ ~ HomeBacksOut /\ MainStep("noApp", "notice")
  \/ ~ HomeBacksOut /\ MainStep("noList", "appId")

\* get_app_id asks the server again.
AppId == MainStep("appId", "startApp") \/ MainStep("appId", "notice")

\* gs_start_app.  LiStartConnection begins by forgetting earlier terminations.
StartApp ==
  \/ /\ main = "startApp"
     /\ main' = "connecting"
     /\ alreadyTerminated' = FALSE /\ connectionInterrupted' = FALSE
     /\ UNCHANGED <<state, running, wantMainMenu, homeVars, inputVars, terminating, asyncTerm,
                    wiimoteVars>>
  \/ MainStep("startApp", "notice")

\* LiStartConnection returns.
Connected == MainStep("connecting", "startInput")

\* A stage of it fails: it calls LiStopConnection itself, which joins the threads.
ConnectFails ==
  /\ main = "connecting"
  /\ main' = "undoConnect"
  /\ alreadyTerminated' = TRUE /\ connectionInterrupted' = TRUE
  /\ UNCHANGED <<state, running, wantMainMenu, homeVars, inputVars, terminating, asyncTerm, wiimoteVars>>

ConnectUndone == terminating = 0 /\ MainStep("undoConnect", "notice")

\* wait_for_button: A, a home press and the end of the program return.
WaitForButton ==
  \/ /\ main = "notice" /\ running
     /\ MenuPoll
     /\ main' \in IF wantMainMenu' THEN {"top"} ELSE IF wiimoteOk THEN {"notice", "top"} ELSE {"notice"}
     /\ UNCHANGED <<state, inputVars, connectionVars, wiimoteVars>>
  \/ ~ running /\ MainStep("notice", "top")

\* start_input_thread; pthread_create can fail.
StartInput ==
  /\ main = "startInput"
  /\ main' = "setState"
  /\ \/ inputRunning' = TRUE /\ input' = "check"
     \/ inputRunning' = FALSE /\ UNCHANGED input
  /\ UNCHANGED <<state, running, wantMainMenu, homeVars, connectionVars, wiimoteVars>>

SetStreaming ==
  /\ main = "setState"
  /\ state' = "STREAMING"
  /\ main' = "loop"
  /\ UNCHANGED <<running, wantMainMenu, homeVars, inputVars, connectionVars, wiimoteVars>>

\* Mutant: the input thread is not stopped.
StopStreaming_KeepsInput ==
  /\ main = "loop"
  /\ ~ (running /\ state = "STREAMING")
  /\ main' = "stopConnection"
  /\ UNCHANGED <<state, running, wantMainMenu, homeVars, inputVars, connectionVars, wiimoteVars>>

\* Mutant: the flag of the input thread is left set.
StopStreaming_KeepsFlag ==
  /\ main = "loop"
  /\ ~ (running /\ state = "STREAMING")
  /\ main' = "joinInput"
  /\ UNCHANGED <<state, running, wantMainMenu, homeVars, inputVars, connectionVars, wiimoteVars>>

\* The drawing loop ends, and stop_input_thread clears the flag ...
StopStreaming ==
  /\ main = "loop"
  /\ ~ (running /\ state = "STREAMING")
  /\ inputRunning' = FALSE
  /\ main' = "joinInput"
  /\ UNCHANGED <<state, running, wantMainMenu, homeVars, input, connectionVars, wiimoteVars>>

\* Mutant: the input thread is not waited for.
JoinInput_NoWait == MainStep("joinInput", "stopConnection")

\* ... and joins the thread (at once when it was never created).
JoinInput == input = "none" /\ MainStep("joinInput", "stopConnection")

\* LiStopConnection disables the callbacks, then joins the connection's threads.
StopConnection ==
  /\ main = "stopConnection"
  /\ main' = "joinConnection"
  /\ alreadyTerminated' = TRUE /\ connectionInterrupted' = TRUE
  /\ UNCHANGED <<state, running, wantMainMenu, homeVars, inputVars, terminating, asyncTerm, wiimoteVars>>

ConnectionStopped ==
  /\ terminating = 0
  /\ MainStep("joinConnection", "quitApp") \/ MainStep("joinConnection", "finish")

\* gs_quit_app, if the configuration asks for it.
QuitApp == MainStep("quitApp", "finish")

Finish ==
  /\ main = "finish"
  /\ state' = "INVALID"
  /\ main' = "top"
  /\ UNCHANGED <<running, wantMainMenu, homeVars, inputVars, connectionVars, wiimoteVars>>

-----------------------------------------------------------------------------
(* The input thread: input_thread_proc and wii_input_update.               *)

InputCheck ==
  /\ input = "check"
  /\ input' = IF inputRunning THEN "update" ELSE "none"
  /\ UNCHANGED <<state, running, wantMainMenu, homeVars, main, inputRunning, connectionVars, wiimoteVars>>

\* The poll, and what it makes of the home button.
InputUpdate ==
  /\ input = "update" /\ wiimoteOk
  /\ \E action \in {"NONE", "BACK", "QUIT"} :
       /\ HomePoll(action)
       /\ running' = (running /\ action # "QUIT")
       /\ state' = IF action = "BACK" THEN "STOP_STREAM" ELSE state
       /\ input' = IF action = "NONE" THEN "send" ELSE "check"
  /\ UNCHANGED <<wantMainMenu, main, inputRunning, connectionVars, wiimoteVars>>

InputNoData ==
  /\ input = "update" /\ ~ wiimoteOk
  /\ input' = "check"
  /\ UNCHANGED <<state, running, wantMainMenu, homeVars, main, inputRunning, connectionVars, wiimoteVars>>

\* send_controller_event; the configuration's viewonly is not looked at.
InputSend ==
  /\ input = "send"
  /\ input' = "check"
  /\ UNCHANGED <<state, running, wantMainMenu, homeVars, main, inputRunning, connectionVars, wiimoteVars>>

-----------------------------------------------------------------------------
(* The connection is lost: any of its threads may call                     *)
(* ClInternalConnectionTerminated, from the time the control stream runs.  *)

InConnection ==
  main \in {"connecting", "undoConnect", "startInput", "setState", "loop", "joinInput",
            "stopConnection", "joinConnection"}

Terminate ==
  /\ InConnection
  /\ ~ alreadyTerminated /\ ~ connectionInterrupted
  /\ terminating + asyncTerm < MaxTerminations
  /\ terminating' = terminating + 1
  /\ UNCHANGED <<state, running, wantMainMenu, homeVars, main, inputVars, alreadyTerminated,
                 connectionInterrupted, asyncTerm, wiimoteVars>>

\* The AsyncTerm thread is created and detached, if it can be created.
CreateAsyncTerm ==
  /\ terminating > 0
  /\ terminating' = terminating - 1
  /\ alreadyTerminated' = TRUE
  /\ asyncTerm' \in {asyncTerm, asyncTerm + 1}
  /\ UNCHANGED <<state, running, wantMainMenu, homeVars, main, inputVars, connectionInterrupted,
                 wiimoteVars>>

\* connection_terminated.
ConnectionTerminated ==
  /\ asyncTerm > 0
  /\ asyncTerm' = asyncTerm - 1
  /\ state' = "STOP_STREAM"
  /\ UNCHANGED <<running, wantMainMenu, homeVars, main, inputVars, alreadyTerminated,
                 connectionInterrupted, terminating, wiimoteVars>>

-----------------------------------------------------------------------------
User == Press \/ Release \/ LinkChanges

Polls == MenuTurn \/ WaitForButton

\* Steps of the main thread that wait for nobody outside the program.
MainRuns ==
  \/ MainMenuTop \/ DefaultApp \/ AppChosen \/ StartInput \/ SetStreaming \/ StopStreaming
  \/ JoinInput \/ StopConnection \/ Finish
  \/ (MenuLeaves /\ (MainMenu \/ Submenu \/ ChooseApp))

\* LiStartConnection and LiStopConnection.
ConnectionCalls == Connected \/ ConnectFails \/ ConnectUndone \/ ConnectionStopped

MainHttp == Request \/ AppList \/ AppId \/ StartApp \/ QuitApp

Input == InputCheck \/ InputUpdate \/ InputNoData \/ InputSend

Terminations == Terminate \/ CreateAsyncTerm \/ ConnectionTerminated

\* The program has ended.
Exited == main = "exit" /\ UNCHANGED vars

Next ==
  \/ User \/ Tick
  \/ Polls \/ MainMenu \/ QuitChosen \/ Submenu \/ ChooseApp
  \/ MainRuns \/ ConnectionCalls \/ MainHttp
  \/ Input \/ Terminations \/ Exited

Spec == Init /\ [][Next]_vars

\* Every thread is scheduled, time passes, and LiStartConnection and
\* LiStopConnection return: their network waits have timeouts.  The HTTP calls
\* need not return (connecting and TLS reads have no timeout of their own), and
\* nothing is expected of the user, the Wiimote or the network.
FairSpec ==
  /\ Spec
  /\ WF_vars(Tick)
  /\ WF_vars(Polls)
  /\ WF_vars(MainRuns)
  /\ WF_vars(ConnectionCalls)
  /\ WF_vars(Input)
  /\ WF_vars(CreateAsyncTerm)
  /\ WF_vars(ConnectionTerminated)

-----------------------------------------------------------------------------
Mains == Menus \cup HttpCalls \cup
  {"top", "haveApp", "noApp", "noList", "defaultApp", "connecting", "undoConnect", "startInput",
   "setState", "loop", "joinInput", "stopConnection", "joinConnection", "finish", "exit"}

TypeOK ==
  /\ state \in {"INVALID", "STREAMING", "STOP_STREAM"}
  /\ running \in BOOLEAN /\ wantMainMenu \in BOOLEAN
  /\ homeHeld \in BOOLEAN /\ homeLongFired \in BOOLEAN
  /\ homeAge \in 0 .. HoldTicks + 1 /\ pressAge \in 0 .. HoldTicks + 1
  /\ main \in Mains
  /\ inputRunning \in BOOLEAN /\ input \in {"none", "check", "update", "send"}
  /\ alreadyTerminated \in BOOLEAN /\ connectionInterrupted \in BOOLEAN
  /\ terminating \in Nat /\ asyncTerm \in Nat /\ terminating + asyncTerm <= MaxTerminations
  /\ pressed \in BOOLEAN /\ wiimoteOk \in BOOLEAN /\ polled \in BOOLEAN /\ stale \in BOOLEAN

\* home_poll is called "from either the input thread (while streaming) or the
\* menu poller -- never both at once" (input.c:34-35): its statics need no lock.
HomePollOneThread == input # "none" => main \notin Menus

\* Controller events are sent only while the connection stands: after
\* LiStartConnection has returned and before LiStopConnection tears the input
\* stream down under the sender.
InputOnlyWhileConnected == input = "send" => main \in {"setState", "loop", "joinInput"}

\* A short press of home in a menu is honoured before anything is started: no
\* app is launched and no stream begins with the request pending.
HomeBacksOutFirst ==
  wantMainMenu => main \notin {"appId", "startApp", "quitApp"} /\ ~ InConnection

\* "Releasing before HOME_HOLD_MICROS is a short press (BACK); holding past it
\* fires QUIT once" (input.c:32-33): a short press never quits the program,
\* whichever threads polled it and however many polls the Wiimote missed.  Only a
\* press that begins while home_poll has not seen the one before released is
\* taken for its continuation.
QuitNeedsLongPress ==
  [][homeLongFired' /\ ~ homeLongFired => pressAge > HoldTicks \/ stale]_vars

\* A home press or a termination that reached the stream ends it: nothing
\* overwrites STOP_STREAM once the loop runs, and no join hangs.
StopEndsStream == (main = "loop" /\ state = "STOP_STREAM") ~> main \in {"quitApp", "top"}

\* Quitting leaves the program from wherever it was asked for -- unless an HTTP
\* call does not return.
QuitLeaves == ~ running ~> main \in HttpCalls \cup {"exit"}

\* Holding home always ends the program, whatever home_poll remembers of earlier
\* presses and of polls that saw no data, and whichever thread polls -- unless
\* nobody polls, because an HTTP call hangs or the input thread was not created.
HeldHomeQuits ==
  <>[](pressed /\ wiimoteOk) =>
    \/ <>(~ running)
    \/ <>[](main \in HttpCalls)
    \/ <>[](main = "loop" /\ input = "none")

-----------------------------------------------------------------------------
(* What the documentation says and the code does not do.                   *)

\* Limelight.h:392: the termination callback "is invoked when a connection is
\* terminated after establishment"; connection_terminated is there to end the
\* stream, so a stream that an AsyncTerm thread was created for ends.
TerminatedStreamEnds == (InConnection /\ asyncTerm > 0) ~> ~ InConnection
=============================================================================
