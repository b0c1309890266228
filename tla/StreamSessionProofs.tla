------------------------ MODULE StreamSessionProofs ------------------------
(***************************************************************************)
(* Proofs about StreamSession, for every length of a long press and any    *)
(* number of terminations under way: what the two threads that poll the    *)
(* Wiimote may do, and what a press of home means.                         *)
(***************************************************************************)
EXTENDS StreamSession, TLAPS

\* The input thread lives from start_input_thread to the join of
\* stop_input_thread, and nowhere else.
InputInv == input # "none" => main \in {"setState", "loop", "joinInput"}

\* home_poll never takes a press for older than it is, unless it began while the
\* press before was remembered.
PressInv == pressed /\ homeHeld /\ ~ stale => homeAge <= pressAge

Inv == TypeOK /\ InputInv /\ PressInv /\ HomeBacksOutFirst

Actions == {"NONE", "BACK", "QUIT"}

-----------------------------------------------------------------------------
\* What home_poll leaves in its statics, whichever thread called it.
LEMMA HomePollKeeps ==
  ASSUME TypeOK, PressInv, NEW action \in Actions, HomePoll(action),
         UNCHANGED wiimoteVars
  PROVE  /\ homeHeld' \in BOOLEAN /\ homeLongFired' \in BOOLEAN
         /\ homeAge' \in 0 .. HoldTicks + 1 /\ polled' \in BOOLEAN
         /\ PressInv'
<1> USE SessionAssumption DEF SessionAssumption, TypeOK, wiimoteVars
<1>1. homeHeld' \in BOOLEAN /\ homeLongFired' \in BOOLEAN /\ polled' \in BOOLEAN
  BY Zenon DEF HomePoll
<1>2. homeAge' \in 0 .. HoldTicks + 1
  BY DEF HomePoll
<1>3. PressInv'
  <2>1. pressed' = pressed /\ pressAge' = pressAge /\ stale' = stale
    OBVIOUS
  <2>2. CASE pressed /\ ~ homeHeld
    <3>1. homeAge' = 0
      BY <2>2, Zenon DEF HomePoll
    <3>2. pressAge' >= 0
      BY <2>1
    <3> QED
      BY <3>1, <3>2 DEF PressInv
  <2>3. CASE pressed /\ homeHeld
    BY <2>1, <2>3 DEF HomePoll, PressInv
  <2>4. CASE ~ pressed
    BY <2>1, <2>4 DEF PressInv
  <2> QED
    BY <2>2, <2>3, <2>4
<1> QED
  BY <1>1, <1>2, <1>3

\* The same for a poll of the menus, which may not reach home_poll.
LEMMA MenuPollKeeps ==
  ASSUME TypeOK, PressInv, MenuPoll, UNCHANGED wiimoteVars
  PROVE  /\ homeHeld' \in BOOLEAN /\ homeLongFired' \in BOOLEAN
         /\ homeAge' \in 0 .. HoldTicks + 1 /\ polled' \in BOOLEAN
         /\ running' \in BOOLEAN /\ wantMainMenu' \in BOOLEAN
         /\ PressInv'
<1>1. ASSUME wiimoteOk, NEW action \in Actions, HomePoll(action),
             running' = (running /\ action # "QUIT"),
             wantMainMenu' = (wantMainMenu \/ action = "BACK")
      PROVE  /\ homeHeld' \in BOOLEAN /\ homeLongFired' \in BOOLEAN
             /\ homeAge' \in 0 .. HoldTicks + 1 /\ polled' \in BOOLEAN
             /\ running' \in BOOLEAN /\ wantMainMenu' \in BOOLEAN
             /\ PressInv'
  BY <1>1, HomePollKeeps, Zenon
<1>2. CASE UNCHANGED <<running, wantMainMenu, homeVars>>
  BY <1>2 DEF TypeOK, PressInv, homeVars, wiimoteVars
<1> QED
  BY <1>1, <1>2, Zenon DEF MenuPoll, Actions

\* Where the main thread may be with a press of home in a menu pending: nothing is
\* started there.
Unstarted ==
  Menus \cup {"top", "request", "appList", "haveApp", "noApp", "noList", "defaultApp", "finish", "exit"}

\* Where it cannot meet the input thread.
Alone == Mains \ {"setState", "loop", "joinInput"}

\* A step of a menu moves the main thread between places of Unstarted only.
LEMMA MenuChoiceKeeps ==
  ASSUME Inv, NEW from \in Menus, NEW to \in Unstarted, MenuChoice(from, to)
  PROVE  Inv'
<1>1. /\ main = from /\ main' = to /\ MenuPoll
      /\ UNCHANGED <<state, inputVars, connectionVars>> /\ UNCHANGED wiimoteVars
  BY DEF MenuChoice
<1>2. /\ homeHeld' \in BOOLEAN /\ homeLongFired' \in BOOLEAN
      /\ homeAge' \in 0 .. HoldTicks + 1 /\ polled' \in BOOLEAN
      /\ running' \in BOOLEAN /\ wantMainMenu' \in BOOLEAN
      /\ PressInv'
  BY <1>1, MenuPollKeeps, Zenon DEF Inv
<1>3. main' \in Mains
  BY <1>1 DEF Unstarted, Mains, Menus, HttpCalls
<1>4. TypeOK'
  BY <1>1, <1>2, <1>3 DEF Inv, TypeOK, inputVars, connectionVars, wiimoteVars
<1>5. input = "none"
  BY <1>1 DEF Inv, InputInv, Menus
<1>6. InputInv'
  BY <1>1, <1>5 DEF InputInv, inputVars
<1>7. HomeBacksOutFirst'
  BY <1>1 DEF Unstarted, Menus, HomeBacksOutFirst, InConnection
<1> QED
  BY <1>2, <1>4, <1>6, <1>7 DEF Inv

\* A step of the main thread that changes nothing but its place.
LEMMA MainStepKeeps ==
  ASSUME Inv, NEW from \in Mains, NEW to \in Mains, MainStep(from, to),
         input # "none" => to \notin Alone,
         wantMainMenu => to \in Unstarted
  PROVE  Inv'
<1>1. /\ main = from /\ main' = to
      /\ UNCHANGED <<state, running, wantMainMenu, homeVars, inputVars, connectionVars, wiimoteVars>>
  BY DEF MainStep
<1>2. TypeOK' /\ PressInv'
  BY <1>1 DEF Inv, TypeOK, PressInv, homeVars, inputVars, connectionVars, wiimoteVars
<1>3. InputInv' /\ HomeBacksOutFirst'
  BY <1>1 DEF Inv, InputInv, inputVars, Alone, Unstarted, Menus, HomeBacksOutFirst, InConnection
<1> QED
  BY <1>2, <1>3 DEF Inv

\* A step that leaves both threads where they are.
LEMMA InPlaceKeeps ==
  ASSUME Inv, UNCHANGED <<main, wantMainMenu, input>>, TypeOK', PressInv'
  PROVE  Inv'
BY DEF Inv, InputInv, HomeBacksOutFirst, InConnection

-----------------------------------------------------------------------------
\* The button and the clock.
LEMMA ButtonKeeps ==
  ASSUME Inv, Press \/ Release \/ Tick \/ LinkChanges
  PROVE  Inv'
<1> USE SessionAssumption DEF SessionAssumption
<1>1. UNCHANGED <<main, wantMainMenu, input>>
  BY DEF Press, Release, Tick, LinkChanges, ButtonOrClock, inputVars
<1>2. TypeOK' /\ PressInv'
  <2>1. CASE Press
    <3>1. /\ pressed' = TRUE /\ pressAge' = 0 /\ stale' = homeHeld /\ homeAge' = homeAge /\ polled' = FALSE
          /\ UNCHANGED <<state, running, wantMainMenu, homeHeld, homeLongFired, main, inputVars,
                         connectionVars, wiimoteOk>>
      BY <2>1 DEF Press, ButtonOrClock
    <3>2. stale' \in BOOLEAN /\ pressed' \in BOOLEAN /\ polled' \in BOOLEAN
      BY <3>1, Zenon DEF Inv, TypeOK
    <3>3. TypeOK'
      <4>1. /\ pressAge' = 0 /\ homeAge' = homeAge
            /\ UNCHANGED <<state, running, wantMainMenu, homeHeld, homeLongFired, main, inputVars,
                           connectionVars, wiimoteOk>>
        BY <3>1
      <4> QED
        BY <3>2, <4>1 DEF Inv, TypeOK, inputVars, connectionVars
    <3>4. PressInv'
      BY <3>1, Zenon DEF PressInv
    <3> QED
      BY <3>3, <3>4
  <2>2. CASE Release
    BY <2>2 DEF Release, ButtonOrClock, Inv, TypeOK, PressInv, inputVars, connectionVars
  <2>3. CASE Tick
    <3>1. /\ homeAge' = Older(homeAge) /\ pressAge' = Older(pressAge) /\ polled' = FALSE
          /\ UNCHANGED <<pressed, stale>>
          /\ UNCHANGED <<state, running, wantMainMenu, homeHeld, homeLongFired, main, inputVars,
                         connectionVars, wiimoteOk>>
      BY <2>3 DEF Tick, ButtonOrClock
    <3>2. homeAge' \in 0 .. HoldTicks + 1 /\ pressAge' \in 0 .. HoldTicks + 1
      BY <3>1 DEF Inv, TypeOK, Older
    <3>3. homeAge <= pressAge => homeAge' <= pressAge'
      BY <3>1 DEF Inv, TypeOK, Older
    <3>4. TypeOK'
      <4>1. /\ polled' \in BOOLEAN /\ UNCHANGED <<pressed, stale>>
            /\ UNCHANGED <<state, running, wantMainMenu, homeHeld, homeLongFired, main, inputVars,
                           connectionVars, wiimoteOk>>
        BY <3>1
      <4> QED
        BY <3>2, <4>1 DEF Inv, TypeOK, inputVars, connectionVars
    <3>5. PressInv'
      BY <3>1, <3>3 DEF Inv, PressInv
    <3> QED
      BY <3>4, <3>5
  <2>4. CASE LinkChanges
    <3>1. wiimoteOk' = ~ wiimoteOk
          /\ UNCHANGED <<state, running, wantMainMenu, homeVars, main, inputVars, connectionVars,
                         pressed, pressAge, stale>>
      BY <2>4 DEF LinkChanges
    <3>2. wiimoteOk' \in BOOLEAN
      BY <3>1, Zenon
    <3> QED
      BY <3>1, <3>2 DEF Inv, TypeOK, PressInv, homeVars, inputVars, connectionVars
  <2> QED
    BY <2>1, <2>2, <2>3, <2>4
<1> QED
  BY <1>1, <1>2, InPlaceKeeps

\* The menus, from the head of the main menu's loop to the request that is chosen.
LEMMA MenusKeep ==
  ASSUME Inv, Polls \/ MainMenuTop \/ MainMenu \/ QuitChosen \/ Submenu \/ ChooseApp
  PROVE  Inv'
<1> USE DEF Menus, Mains, HttpCalls, Unstarted, Alone
<1>1. CASE MenuTurn
  <2>1. /\ main \in Menus /\ MenuPoll /\ main' = main
        /\ UNCHANGED <<state, inputVars, connectionVars>> /\ UNCHANGED wiimoteVars
    BY <1>1 DEF MenuTurn
  <2>2. /\ homeHeld' \in BOOLEAN /\ homeLongFired' \in BOOLEAN
        /\ homeAge' \in 0 .. HoldTicks + 1 /\ polled' \in BOOLEAN
        /\ running' \in BOOLEAN /\ wantMainMenu' \in BOOLEAN
        /\ PressInv'
    BY <2>1, MenuPollKeeps, Zenon DEF Inv
  <2>3. TypeOK'
    BY <2>1, <2>2 DEF Inv, TypeOK, inputVars, connectionVars, wiimoteVars
  <2>4. InputInv' /\ HomeBacksOutFirst'
    BY <2>1 DEF Inv, InputInv, inputVars, HomeBacksOutFirst, InConnection
  <2> QED
    BY <2>2, <2>3, <2>4 DEF Inv
<1>2. CASE WaitForButton
  <2>1. CASE MainStep("notice", "top")
    <3>1. input = "none"
      BY <2>1 DEF Inv, InputInv, MainStep
    <3> QED
      BY <2>1, <3>1, MainStepKeeps
  <2>2. CASE ~ MainStep("notice", "top")
    <3>1. /\ main = "notice" /\ MenuPoll /\ main' \in {"notice", "top"}
          /\ UNCHANGED <<state, inputVars, connectionVars>> /\ UNCHANGED wiimoteVars
      BY <1>2, <2>2, Zenon DEF WaitForButton
    <3>2. /\ homeHeld' \in BOOLEAN /\ homeLongFired' \in BOOLEAN
          /\ homeAge' \in 0 .. HoldTicks + 1 /\ polled' \in BOOLEAN
          /\ running' \in BOOLEAN /\ wantMainMenu' \in BOOLEAN
          /\ PressInv'
      BY <3>1, MenuPollKeeps, Zenon DEF Inv
    <3>3. TypeOK'
      BY <3>1, <3>2 DEF Inv, TypeOK, inputVars, connectionVars, wiimoteVars
    <3>4. InputInv' /\ HomeBacksOutFirst'
      BY <3>1 DEF Inv, InputInv, inputVars, HomeBacksOutFirst, InConnection
    <3> QED
      BY <3>2, <3>3, <3>4 DEF Inv
  <2> QED
    BY <2>1, <2>2
<1>3. CASE MainMenuTop
  <2>1. /\ main = "top" /\ main' \in {"menu", "exit"}
        /\ UNCHANGED <<state, running, homeVars, inputVars, connectionVars, wiimoteVars>>
    BY <1>3 DEF MainMenuTop
  <2>2. wantMainMenu' \in BOOLEAN
    BY <1>3, Zenon DEF MainMenuTop, Inv, TypeOK
  <2>3. TypeOK' /\ PressInv'
    BY <2>1, <2>2 DEF Inv, TypeOK, PressInv, homeVars, inputVars, connectionVars, wiimoteVars
  <2>4. InputInv' /\ HomeBacksOutFirst'
    BY <2>1 DEF Inv, InputInv, inputVars, HomeBacksOutFirst, InConnection
  <2> QED
    BY <2>3, <2>4 DEF Inv
<1>4. ASSUME NEW from \in Menus, NEW to \in Unstarted, MainStep(from, to) PROVE Inv'
  <2>1. input = "none"
    BY <1>4 DEF Inv, InputInv, MainStep
  <2> QED
    BY <1>4, <2>1, MainStepKeeps
<1>5. CASE MainMenu
  BY <1>4, <1>5, MenuChoiceKeeps DEF MainMenu
<1>6. CASE QuitChosen
  <2>1. PICK action \in Actions :
          HomePoll(action) /\ wantMainMenu' = (wantMainMenu \/ action = "BACK")
    BY <1>6 DEF QuitChosen, Actions
  <2>2. /\ main = "menu" /\ main' = "top" /\ running' = FALSE
        /\ UNCHANGED <<state, inputVars, connectionVars>> /\ UNCHANGED wiimoteVars
    BY <1>6 DEF QuitChosen
  <2>3. /\ homeHeld' \in BOOLEAN /\ homeLongFired' \in BOOLEAN
        /\ homeAge' \in 0 .. HoldTicks + 1 /\ polled' \in BOOLEAN
        /\ PressInv'
    BY <2>1, <2>2, HomePollKeeps, Zenon DEF Inv
  <2>4. wantMainMenu' \in BOOLEAN
    BY <2>1, Zenon
  <2>5. TypeOK'
    BY <2>2, <2>3, <2>4 DEF Inv, TypeOK, inputVars, connectionVars, wiimoteVars
  <2>6. InputInv' /\ HomeBacksOutFirst'
    BY <2>2 DEF Inv, InputInv, inputVars, HomeBacksOutFirst, InConnection
  <2> QED
    BY <2>3, <2>5, <2>6 DEF Inv
<1>7. CASE Submenu
  BY <1>4, <1>7, MenuChoiceKeeps DEF Submenu
<1>8. CASE ChooseApp
  BY <1>4, <1>8, MenuChoiceKeeps DEF ChooseApp
<1> QED
  BY <1>1, <1>2, <1>3, <1>5, <1>6, <1>7, <1>8 DEF Polls

\* do_stream, from the list of apps until the connection is asked for.
LEMMA PreparationKeeps ==
  ASSUME Inv, Request \/ AppList \/ DefaultApp \/ AppChosen \/ AppId \/ StartApp
  PROVE  Inv'
<1> USE DEF Menus, Mains, HttpCalls, Unstarted, Alone
<1>1. ASSUME NEW from \in Alone, NEW to \in Alone, MainStep(from, to),
             wantMainMenu => to \in Unstarted
      PROVE  Inv'
  <2>1. input = "none"
    BY <1>1 DEF Inv, InputInv, MainStep
  <2> QED
    BY <1>1, <2>1, MainStepKeeps
<1>2. CASE Request
  BY <1>1, <1>2 DEF Request
<1>3. CASE AppList
  BY <1>1, <1>3 DEF AppList
<1>4. CASE DefaultApp
  BY <1>1, <1>4 DEF DefaultApp
<1>5. CASE AppChosen
  BY <1>1, <1>5 DEF AppChosen, HomeBacksOut
<1>6. CASE AppId
  <2>1. ~ wantMainMenu
    BY <1>6 DEF AppId, MainStep, Inv, HomeBacksOutFirst
  <2> QED
    BY <1>1, <1>6, <2>1 DEF AppId
<1>7. CASE StartApp
  <2>1. ~ wantMainMenu
    BY <1>7 DEF StartApp, MainStep, Inv, HomeBacksOutFirst
  <2>2. CASE MainStep("startApp", "notice")
    BY <1>1, <2>1, <2>2
  <2>3. CASE ~ MainStep("startApp", "notice")
    <3>1. /\ main = "startApp" /\ main' = "connecting"
          /\ alreadyTerminated' \in BOOLEAN /\ connectionInterrupted' \in BOOLEAN
          /\ UNCHANGED <<state, running, wantMainMenu, homeVars, inputVars, terminating, asyncTerm,
                         wiimoteVars>>
      BY <1>7, <2>3 DEF StartApp
    <3>2. TypeOK' /\ PressInv'
      BY <3>1 DEF Inv, TypeOK, PressInv, homeVars, inputVars, wiimoteVars
    <3>3. InputInv' /\ HomeBacksOutFirst'
      BY <2>1, <3>1 DEF Inv, InputInv, inputVars, HomeBacksOutFirst
    <3> QED
      BY <3>2, <3>3 DEF Inv
  <2> QED
    BY <2>2, <2>3
<1> QED
  BY <1>2, <1>3, <1>4, <1>5, <1>6, <1>7

\* The stream itself: from the connection to the return to the menu.
LEMMA StreamKeeps ==
  ASSUME Inv,
         \/ Connected \/ ConnectFails \/ ConnectUndone \/ StartInput \/ SetStreaming
         \/ StopStreaming \/ JoinInput \/ StopConnection \/ ConnectionStopped \/ QuitApp \/ Finish
  PROVE  Inv'
<1> USE DEF Menus, Mains, HttpCalls, Unstarted, Alone
<1>1. ASSUME NEW from \in Mains, NEW to \in Mains, MainStep(from, to),
             from \notin Unstarted \/ to \in Unstarted,
             from \in Alone \/ input = "none"
      PROVE  Inv'
  <2>1. input = "none"
    BY <1>1 DEF Inv, InputInv, MainStep
  <2>2. wantMainMenu => to \in Unstarted
    BY <1>1 DEF Inv, HomeBacksOutFirst, InConnection, MainStep
  <2> QED
    BY <1>1, <2>1, <2>2, MainStepKeeps
<1>2. CASE Connected
  BY <1>1, <1>2 DEF Connected
<1>3. ASSUME NEW from \in {"connecting", "stopConnection"},
             NEW to \in {"undoConnect", "joinConnection"},
             main = from, main' = to, alreadyTerminated' = TRUE, connectionInterrupted' = TRUE,
             UNCHANGED <<state, running, wantMainMenu, homeVars, inputVars, terminating, asyncTerm,
                         wiimoteVars>>
      PROVE  Inv'
  <2>1. TypeOK' /\ PressInv'
    BY <1>3 DEF Inv, TypeOK, PressInv, homeVars, inputVars, wiimoteVars
  <2>2. InputInv' /\ HomeBacksOutFirst'
    BY <1>3 DEF Inv, InputInv, inputVars, HomeBacksOutFirst, InConnection
  <2> QED
    BY <2>1, <2>2 DEF Inv
<1>4. CASE ConnectFails
  BY <1>3, <1>4 DEF ConnectFails
<1>5. CASE ConnectUndone
  BY <1>1, <1>5 DEF ConnectUndone
<1>6. CASE StartInput
  <2>1. /\ main = "startInput" /\ main' = "setState"
        /\ UNCHANGED <<state, running, wantMainMenu, homeVars, connectionVars, wiimoteVars>>
    BY <1>6 DEF StartInput
  <2>2. inputRunning' \in BOOLEAN /\ input' \in {"none", "check", "update", "send"}
    BY <1>6 DEF StartInput, Inv, TypeOK
  <2>3. TypeOK' /\ PressInv'
    BY <2>1, <2>2 DEF Inv, TypeOK, PressInv, homeVars, connectionVars, wiimoteVars
  <2>4. InputInv' /\ HomeBacksOutFirst'
    BY <2>1 DEF Inv, InputInv, HomeBacksOutFirst, InConnection
  <2> QED
    BY <2>3, <2>4 DEF Inv
<1>7. CASE SetStreaming
  <2>1. /\ main = "setState" /\ main' = "loop" /\ state' = "STREAMING"
        /\ UNCHANGED <<running, wantMainMenu, homeVars, inputVars, connectionVars, wiimoteVars>>
    BY <1>7 DEF SetStreaming
  <2>2. TypeOK' /\ PressInv'
    BY <2>1 DEF Inv, TypeOK, PressInv, homeVars, inputVars, connectionVars, wiimoteVars
  <2>3. InputInv' /\ HomeBacksOutFirst'
    BY <2>1 DEF Inv, InputInv, HomeBacksOutFirst, InConnection
  <2> QED
    BY <2>2, <2>3 DEF Inv
<1>8. CASE StopStreaming
  <2>1. /\ main = "loop" /\ main' = "joinInput" /\ inputRunning' \in BOOLEAN
        /\ UNCHANGED <<state, running, wantMainMenu, homeVars, input, connectionVars, wiimoteVars>>
    BY <1>8 DEF StopStreaming
  <2>2. TypeOK' /\ PressInv'
    BY <2>1 DEF Inv, TypeOK, PressInv, homeVars, connectionVars, wiimoteVars
  <2>3. InputInv' /\ HomeBacksOutFirst'
    BY <2>1 DEF Inv, InputInv, HomeBacksOutFirst, InConnection
  <2> QED
    BY <2>2, <2>3 DEF Inv
<1>9. CASE JoinInput
  BY <1>1, <1>9 DEF JoinInput
<1>10. CASE StopConnection
  BY <1>3, <1>10 DEF StopConnection
<1>11. CASE ConnectionStopped
  BY <1>1, <1>11 DEF ConnectionStopped
<1>12. CASE QuitApp
  BY <1>1, <1>12 DEF QuitApp
<1>13. CASE Finish
  <2>1. /\ main = "finish" /\ main' = "top" /\ state' = "INVALID"
        /\ UNCHANGED <<running, wantMainMenu, homeVars, inputVars, connectionVars, wiimoteVars>>
    BY <1>13 DEF Finish
  <2>2. TypeOK' /\ PressInv'
    BY <2>1 DEF Inv, TypeOK, PressInv, homeVars, inputVars, connectionVars, wiimoteVars
  <2>3. InputInv' /\ HomeBacksOutFirst'
    BY <2>1 DEF Inv, InputInv, inputVars, HomeBacksOutFirst, InConnection
  <2> QED
    BY <2>2, <2>3 DEF Inv
<1> QED
  BY <1>2, <1>4, <1>5, <1>6, <1>7, <1>8, <1>9, <1>10, <1>11, <1>12, <1>13

\* The input thread.
LEMMA InputKeeps ==
  ASSUME Inv, Input
  PROVE  Inv'
<1>1. ASSUME input # "none", input' \in {"none", "check", "update", "send"},
             state' \in {"INVALID", "STREAMING", "STOP_STREAM"}, running' \in BOOLEAN,
             homeHeld' \in BOOLEAN, homeLongFired' \in BOOLEAN,
             homeAge' \in 0 .. HoldTicks + 1, polled' \in BOOLEAN, PressInv',
             UNCHANGED <<wantMainMenu, main, inputRunning, connectionVars, wiimoteVars>>
      PROVE  Inv'
  <2>1. TypeOK'
    BY <1>1 DEF Inv, TypeOK, connectionVars, wiimoteVars
  <2>2. InputInv' /\ HomeBacksOutFirst'
    BY <1>1 DEF Inv, InputInv, HomeBacksOutFirst, InConnection
  <2> QED
    BY <1>1, <2>1, <2>2 DEF Inv
<1>2. ASSUME input # "none", input' \in {"none", "check", "update", "send"},
             UNCHANGED <<state, running, wantMainMenu, homeVars, main, inputRunning, connectionVars,
                         wiimoteVars>>
      PROVE  Inv'
  BY <1>1, <1>2 DEF Inv, TypeOK, PressInv, homeVars, wiimoteVars
<1>3. CASE InputCheck
  BY <1>2, <1>3 DEF InputCheck
<1>4. CASE InputUpdate
  <2>1. PICK action \in Actions :
          /\ HomePoll(action)
          /\ running' = (running /\ action # "QUIT")
          /\ state' = IF action = "BACK" THEN "STOP_STREAM" ELSE state
          /\ input' = IF action = "NONE" THEN "send" ELSE "check"
    BY <1>4 DEF InputUpdate, Actions
  <2>2. input = "update" /\ UNCHANGED <<wantMainMenu, main, inputRunning, connectionVars>>
        /\ UNCHANGED wiimoteVars
    BY <1>4 DEF InputUpdate
  <2>3. /\ homeHeld' \in BOOLEAN /\ homeLongFired' \in BOOLEAN
        /\ homeAge' \in 0 .. HoldTicks + 1 /\ polled' \in BOOLEAN
        /\ PressInv'
    BY <2>1, <2>2, HomePollKeeps, Zenon DEF Inv
  <2>4. running' \in BOOLEAN
    BY <2>1, Zenon
  <2>5. state' \in {"INVALID", "STREAMING", "STOP_STREAM"} /\ input' \in {"none", "check", "update", "send"}
    BY <2>1 DEF Inv, TypeOK
  <2> QED
    BY <1>1, <2>2, <2>3, <2>4, <2>5
<1>5. CASE InputNoData
  BY <1>2, <1>5 DEF InputNoData
<1>6. CASE InputSend
  BY <1>2, <1>6 DEF InputSend
<1> QED
  BY <1>3, <1>4, <1>5, <1>6 DEF Input

\* The threads of the connection.
LEMMA TerminationsKeep ==
  ASSUME Inv, Terminations
  PROVE  Inv'
<1> USE SessionAssumption DEF SessionAssumption
<1>1. ASSUME state' \in {"INVALID", "STREAMING", "STOP_STREAM"}, alreadyTerminated' \in BOOLEAN,
             terminating' \in Nat, asyncTerm' \in Nat, terminating' + asyncTerm' <= MaxTerminations,
             UNCHANGED <<running, wantMainMenu, homeVars, main, inputVars, connectionInterrupted,
                         wiimoteVars>>
      PROVE  Inv'
  <2>1. TypeOK'
    BY <1>1 DEF Inv, TypeOK, homeVars, inputVars, wiimoteVars
  <2>2. PressInv'
    BY <1>1 DEF Inv, PressInv, homeVars, wiimoteVars
  <2>3. UNCHANGED <<main, wantMainMenu, input>>
    BY <1>1 DEF inputVars
  <2> QED
    BY <2>1, <2>2, <2>3, InPlaceKeeps
<1>2. CASE Terminate
  BY <1>1, <1>2 DEF Terminate, Inv, TypeOK
<1>3. CASE CreateAsyncTerm
  <2>1. /\ state' \in {"INVALID", "STREAMING", "STOP_STREAM"}
        /\ terminating' \in Nat /\ asyncTerm' \in Nat /\ terminating' + asyncTerm' <= MaxTerminations
    <3>1. /\ terminating > 0 /\ terminating' = terminating - 1
          /\ asyncTerm' = asyncTerm \/ asyncTerm' = asyncTerm + 1
          /\ UNCHANGED state
      BY <1>3 DEF CreateAsyncTerm
    <3> QED
      BY <3>1 DEF Inv, TypeOK
  <2>2. alreadyTerminated' \in BOOLEAN
    BY <1>3, Zenon DEF CreateAsyncTerm
  <2>3. UNCHANGED <<running, wantMainMenu, homeVars, main, inputVars, connectionInterrupted,
                    wiimoteVars>>
    BY <1>3 DEF CreateAsyncTerm
  <2> QED
    BY <1>1, <2>1, <2>2, <2>3
<1>4. CASE ConnectionTerminated
  BY <1>1, <1>4 DEF ConnectionTerminated, Inv, TypeOK
<1> QED
  BY <1>2, <1>3, <1>4 DEF Terminations

-----------------------------------------------------------------------------
\* Inv holds when the program starts ...
LEMMA InitInv == Init => Inv
<1> SUFFICES ASSUME Init PROVE Inv
  OBVIOUS
<1>1. /\ running \in BOOLEAN /\ wantMainMenu \in BOOLEAN
      /\ homeHeld \in BOOLEAN /\ homeLongFired \in BOOLEAN
      /\ inputRunning \in BOOLEAN
      /\ alreadyTerminated \in BOOLEAN /\ connectionInterrupted \in BOOLEAN
      /\ pressed \in BOOLEAN /\ wiimoteOk \in BOOLEAN /\ polled \in BOOLEAN /\ stale \in BOOLEAN
  BY Zenon DEF Init
<1>2. /\ state \in {"INVALID", "STREAMING", "STOP_STREAM"}
      /\ homeAge \in 0 .. HoldTicks + 1 /\ pressAge \in 0 .. HoldTicks + 1
      /\ input \in {"none", "check", "update", "send"} /\ main \in Mains
      /\ terminating \in Nat /\ asyncTerm \in Nat /\ terminating + asyncTerm <= MaxTerminations
  BY SessionAssumption DEF SessionAssumption, Init, Mains
<1>3. TypeOK
  BY <1>1, <1>2, Zenon DEF TypeOK
<1>4. InputInv /\ PressInv /\ HomeBacksOutFirst
  BY Zenon DEF Init, InputInv, PressInv, HomeBacksOutFirst
<1> QED
  BY <1>3, <1>4 DEF Inv

\* ... and no step of any thread, nor of the user or the network, breaks it.
LEMMA NextInv == Inv /\ [Next]_vars => Inv'
<1> SUFFICES ASSUME Inv, [Next]_vars PROVE Inv'
  OBVIOUS
<1>1. CASE UNCHANGED vars
  <2>1. TypeOK' /\ PressInv'
    BY <1>1 DEF vars, homeVars, inputVars, connectionVars, wiimoteVars, Inv, TypeOK, PressInv
  <2>2. UNCHANGED <<main, wantMainMenu, input>>
    BY <1>1 DEF vars, inputVars
  <2> QED
    BY <2>1, <2>2, InPlaceKeeps
<1>2. CASE Next
  BY <1>1, <1>2, ButtonKeeps, MenusKeep, PreparationKeeps, StreamKeeps, InputKeeps, TerminationsKeep, Zenon
     DEF Next, User, MainRuns, ConnectionCalls, MainHttp, Exited
<1> QED
  BY <1>1, <1>2

\* The inductive invariant: types, the input thread's life, and what home_poll may
\* take a press for.
THEOREM Invariance == Spec => []Inv
BY InitInv, NextInv, PTL DEF Spec

\* home_poll has one caller at a time, although nothing locks its statics: the
\* input thread is gone whenever the main thread is in a menu.
THEOREM OnePoller == Spec => []HomePollOneThread
<1>1. Inv => HomePollOneThread
  BY DEF Inv, InputInv, HomePollOneThread, Menus
<1> QED
  BY Invariance, <1>1, PTL

\* Controller events go out only between LiStartConnection and LiStopConnection.
THEOREM InputWhileConnected == Spec => []InputOnlyWhileConnected
<1>1. Inv => InputOnlyWhileConnected
  BY DEF Inv, InputInv, InputOnlyWhileConnected
<1> QED
  BY Invariance, <1>1, PTL

\* No app is launched and no stream begins with a press of home pending.
THEOREM BacksOutFirst == Spec => []HomeBacksOutFirst
<1>1. Inv => HomeBacksOutFirst
  BY DEF Inv
<1> QED
  BY Invariance, <1>1, PTL

\* home_poll fires QUIT for a long press only.
LEMMA QuitFires ==
  ASSUME Inv, NEW action \in Actions, HomePoll(action), homeLongFired', ~ homeLongFired
  PROVE  pressAge > HoldTicks \/ stale
<1>1. pressed /\ homeHeld /\ homeAge > HoldTicks
  BY Zenon DEF HomePoll
<1> QED
  BY <1>1, SessionAssumption DEF SessionAssumption, Inv, PressInv, TypeOK

\* A short press never quits the program, whichever threads polled it and however
\* many polls saw no data.
THEOREM QuitsOnLongPress == Spec => QuitNeedsLongPress
<1>1. Inv /\ [Next]_vars => [homeLongFired' /\ ~ homeLongFired => pressAge > HoldTicks \/ stale]_vars
  <2> SUFFICES ASSUME Inv, Next, homeLongFired', ~ homeLongFired
               PROVE  pressAge > HoldTicks \/ stale
    BY Zenon
  <2>1. CASE homeLongFired' = homeLongFired
    BY <2>1
  <2>2. CASE \E action \in Actions : HomePoll(action)
    BY <2>2, QuitFires
  <2>3. MenuPoll => (homeLongFired' = homeLongFired \/ \E action \in Actions : HomePoll(action))
    BY Zenon DEF MenuPoll, Actions, homeVars
  <2>4. Next => (homeLongFired' = homeLongFired \/ \E action \in Actions : HomePoll(action))
    BY <2>3
       DEF Next, User, Press, Release, Tick, LinkChanges, ButtonOrClock, Polls, MenuTurn, WaitForButton,
         MainMenu, QuitChosen, Submenu, ChooseApp, MenuChoice, MainStep, MainRuns, MainMenuTop,
         DefaultApp, AppChosen, StartInput, SetStreaming, StopStreaming, JoinInput, StopConnection,
         Finish, ConnectionCalls, Connected, ConnectFails, ConnectUndone, ConnectionStopped, MainHttp,
         Request, AppList, AppId, StartApp, QuitApp, Input, InputCheck, InputUpdate, InputNoData,
         InputSend, Terminations, Terminate, CreateAsyncTerm, ConnectionTerminated, Exited, vars,
         homeVars, Actions
  <2> QED
    BY <2>1, <2>2, <2>4
<1> QED
  BY Invariance, <1>1, PTL DEF Spec, QuitNeedsLongPress
=============================================================================
