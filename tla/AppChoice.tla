----------------------------- MODULE AppChoice -----------------------------
(***************************************************************************)
(* Which app a stream starts: the first half of do_stream in src/main.c,   *)
(* from the app list of the host (gs_applist, xml_applist) over the menu   *)
(* (menu_select) to the id that gs_start_app gets.                         *)
(*                                                                         *)
(* The list is asked for once, and once more when there was none.          *)
(***************************************************************************)
EXTENDS Integers, SequencesExt

CONSTANTS
  Ids,        \* ids of the host's apps
  Titles,     \* their titles
  ConfigApp,  \* config->app
  MaxApps,    \* bound: apps in an answer
  MenuSize    \* how many of them the menu takes, 128

ASSUME AppChoiceAssumption ==
  /\ Ids \subseteq Nat
  /\ ConfigApp \in Titles
  /\ MaxApps \in Nat
  /\ MenuSize \in Nat \ {0}

VARIABLES
  choicePc, \* "ask", "menu", "walk", "decide", "askAgain", "start", "notFound", "back"
  list,     \* the linked list of the first answer
  sel,      \* the highlighted entry of the menu
  found,    \* the id of the app that was found
  marked    \* auxiliary: the app under the highlight when A was pressed, or None

choiceVars == <<choicePc, list, sel, found, marked>>

App == [id : Ids, name : Titles]
Answers == SeqOf(App, MaxApps)
None == -1

ChoiceInit == choicePc = "ask" /\ list = <<>> /\ sel = 0 /\ found = None /\ marked = None

\* Mutant: the name is compared with that of the entry before.
FindAppId_Previous(apps, name) ==
  LET i == SelectInSeq(apps, LAMBDA app : app.name = name)
  IN  IF i <= 1 THEN None ELSE apps[i - 1].id

\* The first entry of that name.
FindAppId(apps, name) ==
  LET i == SelectInSeq(apps, LAMBDA app : app.name = name)
  IN  IF i = 0 THEN None ELSE apps[i].id

\* xml_applist puts every app before the ones it has.
ListOf(answer) == Reverse(answer)

Count == IF Len(list) < MenuSize THEN Len(list) ELSE MenuSize

\* gs_applist: no list is asked for again.
AskList ==
  /\ choicePc = "ask"
  /\ \/ \E answer \in Answers : list' = ListOf(answer)
     \/ list' = <<>>  \* the request failed
  /\ choicePc' = IF list' = <<>> THEN "askAgain" ELSE "menu"
  /\ UNCHANGED <<sel, found, marked>>

\* menu_select: up and down, stopping at the ends.
Move ==
  /\ choicePc = "menu"
  /\ sel' \in {sel - 1, sel + 1} \cap 0 .. Count - 1
  /\ UNCHANGED <<choicePc, list, found, marked>>

PressA ==
  /\ choicePc = "menu"
  /\ choicePc' = "walk"
  /\ marked' = list[sel + 1].id
  /\ UNCHANGED <<list, sel, found>>

\* How far the loop over the list gets from its head: i, which it compares with
\* sel, stays 0.
Walked == IF sel > 0 THEN Len(list) ELSE 0

WalkToChoice ==
  /\ choicePc = "walk"
  /\ found' = IF Walked < Len(list) THEN list[Walked + 1].id ELSE None
  /\ choicePc' = "decide"
  /\ UNCHANGED <<list, sel, marked>>

\* Button B, or the end of the program.
LeaveMenu ==
  /\ choicePc = "menu"
  /\ found' = FindAppId(list, ConfigApp)
  /\ choicePc' = "decide"
  /\ UNCHANGED <<list, sel, marked>>

\* A short press of home in the menu, in the poll that returned the choice, or
\* (without a menu here) in the poll of the main menu that chose to stream.
HomeInMenu ==
  /\ choicePc \in {"menu", "walk", "askAgain"}
  /\ choicePc' = "back"
  /\ UNCHANGED <<list, sel, found, marked>>

\* get_app_id.
AskAgain ==
  /\ choicePc = "askAgain"
  /\ \/ \E answer \in Answers : /\ list' = ListOf(answer)
                                /\ found' = FindAppId(list', ConfigApp)
     \/ UNCHANGED <<list, found>>
  /\ choicePc' = "decide"
  /\ UNCHANGED <<sel, marked>>

Decide ==
  /\ choicePc = "decide"
  /\ choicePc' = IF found < 0 THEN "notFound" ELSE "start"
  /\ UNCHANGED <<list, sel, found, marked>>

ChoiceNext == AskList \/ Move \/ PressA \/ WalkToChoice \/ LeaveMenu \/ HomeInMenu \/ AskAgain \/ Decide

ChoiceSpec == ChoiceInit /\ [][ChoiceNext]_choiceVars

-----------------------------------------------------------------------------
ChoiceTypeOK ==
  /\ choicePc \in {"ask", "menu", "walk", "decide", "askAgain", "start", "notFound", "back"}
  /\ list \in Answers
  /\ sel \in Nat /\ (choicePc = "menu" => sel < Count)
  /\ found \in Ids \cup {None} /\ marked \in Ids \cup {None}

Titled(name) == { list[i].id : i \in { j \in DOMAIN list : list[j].name = name } }

\* Without a choice from the menu, the app of the configuration is started if the
\* host has it, and nothing else is, whichever of the two lists it came from.
ConfiguredAppOtherwise ==
  (marked = None /\ choicePc \in {"start", "notFound"}) =>
    IF Titled(ConfigApp) = {} THEN choicePc = "notFound" ELSE choicePc = "start" /\ found \in Titled(ConfigApp)

\* menu.c:55: "Up/Down: select   A: ok": the app that was highlighted is started.
ChosenAppStarts == (marked # None /\ choicePc \in {"start", "notFound"}) => choicePc = "start" /\ found = marked
=============================================================================
