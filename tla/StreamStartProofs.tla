------------------------- MODULE StreamStartProofs --------------------------
(***************************************************************************)
(* Proofs about StreamStart, for every set of apps, titles and answers of  *)
(* the host, lists of any length and menus of any size: what the console   *)
(* knows of the host, and which app it asks it to start.                   *)
(*                                                                         *)
(* The composition implements HostSession, so what holds of HostSession    *)
(* alone holds of it; what AppChoice promises is carried along, since it   *)
(* tells that the app that is started is one of the host's.                *)
(***************************************************************************)
EXTENDS StreamStart, NumberFacts

-----------------------------------------------------------------------------
(* What the console knows of the host: HostSession.                        *)

\* Where a pairing goes on, or is being undone.
Pairing == {"pair1", "pair2", "pair3", "pair4", "pair5", "pairFailed"}

Places == Pairing \cup {"offline", "menu", "start", "connecting", "stream", "quit"}

\* The console is not paired while it pairs; elsewhere, until the first stage of a
\* pairing has been answered, it knows whether it is.
PairInv ==
  /\ pc \in Pairing => ~ paired
  /\ (pc \in {"menu", "pair1", "start", "connecting", "stream", "quit"} /\ ~ pairDoubt) =>
        (paired <=> hostPaired)

\* The console knows whether a game runs wherever it is, not only in the menu.
GameInv ==
  (pc # "offline" /\ ~ gameDoubt /\ ~ startFailed) => (currentGame = 0 <=> hostGame = 0)

\* A start request is about an app.
StartInv == pc = "start" => appId \in Apps

HostInv == TypeOK /\ PairInv /\ GameInv /\ StartInv

\* The stages of a pairing by name.
LEMMA PairPlaces ==
  /\ PairPc[1] = "pair1" /\ PairPc[2] = "pair2" /\ PairPc[3] = "pair3"
  /\ PairPc[4] = "pair4" /\ PairPc[5] = "pair5"
  /\ { PairPc[k] : k \in PairStages } = {"pair1", "pair2", "pair3", "pair4", "pair5"}
<1>1. /\ PairPc[1] = "pair1" /\ PairPc[2] = "pair2" /\ PairPc[3] = "pair3"
      /\ PairPc[4] = "pair4" /\ PairPc[5] = "pair5"
  BY DEF PairPc
<1>2. PairStages = {1, 2, 3, 4, 5}
  BY DEF PairStages
<1> QED
  BY <1>1, <1>2

\* The types after a step, with the stages of a pairing by name.
LEMMA TypesAfter ==
  ASSUME pc' \in Places, paired' \in BOOLEAN,
         currentGame' \in {0} \cup Apps, appId' \in {0} \cup Apps,
         hostPaired' \in BOOLEAN, hostStage' \in 0 .. 5, hostGame' \in {0} \cup Apps,
         accepted' \in BOOLEAN, pairDoubt' \in BOOLEAN,
         gameDoubt' \in BOOLEAN, startFailed' \in BOOLEAN
  PROVE  TypeOK'
<1>1. pc' \in {"offline", "menu", "pairFailed", "start", "connecting", "stream", "quit"}
              \cup { PairPc[k] : k \in PairStages }
  BY PairPlaces DEF Places, Pairing
<1> QED
  BY <1>1, Zenon DEF TypeOK

\* The program starts without a host.
LEMMA HostInit == Init => HostInv
<1> SUFFICES ASSUME Init PROVE HostInv
  OBVIOUS
<1>1. /\ paired \in BOOLEAN /\ hostPaired \in BOOLEAN /\ accepted \in BOOLEAN
      /\ pairDoubt \in BOOLEAN /\ gameDoubt \in BOOLEAN /\ startFailed \in BOOLEAN
  BY Zenon DEF Init
<1>2. /\ pc = "offline" /\ currentGame \in {0} \cup Apps /\ appId \in {0} \cup Apps
      /\ hostStage \in 0 .. 5 /\ hostGame \in {0} \cup Apps
  BY DEF Init
<1>3. TypeOK
  BY <1>1, <1>2, Zenon DEF TypeOK
<1> QED
  BY <1>2, <1>3 DEF HostInv, PairInv, GameInv, StartInv, Pairing

\* The status of the host, over HTTPS or HTTP.
LEMMA StatusKeeps ==
  ASSUME HostInv, StatusHttps \/ StatusHttp
  PROVE  HostInv'
<1>1. /\ pc' = "menu" /\ currentGame' = hostGame /\ hostGame' = hostGame
      /\ UNCHANGED <<appId, hostStage, accepted, hostPaired>>
  BY DEF StatusHttps, StatusHttp, hostVars
<1>2. /\ paired' \in BOOLEAN /\ pairDoubt' \in BOOLEAN /\ gameDoubt' \in BOOLEAN
      /\ startFailed' \in BOOLEAN
  BY Zenon DEF StatusHttps, StatusHttp, HostInv, TypeOK
<1>3. TypeOK'
  BY <1>1, <1>2, TypesAfter DEF HostInv, TypeOK, Places
<1>4. PairInv'
  <2>1. CASE StatusHttps
    BY <2>1 DEF StatusHttps, hostVars, PairInv, Pairing
  <2>2. CASE StatusHttp
    <3>1. paired' = FALSE /\ (~ pairDoubt' => ~ hostPaired')
      BY <2>2, <1>1, Zenon DEF StatusHttp
    <3> QED
      BY <1>1, <3>1 DEF PairInv, Pairing
  <2> QED
    BY <2>1, <2>2
<1>5. GameInv' /\ StartInv'
  BY <1>1 DEF GameInv, StartInv
<1> QED
  BY <1>3, <1>4, <1>5 DEF HostInv

\* Steps of the main thread that only move it: back to the menu, into a pairing,
\* or on with a stream.
LEMMA MovesKeep ==
  ASSUME HostInv, UNCHANGED <<paired, currentGame, hostPaired, hostGame, auxVars>>,
         hostStage' \in 0 .. 5, pc' \in Places, appId' \in {0} \cup Apps,
         pc' = "start" => appId' \in Apps,
         \/ pc' \in {"offline", "pairFailed"} /\ (pc' = "pairFailed" => ~ paired)
         \/ pc' = "pair1" /\ pc = "menu" /\ ~ paired
         \/ /\ pc \in {"menu", "start", "connecting", "stream", "quit"}
            /\ pc' \in {"menu", "start", "connecting", "stream", "quit"},
         pc' = "pairFailed" => pc # "offline"
  PROVE  HostInv'
<1>1. TypeOK'
  BY TypesAfter DEF HostInv, TypeOK, auxVars
<1>2. PairInv'
  BY DEF HostInv, PairInv, Pairing, auxVars
<1>3. GameInv' /\ StartInv'
  BY DEF HostInv, GameInv, StartInv, auxVars
<1> QED
  BY <1>1, <1>2, <1>3 DEF HostInv

\* One stage of a pairing.
LEMMA PairStageKeeps ==
  ASSUME HostInv, NEW k \in PairStages, NEW reply \in Replies, PairStage(k, reply)
  PROVE  HostInv'
<1> USE PairPlaces DEF Pairing
<1>1. k \in 1 .. 5 /\ pc = PairPc[k] /\ pc \in Pairing
  BY DEF PairStage, PairStages
<1>2. /\ UNCHANGED <<currentGame, appId, hostGame, accepted, gameDoubt, startFailed>>
      /\ HostPairs(k, reply)
  BY DEF PairStage
<1>3. hostStage' \in 0 .. 5
  BY <1>1, <1>2 DEF HostPairs, HostInv, TypeOK
<1>4. hostPaired' \in BOOLEAN /\ (hostPaired' => hostPaired \/ k = 4)
      /\ (hostPaired => hostPaired')
  BY <1>2, Zenon DEF HostPairs
<1>5. ~ paired
  BY <1>1 DEF HostInv, PairInv
<1>6. \/ pc' \in Pairing \ {"pair1"} /\ UNCHANGED <<paired, pairDoubt>>
      \/ pc' = "menu" /\ paired' = TRUE /\ pairDoubt' = FALSE /\ hostPaired'
      \/ pc' = "menu" /\ pc = "pair1" /\ UNCHANGED <<paired, pairDoubt>> /\ ~ (hostPaired' /\ ~ hostPaired)
  <2>1. CASE PairAnswered(k, reply) /\ k < 5
    <3>1. pc' = PairPc[k + 1] /\ UNCHANGED <<paired, pairDoubt>>
      BY <1>1, <2>1 DEF PairStage, PairAnswered
    <3>2. k \in {1, 2, 3, 4}
      BY <1>1, <2>1
    <3> QED
      BY <3>1, <3>2
  <2>2. CASE PairAnswered(k, reply) /\ k = 5
    <3>1. pc' = "menu" /\ paired' = TRUE /\ pairDoubt' = FALSE
      BY <1>1, <2>2 DEF PairStage, PairAnswered
    <3>2. hostPaired
      BY <1>2, <2>2 DEF HostPairs, PairAnswered, Acts
    <3> QED
      BY <1>4, <3>1, <3>2
  <2>3. CASE ~ PairAnswered(k, reply) /\ k = 1 /\ reply = "refused"
    <3>1. pc' = "menu" /\ UNCHANGED <<paired, pairDoubt>>
      BY <1>1, <2>3 DEF PairStage
    <3> QED
      BY <1>1, <1>4, <2>3, <3>1
  <2>4. CASE ~ PairAnswered(k, reply) /\ ~ (k = 1 /\ reply = "refused")
    <3>1. pc' = "pairFailed" /\ UNCHANGED <<paired, pairDoubt>>
      BY <1>1, <2>4 DEF PairStage
    <3> QED
      BY <3>1
  <2>5. k < 5 \/ k = 5
    BY <1>1
  <2> QED
    BY <2>1, <2>2, <2>3, <2>4, <2>5, Zenon
<1>7. paired' \in BOOLEAN /\ pairDoubt' \in BOOLEAN
  BY <1>6, Zenon DEF HostInv, TypeOK
<1>8. pc' \in Places
  BY <1>6 DEF Places
<1>9. TypeOK'
  BY <1>2, <1>3, <1>4, <1>7, <1>8, TypesAfter DEF HostInv, TypeOK
<1>10. PairInv'
  <2>1. CASE pc' \in Pairing \ {"pair1"} /\ UNCHANGED <<paired, pairDoubt>>
    BY <1>5, <2>1 DEF PairInv
  <2>2. CASE pc' = "menu" /\ paired' = TRUE /\ pairDoubt' = FALSE /\ hostPaired'
    BY <2>2 DEF PairInv
  <2>3. CASE pc' = "menu" /\ pc = "pair1" /\ UNCHANGED <<paired, pairDoubt>> /\ ~ (hostPaired' /\ ~ hostPaired)
    BY <1>4, <1>5, <2>3 DEF HostInv, PairInv
  <2> QED
    BY <1>6, <2>1, <2>2, <2>3
<1>11. GameInv' /\ StartInv'
  BY <1>1, <1>2, <1>6 DEF HostInv, GameInv, StartInv
<1> QED
  BY <1>9, <1>10, <1>11 DEF HostInv

\* An answer of no use to a pairing.
LEMMA PairContentsWrongKeeps ==
  ASSUME HostInv, NEW k \in {1, 3}, PairContentsWrong(k)
  PROVE  HostInv'
<1> USE PairPlaces DEF Pairing
<1>1. pc \in Pairing /\ pc' = "pairFailed" /\ UNCHANGED <<paired, currentGame, appId, hostGame, auxVars>>
  BY DEF PairContentsWrong
<1>2. hostStage' \in 0 .. 5 /\ hostPaired' = hostPaired
  <2>1. HostPairs(k, "ok")
    BY DEF PairContentsWrong
  <2>2. hostStage' \in 0 .. 5
    BY <2>1 DEF HostPairs, HostInv, TypeOK
  <2>3. k # 4
    OBVIOUS
  <2>4. hostPaired' = hostPaired
    BY <2>1, <2>3, Zenon DEF HostPairs, HostInv, TypeOK
  <2> QED
    BY <2>2, <2>4
<1>3. ~ paired
  BY <1>1 DEF HostInv, PairInv
<1> QED
  BY <1>1, <1>2, <1>3, MovesKeep DEF HostInv, TypeOK, Places

\* gs_unpair, from the menu or after a failed pairing.
LEMMA UnpairKeeps ==
  ASSUME HostInv, NEW reply \in Replies, PairFailed(reply) \/ UnpairChosen(reply)
  PROVE  HostInv'
<1>1. /\ pc \in {"menu", "pairFailed"} /\ pc' = "menu" /\ Unpair(reply)
      /\ UNCHANGED <<currentGame, appId, hostStage, hostGame, accepted, gameDoubt, startFailed>>
  BY DEF PairFailed, UnpairChosen
<1>2. hostPaired' \in BOOLEAN /\ paired' \in BOOLEAN /\ pairDoubt' \in BOOLEAN
  BY <1>1, Zenon DEF Unpair
<1>3. TypeOK'
  BY <1>1, <1>2, TypesAfter DEF HostInv, TypeOK, Places
<1>4. ~ pairDoubt' => ~ paired' /\ ~ hostPaired'
  BY <1>1, Zenon DEF Unpair, Acts
<1>5. PairInv'
  BY <1>1, <1>4 DEF PairInv, Pairing
<1>6. GameInv' /\ StartInv'
  BY <1>1 DEF HostInv, GameInv, StartInv
<1> QED
  BY <1>3, <1>5, <1>6 DEF HostInv

\* gs_start_app: the request is for launching when currentGame is 0, for resuming
\* otherwise, and what the answer leaves open is accounted for.
LEMMA StartKeeps ==
  ASSUME HostInv, NEW reply \in Replies, StartApp(reply)
  PROVE  HostInv'
<1> USE AppsAssumption DEF AppsAssumption
<1>1. /\ pc = "start" /\ pc' \in {"connecting", "menu"} /\ appId \in Apps
      /\ UNCHANGED <<paired, appId, hostPaired, hostStage, pairDoubt>>
  BY DEF StartApp, HostInv, StartInv
<1>2. accepted' \in BOOLEAN /\ gameDoubt' \in BOOLEAN /\ startFailed' \in BOOLEAN
  <2>1. accepted' = (reply \in {"cut", "ok"})
    BY DEF StartApp
  <2>2. accepted' \in BOOLEAN
    BY <2>1
  <2>3. gameDoubt' \in BOOLEAN /\ startFailed' \in BOOLEAN
    BY Zenon DEF StartApp
  <2> QED
    BY <2>2, <2>3
<1>3. /\ Acts(reply) => (Launches <=> hostGame = 0)
      /\ hostGame' = IF Acts(reply) /\ Launches THEN appId ELSE hostGame
      /\ currentGame' = IF GameKnown(reply) THEN appId ELSE currentGame
  BY DEF StartApp, HostStarts
<1>4. TypeOK'
  BY <1>1, <1>2, <1>3, TypesAfter DEF HostInv, TypeOK, Places
<1>5. PairInv'
  BY <1>1 DEF HostInv, PairInv, Pairing
<1>6. startFailed' \/ reply \in {"cut", "ok"}
  BY Zenon DEF StartApp
<1>7. GameInv'
  BY <1>1, <1>3, <1>6 DEF GameInv, Acts, GameKnown, Launches
<1>8. StartInv'
  BY <1>1 DEF StartInv
<1> QED
  BY <1>4, <1>5, <1>7, <1>8 DEF HostInv

\* gs_quit_app.
LEMMA QuitKeeps ==
  ASSUME HostInv, NEW reply \in Replies, QuitApp(reply)
  PROVE  HostInv'
<1>1. /\ pc = "quit" /\ pc' = "menu"
      /\ hostGame' = IF Acts(reply) THEN 0 ELSE hostGame
      /\ currentGame' = IF QuitKnown(reply) THEN 0 ELSE currentGame
      /\ UNCHANGED <<paired, appId, hostPaired, hostStage, accepted, pairDoubt, startFailed>>
  BY DEF QuitApp
<1>2. gameDoubt' \in BOOLEAN
  BY Zenon DEF QuitApp
<1>3. TypeOK'
  BY <1>1, <1>2, TypesAfter DEF HostInv, TypeOK, Places
<1>4. PairInv'
  BY <1>1 DEF HostInv, PairInv, Pairing
<1>5. gameDoubt' \/ (~ gameDoubt /\ reply \notin {"unheard", "cut"})
  BY Zenon DEF QuitApp
<1>6. GameInv'
  BY <1>1, <1>5 DEF HostInv, GameInv, Acts, QuitKnown
<1>7. StartInv'
  BY <1>1 DEF StartInv
<1> QED
  BY <1>3, <1>4, <1>6, <1>7 DEF HostInv

\* The host on its own.
LEMMA HostKeeps ==
  ASSUME HostInv, HostGameChanges \/ HostForgets
  PROVE  HostInv'
<1>1. /\ UNCHANGED consoleVars /\ UNCHANGED <<hostStage, accepted, startFailed>>
      /\ hostGame' \in {0} \cup Apps
  BY DEF HostGameChanges, HostForgets, HostInv, TypeOK
<1>2. hostPaired' \in BOOLEAN /\ pairDoubt' \in BOOLEAN /\ gameDoubt' \in BOOLEAN
  BY Zenon DEF HostGameChanges, HostForgets, HostInv, TypeOK
<1>3. TypeOK'
  BY <1>1, <1>2, PairPlaces DEF HostInv, TypeOK, consoleVars
<1>4. PairInv'
  BY <1>1 DEF HostGameChanges, HostForgets, HostInv, PairInv, consoleVars
<1>5. GameInv' /\ StartInv'
  BY <1>1 DEF HostGameChanges, HostForgets, HostInv, GameInv, StartInv, consoleVars
<1> QED
  BY <1>3, <1>4, <1>5 DEF HostInv

\* No step of the console or of the host breaks HostInv.
LEMMA HostNext == HostInv /\ [Next]_vars => HostInv'
<1> SUFFICES ASSUME HostInv, [Next]_vars PROVE HostInv'
  OBVIOUS
<1>1. CASE UNCHANGED vars
  BY <1>1 DEF vars, consoleVars, hostVars, auxVars, HostInv, TypeOK, PairInv, GameInv, StartInv
<1>2. CASE Disconnect \/ BeginPair \/ ConnectionStarts \/ ConnectionFails \/ StreamEnds
  BY <1>2, MovesKeep, PairPlaces
     DEF Disconnect, BeginPair, ConnectionStarts, ConnectionFails, StreamEnds, hostVars,
       HostInv, TypeOK, Places, Pairing
<1>3. CASE \E app \in Apps : ChooseStream(app)
  BY <1>3, MovesKeep DEF ChooseStream, hostVars, HostInv, TypeOK, Places
<1>4. CASE \E reply \in Replies : Requests(reply)
  BY <1>4, PairStageKeeps, UnpairKeeps, StartKeeps, QuitKeeps DEF Requests
<1> QED
  BY <1>1, <1>2, <1>3, <1>4, StatusKeeps, PairContentsWrongKeeps, HostKeeps DEF Next

\* However a pairing was cut short, the console and the host agree on it.
THEOREM HostInvariance == Spec => []HostInv
BY HostInit, HostNext, PTL DEF Spec

-----------------------------------------------------------------------------
(* Which app is started: AppChoice.                                        *)

\* An answer's list is a list of apps, from 1 to its length.
LEMMA AnswerIsList ==
  ASSUME NEW a \in Answers
  PROVE  /\ a \in Seq(App) /\ Len(a) \in 0 .. MaxApps
         /\ \A i \in 1 .. Len(a) : a[i] \in App
<1>1. PICK m \in 0 .. MaxApps : a \in [1 .. m -> App]
  BY DEF Answers, SeqOf
<1>2. m \in Nat
  BY AppChoiceAssumption DEF AppChoiceAssumption
<1>3. a \in Seq(App) /\ Len(a) = m
  BY <1>1, <1>2
<1> QED
  BY <1>1, <1>2, <1>3

\* So is the list in the order of xml_applist.
LEMMA ListOfAnswer ==
  ASSUME NEW a \in Answers
  PROVE  ListOf(a) \in Answers
<1>1. PICK m \in 0 .. MaxApps : a \in [1 .. m -> App]
  BY DEF Answers, SeqOf
<1>2. m \in Nat
  BY AppChoiceAssumption DEF AppChoiceAssumption
<1>3. Len(a) = m
  BY <1>1, <1>2
<1>4. Reverse(a) = [i \in 1 .. m |-> a[(m - i) + 1]]
  BY <1>3 DEF Reverse
<1>5. \A i \in 1 .. m : (m - i) + 1 \in 1 .. m
  BY <1>2
<1>6. Reverse(a) \in [1 .. m -> App]
  BY <1>1, <1>4, <1>5
<1> QED
  BY <1>6 DEF ListOf, Answers, SeqOf

\* The first answer may be no list at all.
LEMMA NoListIsList == <<>> \in Answers
<1>1. 0 \in 0 .. MaxApps
  BY AppChoiceAssumption DEF AppChoiceAssumption
<1>2. <<>> \in [1 .. 0 -> App]
  OBVIOUS
<1> QED
  BY <1>1, <1>2 DEF Answers, SeqOf

\* Looking an app up by its name finds one of that name if there is one, and
\* nothing otherwise.
LEMMA FindAppIdFinds ==
  ASSUME NEW a \in Answers, NEW name
  PROVE  LET ids == { a[i].id : i \in { j \in DOMAIN a : a[j].name = name } }
         IN  IF ids = {} THEN FindAppId(a, name) = None ELSE FindAppId(a, name) \in ids
<1> DEFINE I == { i \in 1 .. Len(a) : a[i].name = name }
           least == CHOOSE x \in I : \A y \in I : x =< y
<1>1. Len(a) \in Nat /\ DOMAIN a = 1 .. Len(a)
  <2>1. a \in Seq(App)
    BY AnswerIsList
  <2> QED
    BY <2>1
<1>2. FindAppId(a, name) = LET i == IF I # {} THEN least ELSE 0
                           IN  IF i = 0 THEN None ELSE a[i].id
  BY Zenon DEF FindAppId, SelectInSeq, Min
<1>3. ASSUME I # {} PROVE least \in I
  <2>1. I \subseteq Nat
    BY <1>1
  <2>2. \E x \in I : \A y \in I : x <= y
    BY <1>3, <2>1, LeastNatural
  <2> QED
    BY <2>2
<1> HIDE DEF least
<1>4. ASSUME I # {} PROVE least # 0
  BY <1>1, <1>3, <1>4
<1> QED
  BY <1>1, <1>2, <1>3, <1>4

\* What the lookup by the configuration's app left in found.
Configured ==
  IF Titled(ConfigApp) = {} THEN found = None ELSE found \in Titled(ConfigApp)

\* An app is found only once the choice is made, an empty list is asked for again,
\* and without a press of A what was found is the app of the configuration.
ChoiceInv ==
  /\ ChoiceTypeOK
  /\ choicePc \in {"ask", "menu", "askAgain"} => marked = None /\ found = None
  /\ choicePc = "ask" => sel = 0
  /\ choicePc = "askAgain" => list = <<>>
  /\ choicePc = "walk" => marked # None
  /\ choicePc = "start" => found # None
  /\ choicePc = "notFound" => found = None
  /\ (choicePc \in {"decide", "start", "notFound"} /\ marked = None) => Configured

\* The apps of a list are apps of the host.
LEMMA TitledIds ==
  ASSUME NEW a \in Answers
  PROVE  /\ { a[i].id : i \in { j \in DOMAIN a : a[j].name = ConfigApp } } \subseteq Ids
         /\ None \notin Ids
<1>1. a \in Seq(App) /\ \A i \in 1 .. Len(a) : a[i] \in App
  BY AnswerIsList
<1>2. DOMAIN a = 1 .. Len(a)
  BY <1>1
<1>3. \A i \in DOMAIN a : a[i].id \in Ids
  BY <1>1, <1>2 DEF App
<1>4. Ids \subseteq Nat
  BY AppChoiceAssumption DEF AppChoiceAssumption
<1> QED
  BY <1>3, <1>4 DEF None

\* gs_applist, and get_app_id when there was no list.
LEMMA ListKeeps ==
  ASSUME ChoiceInv, AskList \/ AskAgain
  PROVE  ChoiceInv'
<1>1. CASE AskList
  <2>1. /\ choicePc = "ask" /\ sel = 0 /\ sel' = 0
        /\ found = None /\ found' = None /\ marked = None /\ marked' = None
    BY <1>1 DEF AskList, ChoiceInv
  <2>2. list' \in Answers
    BY <1>1, ListOfAnswer, NoListIsList DEF AskList
  <2>3. choicePc' = IF list' = <<>> THEN "askAgain" ELSE "menu"
    BY <1>1 DEF AskList
  <2>4. choicePc' = "menu" => sel' < Count'
    <3>1. list' \in Seq(App)
      BY <2>2, AnswerIsList
    <3>2. list' # <<>> => Len(list') > 0
      BY <3>1
    <3> QED
      BY <2>1, <2>3, <3>1, <3>2, AppChoiceAssumption DEF AppChoiceAssumption, Count
  <2>5. ChoiceTypeOK'
    BY <2>1, <2>2, <2>3, <2>4 DEF ChoiceTypeOK
  <2> QED
    BY <2>1, <2>3, <2>5 DEF ChoiceInv
<1>2. CASE AskAgain
  <2>1. /\ choicePc = "askAgain" /\ choicePc' = "decide" /\ sel' = sel
        /\ found = None /\ marked = None /\ marked' = None /\ list = <<>>
    BY <1>2 DEF AskAgain, ChoiceInv
  <2>2. list' \in Answers /\ Configured'
    <3>1. ASSUME NEW answer \in Answers, list' = ListOf(answer), found' = FindAppId(list', ConfigApp)
          PROVE  list' \in Answers /\ Configured'
      <4>1. list' \in Answers
        BY <3>1, ListOfAnswer
      <4> QED
        BY <3>1, <4>1, FindAppIdFinds DEF Configured, Titled
    <3>2. CASE UNCHANGED <<list, found>>
      <4>1. DOMAIN list = {}
        BY <2>1
      <4>2. Titled(ConfigApp)' = {}
        BY <3>2, <4>1 DEF Titled
      <4> QED
        BY <2>1, <3>2, <4>2, NoListIsList DEF Configured
    <3> QED
      BY <1>2, <3>1, <3>2 DEF AskAgain
  <2>3. found' \in Ids \cup {None}
    <3>1. Titled(ConfigApp)' \subseteq Ids
      BY <2>2, TitledIds DEF Titled
    <3> QED
      BY <2>2, <3>1 DEF Configured
  <2>4. ChoiceTypeOK'
    BY <2>1, <2>2, <2>3 DEF ChoiceTypeOK, ChoiceInv, None
  <2> QED
    BY <2>1, <2>2, <2>4 DEF ChoiceInv
<1> QED
  BY <1>1, <1>2

\* The menu, and the walk to the choice.
LEMMA ChoosingKeeps ==
  ASSUME ChoiceInv, Move \/ PressA \/ WalkToChoice \/ LeaveMenu \/ HomeInMenu \/ Decide
  PROVE  ChoiceInv'
<1> USE DEF None
<1>0. /\ list \in Answers /\ list' = list /\ list \in Seq(App) /\ Len(list) \in Nat
      /\ DOMAIN list = 1 .. Len(list)
      /\ \A i \in 1 .. Len(list) : list[i].id \in Ids
  <2>1. list \in Answers /\ list' = list
    BY DEF ChoiceInv, ChoiceTypeOK, Move, PressA, WalkToChoice, LeaveMenu, HomeInMenu, Decide
  <2>2. list \in Seq(App) /\ Len(list) \in 0 .. MaxApps /\ \A i \in 1 .. Len(list) : list[i] \in App
    BY <2>1, AnswerIsList
  <2>3. MaxApps \in Nat
    BY AppChoiceAssumption DEF AppChoiceAssumption
  <2> QED
    BY <2>1, <2>2, <2>3 DEF App
<1>1. Ids \subseteq Nat
  BY AppChoiceAssumption DEF AppChoiceAssumption
<1>2. CASE Move
  <2>1. /\ choicePc = "menu" /\ UNCHANGED <<choicePc, list, found, marked>>
        /\ sel' \in 0 .. Count - 1
    BY <1>2 DEF Move
  <2>2. Count' = Count /\ Count \in Nat
    BY <1>0, AppChoiceAssumption DEF AppChoiceAssumption, Count
  <2>3. sel' \in Nat /\ sel' < Count'
    BY <2>1, <2>2
  <2> QED
    BY <2>1, <2>3 DEF ChoiceInv, ChoiceTypeOK
<1>3. CASE PressA
  <2>1. /\ choicePc = "menu" /\ choicePc' = "walk" /\ UNCHANGED <<list, sel, found>>
        /\ marked' = list[sel + 1].id
    BY <1>3 DEF PressA
  <2>2. sel + 1 \in 1 .. Len(list)
    BY <1>0, <2>1, AppChoiceAssumption DEF AppChoiceAssumption, ChoiceInv, ChoiceTypeOK, Count
  <2>3. marked' \in Ids
    BY <1>0, <2>1, <2>2
  <2> QED
    BY <1>1, <2>1, <2>3 DEF ChoiceInv, ChoiceTypeOK
<1>4. CASE WalkToChoice
  <2>1. /\ choicePc = "walk" /\ choicePc' = "decide" /\ UNCHANGED <<list, sel, marked>>
        /\ found' = IF Walked < Len(list) THEN list[Walked + 1].id ELSE None
    BY <1>4 DEF WalkToChoice
  <2>2. Walked < Len(list) => Walked + 1 \in 1 .. Len(list)
    BY <1>0 DEF Walked
  <2>3. found' \in Ids \cup {None}
    BY <1>0, <2>1, <2>2
  <2> QED
    BY <2>1, <2>3 DEF ChoiceInv, ChoiceTypeOK
<1>5. CASE LeaveMenu
  <2>1. /\ choicePc = "menu" /\ choicePc' = "decide" /\ UNCHANGED <<list, sel, marked>>
        /\ found' = FindAppId(list, ConfigApp)
    BY <1>5 DEF LeaveMenu
  <2>2. Configured'
    <3> DEFINE ids == { list[i].id : i \in { j \in DOMAIN list : list[j].name = ConfigApp } }
    <3>1. IF ids = {} THEN FindAppId(list, ConfigApp) = None ELSE FindAppId(list, ConfigApp) \in ids
      BY <1>0, FindAppIdFinds, Zenon
    <3>2. Titled(ConfigApp)' = ids
      BY <1>0, Zenon DEF Titled
    <3> HIDE DEF ids
    <3> QED
      BY <2>1, <3>1, <3>2 DEF Configured
  <2>3. Titled(ConfigApp)' \subseteq Ids
    BY <1>0, TitledIds DEF Titled
  <2>4. found' \in Ids \cup {None}
    BY <2>2, <2>3 DEF Configured
  <2> QED
    BY <2>1, <2>2, <2>4 DEF ChoiceInv, ChoiceTypeOK
<1>6. CASE HomeInMenu
  BY <1>6 DEF HomeInMenu, ChoiceInv, ChoiceTypeOK
<1>7. CASE Decide
  <2>1. /\ choicePc = "decide" /\ UNCHANGED <<list, sel, found, marked>>
        /\ choicePc' = IF found < 0 THEN "notFound" ELSE "start"
    BY <1>7 DEF Decide
  <2>2. found < 0 <=> found = None
    BY <1>1 DEF ChoiceInv, ChoiceTypeOK
  <2>3. choicePc' = IF found = None THEN "notFound" ELSE "start"
    BY <2>1, <2>2
  <2>4. ChoiceTypeOK'
    BY <2>1, <2>3 DEF ChoiceInv, ChoiceTypeOK
  <2>5. marked' = None => Configured'
    BY <2>1 DEF ChoiceInv, Configured, Titled
  <2> QED
    BY <2>1, <2>3, <2>4, <2>5 DEF ChoiceInv
<1> QED
  BY <1>2, <1>3, <1>4, <1>5, <1>6, <1>7

-----------------------------------------------------------------------------
(* The composition.                                                        *)

\* A choice goes on while the main thread is in the menu, and leaves nothing
\* behind.
SInv ==
  /\ HostInv
  /\ choicePc = "idle" => list = <<>> /\ sel = 0 /\ found = None /\ marked = None
  /\ choicePc # "idle" => pc = "menu" /\ ChoiceInv

\* Every step of the composition is a step of HostSession or none: the app that is
\* started is one of the host's.
LEMMA ImplementsStep == SInv /\ [StreamStartNext]_streamStartVars => [Next]_vars
<1> SUFFICES ASSUME SInv, [StreamStartNext]_streamStartVars PROVE [Next]_vars
  OBVIOUS
<1>1. CASE BeginChoice \/ Choose \/ GiveUp \/ UNCHANGED streamStartVars
  BY <1>1 DEF BeginChoice, Choose, GiveUp, streamStartVars, vars
<1>2. CASE Start
  <2>1. found \in Apps
    <3>1. found \in Ids \cup {None} /\ found # None
      BY <1>2 DEF Start, SInv, ChoiceInv, ChoiceTypeOK
    <3> QED
      BY <3>1, SameApps DEF SameApps
  <2> QED
    BY <1>2, <2>1 DEF Start, Next
<1>3. CASE OtherConsoleStep \/ HostStep
  BY <1>3 DEF OtherConsoleStep, HostStep, Next
<1> QED
  BY <1>1, <1>2, <1>3 DEF StreamStartNext

\* SInv holds at the start, when nothing is being chosen.
LEMMA SInit == StreamStartInit => SInv
BY HostInit DEF StreamStartInit, SInv

\* No step breaks it.
LEMMA SNext == SInv /\ [StreamStartNext]_streamStartVars => SInv'
<1> SUFFICES ASSUME SInv, [StreamStartNext]_streamStartVars PROVE SInv'
  OBVIOUS
<1>1. HostInv'
  BY ImplementsStep, HostNext DEF SInv
<1>2. CASE UNCHANGED streamStartVars
  <2>1. UNCHANGED <<choicePc, list, sel, found, marked, pc>>
    BY <1>2 DEF streamStartVars, choiceVars, vars, consoleVars
  <2> QED
    BY <1>1, <2>1 DEF SInv, ChoiceInv, ChoiceTypeOK, Count, Configured, Titled
<1>3. CASE BeginChoice
  <2>1. /\ pc' = "menu" /\ choicePc' = "ask"
        /\ list' = <<>> /\ sel' = 0 /\ found' = None /\ marked' = None
    BY <1>3 DEF BeginChoice, vars, consoleVars, SInv
  <2>2. ChoiceInv'
    BY <2>1, NoListIsList DEF ChoiceInv, ChoiceTypeOK
  <2> QED
    BY <1>1, <2>1, <2>2 DEF SInv
<1>4. CASE Choose
  <2>1. choicePc # "idle" /\ ChoiceNext /\ pc' = pc
    BY <1>4 DEF Choose, vars, consoleVars
  <2>2. ChoiceInv'
    BY <2>1, ListKeeps, ChoosingKeeps DEF ChoiceNext, SInv
  <2>3. choicePc' # "idle"
    BY <2>2 DEF ChoiceInv, ChoiceTypeOK
  <2> QED
    BY <1>1, <2>1, <2>2, <2>3 DEF SInv
<1>5. CASE GiveUp \/ Start
  BY <1>1, <1>5 DEF GiveUp, Start, Idle, SInv
<1>6. CASE OtherConsoleStep
  <2>1. choicePc = "idle" /\ UNCHANGED <<choicePc, list, sel, found, marked>>
    BY <1>6 DEF OtherConsoleStep, choiceVars
  <2> QED
    BY <1>1, <2>1 DEF SInv
<1>7. CASE HostStep
  <2>1. UNCHANGED <<choicePc, list, sel, found, marked, pc>>
    BY <1>7 DEF HostStep, HostGameChanges, HostForgets, choiceVars, consoleVars
  <2> QED
    BY <1>1, <2>1 DEF SInv, ChoiceInv, ChoiceTypeOK, Count, Configured, Titled
<1> QED
  BY <1>2, <1>3, <1>4, <1>5, <1>6, <1>7 DEF StreamStartNext

\* The inductive invariant of the composition.
THEOREM StreamStartInvariance == StreamStartSpec => []SInv
BY SInit, SNext, PTL DEF StreamStartSpec

\* Choosing an app takes nothing from, and adds nothing to, what the console does
\* with the host.
THEOREM ImplementsHostSession == StreamStartSpec => Spec
<1>1. StreamStartInit => Init
  BY DEF StreamStartInit
<1> QED
  BY <1>1, StreamStartInvariance, ImplementsStep, PTL DEF StreamStartSpec, Spec

\* In the menu the console and the host agree on the pairing, unless something
\* was kept from the console.
THEOREM KnowsPairing == StreamStartSpec => []PairingKnown
<1>1. HostInv => PairingKnown
  BY DEF HostInv, PairInv, PairingKnown
<1> QED
  BY <1>1, ImplementsHostSession, HostInvariance, PTL

\* The next start request asks for the right thing, launch or resume.
THEOREM KnowsGame == StreamStartSpec => []GameRunsAsKnown
<1>1. HostInv => GameRunsAsKnown
  BY DEF HostInv, GameInv, GameRunsAsKnown
<1> QED
  BY <1>1, ImplementsHostSession, HostInvariance, PTL

\* No answer is taken for the last one of a pairing that is not.
THEOREM PairedByHost == StreamStartSpec => PairedOnlyByHost
<1>1. HostInv /\ [Next]_vars => [paired' /\ ~ paired => hostPaired']_vars
  <2> SUFFICES ASSUME HostInv, Next, paired', ~ paired PROVE hostPaired'
    BY Zenon
  <2>1. CASE UNCHANGED paired
    BY <2>1
  <2>2. CASE StatusHttps
    BY <2>2 DEF StatusHttps, hostVars
  <2>3. CASE StatusHttp
    BY <2>3 DEF StatusHttp
  <2>4. ASSUME NEW k \in PairStages, NEW reply \in Replies, PairStage(k, reply) PROVE hostPaired'
    <3>1. (k = 5 /\ PairAnswered(k, reply) /\ HostPairs(k, reply)) \/ UNCHANGED paired
      BY <2>4, Zenon DEF PairStage
    <3>2. CASE k = 5 /\ PairAnswered(k, reply) /\ HostPairs(k, reply)
      BY <3>2 DEF PairAnswered, HostPairs, Acts
    <3> QED
      BY <2>1, <3>1, <3>2
  <2>5. ASSUME NEW reply \in Replies, PairFailed(reply) \/ UnpairChosen(reply) PROVE hostPaired'
    BY <2>5, Zenon DEF PairFailed, UnpairChosen, Unpair
  <2>6. CASE Disconnect \/ BeginPair \/ ConnectionStarts \/ ConnectionFails \/ StreamEnds
    BY <2>1, <2>6 DEF Disconnect, BeginPair, ConnectionStarts, ConnectionFails, StreamEnds
  <2>7. CASE \/ \E k \in {1, 3} : PairContentsWrong(k)
             \/ \E app \in Apps : ChooseStream(app)
             \/ \E reply \in Replies : StartApp(reply) \/ QuitApp(reply)
    BY <2>1, <2>7 DEF PairContentsWrong, ChooseStream, StartApp, QuitApp
  <2>8. CASE HostGameChanges \/ HostForgets
    BY <2>1, <2>8 DEF HostGameChanges, HostForgets, consoleVars
  <2> QED
    BY <2>2, <2>3, <2>4, <2>5, <2>6, <2>7, <2>8, Zenon DEF Next, Requests
<1> QED
  BY <1>1, ImplementsHostSession, HostInvariance, PTL DEF Spec, PairedOnlyByHost

\* Without a choice from the menu, the app of the configuration is started if the
\* host has it, and nothing else is.
THEOREM StartsConfiguredApp == StreamStartSpec => []ConfiguredAppOtherwise
<1>1. SInv => ConfiguredAppOtherwise
  <2> SUFFICES ASSUME SInv, marked = None, choicePc \in {"start", "notFound"}
               PROVE  IF Titled(ConfigApp) = {} THEN choicePc = "notFound"
                      ELSE choicePc = "start" /\ found \in Titled(ConfigApp)
    BY DEF ConfiguredAppOtherwise
  <2>1. ChoiceInv
    BY DEF SInv
  <2>2. Titled(ConfigApp) \subseteq Ids /\ None \notin Ids
    BY <2>1, TitledIds DEF ChoiceInv, ChoiceTypeOK, Titled
  <2> QED
    BY <2>1, <2>2 DEF ChoiceInv, Configured
<1> QED
  BY <1>1, StreamStartInvariance, PTL
=============================================================================
