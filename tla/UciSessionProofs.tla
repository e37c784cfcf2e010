-------------------------- MODULE UciSessionProofs --------------------------
(***************************************************************************)
(* Proofs about UciSession: type correctness whatever the GUI does, and    *)
(* the safety properties of a session whose GUI follows the protocol, with *)
(* every kind of go, up to a stop that releases the bestmove of an earlier *)
(* search (misled), for any number of goes, games, positions and lines in  *)
(* the pipe.                                                               *)
(***************************************************************************)
EXTENDS UciSession, TLAPS

\* What taking a line out of the pipe does to it.
LEMMA LineTaken ==
  ASSUME inp \in Seq(Commands), NEW c, Line(c)
  PROVE  /\ c \in Commands
         /\ mpc = "select" /\ sent' = sent
         /\ inp' \in Seq(Commands)
         /\ 1 \in DOMAIN inp /\ inp[1] = c
         /\ \A i \in DOMAIN inp' : i + 1 \in DOMAIN inp /\ inp'[i] = inp[i + 1]
  BY DEF Line

\* What writing a line does to the pipe.
LEMMA LineWritten ==
  ASSUME inp \in Seq(Commands), NEW c \in Commands, Write(c)
  PROVE  /\ inp' \in Seq(Commands)
         /\ \A i \in DOMAIN inp' :
              \/ i \in DOMAIN inp /\ inp'[i] = inp[i]
              \/ i = Len(inp) + 1 /\ inp'[i] = c
         /\ \A i \in DOMAIN inp : i < Len(inp) + 1
  BY DEF Write

\* Every command the GUI writes is one of Commands.
LEMMA CommandTypes ==
  ASSUME ConstantsAssumption
  PROVE  /\ \A g \in Gos, k \in GoKinds : [cmd |-> "go", id |-> g, kind |-> k] \in Commands
         /\ \A p \in Positions : [cmd |-> "position", pos |-> p] \in Commands
         /\ \A c \in {"stop", "ponderhit", "ucinewgame", "contempt", "hash", "quit"} :
              [cmd |-> c] \in Commands
  BY DEF ConstantsAssumption, Commands

-----------------------------------------------------------------------------
(* Type correctness, for any GUI.                                          *)

LEMMA TypeInit == Init => TypeOK
<1> SUFFICES ASSUME Init PROVE TypeOK
  OBVIOUS
<1> USE ConstantsAssumption DEF ConstantsAssumption, Init
<1>1. inp \in Seq(Commands) /\ sent \in 0..MaxGo /\ pending \in 0..MaxGo
  OBVIOUS
<1>2. mpc \in {"select", "offer", "exited"} /\ status \in {"idle", "running"}
      /\ wpc \in WorkerPCs /\ limit \in Kinds
  BY DEF WorkerPCs, Kinds
<1>3. engine \in [contempt : {0, 1}, table : {0, 1}]
  OBVIOUS
<1>4. /\ told \in [Gos -> Nat] /\ playedIn \in [Gos -> Nat]
      /\ booked \in [Gos -> SUBSET Nat]
  OBVIOUS
<1> QED
  BY <1>1, <1>2, <1>3, <1>4 DEF TypeOK

\* The helpers keep the types of what they change.
LEMMA FlushTypes ==
  ASSUME TypeOK, FlushStats
  PROVE  /\ started' \in BOOLEAN /\ gameHits' \subseteq 0..MaxGo
         /\ booked' \in [Gos -> SUBSET Nat]
<1>1. CASE started
  <2>1. \A g \in Gos : (IF g \in gameHits THEN booked[g] \cup {game} ELSE booked[g]) \in SUBSET Nat
    BY DEF TypeOK
  <2> QED
    BY <1>1, <2>1 DEF FlushStats, TypeOK
<1>2. CASE ~started
  BY <1>2 DEF FlushStats, TypeOK
<1> QED
  BY <1>1, <1>2

LEMMA TellTypes ==
  ASSUME TypeOK, NEW bm \in 0..MaxGo, Tell(bm)
  PROVE  told' \in [Gos -> Nat] /\ pending' \in 0..MaxGo
<1>1. CASE bm = 0
  BY <1>1 DEF Tell, TypeOK
<1>2. CASE bm # 0
  <2>1. bm \in Gos /\ told' = [told EXCEPT ![bm] = @ + 1] /\ pending' = 0 /\ 0 \in 0..MaxGo
    BY <1>2, ConstantsAssumption DEF Tell, Gos, ConstantsAssumption
  <2> QED
    BY <2>1 DEF TypeOK
<1> QED
  BY <1>1, <1>2

LEMMA ResetTypes ==
  ASSUME NEW e \in [contempt : {0, 1}, table : {0, 1}]
  PROVE  /\ ResetTable(e) \in [contempt : {0, 1}, table : {0, 1}]
         /\ [e EXCEPT !.contempt = 1 - @] \in [contempt : {0, 1}, table : {0, 1}]
  BY DEF ResetTable

LEMMA TypeStep == TypeOK /\ [Next]_vars => TypeOK'
<1> SUFFICES ASSUME TypeOK, [Next]_vars PROVE TypeOK'
  OBVIOUS
<1> USE ConstantsAssumption DEF TypeOK, ConstantsAssumption
<1>1. CASE UNCHANGED vars
  BY <1>1 DEF vars
<1>2. CASE GuiSend
  <2> USE <1>2 DEF GuiSend, mainVars, flagVars, workVars, statVars, histVars
  <2>1. CASE GuiGo
    <3>1. sent + 1 \in Gos
      BY <2>1 DEF GuiGo, Gos
    <3>2. PICK k \in GoKinds : Write([cmd |-> "go", id |-> sent + 1, kind |-> k])
      BY <2>1 DEF GuiGo
    <3>3. inp' \in Seq(Commands)
      BY <3>1, <3>2, CommandTypes, LineWritten
    <3> QED
      BY <2>1, <3>1, <3>3, SMTT(30) DEF GuiGo, Gos
  <2>2. CASE GuiSet
    <3>1. inp' \in Seq(Commands)
      BY <2>2, CommandTypes, LineWritten DEF GuiSet
    <3> QED
      BY <2>2, <3>1 DEF GuiSet
  <2>3. CASE GuiInterrupt
    <3>1. inp' \in Seq(Commands)
      BY <2>3, CommandTypes, LineWritten DEF GuiInterrupt
    <3> QED
      BY <2>3, <3>1 DEF GuiInterrupt
  <2> QED
    BY <2>1, <2>2, <2>3
<1>3. CASE HandleGoRefused
  BY <1>3, LineTaken DEF HandleGoRefused, mainVars, flagVars, workVars, statVars, histVars
<1>4. CASE HandleGo
  <2>1. PICK g \in Gos, k \in GoKinds :
          /\ Line([cmd |-> "go", id |-> g, kind |-> k])
          /\ limit' = k /\ infinite' = (infinite \/ k = "infinite")
          /\ accepted' = g /\ playedIn' = [playedIn EXCEPT ![g] = game]
    BY <1>4 DEF HandleGo, AcceptGo
  <2>2. inp' \in Seq(Commands) /\ sent' = sent
    BY <2>1, LineTaken
  <2> QED
    BY <1>4, <2>1, <2>2 DEF HandleGo, AcceptGo, flagVars, workVars, Gos
<1>5. CASE Handoff
  BY <1>5 DEF Handoff, guiVars, flagVars, statVars, histVars, WorkerPCs
<1>6. CASE Deliver
  <2>1. CASE infinite
    BY <1>6, <2>1 DEF Deliver, flagVars, statVars, histVars, WorkerPCs
  <2>2. CASE ~infinite
    <3>1. Tell(cur) /\ savedBm' = savedBm
      BY <1>6, <2>2 DEF Deliver
    <3>2. told' \in [Gos -> Nat] /\ pending' \in 0..MaxGo
      BY <3>1, TellTypes
    <3> QED
      BY <1>6, <3>1, <3>2 DEF Deliver, flagVars, statVars, histVars, WorkerPCs
  <2> QED
    BY <2>1, <2>2
<1>7. CASE HandleStop
  <2>1. told' \in [Gos -> Nat] /\ pending' \in 0..MaxGo
    <3>1. Tell(savedBm) \/ UNCHANGED <<told, pending>>
      BY <1>7 DEF HandleStop
    <3> QED
      BY <3>1, TellTypes
  <2>2. inp' \in Seq(Commands) /\ sent' = sent
    BY <1>7, LineTaken DEF HandleStop
  <2> QED
    BY <1>7, <2>1, <2>2 DEF HandleStop, workVars, statVars
<1>8. CASE HandlePonderhit
  BY <1>8, LineTaken DEF HandlePonderhit, histVars, mainVars, flagVars, workVars, statVars
<1>9. CASE HandlePosition
  BY <1>9, LineTaken DEF HandlePosition, flagVars, workVars, statVars, histVars
<1>10. CASE HandleNewGame
  <2>1. inp' \in Seq(Commands) /\ sent' = sent
    BY <1>10, LineTaken DEF HandleNewGame
  <2>2. engine' \in [contempt : {0, 1}, table : {0, 1}]
    BY <1>10, ResetTypes DEF HandleNewGame
  <2>3. /\ started' \in BOOLEAN /\ gameHits' \subseteq 0..MaxGo
        /\ booked' \in [Gos -> SUBSET Nat]
    BY <1>10, FlushTypes DEF HandleNewGame
  <2> QED
    BY <1>10, <2>1, <2>2, <2>3 DEF HandleNewGame, flagVars, workVars, histVars
<1>11. CASE HandleGuardedOption
  <2>1. inp' \in Seq(Commands) /\ sent' = sent
    BY <1>11, LineTaken DEF HandleGuardedOption
  <2>2. engine' \in [contempt : {0, 1}, table : {0, 1}]
    <3> DEFINE changed == [engine EXCEPT !.contempt = 1 - @]
    <3>1. ResetTable(changed) \in [contempt : {0, 1}, table : {0, 1}]
      BY ResetTypes
    <3>2. engine' = engine \/ engine' = ResetTable(changed)
      BY <1>11 DEF HandleGuardedOption
    <3> HIDE DEF changed
    <3> QED BY <3>1, <3>2
  <2> QED
    BY <1>11, <2>1, <2>2 DEF HandleGuardedOption, flagVars, workVars, statVars, histVars
<1>12. CASE HandleHash
  <2>1. inp' \in Seq(Commands) /\ sent' = sent
    BY <1>12, LineTaken DEF HandleHash
  <2> QED
    BY <1>12, <2>1, ResetTypes DEF HandleHash, flagVars, workVars, statVars, histVars
<1>13. CASE HandleQuit
  <2>1. inp' \in Seq(Commands) /\ sent' = sent
    BY <1>13, LineTaken DEF HandleQuit
  <2> QED
    BY <1>13, <2>1, FlushTypes DEF HandleQuit, workVars, histVars
<1>14. CASE Worker
  BY <1>14, ZenonT(30) DEF Worker, Begin, CopyRoot, FinishByLimit, FinishByStop, FinishExhausted,
               SearchOver, ClearStop, GoIdle, Step, WorkerPCs, guiVars, mainVars,
               flagVars, statVars, histVars
<1>15. CASE Exited
  BY <1>15 DEF Exited, vars
<1> QED
  BY <1>1, <1>2, <1>3, <1>4, <1>5, <1>6, <1>7, <1>8, <1>9, <1>10, <1>11, <1>12,
     <1>13, <1>14, <1>15 DEF Next, Main

\* The state of the session keeps its types whatever lines the GUI writes, at any
\* time and in any order.
THEOREM TypeCorrect == Spec => []TypeOK
<1>1. Init => TypeOK
  BY TypeInit
<1>2. TypeOK /\ [Next]_vars => TypeOK'
  BY TypeStep
<1> QED
  BY <1>1, <1>2, PTL DEF Spec

-----------------------------------------------------------------------------
(* Safety, for a GUI that follows the protocol.                            *)

FollowsProtocol == ~Pipelined

LEMMA InvInit == Init => IInv
<1> SUFFICES ASSUME Init PROVE IInv
  OBVIOUS
<1>1. TypeOK
  BY TypeInit
<1>2. SessionInv
  BY DEF Init, SessionInv, StatusMeans, MainNeverWaits, EngagedForPending, Engaged, Computing,
         InSearch, GoOnItsWay, SavedInItsTurn, Numbering, RootIsGoPosition, Gos
<1>3. StatsKept
  BY DEF Init, StatsKept, BookedInItsGame, Engaged, Computing, InSearch
<1> QED
  BY <1>1, <1>2, <1>3 DEF IInv

\* Taking a line that is no go leaves a go on its way where the invariant wants it,
\* and interrupts are all that is left of a pipe of interrupts.
LEMMA PipeAfterLine ==
  ASSUME TypeOK, TypeOK', NEW c, Line(c), GoOnItsWay
  PROVE  /\ OnlyInterrupts(inp) => c.cmd \in Interrupts /\ OnlyInterrupts(inp')
         /\ c.cmd = "go" => c.id = pending /\ accepted < pending /\ OnlyInterrupts(inp')
         /\ (pending' = pending /\ accepted' = accepted) \/ OnlyInterrupts(inp') => GoOnItsWay'
<1>1. inp \in Seq(Commands) /\ inp' \in Seq(Commands)
  BY DEF TypeOK
<1>2. /\ 1 \in DOMAIN inp /\ inp[1] = c
      /\ \A i \in DOMAIN inp' : i + 1 \in DOMAIN inp /\ inp'[i] = inp[i + 1]
  BY <1>1, LineTaken
<1>3. \A i \in DOMAIN inp' : i \in Nat /\ i >= 1
  BY <1>1
<1>4. OnlyInterrupts(inp) => c.cmd \in Interrupts /\ OnlyInterrupts(inp')
  BY <1>2 DEF OnlyInterrupts
<1>5. c.cmd = "go" => c.id = pending /\ accepted < pending /\ OnlyInterrupts(inp')
  BY <1>2, <1>3 DEF GoOnItsWay, OnlyInterrupts
<1>6. OnlyInterrupts(inp') => GoOnItsWay'
  BY DEF OnlyInterrupts, GoOnItsWay, Interrupts
<1>7. pending' = pending /\ accepted' = accepted => GoOnItsWay'
  BY <1>2, <1>3 DEF GoOnItsWay
<1> QED
  BY <1>4, <1>5, <1>6, <1>7

\* What a GUI that follows the protocol writes keeps the session's invariant.
LEMMA SessionGui ==
  ASSUME FollowsProtocol, TypeOK, TypeOK', SessionInv, GuiSend
  PROVE  SessionInv'
<1> USE DEF SessionInv
<1>1. UNCHANGED <<mainVars, flagVars, workVars, statVars, histVars, told>>
  BY DEF GuiSend
<1>2. /\ inp \in Seq(Commands) /\ accepted \in Nat /\ sent \in Nat /\ pending \in Nat
      /\ Gos \subseteq Nat
  BY ConstantsAssumption DEF TypeOK, Gos, ConstantsAssumption
<1>3. /\ StatusMeans' /\ MainNeverWaits' /\ SavedInItsTurn'
      /\ (InSearch => cur = accepted)' /\ RootIsGoPosition'
      /\ (Engaged' <=> Engaged) /\ bd' = bd /\ goBd' = goBd
      /\ accepted' = accepted /\ told' = told /\ booked' = booked /\ gameHits' = gameHits
  BY <1>1 DEF mainVars, flagVars, workVars, statVars, histVars, StatusMeans, MainNeverWaits,
              RootIsGoPosition, InSearch, SavedInItsTurn, Engaged, Computing
<1>4. CASE GuiGo
  <2>1. PICK k \in GoKinds : Write([cmd |-> "go", id |-> sent + 1, kind |-> k])
    BY <1>4 DEF GuiGo
  <2>2. sent' = sent + 1 /\ pending' = sent + 1 /\ pending = 0 /\ sent + 1 \in Gos
    BY <1>4, ConstantsAssumption DEF GuiGo, Idle, FollowsProtocol, Gos, TypeOK, ConstantsAssumption
  <2>3. ~Engaged
    BY <1>2, <2>2 DEF EngagedForPending
  <2>4. EngagedForPending'
    BY <1>3, <2>3 DEF EngagedForPending
  <2>5. Numbering'
    BY <1>2, <1>3, <2>2 DEF Numbering
  <2>6. \A i \in DOMAIN inp : inp[i].cmd # "go"
    BY <1>2, <2>2 DEF GoOnItsWay
  <2>7. GoOnItsWay'
    <3> DEFINE c == [cmd |-> "go", id |-> sent + 1, kind |-> k]
    <3>1. c \in Commands
      BY <2>2, CommandTypes, ConstantsAssumption
    <3> HIDE DEF c
    <3>2. /\ inp' \in Seq(Commands)
          /\ \A i \in DOMAIN inp' : (i \in DOMAIN inp /\ inp'[i] = inp[i])
                                 \/ (i = Len(inp) + 1 /\ inp'[i] = c)
          /\ \A i \in DOMAIN inp : i < Len(inp) + 1
      BY <1>2, <2>1, <3>1, LineWritten DEF c
    <3>3. c.id = sent + 1
      BY DEF c
    <3>4. Numbering
      OBVIOUS
    <3>5. \A i, j \in DOMAIN inp' : inp'[i].cmd = "go" /\ i < j => FALSE
      BY <1>2, <2>6, <3>2
    <3>6. \A i \in DOMAIN inp' : inp'[i].cmd = "go" => inp'[i].id = sent + 1
      BY <2>6, <3>2, <3>3
    <3>7. accepted' < pending'
      BY <1>2, <1>3, <2>2, <3>4 DEF Numbering
    <3> QED
      BY <2>2, <3>5, <3>6, <3>7 DEF GoOnItsWay
  <2> QED
    BY <1>3, <2>4, <2>5, <2>7
<1>5. CASE GuiSet
  <2>1. pending = 0 /\ pending' = 0 /\ sent' = sent
    BY <1>5 DEF GuiSet, Idle, FollowsProtocol
  <2>2. ~Engaged
    BY <1>2, <2>1 DEF EngagedForPending
  <2>3. PICK c \in Commands : Write(c) /\ c.cmd # "go"
    BY <1>5, CommandTypes, ConstantsAssumption DEF GuiSet
  <2>4. \A i \in DOMAIN inp : inp[i].cmd # "go"
    BY <1>2, <2>1 DEF GoOnItsWay
  <2>5. \A i \in DOMAIN inp' : inp'[i].cmd # "go"
    BY <1>2, <2>3, <2>4, LineWritten
  <2>6. EngagedForPending' /\ GoOnItsWay'
    BY <1>3, <2>2, <2>5 DEF EngagedForPending, GoOnItsWay
  <2>7. Numbering'
    BY <1>3, <2>1 DEF Numbering
  <2> QED
    BY <1>3, <2>6, <2>7
<1>6. CASE GuiInterrupt
  <2>1. pending' = pending /\ sent' = sent
    BY <1>6 DEF GuiInterrupt
  <2>2. PICK c \in Commands : Write(c) /\ c.cmd \in Interrupts /\ c.cmd # "go"
    BY <1>6, CommandTypes, ConstantsAssumption DEF GuiInterrupt, Interrupts
  <2>3. /\ inp' \in Seq(Commands)
        /\ \A i \in DOMAIN inp' : (i \in DOMAIN inp /\ inp'[i] = inp[i])
                                 \/ (i = Len(inp) + 1 /\ inp'[i] = c)
        /\ \A i \in DOMAIN inp : i < Len(inp) + 1
    BY <1>2, <2>2, LineWritten
  <2>4. OnlyInterrupts(inp) => OnlyInterrupts(inp')
    BY <2>2, <2>3 DEF OnlyInterrupts
  <2>5. EngagedForPending'
    BY <1>3, <2>1, <2>4 DEF EngagedForPending, OnlyInterrupts
  <2>6. Numbering'
    BY <1>3, <2>1 DEF Numbering
  <2>7. GoOnItsWay'
    BY <1>3, <2>1, <2>2, <2>3 DEF GoOnItsWay
  <2> QED
    BY <1>3, <2>5, <2>6, <2>7
<1> QED
  BY <1>4, <1>5, <1>6 DEF GuiSend

\* Handling a go: the go on its way becomes the one the worker is engaged for.
LEMMA SessionGo ==
  ASSUME FollowsProtocol, TypeOK, TypeOK', SessionInv, HandleGo
  PROVE  SessionInv'
<1> USE DEF SessionInv
<1>1. PICK g \in Gos, k \in GoKinds :
        /\ Line([cmd |-> "go", id |-> g, kind |-> k])
        /\ limit' = k /\ infinite' = (infinite \/ k = "infinite")
        /\ accepted' = g
  BY DEF HandleGo, AcceptGo
<1>2. /\ pending' = pending /\ bd' = bd /\ goBd' = bd /\ mpc' = "offer" /\ sent' = sent
      /\ status = "idle" /\ status' = status /\ wpc' = wpc /\ cur' = cur /\ told' = told
      /\ booked' = booked /\ gameHits' = gameHits /\ root' = root /\ savedBm' = savedBm
  BY <1>1, LineTaken DEF HandleGo, AcceptGo, flagVars, workVars, TypeOK
<1>3. g = pending /\ accepted < pending /\ OnlyInterrupts(inp') /\ GoOnItsWay'
  <2> DEFINE c == [cmd |-> "go", id |-> g, kind |-> k]
  <2>1. Line(c) /\ c.cmd = "go" /\ c.id = g
    BY <1>1
  <2> HIDE DEF c
  <2> QED
    BY <2>1, PipeAfterLine
<1>4. /\ accepted \in Nat /\ pending \in Nat /\ sent \in Nat /\ g \in Nat /\ g # 0
      /\ Gos \subseteq Nat
  BY ConstantsAssumption DEF TypeOK, Gos, ConstantsAssumption
<1>5. ~Engaged
  BY <1>3, <1>4 DEF EngagedForPending
<1>6. wpc = "recv"
  BY <1>2, <1>5 DEF Engaged, Computing, InSearch, StatusMeans, TypeOK, WorkerPCs
<1>7. SavedInItsTurn'
  <2>1. savedBm' = savedBm /\ savedBm <= accepted /\ savedBm < g /\ mpc' = "offer"
    BY <1>2, <1>3, <1>4 DEF SavedInItsTurn, TypeOK
  <2> QED
    BY <1>1, <1>4, <2>1 DEF SavedInItsTurn, Computing, TypeOK
<1>8. told[g] = 0
  BY <1>3 DEF Numbering
<1>9. EngagedForPending'
  BY <1>1, <1>2, <1>3, <1>4, <1>8 DEF EngagedForPending
<1>10. Numbering'
  <2>1. pending # 0 => pending = sent
    BY DEF Numbering
  <2>2. \A x \in Gos : x > g => told[x] = 0 /\ booked[x] = {}
    BY <1>3, <1>4 DEF Numbering
  <2>3. \A x \in gameHits : x \in Gos /\ x <= g
    BY <1>3, <1>4 DEF Numbering
  <2> QED
    BY <1>1, <1>2, <1>3, <1>4, <2>1, <2>2, <2>3 DEF Numbering
<1>11. StatusMeans' /\ MainNeverWaits' /\ (InSearch => cur = accepted)' /\ RootIsGoPosition'
  BY <1>2, <1>6 DEF StatusMeans, MainNeverWaits, InSearch, RootIsGoPosition
<1> QED
  BY <1>3, <1>7, <1>9, <1>10, <1>11

\* Main's other actions.
LEMMA SessionMain ==
  ASSUME FollowsProtocol, TypeOK, TypeOK', SessionInv, ~misled', Main
  PROVE  SessionInv'
<1> USE DEF SessionInv
<1> DEFINE Same == /\ status' = status /\ wpc' = wpc /\ cur' = cur
                   /\ root' = root /\ goBd' = goBd /\ accepted' = accepted
                   /\ savedBm' = savedBm
<1>1. /\ savedBm \in Nat /\ accepted \in Nat /\ pending \in Nat /\ sent \in Nat /\ cur \in Nat
      /\ Gos \subseteq Nat
  BY ConstantsAssumption DEF TypeOK, Gos, ConstantsAssumption
<1>2. CASE HandleGoRefused
  <2>1. PICK g \in Gos, k \in GoKinds : Line([cmd |-> "go", id |-> g, kind |-> k])
    BY <1>2 DEF HandleGoRefused
  <2>2. /\ UNCHANGED <<pending, mainVars, flagVars, workVars, statVars, histVars, told>>
        /\ sent' = sent
    BY <1>2, <2>1, LineTaken DEF HandleGoRefused, TypeOK
  <2>3. GoOnItsWay' /\ (OnlyInterrupts(inp) => OnlyInterrupts(inp'))
    BY <2>1, <2>2, PipeAfterLine DEF histVars
  <2> QED
    BY <2>2, <2>3 DEF mainVars, flagVars, workVars, statVars, histVars, StatusMeans,
         MainNeverWaits, EngagedForPending, Engaged, Computing, InSearch, SavedInItsTurn,
         Numbering, RootIsGoPosition
<1>3. CASE HandleGo
  BY <1>3, SessionGo
<1>4. CASE Handoff
  BY <1>1, <1>4 DEF Handoff, guiVars, flagVars, statVars, histVars, StatusMeans,
       MainNeverWaits, EngagedForPending, Engaged, Computing, InSearch, GoOnItsWay, OnlyInterrupts,
       SavedInItsTurn, Numbering, RootIsGoPosition
<1>5. CASE Deliver
  <2>1. /\ wpc = "sending" /\ wpc' = "idling" /\ mpc = "select" /\ inp' = inp
        /\ infinite' = infinite /\ status' = status /\ cur' = cur /\ root' = root
        /\ goBd' = goBd /\ accepted' = accepted /\ sent' = sent /\ mpc' = mpc /\ bd' = bd
        /\ booked' = booked /\ gameHits' = gameHits
    BY <1>5 DEF Deliver, flagVars, statVars, histVars
  <2>2. /\ cur = accepted /\ accepted # 0 /\ pending = accepted /\ OnlyInterrupts(inp)
        /\ savedBm < accepted
    BY <2>1 DEF InSearch, EngagedForPending, Engaged, Computing, SavedInItsTurn
  <2>3. ~Computing' /\ StatusMeans' /\ MainNeverWaits' /\ (InSearch => cur = accepted)'
        /\ RootIsGoPosition'
    BY <2>1 DEF Computing, InSearch, StatusMeans, MainNeverWaits, RootIsGoPosition
  <2>4. CASE infinite
    <3>1. savedBm' = accepted /\ pending' = pending /\ told' = told
      BY <1>5, <2>2, <2>4 DEF Deliver
    <3>2. EngagedForPending' /\ GoOnItsWay'
      BY <2>1, <2>2, <2>4, <3>1 DEF EngagedForPending, Engaged, GoOnItsWay
    <3>3. SavedInItsTurn' /\ Numbering'
      BY <1>1, <2>1, <2>3, <3>1 DEF SavedInItsTurn, Numbering
    <3> QED
      BY <2>3, <3>2, <3>3
  <2>5. CASE ~infinite
    <3>1. pending' = 0 /\ told' = [told EXCEPT ![cur] = @ + 1] /\ savedBm' = savedBm
      BY <1>5, <2>2, <2>5 DEF Deliver, Tell
    <3>2. EngagedForPending' /\ GoOnItsWay'
      BY <2>1, <2>2, <2>3, <2>5 DEF EngagedForPending, Engaged, GoOnItsWay, OnlyInterrupts,
           Interrupts
    <3>3. \A g \in Gos : g > accepted' => told'[g] = 0 /\ booked'[g] = {}
      BY <1>1, <2>1, <2>2, <3>1 DEF Numbering, TypeOK
    <3>4. SavedInItsTurn' /\ Numbering'
      BY <1>1, <2>1, <2>2, <2>3, <2>5, <3>1, <3>3 DEF SavedInItsTurn, Numbering
    <3> QED
      BY <2>3, <3>2, <3>4
  <2> QED
    BY <2>4, <2>5
<1>6. ASSUME NEW c, Line(c), c.cmd # "go", UNCHANGED <<pending, told, infinite>>, Same,
             bd' = bd \/ c.cmd \notin Interrupts,
             mpc' \in {"select", "exited"},
             \/ UNCHANGED <<booked, gameHits>>
             \/ FlushStats
      PROVE  SessionInv'
  <2>1. /\ sent' = sent /\ mpc = "select" /\ GoOnItsWay'
        /\ OnlyInterrupts(inp) => c.cmd \in Interrupts /\ OnlyInterrupts(inp')
    BY <1>6, LineTaken, PipeAfterLine DEF TypeOK
  <2>2. (Engaged' <=> Engaged) /\ (Computing' <=> Computing)
    BY <1>6, <2>1 DEF Engaged, Computing, InSearch
  <2>3. EngagedForPending'
    BY <1>6, <2>1, <2>2 DEF EngagedForPending
  <2>4. /\ \A g \in Gos : g > accepted => booked'[g] = {}
        /\ \A g \in gameHits' : g \in gameHits
    <3>1. CASE UNCHANGED <<booked, gameHits>>
      BY <3>1 DEF Numbering
    <3>2. CASE FlushStats /\ started
      <4>1. gameHits' = {} /\ \A g \in Gos : g \notin gameHits => booked'[g] = booked[g]
        BY <3>2 DEF FlushStats
      <4>2. \A g \in Gos : g > accepted => g \notin gameHits
        BY <1>1 DEF Numbering
      <4> QED
        BY <4>1, <4>2 DEF Numbering
    <3>3. CASE FlushStats /\ ~started
      BY <3>3 DEF FlushStats, Numbering
    <3> QED
      BY <1>6, <3>1, <3>2, <3>3
  <2>5. Numbering' /\ SavedInItsTurn'
    BY <1>6, <2>1, <2>2, <2>4 DEF Numbering, SavedInItsTurn
  <2> QED
    BY <1>6, <2>1, <2>3, <2>5 DEF StatusMeans, MainNeverWaits, InSearch, RootIsGoPosition
<1>7. CASE HandleStop
  <2>1. CASE ~infinite
    BY <1>6, <1>7, <2>1, LineTaken DEF HandleStop, workVars, statVars, TypeOK
  <2>2. CASE infinite
    <3>1. /\ Same /\ Line([cmd |-> "stop"]) /\ Tell(savedBm) /\ mpc = "select" /\ mpc' = "select"
          /\ infinite' = FALSE /\ savedBm \in {0, accepted} /\ sent' = sent /\ bd' = bd
          /\ UNCHANGED <<gameHits, booked>>
      BY <1>7, <2>2, LineTaken DEF HandleStop, workVars, statVars, TypeOK
    <3>2. /\ accepted # 0 /\ pending = accepted /\ told[accepted] = 0 /\ bd = goBd
          /\ OnlyInterrupts(inp)
      BY <2>2 DEF Engaged, EngagedForPending
    <3>3. OnlyInterrupts(inp') /\ GoOnItsWay'
      <4> DEFINE c == [cmd |-> "stop"]
      <4>1. Line(c)
        BY <3>1
      <4> HIDE DEF c
      <4> QED
        BY <3>2, <4>1, PipeAfterLine
    <3>4. (Computing' <=> Computing) /\ StatusMeans' /\ MainNeverWaits'
          /\ (InSearch => cur = accepted)' /\ RootIsGoPosition'
      BY <3>1 DEF Computing, InSearch, StatusMeans, MainNeverWaits, RootIsGoPosition
    <3>5. SavedInItsTurn'
      BY <3>1, <3>4 DEF SavedInItsTurn
    <3>6. CASE savedBm = 0
      <4>1. UNCHANGED <<told, pending>>
        BY <3>1, <3>6 DEF Tell
      <4>2. EngagedForPending' /\ Numbering'
        BY <3>1, <3>2, <3>3, <4>1 DEF EngagedForPending, Numbering
      <4> QED
        BY <3>3, <3>4, <3>5, <4>2
    <3>7. CASE savedBm = accepted
      <4>1. ~Engaged'
        BY <1>1, <3>1, <3>4, <3>7 DEF SavedInItsTurn, Engaged
      <4>2. told' = [told EXCEPT ![accepted] = @ + 1] /\ pending' = 0
        BY <3>1, <3>2, <3>7 DEF Tell
      <4>3. \A g \in Gos : g > accepted' => told'[g] = 0 /\ booked'[g] = {}
        BY <1>1, <3>1, <4>2 DEF Numbering, TypeOK
      <4>4. EngagedForPending' /\ Numbering'
        BY <3>1, <4>1, <4>2, <4>3 DEF EngagedForPending, Numbering
      <4> QED
        BY <3>3, <3>4, <3>5, <4>4
    <3> QED
      BY <3>1, <3>6, <3>7
  <2> QED
    BY <2>1, <2>2
<1>8. CASE HandlePonderhit
  BY <1>6, <1>8, LineTaken DEF HandlePonderhit, histVars, mainVars, flagVars, workVars, statVars, TypeOK
<1>9. CASE HandlePosition
  BY <1>6, <1>9, LineTaken DEF HandlePosition, flagVars, workVars, statVars, histVars, TypeOK,
       Interrupts
<1>10. CASE HandleNewGame
  BY <1>6, <1>10, LineTaken DEF HandleNewGame, flagVars, workVars, histVars, TypeOK, Interrupts
<1>11. CASE HandleGuardedOption
  BY <1>6, <1>11, LineTaken DEF HandleGuardedOption, flagVars, workVars, statVars, histVars, TypeOK
<1>12. CASE HandleHash
  BY <1>6, <1>12, LineTaken DEF HandleHash, flagVars, workVars, statVars, histVars, TypeOK
<1>13. CASE HandleQuit
  BY <1>6, <1>13, LineTaken DEF HandleQuit, workVars, histVars, TypeOK
<1> QED
  BY <1>2, <1>3, <1>4, <1>5, <1>7, <1>8, <1>9, <1>10, <1>11, <1>12, <1>13 DEF Main

LEMMA SessionWorker ==
  ASSUME TypeOK, TypeOK', SessionInv, Worker
  PROVE  SessionInv'
<1> USE DEF SessionInv
<1>1. UNCHANGED <<inp, sent, pending, mpc, infinite, savedBm, bd, booked, told, accepted, goBd>>
  BY DEF Worker, Begin, CopyRoot, FinishByLimit, FinishByStop, FinishExhausted, SearchOver,
         ClearStop, GoIdle, guiVars, mainVars, statVars, histVars
<1>2. GoOnItsWay'
  BY <1>1 DEF GoOnItsWay
<1>3. /\ cur' = cur /\ mpc # "offer"
      /\ wpc # "recv" /\ (InSearch' <=> InSearch)
      /\ StatusMeans'
  BY DEF Worker, Begin, CopyRoot, FinishByLimit, FinishByStop, FinishExhausted, SearchOver,
         ClearStop, GoIdle, Step, flagVars, InSearch, StatusMeans, MainNeverWaits
<1>4. EngagedForPending' /\ MainNeverWaits' /\ (InSearch => cur = accepted)' /\ SavedInItsTurn'
  BY <1>1, <1>3 DEF EngagedForPending, MainNeverWaits, Engaged, Computing, SavedInItsTurn
<1>5. RootIsGoPosition'
  BY <1>1, <1>3 DEF Worker, Begin, CopyRoot, FinishByLimit, FinishByStop, FinishExhausted,
       SearchOver, ClearStop, GoIdle, Step, EngagedForPending, Engaged, Computing, InSearch, RootIsGoPosition
<1>6. \A g \in gameHits' : g \in Gos /\ g <= accepted
  <2>1. gameHits' = gameHits \/ (wpc = "searching" /\ gameHits' = gameHits \cup {cur})
    BY DEF Worker, Begin, CopyRoot, FinishByLimit, FinishByStop, FinishExhausted, SearchOver,
           ClearStop, GoIdle, Step, statVars
  <2>2. wpc = "searching" => cur = accepted /\ accepted \in Gos /\ accepted <= accepted
    BY ConstantsAssumption DEF InSearch, Engaged, Computing, EngagedForPending, TypeOK, Gos,
         ConstantsAssumption
  <2> QED
    BY <2>1, <2>2 DEF Numbering
<1>7. Numbering'
  BY <1>1, <1>6 DEF Numbering
<1> QED
  BY <1>1, <1>2, <1>3, <1>4, <1>5, <1>7

LEMMA SessionStep ==
  ASSUME FollowsProtocol, TypeOK, TypeOK', SessionInv, ~misled', [Next]_vars
  PROVE  SessionInv'
<1>1. CASE UNCHANGED vars
  BY <1>1 DEF vars, SessionInv, StatusMeans, MainNeverWaits, EngagedForPending, Engaged, Computing,
       InSearch, OnlyInterrupts, GoOnItsWay, SavedInItsTurn, Numbering, RootIsGoPosition
<1> QED
  BY <1>1, SessionGui, SessionMain, SessionWorker DEF Next, Exited

\* A GUI once misled stays so.
LEMMA MisledStays == misled /\ [Next]_vars => misled'
<1> SUFFICES ASSUME misled, [Next]_vars PROVE misled'
  OBVIOUS
<1>1. CASE Main
  BY <1>1 DEF Main, HandleGoRefused, HandleGo, AcceptGo, Handoff, Deliver, HandleStop,
       HandlePonderhit, HandlePosition, HandleNewGame, HandleGuardedOption, HandleHash,
       HandleQuit, histVars
<1>2. CASE Worker
  BY <1>2 DEF Worker, Begin, CopyRoot, FinishByLimit, FinishByStop, FinishExhausted,
       SearchOver, ClearStop, GoIdle, histVars
<1> QED
  BY <1>1, <1>2 DEF Next, GuiSend, Exited, vars, histVars

\* flushTablebaseGameStats books each search in the game it was played in.
LEMMA StatsFlush ==
  ASSUME TypeOK, StatsKept, FlushStats, playedIn' = playedIn, told' = told
  PROVE  /\ BookedInItsGame'
         /\ \A g \in Gos : told'[g] > 0 => booked'[g] = {playedIn'[g]}
         /\ gameHits' = {}
<1>1. CASE started
  <2>1. /\ gameHits' = {}
        /\ booked' = [g \in Gos |-> IF g \in gameHits THEN booked[g] \cup {game} ELSE booked[g]]
    BY <1>1 DEF FlushStats
  <2>2. \A g \in Gos : g \in gameHits => booked'[g] = {playedIn[g]}
    BY <2>1 DEF StatsKept, BookedInItsGame
  <2>3. \A g \in Gos : g \notin gameHits => booked'[g] = booked[g]
    BY <2>1
  <2> QED
    BY <2>1, <2>2, <2>3 DEF StatsKept, BookedInItsGame
<1>2. CASE ~started
  <2>1. UNCHANGED <<gameHits, booked>> /\ gameHits = {}
    BY <1>2 DEF FlushStats, StatsKept
  <2> QED
    BY <2>1 DEF StatsKept, BookedInItsGame
<1> QED
  BY <1>1, <1>2

LEMMA StatsStep ==
  ASSUME FollowsProtocol, TypeOK, TypeOK', SessionInv, SessionInv', StatsKept, ~misled',
         [Next]_vars
  PROVE  StatsKept'
<1> USE DEF SessionInv
<1>1. ASSUME UNCHANGED <<statVars, told>>,
             mpc' = "exited" <=> mpc = "exited",
             Engaged' =>
               Engaged /\ accepted' = accepted /\ (wpc' \in {"finished", "sending"} =>
                                                 wpc \in {"finished", "sending"})
               /\ (~Computing' => ~Computing)
      PROVE  StatsKept'
  <2>1. UNCHANGED <<started, gameHits, game, playedIn, booked, told>>
    BY <1>1 DEF statVars
  <2> QED
    BY <1>1, <2>1 DEF StatsKept, BookedInItsGame
<1>2. CASE UNCHANGED vars
  BY <1>1, <1>2 DEF vars, statVars, Engaged, Computing, InSearch
<1>3. CASE GuiSend
  BY <1>1, <1>3 DEF GuiSend, mainVars, workVars, histVars, Engaged, Computing, InSearch
<1>4. CASE HandleGoRefused
  BY <1>1, <1>4 DEF HandleGoRefused, mainVars, workVars, histVars, Engaged, Computing, InSearch
<1>5. CASE HandleGo
  <2>1. PICK g \in Gos, k \in GoKinds :
          /\ Line([cmd |-> "go", id |-> g, kind |-> k])
          /\ accepted' = g /\ playedIn' = [playedIn EXCEPT ![g] = game]
    BY <1>5 DEF HandleGo, AcceptGo
  <2>2. g = pending /\ accepted < pending
    <3> DEFINE c == [cmd |-> "go", id |-> g, kind |-> k]
    <3>1. Line(c) /\ c.cmd = "go" /\ c.id = g
      BY <2>1
    <3> HIDE DEF c
    <3> QED
      BY <3>1, PipeAfterLine
  <2>3. /\ started' = TRUE /\ mpc = "select" /\ mpc' = "offer" /\ wpc' = wpc
        /\ UNCHANGED <<gameHits, game, booked, told>>
    BY <1>5, <2>1 DEF HandleGo, AcceptGo, workVars, Line
  <2>4. told[g] = 0 /\ booked[g] = {} /\ g \notin gameHits
    <3>1. g > accepted /\ ~(g <= accepted)
      BY <2>2, ConstantsAssumption DEF TypeOK, Gos, ConstantsAssumption
    <3> QED
      BY <3>1 DEF Numbering
  <2>5. wpc' = "recv"
    BY <2>3 DEF MainNeverWaits
  <2>6. playedIn'[g] = game /\ \A x \in Gos : x # g => playedIn'[x] = playedIn[x]
    BY <2>1 DEF TypeOK
  <2>7. \A x \in gameHits : x \in Gos
    BY DEF Numbering
  <2> QED
    BY <2>1, <2>3, <2>4, <2>5, <2>6, <2>7 DEF StatsKept, BookedInItsGame, Computing
<1>6. CASE Handoff
  BY <1>1, <1>6 DEF Handoff, histVars, Engaged, Computing, InSearch
<1>7. CASE Deliver
  <2>1. /\ wpc = "sending" /\ wpc' = "idling" /\ mpc = "select" /\ mpc' = "select"
        /\ UNCHANGED <<started, gameHits, game, playedIn, booked, accepted, infinite>>
        /\ IF infinite THEN told' = told ELSE Tell(cur)
    BY <1>7 DEF Deliver, statVars, histVars
  <2>2. cur = accepted /\ accepted \in gameHits /\ started /\ playedIn[accepted] = game
    BY <2>1 DEF StatsKept, Engaged, Computing, InSearch
  <2>3. \A g \in Gos : told'[g] # told[g] => g \in gameHits
    BY <2>1, <2>2 DEF Tell, TypeOK
  <2> QED
    BY <2>1, <2>2, <2>3 DEF StatsKept, BookedInItsGame
<1>8. CASE HandleStop
  <2>1. /\ mpc = "select" /\ mpc' = mpc /\ infinite' = FALSE
        /\ UNCHANGED <<wpc, accepted>> /\ UNCHANGED statVars
        /\ infinite => savedBm \in {0, accepted}
        /\ IF infinite THEN Tell(savedBm) ELSE told' = told
    BY <1>8, LineTaken DEF HandleStop, workVars, TypeOK
  <2>2. (Computing' <=> Computing) /\ (Engaged' => Computing)
    BY <2>1 DEF Computing, InSearch, Engaged
  <2>3. CASE told' = told
    BY <1>1, <2>1, <2>2, <2>3 DEF Engaged, Computing
  <2>4. CASE infinite /\ savedBm = accepted /\ savedBm # 0
    <3>1. ~Computing /\ accepted \in gameHits
      BY <2>1, <2>4 DEF SavedInItsTurn, StatsKept, Engaged, TypeOK
    <3>2. \A g \in Gos : told'[g] # told[g] => g \in gameHits
      BY <2>1, <2>4, <3>1 DEF Tell, TypeOK
    <3> QED
      BY <2>1, <2>2, <3>1, <3>2 DEF StatsKept, BookedInItsGame, statVars
  <2> QED
    BY <2>1, <2>3, <2>4 DEF Tell
<1>9. CASE HandlePonderhit
  BY <1>1, <1>9 DEF HandlePonderhit, histVars, mainVars, workVars, Engaged, Computing, InSearch
<1>10. CASE HandlePosition
  BY <1>1, <1>10 DEF HandlePosition, workVars, histVars, Engaged, Computing, InSearch
<1>11. CASE HandleNewGame
  <2>1. /\ FlushStats /\ UNCHANGED <<mpc, wpc, accepted, playedIn, told>> /\ mpc = "select"
        /\ Line([cmd |-> "ucinewgame"])
    BY <1>11 DEF HandleNewGame, workVars, histVars, Line
  <2>2. ~Engaged
    BY <2>1, PipeAfterLine DEF EngagedForPending, Interrupts
  <2>3. ~Engaged'
    BY <1>11, <2>1, <2>2 DEF HandleNewGame, Engaged, Computing, InSearch
  <2> QED
    BY <2>1, <2>3, StatsFlush DEF StatsKept
<1>12. CASE HandleGuardedOption
  BY <1>1, <1>12 DEF HandleGuardedOption, workVars, histVars, Engaged, Computing, InSearch
<1>13. CASE HandleHash
  BY <1>1, <1>13 DEF HandleHash, workVars, histVars, Engaged, Computing, InSearch
<1>14. CASE HandleQuit
  <2>1. FlushStats /\ mpc' = "exited" /\ UNCHANGED <<playedIn, told>>
    BY <1>14 DEF HandleQuit
  <2> QED
    BY <2>1, StatsFlush DEF StatsKept
<1>15. CASE Worker
  <2>1. CASE SearchOver
    <3>1. /\ mpc # "exited" /\ mpc' = mpc /\ wpc = "searching" /\ accepted' = accepted
          /\ gameHits' = gameHits \cup {cur}
          /\ UNCHANGED <<started, game, playedIn, booked, told>>
      BY <2>1 DEF SearchOver, Step, mainVars, histVars
    <3>2. cur = accepted /\ Engaged
      BY <3>1 DEF Engaged, Computing, InSearch
    <3>3. started /\ playedIn[accepted] = game
      BY <3>1, <3>2 DEF StatsKept
    <3> QED
      BY <3>1, <3>2, <3>3 DEF StatsKept, BookedInItsGame
  <2>2. CASE Begin \/ CopyRoot \/ ClearStop \/ GoIdle
    <3>1. /\ UNCHANGED <<statVars, told, mpc, accepted>> /\ (Engaged' => Engaged)
          /\ (~Computing' => ~Computing)
          /\ (wpc' \in {"finished", "sending"} => wpc \in {"finished", "sending"})
      BY <2>2 DEF Begin, CopyRoot, ClearStop, GoIdle, Step, mainVars, histVars, Engaged,
           Computing, InSearch
    <3> QED
      BY <1>1, <3>1
  <2> QED
    BY <1>15, <2>1, <2>2 DEF Worker, FinishByLimit, FinishByStop, FinishExhausted
<1> QED
  BY <1>2, <1>3, <1>4, <1>5, <1>6, <1>7, <1>8, <1>9, <1>10, <1>11, <1>12, <1>13, <1>14,
     <1>15 DEF Next, Main, Exited

\* IInv is inductive: with a GUI that follows the protocol, everything in it holds
\* at any time until a stop releases the bestmove of an earlier search.
THEOREM Inductive == ASSUME FollowsProtocol PROVE Spec => []IInv
<1>1. Init => IInv
  BY InvInit
<1>2. IInv /\ [Next]_vars => IInv'
  <2> SUFFICES ASSUME IInv, [Next]_vars PROVE IInv'
    OBVIOUS
  <2>1. TypeOK'
    BY TypeStep DEF IInv
  <2>2. ASSUME ~misled' PROVE SessionInv' /\ StatsKept'
    <3>1. ~misled
      BY <2>2, MisledStays DEF IInv
    <3>2. TypeOK /\ SessionInv /\ StatsKept
      BY <3>1 DEF IInv
    <3>3. SessionInv'
      BY <2>1, <2>2, <3>2, SessionStep
    <3>4. StatsKept'
      BY <2>1, <2>2, <3>2, <3>3, StatsStep
    <3> QED
      BY <3>3, <3>4
  <2> QED
    BY <2>1, <2>2 DEF IInv
<1> QED
  BY <1>1, <1>2, PTL DEF Spec

LEMMA StatsCompleteHolds == ASSUME TypeOK, StatsKept PROVE StatsComplete
<1>1. \A g \in Gos : playedIn[g] < game => playedIn[g] # game
  BY DEF TypeOK
<1> QED
  BY <1>1 DEF StatsKept, StatsComplete

\* The position searched is the one the go was for, main is never stuck behind the
\* worker, and the statistics of a game are complete and its own, until a stop has
\* released the bestmove of an earlier search.
THEOREM Safety ==
  ASSUME FollowsProtocol
  PROVE  Spec => [](GoHandedOver /\ StatsRight)
<1>1. Spec => []IInv
  BY Inductive
<1>2. IInv => GoHandedOver /\ StatsRight
  BY StatsCompleteHolds DEF IInv, SessionInv, StatsKept, GoHandedOver, StatsRight
<1> QED
  BY <1>1, <1>2, PTL

\* Each search is counted once, in the statistics of the game it was played in, and the
\* statistics of a game that is over are complete.
THEOREM StatsAreRight == ASSUME FollowsProtocol PROVE Spec => []StatsRight
<1>1. Spec => []IInv
  BY Inductive
<1>2. IInv => StatsRight
  BY StatsCompleteHolds DEF IInv, StatsKept, StatsRight
<1> QED
  BY <1>1, <1>2, PTL

\* With infinite goes as with others, every bestmove the GUI receives answers the go
\* it is waiting on, and is the first to do so, unless a stop comes before an infinite
\* search has delivered and finds the bestmove of an earlier one.
THEOREM RightAnswers == ASSUME FollowsProtocol PROVE Spec => AnswersTheRightGo
<1>1. Spec => []IInv
  BY Inductive
<1>2. IInv /\ [Next]_vars
        => [~misled' => ToldInTime]_vars
  <2> SUFFICES ASSUME IInv, [Next]_vars, ~misled', NEW g \in Gos, told'[g] # told[g]
               PROVE  told'[g] = 1 /\ pending = g
    BY DEF ToldInTime
  <2>1. TypeOK /\ SessionInv
    BY MisledStays DEF IInv
  <2>2. CASE Deliver
    <3>1. Tell(cur) /\ wpc = "sending"
      BY <2>2 DEF Deliver
    <3>2. cur = accepted /\ pending = accepted /\ told[accepted] = 0 /\ accepted # 0
      BY <2>1, <3>1 DEF SessionInv, InSearch, Engaged, Computing, EngagedForPending
    <3> QED
      BY <2>1, <3>1, <3>2 DEF Tell, TypeOK
  <2>3. CASE HandleStop
    <3>1. Tell(savedBm) /\ infinite /\ savedBm \in {0, accepted}
      BY <2>3 DEF HandleStop
    <3>2. pending = accepted /\ told[accepted] = 0
      BY <2>1, <3>1 DEF SessionInv, Engaged, EngagedForPending
    <3> QED
      BY <2>1, <3>1, <3>2 DEF Tell, TypeOK
  <2>4. CASE ~Deliver /\ ~HandleStop
    <3>1. told' = told
      BY <2>4 DEF Next, GuiSend, Main, HandleGoRefused, HandleGo, AcceptGo, Handoff,
           HandlePonderhit, HandlePosition, HandleNewGame, HandleGuardedOption, HandleHash,
           HandleQuit, Worker, Begin, CopyRoot, FinishByLimit, FinishByStop, FinishExhausted,
           SearchOver, ClearStop, GoIdle, Exited, vars
    <3> QED
      BY <3>1
  <2> QED
    BY <2>2, <2>3, <2>4
<1> QED
  BY <1>1, <1>2, PTL DEF Spec, AnswersTheRightGo

\* While the worker searches, main changes neither the position nor an option nor the
\* tables.
THEOREM Undisturbed == ASSUME FollowsProtocol PROVE Spec => NoReconfiguration
<1>1. Spec => []IInv
  BY Inductive
<1>2. IInv /\ [Next]_vars => [~misled /\ wpc \in Searching => UNCHANGED <<bd, engine>>]_vars
  <2> SUFFICES ASSUME IInv, [Next]_vars, ~misled, wpc \in Searching PROVE UNCHANGED <<bd, engine>>
    OBVIOUS
  <2>1. OnlyInterrupts(inp) /\ TypeOK /\ TypeOK' /\ GoOnItsWay
    BY TypeStep DEF IInv, SessionInv, Searching, EngagedForPending, Engaged, Computing, InSearch
  <2>2. \A c : Line(c) => c.cmd \in Interrupts
    BY <2>1, PipeAfterLine
  <2>3. ~HandlePosition /\ ~HandleNewGame /\ ~HandleGuardedOption /\ ~HandleHash
    <3>1. /\ \A p \in Positions : ~Line([cmd |-> "position", pos |-> p])
          /\ \A c \in {"ucinewgame", "contempt", "hash"} : ~Line([cmd |-> c])
      BY <2>2 DEF Interrupts
    <3> QED
      BY <3>1, Zenon DEF HandlePosition, HandleNewGame, HandleGuardedOption, HandleHash
  <2>4. CASE Main
    BY <2>3, <2>4 DEF Main, HandleGoRefused, HandleGo, AcceptGo, Handoff, Deliver, HandleStop,
         HandlePonderhit, HandleQuit, mainVars
  <2>5. CASE Worker
    BY <2>5 DEF Worker, Begin, CopyRoot, FinishByLimit, FinishByStop, FinishExhausted,
         SearchOver, ClearStop, GoIdle, mainVars
  <2> QED
    BY <2>4, <2>5 DEF Next, GuiSend, Exited, vars, mainVars
<1> QED
  BY <1>1, <1>2, PTL DEF Spec, NoReconfiguration
=============================================================================
