------------------------- MODULE MatchMonitorProofs -------------------------
(***************************************************************************)
(* Proofs about MatchMonitor, for any book and size of block, any number   *)
(* of starts, stops and kills: that a block is counted only when it has    *)
(* been played whole, and that the directory is usable.                    *)
(***************************************************************************)
EXTENDS MatchMonitor, FiniteSetTheorems, TLAPS

-----------------------------------------------------------------------------
(* Types.                                                                  *)

Active == {"starting", "running", "stopping"}

Decisions == Results \cup {"none", "stopped_by_user", "invalid_insufficient_openings",
                           "invalid_unpaired_openings", "invalid_incomplete_block"}

Status == [state : Terminal \cup Active \cup {"none"}, pid : Monitors \cup {NoPid},
           games : 0..TargetGames, decision : Decisions, audited : BOOLEAN]

Report == [state : {"none", "running", "completed", "invalid", "interrupted"},
           counted : BOOLEAN]

Blocks == {SelectBlock(s) : s \in Seeds}

Monitor == [pc : {"none", "boot", "report", "launch", "playing", "dying", "finish",
                  "file", "gone"},
            seed : Seeds \cup {0}, st : Status, sig : BOOLEAN, stopped : BOOLEAN,
            fc : {"none", "playing", "told", "over", "failed"},
            book : {NoBlock} \cup Blocks, played : SUBSET (Openings \X Colours), seen : Nat,
            result : Results \cup {"none"}]

StartCommand == [pc : {"idle", "block", "write", "save", "report", "spawn", "load", "pid"},
                 st : Status]

Types ==
  /\ status \in Status
  /\ report \in Report
  /\ block \in {NoBlock} \cup Blocks
  /\ pgn \in [Openings \X Colours -> Nat]
  /\ mon \in [Monitors -> Monitor]
  /\ starter \in [Starts -> StartCommand]
  /\ stopper \in [pc : {"idle", "request", "signal", "await", "mark", "report"},
                  st : Status]
  /\ starts \in 0..MaxStarts /\ stops \in Nat /\ kills \in Nat
  /\ counted \in BOOLEAN /\ overruled \in BOOLEAN /\ overlapped \in BOOLEAN

-----------------------------------------------------------------------------
(* The inductive invariant.                                                *)

\* The start command has not launched its monitor yet.
Launching(s) == starter[s].pc \in {"block", "write", "save", "report", "spawn"}

\* A monitor that plays, or will.
Occupies(m) ==
  mon[m].pc \in {"boot", "report", "launch", "playing", "dying", "finish"}

\* A start command that is at work has been given; while its monitor is not born
\* nothing is known of it but its seed.
StarterOK(s) ==
  /\ Starting(s) => s <= starts
  /\ Launching(s) => mon[s].pc = "none"
  /\ starter[s].pc \in {"block", "write", "save", "report", "spawn", "load"} =>
       starter[s].st = InitialStatus
  /\ starter[s].pc = "write" => mon[s].seed \in Seeds
  /\ starter[s].pc \in {"report", "spawn", "load", "pid"} => status.state # "none"
  /\ starter[s].pc = "pid" => starter[s].st.pid \in Monitors /\ starter[s].st.state \in Active

StarterInv ==
  /\ \A s \in Starts : StarterOK(s)
  /\ \A m \in Monitors : m > starts => mon[m].pc = "none"

\* A status of a match that runs or is being stopped carries the number of a monitor;
\* the stop command reports what it has marked.
PidInv ==
  /\ status.state \in {"running", "stopping"} => status.pid \in Monitors
  /\ stopper.pc \in {"request", "signal", "await"} => stopper.st.pid \in Monitors
  /\ stopper.pc = "report" => stopper.st.state = "stopped"

\* Each monitor by itself: how far its match is, and the status it has in hand.
MonitorOK(m) ==
  LET r == mon[m]
  IN /\ r.pc \in {"none", "boot", "report", "launch"} =>
          r.fc = "none" /\ r.played = {} /\ r.seen = 0
     /\ r.pc \in {"report", "launch"} => r.st = RunningStatus(m)
     /\ r.pc \in {"playing", "dying"} => r.fc # "none" /\ r.st.games = r.seen
     /\ r.pc \in {"playing", "dying", "finish"} =>
          r.st.state \in {"running", "stopping"} /\ r.st.pid = m
     /\ r.pc \in {"finish", "file"} =>
          r.fc \in {"over", "failed"} /\ r.played = {} /\ r.seen = 0
     /\ r.pc = "file" => r.st.state \in Terminal
     /\ r.pc = "gone" => r.seen = 0
     /\ r.seen <= Cardinality(r.played)
     /\ r.played \subseteq Games(r.book)
     /\ r.pc \in {"report", "launch", "playing", "dying", "finish", "file"} =>
          block # NoBlock

MonitorInv == \A m \in Monitors : MonitorOK(m)

\* A match, or the one start command that prepares it, has its directory to itself, and
\* its status says that it is on.
AloneInv ==
  /\ \A m, n \in Monitors : Occupies(m) /\ Occupies(n) => m = n
  /\ \A m \in Monitors : Occupies(m) =>
       status.state \in Active /\ \A s \in Starts : ~ Launching(s)
  /\ \A s \in Starts : starter[s].pc \in {"report", "spawn"} => status.state \in Active
  /\ \A s, t \in Starts : Starting(s) /\ Starting(t) => s = t

\* Every game that the monitor has been told of is in the file, and is one of the block.
Whole == block # NoBlock /\ \A g \in Games(block) : pgn[g] > 0

PlayedInv ==
  \A m \in Monitors :
    /\ mon[m].pc \in {"playing", "dying"} =>
         mon[m].book = block /\ \A g \in mon[m].played : pgn[g] > 0
    /\ mon[m].pc = "finish" /\ mon[m].st.games = TargetGames => Whole

\* From the moment a monitor has found its block complete nobody plays, and
\* nobody is let in.
Complete(m) == mon[m].pc = "file" /\ mon[m].st.state = "completed"

CompleteInv ==
  /\ \A m \in Monitors : Complete(m) => status.state \in Active \cup {"completed"}
  /\ report.counted \/ (\E m \in Monitors : Complete(m)) =>
       /\ Whole
       /\ \A s \in Starts : ~ Launching(s)
       /\ \A m \in Monitors : ~ Occupies(m)

IInv ==
  /\ Types /\ StarterInv /\ PidInv /\ MonitorInv
  /\ Apart => AloneInv /\ PlayedInv /\ CompleteInv

-----------------------------------------------------------------------------
(* A block of openings and its games.                                      *)

\* The book has finitely many openings.
LEMMA OpeningsFinite ==
  IsFiniteSet(Openings) /\ Cardinality(Openings) \in Nat
<1>1. Len(Book) \in Nat /\ DOMAIN Book = 1..Len(Book)
  BY BlockAssumption DEF BlockAssumption
<1>2. Book \in [1..Len(Book) -> Openings]
  BY BlockAssumption
<1>3. \A o \in Openings : \E i \in 1..Len(Book) : Book[i] = o
  BY <1>1 DEF Openings, ToSet
<1>4. Book \in Surjection(1..Len(Book), Openings)
  BY <1>2, <1>3 DEF Surjection
<1>5. IsFiniteSet(1..Len(Book))
  BY <1>1, FS_Interval
<1>6. IsFiniteSet(Openings)
  BY <1>4, <1>5, FS_Surjection
<1> QED BY <1>6, FS_CardinalityType

\* Every place in the order of hashes has its opening.
LEMMA InPlaceOpening ==
  ASSUME NEW s \in Seeds, NEW n \in 1..Cardinality(Openings)
  PROVE  InPlace(s, n) \in Openings
<1>1. Rank[s] \in Surjection(Openings, 1..Cardinality(Openings))
  BY BlockAssumption DEF Bijection
<1>2. \E o \in Openings : Rank[s][o] = n
  BY <1>1 DEF Surjection
<1> QED BY <1>2 DEF InPlace

\* A block has as many openings as it should have, from the book.
LEMMA SelectBlockType ==
  ASSUME NEW s \in Seeds
  PROVE  SelectBlock(s) \in [1..BlockSize -> Openings]
<1>1. \A i \in 1..BlockSize : BlockIndex * BlockSize + i \in 1..Cardinality(Openings)
  <2> TAKE i \in 1..BlockSize
  <2> DEFINE k == BlockIndex * BlockSize
  <2>1. BlockSize \in Nat /\ BlockIndex \in Nat /\ k \in Nat
    BY BlockAssumption
  <2>2. (BlockIndex + 1) * BlockSize = k + BlockSize
    BY <2>1
  <2>3. Cardinality(Openings) >= k + BlockSize /\ Cardinality(Openings) \in Nat
    BY <2>2, BlockAssumption, OpeningsFinite
  <2> HIDE DEF k
  <2>4. k + i \in 1..Cardinality(Openings)
    BY <2>1, <2>3
  <2> QED BY <2>4 DEF k
<1> QED BY <1>1, InPlaceOpening DEF SelectBlock

LEMMA TargetGamesType == TargetGames \in Nat \ {0}
BY BlockAssumption DEF TargetGames

\* The games of a block are games of the book, and no more than the match plays.
LEMMA GamesOfBlock ==
  ASSUME NEW b \in {NoBlock} \cup Blocks
  PROVE  /\ Games(b) \subseteq Openings \X Colours
         /\ IsFiniteSet(Games(b)) /\ Cardinality(Games(b)) \in 0..TargetGames
         /\ b \in Blocks => b # NoBlock
         /\ b = NoBlock => Games(b) = {}
<1>1. CASE b = NoBlock
  <2>1. Games(b) = {}
    BY <1>1 DEF Games, ToSet, NoBlock
  <2>2. b \notin Blocks
    <3> SUFFICES ASSUME NEW s \in Seeds, b = SelectBlock(s) PROVE FALSE
      BY DEF Blocks
    <3>1. DOMAIN b = 1..BlockSize
      BY SelectBlockType
    <3>2. 1 \in DOMAIN b
      BY <3>1, BlockAssumption
    <3> QED BY <3>2, <1>1 DEF NoBlock
  <2> QED BY <1>1, <2>1, <2>2, FS_EmptySet, TargetGamesType
<1>2. CASE b \in Blocks
  <2>1. b \in [1..BlockSize -> Openings]
    BY <1>2, SelectBlockType DEF Blocks
  <2>2. b \in Surjection(1..BlockSize, ToSet(b))
    BY <2>1 DEF ToSet, Surjection
  <2>3. IsFiniteSet(1..BlockSize) /\ Cardinality(1..BlockSize) = BlockSize
    BY BlockAssumption, FS_Interval
  <2>4. IsFiniteSet(ToSet(b)) /\ Cardinality(ToSet(b)) <= BlockSize
    BY <2>2, <2>3, FS_Surjection
  <2>5. Cardinality(ToSet(b)) \in Nat
    BY <2>4, FS_CardinalityType
  <2>6. IsFiniteSet(Colours) /\ Cardinality(Colours) = 2
    <3>1. IsFiniteSet({"white"}) /\ Cardinality({"white"}) = 1
      BY FS_Singleton
    <3>2. Colours = {"white"} \cup {"black"} /\ "black" \notin {"white"}
      BY DEF Colours
    <3> QED BY <3>1, <3>2, FS_AddElement
  <2>7. /\ IsFiniteSet(Games(b))
        /\ Cardinality(Games(b)) = Cardinality(ToSet(b)) * 2
    BY <2>4, <2>6, FS_Product DEF Games
  <2>8. Cardinality(Games(b)) \in 0..TargetGames
    BY <2>4, <2>5, <2>7, BlockAssumption DEF TargetGames
  <2>9. ToSet(b) \subseteq Openings
    BY <2>1 DEF ToSet
  <2>10. b # NoBlock
    <3>1. 1 \in DOMAIN b
      BY <2>1, BlockAssumption
    <3> QED BY <3>1 DEF NoBlock
  <2> QED BY <1>2, <2>7, <2>8, <2>9, <2>10 DEF Games
<1> QED BY <1>1, <1>2

-----------------------------------------------------------------------------
(* The steps.                                                              *)

\* What the program writes first.
LEMMA InitialFiles ==
  /\ NoFile \in Status /\ NoReport \in Report /\ Unborn \in Monitor
  /\ InitialStatus \in Status
  /\ InitialStatus.state = "starting" /\ InitialStatus.games = 0
<1>1. NoFile \in Status
  BY TargetGamesType DEF NoFile, Status, Decisions, NoPid
<1>2. InitialStatus \in Status
  BY <1>1 DEF InitialStatus, Status, Active
<1>3. InitialStatus.state = "starting" /\ InitialStatus.games = 0
  BY DEF InitialStatus, NoFile
<1>4. NoReport \in Report
  BY DEF NoReport, Report
<1>5. Unborn \in Monitor
  BY <1>1 DEF Unborn, Monitor
<1> QED BY <1>1, <1>2, <1>3, <1>4, <1>5

LEMMA RunningStatusType ==
  ASSUME NEW m \in Monitors
  PROVE  /\ RunningStatus(m) \in Status
         /\ RunningStatus(m).state = "running" /\ RunningStatus(m).pid = m
         /\ RunningStatus(m).games = 0
<1>1. InitialStatus \in Status /\ InitialStatus.games = 0
  BY InitialFiles
<1> QED BY <1>1 DEF RunningStatus, Status, Active

LEMMA DeadType ==
  ASSUME NEW r \in Monitor
  PROVE  /\ Dead(r) \in Monitor
         /\ Dead(r).pc = "gone" /\ Dead(r).seen = 0
         /\ \/ Dead(r).played = {}
            \/ Dead(r).played = r.played /\ Dead(r).book = r.book
<1>1. Unborn \in Monitor /\ Unborn.seen = 0 /\ Unborn.played = {}
  BY InitialFiles DEF Unborn
<1>2. CASE r.fc \in {"playing", "told"}
  <2>1. Dead(r) = [Unborn EXCEPT !.pc = "gone", !.fc = r.fc, !.book = r.book,
                                 !.played = r.played]
    BY <1>2 DEF Dead
  <2>2. r.played \in SUBSET (Openings \X Colours)
        /\ r.fc \in {"none", "playing", "told", "over", "failed"}
        /\ r.book \in {NoBlock} \cup Blocks
    BY DEF Monitor
  <2> QED BY <1>1, <2>1, <2>2, ZenonT(30) DEF Monitor
<1>3. CASE r.fc \notin {"playing", "told"}
  <2>1. Dead(r) = [Unborn EXCEPT !.pc = "gone"]
    BY <1>3 DEF Dead
  <2>2. Dead(r) \in Monitor
    BY <1>1, <2>1, ZenonT(30) DEF Monitor
  <2>3. Dead(r).pc = "gone" /\ Dead(r).seen = 0 /\ Dead(r).played = {}
    BY <2>1 DEF Unborn
  <2> QED BY <2>2, <2>3
<1> QED BY <1>2, <1>3

LEMMA InitIInv == Init => IInv
<1> SUFFICES ASSUME Init PROVE IInv
  OBVIOUS
<1>1. Types
  <2>1. NoStart.st \in Status /\ NoStop.st \in Status
    BY InitialFiles DEF NoStart, NoStop
  <2>2. mon \in [Monitors -> Monitor] /\ pgn \in [Openings \X Colours -> Nat]
    BY InitialFiles DEF Init, EmptyPGN
  <2>3. starts \in 0..MaxStarts
    BY BoundsAssumption DEF Init
  <2>4. starter \in [Starts -> StartCommand]
    BY InitialFiles DEF Init, NoStart, StartCommand
  <2>5. counted \in BOOLEAN /\ overruled \in BOOLEAN /\ overlapped \in BOOLEAN
    BY DEF Init
  <2> QED BY InitialFiles, <2>1, <2>2, <2>3, <2>4, <2>5 DEF Types, Init, NoStop
<1>2. StarterInv /\ PidInv
  <2>1. \A s \in Starts : starter[s].pc = "idle"
    BY DEF Init, NoStart
  <2>2. \A m \in Monitors : mon[m].pc = "none"
    BY DEF Init, Unborn
  <2>3. PidInv
    BY DEF Init, PidInv, NoStop, NoFile
  <2> QED BY <2>1, <2>2, <2>3 DEF StarterInv, StarterOK, Launching, Starting, StartAt
<1>3. MonitorInv
  <2> SUFFICES ASSUME NEW m \in Monitors PROVE MonitorOK(m)
    BY DEF MonitorInv
  <2>1. mon[m] = Unborn
    BY DEF Init
  <2>2. /\ Unborn.pc = "none" /\ Unborn.fc = "none"
        /\ Unborn.played = {} /\ Unborn.seen = 0
    BY DEF Unborn
  <2>3. Unborn.seen <= Cardinality(Unborn.played)
    BY <2>2, FS_EmptySet
  <2> QED BY <2>1, <2>2, <2>3 DEF MonitorOK
<1>4. AloneInv /\ PlayedInv /\ CompleteInv
  BY DEF Init, AloneInv, PlayedInv, CompleteInv, Occupies, Complete, Unborn, NoStart, NoReport,
           Launching, Starting, StartAt
<1> QED BY <1>1, <1>2, <1>3, <1>4 DEF IInv

\* The report calls a block counted only for a status that is complete.
LEMMA WriteReportType ==
  ASSUME NEW st \in Status
  PROVE  /\ ReportFor(st) \in Report
         /\ ReportFor(st).counted => st.state = "completed" /\ st.games = TargetGames
BY DEF ReportFor, Report, BlockComplete

\* A start command goes on, and no other does.
LEMMA StarterGoes ==
  ASSUME IInv, NEW s \in Starts, NEW c \in StartCommand, StarterTo(s, c)
  PROVE  /\ starter' \in [Starts -> StartCommand] /\ starter'[s] = c
         /\ \A t \in Starts : t # s => starter'[t] = starter[t]
BY DEF IInv, Types, StarterTo

\* What a start command is given, and what is left of it.
LEMMA StarterTypes ==
  /\ NoStart \in StartCommand /\ NoStart.pc = "idle"
  /\ [pc |-> "block", st |-> InitialStatus] \in StartCommand
BY InitialFiles DEF NoStart, StartCommand

\* Only a start that finds nobody is let in without a note.
LEMMA StartGivenStep ==
  ASSUME IInv, StartGiven
  PROVE  IInv'
<1>1. starts' \in Starts /\ starts' = starts + 1 /\ starts \in Nat
  BY BoundsAssumption DEF IInv, Types, StartGiven, Starts
<1>2. /\ UNCHANGED <<status, report, block, pgn, mon, stopper, counted, overruled>>
      /\ stops' \in Nat /\ kills' \in Nat /\ overlapped' \in BOOLEAN
  <2>1. stops \in Nat /\ kills \in Nat /\ overlapped \in BOOLEAN
    BY DEF IInv, Types
  <2>2. \/ stops' = stops + 1 /\ kills' = kills + 1 /\ overlapped' = TRUE
        \/ UNCHANGED <<stops, kills, overlapped>>
    BY DEF StartGiven
  <2>3. stops' \in Nat /\ kills' \in Nat
    BY <2>1, <2>2
  <2>4. overlapped' \in BOOLEAN
    BY <2>1, <2>2, Zenon
  <2> QED BY <2>3, <2>4 DEF StartGiven, files
<1>3. PidInv' /\ MonitorInv'
  BY <1>2 DEF IInv, PidInv, MonitorInv, MonitorOK, Monitors
<1>4. CASE ~ LetIn
  <2>1. starter' = starter /\ overlapped' = overlapped
    BY <1>4 DEF StartGiven
  <2>2. Types'
    BY <1>1, <1>2, <2>1 DEF IInv, Types, Starts
  <2>3. StarterInv'
    BY <1>1, <1>2, <2>1 DEF IInv, Types, StarterInv, StarterOK, Starting, StartAt, Launching,
                            Monitors, Starts
  <2>4. ASSUME Apart' PROVE AloneInv' /\ PlayedInv' /\ CompleteInv'
    BY <1>2, <2>1, <2>4 DEF IInv, Apart, AloneInv, PlayedInv, CompleteInv, Occupies, Complete,
                            Launching, Starting, StartAt, Whole
  <2> QED BY <1>3, <2>2, <2>3, <2>4 DEF IInv
<1>5. CASE LetIn
  <2>1. PICK s \in Starts : s = starts'
    BY <1>1
  <2>2. /\ starter' \in [Starts -> StartCommand]
        /\ starter'[s] = [pc |-> "block", st |-> InitialStatus]
        /\ \A t \in Starts : t # s => starter'[t] = starter[t]
    BY <1>5, <2>1, StarterGoes, StarterTypes DEF StartGiven
  <2>3. Types'
    BY <1>1, <1>2, <2>2 DEF IInv, Types, Starts
  <2>4. mon[s].pc = "none"
    BY <1>1, <2>1 DEF IInv, StarterInv, Monitors
  <2>5. StarterInv'
    <3>1. \A t \in Starts : t # s => StarterOK(t)'
      BY <1>1, <1>2, <2>1, <2>2 DEF IInv, StarterInv, StarterOK, Starting, StartAt, Launching, Starts
    <3>2. StarterOK(s)'
      BY <1>2, <2>1, <2>2, <2>4 DEF StarterOK, Starting, StartAt, Launching, Starts
    <3>3. \A m \in Monitors : m > starts' => mon'[m].pc = "none"
      BY <1>1, <1>2 DEF IInv, StarterInv, Monitors, Starts
    <3> QED BY <3>1, <3>2, <3>3 DEF StarterInv
  <2>6. ASSUME Apart' PROVE AloneInv' /\ PlayedInv' /\ CompleteInv'
    <3>1. ~ Beside /\ Apart
      BY <1>5, <2>6 DEF StartGiven, Apart
    <3>2. /\ \A t \in Starts : ~ Starting(t)
          /\ \A m \in Monitors : ~ Occupies(m) /\ ~ Complete(m)
          /\ ~ report.counted
      BY <1>5, <3>1 DEF IInv, Beside, LetIn, Refuses, AloneInv, CompleteInv, Occupies, Complete,
                        Alive, Active
    <3>3. \A t \in Starts : t # s => starter'[t].pc = "idle"
      BY <2>2, <3>2 DEF Starting, StartAt
    <3>4. AloneInv'
      BY <1>2, <2>2, <3>2, <3>3 DEF AloneInv, Occupies, Starting, StartAt
    <3>5. PlayedInv' /\ CompleteInv'
      BY <1>2, <3>1, <3>2 DEF IInv, PlayedInv, CompleteInv, Complete, Whole
    <3> QED BY <3>4, <3>5
  <2> QED BY <1>3, <2>3, <2>5, <2>6 DEF IInv
<1> QED BY <1>4, <1>5

\* A start command goes on, or gives up, without touching a monitor or a file.
LEMMA StarterStep ==
  ASSUME IInv, NEW s \in Starts, NEW c \in StartCommand, StarterTo(s, c), Starting(s),
         UNCHANGED <<status, report, block, pgn, mon, stopper, ghosts>>,
         starts' = starts, stops' \in Nat, kills' \in Nat,
         c.pc \notin {"block", "write", "save", "report", "spawn", "load"},
         c.pc = "pid" => /\ c.st.pid \in Monitors /\ c.st.state \in Active
                         /\ starter[s].pc = "load"
  PROVE  IInv'
<1>1. /\ starter' \in [Starts -> StartCommand] /\ starter'[s] = c
      /\ \A t \in Starts : t # s => starter'[t] = starter[t]
  BY StarterGoes
<1>2. Types'
  BY <1>1 DEF IInv, Types, ghosts
<1>3. PidInv' /\ MonitorInv'
  BY DEF IInv, PidInv, MonitorInv, MonitorOK
<1>4. StarterInv'
  <2>1. \A t \in Starts : t # s => StarterOK(t)'
    BY <1>1 DEF IInv, StarterInv, StarterOK, Starting, StartAt, Launching
  <2>2. StarterOK(s)'
    BY <1>1 DEF IInv, StarterInv, StarterOK, Starting, StartAt, Launching
  <2> QED BY <2>1, <2>2 DEF IInv, StarterInv
<1>5. ASSUME Apart' PROVE AloneInv' /\ PlayedInv' /\ CompleteInv'
  <2>1. AloneInv /\ PlayedInv /\ CompleteInv
    BY <1>5 DEF IInv, Apart, ghosts
  <2>2. \A t \in Starts : (Starting(t)' => Starting(t)) /\ (Launching(t)' => Launching(t))
                          /\ (starter'[t].pc \in {"report", "spawn"} => starter'[t] = starter[t])
    BY <1>1 DEF Starting, StartAt, Launching
  <2>3. AloneInv'
    BY <2>1, <2>2 DEF AloneInv, Occupies
  <2>4. PlayedInv' /\ CompleteInv'
    BY <2>1, <2>2 DEF PlayedInv, CompleteInv, Occupies, Complete, Whole, Monitors
  <2> QED BY <2>3, <2>4
<1> QED BY <1>2, <1>3, <1>4, <1>5 DEF IInv

\* What start command s goes on to; its status and its monitor are as they were.
LEMMA StarterGoesTo ==
  ASSUME IInv, NEW s \in Starts, NEW pc \in {"write", "save", "report", "spawn", "load"},
         StarterTo(s, [starter[s] EXCEPT !.pc = pc])
  PROVE  /\ starter' \in [Starts -> StartCommand]
         /\ starter'[s].pc = pc /\ starter'[s].st = starter[s].st
         /\ \A t \in Starts : t # s => starter'[t] = starter[t]
<1>1. starter[s] \in StartCommand
  BY DEF IInv, Types
<1>2. /\ [starter[s] EXCEPT !.pc = pc] \in StartCommand
      /\ [starter[s] EXCEPT !.pc = pc].pc = pc
      /\ [starter[s] EXCEPT !.pc = pc].st = starter[s].st
  BY <1>1 DEF StartCommand
<1> QED BY <1>2, StarterGoes

\* A look at the opening file: the seed is noted, and it is to be written or not.
LEMMA PrepareBlockStep ==
  ASSUME IInv, NEW s \in Starts, PrepareBlock(s)
  PROVE  IInv'
<1>0. /\ starter[s].pc = "block" /\ mon[s].pc = "none" /\ starter[s].st = InitialStatus
      /\ s \in Monitors /\ s <= starts /\ stops \in Nat /\ kills \in Nat
      /\ UNCHANGED <<status, report, block, pgn, stopper, bounds, ghosts>>
  BY DEF IInv, Types, PrepareBlock, StartAt, StarterInv, StarterOK, Starting, Launching,
         Monitors, files
<1>1. CASE StarterTo(s, NoStart) /\ UNCHANGED mon
  BY <1>0, <1>1, StarterStep, StarterTypes DEF Starting, StartAt, bounds
<1>2. ASSUME NEW seed \in SeedsOf[s], NEW pc \in {"write", "save"},
             StarterTo(s, [starter[s] EXCEPT !.pc = pc]),
             mon' = [mon EXCEPT ![s].seed = seed]
      PROVE  IInv'
  <2>1. seed \in Seeds
    BY BoundsAssumption
  <2>s. /\ starter' \in [Starts -> StartCommand]
        /\ starter'[s].pc = pc /\ starter'[s].st = InitialStatus
        /\ \A t \in Starts : t # s => starter'[t] = starter[t]
    BY <1>0, <1>2, StarterGoesTo
  <2>m. /\ mon'[s] = [mon[s] EXCEPT !.seed = seed] /\ mon[s] \in Monitor
        /\ \A n \in Monitors \ {s} : mon'[n] = mon[n]
    BY <1>0, <1>2 DEF IInv, Types
  <2>n. /\ mon'[s] \in Monitor /\ mon'[s].seed = seed
        /\ \A n \in Monitors : /\ mon'[n].pc = mon[n].pc /\ mon'[n].st = mon[n].st
                               /\ mon'[n].fc = mon[n].fc /\ mon'[n].played = mon[n].played
                               /\ mon'[n].seen = mon[n].seen /\ mon'[n].book = mon[n].book
    BY <2>1, <2>m DEF Monitor
  <2>3. Types'
    <3>1. mon' \in [Monitors -> Monitor]
      BY <1>0, <1>2, <2>n DEF IInv, Types
    <3> QED BY <1>0, <2>s, <3>1 DEF IInv, Types, bounds, ghosts
  <2>4. StarterInv' /\ PidInv'
    <3>1. \A t \in Starts : t # s => StarterOK(t)'
      BY <1>0, <2>s, <2>m, <2>n
         DEF IInv, StarterInv, StarterOK, Starting, StartAt, Launching, bounds, Monitors
    <3>2. StarterOK(s)'
      BY <1>0, <2>1, <2>s, <2>n DEF StarterOK, Starting, StartAt, Launching, bounds
    <3> QED BY <1>0, <2>n, <3>1, <3>2 DEF IInv, StarterInv, PidInv, bounds
  <2>5. MonitorInv'
    BY <1>0, <2>n DEF IInv, MonitorInv, MonitorOK
  <2>6. ASSUME Apart' PROVE AloneInv' /\ PlayedInv' /\ CompleteInv'
    <3>1. AloneInv /\ PlayedInv /\ CompleteInv
      BY <1>0, <2>6 DEF IInv, ghosts, Apart
    <3>2. \A t \in Starts : /\ Starting(t)' <=> Starting(t)
                            /\ Launching(t)' <=> Launching(t)
                            /\ starter'[t].pc \in {"report", "spawn"} => starter'[t] = starter[t]
      BY <1>0, <2>s DEF Starting, StartAt, Launching
    <3>3. AloneInv'
      BY <1>0, <2>n, <3>1, <3>2 DEF AloneInv, Occupies
    <3>4. PlayedInv' /\ CompleteInv'
      BY <1>0, <2>n, <3>1, <3>2 DEF PlayedInv, CompleteInv, Occupies, Complete, Whole, Monitors
    <3> QED BY <3>3, <3>4
  <2> QED BY <2>3, <2>4, <2>5, <2>6 DEF IInv
<1>3. CASE \E seed \in SeedsOf[s] :
             /\ StarterTo(s, [starter[s] EXCEPT !.pc = IF block = NoBlock THEN "write" ELSE "save"])
             /\ mon' = [mon EXCEPT ![s].seed = seed]
  BY <1>2, <1>3
<1> QED BY <1>1, <1>3 DEF PrepareBlock

\* A start command that nobody overlaps writes the block while nobody plays.
LEMMA WriteBlockStep ==
  ASSUME IInv, NEW s \in Starts, WriteBlock(s)
  PROVE  IInv'
<1>0. /\ starter[s].pc = "write" /\ mon[s].pc = "none" /\ s \in Monitors /\ s <= starts
      /\ starter[s].st = InitialStatus /\ mon[s].seed \in Seeds
      /\ UNCHANGED <<status, report, pgn, mon, stopper, bounds, ghosts>>
  BY DEF IInv, WriteBlock, StartAt, StarterInv, StarterOK, Starting, Launching, Monitors
<1>b. block' \in Blocks /\ block' # NoBlock
  BY <1>0, GamesOfBlock DEF WriteBlock, Blocks
<1>1. /\ starter' \in [Starts -> StartCommand]
      /\ starter'[s].pc = "save" /\ starter'[s].st = InitialStatus
      /\ \A t \in Starts : t # s => starter'[t] = starter[t]
  BY <1>0, StarterGoesTo DEF WriteBlock
<1>2. Types'
  BY <1>0, <1>b, <1>1 DEF IInv, Types, bounds, ghosts
<1>3. StarterInv'
  <2>1. \A t \in Starts : t # s => StarterOK(t)'
    BY <1>0, <1>1 DEF IInv, StarterInv, StarterOK, Starting, StartAt, Launching, bounds
  <2>2. StarterOK(s)'
    BY <1>0, <1>1 DEF StarterOK, Starting, StartAt, Launching, bounds
  <2> QED BY <1>0, <2>1, <2>2 DEF IInv, StarterInv, bounds
<1>4. PidInv' /\ MonitorInv'
  BY <1>0, <1>b DEF IInv, PidInv, MonitorInv, MonitorOK
<1>5. ASSUME Apart' PROVE AloneInv' /\ PlayedInv' /\ CompleteInv'
  <2>1. Launching(s) /\ AloneInv /\ CompleteInv
    BY <1>0, <1>5 DEF IInv, Launching, ghosts, Apart
  <2>2. \A t \in Starts : /\ Starting(t)' <=> Starting(t)
                          /\ Launching(t)' <=> Launching(t)
                          /\ starter'[t].pc \in {"report", "spawn"} => starter'[t] = starter[t]
    BY <1>0, <1>1 DEF Starting, StartAt, Launching
  <2>3. AloneInv'
    BY <1>0, <2>1, <2>2 DEF AloneInv, Occupies
  <2>4. (\A m \in Monitors : ~ Occupies(m) /\ ~ Complete(m)) /\ ~ report.counted
    BY <1>0, <2>1 DEF AloneInv, CompleteInv
  <2>5. PlayedInv' /\ CompleteInv'
    BY <1>0, <2>4 DEF PlayedInv, CompleteInv, Occupies, Complete
  <2> QED BY <2>3, <2>5
<1> QED BY <1>2, <1>3, <1>4, <1>5 DEF IInv

LEMMA SaveStartingStep ==
  ASSUME IInv, NEW s \in Starts, SaveStarting(s)
  PROVE  IInv'
<1>0. /\ starter[s].pc = "save" /\ mon[s].pc = "none" /\ s \in Monitors /\ s <= starts
      /\ status' = InitialStatus /\ starter[s].st = InitialStatus
      /\ UNCHANGED <<report, block, pgn, mon, stopper, bounds, ghosts>>
  BY DEF IInv, SaveStarting, StartAt, StarterInv, StarterOK, Starting, Launching, Monitors
<1>1. /\ starter' \in [Starts -> StartCommand]
      /\ starter'[s].pc = "report" /\ starter'[s].st = InitialStatus
      /\ \A t \in Starts : t # s => starter'[t] = starter[t]
  BY <1>0, StarterGoesTo DEF SaveStarting
<1>2. Types'
  BY <1>0, <1>1, InitialFiles DEF IInv, Types, bounds, ghosts
<1>3. StarterInv'
  <2>1. \A t \in Starts : t # s => StarterOK(t)'
    BY <1>0, <1>1, InitialFiles
       DEF IInv, StarterInv, StarterOK, Starting, StartAt, Launching, bounds
  <2>2. StarterOK(s)'
    BY <1>0, <1>1, InitialFiles DEF StarterOK, Starting, StartAt, Launching, bounds
  <2> QED BY <1>0, <2>1, <2>2 DEF IInv, StarterInv, bounds
<1>4. PidInv' /\ MonitorInv'
  BY <1>0, InitialFiles DEF IInv, PidInv, MonitorInv, MonitorOK
<1>5. ASSUME Apart' PROVE AloneInv' /\ PlayedInv' /\ CompleteInv'
  <2>1. AloneInv /\ PlayedInv /\ CompleteInv
    BY <1>0, <1>5 DEF IInv, Apart, ghosts
  <2>2. \A t \in Starts : (Starting(t)' <=> Starting(t)) /\ (Launching(t)' <=> Launching(t))
    BY <1>0, <1>1 DEF Starting, StartAt, Launching
  <2>3. status'.state = "starting"
    BY <1>0, InitialFiles
  <2>4. AloneInv'
    BY <1>0, <2>1, <2>2, <2>3 DEF AloneInv, Occupies, Active
  <2>5. PlayedInv' /\ CompleteInv'
    BY <1>0, <2>1, <2>2, <2>3 DEF PlayedInv, CompleteInv, Occupies, Complete, Whole, Active, Monitors
  <2> QED BY <2>4, <2>5
<1> QED BY <1>2, <1>3, <1>4, <1>5 DEF IInv

LEMMA ReportStartingStep ==
  ASSUME IInv, NEW s \in Starts, ReportStarting(s)
  PROVE  IInv'
<1>0. /\ starter[s].pc = "report" /\ mon[s].pc = "none" /\ s \in Monitors /\ s <= starts
      /\ starter[s].st = InitialStatus /\ status.state # "none"
      /\ UNCHANGED <<status, block, pgn, mon, stopper, bounds, overruled, overlapped>>
  BY DEF IInv, ReportStarting, StartAt, StarterInv, StarterOK, Starting, Launching, Monitors
<1>r. /\ report' = ReportFor(InitialStatus) /\ counted' = (counted \/ report'.counted)
      /\ report' \in Report /\ ~ report'.counted /\ counted' \in BOOLEAN
  BY <1>0, InitialFiles, WriteReportType DEF ReportStarting, WriteReport, IInv, Types, Report
<1>1. /\ starter' \in [Starts -> StartCommand]
      /\ starter'[s].pc = "spawn" /\ starter'[s].st = InitialStatus
      /\ \A t \in Starts : t # s => starter'[t] = starter[t]
  BY <1>0, StarterGoesTo DEF ReportStarting
<1>2. Types'
  BY <1>0, <1>r, <1>1 DEF IInv, Types, bounds
<1>3. StarterInv'
  <2>1. \A t \in Starts : t # s => StarterOK(t)'
    BY <1>0, <1>1 DEF IInv, StarterInv, StarterOK, Starting, StartAt, Launching, bounds
  <2>2. StarterOK(s)'
    BY <1>0, <1>1 DEF StarterOK, Starting, StartAt, Launching, bounds
  <2> QED BY <1>0, <2>1, <2>2 DEF IInv, StarterInv, bounds
<1>4. PidInv' /\ MonitorInv'
  BY <1>0 DEF IInv, PidInv, MonitorInv, MonitorOK
<1>5. ASSUME Apart' PROVE AloneInv' /\ PlayedInv' /\ CompleteInv'
  <2>1. AloneInv /\ PlayedInv /\ CompleteInv
    BY <1>0, <1>5 DEF IInv, Apart
  <2>2. \A t \in Starts : (Starting(t)' <=> Starting(t)) /\ (Launching(t)' <=> Launching(t))
    BY <1>0, <1>1 DEF Starting, StartAt, Launching
  <2>3. \A t \in Starts : starter'[t].pc \in {"report", "spawn"} =>
                          starter[t].pc \in {"report", "spawn"}
    BY <1>0, <1>1
  <2>4. AloneInv'
    BY <1>0, <2>1, <2>2, <2>3 DEF AloneInv, Occupies
  <2>5. PlayedInv' /\ CompleteInv'
    BY <1>0, <1>r, <2>1, <2>2 DEF PlayedInv, CompleteInv, Occupies, Complete, Whole, Monitors
  <2> QED BY <2>4, <2>5
<1> QED BY <1>2, <1>3, <1>4, <1>5 DEF IInv

\* The monitor is born while the status says that its match is on.
LEMMA SpawnStep ==
  ASSUME IInv, NEW s \in Starts, Spawn(s)
  PROVE  IInv'
<1>0. /\ starter[s].pc = "spawn" /\ mon[s].pc = "none" /\ s \in Monitors /\ s <= starts
      /\ starter[s].st = InitialStatus /\ status.state # "none"
      /\ mon' = [mon EXCEPT ![s].pc = "boot"] /\ mon \in [Monitors -> Monitor]
      /\ UNCHANGED <<status, report, block, pgn, stopper, bounds, ghosts>>
  BY DEF IInv, Types, Spawn, StartAt, StarterInv, StarterOK, Starting, Launching, Monitors, files
<1>1. /\ starter' \in [Starts -> StartCommand]
      /\ starter'[s].pc = "load" /\ starter'[s].st = InitialStatus
      /\ \A t \in Starts : t # s => starter'[t] = starter[t]
  BY <1>0, StarterGoesTo DEF Spawn
<1>m. /\ mon'[s] \in Monitor /\ mon'[s].pc = "boot" /\ mon'[s].fc = mon[s].fc
      /\ mon'[s].played = mon[s].played /\ mon'[s].seen = mon[s].seen
      /\ mon'[s].book = mon[s].book
      /\ \A n \in Monitors \ {s} : mon'[n] = mon[n]
      /\ mon' \in [Monitors -> Monitor]
  BY <1>0 DEF Monitor
<1>2. Types'
  BY <1>0, <1>1, <1>m DEF IInv, Types, bounds, ghosts
<1>3. StarterInv'
  <2>1. \A t \in Starts : t # s => StarterOK(t)'
    BY <1>0, <1>1, <1>m
       DEF IInv, StarterInv, StarterOK, Starting, StartAt, Launching, bounds, Monitors
  <2>2. StarterOK(s)'
    BY <1>0, <1>1 DEF StarterOK, Starting, StartAt, Launching, bounds
  <2>3. \A m \in Monitors : m > starts => m # s
    BY <1>0 DEF Monitors, Starts, IInv, Types
  <2> QED BY <1>0, <1>m, <2>1, <2>2, <2>3 DEF IInv, StarterInv, bounds
<1>4. PidInv' /\ MonitorInv'
  <2>1. \A n \in Monitors : n # s => MonitorOK(n)'
    BY <1>0, <1>m DEF IInv, MonitorInv, MonitorOK
  <2>2. MonitorOK(s)'
    BY <1>0, <1>m DEF IInv, MonitorInv, MonitorOK
  <2> QED BY <1>0, <2>1, <2>2 DEF IInv, PidInv, MonitorInv
<1>5. ASSUME Apart' PROVE AloneInv' /\ PlayedInv' /\ CompleteInv'
  <2>1. AloneInv /\ PlayedInv /\ CompleteInv /\ Launching(s) /\ Starting(s)
    BY <1>0, <1>5 DEF IInv, Apart, ghosts, Launching, Starting, StartAt
  <2>2. \A t \in Starts : Starting(t)' <=> Starting(t)
    BY <1>0, <1>1 DEF Starting, StartAt
  <2>3. \A t \in Starts : ~ Launching(t)' /\ starter'[t].pc \notin {"report", "spawn"}
    BY <1>1, <2>1, <2>2 DEF AloneInv, Launching, Starting, StartAt
  <2>4. /\ \A n \in Monitors : ~ Occupies(n) /\ ~ Complete(n)
        /\ ~ report.counted /\ status.state \in Active
    BY <1>0, <2>1 DEF AloneInv, CompleteInv
  <2>5. \A n \in Monitors : (Occupies(n)' => n = s) /\ ~ Complete(n)'
    BY <1>m, <2>4 DEF Occupies, Complete
  <2>6. AloneInv'
    BY <1>0, <2>1, <2>2, <2>3, <2>4, <2>5 DEF AloneInv
  <2>7. PlayedInv' /\ CompleteInv'
    BY <1>0, <1>m, <2>1, <2>4, <2>5 DEF PlayedInv, CompleteInv, Whole
  <2> QED BY <2>6, <2>7
<1> QED BY <1>2, <1>3, <1>4, <1>5 DEF IInv

\* The one start command gives up: nobody is left.
LEMMA SpawnFailsStep ==
  ASSUME IInv, NEW s \in Starts, SpawnFails(s)
  PROVE  IInv'
<1>0. /\ starter[s].pc = "spawn" /\ mon[s].pc = "none" /\ s \in Monitors
      /\ starter[s].st = InitialStatus
      /\ UNCHANGED <<block, pgn, mon, stopper, bounds, overruled, overlapped>>
  BY DEF IInv, SpawnFails, StartAt, StarterInv, StarterOK, Starting, Launching, Monitors
<1>s. status' \in Status /\ status'.state = "failed"
  BY <1>0, InitialFiles DEF SpawnFails, Status, Terminal
<1>r. /\ report' = ReportFor(status') /\ counted' = (counted \/ report'.counted)
      /\ report' \in Report /\ ~ report'.counted /\ counted' \in BOOLEAN
  BY <1>s, WriteReportType DEF SpawnFails, WriteReport, IInv, Types, Report
<1>1. /\ starter' \in [Starts -> StartCommand] /\ starter'[s].pc = "idle"
      /\ \A t \in Starts : t # s => starter'[t] = starter[t]
  BY StarterGoes, StarterTypes DEF SpawnFails
<1>2. Types'
  BY <1>0, <1>s, <1>r, <1>1 DEF IInv, Types, bounds
<1>3. StarterInv'
  <2>1. \A t \in Starts : t # s => StarterOK(t)'
    BY <1>0, <1>1, <1>s DEF IInv, StarterInv, StarterOK, Starting, StartAt, Launching, bounds
  <2>2. StarterOK(s)'
    BY <1>1 DEF StarterOK, Starting, StartAt, Launching
  <2> QED BY <1>0, <2>1, <2>2 DEF IInv, StarterInv, bounds
<1>4. PidInv' /\ MonitorInv'
  BY <1>0, <1>s DEF IInv, PidInv, MonitorInv, MonitorOK
<1>5. ASSUME Apart' PROVE AloneInv' /\ PlayedInv' /\ CompleteInv'
  <2>1. AloneInv /\ PlayedInv /\ CompleteInv /\ Launching(s) /\ Starting(s)
    BY <1>0, <1>5 DEF IInv, Apart, Launching, Starting, StartAt
  <2>2. \A t \in Starts : ~ Starting(t)'
    BY <1>1, <2>1 DEF AloneInv, Starting, StartAt
  <2>3. \A t \in Starts : ~ Launching(t)' /\ starter'[t].pc \notin {"report", "spawn"}
    BY <2>2 DEF Launching, Starting, StartAt
  <2>4. \A n \in Monitors : ~ Occupies(n) /\ ~ Complete(n)
    BY <1>0, <2>1 DEF AloneInv, CompleteInv
  <2>5. \A n \in Monitors : ~ Occupies(n)' /\ ~ Complete(n)'
    BY <1>0, <2>4 DEF Occupies, Complete
  <2>6. AloneInv'
    BY <2>2, <2>3, <2>5 DEF AloneInv
  <2>7. PlayedInv' /\ CompleteInv'
    BY <1>0, <1>r, <2>1, <2>5 DEF PlayedInv, CompleteInv, Whole
  <2> QED BY <2>6, <2>7
<1> QED BY <1>2, <1>3, <1>4, <1>5 DEF IInv

LEMMA LoadLatestStep ==
  ASSUME IInv, NEW s \in Starts, LoadLatest(s)
  PROVE  IInv'
<1>1. /\ starter[s].pc = "load" /\ s \in Monitors /\ status \in Status
      /\ status.state # "none" /\ starts' = starts /\ stops' \in Nat /\ kills' \in Nat
      /\ UNCHANGED <<status, report, block, pgn, mon, stopper, ghosts>>
  BY DEF IInv, Types, LoadLatest, StartAt, StarterInv, StarterOK, Monitors, files, bounds
<1>2. CASE StarterTo(s, NoStart)
  BY <1>1, <1>2, StarterStep, StarterTypes DEF Starting, StartAt
<1>3. CASE /\ status.state \notin Terminal
           /\ StarterTo(s, [pc |-> "pid", st |-> [status EXCEPT !.pid = s]])
  <2> DEFINE st == [status EXCEPT !.pid = s]
  <2>1. st \in Status /\ st.pid \in Monitors /\ st.state \in Active
    BY <1>1, <1>3 DEF Status
  <2> HIDE DEF st
  <2> DEFINE c == [pc |-> "pid", st |-> st]
  <2>2. c \in StartCommand /\ c.pc = "pid" /\ c.st = st
    BY <2>1 DEF StartCommand
  <2>3. StarterTo(s, c)
    BY <1>3 DEF st
  <2> HIDE DEF c
  <2> QED BY <1>1, <2>1, <2>2, <2>3, StarterStep DEF Starting, StartAt
<1> QED BY <1>2, <1>3 DEF LoadLatest

\* What is written is not terminal, whatever was written in between.
LEMMA SavePidStep ==
  ASSUME IInv, NEW s \in Starts, SavePid(s)
  PROVE  IInv'
<1>0. /\ starter[s].pc = "pid"
      /\ status' \in Status /\ status'.pid \in Monitors /\ status'.state \in Active
      /\ UNCHANGED <<report, block, pgn, mon, stopper, bounds, ghosts>>
  BY DEF IInv, Types, StartCommand, SavePid, StartAt, StarterInv, StarterOK
<1>1. /\ starter' \in [Starts -> StartCommand] /\ starter'[s].pc = "idle"
      /\ \A t \in Starts : t # s => starter'[t] = starter[t]
  BY StarterGoes, StarterTypes DEF SavePid
<1>2. Types'
  BY <1>0, <1>1 DEF IInv, Types, bounds, ghosts
<1>3. StarterInv'
  <2>1. \A t \in Starts : t # s => StarterOK(t)'
    BY <1>0, <1>1
       DEF IInv, StarterInv, StarterOK, Starting, StartAt, Launching, bounds, Active
  <2>2. StarterOK(s)'
    BY <1>1 DEF StarterOK, Starting, StartAt, Launching
  <2> QED BY <1>0, <2>1, <2>2 DEF IInv, StarterInv, bounds
<1>4. PidInv' /\ MonitorInv'
  BY <1>0 DEF IInv, PidInv, MonitorInv, MonitorOK
<1>5. ASSUME Apart' PROVE AloneInv' /\ PlayedInv' /\ CompleteInv'
  <2>1. AloneInv /\ PlayedInv /\ CompleteInv
    BY <1>0, <1>5 DEF IInv, Apart, ghosts
  <2>2. \A t \in Starts : (Starting(t)' => Starting(t)) /\ (Launching(t)' => Launching(t))
    BY <1>1 DEF Starting, StartAt, Launching
  <2>3. AloneInv'
    BY <1>0, <2>1, <2>2 DEF AloneInv, Occupies
  <2>4. PlayedInv' /\ CompleteInv'
    BY <1>0, <2>1, <2>2 DEF PlayedInv, CompleteInv, Occupies, Complete, Whole, Monitors
  <2> QED BY <2>3, <2>4
<1> QED BY <1>2, <1>3, <1>4, <1>5 DEF IInv

-----------------------------------------------------------------------------
(* The monitor and its Fastchess.                                          *)

\* A step of a monitor that is born does not touch a start command.
LEMMA StarterKept ==
  ASSUME IInv, NEW m \in Monitors, mon[m].pc # "none", UNCHANGED <<starter, starts>>,
         \A n \in Monitors \ {m} : mon'[n] = mon[n],
         status' = status \/ status'.state # "none"
  PROVE  StarterInv'
<1>1. m <= starts
  BY DEF IInv, Types, StarterInv, Monitors, Starts
<1>2. \A s \in Starts : Launching(s) => s # m
  BY DEF IInv, StarterInv, StarterOK
<1>3. \A s \in Starts : StarterOK(s)'
  BY <1>2 DEF IInv, StarterInv, StarterOK, Starting, StartAt, Launching, Monitors
<1>4. \A n \in Monitors : n > starts => n # m
  BY <1>1 DEF IInv, Types, Monitors, Starts
<1> QED BY <1>3, <1>4 DEF IInv, StarterInv

\* A monitor that dies leaves nothing but its Fastchess.
LEMMA GoesStep ==
  ASSUME IInv, NEW m \in Monitors, mon' = [mon EXCEPT ![m] = Dead(@)],
         UNCHANGED <<files, starter, ghosts>>, PidInv', starts' = starts,
         stopper' \in [pc : {"idle", "request", "signal", "await", "mark", "report"},
                       st : Status],
         stops' \in Nat, kills' \in Nat, Alive(m)
  PROVE  IInv'
<1>0. /\ mon[m] \in Monitor /\ mon[m].pc # "none"
      /\ Dead(mon[m]) \in Monitor /\ Dead(mon[m]).pc = "gone" /\ Dead(mon[m]).seen = 0
      /\ \/ Dead(mon[m]).played = {}
         \/ Dead(mon[m]).played = mon[m].played /\ Dead(mon[m]).book = mon[m].book
  BY DeadType DEF IInv, Types, Alive
<1>1. Types'
  BY <1>0 DEF IInv, Types, files, ghosts, Apart
<1>2. StarterInv'
  BY <1>0 DEF IInv, Types, StarterInv, StarterOK, Launching, Starting, StartAt, files
<1>3. MonitorInv'
  <2>1. 0 <= Cardinality(Dead(mon[m]).played)
    <3>1. /\ Dead(mon[m]).book \in {NoBlock} \cup Blocks
          /\ Dead(mon[m]).played \subseteq Games(Dead(mon[m]).book)
      <4>1. mon[m].played \subseteq Games(mon[m].book)
        BY DEF IInv, MonitorInv, MonitorOK
      <4>2. Dead(mon[m]).book \in {NoBlock} \cup Blocks
        BY <1>0 DEF Monitor
      <4> QED BY <1>0, <4>1, <4>2
    <3>2. IsFiniteSet(Dead(mon[m]).played)
      BY <3>1, GamesOfBlock, FS_Subset
    <3> QED BY <3>2, FS_CardinalityType
  <2> QED BY <1>0, <2>1 DEF IInv, Types, MonitorInv, MonitorOK, files
<1>4. ASSUME Apart' PROVE AloneInv' /\ PlayedInv' /\ CompleteInv'
  BY <1>0, <1>4
     DEF IInv, Types, AloneInv, PlayedInv, CompleteInv, Occupies, Complete, Launching, Starting,
         StartAt, files, ghosts, Whole, Apart
<1> QED BY <1>1, <1>2, <1>3, <1>4 DEF IInv

LEMMA BootFailsStep ==
  ASSUME IInv, NEW m \in Monitors, BootFails(m)
  PROVE  IInv'
<1>1. PidInv'
  BY DEF IInv, PidInv, BootFails, files
<1> QED BY <1>1, GoesStep DEF IInv, Types, BootFails, Goes, bounds, At, Alive

\* What a monitor has that is about to play.
LEMMA BootStep ==
  ASSUME IInv, NEW m \in Monitors, Boot(m)
  PROVE  IInv'
<1>0. /\ mon[m] \in Monitor /\ mon[m].pc = "boot"
      /\ RunningStatus(m) \in Status
      /\ RunningStatus(m).state = "running" /\ RunningStatus(m).pid = m
  BY RunningStatusType DEF IInv, Types, Boot, At
<1>1. mon' = [mon EXCEPT ![m].pc = "report", ![m].st = RunningStatus(m)] /\ status' = RunningStatus(m)
  BY <1>0 DEF Boot, IInv, Types, Monitor
<1>2. block # NoBlock
  <2>1. block = SelectBlock(mon[m].seed)
    BY DEF Boot
  <2>2. DOMAIN block = 1..BlockSize /\ 1 \in 1..BlockSize
    BY <2>1, BlockAssumption DEF SelectBlock
  <2>3. 1 \in DOMAIN block
    BY <2>2
  <2> QED BY <2>3 DEF NoBlock
<1>3. Types'
  <2>1. mon' \in [Monitors -> Monitor]
    BY <1>0, <1>1 DEF IInv, Types, Monitor
  <2> QED BY <1>0, <1>1, <2>1 DEF IInv, Types, Boot, bounds, ghosts, Apart
<1>4. StarterInv' /\ PidInv'
  <2>1. StarterInv'
    BY <1>0, <1>1, StarterKept DEF IInv, Types, Boot, bounds
  <2>2. PidInv'
    BY <1>0, <1>1 DEF IInv, Types, Monitor, PidInv, Boot, bounds
  <2> QED BY <2>1, <2>2
<1>5. MonitorInv'
  BY <1>0, <1>1, <1>2 DEF IInv, Types, Monitor, Boot, MonitorInv, MonitorOK
<1>6. ASSUME Apart' PROVE AloneInv' /\ PlayedInv' /\ CompleteInv'
  <2>1. AloneInv /\ PlayedInv /\ CompleteInv
    BY <1>0, <1>1, <1>6 DEF IInv, ghosts, Boot, Apart
  <2>2. AloneInv'
    BY <1>0, <1>1, <2>1
         DEF IInv, Types, Monitor, AloneInv, Occupies, Launching, Starting, StartAt, Active, Boot,
             Apart
  <2>3. PlayedInv'
    BY <1>0, <1>1, <2>1 DEF IInv, Types, Monitor, PlayedInv, Whole, Boot
  <2>4. CompleteInv'
    BY <1>0, <1>1, <2>1
         DEF IInv, Types, Monitor, CompleteInv, Occupies, Complete, Launching, Starting, StartAt,
             Whole, Active, Boot
  <2> QED BY <2>2, <2>3, <2>4
<1> QED BY <1>3, <1>4, <1>5, <1>6 DEF IInv

LEMMA ReportRunningStep ==
  ASSUME IInv, NEW m \in Monitors, ReportRunning(m)
  PROVE  IInv'
<1>0. /\ mon[m] \in Monitor /\ mon[m].pc = "report" /\ mon[m].st = RunningStatus(m)
      /\ mon' = [mon EXCEPT ![m].pc = "launch"]
  BY DEF IInv, Types, MonitorInv, MonitorOK, ReportRunning, At, Goto
<1>1. ReportFor(mon[m].st) \in Report /\ ~ ReportFor(mon[m].st).counted
  BY <1>0, RunningStatusType, WriteReportType
<1>2. Types'
  BY <1>0, <1>1 DEF IInv, Types, Monitor, ReportRunning, WriteReport, bounds, ghosts, Apart
<1>3. StarterInv' /\ PidInv'
  <2>1. StarterInv'
    BY <1>0, StarterKept DEF IInv, Types, ReportRunning, bounds
  <2>2. PidInv'
    BY <1>0 DEF IInv, Types, Monitor, PidInv, ReportRunning, bounds
  <2> QED BY <2>1, <2>2
<1>4. MonitorInv'
  BY <1>0 DEF IInv, Types, Monitor, ReportRunning, MonitorInv, MonitorOK
<1>5. ASSUME Apart' PROVE AloneInv' /\ PlayedInv' /\ CompleteInv'
  BY <1>0, <1>1, <1>5
     DEF IInv, Types, Monitor, ReportRunning, WriteReport, AloneInv, PlayedInv, CompleteInv,
         Occupies, Complete, Launching, Starting, StartAt, Whole, Apart
<1> QED BY <1>2, <1>3, <1>4, <1>5 DEF IInv

LEMMA LaunchStep ==
  ASSUME IInv, NEW m \in Monitors, Launch(m)
  PROVE  IInv'
<1>0. /\ mon[m] \in Monitor /\ mon[m].pc = "launch" /\ mon[m].st = RunningStatus(m)
      /\ mon[m].st.state = "running" /\ mon[m].st.pid = m /\ mon[m].st.games = 0
      /\ mon[m].played = {} /\ mon[m].seen = 0 /\ mon[m].fc = "none"
      /\ block \in {NoBlock} \cup Blocks
  BY RunningStatusType DEF IInv, Types, MonitorInv, MonitorOK, Launch, At
<1>1. pgn' \in [Openings \X Colours -> Nat]
  BY DEF IInv, Types, Launch, EmptyPGN
<1>2. Types'
  BY <1>0, <1>1 DEF IInv, Types, Monitor, Launch, bounds, ghosts, Apart
<1>3. StarterInv' /\ PidInv'
  <2>1. StarterInv'
    BY <1>0, StarterKept DEF IInv, Types, Launch, bounds
  <2>2. PidInv'
    BY <1>0 DEF IInv, Types, Monitor, PidInv, Launch, bounds
  <2> QED BY <2>1, <2>2
<1>4. MonitorInv'
  BY <1>0 DEF IInv, Types, Monitor, Launch, MonitorInv, MonitorOK
<1>5. ASSUME Apart' PROVE AloneInv' /\ PlayedInv' /\ CompleteInv'
  BY <1>0, <1>5, TargetGamesType
     DEF IInv, Types, Monitor, Launch, AloneInv, PlayedInv, CompleteInv, Occupies, Complete,
         Launching, Starting, StartAt, Whole, ghosts, Apart
<1> QED BY <1>2, <1>3, <1>4, <1>5 DEF IInv

\* A monitor is told of no more games than have been played, and of no more than
\* the block has.
LEMMA PlayedGames ==
  ASSUME IInv, NEW m \in Monitors
  PROVE  /\ IsFiniteSet(mon[m].played)
         /\ Cardinality(mon[m].played) \in 0..TargetGames
         /\ Cardinality(mon[m].played) = TargetGames => mon[m].played = Games(mon[m].book)
<1>1. mon[m].book \in {NoBlock} \cup Blocks /\ mon[m].played \subseteq Games(mon[m].book)
  <2>1. mon[m] \in Monitor /\ MonitorOK(m)
    BY DEF IInv, Types, MonitorInv
  <2> QED BY <2>1 DEF Monitor, MonitorOK
<1>2. IsFiniteSet(Games(mon[m].book)) /\ Cardinality(Games(mon[m].book)) \in 0..TargetGames
  BY <1>1, GamesOfBlock
<1>3. /\ IsFiniteSet(mon[m].played)
      /\ Cardinality(mon[m].played) <= Cardinality(Games(mon[m].book))
      /\ Cardinality(Games(mon[m].book)) = Cardinality(mon[m].played) => mon[m].played = Games(mon[m].book)
  BY <1>1, <1>2, FS_Subset
<1>4. Cardinality(mon[m].played) \in Nat
  BY <1>3, FS_CardinalityType
<1> QED BY <1>2, <1>3, <1>4, TargetGamesType

LEMMA ParseLineStep ==
  ASSUME IInv, NEW m \in Monitors, ParseLine(m)
  PROVE  IInv'
<1>0. /\ mon[m] \in Monitor /\ mon[m].pc \in {"playing", "dying"}
      /\ mon[m].seen < Cardinality(mon[m].played)
  <2>1. mon[m] \in Monitor /\ Alive(m) /\ mon[m].fc # "none"
    BY DEF IInv, Types, ParseLine
  <2>2. mon[m].seen < Cardinality(mon[m].played)
    BY DEF ParseLine, NewLine
  <2>3. mon[m].pc \notin {"none", "gone"}
    BY <2>1 DEF Alive
  <2>4. mon[m].pc \notin {"finish", "file"}
    <3>1. mon[m].pc \in {"finish", "file"} => mon[m].played = {} /\ mon[m].seen = 0
      BY DEF IInv, MonitorInv, MonitorOK
    <3> QED BY <2>2, <3>1, FS_EmptySet
  <2> QED BY <2>1, <2>2, <2>3, <2>4 DEF IInv, MonitorInv, MonitorOK, Monitor
<1> DEFINE st == [mon[m].st EXCEPT !.games = mon[m].seen + 1]
<1>1. mon[m].seen + 1 \in 0..TargetGames /\ mon[m].seen + 1 <= Cardinality(mon[m].played)
  BY <1>0, PlayedGames, TargetGamesType DEF Monitor
<1>2. /\ st \in Status /\ st.games = mon[m].seen + 1
      /\ st.state = mon[m].st.state /\ st.pid = m /\ st.state \in {"running", "stopping"}
  BY <1>0, <1>1 DEF Monitor, Status, IInv, MonitorInv, MonitorOK
<1>3. /\ mon' = [mon EXCEPT ![m].seen = mon[m].seen + 1, ![m].st = st] /\ status' = st
      /\ UNCHANGED <<report, block, pgn, starter, stopper, bounds, ghosts>>
  BY <1>0 DEF ParseLine, IInv, Types, Monitor, Status
<1> HIDE DEF st
<1>m. /\ mon'[m] = [mon[m] EXCEPT !.seen = mon[m].seen + 1, !.st = st]
      /\ \A n \in Monitors \ {m} : mon'[n] = mon[n]
  BY <1>3 DEF IInv, Types
<1>4. Types'
  <2>0. mon[m].seen + 1 \in Nat /\ st \in Status /\ mon[m] \in Monitor
    BY <1>0, <1>2 DEF Monitor
  <2>1. mon'[m] \in Monitor
    BY <2>0, <1>m DEF Monitor
  <2>2. mon' \in [Monitors -> Monitor]
    BY <1>3, <1>m, <2>1 DEF IInv, Types
  <2> QED BY <1>2, <1>3, <2>2 DEF IInv, Types, bounds, ghosts, Apart
<1>5. StarterInv' /\ PidInv'
  <2>1. StarterInv'
    BY <1>0, <1>2, <1>3, <1>m, StarterKept DEF IInv, Types, bounds
  <2>2. PidInv'
    BY <1>0, <1>2, <1>3, <1>m DEF IInv, Types, Monitor, PidInv, bounds
  <2> QED BY <2>1, <2>2
<1>6. MonitorInv'
  BY <1>0, <1>1, <1>2, <1>3, <1>m DEF IInv, Types, Monitor, MonitorInv, MonitorOK
<1>7. ASSUME Apart' PROVE AloneInv' /\ PlayedInv' /\ CompleteInv'
  <2>1. AloneInv /\ PlayedInv /\ CompleteInv
    BY <1>0, <1>2, <1>3, <1>m, <1>7 DEF IInv, ghosts, Apart
  <2>2. AloneInv'
    BY <1>0, <1>2, <1>3, <1>m, <2>1
         DEF IInv, Types, Monitor, AloneInv, Occupies, Launching, Starting, StartAt, Active, Apart
  <2>3. PlayedInv'
    BY <1>0, <1>2, <1>3, <1>m, <2>1 DEF IInv, Types, Monitor, PlayedInv, Whole
  <2>4. CompleteInv'
    BY <1>0, <1>2, <1>3, <1>m, <2>1
         DEF IInv, Types, Monitor, CompleteInv, Occupies, Complete, Launching, Starting, StartAt,
             Whole, Active
  <2> QED BY <2>2, <2>3, <2>4
<1> QED BY <1>4, <1>5, <1>6, <1>7 DEF IInv

LEMMA ExitedStep ==
  ASSUME IInv, NEW m \in Monitors, Exited(m)
  PROVE  IInv'
<1>0. /\ mon[m] \in Monitor /\ mon[m].pc \in {"playing", "dying"}
      /\ mon[m].fc \in {"over", "failed"}
      /\ mon[m].st.state \in {"running", "stopping"} /\ mon[m].st.pid = m
      /\ mon[m].st.games = Cardinality(mon[m].played)
      /\ mon' = [mon EXCEPT ![m].pc = "finish", ![m].book = NoBlock,
                             ![m].played = {}, ![m].seen = 0]
  BY DEF IInv, Types, Exited, MonitorInv, MonitorOK
<1>1. Types'
  <2>1. mon' \in [Monitors -> Monitor]
    BY <1>0 DEF IInv, Types, Monitor
  <2> QED BY <2>1 DEF IInv, Types, Exited, files, bounds, ghosts, Apart
<1>2. StarterInv' /\ PidInv'
  <2>1. StarterInv'
    BY <1>0, StarterKept DEF IInv, Types, Exited, files, bounds
  <2>2. PidInv'
    BY <1>0 DEF IInv, Types, Monitor, PidInv, Exited, files, bounds
  <2> QED BY <2>1, <2>2
<1>3. MonitorInv'
  BY <1>0, FS_EmptySet DEF IInv, Types, Monitor, Exited, MonitorInv, MonitorOK, files
<1>4. ASSUME Apart' PROVE AloneInv' /\ PlayedInv' /\ CompleteInv'
  <2>1. mon[m].st.games = TargetGames => Whole
    <3>2. mon[m].book = block /\ \A g \in mon[m].played : pgn[g] > 0
      BY <1>0, <1>4 DEF Exited, ghosts, IInv, PlayedInv, Apart
    <3>1. mon[m].st.games = TargetGames => mon[m].played = Games(block)
      BY <1>0, <3>2, PlayedGames
    <3>3. block # NoBlock
      BY <1>0 DEF IInv, MonitorInv, MonitorOK
    <3> QED BY <3>1, <3>2, <3>3 DEF Whole
  <2>2. AloneInv /\ PlayedInv /\ CompleteInv
    BY <1>0, <1>4 DEF IInv, Exited, ghosts, Apart
  <2>3. AloneInv'
    BY <1>0, <2>2
         DEF IInv, Types, Monitor, Exited, AloneInv, Occupies, Launching, Starting, StartAt,
             files, Apart
  <2>4. PlayedInv'
    BY <1>0, <2>1, <2>2 DEF IInv, Types, Monitor, Exited, PlayedInv, Whole, files
  <2>5. CompleteInv'
    BY <1>0, <2>1, <2>2
       DEF IInv, Types, Monitor, Exited, CompleteInv, Occupies, Complete, Launching, Starting,
           StartAt, files, Whole
  <2> QED BY <2>3, <2>4, <2>5
<1> QED BY <1>1, <1>2, <1>3, <1>4 DEF IInv

LEMMA SignalledStep ==
  ASSUME IInv, NEW m \in Monitors, Signalled(m)
  PROVE  IInv'
<1>0. /\ mon[m] \in Monitor /\ mon[m].pc = "playing" /\ mon[m].fc # "none"
      /\ mon[m].st.pid = m /\ mon[m].st.games = mon[m].seen
  BY DEF IInv, Types, Signalled, At, MonitorInv, MonitorOK
<1> DEFINE st == [mon[m].st EXCEPT !.state = "stopping"]
           fc == IF mon[m].fc = "playing" THEN "told" ELSE mon[m].fc
<1>1. /\ st \in Status /\ st.games = mon[m].seen /\ st.pid = m /\ st.state = "stopping"
      /\ fc \in {"told", "over", "failed"}
  BY <1>0 DEF Monitor, Status, Active
<1>2. /\ mon' = [mon EXCEPT ![m].pc = "dying", ![m].stopped = TRUE, ![m].st = st, ![m].fc = fc]
      /\ status' = st
      /\ UNCHANGED <<report, block, pgn, starter, stopper, bounds, ghosts>>
  BY <1>0 DEF Signalled, IInv, Types, Monitor, Status
<1> HIDE DEF st, fc
<1>m. /\ mon'[m] = [mon[m] EXCEPT !.pc = "dying", !.stopped = TRUE, !.st = st, !.fc = fc]
      /\ \A n \in Monitors \ {m} : mon'[n] = mon[n]
  BY <1>2 DEF IInv, Types
<1>3. Types'
  <2>1. mon'[m] \in Monitor
    BY <1>0, <1>1, <1>m, ZenonT(30) DEF Monitor
  <2>2. mon' \in [Monitors -> Monitor]
    BY <1>2, <1>m, <2>1 DEF IInv, Types
  <2> QED BY <1>1, <1>2, <2>2 DEF IInv, Types, bounds, ghosts, Apart
<1>4. StarterInv' /\ PidInv'
  <2>1. StarterInv'
    BY <1>0, <1>1, <1>2, <1>m, StarterKept DEF IInv, Types, bounds
  <2>2. PidInv'
    BY <1>0, <1>1, <1>2, <1>m DEF IInv, Types, Monitor, PidInv, bounds
  <2> QED BY <2>1, <2>2
<1>5. MonitorInv'
  BY <1>0, <1>1, <1>2, <1>m DEF IInv, Types, Monitor, MonitorInv, MonitorOK
<1>6. ASSUME Apart' PROVE AloneInv' /\ PlayedInv' /\ CompleteInv'
  <2>1. AloneInv /\ PlayedInv /\ CompleteInv
    BY <1>0, <1>1, <1>2, <1>m, <1>6 DEF IInv, ghosts, Apart
  <2>2. AloneInv'
    BY <1>0, <1>1, <1>2, <1>m, <2>1
         DEF IInv, Types, Monitor, AloneInv, Occupies, Launching, Starting, StartAt, Active, Apart
  <2>3. PlayedInv'
    BY <1>0, <1>1, <1>2, <1>m, <2>1 DEF IInv, Types, Monitor, PlayedInv, Whole
  <2>4. CompleteInv'
    BY <1>0, <1>1, <1>2, <1>m, <2>1
         DEF IInv, Types, Monitor, CompleteInv, Occupies, Complete, Launching, Starting, StartAt,
             Whole, Active
  <2> QED BY <2>2, <2>3, <2>4
<1> QED BY <1>3, <1>4, <1>5, <1>6 DEF IInv

\* A step that only decides how Fastchess ends.
LEMMA FastchessStep ==
  ASSUME IInv, NEW m \in Monitors, NEW fc \in {"over", "failed"},
         NEW result \in Results \cup {"none"},
         mon[m].fc \in {"playing", "told"}, Alive(m),
         mon' = [mon EXCEPT ![m].fc = fc, ![m].result = result],
         UNCHANGED <<files, starter, stopper, starts, stops, ghosts>>, kills' \in Nat
  PROVE  IInv'
<1>0. mon[m] \in Monitor /\ mon[m].pc \in {"playing", "dying"}
  BY DEF IInv, Types, MonitorInv, MonitorOK, Monitor, Alive
<1>1. Types'
  <2>1. mon' \in [Monitors -> Monitor]
    BY <1>0 DEF IInv, Types, Monitor
  <2> QED BY <2>1 DEF IInv, Types, files, ghosts, Apart
<1>2. StarterInv' /\ PidInv'
  <2>1. StarterInv'
    BY <1>0, StarterKept DEF IInv, Types, files
  <2>2. PidInv'
    BY <1>0 DEF IInv, Types, Monitor, PidInv, files
  <2> QED BY <2>1, <2>2
<1>3. MonitorInv'
  BY <1>0 DEF IInv, Types, Monitor, MonitorInv, MonitorOK, files
<1>4. ASSUME Apart' PROVE AloneInv' /\ PlayedInv' /\ CompleteInv'
  <2>1. AloneInv /\ PlayedInv /\ CompleteInv
    BY <1>0, <1>4 DEF IInv, ghosts, files, Apart
  <2>2. AloneInv'
    BY <1>0, <2>1
         DEF IInv, Types, Monitor, AloneInv, Occupies, Launching, Starting, StartAt, files, Apart
  <2>3. PlayedInv'
    BY <1>0, <2>1 DEF IInv, Types, Monitor, PlayedInv, Whole, files
  <2>4. CompleteInv'
    BY <1>0, <2>1
         DEF IInv, Types, Monitor, CompleteInv, Occupies, Complete, Launching, Starting, StartAt,
             Whole, files
  <2> QED BY <2>2, <2>3, <2>4
<1> QED BY <1>1, <1>2, <1>3, <1>4 DEF IInv

LEMMA HardKillStep ==
  ASSUME IInv, NEW m \in Monitors, HardKill(m)
  PROVE  IInv'
<1>1. mon[m].fc \in {"playing", "told"} /\ Alive(m) /\ mon[m].result \in Results \cup {"none"}
  BY DEF HardKill, GraceOver, At, Alive, IInv, Types, Monitor
<1>2. mon' = [mon EXCEPT ![m].fc = "failed", ![m].result = mon[m].result]
  BY DEF HardKill, IInv, Types, Monitor
<1> QED BY <1>1, <1>2, FastchessStep DEF HardKill, bounds, IInv, Types

LEMMA FastchessFailsStep ==
  ASSUME IInv, NEW m \in Monitors, FastchessFails(m)
  PROVE  IInv'
<1>1. mon[m].fc \in {"playing", "told"} /\ Alive(m) /\ mon[m].result \in Results \cup {"none"}
  BY DEF FastchessFails, IInv, Types, Monitor
<1>2. mon' = [mon EXCEPT ![m].fc = "failed", ![m].result = mon[m].result]
  BY DEF FastchessFails, IInv, Types, Monitor
<1>3. kills' \in Nat /\ UNCHANGED <<files, starter, stopper, starts, stops, ghosts>>
  BY DEF FastchessFails, IInv, Types
<1> QED BY <1>1, <1>2, <1>3, FastchessStep

LEMMA MatchOverStep ==
  ASSUME IInv, NEW m \in Monitors, MatchOver(m)
  PROVE  IInv'
BY FastchessStep DEF MatchOver, bounds, IInv, Types

\* What a monitor writes when its Fastchess is gone.
LEMMA FinalStatusType ==
  ASSUME IInv, NEW m \in Monitors, mon[m].pc = "finish"
  PROVE  /\ FinalStatus(m) \in Status /\ FinalStatus(m).state \in Terminal
         /\ FinalStatus(m).games = mon[m].st.games
         /\ FinalStatus(m).state = "completed" => mon[m].st.games = TargetGames
<1>1. mon[m] \in Monitor
  BY DEF IInv, Types
<1>2. MatchDecision(m) \in Decisions
  BY <1>1 DEF MatchDecision, Decisions, Monitor
<1>3. AuditsWhole(pgn) \in BOOLEAN
  BY DEF AuditsWhole
<1> DEFINE st   == [mon[m].st EXCEPT !.audited = AuditsWhole(pgn)]
           done == [st EXCEPT !.state = "completed", !.decision = MatchDecision(m)]
<1>4. st \in Status /\ st.games = mon[m].st.games
  BY <1>1, <1>3 DEF Status, Monitor
<1>5. done \in Status /\ done.games = mon[m].st.games /\ done.state = "completed"
  BY <1>2, <1>4 DEF Status, Terminal
<1>6. /\ [st EXCEPT !.state = "stopped", !.decision = "stopped_by_user"] \in Status
      /\ [st EXCEPT !.state = "failed"] \in Status
      /\ [done EXCEPT !.state = "failed", !.decision = "invalid_incomplete_block"] \in Status
  BY <1>4, <1>5 DEF Status, Terminal, Decisions
<1>7. BlockComplete(done) => mon[m].st.games = TargetGames
  BY <1>5 DEF BlockComplete
<1>8. FinalStatus(m) = IF mon[m].stopped
                       THEN [st EXCEPT !.state = "stopped", !.decision = "stopped_by_user"]
                       ELSE IF mon[m].fc # "over" \/ Audit(pgn).games = 0
                       THEN [st EXCEPT !.state = "failed"]
                       ELSE IF BlockComplete(done) THEN done
                       ELSE [done EXCEPT !.state = "failed", !.decision = "invalid_incomplete_block"]
  BY DEF FinalStatus
<1> HIDE DEF st, done
<1> QED BY <1>4, <1>5, <1>6, <1>7, <1>8 DEF Status, Terminal

LEMMA FinishStep ==
  ASSUME IInv, NEW m \in Monitors, Finish(m)
  PROVE  IInv'
<1> DEFINE st == FinalStatus(m)
<1>0. /\ mon[m] \in Monitor /\ mon[m].pc = "finish" /\ mon[m].fc \in {"over", "failed"}
      /\ mon[m].played = {} /\ mon[m].seen = 0
  BY DEF IInv, Types, Finish, At, MonitorInv, MonitorOK
<1>1. /\ st \in Status /\ st.state \in Terminal /\ st.games = mon[m].st.games
      /\ st.state = "completed" => mon[m].st.games = TargetGames
  BY <1>0, FinalStatusType
<1>2. /\ mon' = [mon EXCEPT ![m].pc = "file", ![m].st = st] /\ status' = st
      /\ UNCHANGED <<report, block, pgn, starter, stopper, bounds, ghosts>>
  BY <1>0 DEF Finish, IInv, Types, Monitor
<1> HIDE DEF st
<1>m. /\ mon'[m] = [mon[m] EXCEPT !.pc = "file", !.st = st]
      /\ \A n \in Monitors \ {m} : mon'[n] = mon[n]
  BY <1>2 DEF IInv, Types
<1>3. Types'
  <2>1. mon'[m] \in Monitor
    BY <1>0, <1>1, <1>m DEF Monitor
  <2>2. mon' \in [Monitors -> Monitor]
    BY <1>2, <1>m, <2>1 DEF IInv, Types
  <2> QED BY <1>1, <1>2, <2>2 DEF IInv, Types, bounds, ghosts, Apart
<1>4. StarterInv' /\ PidInv'
  <2>1. StarterInv'
    BY <1>0, <1>1, <1>2, <1>m, StarterKept DEF IInv, Types, bounds, Terminal
  <2>2. PidInv'
    BY <1>0, <1>1, <1>2, <1>m DEF IInv, Types, Monitor, PidInv, bounds, Terminal
  <2> QED BY <2>1, <2>2
<1>5. MonitorInv'
  BY <1>0, <1>1, <1>2, <1>m DEF IInv, Types, Monitor, MonitorInv, MonitorOK
<1>6. ASSUME Apart' PROVE AloneInv' /\ PlayedInv' /\ CompleteInv'
  BY <1>0, <1>1, <1>2, <1>m, <1>6
     DEF IInv, Types, Monitor, AloneInv, PlayedInv, CompleteInv, Occupies, Complete, Launching,
         Starting, StartAt, ghosts, Whole, Apart
<1> QED BY <1>3, <1>4, <1>5, <1>6 DEF IInv

LEMMA FileStep ==
  ASSUME IInv, NEW m \in Monitors, File(m)
  PROVE  IInv'
<1>0. /\ mon[m] \in Monitor /\ mon[m].pc = "file" /\ mon[m].st \in Status
      /\ Dead(mon[m]) \in Monitor /\ Dead(mon[m]).pc = "gone" /\ Dead(mon[m]).seen = 0
      /\ Dead(mon[m]).played = {}
  BY DeadType DEF IInv, Types, File, At, MonitorInv, MonitorOK, Monitor
<1>1. /\ ReportFor(mon[m].st) \in Report
      /\ ReportFor(mon[m].st).counted => mon[m].st.state = "completed"
  BY <1>0, WriteReportType
<1>2. /\ mon' = [mon EXCEPT ![m] = Dead(mon[m])]
      /\ report' = ReportFor(mon[m].st) /\ counted' = (counted \/ report'.counted)
      /\ UNCHANGED <<status, block, pgn, starter, stopper, bounds, overruled, overlapped>>
  BY DEF File, Goes, WriteReport
<1>m. mon'[m] = Dead(mon[m]) /\ \A n \in Monitors \ {m} : mon'[n] = mon[n]
  BY <1>2 DEF IInv, Types
<1>3. Types'
  <2>1. counted' \in BOOLEAN
    BY <1>1, <1>2 DEF IInv, Types, Report
  <2>2. mon' \in [Monitors -> Monitor]
    BY <1>0, <1>2 DEF IInv, Types
  <2> QED BY <1>1, <1>2, <2>1, <2>2 DEF IInv, Types, bounds
<1>4. StarterInv' /\ PidInv'
  <2>1. StarterInv'
    BY <1>0, <1>2, <1>m, StarterKept DEF IInv, Types, bounds
  <2>2. PidInv'
    BY <1>0, <1>2, <1>m DEF IInv, Types, Monitor, PidInv, bounds
  <2> QED BY <2>1, <2>2
<1>5. MonitorInv'
  <2>1. Dead(mon[m]).seen <= Cardinality(Dead(mon[m]).played)
    <3>1. Dead(mon[m]).played = {}
      BY <1>0
    <3> QED BY <1>0, <3>1, FS_EmptySet
  <2>2. MonitorOK(m)'
    <3>1. mon'[m].pc = "gone" /\ mon'[m].seen = 0 /\ mon'[m].played = {}
      BY <1>0, <1>m
    <3>2. mon'[m].seen <= Cardinality(mon'[m].played)
      BY <1>m, <2>1
    <3> QED BY <3>1, <3>2 DEF MonitorOK
  <2>3. \A n \in Monitors \ {m} : MonitorOK(n)'
    BY <1>2, <1>m DEF IInv, MonitorInv, MonitorOK
  <2> QED BY <2>2, <2>3 DEF MonitorInv
<1>6. ASSUME Apart' PROVE AloneInv' /\ PlayedInv' /\ CompleteInv'
  BY <1>0, <1>1, <1>2, <1>m, <1>6
     DEF IInv, AloneInv, PlayedInv, CompleteInv, Occupies, Complete, Launching, Starting, StartAt,
         Whole, Apart
<1> QED BY <1>3, <1>4, <1>5, <1>6 DEF IInv

\* A game more in the file of games.
LEMMA GameAdded ==
  ASSUME IInv, NEW m \in Monitors, NEW g \in Games(mon[m].book)
  PROVE  LET p == [pgn EXCEPT ![g] = @ + 1]
         IN  p \in [Openings \X Colours -> Nat] /\ p[g] > 0
             /\ \A h \in Openings \X Colours : p[h] >= pgn[h]
<1>1. mon[m].book \in {NoBlock} \cup Blocks /\ pgn \in [Openings \X Colours -> Nat]
  BY DEF IInv, Types, Monitor
<1>2. g \in Openings \X Colours
  BY <1>1, GamesOfBlock
<1> QED BY <1>1, <1>2

LEMMA GameEndsStep ==
  ASSUME IInv, NEW m \in Monitors, GameEnds(m)
  PROVE  IInv'
<1> PICK g \in Games(mon[m].book) \ mon[m].played :
      /\ Alive(m) /\ mon[m].fc = "playing"
      /\ pgn' = [pgn EXCEPT ![g] = @ + 1]
      /\ mon' = [mon EXCEPT ![m].played = @ \cup {g}]
      /\ UNCHANGED <<status, report, block, starter, stopper, bounds, ghosts>>
  BY DEF GameEnds
<1>0. /\ mon[m] \in Monitor /\ mon[m].pc \in {"playing", "dying"}
      /\ block \in {NoBlock} \cup Blocks /\ Games(block) \subseteq Openings \X Colours
      /\ mon[m].book \in {NoBlock} \cup Blocks /\ Games(mon[m].book) \subseteq Openings \X Colours
  BY GamesOfBlock DEF IInv, Types, MonitorInv, MonitorOK, Monitor, Alive
<1>1. /\ pgn' \in [Openings \X Colours -> Nat] /\ pgn'[g] > 0
      /\ \A h \in Openings \X Colours : pgn'[h] >= pgn[h] /\ pgn[h] \in Nat
  BY GameAdded DEF IInv, Types
<1>m. /\ mon'[m] = [mon[m] EXCEPT !.played = mon[m].played \cup {g}]
      /\ \A n \in Monitors \ {m} : mon'[n] = mon[n]
  BY DEF IInv, Types
<1>2. Types'
  <2>1. mon'[m] \in Monitor
    BY <1>0, <1>m DEF Monitor
  <2>2. mon' \in [Monitors -> Monitor]
    BY <1>m, <2>1 DEF IInv, Types
  <2> QED BY <1>1, <2>2 DEF IInv, Types, bounds, ghosts, Apart
<1>3. StarterInv' /\ PidInv'
  <2>1. StarterInv'
    BY <1>0, <1>m, StarterKept DEF IInv, Types, bounds
  <2>2. PidInv'
    BY <1>0, <1>m DEF IInv, Types, Monitor, PidInv, bounds
  <2> QED BY <2>1, <2>2
<1>4. MonitorInv'
  <2>1. mon[m].seen <= Cardinality(mon[m].played \cup {g})
    <3>1. IsFiniteSet(mon[m].played) /\ Cardinality(mon[m].played) \in Nat
      BY PlayedGames, TargetGamesType
    <3>2. Cardinality(mon[m].played \cup {g}) = Cardinality(mon[m].played) + 1
      BY <3>1, FS_AddElement
    <3>3. mon[m].seen <= Cardinality(mon[m].played) /\ mon[m].seen \in Nat
      BY <1>0 DEF IInv, MonitorInv, MonitorOK, Monitor
    <3> QED BY <3>1, <3>2, <3>3
  <2> QED BY <1>0, <1>m, <2>1 DEF IInv, Types, Monitor, MonitorInv, MonitorOK
<1>5. ASSUME Apart' PROVE AloneInv' /\ PlayedInv' /\ CompleteInv'
  <2>1. AloneInv /\ PlayedInv /\ CompleteInv
    BY <1>5 DEF IInv, ghosts, Apart
  <2>2. AloneInv'
    BY <1>0, <1>m, <2>1 DEF AloneInv, Occupies, Launching, Starting, StartAt, Monitor
  <2>3. Whole => Whole'
    BY <1>0, <1>1 DEF Whole
  <2>4. PlayedInv'
    <3>1. \A n \in Monitors : mon[n].played \subseteq Openings \X Colours
      BY DEF IInv, Types, Monitor
    <3> QED BY <1>0, <1>1, <1>m, <2>1, <2>3, <3>1 DEF PlayedInv, Monitor
  <2>5. CompleteInv'
    BY <1>0, <1>m, <2>1, <2>3
         DEF CompleteInv, Complete, Occupies, Launching, Starting, StartAt, Monitor
  <2> QED BY <2>2, <2>4, <2>5
<1> QED BY <1>2, <1>3, <1>4, <1>5 DEF IInv

LEMMA OrphanEndsStep ==
  ASSUME IInv, NEW m \in Monitors, OrphanEnds(m)
  PROVE  IInv'
<1>a. mon[m] \in Monitor /\ mon[m].pc = "gone" /\ mon[m].seen = 0
  BY DEF IInv, Types, MonitorInv, MonitorOK, OrphanEnds, At
<1>0. /\ block \in {NoBlock} \cup Blocks /\ Games(block) \subseteq Openings \X Colours
      /\ mon' = [mon EXCEPT ![m].fc = "none", ![m].book = NoBlock, ![m].played = {}]
      /\ UNCHANGED <<status, report, block, starter, stopper, bounds, ghosts>>
  BY GamesOfBlock DEF IInv, Types, OrphanEnds
<1>1. /\ pgn' \in [Openings \X Colours -> Nat]
      /\ \A h \in Openings \X Colours : pgn'[h] >= pgn[h] /\ pgn[h] \in Nat
  <2>1. pgn' = pgn \/ \E g \in Games(mon[m].book) : pgn' = [pgn EXCEPT ![g] = @ + 1]
    BY DEF OrphanEnds
  <2>2. pgn \in [Openings \X Colours -> Nat]
    BY DEF IInv, Types
  <2> QED BY <2>1, <2>2, GameAdded
<1> DEFINE none == {}
<1>n. none \in SUBSET (Openings \X Colours) /\ none = {}
  OBVIOUS
<1>m. /\ mon'[m] = [mon[m] EXCEPT !.fc = "none", !.book = NoBlock, !.played = none]
      /\ \A n \in Monitors \ {m} : mon'[n] = mon[n]
  BY <1>0 DEF IInv, Types
<1> HIDE DEF none
<1>f. /\ mon'[m] \in Monitor /\ mon'[m].pc = "gone" /\ mon'[m].fc = "none"
      /\ mon'[m].played = {} /\ mon'[m].seen = 0
  BY <1>a, <1>n, <1>m DEF Monitor
<1>2. Types'
  <2>1. mon'[m] \in Monitor
    BY <1>f
  <2>2. mon' \in [Monitors -> Monitor]
    BY <1>0, <1>m, <2>1 DEF IInv, Types
  <2> QED BY <1>0, <1>1, <2>2 DEF IInv, Types, bounds, ghosts, Apart
<1>3. StarterInv' /\ PidInv'
  <2>1. StarterInv'
    BY <1>0, <1>a, <1>f, <1>m, StarterKept DEF IInv, Types, bounds
  <2>2. PidInv'
    BY <1>0, <1>a, <1>f, <1>m DEF IInv, Types, Monitor, PidInv, bounds
  <2> QED BY <2>1, <2>2
<1>4. MonitorInv'
  BY <1>0, <1>f, <1>m, <1>a, FS_EmptySet DEF IInv, Types, Monitor, MonitorInv, MonitorOK
<1>5. ASSUME Apart' PROVE AloneInv' /\ PlayedInv' /\ CompleteInv'
  <2>1. AloneInv /\ PlayedInv /\ CompleteInv
    BY <1>0, <1>5 DEF IInv, ghosts, Apart
  <2>2. AloneInv'
    BY <1>0, <1>a, <1>f, <1>m, <2>1, ZenonT(30)
         DEF AloneInv, Occupies, Launching, Starting, StartAt
  <2>3. Whole => Whole'
    BY <1>0, <1>1 DEF Whole
  <2>4. PlayedInv'
    <3>1. \A n \in Monitors : mon[n].played \subseteq Openings \X Colours
      BY DEF IInv, Types, Monitor
    <3>2. \A n \in Monitors : \A h \in mon'[n].played : h \in mon[n].played
      BY <1>f, <1>m
    <3>3. \A n \in Monitors : mon'[n].pc = mon[n].pc /\ mon'[n].st = mon[n].st
      BY <1>a, <1>m, <1>f, ZenonT(30) DEF Monitor
    <3>4. ASSUME NEW n \in Monitors, mon'[n].pc \in {"playing", "dying"}
          PROVE  mon'[n].book = block' /\ \A h \in mon'[n].played : pgn'[h] > 0
      <4>1. mon'[n] = mon[n]
        BY <1>m, <1>f, <3>4
      <4>2. mon[n].book = block /\ \A h \in mon[n].played : pgn[h] > 0
        BY <2>1, <3>4, <4>1 DEF PlayedInv
      <4>3. \A h \in mon[n].played : pgn'[h] >= pgn[h] /\ pgn[h] \in Nat /\ pgn'[h] \in Nat
        BY <1>1, <3>1
      <4>4. \A h \in mon[n].played : pgn'[h] > 0
        BY <4>2, <4>3
      <4> QED BY <1>0, <4>1, <4>2, <4>4
    <3> QED BY <2>1, <2>3, <3>3, <3>4 DEF PlayedInv
  <2>5. CompleteInv'
    BY <1>0, <1>a, <1>f, <1>m, <2>1, <2>3, ZenonT(30)
         DEF CompleteInv, Complete, Occupies, Launching, Starting, StartAt
  <2> QED BY <2>2, <2>4, <2>5
<1> QED BY <1>2, <1>3, <1>4, <1>5 DEF IInv

-----------------------------------------------------------------------------
(* The stop command.                                                       *)

\* A step of the stop command that writes nothing and tells nobody.
LEMMA StopperStep ==
  ASSUME IInv, UNCHANGED <<files, mon, starter, ghosts>>, starts' = starts,
         stops' \in Nat, kills' \in Nat,
         stopper' \in [pc : {"idle", "request", "signal", "await", "mark", "report"},
                       st : Status],
         stopper'.pc \in {"request", "signal", "await"} => stopper'.st.pid \in Monitors,
         stopper'.pc # "report"
  PROVE  IInv'
<1>1. Types' /\ StarterInv' /\ PidInv'
  BY DEF IInv, Types, StarterInv, StarterOK, PidInv, Launching, Starting, StartAt, files,
           ghosts, Apart
<1>2. MonitorInv'
  BY DEF IInv, MonitorInv, MonitorOK, files
<1>3. ASSUME Apart' PROVE AloneInv' /\ PlayedInv' /\ CompleteInv'
  BY <1>3
       DEF IInv, AloneInv, PlayedInv, CompleteInv, Occupies, Complete, Launching, Starting,
           StartAt, files, ghosts, Whole, Apart
<1> QED BY <1>1, <1>2, <1>3 DEF IInv

LEMMA NoStopType == NoStop.st \in Status /\ NoStop.pc = "idle" /\ NoStop = [pc |-> "idle", st |-> NoStop.st]
BY InitialFiles DEF NoStop

LEMMA StopGivenStep ==
  ASSUME IInv, StopGiven
  PROVE  IInv'
<1>1. status \in Status /\ stops' \in Nat /\ kills' \in Nat
  BY DEF IInv, Types, StopGiven
<1>2. status.pid # NoPid => status.pid \in Monitors
  BY <1>1 DEF Status
<1>3. \/ stopper' = NoStop
      \/ status.pid # NoPid /\ stopper' = [pc |-> "request", st |-> status]
      \/ status.pid # NoPid /\ stopper' = [pc |-> "mark", st |-> status]
  BY DEF StopGiven
<1>4. /\ stopper' \in [pc : {"idle", "request", "signal", "await", "mark", "report"},
                       st : Status]
      /\ stopper'.pc \in {"request", "signal", "await"} => stopper'.st.pid \in Monitors
      /\ stopper'.pc # "report"
  BY <1>1, <1>2, <1>3, NoStopType
<1> QED BY <1>1, <1>4, StopperStep DEF StopGiven

\* What is written is not terminal, so that nobody is let in.
LEMMA RequestStep ==
  ASSUME IInv, Request
  PROVE  IInv'
<1>0. stopper.st \in Status /\ stopper.pc = "request" /\ stopper.st.pid \in Monitors
  BY DEF IInv, Types, Request, StopAt, PidInv
<1>1. status' \in Status /\ status'.state = "stopping" /\ status'.pid \in Monitors
  BY <1>0 DEF Request, Status, Active
<1>2. stopper' = [stopper EXCEPT !.pc = "signal"]
  BY DEF Request
<1>3. Types'
  BY <1>0, <1>1, <1>2 DEF IInv, Types, Request, bounds, ghosts, Apart
<1>4. StarterInv' /\ PidInv'
  BY <1>0, <1>1, <1>2
       DEF IInv, Types, Request, StarterInv, StarterOK, PidInv, Launching, Starting, StartAt,
           bounds
<1>5. MonitorInv'
  BY DEF IInv, MonitorInv, MonitorOK, Request
<1>6. ASSUME Apart' PROVE AloneInv' /\ PlayedInv' /\ CompleteInv'
  BY <1>1, <1>6
     DEF IInv, Request, AloneInv, PlayedInv, CompleteInv, Occupies, Complete, Launching, Starting,
         StartAt, ghosts, Whole, Active, Apart
<1> QED BY <1>3, <1>4, <1>5, <1>6 DEF IInv

LEMMA SignalStep ==
  ASSUME IInv, Signal
  PROVE  IInv'
<1> DEFINE pid == stopper.st.pid
<1>0. stopper.st \in Status /\ pid \in Monitors
  BY DEF IInv, Types, Signal, StopAt, PidInv
<1>1. /\ stopper' \in [pc : {"idle", "request", "signal", "await", "mark", "report"},
                       st : Status]
      /\ stopper'.pc \in {"request", "signal", "await"} => stopper'.st.pid \in Monitors
      /\ stopper'.pc # "report"
  <2>1. NoFile \in Status
    BY InitialFiles
  <2>2. [NoFile EXCEPT !.pid = pid] \in Status /\ [NoFile EXCEPT !.pid = pid].pid = pid
    BY <1>0, <2>1 DEF Status
  <2>3. stopper' = [pc |-> "await", st |-> [NoFile EXCEPT !.pid = pid]]
    BY DEF Signal
  <2> QED BY <1>0, <2>2, <2>3
<1>2. UNCHANGED <<files, starter, bounds, ghosts>> /\ stops \in Nat /\ kills \in Nat
  BY DEF Signal, IInv, Types
<1>3. CASE mon' = mon
  BY <1>1, <1>2, <1>3, StopperStep DEF bounds
<1>4. CASE Alive(pid) /\ mon' = [mon EXCEPT ![pid] = Dead(@)]
  <2>1. PidInv'
    BY <1>1, <1>2 DEF IInv, PidInv, files
  <2> QED BY <1>0, <1>1, <1>2, <1>4, <2>1, GoesStep DEF bounds
<1>5. CASE Alive(pid) /\ mon[pid].pc \notin {"boot", "report"}
           /\ mon' = [mon EXCEPT ![pid].sig = TRUE]
  <2>m. mon'[pid] = [mon[pid] EXCEPT !.sig = TRUE] /\ mon[pid] \in Monitor
    BY <1>0, <1>5 DEF IInv, Types
  <2>n. \A n \in Monitors \ {pid} : mon'[n] = mon[n]
    BY <1>0, <1>5 DEF IInv, Types
  <2> HIDE DEF pid
  <2>1. mon'[pid] \in Monitor
    BY <2>m DEF Monitor
  <2>2. /\ mon'[pid].pc = mon[pid].pc /\ mon'[pid].st = mon[pid].st /\ mon'[pid].fc = mon[pid].fc
        /\ mon'[pid].played = mon[pid].played /\ mon'[pid].seen = mon[pid].seen
        /\ mon'[pid].book = mon[pid].book /\ mon'[pid].seed = mon[pid].seed
    BY <2>m DEF Monitor
  <2>s. \A n \in Monitors :
           /\ mon'[n].pc = mon[n].pc /\ mon'[n].st = mon[n].st /\ mon'[n].fc = mon[n].fc
           /\ mon'[n].played = mon[n].played /\ mon'[n].seen = mon[n].seen
           /\ mon'[n].book = mon[n].book /\ mon'[n].seed = mon[n].seed
    BY <2>n, <2>2
  <2>3. Types'
    <3>1. mon' \in [Monitors -> Monitor]
      BY <1>0, <1>5, <2>1 DEF IInv, Types
    <3> QED BY <1>1, <1>2, <3>1 DEF IInv, Types, files, bounds, ghosts, Apart
  <2>4. StarterInv' /\ PidInv'
    BY <1>1, <1>2, <2>s
         DEF IInv, StarterInv, StarterOK, PidInv, Launching, Starting, StartAt, files, bounds, Monitors
  <2>5. MonitorInv'
    BY <1>2, <2>s DEF IInv, MonitorInv, MonitorOK, files
  <2>6. ASSUME Apart' PROVE AloneInv' /\ PlayedInv' /\ CompleteInv'
    BY <1>2, <2>s, <2>6
       DEF IInv, AloneInv, PlayedInv, CompleteInv, Occupies, Complete, Launching, Starting,
           StartAt, files, ghosts, Whole, Apart
  <2> QED BY <2>3, <2>4, <2>5, <2>6 DEF IInv
<1> QED BY <1>3, <1>4, <1>5 DEF Signal

LEMMA AwaitStep ==
  ASSUME IInv, Await \/ Deadline
  PROVE  IInv'
<1>1. status \in Status
  BY DEF IInv, Types
<1>2. stopper' = NoStop \/ stopper' = [pc |-> "mark", st |-> status]
  BY DEF Await, Deadline
<1>3. UNCHANGED <<files, mon, starter, bounds, ghosts>> /\ stops \in Nat /\ kills \in Nat
  BY DEF Await, Deadline, IInv, Types
<1>4. /\ stopper' \in [pc : {"idle", "request", "signal", "await", "mark", "report"},
                       st : Status]
      /\ stopper'.pc \notin {"request", "signal", "await", "report"}
  BY <1>1, <1>2, NoStopType
<1> QED BY <1>3, <1>4, StopperStep DEF bounds

\* Whoever is alive, or is being started, has been overruled.
LEMMA MarkStoppedStep ==
  ASSUME IInv, MarkStopped
  PROVE  IInv'
<1>0. stopper.st \in Status
  BY DEF IInv, Types
<1>1. /\ status' \in Status /\ status'.state = "stopped"
      /\ stopper' = [pc |-> "report", st |-> status']
  BY <1>0 DEF MarkStopped, StoppedCopy, Status, Terminal, Decisions
<1>2. /\ UNCHANGED <<report, block, pgn, mon, starter, bounds, counted, overlapped>>
      /\ overruled' = (overruled \/ \E m \in Monitors : Starting(m) \/ Alive(m))
  BY DEF MarkStopped
<1>3. Types'
  BY <1>1, <1>2 DEF IInv, Types, bounds
<1>4. StarterInv' /\ PidInv'
  BY <1>1, <1>2 DEF IInv, StarterInv, StarterOK, PidInv, Launching, Starting, StartAt, bounds
<1>5. MonitorInv'
  BY <1>2 DEF IInv, MonitorInv, MonitorOK
<1>6. ASSUME Apart' PROVE AloneInv' /\ PlayedInv' /\ CompleteInv'
  BY <1>2, <1>6
     DEF IInv, AloneInv, PlayedInv, CompleteInv, Occupies, Complete, Launching, Starting, StartAt,
         Whole, Alive, Apart, Monitors
<1> QED BY <1>3, <1>4, <1>5, <1>6 DEF IInv

LEMMA ReportStoppedStep ==
  ASSUME IInv, ReportStopped
  PROVE  IInv'
<1>0. stopper.st \in Status /\ stopper.st.state = "stopped"
  BY DEF IInv, Types, ReportStopped, StopAt, PidInv
<1>1. ReportFor(stopper.st) \in Report /\ ~ ReportFor(stopper.st).counted
  BY <1>0, WriteReportType
<1>2. Types'
  BY <1>1, NoStopType DEF IInv, Types, ReportStopped, WriteReport, bounds
<1>3. StarterInv' /\ PidInv'
  BY NoStopType
       DEF IInv, ReportStopped, StarterInv, StarterOK, PidInv, Launching, Starting, StartAt,
           bounds
<1>4. MonitorInv'
  BY DEF IInv, MonitorInv, MonitorOK, ReportStopped
<1>5. ASSUME Apart' PROVE AloneInv' /\ PlayedInv' /\ CompleteInv'
  BY <1>1, <1>5
     DEF IInv, ReportStopped, WriteReport, AloneInv, PlayedInv, CompleteInv, Occupies, Complete,
         Launching, Starting, StartAt, Whole, Apart
<1> QED BY <1>2, <1>3, <1>4, <1>5 DEF IInv

-----------------------------------------------------------------------------
(* Every step, and what follows.                                           *)

LEMMA KillStep ==
  ASSUME IInv, Kill
  PROVE  IInv'
<1>0. UNCHANGED <<files, starts, stops, ghosts>> /\ stops \in Nat /\ kills' \in Nat
      /\ stopper \in [pc : {"idle", "request", "signal", "await", "mark", "report"},
                       st : Status]
  BY DEF Kill, IInv, Types
<1>1. ASSUME NEW m \in Monitors, Alive(m), Goes(m), UNCHANGED <<starter, stopper>>
      PROVE  IInv'
  <2>1. PidInv'
    BY <1>0, <1>1 DEF IInv, PidInv, files
  <2> QED BY <1>0, <1>1, <2>1, GoesStep DEF Goes
<1>2. ASSUME NEW s \in Starts, Starting(s), StarterTo(s, NoStart), UNCHANGED <<mon, stopper>>
      PROVE  IInv'
  BY <1>0, <1>2, StarterStep, StarterTypes DEF files
<1>3. CASE stopper' = NoStop /\ UNCHANGED <<mon, starter>>
  BY <1>0, <1>3, NoStopType, StopperStep
<1> QED BY <1>1, <1>2, <1>3 DEF Kill

LEMMA IInvStep == IInv /\ [Next]_vars => IInv'
<1> SUFFICES ASSUME IInv, [Next]_vars PROVE IInv'
  OBVIOUS
<1>1. CASE StartGiven \/ \E s \in Starts : StartStep(s)
  BY <1>1, StartGivenStep, PrepareBlockStep, WriteBlockStep, SaveStartingStep, ReportStartingStep, SpawnStep,
     SpawnFailsStep, LoadLatestStep, SavePidStep DEF StartStep
<1>2. CASE StopGiven \/ StopStep
  BY <1>2, StopGivenStep, RequestStep, SignalStep, AwaitStep, MarkStoppedStep,
     ReportStoppedStep DEF StopStep
<1>3. CASE Kill
  BY <1>3, KillStep
<1>4. ASSUME NEW m \in Monitors, MonitorStep(m)
      PROVE  IInv'
  BY <1>4, BootStep, BootFailsStep, ReportRunningStep, LaunchStep, ParseLineStep, ExitedStep,
     SignalledStep, HardKillStep, FinishStep, FileStep DEF MonitorStep
<1>5. ASSUME NEW m \in Monitors,
             GameEnds(m) \/ MatchOver(m) \/ FastchessFails(m) \/ OrphanEnds(m)
      PROVE  IInv'
  BY <1>5, GameEndsStep, MatchOverStep, FastchessFailsStep, OrphanEndsStep
<1>6. CASE UNCHANGED vars
  <2>1. Types' /\ StarterInv' /\ PidInv'
    BY <1>6
         DEF IInv, Types, StarterInv, StarterOK, PidInv, Launching, Starting, StartAt, vars,
             files, bounds, ghosts, Apart
  <2>2. MonitorInv'
    BY <1>6 DEF IInv, MonitorInv, MonitorOK, vars, files
  <2>3. ASSUME Apart' PROVE AloneInv' /\ PlayedInv' /\ CompleteInv'
    BY <1>6, <2>3
       DEF IInv, AloneInv, PlayedInv, CompleteInv, Occupies, Complete, Launching, Starting,
           StartAt, vars, files, ghosts, Whole, Apart
  <2> QED BY <2>1, <2>2, <2>3 DEF IInv
<1> QED BY <1>1, <1>2, <1>3, <1>4, <1>5, <1>6 DEF Next

THEOREM Invariance == Spec => []IInv
BY InitIInv, IInvStep, PTL DEF Spec

\* A block is counted only when its file of games holds every opening with both
\* colours: the status that counts it was written by a monitor which had been told
\* of every game, and nobody has emptied the file since.  This holds until two starts
\* overlap or a stop marks a match in progress.
THEOREM CountedBlocksAreWhole == Spec => []CountedIsWhole
<1>1. IInv => CountedIsWhole
  BY DEF IInv, CompleteInv, CountedIsWhole, Whole
<1> QED BY <1>1, Invariance, PTL

\* However starts overlap and whatever is written over the status of a match in
\* progress, the status is one that every command can act on: whoever dies, the match
\* can be started or marked stopped.  Until the first such overlap or mark, two
\* monitors never play in one directory: status, start command and monitor keep each
\* other out without a lock.
THEOREM DirectoryIsUsable == Spec => []DirectoryUsable
<1>1. IInv /\ Apart => OneMonitor
  BY DEF IInv, AloneInv, Occupies, OneMonitor, Apart
<1>2. IInv => TypeOK
  BY DEF IInv, Types, Status, Report, Monitor, Active, Terminal, Blocks, MonitorInv, MonitorOK,
           TypeOK
<1>3. IInv => Recoverable
  BY DEF IInv, PidInv, Recoverable
<1>4. IInv => DirectoryUsable
  BY <1>1, <1>2, <1>3 DEF DirectoryUsable, StatusUsable
<1> QED BY <1>4, Invariance, PTL

=============================================================================
