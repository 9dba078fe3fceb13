---------------------------- MODULE Start_proof ----------------------------
(***************************************************************************)
(* Proofs about Start: for any number of processes, passwords and starts,  *)
(* a start as root that comes to nothing and a VM without its VNC password *)
(* have one of the reasons that the properties list.                       *)
(***************************************************************************)
EXTENDS Start, TLAPS

InConversation(c) == at[c] \in {"wait", "query", "read"}
AtCommand(c) == at[c] = "launch" \/ InConversation(c)

\* Where a process is, and what it has with it there.
Place(c) ==
  /\ at[c] = "idle" <=> cur[c] = 0
  /\ cur[c] <= starts
  /\ AtCommand(c) <=> cmd[c] # 0
  /\ InConversation(c) <=> tool[c] # "none"
  /\ typed[c] # None => at[c] = "read" /\ typed[c] = cached[c]
  /\ at[c] = "again" => asks[cur[c]].pass # Blank

\* QEMU is launched by the last command of its start, and once.
LaunchedOnce(c) ==
  AtCommand(c) => cur[c] \notin launched \/ (cmd[c] = Commands /\ tool[c] \in {"holds", "over"})

\* Why a command that is over, or will be, may not have been carried out.
WellUnderWay(c) ==
  \/ tool[c] = "new" /\ at[c] # "read"
  \/ tool[c] = "root"
  \/ tool[c] = "asking" /\ (at[c] = "read" => typed[c] # None)
  \/ tool[c] \in {"holds", "over"} /\ (cmd[c] = Commands => cur[c] \in launched)
Explained(c) ==
  /\ InConversation(c) => WellUnderWay(c) \/ (at[c] = "read" /\ cached[c] # Right) \/ why[c] # {}
  /\ at[c] = "sleep" /\ cur[c] \notin launched => cached[c] # Right \/ why[c] # {}

Apart == \A c, d \in Client : cur[c] = cur[d] => c = d \/ cur[c] = 0

\* Only what was launched comes to listen, once.
Known == /\ launched \subseteq 1..starts
         /\ born \subseteq launched
         /\ vm # 0 => vm \in launched \ born

\* The password of a VM that was launched is set, was tried, or is to be set.
Cared(i) ==
  asks[i].pass # Blank =>
    (vm = i /\ vnc # Blank) \/ i \in unset \/ \E c \in Client : cur[c] = i
Passwords == \A i \in Id : i \in born \/ i = vm => Cared(i)

Fine(c) == Place(c) /\ LaunchedOnce(c) /\ Explained(c)
PerClient == \A c \in Client : Fine(c)
IInv == TypeOK /\ PerClient /\ Apart /\ Known /\ Passwords

-----------------------------------------------------------------------------
LEMMA Bounds == MaxStarts \in Nat /\ MaxTap \in Nat /\ MaxAnswers \in Nat /\ Commands = 3
BY StartAssumption DEF Commands

\* The types in groups that steps change together.
PlaceType ==
  /\ at \in [Client -> {"idle", "launch", "wait", "query", "read", "sleep", "again"}]
  /\ cur \in [Client -> {0} \cup Id]
  /\ cmd \in [Client -> 0..Commands]
ToolType ==
  /\ cached \in [Client -> Secret \cup {Blank}]
  /\ tool \in [Client -> {"none", "new", "asking", "root", "holds", "over"}]
  /\ typed \in [Client -> Secret \cup {Blank, None}]
  /\ answers \in [Client -> 0..MaxAnswers]
StartType ==
  /\ starts \in {0} \cup Id
  /\ asks \in [Id -> [tap : BOOLEAN, pass : Pass \cup {Blank}]]
QemuType ==
  /\ born \subseteq Id /\ launched \subseteq Id /\ unset \subseteq Id
  /\ vm \in {0} \cup Id
  /\ vnc \in Pass \cup {Blank}
  /\ old \in BOOLEAN
WhyType == why \in [Client -> SUBSET {"early", "slow", "denied", "nothing run"}]

LEMMA TypeParts == TypeOK <=> PlaceType /\ ToolType /\ StartType /\ QemuType /\ WhyType
BY DEF TypeOK, PlaceType, ToolType, StartType, QemuType, WhyType

LEMMA TypePartsNext ==
  TypeOK' <=> PlaceType' /\ ToolType' /\ StartType' /\ QemuType' /\ WhyType'
BY DEF TypeOK, PlaceType, ToolType, StartType, QemuType, WhyType

\* A reason more.
LEMMA BlameType ==
  ASSUME NEW c \in Client, WhyType, NEW r \in {"early", "slow", "denied", "nothing run"},
         Blames(c, r)
  PROVE  WhyType'
BY DEF WhyType, Blames

LEMMA Initial == Init => IInv
<1> SUFFICES ASSUME Init PROVE IInv
  OBVIOUS
<1>1. TypeOK
  <2>1. PlaceType
    BY Bounds DEF Init, PlaceType
  <2>2. ToolType
    BY Bounds DEF Init, ToolType
  <2>3. StartType /\ QemuType /\ WhyType
    BY DEF Init, StartType, QemuType, WhyType
  <2> QED BY <2>1, <2>2, <2>3, TypeParts
<1>2. PerClient
  BY StartAssumption DEF Init, PerClient, Fine, Place, LaunchedOnce, Explained, AtCommand, InConversation
<1>3. Apart /\ Known /\ Passwords
  BY DEF Init, Apart, Known, Passwords, Cared, Id
<1> QED BY <1>1, <1>2, <1>3 DEF IInv

-----------------------------------------------------------------------------
(* What a step leaves alone.                                               *)

\* The rest of the state of a process.
Same(d) ==
  /\ at'[d] = at[d] /\ cur'[d] = cur[d] /\ cmd'[d] = cmd[d] /\ cached'[d] = cached[d]
  /\ tool'[d] = tool[d] /\ typed'[d] = typed[d] /\ why'[d] = why[d]

\* A process keeps its place while others go on: they launch other starts.
LEMMA OthersKeep ==
  ASSUME NEW d \in Client, Fine(d), Same(d), TypeOK,
         starts <= starts', starts' \in Nat,
         cur[d] # 0 => asks'[cur[d]] = asks[cur[d]],
         launched \subseteq launched',
         cur[d] # 0 /\ cur[d] \in launched' => cur[d] \in launched
  PROVE  Fine(d)'
<1>1. Place(d)'
  <2>1. cur[d] \in Nat /\ starts \in Nat
    BY Bounds, TypeParts DEF PlaceType, StartType, Id
  <2>2. cur'[d] <= starts'
    BY <2>1 DEF Fine, Same, Place
  <2>3. at'[d] = "again" => asks'[cur'[d]].pass # Blank
    BY DEF Fine, Same, Place
  <2> QED BY <2>2, <2>3 DEF Fine, Same, Place, AtCommand, InConversation
<1>2. LaunchedOnce(d)' /\ Explained(d)'
  BY DEF Fine, Same, Place, LaunchedOnce, Explained, WellUnderWay, AtCommand, InConversation
<1> QED BY <1>1, <1>2 DEF Fine

\* So it suffices to look at the one whose step it is.
LEMMA OneMoves ==
  ASSUME NEW c \in Client, IInv, Fine(c)',
         \A d \in Client : d # c => Same(d),
         starts <= starts', starts' \in Nat,
         \A i \in 1..starts : asks'[i] = asks[i],
         launched \subseteq launched',
         \A i \in 1..starts : i \in launched' => i \in launched \/ i = cur[c]
  PROVE  PerClient'
<1> SUFFICES ASSUME NEW d \in Client, d # c PROVE Fine(d)'
  BY DEF PerClient
<1>1. Fine(d) /\ Same(d) /\ TypeOK
  BY DEF IInv, PerClient
<1>2. cur[d] # 0 => cur[d] \in 1..starts /\ cur[d] # cur[c]
  <2>1. cur[d] \in Nat /\ starts \in Nat
    BY Bounds, TypeParts, <1>1 DEF PlaceType, StartType, Id
  <2>2. cur[d] <= starts
    BY <1>1 DEF Fine, Place
  <2> QED BY <2>1, <2>2 DEF IInv, Apart
<1> QED BY <1>1, <1>2, OthersKeep

\* Conversations do not touch the VM and its password.
LEMMA QuietKeeps ==
  ASSUME IInv, UNCHANGED <<cur, starts, asks, qemuVars, launched, unset>>
  PROVE  Apart' /\ Known' /\ Passwords'
BY DEF IInv, Apart, Known, Passwords, Cared, qemuVars

\* Nor does the end of a QEMU process.
LEMMA FewerKeep ==
  ASSUME Passwords, Known, UNCHANGED <<cur, asks, unset>>, born' \subseteq born,
         (vm' = 0 /\ vnc' = Blank) \/ UNCHANGED <<vm, vnc>>
  PROVE  Passwords'
<1> SUFFICES ASSUME NEW k \in Id, k \in born' \/ k = vm' PROVE Cared(k)'
  BY DEF Passwords
<1>1. k # 0
  BY Bounds DEF Id
<1>2. k \in born \/ k = vm
  BY <1>1
<1>3. Cared(k)
  BY <1>2 DEF Passwords
<1>4. CASE vm' = 0 /\ vnc' = Blank
  <2>1. k \in born'
    BY <1>1, <1>4
  <2>2. k \in born /\ vm # k
    BY <1>1, <2>1 DEF Known
  <2> QED BY <1>3, <1>4, <2>2 DEF Cared
<1>5. CASE UNCHANGED <<vm, vnc>>
  BY <1>3, <1>5 DEF Cared
<1> QED BY <1>4, <1>5

LEMMA QuietMoves ==
  ASSUME NEW c \in Client, IInv, Fine(c)', TypeOK',
         UNCHANGED <<cur, starts, asks, qemuVars, launched, unset>>,
         \A d \in Client : d # c => Same(d)
  PROVE  IInv'
<1>1. starts \in Nat
  BY Bounds, TypeParts DEF IInv, StartType, Id
<1>2. PerClient'
  BY <1>1, OneMoves
<1> QED BY <1>2, QuietKeeps DEF IInv

-----------------------------------------------------------------------------
(* The parts that the steps share.                                         *)

LEMMA BlameMarks ==
  ASSUME NEW c \in Client, NEW r, WhyType, Blames(c, r)
  PROVE  why'[c] # {} /\ \A d \in Client : d # c => why'[d] = why[d]
BY DEF WhyType, Blames

LEMMA WritesDoes ==
  ASSUME NEW c \in Client, NEW s \in Secret \cup {Blank}, Writes(c, s),
         PlaceType, ToolType, WhyType
  PROVE  /\ at'[c] = "read" /\ typed'[c] = s /\ s # None
         /\ tool[c] = "new" => why'[c] # {}
         /\ tool[c] # "new" => why' = why
         /\ \A d \in Client : d # c => at'[d] = at[d] /\ typed'[d] = typed[d] /\ why'[d] = why[d]
<1>1. at'[c] = "read" /\ typed'[c] = s /\ s # None
  BY StartAssumption DEF Writes, Line, GoTo, PlaceType, ToolType
<1>2. \A d \in Client : d # c => at'[d] = at[d] /\ typed'[d] = typed[d]
  BY DEF Writes, Line, GoTo, PlaceType, ToolType
<1>3. CASE tool[c] = "new"
  BY <1>1, <1>2, <1>3, BlameMarks DEF Writes
<1>4. CASE tool[c] # "new"
  BY <1>1, <1>2, <1>4 DEF Writes
<1> QED BY <1>3, <1>4

LEMMA OnwardDoes ==
  ASSUME NEW c \in Client, Onward(c), PlaceType, cur' = cur
  PROVE  /\ PlaceType'
         /\ cmd[c] < Commands => at'[c] = "launch" /\ cmd'[c] = cmd[c] + 1
         /\ ~(cmd[c] < Commands) => at'[c] = "sleep" /\ cmd'[c] = 0
         /\ cmd[c] \in 0..3
         /\ \A d \in Client : d # c => at'[d] = at[d] /\ cmd'[d] = cmd[d]
<1>1. CASE cmd[c] < Commands
  <2>1. cmd' = [cmd EXCEPT ![c] = @ + 1] /\ at' = [at EXCEPT ![c] = "launch"]
    BY <1>1 DEF Onward, GoTo
  <2>2. cmd[c] \in 0..3 /\ cmd[c] + 1 \in 0..3
    BY <1>1, Bounds DEF PlaceType
  <2> QED BY <1>1, <2>1, <2>2, Bounds DEF PlaceType
<1>2. CASE ~(cmd[c] < Commands)
  <2>1. cmd' = [cmd EXCEPT ![c] = 0] /\ at' = [at EXCEPT ![c] = "sleep"]
    BY <1>2 DEF Onward, GoTo
  <2> QED BY <1>2, <2>1, Bounds DEF PlaceType
<1> QED BY <1>1, <1>2

-----------------------------------------------------------------------------
(* The conversation with sudo or su.                                       *)

LEMMA LaunchKeeps ==
  ASSUME IInv, NEW c \in Client, Launch(c)
  PROVE  IInv'
<1>1. TypeOK'
  <2>1. PlaceType /\ ToolType /\ StartType /\ QemuType /\ WhyType
    BY TypeParts DEF IInv
  <2>2. PlaceType'
    BY <2>1, Bounds DEF PlaceType, Launch, GoTo, toolVars, qemuVars
  <2>3. ToolType'
    BY <2>1, StartAssumption, Bounds DEF ToolType, Launch, GoTo, toolVars, qemuVars
  <2>4. StartType' /\ QemuType'
    BY <2>1 DEF StartType, QemuType, Launch, GoTo, toolVars, qemuVars
  <2>5. WhyType'
    BY <2>1, BlameType DEF WhyType, Launch, GoTo, toolVars, qemuVars
  <2> QED BY <2>2, <2>3, <2>4, <2>5, TypePartsNext
<1>2. Fine(c) /\ PlaceType /\ ToolType /\ WhyType /\ TypeOK
  BY TypeParts DEF IInv, PerClient
<1>3. Fine(c)'
  <2>1. /\ at[c] = "launch" /\ at'[c] = "wait" /\ tool'[c] = "new" /\ typed'[c] = None
        /\ cmd' = cmd /\ cur' = cur /\ starts' = starts /\ asks' = asks /\ launched' = launched
    BY <1>2 DEF PlaceType, ToolType, WhyType, Launch, GoTo, toolVars, qemuVars
  <2>2. Place(c)' /\ LaunchedOnce(c)'
    BY <1>2, <2>1, Bounds, StartAssumption DEF Fine, Place, LaunchedOnce, Explained, WellUnderWay, AtCommand, InConversation
  <2>3. Explained(c)'
    BY <1>2, <2>1, Bounds DEF Fine, Place, LaunchedOnce, Explained, WellUnderWay, AtCommand, InConversation
  <2> QED BY <2>2, <2>3 DEF Fine
<1>4. \A d \in Client : d # c => Same(d)
  BY <1>2 DEF PlaceType, ToolType, WhyType, Same, Launch, GoTo
<1> QED BY <1>1, <1>3, <1>4, QuietMoves DEF Launch

LEMMA NothingRunKeeps ==
  ASSUME IInv, NEW c \in Client, NothingRun(c)
  PROVE  IInv'
<1>1. TypeOK'
  <2>1. PlaceType /\ ToolType /\ StartType /\ QemuType /\ WhyType
    BY TypeParts DEF IInv
  <2>2. PlaceType'
    BY <2>1, OnwardDoes DEF NothingRun
  <2>3. ToolType'
    BY <2>1, StartAssumption, Bounds DEF ToolType, NothingRun, Onward, GoTo, toolVars, qemuVars
  <2>4. StartType' /\ QemuType'
    BY <2>1 DEF StartType, QemuType, NothingRun, Onward, GoTo, toolVars, qemuVars
  <2>5. WhyType'
    BY <2>1, BlameType DEF WhyType, NothingRun, Onward, GoTo, toolVars, qemuVars
  <2> QED BY <2>2, <2>3, <2>4, <2>5, TypePartsNext
<1>2. Fine(c) /\ PlaceType /\ ToolType /\ WhyType /\ TypeOK
  BY TypeParts DEF IInv, PerClient
<1>3. Fine(c)'
  <2>1. /\ at[c] = "launch" /\ why'[c] # {} /\ tool' = tool /\ typed' = typed
        /\ IF cmd[c] < Commands THEN at'[c] = "launch" /\ cmd'[c] = cmd[c] + 1
                             ELSE at'[c] = "sleep" /\ cmd'[c] = 0
        /\ cur' = cur /\ starts' = starts /\ asks' = asks /\ launched' = launched
        /\ cmd[c] \in 0..Commands
    BY <1>2 DEF PlaceType, ToolType, WhyType, NothingRun, Onward, GoTo, toolVars, qemuVars
  <2>2. Place(c)' /\ LaunchedOnce(c)'
    BY <1>2, <2>1, Bounds, StartAssumption DEF Fine, Place, LaunchedOnce, Explained, WellUnderWay, AtCommand, InConversation
  <2>3. Explained(c)'
    BY <1>2, <2>1, Bounds DEF Fine, Place, LaunchedOnce, Explained, WellUnderWay, AtCommand, InConversation
  <2> QED BY <2>2, <2>3 DEF Fine
<1>4. \A d \in Client : d # c => Same(d)
  BY <1>2 DEF PlaceType, ToolType, WhyType, Same, NothingRun, Onward, GoTo, toolVars
<1> QED BY <1>1, <1>3, <1>4, QuietMoves DEF NothingRun

LEMMA WaitedKeeps ==
  ASSUME IInv, NEW c \in Client, Waited(c)
  PROVE  IInv'
<1>1. TypeOK'
  <2>1. PlaceType /\ ToolType /\ StartType /\ QemuType /\ WhyType
    BY TypeParts DEF IInv
  <2>2. PlaceType'
    BY <2>1, Bounds DEF PlaceType, Waited, Writes, Line, GoTo, toolVars, qemuVars
  <2>3. ToolType'
    BY <2>1, StartAssumption, Bounds DEF ToolType, Waited, Writes, Line, GoTo, toolVars, qemuVars
  <2>4. StartType' /\ QemuType'
    BY <2>1 DEF StartType, QemuType, Waited, Writes, Line, GoTo, toolVars, qemuVars
  <2>5. WhyType'
    BY <2>1, BlameType DEF WhyType, Waited, Writes, Line, GoTo, toolVars, qemuVars
  <2> QED BY <2>2, <2>3, <2>4, <2>5, TypePartsNext
<1>2. Fine(c) /\ PlaceType /\ ToolType /\ WhyType /\ TypeOK
  BY TypeParts DEF IInv, PerClient
<1>3. Fine(c)'
  <2>1. /\ at[c] = "wait" /\ at'[c] \in {"query", "read"} /\ cached' = cached
        /\ at'[c] = "query" => typed' = typed /\ why' = why
        /\ at'[c] = "read" => typed'[c] = cached[c]
        /\ at'[c] = "read" /\ tool[c] = "new" => why'[c] # {}
        /\ at'[c] = "read" /\ tool[c] # "new" => why' = why
        /\ cached[c] # None
        /\ tool' = tool /\ cmd' = cmd /\ cur' = cur /\ starts' = starts /\ asks' = asks /\ launched' = launched
    <3>1. cached[c] \in Secret \cup {Blank} /\ cached[c] # None
      BY <1>2, StartAssumption DEF ToolType
    <3>2. CASE cached[c] = Blank
      BY <1>2, <3>1, <3>2 DEF Waited, GoTo, PlaceType
    <3>3. CASE cached[c] # Blank
      BY <1>2, <3>1, <3>3, WritesDoes DEF Waited
    <3> QED BY <3>2, <3>3
  <2>2. Place(c)' /\ LaunchedOnce(c)'
    BY <1>2, <2>1, Bounds, StartAssumption DEF Fine, Place, LaunchedOnce, Explained, WellUnderWay, AtCommand, InConversation
  <2>3. Explained(c)'
    BY <1>2, <2>1, Bounds DEF Fine, Place, LaunchedOnce, Explained, WellUnderWay, AtCommand, InConversation
  <2> QED BY <2>2, <2>3 DEF Fine
<1>4. \A d \in Client : d # c => Same(d)
  <2>1. CASE cached[c] = Blank
    BY <1>2, <2>1 DEF Waited, GoTo, PlaceType, Same
  <2>2. CASE cached[c] # Blank
    BY <1>2, <2>2, WritesDoes DEF Waited, ToolType, Same
  <2> QED BY <2>1, <2>2
<1> QED BY <1>1, <1>3, <1>4, QuietMoves DEF Waited

LEMMA AnswerKeeps ==
  ASSUME IInv, NEW c \in Client, NEW s \in Secret \cup {Blank}, Answer(c, s)
  PROVE  IInv'
<1>1. TypeOK'
  <2>1. PlaceType /\ ToolType /\ StartType /\ QemuType /\ WhyType
    BY TypeParts DEF IInv
  <2>2. PlaceType'
    BY <2>1, Bounds DEF PlaceType, Answer, Writes, Line, GoTo, toolVars, qemuVars
  <2>3. ToolType'
    BY <2>1, StartAssumption, Bounds DEF ToolType, Answer, Writes, Line, GoTo, toolVars, qemuVars
  <2>4. StartType' /\ QemuType'
    BY <2>1 DEF StartType, QemuType, Answer, Writes, Line, GoTo, toolVars, qemuVars
  <2>5. WhyType'
    BY <2>1, BlameType DEF WhyType, Answer, Writes, Line, GoTo, toolVars, qemuVars
  <2> QED BY <2>2, <2>3, <2>4, <2>5, TypePartsNext
<1>2. Fine(c) /\ PlaceType /\ ToolType /\ WhyType /\ TypeOK
  BY TypeParts DEF IInv, PerClient
<1>3. Fine(c)'
  <2>1. /\ at[c] = "query" /\ at'[c] = "read" /\ cached'[c] = s /\ typed'[c] = s /\ s # None
        /\ tool[c] = "new" => why'[c] # {}
        /\ tool[c] # "new" => why' = why
        /\ tool' = tool /\ cmd' = cmd /\ cur' = cur /\ starts' = starts /\ asks' = asks /\ launched' = launched
    BY <1>2, WritesDoes DEF ToolType, Answer
  <2>2. Place(c)' /\ LaunchedOnce(c)'
    BY <1>2, <2>1, Bounds, StartAssumption DEF Fine, Place, LaunchedOnce, Explained, WellUnderWay, AtCommand, InConversation
  <2>3. Explained(c)'
    BY <1>2, <2>1, Bounds DEF Fine, Place, LaunchedOnce, Explained, WellUnderWay, AtCommand, InConversation
  <2> QED BY <2>2, <2>3 DEF Fine
<1>4. \A d \in Client : d # c => Same(d)
  BY <1>2, WritesDoes DEF ToolType, Same, Answer
<1> QED BY <1>1, <1>3, <1>4, QuietMoves DEF Answer

LEMMA PromptKeeps ==
  ASSUME IInv, NEW c \in Client, Prompt(c)
  PROVE  IInv'
<1>1. TypeOK'
  <2>1. PlaceType /\ ToolType /\ StartType /\ QemuType /\ WhyType
    BY TypeParts DEF IInv
  <2>2. PlaceType'
    BY <2>1, Bounds DEF PlaceType, Prompt, toolVars, qemuVars
  <2>3. ToolType'
    BY <2>1, StartAssumption, Bounds DEF ToolType, Prompt, toolVars, qemuVars
  <2>4. StartType' /\ QemuType'
    BY <2>1 DEF StartType, QemuType, Prompt, toolVars, qemuVars
  <2>5. WhyType'
    BY <2>1, BlameType DEF WhyType, Prompt, toolVars, qemuVars
  <2> QED BY <2>2, <2>3, <2>4, <2>5, TypePartsNext
<1>2. Fine(c) /\ PlaceType /\ ToolType /\ WhyType /\ TypeOK
  BY TypeParts DEF IInv, PerClient
<1>3. at[c] = "read" => why[c] # {} \/ cached[c] # Right
  BY <1>2 DEF Prompt, Fine, Explained, WellUnderWay, InConversation
<1>4. Fine(c)'
  <2>1. /\ tool[c] = "new" /\ tool'[c] = "asking" /\ typed'[c] \in {typed[c], None}
        /\ at' = at /\ cmd' = cmd /\ cached' = cached /\ why' = why /\ cur' = cur /\ starts' = starts /\ asks' = asks /\ launched' = launched
    BY <1>2 DEF PlaceType, ToolType, WhyType, Prompt, toolVars, qemuVars
  <2>2. Place(c)' /\ LaunchedOnce(c)'
    BY <1>2, <2>1, <1>3, Bounds, StartAssumption DEF Fine, Place, LaunchedOnce, Explained, WellUnderWay, AtCommand, InConversation
  <2>3. Explained(c)'
    BY <1>2, <2>1, <1>3, Bounds DEF Fine, Place, LaunchedOnce, Explained, WellUnderWay, AtCommand, InConversation
  <2> QED BY <2>2, <2>3 DEF Fine
<1>5. \A d \in Client : d # c => Same(d)
  BY <1>2 DEF PlaceType, ToolType, WhyType, Same, Prompt
<1> QED BY <1>1, <1>4, <1>5, QuietMoves DEF Prompt

LEMMA UnaskedKeeps ==
  ASSUME IInv, NEW c \in Client, Unasked(c)
  PROVE  IInv'
<1>1. Fine(c) /\ PlaceType /\ ToolType /\ StartType /\ QemuType /\ WhyType
  BY TypeParts DEF IInv, PerClient
<1>2. CASE tool' = [tool EXCEPT ![c] = "root"] /\ tool[c] = "new" /\ UNCHANGED why
  <2>1. TypeOK'
    BY <1>1, <1>2, TypePartsNext
       DEF PlaceType, ToolType, StartType, QemuType, WhyType, Unasked, qemuVars
  <2>2. Fine(c)'
    <3>1. tool'[c] = "root"
      BY <1>1, <1>2 DEF ToolType
    <3> QED BY <1>1, <1>2, <3>1 DEF Unasked, Fine, Place, LaunchedOnce, Explained, WellUnderWay, AtCommand, InConversation
  <2>3. \A d \in Client : d # c => Same(d)
    BY <1>1, <1>2 DEF Same, ToolType, Unasked
  <2> QED BY <2>1, <2>2, <2>3, QuietMoves DEF Unasked
<1>3. CASE /\ tool[c] \in {"new", "asking"}
           /\ tool' = [tool EXCEPT ![c] = "over"]
           /\ Blames(c, "denied")
  <2>1. TypeOK'
    <3>1. WhyType'
      BY <1>1, <1>3, BlameType
    <3> QED BY <1>1, <1>3, <3>1, TypePartsNext
            DEF PlaceType, ToolType, StartType, QemuType, Unasked, qemuVars
  <2>2. Fine(c)'
    <3>1. tool'[c] = "over" /\ why'[c] # {}
      BY <1>1, <1>3, BlameMarks DEF ToolType
    <3> QED BY <1>1, <1>3, <3>1 DEF Unasked, Fine, Place, LaunchedOnce, Explained, WellUnderWay, AtCommand, InConversation
  <2>3. \A d \in Client : d # c => Same(d)
    BY <1>1, <1>3, BlameMarks DEF Same, ToolType, Unasked
  <2> QED BY <2>1, <2>2, <2>3, QuietMoves DEF Unasked
<1> QED BY <1>2, <1>3 DEF Unasked, NoPrompt

LEMMA DecideKeeps ==
  ASSUME IInv, NEW c \in Client, Decide(c)
  PROVE  IInv'
<1>1. Fine(c) /\ PlaceType /\ ToolType /\ StartType /\ QemuType /\ WhyType
  BY TypeParts DEF IInv, PerClient
<1>2. TypeOK'
  <2>1. ToolType'
    BY <1>1 DEF ToolType, Decide
  <2> QED BY <1>1, <2>1, TypePartsNext DEF PlaceType, StartType, QemuType, WhyType, Decide, qemuVars
<1>3. Fine(c)'
  <2>1. /\ tool[c] = "asking" /\ typed[c] # None /\ typed'[c] = None
        /\ typed[c] = Right => tool'[c] = "root"
        /\ tool'[c] \in {"root", "asking", "over"}
    BY <1>1 DEF Decide, ToolType
  <2>2. at[c] = "read" /\ typed[c] = cached[c]
    BY <1>1, <2>1 DEF Fine, Place
  <2> QED BY <1>1, <2>1, <2>2 DEF Decide, Fine, Place, LaunchedOnce, Explained, WellUnderWay, AtCommand, InConversation
<1>4. \A d \in Client : d # c => Same(d)
  BY <1>1 DEF Same, ToolType, Decide
<1> QED BY <1>2, <1>3, <1>4, QuietMoves DEF Decide

LEMMA ExecuteKeeps ==
  ASSUME IInv, NEW c \in Client, Execute(c)
  PROVE  IInv'
<1>1. Fine(c) /\ PlaceType /\ ToolType /\ StartType /\ QemuType /\ WhyType
  BY TypeParts DEF IInv, PerClient
<1>2. /\ AtCommand(c) /\ cur[c] # 0
      /\ cur[c] \in 1..starts /\ starts \in Nat /\ cur[c] \in Id
      /\ cur[c] \notin launched
  <2>1. tool[c] = "root" /\ cur[c] \in {0} \cup Id /\ starts \in Nat
    BY <1>1, Bounds DEF Execute, PlaceType, StartType, Id
  <2>2. AtCommand(c) /\ cur[c] # 0 /\ cur[c] <= starts /\ cur[c] \notin launched
    BY <1>1, <2>1 DEF Fine, Place, LaunchedOnce, Explained, WellUnderWay, AtCommand, InConversation
  <2> QED BY <2>1, <2>2, Bounds DEF Id
<1>3. /\ tool'[c] \in {"holds", "over"} /\ tool[c] = "root"
      /\ \A d \in Client : d # c => Same(d)
      /\ ToolType'
  BY <1>1 DEF Execute, ToolType, Same
<1>4. cmd[c] = Commands => born' = born \cup {cur[c]} /\ launched' = launched \cup {cur[c]}
  BY DEF Execute, Launches
<1>5. cmd[c] # Commands => born' = born /\ launched' = launched
  BY DEF Execute, qemuVars
<1>6. UNCHANGED <<at, cur, cmd, cached, typed, answers, starts, asks, why, unset, vm, vnc, old>>
  BY DEF Execute, Launches, qemuVars
<1>7. TypeOK'
  <2>1. QemuType'
    BY <1>1, <1>2, <1>4, <1>5, <1>6 DEF QemuType
  <2> QED BY <1>1, <1>3, <1>6, <2>1, TypePartsNext DEF PlaceType, StartType, WhyType
<1>8. Fine(c)'
  BY <1>1, <1>2, <1>3, <1>4, <1>5, <1>6 DEF Fine, Place, LaunchedOnce, Explained, WellUnderWay, AtCommand, InConversation
<1>9. PerClient'
  BY <1>2, <1>3, <1>4, <1>5, <1>6, <1>8, OneMoves
<1>10. Apart'
  BY <1>6 DEF IInv, Apart
<1>11. Known'
  BY <1>2, <1>4, <1>5, <1>6 DEF IInv, Known
<1>12. Passwords'
  BY <1>2, <1>4, <1>5, <1>6 DEF IInv, Passwords, Cared
<1> QED BY <1>7, <1>9, <1>10, <1>11, <1>12 DEF IInv

LEMMA ReadEndsKeeps ==
  ASSUME IInv, NEW c \in Client, ReadEnds(c)
  PROVE  IInv'
<1>1. Fine(c) /\ PlaceType /\ ToolType /\ StartType /\ QemuType /\ WhyType
  BY TypeParts DEF IInv, PerClient
<1>2. UNCHANGED <<cur, cached, answers, starts, asks, launched, unset>> /\ at[c] = "read"
  BY DEF ReadEnds
<1>3. /\ PlaceType'
      /\ cmd[c] < Commands => at'[c] = "launch" /\ cmd'[c] = cmd[c] + 1
      /\ ~(cmd[c] < Commands) => at'[c] = "sleep" /\ cmd'[c] = 0
      /\ cmd[c] \in 0..3
      /\ \A d \in Client : d # c => at'[d] = at[d] /\ cmd'[d] = cmd[d]
  BY <1>1, <1>2, OnwardDoes DEF ReadEnds
<1>4. /\ ToolType' /\ tool'[c] = "none" /\ typed'[c] = None
      /\ \A d \in Client : d # c => tool'[d] = tool[d] /\ typed'[d] = typed[d]
  BY <1>1, <1>2 DEF ReadEnds, ToolType
<1>5. /\ WhyType' /\ \A d \in Client : d # c => why'[d] = why[d]
      /\ tool[c] \in {"new", "root"} \/ (tool[c] = "asking" /\ typed[c] # None) => why'[c] # {}
      /\ why[c] # {} => why'[c] # {}
  <2>1. CASE tool[c] \in {"new", "root"} \/ (tool[c] = "asking" /\ typed[c] # None)
    BY <1>1, <2>1, BlameType, BlameMarks DEF ReadEnds
  <2>2. CASE ~(tool[c] \in {"new", "root"} \/ (tool[c] = "asking" /\ typed[c] # None))
    BY <1>1, <2>2 DEF ReadEnds, WhyType
  <2> QED BY <2>1, <2>2
<1>6. \/ UNCHANGED <<born, vm, vnc, old>>
      \/ /\ born' = born \ {cur[c]} /\ old' = old
         /\ (vm' = 0 /\ vnc' = Blank) \/ UNCHANGED <<vm, vnc>>
  BY DEF ReadEnds, qemuVars
<1>7. Fine(c)'
  <2>1. cur[c] # 0 /\ cmd[c] # 0
    BY <1>1, <1>2 DEF Fine, Place, LaunchedOnce, Explained, WellUnderWay, AtCommand, InConversation
  <2>2. CASE cmd[c] < Commands
    <3>1. at'[c] = "launch" /\ cmd'[c] # 0 /\ cmd[c] # Commands
      BY <1>3, <2>2, Bounds
    <3> QED BY <1>1, <1>2, <1>4, <2>1, <3>1 DEF Fine, Place, LaunchedOnce, Explained, WellUnderWay, AtCommand, InConversation
  <2>3. CASE ~(cmd[c] < Commands)
    <3>1. at'[c] = "sleep" /\ cmd'[c] = 0 /\ cmd[c] = Commands
      BY <1>3, <2>3, Bounds
    <3>2. Place(c)' /\ LaunchedOnce(c)'
      BY <1>1, <1>2, <1>4, <2>1, <3>1 DEF Fine, Place, LaunchedOnce, Explained, WellUnderWay, AtCommand, InConversation
    <3>3. WellUnderWay(c) => cur[c] \in launched \/ why'[c] # {}
      BY <1>2, <1>5, <3>1 DEF WellUnderWay
    <3>4. Explained(c)'
      BY <1>1, <1>2, <1>5, <3>1, <3>3 DEF Fine, Explained, InConversation
    <3> QED BY <3>2, <3>4 DEF Fine
  <2> QED BY <2>2, <2>3
<1>8. TypeOK'
  <2>1. QemuType'
    BY <1>1, <1>2, <1>6 DEF QemuType
  <2> QED BY <1>1, <1>2, <1>3, <1>4, <1>5, <2>1, TypePartsNext DEF StartType
<1>9. PerClient'
  <2>1. starts \in Nat
    BY <1>1, Bounds DEF StartType, Id
  <2>2. \A d \in Client : d # c => Same(d)
    BY <1>2, <1>3, <1>4, <1>5 DEF Same
  <2> QED BY <1>2, <1>7, <2>1, <2>2, OneMoves
<1>10. Apart'
  BY <1>2 DEF IInv, Apart
<1>11. Known'
  BY <1>2, <1>6 DEF IInv, Known
<1>12. Passwords'
  BY <1>1, <1>2, <1>6, FewerKeep DEF IInv
<1> QED BY <1>8, <1>9, <1>10, <1>11, <1>12 DEF IInv

-----------------------------------------------------------------------------
(* Starts, QEMU and the VNC password.                                      *)

LEMMA BeginKeeps ==
  ASSUME IInv, NEW c \in Client, NEW tap \in BOOLEAN, NEW pass \in Pass \cup {Blank},
         Begin(c, tap, pass)
  PROVE  IInv'
<1> DEFINE i == starts + 1
<1>1. Fine(c) /\ PlaceType /\ ToolType /\ StartType /\ QemuType /\ WhyType
  BY TypeParts DEF IInv, PerClient
<1>2. starts \in Nat /\ i \in Id /\ i \in Nat /\ i # 0 /\ i \notin 1..starts
  BY <1>1, Bounds DEF Begin, StartType, Id
<1>3. /\ cur[c] = 0 /\ cur'[c] = i /\ starts' = i
      /\ asks' = [asks EXCEPT ![i] = [tap |-> tap, pass |-> pass]]
      /\ at[c] = "idle" /\ cmd[c] = 0 /\ tool[c] = "none" /\ typed[c] = None
  BY <1>1 DEF Begin, PlaceType, Fine, Place, LaunchedOnce, Explained, WellUnderWay, AtCommand, InConversation
<1>4. /\ tap => at'[c] = "launch" /\ cmd'[c] = 1 /\ UNCHANGED <<born, vm, vnc, old, launched>>
      /\ ~tap => /\ at'[c] = "sleep" /\ cmd'[c] = 0
                 /\ born' = born \cup {i} /\ launched' = launched \cup {i}
                 /\ UNCHANGED <<vm, vnc, old>>
  BY <1>1, <1>3 DEF Begin, PlaceType, GoTo, Launches, qemuVars
<1>5. UNCHANGED <<cached, tool, typed, answers, unset>>
  BY DEF Begin, toolVars
<1>6. \A d \in Client : d # c => Same(d)
  BY <1>1, <1>5 DEF Begin, Same, PlaceType, WhyType, GoTo
<1>7. TypeOK'
  <2>1. PlaceType'
    BY <1>1, <1>2, Bounds DEF Begin, PlaceType, GoTo
  <2>2. StartType'
    BY <1>1, <1>2, <1>3 DEF StartType
  <2>3. QemuType'
    BY <1>1, <1>2, <1>4, <1>5 DEF QemuType
  <2>4. WhyType'
    BY <1>1 DEF Begin, WhyType
  <2> QED BY <1>1, <1>5, <2>1, <2>2, <2>3, <2>4, TypePartsNext DEF ToolType
<1> HIDE DEF i
<1>8. launched \subseteq 1..starts
  BY DEF IInv, Known
<1>9. Fine(c)'
  BY <1>2, <1>3, <1>4, <1>5, <1>8 DEF Fine, Place, LaunchedOnce, Explained, WellUnderWay, AtCommand, InConversation
<1>10. \A k \in 1..starts : k # i /\ k \in Id
  BY <1>2, <1>1, Bounds DEF StartType, Id
<1>11. \A k \in 1..starts : asks'[k] = asks[k]
  BY <1>1, <1>3, <1>10 DEF StartType
<1>12. PerClient'
  <2>1. starts <= starts' /\ starts' \in Nat
    BY <1>2, <1>3 DEF i
  <2> QED BY <1>3, <1>4, <1>6, <1>9, <1>10, <1>11, <2>1, OneMoves
<1>13. \A d \in Client : cur[d] # i
  <2> SUFFICES ASSUME NEW d \in Client, cur[d] = i PROVE FALSE
    OBVIOUS
  <2>1. cur[d] <= starts
    BY DEF IInv, PerClient, Fine, Place
  <2> QED BY <1>2, <2>1 DEF i
<1>14. Apart'
  BY <1>3, <1>6, <1>13 DEF IInv, Apart, Same
<1>15. Known'
  <2>1. 1..starts \subseteq 1..i /\ i \in 1..i
    BY <1>2 DEF i
  <2> QED BY <1>2, <1>3, <1>4, <1>8, <2>1 DEF IInv, Known
<1>16. Passwords'
  <2> SUFFICES ASSUME NEW k \in Id, k \in born' \/ k = vm' PROVE Cared(k)'
    BY DEF Passwords
  <2>1. CASE k = i
    BY <1>3, <2>1 DEF Cared
  <2>2. CASE k # i
    <3>1. (k \in born \/ k = vm) /\ k # 0
      BY <1>4, <2>2, Bounds DEF Id
    <3>2. Cared(k) /\ asks'[k] = asks[k] /\ vm' = vm /\ vnc' = vnc
      BY <1>1, <1>3, <1>4, <2>2, <3>1 DEF IInv, Passwords, StartType
    <3>3. \A d \in Client : cur[d] = k => cur'[d] = k
      BY <1>3, <1>6, <3>1 DEF Same
    <3> QED BY <1>5, <3>2, <3>3 DEF Cared
  <2> QED BY <2>1, <2>2
<1> QED BY <1>7, <1>12, <1>14, <1>15, <1>16 DEF IInv

\* Whose steps are no process's.
LEMMA NobodyMoves ==
  ASSUME IInv, UNCHANGED <<at, cur, cmd, cached, toolVars, starts, asks, why, launched>>
  PROVE  PerClient' /\ Apart'
BY DEF IInv, PerClient, Apart, toolVars, Fine, Place, LaunchedOnce, Explained, WellUnderWay, AtCommand, InConversation

LEMMA ListensKeeps ==
  ASSUME IInv, NEW i \in Id, Listens(i)
  PROVE  IInv'
<1>1. PlaceType /\ ToolType /\ StartType /\ QemuType /\ WhyType
  BY TypeParts DEF IInv
<1>2. /\ i \in born /\ born' = born \ {i} /\ i # 0
      /\ (vm = 0 /\ vm' = i /\ vnc' = Blank) \/ (vm # 0 /\ UNCHANGED <<vm, vnc>>)
      /\ UNCHANGED <<cur, starts, asks, launched, unset, old>>
  BY Bounds DEF Listens, Id
<1>3. TypeOK'
  <2>1. QemuType'
    BY <1>1, <1>2 DEF QemuType
  <2> QED BY <1>1, <2>1, TypePartsNext DEF Listens, toolVars, PlaceType, ToolType, StartType, WhyType
<1>4. PerClient' /\ Apart'
  BY NobodyMoves DEF Listens
<1>5. Known'
  BY <1>2 DEF IInv, Known
<1>6. Passwords'
  <2> SUFFICES ASSUME NEW k \in Id, k \in born' \/ k = vm' PROVE Cared(k)'
    BY DEF Passwords
  <2>1. (k \in born \/ k = vm) /\ k # 0
    BY <1>2, Bounds DEF Id
  <2>2. Cared(k)
    BY <2>1 DEF IInv, Passwords
  <2> QED BY <1>2, <2>1, <2>2 DEF Cared
<1> QED BY <1>3, <1>4, <1>5, <1>6 DEF IInv

LEMMA EndsKeeps ==
  ASSUME IInv, Ends
  PROVE  IInv'
<1>1. PlaceType /\ ToolType /\ StartType /\ QemuType /\ WhyType
  BY TypeParts DEF IInv
<1>2. TypeOK'
  BY <1>1, TypePartsNext DEF Ends, toolVars, PlaceType, ToolType, StartType, QemuType, WhyType
<1>3. PerClient' /\ Apart'
  BY NobodyMoves DEF Ends
<1>4. Known'
  BY DEF Ends, IInv, Known
<1>5. Passwords'
  BY FewerKeep DEF Ends, IInv
<1> QED BY <1>2, <1>3, <1>4, <1>5 DEF IInv

\* A start that is over has seen to its password.
LEMMA FinishKeeps ==
  ASSUME IInv, NEW c \in Client, Finish(c), at[c] \in {"sleep", "again"},
         UNCHANGED <<cmd, cached, toolVars, answers, starts, asks, born, vm, old, why, launched>>,
         vnc' \in Pass \cup {Blank}, unset' \subseteq unset \cup {cur[c]},
         unset \subseteq unset' \cup {vm},
         vnc' = vnc \/ vnc' # Blank,
         unset \subseteq unset' \/ vnc' # Blank,
         asks[cur[c]].pass = Blank \/ cur[c] \in unset' \/ (cur[c] = vm /\ vnc' # Blank)
  PROVE  IInv'
<1>1. Fine(c) /\ PlaceType /\ ToolType /\ StartType /\ QemuType /\ WhyType
  BY TypeParts DEF IInv, PerClient
<1>2. /\ at'[c] = "idle" /\ cur'[c] = 0 /\ cur[c] # 0 /\ cur[c] \in Id
      /\ \A d \in Client : d # c => at'[d] = at[d] /\ cur'[d] = cur[d]
      /\ PlaceType'
  BY <1>1 DEF Finish, GoTo, PlaceType, Fine, Place
<1>3. TypeOK'
  <2>1. QemuType'
    BY <1>1, <1>2 DEF QemuType
  <2> QED BY <1>1, <1>2, <2>1, TypePartsNext DEF toolVars, ToolType, StartType, WhyType
<1>4. starts \in Nat
  BY <1>1, Bounds DEF StartType, Id
<1>5. Fine(c)'
  BY <1>1, <1>2, <1>4 DEF toolVars, Fine, Place, LaunchedOnce, Explained, WellUnderWay, AtCommand, InConversation
<1>6. \A d \in Client : d # c => Same(d)
  BY <1>2 DEF Same, toolVars
<1>7. PerClient'
  BY <1>4, <1>5, <1>6, OneMoves
<1>8. Apart'
  BY <1>2 DEF IInv, Apart
<1>9. Known'
  BY DEF IInv, Known
<1>10. Passwords'
  <2> SUFFICES ASSUME NEW k \in Id, k \in born \/ k = vm, asks[k].pass # Blank
               PROVE (vm = k /\ vnc' # Blank) \/ k \in unset' \/ \E d \in Client : cur'[d] = k
    BY DEF Passwords, Cared
  <2>1. (vm = k /\ vnc # Blank) \/ k \in unset \/ \E d \in Client : cur[d] = k
    BY DEF IInv, Passwords, Cared
  <2>2. CASE vm = k /\ vnc # Blank
    BY <2>2
  <2>3. CASE k \in unset
    BY <2>3
  <2>4. CASE \E d \in Client : cur[d] = k
    BY <1>2, <2>4
  <2> QED BY <2>1, <2>2, <2>3, <2>4
<1> QED BY <1>3, <1>7, <1>8, <1>9, <1>10 DEF IInv

LEMMA ExchangeKeeps ==
  ASSUME IInv, NEW c \in Client, NEW older \in BOOLEAN, at[c] \in {"sleep", "again"},
         asks[cur[c]].pass # Blank,
         Exchange(c, older, IF older THEN "idle" ELSE "again"),
         UNCHANGED <<cmd, cached, toolVars, answers, starts, asks, born, vm, old, why, launched>>
  PROVE  IInv'
<1>1. Fine(c) /\ PlaceType /\ ToolType /\ StartType /\ QemuType /\ WhyType
  BY TypeParts DEF IInv, PerClient
<1>2. cur[c] \in Id /\ asks[cur[c]].pass \in Pass
  <2>1. cur[c] \in Id
    BY <1>1 DEF PlaceType, Fine, Place
  <2> QED BY <1>1, <2>1 DEF StartType
<1>3. CASE Accepts(older) /\ vnc' = asks[cur[c]].pass /\ Finish(c) /\ unset' = (unset \cup {cur[c]}) \ {vm}
  BY <1>2, <1>3, StartAssumption, FinishKeeps
<1>4. CASE /\ vm # 0 /\ ~Accepts(older) /\ UNCHANGED vnc
           /\ Finish(c) /\ unset' = unset \cup ({cur[c]} \ {vm}) /\ older
  <2>1. cur[c] # vm
    BY <1>4 DEF Accepts
  <2> QED BY <1>1, <1>4, <2>1, FinishKeeps DEF QemuType
<1>5. CASE Finish(c) /\ UNCHANGED vnc /\ unset' = unset \cup {cur[c]}
  BY <1>1, <1>5, FinishKeeps DEF QemuType
<1>6. CASE GoTo(c, "again") /\ UNCHANGED <<cur, unset, vnc>>
  <2>1. /\ PlaceType' /\ at'[c] = "again"
        /\ \A d \in Client : d # c => at'[d] = at[d]
    BY <1>1, <1>6 DEF GoTo, PlaceType
  <2>2. TypeOK'
    BY <1>1, <1>6, <2>1, TypePartsNext DEF toolVars, ToolType, StartType, QemuType, WhyType
  <2>3. Fine(c)'
    BY <1>1, <1>6, <2>1 DEF toolVars, Fine, Place, LaunchedOnce, Explained, WellUnderWay, AtCommand, InConversation
  <2>4. \A d \in Client : d # c => Same(d)
    BY <1>6, <2>1 DEF Same, toolVars
  <2> QED BY <1>6, <2>2, <2>3, <2>4, QuietMoves DEF qemuVars
<1> QED BY <1>3, <1>4, <1>5, <1>6 DEF Exchange, IsError

LEMMA PasswordKeeps ==
  ASSUME IInv, NEW c \in Client, SetPassword(c) \/ SetAgain(c) \/ NoPassword(c)
  PROVE  IInv'
<1>1. CASE SetPassword(c)
  BY <1>1, ExchangeKeeps DEF SetPassword
<1>2. CASE SetAgain(c)
  <2>1. asks[cur[c]].pass # Blank
    BY <1>2 DEF SetAgain, IInv, PerClient, Fine, Place
  <2> QED BY <1>2, <2>1, ExchangeKeeps DEF SetAgain
<1>3. CASE NoPassword(c)
  <2>1. vnc \in Pass \cup {Blank}
    BY DEF IInv, TypeOK
  <2> QED BY <1>3, <2>1, FinishKeeps DEF NoPassword, qemuVars
<1> QED BY <1>1, <1>2, <1>3

-----------------------------------------------------------------------------
LEMMA IInvNext == IInv /\ [Next]_vars => IInv'
<1> SUFFICES ASSUME IInv, [Next]_vars PROVE IInv'
  OBVIOUS
<1>1. ASSUME NEW c \in Client, Step(c) PROVE IInv'
  BY <1>1, LaunchKeeps, NothingRunKeeps, WaitedKeeps, ReadEndsKeeps, PasswordKeeps DEF Step
<1>2. ASSUME NEW c \in Client, ToolNext(c) PROVE IInv'
  BY <1>2, PromptKeeps, UnaskedKeeps, DecideKeeps, ExecuteKeeps DEF ToolNext
<1>3. ASSUME NEW c \in Client, NEW tap \in BOOLEAN, NEW pass \in Pass \cup {Blank}, Begin(c, tap, pass)
      PROVE IInv'
  BY <1>3, BeginKeeps
<1>4. ASSUME NEW c \in Client, NEW s \in Secret \cup {Blank}, Answer(c, s) PROVE IInv'
  BY <1>4, AnswerKeeps
<1>5. ASSUME NEW i \in Id, Listens(i) PROVE IInv'
  BY <1>5, ListensKeeps
<1>6. CASE Ends
  BY <1>6, EndsKeeps
<1>7. CASE UNCHANGED vars
  <2>1. TypeOK'
    BY <1>7, TypeParts, TypePartsNext
       DEF IInv, vars, toolVars, qemuVars, PlaceType, ToolType, StartType, QemuType, WhyType
  <2>2. PerClient' /\ Apart'
    BY <1>7, NobodyMoves DEF vars
  <2> QED BY <1>7, <2>1, <2>2, QuietKeeps DEF IInv, vars
<1> QED BY <1>1, <1>2, <1>3, <1>4, <1>5, <1>6, <1>7 DEF Next

\* The inductive invariant holds in every behaviour: what is known of the
\* conversation about each command, and of the password of each VM.
THEOREM Invariance == Spec => []IInv
BY Initial, IInvNext, PTL DEF Spec

\* Types of processes, conversations, starts and the VM (Start.tla, TypeOK).
THEOREM TypeCorrect == Spec => []TypeOK
<1>1. IInv => TypeOK
  BY DEF IInv
<1> QED BY <1>1, Invariance, PTL

\* A start as root that launched nothing has one of the listed reasons: the
\* kept password is wrong, it was written too early, it took too long, it was
\* refused, or nothing was run (os-commands.c, RunCommand).
THEOREM RootFailureIsExplained == Spec => []RootFailureExplained
<1>1. IInv => RootFailureExplained
  BY DEF IInv, PerClient, Fine, Explained, RootFailureExplained
<1> QED BY <1>1, Invariance, PTL

\* A VM without its VNC password is still being started, or its password was
\* tried once and in vain (images.c:515, VNCSetPassword).
THEOREM VncPasswordIsExplained == Spec => []VncPasswordExplained
<1>1. IInv => VncPasswordExplained
  <2> SUFFICES ASSUME IInv, vm # 0, asks[vm].pass # Blank
               PROVE  vnc # Blank \/ vm \in unset \/ \E c \in Client : cur[c] = vm
    BY DEF VncPasswordExplained
  <2>1. vm \in Id
    BY DEF IInv, TypeOK
  <2> QED BY <2>1 DEF IInv, Passwords, Cared
<1> QED BY <1>1, Invariance, PTL
=============================================================================
