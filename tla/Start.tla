-------------------------------- MODULE Start --------------------------------
(***************************************************************************)
(* A start of a VM after its command line has been put together: as root   *)
(* when it has TAP networking, which takes three commands under sudo or    *)
(* su, each with a conversation about the root password over a pseudo      *)
(* terminal; and then, one second later, the VNC password, which goes to   *)
(* whatever listens at the monitor by that time.                           *)
(*                                                                         *)
(* The processes meet in the one VM: QEMU gives up if it runs already.     *)
(* sudo, su, QEMU and the user are external.  Times are abstracted: a wait *)
(* may end before or after what it waits for.                              *)
(***************************************************************************)
EXTENDS Integers, FiniteSets

CONSTANTS
  Client,     \* qemu_mgr processes
  UseSu,      \* those with the option -su, or without a sudo
  Secret,     \* what a user may take for the root password
  Right,      \* what it is
  Pass,       \* VNC passwords
  MaxStarts,  \* bound: starts
  MaxTap,     \* bound: those of them with TAP networking
  MaxAnswers, \* bound: answers of each user
  Blank, None

Id == 1..MaxStarts

\* modprobe tap, modprobe tun, and QEMU.
Commands == 3

ASSUME StartAssumption ==
  /\ UseSu \subseteq Client
  /\ Right \in Secret /\ Blank \notin Secret /\ None \notin Secret \cup {Blank}
  /\ Blank \notin Pass /\ None \notin Pass \cup {Blank}
  /\ {MaxStarts, MaxTap, MaxAnswers} \subseteq Nat

VARIABLES
  at,       \* where each process is
  cur,      \* the start that it is about, 0 if none
  cmd,      \* the command of it that it is at
  cached,   \* Config->RootPassword
  tool,     \* the state of its sudo or su
  typed,    \* the line in the pseudo terminal that has not been read
  answers,  \* answers of its user
  starts,   \* starts so far
  asks,     \* asks[i]: what start i is to do: as root; with which VNC password
  born,     \* starts whose QEMU has been launched, but does not listen yet
  vm,       \* the start whose QEMU runs, 0 if none
  vnc,      \* its VNC password; while it is Blank nobody gets in
  old,      \* whether QEMU has only the older of the two commands for it
  (* history, read by the properties only *)
  why,      \* why[c]: what went wrong with the last command of c
  launched, \* starts whose QEMU was launched
  unset     \* starts that ended without their password having been taken

toolVars == <<tool, typed>>
qemuVars == <<born, vm, vnc, old>>
vars == <<at, cur, cmd, cached, toolVars, answers, starts, asks, qemuVars, why, launched, unset>>

Init ==
  /\ at = [c \in Client |-> "idle"]
  /\ cur = [c \in Client |-> 0]
  /\ cmd = [c \in Client |-> 0]
  /\ cached = [c \in Client |-> Blank]
  /\ tool = [c \in Client |-> "none"]
  /\ typed = [c \in Client |-> None]
  /\ answers = [c \in Client |-> 0]
  /\ starts = 0
  /\ asks = [i \in Id |-> [tap |-> FALSE, pass |-> Blank]]
  /\ born = {} /\ vm = 0 /\ vnc = Blank
  /\ old \in BOOLEAN
  /\ why = [c \in Client |-> {}]
  /\ launched = {} /\ unset = {}

GoTo(c, place) == at' = [at EXCEPT ![c] = place]
Blames(c, reason) == why' = [why EXCEPT ![c] = @ \cup {reason}]
Launches(i) == born' = born \cup {i} /\ launched' = launched \cup {i} /\ UNCHANGED <<vm, vnc, old>>

-----------------------------------------------------------------------------
(* ImageStart.                                                             *)

Begin(c, tap, pass) ==
  LET i == starts + 1 IN
  /\ at[c] = "idle"
  /\ starts < MaxStarts
  /\ tap => Cardinality({k \in Id : asks[k].tap}) < MaxTap
  /\ starts' = i
  /\ cur' = [cur EXCEPT ![c] = i]
  /\ asks' = [asks EXCEPT ![i] = [tap |-> tap, pass |-> pass]]
  /\ why' = [why EXCEPT ![c] = {}]
  /\ IF tap
     THEN cmd' = [cmd EXCEPT ![c] = 1] /\ GoTo(c, "launch") /\ UNCHANGED <<qemuVars, launched>>
     ELSE Launches(i) /\ GoTo(c, "sleep") /\ UNCHANGED cmd
  /\ UNCHANGED <<cached, toolVars, answers, unset>>

-----------------------------------------------------------------------------
(* RunCommand, and RunCommandPasswordTransact.                             *)

Launch(c) ==
  /\ at[c] = "launch"
  /\ tool' = [tool EXCEPT ![c] = "new"]
  /\ typed' = [typed EXCEPT ![c] = None]
  /\ GoTo(c, "wait")
  /\ why' = [why EXCEPT ![c] = {}]
  /\ UNCHANGED <<cur, cmd, cached, answers, starts, asks, qemuVars, launched, unset>>

\* Whether it succeeded or not, the next command follows, and then the rest.
ForEver(c) == GoTo(c, "launch") /\ cmd' = [cmd EXCEPT ![c] = @ + 1]  \* mutant
Onward(c) ==
  IF cmd[c] < Commands
  THEN GoTo(c, "launch") /\ cmd' = [cmd EXCEPT ![c] = @ + 1]
  ELSE GoTo(c, "sleep") /\ cmd' = [cmd EXCEPT ![c] = 0]

\* With su the command depends on a variable that has never been set: it may be
\* that nothing is run.
NothingRun(c) ==
  /\ at[c] = "launch"
  /\ c \in UseSu
  /\ Onward(c)
  /\ why' = [why EXCEPT ![c] = {"nothing run"}]
  /\ UNCHANGED <<cur, cached, toolVars, answers, starts, asks, qemuVars, launched, unset>>

\* The line that is written.  What is typed before the prompt is there may be
\* thrown away when the prompt comes.
NoNewline(s) == None  \* mutant
Line(s) == s

Writes(c, s) ==
  /\ typed' = [typed EXCEPT ![c] = Line(s)]
  /\ IF tool[c] = "new" THEN Blames(c, "early") ELSE UNCHANGED why
  /\ GoTo(c, "read")

\* A tenth of a second for the prompt.  A password that is known is written,
\* prompt or not; otherwise the user is asked for it.
Waited(c) ==
  /\ at[c] = "wait"
  /\ IF cached[c] = Blank THEN GoTo(c, "query") /\ UNCHANGED <<typed, why>>
     ELSE Writes(c, cached[c])
  /\ UNCHANGED <<cur, cmd, cached, tool, answers, starts, asks, qemuVars, launched, unset>>

Answer(c, s) ==
  /\ at[c] = "query"
  /\ answers[c] < MaxAnswers
  /\ answers' = [answers EXCEPT ![c] = @ + 1]
  /\ cached' = [cached EXCEPT ![c] = s]
  /\ Writes(c, s)
  /\ UNCHANGED <<cur, cmd, tool, starts, asks, qemuVars, launched, unset>>

\* The output is read to its end, but for three seconds at most.
UntilEnd(c) == tool[c] = "over"  \* mutant: no limit
Enough(c) == TRUE

\* A QEMU under su is not in the background: it may end with the terminal.
ReadEnds(c) ==
  /\ at[c] = "read"
  /\ Enough(c)
  /\ Onward(c)
  /\ tool' = [tool EXCEPT ![c] = "none"]
  /\ typed' = [typed EXCEPT ![c] = None]
  /\ IF tool[c] \in {"new", "root"} \/ (tool[c] = "asking" /\ typed[c] # None)
     THEN Blames(c, "slow") ELSE UNCHANGED why
  /\ \/ UNCHANGED qemuVars
     \/ /\ tool[c] = "holds"
        /\ born' = born \ {cur[c]}
        /\ IF vm = cur[c] THEN vm' = 0 /\ vnc' = Blank ELSE UNCHANGED <<vm, vnc>>
        /\ UNCHANGED old
  /\ UNCHANGED <<cur, cached, answers, starts, asks, launched, unset>>

-----------------------------------------------------------------------------
(* sudo and su.                                                            *)

\* A prompt comes, and with it what was typed before may be lost.
Prompt(c) ==
  /\ tool[c] = "new"
  /\ tool' = [tool EXCEPT ![c] = "asking"]
  /\ typed' \in {typed, [typed EXCEPT ![c] = None]}
  /\ UNCHANGED <<at, cur, cmd, cached, answers, starts, asks, qemuVars, why, launched, unset>>

\* sudo need not ask a user whom it remembers.  Either may refuse altogether,
\* or lose patience.
NoPrompt(c) ==
  \/ /\ tool[c] = "new"
     /\ c \notin UseSu
     /\ tool' = [tool EXCEPT ![c] = "root"]
     /\ UNCHANGED why
  \/ /\ tool[c] \in {"new", "asking"}
     /\ tool' = [tool EXCEPT ![c] = "over"]
     /\ Blames(c, "denied")

Unasked(c) ==
  /\ NoPrompt(c)
  /\ UNCHANGED <<at, cur, cmd, cached, typed, answers, starts, asks, qemuVars, launched, unset>>

\* sudo asks again after a wrong answer, which nobody gives.
Decide(c) ==
  /\ tool[c] = "asking"
  /\ typed[c] # None
  /\ typed' = [typed EXCEPT ![c] = None]
  /\ \/ typed[c] = Right /\ tool' = [tool EXCEPT ![c] = "root"]
     \/ typed[c] # Right /\ tool' = [tool EXCEPT ![c] = "over"]
     \/ typed[c] # Right /\ c \notin UseSu /\ UNCHANGED tool
  /\ UNCHANGED <<at, cur, cmd, cached, answers, starts, asks, qemuVars, why, launched, unset>>

\* sudo puts the command in the background; su waits for it.
Execute(c) ==
  /\ tool[c] = "root"
  /\ tool' = [tool EXCEPT ![c] = IF c \in UseSu /\ cmd[c] = Commands THEN "holds" ELSE "over"]
  /\ IF cmd[c] = Commands THEN Launches(cur[c]) ELSE UNCHANGED <<qemuVars, launched>>
  /\ UNCHANGED <<at, cur, cmd, cached, typed, answers, starts, asks, why, unset>>

-----------------------------------------------------------------------------
(* QEMU.                                                                   *)

\* It listens, and the script of its TAP device has given the socket to the
\* user; or there is one already.
Listens(i) ==
  /\ i \in born
  /\ born' = born \ {i}
  /\ IF vm = 0 THEN vm' = i /\ vnc' = Blank ELSE UNCHANGED <<vm, vnc>>
  /\ UNCHANGED <<at, cur, cmd, cached, toolVars, answers, starts, asks, old, why, launched, unset>>

Ends ==
  /\ vm # 0
  /\ vm' = 0 /\ vnc' = Blank
  /\ UNCHANGED <<at, cur, cmd, cached, toolVars, answers, starts, asks, born, old, why, launched, unset>>

-----------------------------------------------------------------------------
(* VNCSetPassword, a second after the command.                             *)

Finish(c) ==
  /\ GoTo(c, "idle")
  /\ cur' = [cur EXCEPT ![c] = 0]

\* A VM that was started without a password knows none.
Accepts(older) == vm # 0 /\ asks[vm].pass # Blank /\ (older \/ ~old)

TakeAnything(error) == FALSE  \* mutant: whatever comes back will do
IsError(error) == error

\* One exchange, in which the command may be lost, or its answer.
Exchange(c, older, then) ==
  \/ /\ Accepts(older)
     /\ vnc' = asks[cur[c]].pass
     /\ Finish(c)
     /\ unset' = (unset \cup {cur[c]}) \ {vm}
  \/ /\ vm # 0
     /\ ~Accepts(older)
     /\ UNCHANGED vnc
     /\ IF IsError(TRUE) /\ then # "idle"
        THEN GoTo(c, then) /\ UNCHANGED <<cur, unset>>
        ELSE Finish(c) /\ unset' = unset \cup ({cur[c]} \ {vm})
  \/ /\ Finish(c)  \* not listening yet, or timed out
     /\ UNCHANGED vnc
     /\ unset' = unset \cup {cur[c]}

SetPassword(c) ==
  /\ at[c] = "sleep"
  /\ asks[cur[c]].pass # Blank
  /\ Exchange(c, FALSE, "again")
  /\ UNCHANGED <<cmd, cached, toolVars, answers, starts, asks, born, vm, old, why, launched>>

\* The older command, if the newer one was refused.
SetAgain(c) ==
  /\ at[c] = "again"
  /\ Exchange(c, TRUE, "idle")
  /\ UNCHANGED <<cmd, cached, toolVars, answers, starts, asks, born, vm, old, why, launched>>

NoPassword(c) ==
  /\ at[c] = "sleep"
  /\ asks[cur[c]].pass = Blank
  /\ Finish(c)
  /\ UNCHANGED <<cmd, cached, toolVars, answers, starts, asks, qemuVars, why, launched, unset>>

-----------------------------------------------------------------------------
Step(c) ==
  \/ Launch(c) \/ NothingRun(c) \/ Waited(c) \/ ReadEnds(c)
  \/ SetPassword(c) \/ SetAgain(c) \/ NoPassword(c)

ToolNext(c) == Prompt(c) \/ Unasked(c) \/ Decide(c) \/ Execute(c)

Next ==
  \/ \E c \in Client :
       \/ Step(c) \/ ToolNext(c)
       \/ \E tap \in BOOLEAN, pass \in Pass \cup {Blank} : Begin(c, tap, pass)
       \/ \E s \in Secret \cup {Blank} : Answer(c, s)
  \/ \E i \in Id : Listens(i)
  \/ Ends

Spec == Init /\ [][Next]_vars

\* Each wait has its limit, but for that for the user.
FairSpec == Spec /\ \A c \in Client : WF_vars(Step(c))

-----------------------------------------------------------------------------
(* Properties.                                                             *)

TypeOK ==
  /\ at \in [Client -> {"idle", "launch", "wait", "query", "read", "sleep", "again"}]
  /\ cur \in [Client -> {0} \cup Id]
  /\ cmd \in [Client -> 0..Commands]
  /\ cached \in [Client -> Secret \cup {Blank}]
  /\ tool \in [Client -> {"none", "new", "asking", "root", "holds", "over"}]
  /\ typed \in [Client -> Secret \cup {Blank, None}]
  /\ answers \in [Client -> 0..MaxAnswers]
  /\ starts \in {0} \cup Id
  /\ asks \in [Id -> [tap : BOOLEAN, pass : Pass \cup {Blank}]]
  /\ born \subseteq Id /\ launched \subseteq Id /\ unset \subseteq Id
  /\ vm \in {0} \cup Id
  /\ vnc \in Pass \cup {Blank}
  /\ old \in BOOLEAN
  /\ why \in [Client -> SUBSET {"early", "slow", "denied", "nothing run"}]

\* A QEMU that was to be launched as root has been, unless the answer that is
\* kept is not the root password (nobody is asked again: os-commands.c:100), or
\* was written before the prompt came, or the conversation took longer than
\* qemu_mgr listens, or was refused for other reasons, or su was not even run.
RootFailureExplained ==
  \A c \in Client :
    at[c] = "sleep" /\ cur[c] \notin launched => cached[c] # Right \/ why[c] # {}

\* A VM that wants a VNC password has one, unless its start is still about it, or
\* asked once and in vain, because QEMU did not listen yet, or another one of this
\* VM did, or none answered in time.  Nobody was told.
VncPasswordExplained ==
  vm # 0 /\ asks[vm].pass # Blank =>
    vnc # Blank \/ vm \in unset \/ \E c \in Client : cur[c] = vm

\* Whatever sudo, su, QEMU and their output do: a start comes to its end, or to
\* the question to the user.
StartReturns ==
  \A c \in Client : at[c] # "idle" ~> at[c] \in {"idle", "query"}
=============================================================================
