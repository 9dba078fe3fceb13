---------------------------- MODULE QmpSession ----------------------------
(***************************************************************************)
(* Several qemu_mgr processes talking to the one QMP monitor of a VM       *)
(* through NAME.qmp: QMPOpen, QMPCommand, QMPTransact and QMPIsError of    *)
(* qmp.c, and the operations of images.c and vnc.c that use them.          *)
(*                                                                         *)
(* The monitor (QEMU, external) listens on a unix socket, serves one       *)
(* connection at a time and leaves the others in the listen backlog.  A    *)
(* client whose connection is not being served is still connected: its     *)
(* reads time out after half a second, it writes its command regardless    *)
(* and closes, and the monitor may find and execute the command later.     *)
(***************************************************************************)
EXTENDS Integers, Sequences, FiniteSets

CONSTANTS
  Client,       \* qemu_mgr processes
  Conn,         \* slots for connections (both ends, open or not yet reaped)
  Op,           \* Op[c]: the operations client c performs, a subset of AnyOp
  Backlog,      \* pending connections the kernel queues before connect blocks
  MaxOps,       \* bound: operations begun by each client
  MaxEvents,    \* bound: events the guest causes by itself
  MaxBoots,     \* bound: times the VM is started
  MaxUnread,    \* bound: unread lines a socket holds while a user types
  NoConn, None

AnyOp == {"pause", "resume", "reboot", "powerdown", "wakeup", "info", "media", "text"}

ASSUME SessionAssumption ==
  /\ IsFiniteSet(Conn)
  /\ Op \in [Client -> SUBSET AnyOp]
  /\ {Backlog, MaxOps, MaxEvents, MaxBoots, MaxUnread} \subseteq Nat
  /\ NoConn \notin Conn
  /\ None \notin Client

VARIABLES
  (* each qemu_mgr process *)
  op,        \* the operation in progress, or "none"
  pc,        \* where it is in QMPOpen / QMPCommand
  leg,       \* which connection of the operation this is, 1 or 2
  step,      \* index in Script of the command awaited or to be sent
  cur,       \* the STREAM in use
  failed,    \* QMPIsError of the last answer
  report,    \* what the last "info" found: TImageInfo.flags, or "stopped"
  opno,      \* operations begun so far
  (* sockets *)
  owner,     \* which process has its end of the connection open
  inq, outq, \* lines on their way to and from the monitor
  (* the monitor and its VM *)
  vm, backlog, served, events, boots,
  (* history, read by the properties only *)
  clean,     \* the operation in progress saw neither a timeout nor an event
  seen,      \* states the VM was in since the last "info" asked
  applied    \* how often operation k of client c took effect on the VM

clientVars  == <<op, pc, leg, step, cur, failed, report, opno>>
socketVars  == <<owner, inq, outq>>
monitorVars == <<vm, backlog, served, events, boots>>
historyVars == <<clean, seen, applied>>
vars == <<clientVars, socketVars, monitorVars, historyVars>>

-----------------------------------------------------------------------------
(* What is sent.  The answers carry, as a tag no code reads, the command   *)
(* they answer.                                                            *)

\* The commands of each operation on its first and its second connection.
Script(o, l) ==
  CASE o = "pause"     -> <<"stop">>
    [] o = "resume"    -> <<"cont">>
    [] o = "reboot"    -> <<"system_reset">>
    [] o = "powerdown" -> <<"system_powerdown">>
    [] o = "wakeup"    -> <<"system_wakeup">>
    [] o = "text"      -> <<"send-key">>
    [] o = "media"     -> IF l = 1 THEN <<"blockdev-change-medium">>
                                   ELSE <<"change">>
    [] OTHER           -> IF l = 1 THEN <<"query-kvm", "query-name", "query-uuid",
                                          "query-status", "query-cpus">>
                                   ELSE <<"query-block">>

Capabilities == "qmp_capabilities"
MediumCmd == {"blockdev-change-medium", "change"}
EffectCmd == MediumCmd \cup
  {"stop", "cont", "system_reset", "system_powerdown", "system_wakeup"}
Command == MediumCmd \cup
  {Capabilities, "stop", "cont", "system_reset", "system_powerdown", "system_wakeup",
   "send-key", "query-kvm", "query-name", "query-uuid", "query-status", "query-cpus",
   "query-block"}

Status  == {"running", "paused"}
Line    == [kind : {"greeting", "return", "error", "event", "nothing"},
            re : Command \cup {"none"}, status : Status \cup {"none"}]
Request == [cmd : Command, from : Client, no : Nat]

Nothing  == [kind |-> "nothing",  re |-> "none", status |-> "none"]
Greeting == [kind |-> "greeting", re |-> "none", status |-> "none"]
Event    == [kind |-> "event",    re |-> "none", status |-> "none"]
Answer(k, c, s) ==
  [kind |-> k, re |-> c, status |-> IF c = "query-status" THEN s ELSE "none"]

CurrentCmd(c) == Script(op[c], leg[c])[step[c]]
Live(n) == n = served \/ \E i \in DOMAIN backlog : backlog[i] = n
Free == {n \in Conn : owner[n] = None /\ ~Live(n)}

-----------------------------------------------------------------------------
(* The client.                                                             *)

Init ==
  /\ op = [c \in Client |-> "none"]
  /\ pc = [c \in Client |-> "idle"]
  /\ leg = [c \in Client |-> 1]
  /\ step = [c \in Client |-> 1]
  /\ cur = [c \in Client |-> NoConn]
  /\ failed = [c \in Client |-> FALSE]
  /\ report = [c \in Client |-> "stopped"]
  /\ opno = [c \in Client |-> 0]
  /\ owner = [n \in Conn |-> None]
  /\ inq = [n \in Conn |-> <<>>]
  /\ outq = [n \in Conn |-> <<>>]
  /\ vm \in {"off"} \cup Status
  /\ backlog = <<>>
  /\ served = NoConn
  /\ events = 0
  /\ boots = 0
  /\ clean = [c \in Client |-> TRUE]
  /\ seen = [c \in Client |-> {}]
  /\ applied = [c \in Client |-> [k \in 1..MaxOps |-> 0]]

\* The user runs an operation.
Begin(c, o) ==
  /\ pc[c] = "idle"
  /\ opno[c] < MaxOps
  /\ op' = [op EXCEPT ![c] = o]
  /\ pc' = [pc EXCEPT ![c] = "open"]
  /\ opno' = [opno EXCEPT ![c] = @ + 1]
  /\ UNCHANGED <<leg, step, cur, failed, report, socketVars, monitorVars, historyVars>>

\* QMPOpen: connect to NAME.qmp, then block on the monitor's greeting.  The
\* first connection of "info" also callocs the TImageInfo, all flags clear.
Connect(c, n) ==
  /\ pc[c] = "open"
  /\ vm # "off"
  /\ Len(backlog) < Backlog
  /\ n \in Free
  /\ pc' = [pc EXCEPT ![c] = "greeting"]
  /\ cur' = [cur EXCEPT ![c] = n]
  /\ report' = IF op[c] = "info" /\ leg[c] = 1
               THEN [report EXCEPT ![c] = "running"] ELSE report
  /\ owner' = [owner EXCEPT ![n] = c]
  /\ backlog' = Append(backlog, n)
  /\ seen' = IF op[c] = "info" /\ leg[c] = 1 THEN [seen EXCEPT ![c] = {vm}] ELSE seen
  /\ UNCHANGED <<op, leg, step, failed, opno, inq, outq, vm, served, events, boots,
                 clean, applied>>

\* Back at the caller's prompt.
ToIdle(c) ==
  /\ op' = [op EXCEPT ![c] = "none"]
  /\ pc' = [pc EXCEPT ![c] = "idle"]
  /\ leg' = [leg EXCEPT ![c] = 1]
  /\ step' = [step EXCEPT ![c] = 1]
  /\ failed' = [failed EXCEPT ![c] = FALSE]
  /\ clean' = [clean EXCEPT ![c] = TRUE]

\* Nobody listens: STREAMOpen returns NULL and the operation is over.  It is
\* silent, except that a NULL TImageInfo means "not running" to its caller.
ConnectRefused(c) ==
  /\ pc[c] = "open"
  /\ vm = "off"
  /\ ToIdle(c)
  /\ report' = IF op[c] = "info" /\ leg[c] = 1
               THEN [report EXCEPT ![c] = "stopped"] ELSE report
  /\ UNCHANGED <<cur, opno, socketVars, monitorVars, seen, applied>>

\* A line written to a connection the monitor has left is lost; SIGPIPE is
\* ignored and no caller looks at the result.
Write(c, cmd) ==
  inq' = IF Live(cur[c])
         THEN [inq EXCEPT ![cur[c]] =
                 Append(@, [cmd |-> cmd, from |-> c, no |-> opno[c]])]
         ELSE inq

NotReturn(line) == line.kind # "return"  \* mutant: no answer counts as an error
IsError(line) == line.kind = "error"

NotRunning(line) == line.status # "running"  \* mutant
IsPaused(line) == line.status = "paused"

\* After the greeting qmp_capabilities is written, and its answer read.
NoCapsAnswer == "ready"  \* mutant: the answer is left for the first command
AfterGreeting == "caps"

\* What the client does with the line a STREAMReadLine returned: the greeting
\* and the capabilities answer are not looked at; of a command's answer only
\* the status and whether there is an "error" item are.
Consume(c, line) ==
  \/ /\ pc[c] = "greeting"
     /\ Write(c, Capabilities)
     /\ pc' = [pc EXCEPT ![c] = AfterGreeting]
     /\ UNCHANGED <<step, failed, report>>
  \/ /\ pc[c] = "caps"
     /\ pc' = [pc EXCEPT ![c] = IF op[c] = "text" THEN "typing" ELSE "ready"]
     /\ UNCHANGED <<step, failed, report, inq>>
  \/ /\ pc[c] = "await"
     /\ failed' = [failed EXCEPT ![c] = IsError(line)]
     /\ report' = IF CurrentCmd(c) = "query-status" /\ IsPaused(line)
                  THEN [report EXCEPT ![c] = "paused"] ELSE report
     /\ \/ /\ op[c] = "text"
           /\ pc' = [pc EXCEPT ![c] = "typing"]
           /\ UNCHANGED step
        \/ /\ op[c] # "text"
           /\ step[c] < Len(Script(op[c], leg[c]))
           /\ pc' = [pc EXCEPT ![c] = "ready"]
           /\ step' = [step EXCEPT ![c] = @ + 1]
        \/ /\ op[c] # "text"
           /\ step[c] = Len(Script(op[c], leg[c]))
           /\ pc' = [pc EXCEPT ![c] = "close"]
           /\ UNCHANGED step
     /\ UNCHANGED inq

ReadLine(c) ==
  /\ pc[c] \in {"greeting", "caps", "await"}
  /\ outq[cur[c]] # <<>>
  /\ Consume(c, Head(outq[cur[c]]))
  /\ outq' = [outq EXCEPT ![cur[c]] = Tail(@)]
  /\ UNCHANGED <<op, leg, cur, opno, owner, monitorVars, historyVars>>

BlocksForever(c) == outq[cur[c]] = <<>> /\ ~Live(cur[c])  \* mutant: no timeout
GivesUp(c) == outq[cur[c]] = <<>>

\* The half second of STREAMSetTimeout is over ("" is returned), or the
\* monitor has closed the connection (NULL): the client carries on.
ReadNothing(c) ==
  /\ pc[c] \in {"greeting", "caps", "await"}
  /\ GivesUp(c)
  /\ Consume(c, Nothing)
  /\ clean' = [clean EXCEPT ![c] = FALSE]
  /\ UNCHANGED <<op, leg, cur, opno, owner, outq, monitorVars, seen, applied>>

\* QMPCommand: write the next command, then block on one line.
Send(c) ==
  /\ pc[c] = "ready"
  /\ Write(c, CurrentCmd(c))
  /\ pc' = [pc EXCEPT ![c] = "await"]
  /\ UNCHANGED <<op, leg, step, cur, failed, report, opno, owner, outq, monitorVars,
                 historyVars>>

\* QMPSendText: the user, for whom there is no timeout, presses a key.  A
\* socket full of unread lines would block the write.
Key(c) ==
  /\ pc[c] = "typing"
  /\ Len(inq[cur[c]]) < MaxUnread
  /\ Write(c, CurrentCmd(c))
  /\ pc' = [pc EXCEPT ![c] = "await"]
  /\ UNCHANGED <<op, leg, step, cur, failed, report, opno, owner, outq, monitorVars,
                 historyVars>>

EndOfInput(c) ==
  /\ pc[c] = "typing"
  /\ pc' = [pc EXCEPT ![c] = "close"]
  /\ UNCHANGED <<op, leg, step, cur, failed, report, opno, socketVars, monitorVars,
                 historyVars>>

LeakStream(c) ==  \* mutant: the stream is dropped, not closed
  /\ cur' = [cur EXCEPT ![c] = NoConn]
  /\ UNCHANGED <<owner, outq>>

\* STREAMClose: what has not been read is lost.
CloseStream(c) ==
  /\ owner' = [owner EXCEPT ![cur[c]] = None]
  /\ outq' = [outq EXCEPT ![cur[c]] = <<>>]
  /\ cur' = [cur EXCEPT ![c] = NoConn]

\* Operations that go on with a second connection: the running info lists the
\* block devices; a change of medium tries the older command if, and only if,
\* the first answer was an error (a NULL answer is not an error: QMPIsError).
AgainOnAnyLeg(c) == op[c] = "info" \/ (op[c] = "media" /\ failed[c])  \* mutant

AgainIfSilent(c) ==  \* mutant: an operation that saw a timeout is retried
  /\ leg[c] = 1
  /\ \/ op[c] = "info" \/ (op[c] = "media" /\ failed[c])
     \/ op[c] # "info" /\ ~clean[c]

Again(c) ==
  /\ leg[c] = 1
  /\ op[c] = "info" \/ (op[c] = "media" /\ failed[c])

Reopen(c) ==
  /\ pc[c] = "close"
  /\ Again(c)
  /\ CloseStream(c)
  /\ pc' = [pc EXCEPT ![c] = "open"]
  /\ leg' = [leg EXCEPT ![c] = @ + 1]
  /\ step' = [step EXCEPT ![c] = 1]
  /\ failed' = [failed EXCEPT ![c] = FALSE]
  /\ UNCHANGED <<op, report, opno, inq, monitorVars, historyVars>>

Finish(c) ==
  /\ pc[c] = "close"
  /\ ~Again(c)
  /\ CloseStream(c)
  /\ ToIdle(c)
  /\ UNCHANGED <<report, opno, inq, monitorVars, seen, applied>>

-----------------------------------------------------------------------------
(* The monitor.                                                            *)

\* Lines the monitor sends on the connection it serves; with the client gone
\* they go nowhere.
Emit(lines) ==
  /\ outq' = IF owner[served] = None THEN outq
             ELSE [outq EXCEPT ![served] = @ \o lines]
  /\ clean' = [c \in Client |->
                 clean[c] /\ ~(owner[served] = c /\ \E i \in DOMAIN lines : lines[i] = Event)]

\* Who is asking for the running info sees the VM in state s.
Witness(s) ==
  seen' = [c \in Client |-> IF op[c] = "info" THEN seen[c] \cup {s} ELSE seen[c]]

\* The longest waiting connection is served next.
Accept ==
  /\ served = NoConn
  /\ backlog # <<>>
  /\ served' = Head(backlog)
  /\ backlog' = Tail(backlog)
  /\ outq' = IF owner[served'] = None THEN outq
             ELSE [outq EXCEPT ![served'] = Append(@, Greeting)]
  /\ UNCHANGED <<clientVars, owner, inq, vm, events, boots, historyVars>>

VmAfter(cmd) == CASE cmd = "stop" -> "paused" [] cmd = "cont" -> "running" [] OTHER -> vm

\* One command is executed and answered.  A VM that stops or resumes says so
\* in an event first; a change of medium may be refused.
Execute ==
  /\ served # NoConn
  /\ inq[served] # <<>>
  /\ LET r == Head(inq[served]) IN
     \E kind \in {"return"} \cup (IF r.cmd \in MediumCmd THEN {"error"} ELSE {}) :
       /\ inq' = [inq EXCEPT ![served] = Tail(@)]
       /\ vm' = VmAfter(r.cmd)
       /\ Emit((IF vm' # vm THEN <<Event>> ELSE <<>>) \o <<Answer(kind, r.cmd, vm)>>)
       /\ Witness(vm')
       /\ applied' = IF r.cmd \in EffectCmd /\ kind = "return"
                     THEN [applied EXCEPT ![r.from][r.no] = @ + 1] ELSE applied
  /\ UNCHANGED <<clientVars, owner, backlog, served, events, boots>>

\* The guest does something the monitor reports.
GuestEvent ==
  /\ served # NoConn
  /\ events < MaxEvents
  /\ events' = events + 1
  /\ Emit(<<Event>>)
  /\ UNCHANGED <<clientVars, owner, inq, vm, backlog, served, boots, seen, applied>>

\* The monitor notices that the client is gone, with or without having read
\* what it had written, and is free for the next one.
Drop ==
  /\ served # NoConn
  /\ owner[served] = None
  /\ served' = NoConn
  /\ inq' = [inq EXCEPT ![served] = <<>>]
  /\ UNCHANGED <<clientVars, owner, outq, vm, backlog, events, boots, historyVars>>

\* QEMU ends: every connection is reset, what was sent can still be read.
Exit ==
  /\ vm # "off"
  /\ vm' = "off"
  /\ served' = NoConn
  /\ backlog' = <<>>
  /\ inq' = [n \in Conn |-> <<>>]
  /\ UNCHANGED <<clientVars, owner, outq, events, boots, historyVars>>

Boot ==
  /\ vm = "off"
  /\ vm' = "running"
  /\ boots < MaxBoots
  /\ boots' = boots + 1
  /\ Witness("running")
  /\ UNCHANGED <<clientVars, socketVars, backlog, served, events, clean, applied>>

-----------------------------------------------------------------------------
ClientStep(c) ==
  \/ \E n \in Conn : Connect(c, n)
  \/ ConnectRefused(c)
  \/ ReadLine(c) \/ ReadNothing(c) \/ Send(c)
  \/ Reopen(c) \/ Finish(c)

Next ==
  \/ \E c \in Client : \E o \in Op[c] : Begin(c, o)
  \/ \E c \in Client : ClientStep(c) \/ Key(c) \/ EndOfInput(c)
  \/ Accept \/ Execute \/ GuestEvent \/ Drop \/ Exit \/ Boot

Spec == Init /\ [][Next]_vars

\* A process that can take its next step does: nothing in qemu_mgr waits on
\* another process but a read with a timeout.  Neither the monitor nor the
\* user at the keyboard is assumed to do anything.
FairSpec == Spec /\ \A c \in Client : WF_vars(ClientStep(c))

-----------------------------------------------------------------------------
(* Properties.                                                             *)

TypeOK ==
  /\ op \in [Client -> AnyOp \cup {"none"}]
  /\ pc \in [Client -> {"idle", "open", "greeting", "caps", "ready", "await", "typing",
                        "close"}]
  /\ leg \in [Client -> 1..2]
  /\ step \in [Client -> Nat \ {0}]
  /\ cur \in [Client -> Conn \cup {NoConn}]
  /\ failed \in [Client -> BOOLEAN]
  /\ report \in [Client -> Status \cup {"stopped"}]
  /\ opno \in [Client -> 0..MaxOps]
  /\ owner \in [Conn -> Client \cup {None}]
  /\ inq \in [Conn -> Seq(Request)]
  /\ outq \in [Conn -> Seq(Line)]
  /\ vm \in Status \cup {"off"}
  /\ backlog \in Seq(Conn)
  /\ served \in Conn \cup {NoConn}
  /\ events \in 0..MaxEvents
  /\ boots \in 0..MaxBoots
  /\ clean \in [Client -> BOOLEAN]
  /\ seen \in [Client -> SUBSET Status]
  /\ applied \in [Client -> [1..MaxOps -> Nat]]

\* images.c:69: "must do this after STREAMClose when QMP connection is freed
\* up".  No process queues for the monitor behind a connection it itself
\* still holds open, where only the timeout would get it out.
NoSelfWait ==
  \A c \in Client : \A n \in Conn :
    (owner[n] = c /\ Live(n)) => n = cur[c]

\* The code reads one line per command and takes it for the answer.  As long
\* as no read timed out and no event was sent on the way, it is.
AnswersMatch ==
  \A c \in Client :
    (pc[c] = "await" /\ clean[c] /\ outq[cur[c]] # <<>>)
      => Head(outq[cur[c]]).re = CurrentCmd(c)

\* IMG_PAUSED: whatever got lost, late or out of step, a VM is never reported
\* as paused that was not paused at some moment since the question was asked.
PausedReportTrue ==
  \A c \in Client : report[c] = "paused" => "paused" \in seen[c]

\* The other direction needs an undisturbed connection: then a VM reported as
\* running did run at some moment since the question was asked.
CleanReportExact ==
  \A c \in Client :
    (op[c] = "info" /\ (leg[c] = 2 \/ step[c] > 4) /\ clean[c] /\ report[c] = "running")
      => "running" \in seen[c]

\* The fallback of ImageMediaAdd never changes the medium a second time, not
\* even if the first command is executed after the client gave up on it.
MediumChangedOnce ==
  \A c \in Client : \A k \in 1..MaxOps : applied[c][k] <= 1

\* Commands that were left in the backlog by a client that timed out are still
\* executed once each, in the order in which that user gave them: pause then
\* resume never becomes resume then pause, nor pause, resume, pause.
ExecutedInOrder ==
  [][\A c \in Client : \A k \in 1..MaxOps :
       applied'[c][k] > applied[c][k] => \A j \in k..MaxOps : applied[c][j] = 0]_applied

\* Whatever the monitor does or fails to do, a process that got a connection
\* gives it back, except while a user is typing at it.
ConnectionReleased ==
  \A c \in Client : cur[c] # NoConn ~> cur[c] = NoConn \/ pc[c] = "typing"
=============================================================================
