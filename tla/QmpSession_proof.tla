------------------------- MODULE QmpSession_proof -------------------------
(***************************************************************************)
(* Proofs about QmpSession: for any number of processes and connections,   *)
(* any mix of operations and any lengths of the queues, a process never    *)
(* waits behind itself and no VM is reported as paused that was not.       *)
(***************************************************************************)
EXTENDS QmpSession, SequenceTheorems, TLAPS

\* A process at work holds one connection, between QMPOpen and STREAMClose,
\* and is somewhere in the script of its operation.
Shape == \A c \in Client :
  /\ op[c] = "none" <=> pc[c] = "idle"
  /\ pc[c] \in {"idle", "open"} => cur[c] = NoConn /\ step[c] = 1
  /\ pc[c] \notin {"idle", "open"} => cur[c] \in Conn /\ owner[cur[c]] = c
  /\ op[c] # "none" => step[c] <= Len(Script(op[c], leg[c]))

\* An open connection is the one its owner is using.
Held == \A n \in Conn : owner[n] # None => n = cur[owner[n]]

\* Nothing is left to be read on a connection that nobody reads.
Fresh == \A n \in Conn : owner[n] = None => outq[n] = <<>>

\* The monitor is part of the VM, and with it the connections it accepts.
Up == vm = "off" => served = NoConn /\ backlog = <<>>

\* What is on its way to a process that asks for the running info is no older
\* than the question.
Recent == \A n \in Conn : (owner[n] # None /\ op[owner[n]] = "info") =>
            \A i \in 1..Len(outq[n]) :
              outq[n][i].status = "paused" => "paused" \in seen[owner[n]]

IInv == TypeOK /\ Shape /\ Held /\ Fresh /\ Up /\ Recent /\ PausedReportTrue

Places == {"idle", "open", "greeting", "caps", "ready", "await", "typing", "close"}

-----------------------------------------------------------------------------
\* Every operation has something to send on either connection.
LEMMA ScriptLength ==
  ASSUME NEW o \in AnyOp, NEW l \in 1..2
  PROVE  Len(Script(o, l)) \in Nat \ {0}
BY DEF AnyOp, Script

\* What it sends are commands; the status is asked for by the info alone.
LEMMA ScriptType ==
  ASSUME NEW o \in AnyOp, NEW l \in 1..2, NEW s \in Nat \ {0}, s <= Len(Script(o, l))
  PROVE  /\ Script(o, l)[s] \in Command
         /\ Script(o, l)[s] = "query-status" => o = "info"
BY DEF AnyOp, Script, Command, MediumCmd

LEMMA AnswerType ==
  ASSUME NEW k \in {"return", "error"}, NEW x \in Command, NEW s \in Status
  PROVE  /\ Answer(k, x, s) \in Line
         /\ Answer(k, x, s).status = "paused" => x = "query-status" /\ s = "paused"
BY DEF Answer, Line, Status

LEMMA OtherLines ==
  /\ {Nothing, Greeting, Event} \subseteq Line
  /\ Nothing.status = "none" /\ Greeting.status = "none" /\ Event.status = "none"
BY DEF Nothing, Greeting, Event, Line

\* A process at work knows which command is due.
LEMMA Due ==
  ASSUME IInv, NEW c \in Client, op[c] # "none"
  PROVE  CurrentCmd(c) \in Command /\ (CurrentCmd(c) = "query-status" => op[c] = "info")
<1>1. op[c] \in AnyOp /\ leg[c] \in 1..2 /\ step[c] \in Nat \ {0}
  BY DEF IInv, TypeOK
<1>2. step[c] <= Len(Script(op[c], leg[c]))
  BY DEF IInv, Shape
<1> QED BY <1>1, <1>2, ScriptType DEF CurrentCmd

LEMMA WriteType ==
  ASSUME TypeOK, NEW c \in Client, NEW x \in Command, cur[c] \in Conn, Write(c, x)
  PROVE  inq' \in [Conn -> Seq(Request)]
<1>1. [cmd |-> x, from |-> c, no |-> opno[c]] \in Request
  BY SessionAssumption DEF TypeOK, Request
<1> QED BY <1>1 DEF TypeOK, Write

LEMMA Initial == Init => IInv
<1> SUFFICES ASSUME Init PROVE IInv
  OBVIOUS
<1>1. TypeOK
  BY SessionAssumption DEF Init, TypeOK, Status
<1>2. Shape /\ Held /\ Fresh /\ Up /\ Recent /\ PausedReportTrue
  BY DEF Init, Shape, Held, Fresh, Up, Recent, PausedReportTrue
<1> QED BY <1>1, <1>2 DEF IInv

-----------------------------------------------------------------------------
(* The steps of a process.                                                 *)

LEMMA BeginKeeps ==
  ASSUME IInv, NEW c \in Client, NEW o \in Op[c], Begin(c, o)
  PROVE  IInv'
<1> USE DEF IInv
<1>1. o \in AnyOp
  BY SessionAssumption
<1>2. o # "none"
  BY <1>1 DEF AnyOp
<1>3. TypeOK'
  <2>1. opno'[c] \in 0..MaxOps
    BY SessionAssumption DEF TypeOK, Begin
  <2> QED BY <1>1, <2>1 DEF TypeOK, Begin, socketVars, monitorVars, historyVars
<1>4. Shape'
  <2> SUFFICES ASSUME NEW d \in Client PROVE Shape!(d)'
    BY DEF Shape
  <2>1. CASE d = c
    <3>1. op'[c] = o /\ pc'[c] = "open" /\ leg'[c] \in 1..2
          /\ cur'[c] = NoConn /\ step'[c] = 1
      BY DEF TypeOK, Shape, Begin
    <3> QED BY <1>1, <1>2, <2>1, <3>1, ScriptLength
  <2>2. CASE d # c
    BY <2>2 DEF TypeOK, Shape, Begin, socketVars
  <2> QED BY <2>1, <2>2
<1>5. \A n \in Conn : owner[n] # c
  BY SessionAssumption DEF Held, Shape, Begin
<1>6. Held' /\ Fresh' /\ Up' /\ Recent' /\ PausedReportTrue'
  BY <1>5 DEF TypeOK, Begin, Held, Fresh, Up, Recent, PausedReportTrue, socketVars,
              monitorVars, historyVars
<1> QED BY <1>3, <1>4, <1>6

LEMMA ConnectKeeps ==
  ASSUME IInv, NEW c \in Client, NEW n \in Conn, Connect(c, n)
  PROVE  IInv'
<1> USE DEF IInv
<1>1. owner[n] = None /\ outq[n] = <<>> /\ c # None
  BY SessionAssumption DEF Connect, Free, Fresh
<1>2. \A m \in Conn : owner[m] # c
  BY SessionAssumption DEF Held, Shape, Connect
<1>3. TypeOK'
  BY DEF TypeOK, Connect, Status
<1>4. Shape'
  <2> SUFFICES ASSUME NEW d \in Client PROVE Shape!(d)'
    BY DEF Shape
  <2>1. CASE d = c
    BY <2>1 DEF TypeOK, Shape, Connect
  <2>2. CASE d # c
    BY <1>1, <2>2, SessionAssumption DEF TypeOK, Shape, Connect
  <2> QED BY <2>1, <2>2
<1>5. /\ owner \in [Conn -> Client \cup {None}] /\ owner' = [owner EXCEPT ![n] = c]
      /\ cur \in [Client -> Conn \cup {NoConn}] /\ cur' = [cur EXCEPT ![c] = n]
      /\ UNCHANGED <<op, outq, vm, served>> /\ vm # "off"
      /\ \A d \in Client : d # c => report'[d] = report[d] /\ seen'[d] = seen[d]
      /\ report'[c] # "paused" \/ (report'[c] = report[c] /\ seen'[c] = seen[c])
  BY DEF TypeOK, Connect
<1>6. Held'
  BY <1>1, <1>2, <1>5 DEF Held
<1>7. Fresh' /\ Up'
  BY <1>1, <1>5 DEF Fresh, Up
<1>8. Recent'
  <2> SUFFICES ASSUME NEW m \in Conn, owner'[m] # None, op[owner'[m]] = "info",
                      NEW i \in 1..Len(outq[m]), outq[m][i].status = "paused"
               PROVE  "paused" \in seen'[owner'[m]]
    BY <1>5 DEF Recent
  <2>1. CASE m = n
    BY <1>1, <2>1
  <2>2. CASE m # n
    BY <1>2, <1>5, <2>2 DEF Recent
  <2> QED BY <2>1, <2>2
<1>9. PausedReportTrue'
  BY <1>5 DEF PausedReportTrue
<1> QED BY <1>3, <1>4, <1>6, <1>7, <1>8, <1>9

LEMMA RefusedKeeps ==
  ASSUME IInv, NEW c \in Client, ConnectRefused(c)
  PROVE  IInv'
<1> USE DEF IInv
<1>1. \A m \in Conn : owner[m] # c
  BY SessionAssumption DEF Held, Shape, ConnectRefused
<1>2. TypeOK'
  BY DEF TypeOK, ConnectRefused, ToIdle, socketVars, monitorVars
<1>3. Shape'
  BY DEF TypeOK, Shape, ConnectRefused, ToIdle, socketVars
<1>4. Held' /\ Fresh' /\ Up' /\ Recent' /\ PausedReportTrue'
  BY <1>1 DEF TypeOK, Held, Fresh, Up, Recent, PausedReportTrue, ConnectRefused, ToIdle,
              socketVars, monitorVars
<1> QED BY <1>2, <1>3, <1>4

\* What a read leaves behind, whether it returned a line or not.
LEMMA Consumed ==
  ASSUME IInv, NEW c \in Client, NEW line \in Line, Consume(c, line)
  PROVE  /\ \E place \in Places \ {"idle", "open"} : pc' = [pc EXCEPT ![c] = place]
         /\ step' \in [Client -> Nat \ {0}] /\ step'[c] <= Len(Script(op[c], leg[c]))
         /\ \A d \in Client : d # c => step'[d] = step[d]
         /\ failed' \in [Client -> BOOLEAN]
         /\ inq' \in [Conn -> Seq(Request)]
         /\ \/ report' = report
            \/ /\ report' = [report EXCEPT ![c] = "paused"]
               /\ op[c] = "info" /\ line.status = "paused"
<1> USE DEF IInv
<1>1. op[c] # "none" /\ cur[c] \in Conn /\ step[c] <= Len(Script(op[c], leg[c]))
  BY DEF Shape, Consume
<1>2. Capabilities \in Command
  BY DEF Command, Capabilities
<1>3. inq' \in [Conn -> Seq(Request)]
  BY <1>1, <1>2, WriteType DEF Consume, TypeOK
<1>4. \E place \in Places \ {"idle", "open"} : pc' = [pc EXCEPT ![c] = place]
  BY DEF Consume, Places, AfterGreeting
<1>5. Len(Script(op[c], leg[c])) \in Nat
  BY <1>1, ScriptLength DEF TypeOK
<1>6. /\ step' \in [Client -> Nat \ {0}] /\ step'[c] <= Len(Script(op[c], leg[c]))
      /\ \A d \in Client : d # c => step'[d] = step[d]
  <2>1. \/ step' = step
        \/ step[c] < Len(Script(op[c], leg[c])) /\ step' = [step EXCEPT ![c] = @ + 1]
    BY DEF Consume
  <2>2. step \in [Client -> Nat \ {0}]
    BY DEF TypeOK
  <2> QED BY <1>1, <1>5, <2>1, <2>2
<1>7. failed' \in [Client -> BOOLEAN]
  BY DEF Consume, TypeOK, IsError
<1>8. \/ report' = report
      \/ /\ report' = [report EXCEPT ![c] = "paused"]
         /\ op[c] = "info" /\ line.status = "paused"
  BY <1>1, Due DEF Consume, IsPaused
<1> QED BY <1>3, <1>4, <1>6, <1>7, <1>8

LEMMA ReadLineKeeps ==
  ASSUME IInv, NEW c \in Client, ReadLine(c)
  PROVE  IInv'
<1> USE DEF IInv
<1>1. cur[c] \in Conn /\ owner[cur[c]] = c /\ c # None
  BY SessionAssumption DEF ReadLine, Shape
<1>2. PICK line \in Line : line = Head(outq[cur[c]])
  BY <1>1 DEF ReadLine, TypeOK
<1>3. Consume(c, line)
  BY <1>2 DEF ReadLine
<1>4. line.status = "paused" /\ op[c] = "info" => "paused" \in seen[c]
  BY <1>1, <1>2 DEF ReadLine, Recent, TypeOK
<1>5. PICK place \in Places \ {"idle", "open"} : pc' = [pc EXCEPT ![c] = place]
  BY <1>3, Consumed
<1>6. /\ outq' = [outq EXCEPT ![cur[c]] = Tail(@)]
      /\ UNCHANGED <<op, leg, cur, opno, owner, monitorVars, historyVars>>
      /\ outq[cur[c]] # <<>> /\ pc[c] \notin {"idle", "open"}
  BY DEF ReadLine
<1>7. TypeOK'
  <2>1. outq' \in [Conn -> Seq(Line)]
    BY <1>1, <1>6 DEF TypeOK
  <2>2. pc' \in [Client -> Places]
    BY <1>5 DEF TypeOK, Places
  <2>3. report' \in [Client -> Status \cup {"stopped"}]
    BY <1>3, Consumed DEF TypeOK, Status
  <2> QED BY <1>3, <1>6, <2>1, <2>2, <2>3, Consumed DEF TypeOK, Places, monitorVars, historyVars
<1>8. Shape'
  <2> SUFFICES ASSUME NEW d \in Client PROVE Shape!(d)'
    BY DEF Shape
  <2>1. CASE d = c
    <3>1. pc'[c] = place /\ place \notin {"idle", "open"}
      BY <1>5 DEF TypeOK
    <3>2. step'[c] <= Len(Script(op[c], leg[c]))
      BY <1>3, Consumed
    <3> QED BY <1>1, <1>6, <2>1, <3>1, <3>2 DEF Shape, Places
  <2>2. CASE d # c
    <3>1. pc'[d] = pc[d]
      BY <1>5, <2>2 DEF TypeOK
    <3>2. step'[d] = step[d]
      BY <1>3, <2>2, Consumed
    <3> QED BY <1>6, <3>1, <3>2 DEF Shape
  <2> QED BY <2>1, <2>2
<1>9. Held' /\ Up'
  BY <1>6 DEF Held, Up, monitorVars
<1>12. Fresh'
  BY <1>1, <1>6 DEF TypeOK, Fresh
<1>10. Recent'
  <2> SUFFICES ASSUME NEW n \in Conn, owner[n] # None, op[owner[n]] = "info",
                      NEW i \in 1..Len(outq'[n]), outq'[n][i].status = "paused"
               PROVE  "paused" \in seen[owner[n]]
    BY <1>6 DEF Recent, historyVars
  <2>1. CASE n # cur[c]
    BY <1>6, <2>1 DEF TypeOK, Recent
  <2>2. CASE n = cur[c]
    <3>1. outq[n] \in Seq(Line) /\ outq[n] # <<>> /\ outq'[n] = Tail(outq[n])
      BY <1>6, <2>2 DEF TypeOK
    <3>2. i + 1 \in 1..Len(outq[n]) /\ outq'[n][i] = outq[n][i + 1]
      BY <3>1
    <3> QED BY <3>2 DEF Recent
  <2> QED BY <2>1, <2>2
<1>11. PausedReportTrue'
  BY <1>3, <1>4, <1>6, Consumed DEF TypeOK, PausedReportTrue, historyVars
<1> QED BY <1>7, <1>8, <1>9, <1>10, <1>11, <1>12

LEMMA ReadNothingKeeps ==
  ASSUME IInv, NEW c \in Client, ReadNothing(c)
  PROVE  IInv'
<1> USE DEF IInv
<1>1. Nothing \in Line /\ Nothing.status # "paused" /\ Consume(c, Nothing)
  BY OtherLines DEF ReadNothing
<1>2. PICK place \in Places \ {"idle", "open"} : pc' = [pc EXCEPT ![c] = place]
  BY <1>1, Consumed
<1>3. /\ UNCHANGED <<op, leg, cur, opno, owner, outq, monitorVars, seen, applied>>
      /\ clean' = [clean EXCEPT ![c] = FALSE]
      /\ pc[c] \notin {"idle", "open"}
  BY DEF ReadNothing
<1>4. report' = report
  BY <1>1, Consumed
<1>5. TypeOK'
  <2>1. pc' \in [Client -> Places]
    BY <1>2 DEF TypeOK, Places
  <2> QED BY <1>1, <1>3, <1>4, <2>1, Consumed DEF TypeOK, Places, monitorVars
<1>6. Shape'
  <2> SUFFICES ASSUME NEW d \in Client PROVE Shape!(d)'
    BY DEF Shape
  <2>1. CASE d = c
    <3>1. pc'[c] = place /\ place \notin {"idle", "open"}
      BY <1>2 DEF TypeOK
    <3>2. step'[c] <= Len(Script(op[c], leg[c]))
      BY <1>1, Consumed
    <3> QED BY <1>3, <2>1, <3>1, <3>2 DEF Shape, Places
  <2>2. CASE d # c
    <3>1. pc'[d] = pc[d]
      BY <1>2, <2>2 DEF TypeOK
    <3>2. step'[d] = step[d]
      BY <1>1, <2>2, Consumed
    <3> QED BY <1>3, <3>1, <3>2 DEF Shape
  <2> QED BY <2>1, <2>2
<1>7. Held' /\ Fresh' /\ Up' /\ Recent' /\ PausedReportTrue'
  BY <1>3, <1>4 DEF Held, Fresh, Up, Recent, PausedReportTrue, monitorVars
<1> QED BY <1>5, <1>6, <1>7

\* QMPCommand writes, whether the operation has commands or the user keys.
LEMMA SendKeeps ==
  ASSUME IInv, NEW c \in Client, Send(c) \/ Key(c)
  PROVE  IInv'
<1> USE DEF IInv
<1>1. op[c] # "none" /\ cur[c] \in Conn
  BY DEF Shape, Send, Key
<1>2. inq' \in [Conn -> Seq(Request)]
  BY <1>1, Due, WriteType DEF Send, Key
<1>3. /\ pc' = [pc EXCEPT ![c] = "await"] /\ pc[c] \notin {"idle", "open"}
      /\ UNCHANGED <<op, leg, step, cur, failed, report, opno, owner, outq, monitorVars,
                     historyVars>>
  BY DEF Send, Key
<1>4. TypeOK'
  BY <1>2, <1>3 DEF TypeOK, monitorVars, historyVars
<1>5. Shape'
  BY <1>3 DEF TypeOK, Shape
<1>6. Held' /\ Fresh' /\ Up' /\ Recent' /\ PausedReportTrue'
  BY <1>3 DEF Held, Fresh, Up, Recent, PausedReportTrue, monitorVars, historyVars
<1> QED BY <1>4, <1>5, <1>6

LEMMA EndOfInputKeeps ==
  ASSUME IInv, NEW c \in Client, EndOfInput(c)
  PROVE  IInv'
<1> USE DEF IInv, EndOfInput
<1>1. TypeOK'
  BY DEF TypeOK, socketVars, monitorVars, historyVars
<1>2. Shape'
  BY DEF TypeOK, Shape, socketVars
<1>3. Held' /\ Fresh' /\ Up' /\ Recent' /\ PausedReportTrue'
  BY DEF Held, Fresh, Up, Recent, PausedReportTrue, socketVars, monitorVars, historyVars
<1> QED BY <1>1, <1>2, <1>3

\* STREAMClose, with or without another connection to come.
LEMMA CloseKeeps ==
  ASSUME IInv, NEW c \in Client, Reopen(c) \/ Finish(c)
  PROVE  IInv'
<1> USE DEF IInv
<1>1. cur[c] \in Conn /\ owner[cur[c]] = c /\ c # None
  BY SessionAssumption DEF Shape, Reopen, Finish
<1>2. /\ owner' = [owner EXCEPT ![cur[c]] = None]
      /\ outq' = [outq EXCEPT ![cur[c]] = <<>>]
      /\ cur' = [cur EXCEPT ![c] = NoConn]
  BY DEF Reopen, Finish, CloseStream
<1>3. /\ UNCHANGED <<report, opno, inq, monitorVars, seen, applied>>
      /\ pc[c] = "close"
      /\ step' = [step EXCEPT ![c] = 1]
      /\ failed' = [failed EXCEPT ![c] = FALSE]
  BY DEF Reopen, Finish, ToIdle, historyVars
<1>4. \/ /\ pc' = [pc EXCEPT ![c] = "idle"] /\ op' = [op EXCEPT ![c] = "none"]
         /\ leg' = [leg EXCEPT ![c] = 1] /\ clean' = [clean EXCEPT ![c] = TRUE]
      \/ /\ pc' = [pc EXCEPT ![c] = "open"] /\ UNCHANGED <<op, clean>>
         /\ leg[c] = 1 /\ leg' = [leg EXCEPT ![c] = 2]
  <2>1. leg[c] = 1 => [leg EXCEPT ![c] = @ + 1] = [leg EXCEPT ![c] = 2]
    OBVIOUS
  <2> QED BY <2>1 DEF Reopen, Finish, ToIdle, Again, historyVars
<1>5. \A m \in Conn : m # cur[c] => owner[m] # c
  BY SessionAssumption DEF Held
<1>6. TypeOK'
  <2>1. op \in [Client -> AnyOp \cup {"none"}] /\ pc \in [Client -> Places]
        /\ leg \in [Client -> 1..2] /\ clean \in [Client -> BOOLEAN]
    BY DEF TypeOK, Places
  <2>2. leg' \in [Client -> 1..2] /\ pc' \in [Client -> Places]
        /\ op' \in [Client -> AnyOp \cup {"none"}] /\ clean' \in [Client -> BOOLEAN]
    <3>1. leg' \in [Client -> 1..2]
      BY <1>4, <2>1
    <3>3. clean' \in [Client -> BOOLEAN]
      BY <1>4, <2>1
    <3>2. pc' \in [Client -> Places] /\ op' \in [Client -> AnyOp \cup {"none"}]
      BY <1>4, <2>1 DEF Places
    <3> QED BY <3>1, <3>2, <3>3
  <2>3. outq \in [Conn -> Seq(Line)]
    BY DEF TypeOK
  <2>4. outq' \in [Conn -> Seq(Line)]
    <3>1. <<>> \in Seq(Line)
      OBVIOUS
    <3> QED BY <1>2, <2>3, <3>1
  <2>5. step' \in [Client -> Nat \ {0}]
    BY <1>3 DEF TypeOK
  <2>6. failed' \in [Client -> BOOLEAN]
    BY <1>3 DEF TypeOK
  <2>7. cur' \in [Client -> Conn \cup {NoConn}] /\ owner' \in [Conn -> Client \cup {None}]
    BY <1>2 DEF TypeOK
  <2> QED BY <1>3, <2>2, <2>4, <2>5, <2>6, <2>7 DEF TypeOK, Places, monitorVars
<1>7. Shape'
  <2>1. \A d \in Client : d # c => cur[d] # cur[c] \/ pc[d] \in {"idle", "open"}
    BY <1>1 DEF Shape
  <2>2. Len(Script(op[c], 2)) \in Nat \ {0}
    BY <1>3, ScriptLength DEF Shape, TypeOK
  <2> QED BY <1>2, <1>3, <1>4, <2>1, <2>2 DEF TypeOK, Shape
<1>8. Held' /\ Fresh' /\ Up'
  BY <1>1, <1>2, <1>3, <1>5 DEF TypeOK, Held, Fresh, Up, monitorVars
<1>9. Recent'
  BY <1>1, <1>2, <1>3, <1>4, <1>5 DEF TypeOK, Recent
<1>10. PausedReportTrue'
  BY <1>3 DEF PausedReportTrue
<1> QED BY <1>6, <1>7, <1>8, <1>9, <1>10

-----------------------------------------------------------------------------
(* The steps of the monitor.                                               *)

LEMMA Single ==
  ASSUME NEW S, NEW x \in S
  PROVE  <<x>> \in Seq(S) /\ Len(<<x>>) = 1 /\ <<x>>[1] = x
OBVIOUS

LEMMA CountedOnceMore ==
  ASSUME NEW g \in [1..MaxOps -> Nat], NEW k
  PROVE  [g EXCEPT ![k] = @ + 1] \in [1..MaxOps -> Nat]
<1>1. CASE k \in 1..MaxOps
  <2>1. g[k] + 1 \in Nat
    BY <1>1
  <2> QED BY <2>1
<1>2. CASE k \notin 1..MaxOps
  <2>1. [g EXCEPT ![k] = @ + 1] = g
    BY <1>2
  <2> QED BY <2>1
<1> QED BY <1>1, <1>2

\* Lines sent do not disturb anything if they are true.
LEMMA EmitKeeps ==
  ASSUME IInv, NEW lines \in Seq(Line), served \in Conn, Emit(lines),
         UNCHANGED <<owner, op>>, seen' \in [Client -> SUBSET Status],
         \A c \in Client : seen[c] \subseteq seen'[c],
         \A i \in 1..Len(lines) : lines[i].status = "paused" =>
           \A c \in Client : op[c] = "info" => "paused" \in seen'[c]
  PROVE  /\ outq' \in [Conn -> Seq(Line)]
         /\ clean' \in [Client -> BOOLEAN]
         /\ Fresh' /\ Recent'
<1> USE DEF IInv
<1>1. clean' \in [Client -> BOOLEAN]
  BY DEF Emit, TypeOK
<1>2. CASE owner[served] = None
  <2>1. outq' = outq
    BY <1>2 DEF Emit
  <2> QED BY <1>1, <2>1 DEF TypeOK, Fresh, Recent
<1>3. CASE owner[served] # None
  <2>1. outq' = [outq EXCEPT ![served] = @ \o lines]
    BY <1>3 DEF Emit
  <2>2. outq' \in [Conn -> Seq(Line)]
    BY <2>1 DEF TypeOK
  <2>3. Fresh'
    BY <1>3, <2>1 DEF TypeOK, Fresh
  <2>4. Recent'
    <3> SUFFICES ASSUME NEW n \in Conn, owner[n] # None, op[owner[n]] = "info",
                        NEW i \in 1..Len(outq'[n]), outq'[n][i].status = "paused"
                 PROVE  "paused" \in seen'[owner[n]]
      BY DEF Recent
    <3>1. owner[n] \in Client /\ outq[n] \in Seq(Line)
      BY DEF TypeOK
    <3>2. CASE i \in 1..Len(outq[n]) /\ outq'[n][i] = outq[n][i]
      BY <3>1, <3>2 DEF Recent
    <3>3. CASE \E j \in 1..Len(lines) : outq'[n][i] = lines[j]
      BY <3>1, <3>3
    <3>4. CASE n # served
      BY <2>1, <3>2, <3>4 DEF TypeOK
    <3>5. CASE n = served
      <4>1. outq'[n] = outq[n] \o lines
        BY <2>1, <3>5 DEF TypeOK
      <4>2. CASE i <= Len(outq[n])
        BY <3>1, <3>2, <4>1, <4>2
      <4>3. CASE i > Len(outq[n])
        <5>1. i - Len(outq[n]) \in 1..Len(lines) /\ outq'[n][i] = lines[i - Len(outq[n])]
          BY <3>1, <4>1, <4>3
        <5> QED BY <3>3, <5>1
      <4> QED BY <3>1, <4>2, <4>3
    <3> QED BY <3>4, <3>5
  <2> QED BY <1>1, <2>2, <2>3, <2>4
<1> QED BY <1>2, <1>3

LEMMA AcceptKeeps ==
  ASSUME IInv, Accept
  PROVE  IInv'
<1> USE DEF IInv
<1>1. served' \in Conn /\ backlog' \in Seq(Conn)
  BY DEF Accept, TypeOK
<1>2. UNCHANGED <<clientVars, owner, inq, vm, events, boots, historyVars>>
  BY DEF Accept
<1>3. \A n \in Conn : \/ outq'[n] = outq[n]
                      \/ owner[n] # None /\ outq'[n] = Append(outq[n], Greeting)
  BY <1>1 DEF Accept, TypeOK
<1>4. TypeOK'
  <2>1. outq' \in [Conn -> Seq(Line)]
    BY <1>1, OtherLines DEF Accept, TypeOK
  <2> QED BY <1>1, <1>2, <2>1 DEF TypeOK, clientVars, historyVars
<1>5. Shape' /\ Held' /\ PausedReportTrue'
  BY <1>2 DEF Shape, Held, PausedReportTrue, clientVars, historyVars
<1>8. Fresh'
  BY <1>2, <1>3 DEF Fresh
<1>6. Recent'
  <2> SUFFICES ASSUME NEW n \in Conn, owner[n] # None, op[owner[n]] = "info",
                      NEW i \in 1..Len(outq'[n]), outq'[n][i].status = "paused"
               PROVE  "paused" \in seen[owner[n]]
    BY <1>2 DEF Recent, clientVars, historyVars
  <2>1. outq[n] \in Seq(Line)
    BY DEF TypeOK
  <2>2. i \in 1..Len(outq[n]) /\ outq'[n][i] = outq[n][i]
    BY <1>3, <2>1, OtherLines
  <2> QED BY <2>2 DEF Recent
<1>7. Up'
  BY DEF Up, Accept
<1> QED BY <1>4, <1>5, <1>6, <1>7, <1>8

LEMMA ExecuteKeeps ==
  ASSUME IInv, Execute
  PROVE  IInv'
<1> USE DEF IInv
<1>0. served \in Conn /\ inq[served] \in Seq(Request) /\ inq[served] # <<>>
  BY DEF Execute, TypeOK
<1>1. PICK r \in Request : r = Head(inq[served])
  BY <1>0
<1>2. r.cmd \in Command /\ r.from \in Client /\ r.no \in Nat
  BY DEF Request
<1>3. PICK kind \in {"return", "error"} :
        /\ Emit((IF vm' # vm THEN <<Event>> ELSE <<>>) \o <<Answer(kind, r.cmd, vm)>>)
        /\ applied' = IF r.cmd \in EffectCmd /\ kind = "return"
                      THEN [applied EXCEPT ![r.from][r.no] = @ + 1] ELSE applied
  BY <1>1 DEF Execute
<1>4. /\ UNCHANGED <<clientVars, owner, backlog, served, events, boots>>
      /\ inq' = [inq EXCEPT ![served] = Tail(@)]
      /\ vm' = VmAfter(r.cmd)
      /\ Witness(vm')
  BY <1>1 DEF Execute
<1>5. vm \in Status /\ vm' \in Status /\ (r.cmd = "query-status" => vm' = vm)
  BY <1>0, <1>4, SessionAssumption DEF Up, TypeOK, VmAfter, Status
<1>6. /\ seen' \in [Client -> SUBSET Status]
      /\ \A c \in Client : seen[c] \subseteq seen'[c]
      /\ \A c \in Client : op[c] = "info" => vm' \in seen'[c]
  BY <1>4, <1>5 DEF Witness, TypeOK
<1>7. PICK first, last : /\ first = IF vm' # vm THEN <<Event>> ELSE <<>>
                        /\ last = <<Answer(kind, r.cmd, vm)>>
  OBVIOUS
<1>8. /\ first \o last \in Seq(Line)
      /\ \A i \in 1..Len(first \o last) : (first \o last)[i].status = "paused" =>
           r.cmd = "query-status" /\ vm = "paused"
  <2>1. /\ first \in Seq(Line)
        /\ \A i \in 1..Len(first) : first[i].status # "paused"
    <3>1. CASE first = <<>>
      BY <3>1
    <3>2. CASE first = <<Event>>
      <4>1. first \in Seq(Line) /\ Len(first) = 1 /\ first[1] = Event
        BY <3>2, Single, OtherLines
      <4> QED BY <4>1, OtherLines
    <3> QED BY <1>7, <3>1, <3>2
  <2>2. /\ last \in Seq(Line)
        /\ \A i \in 1..Len(last) : last[i].status = "paused" =>
             r.cmd = "query-status" /\ vm = "paused"
    <3>1. PICK answer \in Line :
            /\ answer = Answer(kind, r.cmd, vm)
            /\ answer.status = "paused" => r.cmd = "query-status" /\ vm = "paused"
      BY <1>2, <1>5, AnswerType
    <3>2. last = <<answer>>
      BY <1>7, <3>1
    <3>3. last \in Seq(Line) /\ Len(last) = 1 /\ last[1] = answer
      BY <3>2, Single
    <3>4. \A i \in 1..Len(last) : last[i] = answer
      BY <3>3
    <3> QED BY <3>1, <3>3, <3>4
  <2> QED BY <2>1, <2>2, ConcatProperties
<1>9. outq' \in [Conn -> Seq(Line)] /\ clean' \in [Client -> BOOLEAN] /\ Fresh' /\ Recent'
  <2>1. Emit(first \o last) /\ UNCHANGED <<owner, op>>
    BY <1>3, <1>4, <1>7 DEF clientVars
  <2>2. \A i \in 1..Len(first \o last) : (first \o last)[i].status = "paused" =>
          \A c \in Client : op[c] = "info" => "paused" \in seen'[c]
    BY <1>5, <1>6, <1>8
  <2> QED BY <1>0, <1>6, <1>8, <2>1, <2>2, EmitKeeps
<1>10. TypeOK'
  <2>1. inq' \in [Conn -> Seq(Request)]
    BY <1>0, <1>4 DEF TypeOK
  <2>2. applied' \in [Client -> [1..MaxOps -> Nat]]
    <3>1. [applied[r.from] EXCEPT ![r.no] = @ + 1] \in [1..MaxOps -> Nat]
      BY <1>2, CountedOnceMore DEF TypeOK
    <3> QED BY <1>2, <1>3, <3>1 DEF TypeOK
  <2> QED BY <1>4, <1>5, <1>6, <1>9, <2>1, <2>2 DEF TypeOK, clientVars
<1>11. Shape' /\ Held'
  BY <1>4 DEF Shape, Held, clientVars
<1>12. Up'
  BY <1>5 DEF Up, Status
<1>13. PausedReportTrue'
  BY <1>4, <1>6 DEF PausedReportTrue, clientVars
<1> QED BY <1>9, <1>10, <1>11, <1>12, <1>13

LEMMA GuestEventKeeps ==
  ASSUME IInv, GuestEvent
  PROVE  IInv'
<1> USE DEF IInv
<1>1. /\ served \in Conn /\ Emit(<<Event>>)
      /\ UNCHANGED <<clientVars, owner, inq, vm, backlog, served, boots, seen, applied>>
  BY DEF GuestEvent, TypeOK
<1>2. PICK lines : lines = <<Event>>
  OBVIOUS
<1>7. lines \in Seq(Line) /\ \A i \in 1..Len(lines) : lines[i].status # "paused"
  <2>1. lines \in Seq(Line) /\ Len(lines) = 1 /\ lines[1] = Event
    BY <1>2, Single, OtherLines
  <2> QED BY <2>1, OtherLines
<1>3. outq' \in [Conn -> Seq(Line)] /\ clean' \in [Client -> BOOLEAN] /\ Fresh' /\ Recent'
  <2>1. Emit(lines) /\ UNCHANGED <<owner, op>> /\ seen' = seen
    BY <1>1, <1>2 DEF clientVars
  <2>2. seen' \in [Client -> SUBSET Status] /\ \A c \in Client : seen[c] \subseteq seen'[c]
    BY <2>1 DEF TypeOK
  <2> QED BY <1>1, <1>7, <2>1, <2>2, EmitKeeps
<1>4. events' \in 0..MaxEvents
  BY SessionAssumption DEF GuestEvent, TypeOK
<1>5. TypeOK'
  BY <1>1, <1>3, <1>4 DEF TypeOK, clientVars
<1>6. Shape' /\ Held' /\ Up' /\ PausedReportTrue'
  BY <1>1 DEF Shape, Held, Up, PausedReportTrue, clientVars
<1> QED BY <1>3, <1>5, <1>6

LEMMA DropKeeps ==
  ASSUME IInv, Drop \/ Exit
  PROVE  IInv'
<1> USE DEF IInv
<1>1. /\ UNCHANGED <<clientVars, owner, outq, events, boots, historyVars>>
      /\ served' = NoConn
  BY DEF Drop, Exit
<1>2. TypeOK'
  <2>1. <<>> \in Seq(Request) /\ <<>> \in Seq(Conn)
    OBVIOUS
  <2>2. inq' \in [Conn -> Seq(Request)] /\ backlog' \in Seq(Conn) /\ vm' \in Status \cup {"off"}
    BY <2>1 DEF Drop, Exit, TypeOK
  <2> QED BY <1>1, <2>2 DEF TypeOK, clientVars, historyVars
<1>3. Shape' /\ Held' /\ Fresh' /\ Recent' /\ PausedReportTrue'
  BY <1>1 DEF Shape, Held, Fresh, Recent, PausedReportTrue, clientVars, historyVars
<1>4. Up'
  BY DEF Up, Drop, Exit
<1> QED BY <1>2, <1>3, <1>4

LEMMA BootKeeps ==
  ASSUME IInv, Boot
  PROVE  IInv'
<1> USE DEF IInv
<1>1. /\ UNCHANGED <<clientVars, socketVars, backlog, served, events, clean, applied>>
      /\ vm' = "running"
  BY DEF Boot
<1>2. boots' \in 0..MaxBoots
  BY SessionAssumption DEF Boot, TypeOK
<1>3. seen' \in [Client -> SUBSET Status] /\ \A c \in Client : seen[c] \subseteq seen'[c]
  BY DEF Boot, Witness, TypeOK, Status
<1>4. TypeOK'
  BY <1>1, <1>2, <1>3 DEF TypeOK, clientVars, socketVars, Status
<1>5. Shape' /\ Held' /\ Fresh' /\ Up'
  BY <1>1 DEF Shape, Held, Fresh, Up, clientVars, socketVars
<1>6. Recent' /\ PausedReportTrue'
  BY <1>1, <1>3 DEF TypeOK, Recent, PausedReportTrue, clientVars, socketVars
<1> QED BY <1>4, <1>5, <1>6

-----------------------------------------------------------------------------
LEMMA Step == IInv /\ [Next]_vars => IInv'
<1>1. ASSUME IInv, UNCHANGED vars PROVE IInv'
  BY <1>1 DEF IInv, TypeOK, Shape, Held, Fresh, Up, Recent, PausedReportTrue,
             vars, clientVars, socketVars, monitorVars, historyVars
<1>2. ASSUME IInv, NEW c \in Client, ClientStep(c) \/ Key(c) \/ EndOfInput(c) PROVE IInv'
  BY <1>2, ConnectKeeps, RefusedKeeps, ReadLineKeeps, ReadNothingKeeps, SendKeeps,
     EndOfInputKeeps, CloseKeeps DEF ClientStep
<1>3. ASSUME IInv, Next PROVE IInv'
  BY <1>2, <1>3, BeginKeeps, AcceptKeeps, ExecuteKeeps, GuestEventKeeps, DropKeeps,
     BootKeeps DEF Next
<1> QED BY <1>1, <1>3

LEMMA Invariance == Spec => []IInv
BY Initial, Step, PTL DEF Spec

\* Types; among them that no process has more than one connection at hand and
\* that only commands of the monitor's vocabulary are ever sent to it.
THEOREM TypeCorrect == Spec => []TypeOK
<1>1. IInv => TypeOK
  BY DEF IInv
<1> QED BY <1>1, Invariance, PTL

\* A process never queues for the monitor behind a connection of its own: the
\* first connection of "info" is closed before the second is asked for.
THEOREM NeverBehindItself == Spec => []NoSelfWait
<1>1. IInv => NoSelfWait
  BY SessionAssumption DEF IInv, Held, NoSelfWait
<1> QED BY <1>1, Invariance, PTL

\* However many answers are lost, late or taken for the answer to another
\* question, "paused" is only reported of a VM that was paused meanwhile.
THEOREM NeverFalselyPaused == Spec => []PausedReportTrue
<1>1. IInv => PausedReportTrue
  BY DEF IInv
<1> QED BY <1>1, Invariance, PTL

-----------------------------------------------------------------------------
(***************************************************************************)
(* A command that was given up and waits in the backlog does no harm when  *)
(* it is executed at last: each operation of a user takes effect once, and *)
(* they take effect in the order in which that user asked for them.        *)
(*                                                                         *)
(* And as long as no read of an operation timed out and no event came in   *)
(* between, each line that is read is the answer to the command sent last. *)
(***************************************************************************)
\* Requests in a queue that do something to the VM, and errors among answers.
Effects(s) == {s[i] : i \in {j \in DOMAIN s : s[j].cmd \in EffectCmd}}
AtMostOne(s) == \A i, j \in DOMAIN s : s[i].cmd \in EffectCmd /\ s[j].cmd \in EffectCmd => i = j
HasError(s) == \E i \in DOMAIN s : s[i].kind = "error"

\* What waits on each connection; which of two is served before the other.
Waits == [n \in Conn |-> Effects(inq[n])]
Precedes == {p \in Conn \X Conn :
  \/ p[1] = served /\ \E j \in DOMAIN backlog : backlog[j] = p[2]
  \/ \E i, j \in DOMAIN backlog : i < j /\ backlog[i] = p[1] /\ backlog[j] = p[2]}

\* The monitor knows every connection on which something waits, and nobody has
\* two things on one.
OnLive == \A n \in Conn : inq[n] # <<>> => Live(n)
OnePerConn == \A n \in Conn : AtMostOne(inq[n])

\* What waits, and what no user has asked for yet, has had no effect so far, nor
\* has anything that the same user asked for later.
Unapplied == \A n \in Conn : \A r \in Waits[n] :
  /\ r.no \in 1..opno[r.from]
  /\ \A j \in r.no..MaxOps : applied[r.from][j] = 0
Ahead == \A c \in Client : \A j \in 1..MaxOps : j > opno[c] => applied[c][j] = 0

\* The requests of one user wait in the order in which they were made.
Ordered == \A n, m \in Conn : n # m /\ <<n, m>> \in Precedes =>
  \A r \in Waits[n], s \in Waits[m] : r.from = s.from => r.no < s.no

\* The connection in use is the last of its process, and has its own request.
Newest(c) == cur[c] \in Conn => \A n \in Conn \ {cur[c]} : <<cur[c], n>> \in Precedes =>
  \A r \in Waits[n] : r.from # c
Mine(c) == cur[c] \in Conn => \A r \in Waits[cur[c]] : r.from = c /\ r.no = opno[c]

\* The operation in progress has not been asked of the monitor before it is due.
Effective(c) == op[c] \notin {"none", "info", "text"}
Pending(c, n) == \E r \in Waits[n] : r.from = c /\ r.no = opno[c]
Latest(c) == Effective(c) => \A n \in Conn :
  Pending(c, n) => n = cur[c] /\ pc[c] \in {"await", "close"}
DueOnce(c) == Effective(c) =>
  /\ opno[c] \in 1..MaxOps
  /\ pc[c] \in {"open", "greeting", "caps", "ready"} => applied[c][opno[c]] = 0

\* A change of medium that was refused has had no effect, and will have none.
Refusal(c) == failed[c] \/ (cur[c] \in Conn /\ HasError(outq[cur[c]]))
Refused(c) == op[c] = "media" /\ Refusal(c) =>
  /\ pc[c] \in {"await", "close"}
  /\ applied[c][opno[c]] = 0
  /\ \A n \in Conn : ~Pending(c, n)
Sober(c) == (op[c] = "none" => ~failed[c]) /\ (pc[c] = "typing" => op[c] = "text")

Orderly(c) == Newest(c) /\ Mine(c) /\ Latest(c) /\ DueOnce(c) /\ Refused(c) /\ Sober(c)
PerClient == \A c \in Client : Orderly(c)
OInv == OnLive /\ OnePerConn /\ Unapplied /\ Ahead /\ Ordered /\ PerClient

-----------------------------------------------------------------------------
(* Queues.                                                                 *)

LEMMA EffectsNone == Effects(<<>>) = {} /\ AtMostOne(<<>>) /\ ~HasError(<<>>)
BY DEF Effects, AtMostOne, HasError

LEMMA EffectsAppend ==
  ASSUME NEW s \in Seq(Request), NEW r \in Request
  PROVE  /\ r.cmd \notin EffectCmd => Effects(Append(s, r)) = Effects(s)
         /\ r.cmd \in EffectCmd => Effects(Append(s, r)) = Effects(s) \cup {r}
         /\ AtMostOne(s) /\ (r.cmd \notin EffectCmd \/ Effects(s) = {}) => AtMostOne(Append(s, r))
<1> DEFINE t == Append(s, r)
<1>1. /\ DOMAIN t = DOMAIN s \cup {Len(s) + 1} /\ t[Len(s) + 1] = r
      /\ \A i \in DOMAIN s : t[i] = s[i] /\ i # Len(s) + 1
  OBVIOUS
<1> HIDE DEF t
<1>2. Effects(t) = Effects(s) \cup (IF r.cmd \in EffectCmd THEN {r} ELSE {})
  BY <1>1 DEF Effects
<1>3. AtMostOne(s) /\ (r.cmd \notin EffectCmd \/ Effects(s) = {}) => AtMostOne(t)
  BY <1>1 DEF Effects, AtMostOne
<1> QED BY <1>2, <1>3 DEF t

LEMMA EffectsTail ==
  ASSUME NEW s \in Seq(Request), s # <<>>, AtMostOne(s)
  PROVE  /\ AtMostOne(Tail(s))
         /\ Head(s).cmd \notin EffectCmd => Effects(Tail(s)) = Effects(s)
         /\ Head(s).cmd \in EffectCmd => Effects(Tail(s)) = {} /\ Effects(s) = {Head(s)}
<1> DEFINE t == Tail(s)
<1>1. /\ \A i \in DOMAIN t : i + 1 \in DOMAIN s /\ t[i] = s[i + 1]
      /\ \A i \in DOMAIN s : i = 1 \/ (i - 1 \in DOMAIN t /\ s[i] = t[i - 1])
      /\ DOMAIN t \subseteq Nat /\ DOMAIN s \subseteq Nat
      /\ Head(s) = s[1] /\ 1 \in DOMAIN s /\ 0 \notin DOMAIN t
  OBVIOUS
<1> HIDE DEF t
<1>2. AtMostOne(t)
  <2> SUFFICES ASSUME NEW i \in DOMAIN t, NEW j \in DOMAIN t,
                      t[i].cmd \in EffectCmd, t[j].cmd \in EffectCmd PROVE i = j
    BY DEF AtMostOne
  <2>1. i + 1 = j + 1
    BY <1>1 DEF AtMostOne
  <2> QED BY <1>1, <2>1
<1>3. Head(s).cmd \notin EffectCmd => Effects(t) = Effects(s)
  <2> SUFFICES ASSUME Head(s).cmd \notin EffectCmd PROVE Effects(t) = Effects(s)
    OBVIOUS
  <2>1. \A x \in Effects(t) : x \in Effects(s)
    BY <1>1 DEF Effects
  <2>2. \A x \in Effects(s) : x \in Effects(t)
    BY <1>1 DEF Effects
  <2> QED BY <2>1, <2>2
<1>4. Head(s).cmd \in EffectCmd => Effects(t) = {} /\ Effects(s) = {Head(s)}
  <2> SUFFICES ASSUME Head(s).cmd \in EffectCmd PROVE Effects(t) = {} /\ Effects(s) = {Head(s)}
    OBVIOUS
  <2>1. \A i \in DOMAIN s : s[i].cmd \in EffectCmd => i = 1
    BY <1>1 DEF AtMostOne
  <2>2. \A i \in DOMAIN t : t[i].cmd \notin EffectCmd
    BY <1>1, <2>1
  <2> QED BY <1>1, <2>1, <2>2 DEF Effects
<1> QED BY <1>2, <1>3, <1>4 DEF t

LEMMA ErrorsTail ==
  ASSUME NEW s \in Seq(Line), s # <<>>
  PROVE  /\ HasError(Tail(s)) => HasError(s)
         /\ Head(s).kind = "error" => HasError(s)
<1>1. \A i \in DOMAIN Tail(s) : i + 1 \in DOMAIN s /\ Tail(s)[i] = s[i + 1]
  OBVIOUS
<1>2. Head(s) = s[1] /\ 1 \in DOMAIN s
  OBVIOUS
<1> QED BY <1>1, <1>2 DEF HasError

LEMMA ErrorsConcat ==
  ASSUME NEW s \in Seq(Line), NEW t \in Seq(Line), HasError(s \o t)
  PROVE  HasError(s) \/ HasError(t)
<1>1. PICK i \in 1..Len(s \o t) : (s \o t)[i].kind = "error"
  BY ConcatProperties DEF HasError
<1>2. CASE i <= Len(s)
  BY <1>1, <1>2, ConcatProperties DEF HasError
<1>3. CASE i > Len(s)
  <2>1. i - Len(s) \in 1..Len(t) /\ (s \o t)[i] = t[i - Len(s)]
    BY <1>3, ConcatProperties
  <2> QED BY <1>1, <2>1 DEF HasError
<1> QED BY <1>2, <1>3, ConcatProperties

-----------------------------------------------------------------------------
(* What a step does not concern.                                           *)

LEMMA OwnConn ==
  ASSUME IInv, NEW c \in Client, cur[c] \in Conn
  PROVE  /\ owner[cur[c]] = c /\ pc[c] \notin {"idle", "open"} /\ op[c] # "none"
         /\ \A d \in Client : cur[d] = cur[c] => d = c
<1>1. \A d \in Client : cur[d] \in Conn => owner[cur[d]] = d /\ pc[d] \notin {"idle", "open"}
  BY SessionAssumption DEF IInv, Shape
<1> QED BY <1>1 DEF IInv, Shape

LEMMA Idle ==
  ASSUME IInv, NEW c \in Client, pc[c] \in {"idle", "open"}
  PROVE  cur[c] = NoConn /\ cur[c] \notin Conn
BY SessionAssumption DEF IInv, Shape

\* What a process does leaves alone those whose requests and answers it does not
\* touch.
LEMMA Undisturbed ==
  ASSUME OInv, NEW d \in Client,
         op'[d] = op[d], pc'[d] = pc[d], cur'[d] = cur[d], opno'[d] = opno[d],
         failed'[d] = failed[d], \A j \in 1..MaxOps : applied'[d][j] = applied[d][j],
         \A n \in Conn : Waits'[n] # {} /\ <<cur[d], n>> \in Precedes' =>
           <<cur[d], n>> \in Precedes,
         \A n \in Conn : \A r \in Waits'[n] : r.from = d \/ n = cur[d] => r \in Waits[n],
         cur[d] \in Conn => (HasError(outq'[cur[d]]) => HasError(outq[cur[d]]))
  PROVE  Orderly(d)'
<1>1. Newest(d) /\ Mine(d) /\ Latest(d) /\ DueOnce(d) /\ Refused(d) /\ Sober(d)
  BY DEF OInv, PerClient, Orderly
<1>2. \A n \in Conn : Pending(d, n)' => Pending(d, n)
  BY DEF Pending
<1>3. Newest(d)' /\ Mine(d)'
  BY <1>1 DEF Newest, Mine
<1>4. Latest(d)' /\ DueOnce(d)' /\ Sober(d)'
  BY <1>1, <1>2 DEF Latest, DueOnce, Sober, Effective
<1>5. Refusal(d)' => Refusal(d)
  BY DEF Refusal
<1>6. Refused(d)'
  <2> SUFFICES ASSUME op[d] = "media", Refusal(d)'
               PROVE  /\ pc[d] \in {"await", "close"}
                      /\ applied'[d][opno[d]] = 0
                      /\ \A n \in Conn : ~Pending(d, n)'
    BY DEF Refused
  <2>1. opno[d] \in 1..MaxOps
    BY <1>1 DEF DueOnce, Effective
  <2> QED BY <1>1, <1>2, <1>5, <2>1 DEF Refused
<1> QED BY <1>3, <1>4, <1>6 DEF Orderly

\* So does one that adds nothing to what waits.
LEMMA Calm ==
  ASSUME OInv, UNCHANGED <<opno, applied>>,
         \A n \in Conn : Waits'[n] \subseteq Waits[n],
         \A n, m \in Conn : <<n, m>> \in Precedes' /\ Waits'[n] # {} /\ Waits'[m] # {} =>
           <<n, m>> \in Precedes
  PROVE  Unapplied' /\ Ahead' /\ Ordered'
<1>1. Unapplied' /\ Ahead'
  BY DEF OInv, Unapplied, Ahead
<1>2. Ordered'
  <2> SUFFICES ASSUME NEW n \in Conn, NEW m \in Conn, n # m, <<n, m>> \in Precedes',
                      NEW r \in Waits'[n], NEW q \in Waits'[m], r.from = q.from
               PROVE  r.no < q.no
    BY DEF Ordered
  <2>1. <<n, m>> \in Precedes /\ r \in Waits[n] /\ q \in Waits[m]
    OBVIOUS
  <2> QED BY <2>1 DEF OInv, Ordered
<1> QED BY <1>1, <1>2

LEMMA SameQueues ==
  ASSUME OInv, UNCHANGED <<inq, backlog, served>>
  PROVE  Waits' = Waits /\ Precedes' = Precedes /\ OnLive' /\ OnePerConn'
<1>1. Waits' = Waits
  BY DEF Waits
<1>2. Precedes' = Precedes
  BY DEF Precedes
<1>3. OnLive' /\ OnePerConn'
  BY DEF OInv, OnLive, OnePerConn, Live
<1> QED BY <1>1, <1>2, <1>3

LEMMA InitialOrder == Init => OInv
<1> SUFFICES ASSUME Init PROVE OInv
  OBVIOUS
<1>1. \A n \in Conn : inq[n] = <<>> /\ Waits[n] = {}
  BY EffectsNone DEF Init, Waits
<1>2. OnLive /\ OnePerConn /\ Unapplied /\ Ordered
  BY <1>1, EffectsNone DEF OnLive, OnePerConn, Unapplied, Ordered
<1>3. Ahead
  BY DEF Init, Ahead
<1>4. ASSUME NEW c \in Client PROVE Orderly(c)
  <2>1. op[c] = "none" /\ pc[c] = "idle" /\ ~failed[c] /\ cur[c] \notin Conn
    BY SessionAssumption DEF Init
  <2> QED BY <2>1 DEF Orderly, Newest, Mine, Latest, DueOnce, Refused, Sober, Effective
<1> QED BY <1>2, <1>3, <1>4 DEF OInv, PerClient

-----------------------------------------------------------------------------
(* The steps of a process.                                                 *)

LEMMA BeginOrder ==
  ASSUME IInv, OInv, NEW c \in Client, NEW o \in Op[c], Begin(c, o)
  PROVE  OInv'
<1>1. /\ o \in AnyOp /\ o # "none" /\ pc[c] = "idle" /\ op[c] = "none" /\ ~failed[c]
      /\ opno[c] \in 0..MaxOps /\ opno[c] < MaxOps /\ MaxOps \in Nat
  <2>1. pc[c] = "idle" /\ opno[c] < MaxOps /\ opno[c] \in 0..MaxOps /\ MaxOps \in Nat
    BY SessionAssumption DEF Begin, IInv, TypeOK
  <2>2. op[c] = "none"
    BY <2>1 DEF IInv, Shape
  <2>3. ~failed[c]
    BY <2>2 DEF OInv, PerClient, Orderly, Sober
  <2>4. o \in AnyOp /\ o # "none"
    BY SessionAssumption DEF AnyOp
  <2> QED BY <2>1, <2>2, <2>3, <2>4
<1>2. /\ op' = [op EXCEPT ![c] = o] /\ pc' = [pc EXCEPT ![c] = "open"]
      /\ opno' = [opno EXCEPT ![c] = opno[c] + 1]
      /\ UNCHANGED <<cur, failed, inq, outq, backlog, served, applied>>
  BY DEF Begin, socketVars, monitorVars, historyVars
<1>3. cur[c] \notin Conn
  BY <1>1, Idle
<1>4. /\ op'[c] = o /\ pc'[c] = "open" /\ opno'[c] = opno[c] + 1
      /\ \A d \in Client \ {c} : op'[d] = op[d] /\ pc'[d] = pc[d] /\ opno'[d] = opno[d]
  BY <1>2 DEF IInv, TypeOK
<1>5. Waits' = Waits /\ Precedes' = Precedes /\ OnLive' /\ OnePerConn'
  BY <1>2, SameQueues
<1>6. \A n \in Conn : \A r \in Waits[n] :
        /\ r.from \in Client /\ r.no \in 1..opno[r.from]
        /\ \A j \in r.no..MaxOps : applied[r.from][j] = 0
  <2>1. \A n \in Conn : \A r \in Waits[n] : r \in Request
    BY DEF Waits, Effects, IInv, TypeOK
  <2> QED BY <2>1 DEF OInv, Unapplied, Request
<1>7. Unapplied'
  <2> SUFFICES ASSUME NEW n \in Conn, NEW r \in Waits[n]
               PROVE  /\ r.no \in 1..opno'[r.from]
                      /\ \A j \in r.no..MaxOps : applied[r.from][j] = 0
    BY <1>2, <1>5 DEF Unapplied
  <2>1. r.no \in 1..opno'[r.from]
    BY <1>1, <1>4, <1>6
  <2> QED BY <1>6, <2>1
<1>8. Ahead'
  <2> SUFFICES ASSUME NEW d \in Client, NEW j \in 1..MaxOps, j > opno'[d]
               PROVE  applied[d][j] = 0
    BY <1>2 DEF Ahead
  <2>1. j > opno[d]
    BY <1>1, <1>4
  <2> QED BY <2>1 DEF OInv, Ahead
<1>9. Ordered'
  BY <1>5 DEF OInv, Ordered
<1>10. Orderly(c)'
  <2>1. \A n \in Conn : ~Pending(c, n)'
    <3> SUFFICES ASSUME NEW n \in Conn, NEW r \in Waits[n], r.from = c, r.no = opno[c] + 1
                 PROVE  FALSE
      BY <1>4, <1>5 DEF Pending
    <3> QED BY <1>1, <1>6
  <2>2. ~Refusal(c)'
    BY <1>1, <1>2, <1>3 DEF Refusal
  <2>3. Newest(c)' /\ Mine(c)' /\ Latest(c)' /\ Refused(c)' /\ Sober(c)'
    BY <1>1, <1>2, <1>3, <1>4, <2>1, <2>2 DEF Newest, Mine, Latest, Refused, Sober
  <2>4. opno[c] + 1 \in 1..MaxOps /\ applied[c][opno[c] + 1] = 0
    BY <1>1 DEF OInv, Ahead
  <2>5. DueOnce(c)'
    BY <1>2, <1>4, <2>4 DEF DueOnce
  <2> QED BY <2>3, <2>5 DEF Orderly
<1>11. ASSUME NEW d \in Client, d # c PROVE Orderly(d)'
  BY <1>2, <1>4, <1>5, <1>11, Undisturbed
<1> QED BY <1>5, <1>7, <1>8, <1>9, <1>10, <1>11 DEF OInv, PerClient

LEMMA ConnectOrder ==
  ASSUME IInv, OInv, NEW c \in Client, NEW n \in Conn, Connect(c, n)
  PROVE  OInv'
<1>1. /\ pc[c] = "open" /\ op[c] # "none" /\ ~Live(n) /\ owner[n] = None /\ outq[n] = <<>>
      /\ backlog \in Seq(Conn)
  BY DEF Connect, Free, IInv, TypeOK, Shape, Fresh
<1>2. /\ pc' = [pc EXCEPT ![c] = "greeting"] /\ cur' = [cur EXCEPT ![c] = n]
      /\ backlog' = Append(backlog, n)
      /\ UNCHANGED <<op, failed, opno, inq, outq, served, applied>>
  BY DEF Connect
<1>3. /\ pc'[c] = "greeting" /\ cur'[c] = n
      /\ \A d \in Client \ {c} : pc'[d] = pc[d] /\ cur'[d] = cur[d]
  BY <1>2 DEF IInv, TypeOK
<1>4. Waits' = Waits /\ OnePerConn' /\ inq[n] = <<>> /\ Waits[n] = {}
  BY <1>1, <1>2, EffectsNone DEF Waits, OnePerConn, OInv, OnLive
<1>5. /\ DOMAIN backlog' = DOMAIN backlog \cup {Len(backlog) + 1} /\ backlog'[Len(backlog) + 1] = n
      /\ \A i \in DOMAIN backlog : backlog'[i] = backlog[i] /\ backlog[i] # n /\ i < Len(backlog) + 1
      /\ served # n
  BY <1>1, <1>2 DEF Live
<1>6. \A m, k \in Conn : <<m, k>> \in Precedes' => m # n /\ (k # n => <<m, k>> \in Precedes)
  <2> SUFFICES ASSUME NEW m \in Conn, NEW k \in Conn, <<m, k>> \in Precedes'
               PROVE  m # n /\ (k # n => <<m, k>> \in Precedes)
    OBVIOUS
  <2>1. CASE m = served /\ \E j \in DOMAIN backlog' : backlog'[j] = k
    BY <1>5, <2>1 DEF Precedes
  <2>2. CASE \E i, j \in DOMAIN backlog' : i < j /\ backlog'[i] = m /\ backlog'[j] = k
    <3>1. PICK i, j \in DOMAIN backlog' : i < j /\ backlog'[i] = m /\ backlog'[j] = k
      BY <2>2
    <3>2. i \in DOMAIN backlog
      BY <1>1, <1>5, <3>1
    <3> QED BY <1>5, <3>1, <3>2 DEF Precedes
  <2> QED BY <1>2, <2>1, <2>2 DEF Precedes
<1>7. OnLive'
  <2>1. \A m \in Conn : Live(m) => Live(m)'
    BY <1>2, <1>5 DEF Live
  <2> QED BY <1>2, <2>1 DEF OInv, OnLive
<1>8. Unapplied' /\ Ahead' /\ Ordered'
  BY <1>2, <1>4, <1>6, Calm
<1>9. Orderly(c)'
  <2>1. Latest(c) /\ DueOnce(c) /\ Refused(c) /\ Sober(c)
    BY DEF OInv, PerClient, Orderly
  <2>2. \A m \in Conn : Pending(c, m)' <=> Pending(c, m)
    BY <1>2, <1>4 DEF Pending
  <2>3. Newest(c)' /\ Mine(c)'
    BY <1>3, <1>4, <1>6 DEF Newest, Mine
  <2>4. Latest(c)' /\ DueOnce(c)' /\ Sober(c)'
    BY <1>1, <1>2, <1>3, <2>1, <2>2 DEF Latest, DueOnce, Sober, Effective
  <2>5. Refused(c)'
    <3>1. Refusal(c)' => failed[c]
      BY <1>1, <1>2, <1>3, EffectsNone DEF Refusal
    <3> QED BY <1>1, <1>2, <2>1, <3>1 DEF Refused, Refusal
  <2> QED BY <2>3, <2>4, <2>5 DEF Orderly
<1>10. ASSUME NEW d \in Client, d # c PROVE Orderly(d)'
  <2>1. \A m \in Conn : Waits'[m] # {} /\ <<cur[d], m>> \in Precedes' => <<cur[d], m>> \in Precedes
    BY <1>4, <1>6 DEF Precedes
  <2> QED BY <1>2, <1>3, <1>4, <1>10, <2>1, Undisturbed
<1> QED BY <1>4, <1>7, <1>8, <1>9, <1>10 DEF OInv, PerClient

LEMMA GoneOrder ==
  ASSUME IInv, OInv, NEW c \in Client, ConnectRefused(c)
  PROVE  OInv'
<1>1. cur[c] \notin Conn
  BY Idle DEF ConnectRefused
<1>2. /\ op' = [op EXCEPT ![c] = "none"] /\ pc' = [pc EXCEPT ![c] = "idle"]
      /\ failed' = [failed EXCEPT ![c] = FALSE]
      /\ UNCHANGED <<cur, opno, inq, outq, backlog, served, applied>>
  BY DEF ConnectRefused, ToIdle, socketVars, monitorVars
<1>3. /\ op'[c] = "none" /\ pc'[c] = "idle" /\ ~failed'[c]
      /\ \A d \in Client \ {c} : op'[d] = op[d] /\ pc'[d] = pc[d] /\ failed'[d] = failed[d]
  BY <1>2 DEF IInv, TypeOK
<1>4. Waits' = Waits /\ Precedes' = Precedes /\ OnLive' /\ OnePerConn'
  BY <1>2, SameQueues
<1>5. Unapplied' /\ Ahead' /\ Ordered'
  BY <1>2, <1>4, Calm
<1>6. Orderly(c)'
  BY <1>1, <1>2, <1>3 DEF Orderly, Newest, Mine, Latest, DueOnce, Refused, Sober, Effective
<1>7. ASSUME NEW d \in Client, d # c PROVE Orderly(d)'
  BY <1>2, <1>3, <1>4, <1>7, Undisturbed
<1> QED BY <1>4, <1>5, <1>6, <1>7 DEF OInv, PerClient

\* What has an effect is sent by itself; the rest sends nothing that has one.
LEMMA OneCommand ==
  ASSUME NEW o \in AnyOp, NEW l \in 1..2
  PROVE  /\ o \notin {"info", "text"} => Len(Script(o, l)) = 1 /\ Script(o, l)[1] \in EffectCmd
         /\ o \in {"info", "text"} => \A k \in 1..Len(Script(o, l)) : Script(o, l)[k] \notin EffectCmd
<1>1. o \notin {"info", "text"} => Len(Script(o, l)) = 1 /\ Script(o, l)[1] \in EffectCmd
  BY DEF AnyOp, Script, EffectCmd, MediumCmd
<1>2. o \in {"info", "text"} => \A k \in 1..Len(Script(o, l)) : Script(o, l)[k] \notin EffectCmd
  BY DEF AnyOp, Script, EffectCmd, MediumCmd
<1> QED BY <1>1, <1>2

LEMMA Written ==
  ASSUME IInv, OInv, NEW c \in Client, NEW x \in Command, cur[c] \in Conn, Write(c, x),
         UNCHANGED <<backlog, served>>, x \notin EffectCmd \/ Waits[cur[c]] = {}
  PROVE  /\ Precedes' = Precedes /\ OnLive' /\ OnePerConn'
         /\ \/ Waits' = Waits
            \/ /\ x \in EffectCmd
               /\ Waits' = [Waits EXCEPT ![cur[c]] = {[cmd |-> x, from |-> c, no |-> opno[c]]}]
<1> DEFINE r == [cmd |-> x, from |-> c, no |-> opno[c]]
<1>1. r \in Request /\ r.cmd = x /\ inq \in [Conn -> Seq(Request)]
  <2>1. opno[c] \in Nat
    BY SessionAssumption DEF IInv, TypeOK
  <2> QED BY <2>1 DEF IInv, TypeOK, Request
<1>2. Precedes' = Precedes
  BY DEF Precedes
<1>3. CASE ~Live(cur[c])
  BY <1>2, <1>3, SameQueues DEF Write
<1>4. CASE Live(cur[c])
  <2>1. inq' = [inq EXCEPT ![cur[c]] = Append(@, r)]
    BY <1>4 DEF Write
  <2>2. OnLive'
    BY <1>1, <1>4, <2>1 DEF OInv, OnLive, Live
  <2>3. /\ AtMostOne(Append(inq[cur[c]], r))
        /\ x \notin EffectCmd => Effects(Append(inq[cur[c]], r)) = Effects(inq[cur[c]])
        /\ x \in EffectCmd => Effects(Append(inq[cur[c]], r)) = {r}
    <3> HIDE DEF r
    <3>1. inq[cur[c]] \in Seq(Request) /\ AtMostOne(inq[cur[c]])
      BY <1>1 DEF OInv, OnePerConn
    <3>2. x \in EffectCmd => Effects(inq[cur[c]]) = {}
      BY DEF Waits
    <3> QED BY <1>1, <3>1, <3>2, EffectsAppend
  <2>4. OnePerConn'
    BY <1>1, <2>1, <2>3 DEF OInv, OnePerConn
  <2>5. \A n \in Conn : inq'[n] = IF n = cur[c] THEN Append(inq[cur[c]], r) ELSE inq[n]
    BY <1>1, <2>1
  <2> HIDE DEF r
  <2>6. x \notin EffectCmd => Waits' = Waits
    BY <2>3, <2>5 DEF Waits
  <2>7. x \in EffectCmd => Waits' = [Waits EXCEPT ![cur[c]] = {r}]
    BY <2>3, <2>5 DEF Waits
  <2> QED BY <1>2, <2>2, <2>4, <2>6, <2>7 DEF r
<1> QED BY <1>3, <1>4

LEMMA ReadOrder ==
  ASSUME IInv, OInv, NEW c \in Client, NEW line \in Line,
         pc[c] \in {"greeting", "caps", "await"}, Consume(c, line),
         line.kind = "error" => HasError(outq[cur[c]]),
         HasError(outq'[cur[c]]) => HasError(outq[cur[c]]),
         \A n \in Conn \ {cur[c]} : outq'[n] = outq[n],
         UNCHANGED <<op, leg, cur, opno, backlog, served, applied>>
  PROVE  OInv'
<1>1. /\ cur[c] \in Conn /\ op[c] \in AnyOp /\ op[c] # "none" /\ leg[c] \in 1..2
      /\ step[c] \in Nat \ {0} /\ step[c] <= Len(Script(op[c], leg[c]))
  BY DEF IInv, TypeOK, Shape
<1>2. Waits' = Waits /\ Precedes' = Precedes /\ OnLive' /\ OnePerConn'
  <2>1. CASE inq' = inq
    BY <2>1, SameQueues
  <2>2. CASE Write(c, Capabilities)
    <3>1. Capabilities \in Command /\ Capabilities \notin EffectCmd
      BY DEF Capabilities, Command, EffectCmd, MediumCmd
    <3> QED BY <1>1, <2>2, <3>1, Written
  <2> QED BY <2>1, <2>2 DEF Consume
<1>3. Unapplied' /\ Ahead' /\ Ordered'
  BY <1>2, Calm
<1>4. /\ pc[c] = "greeting" => pc'[c] = "caps" /\ failed'[c] = failed[c]
      /\ pc[c] = "caps" => pc'[c] \in {"ready", "typing"} /\ failed'[c] = failed[c]
                          /\ (pc'[c] = "typing" <=> op[c] = "text")
      /\ pc[c] = "await" => /\ pc'[c] \in {"ready", "typing", "close"}
                            /\ pc'[c] = "typing" => op[c] = "text"
                            /\ failed'[c] => line.kind = "error"
                            /\ Effective(c) => pc'[c] = "close"
      /\ \A d \in Client \ {c} : pc'[d] = pc[d] /\ failed'[d] = failed[d]
  <2>1. pc \in [Client -> Places] /\ failed \in [Client -> BOOLEAN]
    BY DEF IInv, TypeOK, Places
  <2>2. Effective(c) => step[c] = Len(Script(op[c], leg[c])) /\ op[c] # "text"
    <3> SUFFICES ASSUME Effective(c)
                 PROVE  step[c] = Len(Script(op[c], leg[c])) /\ op[c] # "text"
      OBVIOUS
    <3>1. op[c] \notin {"info", "text"}
      BY DEF Effective
    <3>2. Len(Script(op[c], leg[c])) = 1
      BY <1>1, <3>1, OneCommand
    <3>3. step[c] \in Nat /\ step[c] # 0 /\ step[c] <= 1
      BY <1>1, <3>2
    <3>4. step[c] = 1
      BY <3>3
    <3> QED BY <3>1, <3>2, <3>4
  <2>3. CASE pc[c] = "greeting"
    BY <2>1, <2>3 DEF Consume, AfterGreeting
  <2>4. CASE pc[c] = "caps"
    BY <2>1, <2>4 DEF Consume
  <2>5. CASE pc[c] = "await"
    <3>1. failed' = [failed EXCEPT ![c] = IsError(line)]
      BY <2>5 DEF Consume
    <3>2. \/ op[c] = "text" /\ pc' = [pc EXCEPT ![c] = "typing"]
          \/ /\ op[c] # "text" /\ step[c] < Len(Script(op[c], leg[c]))
             /\ pc' = [pc EXCEPT ![c] = "ready"]
          \/ /\ op[c] # "text" /\ pc' = [pc EXCEPT ![c] = "close"]
      BY <2>5 DEF Consume
    <3>3. Len(Script(op[c], leg[c])) \in Nat
      BY <1>1, ScriptLength
    <3>4. pc'[c] \in {"ready", "typing", "close"} /\ (pc'[c] = "typing" => op[c] = "text")
      BY <2>1, <3>2
    <3>5. Effective(c) => pc'[c] = "close"
      BY <1>1, <2>1, <2>2, <3>2, <3>3
    <3>6. failed'[c] => line.kind = "error"
      BY <2>1, <3>1 DEF IsError
    <3>7. \A d \in Client \ {c} : pc'[d] = pc[d] /\ failed'[d] = failed[d]
      BY <2>1, <3>1, <3>2
    <3> QED BY <2>5, <3>4, <3>5, <3>6, <3>7
  <2> QED BY <2>3, <2>4, <2>5
<1>5. Orderly(c)'
  <2>1. Newest(c) /\ Mine(c) /\ Latest(c) /\ DueOnce(c) /\ Refused(c)
    BY DEF OInv, PerClient, Orderly
  <2>2. \A n \in Conn : Pending(c, n)' <=> Pending(c, n)
    BY <1>2 DEF Pending
  <2>3. Newest(c)' /\ Mine(c)'
    BY <1>2, <2>1 DEF Newest, Mine
  <2>4. Latest(c)'
    BY <1>4, <2>1, <2>2 DEF Latest, Effective
  <2>5. DueOnce(c)'
    BY <1>4, <2>1 DEF DueOnce, Effective
  <2>6. Refusal(c)' => Refusal(c)
    BY <1>1, <1>4 DEF Refusal
  <2>7. Refused(c)'
    BY <1>4, <2>1, <2>2, <2>6 DEF Refused, Effective
  <2>8. Sober(c)'
    BY <1>1, <1>4 DEF Sober
  <2> QED BY <2>3, <2>4, <2>5, <2>7, <2>8 DEF Orderly
<1>6. ASSUME NEW d \in Client, d # c PROVE Orderly(d)'
  <2>1. cur[d] \in Conn => outq'[cur[d]] = outq[cur[d]]
    BY <1>1, <1>6, OwnConn
  <2> QED BY <1>2, <1>4, <1>6, <2>1, Undisturbed
<1> QED BY <1>2, <1>3, <1>5, <1>6 DEF OInv, PerClient

LEMMA ReadLineOrder ==
  ASSUME IInv, OInv, NEW c \in Client, ReadLine(c)
  PROVE  OInv'
<1>1. /\ cur[c] \in Conn /\ outq \in [Conn -> Seq(Line)] /\ outq[cur[c]] # <<>>
      /\ outq[cur[c]] \in Seq(Line)
  BY DEF ReadLine, IInv, TypeOK, Shape
<1>2. PICK line \in Line : line = Head(outq[cur[c]])
  BY <1>1
<1>3. /\ Consume(c, line) /\ pc[c] \in {"greeting", "caps", "await"}
      /\ outq' = [outq EXCEPT ![cur[c]] = Tail(@)]
      /\ UNCHANGED <<op, leg, cur, opno, backlog, served, applied>>
  BY <1>2 DEF ReadLine, monitorVars, historyVars
<1>4. /\ line.kind = "error" => HasError(outq[cur[c]])
      /\ HasError(outq'[cur[c]]) => HasError(outq[cur[c]])
  BY <1>1, <1>2, <1>3, ErrorsTail
<1>5. \A n \in Conn \ {cur[c]} : outq'[n] = outq[n]
  BY <1>1, <1>3
<1> QED BY <1>3, <1>4, <1>5, ReadOrder

LEMMA ReadNothingOrder ==
  ASSUME IInv, OInv, NEW c \in Client, ReadNothing(c)
  PROVE  OInv'
<1>1. Nothing \in Line /\ Nothing.kind # "error"
  BY OtherLines DEF Nothing
<1>2. /\ Consume(c, Nothing) /\ pc[c] \in {"greeting", "caps", "await"}
      /\ UNCHANGED <<op, leg, cur, opno, outq, backlog, served, applied>>
  BY DEF ReadNothing, monitorVars
<1> QED BY <1>1, <1>2, ReadOrder

\* An operation with an effect sends it when nothing of its process is due.
LEMMA SendOrder ==
  ASSUME IInv, OInv, NEW c \in Client, Send(c) \/ Key(c)
  PROVE  OInv'
<1>1. /\ cur[c] \in Conn /\ op[c] \in AnyOp /\ op[c] # "none" /\ leg[c] \in 1..2
      /\ step[c] \in 1..Len(Script(op[c], leg[c])) /\ CurrentCmd(c) \in Command
      /\ opno[c] \in 0..MaxOps /\ MaxOps \in Nat
  <2>1. /\ cur[c] \in Conn /\ op[c] \in AnyOp /\ op[c] # "none" /\ leg[c] \in 1..2
        /\ step[c] \in Nat \ {0} /\ step[c] <= Len(Script(op[c], leg[c]))
        /\ opno[c] \in 0..MaxOps /\ MaxOps \in Nat
    BY SessionAssumption DEF Send, Key, IInv, TypeOK, Shape
  <2> QED BY <2>1, Due, ScriptLength
<1>2. /\ Write(c, CurrentCmd(c))
      /\ pc' = [pc EXCEPT ![c] = "await"]
      /\ UNCHANGED <<op, cur, failed, opno, outq, backlog, served, applied>>
  BY DEF Send, Key, monitorVars, historyVars
<1>3. pc[c] = "ready" \/ (pc[c] = "typing" /\ op[c] = "text")
  BY DEF Send, Key, OInv, PerClient, Orderly, Sober
<1>4. pc'[c] = "await" /\ \A d \in Client \ {c} : pc'[d] = pc[d]
  BY <1>2 DEF IInv, TypeOK
<1>5. /\ Newest(c) /\ Mine(c) /\ Latest(c) /\ DueOnce(c) /\ Refused(c) /\ Sober(c)
      /\ Unapplied /\ Ahead /\ Ordered
  BY DEF OInv, PerClient, Orderly
<1>6. CASE ~Effective(c)
  <2>1. CurrentCmd(c) \notin EffectCmd
    BY <1>1, <1>6, OneCommand DEF Effective, CurrentCmd
  <2>2. Waits' = Waits /\ Precedes' = Precedes /\ OnLive' /\ OnePerConn'
    BY <1>1, <1>2, <2>1, Written
  <2>3. Unapplied' /\ Ahead' /\ Ordered'
    BY <1>2, <2>2, Calm
  <2>4. Newest(c)' /\ Mine(c)'
    BY <1>2, <1>5, <2>2 DEF Newest, Mine
  <2>5. Latest(c)' /\ DueOnce(c)' /\ Refused(c)' /\ Sober(c)'
    BY <1>1, <1>2, <1>4, <1>6 DEF Effective, Latest, DueOnce, Refused, Sober
  <2>6. ASSUME NEW d \in Client, d # c PROVE Orderly(d)'
    BY <1>2, <1>4, <2>2, <2>6, Undisturbed
  <2> QED BY <2>2, <2>3, <2>4, <2>5, <2>6 DEF OInv, PerClient, Orderly
<1>7. CASE Effective(c)
  <2> DEFINE r == [cmd |-> CurrentCmd(c), from |-> c, no |-> opno[c]]
  <2>1. pc[c] = "ready" /\ \A n \in Conn : ~Pending(c, n)
    BY <1>3, <1>5, <1>7 DEF Effective, Latest
  <2>2. Waits[cur[c]] = {}
    BY <1>1, <1>5, <2>1 DEF Mine, Pending
  <2>3. Precedes' = Precedes /\ OnLive' /\ OnePerConn'
        /\ (Waits' = Waits \/ Waits' = [Waits EXCEPT ![cur[c]] = {r}])
    BY <1>1, <1>2, <2>2, Written
  <2>4. r.from = c /\ r.no = opno[c]
    OBVIOUS
  <2> HIDE DEF r
  <2>5. \A n \in Conn : \A q \in Waits'[n] : q \in Waits[n] \/ (n = cur[c] /\ q = r)
    <3>1. CASE Waits' = Waits
      BY <3>1
    <3>2. CASE Waits' = [Waits EXCEPT ![cur[c]] = {r}]
      BY <3>2 DEF Waits
    <3> QED BY <2>3, <3>1, <3>2
  <2>6. /\ opno[c] \in 1..MaxOps
        /\ \A j \in opno[c]..MaxOps : applied[c][j] = 0
    BY <1>1, <1>5, <1>7, <2>1 DEF DueOnce, Ahead
  <2>7. Unapplied' /\ Ahead'
    <3>1. \A n \in Conn : \A q \in Waits'[n] :
            /\ q.no \in 1..opno[q.from]
            /\ \A j \in q.no..MaxOps : applied[q.from][j] = 0
      BY <1>1, <1>5, <2>4, <2>5, <2>6 DEF Unapplied
    <3> QED BY <1>2, <1>5, <3>1 DEF Unapplied, Ahead
  <2>8. Ordered'
    <3> SUFFICES ASSUME NEW n \in Conn, NEW m \in Conn, n # m, <<n, m>> \in Precedes,
                        NEW q \in Waits'[n], NEW s \in Waits'[m], q.from = s.from
                 PROVE  q.no < s.no
      BY <2>3 DEF Ordered
    <3>1. CASE q \in Waits[n] /\ s \in Waits[m]
      BY <1>5, <3>1 DEF Ordered
    <3>2. CASE n = cur[c] /\ q = r /\ m # cur[c] /\ s \in Waits[m]
      BY <1>1, <1>5, <2>4, <3>2 DEF Newest
    <3>3. CASE m = cur[c] /\ s = r /\ n # cur[c] /\ q \in Waits[n]
      <4>1. q.from = c /\ q.no \in 1..opno[c] /\ q.no # opno[c]
        BY <1>5, <2>1, <2>4, <3>3 DEF Unapplied, Pending
      <4> QED BY <1>1, <2>4, <3>3, <4>1
    <3> QED BY <2>5, <3>1, <3>2, <3>3
  <2>9. Orderly(c)'
    <3>1. Newest(c)'
      BY <1>2, <1>5, <2>3, <2>5 DEF Newest
    <3>2. Mine(c)'
      BY <1>2, <1>5, <2>4, <2>5 DEF Mine
    <3>3. Latest(c)'
      <4>1. \A n \in Conn : Pending(c, n)' => n = cur[c]
        BY <1>2, <2>1, <2>5 DEF Pending
      <4> QED BY <1>2, <1>4, <4>1 DEF Latest
    <3>4. DueOnce(c)' /\ Sober(c)'
      BY <1>1, <1>2, <1>4, <1>5 DEF DueOnce, Sober, Effective
    <3>5. Refused(c)'
      <4>1. op[c] = "media" => ~Refusal(c)
        BY <1>5, <2>1 DEF Refused
      <4> QED BY <1>2, <4>1 DEF Refused, Refusal
    <3> QED BY <3>1, <3>2, <3>3, <3>4, <3>5 DEF Orderly
  <2>10. ASSUME NEW d \in Client, d # c PROVE Orderly(d)'
    <3>1. \A n \in Conn : \A q \in Waits'[n] : q.from = d \/ n = cur[d] => q \in Waits[n]
      BY <1>1, <2>4, <2>5, <2>10, OwnConn
    <3> QED BY <1>2, <1>4, <2>3, <2>10, <3>1, Undisturbed
  <2> QED BY <2>3, <2>7, <2>8, <2>9, <2>10 DEF OInv, PerClient
<1> QED BY <1>6, <1>7

LEMMA EndOfInputOrder ==
  ASSUME IInv, OInv, NEW c \in Client, EndOfInput(c)
  PROVE  OInv'
<1>1. /\ pc[c] = "typing" /\ op[c] = "text" /\ pc' = [pc EXCEPT ![c] = "close"]
      /\ UNCHANGED <<op, cur, failed, opno, inq, outq, backlog, served, applied>>
  BY DEF EndOfInput, socketVars, monitorVars, historyVars, OInv, PerClient, Orderly, Sober
<1>2. pc'[c] = "close" /\ \A d \in Client \ {c} : pc'[d] = pc[d]
  BY <1>1 DEF IInv, TypeOK
<1>3. Waits' = Waits /\ Precedes' = Precedes /\ OnLive' /\ OnePerConn'
  BY <1>1, SameQueues
<1>4. Unapplied' /\ Ahead' /\ Ordered'
  BY <1>1, <1>3, Calm
<1>5. Orderly(c)'
  <2>1. Newest(c) /\ Mine(c) /\ Sober(c)
    BY DEF OInv, PerClient, Orderly
  <2>2. Newest(c)' /\ Mine(c)'
    BY <1>1, <1>3, <2>1 DEF Newest, Mine
  <2>3. Latest(c)' /\ DueOnce(c)' /\ Refused(c)' /\ Sober(c)'
    BY <1>1, <1>2 DEF Latest, DueOnce, Refused, Sober, Effective
  <2> QED BY <2>2, <2>3 DEF Orderly
<1>6. ASSUME NEW d \in Client, d # c PROVE Orderly(d)'
  BY <1>1, <1>2, <1>3, <1>6, Undisturbed
<1> QED BY <1>3, <1>4, <1>5, <1>6 DEF OInv, PerClient

\* STREAMClose; a second connection follows a refusal, or belongs to a question.
LEMMA CloseOrder ==
  ASSUME IInv, OInv, NEW c \in Client, Reopen(c) \/ Finish(c)
  PROVE  OInv'
<1>1. cur[c] \in Conn /\ pc[c] = "close" /\ op[c] \in AnyOp /\ op[c] # "none"
  BY DEF Reopen, Finish, IInv, TypeOK, Shape
<1>2. /\ outq' = [outq EXCEPT ![cur[c]] = <<>>]
      /\ cur' = [cur EXCEPT ![c] = NoConn]
      /\ failed' = [failed EXCEPT ![c] = FALSE]
      /\ UNCHANGED <<opno, inq, backlog, served, applied>>
  BY DEF Reopen, Finish, CloseStream, ToIdle, monitorVars, historyVars
<1>3. \/ /\ pc' = [pc EXCEPT ![c] = "idle"] /\ op' = [op EXCEPT ![c] = "none"]
      \/ /\ pc' = [pc EXCEPT ![c] = "open"] /\ UNCHANGED op
         /\ op[c] = "info" \/ (op[c] = "media" /\ failed[c])
  BY DEF Reopen, Finish, ToIdle, Again
<1>4. /\ cur'[c] \notin Conn /\ ~failed'[c]
      /\ \/ pc'[c] = "idle" /\ op'[c] = "none"
         \/ pc'[c] = "open" /\ op'[c] = op[c] /\ (op[c] = "info" \/ (op[c] = "media" /\ failed[c]))
      /\ \A d \in Client \ {c} :
           pc'[d] = pc[d] /\ op'[d] = op[d] /\ cur'[d] = cur[d] /\ failed'[d] = failed[d]
  BY <1>2, <1>3, SessionAssumption DEF IInv, TypeOK
<1>5. Waits' = Waits /\ Precedes' = Precedes /\ OnLive' /\ OnePerConn'
  BY <1>2, SameQueues
<1>6. Unapplied' /\ Ahead' /\ Ordered'
  BY <1>2, <1>5, Calm
<1>7. Orderly(c)'
  <2>1. Newest(c)' /\ Mine(c)' /\ Sober(c)'
    BY <1>4 DEF Newest, Mine, Sober
  <2>2. Refused(c)'
    BY <1>4 DEF Refused, Refusal
  <2>3. Latest(c)' /\ DueOnce(c)'
    <3>1. CASE op'[c] = "media"
      <4>1. op[c] = "media" /\ failed[c]
        BY <1>4, <3>1
      <4>2. applied[c][opno[c]] = 0 /\ opno[c] \in 1..MaxOps /\ \A n \in Conn : ~Pending(c, n)
        BY <4>1 DEF OInv, PerClient, Orderly, Refused, Refusal, DueOnce, Effective
      <4>3. \A n \in Conn : ~Pending(c, n)'
        BY <1>2, <1>5, <4>2 DEF Pending
      <4> QED BY <1>2, <4>2, <4>3 DEF Latest, DueOnce
    <3>2. CASE op'[c] # "media"
      BY <1>4, <3>2 DEF Latest, DueOnce, Effective
    <3> QED BY <3>1, <3>2
  <2> QED BY <2>1, <2>2, <2>3 DEF Orderly
<1>8. ASSUME NEW d \in Client, d # c PROVE Orderly(d)'
  <2>1. cur[d] \in Conn => outq'[cur[d]] = outq[cur[d]]
    BY <1>1, <1>2, <1>8, OwnConn DEF IInv, TypeOK
  <2> QED BY <1>2, <1>4, <1>5, <1>8, <2>1, Undisturbed
<1> QED BY <1>5, <1>6, <1>7, <1>8 DEF OInv, PerClient

-----------------------------------------------------------------------------
(* The steps of the monitor.                                               *)

LEMMA AcceptOrder ==
  ASSUME IInv, OInv, Accept
  PROVE  OInv'
<1>1. /\ served = NoConn /\ backlog \in Seq(Conn) /\ backlog # <<>>
      /\ served' = Head(backlog) /\ backlog' = Tail(backlog) /\ served' \in Conn
      /\ UNCHANGED <<op, pc, cur, failed, opno, inq, applied>>
  BY DEF Accept, IInv, TypeOK, clientVars, historyVars
<1>2. /\ \A i \in DOMAIN backlog' : i \in Nat /\ i + 1 \in DOMAIN backlog /\ backlog'[i] = backlog[i + 1]
      /\ \A i \in DOMAIN backlog : i = 1 \/ (i - 1 \in DOMAIN backlog' /\ backlog[i] = backlog'[i - 1])
      /\ 1 \in DOMAIN backlog /\ served' = backlog[1]
  BY <1>1
<1>3. Precedes' \subseteq Precedes
  <2> SUFFICES ASSUME NEW p \in Precedes' PROVE p \in Precedes
    OBVIOUS
  <2>1. CASE p[1] = served' /\ \E j \in DOMAIN backlog' : backlog'[j] = p[2]
    <3>1. PICK j \in DOMAIN backlog' : backlog'[j] = p[2]
      BY <2>1
    <3>2. 1 < j + 1 /\ j + 1 \in DOMAIN backlog /\ backlog[j + 1] = p[2] /\ backlog[1] = p[1]
      <4>1. DOMAIN backlog' = 1..Len(backlog')
        BY <1>1
      <4> QED BY <1>1, <1>2, <2>1, <3>1, <4>1
    <3> QED BY <1>2, <3>2 DEF Precedes
  <2>2. CASE \E i, j \in DOMAIN backlog' : i < j /\ backlog'[i] = p[1] /\ backlog'[j] = p[2]
    <3>1. PICK i, j \in DOMAIN backlog' : i < j /\ backlog'[i] = p[1] /\ backlog'[j] = p[2]
      BY <2>2
    <3>2. /\ i + 1 < j + 1 /\ i + 1 \in DOMAIN backlog /\ j + 1 \in DOMAIN backlog
          /\ backlog[i + 1] = p[1] /\ backlog[j + 1] = p[2]
      BY <1>2, <3>1
    <3> QED BY <3>2 DEF Precedes
  <2> QED BY <2>1, <2>2 DEF Precedes
<1>4. OnLive' /\ OnePerConn' /\ Waits' = Waits
  <2>1. \A n \in Conn : Live(n) => Live(n)'
    BY <1>1, <1>2, SessionAssumption DEF Live
  <2> QED BY <1>1, <2>1 DEF OInv, OnLive, OnePerConn, Waits
<1>5. Unapplied' /\ Ahead' /\ Ordered'
  BY <1>1, <1>3, <1>4, Calm
<1>6. ASSUME NEW d \in Client PROVE Orderly(d)'
  <2>1. cur[d] \in Conn /\ HasError(outq'[cur[d]]) => HasError(outq[cur[d]])
    <3> SUFFICES ASSUME cur[d] \in Conn, HasError(outq'[cur[d]]) PROVE HasError(outq[cur[d]])
      OBVIOUS
    <3>1. outq[cur[d]] \in Seq(Line) /\ outq \in [Conn -> Seq(Line)]
      BY DEF IInv, TypeOK
    <3>2. outq'[cur[d]] = outq[cur[d]] \/ outq'[cur[d]] = Append(outq[cur[d]], Greeting)
      BY <3>1 DEF Accept
    <3>3. HasError(Append(outq[cur[d]], Greeting)) => HasError(outq[cur[d]])
      BY <3>1 DEF HasError, Greeting
    <3> QED BY <3>2, <3>3
  <2> QED BY <1>1, <1>3, <1>4, <2>1, Undisturbed
<1> QED BY <1>4, <1>5, <1>6 DEF OInv, PerClient

\* Lines without an error among them.
LEMMA EmitCalm ==
  ASSUME IInv, served \in Conn, NEW lines \in Seq(Line), Emit(lines)
  PROVE  \A n \in Conn : HasError(outq'[n]) =>
           HasError(outq[n]) \/ (n = served /\ HasError(lines))
<1> SUFFICES ASSUME NEW n \in Conn, HasError(outq'[n])
             PROVE  HasError(outq[n]) \/ (n = served /\ HasError(lines))
  OBVIOUS
<1>1. outq \in [Conn -> Seq(Line)] /\ outq[n] \in Seq(Line)
  BY DEF IInv, TypeOK
<1>2. outq'[n] = outq[n] \/ (n = served /\ outq'[n] = outq[n] \o lines)
  BY <1>1 DEF Emit
<1> QED BY <1>1, <1>2, ErrorsConcat

LEMMA GuestEventOrder ==
  ASSUME IInv, OInv, GuestEvent
  PROVE  OInv'
<1>1. /\ served \in Conn /\ Emit(<<Event>>)
      /\ UNCHANGED <<op, pc, cur, failed, opno, inq, backlog, served, applied>>
  BY DEF GuestEvent, IInv, TypeOK, clientVars
<1>2. <<Event>> \in Seq(Line) /\ ~HasError(<<Event>>)
  <2>1. Event \in Line /\ Event.kind # "error"
    BY OtherLines DEF Event
  <2>2. <<Event>> \in Seq(Line) /\ DOMAIN <<Event>> = {1} /\ <<Event>>[1] = Event
    BY <2>1
  <2> QED BY <2>1, <2>2 DEF HasError
<1>3. \A n \in Conn : HasError(outq'[n]) => HasError(outq[n])
  BY <1>1, <1>2, EmitCalm
<1>4. Waits' = Waits /\ Precedes' = Precedes /\ OnLive' /\ OnePerConn'
  BY <1>1, SameQueues
<1>5. Unapplied' /\ Ahead' /\ Ordered'
  BY <1>1, <1>4, Calm
<1>6. ASSUME NEW d \in Client PROVE Orderly(d)'
  BY <1>1, <1>3, <1>4, Undisturbed
<1> QED BY <1>4, <1>5, <1>6 DEF OInv, PerClient

LEMMA DropOrder ==
  ASSUME IInv, OInv, Drop \/ Exit
  PROVE  OInv'
<1>1. /\ served' = NoConn
      /\ UNCHANGED <<op, pc, cur, failed, opno, outq, applied>>
      /\ inq \in [Conn -> Seq(Request)]
  BY DEF Drop, Exit, IInv, TypeOK, clientVars, historyVars
<1>2. \A n \in Conn :
        \/ inq'[n] = <<>>
        \/ inq'[n] = inq[n] /\ n # served /\ backlog' = backlog
  BY <1>1 DEF Drop, Exit
<1>3. OnLive' /\ OnePerConn'
  BY <1>2, EffectsNone DEF OInv, OnLive, OnePerConn, Live
<1>4. \A n \in Conn : \/ Waits'[n] = {}
                      \/ Waits'[n] = Waits[n] /\ n # served /\ backlog' = backlog
  BY <1>2, EffectsNone DEF Waits
<1>5. \A n, m \in Conn : <<n, m>> \in Precedes' /\ Waits'[m] # {} => <<n, m>> \in Precedes
  <2> SUFFICES ASSUME NEW n \in Conn, NEW m \in Conn, <<n, m>> \in Precedes', Waits'[m] # {}
               PROVE  <<n, m>> \in Precedes
    OBVIOUS
  <2>1. backlog' = backlog /\ n # served'
    BY <1>1, <1>4, SessionAssumption
  <2> QED BY <2>1 DEF Precedes
<1>6. Unapplied' /\ Ahead' /\ Ordered'
  BY <1>1, <1>4, <1>5, Calm
<1>7. ASSUME NEW d \in Client PROVE Orderly(d)'
  <2>1. \A n \in Conn : Waits'[n] # {} /\ <<cur[d], n>> \in Precedes' => <<cur[d], n>> \in Precedes
    <3>1. \A n : <<cur[d], n>> \in Precedes' => cur[d] \in Conn
      BY DEF Precedes
    <3> QED BY <1>5, <3>1
  <2> QED BY <1>1, <1>4, <2>1, Undisturbed
<1> QED BY <1>3, <1>6, <1>7 DEF OInv, PerClient

\* What executing the request r does to the counters.
Counts(r, kind) == \A d \in Client : \A j \in 1..MaxOps :
  \/ applied'[d][j] = applied[d][j]
  \/ /\ r.cmd \in EffectCmd /\ kind = "return" /\ d = r.from /\ j = r.no
     /\ applied'[d][j] = applied[d][j] + 1

\* What is executed had no effect yet, and no other request of its user that waits
\* is as old.
LEMMA ExecuteDoes ==
  ASSUME IInv, OInv, Execute
  PROVE  \E r \in Request, kind \in {"return", "error"} :
           /\ served \in Conn /\ r.from \in Client
           /\ kind = "error" => r.cmd \in EffectCmd
           /\ \A n \in Conn : HasError(outq'[n]) => HasError(outq[n]) \/ (n = served /\ kind = "error")
           /\ Counts(r, kind)
           /\ r.cmd \notin EffectCmd => Waits' = Waits
           /\ r.cmd \in EffectCmd =>
                /\ r \in Waits[served] /\ Waits'[served] = {}
                /\ \A n \in Conn \ {served} : Waits'[n] = Waits[n]
                /\ r.no \in 1..opno[r.from]
                /\ \A j \in r.no..MaxOps : applied[r.from][j] = 0
                /\ \A n \in Conn \ {served} : \A q \in Waits[n] : q.from = r.from => r.no < q.no
           /\ OnLive' /\ OnePerConn' /\ Precedes' = Precedes
           /\ UNCHANGED <<op, pc, cur, failed, opno>>
<1>1. /\ served \in Conn /\ inq[served] \in Seq(Request) /\ inq[served] # <<>>
      /\ inq \in [Conn -> Seq(Request)] /\ applied \in [Client -> [1..MaxOps -> Nat]]
      /\ vm \in Status
  BY SessionAssumption DEF Execute, IInv, TypeOK, Up, Status
<1>2. PICK r \in Request : r = Head(inq[served])
  BY <1>1
<1>3. r.cmd \in Command /\ r.from \in Client /\ r.no \in Nat
  BY DEF Request
<1>4. PICK kind \in {"return", "error"} :
        /\ kind = "error" => r.cmd \in MediumCmd
        /\ Emit((IF vm' # vm THEN <<Event>> ELSE <<>>) \o <<Answer(kind, r.cmd, vm)>>)
        /\ applied' = IF r.cmd \in EffectCmd /\ kind = "return"
                      THEN [applied EXCEPT ![r.from][r.no] = @ + 1] ELSE applied
  BY <1>2 DEF Execute
<1>5. /\ UNCHANGED <<op, pc, cur, failed, opno, owner, backlog, served>>
      /\ inq' = [inq EXCEPT ![served] = Tail(@)]
  BY DEF Execute, clientVars
<1>6. kind = "error" => r.cmd \in EffectCmd
  BY <1>4 DEF EffectCmd
<1>7. \A n \in Conn : HasError(outq'[n]) => HasError(outq[n]) \/ (n = served /\ kind = "error")
  <2>1. PICK answer \in Line : answer = Answer(kind, r.cmd, vm) /\ answer.kind = kind
    <3>1. Answer(kind, r.cmd, vm) \in Line
      BY <1>1, <1>3, AnswerType
    <3>2. Answer(kind, r.cmd, vm).kind = kind
      BY DEF Answer
    <3> QED BY <3>1, <3>2
  <2>2. <<answer>> \in Seq(Line) /\ (HasError(<<answer>>) => kind = "error")
    <3>1. <<answer>> \in Seq(Line) /\ DOMAIN <<answer>> = {1} /\ <<answer>>[1] = answer
      OBVIOUS
    <3> QED BY <2>1, <3>1 DEF HasError
  <2>3. /\ <<>> \in Seq(Line) /\ <<Event>> \in Seq(Line)
        /\ ~HasError(<<>>) /\ ~HasError(<<Event>>)
    <3>1. Event \in Line /\ Event.kind # "error"
      BY OtherLines DEF Event
    <3>2. <<Event>> \in Seq(Line) /\ DOMAIN <<Event>> = {1} /\ <<Event>>[1] = Event
      BY <3>1
    <3>3. <<>> \in Seq(Line)
      OBVIOUS
    <3> QED BY <3>1, <3>2, <3>3, EffectsNone DEF HasError
  <2>4. PICK first \in Seq(Line) : /\ first = IF vm' # vm THEN <<Event>> ELSE <<>>
                                  /\ ~HasError(first)
    BY <2>3
  <2>5. first \o <<answer>> \in Seq(Line) /\ Emit(first \o <<answer>>)
    BY <1>4, <2>1, <2>2, <2>4
  <2>6. HasError(first \o <<answer>>) => kind = "error"
    BY <2>2, <2>4, ErrorsConcat
  <2> QED BY <1>1, <2>5, <2>6, EmitCalm
<1>8. Counts(r, kind)
  <2> SUFFICES ASSUME NEW d \in Client, NEW j \in 1..MaxOps
               PROVE  \/ applied'[d][j] = applied[d][j]
                      \/ /\ r.cmd \in EffectCmd /\ kind = "return" /\ d = r.from /\ j = r.no
                         /\ applied'[d][j] = applied[d][j] + 1
    BY DEF Counts
  <2>1. CASE r.cmd \in EffectCmd /\ kind = "return"
    <3>1. applied'[d] = IF d = r.from THEN [applied[d] EXCEPT ![r.no] = @ + 1] ELSE applied[d]
      BY <1>1, <1>3, <1>4, <2>1
    <3>2. applied[d] \in [1..MaxOps -> Nat]
      BY <1>1
    <3> QED BY <2>1, <3>1, <3>2
  <2>2. CASE ~(r.cmd \in EffectCmd /\ kind = "return")
    BY <1>4, <2>2
  <2> QED BY <2>1, <2>2
<1>9. /\ AtMostOne(inq[served]) /\ AtMostOne(Tail(inq[served]))
      /\ r.cmd \notin EffectCmd => Effects(Tail(inq[served])) = Effects(inq[served])
      /\ r.cmd \in EffectCmd => Effects(Tail(inq[served])) = {} /\ Effects(inq[served]) = {r}
  BY <1>1, <1>2, EffectsTail DEF OInv, OnePerConn
<1>10. \A n \in Conn : inq'[n] = IF n = served THEN Tail(inq[served]) ELSE inq[n]
  BY <1>1, <1>5
<1>11. OnePerConn'
  BY <1>9, <1>10 DEF OInv, OnePerConn
<1>12. OnLive'
  BY <1>5, <1>10 DEF OInv, OnLive, Live
<1>13. Precedes' = Precedes
  BY <1>5 DEF Precedes
<1>14. /\ r.cmd \notin EffectCmd => Waits' = Waits
       /\ r.cmd \in EffectCmd =>
            /\ r \in Waits[served] /\ Waits'[served] = {}
            /\ \A n \in Conn \ {served} : Waits'[n] = Waits[n]
  BY <1>1, <1>9, <1>10 DEF Waits
<1>15. ASSUME r.cmd \in EffectCmd
       PROVE  /\ r.no \in 1..opno[r.from]
              /\ \A j \in r.no..MaxOps : applied[r.from][j] = 0
              /\ \A n \in Conn \ {served} : \A q \in Waits[n] : q.from = r.from => r.no < q.no
  <2>1. r \in Waits[served]
    BY <1>14, <1>15
  <2>2. \A n \in Conn \ {served} : Waits[n] # {} => <<served, n>> \in Precedes
    <3> SUFFICES ASSUME NEW n \in Conn \ {served}, Waits[n] # {} PROVE <<served, n>> \in Precedes
      OBVIOUS
    <3>1. inq[n] # <<>>
      BY EffectsNone DEF Waits
    <3>2. \E j \in DOMAIN backlog : backlog[j] = n
      BY <3>1 DEF OInv, OnLive, Live
    <3> QED BY <1>1, <3>2 DEF Precedes
  <2>3. Unapplied /\ Ordered
    BY DEF OInv
  <2> QED BY <1>1, <2>1, <2>2, <2>3 DEF Unapplied, Ordered
<1> QED BY <1>1, <1>3, <1>5, <1>6, <1>7, <1>8, <1>11, <1>12, <1>13, <1>14, <1>15

LEMMA ExecuteOrder ==
  ASSUME IInv, OInv, Execute
  PROVE  OInv'
<1>1. PICK r \in Request, kind \in {"return", "error"} :
           /\ served \in Conn /\ r.from \in Client
           /\ kind = "error" => r.cmd \in EffectCmd
           /\ \A n \in Conn : HasError(outq'[n]) => HasError(outq[n]) \/ (n = served /\ kind = "error")
           /\ Counts(r, kind)
           /\ r.cmd \notin EffectCmd => Waits' = Waits
           /\ r.cmd \in EffectCmd =>
                /\ r \in Waits[served] /\ Waits'[served] = {}
                /\ \A n \in Conn \ {served} : Waits'[n] = Waits[n]
                /\ r.no \in 1..opno[r.from]
                /\ \A j \in r.no..MaxOps : applied[r.from][j] = 0
                /\ \A n \in Conn \ {served} : \A q \in Waits[n] : q.from = r.from => r.no < q.no
           /\ OnLive' /\ OnePerConn' /\ Precedes' = Precedes
           /\ UNCHANGED <<op, pc, cur, failed, opno>>
  BY ExecuteDoes
<1>2. \A n \in Conn : Waits'[n] \subseteq Waits[n] /\ (r.cmd \in EffectCmd => r \notin Waits'[n])
  <2> SUFFICES ASSUME NEW n \in Conn
               PROVE  Waits'[n] \subseteq Waits[n] /\ (r.cmd \in EffectCmd => r \notin Waits'[n])
    OBVIOUS
  <2>1. CASE r.cmd \notin EffectCmd
    BY <1>1, <2>1
  <2>2. CASE r.cmd \in EffectCmd
    <3>1. r.no \in Int
      BY <1>1, <2>2
    <3> QED BY <1>1, <2>2, <3>1
  <2> QED BY <2>1, <2>2
<1>3. \A d \in Client : \A j \in 1..MaxOps : applied'[d][j] # applied[d][j] =>
        r.cmd \in EffectCmd /\ kind = "return" /\ d = r.from /\ j = r.no
  BY <1>1 DEF Counts
<1>4. MaxOps \in Nat /\ \A d \in Client : opno[d] \in 0..MaxOps
  BY SessionAssumption DEF IInv, TypeOK
<1>5. \A n \in Conn : \A q \in Waits[n] :
        /\ q.from \in Client /\ q.no \in 1..opno[q.from]
        /\ \A j \in q.no..MaxOps : applied[q.from][j] = 0
  <2>1. \A n \in Conn : \A q \in Waits[n] : q \in Request
    BY DEF Waits, Effects, IInv, TypeOK
  <2> QED BY <2>1 DEF OInv, Unapplied, Request
<1>6. Unapplied'
  <2> SUFFICES ASSUME NEW n \in Conn, NEW q \in Waits'[n]
               PROVE  /\ q.no \in 1..opno[q.from]
                      /\ \A j \in q.no..MaxOps : applied'[q.from][j] = 0
    BY <1>1 DEF Unapplied
  <2>1. q \in Waits[n] /\ q.from \in Client /\ q.no \in 1..opno[q.from]
    BY <1>2, <1>5
  <2>2. ASSUME NEW j \in q.no..MaxOps PROVE applied'[q.from][j] = 0
    <3>1. j \in 1..MaxOps /\ applied[q.from][j] = 0
      BY <1>4, <1>5, <2>1, <2>2
    <3>2. CASE applied'[q.from][j] # applied[q.from][j]
      <4>1. r.cmd \in EffectCmd /\ q.from = r.from /\ j = r.no
        BY <1>3, <2>1, <3>1, <3>2
      <4>2. n # served /\ r.no < q.no
        BY <1>1, <2>1, <4>1
      <4> QED BY <2>1, <4>1, <4>2
    <3> QED BY <3>1, <3>2
  <2> QED BY <2>1, <2>2
<1>7. Ahead'
  <2> SUFFICES ASSUME NEW d \in Client, NEW j \in 1..MaxOps, j > opno[d]
               PROVE  applied'[d][j] = 0
    BY <1>1 DEF Ahead
  <2>1. applied[d][j] = 0
    BY DEF OInv, Ahead
  <2>2. ~(r.cmd \in EffectCmd /\ d = r.from /\ j = r.no)
    BY <1>1, <1>4
  <2> QED BY <1>3, <2>1, <2>2
<1>8. Ordered'
  BY <1>1, <1>2 DEF OInv, Ordered
<1>9. ASSUME NEW d \in Client PROVE Orderly(d)'
  <2>1. Newest(d) /\ Mine(d) /\ Latest(d) /\ DueOnce(d) /\ Refused(d) /\ Sober(d)
    BY DEF OInv, PerClient, Orderly
  <2>2. \A n \in Conn : Pending(d, n)' => Pending(d, n)
    BY <1>1, <1>2 DEF Pending
  <2>3. Newest(d)' /\ Mine(d)' /\ Latest(d)' /\ Sober(d)'
    BY <1>1, <1>2, <2>1, <2>2 DEF Newest, Mine, Latest, Sober, Effective
  <2>4. Effective(d) => opno[d] \in 1..MaxOps /\
          (applied'[d][opno[d]] # applied[d][opno[d]] => Pending(d, served) /\ kind = "return")
    BY <1>1, <1>3, <2>1 DEF DueOnce, Pending
  <2>5. DueOnce(d)'
    BY <1>1, <2>1, <2>4 DEF DueOnce, Latest, Effective
  <2>6. Refused(d)'
    <3> SUFFICES ASSUME op[d] = "media", Refusal(d)'
                 PROVE  /\ pc[d] \in {"await", "close"}
                        /\ applied'[d][opno[d]] = 0
                        /\ \A n \in Conn : ~Pending(d, n)'
      BY <1>1 DEF Refused
    <3>1. Effective(d)
      BY DEF Effective
    <3>2. CASE Refusal(d)
      BY <1>1, <2>1, <2>2, <2>4, <3>1, <3>2 DEF Refused
    <3>3. CASE ~Refusal(d)
      <4>1. cur[d] = served /\ kind = "error" /\ r.cmd \in EffectCmd
        BY <1>1, <3>3 DEF Refusal
      <4>2. r.from = d /\ r.no = opno[d] /\ Pending(d, served)
        BY <1>1, <2>1, <4>1 DEF Mine, Pending
      <4>3. pc[d] \in {"await", "close"} /\ \A n \in Conn : Pending(d, n) => n = served
        BY <1>1, <2>1, <3>1, <4>1, <4>2 DEF Latest
      <4>4. \A n \in Conn : ~Pending(d, n)'
        BY <1>1, <2>2, <4>1, <4>3 DEF Pending
      <4>5. applied[d][opno[d]] = 0
        BY <1>1, <1>4, <4>1, <4>2
      <4>6. applied'[d][opno[d]] = applied[d][opno[d]]
        BY <2>4, <3>1, <4>1
      <4> QED BY <4>3, <4>4, <4>5, <4>6
    <3> QED BY <3>2, <3>3
  <2> QED BY <2>3, <2>5, <2>6 DEF Orderly
<1> QED BY <1>1, <1>6, <1>7, <1>8, <1>9 DEF OInv, PerClient

LEMMA BootOrder ==
  ASSUME IInv, OInv, Boot \/ UNCHANGED vars
  PROVE  OInv'
<1>1. UNCHANGED <<op, pc, cur, failed, opno, inq, outq, backlog, served, applied>>
  BY DEF Boot, vars, clientVars, socketVars, monitorVars, historyVars
<1>2. Waits' = Waits /\ Precedes' = Precedes /\ OnLive' /\ OnePerConn'
  BY <1>1, SameQueues
<1>3. Unapplied' /\ Ahead' /\ Ordered'
  BY <1>1, <1>2, Calm
<1>4. ASSUME NEW d \in Client PROVE Orderly(d)'
  BY <1>1, <1>2, Undisturbed
<1> QED BY <1>2, <1>3, <1>4 DEF OInv, PerClient

-----------------------------------------------------------------------------
LEMMA OrderStep == IInv /\ OInv /\ [Next]_vars => OInv'
<1>1. ASSUME IInv, OInv, NEW c \in Client, ClientStep(c) \/ Key(c) \/ EndOfInput(c) PROVE OInv'
  BY <1>1, ConnectOrder, GoneOrder, ReadLineOrder, ReadNothingOrder, SendOrder,
     EndOfInputOrder, CloseOrder DEF ClientStep
<1>2. ASSUME IInv, OInv, Next PROVE OInv'
  BY <1>1, <1>2, BeginOrder, AcceptOrder, ExecuteOrder, GuestEventOrder, DropOrder,
     BootOrder DEF Next
<1> QED BY <1>2, BootOrder

\* Nothing but the monitor changes what has had an effect, and it does so once.
Counted(c, k) == \/ applied'[c][k] = applied[c][k]
                 \/ /\ applied'[c][k] = 1
                    /\ \A j \in k..MaxOps : applied[c][j] = 0

LEMMA OnceInOrder ==
  ASSUME IInv, OInv, [Next]_vars, NEW c \in Client, NEW k \in 1..MaxOps
  PROVE  Counted(c, k)
<1>1. CASE UNCHANGED applied
  BY <1>1 DEF Counted
<1>2. CASE Execute
  <2>1. PICK r \in Request, kind \in {"return", "error"} :
           /\ Counts(r, kind)
           /\ r.cmd \in EffectCmd => \A j \in r.no..MaxOps : applied[r.from][j] = 0
    BY <1>2, ExecuteDoes
  <2>2. CASE applied'[c][k] # applied[c][k]
    <3>1. r.from = c /\ r.no = k /\ r.cmd \in EffectCmd /\ applied'[c][k] = applied[c][k] + 1
      BY <2>1, <2>2 DEF Counts
    <3>2. \A j \in k..MaxOps : applied[c][j] = 0
      BY <2>1, <3>1
    <3>3. MaxOps \in Nat /\ k \in k..MaxOps
      BY SessionAssumption
    <3> QED BY <3>1, <3>2, <3>3 DEF Counted
  <2> QED BY <2>2 DEF Counted
<1>3. Next /\ ~Execute => UNCHANGED applied
  <2>1. ASSUME NEW d \in Client, ClientStep(d) \/ Key(d) \/ EndOfInput(d) PROVE UNCHANGED applied
    BY <2>1 DEF ClientStep, Connect, ConnectRefused, ReadLine, ReadNothing, Send, Key,
                EndOfInput, Reopen, Finish, historyVars
  <2>2. ASSUME NEW d \in Client, NEW o \in Op[d], Begin(d, o) PROVE UNCHANGED applied
    BY <2>2 DEF Begin, historyVars
  <2> QED BY <2>1, <2>2 DEF Next, Accept, GuestEvent, Drop, Exit, Boot, historyVars
<1> QED BY <1>1, <1>2, <1>3 DEF vars, historyVars

LEMMA OrderInvariance == Spec => [](IInv /\ OInv)
<1>1. Init => IInv /\ OInv
  BY Initial, InitialOrder
<1>2. IInv /\ OInv /\ [Next]_vars => (IInv /\ OInv)'
  BY Step, OrderStep
<1> QED BY <1>1, <1>2, PTL DEF Spec

\* No operation of a user takes effect twice: a change of medium that is executed
\* after it was given up is not repeated by the older command, which follows a
\* refusal only.
THEOREM EffectOnce == Spec => []MediumChangedOnce
<1>1. Init => MediumChangedOnce
  BY DEF Init, MediumChangedOnce
<1>2. IInv /\ OInv /\ MediumChangedOnce /\ [Next]_vars => MediumChangedOnce'
  <2> SUFFICES ASSUME IInv, OInv, MediumChangedOnce, [Next]_vars,
                      NEW c \in Client, NEW k \in 1..MaxOps
               PROVE  applied'[c][k] <= 1
    BY DEF MediumChangedOnce
  <2>1. Counted(c, k)
    BY OnceInOrder
  <2> QED BY <2>1 DEF Counted, MediumChangedOnce
<1> QED BY <1>1, <1>2, OrderInvariance, PTL DEF Spec

\* What one user asked for takes effect in the order in which it was asked for,
\* although a process that timed out leaves its requests in the backlog and the
\* next one comes behind them.
THEOREM EffectsInOrder == Spec => ExecutedInOrder
<1>1. IInv /\ OInv /\ [Next]_vars =>
        [\A c \in Client : \A k \in 1..MaxOps :
           applied'[c][k] > applied[c][k] => \A j \in k..MaxOps : applied[c][j] = 0]_applied
  <2> SUFFICES ASSUME IInv, OInv, [Next]_vars, NEW c \in Client, NEW k \in 1..MaxOps,
                      applied'[c][k] > applied[c][k]
               PROVE  \A j \in k..MaxOps : applied[c][j] = 0
    OBVIOUS
  <2>1. Counted(c, k) /\ applied[c][k] \in Nat
    BY OnceInOrder DEF IInv, TypeOK
  <2> QED BY <2>1 DEF Counted
<1> QED BY <1>1, OrderInvariance, PTL DEF Spec, ExecutedInOrder
-----------------------------------------------------------------------------
(* Which answer is taken for which command, as long as nothing disturbs.   *)

InBacklog(n) == \E i \in DOMAIN backlog : backlog[i] = n
Apart == /\ \A i, j \in DOMAIN backlog : backlog[i] = backlog[j] => i = j
         /\ served \in Conn => ~InBacklog(served)

\* What is to be answered, and the answer to it.
Sent(c) == IF pc[c] = "caps" THEN Capabilities ELSE CurrentCmd(c)
Answers(c, line) ==
  line.re = Sent(c) /\ (line.re = "query-status" => line.status \in Status \cap seen[c])

\* At most one line is on its way: the greeting, then a command or the answer to it.
Conversation(c) == clean[c] /\ cur[c] \in Conn =>
  LET in == inq[cur[c]]  out == outq[cur[c]] IN
  /\ pc[c] # "greeting" => ~InBacklog(cur[c])
  /\ pc[c] = "greeting" =>
       in = <<>> /\ out \in {<<>>, <<Greeting>>} /\ (InBacklog(cur[c]) => out = <<>>)
  /\ pc[c] \in {"ready", "typing", "close"} => in = <<>> /\ out = <<>>
  /\ pc[c] \in {"caps", "await"} =>
       \/ in = <<>> /\ out = <<>>
       \/ in = <<>> /\ Len(out) = 1 /\ Answers(c, out[1])
       \/ out = <<>> /\ Len(in) = 1 /\ in[1].cmd = Sent(c)

\* Who asks for the running info knows the state of the VM, and asks to the end.
Watched(c) ==
  /\ op[c] = "none" => leg[c] = 1
  /\ op[c] = "info" /\ (pc[c] # "open" \/ leg[c] = 2) /\ vm # "off" => vm \in seen[c]
  /\ pc[c] = "close" /\ op[c] = "info" => step[c] = Len(Script(op[c], leg[c]))

\* A VM that such a process believes to be running was running when it asked.
Exact(c) ==
  (op[c] = "info" /\ (leg[c] = 2 \/ step[c] > 4) /\ clean[c] /\ report[c] = "running")
    => "running" \in seen[c]

InStep(c) == Conversation(c) /\ Watched(c) /\ Exact(c)
CInv == Apart /\ \A c \in Client : InStep(c)

LEMMA JustOne ==
  ASSUME NEW S, NEW s \in Seq(S), Len(s) = 1
  PROVE  Tail(s) = <<>> /\ Head(s) = s[1] /\ s[1] \in S
<1>1. s # <<>> /\ Head(s) = s[1] /\ s[1] \in S
  OBVIOUS
<1>2. Tail(s) \in Seq(S) /\ Len(Tail(s)) = 0
  BY <1>1, HeadTailProperties
<1>3. Tail(s) = <<>>
  BY <1>2, EmptySeq
<1> QED BY <1>1, <1>3

LEMMA WrittenAlone ==
  ASSUME IInv, NEW c \in Client, NEW x \in Command, cur[c] \in Conn, Write(c, x),
         inq[cur[c]] = <<>>
  PROVE  inq'[cur[c]] = <<>> \/ (Len(inq'[cur[c]]) = 1 /\ inq'[cur[c]][1].cmd = x)
<1>1. [cmd |-> x, from |-> c, no |-> opno[c]] \in Request
  BY SessionAssumption DEF IInv, TypeOK, Request
<1>2. PICK r \in Request :
        r.cmd = x /\ (inq' = [inq EXCEPT ![cur[c]] = Append(@, r)] \/ inq' = inq)
  BY <1>1 DEF Write
<1>3. inq'[cur[c]] = <<>> \/ inq'[cur[c]] = Append(inq[cur[c]], r)
  BY <1>2 DEF IInv, TypeOK
<1>4. inq[cur[c]] \in Seq(Request) /\ Len(inq[cur[c]]) = 0
  BY DEF IInv, TypeOK
<1>5. Len(Append(inq[cur[c]], r)) = 1 /\ Append(inq[cur[c]], r)[1] = r
  BY <1>4
<1> QED BY <1>2, <1>3, <1>5

LEMMA InfoScript ==
  /\ Len(Script("info", 1)) = 5 /\ Len(Script("info", 2)) = 1
  /\ \A k \in 1..5 : Script("info", 1)[k] = "query-status" <=> k = 4
  /\ Script("info", 2)[1] # "query-status"
<1>1. Script("info", 1) = <<"query-kvm", "query-name", "query-uuid", "query-status", "query-cpus">>
  BY DEF Script
<1>2. Script("info", 2) = <<"query-block">>
  BY DEF Script
<1>3. \A k \in 1..5 : k = 1 \/ k = 2 \/ k = 3 \/ k = 4 \/ k = 5
  OBVIOUS
<1>4. \A k \in 1..5 : Script("info", 1)[k] = "query-status" <=> k = 4
  BY <1>1, <1>3
<1> QED BY <1>1, <1>2, <1>4

\* A step that does not touch the conversation of a process.
LEMMA Spared ==
  ASSUME CInv, NEW d \in Client,
         op'[d] = op[d], pc'[d] = pc[d], leg'[d] = leg[d], step'[d] = step[d],
         cur'[d] = cur[d], report'[d] = report[d], clean'[d] => clean[d],
         seen[d] \subseteq seen'[d], vm' \in {vm, "off"} \/ (op[d] = "info" => vm' \in seen'[d]),
         cur[d] \in Conn /\ clean'[d] =>
           /\ inq'[cur[d]] = inq[cur[d]] /\ outq'[cur[d]] = outq[cur[d]]
           /\ InBacklog(cur[d])' => InBacklog(cur[d])
  PROVE  InStep(d)'
<1>1. Conversation(d) /\ Watched(d) /\ Exact(d)
  BY DEF CInv, InStep
<1>2. Sent(d)' = Sent(d)
  BY DEF Sent, CurrentCmd
<1>3. Conversation(d)'
  <2> SUFFICES ASSUME clean'[d], cur[d] \in Conn PROVE Conversation(d)'
    BY DEF Conversation
  <2>1. (\E i \in DOMAIN backlog' : backlog'[i] = cur[d]) => InBacklog(cur[d])
    BY DEF InBacklog
  <2>2. /\ inq'[cur'[d]] = inq[cur[d]] /\ outq'[cur'[d]] = outq[cur[d]]
        /\ (\E i \in DOMAIN backlog' : backlog'[i] = cur'[d]) => InBacklog(cur[d])
    BY <2>1
  <2>3. Conversation(d) /\ clean[d] /\ cur'[d] = cur[d] /\ pc'[d] = pc[d]
    BY <1>1
  <2>4. \A line : Answers(d, line) => line.re = Sent(d)' /\ (line.re = "query-status" => line.status \in Status \cap seen'[d])
    BY <1>2 DEF Answers
  <2> QED BY <1>2, <2>2, <2>3, <2>4 DEF Conversation, InBacklog, Answers
<1>4. Watched(d)'
  BY <1>1 DEF Watched
<1>5. Exact(d)'
  BY <1>1 DEF Exact
<1> QED BY <1>3, <1>4, <1>5 DEF InStep

LEMMA InitialStep == Init => CInv
<1> SUFFICES ASSUME Init PROVE CInv
  OBVIOUS
<1>1. Apart
  BY SessionAssumption DEF Init, Apart, InBacklog
<1>2. ASSUME NEW c \in Client PROVE InStep(c)
  <2>1. op[c] = "none" /\ pc[c] = "idle" /\ leg[c] = 1 /\ cur[c] \notin Conn
    BY SessionAssumption DEF Init
  <2> QED BY <2>1 DEF InStep, Conversation, Watched, Exact
<1> QED BY <1>1, <1>2 DEF CInv

LEMMA BeginStep ==
  ASSUME IInv, CInv, NEW c \in Client, NEW o \in Op[c], Begin(c, o)
  PROVE  CInv'
<1>1. /\ op' = [op EXCEPT ![c] = o] /\ pc' = [pc EXCEPT ![c] = "open"] /\ pc[c] = "idle"
      /\ UNCHANGED <<leg, step, cur, report, inq, outq, backlog, served, vm, clean, seen>>
  BY DEF Begin, socketVars, monitorVars, historyVars
<1>2. o \in AnyOp /\ o # "none"
  BY SessionAssumption DEF AnyOp
<1>3. op[c] = "none" /\ leg[c] = 1 /\ step[c] = 1 /\ cur[c] \notin Conn
  BY <1>1, SessionAssumption DEF IInv, Shape, CInv, InStep, Watched
<1>4. /\ op'[c] = o /\ pc'[c] = "open"
      /\ \A d \in Client \ {c} : op'[d] = op[d] /\ pc'[d] = pc[d]
  BY <1>1 DEF IInv, TypeOK
<1>5. Apart'
  BY <1>1 DEF CInv, Apart, InBacklog
<1>6. InStep(c)'
  BY <1>1, <1>2, <1>3, <1>4 DEF InStep, Conversation, Watched, Exact
<1>7. ASSUME NEW d \in Client, d # c PROVE InStep(d)'
  BY <1>1, <1>4, <1>7, Spared DEF InBacklog
<1> QED BY <1>5, <1>6, <1>7 DEF CInv

LEMMA ConnectStep ==
  ASSUME IInv, OInv, CInv, NEW c \in Client, NEW n \in Conn, Connect(c, n)
  PROVE  CInv'
<1>1. /\ pc[c] = "open" /\ op[c] # "none" /\ ~Live(n) /\ owner[n] = None /\ outq[n] = <<>>
      /\ backlog \in Seq(Conn) /\ leg[c] \in 1..2 /\ step[c] = 1
      /\ inq[n] = <<>>
  BY DEF Connect, Free, IInv, TypeOK, Shape, Fresh, OInv, OnLive
<1>2. /\ pc' = [pc EXCEPT ![c] = "greeting"] /\ cur' = [cur EXCEPT ![c] = n]
      /\ backlog' = Append(backlog, n)
      /\ seen' = IF op[c] = "info" /\ leg[c] = 1 THEN [seen EXCEPT ![c] = {vm}] ELSE seen
      /\ report' = IF op[c] = "info" /\ leg[c] = 1 THEN [report EXCEPT ![c] = "running"] ELSE report
      /\ UNCHANGED <<op, leg, step, inq, outq, served, vm, clean>>
  BY DEF Connect
<1>3. /\ pc'[c] = "greeting" /\ cur'[c] = n
      /\ op[c] = "info" /\ leg[c] = 1 => seen'[c] = {vm}
      /\ leg[c] = 2 => seen'[c] = seen[c] /\ report'[c] = report[c]
      /\ \A d \in Client \ {c} : pc'[d] = pc[d] /\ cur'[d] = cur[d] /\ seen'[d] = seen[d]
                               /\ report'[d] = report[d]
  BY <1>2 DEF IInv, TypeOK
<1>4. /\ DOMAIN backlog' = DOMAIN backlog \cup {Len(backlog) + 1} /\ backlog'[Len(backlog) + 1] = n
      /\ \A i \in DOMAIN backlog : backlog'[i] = backlog[i] /\ backlog[i] # n
      /\ served # n
  BY <1>1, <1>2 DEF Live
<1>5. Apart'
  BY <1>2, <1>4 DEF CInv, Apart, InBacklog
<1>6. Watched(c) /\ Exact(c)
  BY DEF CInv, InStep
<1>7. InStep(c)'
  <2>1. Conversation(c)'
    BY <1>1, <1>2, <1>3 DEF Conversation
  <2>2. Watched(c)'
    BY <1>1, <1>2, <1>3, <1>6 DEF Watched
  <2>3. Exact(c)'
    BY <1>1, <1>2, <1>3, <1>6 DEF Exact
  <2> QED BY <2>1, <2>2, <2>3 DEF InStep
<1>8. ASSUME NEW d \in Client, d # c PROVE InStep(d)'
  <2>1. cur[d] \in Conn => cur[d] # n
    BY <1>1, OwnConn, SessionAssumption
  <2>2. cur[d] \in Conn => (InBacklog(cur[d])' => InBacklog(cur[d]))
    BY <1>3, <1>4, <1>8, <2>1 DEF InBacklog
  <2> QED BY <1>2, <1>3, <1>8, <2>2, Spared
<1> QED BY <1>5, <1>7, <1>8 DEF CInv

LEMMA GoneStep ==
  ASSUME IInv, CInv, NEW c \in Client, ConnectRefused(c)
  PROVE  CInv'
<1>1. cur[c] \notin Conn
  BY Idle DEF ConnectRefused
<1>2. /\ op' = [op EXCEPT ![c] = "none"] /\ pc' = [pc EXCEPT ![c] = "idle"]
      /\ leg' = [leg EXCEPT ![c] = 1] /\ step' = [step EXCEPT ![c] = 1]
      /\ clean' = [clean EXCEPT ![c] = TRUE]
      /\ report' = IF op[c] = "info" /\ leg[c] = 1 THEN [report EXCEPT ![c] = "stopped"] ELSE report
      /\ UNCHANGED <<cur, inq, outq, backlog, served, vm, seen>>
  BY DEF ConnectRefused, ToIdle, socketVars, monitorVars
<1>3. /\ op'[c] = "none" /\ pc'[c] = "idle" /\ leg'[c] = 1
      /\ \A d \in Client \ {c} : op'[d] = op[d] /\ pc'[d] = pc[d] /\ leg'[d] = leg[d]
           /\ step'[d] = step[d] /\ clean'[d] = clean[d] /\ report'[d] = report[d]
  BY <1>2 DEF IInv, TypeOK
<1>4. Apart'
  BY <1>2 DEF CInv, Apart, InBacklog
<1>5. InStep(c)'
  BY <1>1, <1>2, <1>3 DEF InStep, Conversation, Watched, Exact
<1>6. ASSUME NEW d \in Client, d # c PROVE InStep(d)'
  BY <1>2, <1>3, <1>6, Spared DEF InBacklog
<1> QED BY <1>4, <1>5, <1>6 DEF CInv

\* What a read leaves of the conversation and of the question, in general.
LEMMA ReadStep ==
  ASSUME IInv, OInv, CInv, NEW c \in Client, NEW line,
         pc[c] \in {"greeting", "caps", "await"}, Consume(c, line),
         \A n \in Conn \ {cur[c]} : outq'[n] = outq[n],
         \A d \in Client \ {c} : clean'[d] = clean[d],
         UNCHANGED <<op, leg, cur, backlog, served, vm, seen>>,
         clean'[c] => Conversation(c)' /\ Exact(c)'
  PROVE  CInv'
<1>1. /\ cur[c] \in Conn /\ op[c] \in AnyOp /\ op[c] # "none" /\ leg[c] \in 1..2
      /\ step[c] <= Len(Script(op[c], leg[c])) /\ pc \in [Client -> Places]
      /\ step \in [Client -> Nat \ {0}]
  BY DEF IInv, TypeOK, Shape, Places
<1>2. /\ pc'[c] = "close" => step'[c] = Len(Script(op[c], leg[c]))
      /\ \A d \in Client \ {c} : pc'[d] = pc[d] /\ step'[d] = step[d] /\ report'[d] = report[d]
  <2>1. report \in [Client -> Status \cup {"stopped"}]
    BY DEF IInv, TypeOK
  <2>2. CASE pc[c] \in {"greeting", "caps"}
    BY <1>1, <2>2 DEF Consume, AfterGreeting
  <2>3. CASE pc[c] = "await"
    BY <1>1, <2>1, <2>3 DEF Consume
  <2> QED BY <2>2, <2>3
<1>3. Watched(c)'
  BY <1>1, <1>2 DEF CInv, InStep, Watched
<1>4. InStep(c)'
  BY <1>3 DEF InStep, Conversation, Exact
<1>5. \A n \in Conn \ {cur[c]} : inq'[n] = inq[n]
  BY <1>1 DEF Consume, Write, IInv, TypeOK
<1>6. ASSUME NEW d \in Client, d # c PROVE InStep(d)'
  <2>1. cur[d] \in Conn => cur[d] # cur[c]
    BY <1>1, <1>6, OwnConn
  <2> QED BY <1>2, <1>5, <1>6, <2>1, Spared DEF InBacklog
<1>7. Apart'
  BY DEF CInv, Apart, InBacklog
<1> QED BY <1>4, <1>6, <1>7 DEF CInv

LEMMA ReadNothingStep ==
  ASSUME IInv, OInv, CInv, NEW c \in Client, ReadNothing(c)
  PROVE  CInv'
<1>1. /\ Consume(c, Nothing) /\ pc[c] \in {"greeting", "caps", "await"}
      /\ clean' = [clean EXCEPT ![c] = FALSE]
      /\ UNCHANGED <<op, leg, cur, outq, backlog, served, vm, seen>>
  BY DEF ReadNothing, monitorVars
<1>2. ~clean'[c] /\ \A d \in Client \ {c} : clean'[d] = clean[d]
  BY <1>1 DEF IInv, TypeOK
<1>3. clean'[c] => Conversation(c)' /\ Exact(c)'
  BY <1>2
<1>4. \A n \in Conn \ {cur[c]} : outq'[n] = outq[n]
  BY <1>1
<1>5. UNCHANGED <<op, leg, cur, backlog, served, vm, seen>>
  BY <1>1
<1>6. Consume(c, Nothing) /\ pc[c] \in {"greeting", "caps", "await"}
  BY <1>1
<1>7. \A d \in Client \ {c} : clean'[d] = clean[d]
  BY <1>2
<1> QED BY <1>3, <1>4, <1>5, <1>6, <1>7, ReadStep

\* A line that is read in an undisturbed conversation is the one that is due.
LEMMA ReadLineStep ==
  ASSUME IInv, OInv, CInv, NEW c \in Client, ReadLine(c)
  PROVE  CInv'
<1> DEFINE in == inq[cur[c]]  out == outq[cur[c]]  line == Head(outq[cur[c]])
<1>1. /\ cur[c] \in Conn /\ op[c] \in AnyOp /\ op[c] # "none" /\ leg[c] \in 1..2
      /\ step[c] \in Nat \ {0} /\ step[c] <= Len(Script(op[c], leg[c]))
      /\ pc \in [Client -> Places] /\ out \in Seq(Line) /\ out # <<>>
      /\ outq \in [Conn -> Seq(Line)] /\ inq \in [Conn -> Seq(Request)] /\ in \in Seq(Request)
  BY DEF ReadLine, IInv, TypeOK, Shape, Places
<1>2. /\ Consume(c, line) /\ pc[c] \in {"greeting", "caps", "await"}
      /\ outq' = [outq EXCEPT ![cur[c]] = Tail(@)]
      /\ UNCHANGED <<op, leg, cur, opno, backlog, served, vm, clean, seen, owner>>
  BY DEF ReadLine, monitorVars, historyVars
<1>3. Conversation(c) /\ Exact(c) /\ Watched(c)
  BY DEF CInv, InStep
<1>4. ASSUME clean[c] PROVE outq'[cur[c]] = <<>> /\ in = <<>> /\ ~InBacklog(cur[c])
  <2>1. Len(out) = 1 /\ in = <<>> /\ ~InBacklog(cur[c])
    BY <1>1, <1>2, <1>3, <1>4 DEF Conversation
  <2>2. outq'[cur[c]] = Tail(out)
    BY <1>1, <1>2
  <2>3. Tail(out) = <<>>
    BY <1>1, <2>1, JustOne
  <2> QED BY <2>1, <2>2, <2>3
<1>5. ASSUME clean[c] PROVE Conversation(c)'
  <2>1. ~InBacklog(cur[c])'
    BY <1>2, <1>4, <1>5 DEF InBacklog
  <2>2. CASE pc[c] = "greeting"
    <3>1. pc'[c] = "caps" /\ Write(c, Capabilities)
      BY <1>1, <1>2, <2>2 DEF Consume, AfterGreeting
    <3>2. Capabilities \in Command
      BY DEF Capabilities, Command
    <3>3. inq'[cur[c]] = <<>> \/ (Len(inq'[cur[c]]) = 1 /\ inq'[cur[c]][1].cmd = Capabilities)
      BY <1>1, <1>4, <1>5, <3>1, <3>2, WrittenAlone
    <3> QED BY <1>2, <1>4, <1>5, <2>1, <3>1, <3>3 DEF Conversation, Sent
  <2>3. CASE pc[c] \in {"caps", "await"}
    <3>1. pc'[c] \in {"ready", "typing", "close"} /\ inq' = inq
      BY <1>1, <1>2, <2>3 DEF Consume
    <3> QED BY <1>2, <1>4, <1>5, <2>1, <3>1 DEF Conversation
  <2> QED BY <1>2, <2>2, <2>3
<1>6. ASSUME clean[c] PROVE Exact(c)'
  <2> SUFFICES ASSUME op[c] = "info", leg[c] = 2 \/ step'[c] > 4, report'[c] = "running"
               PROVE  "running" \in seen[c]
    BY <1>2 DEF Exact
  <2>1. CASE pc[c] # "await"
    <3>1. UNCHANGED <<step, report>>
      BY <1>2, <2>1 DEF Consume
    <3> QED BY <1>3, <1>6, <3>1 DEF Exact
  <2>2. CASE pc[c] = "await"
    <3>1. /\ step'[c] = step[c] \/ step'[c] = step[c] + 1
          /\ report' = IF CurrentCmd(c) = "query-status" /\ IsPaused(line)
                       THEN [report EXCEPT ![c] = "paused"] ELSE report
      BY <1>1, <1>2, <2>2 DEF Consume, IInv, TypeOK
    <3>2. CASE leg[c] = 2 \/ step[c] > 4
      <4>1. CurrentCmd(c) # "query-status"
        <5>1. CASE leg[c] = 2
          BY <1>1, <5>1, InfoScript DEF CurrentCmd
        <5>2. CASE leg[c] = 1
          <6>1. step[c] \in Nat /\ step[c] > 4 /\ step[c] <= Len(Script("info", 1))
            BY <1>1, <3>2, <5>2
          <6>2. step[c] \in 1..5 /\ step[c] # 4
            <7>1. Len(Script("info", 1)) = 5
              BY InfoScript
            <7>2. step[c] <= 5
              BY <6>1, <7>1
            <7> QED BY <6>1, <7>2
          <6>3. CurrentCmd(c) = Script("info", 1)[step[c]]
            BY <5>2 DEF CurrentCmd
          <6> QED BY <6>2, <6>3, InfoScript
        <5> QED BY <1>1, <5>1, <5>2
      <4> QED BY <1>3, <1>6, <3>1, <3>2, <4>1 DEF Exact
    <3>3. CASE leg[c] = 1 /\ step[c] = 4
      <4>1. CurrentCmd(c) = "query-status"
        BY <3>3, InfoScript DEF CurrentCmd
      <4>2. Len(out) = 1 /\ Answers(c, out[1])
        BY <1>1, <1>3, <1>6, <2>2 DEF Conversation
      <4>3. line.status \in Status \cap seen[c]
        BY <1>1, <2>2, <4>1, <4>2 DEF Answers, Sent
      <4>4. line.status # "paused"
        BY <3>1, <4>1 DEF IsPaused, IInv, TypeOK
      <4> QED BY <4>3, <4>4 DEF Status
    <3> QED BY <1>1, <3>1, <3>2, <3>3
  <2> QED BY <2>1, <2>2
<1>7. \A n \in Conn \ {cur[c]} : outq'[n] = outq[n]
  BY <1>1, <1>2
<1>8. clean'[c] => Conversation(c)' /\ Exact(c)'
  BY <1>2, <1>5, <1>6
<1> QED BY <1>2, <1>7, <1>8, ReadStep

LEMMA SendStep ==
  ASSUME IInv, OInv, CInv, NEW c \in Client, Send(c) \/ Key(c)
  PROVE  CInv'
<1>1. /\ cur[c] \in Conn /\ op[c] # "none" /\ pc[c] \in {"ready", "typing"}
      /\ inq \in [Conn -> Seq(Request)] /\ pc \in [Client -> Places]
  BY DEF Send, Key, IInv, TypeOK, Shape, Places
<1>2. /\ Write(c, CurrentCmd(c))
      /\ pc' = [pc EXCEPT ![c] = "await"]
      /\ UNCHANGED <<op, leg, step, cur, report, opno, outq, backlog, served, vm, clean, seen>>
  BY DEF Send, Key, monitorVars, historyVars
<1>3. pc'[c] = "await" /\ \A d \in Client \ {c} : pc'[d] = pc[d]
  BY <1>1, <1>2
<1>4. Conversation(c) /\ Exact(c) /\ Watched(c)
  BY DEF CInv, InStep
<1>5. Conversation(c)'
  <2> SUFFICES ASSUME clean[c] PROVE Conversation(c)'
    BY <1>2 DEF Conversation
  <2>1. inq[cur[c]] = <<>> /\ outq[cur[c]] = <<>> /\ ~InBacklog(cur[c])
    BY <1>1, <1>4 DEF Conversation
  <2>2. ~InBacklog(cur[c])'
    BY <1>2, <2>1 DEF InBacklog
  <2>3. CurrentCmd(c) \in Command
    BY <1>1, Due
  <2>4. inq'[cur[c]] = <<>> \/ (Len(inq'[cur[c]]) = 1 /\ inq'[cur[c]][1].cmd = CurrentCmd(c))
    BY <1>1, <1>2, <2>1, <2>3, WrittenAlone
  <2>5. Sent(c)' = CurrentCmd(c)
    BY <1>2, <1>3 DEF Sent, CurrentCmd
  <2> QED BY <1>2, <1>3, <2>1, <2>2, <2>4, <2>5 DEF Conversation
<1>6. Watched(c)' /\ Exact(c)'
  BY <1>1, <1>2, <1>3, <1>4 DEF Watched, Exact
<1>7. \A n \in Conn \ {cur[c]} : inq'[n] = inq[n]
  BY <1>1, <1>2 DEF Write
<1>8. ASSUME NEW d \in Client, d # c PROVE InStep(d)'
  <2>1. cur[d] \in Conn => cur[d] # cur[c]
    BY <1>1, <1>8, OwnConn
  <2> QED BY <1>2, <1>3, <1>7, <1>8, <2>1, Spared DEF InBacklog
<1>9. Apart'
  BY <1>2 DEF CInv, Apart, InBacklog
<1> QED BY <1>5, <1>6, <1>8, <1>9 DEF CInv, InStep

LEMMA EndOfInputStep ==
  ASSUME IInv, OInv, CInv, NEW c \in Client, EndOfInput(c)
  PROVE  CInv'
<1>1. /\ pc[c] = "typing" /\ op[c] = "text" /\ pc' = [pc EXCEPT ![c] = "close"]
      /\ UNCHANGED <<op, leg, step, cur, report, inq, outq, backlog, served, vm, clean, seen>>
  BY DEF EndOfInput, socketVars, monitorVars, historyVars, OInv, PerClient, Orderly, Sober
<1>2. pc'[c] = "close" /\ \A d \in Client \ {c} : pc'[d] = pc[d]
  BY <1>1 DEF IInv, TypeOK
<1>3. InStep(c)'
  <2>1. Conversation(c) /\ Exact(c) /\ Watched(c)
    BY DEF CInv, InStep
  <2>2. Conversation(c)'
    BY <1>1, <1>2, <2>1 DEF Conversation, InBacklog
  <2>3. Watched(c)' /\ Exact(c)'
    BY <1>1, <1>2, <2>1 DEF Watched, Exact
  <2> QED BY <2>2, <2>3 DEF InStep
<1>4. ASSUME NEW d \in Client, d # c PROVE InStep(d)'
  BY <1>1, <1>2, <1>4, Spared DEF InBacklog
<1>5. Apart'
  BY <1>1 DEF CInv, Apart, InBacklog
<1> QED BY <1>3, <1>4, <1>5 DEF CInv

LEMMA CloseStep ==
  ASSUME IInv, CInv, NEW c \in Client, Reopen(c) \/ Finish(c)
  PROVE  CInv'
<1>1. /\ cur[c] \in Conn /\ pc[c] = "close" /\ op[c] \in AnyOp /\ op[c] # "none"
      /\ outq \in [Conn -> Seq(Line)]
  BY DEF Reopen, Finish, IInv, TypeOK, Shape
<1>2. /\ outq' = [outq EXCEPT ![cur[c]] = <<>>]
      /\ cur' = [cur EXCEPT ![c] = NoConn]
      /\ step' = [step EXCEPT ![c] = 1]
      /\ UNCHANGED <<report, inq, backlog, served, vm, seen>>
  BY DEF Reopen, Finish, CloseStream, ToIdle, monitorVars, historyVars
<1>3. \/ /\ pc' = [pc EXCEPT ![c] = "idle"] /\ op' = [op EXCEPT ![c] = "none"]
         /\ leg' = [leg EXCEPT ![c] = 1] /\ clean' = [clean EXCEPT ![c] = TRUE]
      \/ /\ pc' = [pc EXCEPT ![c] = "open"] /\ UNCHANGED <<op, clean>>
         /\ leg[c] = 1 /\ leg' = [leg EXCEPT ![c] = @ + 1]
  BY DEF Reopen, Finish, ToIdle, Again, historyVars
<1>4. /\ cur'[c] \notin Conn
      /\ \/ pc'[c] = "idle" /\ op'[c] = "none" /\ leg'[c] = 1
         \/ pc'[c] = "open" /\ op'[c] = op[c] /\ clean'[c] = clean[c] /\ leg[c] = 1
      /\ \A d \in Client \ {c} : pc'[d] = pc[d] /\ op'[d] = op[d] /\ cur'[d] = cur[d]
           /\ leg'[d] = leg[d] /\ step'[d] = step[d] /\ clean'[d] = clean[d]
  BY <1>2, <1>3, SessionAssumption DEF IInv, TypeOK
<1>5. Conversation(c) /\ Exact(c) /\ Watched(c)
  BY DEF CInv, InStep
<1>6. InStep(c)'
  <2>1. Conversation(c)'
    BY <1>4 DEF Conversation
  <2>2. Watched(c)'
    BY <1>1, <1>2, <1>4, <1>5 DEF Watched
  <2>3. Exact(c)'
    <3>1. op[c] = "info" /\ leg[c] = 1 => step[c] > 4
      BY <1>1, <1>5, InfoScript DEF Watched
    <3> QED BY <1>1, <1>2, <1>4, <1>5, <3>1 DEF Exact
  <2> QED BY <2>1, <2>2, <2>3 DEF InStep
<1>7. ASSUME NEW d \in Client, d # c PROVE InStep(d)'
  <2>1. cur[d] \in Conn => cur[d] # cur[c]
    BY <1>1, <1>7, OwnConn
  <2>2. cur[d] \in Conn => outq'[cur[d]] = outq[cur[d]]
    BY <1>1, <1>2, <2>1
  <2> QED BY <1>2, <1>4, <1>7, <2>2, Spared DEF InBacklog
<1>8. Apart'
  BY <1>2 DEF CInv, Apart, InBacklog
<1> QED BY <1>6, <1>7, <1>8 DEF CInv

\* What is left on a connection that the monitor serves, and what it serves next.
LEMMA AcceptStep ==
  ASSUME IInv, OInv, CInv, Accept
  PROVE  CInv'
<1> DEFINE n == Head(backlog)
<1>1. /\ backlog \in Seq(Conn) /\ backlog # <<>> /\ n \in Conn /\ backlog[1] = n
      /\ outq \in [Conn -> Seq(Line)]
  BY DEF Accept, IInv, TypeOK
<1>2. /\ served' = n /\ backlog' = Tail(backlog)
      /\ outq' = IF owner[n] = None THEN outq ELSE [outq EXCEPT ![n] = Append(@, Greeting)]
      /\ UNCHANGED <<op, pc, leg, step, cur, report, inq, vm, clean, seen>>
  BY DEF Accept, clientVars, historyVars
<1> HIDE DEF n
<1>3. /\ DOMAIN backlog' \subseteq Nat /\ 0 \notin DOMAIN backlog' /\ 1 \in DOMAIN backlog
      /\ \A i \in DOMAIN backlog' : i + 1 \in DOMAIN backlog /\ backlog'[i] = backlog[i + 1]
  BY <1>1, <1>2
<1>4. \A m \in Conn : InBacklog(m)' => InBacklog(m) /\ m # n
  <2> SUFFICES ASSUME NEW m \in Conn, NEW i \in DOMAIN backlog', backlog'[i] = m
               PROVE  InBacklog(m) /\ m # n
    BY DEF InBacklog
  <2>1. i + 1 \in DOMAIN backlog /\ backlog[i + 1] = m /\ i + 1 # 1
    BY <1>3
  <2> QED BY <1>1, <1>3, <2>1 DEF InBacklog, CInv, Apart
<1>5. Apart'
  <2>1. ASSUME NEW i \in DOMAIN backlog', NEW j \in DOMAIN backlog', backlog'[i] = backlog'[j]
        PROVE  i = j
    <3>1. i + 1 = j + 1
      BY <1>3, <2>1 DEF CInv, Apart
    <3> QED BY <1>3, <3>1
  <2>2. ~\E i \in DOMAIN backlog' : backlog'[i] = n
    BY <1>1, <1>4 DEF InBacklog
  <2> QED BY <1>2, <2>1, <2>2 DEF Apart, InBacklog
<1>6. ASSUME NEW d \in Client, cur[d] = n PROVE InStep(d)'
  <2>1. Conversation(d) /\ Watched(d) /\ Exact(d)
    BY DEF CInv, InStep
  <2>2. Watched(d)' /\ Exact(d)'
    BY <1>2, <2>1 DEF Watched, Exact
  <2>3. Conversation(d)'
    <3> SUFFICES ASSUME clean[d] PROVE Conversation(d)'
      BY <1>2 DEF Conversation
    <3>1. InBacklog(n)
      BY <1>1, <1>3 DEF InBacklog
    <3>2. pc[d] = "greeting" /\ inq[n] = <<>> /\ outq[n] = <<>>
      BY <1>1, <1>6, <2>1, <3>1 DEF Conversation
    <3>3. owner[n] # None
      BY <1>1, <1>6, OwnConn, SessionAssumption
    <3>4. outq'[n] = <<Greeting>>
      BY <1>1, <1>2, <3>2, <3>3
    <3>5. ~\E i \in DOMAIN backlog' : backlog'[i] = n
      BY <1>1, <1>4 DEF InBacklog
    <3> QED BY <1>2, <1>6, <3>2, <3>4, <3>5 DEF Conversation, InBacklog
  <2> QED BY <2>2, <2>3 DEF InStep
<1>7. ASSUME NEW d \in Client, cur[d] # n PROVE InStep(d)'
  <2>1. cur[d] \in Conn => outq'[cur[d]] = outq[cur[d]] /\ (InBacklog(cur[d])' => InBacklog(cur[d]))
    BY <1>1, <1>2, <1>4, <1>7
  <2> QED BY <1>2, <2>1, Spared
<1> QED BY <1>5, <1>6, <1>7 DEF CInv

\* A command that is executed on an undisturbed connection is answered by one line.
LEMMA ExecuteStep ==
  ASSUME IInv, OInv, CInv, Execute
  PROVE  CInv'
<1>1. /\ served \in Conn /\ inq[served] \in Seq(Request) /\ inq[served] # <<>>
      /\ inq \in [Conn -> Seq(Request)] /\ outq \in [Conn -> Seq(Line)]
      /\ vm \in Status /\ seen \in [Client -> SUBSET Status]
  BY SessionAssumption DEF Execute, IInv, TypeOK, Up, Status
<1>2. PICK r \in Request : r = Head(inq[served])
  BY <1>1
<1>3. r.cmd \in Command /\ r.from \in Client /\ r.no \in Nat
  BY DEF Request
<1>4. PICK kind \in {"return", "error"} :
        Emit((IF vm' # vm THEN <<Event>> ELSE <<>>) \o <<Answer(kind, r.cmd, vm)>>)
  BY <1>2 DEF Execute
<1>5. /\ UNCHANGED <<op, pc, leg, step, cur, report, owner, backlog, served>>
      /\ inq' = [inq EXCEPT ![served] = Tail(@)]
      /\ Witness(vm')
  BY DEF Execute, clientVars
<1>6. PICK answer \in Line :
        /\ answer = Answer(kind, r.cmd, vm) /\ answer.re = r.cmd
        /\ r.cmd = "query-status" => answer.status = vm
  <2>1. Answer(kind, r.cmd, vm) \in Line
    BY <1>1, <1>3, AnswerType
  <2>2. /\ Answer(kind, r.cmd, vm).re = r.cmd
        /\ r.cmd = "query-status" => Answer(kind, r.cmd, vm).status = vm
    BY DEF Answer
  <2> QED BY <2>1, <2>2
<1>7. PICK first \in Seq(Line) :
        /\ first = IF vm' # vm THEN <<Event>> ELSE <<>>
        /\ vm' # vm => Len(first) = 1 /\ first[1] = Event
  <2>1. <<>> \in Seq(Line) /\ <<Event>> \in Seq(Line) /\ Len(<<Event>>) = 1 /\ <<Event>>[1] = Event
    BY OtherLines
  <2> QED BY <2>1
<1>8. Emit(first \o <<answer>>)
  <2>1. answer = Answer(kind, r.cmd, vm) /\ first = IF vm' # vm THEN <<Event>> ELSE <<>>
    BY <1>6, <1>7
  <2> QED BY <1>4, <2>1, Zenon
<1>9. /\ \A d \in Client : seen[d] \subseteq seen'[d] /\ (op[d] = "info" => vm' \in seen'[d])
      /\ \A d \in Client : clean'[d] => clean[d]
  BY <1>1, <1>5, <1>8 DEF Witness, Emit
<1>10. ASSUME NEW d \in Client, cur[d] = served PROVE InStep(d)'
  <2>1. Conversation(d) /\ Watched(d) /\ Exact(d) /\ owner[served] = d /\ d # None
    BY <1>1, <1>10, OwnConn, SessionAssumption DEF CInv, InStep
  <2>2. Watched(d)' /\ Exact(d)'
    BY <1>5, <1>9, <2>1 DEF Watched, Exact
  <2>3. Conversation(d)'
    <3> SUFFICES ASSUME clean'[d] PROVE Conversation(d)'
      BY DEF Conversation
    <3>1. ~\E i \in DOMAIN (first \o <<answer>>) : (first \o <<answer>>)[i] = Event
      BY <1>8, <2>1 DEF Emit
    <3>2. vm' = vm
      <4> SUFFICES ASSUME vm' # vm PROVE FALSE
        OBVIOUS
      <4>1. <<answer>> \in Seq(Line) /\ Len(<<answer>>) = 1
        OBVIOUS
      <4>2. 1 \in DOMAIN (first \o <<answer>>) /\ (first \o <<answer>>)[1] = first[1]
        BY <1>7, <4>1, ConcatProperties
      <4> QED BY <1>7, <3>1, <4>2
    <3>3. clean[d] /\ pc[d] \in {"caps", "await"} /\ outq[served] = <<>>
          /\ Len(inq[served]) = 1 /\ inq[served][1].cmd = Sent(d) /\ ~InBacklog(served)
      <4>1. pc[d] \in Places /\ pc[d] \notin {"idle", "open"}
        BY <1>1, <1>10, OwnConn DEF IInv, TypeOK, Places
      <4> QED BY <1>1, <1>9, <1>10, <2>1, <4>1 DEF Conversation, Places
    <3>4. inq'[served] = <<>> /\ r.cmd = Sent(d)
      <4>1. Tail(inq[served]) = <<>> /\ Head(inq[served]) = inq[served][1]
        BY <1>1, <3>3, JustOne
      <4> QED BY <1>1, <1>2, <1>5, <3>3, <4>1
    <3>5. Len(outq'[served]) = 1 /\ outq'[served][1] = answer
      <4>1. outq'[served] = outq[served] \o (first \o <<answer>>)
        BY <1>1, <1>8, <2>1 DEF Emit
      <4>2. outq'[served] = <<>> \o (<<>> \o <<answer>>)
        BY <1>7, <3>2, <3>3, <4>1
      <4>3. <<>> \o (<<>> \o <<answer>>) = <<answer>>
        OBVIOUS
      <4> QED BY <4>2, <4>3
    <3>6. Sent(d)' = Sent(d)
      BY <1>5 DEF Sent, CurrentCmd
    <3>7. r.cmd = "query-status" => vm \in Status \cap seen'[d]
      <4> SUFFICES ASSUME r.cmd = "query-status" PROVE vm \in Status \cap seen'[d]
        OBVIOUS
      <4>1. op[d] # "none"
        BY <1>1, <1>10, OwnConn
      <4>2. CurrentCmd(d) = "query-status"
        BY <3>4 DEF Sent, Capabilities
      <4>3. op[d] = "info"
        BY <4>1, <4>2, Due
      <4> QED BY <1>1, <1>9, <3>2, <4>3
    <3>8. answer.re = Sent(d)' /\ (answer.re = "query-status" => answer.status \in Status \cap seen'[d])
      <4>1. answer.re = Sent(d) /\ (answer.re = "query-status" => answer.status = vm)
        BY <1>6, <3>4
      <4>2. answer.re = "query-status" => vm \in Status \cap seen'[d]
        BY <1>6, <3>7
      <4> QED BY <3>6, <4>1, <4>2
    <3>9. ~\E i \in DOMAIN backlog' : backlog'[i] = served
      BY <1>5, <3>3 DEF InBacklog
    <3> QED BY <1>5, <1>10, <3>3, <3>4, <3>5, <3>8, <3>9 DEF Conversation, InBacklog, Answers
  <2> QED BY <2>2, <2>3 DEF InStep
<1>11. ASSUME NEW d \in Client, cur[d] # served PROVE InStep(d)'
  <2>1. cur[d] \in Conn => inq'[cur[d]] = inq[cur[d]] /\ outq'[cur[d]] = outq[cur[d]]
    BY <1>1, <1>5, <1>8, <1>11 DEF Emit
  <2> QED BY <1>5, <1>9, <2>1, Spared DEF InBacklog
<1>12. Apart'
  BY <1>5 DEF CInv, Apart, InBacklog
<1> QED BY <1>10, <1>11, <1>12 DEF CInv

LEMMA GuestEventStep ==
  ASSUME IInv, CInv, GuestEvent
  PROVE  CInv'
<1>1. /\ served \in Conn /\ outq \in [Conn -> Seq(Line)] /\ Emit(<<Event>>)
      /\ UNCHANGED <<op, pc, leg, step, cur, report, inq, vm, backlog, served, seen>>
  BY SessionAssumption DEF GuestEvent, clientVars, IInv, TypeOK
<1>2. ASSUME NEW d \in Client PROVE InStep(d)'
  <2>1. \E i \in DOMAIN <<Event>> : <<Event>>[i] = Event
    OBVIOUS
  <2>2. (clean'[d] => clean[d]) /\ (owner[served] = d => ~clean'[d])
    BY <1>1, <2>1 DEF Emit
  <2>3. cur[d] \in Conn /\ clean'[d] => cur[d] # served
    BY <2>2, OwnConn
  <2>4. cur[d] \in Conn /\ clean'[d] => outq'[cur[d]] = outq[cur[d]]
    BY <1>1, <2>3 DEF Emit
  <2> QED BY <1>1, <2>2, <2>4, Spared DEF InBacklog
<1>3. Apart'
  BY <1>1 DEF CInv, Apart, InBacklog
<1> QED BY <1>2, <1>3 DEF CInv

LEMMA DropStep ==
  ASSUME IInv, CInv, Drop
  PROVE  CInv'
<1>1. /\ served \in Conn /\ owner[served] = None /\ served' = NoConn
      /\ inq' = [inq EXCEPT ![served] = <<>>] /\ inq \in [Conn -> Seq(Request)]
      /\ UNCHANGED <<op, pc, leg, step, cur, report, outq, vm, backlog, clean, seen>>
  BY SessionAssumption DEF Drop, clientVars, historyVars, IInv, TypeOK
<1>2. ASSUME NEW d \in Client PROVE InStep(d)'
  <2>1. cur[d] \in Conn => cur[d] # served
    BY <1>1, OwnConn, SessionAssumption
  <2>2. cur[d] \in Conn => inq'[cur[d]] = inq[cur[d]]
    BY <1>1, <2>1
  <2> QED BY <1>1, <2>2, Spared DEF InBacklog
<1>3. Apart'
  BY <1>1, SessionAssumption DEF CInv, Apart, InBacklog
<1> QED BY <1>2, <1>3 DEF CInv

\* When QEMU ends, what was asked is lost and what was answered can still be read.
LEMMA ExitStep ==
  ASSUME IInv, CInv, Exit
  PROVE  CInv'
<1>1. /\ vm' = "off" /\ served' = NoConn /\ backlog' = <<>> /\ inq' = [n \in Conn |-> <<>>]
      /\ UNCHANGED <<op, pc, leg, step, cur, report, outq, clean, seen>>
  BY DEF Exit, clientVars, historyVars
<1>2. ASSUME NEW d \in Client PROVE InStep(d)'
  <2>1. Conversation(d) /\ Watched(d) /\ Exact(d)
    BY DEF CInv, InStep
  <2>2. Watched(d)' /\ Exact(d)'
    BY <1>1, <2>1 DEF Watched, Exact
  <2>3. Conversation(d)'
    <3> SUFFICES ASSUME clean[d], cur[d] \in Conn PROVE Conversation(d)'
      BY <1>1 DEF Conversation
    <3>1. inq'[cur[d]] = <<>> /\ ~\E i \in DOMAIN backlog' : backlog'[i] = cur[d]
      BY <1>1
    <3>2. Sent(d)' = Sent(d)
      BY <1>1 DEF Sent, CurrentCmd
    <3>3. \A line : Answers(d, line) =>
            line.re = Sent(d)' /\ (line.re = "query-status" => line.status \in Status \cap seen'[d])
      BY <1>1, <3>2 DEF Answers
    <3>4. Conversation(d) /\ clean'[d] = clean[d] /\ cur'[d] = cur[d] /\ pc'[d] = pc[d]
          /\ outq'[cur'[d]] = outq[cur[d]]
      BY <1>1, <2>1
    <3> QED BY <3>1, <3>3, <3>4 DEF Conversation, InBacklog, Answers
  <2> QED BY <2>2, <2>3 DEF InStep
<1>3. Apart'
  BY <1>1, SessionAssumption DEF Apart, InBacklog
<1> QED BY <1>2, <1>3 DEF CInv

LEMMA BootStep ==
  ASSUME IInv, CInv, Boot \/ UNCHANGED vars
  PROVE  CInv'
<1>1. UNCHANGED <<op, pc, leg, step, cur, report, inq, outq, backlog, served, clean>>
  BY DEF Boot, vars, clientVars, socketVars, monitorVars, historyVars
<1>2. ASSUME NEW d \in Client PROVE InStep(d)'
  <2>1. seen[d] \subseteq seen'[d] /\ (vm' = vm \/ (op[d] = "info" => vm' \in seen'[d]))
    BY DEF Boot, Witness, vars, monitorVars, historyVars, IInv, TypeOK
  <2> QED BY <1>1, <2>1, Spared DEF InBacklog
<1>3. Apart'
  BY <1>1 DEF CInv, Apart, InBacklog
<1> QED BY <1>2, <1>3 DEF CInv

LEMMA ConversationStep == IInv /\ OInv /\ CInv /\ [Next]_vars => CInv'
<1>1. ASSUME IInv, OInv, CInv, NEW c \in Client, ClientStep(c) \/ Key(c) \/ EndOfInput(c)
      PROVE  CInv'
  BY <1>1, ConnectStep, GoneStep, ReadLineStep, ReadNothingStep, SendStep,
     EndOfInputStep, CloseStep DEF ClientStep
<1>2. ASSUME IInv, OInv, CInv, Next PROVE CInv'
  BY <1>1, <1>2, BeginStep, AcceptStep, ExecuteStep, GuestEventStep, DropStep, ExitStep,
     BootStep DEF Next
<1> QED BY <1>2, BootStep

LEMMA ConversationInvariance == Spec => [](IInv /\ CInv)
<1>1. Init => IInv /\ OInv /\ CInv
  BY Initial, InitialOrder, InitialStep
<1>2. IInv /\ OInv /\ CInv /\ [Next]_vars => (IInv /\ OInv /\ CInv)'
  BY Step, OrderStep, ConversationStep
<1> QED BY <1>1, <1>2, PTL DEF Spec

\* A process reads one line for each command and takes it for the answer: as long
\* as no read timed out and no event came in between, it is the answer.
THEOREM AnswersAreTheirs == Spec => []AnswersMatch
<1>1. IInv /\ CInv => AnswersMatch
  <2> SUFFICES ASSUME IInv, CInv, NEW c \in Client, pc[c] = "await", clean[c],
                      outq[cur[c]] # <<>>
               PROVE  Head(outq[cur[c]]).re = CurrentCmd(c)
    BY DEF AnswersMatch
  <2>1. cur[c] \in Conn /\ outq[cur[c]] \in Seq(Line)
    BY DEF IInv, Shape, TypeOK
  <2>2. Len(outq[cur[c]]) = 1 /\ Answers(c, outq[cur[c]][1])
    BY <2>1 DEF CInv, InStep, Conversation
  <2>3. Head(outq[cur[c]]) = outq[cur[c]][1]
    BY <2>1, <2>2, JustOne
  <2> QED BY <2>2, <2>3 DEF Answers, Sent
<1> QED BY <1>1, ConversationInvariance, PTL

\* On such a connection a VM that is reported as running did run at some moment
\* since the question was asked.
THEOREM RunningIsExact == Spec => []CleanReportExact
<1>1. CInv => CleanReportExact
  BY DEF CInv, InStep, Exact, CleanReportExact
<1> QED BY <1>1, ConversationInvariance, PTL
=============================================================================
