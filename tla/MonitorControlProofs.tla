------------------------ MODULE MonitorControlProofs ------------------------
(***************************************************************************)
(* Proofs about MonitorControl, for any number of threads, handles and     *)
(* workers: type correctness, and that a driver without an open handle is  *)
(* quiet, however the commands interleave and whatever fails; and that     *)
(* with one command at a time the service, the library, the driver and the *)
(* worker agree between two commands.  The second part says of every place *)
(* in a command what it has done by then: which handle there is, which     *)
(* half of the driver is on, and whether a worker runs.                    *)
(***************************************************************************)
EXTENDS MonitorControl, TLAPS

Inv == TypeOK /\ QuietWhenClosed

\* A program counter moves and nothing else of an actor changes, or it rests.
LEMMA GotoTyped ==
    ASSUME TypeOK, NEW a \in Actors, NEW p \in Pcs, Goto(a, p)
    PROVE  act' \in [Actors -> ActorState]
<1>1. Rest \in ActorState
  BY DEF Rest, ActorState, Pcs
<1>2. [act[a] EXCEPT !.pc = p] \in ActorState
  BY DEF TypeOK, ActorState
<1> QED
  BY <1>1, <1>2 DEF Goto, TypeOK

\* A program counter and a local move.
LEMMA ActorTyped ==
    ASSUME TypeOK, NEW a \in Actors, NEW p \in Pcs, NEW b \in BOOLEAN,
           act' = [act EXCEPT ![a] = [@ EXCEPT !.local = b, !.pc = p]]
    PROVE  act' \in [Actors -> ActorState]
<1>1. act[a] \in ActorState
  BY DEF TypeOK
<1>2. [act[a] EXCEPT !.local = b, !.pc = p] \in ActorState
  BY <1>1 DEF ActorState
<1> QED
  BY <1>2 DEF TypeOK

\* A program counter and what the actor waits for move.
LEMMA MineTyped ==
    ASSUME TypeOK, NEW a \in Actors, NEW p \in Pcs, NEW m \in Handles \cup Workers \cup {None},
           act' = [act EXCEPT ![a] = [@ EXCEPT !.mine = m, !.pc = p]]
    PROVE  act' \in [Actors -> ActorState]
<1>1. act[a] \in ActorState
  BY DEF TypeOK
<1>2. [act[a] EXCEPT !.mine = m, !.pc = p] \in ActorState
  BY <1>1 DEF ActorState
<1> QED
  BY <1>2 DEF TypeOK

\* The steps of an actor that leave the driver and the workers alone.
LEMMA ServiceStep ==
    ASSUME Inv, NEW a \in Actors,
           \/ DriverInit(a) \/ OpenFails(a) \/ ShareMem(a) \/ MarkInit(a)
           \/ CheckInit(a) \/ TestStatus(a) \/ RequestHangs(a) \/ Query(a)
           \/ (\E on \in BOOLEAN : MarkMonitor(a, on) \/ MarkIps(a, on))
           \/ AfterOff(a) \/ ExitStep(a) \/ StopThread(a) \/ JoinThread(a) \/ ForgetInit(a)
    PROVE  Inv'
<1> USE DEF Inv
<1>1. UNCHANGED <<drvVars, wrkVars>>
  BY DEF DriverInit, OpenFails, ShareMem, MarkInit, CheckInit, TestStatus, RequestHangs,
         Query, MarkMonitor, MarkIps, AfterOff, ExitStep, StopThread, JoinThread, ForgetInit
<1>2. act' \in [Actors -> ActorState]
  <2>1. ASSUME DriverInit(a) \/ OpenFails(a) \/ ShareMem(a) \/ MarkInit(a) \/ CheckInit(a)
        PROVE  \E p \in Pcs : Goto(a, p)
    BY <2>1 DEF DriverInit, OpenFails, ShareMem, MarkInit, CheckInit, Pcs
  <2>2. ASSUME RequestHangs(a) \/ Query(a) \/ JoinThread(a) \/ ForgetInit(a)
        PROVE  \E p \in Pcs : Goto(a, p)
    BY <2>2 DEF RequestHangs, Query, JoinThread, ForgetInit, Pcs
  <2>3. ASSUME NEW on \in BOOLEAN, MarkMonitor(a, on) \/ MarkIps(a, on)
        PROVE  \E p \in Pcs : Goto(a, p)
    BY <2>3 DEF MarkMonitor, MarkIps, Pcs
  <2>4. ASSUME TestStatus(a) \/ AfterOff(a) \/ ExitStep(a)
        PROVE  \/ \E p \in Pcs : Goto(a, p)
               \/ \E p \in Pcs, b \in BOOLEAN :
                     act' = [act EXCEPT ![a] = [@ EXCEPT !.local = b, !.pc = p]]
    <3>1. CASE TestStatus(a)
      BY <3>1 DEF TestStatus, TypeOK, Pcs
    <3>2. CASE AfterOff(a)
      BY <3>2 DEF AfterOff, TypeOK, Pcs
    <3>3. CASE ExitStep(a)
      BY <3>3 DEF ExitStep, TypeOK, Pcs
    <3> QED
      BY <2>4, <3>1, <3>2, <3>3
  <2>5. CASE StopThread(a)
    BY <2>5, MineTyped DEF StopThread, TypeOK, Pcs
  <2> QED
    BY <2>1, <2>2, <2>3, <2>4, <2>5, GotoTyped, ActorTyped
<1>3. /\ init' \in BOOLEAN /\ mon' \in BOOLEAN /\ ips' \in BOOLEAN
      /\ dev' \in Handles \cup {None} /\ opened' \in Handles \cup {None}
      /\ thread' \in Workers \cup {None} /\ exiting' \in BOOLEAN /\ stopEvent' \in BOOLEAN
  BY DEF DriverInit, OpenFails, ShareMem, MarkInit, CheckInit, TestStatus, RequestHangs,
         Query, MarkMonitor, MarkIps, AfterOff, ExitStep, StopThread, JoinThread, ForgetInit,
         TypeOK, svcVars, libVars
<1> QED
  BY <1>1, <1>2, <1>3 DEF TypeOK, QuietWhenClosed, drvVars, wrkVars

\* The steps of an actor that reach the driver or the worker.
LEMMA DriverStep ==
    ASSUME Inv, ControlAssumption, NEW a \in Actors,
           \/ OpenDevice(a) \/ InitRules(a) \/ ReloadRules(a)
           \/ (\E on \in BOOLEAN : SetMonitor(a, on) \/ SetIpsMonitor(a, on))
           \/ StartThread(a) \/ CloseHandle(a) \/ DriverClose(a)
    PROVE  Inv'
<1> USE DEF Inv
<1>1. CASE OpenDevice(a)
  <2>1. act' \in [Actors -> ActorState]
    BY <1>1, GotoTyped DEF OpenDevice, Pcs
  <2>2. PICK h \in Handles : handle' = [handle EXCEPT ![h] = "open"] /\ opened' = h
    BY <1>1 DEF OpenDevice
  <2> QED
    BY <1>1, <2>1, <2>2 DEF OpenDevice, TypeOK, QuietWhenClosed, svcVars, wrkVars
<1>2. CASE InitRules(a) \/ ReloadRules(a)
  <2>1. act' \in [Actors -> ActorState]
    BY <1>2, GotoTyped DEF InitRules, ReloadRules, Pcs
  <2>2. kips' \subseteq kips
    BY <1>2 DEF InitRules, ReloadRules, ClearKinds
  <2> QED
    BY <1>2, <2>1, <2>2 DEF InitRules, ReloadRules, TypeOK, QuietWhenClosed, svcVars, libVars, wrkVars
<1>3. ASSUME NEW on \in BOOLEAN, SetMonitor(a, on) \/ SetIpsMonitor(a, on)
      PROVE  Inv'
  <2>1. act' \in [Actors -> ActorState]
    BY <1>3, GotoTyped DEF SetMonitor, SetIpsMonitor, Pcs
  <2>2. /\ dev \in Handles /\ handle[dev] # "unused" /\ handle' = handle
    BY <1>3 DEF SetMonitor, SetIpsMonitor, Reaches, DevOpen, TypeOK
  <2>3. /\ rd' \in [Workers -> {"off", "ready", "calling", "reading", "parsing"}]
        /\ via' \in [Workers -> Handles \cup {None}]
        /\ \A w \in Workers : rd'[w] = "reading" <=> via'[w] # None
    BY <1>3 DEF SetMonitor, SetIpsMonitor, CancelReads, TypeOK
  <2> QED
    BY <1>3, <2>1, <2>2, <2>3 DEF SetMonitor, SetIpsMonitor, TypeOK, QuietWhenClosed, svcVars, libVars
<1>4. CASE StartThread(a)
  <2>1. act' \in [Actors -> ActorState]
    BY <1>4, GotoTyped DEF StartThread, Pcs
  <2>2. PICK w \in Workers : rd[w] = "off" /\ rd' = [rd EXCEPT ![w] = "ready"] /\ thread' = w
    BY <1>4 DEF StartThread
  <2> QED
    BY <1>4, <2>1, <2>2 DEF StartThread, TypeOK, QuietWhenClosed, svcVars, drvVars
<1>5. CASE CloseHandle(a)
  <2>1. AfterClose(a) \in Pcs
    BY DEF AfterClose, Pcs
  <2>2. CASE DevOpen
    <3>1. dev \in Handles /\ handle' = [handle EXCEPT ![dev] = "closing"] /\ dev' = dev
      BY <1>5, <2>2 DEF CloseHandle, DevOpen, TypeOK
    <3>2. act' \in [Actors -> ActorState]
      BY <1>5, <2>2, <3>1, MineTyped DEF CloseHandle, Pcs
    <3> QED
      BY <1>5, <3>1, <3>2 DEF CloseHandle, TypeOK, QuietWhenClosed, svcVars, wrkVars
  <2>3. CASE ~DevOpen
    <3>1. act' \in [Actors -> ActorState]
      BY <1>5, <2>1, <2>3, GotoTyped DEF CloseHandle
    <3> QED
      BY <1>5, <2>3, <3>1 DEF CloseHandle, TypeOK, QuietWhenClosed, svcVars, wrkVars
  <2> QED
    BY <2>2, <2>3
<1>6. CASE DriverClose(a)
  <2>1. act' \in [Actors -> ActorState]
    <3>1. AfterClose(a) \in Pcs
      BY DEF AfterClose, Pcs
    <3> QED
      BY <1>6, <3>1, GotoTyped DEF DriverClose
  <2>2. /\ rd' \in [Workers -> {"off", "ready", "calling", "reading", "parsing"}]
        /\ via' \in [Workers -> Handles \cup {None}]
        /\ \A w \in Workers : rd'[w] = "reading" <=> via'[w] # None
    BY <1>6 DEF DriverClose, CancelReads, TypeOK
  <2> QED
    BY <1>6, <2>1, <2>2 DEF DriverClose, TypeOK, QuietWhenClosed, svcVars
<1> QED
  BY <1>1, <1>2, <1>3, <1>4, <1>5, <1>6

\* The steps of the environment: a command arrives, a worker runs, an event occurs.
LEMMA OtherStep ==
    ASSUME Inv, ControlAssumption,
           \/ \E a \in Actors, c \in Commands : Begin(a, c)
           \/ \E w \in Workers : Worker(w)
           \/ Event
    PROVE  Inv'
<1> USE DEF Inv
<1>1. ASSUME NEW a \in Actors, NEW c \in Commands, Begin(a, c)
      PROVE  Inv'
  <2>1. c \in AllCommands
    BY DEF ControlAssumption
  <2>2. PICK p \in Pcs : act' = [act EXCEPT ![a] = [Rest EXCEPT !.cmd = c, !.pc = p]]
    BY <1>1 DEF Begin, Pcs
  <2>3. [Rest EXCEPT !.cmd = c, !.pc = p] \in ActorState
    BY <2>1 DEF Rest, ActorState
  <2>4. act' \in [Actors -> ActorState]
    BY <2>2, <2>3 DEF TypeOK
  <2>5. UNCHANGED <<svcVars, libVars, drvVars, wrkVars>>
    BY <1>1 DEF Begin
  <2> QED
    BY <2>4, <2>5 DEF TypeOK, QuietWhenClosed, svcVars, libVars, drvVars, wrkVars
<1>2. ASSUME NEW w \in Workers, WorkerTest(w) \/ WorkerRead(w)
      PROVE  Inv'
  <2>1. /\ rd' \in [Workers -> {"off", "ready", "calling", "reading", "parsing"}]
        /\ via' \in [Workers -> Handles \cup {None}]
        /\ \A v \in Workers : rd'[v] = "reading" <=> via'[v] # None
    <3>1. CASE WorkerTest(w)
      BY <3>1 DEF WorkerTest, TypeOK
    <3>2. CASE WorkerRead(w)
      BY <3>2 DEF WorkerRead, DevOpen, TypeOK
    <3> QED
      BY <1>2, <3>1, <3>2
  <2> QED
    BY <1>2, <2>1 DEF WorkerTest, WorkerRead, TypeOK, QuietWhenClosed, svcVars, libVars, drvVars
<1>3. ASSUME NEW w \in Workers, ReadDone(w)
      PROVE  Inv'
  BY <1>3 DEF ReadDone, TypeOK, QuietWhenClosed, svcVars, libVars
<1>4. ASSUME NEW w \in Workers, WorkerParse(w)
      PROVE  Inv'
  <2>1. \E p \in {"off", "ready", "calling"} : rd' = [rd EXCEPT ![w] = p]
    BY <1>4 DEF WorkerParse
  <2>2. rd[w] = "parsing" /\ stopEvent' = FALSE
        /\ UNCHANGED <<svcVars, dev, opened, thread, exiting, drvVars, via, act>>
    BY <1>4 DEF WorkerParse
  <2>3. /\ rd' \in [Workers -> {"off", "ready", "calling", "reading", "parsing"}]
        /\ \A v \in Workers : rd'[v] = "reading" <=> via'[v] # None
    BY <2>1, <2>2 DEF TypeOK
  <2> QED
    BY <2>2, <2>3 DEF TypeOK, QuietWhenClosed, svcVars, drvVars
<1>5. CASE Event
  BY <1>5 DEF Event, TypeOK, QuietWhenClosed, svcVars, libVars, wrkVars
<1> QED
  BY <1>1, <1>2, <1>3, <1>4, <1>5 DEF Worker

LEMMA InitInv == Init => Inv
<1> SUFFICES ASSUME Init PROVE Inv
  OBVIOUS
<1>1. Rest \in ActorState
  BY DEF Rest, ActorState, Pcs
<1>2. act \in [Actors -> ActorState]
  BY <1>1 DEF Init
<1> QED
  BY <1>2 DEF Init, Inv, TypeOK, QuietWhenClosed

LEMMA StepInv == Inv /\ [Next]_vars => Inv'
<1> SUFFICES ASSUME Inv, [Next]_vars PROVE Inv'
  OBVIOUS
<1>1. ASSUME NEW a \in Actors, Step(a) PROVE Inv'
  BY <1>1, ControlAssumption, ServiceStep, DriverStep DEF Step
<1>2. CASE UNCHANGED vars
  BY <1>2 DEF Inv, TypeOK, QuietWhenClosed, vars, svcVars, libVars, drvVars, wrkVars
<1> QED
  BY <1>1, <1>2, ControlAssumption, OtherStep DEF Next

\* Every reachable state is well typed, and a driver without a handle is quiet.
THEOREM ControlInvariance == Spec => []Inv
  BY InitInv, StepInv, PTL DEF Spec

\* Type correctness of the control of the driver.
THEOREM ControlTypeCorrect == Spec => []TypeOK
  BY ControlInvariance, PTL DEF Inv

\* A driver whose handles are all closed neither monitors nor intercepts, for any
\* number of commands at the same time (devctrl.c:943-971).
THEOREM AlwaysQuiet == Spec => []QuietWhenClosed
  BY ControlInvariance, PTL DEF Inv

-----------------------------------------------------------------------------
(***************************************************************************)
(* One command at a time, and every query is answered: the service, the    *)
(* library, the driver and the worker agree.                               *)
(***************************************************************************)

\* Where a command has the device: after its tests and before the close.
Inside == {"rules", "initialised", "check", "test", "reload", "onMon", "offMon", "onIps", "offIps",
           "markMon", "unmarkMon", "markIps", "unmarkIps", "afterOff", "start", "stop", "join",
           "close", "closing"}

\* g_hDevice holds the one handle there is, and the service counts as initialised
\* while it does, except in DriverInit and DriverFree.
Held(a) ==
    /\ \A h \in Handles : handle[h] # "unused" => h = dev \/ (At(a, "share") /\ h = opened)
    /\ dev # None => handle[dev] = IF At(a, "closing") THEN "closing" ELSE "open"
    /\ At(a, "share") => opened # None /\ handle[opened] = "open"
    /\ At(a, "closing") => act[a].mine = dev
    /\ act[a].pc \in {"init", "open", "share", "forget"} => dev = None
    /\ act[a].pc \in Inside => dev # None
    /\ act[a].pc \in {"rules", "initialised"} => ~init
    /\ act[a].pc \notin {"rules", "initialised", "close", "closing", "forget"} => (init <=> dev # None)

\* Which commands are where, and what is off by then.
Turned(a) ==
    LET c == act[a].cmd IN
    /\ act[a].pc \in {"offMon", "unmarkMon"} => c \in {"monOff", "exit"}
    /\ act[a].pc \in {"offIps", "unmarkIps"} => c \in {"ipsOff", "exit"}
    /\ At(a, "afterOff") => (c = "monOff" /\ ~mon) \/ (c = "ipsOff" /\ ~ips)
    /\ act[a].pc \in {"stop", "join", "forget"} => c \in {"monOff", "ipsOff", "exit"}
    /\ act[a].pc \in {"close", "closing"} => c \in {"monOff", "ipsOff", "exit", "monOn", "ipsOn"}
    /\ act[a].pc \in {"init", "open", "share", "rules", "initialised"} => c \in {"monOn", "ipsOn"}
    /\ c = "exit" /\ act[a].pc \in {"exitMon", "offMon", "unmarkMon", "exitInit"} => ~ips
    /\ At(a, "exitInit") => ~mon /\ ~ips
    /\ act[a].pc \in {"exitIps", "exitMon", "exitInit"} => c = "exit"
    /\ act[a].pc \in {"stop", "join"} => ~mon /\ (act[a].local => ~ips)
    /\ act[a].pc \in {"close", "closing", "forget"} => ~mon /\ ~ips
    /\ mon \/ ips => dev # None /\ act[a].pc \notin {"rules", "initialised"}

\* The flags of the driver follow those of the service: only between the request and
\* the mark, and while a reload has cleared a kind, do they differ.
Flagged(a) ==
    /\ kmon = CASE At(a, "markMon") -> TRUE [] At(a, "unmarkMon") -> FALSE [] OTHER -> mon
    /\ At(a, "markIps") => kips = Kinds
    /\ At(a, "unmarkIps") \/ (~ips /\ ~At(a, "markIps")) => kips = {}
    /\ ips /\ act[a].pc \notin {"onIps", "unmarkIps"} => kips = Kinds
    /\ At(a, "reload") => act[a].local = ips

\* A read is pended on the one handle, so the requests that cancel reads find none;
\* and a worker runs while monitoring is on.
Served(a) ==
    /\ \A w \in Workers : rd[w] = "reading" => via[w] = dev
    /\ mon /\ ~At(a, "start") => ~exiting /\ ~stopEvent /\ \E w \in Workers : rd[w] # "off"

Regular(a) == Held(a) /\ Turned(a) /\ Flagged(a) /\ Served(a)

\* DriverInit did not get the device, and counts as done: its command is on the way
\* to a request that never returns.
Lost(a) ==
    /\ dev = None /\ ~mon /\ ~ips /\ act[a].cmd \in {"monOn", "ipsOn"}
    /\ act[a].pc \in {"initialised", "check", "test", "onMon", "onIps", "hung"}
    /\ act[a].pc \in {"check", "test"} => init

AloneInv(a) == Inv /\ (Regular(a) \/ Lost(a))

\* Where a command is after a step, and that it keeps its locals until it ends.
LEMMA GotoIs ==
    ASSUME TypeOK, NEW a \in Actors, NEW p \in Pcs, Goto(a, p)
    PROVE  /\ act'[a].pc = p
           /\ p # "idle" => /\ act'[a].cmd = act[a].cmd /\ act'[a].local = act[a].local
                            /\ act'[a].mine = act[a].mine
<1>1. act[a] \in ActorState
  BY DEF TypeOK
<1> QED BY <1>1 DEF Goto, TypeOK, ActorState, Rest

LEMMA InitAlone == ASSUME NEW a \in Actors, Init PROVE Regular(a)
<1>1. act[a].pc = "idle" /\ act[a].cmd = "none"
  BY DEF Init, Rest
<1>2. Held(a)
  BY <1>1 DEF Init, Held, Inside, At
<1>3. Turned(a)
  BY <1>1 DEF Init, Turned, At
<1>4. Flagged(a)
  BY <1>1 DEF Init, Flagged, At
<1>5. Served(a)
  BY <1>1 DEF Init, Served, At
<1> QED BY <1>2, <1>3, <1>4, <1>5 DEF Regular

\* The device of a command that is under way: it is open, and no read is out on it
\* when the command has the lock of the file.
LEMMA DeviceIs ==
    ASSUME NEW a \in Actors, Inv, Regular(a), act[a].pc \in Inside, ~At(a, "closing")
    PROVE  DevOpen /\ dev \in Handles /\ (LockFree(dev) => \A w \in Workers : rd[w] # "reading")
BY ControlAssumption DEF Regular, Inv, TypeOK, Held, Served, DevOpen, LockFree, At

\* A command begins, and DriverInit runs.
LEMMA InitialiseAlone ==
    ASSUME NEW a \in Actors, Inv, Regular(a), ControlAssumption, 
           \/ \E c \in Commands : Begin(a, c)
           \/ DriverInit(a) \/ OpenDevice(a) \/ ShareMem(a) \/ InitRules(a) \/ MarkInit(a) \/ CheckInit(a)
    PROVE  Regular(a)'
<1>0. TypeOK /\ Held(a) /\ Turned(a) /\ Flagged(a) /\ Served(a) /\ act[a] \in ActorState
      /\ act \in [Actors -> ActorState] /\ None \notin Handles \cup Workers
  BY DEF Regular, Inv, TypeOK, ControlAssumption
<1>1. ASSUME NEW c \in Commands, Begin(a, c)
      PROVE  Regular(a)'
  <2>1. UNCHANGED <<init, mon, ips, dev, opened, exiting, stopEvent, handle, kmon, kips, rd, via>>
    BY <1>1 DEF Begin, svcVars, libVars, drvVars, wrkVars
  <2>2. /\ act[a].pc = "idle" /\ act'[a].cmd = c /\ act'[a].local = FALSE
        /\ (c \in {"monOff", "ipsOff", "reload"} => init)
        /\ act'[a].pc = CASE c = "exit" -> "exitIps" [] c = "query" -> "query"
                          [] c \in {"monOn", "ipsOn"} /\ ~init -> "init" [] OTHER -> "test"
    BY <1>0, <1>1 DEF Begin, At, Rest
  <2>3. \/ act'[a].pc = "exitIps" /\ c = "exit"
        \/ act'[a].pc = "query"
        \/ act'[a].pc = "init" /\ ~init
        \/ act'[a].pc = "test" /\ init
    BY <1>0, <2>2, ControlAssumption DEF ControlAssumption, AllCommands
  <2>4. Held(a)'
    BY <1>0, <2>1, <2>2, <2>3 DEF Held, Inside, At
  <2>5. Turned(a)'
    BY <1>0, <2>1, <2>2, <2>3 DEF Turned, At
  <2>6. Flagged(a)'
    BY <1>0, <2>1, <2>2, <2>3 DEF Flagged, At
  <2>7. Served(a)'
    BY <1>0, <2>1, <2>2, <2>3 DEF Served, At
  <2> QED BY <2>4, <2>5, <2>6, <2>7 DEF Regular
<1>2. CASE DriverInit(a)
  <2>1. act[a].pc = "init" /\ UNCHANGED <<init, mon, ips, dev, handle, kmon, kips, rd, via, stopEvent>>
        /\ exiting' = FALSE
    BY <1>2 DEF DriverInit, At, svcVars, drvVars, wrkVars
  <2>2. act'[a].pc = "open" /\ act'[a].cmd = act[a].cmd /\ act'[a].local = act[a].local
        /\ act'[a].mine = act[a].mine
    BY <1>0, <1>2, GotoIs DEF DriverInit, Pcs
  <2>3. Held(a)'
    BY <1>0, <2>1, <2>2 DEF Held, Inside, At
  <2>4. Turned(a)'
    BY <1>0, <2>1, <2>2 DEF Turned, At
  <2>5. Flagged(a)'
    BY <1>0, <2>1, <2>2 DEF Flagged, At
  <2>6. Served(a)'
    BY <1>0, <2>1, <2>2 DEF Served, At
  <2> QED BY <2>3, <2>4, <2>5, <2>6 DEF Regular
<1>3. CASE OpenDevice(a)
  <2>1. act[a].pc = "open" /\ UNCHANGED <<init, mon, ips, dev, kmon, kips, rd, via, exiting, stopEvent>>
        /\ opened' \in Handles /\ handle' = [handle EXCEPT ![opened'] = "open"]
    BY <1>3 DEF OpenDevice, At, svcVars, wrkVars
  <2>2. act'[a].pc = "share" /\ act'[a].cmd = act[a].cmd /\ act'[a].local = act[a].local
        /\ act'[a].mine = act[a].mine
    BY <1>0, <1>3, GotoIs DEF OpenDevice, Pcs
  <2>3. Held(a)'
    BY <1>0, <2>1, <2>2 DEF Held, Inside, At, TypeOK
  <2>4. Turned(a)'
    BY <1>0, <2>1, <2>2 DEF Turned, At
  <2>5. Flagged(a)'
    BY <1>0, <2>1, <2>2 DEF Flagged, At
  <2>6. Served(a)'
    BY <1>0, <2>1, <2>2 DEF Served, At
  <2> QED BY <2>3, <2>4, <2>5, <2>6 DEF Regular
<1>4. CASE ShareMem(a)
  <2>1. act[a].pc = "share" /\ dev' = opened
        /\ UNCHANGED <<init, mon, ips, opened, handle, kmon, kips, rd, via, exiting, stopEvent>>
        /\ (Goto(a, "rules") \/ Goto(a, "close"))
    BY <1>0, <1>4 DEF ShareMem, At, svcVars, drvVars, wrkVars, Held
  <2>2. act'[a].pc \in {"rules", "close"} /\ act'[a].cmd = act[a].cmd /\ act'[a].local = act[a].local
        /\ act'[a].mine = act[a].mine
    BY <1>0, <2>1, GotoIs DEF Pcs
  <2>3. \A w \in Workers : rd[w] # "reading"
    BY <1>0, <2>1 DEF Held, Served, TypeOK
  <2>4. Held(a)'
    BY <1>0, <2>1, <2>2, <2>3 DEF Held, Inside, At
  <2>5. Turned(a)'
    BY <1>0, <2>1, <2>2, <2>3 DEF Turned, At, Held
  <2>6. Flagged(a)'
    BY <1>0, <2>1, <2>2, <2>3 DEF Flagged, At
  <2>7. Served(a)'
    BY <1>0, <2>1, <2>2, <2>3 DEF Served, At
  <2> QED BY <2>4, <2>5, <2>6, <2>7 DEF Regular
<1>5. CASE InitRules(a)
  <2>1. act[a].pc = "rules" /\ kips' \subseteq kips
        /\ UNCHANGED <<init, mon, ips, dev, opened, handle, kmon, rd, via, exiting, stopEvent>>
    BY <1>5 DEF InitRules, ClearKinds, At, svcVars, libVars, wrkVars
  <2>2. act'[a].pc = "initialised" /\ act'[a].cmd = act[a].cmd /\ act'[a].local = act[a].local
        /\ act'[a].mine = act[a].mine
    BY <1>0, <1>5, GotoIs DEF InitRules, Pcs
  <2>3. Held(a)'
    BY <1>0, <2>1, <2>2 DEF Held, Inside, At
  <2>4. Turned(a)'
    BY <1>0, <2>1, <2>2 DEF Turned, At
  <2>5. Flagged(a)'
    BY <1>0, <2>1, <2>2 DEF Flagged, At, Turned
  <2>6. Served(a)'
    BY <1>0, <2>1, <2>2 DEF Served, At
  <2> QED BY <2>3, <2>4, <2>5, <2>6 DEF Regular
<1>6. CASE MarkInit(a)
  <2>1. act[a].pc = "initialised" /\ init' = TRUE
        /\ UNCHANGED <<mon, ips, dev, opened, exiting, stopEvent, handle, kmon, kips, rd, via>>
    BY <1>6 DEF MarkInit, At, libVars, drvVars, wrkVars
  <2>2. act'[a].pc = "check" /\ act'[a].cmd = act[a].cmd /\ act'[a].local = act[a].local
        /\ act'[a].mine = act[a].mine
    BY <1>0, <1>6, GotoIs DEF MarkInit, Pcs
  <2>3. Held(a)'
    BY <1>0, <2>1, <2>2 DEF Held, Inside, At
  <2>4. Turned(a)'
    BY <1>0, <2>1, <2>2 DEF Turned, At
  <2>5. Flagged(a)'
    BY <1>0, <2>1, <2>2 DEF Flagged, At
  <2>6. Served(a)'
    BY <1>0, <2>1, <2>2 DEF Served, At
  <2> QED BY <2>3, <2>4, <2>5, <2>6 DEF Regular
<1>7. CASE CheckInit(a)
  <2>1. act[a].pc = "check"
        /\ UNCHANGED <<init, mon, ips, dev, opened, exiting, stopEvent, handle, kmon, kips, rd, via>> /\ init
    BY <1>0, <1>7 DEF CheckInit, At, Held, Inside, svcVars, libVars, drvVars, wrkVars
  <2>2. act'[a].pc = "test" /\ act'[a].cmd = act[a].cmd /\ act'[a].local = act[a].local
        /\ act'[a].mine = act[a].mine
    BY <1>0, <2>1, <1>7, GotoIs DEF CheckInit, Pcs
  <2>3. Held(a)'
    BY <1>0, <2>1, <2>2 DEF Held, Inside, At
  <2>4. Turned(a)'
    BY <1>0, <2>1, <2>2 DEF Turned, At
  <2>5. Flagged(a)'
    BY <1>0, <2>1, <2>2 DEF Flagged, At
  <2>6. Served(a)'
    BY <1>0, <2>1, <2>2 DEF Served, At
  <2> QED BY <2>3, <2>4, <2>5, <2>6 DEF Regular
<1> QED BY <1>1, <1>2, <1>3, <1>4, <1>5, <1>6, <1>7

\* A command tests the flags and asks the driver.
LEMMA RequestAlone ==
    ASSUME NEW a \in Actors, Inv, Regular(a), ControlAssumption, "query" \notin Failing,
           \/ TestStatus(a) \/ RequestHangs(a) \/ Query(a) \/ ReloadRules(a)
           \/ \E on \in BOOLEAN : SetMonitor(a, on) \/ SetIpsMonitor(a, on)
    PROVE  Regular(a)'
<1>0. TypeOK /\ Held(a) /\ Turned(a) /\ Flagged(a) /\ Served(a) /\ act[a] \in ActorState
      /\ act \in [Actors -> ActorState] /\ None \notin Handles \cup Workers
  BY DEF Regular, Inv, TypeOK, ControlAssumption
<1>1. CASE TestStatus(a)
  <2>1. act[a].pc = "test"
        /\ UNCHANGED <<init, mon, ips, dev, opened, exiting, stopEvent, handle, kmon, kips, rd, via>>
    BY <1>1 DEF TestStatus, At, svcVars, libVars, drvVars, wrkVars
  <2>2. \/ act'[a].pc = "idle"
        \/ /\ act'[a].cmd = act[a].cmd
           /\ \/ act'[a].pc \in {"onMon", "onIps"} /\ (act'[a].pc = "onIps" => ~ips)
              \/ act'[a].pc = "offMon" /\ act[a].cmd = "monOff"
              \/ act'[a].pc = "offIps" /\ act[a].cmd = "ipsOff"
              \/ act'[a].pc = "reload" /\ act'[a].local = ips
    <3>1. CASE act[a].cmd = "monOn"
      <4>1. Goto(a, "idle") \/ Goto(a, "onMon")
        BY <1>1, <3>1 DEF TestStatus
      <4> QED BY <1>0, <4>1, GotoIs DEF Pcs
    <3>2. CASE act[a].cmd = "monOff"
      <4>1. Goto(a, "idle") \/ Goto(a, "offMon")
        BY <1>1, <3>2 DEF TestStatus
      <4> QED BY <1>0, <3>2, <4>1, GotoIs DEF Pcs
    <3>3. CASE act[a].cmd = "ipsOn"
      <4>1. Goto(a, "idle") \/ (Goto(a, "onIps") /\ ~ips)
        BY <1>1, <3>3 DEF TestStatus
      <4> QED BY <1>0, <4>1, GotoIs DEF Pcs
    <3>4. CASE act[a].cmd = "ipsOff"
      <4>1. Goto(a, "idle") \/ Goto(a, "offIps")
        BY <1>1, <3>4 DEF TestStatus
      <4> QED BY <1>0, <3>4, <4>1, GotoIs DEF Pcs
    <3>5. CASE act[a].cmd \notin {"monOn", "monOff", "ipsOn", "ipsOff"}
      <4>1. act' = [act EXCEPT ![a] = [@ EXCEPT !.local = ips, !.pc = "reload"]]
        BY <1>1, <3>5 DEF TestStatus
      <4> QED BY <1>0, <4>1 DEF ActorState
    <3> QED BY <3>1, <3>2, <3>3, <3>4, <3>5
  <2>3. Held(a)'
    BY <1>0, <2>1, <2>2 DEF Held, Inside, At
  <2>4. Turned(a)'
    BY <1>0, <2>1, <2>2 DEF Turned, At
  <2>5. Flagged(a)'
    BY <1>0, <2>1, <2>2 DEF Flagged, At
  <2>6. Served(a)'
    BY <1>0, <2>1, <2>2 DEF Served, At
  <2> QED BY <2>3, <2>4, <2>5, <2>6 DEF Regular
<1>2. CASE RequestHangs(a)
  <2>1. act[a].pc = "query"
        /\ UNCHANGED <<init, mon, ips, dev, opened, exiting, stopEvent, handle, kmon, kips, rd, via>>
    BY <1>0, <1>2, DeviceIs DEF RequestHangs, At, Inside, svcVars, libVars, drvVars, wrkVars
  <2>2. act'[a].pc = "hung" /\ act'[a].cmd = act[a].cmd
    BY <1>0, <1>2, GotoIs DEF RequestHangs, Pcs
  <2>3. Held(a)'
    BY <1>0, <2>1, <2>2 DEF Held, Inside, At
  <2>4. Turned(a)'
    BY <1>0, <2>1, <2>2 DEF Turned, At
  <2>5. Flagged(a)'
    BY <1>0, <2>1, <2>2 DEF Flagged, At
  <2>6. Served(a)'
    BY <1>0, <2>1, <2>2 DEF Served, At
  <2> QED BY <2>3, <2>4, <2>5, <2>6 DEF Regular
<1>3. CASE Query(a)
  <2>1. act[a].pc = "query"
        /\ UNCHANGED <<init, mon, ips, dev, opened, exiting, stopEvent, handle, kmon, kips, rd, via>>
    BY <1>3 DEF Query, Reaches, At, svcVars, libVars, drvVars, wrkVars
  <2>2. act'[a].pc = "idle"
    BY <1>0, <1>3, GotoIs DEF Query, Pcs
  <2>3. Held(a)'
    BY <1>0, <2>1, <2>2 DEF Held, Inside, At
  <2>4. Turned(a)'
    BY <1>0, <2>1, <2>2 DEF Turned, At
  <2>5. Flagged(a)'
    BY <1>0, <2>1, <2>2 DEF Flagged, At
  <2>6. Served(a)'
    BY <1>0, <2>1, <2>2 DEF Served, At
  <2> QED BY <2>3, <2>4, <2>5, <2>6 DEF Regular
<1>4. CASE SetMonitor(a, TRUE)
  <2>1. act[a].pc = "onMon" /\ kmon' = TRUE /\ kips' = kips
        /\ UNCHANGED <<init, mon, ips, dev, opened, exiting, stopEvent, handle>>
    BY <1>4 DEF SetMonitor, Reaches, At, svcVars, libVars
  <2>2. act'[a].pc = "markMon" /\ act'[a].cmd = act[a].cmd /\ act'[a].local = act[a].local
        /\ act'[a].mine = act[a].mine
    BY <1>0, <1>4, GotoIs DEF SetMonitor, Pcs
  <2>3. LockFree(dev) /\ rd' = [w \in Workers |-> IF rd[w] = "reading" THEN "off" ELSE rd[w]]
    BY <1>4 DEF SetMonitor, Reaches, CancelReads
  <2>4. \A w \in Workers : rd'[w] = rd[w] /\ rd[w] # "reading"
    BY <1>0, <2>1, <2>3, DeviceIs DEF Inside, At
  <2>5. Held(a)'
    BY <1>0, <2>1, <2>2, <2>3, <2>4 DEF Held, Inside, At
  <2>6. Turned(a)'
    BY <1>0, <2>1, <2>2, <2>3, <2>4 DEF Turned, At
  <2>7. Flagged(a)'
    BY <1>0, <2>1, <2>2, <2>3, <2>4 DEF Flagged, At
  <2>8. Served(a)'
    BY <1>0, <2>1, <2>2, <2>3, <2>4 DEF Served, At
  <2> QED BY <2>5, <2>6, <2>7, <2>8 DEF Regular
<1>5. CASE SetMonitor(a, FALSE)
  <2>1. act[a].pc = "offMon" /\ kmon' = FALSE /\ kips' = kips
        /\ UNCHANGED <<init, mon, ips, dev, opened, exiting, stopEvent, handle>>
    BY <1>5 DEF SetMonitor, Reaches, At, svcVars, libVars
  <2>2. act'[a].pc = "unmarkMon" /\ act'[a].cmd = act[a].cmd /\ act'[a].local = act[a].local
        /\ act'[a].mine = act[a].mine
    BY <1>0, <1>5, GotoIs DEF SetMonitor, Pcs
  <2>3. LockFree(dev) /\ rd' = [w \in Workers |-> IF rd[w] = "reading" THEN "off" ELSE rd[w]]
    BY <1>5 DEF SetMonitor, Reaches, CancelReads
  <2>4. \A w \in Workers : rd'[w] = rd[w] /\ rd[w] # "reading"
    BY <1>0, <2>1, <2>3, DeviceIs DEF Inside, At
  <2>5. Held(a)'
    BY <1>0, <2>1, <2>2, <2>3, <2>4 DEF Held, Inside, At
  <2>6. Turned(a)'
    BY <1>0, <2>1, <2>2, <2>3, <2>4 DEF Turned, At
  <2>7. Flagged(a)'
    BY <1>0, <2>1, <2>2, <2>3, <2>4 DEF Flagged, At
  <2>8. Served(a)'
    BY <1>0, <2>1, <2>2, <2>3, <2>4 DEF Served, At
  <2> QED BY <2>5, <2>6, <2>7, <2>8 DEF Regular
<1>6. CASE SetIpsMonitor(a, TRUE)
  <2>1. act[a].pc = "onIps" /\ kips' = Kinds /\ kmon' = kmon
        /\ UNCHANGED <<init, mon, ips, dev, opened, exiting, stopEvent, handle>>
    BY <1>6 DEF SetIpsMonitor, Reaches, At, svcVars, libVars
  <2>2. act'[a].pc = "markIps" /\ act'[a].cmd = act[a].cmd /\ act'[a].local = act[a].local
        /\ act'[a].mine = act[a].mine
    BY <1>0, <1>6, GotoIs DEF SetIpsMonitor, Pcs
  <2>3. LockFree(dev) /\ rd' = [w \in Workers |-> IF rd[w] = "reading" THEN "off" ELSE rd[w]]
    BY <1>6 DEF SetIpsMonitor, Reaches, CancelReads
  <2>4. \A w \in Workers : rd'[w] = rd[w] /\ rd[w] # "reading"
    BY <1>0, <2>1, <2>3, DeviceIs DEF Inside, At
  <2>5. Held(a)'
    BY <1>0, <2>1, <2>2, <2>3, <2>4 DEF Held, Inside, At
  <2>6. Turned(a)'
    BY <1>0, <2>1, <2>2, <2>3, <2>4 DEF Turned, At
  <2>7. Flagged(a)'
    BY <1>0, <2>1, <2>2, <2>3, <2>4 DEF Flagged, At
  <2>8. Served(a)'
    BY <1>0, <2>1, <2>2, <2>3, <2>4 DEF Served, At
  <2> QED BY <2>5, <2>6, <2>7, <2>8 DEF Regular
<1>7. CASE SetIpsMonitor(a, FALSE)
  <2>1. act[a].pc = "offIps" /\ kips' = {} /\ kmon' = kmon
        /\ UNCHANGED <<init, mon, ips, dev, opened, exiting, stopEvent, handle>>
    BY <1>7 DEF SetIpsMonitor, Reaches, At, svcVars, libVars
  <2>2. act'[a].pc = "unmarkIps" /\ act'[a].cmd = act[a].cmd /\ act'[a].local = act[a].local
        /\ act'[a].mine = act[a].mine
    BY <1>0, <1>7, GotoIs DEF SetIpsMonitor, Pcs
  <2>3. LockFree(dev) /\ rd' = [w \in Workers |-> IF rd[w] = "reading" THEN "off" ELSE rd[w]]
    BY <1>7 DEF SetIpsMonitor, Reaches, CancelReads
  <2>4. \A w \in Workers : rd'[w] = rd[w] /\ rd[w] # "reading"
    BY <1>0, <2>1, <2>3, DeviceIs DEF Inside, At
  <2>5. Held(a)'
    BY <1>0, <2>1, <2>2, <2>3, <2>4 DEF Held, Inside, At
  <2>6. Turned(a)'
    BY <1>0, <2>1, <2>2, <2>3, <2>4 DEF Turned, At
  <2>7. Flagged(a)'
    BY <1>0, <2>1, <2>2, <2>3, <2>4 DEF Flagged, At
  <2>8. Served(a)'
    BY <1>0, <2>1, <2>2, <2>3, <2>4 DEF Served, At
  <2> QED BY <2>5, <2>6, <2>7, <2>8 DEF Regular
<1>8. CASE ReloadRules(a)
  <2>1. act[a].pc = "reload" /\ kips' \subseteq kips
        /\ UNCHANGED <<init, mon, ips, dev, opened, exiting, stopEvent, handle, kmon, rd, via>>
    BY <1>8 DEF ReloadRules, ClearKinds, At, svcVars, libVars, wrkVars
  <2>2. \/ act'[a].pc = "onIps" /\ act'[a].cmd = act[a].cmd /\ ips
        \/ act'[a].pc = "idle" /\ ~ips
    BY <1>0, <2>1, <1>8 DEF ReloadRules, Goto, Rest, ActorState, Flagged, At
  <2>3. Held(a)'
    BY <1>0, <2>1, <2>2 DEF Held, Inside, At
  <2>4. Turned(a)'
    BY <1>0, <2>1, <2>2 DEF Turned, At
  <2>5. Flagged(a)'
    BY <1>0, <2>1, <2>2 DEF Flagged, At
  <2>6. Served(a)'
    BY <1>0, <2>1, <2>2 DEF Served, At
  <2> QED BY <2>3, <2>4, <2>5, <2>6 DEF Regular
<1> QED BY <1>1, <1>2, <1>3, <1>4, <1>5, <1>6, <1>7, <1>8

\* A command marks what it has done; turning off and the exit go on.
LEMMA MarkAlone ==
    ASSUME NEW a \in Actors, Inv, Regular(a), ControlAssumption, 
           \/ AfterOff(a) \/ ExitStep(a)
           \/ \E on \in BOOLEAN : MarkMonitor(a, on) \/ MarkIps(a, on)
    PROVE  Regular(a)'
<1>0. TypeOK /\ Held(a) /\ Turned(a) /\ Flagged(a) /\ Served(a) /\ act[a] \in ActorState
      /\ act \in [Actors -> ActorState] /\ None \notin Handles \cup Workers
  BY DEF Regular, Inv, TypeOK, ControlAssumption
<1>1. CASE MarkMonitor(a, TRUE)
  <2>1. act[a].pc = "markMon" /\ mon' = TRUE
        /\ UNCHANGED <<init, ips, dev, opened, exiting, stopEvent, handle, kmon, kips, rd, via>>
    BY <1>1 DEF MarkMonitor, At, libVars, drvVars, wrkVars
  <2>2. Goto(a, "start")
    BY <1>1 DEF MarkMonitor
  <2>3. act'[a].pc = "start" /\ act'[a].cmd = act[a].cmd /\ act'[a].local = act[a].local
        /\ act'[a].mine = act[a].mine
    BY <1>0, <2>2, GotoIs DEF Pcs
  <2>4. Held(a)'
    BY <1>0, <2>1, <2>2, <2>3 DEF Held, Inside, At
  <2>5. Turned(a)'
    BY <1>0, <2>1, <2>2, <2>3 DEF Turned, At, Held, Inside
  <2>6. Flagged(a)'
    BY <1>0, <2>1, <2>2, <2>3 DEF Flagged, At
  <2>7. Served(a)'
    BY <1>0, <2>1, <2>2, <2>3 DEF Served, At
  <2> QED BY <2>4, <2>5, <2>6, <2>7 DEF Regular
<1>2. CASE MarkMonitor(a, FALSE)
  <2>1. act[a].pc = "unmarkMon" /\ mon' = FALSE
        /\ UNCHANGED <<init, ips, dev, opened, exiting, stopEvent, handle, kmon, kips, rd, via>>
    BY <1>2 DEF MarkMonitor, At, libVars, drvVars, wrkVars
  <2>2. act'[a].pc = (IF act[a].cmd = "exit" THEN "exitInit" ELSE "afterOff") /\ act'[a].cmd = act[a].cmd
    BY <1>0, <1>2 DEF MarkMonitor, Goto, ActorState
  <2>3. Held(a)'
    BY <1>0, <2>1, <2>2 DEF Held, Inside, At, Turned
  <2>4. Turned(a)'
    BY <1>0, <2>1, <2>2 DEF Turned, At
  <2>5. Flagged(a)'
    BY <1>0, <2>1, <2>2 DEF Flagged, At
  <2>6. Served(a)'
    BY <1>0, <2>1, <2>2 DEF Served, At
  <2> QED BY <2>3, <2>4, <2>5, <2>6 DEF Regular
<1>3. CASE MarkIps(a, TRUE)
  <2>1. act[a].pc = "markIps" /\ ips' = TRUE
        /\ UNCHANGED <<init, mon, dev, opened, exiting, stopEvent, handle, kmon, kips, rd, via>>
    BY <1>3 DEF MarkIps, At, libVars, drvVars, wrkVars
  <2>2. Goto(a, "idle")
    BY <1>3 DEF MarkIps
  <2>3. act'[a].pc = "idle"
    BY <1>0, <2>2, GotoIs DEF Pcs
  <2>4. Held(a)'
    BY <1>0, <2>1, <2>2, <2>3 DEF Held, Inside, At
  <2>5. Turned(a)'
    BY <1>0, <2>1, <2>2, <2>3 DEF Turned, At, Held, Inside
  <2>6. Flagged(a)'
    BY <1>0, <2>1, <2>2, <2>3 DEF Flagged, At
  <2>7. Served(a)'
    BY <1>0, <2>1, <2>2, <2>3 DEF Served, At
  <2> QED BY <2>4, <2>5, <2>6, <2>7 DEF Regular
<1>4. CASE MarkIps(a, FALSE)
  <2>1. act[a].pc = "unmarkIps" /\ ips' = FALSE
        /\ UNCHANGED <<init, mon, dev, opened, exiting, stopEvent, handle, kmon, kips, rd, via>>
    BY <1>4 DEF MarkIps, At, libVars, drvVars, wrkVars
  <2>2. act'[a].pc = (IF act[a].cmd = "exit" THEN "exitMon" ELSE "afterOff") /\ act'[a].cmd = act[a].cmd
    BY <1>0, <1>4 DEF MarkIps, Goto, ActorState
  <2>3. Held(a)'
    BY <1>0, <2>1, <2>2 DEF Held, Inside, At
  <2>4. Turned(a)'
    BY <1>0, <2>1, <2>2 DEF Turned, At
  <2>5. Flagged(a)'
    BY <1>0, <2>1, <2>2 DEF Flagged, At
  <2>6. Served(a)'
    BY <1>0, <2>1, <2>2 DEF Served, At
  <2> QED BY <2>3, <2>4, <2>5, <2>6 DEF Regular
<1>5. CASE AfterOff(a)
  <2>1. act[a].pc = "afterOff" /\ init
        /\ UNCHANGED <<init, mon, ips, dev, opened, exiting, stopEvent, handle, kmon, kips, rd, via>>
    BY <1>0, <1>5 DEF AfterOff, At, Held, Inside, svcVars, libVars, drvVars, wrkVars
  <2>2. \/ act'[a].pc = "idle"
        \/ /\ act'[a].pc = "stop" /\ act'[a].cmd = act[a].cmd /\ act'[a].local \in BOOLEAN
           /\ act[a].cmd = "monOff" => (act'[a].local <=> ~ips)
           /\ act[a].cmd # "monOff" => ~mon
    <3>1. CASE Goto(a, "idle")
      BY <1>0, <3>1, GotoIs DEF Pcs
    <3>2. CASE ~Goto(a, "idle")
      <4>1. PICK free \in BOOLEAN :
              /\ act' = [act EXCEPT ![a] = [@ EXCEPT !.local = free, !.pc = "stop"]]
              /\ act[a].cmd = "monOff" => (free <=> ~ips)
              /\ act[a].cmd # "monOff" => ~mon
        <5>1. CASE act[a].cmd = "monOff"
          BY <2>1, <1>5, <5>1 DEF AfterOff
        <5>2. CASE act[a].cmd # "monOff"
          BY <2>1, <1>5, <3>2, <5>2 DEF AfterOff
        <5> QED BY <5>1, <5>2
      <4> QED BY <1>0, <4>1 DEF ActorState
    <3> QED BY <3>1, <3>2
  <2>3. Held(a)'
    BY <1>0, <2>1, <2>2 DEF Held, Inside, At
  <2>4. Turned(a)'
    BY <1>0, <2>1, <2>2 DEF Turned, At
  <2>5. Flagged(a)'
    BY <1>0, <2>1, <2>2 DEF Flagged, At
  <2>6. Served(a)'
    BY <1>0, <2>1, <2>2 DEF Served, At
  <2> QED BY <2>3, <2>4, <2>5, <2>6 DEF Regular
<1>6. CASE ExitStep(a)
  <2>1. UNCHANGED <<init, mon, ips, dev, opened, exiting, stopEvent, handle, kmon, kips, rd, via>>
    BY <1>6 DEF ExitStep, svcVars, libVars, drvVars, wrkVars
  <2>2. act'[a].cmd = act[a].cmd
        /\ \/ act[a].pc = "exitIps" /\ ((act'[a].pc = "offIps" /\ ips) \/ (act'[a].pc = "exitMon" /\ ~ips))
           \/ act[a].pc = "exitMon" /\ ((act'[a].pc = "offMon" /\ mon) \/ (act'[a].pc = "exitInit" /\ ~mon))
           \/ act[a].pc = "exitInit" /\ ((act'[a].pc = "stop" /\ init) \/ act'[a].pc = "exited")
    <3>1. CASE At(a, "exitIps") /\ Goto(a, IF ips THEN "offIps" ELSE "exitMon")
      BY <1>0, <3>1 DEF Goto, ActorState, At
    <3>2. CASE At(a, "exitMon") /\ Goto(a, IF mon THEN "offMon" ELSE "exitInit")
      BY <1>0, <3>2 DEF Goto, ActorState, At
    <3>3. CASE At(a, "exitInit") /\ act' = [act EXCEPT ![a] =
                 [@ EXCEPT !.local = TRUE, !.pc = IF init THEN "stop" ELSE "exited"]]
      BY <1>0, <3>3 DEF ActorState, At
    <3> QED BY <1>6, <3>1, <3>2, <3>3 DEF ExitStep
  <2>3. Held(a)'
    BY <1>0, <2>1, <2>2 DEF Held, Inside, At, Turned
  <2>4. Turned(a)'
    BY <1>0, <2>1, <2>2 DEF Turned, At
  <2>5. Flagged(a)'
    BY <1>0, <2>1, <2>2 DEF Flagged, At
  <2>6. Served(a)'
    BY <1>0, <2>1, <2>2 DEF Served, At
  <2> QED BY <2>3, <2>4, <2>5, <2>6 DEF Regular
<1> QED BY <1>1, <1>2, <1>3, <1>4, <1>5, <1>6

\* The worker is started and stopped, and the device is closed.
LEMMA CloseAlone ==
    ASSUME NEW a \in Actors, Inv, Regular(a), ControlAssumption, 
           \/ StartThread(a) \/ StopThread(a) \/ JoinThread(a)
           \/ CloseHandle(a) \/ DriverClose(a) \/ ForgetInit(a)
    PROVE  Regular(a)' \/ Lost(a)'
<1>0. TypeOK /\ Held(a) /\ Turned(a) /\ Flagged(a) /\ Served(a) /\ act[a] \in ActorState
      /\ act \in [Actors -> ActorState] /\ None \notin Handles \cup Workers
  BY DEF Regular, Inv, TypeOK, ControlAssumption
<1>1. CASE StartThread(a)
  <2>1. act[a].pc = "start" /\ exiting' = FALSE /\ stopEvent' = FALSE
        /\ UNCHANGED <<init, mon, ips, dev, opened, handle, kmon, kips, via>>
    BY <1>1 DEF StartThread, At, svcVars, drvVars
  <2>2. act'[a].pc = "idle"
    BY <1>0, <1>1, GotoIs DEF StartThread, Pcs
  <2>3. \E w \in Workers : rd'[w] = "ready" /\ \A v \in Workers : v # w => rd'[v] = rd[v]
    BY <1>0, <1>1 DEF StartThread, TypeOK
  <2>4. Held(a)'
    BY <1>0, <2>1, <2>2, <2>3 DEF Held, Inside, At
  <2>5. Turned(a)'
    BY <1>0, <2>1, <2>2, <2>3 DEF Turned, At
  <2>6. Flagged(a)'
    BY <1>0, <2>1, <2>2, <2>3 DEF Flagged, At
  <2>7. Served(a)'
    BY <1>0, <2>1, <2>2, <2>3 DEF Served, At
  <2> QED BY <2>4, <2>5, <2>6, <2>7 DEF Regular
<1>2. CASE StopThread(a)
  <2>1. act[a].pc = "stop" /\ UNCHANGED <<init, mon, ips, dev, opened, handle, kmon, kips, rd, via>>
    BY <1>2 DEF StopThread, At, svcVars, drvVars, wrkVars
  <2>2. act'[a].pc = "join" /\ act'[a].cmd = act[a].cmd /\ act'[a].local = act[a].local
    BY <1>0, <1>2 DEF StopThread, ActorState
  <2>3. Held(a)'
    BY <1>0, <2>1, <2>2 DEF Held, Inside, At
  <2>4. Turned(a)'
    BY <1>0, <2>1, <2>2 DEF Turned, At
  <2>5. Flagged(a)'
    BY <1>0, <2>1, <2>2 DEF Flagged, At
  <2>6. Served(a)'
    BY <1>0, <2>1, <2>2 DEF Served, At, Turned
  <2> QED BY <2>3, <2>4, <2>5, <2>6 DEF Regular
<1>3. CASE JoinThread(a)
  <2>1. act[a].pc = "join"
        /\ UNCHANGED <<init, mon, ips, dev, opened, stopEvent, handle, kmon, kips, rd, via>>
    BY <1>3 DEF JoinThread, At, svcVars, drvVars, wrkVars
  <2>2. \/ act'[a].pc = "close" /\ act'[a].cmd = act[a].cmd /\ act[a].local
        \/ act'[a].pc = "idle"
    BY <1>0, <1>3 DEF JoinThread, Goto, Rest, ActorState
  <2>3. Held(a)'
    BY <1>0, <2>1, <2>2 DEF Held, Inside, At
  <2>4. Turned(a)'
    BY <1>0, <2>1, <2>2 DEF Turned, At
  <2>5. Flagged(a)'
    BY <1>0, <2>1, <2>2 DEF Flagged, At
  <2>6. Served(a)'
    BY <1>0, <2>1, <2>2 DEF Served, At, Turned
  <2> QED BY <2>3, <2>4, <2>5, <2>6 DEF Regular
<1>4. CASE CloseHandle(a)
  <2>1. act[a].pc = "close" /\ DevOpen /\ dev \in Handles
    BY <1>4, DeviceIs DEF CloseHandle, At, Inside
  <2>2. dev' = dev /\ handle' = [handle EXCEPT ![dev] = "closing"]
        /\ UNCHANGED <<init, mon, ips, opened, exiting, stopEvent, kmon, kips, rd, via>>
    BY <1>4, <2>1 DEF CloseHandle, svcVars, wrkVars
  <2>3. act'[a].pc = "closing" /\ act'[a].cmd = act[a].cmd /\ act'[a].mine = dev
    <3>1. act' = [act EXCEPT ![a] = [@ EXCEPT !.mine = dev, !.pc = "closing"]]
      BY <2>1, <1>4 DEF CloseHandle
    <3> QED BY <1>0, <3>1 DEF ActorState
  <2>4. Held(a)'
    BY <1>0, <2>1, <2>2, <2>3 DEF Held, Inside, At, TypeOK
  <2>5. Turned(a)'
    BY <1>0, <2>1, <2>2, <2>3 DEF Turned, At
  <2>6. Flagged(a)'
    BY <1>0, <2>1, <2>2, <2>3 DEF Flagged, At
  <2>7. Served(a)'
    BY <1>0, <2>1, <2>2, <2>3 DEF Served, At
  <2> QED BY <2>4, <2>5, <2>6, <2>7 DEF Regular
<1>5. CASE DriverClose(a) /\ act[a].cmd \notin {"monOn", "ipsOn"}
  <2>1. act[a].pc = "closing" /\ dev' = None /\ handle' = [handle EXCEPT ![act[a].mine] = "unused"]
        /\ kmon' = FALSE /\ kips' = {} /\ UNCHANGED <<init, mon, ips, opened, exiting, stopEvent>>
    BY <1>5 DEF DriverClose, At, svcVars
  <2>2. \A w \in Workers : rd'[w] # "reading"
    BY <1>5 DEF DriverClose, CancelReads
  <2>3. AfterClose(a) = "forget" /\ Goto(a, AfterClose(a))
        /\ act[a].cmd \in {"monOff", "ipsOff", "exit"}
    BY <1>0, <2>1, <1>5 DEF DriverClose, AfterClose, Turned
  <2>4. act'[a].pc = "forget" /\ act'[a].cmd = act[a].cmd
    BY <1>0, <2>3, GotoIs DEF Pcs
  <2>5. mon = FALSE /\ ips = FALSE
    BY <1>0, <2>1 DEF Turned, TypeOK
  <2>6. Held(a)'
    BY <1>0, <2>1, <2>2, <2>3, <2>4, <2>5 DEF Held, Inside, At, TypeOK
  <2>7. Turned(a)'
    BY <1>0, <2>1, <2>2, <2>3, <2>4, <2>5 DEF Turned, At
  <2>8. Flagged(a)'
    BY <1>0, <2>1, <2>2, <2>3, <2>4, <2>5 DEF Flagged, At, Turned
  <2>9. Served(a)'
    BY <1>0, <2>1, <2>2, <2>3, <2>4, <2>5 DEF Served, At, Turned
  <2> QED BY <2>6, <2>7, <2>8, <2>9 DEF Regular
<1>6. CASE ForgetInit(a)
  <2>1. act[a].pc = "forget" /\ init' = FALSE
        /\ UNCHANGED <<mon, ips, dev, opened, exiting, stopEvent, handle, kmon, kips, rd, via>>
    BY <1>6 DEF ForgetInit, At, libVars, drvVars, wrkVars
  <2>2. act'[a].pc \in {"idle", "exited"}
    BY <1>0, <1>6 DEF ForgetInit, Goto, Rest, ActorState
  <2>3. Held(a)'
    BY <1>0, <2>1, <2>2 DEF Held, Inside, At
  <2>4. Turned(a)'
    BY <1>0, <2>1, <2>2 DEF Turned, At
  <2>5. Flagged(a)'
    BY <1>0, <2>1, <2>2 DEF Flagged, At
  <2>6. Served(a)'
    BY <1>0, <2>1, <2>2 DEF Served, At
  <2> QED BY <2>3, <2>4, <2>5, <2>6 DEF Regular
<1>7. CASE DriverClose(a) /\ act[a].cmd \in {"monOn", "ipsOn"}
  <2>1. act[a].pc = "closing" /\ dev' = None /\ UNCHANGED <<mon, ips>>
    BY <1>7 DEF DriverClose, At, svcVars
  <2>2. Goto(a, "initialised")
    BY <1>7 DEF DriverClose, AfterClose
  <2>3. act'[a].pc = "initialised" /\ act'[a].cmd = act[a].cmd
    BY <1>0, <2>2, GotoIs DEF Pcs
  <2> QED BY <1>0, <1>7, <2>1, <2>3 DEF Turned, Lost
<1> QED BY <1>1, <1>2, <1>3, <1>4, <1>5, <1>6, <1>7

\* A worker ends only when it is told to or finds no device.
LEMMA WorkerAlone ==
    ASSUME NEW a \in Actors, Inv, Regular(a), Event \/ \E w \in Workers : Worker(w)
    PROVE  Regular(a)'
<1>0. /\ TypeOK /\ Held(a) /\ Turned(a) /\ Flagged(a) /\ Served(a)
      /\ rd \in [Workers -> {"off", "ready", "calling", "reading", "parsing"}]
      /\ via \in [Workers -> Handles \cup {None}]
  BY DEF Regular, Inv, TypeOK
<1>1. UNCHANGED <<init, mon, ips, dev, opened, exiting, handle, kmon, kips, act>>
  BY DEF Event, Worker, WorkerTest, WorkerRead, ReadDone, WorkerParse, svcVars, libVars, drvVars
<1>2. Held(a)'
  BY <1>0, <1>1 DEF Held, At
<1>3. Turned(a)'
  BY <1>0, <1>1 DEF Turned, At
<1>4. Flagged(a)'
  BY <1>0, <1>1 DEF Flagged, At
<1>5. Served(a)'
  <2>1. CASE Event
    BY <1>0, <1>1, <2>1 DEF Event, Served, At, libVars, wrkVars
  <2>2. ASSUME NEW w \in Workers, Worker(w) PROVE Served(a)'
    <3>1. \A v \in Workers : v # w => rd'[v] = rd[v] /\ via'[v] = via[v]
      BY <1>0, <2>2 DEF Worker, WorkerTest, WorkerRead, ReadDone, WorkerParse
    <3>2. rd[w] # "off" /\ (rd'[w] = "reading" => via'[w] = dev)
      BY <1>0, <2>2 DEF Worker, WorkerTest, WorkerRead, ReadDone, WorkerParse
    <3>3. ASSUME mon, ~At(a, "start") PROVE ~stopEvent' /\ rd'[w] # "off"
      <4>1. DevOpen /\ ~exiting /\ ~stopEvent
        BY <1>0, <3>3 DEF Held, Turned, Served, DevOpen, At
      <4>2. CASE WorkerTest(w)
        BY <1>0, <4>1, <4>2 DEF WorkerTest, libVars
      <4>3. CASE WorkerRead(w)
        BY <1>0, <4>1, <4>3 DEF WorkerRead, libVars
      <4>4. CASE ReadDone(w)
        BY <1>0, <4>1, <4>4 DEF ReadDone, libVars
      <4>5. CASE WorkerParse(w)
        BY <1>0, <4>1, <4>5 DEF WorkerParse
      <4> QED BY <2>2, <4>2, <4>3, <4>4, <4>5 DEF Worker
    <3> QED BY <1>0, <1>1, <3>1, <3>2, <3>3 DEF Served, At
  <2> QED BY <2>1, <2>2
<1> QED BY <1>2, <1>3, <1>4, <1>5 DEF Regular

\* A command that did not get the device ends in a request that never returns.
LEMMA LostStays ==
    ASSUME NEW a \in Actors, Inv, Lost(a),
           Step(a) \/ (\E c \in Commands : Begin(a, c)) \/ (\E w \in Workers : Worker(w)) \/ Event
    PROVE  Lost(a)'
<1>0. /\ TypeOK /\ ~DevOpen /\ act[a].pc \in {"initialised", "check", "test", "onMon", "onIps", "hung"}
      /\ act[a] \in ActorState
  BY DEF Inv, TypeOK, Lost, DevOpen
<1>1. CASE (\E w \in Workers : Worker(w)) \/ Event
  <2>1. UNCHANGED <<init, mon, ips, dev, act>>
    BY <1>1 DEF Event, Worker, WorkerTest, WorkerRead, ReadDone, WorkerParse, svcVars, libVars
  <2> QED BY <2>1 DEF Lost
<1>2. CASE MarkInit(a)
  <2>1. act'[a].pc = "check" /\ act'[a].cmd = act[a].cmd
    BY <1>0, <1>2, GotoIs DEF MarkInit, Pcs
  <2> QED BY <1>2, <2>1 DEF MarkInit, Lost, libVars
<1>3. CASE CheckInit(a)
  <2>1. At(a, "check") /\ Goto(a, "test") /\ UNCHANGED <<init, mon, ips, dev>>
    BY <1>3 DEF CheckInit, Lost, At, svcVars, libVars
  <2>2. act'[a].pc = "test" /\ act'[a].cmd = act[a].cmd
    BY <1>0, <2>1, GotoIs DEF Pcs
  <2> QED BY <2>1, <2>2 DEF Lost, At
<1>4. CASE TestStatus(a)
  <2>1. UNCHANGED <<init, mon, ips, dev>>
    BY <1>4 DEF TestStatus, svcVars, libVars
  <2>2. Goto(a, "onMon") \/ Goto(a, "onIps")
    <3>1. CASE act[a].cmd = "monOn"
      BY <1>4, <3>1 DEF TestStatus, Lost
    <3>2. CASE act[a].cmd = "ipsOn"
      BY <1>4, <3>2 DEF TestStatus, Lost
    <3> QED BY <3>1, <3>2 DEF Lost
  <2>3. act'[a].pc \in {"onMon", "onIps"} /\ act'[a].cmd = act[a].cmd
    BY <1>0, <2>2, GotoIs DEF Pcs
  <2> QED BY <2>1, <2>3 DEF Lost
<1>5. CASE RequestHangs(a)
  <2>1. act'[a].pc = "hung" /\ act'[a].cmd = act[a].cmd
    BY <1>0, <1>5, GotoIs DEF RequestHangs, Pcs
  <2> QED BY <1>5, <2>1 DEF RequestHangs, Lost, svcVars, libVars
<1>6. /\ ~DriverInit(a) /\ ~OpenDevice(a) /\ ~OpenFails(a) /\ ~ShareMem(a) /\ ~InitRules(a) /\ ~Query(a)
      /\ ~ReloadRules(a) /\ ~AfterOff(a) /\ ~ExitStep(a) /\ ~StartThread(a) /\ ~StopThread(a)
      /\ ~JoinThread(a) /\ ~CloseHandle(a) /\ ~DriverClose(a) /\ ~ForgetInit(a)
      /\ \A c \in Commands : ~Begin(a, c)
  BY <1>0 DEF DriverInit, OpenDevice, OpenFails, ShareMem, InitRules, Query, ReloadRules, AfterOff, ExitStep,
     StartThread, StopThread, JoinThread, CloseHandle, DriverClose, ForgetInit, Begin, At, Reaches
<1>7. ASSUME NEW on \in BOOLEAN
      PROVE  ~SetMonitor(a, on) /\ ~SetIpsMonitor(a, on) /\ ~MarkMonitor(a, on) /\ ~MarkIps(a, on)
  BY <1>0 DEF SetMonitor, SetIpsMonitor, MarkMonitor, MarkIps, At, Reaches
<1> QED BY <1>1, <1>2, <1>3, <1>4, <1>5, <1>6, <1>7 DEF Step

LEMMA StepAlone ==
    ASSUME NEW a, Actors = {a}, "query" \notin Failing, AloneInv(a), [Next]_vars
    PROVE  AloneInv(a)'
<1>0. a \in Actors /\ Inv /\ (Regular(a) \/ Lost(a))
  BY DEF AloneInv
<1>1. Inv'
  BY <1>0, StepInv
<1>2. Regular(a)' \/ Lost(a)'
  <2>1. CASE UNCHANGED vars
    BY <1>0, <2>1 DEF Regular, Lost, Held, Turned, Flagged, Served, At, vars, svcVars, libVars, drvVars, wrkVars
  <2>2. CASE Lost(a) /\ Next
    BY <1>0, <2>2, LostStays DEF Next
  <2>3. CASE Regular(a) /\ (Event \/ \E w \in Workers : Worker(w))
    BY <1>0, <2>3, WorkerAlone
  <2>4. CASE Regular(a) /\ \E c \in Commands : Begin(a, c)
    BY <1>0, <2>4, ControlAssumption, InitialiseAlone
  <2>5. CASE Regular(a) /\ OpenFails(a)
    <3>1. act[a].pc = "open" /\ Goto(a, "initialised") /\ UNCHANGED <<init, mon, ips, dev>>
      BY <2>5 DEF OpenFails, At, svcVars, libVars
    <3>2. act'[a].pc = "initialised" /\ act'[a].cmd = act[a].cmd
      BY <1>0, <3>1, GotoIs DEF Inv, Pcs
    <3> QED BY <2>5, <3>1, <3>2 DEF Regular, Held, Turned, Lost
  <2>6. CASE Regular(a) /\ Step(a) /\ ~OpenFails(a)
    BY <1>0, <2>6, ControlAssumption, InitialiseAlone, RequestAlone, MarkAlone, CloseAlone DEF Step
  <2> QED BY <1>0, <2>1, <2>2, <2>3, <2>4, <2>5, <2>6 DEF Next
<1> QED BY <1>1, <1>2 DEF AloneInv

LEMMA AloneInvariance == ASSUME NEW a, Actors = {a}, "query" \notin Failing PROVE Spec => []AloneInv(a)
<1>1. Init => AloneInv(a)
  BY InitInv, InitAlone DEF AloneInv
<1>2. AloneInv(a) /\ [Next]_vars => AloneInv(a)'
  BY StepAlone
<1> QED BY <1>1, <1>2, PTL DEF Spec

\* Between commands that are given one at a time, the flags of the driver are what
\* the service believes: rule reloads and closes put back or take along what they
\* clear.  A failed open or share does not break this, because the command that met
\* it never returns; a query that fails does, for it closes the device.
THEOREM FlagsAgreeAlone ==
    ASSUME NEW a, Actors = {a}, "query" \notin Failing PROVE Spec => []FlagsAgree
<1>1. AloneInv(a) => FlagsAgree
  BY DEF AloneInv, Regular, Lost, Flagged, FlagsAgree, AtRest, At
<1> QED BY <1>1, AloneInvariance, PTL

\* Between such commands the service counts as initialised exactly while the device
\* is open, and no other handle is left.
THEOREM SessionAgreesAlone ==
    ASSUME NEW a, Actors = {a}, "query" \notin Failing PROVE Spec => []SessionAgrees
<1>1. AloneInv(a) => SessionAgrees
  BY DEF AloneInv, Regular, Lost, Held, SessionAgrees, AtRest, At, DevOpen
<1> QED BY <1>1, AloneInvariance, PTL

\* Between such commands monitoring that is on has a worker, and neither the event
\* nor the flag of an earlier stop is left to end it.
THEOREM MonitorHasWorkerAlone ==
    ASSUME NEW a, Actors = {a}, "query" \notin Failing PROVE Spec => []MonitorHasWorker
<1>1. AloneInv(a) => MonitorHasWorker
  BY DEF AloneInv, Regular, Lost, Served, MonitorHasWorker, AtRest, At
<1> QED BY <1>1, AloneInvariance, PTL
=============================================================================
