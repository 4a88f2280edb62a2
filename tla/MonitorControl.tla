--------------------------- MODULE MonitorControl ---------------------------
(***************************************************************************)
(* How the service turns the driver on and off: the commands of the server *)
(* (HadSvc/DataHandler.cpp, tasks 403 to 410, and the rootkit queries 100  *)
(* to 199), each on a thread of the system's pool and without a lock, and  *)
(* the service's exit (main.cpp); the driver library they call             *)
(* (ArkDrvlib.cpp) with its worker threads; and what the requests do to    *)
(* the flags of the driver (devctrl.c).                                    *)
(*                                                                         *)
(* The device is opened for synchronous I/O (ArkDrvlib.cpp:116): a request *)
(* on a handle waits while a worker's read on that handle is pended.  A    *)
(* step is one request, one wait, or one access to the service's flags.    *)
(***************************************************************************)
EXTENDS Naturals, FiniteSets

CONSTANTS
    Actors,     \* threads that may run a command at the same time
    Commands,   \* the commands given: a subset of AllCommands
    Failing,    \* what may fail: a subset of {"open", "share", "query"}
    Kinds,      \* rule kinds with an interception flag of their own in the driver
    Handles,    \* bound on the device handles that exist at the same time
    Workers,    \* bound on the worker threads that exist at the same time
    None        \* no handle, no thread

AllCommands == {"monOn", "monOff", "ipsOn", "ipsOff", "reload", "query", "exit"}

ASSUME ControlAssumption ==
    /\ Commands \subseteq AllCommands
    /\ Failing \subseteq {"open", "share", "query"}
    /\ None \notin Handles \cup Workers

VARIABLES
    init, mon, ips,   \* kInitStatus, kerMonStatus, kBesnipingStatus
    dev, opened,      \* g_hDevice and m_devhandler
    thread,           \* m_threadobjhandler: the worker to stop
    exiting,          \* g_exitthread
    stopEvent,        \* g_stopEvent, an auto-reset event
    handle,           \* each device handle: "unused", "open" or "closing"
    kmon, kips,       \* g_*_monitor, and the kinds whose g_*_ips flag is set
    queued,           \* the driver has event codes queued
    rd, via,          \* each worker: where it is, and the handle it reads
    act               \* each actor: its command, program counter and locals

svcVars == <<init, mon, ips>>
libVars == <<dev, opened, thread, exiting, stopEvent>>
drvVars == <<handle, kmon, kips, queued>>
wrkVars == <<rd, via>>
vars    == <<svcVars, libVars, drvVars, wrkVars, act>>

\* local: ioldStatus of a reload, or that the handle is to be closed after the
\* worker; mine: the worker it waits for, or the handle it closes.
Rest == [cmd |-> "none", pc |-> "idle", local |-> FALSE, mine |-> None]

Init ==
    /\ init = FALSE /\ mon = FALSE /\ ips = FALSE
    /\ dev = None /\ opened = None /\ thread = None
    /\ exiting = FALSE /\ stopEvent = FALSE
    /\ handle = [h \in Handles |-> "unused"]
    /\ kmon = FALSE /\ kips = {} /\ queued = FALSE
    /\ rd = [w \in Workers |-> "off"] /\ via = [w \in Workers |-> None]
    /\ act = [a \in Actors |-> Rest]

At(a, p) == act[a].pc = p

Goto(a, p) ==
    act' = [act EXCEPT ![a] = IF p = "idle" THEN Rest ELSE [@ EXCEPT !.pc = p]]

\* No read is pended on h: the lock of its file object is free.
LockFree(h) == \A w \in Workers : rd[w] = "reading" => via[w] # h

\* g_hDevice holds a handle that has not been closed.
DevOpen == dev # None /\ handle[dev] = "open"

\* devctrl_cancelPendingReads.  A read on the requester's own handle is not out,
\* or the request would still wait; one on another handle fails and its worker ends.
CancelReads ==
    /\ rd' = [w \in Workers |-> IF rd[w] = "reading" THEN "off" ELSE rd[w]]
    /\ via' = [w \in Workers |-> None]

(***************************************************************************)
(* The commands.                                                           *)
(***************************************************************************)

\* A command arrives.  Turning on initialises the driver first; turning off and
\* reloading return at once when it is not initialised.
Begin(a, c) ==
    /\ At(a, "idle") /\ c \in Commands
    /\ \A b \in Actors : ~At(b, "exited")
    /\ c = "exit" => \A b \in Actors : act[b].cmd # "exit"
    /\ c \in {"monOff", "ipsOff", "reload"} => init
    /\ act' = [act EXCEPT ![a] = [Rest EXCEPT !.cmd = c, !.pc =
                 CASE c = "exit" -> "exitIps"
                   [] c = "query" -> "query"
                   [] c \in {"monOn", "ipsOn"} /\ ~init -> "init"
                   [] OTHER -> "test"]]
    /\ UNCHANGED <<svcVars, libVars, drvVars, wrkVars>>

\* DriverInit: devctrl_init forgets the handle and the thread it knew.
DriverInit(a) ==
    /\ At(a, "init")
    /\ opened' = None /\ thread' = None /\ exiting' = FALSE
    /\ Goto(a, "open")
    /\ UNCHANGED <<svcVars, dev, stopEvent, drvVars, wrkVars>>

\* devctrl_opendeviceSylink: CreateFile with FILE_ATTRIBUTE_NORMAL.
OpenDevice(a) ==
    /\ At(a, "open")
    /\ \E h \in Handles :
         /\ handle[h] = "unused"
         /\ handle' = [handle EXCEPT ![h] = "open"]
         /\ opened' = h
    /\ Goto(a, "share")
    /\ UNCHANGED <<svcVars, dev, thread, exiting, stopEvent, kmon, kips, queued, wrkVars>>

\* CreateFile fails.  DriverInit breaks off with the status -1 and goes on to set
\* kInitStatus, because it takes only 0 for a failure.
OpenFails(a) ==
    /\ At(a, "open") /\ "open" \in Failing
    /\ Goto(a, "initialised")
    /\ UNCHANGED <<svcVars, libVars, drvVars, wrkVars>>

\* devctrl_InitshareMem takes the handle over; another DriverInit may have changed
\* m_devhandler since.  When the request fails, g_hDevice is closed.
ShareMem(a) ==
    /\ At(a, "share")
    /\ IF opened = None \/ handle[opened] # "open"
       THEN dev' = None /\ Goto(a, "initialised")
       ELSE /\ LockFree(opened)
            /\ dev' = opened
            /\ \/ Goto(a, "rules")
               \/ "share" \in Failing /\ Goto(a, "close")
    /\ UNCHANGED <<svcVars, opened, thread, exiting, stopEvent, drvVars, wrkVars>>

\* A rule request clears the interception flags of its kind; without a handle, or
\* with one that is being closed, it only fails.
ClearKinds(K) ==
    IF DevOpen THEN LockFree(dev) /\ kips' = kips \ K ELSE kips' = kips

\* DriverInit sends the rules of each kind that is configured.
InitRules(a) ==
    /\ At(a, "rules")
    /\ \E K \in SUBSET Kinds : ClearKinds(K)
    /\ Goto(a, "initialised")
    /\ UNCHANGED <<svcVars, libVars, handle, kmon, queued, wrkVars>>

\* The last line of DriverInit.
MarkInit(a) ==
    /\ At(a, "initialised")
    /\ init' = TRUE
    /\ Goto(a, "check")
    /\ UNCHANGED <<mon, ips, libVars, drvVars, wrkVars>>

\* After DriverInit, the task asks again whether the driver is initialised.
CheckInit(a) ==
    /\ At(a, "check")
    /\ Goto(a, IF init THEN "test" ELSE "idle")
    /\ UNCHANGED <<svcVars, libVars, drvVars, wrkVars>>

\* kStatus and ioldStatus are read; a command that changes nothing ends.
TestStatus(a) ==
    LET c == act[a].cmd
    IN  /\ At(a, "test")
        /\ CASE c = "monOn"  -> Goto(a, IF mon THEN "idle" ELSE "onMon")
             [] c = "monOff" -> Goto(a, IF mon THEN "offMon" ELSE "idle")
             [] c = "ipsOn"  -> Goto(a, IF ips THEN "idle" ELSE "onIps")
             [] c = "ipsOff" -> Goto(a, IF ips THEN "offIps" ELSE "idle")
             [] OTHER -> act' = [act EXCEPT ![a] = [@ EXCEPT !.local = ips, !.pc = "reload"]]
        /\ UNCHANGED <<svcVars, libVars, drvVars, wrkVars>>

\* devctrl_sendioct on a handle that is closed or being closed: DeviceIoControl
\* fails at once and leaves the OVERLAPPED pending, and GetOverlappedResult, asked
\* to wait, waits for an event nobody sets.
RequestHangs(a) ==
    /\ act[a].pc \in {"onMon", "offMon", "onIps", "offIps", "query"} /\ ~DevOpen
    /\ Goto(a, "hung")
    /\ UNCHANGED <<svcVars, libVars, drvVars, wrkVars>>

\* devctrl_sendioct gets through to the driver.
Reaches(a, p) == At(a, p) /\ DevOpen /\ LockFree(dev)

\* CTL_DEVCTRL_ENABLE_MONITOR and CTL_DEVCTRL_DISENTABLE_MONITOR.
SetMonitor(a, on) ==
    /\ Reaches(a, IF on THEN "onMon" ELSE "offMon")
    /\ kmon' = on
    /\ CancelReads
    /\ Goto(a, IF on THEN "markMon" ELSE "unmarkMon")
    /\ UNCHANGED <<svcVars, libVars, handle, kips, queued>>

\* CTL_DEVCTRL_ENABLE_IPS_MONITOR and CTL_DEVCTRL_DISENTABLE_IPS_MONITOR.
SetIpsMonitor(a, on) ==
    /\ Reaches(a, IF on THEN "onIps" ELSE "offIps")
    /\ kips' = IF on THEN Kinds ELSE {}
    /\ CancelReads
    /\ Goto(a, IF on THEN "markIps" ELSE "unmarkIps")
    /\ UNCHANGED <<svcVars, libVars, handle, kmon, queued>>

\* A rootkit query.  When the driver answers less than was asked for, sendioct
\* closes the device (devctrl_InitIdtBase); when it fails the request, the
\* OVERLAPPED stays pending and sendioct hangs as above.
Query(a) ==
    /\ Reaches(a, "query")
    /\ \/ Goto(a, "idle")
       \/ "query" \in Failing /\ \E p \in {"close", "hung"} : Goto(a, p)
    /\ UNCHANGED <<svcVars, libVars, drvVars, wrkVars>>

\* Mutant: rule reload does not put the interception back.
ReloadRulesOnly(a) ==
    /\ At(a, "reload")
    /\ \E K \in {{}} \cup {{k} : k \in Kinds} : ClearKinds(K)
    /\ Goto(a, "idle")
    /\ UNCHANGED <<svcVars, libVars, handle, kmon, queued, wrkVars>>

\* ReLoad*RuleConfig sends the rules of one kind, if they are configured;
\* interception is turned on again if it was on when the command began.
ReloadRules(a) ==
    /\ At(a, "reload")
    /\ \E K \in {{}} \cup {{k} : k \in Kinds} : ClearKinds(K)
    /\ Goto(a, IF act[a].local THEN "onIps" ELSE "idle")
    /\ UNCHANGED <<svcVars, libVars, handle, kmon, queued, wrkVars>>

\* The ends of OnMonitor and OffMonitor.
MarkMonitor(a, on) ==
    /\ At(a, IF on THEN "markMon" ELSE "unmarkMon")
    /\ mon' = on
    /\ Goto(a, IF on THEN "start" ELSE IF act[a].cmd = "exit" THEN "exitInit" ELSE "afterOff")
    /\ UNCHANGED <<init, ips, libVars, drvVars, wrkVars>>

\* The ends of OnBeSnipingMonitor and OffBeSnipingMonitor.
MarkIps(a, on) ==
    /\ At(a, IF on THEN "markIps" ELSE "unmarkIps")
    /\ ips' = on
    /\ Goto(a, IF on THEN "idle" ELSE IF act[a].cmd = "exit" THEN "exitMon" ELSE "afterOff")
    /\ UNCHANGED <<init, mon, libVars, drvVars, wrkVars>>

\* Tasks 404 and 406: with the other half off as well, DriverFree; otherwise 404
\* stops the worker and 406 is done.
AfterOff(a) ==
    LET free == init /\ ~(IF act[a].cmd = "monOff" THEN ips ELSE mon)
    IN  /\ At(a, "afterOff")
        /\ IF free \/ act[a].cmd = "monOff"
           THEN act' = [act EXCEPT ![a] = [@ EXCEPT !.local = free, !.pc = "stop"]]
           ELSE Goto(a, "idle")
        /\ UNCHANGED <<svcVars, libVars, drvVars, wrkVars>>

\* The exit of main.cpp asks for each part in turn.
ExitStep(a) ==
    /\ \/ At(a, "exitIps") /\ Goto(a, IF ips THEN "offIps" ELSE "exitMon")
       \/ At(a, "exitMon") /\ Goto(a, IF mon THEN "offMon" ELSE "exitInit")
       \/ /\ At(a, "exitInit")
          /\ act' = [act EXCEPT ![a] =
                [@ EXCEPT !.local = TRUE, !.pc = IF init THEN "stop" ELSE "exited"]]
    /\ UNCHANGED <<svcVars, libVars, drvVars, wrkVars>>

(***************************************************************************)
(* devctrl_startthread, devctrl_stopthread and devctrl_free.               *)
(***************************************************************************)

\* Mutant: g_stopEvent is not reset.
StartThreadKeepsEvent(a) ==
    /\ At(a, "start")
    /\ \E w \in Workers :
         /\ rd[w] = "off"
         /\ rd' = [rd EXCEPT ![w] = "ready"]
         /\ thread' = w
    /\ exiting' = FALSE
    /\ Goto(a, "idle")
    /\ UNCHANGED <<svcVars, dev, opened, stopEvent, drvVars, via>>

StartThread(a) ==
    /\ At(a, "start")
    /\ \E w \in Workers :
         /\ rd[w] = "off"
         /\ rd' = [rd EXCEPT ![w] = "ready"]
         /\ thread' = w
    /\ exiting' = FALSE /\ stopEvent' = FALSE
    /\ Goto(a, "idle")
    /\ UNCHANGED <<svcVars, dev, opened, drvVars, via>>

StopThread(a) ==
    /\ At(a, "stop")
    /\ exiting' = TRUE /\ stopEvent' = TRUE
    /\ act' = [act EXCEPT ![a] = [@ EXCEPT !.mine = thread, !.pc = "join"]]
    /\ UNCHANGED <<svcVars, dev, opened, thread, drvVars, wrkVars>>

\* The worker is inside ReadFile and will not leave it by itself.
Blocked(w) ==
    \/ rd[w] = "reading"
    \/ rd[w] = "calling" /\ DevOpen /\ ~LockFree(dev)

\* WaitForSingleObject(m_threadobjhandler, 3000).  Three seconds are taken to be
\* enough for a worker that is not blocked in ReadFile.  The thread forgotten then
\* is the one that m_threadobjhandler names by now.
JoinThread(a) ==
    LET w == act[a].mine
    IN  /\ At(a, "join")
        /\ w # None => rd[w] = "off" \/ Blocked(w)
        /\ thread' = IF w = None THEN thread ELSE None
        /\ exiting' = FALSE
        /\ Goto(a, IF act[a].local THEN "close" ELSE "idle")
        /\ UNCHANGED <<svcVars, dev, opened, stopEvent, drvVars, wrkVars>>

\* Where AutoHandle::Close returns to: DriverFree, DriverInit or a query.
AfterClose(a) ==
    CASE act[a].cmd = "query" -> "idle"
      [] act[a].cmd \in {"monOn", "ipsOn"} -> "initialised"
      [] OTHER -> "forget"

\* AutoHandle::Close: the handle is gone as soon as CloseHandle is entered.
CloseHandle(a) ==
    /\ At(a, "close")
    /\ IF DevOpen
       THEN /\ handle' = [handle EXCEPT ![dev] = "closing"]
            /\ act' = [act EXCEPT ![a] = [@ EXCEPT !.mine = dev, !.pc = "closing"]]
            /\ dev' = dev
       ELSE /\ dev' = None /\ handle' = handle
            /\ Goto(a, AfterClose(a))
    /\ UNCHANGED <<svcVars, opened, thread, exiting, stopEvent, kmon, kips, queued, wrkVars>>

\* Mutant: devctrl_close does not call devctrl_setIpsMonitor.
DriverCloseKeepsIps(a) ==
    /\ At(a, "closing") /\ LockFree(act[a].mine)
    /\ handle' = [handle EXCEPT ![act[a].mine] = "unused"]
    /\ kmon' = FALSE /\ kips' = kips /\ queued' = FALSE
    /\ CancelReads
    /\ dev' = None
    /\ Goto(a, AfterClose(a))
    /\ UNCHANGED <<svcVars, opened, thread, exiting, stopEvent>>

\* The close gets the file lock and devctrl_close runs, for this handle or for all
\* of them; CloseHandle returns and g_hDevice is cleared, whatever it is by now.
DriverClose(a) ==
    /\ At(a, "closing") /\ LockFree(act[a].mine)
    /\ handle' = [handle EXCEPT ![act[a].mine] = "unused"]
    /\ kmon' = FALSE /\ kips' = {} /\ queued' = FALSE
    /\ CancelReads
    /\ dev' = None
    /\ Goto(a, AfterClose(a))
    /\ UNCHANGED <<svcVars, opened, thread, exiting, stopEvent>>

\* Mutant: DriverFree leaves kInitStatus.
ForgetInitKeeps(a) ==
    /\ At(a, "forget")
    /\ Goto(a, IF act[a].cmd = "exit" THEN "exited" ELSE "idle")
    /\ UNCHANGED <<svcVars, libVars, drvVars, wrkVars>>

\* The last line of DriverFree.
ForgetInit(a) ==
    /\ At(a, "forget")
    /\ init' = FALSE
    /\ Goto(a, IF act[a].cmd = "exit" THEN "exited" ELSE "idle")
    /\ UNCHANGED <<mon, ips, libVars, drvVars, wrkVars>>

(***************************************************************************)
(* The worker and the driver.                                              *)
(***************************************************************************)

\* The head of nf_workThread's loop.
WorkerTest(w) ==
    /\ rd[w] = "ready"
    /\ rd' = [rd EXCEPT ![w] = IF exiting THEN "off" ELSE "calling"]
    /\ UNCHANGED <<svcVars, libVars, drvVars, via, act>>

\* Mutant: the failure of ReadFile is not noticed.
WorkerReadUnchecked(w) ==
    /\ rd[w] = "calling" /\ LockFree(dev)
    /\ rd' = [rd EXCEPT ![w] = "reading"]
    /\ via' = [via EXCEPT ![w] = dev]
    /\ UNCHANGED <<svcVars, libVars, drvVars, act>>

\* ReadFile pends its IRP, or fails on a handle that is closed.
WorkerRead(w) ==
    /\ rd[w] = "calling"
    /\ IF DevOpen
       THEN /\ LockFree(dev)
            /\ rd' = [rd EXCEPT ![w] = "reading"]
            /\ via' = [via EXCEPT ![w] = dev]
       ELSE rd' = [rd EXCEPT ![w] = "off"] /\ via' = via
    /\ UNCHANGED <<svcVars, libVars, drvVars, act>>

\* The I/O thread completes the read with what is queued.
ReadDone(w) ==
    /\ rd[w] = "reading" /\ queued
    /\ queued' = FALSE
    /\ rd' = [rd EXCEPT ![w] = "parsing"] /\ via' = [via EXCEPT ![w] = None]
    /\ UNCHANGED <<svcVars, libVars, handle, kmon, kips, act>>

\* Out of ReadFile the worker looks at g_stopEvent.  After the batch it goes back to
\* the head of the loop, or, if all records were large, on to the next read.
WorkerParse(w) ==
    /\ rd[w] = "parsing"
    /\ stopEvent' = FALSE
    /\ IF stopEvent THEN rd' = [rd EXCEPT ![w] = "off"]
       ELSE \E p \in {"ready", "calling"} : /\ exiting => p = "ready"
                                            /\ rd' = [rd EXCEPT ![w] = p]
    /\ UNCHANGED <<svcVars, dev, opened, thread, exiting, drvVars, via, act>>

\* A notify routine queues an event.
Event ==
    /\ kmon /\ ~queued
    /\ queued' = TRUE
    /\ UNCHANGED <<svcVars, libVars, handle, kmon, kips, wrkVars, act>>

(***************************************************************************)
(* The specification.                                                      *)
(***************************************************************************)

Step(a) ==
    \/ DriverInit(a) \/ OpenDevice(a) \/ OpenFails(a) \/ ShareMem(a) \/ InitRules(a)
    \/ MarkInit(a) \/ CheckInit(a) \/ TestStatus(a) \/ RequestHangs(a)
    \/ (\E on \in BOOLEAN : SetMonitor(a, on) \/ SetIpsMonitor(a, on))
    \/ (\E on \in BOOLEAN : MarkMonitor(a, on) \/ MarkIps(a, on))
    \/ Query(a) \/ ReloadRules(a) \/ AfterOff(a) \/ ExitStep(a)
    \/ StartThread(a) \/ StopThread(a) \/ JoinThread(a)
    \/ CloseHandle(a) \/ DriverClose(a) \/ ForgetInit(a)

Worker(w) == WorkerTest(w) \/ WorkerRead(w) \/ ReadDone(w) \/ WorkerParse(w)

Next ==
    \/ \E a \in Actors : Step(a) \/ (\E c \in Commands : Begin(a, c))
    \/ \E w \in Workers : Worker(w)
    \/ Event

Spec == Init /\ [][Next]_vars

(***************************************************************************)
(* Threads run, and one that waits for a file lock gets it if the lock is  *)
(* free again and again.  While monitoring is on there are always events:  *)
(* the registry of a running system is never quiet.                        *)
(***************************************************************************)
Fairness ==
    /\ \A a \in Actors : SF_vars(Step(a))
    /\ \A w \in Workers : SF_vars(Worker(w))
    /\ WF_vars(Event)

FairSpec == Spec /\ Fairness

(***************************************************************************)
(* Properties.                                                             *)
(***************************************************************************)

Pcs == {"idle", "init", "open", "share", "rules", "initialised", "check", "test",
        "reload", "query", "onMon", "offMon", "onIps", "offIps", "markMon", "unmarkMon",
        "markIps", "unmarkIps", "afterOff", "exitIps", "exitMon", "exitInit", "start",
        "stop", "join", "close", "closing", "forget", "hung", "exited"}

ActorState == [cmd : AllCommands \cup {"none"}, pc : Pcs, local : BOOLEAN,
               mine : Handles \cup Workers \cup {None}]

\* Every variable has its type, and a worker reads on a handle.
TypeOK ==
    /\ init \in BOOLEAN /\ mon \in BOOLEAN /\ ips \in BOOLEAN
    /\ dev \in Handles \cup {None} /\ opened \in Handles \cup {None}
    /\ thread \in Workers \cup {None}
    /\ exiting \in BOOLEAN /\ stopEvent \in BOOLEAN
    /\ handle \in [Handles -> {"unused", "open", "closing"}]
    /\ kmon \in BOOLEAN /\ kips \subseteq Kinds /\ queued \in BOOLEAN
    /\ rd \in [Workers -> {"off", "ready", "calling", "reading", "parsing"}]
    /\ via \in [Workers -> Handles \cup {None}]
    /\ \A w \in Workers : rd[w] = "reading" <=> via[w] # None
    /\ act \in [Actors -> ActorState]

AtRest == \A a \in Actors : At(a, "idle")

\* What the service believes is what the driver does: after any sequence of
\* commands the monitor flag and the interception flags of every kind agree with
\* kerMonStatus and kBesnipingStatus, although rule reloads clear some of the
\* latter and every close clears them all.  HboatCommand.md:83-86: only 403 and 404
\* start and stop collection, 405 and 406 interception.
FlagsAgree ==
    AtRest => /\ kmon = mon
              /\ kips = IF ips THEN Kinds ELSE {}

\* The service counts as initialised exactly while g_hDevice is open, and has no
\* other handle: none is leaked by an initialisation or left over from a free.
SessionAgrees ==
    AtRest => /\ init <=> DevOpen
              /\ \A h \in Handles : handle[h] # "unused" => h = dev

\* Monitoring on means that somebody reads: the worker started by task 403 is
\* there, not told to stop by an event left over from the one before it.
MonitorHasWorker ==
    AtRest /\ mon =>
        /\ \E w \in Workers : rd[w] # "off"
        /\ ~exiting /\ ~stopEvent

\* However the commands interleave, a driver without an open handle neither
\* monitors nor intercepts: devctrl_close turns off what any command turned on.
QuietWhenClosed ==
    (\A h \in Handles : handle[h] = "unused") => ~kmon /\ kips = {} /\ ~queued

\* A command returns: no request waits for ever for the file lock, or for an
\* answer that does not come.
CommandsReturn ==
    \A a \in Actors : ~At(a, "idle") ~> (At(a, "idle") \/ At(a, "exited"))

\* DataHandler.cpp:628: a rule reload turns interception off in the driver; "if it
\* was on before, it must be turned on again here".
InterceptionKept == AtRest /\ ips => kips = Kinds
=============================================================================
