------------------------------ MODULE IpsRules ------------------------------
(***************************************************************************)
(* The interception of the driver (MonitorEvent/sysmondrv): the rule lists *)
(* that the service sends (rProcess.c, rDirectory.c), the routines of the  *)
(* kernel that read them when a process starts (process.c) or a file is    *)
(* opened (minifilter.c), and what a close of the device and an unload of  *)
(* the driver do to both (devctrl.c, driver.c).                            *)
(*                                                                         *)
(* The routines run on any thread.  The requests of the service come one   *)
(* at a time: the device is opened for synchronous I/O (ArkDrvlib.cpp:116).*)
(* A step is what runs under one hold of a lock, or up to the next access  *)
(* to what other threads use.  The directory rules are those of one colour *)
(* and of one directory; the lists of the registry and of thread injection *)
(* (rRegister.c, rThread.c) are handled like the list of process names.    *)
(***************************************************************************)
EXTENDS Naturals, FiniteSets

CONSTANTS
    Notifiers,  \* threads that run a routine of the driver
    Procs,      \* process images
    Modes,      \* processRuleMod of the service's rules: 1 white, 2 black
    White,      \* the directory rules are a white list
    MaxSets,    \* bound on the rule sets sent while the driver is loaded
    MaxLoads,   \* bound on the times the driver is loaded
    MaxRecords, \* bound on the records that wait
    Failing,    \* what may fail: a subset of AllFailures
    Overlap,    \* the sleeps that may end before the routines they wait for
    None        \* no list, no thread

AllFailures == {"process", "directory", "device"}
Kinds == {"process", "directory"}
Lists == {"process", "names", "dirs"}
KindOf(l) == IF l = "process" THEN "process" ELSE "directory"

\* A list in memory: the rule set it is of, and the images it names.
Objects == [list : Lists, gen : 1..MaxSets, names : SUBSET Procs]

ASSUME RulesAssumption ==
    /\ Modes \subseteq {1, 2} /\ White \in BOOLEAN
    /\ MaxSets \in Nat /\ MaxLoads \in Nat /\ MaxRecords \in Nat
    /\ Failing \subseteq AllFailures /\ Overlap \subseteq {"request", "close"}
    /\ None \notin Objects \cup Notifiers

VARIABLES
    drv,        \* the driver: "absent", "loaded" or a stage of driverUnload
    loads,      \* how often it was loaded
    session,    \* the device: "closed", "open" or a stage of devctrl_close
    ctl,        \* the request under way: its stage, list, rule set and memory
    sets,       \* the rule sets sent since the driver was loaded
    monitor,    \* g_proc_monitorprocess
    ips,        \* the kinds whose interception flag is set
    mode,       \* g_proc_ipsmod, and the rule set it is of
    list,       \* g_proc_ipsList and the two lists of directory rules
    heap,       \* the lists that are allocated
    lock,       \* the routine that holds the lock of a kind's lists
    note,       \* each thread: what it does in a routine
    registered, \* the kinds whose routine the kernel calls
    lookaside,  \* g_processList and g_IoQueryList
    records,    \* process_pending
    codes,      \* g_IoQueryHead
    io,         \* devctrl_ioThread
    wake        \* g_ioThreadEvent

svcVars  == <<drv, loads, session, ctl, sets>>
flagVars == <<monitor, ips, mode>>
listVars == <<list, heap, lock>>
drvVars  == <<registered, lookaside>>
ioVars   == <<records, codes, io, wake>>
vars     == <<svcVars, flagVars, listVars, note, drvVars, ioVars>>

NoRequest == [pc |-> "idle", list |-> "process", gen |-> 0, names |-> {},
              new |-> None, old |-> None]
NoMode == [value |-> 0, gen |-> 0]

\* since: the rule sets sent when the routine began; gen: the rule set of the list
\* that decided; with: that of the mode or of the directory list it went with.
NoNote == [pc |-> "idle", proc |-> None, list |-> "process", obj |-> None,
           hit |-> FALSE, gen |-> 0, with |-> 0, since |-> 0]

Init ==
    /\ drv = "absent" /\ loads = 0 /\ session = "closed" /\ ctl = NoRequest /\ sets = 0
    /\ monitor = FALSE /\ ips = {} /\ mode = NoMode
    /\ list = [l \in Lists |-> None] /\ heap = {} /\ lock = [k \in Kinds |-> None]
    /\ note = [n \in Notifiers |-> NoNote]
    /\ registered = {} /\ lookaside = [x \in {"record", "code"} |-> "absent"]
    /\ records = 0 /\ codes = 0 /\ io = "none" /\ wake = FALSE

(***************************************************************************)
(* The routines: Process_NotifyProcessEx and FsFilter1PreOperation.        *)
(***************************************************************************)

\* A process starts or ends, and one of the two flags is set.
NotifyProcess(n, p) ==
    /\ note[n].pc = "idle" /\ "process" \in registered /\ records < MaxRecords
    /\ monitor \/ "process" \in ips
    /\ note' = [note EXCEPT ![n] = [NoNote EXCEPT !.pc = "test", !.proc = p, !.since = sets]]
    /\ UNCHANGED <<svcVars, flagVars, listVars, drvVars, ioVars>>

\* The rules are asked when interception is on and a mode is set; the exit of a
\* process, and one whose path is not found, is only recorded.
TestMode(n) ==
    /\ note[n].pc = "test"
    /\ \/ /\ "process" \in ips /\ mode.value # 0
          /\ note' = [note EXCEPT ![n].pc = "lookup"]
       \/ note' = [note EXCEPT ![n].pc = "record"]
    /\ UNCHANGED <<svcVars, flagVars, listVars, drvVars, ioVars>>

\* A file of the directory is opened, and the flag is set.
PreOperation(n, p) ==
    /\ note[n].pc = "idle" /\ "directory" \in registered /\ "directory" \in ips
    /\ note' = [note EXCEPT ![n] = [NoNote EXCEPT !.pc = "lookup", !.proc = p,
                                                  !.list = "dirs", !.since = sets]]
    /\ UNCHANGED <<svcVars, flagVars, listVars, drvVars, ioVars>>

\* The lookup takes the lock; the one of process names returns first when it sees
\* no list.
Lookup(n) ==
    LET l == note[n].list IN
    /\ note[n].pc = "lookup" /\ lock[KindOf(l)] = None
    /\ lock' = [lock EXCEPT ![KindOf(l)] = n]
    /\ note' = [note EXCEPT ![n] = [@ EXCEPT !.pc = "read", !.obj = list[l]]]
    /\ UNCHANGED <<svcVars, flagVars, list, heap, drvVars, ioVars>>

\* It compares the names and releases the lock.  A directory that is in no list is
\* not protected; for one that is, the names are looked up next.
ReadList(n) ==
    LET o == note[n].obj
        gen == IF o = None THEN 0 ELSE o.gen
    IN /\ note[n].pc = "read"
       /\ lock' = [lock EXCEPT ![KindOf(note[n].list)] = None]
       /\ note' = [note EXCEPT ![n] =
            IF @.list = "dirs" THEN
                IF o = None THEN NoNote
                ELSE [@ EXCEPT !.pc = "lookup", !.list = "names", !.obj = None, !.with = gen]
            ELSE [@ EXCEPT !.pc = "decide", !.obj = None, !.gen = gen,
                           !.hit = o # None /\ note[n].proc \in o.names]]
       /\ UNCHANGED <<svcVars, flagVars, list, heap, drvVars, ioVars>>

\* A start is refused when the list of mode 1 does not name the image, or that of
\* mode 2 does: the mode is read again here.
DecideProcess(n) ==
    /\ note[n].pc = "decide" /\ note[n].list = "process"
    /\ note' = [note EXCEPT ![n] =
         IF mode.value = (IF @.hit THEN 2 ELSE 1)
         THEN [@ EXCEPT !.pc = "denied", !.with = mode.gen]
         ELSE [@ EXCEPT !.pc = "record"]]
    /\ UNCHANGED <<svcVars, flagVars, listVars, drvVars, ioVars>>

\* An access is refused to an image that the white list does not name, or that the
\* black list does.
DecideDirectory(n) ==
    /\ note[n].pc = "decide" /\ note[n].list = "names"
    /\ note' = [note EXCEPT ![n] = IF @.hit # White THEN [@ EXCEPT !.pc = "denied"] ELSE NoNote]
    /\ UNCHANGED <<svcVars, flagVars, listVars, drvVars, ioVars>>

\* A refused access ends here; a refused start goes on to its record.
Denied(n) ==
    /\ note[n].pc = "denied"
    /\ note' = [note EXCEPT ![n] = IF @.list = "process" THEN [@ EXCEPT !.pc = "record"] ELSE NoNote]
    /\ UNCHANGED <<svcVars, flagVars, listVars, drvVars, ioVars>>

\* While the monitor is on, a record is taken from the lookaside list ...
TakeRecord(n) ==
    /\ note[n].pc = "record"
    /\ note' = [note EXCEPT ![n] = IF monitor THEN [NoNote EXCEPT !.pc = "insert"] ELSE NoNote]
    /\ UNCHANGED <<svcVars, flagVars, listVars, drvVars, ioVars>>

\* ... and inserted; the start of a process is announced, its end is not.
InsertRecord(n) ==
    /\ note[n].pc = "insert"
    /\ records' = records + 1
    /\ \E next \in {"code", "idle"} : note' = [note EXCEPT ![n].pc = next]
    /\ UNCHANGED <<svcVars, flagVars, listVars, drvVars, codes, io, wake>>

\* devctrl_pushinfo.
PushInfo(n) ==
    /\ note[n].pc = "code"
    /\ codes' = codes + 1 /\ wake' = TRUE
    /\ note' = [note EXCEPT ![n] = NoNote]
    /\ UNCHANGED <<svcVars, flagVars, listVars, drvVars, records, io>>

(***************************************************************************)
(* devctrl_ioThread, while a read of the service is pended.                *)
(***************************************************************************)

\* Mutant: a code is taken from an empty list.
IoPopUntested ==
    /\ io = "waiting" /\ wake /\ drv = "loaded" /\ session = "open"
    /\ codes' = codes - 1 /\ io' = "holding"
    /\ UNCHANGED <<svcVars, flagVars, listVars, note, drvVars, records, wake>>

\* A code is popped.
IoPop ==
    /\ io = "waiting" /\ wake /\ drv = "loaded" /\ session = "open" /\ codes > 0
    /\ codes' = codes - 1 /\ io' = "holding"
    /\ UNCHANGED <<svcVars, flagVars, listVars, note, drvVars, records, wake>>

\* Its record is copied; both go back to their lookaside lists.
IoFree ==
    /\ io = "holding"
    /\ records' = (IF records = 0 THEN 0 ELSE records - 1) /\ io' = "waiting"
    /\ UNCHANGED <<svcVars, flagVars, listVars, note, drvVars, codes, wake>>

\* The stages of driverUnload in which g_shutdown is set.
Shutdown == {"pause", "clean", "records", "delete", "unhook", "codes", "queue", "event", "join"}

\* The thread finds g_shutdown set.
IoEnd ==
    /\ io = "waiting" /\ wake /\ drv \in Shutdown
    /\ io' = "ended" /\ wake' = FALSE
    /\ UNCHANGED <<svcVars, flagVars, listVars, note, drvVars, records, codes>>

(***************************************************************************)
(* The requests of the service.                                            *)
(***************************************************************************)

\* DriverInit opens the device and sends the rules of processes first, when the
\* configuration has any (kmsginterface.cpp:793).
Open ==
    /\ drv = "loaded" /\ session = "closed" /\ lookaside["code"] = "live"
    /\ session' = "open"
    /\ \E p \in {"first", "idle"} : ctl' = [NoRequest EXCEPT !.pc = p]
    /\ UNCHANGED <<drv, loads, sets, flagVars, listVars, note, drvVars, ioVars>>

\* Mutant: interception stays on.
SetRuleKeepsFlag(l, S) ==
    /\ session = "open" /\ ctl.pc \in (IF l = "process" THEN {"idle", "first"} ELSE {"idle"})
    /\ l # "dirs" /\ sets < MaxSets
    /\ sets' = sets + 1
    /\ mode' = IF l = "process" THEN NoMode ELSE mode
    /\ ctl' = [NoRequest EXCEPT !.pc = "sleep", !.list = l, !.gen = sets', !.names = S]
    /\ UNCHANGED <<drv, loads, session, monitor, ips, listVars, note, drvVars, ioVars>>

\* CTL_DEVCTRL_IPS_SETPROCESSNAME and CTL_DEVCTRL_IPS_SETDIRECTORYRULE: the flag of
\* the kind is cleared, and for processes the mode, before the sleep.
SetRule(l, S) ==
    /\ session = "open" /\ ctl.pc \in (IF l = "process" THEN {"idle", "first"} ELSE {"idle"})
    /\ l # "dirs" /\ sets < MaxSets
    /\ ips' = ips \ {KindOf(l)} /\ sets' = sets + 1
    /\ mode' = IF l = "process" THEN NoMode ELSE mode
    /\ ctl' = [NoRequest EXCEPT !.pc = "sleep", !.list = l, !.gen = sets', !.names = S]
    /\ UNCHANGED <<drv, loads, session, monitor, listVars, note, drvVars, ioVars>>

\* No thread is between the test of the flag of k and its verdict.
Decided(k) == \A n \in Notifiers : ~(note[n].pc \in {"test", "lookup", "read", "decide"}
                                     /\ KindOf(note[n].list) = k)

SleepEnds ==
    /\ ctl.pc = "sleep" /\ ("request" \in Overlap \/ Decided(KindOf(ctl.list)))
    /\ ctl' = [ctl EXCEPT !.pc = "clean"]
    /\ UNCHANGED <<drv, loads, session, sets, flagVars, listVars, note, drvVars, ioVars>>

\* Mutant: the list is freed without the lock.
CleanUnlocked(L) ==
    /\ heap' = heap \ {list[l] : l \in L}
    /\ list' = [l \in Lists |-> IF l \in L THEN None ELSE list[l]]

\* Mutant: the pointer is cleared and the memory kept.
CleanLeaks(L) ==
    /\ \A l \in L : lock[KindOf(l)] = None
    /\ heap' = heap
    /\ list' = [l \in Lists |-> IF l \in L THEN None ELSE list[l]]

\* rProcess_IpsClean and rDirectory_IpsCleanEx free lists under the lock.
Clean(L) ==
    /\ \A l \in L : lock[KindOf(l)] = None
    /\ heap' = heap \ {list[l] : l \in L}
    /\ list' = [l \in Lists |-> IF l \in L THEN None ELSE list[l]]

CleanList ==
    /\ ctl.pc = "clean" /\ Clean({ctl.list})
    /\ ctl' = [ctl EXCEPT !.pc = "alloc"]
    /\ UNCHANGED <<drv, loads, session, sets, flagVars, lock, note, drvVars, ioVars>>

\* What the service does after the request: it sets the mode when the names of the
\* processes were taken; it sends the directories after the names in any case.
After(taken) ==
    CASE ctl.list = "process" -> IF taken THEN [ctl EXCEPT !.pc = "mode", !.old = None] ELSE NoRequest
      [] ctl.list = "names" -> [NoRequest EXCEPT !.pc = "sleep", !.list = "dirs", !.gen = ctl.gen]
      [] OTHER -> NoRequest

\* The memory of the new list is allocated and filled, or not: the old list is gone
\* then.
AllocList ==
    LET o == [list |-> ctl.list, gen |-> ctl.gen, names |-> ctl.names] IN
    /\ ctl.pc = "alloc"
    /\ \/ heap' = heap \cup {o} /\ ctl' = [ctl EXCEPT !.pc = "take", !.new = o]
       \/ KindOf(ctl.list) \in Failing /\ ctl' = After(FALSE) /\ UNCHANGED heap
    /\ UNCHANGED <<drv, loads, session, sets, flagVars, list, lock, note, drvVars, ioVars>>

\* p1 is the list in use, without the lock.
TakeOld ==
    /\ ctl.pc = "take"
    /\ ctl' = [ctl EXCEPT !.pc = "install", !.old = list[ctl.list]]
    /\ UNCHANGED <<drv, loads, session, sets, flagVars, listVars, note, drvVars, ioVars>>

\* The new list takes its place, and p1 is freed.
Install ==
    /\ ctl.pc = "install"
    /\ list' = [list EXCEPT ![ctl.list] = ctl.new] /\ heap' = heap \ {ctl.old}
    /\ ctl' = After(TRUE)
    /\ UNCHANGED <<drv, loads, session, sets, flagVars, lock, note, drvVars, ioVars>>

\* CTL_DEVCTRL_IPS_SETPROCESSFILTERMOD.
SetMode(m) ==
    /\ ctl.pc = "mode"
    /\ mode' = [value |-> m, gen |-> ctl.gen] /\ ctl' = NoRequest
    /\ UNCHANGED <<drv, loads, session, sets, monitor, ips, listVars, note, drvVars, ioVars>>

\* devctrl_setMonitor and devctrl_setIpsMonitor, requested by the service.
SetMonitor(on) ==
    /\ session = "open" /\ ctl.pc = "idle" /\ monitor' = on
    /\ UNCHANGED <<svcVars, ips, mode, listVars, note, drvVars, ioVars>>

SetIpsMonitor(on) ==
    /\ session = "open" /\ ctl.pc = "idle" /\ ips' = IF on THEN Kinds ELSE {}
    /\ UNCHANGED <<svcVars, monitor, mode, listVars, note, drvVars, ioVars>>

(***************************************************************************)
(* devctrl_close.                                                          *)
(***************************************************************************)

\* The monitor is turned off; its sleep is followed by the flags of interception
\* and a sleep of its own.
Close ==
    /\ session = "open" /\ ctl.pc = "idle"
    /\ session' = "ips" /\ monitor' = FALSE
    /\ UNCHANGED <<drv, loads, ctl, sets, ips, mode, listVars, note, drvVars, ioVars>>

CloseIps ==
    /\ session = "ips" /\ session' = "pause" /\ ips' = {}
    /\ UNCHANGED <<drv, loads, ctl, sets, monitor, mode, listVars, note, drvVars, ioVars>>

\* No routine and no service of a read is under way.
Quiet == (\A n \in Notifiers : note[n].pc = "idle") /\ io # "holding"

CloseSleeps ==
    /\ session = "pause" /\ ("close" \in Overlap \/ Quiet)
    /\ session' = "clean"
    /\ UNCHANGED <<drv, loads, ctl, sets, flagVars, listVars, note, drvVars, ioVars>>

\* Mutant: the loop over process_pending is left out.
DropRecordsNot == UNCHANGED records

\* The second half of Process_Clean, used by the close and by the unload.
DropRecords == records' = 0

\* Process_Clean frees the list of the processes and the records; the mode and the
\* lists of directories stay.
CloseLists ==
    /\ session = "clean" /\ Clean({"process"})
    /\ session' = "records"
    /\ UNCHANGED <<drv, loads, ctl, sets, flagVars, lock, note, drvVars, ioVars>>

CloseRecords ==
    /\ session = "records" /\ session' = "codes" /\ DropRecords
    /\ UNCHANGED <<drv, loads, ctl, sets, flagVars, listVars, note, drvVars, codes, io, wake>>

\* devctrl_clean.
CloseCodes ==
    /\ session = "codes" /\ session' = "closed" /\ codes' = 0
    /\ UNCHANGED <<drv, loads, ctl, sets, flagVars, listVars, note, drvVars, records, io, wake>>

(***************************************************************************)
(* DriverEntry and driverUnload.                                           *)
(***************************************************************************)

\* The filter is started, then the device, its lookaside list and its thread are
\* made, then the routine of processes is registered.  When the device cannot be
\* made, DriverEntry leaves out the rest and returns success.
Load ==
    /\ drv = "absent" /\ loads < MaxLoads
    /\ drv' = "loaded" /\ loads' = loads + 1 /\ sets' = 0 /\ mode' = NoMode
    /\ \/ /\ registered' = Kinds /\ io' = "waiting"
          /\ lookaside' = [x \in {"record", "code"} |-> "live"]
       \/ /\ "device" \in Failing /\ registered' = {"directory"} /\ io' = "none"
          /\ lookaside' = [x \in {"record", "code"} |-> "absent"]
    /\ UNCHANGED <<session, ctl, monitor, ips, listVars, note, records, codes, wake>>

\* The driver is stopped while nobody has the device open.  FsMiniFree frees the
\* lists of directories ...
Unload ==
    /\ drv = "loaded" /\ session = "closed" /\ Clean({"names", "dirs"})
    /\ drv' = "filter"
    /\ UNCHANGED <<loads, session, ctl, sets, flagVars, lock, note, drvVars, ioVars>>

\* ... and unregisters the filter, which waits for the operations under way.
UnregisterFilter ==
    /\ drv = "filter" /\ registered' = registered \ {"directory"}
    /\ \A n \in Notifiers : note[n].pc = "idle" \/ note[n].list = "process"
    /\ drv' = "free"
    /\ UNCHANGED <<loads, session, ctl, sets, flagVars, listVars, note, lookaside, ioVars>>

\* devctrl_free: g_shutdown is set, the monitor is turned off, and it sleeps.
Free ==
    /\ drv = "free" /\ drv' = "pause" /\ monitor' = FALSE
    /\ UNCHANGED <<loads, session, ctl, sets, ips, mode, listVars, note, drvVars, ioVars>>

FreeSleeps ==
    /\ drv = "pause" /\ ("close" \in Overlap \/ Quiet)
    /\ drv' = "clean"
    /\ UNCHANGED <<loads, session, ctl, sets, flagVars, listVars, note, drvVars, ioVars>>

\* Process_Free: Process_Clean, ...
FreeLists ==
    /\ drv = "clean" /\ Clean({"process"})
    /\ drv' = "records"
    /\ UNCHANGED <<loads, session, ctl, sets, flagVars, lock, note, drvVars, ioVars>>

FreeRecords ==
    /\ drv = "records" /\ drv' = "delete" /\ DropRecords
    /\ UNCHANGED <<loads, session, ctl, sets, flagVars, listVars, note, drvVars, codes, io, wake>>

\* ExDeleteNPagedLookasideList of a list that was initialised.
Delete(x) ==
    lookaside' = [lookaside EXCEPT ![x] = IF @ = "live" THEN "deleted" ELSE "misused"]

\* ... the lookaside list of the records, ...
DeleteRecords ==
    /\ drv = "delete" /\ drv' = "unhook" /\ Delete("record")
    /\ UNCHANGED <<loads, session, ctl, sets, flagVars, listVars, note, registered, ioVars>>

\* ... and only then the routine, which waits for the calls under way.
Unhook ==
    /\ drv = "unhook" /\ registered' = {}
    /\ \A n \in Notifiers : note[n].pc = "idle"
    /\ drv' = "codes"
    /\ UNCHANGED <<loads, session, ctl, sets, flagVars, listVars, note, lookaside, ioVars>>

\* devctrl_ioThreadFree: devctrl_clean, ...
FreeCodes ==
    /\ drv = "codes" /\ drv' = "queue" /\ codes' = 0
    /\ UNCHANGED <<loads, session, ctl, sets, flagVars, listVars, note, drvVars, records, io, wake>>

\* ... the lookaside list of the codes, ...
DeleteCodes ==
    /\ drv = "queue" /\ drv' = "event" /\ Delete("code")
    /\ UNCHANGED <<loads, session, ctl, sets, flagVars, listVars, note, registered, ioVars>>

\* Mutant: the thread is not woken.
SetEventNot ==
    /\ drv = "event" /\ drv' = "join"
    /\ UNCHANGED <<loads, session, ctl, sets, flagVars, listVars, note, drvVars, ioVars>>

\* ... the event of the thread, ...
SetEvent ==
    /\ drv = "event" /\ drv' = "join" /\ wake' = (io # "ended")
    /\ UNCHANGED <<loads, session, ctl, sets, flagVars, listVars, note, drvVars, records,
                   codes, io>>

\* ... and its end.
Join ==
    /\ drv = "join" /\ io \in {"none", "ended"}
    /\ drv' = "absent" /\ io' = "none" /\ wake' = FALSE
    /\ UNCHANGED <<loads, session, ctl, sets, flagVars, listVars, note, drvVars, records, codes>>

(***************************************************************************)
(* The specification.                                                      *)
(***************************************************************************)

NoteStep(n) ==
    \/ TestMode(n) \/ Lookup(n) \/ ReadList(n) \/ DecideProcess(n) \/ DecideDirectory(n)
    \/ Denied(n) \/ TakeRecord(n) \/ InsertRecord(n) \/ PushInfo(n)

IoStep == IoPop \/ IoFree \/ IoEnd

RequestStep ==
    \/ SleepEnds \/ CleanList \/ AllocList \/ TakeOld \/ Install
    \/ \E m \in Modes : SetMode(m)

CloseStep == CloseIps \/ CloseSleeps \/ CloseLists \/ CloseRecords \/ CloseCodes

UnloadStep ==
    \/ UnregisterFilter \/ Free \/ FreeSleeps \/ FreeLists \/ FreeRecords \/ DeleteRecords
    \/ Unhook \/ FreeCodes \/ DeleteCodes \/ SetEvent \/ Join

Next ==
    \/ \E n \in Notifiers :
         NoteStep(n) \/ \E p \in Procs : NotifyProcess(n, p) \/ PreOperation(n, p)
    \/ IoStep \/ RequestStep \/ CloseStep \/ UnloadStep
    \/ Open \/ Close \/ Load \/ Unload
    \/ \E l \in Lists, S \in SUBSET Procs : SetRule(l, S)
    \/ \E on \in BOOLEAN : SetMonitor(on) \/ SetIpsMonitor(on)

\* The routines return, the I/O thread is scheduled, and a request, a close and an
\* unload go on once begun.
Fairness ==
    /\ \A n \in Notifiers : WF_vars(NoteStep(n))
    /\ WF_vars(IoStep) /\ WF_vars(RequestStep) /\ WF_vars(CloseStep) /\ WF_vars(UnloadStep)

Spec == Init /\ [][Next]_vars /\ Fairness

(***************************************************************************)
(* Properties.                                                             *)
(***************************************************************************)

Requests ==
    [pc : {"idle", "first", "sleep", "clean", "alloc", "take", "install", "mode"},
     list : Lists, gen : 0..MaxSets, names : SUBSET Procs,
     new : Objects \cup {None}, old : Objects \cup {None}]

Notes ==
    [pc : {"idle", "test", "lookup", "read", "decide", "denied", "record", "insert", "code"},
     proc : Procs \cup {None}, list : Lists, obj : Objects \cup {None}, hit : BOOLEAN,
     gen : 0..MaxSets, with : 0..MaxSets, since : 0..MaxSets]

\* Type correctness of the rules, the routines and the driver.
TypeOK ==
    /\ drv \in {"absent", "loaded", "filter", "free"} \cup Shutdown
    /\ session \in {"closed", "open", "ips", "pause", "clean", "records", "codes"}
    /\ loads \in 0..MaxLoads /\ sets \in 0..MaxSets /\ monitor \in BOOLEAN
    /\ ips \subseteq Kinds /\ mode \in [value : Modes \cup {0}, gen : 0..MaxSets]
    /\ ctl \in Requests
    /\ list \in [Lists -> Objects \cup {None}] /\ heap \subseteq Objects
    /\ lock \in [Kinds -> Notifiers \cup {None}]
    /\ note \in [Notifiers -> Notes]
    /\ registered \subseteq Kinds
    /\ lookaside \in [{"record", "code"} -> {"absent", "live", "deleted", "misused"}]
    /\ records \in Nat /\ codes \in Nat /\ wake \in BOOLEAN
    /\ io \in {"none", "waiting", "holding", "ended"}

\* A routine that compares names reads a list that is still allocated, whatever a
\* request, a close or an unload does meanwhile (rProcess.c, rDirectory.c).
ReadersSafe == \A n \in Notifiers : note[n].obj \in heap \cup {None}

\* Every list that is allocated is in use or about to be: replacing and cleaning the
\* rules loses none, and none is in use after it was freed.
ListsAccounted == heap = ({list[l] : l \in Lists} \cup {ctl.new}) \ {None}

\* A refusal that a list decides is by one rule set: that list and the mode or the
\* directory list it goes with were sent together, unless the rules changed while the
\* routine ran.  What is refused with no list (gen = 0), by the mode of an earlier
\* session or for directories whose names were lost, is not covered.
OneRuleSet ==
    \A n \in Notifiers :
        note[n].pc = "denied" /\ note[n].since = sets /\ note[n].gen # 0
            => note[n].gen = note[n].with

\* No routine and no thread has an entry of a lookaside list in hand, and none is
\* queued, once the list is deleted; and only what was initialised is deleted.
LookasidesSafe ==
    /\ records > 0 \/ io = "holding" \/ (\E n \in Notifiers : note[n].pc = "insert")
          => lookaside["record"] = "live"
    /\ codes > 0 \/ io = "holding" \/ (\E n \in Notifiers : note[n].pc = "code")
          => lookaside["code"] = "live"
    /\ \A x \in {"record", "code"} : lookaside[x] # "misused"

\* An unload ends: the filter, the routine and the I/O thread it waits for stop.
UnloadEnds == drv = "filter" ~> drv = "absent"
=============================================================================
