--------------------------- MODULE EventTransport ---------------------------
(***************************************************************************)
(* The event transport of the kernel driver sysmondrv: from the notify     *)
(* routines of process.c, thread.c, imagemod.c, register.c, sysfile.c and  *)
(* syssession.c, through the lists of devctrl.c, to the worker thread      *)
(* nf_workThread of ArkDrvlib.cpp that reads them.                         *)
(*                                                                         *)
(* A notify routine puts a record on the pending list of its event type,   *)
(* then puts the type's code on g_IoQueryHead and wakes the I/O thread.    *)
(* The I/O thread takes one pended read IRP, pops codes, copies for each   *)
(* code one record of that type into the shared buffer, and completes the  *)
(* IRP; the worker parses the buffer and reads again.  Every step below is *)
(* one critical section (or one lock-free call) of the code.               *)
(***************************************************************************)
EXTENDS Integers, Sequences, FiniteSets

CONSTANTS
    Types,        \* event codes that have a pending list (NF_PROCESS_INFO, ...)
    Checked,      \* types whose pop tests IsListEmpty (process and thread)
    Records,      \* the notifications of a behaviour, each raised at most once
    TypeOf,       \* the type of each record
    Unannounced,  \* records put on a list without devctrl_pushinfo: process exits
    SizeOf,       \* size of a record of each type, NF_DATA header included
    BufLen,       \* g_inBuf.bufferLength while the buffer is mapped
    WordMod,      \* 2^64, the modulus of the offset arithmetic
    Callbacks,    \* notify routines that may run at the same time
    Readers,      \* worker threads; the service runs one at a time
    Synchronous,  \* the handle is opened without FILE_FLAG_OVERLAPPED
    None          \* no record, code or IRP

ASSUME TypesAssumption ==
    /\ Checked \subseteq Types
    /\ TypeOf \in [Records -> Types]
    /\ Unannounced \subseteq Records
    /\ None \notin Types \cup Records \cup Readers

ASSUME SizesAssumption ==
    /\ SizeOf \in [Types -> Nat \ {0}]
    /\ BufLen \in Nat \ {0}
    /\ WordMod \in Nat /\ BufLen < WordMod
    /\ \A t \in Types : SizeOf[t] < BufLen

ASSUME FiniteAssumption == IsFiniteSet(Callbacks)

ASSUME HandleAssumption == Synchronous \in BOOLEAN

VARIABLES
    monitor,      \* the g_*_monitor flags, set and cleared together
    open,         \* the device handle: "closed", "open", "mapped" or "closing"
    fresh,        \* records not raised yet
    cb,           \* program counter and record of each notify routine
    pending,      \* the pending list of each type
    codes,        \* g_IoQueryHead
    event,        \* g_ioThreadEvent, a synchronization event
    ioPc, ioCode, ioRec, ioIrp,    \* devctrl_ioThread and what it holds
    buf, offset,  \* records in g_inBuf since the last fill began, and its offset
    rd,           \* program counter of each worker
    pended,       \* read IRPs on g_pendedIoRequests, named by their worker
    routine,      \* read IRPs whose cancel routine is set
    cancelReq,    \* read IRPs with irp->Cancel
    cancelling,   \* read IRPs whose cancel routine has been called
    completions,  \* how often each worker's current IRP has been completed
    result,       \* status of that completion
    length,       \* pResult->length of that completion, in records
    ctl, ctlIrp,  \* the control request in progress and the IRP it cancels
    stop,         \* g_exitthread or g_stopEvent tells the worker to end
    delivered,    \* records the worker handed to the service
    discarded     \* records dropped by a close or by a stopping worker

queueVars == <<fresh, pending, codes>>
ioVars    == <<ioPc, ioCode, ioRec, ioIrp, buf, offset>>
irpVars   == <<pended, routine, cancelReq, cancelling, completions, result, length>>
ctlVars   == <<monitor, open, ctl, ctlIrp, stop>>
histVars  == <<delivered, discarded>>
vars      == <<queueVars, cb, event, ioVars, rd, irpVars, ctlVars, histVars>>

Idle == [pc |-> "idle", rec |-> None]

\* The records a worker finds when it is told that the buffer holds n.
Batch(n) == {buf[i] : i \in (1..n) \cap (1..Len(buf))}

\* Mutant: the size test of devctrl_pop*info compares without the spare byte.
RoomFull == IF offset < BufLen THEN BufLen - offset ELSE WordMod + BufLen - offset

(***************************************************************************)
(* g_inBuf.bufferLength - offset - 1 in unsigned arithmetic.               *)
(***************************************************************************)
Room == IF offset < BufLen THEN BufLen - offset - 1 ELSE WordMod + BufLen - offset - 1

Init ==
    /\ monitor = FALSE /\ open = "closed"
    /\ fresh = Records /\ cb = [c \in Callbacks |-> Idle]
    /\ pending = [t \in Types |-> <<>>] /\ codes = <<>> /\ event = FALSE
    /\ ioPc = "wait" /\ ioCode = None /\ ioRec = None /\ ioIrp = None
    /\ buf = <<>> /\ offset = 0
    /\ rd = [r \in Readers |-> "off"]
    /\ pended = {} /\ routine = {} /\ cancelReq = {} /\ cancelling = {}
    /\ completions = [r \in Readers |-> 0]
    /\ result = [r \in Readers |-> "none"]
    /\ length = [r \in Readers |-> 0]
    /\ ctl = "idle" /\ ctlIrp = None /\ stop = FALSE
    /\ delivered = {} /\ discarded = {}

(***************************************************************************)
(* Notify routines.                                                        *)
(***************************************************************************)

\* The routine finds its monitor flag set and allocates the record.
NotifyBegin(c, rec) ==
    /\ cb[c].pc = "idle" /\ monitor /\ rec \in fresh
    /\ cb' = [cb EXCEPT ![c] = [pc |-> "insert", rec |-> rec]]
    /\ fresh' = fresh \ {rec}
    /\ UNCHANGED <<pending, codes, event, ioVars, rd, irpVars, ctlVars, histVars>>

\* InsertHeadList under the type's lock; a process exit returns right after it.
NotifyInsert(c) ==
    LET rec == cb[c].rec
        t   == TypeOf[rec]
    IN  /\ cb[c].pc = "insert"
        /\ pending' = [pending EXCEPT ![t] = <<rec>> \o @]
        /\ cb' = [cb EXCEPT ![c] = IF rec \in Unannounced THEN Idle
                                   ELSE [pc |-> "push", rec |-> rec]]
        /\ UNCHANGED <<fresh, codes, event, ioVars, rd, irpVars, ctlVars, histVars>>

\* devctrl_pushinfo up to its unlock: the code goes to the head of the list.
PushInfo(c) ==
    /\ cb[c].pc = "push"
    /\ codes' = <<TypeOf[cb[c].rec]>> \o codes
    /\ cb' = [cb EXCEPT ![c] = [pc |-> "signal", rec |-> cb[c].rec]]
    /\ UNCHANGED <<fresh, pending, event, ioVars, rd, irpVars, ctlVars, histVars>>

\* The lookaside list is exhausted: no code, but the event is still set.
PushInfoFails(c) ==
    /\ cb[c].pc = "push"
    /\ cb' = [cb EXCEPT ![c] = [pc |-> "signal", rec |-> cb[c].rec]]
    /\ UNCHANGED <<queueVars, event, ioVars, rd, irpVars, ctlVars, histVars>>

\* KeSetEvent at the end of devctrl_pushinfo.
PushSignal(c) ==
    /\ cb[c].pc = "signal"
    /\ event' = TRUE
    /\ cb' = [cb EXCEPT ![c] = Idle]
    /\ UNCHANGED <<queueVars, ioVars, rd, irpVars, ctlVars, histVars>>

Notify(c) ==
    \/ \E rec \in Records : NotifyBegin(c, rec)
    \/ NotifyInsert(c) \/ PushInfo(c) \/ PushInfoFails(c) \/ PushSignal(c)

(***************************************************************************)
(* devctrl_ioThread.                                                       *)
(***************************************************************************)

IoWait ==
    /\ ioPc = "wait" /\ event
    /\ event' = FALSE
    /\ ioPc' = "service"
    /\ UNCHANGED <<queueVars, cb, ioCode, ioRec, ioIrp, buf, offset,
                   rd, irpVars, ctlVars, histVars>>

\* devctrl_serviceReads finds no read, no code, or only reads being cancelled.
ServiceNothing ==
    /\ ioPc = "service"
    /\ pended \cap routine = {} \/ codes = <<>>
    /\ ioPc' = "wait"
    /\ UNCHANGED <<queueVars, cb, event, ioCode, ioRec, ioIrp, buf, offset,
                   rd, irpVars, ctlVars, histVars>>

\* Mutant: the result of IoSetCancelRoutine is ignored.
ServiceTakeAny(r) ==
    /\ ioPc = "service" /\ codes # <<>>
    /\ r \in pended
    /\ routine' = routine \ {r} /\ pended' = pended \ {r}
    /\ ioIrp' = r /\ ioPc' = "map"
    /\ UNCHANGED <<queueVars, cb, event, ioCode, ioRec, buf, offset, rd, cancelReq,
                   cancelling, completions, result, length, ctlVars, histVars>>

\* devctrl_serviceReads takes a read whose cancel routine it can clear.
ServiceTake(r) ==
    /\ ioPc = "service" /\ codes # <<>>
    /\ r \in pended \cap routine
    /\ routine' = routine \ {r} /\ pended' = pended \ {r}
    /\ ioIrp' = r /\ ioPc' = "map"
    /\ UNCHANGED <<queueVars, cb, event, ioCode, ioRec, buf, offset, rd, cancelReq,
                   cancelling, completions, result, length, ctlVars, histVars>>

\* Mutant: devctrl_fillBuffer goes on where the last batch ended.
ServiceMapKeepsOffset ==
    /\ ioPc = "map"
    /\ buf' = <<>>
    /\ ioPc' = "fill"
    /\ UNCHANGED <<queueVars, cb, event, ioCode, ioRec, ioIrp, offset, rd, irpVars, ctlVars, histVars>>

\* The IRP's buffer is mapped and devctrl_fillBuffer begins at offset 0.
ServiceMap ==
    /\ ioPc = "map"
    /\ buf' = <<>> /\ offset' = 0
    /\ ioPc' = "fill"
    /\ UNCHANGED <<queueVars, cb, event, ioCode, ioRec, ioIrp, rd, irpVars, ctlVars, histVars>>

\* IoCompleteRequest on the IRP of worker r.
Complete(r, status, len) ==
    /\ completions' = [completions EXCEPT ![r] = @ + 1]
    /\ result' = [result EXCEPT ![r] = status]
    /\ length' = [length EXCEPT ![r] = len]

\* Mutant: the read is dropped without IoCompleteRequest.
ServiceMapForgets ==
    /\ ioPc = "map"
    /\ ioIrp' = None /\ ioPc' = "wait"
    /\ UNCHANGED <<queueVars, cb, event, ioCode, ioRec, buf, offset, rd, pended,
                   routine, cancelReq, cancelling, completions, result, length, ctlVars, histVars>>

\* The IRP's buffer cannot be mapped: STATUS_INSUFFICIENT_RESOURCES.
ServiceMapFails ==
    /\ ioPc = "map"
    /\ Complete(ioIrp, "failed", 0)
    /\ ioIrp' = None /\ ioPc' = "wait"
    /\ UNCHANGED <<queueVars, cb, event, ioCode, ioRec, buf, offset, rd, pended,
                   routine, cancelReq, cancelling, ctlVars, histVars>>

\* devctrl_fillBuffer, under g_IoQueryLock: pop the next code.
FillNext ==
    /\ ioPc = "fill" /\ codes # <<>>
    /\ ioCode' = Head(codes) /\ codes' = Tail(codes)
    /\ ioPc' = "pop"
    /\ UNCHANGED <<fresh, pending, cb, event, ioRec, ioIrp, buf, offset,
                   rd, irpVars, ctlVars, histVars>>

\* devctrl_fillBuffer finds no further code.
FillEnd ==
    /\ ioPc = "fill" /\ codes = <<>>
    /\ ioPc' = "complete"
    /\ UNCHANGED <<queueVars, cb, event, ioCode, ioRec, ioIrp, buf, offset,
                   rd, irpVars, ctlVars, histVars>>

(***************************************************************************)
(* devctrl_pop*info with room for the record.  Two cases are undefined     *)
(* behaviour and stop the model: RemoveHeadList on an empty list, which    *)
(* the pops of the unchecked types do not exclude, and a write when the    *)
(* shared buffer is not mapped.                                            *)
(***************************************************************************)
PopRecord ==
    LET q == pending[ioCode]
    IN  /\ ioPc = "pop" /\ ~(q # <<>> /\ Room < SizeOf[ioCode])
        /\ ioPc' = IF \/ q = <<>> /\ ioCode \notin Checked
                      \/ q # <<>> /\ open # "mapped"
                   THEN "undefined" ELSE "fill"
        /\ IF q = <<>> THEN UNCHANGED <<pending, buf, offset>>
           ELSE /\ pending' = [pending EXCEPT ![ioCode] = Tail(@)]
                /\ buf' = Append(buf, Head(q))
                /\ offset' = offset + SizeOf[ioCode]
        /\ ioCode' = None
        /\ UNCHANGED <<fresh, codes, cb, event, ioRec, ioIrp, rd, irpVars, ctlVars, histVars>>

\* Mutant: the pop does not hand back the record it removed.
PopNoMemoryForgets ==
    /\ ioPc = "pop" /\ pending[ioCode] # <<>> /\ Room < SizeOf[ioCode]
    /\ ioRec' = None
    /\ pending' = [pending EXCEPT ![ioCode] = Tail(@)]
    /\ ioPc' = "reinsert"
    /\ UNCHANGED <<fresh, codes, cb, event, ioCode, ioIrp, buf, offset,
                   rd, irpVars, ctlVars, histVars>>

\* The record does not fit: STATUS_NO_MEMORY with the record already removed.
PopNoMemory ==
    /\ ioPc = "pop" /\ pending[ioCode] # <<>> /\ Room < SizeOf[ioCode]
    /\ ioRec' = Head(pending[ioCode])
    /\ pending' = [pending EXCEPT ![ioCode] = Tail(@)]
    /\ ioPc' = "reinsert"
    /\ UNCHANGED <<fresh, codes, cb, event, ioCode, ioIrp, buf, offset,
                   rd, irpVars, ctlVars, histVars>>

\* Mutant: the record that does not fit is freed.
PopReinsertFrees ==
    /\ ioPc = "reinsert"
    /\ ioRec' = None /\ ioPc' = "requeue"
    /\ UNCHANGED <<fresh, pending, codes, cb, event, ioCode, ioIrp, buf, offset,
                   rd, irpVars, ctlVars, histVars>>

\* The record goes back to the head of its list, under the lock taken again.
PopReinsert ==
    /\ ioPc = "reinsert"
    /\ pending' = [pending EXCEPT ![ioCode] = <<ioRec>> \o @]
    /\ ioRec' = None /\ ioPc' = "requeue"
    /\ UNCHANGED <<fresh, codes, cb, event, ioCode, ioIrp, buf, offset,
                   rd, irpVars, ctlVars, histVars>>

\* devctrl_fillBuffer puts the code back and leaves its loop.
FillRequeue ==
    /\ ioPc = "requeue"
    /\ codes' = <<ioCode>> \o codes
    /\ ioCode' = None /\ ioPc' = "complete"
    /\ UNCHANGED <<fresh, pending, cb, event, ioRec, ioIrp, buf, offset,
                   rd, irpVars, ctlVars, histVars>>

ServiceComplete ==
    /\ ioPc = "complete"
    /\ Complete(ioIrp, "success", Len(buf))
    /\ ioIrp' = None /\ ioPc' = "wait"
    /\ UNCHANGED <<queueVars, cb, event, ioCode, ioRec, buf, offset, rd, pended,
                   routine, cancelReq, cancelling, ctlVars, histVars>>

IoThread ==
    \/ IoWait \/ ServiceNothing \/ (\E r \in Readers : ServiceTake(r))
    \/ ServiceMap \/ ServiceMapFails \/ FillNext \/ FillEnd
    \/ PopRecord \/ PopNoMemory \/ PopReinsert \/ FillRequeue \/ ServiceComplete

(***************************************************************************)
(* Read IRPs: devctrl_read, and cancellation by the I/O manager.           *)
(***************************************************************************)

\* The worker's IRP has been sent and nobody has completed it.
Outstanding(r) ==
    /\ rd[r] \in {"issued", "signal", "refused", "waiting", "stopping"}
    /\ completions[r] = 0

(***************************************************************************)
(* The I/O manager holds the lock of a synchronous file object from the    *)
(* call to the end of every request on it: ReadFile returns only when its  *)
(* IRP is completed, and one request at a time reaches the driver.         *)
(***************************************************************************)
FileLockFree ==
    Synchronous =>
        /\ ctl = "idle"
        /\ \A r \in Readers : /\ rd[r] \notin {"issued", "signal", "refused"}
                              /\ rd[r] = "waiting" => completions[r] > 0

\* ReadFile: a new IRP enters devctrl_read.
ReadIssue(r) ==
    /\ rd[r] = "ready" /\ FileLockFree
    /\ rd' = [rd EXCEPT ![r] = "issued"]
    /\ cancelReq' = cancelReq \ {r}
    /\ completions' = [completions EXCEPT ![r] = 0]
    /\ result' = [result EXCEPT ![r] = "none"]
    /\ length' = [length EXCEPT ![r] = 0]
    /\ UNCHANGED <<queueVars, cb, event, ioVars, pended, routine, cancelling, ctlVars, histVars>>

\* The IRP's buffer is missing or too small: completed with an error at once.
ReadInvalid(r) ==
    /\ rd[r] = "issued"
    /\ Complete(r, "failed", 0)
    /\ rd' = [rd EXCEPT ![r] = "waiting"]
    /\ UNCHANGED <<queueVars, cb, event, ioVars, pended, routine, cancelReq,
                   cancelling, ctlVars, histVars>>

\* Under g_IoQueryLock: the cancel routine is set and the IRP is pended.
ReadPend(r) ==
    /\ rd[r] = "issued" /\ r \notin cancelReq
    /\ pended' = pended \cup {r} /\ routine' = routine \cup {r}
    /\ rd' = [rd EXCEPT ![r] = "signal"]
    /\ UNCHANGED <<queueVars, cb, event, ioVars, cancelReq, cancelling,
                   completions, result, length, ctlVars, histVars>>

\* The IRP was cancelled before it had a cancel routine: it is not pended.
ReadRefuse(r) ==
    /\ rd[r] = "issued" /\ r \in cancelReq
    /\ rd' = [rd EXCEPT ![r] = "refused"]
    /\ UNCHANGED <<queueVars, cb, event, ioVars, irpVars, ctlVars, histVars>>

\* Mutant: devctrl_read does not wake the I/O thread.
ReadSignalLost(r) ==
    /\ rd[r] = "signal"
    /\ rd' = [rd EXCEPT ![r] = "waiting"]
    /\ UNCHANGED <<queueVars, cb, event, ioVars, irpVars, ctlVars, histVars>>

\* KeSetEvent after the lock is released; ReadFile returns ERROR_IO_PENDING.
ReadSignal(r) ==
    /\ rd[r] = "signal"
    /\ event' = TRUE
    /\ rd' = [rd EXCEPT ![r] = "waiting"]
    /\ UNCHANGED <<queueVars, cb, ioVars, irpVars, ctlVars, histVars>>

ReadSignalRefused(r) ==
    /\ rd[r] = "refused"
    /\ event' = TRUE
    /\ Complete(r, "cancelled", 0)
    /\ rd' = [rd EXCEPT ![r] = "waiting"]
    /\ UNCHANGED <<queueVars, cb, ioVars, pended, routine, cancelReq,
                   cancelling, ctlVars, histVars>>

\* IoCancelIrp: marks the IRP and claims its cancel routine if there is one.
CancelMark(r) ==
    /\ cancelReq' = cancelReq \cup {r}
    /\ routine' = routine \ {r}
    /\ cancelling' = IF r \in routine THEN cancelling \cup {r} ELSE cancelling

\* The I/O manager cancels an IRP that is still out: the thread is terminated.
IoCancelIrp(r) ==
    /\ Outstanding(r) /\ r \notin cancelReq
    /\ CancelMark(r)
    /\ UNCHANGED <<queueVars, cb, event, ioVars, rd, pended, completions, result,
                   length, ctlVars, histVars>>

\* Mutant: RemoveEntryList is missing.
CancelReadKeepsEntry(r) ==
    /\ r \in cancelling
    /\ cancelling' = cancelling \ {r}
    /\ Complete(r, "cancelled", 0)
    /\ UNCHANGED <<queueVars, cb, event, ioVars, rd, pended, routine, cancelReq, ctlVars, histVars>>

\* devctrl_cancelRead: off the list under the lock, then completed.
CancelRead(r) ==
    /\ r \in cancelling
    /\ cancelling' = cancelling \ {r} /\ pended' = pended \ {r}
    /\ Complete(r, "cancelled", 0)
    /\ UNCHANGED <<queueVars, cb, event, ioVars, rd, routine, cancelReq, ctlVars, histVars>>

(***************************************************************************)
(* nf_workThread.                                                          *)
(***************************************************************************)

\* devctrl_startthread, called between two requests: both signals are reset.
WorkerStart(r) ==
    /\ rd[r] = "off" /\ open = "mapped" /\ ctl = "idle"
    /\ rd' = [rd EXCEPT ![r] = "ready"]
    /\ stop' = FALSE
    /\ UNCHANGED <<queueVars, cb, event, ioVars, irpVars, monitor, open, ctl, ctlIrp, histVars>>

\* devctrl_stopthread; it waits three seconds at most for the worker to end.
WorkerStop ==
    /\ ~stop /\ \E r \in Readers : rd[r] # "off"
    /\ stop' = TRUE
    /\ UNCHANGED <<queueVars, cb, event, ioVars, rd, irpVars, monitor, open, ctl, ctlIrp, histVars>>

\* The wait ends and g_stopEvent is not set.  GetOverlappedResult (ReadFile, on a
\* synchronous handle) fails for a cancelled or failed read and the worker leaves
\* its loop for good.
WorkerWake(r) ==
    /\ rd[r] = "waiting" /\ completions[r] > 0 /\ ~stop
    /\ rd' = [rd EXCEPT ![r] = IF result[r] = "success" THEN "parsing" ELSE "off"]
    /\ UNCHANGED <<queueVars, cb, event, ioVars, irpVars, ctlVars, histVars>>

\* Every record of the batch is pushed to the service's queue.
WorkerParse(r) ==
    /\ rd[r] = "parsing"
    /\ delivered' = delivered \cup Batch(length[r])
    /\ rd' = [rd EXCEPT ![r] = "ready"]
    /\ UNCHANGED <<queueVars, cb, event, ioVars, irpVars, ctlVars, discarded>>

\* g_exitthread is seen at the head of the loop.
StopReady(r) ==
    /\ rd[r] = "ready" /\ stop
    /\ rd' = [rd EXCEPT ![r] = "off"]
    /\ UNCHANGED <<queueVars, cb, event, ioVars, irpVars, ctlVars, histVars>>

\* g_stopEvent, an auto-reset event, ends the wait: CancelIo, and the thread ends
\* when its IRP is done.  On a synchronous handle the thread waits inside
\* ReadFile, and gets to see the event only once its IRP is completed.
StopWaiting(r) ==
    /\ rd[r] = "waiting" /\ stop /\ (Synchronous => completions[r] > 0)
    /\ IF Outstanding(r) /\ r \notin cancelReq THEN CancelMark(r)
       ELSE UNCHANGED <<cancelReq, routine, cancelling>>
    /\ rd' = [rd EXCEPT ![r] = "stopping"]
    /\ stop' = FALSE
    /\ UNCHANGED <<queueVars, cb, event, ioVars, pended, completions, result, length,
                   monitor, open, ctl, ctlIrp, histVars>>

\* The stopping worker is gone; a batch completed meanwhile is never parsed.
WorkerGone(r) ==
    /\ rd[r] = "stopping" /\ completions[r] > 0
    /\ discarded' = discarded \cup Batch(length[r])
    /\ rd' = [rd EXCEPT ![r] = "off"]
    /\ UNCHANGED <<queueVars, cb, event, ioVars, irpVars, ctlVars, delivered>>

\* g_exitthread is seen while parsing: the rest of the batch is skipped.
StopParsing(r, n) ==
    /\ rd[r] = "parsing" /\ stop /\ n \in 1..length[r]
    /\ delivered' = delivered \cup Batch(n)
    /\ discarded' = discarded \cup (Batch(length[r]) \ Batch(n))
    /\ rd' = [rd EXCEPT ![r] = "off"]
    /\ UNCHANGED <<queueVars, cb, event, ioVars, irpVars, ctlVars>>

\* What the worker, the read path and the I/O manager do by themselves.
Reader(r) ==
    \/ ReadIssue(r) \/ ReadInvalid(r) \/ ReadPend(r) \/ ReadRefuse(r)
    \/ ReadSignal(r) \/ ReadSignalRefused(r)
    \/ WorkerWake(r) \/ WorkerParse(r) \/ WorkerGone(r)
    \/ StopReady(r) \/ StopWaiting(r) \/ (\E n \in 1..Len(buf) : StopParsing(r, n))

(***************************************************************************)
(* Control requests, one at a time: open, the monitor IOCTLs and close.    *)
(***************************************************************************)

\* CreateFile, devctrl_create.
OpenDevice ==
    /\ open = "closed" /\ ctl = "idle"
    /\ open' = "open"
    /\ UNCHANGED <<queueVars, cb, event, ioVars, rd, irpVars, monitor, ctl, ctlIrp, stop, histVars>>

\* devctrl_openMem succeeds; when it fails the service only closes the handle.
OpenMem ==
    /\ open = "open" /\ ctl = "idle" /\ FileLockFree
    /\ open' = "mapped"
    /\ UNCHANGED <<queueVars, cb, event, ioVars, rd, irpVars, monitor, ctl, ctlIrp, stop, histVars>>

\* devctrl_setMonitor: flags under the lock, a pause when clearing, then
\* devctrl_cancelPendingReads in both cases.
SetMonitor(on) ==
    /\ open = "mapped" /\ ctl = "idle" /\ FileLockFree
    /\ monitor' = on
    /\ ctl' = IF on THEN "cancel" ELSE "sleep"
    /\ UNCHANGED <<queueVars, cb, event, ioVars, rd, irpVars, open, ctlIrp, stop, histVars>>

\* devctrl_setIpsMonitor also cancels the pending reads.
SetIpsMonitor ==
    /\ open = "mapped" /\ ctl = "idle" /\ FileLockFree
    /\ ctl' = "cancel"
    /\ UNCHANGED <<queueVars, cb, event, ioVars, rd, irpVars, monitor, open, ctlIrp, stop, histVars>>

\* IRP_MJ_CLOSE: sent when the workers are gone and no IRP is left.
Close ==
    /\ open \in {"open", "mapped"} /\ ctl = "idle"
    /\ \A r \in Readers : rd[r] = "off"
    /\ monitor' = FALSE /\ open' = "closing" /\ ctl' = "sleep"
    /\ UNCHANGED <<queueVars, cb, event, ioVars, rd, irpVars, ctlIrp, stop, histVars>>

\* Mutant: the pause does not outlast the notify routines.
SleepTooShort ==
    /\ ctl = "sleep"
    /\ ctl' = "cancel"
    /\ UNCHANGED <<queueVars, cb, event, ioVars, rd, irpVars, monitor, open, ctlIrp, stop, histVars>>

\* utiltools_sleep.  The two seconds devctrl_close waits are taken to be longer
\* than a notify routine needs from its flag test to its KeSetEvent.
Sleep ==
    /\ ctl = "sleep"
    /\ open = "closing" => \A c \in Callbacks : cb[c].pc = "idle"
    /\ ctl' = "cancel"
    /\ UNCHANGED <<queueVars, cb, event, ioVars, rd, irpVars, monitor, open, ctlIrp, stop, histVars>>

\* devctrl_cancelPendingReads takes a read whose cancel routine it can clear.
CancelTake(r) ==
    /\ ctl = "cancel" /\ ctlIrp = None
    /\ r \in pended \cap routine
    /\ pended' = pended \ {r} /\ routine' = routine \ {r}
    /\ ctlIrp' = r
    /\ UNCHANGED <<queueVars, cb, event, ioVars, rd, cancelReq, cancelling, completions,
                   result, length, monitor, open, ctl, stop, histVars>>

CancelComplete ==
    /\ ctlIrp # None
    /\ Complete(ctlIrp, "cancelled", 0)
    /\ ctlIrp' = None
    /\ UNCHANGED <<queueVars, cb, event, ioVars, rd, pended, routine, cancelReq,
                   cancelling, monitor, open, ctl, stop, histVars>>

CancelEnd ==
    /\ ctl = "cancel" /\ ctlIrp = None /\ pended = {}
    /\ ctl' = IF open = "closing" THEN "clean" ELSE "idle"
    /\ UNCHANGED <<queueVars, cb, event, ioVars, rd, irpVars, monitor, open, ctlIrp, stop, histVars>>

\* Process_Clean, Thread_Clean, ...: every record still pending is freed.
CleanRecord(t) ==
    /\ ctl = "clean" /\ pending[t] # <<>>
    /\ discarded' = discarded \cup {Head(pending[t])}
    /\ pending' = [pending EXCEPT ![t] = Tail(@)]
    /\ UNCHANGED <<fresh, codes, cb, event, ioVars, rd, irpVars, ctlVars, delivered>>

CleanEnd ==
    /\ ctl = "clean" /\ \A t \in Types : pending[t] = <<>>
    /\ ctl' = "cleanCodes"
    /\ UNCHANGED <<queueVars, cb, event, ioVars, rd, irpVars, monitor, open, ctlIrp, stop, histVars>>

\* devctrl_clean: every code still queued is freed.
CleanCode ==
    /\ ctl = "cleanCodes" /\ codes # <<>>
    /\ codes' = Tail(codes)
    /\ UNCHANGED <<fresh, pending, cb, event, ioVars, rd, irpVars, ctlVars, histVars>>

\* Mutant: devctrl_clean is not called.
CloseEndKeepsCodes ==
    /\ ctl = "cleanCodes"
    /\ open' = "closed" /\ ctl' = "idle"
    /\ UNCHANGED <<queueVars, cb, event, ioVars, rd, irpVars, monitor, ctlIrp, stop, histVars>>

\* The end of devctrl_close: both shared buffers are freed.
CloseEnd ==
    /\ ctl = "cleanCodes" /\ codes = <<>>
    /\ open' = "closed" /\ ctl' = "idle"
    /\ UNCHANGED <<queueVars, cb, event, ioVars, rd, irpVars, monitor, ctlIrp, stop, histVars>>

\* What a request does once it has been made.
ControlStep ==
    \/ Sleep \/ (\E r \in Readers : CancelTake(r)) \/ CancelComplete \/ CancelEnd
    \/ (\E t \in Types : CleanRecord(t)) \/ CleanEnd \/ CleanCode \/ CloseEnd

Request ==
    \/ OpenDevice \/ OpenMem \/ (\E on \in BOOLEAN : SetMonitor(on))
    \/ SetIpsMonitor \/ Close
    \/ (\E r \in Readers : WorkerStart(r)) \/ WorkerStop

Next ==
    \/ \E c \in Callbacks : Notify(c)
    \/ IoThread
    \/ \E r \in Readers : Reader(r) \/ IoCancelIrp(r) \/ CancelRead(r)
    \/ ControlStep \/ Request

(***************************************************************************)
(* A started notify routine, a cancel routine that has been called and a   *)
(* request in progress keep running.                                       *)
(***************************************************************************)
RequestFairness ==
    /\ \A c \in Callbacks :
         WF_vars(NotifyInsert(c) \/ PushInfo(c) \/ PushInfoFails(c) \/ PushSignal(c))
    /\ \A r \in Readers : WF_vars(CancelRead(r))
    /\ WF_vars(ControlStep)

(***************************************************************************)
(* So do the driver's own thread and a read in progress, and a worker that *)
(* waits for the file lock gets it in the end; nothing is asked of the     *)
(* environment.                                                            *)
(***************************************************************************)
Fairness ==
    /\ RequestFairness
    /\ WF_vars(IoThread)
    /\ \A r \in Readers : WF_vars(Reader(r)) /\ SF_vars(ReadIssue(r))

Spec == Init /\ [][Next]_vars
RequestSpec == Spec /\ RequestFairness
FairSpec == Spec /\ Fairness

(***************************************************************************)
(* Properties.                                                             *)
(***************************************************************************)

NotifyPcs == {"insert", "push", "signal"}
IoPcs == {"wait", "service", "map", "fill", "pop", "reinsert", "requeue",
          "complete", "undefined"}
ReaderPcs == {"off", "ready", "issued", "signal", "refused", "waiting", "parsing",
              "stopping"}

\* Every variable has its type.
TypeOK ==
    /\ monitor \in BOOLEAN /\ event \in BOOLEAN /\ stop \in BOOLEAN
    /\ open \in {"closed", "open", "mapped", "closing"}
    /\ fresh \subseteq Records
    /\ cb \in [Callbacks -> [pc : NotifyPcs, rec : Records] \cup {Idle}]
    /\ pending \in [Types -> Seq(Records)] /\ codes \in Seq(Types)
    /\ ioPc \in IoPcs /\ ioCode \in Types \cup {None}
    /\ ioRec \in Records \cup {None} /\ ioIrp \in Readers \cup {None}
    /\ buf \in Seq(Records) /\ offset \in Nat
    /\ rd \in [Readers -> ReaderPcs]
    /\ pended \subseteq Readers /\ routine \subseteq Readers
    /\ cancelReq \subseteq Readers /\ cancelling \subseteq Readers
    /\ completions \in [Readers -> Nat]
    /\ result \in [Readers -> {"none", "success", "cancelled", "failed"}]
    /\ length \in [Readers -> Nat]
    /\ ctl \in {"idle", "sleep", "cancel", "clean", "cleanCodes"}
    /\ ctlIrp \in Readers \cup {None}
    /\ delivered \subseteq Records /\ discarded \subseteq Records

\* The I/O thread never reaches undefined behaviour: it never takes a record from
\* an empty list of a type whose pop does not test for that (devctrl.c:1497), and
\* never writes to an unmapped shared buffer (devctrl.c:1383).
NoUndefined == ioPc # "undefined"

\* An IRP is completed at most once, whoever of the I/O thread, a control request
\* and the cancel routine gets to it, and nobody keeps it after its completion.
CompletedOnce ==
    \A r \in Readers :
        /\ completions[r] <= 1
        /\ completions[r] = 1 =>
             r \notin pended \cup routine \cup cancelling \cup {ioIrp, ctlIrp}

\* A read that has been sent is never orphaned: it is either on the list, where
\* it can be cancelled or is being cancelled, or with exactly one of the I/O
\* thread and a control request, out of reach of the cancel routine.
SingleOwner ==
    \A r \in Readers :
        rd[r] \in {"signal", "waiting", "stopping"} /\ completions[r] = 0 =>
            \/ /\ r \in pended /\ r \notin {ioIrp, ctlIrp}
               /\ r \in routine <=> r \notin cancelling
            \/ /\ r \notin pended \cup routine \cup cancelling
               /\ r = ioIrp <=> r # ctlIrp

\* The I/O thread writes records only while the shared buffer is mapped, although
\* a close frees the buffer without asking the I/O thread (devctrl.c:963), and
\* only inside the buffer: the byte the size test of devctrl_pop*info keeps free
\* is what saves the unsigned subtraction of the next test (devctrl.c:1377).
BufferSafe ==
    /\ ioIrp # None => open = "mapped"
    /\ offset < BufLen

\* How often t occurs in s.
Occurrences(s, t) == Cardinality({i \in 1..Len(s) : s[i] = t})

\* How many codes of type t are queued, counting the one the I/O thread holds.
QueuedCodes(t) == Occurrences(codes, t) + (IF ioCode = t THEN 1 ELSE 0)

\* The notify routines that have inserted a record of type t and not yet its code.
Pushing(t) == {c \in Callbacks : cb[c].pc = "push" /\ TypeOf[cb[c].rec] = t}

\* How many records of type t wait, counting one the I/O thread is putting back.
WaitingRecords(t) ==
    Len(pending[t]) + (IF ioPc = "reinsert" /\ ioCode = t THEN 1 ELSE 0)

\* Codes and records are kept on separate lists under separate locks, and still a
\* code never outnumbers the records it stands for: insertion comes first in the
\* notify routines, both go back when a record does not fit, and a close, which
\* empties the record lists first, leaves no code behind (devctrl.c:953-962).
CodesBacked ==
    ctl \notin {"clean", "cleanCodes"} =>
        \A t \in Types : QueuedCodes(t) + Cardinality(Pushing(t)) <= WaitingRecords(t)

\* A closed device has forgotten everything: no record, code or read of one
\* session is there when the next one opens the device.
ClosedIsEmpty ==
    open = "closed" =>
        /\ codes = <<>> /\ (\A t \in Types : pending[t] = <<>>)
        /\ pended = {} /\ (\A c \in Callbacks : cb[c].pc = "idle")

(***************************************************************************)
(* The inductive invariant behind these properties.                        *)
(***************************************************************************)

\* What the I/O thread holds at each of its steps.
IoShape ==
    /\ ioIrp # None <=> ioPc \notin {"wait", "service"}
    /\ ioCode # None <=> ioPc \in {"pop", "reinsert", "requeue"}
    /\ ioRec # None <=> ioPc = "reinsert"
    /\ offset < BufLen

\* Where the read IRP of each worker is.
IrpShape ==
    /\ routine \subseteq pended /\ cancelling \subseteq pended
    /\ \A r \in pended : r \in routine <=> r \notin cancelling
    /\ {ioIrp, ctlIrp} \cap pended = {} /\ (ioIrp # None => ioIrp # ctlIrp)
    /\ \A r \in Readers :
         /\ completions[r] <= 1
         /\ rd[r] \in {"issued", "refused"} => completions[r] = 0
         /\ r \in pended \cup {ioIrp, ctlIrp} =>
              completions[r] = 0 /\ rd[r] \in {"signal", "waiting", "stopping"}
         /\ completions[r] = 0 /\ rd[r] \in {"signal", "waiting", "stopping"} =>
              r \in pended \cup {ioIrp, ctlIrp}

\* What is excluded while the device is not open, and while it is being closed.
SessionShape ==
    /\ open # "mapped" => ~monitor /\ \A r \in Readers : rd[r] = "off"
    /\ open \in {"closed", "open"} => ctl = "idle"
    /\ open = "closing" => ctl # "idle"
    /\ ctl \in {"clean", "cleanCodes"} => open = "closing"
    /\ ctlIrp # None => ctl = "cancel"
    /\ open \in {"closed", "open"} \/ (open = "closing" /\ ctl # "sleep") =>
         \A c \in Callbacks : cb[c].pc = "idle"
    /\ open \in {"closed", "open"} \/ ctl = "cleanCodes" =>
         \A t \in Types : pending[t] = <<>>
    /\ open \in {"closed", "open"} => codes = <<>>

IInv ==
    /\ TypeOK /\ IoShape /\ IrpShape /\ SessionShape
    /\ CodesBacked /\ NoUndefined

SeqRange(s) == {s[i] : i \in 1..Len(s)}

\* Records copied to the shared buffer and not parsed yet.
Unread ==
    IF ioPc \in {"fill", "pop", "reinsert", "requeue", "complete"} THEN SeqRange(buf)
    ELSE UNION {Batch(length[r]) :
                  r \in {s \in Readers : /\ result[s] = "success"
                                         /\ rd[s] \in {"signal", "waiting", "stopping", "parsing"}}}

InTransit == Unread \cup ({ioRec} \ {None}) \cup UNION {SeqRange(pending[t]) : t \in Types}

StatusOf(e) ==
    CASE e \in InTransit -> "queued"
      [] e \in delivered \ InTransit -> "delivered"
      [] e \in discarded \ (InTransit \cup delivered) -> "discarded"
      [] OTHER -> "none"

Delivery == INSTANCE EventDelivery WITH
                status <- [e \in Records |-> StatusOf(e)],
                reading <- \E r \in Readers : rd[r] # "off"

\* The transport delivers every record at most once and loses none while a worker
\* reads, whatever reads are cancelled or fail and wherever the buffer fills up.
DeliveryHolds == Delivery!Spec

\* No lost wakeup: the auto-reset event may be set once for several pushes and
\* reads, and one wakeup serves one read, yet a pended read with codes waiting
\* leaves the list.  It needs the single worker: a second pended read has no
\* wakeup of its own.
NoLostWakeup == \A r \in Readers : (r \in pended /\ codes # <<>>) ~> (r \notin pended)

\* A full buffer ends a batch early, and the remaining codes are served by the
\* reads that follow: the code list empties, with no code on its way back to it,
\* unless the worker is gone.
CodesDrain ==
    codes # <<>> ~> \/ codes = <<>> /\ ioCode = None
                    \/ \A r \in Readers : rd[r] = "off"

\* A control request returns, even one that finds reads being cancelled and waits
\* for their cancel routines (devctrl.c:1022), and a close with callbacks running.
RequestsReturn == ctl # "idle" ~> ctl = "idle"

\* README.md promises events for process creation and destruction.  A process
\* exit that was queued would then reach the service while a worker reads.
ExitsReported ==
    \A e \in Unannounced :
        (e \in SeqRange(pending[TypeOf[e]])) ~>
            (e \in delivered \cup discarded \/ \A r \in Readers : rd[r] = "off")
=============================================================================
