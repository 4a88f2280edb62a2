---------------------------- MODULE UdpContexts ----------------------------
(***************************************************************************)
(* The UDP path of the network driver (MonitorEvent/netdrv): the datagram  *)
(* callout takes each packet out of the stack and queues it with an event  *)
(* code (callouts.c, udpctx.c), the I/O thread hands a batch to the        *)
(* service's one worker (devctrl.c), and the worker drops a packet or      *)
(* writes it back, which injects it again.  Every endpoint has a context   *)
(* with a reference count, byte counters and a throttle, shared by the     *)
(* callouts, the write requests, the injection completions and the close.  *)
(*                                                                         *)
(* A step is what runs under one hold of g_slUdpCtx, of a context's lock   *)
(* or of a list lock.  Bytes are counted in packets, all of one size.      *)
(***************************************************************************)
EXTENDS Naturals, Sequences, FiniteSets

CONSTANTS
    Callers,    \* threads that run the classify and closure callouts
    Endpoints,  \* transport endpoint handles; a handle is not used again
    MaxContexts,\* bound on the contexts allocated: their ids are never reused
    MaxPackets, \* bound on the packets classified while the monitor is on
    MaxBuffers, \* bound on the net buffers of one classified list
    Room,       \* packets that fit into the shared input buffer
    Limit,      \* UDP_PEND_LIMIT
    Sessions,   \* bound on the times the device is opened
    Failing,    \* what may fail: a subset of AllFailures
    Worker,     \* the thread of workqueue.cpp
    None        \* no context, no endpoint

Packets   == 1..MaxPackets
Contexts  == 1..MaxContexts
Directions == {"send", "recv"}
\* Packet p's injection completes in an actor of its own, named p.
Actors    == Callers \cup {Worker} \cup Packets
AllFailures == {"alloc", "push", "code", "request", "header", "inject"}

ASSUME UdpAssumption ==
    /\ MaxPackets \in Nat /\ MaxBuffers \in Nat \ {0} /\ Sessions \in Nat
    /\ Room \in Nat \ {0} /\ Limit \in Nat
    /\ Failing \subseteq AllFailures
    /\ MaxContexts \in Nat /\ None \notin Contexts \cup Endpoints
    /\ Worker \notin Callers
    /\ (Callers \cup {Worker}) \cap Packets = {}
    /\ IsFiniteSet(Callers)

VARIABLES
    monitor,    \* g_monitorflag
    session,    \* the device: "closed", "open" or a stage of devctrl_close
    opens,      \* how often it was opened
    closed,     \* endpoints whose closure was indicated
    state,      \* each context: "unused", "live" or "freed"
    home,       \* its transportEndpointHandle
    refs,       \* its refCount
    listed,     \* contexts in g_lUdpCtx and g_phtUdpCtxById
    byHandle,   \* g_phtUdpCtxByHandle
    pended,     \* pendedSendBytes and pendedRecvBytes of each context
    injected,   \* injectedSendBytes and injectedRecvBytes
    busy,       \* the directions whose sendInProgress, recvInProgress is set
    queue,      \* g_udp_pendPacket, newest first
    codes,      \* g_IoQueryHead, newest first
    batch,      \* what the input buffer holds for the worker
    made,       \* packets made so far
    act         \* each actor: program counter and locals

ctxVars  == <<state, home, refs, listed, byHandle>>
byteVars == <<pended, injected, busy>>
ioVars   == <<queue, codes, batch>>
sesVars  == <<monitor, session, opens>>
vars     == <<sesVars, closed, ctxVars, byteVars, ioVars, made, act>>

\* ctx: the context in hand.  owes: the references the actor holds and has yet
\* to give back.  left: net buffers still to queue.  pkt, dir: the packet in hand.
Rest == [pc |-> "idle", ctx |-> None, ep |-> None, owes |-> 0, left |-> 0,
         pkt |-> 0, dir |-> "send"]

Entry(p, c, d) == [pkt |-> p, ctx |-> c, dir |-> d]

Init ==
    /\ monitor = FALSE /\ session = "closed" /\ opens = 0 /\ closed = {}
    /\ state = [c \in Contexts |-> "unused"]
    /\ home = [c \in Contexts |-> None]
    /\ refs = [c \in Contexts |-> 0]
    /\ listed = {} /\ byHandle = [e \in Endpoints |-> None]
    /\ pended = [c \in Contexts |-> [d \in Directions |-> 0]]
    /\ injected = [c \in Contexts |-> [d \in Directions |-> 0]]
    /\ busy = [c \in Contexts |-> {}]
    /\ queue = <<>> /\ codes = <<>> /\ batch = <<>> /\ made = 0
    /\ act = [a \in Actors |-> Rest]

At(a, p) == act[a].pc = p

Goto(a, p) == act' = [act EXCEPT ![a].pc = p]

\* After its work a callout returns, and the worker takes the next packet.
Done(a) == [Rest EXCEPT !.pc = IF a = Worker THEN "next" ELSE "idle"]

\* The actor, with locals r, gives back the references it owes, or is done.
Leave(a, r) ==
    act' = [act EXCEPT ![a] = IF r.owes = 0 THEN Done(a) ELSE [r EXCEPT !.pc = "drop"]]

(***************************************************************************)
(* Contexts: udpctx.c.                                                     *)
(***************************************************************************)

\* udp_findByHandle and udp_findById: the reference is taken under the lock.
Found(c) == refs' = [refs EXCEPT ![c] = @ + 1]

\* udp_freeCtx up to the release of the lock: the last reference takes the
\* context out of the list and the table of ids.
FreeCtx(a) ==
    LET c == act[a].ctx
        last == refs[c] = 1
    IN /\ At(a, "drop")
       /\ refs' = [refs EXCEPT ![c] = IF @ = 0 THEN 0 ELSE @ - 1]
       /\ listed' = IF last THEN listed \ {c} ELSE listed
       /\ act' = [act EXCEPT ![a] =
                    IF last THEN [@ EXCEPT !.pc = "unhash", !.owes = act[a].owes - 1]
                    ELSE IF @.owes = 1 THEN Done(a)
                    ELSE [@ EXCEPT !.owes = act[a].owes - 1]]
       /\ UNCHANGED <<sesVars, closed, state, home, byHandle, byteVars, ioVars, made>>

\* The rest of udp_freeCtx, after the lock was released: the table of handles
\* is cleared by key, and the context is freed.
FreeUnhash(a) ==
    LET c == act[a].ctx IN
    /\ At(a, "unhash")
    /\ byHandle' = [e \in Endpoints |-> IF e = home[c] THEN None ELSE byHandle[e]]
    /\ home' = [home EXCEPT ![c] = None]
    /\ state' = [state EXCEPT ![c] = "freed"]
    /\ Leave(a, act[a])
    /\ UNCHANGED <<sesVars, closed, refs, listed, byteVars, ioVars, made>>

(***************************************************************************)
(* The datagram callout: callouts.c.                                       *)
(***************************************************************************)

\* helper_callout_classFn_udpCallout: a list of n net buffers of an open
\* endpoint, while the monitor is on.
Classify(k, e, d, n) ==
    /\ At(k, "idle") /\ monitor /\ e \notin closed
    /\ n <= MaxBuffers /\ made + n <= MaxPackets
    /\ made' = made + n
    /\ act' = [act EXCEPT ![k] = [Rest EXCEPT !.pc = "find", !.ep = e, !.dir = d,
                                              !.left = n, !.pkt = made + 1]]
    /\ UNCHANGED <<sesVars, closed, ctxVars, byteVars, ioVars>>

\* udp_findByHandle.
Find(k) ==
    LET c == byHandle[act[k].ep] IN
    /\ At(k, "find")
    /\ IF c = None
       THEN Goto(k, "alloc") /\ UNCHANGED refs
       ELSE /\ Found(c)
            /\ act' = [act EXCEPT ![k] = [@ EXCEPT !.ctx = c, !.owes = 1, !.pc = "pend"]]
    /\ UNCHANGED <<sesVars, closed, state, home, listed, byHandle, byteVars, ioVars, made>>

\* udp_packetAllocatCtxHandle: one reference for the table, one for the caller.
\* An entry for the same handle is not replaced (hashtable.c).
Alloc(k) ==
    LET e == act[k].ep IN
    /\ At(k, "alloc")
    /\ \E c \in Contexts :
         /\ state[c] = "unused" /\ \A b \in 1..(c - 1) : state[b] # "unused"
         /\ state' = [state EXCEPT ![c] = "live"]
         /\ home' = [home EXCEPT ![c] = e]
         /\ refs' = [refs EXCEPT ![c] = 2]
         /\ listed' = listed \cup {c}
         /\ byHandle' = IF byHandle[e] = None THEN [byHandle EXCEPT ![e] = c] ELSE byHandle
         /\ act' = [act EXCEPT ![k] = [@ EXCEPT !.ctx = c, !.owes = 1, !.pc = "pend"]]
    /\ UNCHANGED <<sesVars, closed, byteVars, ioVars, made>>

\* The allocation fails and the packet is permitted.
AllocFails(k) ==
    /\ At(k, "alloc") /\ "alloc" \in Failing
    /\ act' = [act EXCEPT ![k] = Rest]
    /\ UNCHANGED <<sesVars, closed, ctxVars, byteVars, ioVars, made>>

\* helper_callout_pushUdpPacket: over the limit the list is permitted; otherwise
\* the bytes of the buffer are counted.
Pend(k) ==
    LET c == act[k].ctx IN
    /\ At(k, "pend")
    /\ \A d \in Directions : pended[c][d] <= Limit
    /\ pended' = [pended EXCEPT ![c][act[k].dir] = @ + 1]
    /\ Goto(k, "push")
    /\ UNCHANGED <<sesVars, closed, ctxVars, injected, busy, ioVars, made>>

PendRefused(k) ==
    /\ At(k, "pend")
    /\ \E d \in Directions : pended[act[k].ctx][d] > Limit
    /\ Leave(k, act[k])
    /\ UNCHANGED <<sesVars, closed, ctxVars, byteVars, ioVars, made>>

\* push_udpPacketinfo: the packet goes to the head of the one list.
Push(k) ==
    /\ At(k, "push")
    /\ queue' = <<Entry(act[k].pkt, act[k].ctx, act[k].dir)>> \o queue
    /\ Goto(k, "code")
    /\ UNCHANGED <<sesVars, closed, ctxVars, byteVars, codes, batch, made>>

\* An allocation of the packet fails: the bytes are taken back and the list is
\* permitted, whatever buffers of it are already queued.
PushFails(k) ==
    /\ At(k, "push") /\ "push" \in Failing
    /\ pended' = [pended EXCEPT ![act[k].ctx][act[k].dir] = @ - 1]
    /\ Leave(k, act[k])
    /\ UNCHANGED <<sesVars, closed, ctxVars, injected, busy, ioVars, made>>

\* Mutant: one net buffer more than the list has.
NextBufferTooMany(k) ==
    IF act[k].left > 0
    THEN act' = [act EXCEPT ![k] = [@ EXCEPT !.left = act[k].left - 1,
                                             !.pkt = act[k].pkt + 1, !.pc = "pend"]]
    ELSE Leave(k, act[k])

\* The next net buffer of the list, or the end of the callout.
NextBuffer(k) ==
    IF act[k].left > 1
    THEN act' = [act EXCEPT ![k] = [@ EXCEPT !.left = act[k].left - 1,
                                             !.pkt = act[k].pkt + 1, !.pc = "pend"]]
    ELSE Leave(k, act[k])

\* Mutant: one code for a list of several net buffers.
PushCodeOnce(k) ==
    /\ At(k, "code")
    /\ codes' = IF act[k].left > 1 THEN codes ELSE <<act[k].dir>> \o codes
    /\ NextBuffer(k)
    /\ UNCHANGED <<sesVars, closed, ctxVars, byteVars, queue, batch, made>>

\* devctrl_pushEventQueryLisy: the code that makes the I/O thread look.  The callout
\* does not look at its status.
PushCode(k) ==
    /\ At(k, "code")
    /\ \/ codes' = <<act[k].dir>> \o codes
       \/ "code" \in Failing /\ UNCHANGED codes
    /\ NextBuffer(k)
    /\ UNCHANGED <<sesVars, closed, ctxVars, byteVars, queue, batch, made>>

\* helper_callout_endpointClosureUdpCallout, whatever the session: it does not look
\* at the monitor.  It follows the endpoint's last classify; the context it finds
\* loses the reference just taken and the table's.
Closure(k, e) ==
    LET c == byHandle[e] IN
    /\ At(k, "idle") /\ e \notin closed
    /\ \A j \in Callers : At(j, "idle") \/ act[j].ep # e
    /\ closed' = closed \cup {e}
    /\ IF c = None
       THEN UNCHANGED <<refs, act>>
       ELSE /\ Found(c)
            /\ act' = [act EXCEPT ![k] = [Rest EXCEPT !.pc = "drop", !.ep = e,
                                                      !.ctx = c, !.owes = 2]]
    /\ UNCHANGED <<sesVars, state, home, listed, byHandle, byteVars, ioVars, made>>

(***************************************************************************)
(* The device's read path: devctrl.c, and the worker of workqueue.cpp.     *)
(***************************************************************************)

\* The worker issues its read; devctrl_readEx pends it and wakes the I/O thread.
Read ==
    /\ At(Worker, "idle") /\ session = "open"
    /\ Goto(Worker, "reading")
    /\ UNCHANGED <<sesVars, closed, ctxVars, byteVars, ioVars, made>>

\* devctrl_serviceReads takes the pended read once there is a code, and
\* devctrl_fillBuffer pops the newest code, to fill the empty buffer.
FillCode ==
    /\ At(Worker, "reading") \/ At(Worker, "filling")
    /\ codes # <<>>
    /\ codes' = Tail(codes)
    /\ act' = [act EXCEPT ![Worker] = [@ EXCEPT !.pc = "pop", !.dir = Head(codes)]]
    /\ UNCHANGED <<sesVars, closed, ctxVars, byteVars, queue, batch, made>>

\* devtrl_popUdpPacketData: the newest packet, labelled with the code's
\* direction.  No packet for the code is no error.
FillPacket ==
    /\ At(Worker, "pop")
    /\ queue = <<>> \/ Len(batch) < Room
    /\ IF queue = <<>> THEN UNCHANGED <<queue, batch>>
       ELSE /\ queue' = Tail(queue)
            /\ batch' = Append(batch, [Head(queue) EXCEPT !.dir = act[Worker].dir])
    /\ Goto(Worker, "filling")
    /\ UNCHANGED <<sesVars, closed, ctxVars, byteVars, codes, made>>

\* Mutant: the code of a packet that does not fit is dropped.
FillFullDrops ==
    /\ At(Worker, "pop")
    /\ queue # <<>> /\ Len(batch) >= Room
    /\ Goto(Worker, "next")
    /\ UNCHANGED <<sesVars, closed, ctxVars, byteVars, ioVars, made>>

\* The buffer is full: the packet and the code go back, and the read completes.
FillFull ==
    /\ At(Worker, "pop")
    /\ queue # <<>> /\ Len(batch) >= Room
    /\ codes' = <<act[Worker].dir>> \o codes
    /\ Goto(Worker, "next")
    /\ UNCHANGED <<sesVars, closed, ctxVars, byteVars, queue, batch, made>>

\* No more codes: the read completes.
FillEnd ==
    /\ At(Worker, "filling") /\ codes = <<>>
    /\ Goto(Worker, "next")
    /\ UNCHANGED <<sesVars, closed, ctxVars, byteVars, ioVars, made>>

\* ReadWorkThread takes the next packet of the batch, or reads again.
\* OnReadHandleEventDispath drops a denied packet and writes the others back.
NextPacket(deny) ==
    /\ At(Worker, "next")
    /\ IF batch = <<>>
       THEN act' = [act EXCEPT ![Worker] = Rest] /\ UNCHANGED batch
       ELSE /\ batch' = Tail(batch)
            /\ act' = [act EXCEPT ![Worker] =
                         IF deny THEN @
                         ELSE [Rest EXCEPT !.pc = "byId", !.ctx = Head(batch).ctx,
                                 !.pkt = Head(batch).pkt, !.dir = Head(batch).dir]]
    /\ UNCHANGED <<sesVars, closed, ctxVars, byteVars, queue, codes, made>>

(***************************************************************************)
(* The write request: devctrl_processInjectUDPPacket.                      *)
(***************************************************************************)

\* udp_findById.  For a context that is gone the packet is lost: a send asks for
\* a context without a handle, which udp_packetAllocatCtxHandle refuses.
ById ==
    LET c == act[Worker].ctx IN
    /\ At(Worker, "byId")
    /\ IF c \in listed
       THEN /\ Found(c)
            /\ act' = [act EXCEPT ![Worker] = [@ EXCEPT !.owes = 1, !.pc = "throttle"]]
       ELSE Goto(Worker, "next") /\ UNCHANGED refs
    /\ UNCHANGED <<sesVars, closed, state, home, listed, byHandle, byteVars, ioVars, made>>

\* A throttled direction answers 0, and the packet is lost: the service does not
\* write it again.  Otherwise the packet, its copy, the inject context, the MDL and
\* the net buffer list are allocated, and udpctx_addRef takes a reference for the
\* injection.
Request ==
    LET w == act[Worker] IN
    /\ At(Worker, "throttle")
    /\ IF w.dir \in busy[w.ctx]
       THEN Leave(Worker, w) /\ UNCHANGED refs
       ELSE /\ refs' = [refs EXCEPT ![w.ctx] = @ + 1]
            /\ act' = [act EXCEPT ![Worker] = [@ EXCEPT !.owes = 2, !.pc = "count"]]
    /\ UNCHANGED <<sesVars, closed, state, home, listed, byHandle, byteVars, ioVars, made>>

RequestFails ==
    /\ At(Worker, "throttle") /\ "request" \in Failing
    /\ Leave(Worker, act[Worker])
    /\ UNCHANGED <<sesVars, closed, ctxVars, byteVars, ioVars, made>>

\* The bytes are counted, and over the limit the direction is throttled.
CountBytes ==
    LET c == act[Worker].ctx
        d == act[Worker].dir
    IN /\ At(Worker, "count")
       /\ injected' = [injected EXCEPT ![c][d] = @ + 1]
       /\ busy' = IF injected[c][d] + 1 > Limit
                  THEN [busy EXCEPT ![c] = @ \cup {d}] ELSE busy
       /\ Goto(Worker, "inject")
       /\ UNCHANGED <<sesVars, closed, ctxVars, pended, ioVars, made>>

\* Mutant: the throttle stays on.
UncountKeepsBusy(c, d) ==
    /\ injected' = [injected EXCEPT ![c][d] = @ - 1]
    /\ UNCHANGED busy

\* The bytes are taken back, and at or below the limit the throttle is off.
Uncount(c, d) ==
    /\ injected' = [injected EXCEPT ![c][d] = @ - 1]
    /\ busy' = IF injected[c][d] - 1 <= Limit
               THEN [busy EXCEPT ![c] = @ \ {d}] ELSE busy

\* FwpsInjectTransport...Async: the injection's reference is the completion's.
Inject ==
    LET w == act[Worker] IN
    /\ At(Worker, "inject")
    /\ act' = [act EXCEPT
         ![Worker] = [@ EXCEPT !.owes = 1, !.pc = "drop"],
         ![w.pkt] = [Rest EXCEPT !.pc = "out", !.ctx = w.ctx, !.owes = 1, !.dir = w.dir]]
    /\ UNCHANGED <<sesVars, closed, ctxVars, byteVars, ioVars, made>>

\* Mutant: a refused injection keeps its reference.
InjectFailsKeeps ==
    LET w == act[Worker] IN
    /\ At(Worker, "inject") /\ "inject" \in Failing
    /\ Uncount(w.ctx, w.dir) /\ Leave(Worker, [w EXCEPT !.owes = 1])
    /\ UNCHANGED <<sesVars, closed, ctxVars, pended, ioVars, made>>

\* The injection is refused: bytes and reference are given back.  When the UDP or
\* the IP header cannot be built, the function breaks off behind the code that does
\* so, and both are lost.
InjectFails ==
    LET w == act[Worker] IN
    /\ At(Worker, "inject")
    /\ \/ "inject" \in Failing /\ Uncount(w.ctx, w.dir) /\ Leave(Worker, w)
       \/ "header" \in Failing /\ UNCHANGED <<injected, busy>>
                               /\ Leave(Worker, [w EXCEPT !.owes = 1])
    /\ UNCHANGED <<sesVars, closed, ctxVars, pended, ioVars, made>>

(***************************************************************************)
(* devctrl_udpInjectCompletion, in any thread, in any order.               *)
(***************************************************************************)

\* Mutant: the completion keeps its reference.
CompleteKeeps(p) ==
    /\ At(p, "out")
    /\ Uncount(act[p].ctx, act[p].dir)
    /\ act' = [act EXCEPT ![p] = Rest]
    /\ UNCHANGED <<sesVars, closed, ctxVars, pended, ioVars, made>>

\* The bytes are taken back under the context's lock.
CompleteBytes(p) ==
    /\ At(p, "out")
    /\ Uncount(act[p].ctx, act[p].dir)
    /\ Goto(p, "drop")
    /\ UNCHANGED <<sesVars, closed, ctxVars, pended, ioVars, made>>

(***************************************************************************)
(* The session: the device is opened by the service and closed with its    *)
(* handle, which waits for a request that is inside the driver.            *)
(***************************************************************************)

\* The handle is opened and the monitor enabled.
Open ==
    /\ session = "closed" /\ opens < Sessions
    /\ session' = "open" /\ monitor' = TRUE /\ opens' = opens + 1
    /\ UNCHANGED <<closed, ctxVars, byteVars, ioVars, made, act>>

\* Mutant: the close leaves the monitor on.
CloseMonitored ==
    /\ session = "open"
    /\ At(Worker, "idle") \/ At(Worker, "reading") \/ At(Worker, "next")
    /\ session' = "pause" /\ batch' = <<>>
    /\ act' = [act EXCEPT ![Worker] = Rest]
    /\ UNCHANGED <<monitor, opens, closed, ctxVars, byteVars, queue, codes, made>>

\* The service closes the handle and ends its worker: a pended read is cancelled,
\* what the worker has not written back is lost.  devctrl_close turns the monitor
\* off and sleeps in tcp_clean.
Close ==
    /\ session = "open"
    /\ At(Worker, "idle") \/ At(Worker, "reading") \/ At(Worker, "next")
    /\ session' = "pause" /\ monitor' = FALSE
    /\ batch' = <<>>
    /\ act' = [act EXCEPT ![Worker] = Rest]
    /\ UNCHANGED <<opens, closed, ctxVars, byteVars, queue, codes, made>>

\* Mutant: the close does not sleep.
PauseSkipped ==
    /\ session = "pause"
    /\ session' = "cleanQueue"
    /\ UNCHANGED <<monitor, opens, closed, ctxVars, byteVars, ioVars, made, act>>

\* The sleep is long enough for what is under way: the code counts on it, and
\* nothing in it checks.  After it only a closure can begin.
PauseEnds ==
    /\ session = "pause"
    /\ \A a \in Actors : At(a, "idle")
    /\ session' = "cleanQueue"
    /\ UNCHANGED <<monitor, opens, closed, ctxVars, byteVars, ioVars, made, act>>

\* udp_clean drops the queued packets ...
CleanQueue ==
    /\ session = "cleanQueue"
    /\ queue' = <<>> /\ session' = "cleanContexts"
    /\ UNCHANGED <<monitor, opens, closed, ctxVars, byteVars, codes, batch, made, act>>

\* ... and frees every context in the list, whatever its count.
CleanContexts ==
    /\ session = "cleanContexts"
    /\ state' = [c \in Contexts |-> IF c \in listed THEN "freed" ELSE state[c]]
    /\ byHandle' = [e \in Endpoints |-> IF \E c \in listed : home[c] = e
                                        THEN None ELSE byHandle[e]]
    /\ home' = [c \in Contexts |-> IF c \in listed THEN None ELSE home[c]]
    /\ listed' = {} /\ session' = "cleanCodes"
    /\ UNCHANGED <<monitor, opens, closed, refs, byteVars, ioVars, made, act>>

\* devctrl_clean drops the codes.
CleanCodes ==
    /\ session = "cleanCodes"
    /\ codes' = <<>> /\ session' = "closed"
    /\ UNCHANGED <<monitor, opens, closed, ctxVars, byteVars, queue, batch, made, act>>

(***************************************************************************)
(* The specification.                                                      *)
(***************************************************************************)

CalloutStep(k) ==
    \/ Find(k) \/ Alloc(k) \/ AllocFails(k) \/ Pend(k) \/ PendRefused(k)
    \/ Push(k) \/ PushFails(k) \/ PushCode(k)

ServeRead == FillCode \/ FillPacket \/ FillFull \/ FillEnd

WriteBack == ById \/ Request \/ RequestFails \/ CountBytes \/ Inject \/ InjectFails

WorkerStep == Read \/ (\E deny \in BOOLEAN : NextPacket(deny)) \/ WriteBack

CloseStep == PauseEnds \/ CleanQueue \/ CleanContexts \/ CleanCodes

Next ==
    \/ \E k \in Callers, e \in Endpoints :
         \/ \E d \in Directions, n \in 1..MaxBuffers : Classify(k, e, d, n)
         \/ Closure(k, e)
    \/ \E k \in Callers : CalloutStep(k)
    \/ \E a \in Actors : FreeCtx(a) \/ FreeUnhash(a)
    \/ ServeRead \/ WorkerStep
    \/ \E p \in Packets : CompleteBytes(p)
    \/ Open \/ Close \/ CloseStep

\* Callouts and completions run to their end, the I/O thread and the worker are
\* scheduled, and a close that has begun goes on.  Nothing has to be classified,
\* opened or closed.
Fairness ==
    /\ \A k \in Callers : WF_vars(CalloutStep(k))
    /\ \A a \in Actors : WF_vars(FreeCtx(a) \/ FreeUnhash(a))
    /\ \A p \in Packets : WF_vars(CompleteBytes(p))
    /\ WF_vars(ServeRead) /\ WF_vars(WorkerStep) /\ WF_vars(CloseStep)

Spec == Init /\ [][Next]_vars /\ Fairness

(***************************************************************************)
(* Properties.                                                             *)
(***************************************************************************)

LocalsType ==
    [pc : {"idle", "find", "alloc", "pend", "push", "code", "drop", "unhash",
           "reading", "filling", "pop", "next", "byId", "throttle", "count",
           "inject", "out"},
     ctx : Contexts \cup {None}, ep : Endpoints \cup {None}, owes : 0..2,
     left : 0..MaxBuffers, pkt : 0..MaxPackets, dir : Directions]

\* Type correctness of the callouts, the read path and the close.
TypeOK ==
    /\ monitor \in BOOLEAN /\ opens \in 0..Sessions
    /\ session \in {"closed", "open", "pause", "cleanQueue", "cleanContexts", "cleanCodes"}
    /\ closed \in SUBSET Endpoints
    /\ state \in [Contexts -> {"unused", "live", "freed"}]
    /\ home \in [Contexts -> Endpoints \cup {None}]
    /\ refs \in [Contexts -> Nat]
    /\ listed \in SUBSET Contexts
    /\ byHandle \in [Endpoints -> Contexts \cup {None}]
    /\ pended \in [Contexts -> [Directions -> Nat]]
    /\ injected \in [Contexts -> [Directions -> Nat]]
    /\ busy \in [Contexts -> SUBSET Directions]
    /\ queue \in Seq([pkt : Packets, ctx : Contexts, dir : Directions])
    /\ batch \in Seq([pkt : Packets, ctx : Contexts, dir : Directions])
    /\ codes \in Seq(Directions)
    /\ made \in 0..MaxPackets
    /\ act \in [Actors -> LocalsType]

\* The actors that hold a reference to c.
Holders(c) == {a \in Actors : act[a].ctx = c /\ act[a].owes > 0}

\* Only the closure of an endpoint can have a context freed under it, by udp_clean,
\* and then nobody else holds that context: one that a classify, a write request or
\* an injection holds is not freed (udp_freeCtx, udp_clean).
HeldContextsLive ==
    \A a \in Actors :
        act[a].owes > 0 /\ state[act[a].ctx] # "live" =>
            /\ a \in Callers /\ act[a].ep \in closed
            /\ Holders(act[a].ctx) = {a}

Owed(c) == LET held == Holders(c)
               Twice == {a \in held : act[a].owes = 2}
           IN Cardinality(held) + Cardinality(Twice)

\* The count of a context in the list is what its holders will give back, and one
\* more for the table of handles until the endpoint's closure takes that over:
\* nothing is given back twice and no reference is lost (udpctx.c).
CountIsOwed ==
    \A c \in listed :
        /\ refs[c] - Owed(c) \in {0, 1}
        /\ home[c] \notin closed => refs[c] = Owed(c) + 1
        /\ byHandle[home[c]] = c /\ home[c] \in closed => refs[c] = Owed(c)

\* The number of injections of c in direction d whose bytes are counted.
Counted(c, d) ==
    Cardinality({p \in Packets : At(p, "out") /\ act[p].ctx = c /\ act[p].dir = d})
    + (IF At(Worker, "inject") /\ act[Worker].ctx = c /\ act[Worker].dir = d THEN 1 ELSE 0)

\* A direction is throttled exactly while more is injected than the limit, and at
\* most one packet more: a throttle never stays on with nothing left that would
\* take it off (devctrl_processInjectUDPPacket, devctrl_udpInjectCompletion).
ThrottleIsExact ==
    \A c \in listed, d \in Directions :
        /\ injected[c][d] = Counted(c, d)
        /\ d \in busy[c] <=> injected[c][d] > Limit
        /\ injected[c][d] <= Limit + 1

\* Every queued packet has a code, queued or in the hand of the callout or the I/O
\* thread that has it: no packet waits for the event of another one.
PacketsHaveCodes ==
    Len(queue) <= Len(codes)
        + Cardinality({k \in Callers : At(k, "code")})
        + (IF At(Worker, "pop") THEN 1 ELSE 0)

\* When the device is closed nothing is left of its session that a later one would
\* meet: no packet, no code and no context, but one that a closure has already taken
\* out of the list and is about to free (devctrl_close).
CloseLeavesNothing ==
    session = "closed" =>
        /\ listed = {} /\ queue = <<>> /\ codes = <<>> /\ batch = <<>>
        /\ \A c \in Contexts :
             state[c] = "live" \/ (\E e \in Endpoints : byHandle[e] = c) =>
                 \E k \in Callers : At(k, "unhash") /\ act[k].ctx = c /\ home[c] \in closed

\* A packet that was taken out of the stack does not stay in the queue: the worker
\* gets it, or the close drops it.
QueueDrains == \A p \in Packets :
    (\E i \in 1..Len(queue) : queue[i].pkt = p)
        ~> ~(\E i \in 1..Len(queue) : queue[i].pkt = p)

\* The context of an endpoint that was closed is freed in the end, whatever
\* injections were under way.
ClosedIsFreed == \A e \in Endpoints : e \in closed ~> byHandle[e] = None
=============================================================================
