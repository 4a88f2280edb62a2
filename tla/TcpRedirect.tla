---------------------------- MODULE TcpRedirect ----------------------------
(***************************************************************************)
(* The TCP path of the network driver (MonitorEvent/netdrv): the connect   *)
(* redirect callout pends the classification of each outgoing connection   *)
(* and queues a record of it (callouts.c, tcpctx.c); the service's worker  *)
(* reads the records and writes a verdict for each, which completes the    *)
(* classification (devctrl.c, netdrvlib/workqueue.cpp); the close of the   *)
(* device completes those that are still pended (tcp_clean).               *)
(*                                                                         *)
(* Every connection has a context of its own, so a connection's name also  *)
(* names its context.  A step is what runs under one hold of g_slTcpCtx or *)
(* of a list lock, or one call of the filtering platform.                  *)
(***************************************************************************)
EXTENDS Naturals, Sequences, FiniteSets

CONSTANTS
    Conns,      \* outgoing connections, each classified once
    Room,       \* records that fit into the shared input buffer
    Sessions,   \* bound on the times the device is opened
    Failing,    \* what may fail: a subset of AllFailures
    None        \* no connection

AllFailures == {"alloc", "pend", "push", "code", "answer"}
Threads == {"worker", "closer"}

ASSUME TcpAssumption ==
    /\ Sessions \in Nat /\ Room \in Nat \ {0}
    /\ Failing \subseteq AllFailures
    /\ None \notin Conns

VARIABLES
    monitor,    \* g_monitorflag
    session,    \* the device: "closed", "open" or a stage of devctrl_close
    opens,      \* how often it was opened
    pc,         \* each connection's classify callout
    classify,   \* what the platform knows: "none", "pended" or "permitted"
    completed,  \* the calls of FwpsCompleteClassify for it
    state,      \* each context: "unused", "live" or "freed"
    refs,       \* its refCount
    hasHandle,  \* its transportEndpointHandle is set
    hasClassify,\* its redirectInfo.classifyHandle is set
    isPended,   \* its redirectInfo.isPended
    listed,     \* contexts in g_lTcpCtx
    byId,       \* contexts in g_phtTcpCtxById
    records,    \* g_tcpctx_data, newest first
    codes,      \* the codes of these records in g_IoQueryHead
    batch,      \* what the input buffer holds for the worker
    act         \* the worker of the service, and devctrl_close: program counter,
                \* the context in hand and the references it still releases

ctxVars  == <<state, refs, hasHandle, hasClassify, isPended, listed, byId>>
wfpVars  == <<classify, completed>>
ioVars   == <<records, codes, batch>>
sesVars  == <<monitor, session, opens>>
vars     == <<sesVars, pc, wfpVars, ctxVars, ioVars, act>>

Rest == [pc |-> "idle", conn |-> None, left |-> 0]

\* Where a thread goes on when it has released its context.
Done(a) == [Rest EXCEPT !.pc = IF a = "worker" THEN "next" ELSE "idle"]

Goto(a, p) == act' = [act EXCEPT ![a].pc = p]

Init ==
    /\ monitor = FALSE /\ session = "closed" /\ opens = 0
    /\ pc = [c \in Conns |-> "idle"]
    /\ classify = [c \in Conns |-> "none"]
    /\ completed = [c \in Conns |-> 0]
    /\ state = [c \in Conns |-> "unused"]
    /\ refs = [c \in Conns |-> 0]
    /\ hasHandle = [c \in Conns |-> FALSE]
    /\ hasClassify = [c \in Conns |-> FALSE]
    /\ isPended = [c \in Conns |-> FALSE]
    /\ listed = {} /\ byId = {}
    /\ records = <<>> /\ codes = 0 /\ batch = <<>>
    /\ act = [a \in Threads |-> Rest]

(***************************************************************************)
(* helper_callout_classFn_connectredirect.                                 *)
(***************************************************************************)

\* A connection is classified while the monitor is on.
Connect(c) ==
    /\ pc[c] = "idle" /\ monitor
    /\ pc' = [pc EXCEPT ![c] = "alloc"]
    /\ UNCHANGED <<sesVars, wfpVars, ctxVars, ioVars, act>>

\* tcp_packallocatectx: the one reference is the list's.
Alloc(c) ==
    /\ pc[c] = "alloc"
    /\ state' = [state EXCEPT ![c] = "live"]
    /\ refs' = [refs EXCEPT ![c] = 1]
    /\ listed' = listed \cup {c} /\ byId' = byId \cup {c}
    /\ pc' = [pc EXCEPT ![c] = "describe"]
    /\ UNCHANGED <<sesVars, wfpVars, hasHandle, hasClassify, isPended, ioVars, act>>

AllocFails(c) ==
    /\ pc[c] = "alloc" /\ "alloc" \in Failing
    /\ classify' = [classify EXCEPT ![c] = "permitted"]
    /\ pc' = [pc EXCEPT ![c] = "done"]
    /\ UNCHANGED <<sesVars, completed, ctxVars, ioVars, act>>

\* The addresses, the process and the endpoint handle are copied.
Describe(c) ==
    /\ pc[c] = "describe"
    /\ hasHandle' = [hasHandle EXCEPT ![c] = TRUE]
    /\ pc' = [pc EXCEPT ![c] = "pend"]
    /\ UNCHANGED <<sesVars, wfpVars, state, refs, hasClassify, isPended, listed, byId,
                   ioVars, act>>

\* FwpsAcquireClassifyHandle and FwpsPendClassify.
Pend(c) ==
    /\ pc[c] = "pend"
    /\ hasClassify' = [hasClassify EXCEPT ![c] = TRUE]
    /\ classify' = [classify EXCEPT ![c] = "pended"]
    /\ pc' = [pc EXCEPT ![c] = "mark"]
    /\ UNCHANGED <<sesVars, completed, state, refs, hasHandle, isPended, listed, byId,
                   ioVars, act>>

\* The platform refuses: the connection is permitted, its context stays.
PendFails(c) ==
    /\ pc[c] = "pend" /\ "pend" \in Failing
    /\ hasClassify' = [hasClassify EXCEPT ![c] = TRUE]
    /\ classify' = [classify EXCEPT ![c] = "permitted"]
    /\ pc' = [pc EXCEPT ![c] = "done"]
    /\ UNCHANGED <<sesVars, completed, state, refs, hasHandle, isPended, listed, byId,
                   ioVars, act>>

\* isPended is set, and the context is entered under its handle.
Mark(c) ==
    /\ pc[c] = "mark"
    /\ isPended' = [isPended EXCEPT ![c] = TRUE]
    /\ pc' = [pc EXCEPT ![c] = "push"]
    /\ UNCHANGED <<sesVars, wfpVars, state, refs, hasHandle, hasClassify, listed, byId,
                   ioVars, act>>

\* push_tcpRedirectinfo: a copy of the context goes to the head of the list ...
Push(c) ==
    /\ pc[c] = "push"
    /\ records' = <<c>> \o records
    /\ pc' = [pc EXCEPT ![c] = "code"]
    /\ UNCHANGED <<sesVars, wfpVars, ctxVars, codes, batch, act>>

\* ... or cannot be allocated: the callout permits what it has pended, and nobody
\* is asked for a verdict.
PushFails(c) ==
    /\ pc[c] = "push" /\ "push" \in Failing
    /\ pc' = [pc EXCEPT ![c] = "done"]
    /\ UNCHANGED <<sesVars, wfpVars, ctxVars, ioVars, act>>

\* devctrl_pushEventQueryLisy; the callout does not look at its status.
PushCode(c) ==
    /\ pc[c] = "code"
    /\ \/ codes' = codes + 1
       \/ "code" \in Failing /\ UNCHANGED codes
    /\ pc' = [pc EXCEPT ![c] = "done"]
    /\ UNCHANGED <<sesVars, wfpVars, ctxVars, records, batch, act>>

(***************************************************************************)
(* Contexts: tcpctx.c.                                                     *)
(***************************************************************************)

\* Mutant: the context goes on counting as pended.
PurgeKeeps(c) ==
    /\ completed' = [completed EXCEPT ![c] = IF hasClassify[c] /\ isPended[c] THEN @ + 1 ELSE @]
    /\ UNCHANGED <<hasClassify, isPended>>

\* tcp_purgeRedirectInfo completes a pended classification with the output the
\* context holds, and releases the platform's handle.  It takes no lock; one step
\* stands for it since no other purge meets it: the verdict has a reference, and
\* the other purges come with the last one.
Purge(c) ==
    /\ hasClassify' = [hasClassify EXCEPT ![c] = FALSE]
    /\ IF hasClassify[c] /\ isPended[c]
       THEN /\ completed' = [completed EXCEPT ![c] = @ + 1]
            /\ isPended' = [isPended EXCEPT ![c] = FALSE]
       ELSE UNCHANGED <<completed, isPended>>

\* tcp_release up to the release of the lock: the last reference takes the context
\* out of the list and the table of ids.
Release(a) ==
    LET c == act[a].conn
        left == act[a].left - 1
        last == refs[c] = 1
    IN /\ act[a].pc = "release"
       /\ refs' = [refs EXCEPT ![c] = IF @ = 0 THEN 0 ELSE @ - 1]
       /\ listed' = IF last THEN listed \ {c} ELSE listed
       /\ byId' = IF last THEN byId \ {c} ELSE byId
       /\ act' = [act EXCEPT ![a] =
                    IF last THEN [@ EXCEPT !.pc = "free", !.left = left]
                    ELSE IF left = 0 THEN Done(a)
                    ELSE [@ EXCEPT !.left = left]]
       /\ UNCHANGED <<sesVars, pc, wfpVars, state, hasHandle, hasClassify, isPended, ioVars>>

\* The rest of tcp_release: whatever is still pended is completed.
Free(a) ==
    LET c == act[a].conn IN
    /\ act[a].pc = "free"
    /\ Purge(c)
    /\ hasHandle' = [hasHandle EXCEPT ![c] = FALSE]
    /\ state' = [state EXCEPT ![c] = "freed"]
    /\ act' = [act EXCEPT ![a] = IF @.left = 0 THEN Done(a) ELSE [@ EXCEPT !.pc = "release"]]
    /\ UNCHANGED <<sesVars, pc, classify, refs, listed, byId, ioVars>>

(***************************************************************************)
(* The worker: devctrl_readEx, devctrl_fillBuffer, ReadWorkThread.         *)
(***************************************************************************)

Read ==
    /\ act["worker"].pc = "idle" /\ session = "open"
    /\ Goto("worker", "reading")
    /\ UNCHANGED <<sesVars, pc, wfpVars, ctxVars, ioVars>>

\* Mutant: a code is taken from an empty list.
FillCodeUntested ==
    /\ act["worker"].pc \in {"reading", "filling"}
    /\ codes' = codes - 1
    /\ Goto("worker", "pop")
    /\ UNCHANGED <<sesVars, pc, wfpVars, ctxVars, records, batch>>

\* The I/O thread pops a code ...
FillCode ==
    /\ act["worker"].pc \in {"reading", "filling"} /\ codes > 0
    /\ codes' = codes - 1
    /\ Goto("worker", "pop")
    /\ UNCHANGED <<sesVars, pc, wfpVars, ctxVars, records, batch>>

\* ... and for it the newest record, if there is one (devtrl_popTcpRedirectConnectData).
FillRecord ==
    /\ act["worker"].pc = "pop"
    /\ IF records = <<>> THEN UNCHANGED <<records, batch>>
       ELSE /\ Len(batch) < Room
            /\ records' = Tail(records)
            /\ batch' = Append(batch, Head(records))
    /\ Goto("worker", "filling")
    /\ UNCHANGED <<sesVars, pc, wfpVars, ctxVars, codes>>

\* Mutant: the code of a record that does not fit is dropped.
FillFullDrops ==
    /\ act["worker"].pc = "pop" /\ records # <<>> /\ Len(batch) >= Room
    /\ Goto("worker", "next")
    /\ UNCHANGED <<sesVars, pc, wfpVars, ctxVars, ioVars>>

\* The buffer is full: record and code go back, and the read completes.
FillFull ==
    /\ act["worker"].pc = "pop" /\ records # <<>> /\ Len(batch) >= Room
    /\ codes' = codes + 1
    /\ Goto("worker", "next")
    /\ UNCHANGED <<sesVars, pc, wfpVars, ctxVars, records, batch>>

FillEnd ==
    /\ act["worker"].pc = "filling" /\ codes = 0
    /\ Goto("worker", "next")
    /\ UNCHANGED <<sesVars, pc, wfpVars, ctxVars, ioVars>>

\* OnReadHandleEventDispath writes a verdict for each record, unless it finds no
\* memory for it.
NextRecord ==
    /\ act["worker"].pc = "next"
    /\ IF batch = <<>> THEN act' = [act EXCEPT !["worker"] = Rest] /\ UNCHANGED batch
       ELSE /\ batch' = Tail(batch)
            /\ \/ act' = [act EXCEPT !["worker"] =
                            [pc |-> "find", conn |-> Head(batch), left |-> 1]]
               \/ "answer" \in Failing /\ UNCHANGED act
    /\ UNCHANGED <<sesVars, pc, wfpVars, ctxVars, records, codes>>

\* Mutant: the context is used without a reference.
FindByIdUncounted ==
    /\ act["worker"].pc = "find"
    /\ act' = [act EXCEPT !["worker"] =
                 IF @.conn \in byId THEN [@ EXCEPT !.pc = "verdict"] ELSE Done("worker")]
    /\ UNCHANGED <<sesVars, pc, wfpVars, ctxVars, ioVars>>

\* devctrl_processTcpConnect: tcp_find takes a reference.
FindById ==
    /\ act["worker"].pc = "find"
    /\ IF act["worker"].conn \in byId
       THEN /\ refs' = [refs EXCEPT ![act["worker"].conn] = @ + 1]
            /\ Goto("worker", "verdict")
       ELSE act' = [act EXCEPT !["worker"] = Done("worker")] /\ UNCHANGED refs
    /\ UNCHANGED <<sesVars, pc, wfpVars, state, hasHandle, hasClassify, isPended, listed,
                   byId, ioVars>>

\* The verdict is applied while the classification is pended.
Verdict ==
    /\ act["worker"].pc = "verdict"
    /\ IF isPended[act["worker"].conn] THEN Purge(act["worker"].conn)
       ELSE UNCHANGED <<completed, hasClassify, isPended>>
    /\ Goto("worker", "release")
    /\ UNCHANGED <<sesVars, pc, classify, state, refs, hasHandle, listed, byId, ioVars>>

(***************************************************************************)
(* The session.                                                            *)
(***************************************************************************)

Open ==
    /\ session = "closed" /\ opens < Sessions
    /\ session' = "open" /\ monitor' = TRUE /\ opens' = opens + 1
    /\ UNCHANGED <<pc, wfpVars, ctxVars, ioVars, act>>

\* The handle is closed while no request is inside the driver; the worker's pended
\* read is cancelled and the rest of its batch lost.  devctrl_close turns the
\* monitor off, and tcp_clean drops the records.
Close ==
    /\ session = "open" /\ act["worker"].pc \in {"idle", "reading", "next"}
    /\ session' = "remove" /\ monitor' = FALSE
    /\ act' = [act EXCEPT !["worker"] = Rest] /\ records' = <<>> /\ batch' = <<>>
    /\ UNCHANGED <<opens, pc, wfpVars, ctxVars, codes>>

\* Mutant: the close releases a context without a reference of its own.
RemoveUncounted(c) ==
    /\ session = "remove" /\ act["closer"].pc = "idle" /\ c \in listed
    /\ listed' = listed \ {c}
    /\ act' = [act EXCEPT !["closer"] = [pc |-> "flow", conn |-> c, left |-> 0]]
    /\ UNCHANGED <<sesVars, pc, wfpVars, state, refs, hasHandle, hasClassify, isPended, byId,
                   ioVars>>

\* tcp_removeFromFlows takes the next context out of the list, with a reference.
\* It runs before the sleep, and a callout may be at work on the context.
RemoveContext(c) ==
    /\ session = "remove" /\ act["closer"].pc = "idle" /\ c \in listed
    /\ listed' = listed \ {c}
    /\ refs' = [refs EXCEPT ![c] = @ + 1]
    /\ act' = [act EXCEPT !["closer"] = [pc |-> "flow", conn |-> c, left |-> 0]]
    /\ UNCHANGED <<sesVars, pc, wfpVars, state, hasHandle, hasClassify, isPended, byId,
                   ioVars>>

\* Mutant: the reference of the list is not released.
TestHandleNot ==
    /\ act["closer"].pc = "flow"
    /\ act' = [act EXCEPT !["closer"] = [@ EXCEPT !.pc = "release", !.left = 1]]
    /\ UNCHANGED <<sesVars, pc, wfpVars, ctxVars, ioVars>>

\* After FwpsFlowRemoveContext: a context with an endpoint handle is released
\* once more.
TestHandle ==
    /\ act["closer"].pc = "flow"
    /\ act' = [act EXCEPT !["closer"] = [@ EXCEPT !.pc = "release",
                                     !.left = IF hasHandle[act["closer"].conn] THEN 2 ELSE 1]]
    /\ UNCHANGED <<sesVars, pc, wfpVars, ctxVars, ioVars>>

\* The list is empty, and tcp_clean sleeps.
RemoveEnds ==
    /\ session = "remove" /\ act["closer"].pc = "idle" /\ listed = {}
    /\ session' = "pause"
    /\ UNCHANGED <<monitor, opens, pc, wfpVars, ctxVars, ioVars, act>>

\* The sleep is long enough for the callouts under way: the code counts on it.
PauseEnds ==
    /\ session = "pause" /\ \A c \in Conns : pc[c] \in {"idle", "done"}
    /\ session' = "releaseFlows"
    /\ UNCHANGED <<monitor, opens, pc, wfpVars, ctxVars, ioVars, act>>

\* tcp_releaseFlows releases what was listed meanwhile.
ReleaseFlow(c) ==
    /\ session = "releaseFlows" /\ act["closer"].pc = "idle" /\ c \in listed
    /\ act' = [act EXCEPT !["closer"] = [pc |-> "release", conn |-> c, left |-> 1]]
    /\ UNCHANGED <<sesVars, pc, wfpVars, ctxVars, ioVars>>

\* devctrl_clean drops the codes.
CleanCodes ==
    /\ session = "releaseFlows" /\ act["closer"].pc = "idle" /\ listed = {}
    /\ codes' = 0 /\ session' = "closed"
    /\ UNCHANGED <<monitor, opens, pc, wfpVars, ctxVars, records, batch, act>>

(***************************************************************************)
(* The specification.                                                      *)
(***************************************************************************)

CalloutStep(c) ==
    \/ Alloc(c) \/ AllocFails(c) \/ Describe(c) \/ Pend(c) \/ PendFails(c)
    \/ Mark(c) \/ Push(c) \/ PushFails(c) \/ PushCode(c)

ServeRead == FillCode \/ FillRecord \/ FillFull \/ FillEnd

WorkerStep == Read \/ NextRecord \/ FindById \/ Verdict \/ Release("worker") \/ Free("worker")

CloseStep ==
    \/ \E c \in Conns : RemoveContext(c) \/ ReleaseFlow(c)
    \/ TestHandle \/ Release("closer") \/ Free("closer") \/ RemoveEnds \/ PauseEnds \/ CleanCodes

Next ==
    \/ \E c \in Conns : Connect(c) \/ CalloutStep(c)
    \/ ServeRead \/ WorkerStep
    \/ Open \/ Close \/ CloseStep

\* The callouts run to their end, the I/O thread and the worker are scheduled, and
\* a close that has begun goes on.
Fairness ==
    /\ \A c \in Conns : WF_vars(CalloutStep(c))
    /\ WF_vars(ServeRead) /\ WF_vars(WorkerStep) /\ WF_vars(CloseStep)

Spec == Init /\ [][Next]_vars /\ Fairness

(***************************************************************************)
(* Properties.                                                             *)
(***************************************************************************)

\* Type correctness of the callouts, the worker and the close.
TypeOK ==
    /\ monitor \in BOOLEAN /\ opens \in 0..Sessions
    /\ session \in {"closed", "open", "remove", "pause", "releaseFlows"}
    /\ pc \in [Conns -> {"idle", "alloc", "describe", "pend", "mark", "push", "code", "done"}]
    /\ classify \in [Conns -> {"none", "pended", "permitted"}]
    /\ completed \in [Conns -> Nat]
    /\ state \in [Conns -> {"unused", "live", "freed"}]
    /\ refs \in [Conns -> Nat]
    /\ hasHandle \in [Conns -> BOOLEAN] /\ hasClassify \in [Conns -> BOOLEAN]
    /\ isPended \in [Conns -> BOOLEAN]
    /\ listed \in SUBSET Conns /\ byId \in SUBSET Conns
    /\ records \in Seq(Conns) /\ batch \in Seq(Conns) /\ codes \in Nat
    /\ act \in [Threads ->
         [pc : {"idle", "reading", "filling", "pop", "next", "find", "verdict", "flow",
                "release", "free"}, conn : Conns \cup {None}, left : 0..2]]

\* A classification is completed at most once, only after it was pended, and when
\* it has been the context no longer counts as pended (tcp_purgeRedirectInfo, from
\* the verdict and from the last release).
CompletedOnce ==
    \A c \in Conns :
        /\ completed[c] <= 1
        /\ completed[c] = 1 => classify[c] = "pended" /\ ~isPended[c]

\* The callout of c has its context and works on it.
Working(c) == pc[c] \in {"describe", "pend", "mark", "push", "code"}

\* A context that the worker or the close works on is not freed, and its callout can
\* have it freed under it only by tcp_removeFromFlows, in the close of the device
\* and not after its sleep (tcp_clean).
UsedContextsLive ==
    \A c \in Conns : state[c] # "live" =>
        /\ \A a \in Threads : act[a].conn = c => act[a].pc = "find"
        /\ Working(c) => session \in {"remove", "pause"}

\* A context in the list carries one reference for the list and one for the worker
\* that has found it: no release is missing and none is made twice.
ListedCount ==
    \A c \in listed :
        refs[c] = 1 + (IF act["worker"].conn = c /\ act["worker"].pc \in {"verdict", "release"} THEN 1 ELSE 0)

\* Whatever the close of the device finds listed and pended is completed by it,
\* whoever was asked for a verdict (tcp_removeFromFlows, tcp_releaseFlows).
CloseCompletes ==
    \A c \in Conns :
        (c \in listed /\ isPended[c] /\ session \notin {"open", "closed"}) ~> completed[c] = 1

\* A connection whose record was queued while its context is listed gets its
\* verdict, or is completed by the close.
AskedIsAnswered ==
    \A c \in Conns :
        (c \in listed /\ \E i \in 1..Len(records) : records[i] = c) ~> completed[c] = 1

\* FwpsPendClassify0 is followed by FwpsCompleteClassify (devctrl.c:930): when the
\* device is closed no connection hangs on a verdict of the service that has gone.
PendedIsCompleted ==
    session = "closed" => \A c \in Conns : classify[c] = "pended" => completed[c] = 1
=============================================================================
