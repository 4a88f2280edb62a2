------------------------- MODULE TcpLifetimeProofs -------------------------
(***************************************************************************)
(* Proofs about TcpRedirect of the references and the lifetime of its      *)
(* contexts, for every number of connections and sessions and whatever     *)
(* fails, also when the close meets a callout that works on a context.     *)
(* The argument: what the close takes leaves the list, so the references   *)
(* of a listed context are those of the list and of the worker; and what   *)
(* the worker and the close have in hand is still in the table of ids,     *)
(* with at least the references they give back.                            *)
(***************************************************************************)
EXTENDS TcpRedirectProofs

\* The worker has found the context of c, and the close has it in hand.
Holds(c) == act["worker"].conn = c /\ act["worker"].pc \in {"verdict", "release"}
Handled(c) == act["closer"].conn = c /\ act["closer"].pc \in {"flow", "release", "free"}

(***************************************************************************)
(* The references of a listed context: where the threads are, and that     *)
(* nobody has a context before it is allocated.                            *)
(***************************************************************************)
Posts ==
    /\ act["worker"].pc # "idle" => session = "open"
    /\ act["worker"].pc # "flow"
    /\ act["worker"].pc \in {"find", "verdict", "release"} => act["worker"].left = 1
    /\ act["worker"].pc = "free" => act["worker"].left = 0
    /\ act["closer"].pc \in {"idle", "flow", "release", "free"}
    /\ act["closer"].pc # "idle" => session \in {"remove", "releaseFlows"}

Exact(c) ==
    /\ pc[c] \in {"idle", "alloc"} => c \notin listed /\ c \notin byId /\ ~Holds(c) /\ ~Handled(c)
    /\ c \in listed => refs[c] = IF Holds(c) THEN 2 ELSE 1
    /\ c \in listed /\ Handled(c) => act["closer"].pc = "release" /\ act["closer"].left = 1

CountInv == TcpInv /\ Posts /\ \A c \in Conns : Exact(c)

\* What a step does not touch: everything the count of d is about.
Uncounted(d) ==
    /\ pc'[d] = pc[d] /\ refs'[d] = refs[d]
    /\ d \in listed' <=> d \in listed
    /\ d \in byId' <=> d \in byId
    /\ Holds(d)' <=> Holds(d)
    /\ act'["closer"] = act["closer"] \/ ~Handled(d)'

LEMMA StaysExact ==
    ASSUME NEW d, Exact(d), Uncounted(d)
    PROVE  Exact(d)'
BY DEF Exact, Uncounted, Handled

LEMMA Typed ==
    ASSUME CountInv
    PROVE  /\ act \in [Threads -> Records] /\ "worker" \in Threads /\ "closer" \in Threads
           /\ refs \in [Conns -> Nat] /\ listed \subseteq Conns /\ byId \subseteq Conns
           /\ pc \in [Conns -> {"idle", "alloc", "describe", "pend", "mark", "push", "code", "done"}]
           /\ \A a \in Threads : act[a].pc \in {"find", "verdict", "flow", "release", "free"} =>
                                   act[a].conn \in Conns
           /\ \A c \in Conns : Holds(c) => session = "open"
           /\ \A c \in Conns : Handled(c) => session # "open"
           /\ Rest.pc = "idle" /\ Done("worker").pc = "next" /\ Done("closer").pc = "idle"
BY DEF CountInv, TcpInv, TInv, TypeOK, Acting, Records, Threads, Posts, Handled, Holds, Done, Rest

LEMMA InitCounts == Init => CountInv
<1> SUFFICES ASSUME Init PROVE CountInv
  OBVIOUS
<1>1. \A a \in Threads : act[a].pc = "idle" /\ act[a].conn = None
  BY DEF Init, Rest
<1>2. "worker" \in Threads /\ "closer" \in Threads
  BY DEF Threads
<1> QED
  BY <1>1, <1>2, InitTcp DEF Init, CountInv, Posts, Exact, Holds, Handled

\* A callout lists its context with one reference; its other steps count nothing.
LEMMA CalloutCounts ==
    ASSUME CountInv, NEW c \in Conns, Connect(c) \/ CalloutStep(c)
    PROVE  Posts' /\ \A d \in Conns : Exact(d)'
<1>1. act' = act /\ session' = session
  BY DEF Connect, CalloutStep, Alloc, AllocFails, Describe, Pend, PendFails, Mark, Push,
         PushFails, PushCode, sesVars
<1>2. Posts'
  BY <1>1 DEF CountInv, Posts
<1>3. CASE Alloc(c)
  <2>1. /\ pc' = [pc EXCEPT ![c] = "describe"] /\ refs' = [refs EXCEPT ![c] = 1]
        /\ listed' = listed \cup {c} /\ byId' = byId \cup {c} /\ pc[c] = "alloc"
    BY <1>3 DEF Alloc
  <2>2. ~Holds(c)' /\ ~Handled(c)'
    BY <1>1, <2>1 DEF CountInv, Exact, Holds, Handled
  <2>3. Exact(c)'
    BY <2>1, <2>2, Typed DEF Exact
  <2>4. ASSUME NEW d \in Conns, d # c PROVE Exact(d)'
    <3>1. Uncounted(d)
      BY <1>1, <2>1, <2>4, Typed DEF Uncounted, Holds
    <3> QED BY <3>1, StaysExact DEF CountInv
  <2> QED BY <1>2, <2>3, <2>4
<1>4. CASE ~Alloc(c)
  <2>1. UNCHANGED <<refs, listed, byId>>
    BY <1>4 DEF Connect, CalloutStep, AllocFails, Describe, Pend, PendFails, Mark, Push,
                PushFails, PushCode, ctxVars
  <2>2. \E p \in {"alloc", "describe", "pend", "mark", "push", "code", "done"} :
           pc' = [pc EXCEPT ![c] = p] /\ (p = "alloc" => pc[c] = "idle")
    BY <1>4 DEF Connect, CalloutStep, AllocFails, Describe, Pend, PendFails, Mark, Push,
                PushFails, PushCode
  <2>3. ASSUME NEW d \in Conns PROVE Exact(d)'
    <3>1. pc'[d] \in {"idle", "alloc"} => pc[d] \in {"idle", "alloc"}
      BY <2>2, Typed
    <3> QED BY <1>1, <2>1, <3>1 DEF CountInv, Exact, Holds, Handled
  <2> QED BY <1>2, <2>3
<1> QED BY <1>3, <1>4

\* The worker counts what it finds and gives it back, while the close is idle.
LEMMA WorkerCounts ==
    ASSUME CountInv, ServeRead \/ WorkerStep
    PROVE  Posts' /\ \A d \in Conns : Exact(d)'
<1>1. /\ session = "open" /\ session' = session /\ pc' = pc
      /\ act'["closer"] = act["closer"]
      /\ \A d \in Conns : ~Handled(d) /\ ~Handled(d)'
  <2>1. session' = session /\ pc' = pc
    BY DEF ServeRead, WorkerStep, Read, FillCode, FillRecord, FillFull, FillEnd, NextRecord, FindById,
           Verdict, Release, Free, sesVars
  <2>2. session = "open"
    BY DEF ServeRead, WorkerStep, Read, FillCode, FillRecord, FillFull, FillEnd, NextRecord, FindById,
           Verdict, Release, Free, CountInv, Posts
  <2>3. act'["closer"] = act["closer"]
    BY Typed DEF ServeRead, WorkerStep, Read, FillCode, FillRecord, FillFull, FillEnd, NextRecord, FindById,
                 Verdict, Release, Free, Goto
  <2> QED BY <2>1, <2>2, <2>3, Typed DEF Handled
<1>2. CASE ServeRead \/ Read \/ NextRecord
  <2>1. UNCHANGED <<refs, listed, byId>> /\ \A d \in Conns : ~Holds(d)
    BY <1>2 DEF ServeRead, Read, FillCode, FillRecord, FillFull, FillEnd, NextRecord, ctxVars, Holds
  <2>2. /\ act'["worker"].pc \in {"idle", "reading", "pop", "filling", "next", "find"}
        /\ act'["worker"].pc = "find" => act'["worker"].left = 1
    BY <1>2, Typed DEF ServeRead, Read, FillCode, FillRecord, FillFull, FillEnd, NextRecord, Goto, Records
  <2>3. \A d \in Conns : Uncounted(d)
    BY <1>1, <2>1, <2>2 DEF Uncounted, Holds
  <2>4. Posts'
    BY <1>1, <2>2 DEF CountInv, Posts
  <2> QED BY <2>3, <2>4, StaysExact DEF CountInv
<1>3. CASE FindById
  <2>1. PICK c \in Conns : act["worker"].conn = c
    BY <1>3, Typed DEF FindById
  <2>2. act["worker"].pc = "find" /\ act["worker"].left = 1 /\ listed' = listed /\ byId' = byId
    BY <1>3 DEF FindById, CountInv, Posts
  <2>3. CASE c \in byId
    <3>1. /\ refs' = [refs EXCEPT ![c] = @ + 1]
          /\ act'["worker"].pc = "verdict" /\ act'["worker"].conn = c /\ act'["worker"].left = 1
      BY <1>3, <2>1, <2>2, <2>3, Typed DEF FindById, Goto, Records
    <3>2. Posts'
      BY <1>1, <3>1 DEF CountInv, Posts
    <3>3. Holds(c)' /\ ~Holds(c) /\ \A d \in Conns : d # c => ~Holds(d)' /\ ~Holds(d)
      BY <2>2, <3>1 DEF Holds
    <3>4. Exact(c)'
      BY <1>1, <2>2, <2>3, <3>1, <3>3, Typed DEF CountInv, Exact
    <3>5. ASSUME NEW d \in Conns, d # c PROVE Exact(d)'
      <4>1. Uncounted(d)
        BY <1>1, <2>2, <3>1, <3>3, <3>5, Typed DEF Uncounted
      <4> QED BY <4>1, StaysExact DEF CountInv
    <3> QED BY <3>2, <3>4, <3>5
  <2>4. CASE c \notin byId
    <3>1. refs' = refs /\ act'["worker"] = Done("worker")
      BY <1>3, <2>1, <2>4, Typed DEF FindById
    <3>2. Posts'
      BY <1>1, <3>1, Typed DEF CountInv, Posts
    <3>3. \A d \in Conns : Uncounted(d)
      BY <1>1, <2>2, <3>1, Typed DEF Uncounted, Holds
    <3> QED BY <3>2, <3>3, StaysExact DEF CountInv
  <2> QED BY <2>3, <2>4
<1>4. CASE Verdict
  <2>1. /\ UNCHANGED <<refs, listed, byId>> /\ act["worker"].pc = "verdict" /\ act["worker"].left = 1
        /\ act'["worker"].pc = "release" /\ act'["worker"].conn = act["worker"].conn
        /\ act'["worker"].left = 1
    BY <1>4, Typed DEF Verdict, Goto, Records, CountInv, Posts
  <2>2. Posts'
    BY <1>1, <2>1 DEF CountInv, Posts
  <2>3. \A d \in Conns : Uncounted(d)
    BY <1>1, <2>1 DEF Uncounted, Holds
  <2> QED BY <2>2, <2>3, StaysExact DEF CountInv
<1>5. CASE Release("worker")
  <2>1. PICK c \in Conns : act["worker"].conn = c
    BY <1>5, Typed DEF Release
  <2>2. act["worker"].pc = "release" /\ act["worker"].left = 1 /\ refs[c] \in Nat
    BY <1>5, Typed DEF Release, CountInv, Posts
  <2>3. /\ refs' = [refs EXCEPT ![c] = IF @ = 0 THEN 0 ELSE @ - 1]
        /\ listed' = (IF refs[c] = 1 THEN listed \ {c} ELSE listed)
        /\ byId' = (IF refs[c] = 1 THEN byId \ {c} ELSE byId)
    BY <1>5, <2>1 DEF Release
  <2>4. act'["worker"].pc \in {"free", "next"} /\ (act'["worker"].pc = "free" => act'["worker"].left = 0)
    <3>1. CASE refs[c] = 1
      <4>1. act' = [act EXCEPT !["worker"] = [@ EXCEPT !.pc = "free", !.left = 0]]
        BY <1>5, <2>1, <2>2, <3>1 DEF Release
      <4> QED BY <4>1, Typed DEF Records
    <3>2. CASE refs[c] # 1
      <4>1. act' = [act EXCEPT !["worker"] = Done("worker")]
        BY <1>5, <2>1, <2>2, <3>2 DEF Release
      <4> QED BY <4>1, Typed
    <3> QED BY <3>1, <3>2
  <2>5. Posts'
    BY <1>1, <2>4 DEF CountInv, Posts
  <2>6. \A d \in Conns : ~Holds(d)' /\ (Holds(d) <=> d = c)
    BY <2>1, <2>2, <2>4 DEF Holds
  <2>7. Exact(c)'
    BY <1>1, <2>2, <2>3, <2>6, Typed DEF CountInv, Exact
  <2>8. ASSUME NEW d \in Conns, d # c PROVE Exact(d)'
    <3>1. Uncounted(d)
      BY <1>1, <2>3, <2>6, <2>8, Typed DEF Uncounted
    <3> QED BY <3>1, StaysExact DEF CountInv
  <2> QED BY <2>5, <2>7, <2>8
<1>6. CASE Free("worker")
  <2>1. UNCHANGED <<refs, listed, byId>> /\ act["worker"].pc = "free" /\ act["worker"].left = 0
    BY <1>6 DEF Free, CountInv, Posts
  <2>2. act'["worker"] = Done("worker")
    BY <1>6, <2>1, Typed DEF Free
  <2>3. Posts'
    BY <1>1, <2>2, Typed DEF CountInv, Posts
  <2>4. \A d \in Conns : Uncounted(d)
    BY <1>1, <2>1, <2>2, Typed DEF Uncounted, Holds
  <2> QED BY <2>3, <2>4, StaysExact DEF CountInv
<1> QED BY <1>2, <1>3, <1>4, <1>5, <1>6 DEF WorkerStep

\* The close takes what it releases out of the list first, or releases the one
\* reference of what is still listed.
LEMMA CloserCounts ==
    ASSUME CountInv,
           \/ \E c \in Conns : RemoveContext(c) \/ ReleaseFlow(c)
           \/ TestHandle \/ Release("closer") \/ Free("closer")
    PROVE  Posts' /\ \A d \in Conns : Exact(d)'
<1>1. /\ session' = session /\ pc' = pc /\ act'["worker"] = act["worker"]
      /\ session \in {"remove", "releaseFlows"}
      /\ \A d \in Conns : ~Holds(d) /\ ~Holds(d)'
  <2>1. session' = session /\ pc' = pc
    BY DEF RemoveContext, ReleaseFlow, TestHandle, Release, Free, sesVars
  <2>2. act'["worker"] = act["worker"]
    BY Typed DEF RemoveContext, ReleaseFlow, TestHandle, Release, Free
  <2>3. session \in {"remove", "releaseFlows"}
    BY DEF RemoveContext, ReleaseFlow, TestHandle, Release, Free, CountInv, Posts
  <2> QED BY <2>1, <2>2, <2>3, Typed DEF Holds
<1>2. ASSUME NEW c \in Conns, RemoveContext(c) \/ ReleaseFlow(c)
      PROVE  Posts' /\ \A d \in Conns : Exact(d)'
  <2>1. /\ c \in listed /\ byId' = byId
        /\ \A d \in Conns : d # c => refs'[d] = refs[d] /\ (d \in listed' <=> d \in listed)
        /\ c \in listed' => refs' = refs
        /\ act'["closer"].pc \in {"flow", "release"} /\ act'["closer"].conn = c
        /\ c \in listed' => act'["closer"].pc = "release" /\ act'["closer"].left = 1
    BY <1>2, Typed DEF RemoveContext, ReleaseFlow, ctxVars
  <2>2. Posts'
    BY <1>1, <2>1 DEF CountInv, Posts
  <2>3. Exact(c)'
    BY <1>1, <2>1 DEF CountInv, Exact
  <2>4. ASSUME NEW d \in Conns, d # c PROVE Exact(d)'
    <3>1. Uncounted(d)
      BY <1>1, <2>1, <2>4 DEF Uncounted, Handled
    <3> QED BY <3>1, StaysExact DEF CountInv
  <2> QED BY <2>2, <2>3, <2>4
<1>3. CASE TestHandle \/ Free("closer")
  <2>1. PICK c \in Conns : act["closer"].conn = c
    BY <1>3, Typed DEF TestHandle, Free
  <2>2. UNCHANGED <<refs, listed, byId>> /\ act["closer"].pc \in {"flow", "free"}
    BY <1>3 DEF TestHandle, Free, ctxVars
  <2>3. /\ act'["closer"].pc \in {"idle", "release"}
        /\ act'["closer"].pc = "release" => act'["closer"].conn = c
    <3>1. CASE TestHandle
      BY <2>1, <3>1, Typed DEF TestHandle, Records
    <3>2. CASE Free("closer")
      BY <2>1, <3>2, Typed DEF Free, Records
    <3> QED BY <1>3, <3>1, <3>2
  <2>4. Posts'
    BY <1>1, <2>3 DEF CountInv, Posts
  <2>5. c \notin listed /\ pc[c] \notin {"idle", "alloc"}
    BY <2>1, <2>2 DEF CountInv, Exact, Handled
  <2>6. Exact(c)'
    BY <1>1, <2>2, <2>5 DEF Exact
  <2>7. ASSUME NEW d \in Conns, d # c PROVE Exact(d)'
    <3>1. Uncounted(d)
      BY <1>1, <2>2, <2>3, <2>7 DEF Uncounted, Handled
    <3> QED BY <3>1, StaysExact DEF CountInv
  <2> QED BY <2>4, <2>6, <2>7
<1>4. CASE Release("closer")
  <2>1. PICK c \in Conns : act["closer"].conn = c
    BY <1>4, Typed DEF Release
  <2>2. act["closer"].pc = "release" /\ pc[c] \notin {"idle", "alloc"} /\ refs[c] \in Nat
    BY <1>4, <2>1, Typed DEF Release, CountInv, Exact, Handled
  <2>3. /\ \A d \in Conns : d # c => refs'[d] = refs[d] /\ (d \in listed' <=> d \in listed)
                                       /\ (d \in byId' <=> d \in byId)
        /\ refs[c] = 1 => c \notin listed'
        /\ listed' \subseteq listed
    BY <1>4, <2>1, Typed DEF Release
  <2>4. /\ act'["closer"].pc \in {"idle", "release", "free"}
        /\ act'["closer"].pc # "idle" => act'["closer"].conn = c
    BY <1>4, <2>1, Typed DEF Release, Records
  <2>5. Posts'
    BY <1>1, <2>4 DEF CountInv, Posts
  <2>6. c \notin listed'
    BY <1>1, <2>3 DEF CountInv, Exact
  <2>7. Exact(c)'
    BY <1>1, <2>2, <2>6 DEF Exact
  <2>8. ASSUME NEW d \in Conns, d # c PROVE Exact(d)'
    <3>1. Uncounted(d)
      BY <1>1, <2>3, <2>4, <2>8 DEF Uncounted, Handled
    <3> QED BY <3>1, StaysExact DEF CountInv
  <2> QED BY <2>5, <2>7, <2>8
<1> QED BY <1>2, <1>3, <1>4

LEMMA SessionCounts ==
    ASSUME CountInv, Open \/ Close \/ RemoveEnds \/ PauseEnds \/ CleanCodes
    PROVE  Posts' /\ \A d \in Conns : Exact(d)'
<1>1. /\ UNCHANGED <<pc, refs, listed, byId>> /\ act'["closer"] = act["closer"]
      /\ act'["worker"] \in {act["worker"], Rest}
  BY Typed DEF Open, Close, RemoveEnds, PauseEnds, CleanCodes, ctxVars
<1>2. \A d \in Conns : ~Holds(d) /\ ~Holds(d)'
  BY <1>1, Typed DEF Open, Close, RemoveEnds, PauseEnds, CleanCodes, Holds
<1>3. \A d \in Conns : Uncounted(d)
  BY <1>1, <1>2 DEF Uncounted
<1>4. Posts'
  <2>1. CASE Open
    <3>1. act["closer"].pc = "idle" /\ act["worker"].pc = "idle" /\ session' = "open"
      BY <2>1 DEF Open, CountInv, Posts
    <3> QED BY <1>1, <3>1, Typed DEF Posts
  <2>2. CASE Close
    <3>1. act'["worker"].pc = "idle"
      BY <2>2, Typed DEF Close
    <3>2. act["closer"].pc = "idle" /\ session' = "remove"
      BY <2>2 DEF Close, CountInv, Posts
    <3> QED BY <1>1, <3>1, <3>2 DEF Posts
  <2>3. CASE RemoveEnds \/ PauseEnds \/ CleanCodes
    BY <2>3 DEF RemoveEnds, PauseEnds, CleanCodes, CountInv, Posts
  <2> QED BY <2>1, <2>2, <2>3
<1> QED BY <1>3, <1>4, StaysExact DEF CountInv

LEMMA StepCounts == CountInv /\ [Next]_vars => CountInv'
<1> SUFFICES ASSUME CountInv, [Next]_vars PROVE CountInv'
  OBVIOUS
<1>1. TcpInv'
  BY StepKeeps DEF CountInv
<1>2. CASE UNCHANGED vars
  BY <1>1, <1>2 DEF vars, sesVars, wfpVars, ctxVars, ioVars, CountInv, Posts, Exact, Holds, Handled
<1>3. CASE Next
  BY <1>1, <1>3, CalloutCounts, WorkerCounts, CloserCounts, SessionCounts DEF Next, CloseStep, CountInv
<1> QED BY <1>2, <1>3

\* tcp_find, tcp_removeFromFlows and tcp_release keep the references of a listed
\* context at exactly those of the list and of the worker, also when a close meets
\* a callout.
THEOREM ReferencesCounted == Spec => []ListedCount
<1>1. CountInv => ListedCount
  BY Typed DEF CountInv, Exact, ListedCount, Holds
<1> QED
  BY <1>1, InitCounts, StepCounts, PTL DEF Spec

-----------------------------------------------------------------------------
(***************************************************************************)
(* The lifetime of a context.                                              *)
(***************************************************************************)

\* The stages of a session: no callout is classified but while the monitor is on, and
\* none is under way behind the pause of the close.
Stages ==
    /\ monitor => session = "open"
    /\ session \in {"releaseFlows", "closed"} => \A c \in Conns : pc[c] \in {"idle", "done"}
    /\ act["worker"].pc # "free"
    /\ \A a \in Threads :
          act[a].pc \in {"idle", "reading", "filling", "pop", "next"} => act[a].conn = None

\* A context with an id is live and has a reference, and one more for the worker.
Counted(c) ==
    /\ c \in byId => state[c] = "live" /\ refs[c] # 0
    /\ c \in listed => c \in byId
    /\ Holds(c) => c \in byId /\ refs[c] # 1

\* What the close has in hand has the references that it gives back.
InHand(c) ==
    Handled(c) =>
        /\ act["closer"].pc = "flow" => c \in byId /\ refs[c] \notin {0, 1}
        /\ act["closer"].pc = "release" => c \in byId /\ refs[c] >= act["closer"].left
        /\ act["closer"].pc = "free" => act["closer"].left = 0 /\ state[c] = "live" /\ c \notin byId

\* Until the close begins, a callout works on a context of the list.
Called(c) == session = "open" /\ Working(c) => c \in listed

Used(c) == Counted(c) /\ InHand(c) /\ Called(c)

LiveInv == CountInv /\ Stages /\ \A c \in Conns : Used(c)

LEMMA StaysUsed ==
    ASSUME NEW d, Used(d), Uncounted(d), state'[d] = state[d], session' = "open" => session = "open"
    PROVE  Used(d)'
<1>1. Counted(d)'
  BY DEF Used, Counted, Uncounted
<1>2. InHand(d)'
  BY DEF Used, InHand, Uncounted, Handled
<1>3. Called(d)'
  BY DEF Used, Called, Uncounted, Working
<1> QED BY <1>1, <1>2, <1>3 DEF Used

LEMMA States ==
    ASSUME LiveInv
    PROVE  /\ state \in [Conns -> {"unused", "live", "freed"}] /\ CountInv
           /\ Rest.conn = None /\ Done("worker").conn = None /\ Done("closer").conn = None
BY DEF LiveInv, CountInv, TcpInv, TInv, TypeOK, Done, Rest

LEMMA InitLives == Init => LiveInv
<1> SUFFICES ASSUME Init PROVE LiveInv
  OBVIOUS
<1>1. \A a \in Threads : act[a].pc = "idle" /\ act[a].conn = None
  BY DEF Init, Rest
<1>2. "worker" \in Threads /\ "closer" \in Threads
  BY DEF Threads
<1>3. Stages
  BY <1>1, <1>2 DEF Init, Stages
<1>4. ASSUME NEW c \in Conns PROVE Used(c)
  BY <1>1, <1>2 DEF Init, Used, Counted, InHand, Called, Holds, Handled, Working
<1> QED BY <1>3, <1>4, InitCounts DEF LiveInv

\* A callout enters its context into the list; its other steps leave the lists alone.
LEMMA CalloutUses ==
    ASSUME LiveInv, NEW c \in Conns, Connect(c) \/ CalloutStep(c)
    PROVE  Stages' /\ \A d \in Conns : Used(d)'
<1>0. /\ act' = act /\ session' = session /\ monitor' = monitor
      /\ pc \in [Conns -> {"idle", "alloc", "describe", "pend", "mark", "push", "code", "done"}]
      /\ refs \in [Conns -> Nat]
  <2>1. act' = act /\ session' = session /\ monitor' = monitor
    BY DEF Connect, CalloutStep, Alloc, AllocFails, Describe, Pend, PendFails, Mark, Push,
           PushFails, PushCode, sesVars
  <2> QED BY <2>1, States, Typed
<1>1. \A d \in Conns : Holds(d)' = Holds(d) /\ Handled(d)' = Handled(d)
  BY <1>0 DEF Holds, Handled
<1>2. session \notin {"releaseFlows", "closed"}
  <2>1. CASE Connect(c)
    BY <2>1 DEF Connect, LiveInv, Stages
  <2>2. CASE CalloutStep(c)
    <3>1. pc[c] \notin {"idle", "done"}
      BY <2>2 DEF CalloutStep, Alloc, AllocFails, Describe, Pend, PendFails, Mark, Push, PushFails, PushCode
    <3> QED BY <3>1 DEF LiveInv, Stages
  <2> QED BY <2>1, <2>2
<1>3. Stages'
  BY <1>0, <1>2 DEF LiveInv, Stages
<1>4. CASE Alloc(c)
  <2>1. /\ pc' = [pc EXCEPT ![c] = "describe"] /\ refs' = [refs EXCEPT ![c] = 1] /\ pc[c] = "alloc"
        /\ listed' = listed \cup {c} /\ byId' = byId \cup {c} /\ state' = [state EXCEPT ![c] = "live"]
    BY <1>4 DEF Alloc
  <2>2. ~Holds(c) /\ ~Handled(c)
    BY <2>1 DEF LiveInv, CountInv, Exact
  <2>3. refs'[c] = 1 /\ state'[c] = "live"
    BY <1>0, <2>1, States
  <2>4. Used(c)'
    BY <1>1, <2>1, <2>2, <2>3 DEF Used, Counted, InHand, Called
  <2>5. ASSUME NEW d \in Conns, d # c PROVE Used(d)'
    <3>1. Uncounted(d) /\ state'[d] = state[d]
      BY <1>0, <1>1, <2>1, <2>5, States DEF Uncounted
    <3> QED BY <1>0, <3>1, StaysUsed DEF LiveInv
  <2> QED BY <1>3, <2>4, <2>5
<1>5. CASE ~Alloc(c)
  <2>1. UNCHANGED <<state, refs, listed, byId>>
    BY <1>5 DEF Connect, CalloutStep, AllocFails, Describe, Pend, PendFails, Mark, Push,
                PushFails, PushCode, ctxVars
  <2>2. /\ \A d \in Conns : d # c => pc'[d] = pc[d]
        /\ Working(c)' => Working(c)
    BY <1>0, <1>5 DEF Connect, CalloutStep, AllocFails, Describe, Pend, PendFails, Mark, Push,
                PushFails, PushCode, Working
  <2>3. ASSUME NEW d \in Conns PROVE Used(d)'
    <3>1. Counted(d) /\ InHand(d) /\ Called(d)
      BY DEF LiveInv, Used
    <3>2. Counted(d)' /\ InHand(d)'
      BY <1>0, <1>1, <2>1, <3>1 DEF Counted, InHand
    <3>3. Working(d)' => Working(d)
      BY <2>2 DEF Working
    <3> QED BY <1>0, <2>1, <3>1, <3>2, <3>3 DEF Used, Called
  <2> QED BY <1>3, <2>3
<1> QED BY <1>4, <1>5

\* The worker's reference is never the last: the list, or what the close has left
\* behind, has another.
LEMMA WorkerUses ==
    ASSUME LiveInv, ServeRead \/ WorkerStep
    PROVE  Stages' /\ \A d \in Conns : Used(d)'
<1>1. /\ session = "open" /\ session' = session /\ pc' = pc /\ monitor' = monitor
      /\ act'["closer"] = act["closer"]
      /\ \A d \in Conns : ~Handled(d) /\ ~Handled(d)'
  <2>1. session' = session /\ pc' = pc /\ monitor' = monitor
    BY DEF ServeRead, WorkerStep, Read, FillCode, FillRecord, FillFull, FillEnd, NextRecord, FindById,
           Verdict, Release, Free, sesVars
  <2>2. session = "open"
    BY DEF ServeRead, WorkerStep, Read, FillCode, FillRecord, FillFull, FillEnd, NextRecord, FindById,
           Verdict, Release, Free, LiveInv, CountInv, Posts
  <2>3. act'["closer"] = act["closer"]
    BY States, Typed DEF ServeRead, WorkerStep, Read, FillCode, FillRecord, FillFull, FillEnd, NextRecord,
                         FindById, Verdict, Release, Free, Goto
  <2> QED BY <2>1, <2>2, <2>3, States, Typed DEF Handled
<1>2. ~Free("worker")
  BY DEF Free, LiveInv, Stages
<1>3. CASE ServeRead \/ Read \/ NextRecord
  <2>1. UNCHANGED <<state, refs, listed, byId>> /\ \A d \in Conns : ~Holds(d)
    BY <1>3 DEF ServeRead, Read, FillCode, FillRecord, FillFull, FillEnd, NextRecord, ctxVars, Holds
  <2>2. /\ act'["worker"].pc \in {"idle", "reading", "pop", "filling", "next", "find"}
        /\ act'["worker"].pc # "find" => act'["worker"].conn = None
    <3>1. CASE ServeRead \/ Read
      <4>1. PICK p \in {"reading", "filling", "pop", "next"} : act' = [act EXCEPT !["worker"].pc = p]
        BY <3>1 DEF ServeRead, Read, FillCode, FillRecord, FillFull, FillEnd, Goto
      <4>2. act["worker"].conn = None
        BY <3>1, Typed DEF ServeRead, Read, FillCode, FillRecord, FillFull, FillEnd, LiveInv, Stages
      <4> QED BY <4>1, <4>2, States, Typed DEF Records
    <3>2. CASE NextRecord
      <4>1. act["worker"].pc = "next" /\ act["worker"].conn = None
        BY <3>2, Typed DEF NextRecord, LiveInv, Stages
      <4> QED BY <3>2, <4>1, States, Typed DEF NextRecord
    <3> QED BY <1>3, <3>1, <3>2
  <2>3. \A d \in Conns : Uncounted(d)
    BY <1>1, <2>1, <2>2 DEF Uncounted, Holds
  <2>4. Stages'
    BY <1>1, <2>2 DEF LiveInv, Stages, Threads
  <2> QED BY <1>1, <2>1, <2>3, <2>4, StaysUsed DEF LiveInv
<1>4. CASE FindById
  <2>1. PICK c \in Conns : act["worker"].conn = c
    BY <1>4, States, Typed DEF FindById
  <2>2. act["worker"].pc = "find" /\ listed' = listed /\ byId' = byId /\ state' = state
    BY <1>4 DEF FindById
  <2>3. CASE c \in byId
    <3>1. /\ refs' = [refs EXCEPT ![c] = @ + 1] /\ refs \in [Conns -> Nat]
          /\ act'["worker"].pc = "verdict" /\ act'["worker"].conn = c
      BY <1>4, <2>1, <2>2, <2>3, States, Typed DEF FindById, Goto, Records
    <3>2. Stages'
      BY <1>1, <3>1 DEF LiveInv, Stages, Threads
    <3>3. Holds(c)' /\ \A d \in Conns : d # c => ~Holds(d)' /\ ~Holds(d)
      BY <2>2, <3>1 DEF Holds
    <3>4. Used(c)'
      <4>1. refs[c] # 0 /\ state[c] = "live"
        BY <2>3 DEF LiveInv, Used, Counted
      <4>2. refs'[c] \notin {0, 1}
        BY <3>1, <4>1
      <4>3. Called(c)
        BY DEF LiveInv, Used
      <4> QED BY <1>1, <2>2, <2>3, <4>1, <4>2, <4>3 DEF Used, Counted, InHand, Called, Working
    <3>5. ASSUME NEW d \in Conns, d # c PROVE Used(d)'
      <4>1. Uncounted(d)
        BY <1>1, <2>2, <3>1, <3>3, <3>5 DEF Uncounted
      <4> QED BY <1>1, <2>2, <4>1, StaysUsed DEF LiveInv
    <3> QED BY <3>2, <3>4, <3>5
  <2>4. CASE c \notin byId
    <3>1. refs' = refs /\ act'["worker"] = Done("worker")
      BY <1>4, <2>1, <2>4, States, Typed DEF FindById
    <3>2. Stages'
      BY <1>1, <3>1, States, Typed DEF LiveInv, Stages, Threads
    <3>3. \A d \in Conns : Uncounted(d)
      BY <1>1, <2>2, <3>1, States, Typed DEF Uncounted, Holds
    <3> QED BY <1>1, <2>2, <3>2, <3>3, StaysUsed DEF LiveInv
  <2> QED BY <2>3, <2>4
<1>5. CASE Verdict
  <2>1. /\ UNCHANGED <<state, refs, listed, byId>> /\ act["worker"].pc = "verdict"
        /\ act'["worker"].pc = "release" /\ act'["worker"].conn = act["worker"].conn
    BY <1>5, States, Typed DEF Verdict, Goto, Records
  <2>2. Stages'
    BY <1>1, <2>1 DEF LiveInv, Stages, Threads
  <2>3. \A d \in Conns : Uncounted(d)
    BY <1>1, <2>1 DEF Uncounted, Holds
  <2> QED BY <1>1, <2>1, <2>2, <2>3, StaysUsed DEF LiveInv
<1>6. CASE Release("worker")
  <2>1. PICK c \in Conns : act["worker"].conn = c
    BY <1>6, States, Typed DEF Release
  <2>2. act["worker"].pc = "release" /\ act["worker"].left = 1 /\ state' = state /\ refs \in [Conns -> Nat]
    BY <1>6, States, Typed DEF Release, LiveInv, CountInv, Posts
  <2>3. Holds(c) /\ c \in byId /\ refs[c] \notin {0, 1}
    <3>1. Holds(c)
      BY <2>1, <2>2 DEF Holds
    <3> QED BY <3>1 DEF LiveInv, Used, Counted
  <2>4. /\ refs' = [refs EXCEPT ![c] = @ - 1] /\ listed' = listed /\ byId' = byId
        /\ act'["worker"] = Done("worker")
    <3>1. refs[c] # 0 /\ refs[c] # 1
      BY <2>2, <2>3
    <3>2. /\ refs' = [refs EXCEPT ![c] = IF @ = 0 THEN 0 ELSE @ - 1]
          /\ listed' = listed /\ byId' = byId
      BY <1>6, <2>1, <3>1 DEF Release
    <3>3. act'["worker"] = Done("worker")
      BY <1>6, <2>1, <2>2, <3>1, States, Typed DEF Release
    <3> QED BY <3>1, <3>2, <3>3
  <2>5. Stages'
    BY <1>1, <2>4, States, Typed DEF LiveInv, Stages, Threads
  <2>6. \A d \in Conns : ~Holds(d)' /\ (d # c => ~Holds(d))
    BY <2>1, <2>4, States, Typed DEF Holds
  <2>7. Used(c)'
    <3>1. refs'[c] # 0
      BY <2>2, <2>3, <2>4
    <3>2. Counted(c) /\ Called(c)
      BY DEF LiveInv, Used
    <3> QED BY <1>1, <2>2, <2>4, <2>6, <3>1, <3>2 DEF Used, Counted, InHand, Called, Working
  <2>8. ASSUME NEW d \in Conns, d # c PROVE Used(d)'
    <3>1. Uncounted(d)
      BY <1>1, <2>2, <2>4, <2>6, <2>8 DEF Uncounted
    <3> QED BY <1>1, <2>2, <3>1, StaysUsed DEF LiveInv
  <2> QED BY <2>5, <2>7, <2>8
<1> QED BY <1>2, <1>3, <1>4, <1>5, <1>6 DEF WorkerStep

\* The close gives back a reference it has taken, and one more, of the list: a context
\* in its hand is freed by its own last release only.
LEMMA CloserUses ==
    ASSUME LiveInv,
           \/ \E c \in Conns : RemoveContext(c) \/ ReleaseFlow(c)
           \/ TestHandle \/ Release("closer") \/ Free("closer")
    PROVE  Stages' /\ \A d \in Conns : Used(d)'
<1>1. /\ session' = session /\ pc' = pc /\ monitor' = monitor /\ act'["worker"] = act["worker"]
      /\ session \in {"remove", "releaseFlows"} /\ refs \in [Conns -> Nat]
      /\ \A d \in Conns : ~Holds(d) /\ ~Holds(d)' /\ Called(d)'
  <2>1. session' = session /\ pc' = pc /\ monitor' = monitor
    BY DEF RemoveContext, ReleaseFlow, TestHandle, Release, Free, sesVars
  <2>2. act'["worker"] = act["worker"]
    BY States, Typed DEF RemoveContext, ReleaseFlow, TestHandle, Release, Free
  <2>3. session \in {"remove", "releaseFlows"}
    BY DEF RemoveContext, ReleaseFlow, TestHandle, Release, Free, LiveInv, CountInv, Posts
  <2> QED BY <2>1, <2>2, <2>3, States, Typed DEF Holds, Called
<1>2. ASSUME act'["closer"].pc # "idle" \/ act'["closer"] = Done("closer") PROVE Stages'
  <2>1. act'["closer"].pc \in {"idle", "reading", "filling", "pop", "next"} => act'["closer"].conn = None
    <3>1. act'["closer"].pc \in {"idle", "flow", "release", "free"}
      BY CloserCounts, States DEF Posts
    <3> QED BY <1>2, <3>1, States
  <2> QED BY <1>1, <2>1 DEF LiveInv, Stages, Threads
\* The contexts that are not in hand.
<1>3. ASSUME NEW c \in Conns, act'["closer"].conn = c \/ act'["closer"] = Done("closer"),
             \A d \in Conns : d # c => /\ refs'[d] = refs[d] /\ state'[d] = state[d]
                                       /\ d \in listed' <=> d \in listed
                                       /\ d \in byId' <=> d \in byId,
             NEW d \in Conns, d # c
      PROVE  Used(d)'
  <2>1. Uncounted(d)
    BY <1>1, <1>3, States, Typed DEF Uncounted, Handled
  <2> QED BY <1>1, <1>3, <2>1, StaysUsed DEF LiveInv
<1>4. ASSUME NEW c \in Conns, RemoveContext(c) \/ ReleaseFlow(c)
      PROVE  Stages' /\ \A d \in Conns : Used(d)'
  <2>1. /\ c \in listed /\ byId' = byId /\ state' = state /\ listed' \subseteq listed
        /\ act'["closer"].conn = c
        /\ \A d \in Conns : d # c => refs'[d] = refs[d] /\ (d \in listed' <=> d \in listed)
        /\ \/ act'["closer"].pc = "flow" /\ refs'[c] = refs[c] + 1
           \/ act'["closer"].pc = "release" /\ act'["closer"].left = 1 /\ refs'[c] = refs[c]
    BY <1>1, <1>4, States, Typed DEF RemoveContext, ReleaseFlow, ctxVars
  <2>2. c \in byId /\ state[c] = "live" /\ refs[c] # 0 /\ refs[c] \in Nat
    BY <1>1, <2>1 DEF LiveInv, Used, Counted
  <2>3. refs'[c] # 0 /\ (act'["closer"].pc = "flow" => refs'[c] # 1) /\ refs'[c] \in Nat
    BY <2>1, <2>2
  <2>4. InHand(c)'
    <3>1. act'["closer"].pc = "release" => refs'[c] >= act'["closer"].left
      BY <2>1, <2>3
    <3> QED BY <2>1, <2>2, <2>3, <3>1 DEF InHand
  <2>5. Used(c)'
    BY <1>1, <2>1, <2>2, <2>3, <2>4 DEF Used, Counted
  <2>6. Stages'
    BY <1>2, <2>1
  <2> QED BY <1>3, <2>1, <2>5, <2>6
<1>5. CASE TestHandle
  <2>1. PICK c \in Conns : act["closer"].conn = c
    BY <1>5, States, Typed DEF TestHandle
  <2>2. /\ UNCHANGED <<state, refs, listed, byId>> /\ act["closer"].pc = "flow"
        /\ act'["closer"].pc = "release" /\ act'["closer"].conn = c /\ act'["closer"].left \in {1, 2}
    BY <1>5, <2>1, States, Typed DEF TestHandle, ctxVars, Records
  <2>3. Counted(c) /\ c \in byId /\ refs[c] \notin {0, 1} /\ refs[c] \in Nat
    BY <1>1, <2>1, <2>2 DEF LiveInv, Used, InHand, Handled
  <2>4. InHand(c)'
    <3>1. refs'[c] >= act'["closer"].left
      BY <2>2, <2>3
    <3> QED BY <2>2, <2>3, <3>1 DEF InHand
  <2>5. Used(c)'
    BY <1>1, <2>2, <2>3, <2>4 DEF Used, Counted
  <2> QED BY <1>2, <1>3, <2>2, <2>5
<1>6. CASE Release("closer")
  <2>1. PICK c \in Conns : act["closer"].conn = c
    BY <1>6, States, Typed DEF Release
  <2>2. /\ act["closer"].pc = "release" /\ act["closer"].left \in {1, 2} /\ state' = state
        /\ Counted(c) /\ c \in byId /\ refs[c] >= act["closer"].left /\ refs[c] \in Nat
    <3>1. act["closer"].pc = "release" /\ act["closer"].left # 0 /\ act["closer"].left \in 0..2 /\ state' = state
      BY <1>6, States, Typed DEF Release, CountInv, TcpInv, TInv, Acting, Records
    <3> QED BY <1>1, <2>1, <3>1 DEF LiveInv, Used, InHand, Handled
  <2>3. CASE refs[c] = 1
    <3>1. /\ listed' = listed \ {c} /\ byId' = byId \ {c} /\ act["closer"].left = 1
          /\ refs' = [refs EXCEPT ![c] = 0]
      BY <1>6, <2>1, <2>2, <2>3 DEF Release
    <3>2. act'["closer"].pc = "free" /\ act'["closer"].conn = c /\ act'["closer"].left = 0
      <4>1. act' = [act EXCEPT !["closer"] = [@ EXCEPT !.pc = "free", !.left = 0]]
        BY <1>6, <2>1, <2>3, <3>1 DEF Release
      <4> QED BY <2>1, <4>1, States, Typed DEF Records
    <3>3. Used(c)'
      <4>1. c \notin byId' /\ c \notin listed' /\ state'[c] = "live"
        BY <2>2, <3>1 DEF Counted
      <4> QED BY <1>1, <3>2, <4>1 DEF Used, Counted, InHand
    <3>4. \A d \in Conns : d # c => refs'[d] = refs[d]
      BY <1>1, <3>1
    <3> QED BY <1>2, <1>3, <2>2, <3>1, <3>2, <3>3, <3>4
  <2>4. CASE refs[c] # 1
    <3>1. /\ listed' = listed /\ byId' = byId /\ refs' = [refs EXCEPT ![c] = @ - 1]
          /\ refs[c] # 0
      BY <1>6, <2>1, <2>2, <2>4 DEF Release, Counted
    <3>2. \/ act'["closer"] = Done("closer")
          \/ /\ act["closer"].left = 2 /\ act'["closer"].pc = "release" /\ act'["closer"].conn = c
             /\ act'["closer"].left = 1
      <4>1. CASE act["closer"].left = 1
        BY <1>6, <2>1, <2>4, <4>1, States, Typed DEF Release
      <4>2. CASE act["closer"].left = 2
        <5>1. act' = [act EXCEPT !["closer"] = [@ EXCEPT !.left = 1]]
          BY <1>6, <2>1, <2>4, <4>2 DEF Release
        <5> QED BY <2>1, <2>2, <4>2, <5>1, States, Typed DEF Records
      <4> QED BY <2>2, <4>1, <4>2
    <3>3. refs'[c] = refs[c] - 1 /\ refs'[c] # 0 /\ refs'[c] \in Nat
      BY <1>1, <2>2, <2>4, <3>1
    <3>4. InHand(c)'
      <4>1. CASE act'["closer"] = Done("closer")
        BY <4>1, States, Typed DEF InHand, Handled
      <4>2. CASE act'["closer"].pc = "release" /\ act'["closer"].left = 1
        <5>1. refs'[c] >= 1
          <6>1. \A n \in Nat : n # 0 => n >= 1
            OBVIOUS
          <6> QED BY <3>3, <6>1, Zenon
        <5> QED BY <2>2, <3>1, <4>2, <5>1 DEF InHand
      <4> QED BY <3>2, <4>1, <4>2
    <3>5. Used(c)'
      BY <1>1, <2>2, <3>1, <3>3, <3>4 DEF Used, Counted
    <3>6. \A d \in Conns : d # c => refs'[d] = refs[d]
      BY <1>1, <3>1
    <3>7. Stages'
      BY <1>2, <3>2
    <3>8. act'["closer"].conn = c \/ act'["closer"] = Done("closer")
      BY <3>2
    <3> QED BY <1>3, <2>2, <3>1, <3>5, <3>6, <3>7, <3>8
  <2> QED BY <2>3, <2>4
<1>7. CASE Free("closer")
  <2>1. PICK c \in Conns : act["closer"].conn = c
    BY <1>7, States, Typed DEF Free
  <2>2. act["closer"].pc = "free" /\ act["closer"].left = 0 /\ c \notin byId /\ Counted(c)
    BY <1>7, <2>1 DEF Free, LiveInv, Used, InHand, Handled
  <2>3. /\ UNCHANGED <<refs, listed, byId>> /\ state' = [state EXCEPT ![c] = "freed"]
        /\ act'["closer"] = Done("closer")
    BY <1>7, <2>1, <2>2, States, Typed DEF Free
  <2>4. \A d \in Conns : d # c => state'[d] = state[d]
    BY <2>3, States
  <2>5. Used(c)'
    BY <1>1, <2>2, <2>3, States, Typed DEF Used, Counted, InHand, Handled
  <2> QED BY <1>2, <1>3, <2>3, <2>4, <2>5
<1> QED BY <1>4, <1>5, <1>6, <1>7

LEMMA SessionUses ==
    ASSUME LiveInv, Open \/ Close \/ RemoveEnds \/ PauseEnds \/ CleanCodes
    PROVE  Stages' /\ \A d \in Conns : Used(d)'
<1>1. /\ UNCHANGED <<pc, ctxVars>> /\ act'["closer"] = act["closer"]
      /\ act'["worker"] \in {act["worker"], Rest}
  BY States, Typed DEF Open, Close, RemoveEnds, PauseEnds, CleanCodes
<1>2. \A d \in Conns : ~Holds(d) /\ ~Holds(d)'
  BY <1>1, States, Typed DEF Open, Close, RemoveEnds, PauseEnds, CleanCodes, Holds
<1>3. Stages'
  <2>1. \A a \in Threads : act'[a].pc \in {"idle", "reading", "filling", "pop", "next"} => act'[a].conn = None
    BY <1>1, States DEF LiveInv, Stages, Threads
  <2>2. act'["worker"].pc # "free"
    BY <1>1, States, Typed DEF LiveInv, Stages
  <2>3. monitor' => session' = "open"
    BY DEF Open, Close, RemoveEnds, PauseEnds, CleanCodes, LiveInv, Stages
  <2>4. session' \in {"releaseFlows", "closed"} => \A c \in Conns : pc'[c] \in {"idle", "done"}
    BY <1>1 DEF Open, Close, RemoveEnds, PauseEnds, CleanCodes, LiveInv, Stages
  <2> QED BY <2>1, <2>2, <2>3, <2>4 DEF Stages
<1>4. ASSUME NEW d \in Conns PROVE Used(d)'
  <2>1. Counted(d) /\ InHand(d) /\ Called(d)
    BY DEF LiveInv, Used
  <2>2. Counted(d)' /\ InHand(d)'
    BY <1>1, <1>2, <2>1 DEF Counted, InHand, Handled, ctxVars
  <2>3. Called(d)'
    <3>1. CASE Open
      BY <1>1, <3>1 DEF Open, LiveInv, Stages, Called, Working
    <3>2. CASE ~Open
      BY <3>2 DEF Close, RemoveEnds, PauseEnds, CleanCodes, Called
    <3> QED BY <3>1, <3>2
  <2> QED BY <2>2, <2>3 DEF Used
<1> QED BY <1>3, <1>4

LEMMA StepLives == LiveInv /\ [Next]_vars => LiveInv'
<1> SUFFICES ASSUME LiveInv, [Next]_vars PROVE LiveInv'
  OBVIOUS
<1>1. CountInv'
  BY StepCounts DEF LiveInv
<1>2. CASE UNCHANGED vars
  <2>1. UNCHANGED <<monitor, session, pc, state, refs, listed, byId, act>>
    BY <1>2 DEF vars, sesVars, ctxVars
  <2>2. Stages'
    BY <2>1 DEF LiveInv, Stages
  <2>3. \A d \in Conns : Used(d)'
    BY <2>1 DEF LiveInv, Used, Counted, InHand, Called, Holds, Handled, Working
  <2> QED BY <1>1, <2>2, <2>3 DEF LiveInv
<1>3. CASE Next
  BY <1>1, <1>3, CalloutUses, WorkerUses, CloserUses, SessionUses DEF Next, CloseStep, LiveInv
<1> QED BY <1>2, <1>3

\* A context that the worker or the close works on is not freed, and its callout can
\* have it freed under it only in the close of the device, before the end of its
\* pause (tcp_removeFromFlows, tcp_release).
THEOREM ContextsInUseLive == Spec => []UsedContextsLive
<1>1. LiveInv => UsedContextsLive
  <2> SUFFICES ASSUME LiveInv, NEW c \in Conns, state[c] # "live"
               PROVE  /\ \A a \in Threads : act[a].conn = c => act[a].pc = "find"
                      /\ Working(c) => session \in {"remove", "pause"}
    BY DEF UsedContextsLive
  <2>1. c \notin byId /\ c \notin listed /\ ~Holds(c) /\ ~Handled(c) /\ c # None
    <3>1. c \notin byId /\ c \notin listed /\ ~Holds(c)
      BY DEF LiveInv, Used, Counted
    <3>2. ~Handled(c)
      BY <3>1 DEF LiveInv, Used, InHand, Handled
    <3> QED BY <3>1, <3>2, TcpAssumption
  <2>2. ASSUME NEW a \in Threads, act[a].conn = c PROVE act[a].pc = "find"
    <3>1. act[a].pc \notin {"idle", "reading", "filling", "pop", "next"}
      BY <2>1, <2>2 DEF LiveInv, Stages
    <3>2. CASE a = "worker"
      BY <2>1, <2>2, <3>1, <3>2, States, Typed DEF LiveInv, Stages, CountInv, Posts, Holds, Records
    <3>3. CASE a = "closer"
      BY <2>1, <2>2, <3>1, <3>3, States DEF CountInv, Posts, Handled
    <3> QED BY <3>2, <3>3 DEF Threads
  <2>3. Working(c) => session \in {"remove", "pause"}
    <3>1. Working(c) => session \notin {"open", "releaseFlows", "closed"}
      BY <2>1 DEF LiveInv, Used, Called, Stages, Working
    <3> QED BY <3>1, States DEF CountInv, TcpInv, TInv, TypeOK
  <2> QED BY <2>2, <2>3
<1> QED
  BY <1>1, InitLives, StepLives, PTL DEF Spec
=============================================================================
