------------------------- MODULE TcpRedirectProofs -------------------------
(***************************************************************************)
(* Proofs about TcpRedirect for every value of its constants, the close    *)
(* that meets a callout included: the types, and that a classification is  *)
(* completed at most once.  The argument: what FwpsCompleteClassify needs  *)
(* is isPended, which only the callout sets, once and after the pend, and  *)
(* which every completion clears.                                          *)
(***************************************************************************)
EXTENDS TcpRedirect, TLAPS

\* The threads' program counters name what they work with, and count what they
\* still release.
Records ==
    [pc : {"idle", "reading", "filling", "pop", "next", "find", "verdict", "flow",
           "release", "free"}, conn : Conns \cup {None}, left : 0..2]

Acting ==
    \A a \in Threads :
        /\ act[a].pc \in {"find", "verdict", "flow", "release", "free"} => act[a].conn \in Conns
        /\ act[a].pc \in {"find", "verdict", "release"} => act[a].left # 0
        /\ act[a].pc = "free" => act[a].left # 2

TInv == TypeOK /\ Acting

\* A context counts as pended only once its callout has pended the classification.
Unpended(c) == completed[c] = 0 /\ ~isPended[c]

Completions ==
    \A c \in Conns :
        /\ pc[c] \in {"idle", "alloc", "describe", "pend", "mark"} => Unpended(c)
        /\ isPended[c] => completed[c] = 0
        /\ classify[c] # "pended" => Unpended(c)
        /\ pc[c] = "mark" => classify[c] = "pended"
        /\ completed[c] \in {0, 1}

TcpInv == TInv /\ Completions

LEMMA RestTyped ==
    /\ Rest \in Records /\ Rest.pc = "idle"
    /\ \A a \in Threads : Done(a) \in Records /\ Done(a).pc \in {"next", "idle"}
BY DEF Rest, Done, Records

LEMMA InitTcp == Init => TcpInv
<1> SUFFICES ASSUME Init PROVE TcpInv
  OBVIOUS
<1>1. act \in [Threads -> Records] /\ Acting
  BY RestTyped DEF Init, Acting
<1>2. opens \in 0..Sessions /\ records \in Seq(Conns) /\ batch \in Seq(Conns)
  BY TcpAssumption DEF Init
<1>3. TypeOK
  BY <1>1, <1>2 DEF Init, TypeOK, Records
<1>4. Completions
  BY DEF Init, Completions, Unpended
<1> QED
  BY <1>1, <1>3, <1>4 DEF TcpInv, TInv

\* The callouts.
LEMMA CalloutKeeps ==
    ASSUME TcpInv, NEW c \in Conns, Connect(c) \/ CalloutStep(c)
    PROVE  TcpInv'
<1>0. /\ records \in Seq(Conns) /\ pc \in [Conns -> {"idle", "alloc", "describe", "pend", "mark", "push", "code", "done"}]
      /\ classify \in [Conns -> {"none", "pended", "permitted"}] /\ isPended \in [Conns -> BOOLEAN]
      /\ completed \in [Conns -> Nat]
  BY DEF TcpInv, TInv, TypeOK
<1>1. Acting' /\ completed' = completed
  BY DEF Connect, CalloutStep, Alloc, AllocFails, Describe, Pend, PendFails, Mark, Push,
         PushFails, PushCode, wfpVars, TcpInv, TInv, Acting
<1>2. TypeOK'
  <2>1. CASE Connect(c) \/ AllocFails(c) \/ PushFails(c)
    BY <2>1 DEF Connect, AllocFails, PushFails, TcpInv, TInv, TypeOK, sesVars, wfpVars, ctxVars, ioVars
  <2>2. CASE Alloc(c) \/ Describe(c) \/ Mark(c)
    <3>1. /\ pc' \in [Conns -> {"idle", "alloc", "describe", "pend", "mark", "push", "code", "done"}]
          /\ listed' \in SUBSET Conns /\ byId' \in SUBSET Conns
      BY <1>0, <2>2 DEF Alloc, Describe, Mark, TcpInv, TInv, TypeOK
    <3>2. state' \in [Conns -> {"unused", "live", "freed"}] /\ refs' \in [Conns -> Nat]
      <4>1. state \in [Conns -> {"unused", "live", "freed"}] /\ refs \in [Conns -> Nat]
        BY DEF TcpInv, TInv, TypeOK
      <4>2. CASE Alloc(c)
        BY <4>1, <4>2 DEF Alloc
      <4>3. CASE Describe(c) \/ Mark(c)
        BY <4>1, <4>3 DEF Describe, Mark
      <4> QED
        BY <2>2, <4>2, <4>3
    <3>3. hasHandle' \in [Conns -> BOOLEAN] /\ isPended' \in [Conns -> BOOLEAN]
      BY <2>2 DEF Alloc, Describe, Mark, TcpInv, TInv, TypeOK
    <3> QED
      BY <2>2, <3>1, <3>2, <3>3 DEF Alloc, Describe, Mark, TcpInv, TInv, TypeOK, sesVars, wfpVars, ioVars
  <2>3. CASE Pend(c) \/ PendFails(c)
    BY <2>3 DEF Pend, PendFails, TcpInv, TInv, TypeOK, sesVars, ioVars
  <2>4. CASE Push(c) \/ PushCode(c)
    <3>1. <<c>> \o records \in Seq(Conns) /\ codes \in Nat /\ codes + 1 \in Nat
      BY <1>0 DEF TcpInv, TInv, TypeOK
    <3>2. records' \in Seq(Conns) /\ codes' \in Nat
      BY <1>0, <2>4, <3>1 DEF Push, PushCode
    <3>3. pc' \in [Conns -> {"idle", "alloc", "describe", "pend", "mark", "push", "code", "done"}]
      BY <1>0, <2>4 DEF Push, PushCode
    <3> QED
      BY <2>4, <3>2, <3>3 DEF Push, PushCode, TcpInv, TInv, TypeOK, sesVars, wfpVars, ctxVars
  <2> QED
    BY <2>1, <2>2, <2>3, <2>4 DEF CalloutStep
<1>3. Completions'
  <2>1. \A d \in Conns : d # c => pc'[d] = pc[d] /\ classify'[d] = classify[d] /\ isPended'[d] = isPended[d]
    BY <1>0 DEF Connect, CalloutStep, Alloc, AllocFails, Describe, Pend, PendFails, Mark, Push,
           PushFails, PushCode, wfpVars, ctxVars
  <2>2. CASE Connect(c) \/ Alloc(c) \/ Describe(c) \/ Push(c) \/ PushFails(c) \/ PushCode(c)
    <3>1. UNCHANGED <<classify, isPended>> /\ pc'[c] # "mark"
      BY <1>0, <2>2 DEF Connect, Alloc, Describe, Push, PushFails, PushCode, wfpVars, ctxVars
    <3>2. pc'[c] \in {"idle", "alloc", "describe", "pend", "mark"} =>
          pc[c] \in {"idle", "alloc", "describe", "pend", "mark"}
      BY <1>0, <2>2 DEF Connect, Alloc, Describe, Push, PushFails, PushCode
    <3> QED
      BY <1>1, <2>1, <3>1, <3>2 DEF TcpInv, Completions, Unpended
  <2>3. CASE AllocFails(c) \/ PendFails(c) \/ Pend(c)
    <3>1. isPended' = isPended /\ Unpended(c)
      BY <2>3 DEF AllocFails, PendFails, Pend, ctxVars, TcpInv, Completions
    <3>2. pc'[c] = "mark" => classify'[c] = "pended"
      BY <1>0, <2>3 DEF AllocFails, PendFails, Pend
    <3> QED
      BY <1>1, <2>1, <3>1, <3>2 DEF TcpInv, Completions, Unpended
  <2>4. CASE Mark(c)
    BY <1>0, <1>1, <2>1, <2>4 DEF Mark, wfpVars, TcpInv, Completions, Unpended
  <2> QED
    BY <2>2, <2>3, <2>4 DEF CalloutStep
<1> QED
  BY <1>1, <1>2, <1>3 DEF TcpInv, TInv

\* A completion ends the pend, and there is none without a pend.
LEMMA PurgeKeepsCompletions ==
    ASSUME TcpInv, NEW c \in Conns, Purge(c), UNCHANGED <<pc, classify>>
    PROVE  /\ Completions' /\ completed' \in [Conns -> Nat]
           /\ isPended' \in [Conns -> BOOLEAN] /\ hasClassify' \in [Conns -> BOOLEAN]
<1>0. /\ completed \in [Conns -> Nat] /\ isPended \in [Conns -> BOOLEAN]
      /\ hasClassify \in [Conns -> BOOLEAN]
  BY DEF TcpInv, TInv, TypeOK
<1>1. CASE hasClassify[c] /\ isPended[c]
  <2>1. completed[c] = 0 /\ completed' = [completed EXCEPT ![c] = 1]
    BY <1>0, <1>1 DEF Purge, TcpInv, Completions
  <2>2. \A d \in Conns : isPended'[d] = IF d = c THEN FALSE ELSE isPended[d]
    BY <1>0, <1>1 DEF Purge
  <2> QED
    BY <1>0, <1>1, <2>1, <2>2 DEF Purge, TcpInv, Completions, Unpended
<1>2. CASE ~(hasClassify[c] /\ isPended[c])
  BY <1>0, <1>2 DEF Purge, TcpInv, Completions, Unpended
<1> QED
  BY <1>1, <1>2

\* Where the threads go next is typed.
LEMMA ReleaseKeeps ==
    ASSUME TcpInv, NEW a \in Threads, Release(a) \/ Free(a)
    PROVE  TcpInv'
<1>0. act \in [Threads -> Records] /\ act[a] \in Records /\ act[a].conn \in Conns
      /\ refs \in [Conns -> Nat]
  BY DEF TcpInv, TInv, TypeOK, Acting, Release, Free, Records
<1>1. CASE Release(a)
  <2>1. act[a].left \in {1, 2}
    BY <1>0, <1>1 DEF Release, TcpInv, TInv, Acting, Records
  <2>2. /\ act' \in [Threads -> Records] /\ Acting'
    <3>1. PICK r \in Records : /\ act' = [act EXCEPT ![a] = r]
                               /\ r.pc \in {"next", "idle"} \/ r.conn \in Conns
                               /\ r.pc = "release" => r.left # 0
                               /\ r.pc = "free" => r.left # 2
                               /\ r.pc \in {"next", "idle", "release", "free"}
      <4> DEFINE k == act[a].left - 1
                 f == [act[a] EXCEPT !.pc = "free", !.left = k]
                 g == [act[a] EXCEPT !.left = k]
      <4>0. k \in {0, 1} /\ k \in 0..2 /\ (act[a].left # 1 <=> k # 0)
        BY <2>1
      <4>1. act' = [act EXCEPT ![a] = IF refs[act[a].conn] = 1 THEN f
                                      ELSE IF k = 0 THEN Done(a) ELSE g]
        BY <1>0, <1>1 DEF Release, Records
      <4>2. act[a].pc = "release"
        BY <1>1 DEF Release
      <4> HIDE DEF k
      <4>3. f \in Records /\ f.conn = act[a].conn /\ f.pc = "free" /\ f.left = k
        BY <1>0, <4>0 DEF Records
      <4>4. g \in Records /\ g.conn = act[a].conn /\ g.pc = "release" /\ g.left = k
        BY <1>0, <4>0, <4>2 DEF Records
      <4> HIDE DEF f, g
      <4> QED
        <5>1. CASE refs[act[a].conn] = 1
          <6>1. act' = [act EXCEPT ![a] = f] /\ f.left # 2
            BY <4>0, <4>1, <4>3, <5>1
          <6> QED
            BY <1>0, <4>3, <6>1
        <5>2. CASE refs[act[a].conn] # 1 /\ k = 0
          BY <4>1, <5>2, RestTyped
        <5>3. CASE refs[act[a].conn] # 1 /\ k # 0
          BY <1>0, <4>0, <4>1, <4>4, <5>3
        <5> QED
          BY <5>1, <5>2, <5>3
    <3> QED
      BY <1>0, <3>1 DEF TcpInv, TInv, Acting
  <2>3. refs' \in [Conns -> Nat] /\ listed' \in SUBSET Conns /\ byId' \in SUBSET Conns
    BY <1>0, <1>1 DEF Release, TcpInv, TInv, TypeOK
  <2>4. UNCHANGED <<sesVars, pc, wfpVars, state, hasHandle, hasClassify, isPended, ioVars>>
    BY <1>1 DEF Release
  <2>5. Completions'
    BY <2>4 DEF TcpInv, Completions, Unpended, wfpVars
  <2> QED
    BY <2>2, <2>3, <2>4, <2>5 DEF TcpInv, TInv, TypeOK, Records, sesVars, wfpVars, ioVars
<1>2. CASE Free(a)
  <2>1. act[a].left \in {0, 1}
    BY <1>0, <1>2 DEF Free, TcpInv, TInv, Acting, Records
  <2>2. act' \in [Threads -> Records] /\ Acting'
    <3> DEFINE f == [act[a] EXCEPT !.pc = "release"]
    <3>1. f \in Records /\ f.conn = act[a].conn /\ f.pc = "release" /\ f.left = act[a].left
      BY <1>0 DEF Records
    <3>2. \/ act' = [act EXCEPT ![a] = Done(a)]
          \/ act' = [act EXCEPT ![a] = f] /\ act[a].left # 0
      BY <1>0, <1>2 DEF Free
    <3> HIDE DEF f
    <3> QED
      BY <1>0, <3>1, <3>2, RestTyped DEF TcpInv, TInv, Acting
  <2>3. UNCHANGED <<sesVars, pc, classify, refs, listed, byId, ioVars>>
    BY <1>2 DEF Free
  <2>4. /\ Completions' /\ completed' \in [Conns -> Nat]
        /\ isPended' \in [Conns -> BOOLEAN] /\ hasClassify' \in [Conns -> BOOLEAN]
    BY <1>0, <1>2, PurgeKeepsCompletions DEF Free
  <2>5. hasHandle' \in [Conns -> BOOLEAN] /\ state' \in [Conns -> {"unused", "live", "freed"}]
    BY <1>2 DEF Free, TcpInv, TInv, TypeOK
  <2> QED
    BY <2>2, <2>3, <2>4, <2>5 DEF TcpInv, TInv, TypeOK, Records, sesVars, ioVars
<1> QED
  BY <1>1, <1>2

\* The reads of the worker.
LEMMA ReadKeeps ==
    ASSUME TcpInv, ServeRead \/ Read
    PROVE  TcpInv'
<1>0. /\ records \in Seq(Conns) /\ batch \in Seq(Conns) /\ codes \in Nat
      /\ act \in [Threads -> Records] /\ "worker" \in Threads
  BY DEF TcpInv, TInv, TypeOK, Records, Threads
<1>1. UNCHANGED <<sesVars, pc, wfpVars, ctxVars>>
  BY DEF ServeRead, Read, FillCode, FillRecord, FillFull, FillEnd, ioVars
<1>2. records' \in Seq(Conns) /\ batch' \in Seq(Conns) /\ codes' \in Nat
  <2>1. CASE FillRecord
    <3>1. codes' = codes
      BY <2>1 DEF FillRecord
    <3>2. CASE records = <<>>
      BY <1>0, <2>1, <3>1, <3>2 DEF FillRecord
    <3>3. CASE records # <<>>
      <4>1. Tail(records) \in Seq(Conns) /\ Append(batch, Head(records)) \in Seq(Conns)
        BY <1>0, <3>3
      <4> QED
        BY <1>0, <2>1, <3>1, <3>3, <4>1 DEF FillRecord
    <3> QED
      BY <3>2, <3>3
  <2>2. CASE ~FillRecord
    <3>1. records' = records /\ batch' = batch
      BY <2>2 DEF ServeRead, Read, FillCode, FillFull, FillEnd, ioVars
    <3>2. codes' \in Nat
      BY <1>0, <2>2 DEF ServeRead, Read, FillCode, FillFull, FillEnd, ioVars
    <3> QED
      BY <1>0, <3>1, <3>2
  <2> QED
    BY <2>1, <2>2
<1>3. act' \in [Threads -> Records] /\ Acting'
  <2>1. PICK p \in {"reading", "filling", "pop", "next"} : act' = [act EXCEPT !["worker"].pc = p]
    BY DEF ServeRead, Read, FillCode, FillRecord, FillFull, FillEnd, Goto
  <2> QED
    BY <1>0, <2>1 DEF Records, TcpInv, TInv, Acting
<1>4. Completions'
  BY <1>1 DEF TcpInv, Completions, Unpended, wfpVars, ctxVars
<1> QED
  BY <1>1, <1>2, <1>3, <1>4 DEF TcpInv, TInv, TypeOK, Records, sesVars, wfpVars, ctxVars

\* The verdicts of the worker.
LEMMA VerdictKeeps ==
    ASSUME TcpInv, NextRecord \/ FindById \/ Verdict
    PROVE  TcpInv'
<1>0. /\ batch \in Seq(Conns) /\ act \in [Threads -> Records] /\ "worker" \in Threads
      /\ refs \in [Conns -> Nat]
  BY DEF TcpInv, TInv, TypeOK, Records, Threads
<1>1. CASE NextRecord
  <2>1. batch' \in Seq(Conns)
    <3>1. batch # <<>> => Tail(batch) \in Seq(Conns)
      BY <1>0
    <3> QED
      BY <1>0, <1>1, <3>1 DEF NextRecord
  <2>2. act' \in [Threads -> Records] /\ Acting'
    <3>1. batch # <<>> => [pc |-> "find", conn |-> Head(batch), left |-> 1] \in Records /\ Head(batch) \in Conns
      BY <1>0 DEF Records
    <3> QED
      BY <1>0, <1>1, <3>1, RestTyped DEF NextRecord, TcpInv, TInv, Acting
  <2>3. UNCHANGED <<sesVars, pc, wfpVars, ctxVars, records, codes>>
    BY <1>1 DEF NextRecord
  <2>4. Completions'
    BY <2>3 DEF TcpInv, Completions, Unpended, wfpVars, ctxVars
  <2> QED
    BY <2>1, <2>2, <2>3, <2>4 DEF TcpInv, TInv, TypeOK, Records, sesVars, wfpVars, ctxVars
<1>2. CASE FindById
  <2>1. act["worker"].conn \in Conns
    BY <1>0, <1>2 DEF FindById, TcpInv, TInv, Acting
  <2>2. act' \in [Threads -> Records] /\ Acting'
    <3> DEFINE v == [act["worker"] EXCEPT !.pc = "verdict"]
    <3>1. v \in Records /\ v.conn \in Conns /\ v.left # 0 /\ v.pc = "verdict"
      BY <1>0, <1>2, <2>1 DEF Records, FindById, TcpInv, TInv, Acting
    <3>2. act' = [act EXCEPT !["worker"] = v] \/ act' = [act EXCEPT !["worker"] = Done("worker")]
      BY <1>0, <1>2 DEF FindById, Goto
    <3> HIDE DEF v
    <3> QED
      BY <1>0, <3>1, <3>2, RestTyped DEF TcpInv, TInv, Acting
  <2>3. refs' \in [Conns -> Nat]
    BY <1>0, <1>2, <2>1 DEF FindById
  <2>4. UNCHANGED <<sesVars, pc, wfpVars, state, hasHandle, hasClassify, isPended, listed, byId, ioVars>>
    BY <1>2 DEF FindById
  <2>5. Completions'
    BY <2>4 DEF TcpInv, Completions, Unpended, wfpVars
  <2> QED
    BY <2>2, <2>3, <2>4, <2>5 DEF TcpInv, TInv, TypeOK, Records, sesVars, wfpVars, ioVars
<1>3. CASE Verdict
  <2>1. act["worker"].conn \in Conns
    BY <1>0, <1>3 DEF Verdict, TcpInv, TInv, Acting
  <2>2. UNCHANGED <<sesVars, pc, classify, state, refs, hasHandle, listed, byId, ioVars>>
    BY <1>3 DEF Verdict
  <2>3. /\ Completions' /\ completed' \in [Conns -> Nat]
        /\ isPended' \in [Conns -> BOOLEAN] /\ hasClassify' \in [Conns -> BOOLEAN]
    <3>1. CASE Purge(act["worker"].conn)
      BY <2>1, <2>2, <3>1, PurgeKeepsCompletions
    <3>2. CASE UNCHANGED <<completed, hasClassify, isPended>>
      BY <2>2, <3>2 DEF TcpInv, TInv, TypeOK, Completions, Unpended
    <3> QED
      BY <1>3, <3>1, <3>2 DEF Verdict
  <2>4. act' \in [Threads -> Records] /\ Acting'
    <3>1. act' = [act EXCEPT !["worker"].pc = "release"] /\ act["worker"].left # 0
      BY <1>0, <1>3 DEF Verdict, Goto, TcpInv, TInv, Acting
    <3> QED
      BY <1>0, <2>1, <3>1 DEF Records, TcpInv, TInv, Acting
  <2> QED
    BY <2>2, <2>3, <2>4 DEF TcpInv, TInv, TypeOK, Records, sesVars, ioVars
<1> QED
  BY <1>1, <1>2, <1>3

\* The session: it ends the worker's batch, and walks the contexts.
LEMMA SessionKeeps ==
    ASSUME TcpInv, Open \/ Close \/ RemoveEnds \/ PauseEnds \/ CleanCodes \/ TestHandle
                   \/ \E c \in Conns : RemoveContext(c) \/ ReleaseFlow(c)
    PROVE  TcpInv'
<1>0. /\ act \in [Threads -> Records] /\ "worker" \in Threads /\ "closer" \in Threads
      /\ refs \in [Conns -> Nat]
  BY DEF TcpInv, TInv, TypeOK, Records, Threads
<1>1. UNCHANGED <<pc, wfpVars, state, hasHandle, hasClassify, isPended, byId>>
  BY DEF Open, Close, RemoveEnds, PauseEnds, CleanCodes, TestHandle, RemoveContext, ReleaseFlow, ctxVars
<1>2. Completions'
  BY <1>1 DEF TcpInv, Completions, Unpended, wfpVars
<1>3. act' \in [Threads -> Records] /\ Acting'
  <2>1. CASE act' = act
    BY <1>0, <2>1 DEF TcpInv, TInv, Acting
  <2>2. CASE Close
    BY <1>0, <2>2, RestTyped DEF Close, TcpInv, TInv, Acting
  <2>3. CASE \E c \in Conns : RemoveContext(c) \/ ReleaseFlow(c)
    <3>1. PICK r \in Records :
            /\ act' = [act EXCEPT !["closer"] = r]
            /\ r.conn \in Conns /\ (r.pc = "flow" \/ (r.pc = "release" /\ r.left = 1))
      <4>1. \A c \in Conns : /\ [pc |-> "flow", conn |-> c, left |-> 0] \in Records
                             /\ [pc |-> "release", conn |-> c, left |-> 1] \in Records
        BY DEF Records
      <4>2. PICK c \in Conns : RemoveContext(c) \/ ReleaseFlow(c)
        BY <2>3
      <4>3. CASE RemoveContext(c)
        <5> DEFINE r == [pc |-> "flow", conn |-> c, left |-> 0]
        <5>1. act' = [act EXCEPT !["closer"] = r]
          BY <4>3 DEF RemoveContext
        <5>2. r \in Records /\ r.conn \in Conns /\ r.pc = "flow"
          BY <4>1
        <5> HIDE DEF r
        <5> QED
          BY <5>1, <5>2
      <4>4. CASE ReleaseFlow(c)
        BY <4>1, <4>4 DEF ReleaseFlow
      <4> QED
        BY <4>2, <4>3, <4>4
    <3> QED
      BY <1>0, <3>1 DEF TcpInv, TInv, Acting
  <2>4. CASE TestHandle
    <3> DEFINE k == IF hasHandle[act["closer"].conn] THEN 2 ELSE 1
               r == [act["closer"] EXCEPT !.pc = "release", !.left = k]
    <3>1. k \in {1, 2} /\ k \in 0..2
      OBVIOUS
    <3>2. act["closer"].conn \in Conns
      BY <1>0, <2>4 DEF TestHandle, TcpInv, TInv, Acting
    <3> HIDE DEF k
    <3>3. r \in Records /\ r.conn = act["closer"].conn /\ r.pc = "release" /\ r.left = k
      BY <1>0, <3>1 DEF Records
    <3>4. act' = [act EXCEPT !["closer"] = r]
      BY <2>4 DEF TestHandle, k
    <3> HIDE DEF r
    <3> QED
      BY <1>0, <3>1, <3>2, <3>3, <3>4 DEF TcpInv, TInv, Acting
  <2> QED
    BY <2>1, <2>2, <2>3, <2>4 DEF Open, RemoveEnds, PauseEnds, CleanCodes
<1>4. /\ monitor' \in BOOLEAN /\ opens' \in 0..Sessions
      /\ session' \in {"closed", "open", "remove", "pause", "releaseFlows"}
  <2>1. monitor \in BOOLEAN /\ opens \in 0..Sessions /\ Sessions \in Nat
        /\ session \in {"closed", "open", "remove", "pause", "releaseFlows"}
    BY TcpAssumption DEF TcpInv, TInv, TypeOK
  <2>2. CASE Open
    BY <2>1, <2>2 DEF Open
  <2>3. CASE ~Open
    <3>1. opens' = opens /\ monitor' \in {monitor, FALSE}
      BY <2>3 DEF Close, RemoveEnds, PauseEnds, CleanCodes, TestHandle, RemoveContext, ReleaseFlow, sesVars
    <3>2. session' \in {"closed", "open", "remove", "pause", "releaseFlows"}
      BY <2>1, <2>3 DEF Close, RemoveEnds, PauseEnds, CleanCodes, TestHandle, RemoveContext, ReleaseFlow, sesVars
    <3> QED
      BY <2>1, <3>1, <3>2
  <2> QED
    BY <2>2, <2>3
<1>5. /\ refs' \in [Conns -> Nat] /\ listed' \in SUBSET Conns
  <2>1. CASE \E c \in Conns : RemoveContext(c)
    BY <1>0, <2>1 DEF RemoveContext, TcpInv, TInv, TypeOK
  <2>2. CASE ~\E c \in Conns : RemoveContext(c)
    <3>1. refs' = refs /\ listed' = listed
      BY <2>2 DEF Open, Close, RemoveEnds, PauseEnds, CleanCodes, TestHandle, ReleaseFlow, ctxVars
    <3> QED
      BY <1>0, <3>1 DEF TcpInv, TInv, TypeOK
  <2> QED
    BY <2>1, <2>2
<1>6. records' \in Seq(Conns) /\ batch' \in Seq(Conns) /\ codes' \in Nat
  <2>1. /\ records' = records \/ records' = <<>>
        /\ batch' = batch \/ batch' = <<>>
        /\ codes' = codes \/ codes' = 0
    BY DEF Open, Close, RemoveEnds, PauseEnds, CleanCodes, TestHandle, RemoveContext, ReleaseFlow, ioVars
  <2>2. records \in Seq(Conns) /\ batch \in Seq(Conns) /\ codes \in Nat
    BY DEF TcpInv, TInv, TypeOK
  <2>3. <<>> \in Seq(Conns)
    OBVIOUS
  <2>4. codes' \in Nat
    BY <2>1, <2>2
  <2>5. records' \in Seq(Conns)
    BY <2>1, <2>2, <2>3, Zenon
  <2>6. batch' \in Seq(Conns)
    BY <2>1, <2>2, <2>3, Zenon
  <2> QED
    BY <2>4, <2>5, <2>6
<1> QED
  BY <1>1, <1>2, <1>3, <1>4, <1>5, <1>6 DEF TcpInv, TInv, TypeOK, Records, wfpVars

LEMMA StepKeeps == TcpInv /\ [Next]_vars => TcpInv'
<1> SUFFICES ASSUME TcpInv, [Next]_vars PROVE TcpInv'
  OBVIOUS
<1>1. CASE UNCHANGED vars
  BY <1>1 DEF vars, sesVars, wfpVars, ctxVars, ioVars, TcpInv, TInv, TypeOK, Acting, Completions, Unpended
<1>2. CASE Next
  <2>1. "worker" \in Threads /\ "closer" \in Threads
    BY DEF Threads
  <2> QED
    BY <1>2, <2>1, CalloutKeeps, ReleaseKeeps, ReadKeeps, VerdictKeeps, SessionKeeps
       DEF Next, WorkerStep, CloseStep
<1> QED
  BY <1>1, <1>2

\* The types of TcpRedirect, whatever fails and whenever the device is closed.
THEOREM TcpTypeCorrect == Spec => []TypeOK
<1>1. TcpInv => TypeOK
  BY DEF TcpInv, TInv
<1> QED
  BY <1>1, InitTcp, StepKeeps, PTL DEF Spec

\* FwpsCompleteClassify is called at most once for a connection and only for one
\* whose classification was pended, by the verdict, by the last release or by the
\* close.
THEOREM CompletesOnce == Spec => []CompletedOnce
<1>1. TcpInv => CompletedOnce
  BY DEF TcpInv, Completions, CompletedOnce, Unpended
<1> QED
  BY <1>1, InitTcp, StepKeeps, PTL DEF Spec
=============================================================================
