------------------------ MODULE EventDeliveryProofs ------------------------
(***************************************************************************)
(* The event transport implements EventDelivery, for every choice of its   *)
(* constants with at most one worker, which is how the service runs it:    *)
(* a record that was queued is delivered at most once, and dropped only by *)
(* a stopping worker or by the close.  The argument: a record is at any    *)
(* time in one place only, the hands of its notify routine, its list, the  *)
(* hands of the I/O thread, the shared buffer or the sets of delivered and *)
(* dropped records, and the places follow one another in this order.       *)
(***************************************************************************)
EXTENDS EventTransportProofs

OneWorker == \A r1, r2 \in Readers : r1 = r2

\* The I/O thread is filling the shared buffer.
Filling == ioPc \in {"fill", "pop", "reinsert", "requeue", "complete"}

\* The read of r has been completed with records the worker has not parsed.
Finished(r) == result[r] = "success" /\ rd[r] \in {"signal", "waiting", "stopping", "parsing"}

\* Only a completion with success carries records.
ResultShape ==
    \A r \in Readers :
        /\ completions[r] = 0 => result[r] = "none"
        /\ result[r] # "success" => length[r] = 0
        /\ rd[r] = "parsing" => result[r] = "success" /\ completions[r] = 1

\* The records on the pending lists, and those that have left the transport.
Listed == UNION {SeqRange(pending[t]) : t \in Types}
Gone == delivered \cup discarded

\* No record is twice on the lists.
Distinct ==
    \A t, u \in Types : \A i \in 1..Len(pending[t]), j \in 1..Len(pending[u]) :
        pending[t][i] = pending[u][j] => t = u /\ i = j

Inserting(c) == cb[c].pc = "insert"

\* A record is in one place only.
Places ==
    /\ fresh \cap (InTransit \cup Gone) = {}
    /\ \A c \in Callbacks : Inserting(c) => cb[c].rec \notin fresh \cup InTransit \cup Gone
    /\ \A c, d \in Callbacks : Inserting(c) /\ Inserting(d) /\ cb[c].rec = cb[d].rec => c = d
    /\ InTransit \cap Gone = {}
    /\ Unread \cap Listed = {} /\ ioRec \notin Unread \cup Listed
    /\ Distinct

DInv == IInv /\ ResultShape /\ Places

(***************************************************************************)
(* The pending lists as a set of records.                                  *)
(***************************************************************************)

\* What a sequence with one more element at its head, and at its end, consists of.
LEMMA RangeCons ==
    ASSUME NEW S, NEW s \in Seq(S), NEW e \in S
    PROVE  SeqRange(<<e>> \o s) = SeqRange(s) \cup {e}
<1> DEFINE w == <<e>> \o s
<1>1. /\ Len(w) = Len(s) + 1 /\ Len(s) \in Nat /\ w[1] = e
      /\ \A i \in 1..Len(s) : w[i + 1] = s[i]
      /\ \A i \in 1..Len(w) : i = 1 \/ (i - 1 \in 1..Len(s) /\ w[i] = s[i - 1])
  OBVIOUS
<1> HIDE DEF w
<1>2. SeqRange(w) \subseteq SeqRange(s) \cup {e}
  BY <1>1 DEF SeqRange
<1>3. SeqRange(s) \subseteq SeqRange(w)
  <2>1. \A i \in 1..Len(s) : i + 1 \in 1..Len(w)
    BY <1>1
  <2> QED
    BY <1>1, <2>1 DEF SeqRange
<1>4. e \in SeqRange(w)
  <2>1. 1 \in 1..Len(w)
    BY <1>1
  <2> QED
    BY <1>1, <2>1, Zenon DEF SeqRange
<1> QED
  BY <1>2, <1>3, <1>4 DEF w

LEMMA RangeAppend ==
    ASSUME NEW S, NEW s \in Seq(S), NEW e \in S
    PROVE  SeqRange(Append(s, e)) = SeqRange(s) \cup {e}
<1> DEFINE w == Append(s, e)
<1>1. /\ Len(w) = Len(s) + 1 /\ Len(s) \in Nat /\ w[Len(s) + 1] = e
      /\ \A i \in 1..Len(s) : w[i] = s[i]
  OBVIOUS
<1> HIDE DEF w
<1>2. SeqRange(w) \subseteq SeqRange(s) \cup {e}
  <2>1. \A i \in 1..Len(w) : i = Len(s) + 1 \/ i \in 1..Len(s)
    BY <1>1
  <2> QED
    BY <1>1, <2>1 DEF SeqRange
<1>3. SeqRange(s) \subseteq SeqRange(w)
  <2>1. \A i \in 1..Len(s) : i \in 1..Len(w)
    BY <1>1
  <2> QED
    BY <1>1, <2>1 DEF SeqRange
<1>4. e \in SeqRange(w)
  <2>1. Len(s) + 1 \in 1..Len(w)
    BY <1>1
  <2> QED
    BY <1>1, <2>1, Zenon DEF SeqRange
<1> QED
  BY <1>2, <1>3, <1>4 DEF w

\* InsertHeadList of a record that is on no list.
LEMMA ListedCons ==
    ASSUME pending \in [Types -> Seq(Records)], Distinct,
           NEW t \in Types, NEW e \in Records, e \notin Listed,
           pending' = [pending EXCEPT ![t] = <<e>> \o pending[t]]
    PROVE  Listed' = Listed \cup {e} /\ Distinct'
<1>1. /\ Len(<<e>> \o pending[t]) = Len(pending[t]) + 1
      /\ (<<e>> \o pending[t])[1] = e
      /\ \A i \in 2..(Len(pending[t]) + 1) : (<<e>> \o pending[t])[i] = pending[t][i-1]
      /\ Len(pending[t]) \in Nat
  BY DEF Listed
<1>2. /\ \A u \in Types : u # t => pending'[u] = pending[u]
      /\ pending'[t] = <<e>> \o pending[t]
  OBVIOUS
<1>3. SeqRange(<<e>> \o pending[t]) = SeqRange(pending[t]) \cup {e}
  BY RangeCons
<1>4. Listed' = Listed \cup {e}
  BY <1>2, <1>3 DEF Listed
<1>5. ASSUME NEW u \in Types, NEW v \in Types,
             NEW i \in 1..Len(pending'[u]), NEW j \in 1..Len(pending'[v]),
             pending'[u][i] = pending'[v][j]
      PROVE  u = v /\ i = j
  <2>1. \A w \in Types : \A k \in 1..Len(pending[w]) : pending[w][k] # e
    BY DEF Listed, SeqRange
  <2>2. CASE u # t /\ v # t
    BY <1>2, <1>5, <2>2 DEF Distinct
  <2>3. CASE u = t /\ v = t
    <3>1. i = 1 <=> j = 1
      BY <1>1, <1>2, <1>5, <2>1, <2>3
    <3>2. CASE i # 1
      <4>1. i - 1 \in 1..Len(pending[t]) /\ j - 1 \in 1..Len(pending[t])
            /\ pending[t][i-1] = pending[t][j-1]
        BY <1>1, <1>2, <1>5, <2>3, <3>1, <3>2
      <4>2. i - 1 = j - 1
        BY <4>1 DEF Distinct
      <4> QED
        BY <2>3, <4>2
    <3> QED
      BY <2>3, <3>1, <3>2
  <2>4. CASE u = t /\ v # t
    <3>1. j \in 1..Len(pending[v]) /\ pending'[v][j] = pending[v][j]
      BY <1>2, <2>4
    <3>2. i # 1
      BY <1>1, <1>2, <1>5, <2>1, <2>4, <3>1
    <3>3. i - 1 \in 1..Len(pending[t]) /\ pending[t][i-1] = pending[v][j]
      BY <1>1, <1>2, <1>5, <2>4, <3>1, <3>2
    <3> QED
      BY <2>4, <3>1, <3>3 DEF Distinct
  <2>5. CASE u # t /\ v = t
    <3>1. i \in 1..Len(pending[u]) /\ pending'[u][i] = pending[u][i]
      BY <1>2, <2>5
    <3>2. j # 1
      BY <1>1, <1>2, <1>5, <2>1, <2>5, <3>1
    <3>3. j - 1 \in 1..Len(pending[t]) /\ pending[t][j-1] = pending[u][i]
      BY <1>1, <1>2, <1>5, <2>5, <3>1, <3>2
    <3> QED
      BY <2>5, <3>1, <3>3 DEF Distinct
  <2> QED
    BY <2>2, <2>3, <2>4, <2>5
<1> QED
  BY <1>4, <1>5 DEF Distinct

\* RemoveHeadList: the head is the only occurrence of its record.
LEMMA ListedTail ==
    ASSUME pending \in [Types -> Seq(Records)], Distinct,
           NEW t \in Types, pending[t] # <<>>,
           pending' = [pending EXCEPT ![t] = Tail(pending[t])]
    PROVE  /\ Head(pending[t]) \in Listed /\ Head(pending[t]) \in Records
           /\ Listed' = Listed \ {Head(pending[t])} /\ Distinct'
<1> DEFINE q == pending[t]
<1>1. /\ q \in Seq(Records) /\ Len(q) \in Nat /\ Len(q) > 0 /\ Head(q) = q[1] /\ Head(q) \in Records
      /\ Tail(q) \in Seq(Records) /\ Len(Tail(q)) = Len(q) - 1
      /\ \A i \in 1..Len(Tail(q)) : Tail(q)[i] = q[i+1]
  BY HeadTailProperties
<1>2. /\ \A u \in Types : u # t => pending'[u] = pending[u]
      /\ pending'[t] = Tail(q)
  OBVIOUS
<1> HIDE DEF q
<1>3. /\ \A i, j \in 1..Len(q) : q[i] = q[j] => i = j
      /\ \A u \in Types : u # t => Head(q) \notin SeqRange(pending[u])
  <2>1. 1 \in 1..Len(q)
    BY <1>1
  <2> QED
    BY <1>1, <2>1 DEF Distinct, SeqRange, q
<1>4. SeqRange(Tail(q)) = SeqRange(q) \ {Head(q)} /\ Head(q) \in SeqRange(q)
  <2>1. ASSUME NEW i \in 1..Len(Tail(q)) PROVE Tail(q)[i] \in SeqRange(q) /\ Tail(q)[i] # Head(q)
    <3>1. i + 1 \in 1..Len(q) /\ i + 1 # 1 /\ 1 \in 1..Len(q)
      BY <1>1
    <3>2. q[i + 1] # q[1]
      BY <1>3, <3>1
    <3> QED
      BY <1>1, <3>1, <3>2 DEF SeqRange
  <2>2. ASSUME NEW i \in 1..Len(q), q[i] # Head(q) PROVE q[i] \in SeqRange(Tail(q))
    <3>1. i - 1 \in 1..Len(Tail(q)) /\ (i - 1) + 1 = i
      BY <1>1, <2>2
    <3>2. Tail(q)[i - 1] = q[i]
      BY <1>1, <3>1
    <3> QED
      BY <3>1, <3>2, Zenon DEF SeqRange
  <2>3. 1 \in 1..Len(q)
    BY <1>1
  <2> QED
    BY <1>1, <2>1, <2>2, <2>3 DEF SeqRange
<1>5. Head(q) \in Listed /\ Listed' = Listed \ {Head(q)}
  <2>1. SeqRange(pending[t]) = SeqRange(q) /\ SeqRange(pending'[t]) = SeqRange(Tail(q))
    BY <1>2 DEF q
  <2>2. \A u \in Types : SeqRange(pending'[u]) = SeqRange(pending[u]) \ {Head(q)}
    BY <1>2, <1>3, <1>4, <2>1
  <2> QED
    BY <1>4, <2>1, <2>2 DEF Listed
<1>6. ASSUME NEW u \in Types, NEW v \in Types,
             NEW i \in 1..Len(pending'[u]), NEW j \in 1..Len(pending'[v]),
             pending'[u][i] = pending'[v][j]
      PROVE  u = v /\ i = j
  <2> DEFINE up(w, k) == IF w = t THEN k + 1 ELSE k
  <2>1. ASSUME NEW w \in Types, NEW k \in 1..Len(pending'[w])
        PROVE  up(w, k) \in 1..Len(pending[w]) /\ pending'[w][k] = pending[w][up(w, k)]
    <3>1. CASE w = t
      BY <1>1, <1>2, <2>1, <3>1 DEF q
    <3>2. CASE w # t
      BY <1>2, <2>1, <3>2
    <3> QED
      BY <3>1, <3>2
  <2>2. u = v /\ up(u, i) = up(v, j)
    <3>1. /\ up(u, i) \in 1..Len(pending[u]) /\ pending'[u][i] = pending[u][up(u, i)]
          /\ up(v, j) \in 1..Len(pending[v]) /\ pending'[v][j] = pending[v][up(v, j)]
      BY <2>1
    <3> HIDE DEF up
    <3>2. pending[u][up(u, i)] = pending[v][up(v, j)]
      BY <1>6, <3>1
    <3> QED
      BY <3>1, <3>2 DEF Distinct
  <2>3. pending'[u] = pending'[v]
    BY <2>2
  <2>4. i \in Nat /\ j \in Nat
    OBVIOUS
  <2> QED
    BY <2>2, <2>4
<1> QED
  BY <1>1, <1>5, <1>6 DEF Distinct, q

(***************************************************************************)
(* The completions.                                                        *)
(***************************************************************************)

\* A completion that is not a success carries no record.
LEMMA CompleteShape ==
    ASSUME ResultShape, TypeOK, NEW r \in Readers, NEW n \in Nat,
           Complete(r, "success", n) \/ Complete(r, "failed", 0) \/ Complete(r, "cancelled", 0),
           completions[r] = 0,
           \A s \in Readers : rd'[s] = "parsing" => rd[s] = "parsing" /\ s # r
    PROVE  ResultShape'
BY DEF ResultShape, TypeOK, Complete

LEMMA ResultNext ==
    ASSUME IInv, ResultShape, [Next]_vars
    PROVE  ResultShape'
<1>0. /\ TypeOK /\ IrpShape /\ IoShape
      /\ \A r \in Readers : r \in pended \cup {ioIrp, ctlIrp} => completions[r] = 0 /\ rd[r] # "parsing"
      /\ \A r \in Readers : rd[r] \in {"issued", "refused"} => completions[r] = 0
      /\ \A r \in cancelling : r \in pended
      /\ Len(buf) \in Nat
  <2>1. TypeOK /\ IrpShape /\ IoShape
    BY DEF IInv
  <2>2. buf \in Seq(Records)
    BY <2>1 DEF TypeOK
  <2>3. Len(buf) \in Nat
    BY <2>2
  <2> QED
    BY <2>1, <2>3 DEF IrpShape
<1>1. ASSUME UNCHANGED <<completions, result, length>>,
             \A s \in Readers : rd'[s] = "parsing" => rd[s] = "parsing"
      PROVE  ResultShape'
  BY <1>1 DEF ResultShape
<1>2. CASE (\E c \in Callbacks : Notify(c)) \/ UNCHANGED vars
  BY <1>1, <1>2 DEF Notify, NotifyBegin, NotifyInsert, PushInfo, PushInfoFails, PushSignal, irpVars, vars
<1>3. CASE IoThread
  <2>1. CASE ServiceMapFails \/ ServiceComplete
    <3>1. ioIrp \in Readers /\ rd' = rd
      BY <1>0, <2>1 DEF ServiceMapFails, ServiceComplete, IoShape, TypeOK
    <3>2. completions[ioIrp] = 0 /\ rd[ioIrp] # "parsing"
      BY <1>0, <3>1
    <3>3. Complete(ioIrp, "success", Len(buf)) \/ Complete(ioIrp, "failed", 0)
      BY <2>1 DEF ServiceMapFails, ServiceComplete
    <3> QED
      BY <1>0, <3>1, <3>2, <3>3, CompleteShape
  <2>2. CASE ~(ServiceMapFails \/ ServiceComplete)
    BY <1>1, <1>3, <2>2 DEF IoThread, IoWait, ServiceNothing, ServiceTake, ServiceMap, FillNext,
       FillEnd, PopRecord, PopNoMemory, PopReinsert, FillRequeue, irpVars
  <2> QED
    BY <2>1, <2>2
<1>4. ASSUME NEW r \in Readers, Reader(r) \/ IoCancelIrp(r) \/ CancelRead(r)
      PROVE  ResultShape'
  <2>1. CASE ReadInvalid(r) \/ ReadSignalRefused(r) \/ CancelRead(r)
    <3>1. completions[r] = 0 /\ rd[r] # "parsing"
      BY <1>0, <2>1 DEF ReadInvalid, ReadSignalRefused, CancelRead
    <3>2. Complete(r, "failed", 0) \/ Complete(r, "cancelled", 0)
      BY <2>1 DEF ReadInvalid, ReadSignalRefused, CancelRead
    <3>3. \A s \in Readers : rd'[s] = "parsing" => rd[s] = "parsing" /\ s # r
      BY <1>0, <2>1, <3>1 DEF ReadInvalid, ReadSignalRefused, CancelRead, TypeOK
    <3> QED
      BY <1>0, <3>1, <3>2, <3>3, CompleteShape
  <2>2. CASE ReadIssue(r)
    <3>1. rd' = [rd EXCEPT ![r] = "issued"]
          /\ completions' = [completions EXCEPT ![r] = 0]
          /\ result' = [result EXCEPT ![r] = "none"] /\ length' = [length EXCEPT ![r] = 0]
      BY <2>2 DEF ReadIssue
    <3> QED
      BY <1>0, <3>1 DEF ResultShape, TypeOK
  <2>3. CASE WorkerWake(r)
    <3>1. /\ UNCHANGED <<completions, result, length>> /\ completions[r] > 0 /\ completions[r] <= 1
          /\ rd' = [rd EXCEPT ![r] = IF result[r] = "success" THEN "parsing" ELSE "off"]
      BY <1>0, <2>3 DEF WorkerWake, irpVars, IrpShape
    <3>2. completions[r] = 1
      BY <1>0, <3>1 DEF TypeOK
    <3> QED
      BY <1>0, <3>1, <3>2 DEF ResultShape, TypeOK
  <2>4. CASE ReadPend(r) \/ ReadRefuse(r) \/ ReadSignal(r) \/ WorkerParse(r) \/ WorkerGone(r)
             \/ StopReady(r) \/ StopWaiting(r) \/ IoCancelIrp(r)
    <3>1. UNCHANGED <<completions, result, length>>
      BY <2>4 DEF ReadPend, ReadRefuse, ReadSignal, WorkerParse, WorkerGone, StopReady,
         StopWaiting, IoCancelIrp, irpVars
    <3>2. \E p \in {"signal", "refused", "waiting", "ready", "off", "stopping"} :
            rd' = [rd EXCEPT ![r] = p] \/ rd' = rd
      BY <2>4 DEF ReadPend, ReadRefuse, ReadSignal, WorkerParse, WorkerGone, StopReady,
         StopWaiting, IoCancelIrp
    <3> QED
      BY <1>0, <1>1, <3>1, <3>2 DEF TypeOK
  <2>5. CASE \E n \in 1..Len(buf) : StopParsing(r, n)
    BY <1>0, <1>1, <2>5 DEF StopParsing, irpVars, TypeOK
  <2> QED
    BY <1>4, <2>1, <2>2, <2>3, <2>4, <2>5 DEF Reader
<1>5. CASE ControlStep
  <2>1. CASE CancelComplete
    <3>1. ctlIrp \in Readers /\ rd' = rd /\ Complete(ctlIrp, "cancelled", 0)
      BY <1>0, <2>1 DEF CancelComplete, TypeOK
    <3> QED
      BY <1>0, <3>1, CompleteShape
  <2>2. CASE ~CancelComplete
    BY <1>1, <1>5, <2>2 DEF ControlStep, Sleep, CancelTake, CancelEnd, CleanRecord, CleanEnd,
       CleanCode, CloseEnd, irpVars
  <2> QED
    BY <2>1, <2>2
<1>6. CASE Request
  <2>1. UNCHANGED <<completions, result, length>>
    BY <1>6 DEF Request, OpenDevice, OpenMem, SetMonitor, SetIpsMonitor, Close, WorkerStart,
       WorkerStop, irpVars
  <2>2. \A s \in Readers : rd'[s] = "parsing" => rd[s] = "parsing"
    <3>1. rd' = rd \/ \E r \in Readers : rd' = [rd EXCEPT ![r] = "ready"]
      BY <1>6 DEF Request, OpenDevice, OpenMem, SetMonitor, SetIpsMonitor, Close, WorkerStart,
         WorkerStop
    <3> QED
      BY <1>0, <3>1 DEF TypeOK
  <2> QED
    BY <1>1, <2>1, <2>2
<1> QED
  BY <1>2, <1>3, <1>4, <1>5, <1>6 DEF Next

(***************************************************************************)
(* Steps that move no record.                                              *)
(***************************************************************************)
Settled ==
    /\ UNCHANGED <<fresh, pending, ioRec, buf, histVars>>
    /\ \A c \in Callbacks : Inserting(c)' => cb'[c] = cb[c]
    /\ Filling' <=> Filling
    /\ \A r \in Readers : /\ Finished(r)' <=> Finished(r)
                          /\ Finished(r) => length'[r] = length[r]

\* They leave what is in transit.
LEMMA SettledTransit ==
    ASSUME Settled
    PROVE  Unread' = Unread /\ Listed' = Listed /\ InTransit' = InTransit
<1>1. Unread' = Unread
  <2>1. CASE Filling
    BY <2>1 DEF Settled, Unread, Filling
  <2>2. CASE ~Filling
    <3> DEFINE f == {s \in Readers : Finished(s)}
    <3>1. ~Filling'
      BY <2>2 DEF Settled
    <3>2. f' = f /\ \A r \in f : Batch(length[r])' = Batch(length[r])
      BY DEF Settled, Batch
    <3>3. /\ Unread = UNION {Batch(length[r]) : r \in f}
          /\ Unread' = UNION {Batch(length[r])' : r \in f'}
      BY <2>2, <3>1 DEF Unread, Filling, Finished
    <3> HIDE DEF f
    <3> QED
      BY <3>2, <3>3
  <2> QED
    BY <2>1, <2>2
<1> QED
  BY <1>1 DEF Settled, Listed, InTransit

LEMMA SettledPlaces ==
    ASSUME Places, Settled
    PROVE  Places'
<1>1. /\ Unread' = Unread /\ Listed' = Listed /\ InTransit' = InTransit
      /\ Gone' = Gone /\ fresh' = fresh /\ ioRec' = ioRec /\ pending' = pending
      /\ \A c \in Callbacks : Inserting(c)' => Inserting(c) /\ cb'[c] = cb[c]
  BY SettledTransit DEF Settled, histVars, Gone, Inserting
<1>2. Distinct'
  BY <1>1 DEF Places, Distinct
<1> QED
  BY <1>1, <1>2 DEF Places

LEMMA QuietNotify ==
    ASSUME TypeOK, NEW c \in Callbacks, PushInfo(c) \/ PushInfoFails(c) \/ PushSignal(c)
    PROVE  Settled /\ rd' = rd
<1>1. UNCHANGED <<fresh, pending, ioVars, rd, irpVars, histVars>>
  BY DEF PushInfo, PushInfoFails, PushSignal, queueVars
<1>2. \A d \in Callbacks : Inserting(d)' => cb'[d] = cb[d]
  BY DEF PushInfo, PushInfoFails, PushSignal, Inserting, Idle, TypeOK
<1> QED
  BY <1>1, <1>2 DEF Settled, Filling, Finished, ioVars, irpVars

LEMMA QuietIo ==
    ASSUME TypeOK, IoShape, IrpShape, ResultShape,
           \/ IoWait \/ ServiceNothing \/ ServiceMapFails \/ FillNext \/ FillEnd \/ FillRequeue
           \/ \E r \in Readers : ServiceTake(r)
    PROVE  Settled /\ rd' = rd
<1>1. /\ UNCHANGED <<fresh, pending, ioRec, buf, cb, rd, histVars>>
      /\ Filling' <=> Filling
  BY DEF IoWait, ServiceNothing, ServiceMapFails, FillNext, FillEnd, FillRequeue, ServiceTake,
     queueVars, Filling
<1>2. CASE ServiceMapFails
  <2>1. ioIrp \in Readers /\ completions[ioIrp] = 0
    BY <1>2 DEF ServiceMapFails, TypeOK, IoShape, IrpShape
  <2>2. /\ result[ioIrp] = "none"
        /\ result' = [result EXCEPT ![ioIrp] = "failed"] /\ length' = [length EXCEPT ![ioIrp] = 0]
    BY <1>2, <2>1 DEF ServiceMapFails, Complete, ResultShape
  <2> QED
    BY <1>1, <2>1, <2>2 DEF Settled, Finished, TypeOK, Inserting
<1>3. CASE ~ServiceMapFails
  <2>1. UNCHANGED <<result, length>>
    BY <1>3 DEF IoWait, ServiceNothing, FillNext, FillEnd, FillRequeue, ServiceTake, irpVars
  <2> QED
    BY <1>1, <2>1 DEF Settled, Finished
<1> QED
  BY <1>2, <1>3

LEMMA QuietRead ==
    ASSUME TypeOK, IrpShape, ResultShape, NEW r \in Readers,
           \/ ReadIssue(r) \/ ReadInvalid(r) \/ ReadPend(r) \/ ReadRefuse(r)
           \/ ReadSignal(r) \/ ReadSignalRefused(r) \/ IoCancelIrp(r) \/ CancelRead(r)
           \/ StopWaiting(r)
    PROVE  Settled /\ \A s \in Readers : rd'[s] = "off" <=> rd[s] = "off"
<1>1. /\ UNCHANGED <<fresh, pending, ioRec, ioPc, buf, cb, histVars>>
  BY DEF ReadIssue, ReadInvalid, ReadPend, ReadRefuse, ReadSignal, ReadSignalRefused,
     IoCancelIrp, CancelRead, StopWaiting, queueVars, ioVars
<1>2. ASSUME NEW s \in Readers
      PROVE  /\ Finished(s)' <=> Finished(s)
             /\ Finished(s) => length'[s] = length[s]
             /\ rd'[s] = "off" <=> rd[s] = "off"
  <2>1. CASE ReadInvalid(r) \/ ReadSignalRefused(r) \/ CancelRead(r)
    <3>1. /\ completions[r] = 0 /\ rd[r] # "off"
          /\ Complete(r, "failed", 0) \/ Complete(r, "cancelled", 0)
          /\ rd' = [rd EXCEPT ![r] = "waiting"] \/ rd' = rd
      BY <2>1 DEF ReadInvalid, ReadSignalRefused, CancelRead, IrpShape
    <3>2. result[r] = "none"
      BY <3>1 DEF ResultShape
    <3> QED
      BY <3>1, <3>2 DEF Complete, Finished, TypeOK
  <2>2. CASE ReadIssue(r)
    BY <2>2 DEF ReadIssue, Finished, TypeOK
  <2>3. CASE ReadPend(r) \/ ReadRefuse(r)
    <3>1. completions[r] = 0 /\ rd[r] = "issued" /\ UNCHANGED <<result, length>>
      BY <2>3 DEF ReadPend, ReadRefuse, irpVars, IrpShape
    <3>2. result[r] = "none"
      BY <3>1 DEF ResultShape
    <3>3. \E p \in {"signal", "refused"} : rd' = [rd EXCEPT ![r] = p]
      BY <2>3 DEF ReadPend, ReadRefuse
    <3> QED
      BY <3>1, <3>2, <3>3 DEF Finished, TypeOK
  <2>4. CASE ReadSignal(r) \/ StopWaiting(r) \/ IoCancelIrp(r)
    <3>1. UNCHANGED <<result, length>>
      BY <2>4 DEF ReadSignal, StopWaiting, IoCancelIrp, irpVars
    <3>2. rd' = rd \/ (rd[r] \in {"signal", "waiting"} /\ \E p \in {"waiting", "stopping"} : rd' = [rd EXCEPT ![r] = p])
      BY <2>4 DEF ReadSignal, StopWaiting, IoCancelIrp
    <3> QED
      BY <3>1, <3>2 DEF Finished, TypeOK
  <2> QED
    BY <2>1, <2>2, <2>3, <2>4
<1> QED
  BY <1>1, <1>2 DEF Settled, Filling, Inserting

\* The worker starts, or goes on, or ends with no batch in hand.
LEMMA QuietWorker ==
    ASSUME TypeOK, NEW r \in Readers, WorkerStart(r) \/ WorkerWake(r) \/ StopReady(r)
    PROVE  Settled
<1>1. /\ UNCHANGED <<fresh, pending, ioRec, ioPc, buf, cb, result, length, histVars>>
  BY DEF WorkerStart, WorkerWake, StopReady, queueVars, ioVars, irpVars
<1>2. \A s \in Readers : Finished(s)' <=> Finished(s)
  <2>1. \/ rd[r] \in {"off", "ready"} /\ \E p \in {"off", "ready"} : rd' = [rd EXCEPT ![r] = p]
        \/ /\ rd[r] = "waiting"
           /\ rd' = [rd EXCEPT ![r] = IF result[r] = "success" THEN "parsing" ELSE "off"]
    BY DEF WorkerStart, WorkerWake, StopReady
  <2> QED
    BY <1>1, <2>1 DEF Finished, TypeOK
<1> QED
  BY <1>1, <1>2 DEF Settled, Filling, Inserting

LEMMA QuietControl ==
    ASSUME TypeOK, IrpShape, ResultShape,
           \/ Sleep \/ CancelComplete \/ CancelEnd \/ CleanEnd \/ CleanCode \/ CloseEnd
           \/ OpenDevice \/ OpenMem \/ SetIpsMonitor \/ Close \/ WorkerStop
           \/ (\E on \in BOOLEAN : SetMonitor(on)) \/ (\E r \in Readers : CancelTake(r))
    PROVE  Settled /\ rd' = rd
<1>1. UNCHANGED <<fresh, pending, ioRec, ioPc, buf, cb, rd, histVars>>
  BY DEF Sleep, CancelComplete, CancelEnd, CleanEnd, CleanCode, CloseEnd, OpenDevice, OpenMem,
     SetIpsMonitor, Close, WorkerStop, SetMonitor, CancelTake, queueVars, ioVars
<1>2. CASE CancelComplete
  <2>1. /\ ctlIrp \in Readers /\ completions[ctlIrp] = 0
    BY <1>2 DEF CancelComplete, TypeOK, IrpShape
  <2>2. /\ result[ctlIrp] = "none"
        /\ result' = [result EXCEPT ![ctlIrp] = "cancelled"] /\ length' = [length EXCEPT ![ctlIrp] = 0]
    BY <1>2, <2>1 DEF CancelComplete, Complete, ResultShape
  <2> QED
    BY <1>1, <2>1, <2>2 DEF Settled, Filling, Finished, TypeOK, Inserting
<1>3. CASE ~CancelComplete
  <2>1. UNCHANGED <<result, length>>
    BY <1>3 DEF Sleep, CancelEnd, CleanEnd, CleanCode, CloseEnd, OpenDevice, OpenMem,
     SetIpsMonitor, Close, WorkerStop, SetMonitor, CancelTake, irpVars
  <2> QED
    BY <1>1, <2>1 DEF Settled, Filling, Finished
<1> QED
  BY <1>2, <1>3

(***************************************************************************)
(* The places a record moves through.                                      *)
(***************************************************************************)

\* With one worker there is one batch: the one in the buffer while it is filled,
\* then the one of the completed read.
LEMMA UnreadIs ==
    ASSUME OneWorker, NEW r \in Readers
    PROVE  /\ Filling => Unread = SeqRange(buf)
           /\ ~Filling => Unread = IF Finished(r) THEN Batch(length[r]) ELSE {}
           /\ Filling' => Unread' = SeqRange(buf')
           /\ ~Filling' => Unread' = IF Finished(r)' THEN Batch(length[r])' ELSE {}
<1>1. \A s \in Readers : s = r
  BY DEF OneWorker
<1>2. /\ Filling => Unread = SeqRange(buf)
      /\ Filling' => Unread' = SeqRange(buf')
  BY DEF Unread, Filling
<1>3. ASSUME ~Filling PROVE Unread = IF Finished(r) THEN Batch(length[r]) ELSE {}
  <2> DEFINE f == {s \in Readers : Finished(s)}
  <2>1. Unread = UNION {Batch(length[s]) : s \in f}
    BY <1>3 DEF Unread, Filling, Finished
  <2>2. f = IF Finished(r) THEN {r} ELSE {}
    BY <1>1
  <2> HIDE DEF f
  <2> QED
    BY <2>1, <2>2
<1>4. ASSUME ~Filling' PROVE Unread' = IF Finished(r)' THEN Batch(length[r])' ELSE {}
  <2> DEFINE f == {s \in Readers : Finished(s)'}
  <2>1. Unread' = UNION {Batch(length[s])' : s \in f}
    BY <1>4 DEF Unread, Filling, Finished
  <2>2. f = IF Finished(r)' THEN {r} ELSE {}
    BY <1>1
  <2> HIDE DEF f
  <2> QED
    BY <2>1, <2>2
<1> QED
  BY <1>2, <1>3, <1>4

\* While the worker's read is not with the driver, the I/O thread holds no record.
LEMMA IdleIo ==
    ASSUME IInv, OneWorker, NEW r \in Readers,
           rd[r] \notin {"signal", "waiting", "stopping"} \/ completions[r] # 0
    PROVE  ioPc \in {"wait", "service"} /\ ~Filling /\ ioRec = None
<1>1. ioIrp = None
  BY DEF IInv, TypeOK, IrpShape, OneWorker
<1> QED
  BY <1>1 DEF IInv, IoShape, Filling

\* The reads of a driver that is not being read from hold no record either.
LEMMA NoReader ==
    ASSUME IInv, \A r \in Readers : rd[r] = "off"
    PROVE  ioPc \in {"wait", "service"} /\ Unread = {} /\ ioRec = None
<1>1. ioIrp = None
  BY DEF IInv, TypeOK, IrpShape
<1>2. ioPc \in {"wait", "service"} /\ ioRec = None
  BY <1>1 DEF IInv, IoShape
<1>3. {s \in Readers : Finished(s)} = {}
  BY DEF Finished
<1>4. Unread = UNION {Batch(length[s]) : s \in {q \in Readers : Finished(q)}}
  BY <1>2 DEF Unread, Finished
<1> QED
  BY <1>2, <1>3, <1>4

\* What a record moves through is a record.
LEMMA TransitTyped ==
    ASSUME TypeOK
    PROVE  /\ SeqRange(buf) \subseteq Records /\ \A n : Batch(n) \subseteq SeqRange(buf)
           /\ Batch(Len(buf)) = SeqRange(buf)
           /\ Listed \subseteq Records
<1>1. buf \in Seq(Records) /\ Len(buf) \in Nat
  BY DEF TypeOK
<1>2. SeqRange(buf) \subseteq Records
  BY <1>1 DEF SeqRange
<1>3. \A t \in Types : SeqRange(pending[t]) \subseteq Records
  BY DEF TypeOK, SeqRange
<1> QED
  BY <1>1, <1>2, <1>3 DEF SeqRange, Batch, Listed

LEMMA BeginMoves ==
    ASSUME DInv, NEW c \in Callbacks, NEW rec \in Records, NotifyBegin(c, rec)
    PROVE  Places' /\ InTransit' = InTransit /\ UNCHANGED <<histVars, rd>>
<1>1. /\ cb' = [cb EXCEPT ![c] = [pc |-> "insert", rec |-> rec]]
      /\ fresh' = fresh \ {rec} /\ rec \in fresh
      /\ UNCHANGED <<pending, ioVars, rd, irpVars, histVars>>
  BY DEF NotifyBegin
<1>2. Unread' = Unread /\ Listed' = Listed /\ InTransit' = InTransit /\ Gone' = Gone
  BY <1>1 DEF Unread, Batch, Listed, InTransit, Gone, ioVars, irpVars, histVars
<1>3. \A d \in Callbacks : /\ d # c => cb'[d] = cb[d]
                           /\ cb'[c].pc = "insert" /\ cb'[c].rec = rec
  BY <1>1 DEF DInv, IInv, TypeOK
<1>4. \A d \in Callbacks : Inserting(d)' => d = c \/ (Inserting(d) /\ cb'[d] = cb[d])
  BY <1>3 DEF Inserting
<1>5. Distinct'
  BY <1>1 DEF DInv, Places, Distinct
<1>6. \A d \in Callbacks : Inserting(d)' => cb'[d].rec \notin fresh' \cup InTransit' \cup Gone'
  BY <1>1, <1>2, <1>3, <1>4 DEF DInv, Places
<1>7. \A d, e \in Callbacks : Inserting(d)' /\ Inserting(e)' /\ cb'[d].rec = cb'[e].rec => d = e
  BY <1>1, <1>3, <1>4 DEF DInv, Places
<1> QED
  BY <1>1, <1>2, <1>5, <1>6, <1>7 DEF DInv, Places, ioVars

LEMMA InsertMoves ==
    ASSUME DInv, NEW c \in Callbacks, NotifyInsert(c)
    PROVE  /\ Places' /\ InTransit' = InTransit \cup {cb[c].rec} /\ UNCHANGED <<histVars, rd>>
           /\ cb[c].rec \in Records /\ cb[c].rec \notin InTransit \cup Gone
<1>1. PICK e \in Records : cb[c].rec = e
  BY DEF NotifyInsert, DInv, IInv, TypeOK, Idle
<1>2. /\ pending' = [pending EXCEPT ![TypeOf[e]] = <<e>> \o pending[TypeOf[e]]]
      /\ UNCHANGED <<fresh, ioVars, rd, irpVars, histVars>>
      /\ cb' = [cb EXCEPT ![c] = IF e \in Unannounced THEN Idle ELSE [pc |-> "push", rec |-> e]]
  BY <1>1 DEF NotifyInsert
<1>3. TypeOf[e] \in Types /\ Inserting(c) /\ pending \in [Types -> Seq(Records)] /\ e # None
  BY <1>1, TypesAssumption DEF NotifyInsert, Inserting, DInv, IInv, TypeOK
<1>4. e \notin fresh \cup InTransit \cup Gone
  BY <1>1, <1>3 DEF DInv, Places
<1>5. Listed' = Listed \cup {e} /\ Distinct'
  BY <1>2, <1>3, <1>4, ListedCons DEF DInv, Places, InTransit, Listed
<1>6. Unread' = Unread /\ ioRec' = ioRec /\ Gone' = Gone /\ fresh' = fresh
  BY <1>2 DEF Unread, Batch, Gone, ioVars, irpVars, histVars
<1>7. InTransit' = InTransit \cup {e}
  BY <1>5, <1>6 DEF InTransit, Listed
<1>8. \A d \in Callbacks : Inserting(d)' => Inserting(d) /\ d # c /\ cb'[d] = cb[d]
  BY <1>2 DEF Inserting, Idle, DInv, IInv, TypeOK
<1>9. \A d \in Callbacks : Inserting(d)' => cb'[d].rec \notin fresh' \cup InTransit' \cup Gone'
  BY <1>1, <1>3, <1>6, <1>7, <1>8 DEF DInv, Places
<1>10. Unread' \cap Listed' = {} /\ ioRec' \notin Unread' \cup Listed'
  <2>1. e \notin Unread /\ e # ioRec
    BY <1>3, <1>4 DEF InTransit
  <2> QED
    BY <1>5, <1>6, <2>1 DEF DInv, Places
<1> QED
  BY <1>1, <1>2, <1>4, <1>5, <1>6, <1>7, <1>8, <1>9, <1>10 DEF DInv, Places

\* The fill of the buffer, step by step.
LEMMA FillMoves ==
    ASSUME DInv, OneWorker, NoUndefined', ServiceMap \/ PopRecord \/ PopNoMemory \/ PopReinsert
                                       \/ ServiceComplete
    PROVE  Places' /\ InTransit' = InTransit /\ UNCHANGED <<histVars, rd>>
<1>1. PICK r \in Readers : ioIrp = r /\ completions[r] = 0 /\ rd[r] \in {"signal", "waiting", "stopping"}
  BY DEF ServiceMap, PopRecord, PopNoMemory, PopReinsert, ServiceComplete, DInv, IInv, TypeOK,
     IoShape, IrpShape
<1>2. result[r] = "none" /\ ~Finished(r)
  BY <1>1 DEF DInv, ResultShape, Finished
<1>3. /\ fresh' = fresh /\ cb' = cb /\ Gone' = Gone /\ UNCHANGED <<histVars, rd>>
  BY DEF ServiceMap, PopRecord, PopNoMemory, PopReinsert, ServiceComplete, queueVars, Gone, histVars
<1>4. ASSUME InTransit' = InTransit, Unread' \cap Listed' = {}, ioRec' \notin Unread' \cup Listed', Distinct'
      PROVE  Places'
  BY <1>3, <1>4 DEF DInv, Places, Inserting
<1>5. TypeOK /\ IoShape /\ pending \in [Types -> Seq(Records)] /\ buf \in Seq(Records)
  BY DEF DInv, IInv, TypeOK
<1>6. CASE ServiceMap
  <2>1. ioPc = "map" /\ ioPc' = "fill" /\ buf' = <<>> /\ UNCHANGED <<pending, ioRec>>
    BY <1>6 DEF ServiceMap, queueVars
  <2>2. Unread = {} /\ Unread' = {}
    BY <1>2, <2>1, UnreadIs DEF Filling, SeqRange
  <2>3. Listed' = Listed /\ InTransit' = InTransit /\ Distinct'
    BY <2>1, <2>2 DEF Listed, InTransit, DInv, Places, Distinct
  <2> QED
    BY <1>3, <1>4, <2>1, <2>2, <2>3 DEF DInv, Places
<1>7. CASE ServiceComplete
  <2>1. /\ ioPc = "complete" /\ ioPc' = "wait" /\ UNCHANGED <<pending, ioRec, buf>>
        /\ length'[r] = Len(buf) /\ result'[r] = "success" /\ rd' = rd
    BY <1>1, <1>5, <1>7 DEF ServiceComplete, Complete, queueVars, TypeOK
  <2>2. Unread = SeqRange(buf)
    BY <2>1, UnreadIs DEF Filling
  <2>3. Unread' = Batch(length[r])'
    BY <1>1, <2>1, UnreadIs DEF Filling, Finished
  <2>4. Unread' = Unread
    BY <1>5, <2>1, <2>2, <2>3, TransitTyped DEF Batch
  <2>5. Listed' = Listed /\ InTransit' = InTransit /\ Distinct'
    BY <2>1, <2>4 DEF Listed, InTransit, DInv, Places, Distinct
  <2> QED
    BY <1>3, <1>4, <2>1, <2>4, <2>5 DEF DInv, Places
<1>8. CASE PopRecord \/ PopNoMemory
  <2>1. PICK t \in Types : ioCode = t
    BY <1>5, <1>8 DEF PopRecord, PopNoMemory, TypeOK, IoShape
  <2>2. ioPc = "pop" /\ Filling /\ ioRec = None /\ Unread = SeqRange(buf)
    BY <1>5, <1>8, UnreadIs DEF PopRecord, PopNoMemory, Filling, IoShape
  <2>3. CASE pending[t] = <<>>
    <3>1. ioPc' = "fill" /\ UNCHANGED <<pending, ioRec, buf>>
      BY <1>8, <2>1, <2>3 DEF PopRecord, PopNoMemory, NoUndefined
    <3>2. Unread' = Unread
      BY <2>2, <3>1, UnreadIs DEF Filling
    <3>3. Listed' = Listed /\ InTransit' = InTransit /\ Distinct'
      BY <3>1, <3>2 DEF Listed, InTransit, DInv, Places, Distinct
    <3> QED
      BY <1>3, <1>4, <3>1, <3>2, <3>3 DEF DInv, Places
  <2>4. CASE pending[t] # <<>>
    <3>1. pending' = [pending EXCEPT ![t] = Tail(pending[t])]
      BY <1>8, <2>1, <2>4 DEF PopRecord, PopNoMemory
    <3>2. PICK h \in Records : /\ h = Head(pending[t]) /\ h \in Listed /\ Listed' = Listed \ {h}
                               /\ Distinct'
      BY <1>5, <2>4, <3>1, ListedTail DEF DInv, Places
    <3>3. h # None /\ h \notin Unread /\ h \notin Listed'
      BY <3>2, TypesAssumption DEF DInv, Places
    <3>4. CASE PopRecord
      <4>1. ioPc' = "fill" /\ buf' = Append(buf, h) /\ ioRec' = None
        BY <2>1, <2>2, <2>4, <3>2, <3>4 DEF PopRecord, NoUndefined
      <4>2. Unread' = Unread \cup {h}
        BY <1>5, <2>2, <4>1, RangeAppend, UnreadIs DEF Filling
      <4>3. InTransit' = InTransit
        BY <2>2, <3>2, <4>1, <4>2 DEF InTransit, Listed
      <4>4. Unread' \cap Listed' = {}
        BY <3>2, <3>3, <4>2 DEF DInv, Places
      <4>5. ioRec' \notin Unread' \cup Listed'
        BY <2>2, <3>2, <3>3, <4>1, <4>2 DEF DInv, Places
      <4> QED
        BY <1>3, <1>4, <3>2, <4>3, <4>4, <4>5
    <3>5. CASE PopNoMemory
      <4>1. ioPc' = "reinsert" /\ buf' = buf /\ ioRec' = h
        BY <2>1, <3>2, <3>5 DEF PopNoMemory
      <4>2. Unread' = Unread
        BY <2>2, <4>1, UnreadIs DEF Filling
      <4>3. InTransit' = InTransit
        BY <2>2, <3>2, <3>3, <4>1, <4>2 DEF InTransit, Listed
      <4> QED
        BY <1>3, <1>4, <3>2, <3>3, <4>1, <4>2, <4>3 DEF DInv, Places
    <3> QED
      BY <1>8, <3>4, <3>5
  <2> QED
    BY <2>3, <2>4
<1>9. CASE PopReinsert
  <2>1. PICK t \in Types : ioCode = t
    BY <1>5, <1>9 DEF PopReinsert, TypeOK, IoShape
  <2>2. PICK e \in Records : ioRec = e
    BY <1>5, <1>9 DEF PopReinsert, TypeOK, IoShape
  <2>3. /\ ioPc = "reinsert" /\ ioPc' = "requeue" /\ buf' = buf /\ ioRec' = None
        /\ pending' = [pending EXCEPT ![t] = <<e>> \o pending[t]]
    BY <1>9, <2>1, <2>2 DEF PopReinsert
  <2>4. Unread' = Unread
    BY <2>3, UnreadIs DEF Filling
  <2>5. e \notin Unread /\ e \notin Listed /\ e # None
    BY <2>2, TypesAssumption DEF DInv, Places
  <2>6. Listed' = Listed \cup {e} /\ Distinct'
    BY <1>5, <2>3, <2>5, ListedCons DEF DInv, Places
  <2>7. InTransit' = InTransit
    BY <2>2, <2>3, <2>4, <2>5, <2>6 DEF InTransit, Listed
  <2>8. None \notin Unread' /\ None \notin Listed'
    <3>1. Unread \subseteq Records /\ Listed \subseteq Records
      BY <1>5, <2>3, UnreadIs, TransitTyped DEF Filling
    <3> QED
      BY <2>4, <2>6, <3>1, TypesAssumption
  <2> QED
    BY <1>3, <1>4, <2>3, <2>4, <2>5, <2>6, <2>7, <2>8 DEF DInv, Places
<1> QED
  BY <1>6, <1>7, <1>8, <1>9

\* The worker hands over the records of D and drops those of X.
LEMMA ResolveMoves ==
    ASSUME DInv, NEW D, NEW X, Unread = D \cup X, Unread' = {},
           UNCHANGED <<fresh, pending, ioRec, cb>>,
           delivered' = delivered \cup D, discarded' = discarded \cup X
    PROVE  Places' /\ InTransit' = InTransit \ (D \cup X) /\ (D \cup X) \subseteq InTransit
<1>1. Listed' = Listed /\ Distinct' /\ Gone' = Gone \cup D \cup X
  BY DEF Listed, Distinct, Gone, DInv, Places
<1>2. InTransit' = InTransit \ (D \cup X) /\ (D \cup X) \subseteq InTransit
  BY <1>1 DEF InTransit, DInv, Places, Listed
<1>3. \A c \in Callbacks : Inserting(c)' => Inserting(c) /\ cb'[c] = cb[c]
  BY DEF Inserting
<1>4. InTransit' \cap Gone' = {}
  BY <1>1, <1>2 DEF DInv, Places
<1>5. fresh' \cap (InTransit' \cup Gone') = {}
  BY <1>1, <1>2 DEF DInv, Places
<1>6. \A c \in Callbacks : Inserting(c)' => cb'[c].rec \notin fresh' \cup InTransit' \cup Gone'
  BY <1>1, <1>2, <1>3 DEF DInv, Places
<1>7. ioRec' \notin Unread' \cup Listed'
  BY <1>1 DEF DInv, Places
<1> QED
  BY <1>1, <1>2, <1>3, <1>4, <1>5, <1>6, <1>7 DEF DInv, Places

LEMMA CleanMoves ==
    ASSUME DInv, NEW t \in Types, CleanRecord(t)
    PROVE  /\ Places' /\ rd' = rd /\ \A r \in Readers : rd[r] = "off"
           /\ \E h \in InTransit \cap Records :
                /\ InTransit' = InTransit \ {h} /\ delivered' = delivered
                /\ discarded' = discarded \cup {h}
<1>1. /\ \A r \in Readers : rd[r] = "off"
      /\ pending[t] # <<>> /\ pending' = [pending EXCEPT ![t] = Tail(pending[t])]
      /\ discarded' = discarded \cup {Head(pending[t])} /\ delivered' = delivered
      /\ UNCHANGED <<fresh, cb, ioVars, rd, irpVars>>
  BY DEF CleanRecord, DInv, IInv, SessionShape
<1>2. Unread = {} /\ ioRec = None
  BY <1>1, NoReader DEF DInv
<1>3. Unread' = {} /\ ioRec' = None
  BY <1>1, <1>2 DEF Unread, Batch, ioVars, irpVars
<1>4. PICK h \in Records : /\ h = Head(pending[t]) /\ h \in Listed /\ Listed' = Listed \ {h}
                           /\ Distinct'
  BY <1>1, ListedTail DEF DInv, Places, IInv, TypeOK
<1>5. InTransit = Listed /\ InTransit' = Listed' /\ Gone' = Gone \cup {h}
  BY <1>1, <1>2, <1>3, <1>4 DEF InTransit, Listed, Gone
<1>6. \A c \in Callbacks : Inserting(c)' => Inserting(c) /\ cb'[c] = cb[c]
  BY <1>1 DEF Inserting
<1>7. fresh' = fresh /\ ioRec' \notin Unread' \cup Listed'
  <2>1. None \notin Listed
    BY <1>2 DEF DInv, Places
  <2> QED
    BY <1>1, <1>3, <1>4, <2>1
<1>8. fresh' \cap (InTransit' \cup Gone') = {} /\ InTransit' \cap Gone' = {}
  BY <1>4, <1>5, <1>7 DEF DInv, Places
<1>9. \A c \in Callbacks : Inserting(c)' => cb'[c].rec \notin fresh' \cup InTransit' \cup Gone'
  BY <1>4, <1>5, <1>6, <1>7 DEF DInv, Places
<1>10. Places'
  BY <1>3, <1>4, <1>6, <1>7, <1>8, <1>9 DEF DInv, Places
<1> QED
  BY <1>1, <1>4, <1>5, <1>10

(***************************************************************************)
(* The refinement.                                                         *)
(***************************************************************************)
LEMMA StatusIs ==
    ASSUME NEW e
    PROVE  /\ StatusOf(e) = IF e \in InTransit THEN "queued"
                            ELSE IF e \in delivered THEN "delivered"
                            ELSE IF e \in discarded THEN "discarded" ELSE "none"
           /\ StatusOf(e)' = IF e \in InTransit' THEN "queued"
                             ELSE IF e \in delivered' THEN "delivered"
                             ELSE IF e \in discarded' THEN "discarded" ELSE "none"
BY DEF StatusOf

LEMMA HiddenRefines ==
    ASSUME InTransit' = InTransit, UNCHANGED histVars,
           \A r \in Readers : rd'[r] = "off" <=> rd[r] = "off"
    PROVE  UNCHANGED Delivery!vars
<1>1. \A e \in Records : StatusOf(e)' = StatusOf(e)
  BY StatusIs DEF histVars
<1> QED
  BY <1>1 DEF Delivery!vars

LEMMA RaiseRefines ==
    ASSUME NEW e \in Records, e \notin InTransit \cup Gone, InTransit' = InTransit \cup {e},
           UNCHANGED <<histVars, rd>>
    PROVE  Delivery!Raise(e)
<1>1. StatusOf(e) = "none" /\ StatusOf(e)' = "queued"
  BY StatusIs DEF Gone
<1>2. \A f \in Records : f # e => StatusOf(f)' = StatusOf(f)
  BY StatusIs DEF histVars
<1> QED
  BY <1>1, <1>2 DEF Delivery!Raise

LEMMA PurgeRefines ==
    ASSUME DInv, NEW h \in Records, h \in InTransit, InTransit' = InTransit \ {h},
           delivered' = delivered, discarded' = discarded \cup {h},
           \A r \in Readers : rd[r] = "off", rd' = rd
    PROVE  Delivery!Purge(h)
<1>1. StatusOf(h) = "queued" /\ StatusOf(h)' = "discarded"
  BY StatusIs DEF DInv, Places, Gone
<1>2. \A f \in Records : f # h => StatusOf(f)' = StatusOf(f)
  BY StatusIs
<1> QED
  BY <1>1, <1>2 DEF Delivery!Purge

\* What the worker resolves takes the status EventDelivery gives it.
LEMMA ResolvedIs ==
    ASSUME DInv, NEW D, NEW X, (D \cup X) \subseteq InTransit, InTransit' = InTransit \ (D \cup X),
           delivered' = delivered \cup D, discarded' = discarded \cup X
    PROVE  /\ \A e \in D \cup X : StatusOf(e) = "queued"
           /\ \A e \in Records : StatusOf(e)' = IF e \in D THEN "delivered"
                                                ELSE IF e \in X THEN "discarded" ELSE StatusOf(e)
<1>1. \A e \in D \cup X : StatusOf(e) = "queued" /\ e \notin delivered
  BY StatusIs DEF DInv, Places, Gone
<1> QED
  BY <1>1, StatusIs

LEMMA WorkerRefines ==
    ASSUME DInv, OneWorker, NEW r \in Readers,
           \/ WorkerParse(r) \/ WorkerGone(r) \/ \E n \in 1..Len(buf) : StopParsing(r, n)
    PROVE  Places' /\ Delivery!Next
<1>1. /\ rd[r] \in {"parsing", "stopping"} /\ completions[r] # 0
      /\ rd[r] = "parsing" => Finished(r)
      /\ UNCHANGED <<queueVars, cb, ioVars, irpVars>>
  BY DEF WorkerParse, WorkerGone, StopParsing, DInv, IInv, TypeOK, ResultShape, Finished
<1>2. ~Filling /\ ~Filling'
  BY <1>1, IdleIo DEF DInv, Filling, ioVars
<1>3. Unread = Batch(length[r])
  <2>1. CASE Finished(r)
    BY <1>2, <2>1, UnreadIs
  <2>2. CASE ~Finished(r)
    <3>1. length[r] = 0
      BY <1>1, <2>2 DEF DInv, ResultShape, Finished
    <3>2. Batch(0) = {}
      BY DEF Batch
    <3> QED
      BY <1>2, <2>2, <3>1, <3>2, UnreadIs
  <2> QED
    BY <2>1, <2>2
<1>4. rd' = [rd EXCEPT ![r] = IF WorkerParse(r) THEN "ready" ELSE "off"]
  BY DEF WorkerParse, WorkerGone, StopParsing
<1>5. Unread' = {}
  <2>1. ~Finished(r)'
    BY <1>4 DEF Finished, DInv, IInv, TypeOK
  <2> QED
    BY <1>2, <2>1, UnreadIs
<1>6. UNCHANGED <<fresh, pending, ioRec, cb>>
  BY <1>1 DEF queueVars, ioVars
<1>7. /\ \E s \in Readers : rd[s] # "off"
      /\ WorkerParse(r) => \E s \in Readers : rd'[s] # "off"
      /\ ~WorkerParse(r) => ~\E s \in Readers : rd'[s] # "off"
  BY <1>1, <1>4 DEF OneWorker, DInv, IInv, TypeOK
<1>8. Batch(length[r]) \subseteq Records
  BY TransitTyped DEF DInv, IInv
<1>9. CASE WorkerParse(r)
  <2> DEFINE D == Batch(length[r])
             X == {}
  <2>1. Unread = D \cup X /\ delivered' = delivered \cup D /\ discarded' = discarded \cup X
    BY <1>3, <1>9 DEF WorkerParse
  <2>2. D \in SUBSET Records /\ X = {}
    BY <1>8
  <2> HIDE DEF D, X
  <2>3. Places' /\ InTransit' = InTransit \ (D \cup X) /\ (D \cup X) \subseteq InTransit
    BY <1>5, <1>6, <2>1, ResolveMoves
  <2>4. Delivery!Deliver(D)
    <3>1. /\ \A e \in D \cup X : StatusOf(e) = "queued"
          /\ \A e \in Records : StatusOf(e)' = IF e \in D THEN "delivered"
                                               ELSE IF e \in X THEN "discarded" ELSE StatusOf(e)
      BY <2>1, <2>3, ResolvedIs
    <3> QED
      BY <1>7, <1>9, <2>2, <3>1 DEF Delivery!Deliver, Delivery!Queued, Delivery!Resolved
  <2> QED
    BY <2>2, <2>3, <2>4 DEF Delivery!Next
<1>10. CASE ~WorkerParse(r)
  <2>1. PICK D \in SUBSET Records, X \in SUBSET Records :
          Unread = D \cup X /\ delivered' = delivered \cup D /\ discarded' = discarded \cup X
    <3>1. CASE WorkerGone(r)
      <4>1. Unread = {} \cup Batch(length[r]) /\ delivered' = delivered \cup {}
            /\ discarded' = discarded \cup Batch(length[r])
        BY <1>3, <3>1 DEF WorkerGone
      <4> QED
        BY <1>8, <4>1
    <3>2. CASE \E n \in 1..Len(buf) : StopParsing(r, n)
      <4>1. PICK n \in 1..Len(buf) : StopParsing(r, n)
        BY <3>2
      <4>2. Batch(n) \subseteq Batch(length[r])
        <5>1. n \in 1..length[r] /\ length[r] \in Nat
          BY <4>1 DEF StopParsing, DInv, IInv, TypeOK
        <5> QED
          BY <5>1 DEF Batch
      <4>3. /\ Unread = Batch(n) \cup (Batch(length[r]) \ Batch(n))
            /\ delivered' = delivered \cup Batch(n)
            /\ discarded' = discarded \cup (Batch(length[r]) \ Batch(n))
        BY <1>3, <4>1, <4>2 DEF StopParsing
      <4> QED
        BY <1>8, <4>2, <4>3
    <3> QED
      BY <1>10, <3>1, <3>2
  <2>2. Places' /\ InTransit' = InTransit \ (D \cup X) /\ (D \cup X) \subseteq InTransit
    BY <1>5, <1>6, <2>1, ResolveMoves
  <2>3. Delivery!Stop(D, X)
    BY <1>7, <1>10, <2>1, <2>2, ResolvedIs
       DEF Delivery!Stop, Delivery!Queued, Delivery!Resolved
  <2> QED
    BY <2>2, <2>3 DEF Delivery!Next
<1> QED
  BY <1>9, <1>10

\* A worker that starts, and one that ends with nothing read.
LEMMA StartStopRefines ==
    ASSUME DInv, OneWorker, NEW r \in Readers, WorkerStart(r) \/ WorkerWake(r) \/ StopReady(r)
    PROVE  Places' /\ [Delivery!Next]_(Delivery!vars)
<1>1. Settled
  BY QuietWorker DEF DInv, IInv
<1>2. Places' /\ InTransit' = InTransit /\ UNCHANGED histVars
  BY <1>1, SettledPlaces, SettledTransit DEF DInv, Settled
<1>3. \A e \in Records : StatusOf(e)' = StatusOf(e)
  BY <1>2, StatusIs DEF histVars
<1>4. /\ (\E s \in Readers : rd[s] # "off") <=> rd[r] # "off"
      /\ (\E s \in Readers : rd'[s] # "off") <=> rd'[r] # "off"
  BY DEF OneWorker
<1>5. CASE WorkerStart(r)
  <2>1. rd[r] = "off" /\ rd'[r] # "off"
    BY <1>5 DEF WorkerStart, DInv, IInv, TypeOK
  <2>2. Delivery!Start
    BY <1>3, <1>4, <2>1 DEF Delivery!Start
  <2> QED
    BY <1>2, <2>2 DEF Delivery!Next
<1>6. CASE (WorkerWake(r) /\ result[r] # "success") \/ StopReady(r)
  <2>1. rd[r] # "off" /\ rd'[r] = "off"
    BY <1>6 DEF WorkerWake, StopReady, DInv, IInv, TypeOK
  <2>2. Delivery!Stop({}, {})
    BY <1>3, <1>4, <2>1 DEF Delivery!Stop, Delivery!Queued, Delivery!Resolved
  <2>3. {} \in SUBSET Records
    OBVIOUS
  <2> QED
    BY <1>2, <2>2, <2>3 DEF Delivery!Next
<1>7. CASE WorkerWake(r) /\ result[r] = "success"
  <2>1. \A s \in Readers : rd'[s] = "off" <=> rd[s] = "off"
    BY <1>7 DEF WorkerWake, DInv, IInv, TypeOK
  <2> QED
    BY <1>2, <2>1, HiddenRefines
<1> QED
  BY <1>5, <1>6, <1>7

\* Every step is a step of EventDelivery, or one it does not see.
LEMMA StepRefines ==
    ASSUME DInv, OneWorker, [Next]_vars
    PROVE  DInv' /\ [Delivery!Next]_(Delivery!vars)
<1>0. TypeOK /\ IoShape /\ IrpShape /\ ResultShape /\ Places
  BY DEF DInv, IInv
<1>1. IInv' /\ ResultShape'
  <2>1. IInv'
    BY TypeNext, IrpNext, SessionNext, BackedNext DEF DInv, IInv
  <2> QED
    BY <2>1, ResultNext DEF DInv
<1>2. ASSUME Settled, \A r \in Readers : rd'[r] = "off" <=> rd[r] = "off"
      PROVE  Places' /\ [Delivery!Next]_(Delivery!vars)
  BY <1>0, <1>2, SettledPlaces, SettledTransit, HiddenRefines DEF Settled
<1>3. CASE UNCHANGED vars
  <2>1. Settled /\ rd' = rd
    BY <1>3 DEF vars, queueVars, ioVars, irpVars, Settled, Filling, Finished
  <2> QED
    BY <1>1, <1>2, <2>1 DEF DInv
<1>4. ASSUME NEW c \in Callbacks, Notify(c) PROVE Places' /\ [Delivery!Next]_(Delivery!vars)
  <2>1. CASE \E rec \in Records : NotifyBegin(c, rec)
    BY <2>1, BeginMoves, HiddenRefines
  <2>2. CASE NotifyInsert(c)
    BY <2>2, InsertMoves, RaiseRefines DEF Delivery!Next
  <2>3. CASE PushInfo(c) \/ PushInfoFails(c) \/ PushSignal(c)
    BY <1>0, <1>2, <2>3, QuietNotify
  <2> QED
    BY <1>4, <2>1, <2>2, <2>3 DEF Notify
<1>5. ASSUME IoThread PROVE Places' /\ [Delivery!Next]_(Delivery!vars)
  <2>1. CASE ServiceMap \/ PopRecord \/ PopNoMemory \/ PopReinsert \/ ServiceComplete
    BY <1>1, <2>1, FillMoves, HiddenRefines DEF IInv
  <2>2. CASE ~(ServiceMap \/ PopRecord \/ PopNoMemory \/ PopReinsert \/ ServiceComplete)
    BY <1>0, <1>2, <1>5, <2>2, QuietIo DEF IoThread
  <2> QED
    BY <2>1, <2>2
<1>6. ASSUME NEW r \in Readers, Reader(r) \/ IoCancelIrp(r) \/ CancelRead(r)
      PROVE  Places' /\ [Delivery!Next]_(Delivery!vars)
  <2>1. CASE \/ WorkerParse(r) \/ WorkerGone(r) \/ \E n \in 1..Len(buf) : StopParsing(r, n)
    BY <2>1, WorkerRefines
  <2>2. CASE WorkerWake(r) \/ StopReady(r)
    BY <2>2, StartStopRefines
  <2>3. CASE ~(\/ WorkerParse(r) \/ WorkerGone(r) \/ WorkerWake(r) \/ StopReady(r)
               \/ \E n \in 1..Len(buf) : StopParsing(r, n))
    BY <1>0, <1>2, <1>6, <2>3, QuietRead DEF Reader
  <2> QED
    BY <2>1, <2>2, <2>3
<1>7. ASSUME ControlStep PROVE Places' /\ [Delivery!Next]_(Delivery!vars)
  <2>1. ASSUME NEW t \in Types, CleanRecord(t) PROVE Places' /\ Delivery!Next
    BY <2>1, CleanMoves, PurgeRefines DEF Delivery!Next
  <2>2. CASE ~\E t \in Types : CleanRecord(t)
    BY <1>0, <1>2, <1>7, <2>2, QuietControl DEF ControlStep
  <2> QED
    BY <2>1, <2>2
<1>8. ASSUME Request PROVE Places' /\ [Delivery!Next]_(Delivery!vars)
  <2>1. CASE \E r \in Readers : WorkerStart(r)
    BY <2>1, StartStopRefines
  <2>2. CASE ~\E r \in Readers : WorkerStart(r)
    BY <1>0, <1>2, <1>8, <2>2, QuietControl DEF Request
  <2> QED
    BY <2>1, <2>2
<1> QED
  BY <1>1, <1>3, <1>4, <1>5, <1>6, <1>7, <1>8 DEF Next, DInv

LEMMA InitRefines == Init => DInv /\ Delivery!Init
<1> SUFFICES ASSUME Init PROVE DInv /\ Delivery!Init
  OBVIOUS
<1>1. IInv
  BY InitInvariant
<1>2. Listed = {} /\ Unread = {} /\ ioRec = None /\ Gone = {} /\ InTransit = {}
  <2>1. Listed = {}
    BY DEF Init, Listed, SeqRange
  <2>2. Unread = {}
    BY DEF Init, Unread
  <2> QED
    BY <2>1, <2>2 DEF Init, Gone, InTransit, Listed
<1>3. ResultShape
  BY DEF Init, ResultShape
<1>4. Distinct
  BY DEF Init, Distinct
<1>5. \A c \in Callbacks : ~Inserting(c)
  BY DEF Init, Inserting, Idle
<1>6. Places
  BY <1>2, <1>4, <1>5 DEF Places
<1>7. Delivery!Init
  <2>1. \A e \in Records : StatusOf(e) = "none"
    BY <1>2, StatusIs DEF Gone
  <2>2. ~\E r \in Readers : rd[r] # "off"
    BY DEF Init
  <2> QED
    BY <2>1, <2>2 DEF Delivery!Init
<1> QED
  BY <1>1, <1>3, <1>6, <1>7 DEF DInv

\* With one worker the driver's lists, the shared buffer and the worker's parse
\* deliver every queued record at most once and lose none while the worker reads,
\* whichever reads are cancelled or fail and wherever the buffer fills up.
THEOREM DeliveryImplemented == ASSUME OneWorker PROVE Spec => DeliveryHolds
<1>1. DInv /\ [Next]_vars => DInv' /\ [Delivery!Next]_(Delivery!vars)
  BY StepRefines
<1> QED
  BY <1>1, InitRefines, PTL DEF Spec, DeliveryHolds, Delivery!Spec
=============================================================================
