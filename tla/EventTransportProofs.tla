------------------------ MODULE EventTransportProofs ------------------------
(***************************************************************************)
(* Proofs about EventTransport, for every choice of its constants.         *)
(***************************************************************************)
EXTENDS EventTransport, FiniteSetTheorems, SequenceTheorems, TLAPS

(***************************************************************************)
(* Occurrences of a code in the code list.                                 *)
(***************************************************************************)

\* The set counted by Occurrences is finite, so that the count is a number.
LEMMA OccurrencesType ==
    ASSUME NEW S, NEW s \in Seq(S), NEW t
    PROVE  /\ IsFiniteSet({i \in 1..Len(s) : s[i] = t})
           /\ Occurrences(s, t) \in Nat
<1>1. IsFiniteSet(1..Len(s))
  BY FS_Interval
<1>2. IsFiniteSet({i \in 1..Len(s) : s[i] = t})
  BY <1>1, FS_Subset
<1>. QED  BY <1>2, FS_CardinalityType DEF Occurrences

\* An empty list holds no code.
LEMMA OccurrencesEmpty ==
    ASSUME NEW t
    PROVE  Occurrences(<<>>, t) = 0
<1>1. {i \in 1..Len(<<>>) : <<>>[i] = t} = {}
  OBVIOUS
<1>. QED  BY <1>1, FS_EmptySet DEF Occurrences

\* InsertHeadList adds one occurrence of the code inserted and of no other.
LEMMA OccurrencesCons ==
    ASSUME NEW S, NEW s \in Seq(S), NEW c \in S, NEW t
    PROVE  Occurrences(<<c>> \o s, t) = Occurrences(s, t) + (IF c = t THEN 1 ELSE 0)
<1>. DEFINE old == {i \in 1..Len(s) : s[i] = t}
            new == {i \in 1..Len(<<c>> \o s) : (<<c>> \o s)[i] = t}
            moved == {i \in 2..(Len(s) + 1) : s[i-1] = t}
            shift == [i \in old |-> i + 1]
<1>1. /\ Len(<<c>> \o s) = Len(s) + 1
      /\ (<<c>> \o s)[1] = c
      /\ \A i \in 2..(Len(s) + 1) : (<<c>> \o s)[i] = s[i-1]
  OBVIOUS
<1>2. IsFiniteSet(old) /\ Cardinality(old) = Occurrences(s, t) /\ Occurrences(s, t) \in Nat
  BY OccurrencesType DEF Occurrences
<1>3. shift \in Bijection(old, moved)
  <2>1. shift \in [old -> moved]
    OBVIOUS
  <2>2. \A i, j \in old : shift[i] = shift[j] => i = j
    OBVIOUS
  <2>3. \A j \in moved : \E i \in old : shift[i] = j
    <3>. TAKE j \in moved
    <3>1. j - 1 \in old /\ shift[j - 1] = j
      OBVIOUS
    <3>. QED  BY <3>1
  <2>. QED  BY <2>1, <2>2, <2>3 DEF Bijection, Injection, Surjection, IsInjective
<1>4. IsFiniteSet(moved) /\ Cardinality(moved) = Occurrences(s, t)
  BY <1>2, <1>3, FS_Bijection DEF ExistsBijection
<1>5. CASE c = t
  <2>1. new = moved \cup {1}
    BY <1>1, <1>5
  <2>2. 1 \notin moved
    OBVIOUS
  <2>3. Cardinality(new) = Cardinality(moved) + 1
    BY <1>4, <2>1, <2>2, FS_AddElement
  <2>. QED  BY <1>4, <1>5, <2>3 DEF Occurrences
<1>6. CASE c # t
  <2>1. new = moved
    BY <1>1, <1>6
  <2>2. Occurrences(<<c>> \o s, t) = Cardinality(new)
    BY DEF Occurrences
  <2>3. Cardinality(new) = Cardinality(moved)
    BY <2>1
  <2>. HIDE DEF old, new, moved
  <2>. QED  BY <1>2, <1>4, <1>6, <2>2, <2>3
<1>. QED  BY <1>5, <1>6

\* RemoveHeadList removes one occurrence of the code at the head.
LEMMA OccurrencesTail ==
    ASSUME NEW S, NEW s \in Seq(S), s # <<>>, NEW t
    PROVE  /\ Head(s) \in S /\ Tail(s) \in Seq(S)
           /\ Occurrences(s, t) = Occurrences(Tail(s), t) + (IF Head(s) = t THEN 1 ELSE 0)
<1>1. /\ Head(s) \in S /\ Tail(s) \in Seq(S) /\ Len(s) > 0 /\ Head(s) = s[1]
      /\ Len(Tail(s)) = Len(s) - 1
      /\ \A i \in 1..Len(Tail(s)) : Tail(s)[i] = s[i+1]
  BY HeadTailProperties
<1>2. s = <<Head(s)>> \o Tail(s)
  <2>. DEFINE u == <<Head(s)>> \o Tail(s)
  <2>1. u \in Seq(S) /\ Len(u) = Len(s) /\ u[1] = Head(s)
        /\ \A i \in 2..Len(s) : u[i] = Tail(s)[i-1]
    BY <1>1
  <2>2. \A i \in 1..Len(s) : s[i] = u[i]
    <3>. TAKE i \in 1..Len(s)
    <3>1. CASE i = 1
      BY <1>1, <2>1, <3>1
    <3>2. CASE i # 1
      <4>1. i \in 2..Len(s) /\ i-1 \in 1..Len(Tail(s))
        BY <1>1, <3>2
      <4>2. u[i] = Tail(s)[i-1] /\ Tail(s)[i-1] = s[i-1+1] /\ i-1+1 = i
        BY <1>1, <2>1, <4>1
      <4>. QED  BY <4>2
    <3>. QED  BY <3>1, <3>2
  <2>3. s \in Seq(S) /\ Len(s) = Len(u)
    BY <2>1
  <2>. HIDE DEF u
  <2>4. s = u
    BY <2>1, <2>2, <2>3, SeqEqual
  <2>. QED  BY <2>4 DEF u
<1>3. Occurrences(<<Head(s)>> \o Tail(s), t)
        = Occurrences(Tail(s), t) + (IF Head(s) = t THEN 1 ELSE 0)
  <2>1. \A w \in Seq(S), c \in S :
          Occurrences(<<c>> \o w, t) = Occurrences(w, t) + (IF c = t THEN 1 ELSE 0)
    BY OccurrencesCons
  <2>. QED  BY <1>1, <2>1, Zenon
<1>. QED  BY <1>1, <1>2, <1>3

\* Every step keeps the types and what the I/O thread holds.
LEMMA TypeNext ==
    ASSUME TypeOK, IoShape, [Next]_vars
    PROVE  TypeOK' /\ IoShape'
<1>. USE TypesAssumption, SizesAssumption
<1>1. ASSUME NEW c \in Callbacks, NEW rec \in Records, NotifyBegin(c, rec)
       PROVE  TypeOK' /\ IoShape'
  BY <1>1
  DEF NotifyBegin, ioVars, irpVars, ctlVars, histVars, TypeOK, IoShape,
  NotifyPcs, IoPcs, ReaderPcs, Idle
<1>2. ASSUME NEW c \in Callbacks, NotifyInsert(c) PROVE TypeOK' /\ IoShape'
  <2>. DEFINE rec == cb[c].rec
              t == TypeOf[rec]
  <2>1. rec \in Records /\ t \in Types /\ pending[t] \in Seq(Records)
    BY <1>2 DEF NotifyInsert, TypeOK, Idle
  <2>2. /\ pending' = [pending EXCEPT ![t] = <<rec>> \o pending[t]]
        /\ cb' = [cb EXCEPT ![c] = IF rec \in Unannounced THEN Idle
                                   ELSE [pc |-> "push", rec |-> rec]]
        /\ UNCHANGED <<fresh, codes, event, ioVars, rd, irpVars, ctlVars, histVars>>
    BY <1>2 DEF NotifyInsert
  <2>. HIDE DEF rec, t
  <2>3. pending' \in [Types -> Seq(Records)]
    BY <2>1, <2>2 DEF TypeOK
  <2>4. cb' \in [Callbacks -> [pc : NotifyPcs, rec : Records] \cup {Idle}]
    BY <2>1, <2>2 DEF TypeOK, NotifyPcs
  <2>. QED
    <3>1. IoShape'
      BY <2>2 DEF ioVars, IoShape
    <3>2. TypeOK'
      BY <2>2, <2>3, <2>4, ZenonT(60) DEF ioVars, irpVars, ctlVars, histVars, TypeOK
    <3>. QED  BY <3>1, <3>2
<1>3. ASSUME NEW c \in Callbacks, PushInfo(c) PROVE TypeOK' /\ IoShape'
  BY <1>3, SMTT(30)
  DEF PushInfo, ioVars, irpVars, ctlVars, histVars, TypeOK, IoShape,
  NotifyPcs, IoPcs, ReaderPcs, Idle
<1>4. ASSUME NEW c \in Callbacks, PushInfoFails(c) PROVE TypeOK' /\ IoShape'
  BY <1>4
  DEF PushInfoFails, queueVars, ioVars, irpVars, ctlVars, histVars, TypeOK,
  IoShape, NotifyPcs, IoPcs, ReaderPcs, Idle
<1>5. ASSUME NEW c \in Callbacks, PushSignal(c) PROVE TypeOK' /\ IoShape'
  BY <1>5
  DEF PushSignal, queueVars, ioVars, irpVars, ctlVars, histVars, TypeOK,
  IoShape, NotifyPcs, IoPcs, ReaderPcs, Idle
<1>6. ASSUME IoWait PROVE TypeOK' /\ IoShape'
  BY <1>6
  DEF IoWait, queueVars, irpVars, ctlVars, histVars, TypeOK, IoShape,
  NotifyPcs, IoPcs, ReaderPcs, Idle
<1>7. ASSUME ServiceNothing PROVE TypeOK' /\ IoShape'
  BY <1>7
  DEF ServiceNothing, queueVars, irpVars, ctlVars, histVars, TypeOK, IoShape,
  NotifyPcs, IoPcs, ReaderPcs, Idle
<1>8. ASSUME NEW r \in Readers, ServiceTake(r) PROVE TypeOK' /\ IoShape'
  BY <1>8
  DEF ServiceTake, queueVars, ctlVars, histVars, TypeOK, IoShape, NotifyPcs,
  IoPcs, ReaderPcs, Idle
<1>9. ASSUME ServiceMap PROVE TypeOK' /\ IoShape'
  BY <1>9
  DEF ServiceMap, queueVars, irpVars, ctlVars, histVars, TypeOK, IoShape,
  NotifyPcs, IoPcs, ReaderPcs, Idle
<1>10. ASSUME ServiceMapFails PROVE TypeOK' /\ IoShape'
  BY <1>10
  DEF ServiceMapFails, queueVars, ctlVars, histVars, Complete, TypeOK,
  IoShape, NotifyPcs, IoPcs, ReaderPcs, Idle
<1>11. ASSUME FillNext PROVE TypeOK' /\ IoShape'
  BY <1>11, SMTT(30)
  DEF FillNext, irpVars, ctlVars, histVars, TypeOK, IoShape, NotifyPcs,
  IoPcs, ReaderPcs, Idle
<1>12. ASSUME FillEnd PROVE TypeOK' /\ IoShape'
  BY <1>12
  DEF FillEnd, queueVars, irpVars, ctlVars, histVars, TypeOK, IoShape,
  NotifyPcs, IoPcs, ReaderPcs, Idle
<1>13. ASSUME PopRecord PROVE TypeOK' /\ IoShape'
  <2>. DEFINE q == pending[ioCode]
  <2>1. ioCode \in Types /\ q \in Seq(Records)
    BY <1>13 DEF PopRecord, TypeOK, IoShape
  <2>2. CASE q = <<>>
    BY <1>13, <2>1, <2>2
    DEF PopRecord, irpVars, ctlVars, histVars, TypeOK, IoShape, NotifyPcs, IoPcs,
    ReaderPcs, Idle
  <2>3. CASE q # <<>>
    <3>1. offset + SizeOf[ioCode] < BufLen /\ SizeOf[ioCode] \in Nat
      BY <1>13, <2>1, <2>3 DEF PopRecord, Room, TypeOK, IoShape
    <3>0. /\ pending' = [pending EXCEPT ![ioCode] = Tail(q)]
          /\ buf' = Append(buf, Head(q)) /\ offset' = offset + SizeOf[ioCode]
          /\ ioPc' \in {"undefined", "fill"}
      BY <1>13, <2>3 DEF PopRecord
    <3>2. Head(q) \in Records /\ Tail(q) \in Seq(Records)
      BY <2>1, <2>3
    <3>3. pending' \in [Types -> Seq(Records)]
      BY <2>1, <3>0, <3>2 DEF TypeOK
    <3>4. buf' \in Seq(Records)
      BY <3>0, <3>2 DEF TypeOK
    <3>5. offset' \in Nat /\ offset' < BufLen
      BY <3>0, <3>1, SMTT(30) DEF TypeOK
    <3>. HIDE DEF q
    <3>6. /\ ioPc' \in IoPcs /\ ioCode' \in Types \cup {None}
          /\ UNCHANGED <<fresh, codes, cb, event, ioRec, ioIrp, rd, irpVars, ctlVars, histVars>>
      BY <1>13, <3>0 DEF PopRecord, IoPcs
    <3>7. IoShape'
      BY <1>13, <3>0, <3>5, <3>6 DEF PopRecord, IoShape
    <3>8. TypeOK'
      BY <3>3, <3>4, <3>5, <3>6, ZenonT(60) DEF irpVars, ctlVars, histVars, TypeOK
    <3>. QED  BY <3>7, <3>8
  <2>. QED  BY <2>2, <2>3
<1>14. ASSUME PopNoMemory PROVE TypeOK' /\ IoShape'
  BY <1>14, SMTT(30)
  DEF PopNoMemory, irpVars, ctlVars, histVars, TypeOK, IoShape, NotifyPcs,
  IoPcs, ReaderPcs, Idle
<1>15. ASSUME PopReinsert PROVE TypeOK' /\ IoShape'
  BY <1>15, SMTT(30)
  DEF PopReinsert, irpVars, ctlVars, histVars, TypeOK, IoShape, NotifyPcs,
  IoPcs, ReaderPcs, Idle
<1>16. ASSUME FillRequeue PROVE TypeOK' /\ IoShape'
  BY <1>16
  DEF FillRequeue, irpVars, ctlVars, histVars, TypeOK, IoShape, NotifyPcs,
  IoPcs, ReaderPcs, Idle
<1>17. ASSUME ServiceComplete PROVE TypeOK' /\ IoShape'
  BY <1>17
  DEF ServiceComplete, queueVars, ctlVars, histVars, Complete, TypeOK,
  IoShape, NotifyPcs, IoPcs, ReaderPcs, Idle
<1>18. ASSUME NEW r \in Readers, ReadIssue(r) PROVE TypeOK' /\ IoShape'
  BY <1>18
  DEF ReadIssue, queueVars, ioVars, ctlVars, histVars, TypeOK, IoShape,
  NotifyPcs, IoPcs, ReaderPcs, Idle
<1>19. ASSUME NEW r \in Readers, ReadInvalid(r) PROVE TypeOK' /\ IoShape'
  BY <1>19, SMTT(30)
  DEF ReadInvalid, queueVars, ioVars, ctlVars, histVars, Complete, TypeOK,
  IoShape, NotifyPcs, IoPcs, ReaderPcs, Idle
<1>20. ASSUME NEW r \in Readers, ReadPend(r) PROVE TypeOK' /\ IoShape'
  BY <1>20
  DEF ReadPend, queueVars, ioVars, ctlVars, histVars, TypeOK, IoShape,
  NotifyPcs, IoPcs, ReaderPcs, Idle
<1>21. ASSUME NEW r \in Readers, ReadRefuse(r) PROVE TypeOK' /\ IoShape'
  BY <1>21
  DEF ReadRefuse, queueVars, ioVars, irpVars, ctlVars, histVars, TypeOK,
  IoShape, NotifyPcs, IoPcs, ReaderPcs, Idle
<1>22. ASSUME NEW r \in Readers, ReadSignal(r) PROVE TypeOK' /\ IoShape'
  BY <1>22, SMTT(30)
  DEF ReadSignal, queueVars, ioVars, irpVars, ctlVars, histVars, TypeOK,
  IoShape, NotifyPcs, IoPcs, ReaderPcs, Idle
<1>23. ASSUME NEW r \in Readers, ReadSignalRefused(r) PROVE TypeOK' /\ IoShape'
  BY <1>23
  DEF ReadSignalRefused, queueVars, ioVars, ctlVars, histVars, Complete,
  TypeOK, IoShape, NotifyPcs, IoPcs, ReaderPcs, Idle
<1>24. ASSUME NEW r \in Readers, IoCancelIrp(r) PROVE TypeOK' /\ IoShape'
  BY <1>24
  DEF IoCancelIrp, queueVars, ioVars, ctlVars, histVars, CancelMark,
  Outstanding, TypeOK, IoShape, NotifyPcs, IoPcs, ReaderPcs, Idle
<1>25. ASSUME NEW r \in Readers, CancelRead(r) PROVE TypeOK' /\ IoShape'
  BY <1>25, SMTT(30)
  DEF CancelRead, queueVars, ioVars, ctlVars, histVars, Complete, TypeOK,
  IoShape, NotifyPcs, IoPcs, ReaderPcs, Idle
<1>26. ASSUME NEW r \in Readers, WorkerStart(r) PROVE TypeOK' /\ IoShape'
  BY <1>26
  DEF WorkerStart, queueVars, ioVars, irpVars, ctlVars, histVars, TypeOK,
  IoShape, NotifyPcs, IoPcs, ReaderPcs, Idle
<1>27. ASSUME NEW r \in Readers, WorkerWake(r) PROVE TypeOK' /\ IoShape'
  BY <1>27
  DEF WorkerWake, queueVars, ioVars, irpVars, ctlVars, histVars, TypeOK,
  IoShape, NotifyPcs, IoPcs, ReaderPcs, Idle
<1>28. ASSUME NEW r \in Readers, WorkerParse(r) PROVE TypeOK' /\ IoShape'
  BY <1>28, SMTT(30)
  DEF WorkerParse, queueVars, ioVars, irpVars, ctlVars, TypeOK, IoShape,
  NotifyPcs, IoPcs, ReaderPcs, Idle, Batch
<1>29. ASSUME NEW r \in Readers, StopReady(r) PROVE TypeOK' /\ IoShape'
  BY <1>29
  DEF StopReady, queueVars, ioVars, irpVars, ctlVars, histVars, TypeOK,
  IoShape, NotifyPcs, IoPcs, ReaderPcs, Idle
<1>30. ASSUME NEW r \in Readers, StopWaiting(r) PROVE TypeOK' /\ IoShape'
  <2>1. /\ rd' = [rd EXCEPT ![r] = "stopping"] /\ stop' = FALSE
        /\ UNCHANGED <<queueVars, cb, event, ioVars, pended, completions, result,
                       length, monitor, open, ctl, ctlIrp, histVars>>
    BY <1>30 DEF StopWaiting
  <2>2. /\ cancelReq' \subseteq Readers /\ routine' \subseteq Readers
        /\ cancelling' \subseteq Readers
    BY <1>30 DEF StopWaiting, CancelMark, TypeOK
  <2>3. rd' \in [Readers -> ReaderPcs]
    BY <2>1 DEF TypeOK, ReaderPcs
  <2>4. stop' \in BOOLEAN
    BY <2>1
  <2>5. IoShape'
    BY <2>1 DEF ioVars, IoShape
  <2>. QED
    BY <2>1, <2>2, <2>3, <2>4, <2>5, SMTT(30) DEF queueVars, ioVars, histVars, TypeOK
<1>31. ASSUME NEW r \in Readers, WorkerGone(r) PROVE TypeOK' /\ IoShape'
  BY <1>31, SMTT(30)
  DEF WorkerGone, queueVars, ioVars, irpVars, ctlVars, TypeOK, IoShape,
  NotifyPcs, IoPcs, ReaderPcs, Idle, Batch
<1>32. ASSUME NEW r \in Readers, NEW n \in 1..Len(buf), StopParsing(r, n)
       PROVE  TypeOK' /\ IoShape'
  <2>1. Batch(n) \subseteq Records /\ Batch(length[r]) \subseteq Records
    <3>1. \A i \in 1..Len(buf) : buf[i] \in Records
      BY DEF TypeOK
    <3>. QED  BY <3>1 DEF Batch
  <2>2. delivered' = delivered \cup Batch(n)
        /\ discarded' = discarded \cup (Batch(length[r]) \ Batch(n))
    BY <1>32 DEF StopParsing
  <2>3. delivered' \subseteq Records /\ discarded' \subseteq Records
    <3>1. delivered \subseteq Records /\ discarded \subseteq Records
      BY DEF TypeOK
    <3>. QED  BY <2>1, <2>2, <3>1
  <2>4. rd' = [rd EXCEPT ![r] = "off"]
        /\ UNCHANGED <<queueVars, cb, event, ioVars, irpVars, ctlVars>>
    BY <1>32 DEF StopParsing
  <2>. QED
    BY <2>3, <2>4, SMTT(30)
    DEF queueVars, ioVars, irpVars, ctlVars, TypeOK, IoShape, NotifyPcs,
    IoPcs, ReaderPcs, Idle
<1>33. ASSUME OpenDevice PROVE TypeOK' /\ IoShape'
  BY <1>33
  DEF OpenDevice, queueVars, ioVars, irpVars, histVars, TypeOK, IoShape,
  NotifyPcs, IoPcs, ReaderPcs, Idle
<1>34. ASSUME OpenMem PROVE TypeOK' /\ IoShape'
  BY <1>34
  DEF OpenMem, queueVars, ioVars, irpVars, histVars, TypeOK, IoShape,
  NotifyPcs, IoPcs, ReaderPcs, Idle
<1>35. ASSUME NEW on \in BOOLEAN, SetMonitor(on) PROVE TypeOK' /\ IoShape'
  BY <1>35
  DEF SetMonitor, queueVars, ioVars, irpVars, histVars, TypeOK, IoShape,
  NotifyPcs, IoPcs, ReaderPcs, Idle
<1>36. ASSUME SetIpsMonitor PROVE TypeOK' /\ IoShape'
  BY <1>36
  DEF SetIpsMonitor, queueVars, ioVars, irpVars, histVars, TypeOK, IoShape,
  NotifyPcs, IoPcs, ReaderPcs, Idle
<1>37. ASSUME Close PROVE TypeOK' /\ IoShape'
  BY <1>37
  DEF Close, queueVars, ioVars, irpVars, histVars, TypeOK, IoShape,
  NotifyPcs, IoPcs, ReaderPcs, Idle
<1>38. ASSUME Sleep PROVE TypeOK' /\ IoShape'
  BY <1>38
  DEF Sleep, queueVars, ioVars, irpVars, histVars, TypeOK, IoShape,
  NotifyPcs, IoPcs, ReaderPcs, Idle
<1>39. ASSUME NEW r \in Readers, CancelTake(r) PROVE TypeOK' /\ IoShape'
  BY <1>39
  DEF CancelTake, queueVars, ioVars, histVars, TypeOK, IoShape, NotifyPcs,
  IoPcs, ReaderPcs, Idle
<1>40. ASSUME CancelComplete PROVE TypeOK' /\ IoShape'
  BY <1>40
  DEF CancelComplete, queueVars, ioVars, histVars, Complete, TypeOK, IoShape,
  NotifyPcs, IoPcs, ReaderPcs, Idle
<1>41. ASSUME CancelEnd PROVE TypeOK' /\ IoShape'
  BY <1>41
  DEF CancelEnd, queueVars, ioVars, irpVars, histVars, TypeOK, IoShape,
  NotifyPcs, IoPcs, ReaderPcs, Idle
<1>42. ASSUME NEW t \in Types, CleanRecord(t) PROVE TypeOK' /\ IoShape'
  <2>1. /\ pending[t] \in Seq(Records) /\ pending[t] # <<>>
        /\ discarded' = discarded \cup {Head(pending[t])}
        /\ pending' = [pending EXCEPT ![t] = Tail(pending[t])]
        /\ UNCHANGED <<fresh, codes, cb, event, ioVars, rd, irpVars, ctlVars, delivered>>
    BY <1>42 DEF CleanRecord, TypeOK
  <2>2. Head(pending[t]) \in Records /\ Tail(pending[t]) \in Seq(Records)
    BY <2>1
  <2>3. pending' \in [Types -> Seq(Records)]
    BY <2>1, <2>2 DEF TypeOK
  <2>4. discarded' \subseteq Records
    BY <2>1, <2>2 DEF TypeOK
  <2>. QED
    BY <2>1, <2>3, <2>4, SMTT(30)
    DEF ioVars, irpVars, ctlVars, TypeOK, IoShape, NotifyPcs, IoPcs, ReaderPcs, Idle
<1>43. ASSUME CleanEnd PROVE TypeOK' /\ IoShape'
  BY <1>43
  DEF CleanEnd, queueVars, ioVars, irpVars, histVars, TypeOK, IoShape,
  NotifyPcs, IoPcs, ReaderPcs, Idle
<1>44. ASSUME CleanCode PROVE TypeOK' /\ IoShape'
  BY <1>44, SMTT(30)
  DEF CleanCode, ioVars, irpVars, ctlVars, histVars, TypeOK, IoShape,
  NotifyPcs, IoPcs, ReaderPcs, Idle
<1>45. ASSUME CloseEnd PROVE TypeOK' /\ IoShape'
  BY <1>45
  DEF CloseEnd, queueVars, ioVars, irpVars, histVars, TypeOK, IoShape,
  NotifyPcs, IoPcs, ReaderPcs, Idle
<1>46. ASSUME WorkerStop PROVE TypeOK' /\ IoShape'
  BY <1>46
  DEF WorkerStop, queueVars, ioVars, irpVars, histVars, TypeOK, IoShape,
  NotifyPcs, IoPcs, ReaderPcs, Idle
<1>47. CASE UNCHANGED vars
  BY <1>47
  DEF vars, queueVars, ioVars, irpVars, ctlVars, histVars, TypeOK, IoShape,
  NotifyPcs, IoPcs, ReaderPcs, Idle
<1>. QED
  BY <1>1, <1>2, <1>3, <1>4, <1>5, <1>6, <1>7, <1>8, <1>9, <1>10, <1>11,
  <1>12, <1>13, <1>14, <1>15, <1>16, <1>17, <1>18, <1>19, <1>20, <1>21,
  <1>22, <1>23, <1>24, <1>25, <1>26, <1>27, <1>28, <1>29, <1>30, <1>31,
  <1>32, <1>33, <1>34, <1>35, <1>36, <1>37, <1>38, <1>39, <1>40, <1>41,
  <1>42, <1>43, <1>44, <1>45, <1>46, <1>47
  DEF Next, Notify, IoThread, Reader, ControlStep, Request

\* Every step keeps the read IRPs in their place.
LEMMA IrpNext ==
    ASSUME TypeOK, IoShape, IrpShape, [Next]_vars
    PROVE  IrpShape'
<1>. USE TypesAssumption
<1>1. ASSUME NEW c \in Callbacks, NEW rec \in Records, NotifyBegin(c, rec)
       PROVE  IrpShape'
  BY <1>1
  DEF NotifyBegin, ioVars, irpVars, ctlVars, histVars, TypeOK, IoShape,
  IrpShape
<1>2. ASSUME NEW c \in Callbacks, NotifyInsert(c) PROVE IrpShape'
  BY <1>2
  DEF NotifyInsert, ioVars, irpVars, ctlVars, histVars, TypeOK, IoShape,
  IrpShape
<1>3. ASSUME NEW c \in Callbacks, PushInfo(c) PROVE IrpShape'
  BY <1>3
  DEF PushInfo, ioVars, irpVars, ctlVars, histVars, TypeOK, IoShape, IrpShape
<1>4. ASSUME NEW c \in Callbacks, PushInfoFails(c) PROVE IrpShape'
  BY <1>4
  DEF PushInfoFails, queueVars, ioVars, irpVars, ctlVars, histVars, TypeOK,
  IoShape, IrpShape
<1>5. ASSUME NEW c \in Callbacks, PushSignal(c) PROVE IrpShape'
  BY <1>5
  DEF PushSignal, queueVars, ioVars, irpVars, ctlVars, histVars, TypeOK,
  IoShape, IrpShape
<1>6. ASSUME IoWait PROVE IrpShape'
  BY <1>6
  DEF IoWait, queueVars, irpVars, ctlVars, histVars, TypeOK, IoShape, IrpShape
<1>7. ASSUME ServiceNothing PROVE IrpShape'
  BY <1>7
  DEF ServiceNothing, queueVars, irpVars, ctlVars, histVars, TypeOK, IoShape,
  IrpShape
<1>8. ASSUME NEW r \in Readers, ServiceTake(r) PROVE IrpShape'
  BY <1>8
  DEF ServiceTake, queueVars, ctlVars, histVars, TypeOK, IoShape, IrpShape
<1>9. ASSUME ServiceMap PROVE IrpShape'
  BY <1>9
  DEF ServiceMap, queueVars, irpVars, ctlVars, histVars, TypeOK, IoShape,
  IrpShape
<1>10. ASSUME ServiceMapFails PROVE IrpShape'
  BY <1>10
  DEF ServiceMapFails, queueVars, ctlVars, histVars, Complete, TypeOK,
  IoShape, IrpShape
<1>11. ASSUME FillNext PROVE IrpShape'
  BY <1>11
  DEF FillNext, irpVars, ctlVars, histVars, TypeOK, IoShape, IrpShape
<1>12. ASSUME FillEnd PROVE IrpShape'
  BY <1>12
  DEF FillEnd, queueVars, irpVars, ctlVars, histVars, TypeOK, IoShape,
  IrpShape
<1>13. ASSUME PopRecord PROVE IrpShape'
  BY <1>13
  DEF PopRecord, irpVars, ctlVars, histVars, TypeOK, IoShape, IrpShape
<1>14. ASSUME PopNoMemory PROVE IrpShape'
  BY <1>14
  DEF PopNoMemory, irpVars, ctlVars, histVars, TypeOK, IoShape, IrpShape
<1>15. ASSUME PopReinsert PROVE IrpShape'
  BY <1>15
  DEF PopReinsert, irpVars, ctlVars, histVars, TypeOK, IoShape, IrpShape
<1>16. ASSUME FillRequeue PROVE IrpShape'
  BY <1>16
  DEF FillRequeue, irpVars, ctlVars, histVars, TypeOK, IoShape, IrpShape
<1>17. ASSUME ServiceComplete PROVE IrpShape'
  BY <1>17
  DEF ServiceComplete, queueVars, ctlVars, histVars, Complete, TypeOK,
  IoShape, IrpShape
<1>18. ASSUME NEW r \in Readers, ReadIssue(r) PROVE IrpShape'
  BY <1>18
  DEF ReadIssue, queueVars, ioVars, ctlVars, histVars, TypeOK, IoShape,
  IrpShape
<1>19. ASSUME NEW r \in Readers, ReadInvalid(r) PROVE IrpShape'
  BY <1>19
  DEF ReadInvalid, queueVars, ioVars, ctlVars, histVars, Complete, TypeOK,
  IoShape, IrpShape
<1>20. ASSUME NEW r \in Readers, ReadPend(r) PROVE IrpShape'
  <2>1. /\ pended' = pended \cup {r} /\ routine' = routine \cup {r}
        /\ rd' = [rd EXCEPT ![r] = "signal"] /\ rd[r] = "issued"
        /\ UNCHANGED <<ioIrp, ctlIrp, cancelling, completions>>
    BY <1>20 DEF ReadPend, ioVars, ctlVars
  <2>2. r \notin pended \cup {ioIrp, ctlIrp} /\ completions[r] = 0
    BY <1>20 DEF ReadPend, IrpShape
  <2>3. /\ routine' \subseteq pended' /\ cancelling' \subseteq pended'
        /\ \A s \in pended' : s \in routine' <=> s \notin cancelling'
        /\ {ioIrp', ctlIrp'} \cap pended' = {} /\ (ioIrp' # None => ioIrp' # ctlIrp')
    BY <2>1, <2>2 DEF IrpShape
  <2>4. ASSUME NEW s \in Readers
        PROVE  /\ completions'[s] <= 1
               /\ rd'[s] \in {"issued", "refused"} => completions'[s] = 0
               /\ s \in pended' \cup {ioIrp', ctlIrp'} =>
                    completions'[s] = 0 /\ rd'[s] \in {"signal", "waiting", "stopping"}
               /\ completions'[s] = 0 /\ rd'[s] \in {"signal", "waiting", "stopping"} =>
                    s \in pended' \cup {ioIrp', ctlIrp'}
    BY <2>1, <2>2 DEF TypeOK, IrpShape
  <2>. QED  BY <2>3, <2>4 DEF IrpShape
<1>21. ASSUME NEW r \in Readers, ReadRefuse(r) PROVE IrpShape'
  BY <1>21
  DEF ReadRefuse, queueVars, ioVars, irpVars, ctlVars, histVars, TypeOK,
  IoShape, IrpShape
<1>22. ASSUME NEW r \in Readers, ReadSignal(r) PROVE IrpShape'
  BY <1>22
  DEF ReadSignal, queueVars, ioVars, irpVars, ctlVars, histVars, TypeOK,
  IoShape, IrpShape
<1>23. ASSUME NEW r \in Readers, ReadSignalRefused(r) PROVE IrpShape'
  BY <1>23
  DEF ReadSignalRefused, queueVars, ioVars, ctlVars, histVars, Complete,
  TypeOK, IoShape, IrpShape
<1>24. ASSUME NEW r \in Readers, IoCancelIrp(r) PROVE IrpShape'
  BY <1>24
  DEF IoCancelIrp, queueVars, ioVars, ctlVars, histVars, CancelMark,
  Outstanding, TypeOK, IoShape, IrpShape
<1>25. ASSUME NEW r \in Readers, CancelRead(r) PROVE IrpShape'
  BY <1>25
  DEF CancelRead, queueVars, ioVars, ctlVars, histVars, Complete, TypeOK,
  IoShape, IrpShape
<1>26. ASSUME NEW r \in Readers, WorkerStart(r) PROVE IrpShape'
  BY <1>26
  DEF WorkerStart, queueVars, ioVars, irpVars, ctlVars, histVars, TypeOK,
  IoShape, IrpShape
<1>27. ASSUME NEW r \in Readers, WorkerWake(r) PROVE IrpShape'
  BY <1>27
  DEF WorkerWake, queueVars, ioVars, irpVars, ctlVars, histVars, TypeOK,
  IoShape, IrpShape
<1>28. ASSUME NEW r \in Readers, WorkerParse(r) PROVE IrpShape'
  BY <1>28
  DEF WorkerParse, queueVars, ioVars, irpVars, ctlVars, TypeOK, IoShape,
  IrpShape
<1>29. ASSUME NEW r \in Readers, StopReady(r) PROVE IrpShape'
  BY <1>29
  DEF StopReady, queueVars, ioVars, irpVars, ctlVars, histVars, TypeOK,
  IoShape, IrpShape
<1>30. ASSUME NEW r \in Readers, StopWaiting(r) PROVE IrpShape'
  BY <1>30
  DEF StopWaiting, queueVars, ioVars, ctlVars, histVars, CancelMark,
  Outstanding, TypeOK, IoShape, IrpShape
<1>31. ASSUME NEW r \in Readers, WorkerGone(r) PROVE IrpShape'
  BY <1>31
  DEF WorkerGone, queueVars, ioVars, irpVars, ctlVars, TypeOK, IoShape,
  IrpShape
<1>32. ASSUME NEW r \in Readers, NEW n \in 1..Len(buf), StopParsing(r, n)
       PROVE  IrpShape'
  BY <1>32
  DEF StopParsing, queueVars, ioVars, irpVars, ctlVars, TypeOK, IoShape,
  IrpShape
<1>33. ASSUME OpenDevice PROVE IrpShape'
  BY <1>33
  DEF OpenDevice, queueVars, ioVars, irpVars, histVars, TypeOK, IoShape,
  IrpShape
<1>34. ASSUME OpenMem PROVE IrpShape'
  BY <1>34
  DEF OpenMem, queueVars, ioVars, irpVars, histVars, TypeOK, IoShape, IrpShape
<1>35. ASSUME NEW on \in BOOLEAN, SetMonitor(on) PROVE IrpShape'
  BY <1>35
  DEF SetMonitor, queueVars, ioVars, irpVars, histVars, TypeOK, IoShape,
  IrpShape
<1>36. ASSUME SetIpsMonitor PROVE IrpShape'
  BY <1>36
  DEF SetIpsMonitor, queueVars, ioVars, irpVars, histVars, TypeOK, IoShape,
  IrpShape
<1>37. ASSUME Close PROVE IrpShape'
  BY <1>37
  DEF Close, queueVars, ioVars, irpVars, histVars, TypeOK, IoShape, IrpShape
<1>38. ASSUME Sleep PROVE IrpShape'
  BY <1>38
  DEF Sleep, queueVars, ioVars, irpVars, histVars, TypeOK, IoShape, IrpShape
<1>39. ASSUME NEW r \in Readers, CancelTake(r) PROVE IrpShape'
  BY <1>39
  DEF CancelTake, queueVars, ioVars, histVars, TypeOK, IoShape, IrpShape
<1>40. ASSUME CancelComplete PROVE IrpShape'
  BY <1>40
  DEF CancelComplete, queueVars, ioVars, histVars, Complete, TypeOK, IoShape,
  IrpShape
<1>41. ASSUME CancelEnd PROVE IrpShape'
  BY <1>41
  DEF CancelEnd, queueVars, ioVars, irpVars, histVars, TypeOK, IoShape,
  IrpShape
<1>42. ASSUME NEW t \in Types, CleanRecord(t) PROVE IrpShape'
  BY <1>42
  DEF CleanRecord, ioVars, irpVars, ctlVars, TypeOK, IoShape, IrpShape
<1>43. ASSUME CleanEnd PROVE IrpShape'
  BY <1>43
  DEF CleanEnd, queueVars, ioVars, irpVars, histVars, TypeOK, IoShape,
  IrpShape
<1>44. ASSUME CleanCode PROVE IrpShape'
  BY <1>44
  DEF CleanCode, ioVars, irpVars, ctlVars, histVars, TypeOK, IoShape, IrpShape
<1>45. ASSUME CloseEnd PROVE IrpShape'
  BY <1>45
  DEF CloseEnd, queueVars, ioVars, irpVars, histVars, TypeOK, IoShape,
  IrpShape
<1>46. ASSUME WorkerStop PROVE IrpShape'
  BY <1>46
  DEF WorkerStop, queueVars, ioVars, irpVars, histVars, TypeOK, IoShape,
  IrpShape
<1>47. CASE UNCHANGED vars
  BY <1>47
  DEF vars, queueVars, ioVars, irpVars, ctlVars, histVars, TypeOK, IoShape,
  IrpShape
<1>. QED
  BY <1>1, <1>2, <1>3, <1>4, <1>5, <1>6, <1>7, <1>8, <1>9, <1>10, <1>11,
  <1>12, <1>13, <1>14, <1>15, <1>16, <1>17, <1>18, <1>19, <1>20, <1>21,
  <1>22, <1>23, <1>24, <1>25, <1>26, <1>27, <1>28, <1>29, <1>30, <1>31,
  <1>32, <1>33, <1>34, <1>35, <1>36, <1>37, <1>38, <1>39, <1>40, <1>41,
  <1>42, <1>43, <1>44, <1>45, <1>46, <1>47
  DEF Next, Notify, IoThread, Reader, ControlStep, Request

\* Every step keeps what the state of the device excludes.
LEMMA SessionNext ==
    ASSUME TypeOK, IoShape, IrpShape, SessionShape, [Next]_vars
    PROVE  SessionShape'
<1>. USE TypesAssumption
<1>1. ASSUME NEW c \in Callbacks, NEW rec \in Records, NotifyBegin(c, rec)
       PROVE  SessionShape'
  BY <1>1
  DEF NotifyBegin, ioVars, irpVars, ctlVars, histVars, TypeOK, IoShape,
  IrpShape, SessionShape, Idle
<1>2. ASSUME NEW c \in Callbacks, NotifyInsert(c) PROVE SessionShape'
  BY <1>2
  DEF NotifyInsert, ioVars, irpVars, ctlVars, histVars, TypeOK, IoShape,
  IrpShape, SessionShape, Idle
<1>3. ASSUME NEW c \in Callbacks, PushInfo(c) PROVE SessionShape'
  BY <1>3
  DEF PushInfo, ioVars, irpVars, ctlVars, histVars, TypeOK, IoShape,
  IrpShape, SessionShape, Idle
<1>4. ASSUME NEW c \in Callbacks, PushInfoFails(c) PROVE SessionShape'
  BY <1>4
  DEF PushInfoFails, queueVars, ioVars, irpVars, ctlVars, histVars, TypeOK,
  IoShape, IrpShape, SessionShape, Idle
<1>5. ASSUME NEW c \in Callbacks, PushSignal(c) PROVE SessionShape'
  BY <1>5
  DEF PushSignal, queueVars, ioVars, irpVars, ctlVars, histVars, TypeOK,
  IoShape, IrpShape, SessionShape, Idle
<1>6. ASSUME IoWait PROVE SessionShape'
  BY <1>6
  DEF IoWait, queueVars, irpVars, ctlVars, histVars, TypeOK, IoShape,
  IrpShape, SessionShape, Idle
<1>7. ASSUME ServiceNothing PROVE SessionShape'
  BY <1>7
  DEF ServiceNothing, queueVars, irpVars, ctlVars, histVars, TypeOK, IoShape,
  IrpShape, SessionShape, Idle
<1>8. ASSUME NEW r \in Readers, ServiceTake(r) PROVE SessionShape'
  BY <1>8
  DEF ServiceTake, queueVars, ctlVars, histVars, TypeOK, IoShape, IrpShape,
  SessionShape, Idle
<1>9. ASSUME ServiceMap PROVE SessionShape'
  BY <1>9
  DEF ServiceMap, queueVars, irpVars, ctlVars, histVars, TypeOK, IoShape,
  IrpShape, SessionShape, Idle
<1>10. ASSUME ServiceMapFails PROVE SessionShape'
  BY <1>10
  DEF ServiceMapFails, queueVars, ctlVars, histVars, Complete, TypeOK,
  IoShape, IrpShape, SessionShape, Idle
<1>11. ASSUME FillNext PROVE SessionShape'
  BY <1>11
  DEF FillNext, irpVars, ctlVars, histVars, TypeOK, IoShape, IrpShape,
  SessionShape, Idle
<1>12. ASSUME FillEnd PROVE SessionShape'
  BY <1>12
  DEF FillEnd, queueVars, irpVars, ctlVars, histVars, TypeOK, IoShape,
  IrpShape, SessionShape, Idle
<1>13. ASSUME PopRecord PROVE SessionShape'
  BY <1>13
  DEF PopRecord, irpVars, ctlVars, histVars, TypeOK, IoShape, IrpShape,
  SessionShape, Idle
<1>14. ASSUME PopNoMemory PROVE SessionShape'
  BY <1>14
  DEF PopNoMemory, irpVars, ctlVars, histVars, TypeOK, IoShape, IrpShape,
  SessionShape, Idle
<1>15. ASSUME PopReinsert PROVE SessionShape'
  BY <1>15
  DEF PopReinsert, irpVars, ctlVars, histVars, TypeOK, IoShape, IrpShape,
  SessionShape, Idle
<1>16. ASSUME FillRequeue PROVE SessionShape'
  BY <1>16
  DEF FillRequeue, irpVars, ctlVars, histVars, TypeOK, IoShape, IrpShape,
  SessionShape, Idle
<1>17. ASSUME ServiceComplete PROVE SessionShape'
  BY <1>17
  DEF ServiceComplete, queueVars, ctlVars, histVars, Complete, TypeOK,
  IoShape, IrpShape, SessionShape, Idle
<1>18. ASSUME NEW r \in Readers, ReadIssue(r) PROVE SessionShape'
  BY <1>18
  DEF ReadIssue, queueVars, ioVars, ctlVars, histVars, TypeOK, IoShape,
  IrpShape, SessionShape, Idle
<1>19. ASSUME NEW r \in Readers, ReadInvalid(r) PROVE SessionShape'
  BY <1>19
  DEF ReadInvalid, queueVars, ioVars, ctlVars, histVars, Complete, TypeOK,
  IoShape, IrpShape, SessionShape, Idle
<1>20. ASSUME NEW r \in Readers, ReadPend(r) PROVE SessionShape'
  BY <1>20
  DEF ReadPend, queueVars, ioVars, ctlVars, histVars, TypeOK, IoShape,
  IrpShape, SessionShape, Idle
<1>21. ASSUME NEW r \in Readers, ReadRefuse(r) PROVE SessionShape'
  BY <1>21
  DEF ReadRefuse, queueVars, ioVars, irpVars, ctlVars, histVars, TypeOK,
  IoShape, IrpShape, SessionShape, Idle
<1>22. ASSUME NEW r \in Readers, ReadSignal(r) PROVE SessionShape'
  BY <1>22
  DEF ReadSignal, queueVars, ioVars, irpVars, ctlVars, histVars, TypeOK,
  IoShape, IrpShape, SessionShape, Idle
<1>23. ASSUME NEW r \in Readers, ReadSignalRefused(r) PROVE SessionShape'
  BY <1>23
  DEF ReadSignalRefused, queueVars, ioVars, ctlVars, histVars, Complete,
  TypeOK, IoShape, IrpShape, SessionShape, Idle
<1>24. ASSUME NEW r \in Readers, IoCancelIrp(r) PROVE SessionShape'
  BY <1>24
  DEF IoCancelIrp, queueVars, ioVars, ctlVars, histVars, CancelMark,
  Outstanding, TypeOK, IoShape, IrpShape, SessionShape, Idle
<1>25. ASSUME NEW r \in Readers, CancelRead(r) PROVE SessionShape'
  BY <1>25
  DEF CancelRead, queueVars, ioVars, ctlVars, histVars, Complete, TypeOK,
  IoShape, IrpShape, SessionShape, Idle
<1>26. ASSUME NEW r \in Readers, WorkerStart(r) PROVE SessionShape'
  BY <1>26
  DEF WorkerStart, queueVars, ioVars, irpVars, ctlVars, histVars, TypeOK,
  IoShape, IrpShape, SessionShape, Idle
<1>27. ASSUME NEW r \in Readers, WorkerWake(r) PROVE SessionShape'
  BY <1>27
  DEF WorkerWake, queueVars, ioVars, irpVars, ctlVars, histVars, TypeOK,
  IoShape, IrpShape, SessionShape, Idle
<1>28. ASSUME NEW r \in Readers, WorkerParse(r) PROVE SessionShape'
  BY <1>28
  DEF WorkerParse, queueVars, ioVars, irpVars, ctlVars, TypeOK, IoShape,
  IrpShape, SessionShape, Idle
<1>29. ASSUME NEW r \in Readers, StopReady(r) PROVE SessionShape'
  BY <1>29
  DEF StopReady, queueVars, ioVars, irpVars, ctlVars, histVars, TypeOK,
  IoShape, IrpShape, SessionShape, Idle
<1>30. ASSUME NEW r \in Readers, StopWaiting(r) PROVE SessionShape'
  BY <1>30
  DEF StopWaiting, queueVars, ioVars, ctlVars, histVars, CancelMark,
  Outstanding, TypeOK, IoShape, IrpShape, SessionShape, Idle
<1>31. ASSUME NEW r \in Readers, WorkerGone(r) PROVE SessionShape'
  BY <1>31
  DEF WorkerGone, queueVars, ioVars, irpVars, ctlVars, TypeOK, IoShape,
  IrpShape, SessionShape, Idle
<1>32. ASSUME NEW r \in Readers, NEW n \in 1..Len(buf), StopParsing(r, n)
       PROVE  SessionShape'
  BY <1>32
  DEF StopParsing, queueVars, ioVars, irpVars, ctlVars, TypeOK, IoShape,
  IrpShape, SessionShape, Idle
<1>33. ASSUME OpenDevice PROVE SessionShape'
  BY <1>33
  DEF OpenDevice, queueVars, ioVars, irpVars, histVars, TypeOK, IoShape,
  IrpShape, SessionShape, Idle
<1>34. ASSUME OpenMem PROVE SessionShape'
  BY <1>34
  DEF OpenMem, queueVars, ioVars, irpVars, histVars, TypeOK, IoShape,
  IrpShape, SessionShape, Idle
<1>35. ASSUME NEW on \in BOOLEAN, SetMonitor(on) PROVE SessionShape'
  BY <1>35
  DEF SetMonitor, queueVars, ioVars, irpVars, histVars, TypeOK, IoShape,
  IrpShape, SessionShape, Idle
<1>36. ASSUME SetIpsMonitor PROVE SessionShape'
  BY <1>36
  DEF SetIpsMonitor, queueVars, ioVars, irpVars, histVars, TypeOK, IoShape,
  IrpShape, SessionShape, Idle
<1>37. ASSUME Close PROVE SessionShape'
  BY <1>37
  DEF Close, queueVars, ioVars, irpVars, histVars, TypeOK, IoShape, IrpShape,
  SessionShape, Idle
<1>38. ASSUME Sleep PROVE SessionShape'
  BY <1>38
  DEF Sleep, queueVars, ioVars, irpVars, histVars, TypeOK, IoShape, IrpShape,
  SessionShape, Idle
<1>39. ASSUME NEW r \in Readers, CancelTake(r) PROVE SessionShape'
  BY <1>39
  DEF CancelTake, queueVars, ioVars, histVars, TypeOK, IoShape, IrpShape,
  SessionShape, Idle
<1>40. ASSUME CancelComplete PROVE SessionShape'
  BY <1>40
  DEF CancelComplete, queueVars, ioVars, histVars, Complete, TypeOK, IoShape,
  IrpShape, SessionShape, Idle
<1>41. ASSUME CancelEnd PROVE SessionShape'
  BY <1>41
  DEF CancelEnd, queueVars, ioVars, irpVars, histVars, TypeOK, IoShape,
  IrpShape, SessionShape, Idle
<1>42. ASSUME NEW t \in Types, CleanRecord(t) PROVE SessionShape'
  BY <1>42
  DEF CleanRecord, ioVars, irpVars, ctlVars, TypeOK, IoShape, IrpShape,
  SessionShape, Idle
<1>43. ASSUME CleanEnd PROVE SessionShape'
  BY <1>43
  DEF CleanEnd, queueVars, ioVars, irpVars, histVars, TypeOK, IoShape,
  IrpShape, SessionShape, Idle
<1>44. ASSUME CleanCode PROVE SessionShape'
  BY <1>44
  DEF CleanCode, ioVars, irpVars, ctlVars, histVars, TypeOK, IoShape,
  IrpShape, SessionShape, Idle
<1>45. ASSUME CloseEnd PROVE SessionShape'
  BY <1>45
  DEF CloseEnd, queueVars, ioVars, irpVars, histVars, TypeOK, IoShape,
  IrpShape, SessionShape, Idle
<1>46. ASSUME WorkerStop PROVE SessionShape'
  BY <1>46
  DEF WorkerStop, queueVars, ioVars, irpVars, histVars, TypeOK, IoShape,
  IrpShape, SessionShape, Idle
<1>47. CASE UNCHANGED vars
  BY <1>47
  DEF vars, queueVars, ioVars, irpVars, ctlVars, histVars, TypeOK, IoShape,
  IrpShape, SessionShape, Idle
<1>. QED
  BY <1>1, <1>2, <1>3, <1>4, <1>5, <1>6, <1>7, <1>8, <1>9, <1>10, <1>11,
  <1>12, <1>13, <1>14, <1>15, <1>16, <1>17, <1>18, <1>19, <1>20, <1>21,
  <1>22, <1>23, <1>24, <1>25, <1>26, <1>27, <1>28, <1>29, <1>30, <1>31,
  <1>32, <1>33, <1>34, <1>35, <1>36, <1>37, <1>38, <1>39, <1>40, <1>41,
  <1>42, <1>43, <1>44, <1>45, <1>46, <1>47
  DEF Next, Notify, IoThread, Reader, ControlStep, Request

\* The notify routines between their insertion and their code can be counted.
LEMMA PushingType ==
    ASSUME NEW t
    PROVE  IsFiniteSet(Pushing(t)) /\ Cardinality(Pushing(t)) \in Nat
<1>1. Pushing(t) \subseteq Callbacks
  BY DEF Pushing
<1>. QED  BY <1>1, FiniteAssumption, FS_Subset, FS_CardinalityType

\* The two counts without their conditionals, in both states of a step.
LEMMA CountsCases ==
    ASSUME NEW t
    PROVE  /\ ioCode = t => QueuedCodes(t) = Occurrences(codes, t) + 1
           /\ ioCode # t => QueuedCodes(t) = Occurrences(codes, t) + 0
           /\ ioCode' = t => QueuedCodes(t)' = Occurrences(codes', t) + 1
           /\ ioCode' # t => QueuedCodes(t)' = Occurrences(codes', t) + 0
           /\ ioPc = "reinsert" /\ ioCode = t => WaitingRecords(t) = Len(pending[t]) + 1
           /\ ioPc # "reinsert" \/ ioCode # t => WaitingRecords(t) = Len(pending[t]) + 0
           /\ ioPc' = "reinsert" /\ ioCode' = t => WaitingRecords(t)' = Len(pending'[t]) + 1
           /\ ioPc' # "reinsert" \/ ioCode' # t => WaitingRecords(t)' = Len(pending'[t]) + 0
  BY Zenon DEF QueuedCodes, WaitingRecords

\* The counts of CodesBacked are numbers.
LEMMA CountsType ==
    ASSUME TypeOK, NEW t \in Types
    PROVE  /\ QueuedCodes(t) \in Nat /\ WaitingRecords(t) \in Nat
           /\ Occurrences(codes, t) \in Nat /\ Cardinality(Pushing(t)) \in Nat
<1>1. Occurrences(codes, t) \in Nat
  BY OccurrencesType DEF TypeOK
<1>2. pending[t] \in Seq(Records)
  BY DEF TypeOK
<1>3. Len(pending[t]) \in Nat
  BY <1>2
<1>4. QueuedCodes(t) \in Nat
  BY <1>1, CountsCases
<1>5. WaitingRecords(t) \in Nat
  BY <1>2, CountsCases
<1>. QED  BY <1>1, <1>4, <1>5, PushingType

\* A step that leaves both lists and the notify routines alone keeps CodesBacked.
LEMMA BackedFrame ==
    ASSUME CodesBacked, UNCHANGED <<codes, pending, cb, ioCode>>,
           ioPc' = "reinsert" <=> ioPc = "reinsert", ioPc' # "undefined",
           ctl \in {"clean", "cleanCodes"} => ctl' \in {"clean", "cleanCodes"}
    PROVE  CodesBacked' /\ NoUndefined'
<1>1. ASSUME NEW t \in Types
      PROVE  /\ QueuedCodes(t)' = QueuedCodes(t) /\ WaitingRecords(t)' = WaitingRecords(t)
             /\ Pushing(t)' = Pushing(t)
  BY DEF QueuedCodes, WaitingRecords, Pushing
<1>. QED  BY <1>1 DEF CodesBacked, NoUndefined

\* A notify routine that moves to or from the push of a code of type t joins or
\* leaves Pushing(t); the others stay where they are.
LEMMA PushingStep ==
    ASSUME NEW c \in Callbacks, NEW t, \A d \in Callbacks \ {c} : cb'[d] = cb[d]
    PROVE  /\ c \in Pushing(t) /\ c \notin Pushing(t)' =>
                Cardinality(Pushing(t)') = Cardinality(Pushing(t)) - 1
           /\ c \notin Pushing(t) /\ c \in Pushing(t)' =>
                Cardinality(Pushing(t)') = Cardinality(Pushing(t)) + 1
           /\ (c \in Pushing(t) <=> c \in Pushing(t)') => Pushing(t)' = Pushing(t)
<1>. DEFINE P == Pushing(t)
            Q == Pushing(t)'
<1>1. P \subseteq Callbacks /\ Q \subseteq Callbacks
      /\ \A d \in Callbacks \ {c} : d \in P <=> d \in Q
  BY DEF Pushing
<1>2. IsFiniteSet(P) /\ Cardinality(P) \in Nat
  BY PushingType
<1>. HIDE DEF P, Q
<1>3. c \in P /\ c \notin Q => Cardinality(Q) = Cardinality(P) - 1
  <2>. SUFFICES ASSUME c \in P, c \notin Q  PROVE Cardinality(Q) = Cardinality(P) - 1
    OBVIOUS
  <2>1. Q = P \ {c}
    BY <1>1
  <2>. QED  BY <1>2, <2>1, FS_RemoveElement
<1>4. c \notin P /\ c \in Q => Cardinality(Q) = Cardinality(P) + 1
  <2>. SUFFICES ASSUME c \notin P, c \in Q  PROVE Cardinality(Q) = Cardinality(P) + 1
    OBVIOUS
  <2>1. Q = P \cup {c}
    BY <1>1
  <2>. QED  BY <1>2, <2>1, FS_AddElement
<1>5. (c \in P <=> c \in Q) => Q = P
  BY <1>1
<1>. QED  BY <1>3, <1>4, <1>5 DEF P, Q

\* Every step keeps a record behind every code, and the I/O thread defined.
LEMMA BackedNext ==
    ASSUME TypeOK, IoShape, IrpShape, SessionShape, CodesBacked, NoUndefined, [Next]_vars
    PROVE  CodesBacked' /\ NoUndefined'
<1>. USE TypesAssumption
<1>1. ASSUME NEW c \in Callbacks, NEW rec \in Records, NotifyBegin(c, rec)
       PROVE  CodesBacked' /\ NoUndefined'
  <2>1. /\ cb' = [cb EXCEPT ![c] = [pc |-> "insert", rec |-> rec]]
        /\ UNCHANGED <<codes, pending, ioVars, ctl>>
    BY <1>1 DEF NotifyBegin, queueVars, ctlVars
  <2>2. ASSUME NEW t \in Types  PROVE Pushing(t)' = Pushing(t)
    <3>1. \A d \in Callbacks \ {c} : cb'[d] = cb[d]
      BY <2>1 DEF TypeOK
    <3>2. c \notin Pushing(t) /\ c \notin Pushing(t)'
      BY <1>1, <2>1 DEF NotifyBegin, Pushing, TypeOK, Idle
    <3>. QED  BY <3>1, <3>2, PushingStep
  <2>3. ASSUME NEW t \in Types
        PROVE QueuedCodes(t)' = QueuedCodes(t) /\ WaitingRecords(t)' = WaitingRecords(t)
    BY <2>1 DEF QueuedCodes, WaitingRecords, ioVars
  <2>. QED  BY <2>1, <2>2, <2>3 DEF CodesBacked, NoUndefined, ioVars
<1>2. ASSUME NEW c \in Callbacks, NotifyInsert(c) PROVE CodesBacked' /\ NoUndefined'
  <2>. DEFINE e == cb[c].rec
              n == IF e \in Unannounced THEN Idle ELSE [pc |-> "push", rec |-> e]
  <2>1. /\ cb[c].pc = "insert" /\ cb' = [cb EXCEPT ![c] = n]
        /\ pending' = [pending EXCEPT ![TypeOf[e]] = <<e>> \o pending[TypeOf[e]]]
        /\ UNCHANGED <<codes, ioVars, ctl>>
    BY <1>2 DEF NotifyInsert, ctlVars
  <2>2. e \in Records /\ TypeOf[e] \in Types
    BY <2>1 DEF TypeOK, Idle
  <2>3. ASSUME NEW t \in Types
        PROVE  /\ t = TypeOf[e] => Len(pending'[t]) = Len(pending[t]) + 1
               /\ t # TypeOf[e] => pending'[t] = pending[t]
    BY <2>1, <2>2, SMTT(30) DEF TypeOK
  <2>4. ASSUME NEW t \in Types
        PROVE  /\ t = TypeOf[e] => \/ Cardinality(Pushing(t)') = Cardinality(Pushing(t))
                                   \/ Cardinality(Pushing(t)') = Cardinality(Pushing(t)) + 1
               /\ t # TypeOf[e] => Pushing(t)' = Pushing(t)
    <3>1. \A d \in Callbacks \ {c} : cb'[d] = cb[d]
      BY <2>1 DEF TypeOK
    <3>2. c \notin Pushing(t) /\ (c \in Pushing(t)' => t = TypeOf[e])
      BY <2>1 DEF Pushing, TypeOK, Idle
    <3>. QED  BY <3>1, <3>2, PushingStep
  <2>5. ASSUME NEW t \in Types
        PROVE  /\ QueuedCodes(t)' = QueuedCodes(t)
               /\ t = TypeOf[e] => WaitingRecords(t)' = WaitingRecords(t) + 1
               /\ t # TypeOf[e] => WaitingRecords(t)' = WaitingRecords(t)
    <3>1. pending[t] \in Seq(Records)
      BY DEF TypeOK
    <3>2. QueuedCodes(t)' = QueuedCodes(t)
      BY <2>1 DEF QueuedCodes, ioVars
    <3>3. UNCHANGED <<ioPc, ioCode>>
      BY <2>1 DEF ioVars
    <3>4. t # TypeOf[e] => WaitingRecords(t)' = WaitingRecords(t)
      BY <2>3, <3>3 DEF WaitingRecords
    <3>5. t = TypeOf[e] => WaitingRecords(t)' = WaitingRecords(t) + 1
      BY <2>3, <3>1, <3>3, CountsCases
    <3>. QED  BY <3>2, <3>4, <3>5
  <2>. HIDE DEF e
  <2>6. ASSUME NEW t \in Types, ctl \notin {"clean", "cleanCodes"}
        PROVE  QueuedCodes(t)' + Cardinality(Pushing(t)') <= WaitingRecords(t)'
    <3>1. QueuedCodes(t) + Cardinality(Pushing(t)) <= WaitingRecords(t)
      BY <2>6 DEF CodesBacked
    <3>. QED  BY <2>4, <2>5, <3>1, CountsType
  <2>. QED  BY <2>1, <2>6 DEF CodesBacked, NoUndefined, ioVars
<1>3. ASSUME NEW c \in Callbacks, PushInfo(c) PROVE CodesBacked' /\ NoUndefined'
  <2>. DEFINE k == TypeOf[cb[c].rec]
  <2>1. /\ cb[c].pc = "push" /\ codes' = <<k>> \o codes
        /\ cb' = [cb EXCEPT ![c] = [pc |-> "signal", rec |-> cb[c].rec]]
        /\ UNCHANGED <<pending, ioVars, ctl>>
    BY <1>3 DEF PushInfo, ctlVars
  <2>2. k \in Types /\ codes \in Seq(Types)
    BY <2>1 DEF TypeOK, Idle
  <2>3. ASSUME NEW t \in Types
        PROVE  /\ t = k => Cardinality(Pushing(t)') = Cardinality(Pushing(t)) - 1
               /\ t # k => Pushing(t)' = Pushing(t)
    <3>1. \A d \in Callbacks \ {c} : cb'[d] = cb[d]
      BY <2>1 DEF TypeOK
    <3>2. (c \in Pushing(t) <=> t = k) /\ c \notin Pushing(t)'
      BY <2>1 DEF Pushing, TypeOK
    <3>. QED  BY <3>1, <3>2, PushingStep
  <2>4. ASSUME NEW t \in Types
        PROVE  Occurrences(codes', t) = Occurrences(codes, t) + (IF k = t THEN 1 ELSE 0)
    BY <2>1, <2>2, OccurrencesCons
  <2>. HIDE DEF k
  <2>5. ASSUME NEW t \in Types
        PROVE  /\ QueuedCodes(t)' + Cardinality(Pushing(t)')
                    = QueuedCodes(t) + Cardinality(Pushing(t))
               /\ WaitingRecords(t)' = WaitingRecords(t)
    <3>1. WaitingRecords(t)' = WaitingRecords(t) /\ UNCHANGED <<ioPc, ioCode>>
      BY <2>1 DEF WaitingRecords, ioVars
    <3>2. QueuedCodes(t)' = QueuedCodes(t) + (IF k = t THEN 1 ELSE 0)
      BY <2>4, <3>1, CountsCases, CountsType
    <3>. QED  BY <2>3, <3>1, <3>2, CountsType
  <2>. QED  BY <2>1, <2>5 DEF CodesBacked, NoUndefined, ioVars
<1>4. ASSUME NEW c \in Callbacks, PushInfoFails(c)
       PROVE  CodesBacked' /\ NoUndefined'
  <2>1. /\ cb' = [cb EXCEPT ![c] = [pc |-> "signal", rec |-> cb[c].rec]]
        /\ UNCHANGED <<codes, pending, ioVars, ctl>>
    BY <1>4 DEF PushInfoFails, queueVars, ctlVars
  <2>2. ASSUME NEW t \in Types
        PROVE  /\ Cardinality(Pushing(t)') <= Cardinality(Pushing(t))
               /\ Cardinality(Pushing(t)') \in Nat
    <3>1. \A d \in Callbacks \ {c} : cb'[d] = cb[d]
      BY <2>1 DEF TypeOK
    <3>2. c \notin Pushing(t)'
      BY <2>1 DEF Pushing, TypeOK
    <3>3. Pushing(t)' \subseteq Callbacks
      BY DEF Pushing
    <3>4. Cardinality(Pushing(t)') \in Nat
      BY <3>3, FiniteAssumption, FS_Subset, FS_CardinalityType
    <3>. QED  BY <3>1, <3>2, <3>4, PushingStep, CountsType
  <2>3. ASSUME NEW t \in Types
        PROVE QueuedCodes(t)' = QueuedCodes(t) /\ WaitingRecords(t)' = WaitingRecords(t)
    BY <2>1 DEF QueuedCodes, WaitingRecords, ioVars
  <2>4. ASSUME NEW t \in Types, ctl \notin {"clean", "cleanCodes"}
        PROVE  QueuedCodes(t)' + Cardinality(Pushing(t)') <= WaitingRecords(t)'
    <3>1. QueuedCodes(t) + Cardinality(Pushing(t)) <= WaitingRecords(t)
      BY <2>4 DEF CodesBacked
    <3>. QED  BY <2>2, <2>3, <3>1, CountsType
  <2>. QED  BY <2>1, <2>4 DEF CodesBacked, NoUndefined, ioVars
<1>5. ASSUME NEW c \in Callbacks, PushSignal(c) PROVE CodesBacked' /\ NoUndefined'
  <2>1. /\ cb' = [cb EXCEPT ![c] = Idle]
        /\ UNCHANGED <<codes, pending, ioVars, ctl>>
    BY <1>5 DEF PushSignal, queueVars, ctlVars
  <2>2. ASSUME NEW t \in Types  PROVE Pushing(t)' = Pushing(t)
    <3>1. \A d \in Callbacks \ {c} : cb'[d] = cb[d]
      BY <2>1 DEF TypeOK
    <3>2. c \notin Pushing(t) /\ c \notin Pushing(t)'
      BY <1>5, <2>1 DEF PushSignal, Pushing, TypeOK, Idle
    <3>. QED  BY <3>1, <3>2, PushingStep
  <2>3. ASSUME NEW t \in Types
        PROVE QueuedCodes(t)' = QueuedCodes(t) /\ WaitingRecords(t)' = WaitingRecords(t)
    BY <2>1 DEF QueuedCodes, WaitingRecords, ioVars
  <2>. QED  BY <2>1, <2>2, <2>3 DEF CodesBacked, NoUndefined, ioVars
<1>6. ASSUME IoWait PROVE CodesBacked' /\ NoUndefined'
  BY <1>6, BackedFrame
  DEF IoWait, queueVars, irpVars, ctlVars, histVars, NoUndefined
<1>7. ASSUME ServiceNothing PROVE CodesBacked' /\ NoUndefined'
  BY <1>7, BackedFrame
  DEF ServiceNothing, queueVars, irpVars, ctlVars, histVars, NoUndefined
<1>8. ASSUME NEW r \in Readers, ServiceTake(r) PROVE CodesBacked' /\ NoUndefined'
  BY <1>8, BackedFrame
  DEF ServiceTake, queueVars, ctlVars, histVars, NoUndefined
<1>9. ASSUME ServiceMap PROVE CodesBacked' /\ NoUndefined'
  BY <1>9, BackedFrame
  DEF ServiceMap, queueVars, irpVars, ctlVars, histVars, NoUndefined
<1>10. ASSUME ServiceMapFails PROVE CodesBacked' /\ NoUndefined'
  BY <1>10, BackedFrame
  DEF ServiceMapFails, queueVars, ctlVars, histVars, Complete, NoUndefined
<1>11. ASSUME FillNext PROVE CodesBacked' /\ NoUndefined'
  <2>1. /\ ioPc = "fill" /\ ioPc' = "pop" /\ codes # <<>>
        /\ ioCode' = Head(codes) /\ codes' = Tail(codes)
        /\ UNCHANGED <<pending, cb, ctl>>
    BY <1>11 DEF FillNext, ctlVars
  <2>2. codes \in Seq(Types) /\ ioCode = None
    BY <2>1 DEF TypeOK, IoShape
  <2>3. ASSUME NEW t \in Types
        PROVE  Occurrences(codes, t) = Occurrences(codes', t) + (IF Head(codes) = t THEN 1 ELSE 0)
               /\ Occurrences(codes', t) \in Nat
    BY <2>1, <2>2, OccurrencesTail, OccurrencesType
  <2>4. ASSUME NEW t \in Types
        PROVE  /\ QueuedCodes(t)' = QueuedCodes(t) /\ WaitingRecords(t)' = WaitingRecords(t)
               /\ Pushing(t)' = Pushing(t)
    BY <2>1, <2>2, <2>3 DEF QueuedCodes, WaitingRecords, Pushing
  <2>. QED  BY <2>1, <2>4 DEF CodesBacked, NoUndefined
<1>12. ASSUME FillEnd PROVE CodesBacked' /\ NoUndefined'
  BY <1>12, BackedFrame
  DEF FillEnd, queueVars, irpVars, ctlVars, histVars, NoUndefined
<1>13. ASSUME PopRecord PROVE CodesBacked' /\ NoUndefined'
  <2>1. /\ ioPc = "pop" /\ ioCode' = None
        /\ UNCHANGED <<codes, cb, ctl>>
    BY <1>13 DEF PopRecord, ctlVars
  <2>2. ioCode \in Types /\ pending[ioCode] \in Seq(Records) /\ ioIrp \in Readers
    BY <2>1 DEF TypeOK, IoShape
  <2>3. open = "mapped" /\ ctl \notin {"clean", "cleanCodes"}
    BY <2>1, <2>2 DEF IrpShape, SessionShape
  <2>4. pending[ioCode] # <<>>
    <3>1. QueuedCodes(ioCode) + Cardinality(Pushing(ioCode)) <= Len(pending[ioCode])
      BY <2>1, <2>2, <2>3, CountsType DEF CodesBacked, WaitingRecords
    <3>2. QueuedCodes(ioCode) >= 1
      BY <2>2, CountsType DEF QueuedCodes
    <3>. QED  BY <2>2, <3>1, <3>2, CountsType
  <2>5. ioPc' = "fill" /\ pending' = [pending EXCEPT ![ioCode] = Tail(pending[ioCode])]
    BY <1>13, <2>3, <2>4 DEF PopRecord
  <2>6. ASSUME NEW t \in Types
        PROVE  /\ t = ioCode => Len(pending'[t]) = Len(pending[t]) - 1
               /\ t # ioCode => pending'[t] = pending[t]
    BY <2>2, <2>4, <2>5 DEF TypeOK
  <2>7. ASSUME NEW t \in Types
        PROVE  /\ QueuedCodes(t)' = QueuedCodes(t) - (IF t = ioCode THEN 1 ELSE 0)
               /\ WaitingRecords(t)' = WaitingRecords(t) - (IF t = ioCode THEN 1 ELSE 0)
               /\ Pushing(t)' = Pushing(t)
    <3>1. pending[t] \in Seq(Records)
      BY DEF TypeOK
    <3>2. Pushing(t)' = Pushing(t)
      BY <2>1 DEF Pushing
    <3>3. QueuedCodes(t)' = QueuedCodes(t) - (IF t = ioCode THEN 1 ELSE 0)
      BY <2>1, CountsCases, CountsType, TypesAssumption
    <3>4. t # ioCode => WaitingRecords(t)' = WaitingRecords(t)
      BY <2>1, <2>5, <2>6 DEF WaitingRecords
    <3>5. t = ioCode => WaitingRecords(t)' = WaitingRecords(t) - 1
      BY <2>1, <2>5, <2>6, <3>1, CountsCases
    <3>. QED  BY <3>2, <3>3, <3>4, <3>5, CountsType
  <2>. QED  BY <2>1, <2>3, <2>5, <2>7, CountsType DEF CodesBacked, NoUndefined
<1>14. ASSUME PopNoMemory PROVE CodesBacked' /\ NoUndefined'
  <2>1. /\ ioPc = "pop" /\ ioPc' = "reinsert" /\ pending[ioCode] # <<>>
        /\ pending' = [pending EXCEPT ![ioCode] = Tail(pending[ioCode])]
        /\ UNCHANGED <<codes, cb, ioCode, ctl>>
    BY <1>14 DEF PopNoMemory, ctlVars
  <2>2. ioCode \in Types /\ pending[ioCode] \in Seq(Records)
    BY <2>1 DEF TypeOK, IoShape
  <2>3. ASSUME NEW t \in Types
        PROVE  /\ t = ioCode => Len(pending'[t]) = Len(pending[t]) - 1
               /\ t # ioCode => pending'[t] = pending[t]
    BY <2>1, <2>2 DEF TypeOK
  <2>4. ASSUME NEW t \in Types
        PROVE  /\ QueuedCodes(t)' = QueuedCodes(t) /\ WaitingRecords(t)' = WaitingRecords(t)
               /\ Pushing(t)' = Pushing(t)
    <3>1. pending[t] \in Seq(Records)
      BY DEF TypeOK
    <3>2. Pushing(t)' = Pushing(t) /\ QueuedCodes(t)' = QueuedCodes(t)
      BY <2>1 DEF Pushing, QueuedCodes
    <3>3. t # ioCode => WaitingRecords(t)' = WaitingRecords(t)
      BY <2>1, <2>3 DEF WaitingRecords
    <3>4. t = ioCode => WaitingRecords(t)' = WaitingRecords(t)
      BY <2>1, <2>3, <3>1, CountsCases
    <3>. QED  BY <3>2, <3>3, <3>4
  <2>. QED  BY <2>1, <2>4 DEF CodesBacked, NoUndefined
<1>15. ASSUME PopReinsert PROVE CodesBacked' /\ NoUndefined'
  <2>1. /\ ioPc = "reinsert" /\ ioPc' = "requeue"
        /\ pending' = [pending EXCEPT ![ioCode] = <<ioRec>> \o pending[ioCode]]
        /\ UNCHANGED <<codes, cb, ioCode, ctl>>
    BY <1>15 DEF PopReinsert, ctlVars
  <2>2. ioCode \in Types /\ pending[ioCode] \in Seq(Records) /\ ioRec \in Records
    BY <2>1 DEF TypeOK, IoShape
  <2>3. ASSUME NEW t \in Types
        PROVE  /\ t = ioCode => Len(pending'[t]) = Len(pending[t]) + 1
               /\ t # ioCode => pending'[t] = pending[t]
    BY <2>1, <2>2 DEF TypeOK
  <2>4. ASSUME NEW t \in Types
        PROVE  /\ QueuedCodes(t)' = QueuedCodes(t) /\ WaitingRecords(t)' = WaitingRecords(t)
               /\ Pushing(t)' = Pushing(t)
    <3>1. pending[t] \in Seq(Records)
      BY DEF TypeOK
    <3>2. Pushing(t)' = Pushing(t) /\ QueuedCodes(t)' = QueuedCodes(t)
      BY <2>1 DEF Pushing, QueuedCodes
    <3>3. t # ioCode => WaitingRecords(t)' = WaitingRecords(t)
      BY <2>1, <2>3 DEF WaitingRecords
    <3>4. t = ioCode => WaitingRecords(t)' = WaitingRecords(t)
      BY <2>1, <2>3, <3>1, CountsCases
    <3>. QED  BY <3>2, <3>3, <3>4
  <2>. QED  BY <2>1, <2>4 DEF CodesBacked, NoUndefined
<1>16. ASSUME FillRequeue PROVE CodesBacked' /\ NoUndefined'
  <2>1. /\ ioPc = "requeue" /\ ioPc' = "complete"
        /\ ioCode' = None /\ codes' = <<ioCode>> \o codes
        /\ UNCHANGED <<pending, cb, ctl>>
    BY <1>16 DEF FillRequeue, ctlVars
  <2>2. codes \in Seq(Types) /\ ioCode \in Types
    BY <2>1 DEF TypeOK, IoShape
  <2>3. ASSUME NEW t \in Types
        PROVE  Occurrences(codes', t) = Occurrences(codes, t) + (IF ioCode = t THEN 1 ELSE 0)
    BY <2>1, <2>2, OccurrencesCons
  <2>4. ASSUME NEW t \in Types
        PROVE  /\ QueuedCodes(t)' = QueuedCodes(t) /\ WaitingRecords(t)' = WaitingRecords(t)
               /\ Pushing(t)' = Pushing(t)
    <3>1. Pushing(t)' = Pushing(t) /\ WaitingRecords(t)' = WaitingRecords(t)
      BY <2>1 DEF Pushing, WaitingRecords
    <3>2. QueuedCodes(t)' = QueuedCodes(t)
      <4>1. ioCode' # t /\ Occurrences(codes, t) \in Nat
        BY <2>1, CountsType, TypesAssumption
      <4>2. QueuedCodes(t)' = Occurrences(codes', t) + 0
        BY <4>1, CountsCases
      <4>3. CASE ioCode = t
        BY <2>3, <4>1, <4>2, <4>3, CountsCases
      <4>4. CASE ioCode # t
        BY <2>3, <4>1, <4>2, <4>4, CountsCases
      <4>. QED  BY <4>3, <4>4
    <3>. QED  BY <3>1, <3>2
  <2>. QED  BY <2>1, <2>4 DEF CodesBacked, NoUndefined
<1>17. ASSUME ServiceComplete PROVE CodesBacked' /\ NoUndefined'
  BY <1>17, BackedFrame
  DEF ServiceComplete, queueVars, ctlVars, histVars, Complete, NoUndefined
<1>18. ASSUME NEW r \in Readers, ReadIssue(r) PROVE CodesBacked' /\ NoUndefined'
  BY <1>18, BackedFrame
  DEF ReadIssue, queueVars, ioVars, ctlVars, histVars, NoUndefined
<1>19. ASSUME NEW r \in Readers, ReadInvalid(r) PROVE CodesBacked' /\ NoUndefined'
  BY <1>19, BackedFrame
  DEF ReadInvalid, queueVars, ioVars, ctlVars, histVars, Complete, NoUndefined
<1>20. ASSUME NEW r \in Readers, ReadPend(r) PROVE CodesBacked' /\ NoUndefined'
  BY <1>20, BackedFrame
  DEF ReadPend, queueVars, ioVars, ctlVars, histVars, NoUndefined
<1>21. ASSUME NEW r \in Readers, ReadRefuse(r) PROVE CodesBacked' /\ NoUndefined'
  BY <1>21, BackedFrame
  DEF ReadRefuse, queueVars, ioVars, irpVars, ctlVars, histVars, NoUndefined
<1>22. ASSUME NEW r \in Readers, ReadSignal(r) PROVE CodesBacked' /\ NoUndefined'
  BY <1>22, BackedFrame
  DEF ReadSignal, queueVars, ioVars, irpVars, ctlVars, histVars, NoUndefined
<1>23. ASSUME NEW r \in Readers, ReadSignalRefused(r)
       PROVE  CodesBacked' /\ NoUndefined'
  BY <1>23, BackedFrame
  DEF ReadSignalRefused, queueVars, ioVars, ctlVars, histVars, Complete,
  NoUndefined
<1>24. ASSUME NEW r \in Readers, IoCancelIrp(r) PROVE CodesBacked' /\ NoUndefined'
  BY <1>24, BackedFrame
  DEF IoCancelIrp, queueVars, ioVars, ctlVars, histVars, CancelMark,
  Outstanding, NoUndefined
<1>25. ASSUME NEW r \in Readers, CancelRead(r) PROVE CodesBacked' /\ NoUndefined'
  BY <1>25, BackedFrame
  DEF CancelRead, queueVars, ioVars, ctlVars, histVars, Complete, NoUndefined
<1>26. ASSUME NEW r \in Readers, WorkerStart(r) PROVE CodesBacked' /\ NoUndefined'
  BY <1>26, BackedFrame
  DEF WorkerStart, queueVars, ioVars, irpVars, ctlVars, histVars, NoUndefined
<1>27. ASSUME NEW r \in Readers, WorkerWake(r) PROVE CodesBacked' /\ NoUndefined'
  BY <1>27, BackedFrame
  DEF WorkerWake, queueVars, ioVars, irpVars, ctlVars, histVars, NoUndefined
<1>28. ASSUME NEW r \in Readers, WorkerParse(r) PROVE CodesBacked' /\ NoUndefined'
  BY <1>28, BackedFrame
  DEF WorkerParse, queueVars, ioVars, irpVars, ctlVars, NoUndefined
<1>29. ASSUME NEW r \in Readers, StopReady(r) PROVE CodesBacked' /\ NoUndefined'
  BY <1>29, BackedFrame
  DEF StopReady, queueVars, ioVars, irpVars, ctlVars, histVars, NoUndefined
<1>30. ASSUME NEW r \in Readers, StopWaiting(r) PROVE CodesBacked' /\ NoUndefined'
  BY <1>30, BackedFrame
  DEF StopWaiting, queueVars, ioVars, ctlVars, histVars, CancelMark,
  Outstanding, NoUndefined
<1>31. ASSUME NEW r \in Readers, WorkerGone(r) PROVE CodesBacked' /\ NoUndefined'
  BY <1>31, BackedFrame
  DEF WorkerGone, queueVars, ioVars, irpVars, ctlVars, NoUndefined
<1>32. ASSUME NEW r \in Readers, NEW n \in 1..Len(buf), StopParsing(r, n)
       PROVE  CodesBacked' /\ NoUndefined'
  BY <1>32, BackedFrame
  DEF StopParsing, queueVars, ioVars, irpVars, ctlVars, NoUndefined
<1>33. ASSUME OpenDevice PROVE CodesBacked' /\ NoUndefined'
  BY <1>33, BackedFrame
  DEF OpenDevice, queueVars, ioVars, irpVars, histVars, NoUndefined
<1>34. ASSUME OpenMem PROVE CodesBacked' /\ NoUndefined'
  BY <1>34, BackedFrame
  DEF OpenMem, queueVars, ioVars, irpVars, histVars, NoUndefined
<1>35. ASSUME NEW on \in BOOLEAN, SetMonitor(on) PROVE CodesBacked' /\ NoUndefined'
  BY <1>35, BackedFrame
  DEF SetMonitor, queueVars, ioVars, irpVars, histVars, NoUndefined
<1>36. ASSUME SetIpsMonitor PROVE CodesBacked' /\ NoUndefined'
  BY <1>36, BackedFrame
  DEF SetIpsMonitor, queueVars, ioVars, irpVars, histVars, NoUndefined
<1>37. ASSUME Close PROVE CodesBacked' /\ NoUndefined'
  BY <1>37, BackedFrame
  DEF Close, queueVars, ioVars, irpVars, histVars, NoUndefined
<1>38. ASSUME Sleep PROVE CodesBacked' /\ NoUndefined'
  BY <1>38, BackedFrame
  DEF Sleep, queueVars, ioVars, irpVars, histVars, NoUndefined
<1>39. ASSUME NEW r \in Readers, CancelTake(r) PROVE CodesBacked' /\ NoUndefined'
  BY <1>39, BackedFrame
  DEF CancelTake, queueVars, ioVars, histVars, NoUndefined
<1>40. ASSUME CancelComplete PROVE CodesBacked' /\ NoUndefined'
  BY <1>40, BackedFrame
  DEF CancelComplete, queueVars, ioVars, histVars, Complete, NoUndefined
<1>41. ASSUME CancelEnd PROVE CodesBacked' /\ NoUndefined'
  BY <1>41, BackedFrame
  DEF CancelEnd, queueVars, ioVars, irpVars, histVars, NoUndefined
<1>42. ASSUME NEW t \in Types, CleanRecord(t) PROVE CodesBacked' /\ NoUndefined'
  BY <1>42 DEF CleanRecord, ioVars, ctlVars, CodesBacked, NoUndefined
<1>43. ASSUME CleanEnd PROVE CodesBacked' /\ NoUndefined'
  BY <1>43, BackedFrame
  DEF CleanEnd, queueVars, ioVars, irpVars, histVars, NoUndefined
<1>44. ASSUME CleanCode PROVE CodesBacked' /\ NoUndefined'
  BY <1>44 DEF CleanCode, ioVars, ctlVars, CodesBacked, NoUndefined
<1>45. ASSUME CloseEnd PROVE CodesBacked' /\ NoUndefined'
  <2>1. /\ ctl = "cleanCodes" /\ codes = <<>> /\ open = "closing"
        /\ UNCHANGED <<codes, pending, cb, ioPc, ioCode>>
    BY <1>45 DEF CloseEnd, SessionShape, queueVars, ioVars
  <2>2. ioIrp = None
    BY <2>1 DEF IrpShape, SessionShape, TypeOK
  <2>3. ioCode = None /\ ioPc # "undefined"
    BY <2>2 DEF IoShape
  <2>4. ASSUME NEW t \in Types
        PROVE  QueuedCodes(t)' = 0 /\ WaitingRecords(t)' = 0 /\ Pushing(t)' = {}
    <3>1. Occurrences(codes, t) = 0
      BY <2>1, OccurrencesEmpty
    <3>2. ioPc # "reinsert" /\ pending[t] = <<>> /\ ioCode # t
      BY <2>1, <2>3, TypesAssumption DEF SessionShape, IoShape
    <3>3. Pushing(t) = {}
      BY <2>1 DEF SessionShape, Pushing
    <3>4. Pushing(t)' = Pushing(t)
      BY <2>1 DEF Pushing
    <3>5. QueuedCodes(t) = 0 /\ QueuedCodes(t)' = QueuedCodes(t)
      BY <2>1, <3>1, <3>2, CountsCases DEF QueuedCodes
    <3>6. WaitingRecords(t) = 0 /\ WaitingRecords(t)' = WaitingRecords(t)
      BY <2>1, <3>2, CountsCases DEF WaitingRecords
    <3>. QED  BY <3>3, <3>4, <3>5, <3>6
  <2>5. \A t \in Types : QueuedCodes(t)' + Cardinality(Pushing(t)') <= WaitingRecords(t)'
    <3>1. Cardinality({}) = 0
      BY FS_EmptySet
    <3>. TAKE t \in Types
    <3>2. QueuedCodes(t)' = 0 /\ WaitingRecords(t)' = 0 /\ Cardinality(Pushing(t)') = 0
      BY <2>4, <3>1
    <3>. QED  BY <3>2
  <2>. QED  BY <2>1, <2>3, <2>5 DEF CodesBacked, NoUndefined
<1>46. ASSUME WorkerStop PROVE CodesBacked' /\ NoUndefined'
  BY <1>46, BackedFrame
  DEF WorkerStop, queueVars, ioVars, irpVars, histVars, NoUndefined
<1>47. CASE UNCHANGED vars
  BY <1>47, BackedFrame
  DEF vars, queueVars, ioVars, irpVars, ctlVars, histVars, NoUndefined
<1>. QED
  BY <1>1, <1>2, <1>3, <1>4, <1>5, <1>6, <1>7, <1>8, <1>9, <1>10, <1>11,
  <1>12, <1>13, <1>14, <1>15, <1>16, <1>17, <1>18, <1>19, <1>20, <1>21,
  <1>22, <1>23, <1>24, <1>25, <1>26, <1>27, <1>28, <1>29, <1>30, <1>31,
  <1>32, <1>33, <1>34, <1>35, <1>36, <1>37, <1>38, <1>39, <1>40, <1>41,
  <1>42, <1>43, <1>44, <1>45, <1>46, <1>47
  DEF Next, Notify, IoThread, Reader, ControlStep, Request

\* The invariant holds initially: both lists are empty and nothing is running.
LEMMA InitInvariant ==
    ASSUME Init
    PROVE  IInv
<1>. USE DEF Init
<1>1. TypeOK
  <2>1. /\ cb \in [Callbacks -> [pc : NotifyPcs, rec : Records] \cup {Idle}]
        /\ pending \in [Types -> Seq(Records)] /\ codes \in Seq(Types)
        /\ buf \in Seq(Records)
    OBVIOUS
  <2>2. /\ rd \in [Readers -> ReaderPcs] /\ completions \in [Readers -> Nat]
        /\ result \in [Readers -> {"none", "success", "cancelled", "failed"}]
        /\ length \in [Readers -> Nat]
    BY DEF ReaderPcs
  <2>3. /\ ioPc \in IoPcs /\ ioCode \in Types \cup {None} /\ ioRec \in Records \cup {None}
        /\ ioIrp \in Readers \cup {None} /\ ctlIrp \in Readers \cup {None}
    BY DEF IoPcs
  <2>. QED  BY <2>1, <2>2, <2>3 DEF TypeOK
<1>2. IoShape /\ NoUndefined
  BY SizesAssumption DEF IoShape, NoUndefined
<1>3. IrpShape
  BY TypesAssumption DEF IrpShape
<1>4. SessionShape
  BY DEF SessionShape, Idle
<1>5. CodesBacked
  <2>. SUFFICES ASSUME NEW t \in Types
                PROVE  QueuedCodes(t) + Cardinality(Pushing(t)) <= WaitingRecords(t)
    BY DEF CodesBacked
  <2>1. Occurrences(codes, t) = 0 /\ ioCode # t
    <3>1. codes = <<>> /\ ioCode = None /\ None \notin Types
      BY TypesAssumption
    <3>. QED  BY <3>1, OccurrencesEmpty
  <2>2. Pushing(t) = {}
    BY DEF Pushing, Idle
  <2>3. QueuedCodes(t) = 0
    BY <2>1, CountsCases
  <2>4. WaitingRecords(t) = 0
    <3>1. ioPc # "reinsert" /\ pending[t] = <<>>
      OBVIOUS
    <3>. QED  BY <3>1, CountsCases
  <2>5. Cardinality(Pushing(t)) = 0
    BY <2>2, FS_EmptySet
  <2>. QED  BY <2>3, <2>4, <2>5
<1>. QED  BY <1>1, <1>2, <1>3, <1>4, <1>5 DEF IInv

\* The types and the holdings of the I/O thread are inductive by themselves; with
\* them so are the places of the read IRPs, then what the device's state
\* excludes, and last the records behind the codes.
THEOREM Invariance == Spec => []IInv
<1>1. Init => IInv
  BY InitInvariant
<1>2. IInv /\ [Next]_vars => IInv'
  <2>. SUFFICES ASSUME IInv, [Next]_vars  PROVE IInv'
    OBVIOUS
  <2>1. TypeOK' /\ IoShape'
    BY TypeNext DEF IInv
  <2>2. IrpShape'
    BY IrpNext DEF IInv
  <2>3. SessionShape'
    BY SessionNext DEF IInv
  <2>4. CodesBacked' /\ NoUndefined'
    BY BackedNext DEF IInv
  <2>. QED  BY <2>1, <2>2, <2>3, <2>4 DEF IInv
<1>. QED  BY <1>1, <1>2, PTL DEF Spec

\* Every variable of the transport keeps its type, in every behaviour.
THEOREM TypeCorrect == Spec => []TypeOK
<1>1. IInv => TypeOK
  BY DEF IInv
<1>. QED  BY <1>1, Invariance, PTL

\* The I/O thread never removes a record from an empty list it does not test
\* (devctrl.c:1497) and never writes to an unmapped buffer.
THEOREM AlwaysDefined == Spec => []NoUndefined
<1>1. IInv => NoUndefined
  BY DEF IInv
<1>. QED  BY <1>1, Invariance, PTL

\* A queued code always has a record behind it, unless a close is emptying the
\* record lists before the code list (devctrl.c:953-962).
THEOREM CodesAlwaysBacked == Spec => []CodesBacked
<1>1. IInv => CodesBacked
  BY DEF IInv
<1>. QED  BY <1>1, Invariance, PTL

\* A read IRP is completed at most once and then left alone, whatever the races
\* of the I/O thread, the control requests and cancellation.
THEOREM NeverCompletedTwice == Spec => []CompletedOnce
<1>1. IInv => CompletedOnce
  BY TypesAssumption DEF IInv, IrpShape, TypeOK, CompletedOnce
<1>. QED  BY <1>1, Invariance, PTL

\* A read IRP that has been sent is on the list or with exactly one of the I/O
\* thread and a control request: no read is orphaned, none has two owners.
THEOREM AlwaysOwned == Spec => []SingleOwner
<1>1. IInv => SingleOwner
  BY TypesAssumption DEF IInv, IrpShape, TypeOK, SingleOwner
<1>. QED  BY <1>1, Invariance, PTL

\* The I/O thread holds a read only while the shared buffer is mapped, and its
\* offset never reaches the length that would wrap the size test.
THEOREM BufferAlwaysSafe == Spec => []BufferSafe
<1>1. IInv => BufferSafe
  BY DEF IInv, IoShape, IrpShape, SessionShape, TypeOK, BufferSafe
<1>. QED  BY <1>1, Invariance, PTL

\* A closed device holds no record, code or read of the session that ended.
THEOREM SessionsSeparate == Spec => []ClosedIsEmpty
<1>1. IInv => ClosedIsEmpty
  BY DEF IInv, IrpShape, SessionShape, TypeOK, ClosedIsEmpty
<1>. QED  BY <1>1, Invariance, PTL

=============================================================================
