--------------------------- MODULE IpsRulesProofs ---------------------------
(***************************************************************************)
(* Proofs about IpsRules for every value of its constants: the types, that *)
(* a routine never reads a rule list that has been freed and no rule list  *)
(* is lost, that no lookaside list is used after its end, and that one     *)
(* rule set decides.  A list is taken out of use only under the lock that  *)
(* its readers hold, and the exchange of the pointers, which takes no      *)
(* lock, finds no list, because the one request that is under way has      *)
(* cleaned it and no other thread installs one.  A list that a routine     *)
(* reads may go while it is under way, but another comes in its place only *)
(* with a rule set of a later number than that of its beginning.           *)
(***************************************************************************)
EXTENDS IpsRules, TLAPS

\* The types, and that a request that has begun is for a rule set.
TInv ==
    /\ TypeOK
    /\ ctl.pc \notin {"idle", "first"} => ctl.gen # 0

\* The initial values are typed.
LEMMA RestTyped == NoNote \in Notes /\ NoRequest \in Requests /\ NoMode \in [value : Modes \cup {0}, gen : 0..MaxSets]
BY RulesAssumption DEF NoNote, Notes, NoRequest, Requests, NoMode, Lists

LEMMA InitTyped == Init => TInv
<1> SUFFICES ASSUME Init PROVE TInv
  OBVIOUS
<1>1. /\ loads \in 0..MaxLoads /\ sets \in 0..MaxSets
      /\ ctl \in Requests /\ ctl.pc = "idle" /\ mode \in [value : Modes \cup {0}, gen : 0..MaxSets]
  BY RestTyped, RulesAssumption DEF Init, NoRequest
<1>2. /\ list \in [Lists -> Objects \cup {None}] /\ heap \subseteq Objects
      /\ lock \in [Kinds -> Notifiers \cup {None}] /\ note \in [Notifiers -> Notes]
      /\ lookaside \in [{"record", "code"} -> {"absent", "live", "deleted", "misused"}]
  BY RestTyped DEF Init
<1> QED
  BY <1>1, <1>2 DEF Init, TInv, TypeOK

\* A step of a routine changes the note of its thread to another note.
LEMMA NoteTyped ==
    ASSUME TInv, NEW n \in Notifiers, NoteStep(n) \/ \E p \in Procs : NotifyProcess(n, p) \/ PreOperation(n, p)
    PROVE  note' \in [Notifiers -> Notes]
<1> DEFINE m == note[n]
<1>0. note \in [Notifiers -> Notes] /\ m \in Notes /\ sets \in 0..MaxSets /\ MaxSets \in Nat
      /\ list \in [Lists -> Objects \cup {None}] /\ mode \in [value : Modes \cup {0}, gen : 0..MaxSets]
  BY RulesAssumption DEF TInv, TypeOK
<1>1. ASSUME NEW p \in Procs, NotifyProcess(n, p) \/ PreOperation(n, p)
      PROVE  note' \in [Notifiers -> Notes]
  <2>1. [NoNote EXCEPT !.pc = "test", !.proc = p, !.since = sets] \in Notes
    BY <1>0, RestTyped DEF Notes
  <2>2. [NoNote EXCEPT !.pc = "lookup", !.proc = p, !.list = "dirs", !.since = sets] \in Notes
    BY <1>0, RestTyped DEF Notes, Lists
  <2> QED
    BY <1>0, <1>1, <2>1, <2>2 DEF NotifyProcess, PreOperation
<1>2. CASE TestMode(n) \/ InsertRecord(n)
  BY <1>0, <1>2 DEF TestMode, InsertRecord, Notes
<1>3. CASE Lookup(n)
  <2>1. list[m.list] \in Objects \cup {None}
    BY <1>0 DEF Notes
  <2> QED
    BY <1>0, <1>3, <2>1 DEF Lookup, Notes
<1>4. CASE ReadList(n)
  <2>1. (IF m.obj = None THEN 0 ELSE m.obj.gen) \in 0..MaxSets
    BY <1>0 DEF Notes, Objects
  <2> QED
    BY <1>0, <1>4, <2>1, RestTyped DEF ReadList, Notes, Lists
<1>5. CASE DecideProcess(n)
  <2>1. mode.gen \in 0..MaxSets
    BY <1>0
  <2>2. [m EXCEPT !.pc = "denied", !.with = mode.gen] \in Notes /\ [m EXCEPT !.pc = "record"] \in Notes
    BY <1>0, <2>1 DEF Notes
  <2> QED
    BY <1>0, <1>5, <2>2 DEF DecideProcess
<1>6. CASE DecideDirectory(n) \/ Denied(n)
  <2>1. [m EXCEPT !.pc = "denied"] \in Notes /\ [m EXCEPT !.pc = "record"] \in Notes
    BY <1>0 DEF Notes
  <2> QED
    BY <1>0, <1>6, <2>1, RestTyped DEF DecideDirectory, Denied
<1>7. CASE TakeRecord(n) \/ PushInfo(n)
  <2>1. [NoNote EXCEPT !.pc = "insert"] \in Notes
    BY RestTyped DEF Notes
  <2> QED
    BY <1>0, <1>7, <2>1, RestTyped DEF TakeRecord, PushInfo
<1> QED
  BY <1>1, <1>2, <1>3, <1>4, <1>5, <1>6, <1>7 DEF NoteStep

\* What a routine leaves alone.
LEMMA NoteFrame ==
    ASSUME NEW n \in Notifiers, NoteStep(n) \/ \E p \in Procs : NotifyProcess(n, p) \/ PreOperation(n, p)
    PROVE  UNCHANGED <<svcVars, flagVars, list, heap, drvVars, io>>
BY DEF NoteStep, NotifyProcess, PreOperation, TestMode, Lookup, ReadList, DecideProcess,
       DecideDirectory, Denied, TakeRecord, InsertRecord, PushInfo, listVars, ioVars

LEMMA NoteKeepsTypes ==
    ASSUME TInv, NEW n \in Notifiers, NoteStep(n) \/ \E p \in Procs : NotifyProcess(n, p) \/ PreOperation(n, p)
    PROVE  TInv'
<1>1. note' \in [Notifiers -> Notes]
  BY NoteTyped
<1>2. UNCHANGED <<svcVars, flagVars, list, heap, drvVars, io>>
  BY NoteFrame
<1>3. /\ lock' \in [Kinds -> Notifiers \cup {None}]
      /\ records' \in Nat /\ codes' \in Nat /\ wake' \in BOOLEAN
  <2>0. /\ lock \in [Kinds -> Notifiers \cup {None}]
        /\ records \in Nat /\ codes \in Nat /\ wake \in BOOLEAN
    BY DEF TInv, TypeOK
  <2>1. CASE Lookup(n) \/ ReadList(n)
    BY <2>0, <2>1 DEF Lookup, ReadList, ioVars
  <2>2. CASE InsertRecord(n) \/ PushInfo(n)
    <3>1. records' \in Nat /\ codes' \in Nat
      BY <2>0, <2>2 DEF InsertRecord, PushInfo
    <3>2. wake' \in BOOLEAN
      BY <2>0, <2>2, Zenon DEF InsertRecord, PushInfo
    <3>3. lock' = lock
      BY <2>2 DEF InsertRecord, PushInfo, listVars
    <3> QED
      BY <2>0, <3>1, <3>2, <3>3
  <2>3. CASE UNCHANGED <<listVars, ioVars>>
    BY <2>0, <2>3 DEF listVars, ioVars
  <2> QED
    BY <2>1, <2>2, <2>3 DEF NoteStep, NotifyProcess, PreOperation, TestMode, DecideProcess,
                            DecideDirectory, Denied, TakeRecord
<1> QED
  BY <1>1, <1>2, <1>3 DEF TInv, TypeOK, svcVars, flagVars, drvVars

\* The request of the service: its record, and the lists it changes.
LEMMA AfterTyped ==
    ASSUME TInv, ctl.gen # 0, NEW taken \in BOOLEAN
    PROVE  /\ After(taken) \in Requests
           /\ After(taken).pc \notin {"idle", "first"} => After(taken).gen # 0
<1>0. ctl \in Requests /\ NoRequest \in Requests /\ NoRequest.pc = "idle"
  BY RestTyped DEF TInv, TypeOK, NoRequest
<1>1. /\ [ctl EXCEPT !.pc = "mode", !.old = None] \in Requests
      /\ [ctl EXCEPT !.pc = "mode", !.old = None].gen = ctl.gen
  BY <1>0 DEF Requests
<1>2. /\ [NoRequest EXCEPT !.pc = "sleep", !.list = "dirs", !.gen = ctl.gen] \in Requests
      /\ [NoRequest EXCEPT !.pc = "sleep", !.list = "dirs", !.gen = ctl.gen].gen = ctl.gen
  BY <1>0 DEF Requests, Lists
<1>3. CASE ctl.list = "process"
  BY <1>0, <1>1, <1>3 DEF After
<1>4. CASE ctl.list = "names"
  BY <1>2, <1>4 DEF After
<1>5. CASE ctl.list = "dirs"
  BY <1>0, <1>5 DEF After
<1> QED
  BY <1>0, <1>3, <1>4, <1>5 DEF Requests, Lists

LEMMA CleanTyped ==
    ASSUME TInv, NEW L \in SUBSET Lists, Clean(L)
    PROVE  list' \in [Lists -> Objects \cup {None}] /\ heap' \subseteq Objects
BY DEF TInv, TypeOK, Clean

LEMMA RequestKeepsTypes ==
    ASSUME TInv,
           RequestStep \/ (\E l \in Lists, S \in SUBSET Procs : SetRule(l, S))
    PROVE  TInv'
<1>0. ctl \in Requests /\ sets \in 0..MaxSets /\ MaxSets \in Nat
  BY RulesAssumption DEF TInv, TypeOK
<1>1. ASSUME NEW l \in Lists, NEW S \in SUBSET Procs, SetRule(l, S)
      PROVE  TInv'
  <2>1. sets' \in 0..MaxSets /\ sets' # 0
    <3>1. sets < MaxSets /\ sets' = sets + 1
      BY <1>1 DEF SetRule
    <3> QED
      BY <1>0, <3>1
  <2>2. ctl' \in Requests /\ ctl'.gen # 0
    BY <1>1, <2>1, RestTyped DEF SetRule, Requests, NoRequest
  <2>3. mode' \in [value : Modes \cup {0}, gen : 0..MaxSets] /\ ips' \subseteq Kinds
    BY <1>1, RestTyped DEF SetRule, TInv, TypeOK
  <2> QED
    BY <1>1, <2>1, <2>2, <2>3 DEF SetRule, TInv, TypeOK, listVars, drvVars, ioVars
<1>2. CASE SleepEnds
  <2>1. ctl' \in Requests /\ ctl'.gen # 0
    BY <1>0, <1>2 DEF SleepEnds, Requests, TInv
  <2> QED
    BY <1>2, <2>1 DEF SleepEnds, TInv, TypeOK, flagVars, listVars, drvVars, ioVars
<1>3. CASE CleanList
  <2>1. ctl' \in Requests /\ ctl'.gen # 0
    BY <1>0, <1>3 DEF CleanList, Requests, TInv
  <2>2. list' \in [Lists -> Objects \cup {None}] /\ heap' \subseteq Objects
    BY <1>0, <1>3, CleanTyped DEF CleanList, Requests
  <2> QED
    BY <1>3, <2>1, <2>2 DEF CleanList, TInv, TypeOK, flagVars, drvVars, ioVars
<1>4. CASE AllocList
  <2> DEFINE o == [list |-> ctl.list, gen |-> ctl.gen, names |-> ctl.names]
  <2>1. o \in Objects /\ ctl.gen # 0
    BY <1>0, <1>4 DEF AllocList, Requests, Objects, TInv
  <2>2. ctl' \in Requests /\ (ctl'.pc \notin {"idle", "first"} => ctl'.gen # 0)
    <3>1. CASE ctl' = [ctl EXCEPT !.pc = "take", !.new = o]
      BY <1>0, <2>1, <3>1 DEF Requests
    <3>2. CASE ctl' = After(FALSE)
      BY <2>1, <3>2, AfterTyped
    <3> QED
      BY <1>4, <3>1, <3>2 DEF AllocList
  <2>3. heap' \subseteq Objects
    BY <1>4, <2>1 DEF AllocList, TInv, TypeOK
  <2> QED
    BY <1>4, <2>2, <2>3 DEF AllocList, TInv, TypeOK, flagVars, drvVars, ioVars
<1>5. CASE TakeOld
  <2>1. list[ctl.list] \in Objects \cup {None}
    BY <1>0 DEF Requests, TInv, TypeOK
  <2>2. ctl' \in Requests /\ ctl'.gen # 0
    BY <1>0, <1>5, <2>1 DEF TakeOld, Requests, TInv
  <2> QED
    BY <1>5, <2>2 DEF TakeOld, TInv, TypeOK, flagVars, listVars, drvVars, ioVars
<1>6. CASE Install
  <2>1. ctl' \in Requests /\ (ctl'.pc \notin {"idle", "first"} => ctl'.gen # 0)
    BY <1>6, AfterTyped DEF Install, TInv
  <2>2. list' \in [Lists -> Objects \cup {None}] /\ heap' \subseteq Objects
    BY <1>0, <1>6 DEF Install, Requests, TInv, TypeOK
  <2>3. UNCHANGED <<drv, loads, session, sets, flagVars, lock, note, drvVars, ioVars>>
    BY <1>6 DEF Install
  <2> QED
    BY <2>1, <2>2, <2>3 DEF TInv, TypeOK, flagVars, drvVars, ioVars
<1>7. ASSUME NEW m \in Modes, SetMode(m)
      PROVE  TInv'
  <2>1. mode' \in [value : Modes \cup {0}, gen : 0..MaxSets]
    BY <1>0, <1>7 DEF SetMode, Requests
  <2>2. ctl' \in Requests /\ ctl'.pc = "idle"
    BY <1>7, RestTyped DEF SetMode, NoRequest
  <2> QED
    BY <1>7, <2>1, <2>2 DEF SetMode, TInv, TypeOK, listVars, drvVars, ioVars
<1> QED
  BY <1>1, <1>2, <1>3, <1>4, <1>5, <1>6, <1>7 DEF RequestStep

\* The session, the driver and the I/O thread.
LEMMA SessionKeepsTypes ==
    ASSUME TInv, CloseStep \/ Open \/ Close \/ (\E on \in BOOLEAN : SetMonitor(on) \/ SetIpsMonitor(on))
    PROVE  TInv'
<1>1. CASE Open
  <2>1. ctl' \in Requests /\ ctl'.pc \in {"idle", "first"}
    BY <1>1, RestTyped DEF Open, Requests, NoRequest
  <2> QED
    BY <1>1, <2>1 DEF Open, TInv, TypeOK, flagVars, listVars, drvVars, ioVars
<1>2. CASE CloseLists
  <2>1. list' \in [Lists -> Objects \cup {None}] /\ heap' \subseteq Objects
    BY <1>2, CleanTyped DEF CloseLists, Lists
  <2> QED
    BY <1>2, <2>1 DEF CloseLists, TInv, TypeOK, flagVars, drvVars, ioVars
<1>3. CASE CloseIps \/ CloseSleeps \/ Close
  BY <1>3 DEF CloseIps, CloseSleeps, Close, TInv, TypeOK, flagVars, listVars, drvVars, ioVars
<1>4. CASE CloseRecords \/ CloseCodes
  BY <1>4 DEF CloseRecords, CloseCodes, DropRecords, TInv, TypeOK, flagVars, listVars, drvVars
<1>5. ASSUME NEW on \in BOOLEAN, SetMonitor(on) \/ SetIpsMonitor(on)
      PROVE  TInv'
  BY <1>5 DEF SetMonitor, SetIpsMonitor, TInv, TypeOK, svcVars, listVars, drvVars, ioVars, Kinds
<1> QED
  BY <1>1, <1>2, <1>3, <1>4, <1>5 DEF CloseStep

LEMMA DriverKeepsTypes ==
    ASSUME TInv, UnloadStep \/ Load \/ Unload \/ IoStep
    PROVE  TInv'
<1>1. CASE Load
  <2>1. loads' \in 0..MaxLoads /\ sets' \in 0..MaxSets
    BY <1>1, RulesAssumption DEF Load, TInv, TypeOK
  <2>2. /\ registered' \subseteq Kinds /\ io' \in {"none", "waiting", "holding", "ended"}
        /\ lookaside' \in [{"record", "code"} -> {"absent", "live", "deleted", "misused"}]
    BY <1>1 DEF Load, Kinds
  <2> QED
    BY <1>1, <2>1, <2>2, RestTyped DEF Load, TInv, TypeOK, listVars
<1>2. CASE Unload \/ FreeLists
  <2>1. list' \in [Lists -> Objects \cup {None}] /\ heap' \subseteq Objects
    BY <1>2, CleanTyped DEF Unload, FreeLists, Lists
  <2> QED
    BY <1>2, <2>1 DEF Unload, FreeLists, TInv, TypeOK, flagVars, drvVars, ioVars, Shutdown
<1>3. CASE UnregisterFilter \/ Unhook \/ Free \/ FreeSleeps
  <2>1. /\ drv' \in {"free", "codes", "pause", "clean"} /\ registered' \subseteq Kinds
        /\ monitor' = FALSE \/ monitor' = monitor
    BY <1>3 DEF UnregisterFilter, Unhook, Free, FreeSleeps, TInv, TypeOK, flagVars, drvVars
  <2>2. UNCHANGED <<loads, session, ctl, sets, ips, mode, listVars, note, lookaside, ioVars>>
    BY <1>3 DEF UnregisterFilter, Unhook, Free, FreeSleeps, flagVars, drvVars
  <2>3. monitor' \in BOOLEAN
    BY <2>1, Zenon DEF TInv, TypeOK
  <2> QED
    BY <2>1, <2>2, <2>3 DEF TInv, TypeOK, listVars, ioVars, Shutdown
<1>4. CASE FreeRecords \/ FreeCodes \/ SetEvent \/ Join
  <2>1. /\ drv' \in {"delete", "queue", "join", "absent"} /\ records' \in Nat /\ codes' \in Nat
        /\ io' \in {"none", "waiting", "holding", "ended"}
    BY <1>4 DEF FreeRecords, FreeCodes, SetEvent, Join, DropRecords, TInv, TypeOK
  <2>3. wake' \in BOOLEAN
    BY <1>4, Zenon DEF FreeRecords, FreeCodes, SetEvent, Join, TInv, TypeOK
  <2>2. UNCHANGED <<loads, session, ctl, sets, flagVars, listVars, note, drvVars>>
    BY <1>4 DEF FreeRecords, FreeCodes, SetEvent, Join
  <2> QED
    BY <2>1, <2>2, <2>3 DEF TInv, TypeOK, flagVars, listVars, drvVars, Shutdown
<1>5. CASE DeleteRecords \/ DeleteCodes
  <2>1. lookaside' \in [{"record", "code"} -> {"absent", "live", "deleted", "misused"}]
    BY <1>5 DEF DeleteRecords, DeleteCodes, Delete, TInv, TypeOK
  <2> QED
    BY <1>5, <2>1 DEF DeleteRecords, DeleteCodes, TInv, TypeOK, flagVars, listVars, ioVars, Shutdown
<1>6. CASE IoStep
  <2>1. records' \in Nat /\ codes' \in Nat
    BY <1>6 DEF IoStep, IoPop, IoFree, IoEnd, TInv, TypeOK
  <2> QED
    BY <1>6, <2>1 DEF IoStep, IoPop, IoFree, IoEnd, TInv, TypeOK, svcVars, flagVars, listVars, drvVars
<1> QED
  BY <1>1, <1>2, <1>3, <1>4, <1>5, <1>6 DEF UnloadStep

LEMMA StutterKeepsTypes == TInv /\ UNCHANGED vars => TInv'
BY DEF TInv, TypeOK, vars, svcVars, flagVars, listVars, drvVars, ioVars

\* Every step keeps the types.
LEMMA StepTyped == TInv /\ [Next]_vars => TInv'
BY NoteKeepsTypes, RequestKeepsTypes, SessionKeepsTypes, DriverKeepsTypes, StutterKeepsTypes
   DEF Next

\* The types of IpsRules, whatever fails and whichever sleep is too short.
THEOREM RulesTypeCorrect == Spec => []TypeOK
<1>1. TInv => TypeOK
  BY DEF TInv
<1> QED
  BY <1>1, InitTyped, StepTyped, PTL DEF Spec

(***************************************************************************)
(* The readers and the lists.                                              *)
(***************************************************************************)

\* A routine that reads a list holds its lock, and the list is the one in use; a
\* routine that found none may see one come.
ReadersLock ==
    \A n \in Notifiers :
        IF note[n].pc = "read"
        THEN lock[KindOf(note[n].list)] = n /\ note[n].obj \in {None, list[note[n].list]}
        ELSE note[n].obj = None

\* A list in use is of its own kind: the three never share memory.
Tagged == \A l \in Lists : list[l] # None => list[l].list = l

\* From the clean to the exchange no list of the request's kind is in use, so the
\* exchange, which takes no lock, frees none.
Exchange ==
    /\ ctl.pc \in {"idle", "first", "sleep", "clean", "alloc"} => ctl.new = None
    /\ ctl.pc \in {"take", "install"} => ctl.new # None /\ ctl.new.list = ctl.list
    /\ ctl.pc \in {"alloc", "take", "install"} => list[ctl.list] = None
    /\ ctl.pc = "install" => ctl.old = None
    /\ ctl.pc = "mode" => ctl.new = list["process"]

\* A request is under way only while the device is open, which is only while the
\* driver is loaded.
Serial ==
    /\ session # "open" => ctl.pc = "idle"
    /\ drv # "loaded" => session = "closed"

RulesInv == TInv /\ ReadersLock /\ Tagged /\ ListsAccounted /\ Exchange /\ Serial

LEMMA InitRules == Init => RulesInv
<1> SUFFICES ASSUME Init PROVE RulesInv
  OBVIOUS
<1>1. ReadersLock /\ Exchange /\ Serial
  BY DEF Init, ReadersLock, Exchange, Serial, NoNote, NoRequest
<1>2. Tagged /\ ListsAccounted
  BY DEF Init, Tagged, ListsAccounted, NoRequest
<1> QED
  BY <1>1, <1>2, InitTyped DEF RulesInv

\* A routine takes and releases a lock of its own.
LEMMA NoteKeepsRules ==
    ASSUME RulesInv, NEW n \in Notifiers,
           NoteStep(n) \/ \E p \in Procs : NotifyProcess(n, p) \/ PreOperation(n, p)
    PROVE  RulesInv'
<1>0. /\ note \in [Notifiers -> Notes] /\ lock \in [Kinds -> Notifiers \cup {None}]
      /\ \A l \in Lists : KindOf(l) \in Kinds
  BY DEF RulesInv, TInv, TypeOK, KindOf, Kinds
<1>1. UNCHANGED <<svcVars, flagVars, list, heap, drvVars, io>>
  BY NoteFrame
<1>2. Tagged' /\ ListsAccounted' /\ Exchange' /\ Serial'
  BY <1>1 DEF RulesInv, Tagged, ListsAccounted, Exchange, Serial, svcVars
<1>3. ReadersLock'
  <2>1. CASE Lookup(n)
    <3>1. /\ \A k \in Notifiers : k # n => note'[k] = note[k]
          /\ note'[n].pc = "read" /\ note'[n].list = note[n].list
          /\ note'[n].obj = list[note[n].list]
      BY <1>0, <2>1 DEF Lookup, Notes
    <3>2. /\ lock[KindOf(note[n].list)] = None /\ lock'[KindOf(note[n].list)] = n
          /\ \A k \in Kinds : k # KindOf(note[n].list) => lock'[k] = lock[k]
      BY <1>0, <2>1 DEF Lookup, Notes
    <3>3. \A k \in Notifiers : k # None /\ note[k].list \in Lists
      BY <1>0, RulesAssumption DEF Notes
    <3> QED
      BY <1>0, <1>1, <3>1, <3>2, <3>3 DEF RulesInv, ReadersLock
  <2>2. CASE ReadList(n)
    <3>1. /\ note'[n].obj = None /\ note'[n].pc # "read"
          /\ \A k \in Notifiers : k # n => note'[k] = note[k]
      BY <1>0, <2>2 DEF ReadList, Notes, NoNote
    <3>2. \A k \in Kinds : lock[k] # n => lock'[k] = lock[k]
      <4>1. lock[KindOf(note[n].list)] = n
        BY <2>2 DEF ReadList, RulesInv, ReadersLock
      <4> QED
        BY <1>0, <2>2, <4>1 DEF ReadList
    <3> QED
      BY <1>0, <1>1, <3>1, <3>2 DEF RulesInv, ReadersLock, Notes
  <2>3. CASE ~Lookup(n) /\ ~ReadList(n)
    <3>1. lock' = lock
      BY <2>3 DEF NoteStep, NotifyProcess, PreOperation, TestMode, DecideProcess, listVars,
                  DecideDirectory, Denied, TakeRecord, InsertRecord, PushInfo
    <3>2. note[n].pc # "read" /\ \A k \in Notifiers : k # n => note'[k] = note[k]
      BY <1>0, <2>3 DEF NoteStep, NotifyProcess, PreOperation, TestMode, DecideProcess,
                  DecideDirectory, Denied, TakeRecord, InsertRecord, PushInfo
    <3>3. note[n].obj = None
      BY <3>2 DEF RulesInv, ReadersLock
    <3>4. note'[n].obj = None /\ note'[n].pc # "read"
      <4> DEFINE m == note[n]
      <4>1. m \in Notes /\ m.obj = None
        BY <1>0, <3>3
      <4>2. /\ NoNote.obj = None /\ NoNote.pc = "idle" /\ NoNote \in Notes
        BY RestTyped DEF NoNote
      <4>3. CASE \E p \in Procs : NotifyProcess(n, p) \/ PreOperation(n, p)
        <5> PICK p \in Procs : NotifyProcess(n, p) \/ PreOperation(n, p)
          BY <4>3
        <5>1. CASE NotifyProcess(n, p)
          BY <1>0, <5>1 DEF NotifyProcess, NoNote
        <5>2. CASE PreOperation(n, p)
          BY <1>0, <5>2 DEF PreOperation, NoNote
        <5> QED BY <5>1, <5>2
      <4>4. CASE TestMode(n) \/ InsertRecord(n) \/ Denied(n)
        BY <1>0, <4>1, <4>2, <4>4 DEF TestMode, InsertRecord, Denied, Notes
      <4>5. CASE DecideProcess(n)
        BY <1>0, <4>1, <4>5 DEF DecideProcess, Notes
      <4>6. CASE DecideDirectory(n)
        BY <1>0, <4>1, <4>2, <4>6 DEF DecideDirectory, Notes
      <4>7. CASE TakeRecord(n) \/ PushInfo(n)
        BY <1>0, <4>7 DEF TakeRecord, PushInfo, NoNote
      <4> QED
        BY <2>3, <4>3, <4>4, <4>5, <4>6, <4>7 DEF NoteStep
    <3> QED
      BY <1>1, <3>1, <3>2, <3>4 DEF RulesInv, ReadersLock
  <2> QED
    BY <2>1, <2>2, <2>3
<1> QED
  BY <1>2, <1>3, NoteKeepsTypes DEF RulesInv

\* Freeing lists under their lock leaves the readers the lists they read.
LEMMA CleanKeeps ==
    ASSUME RulesInv, NEW L \in SUBSET Lists, Clean(L), ctl.new = None, ctl'.new = None,
           UNCHANGED <<lock, note>>
    PROVE  ReadersLock' /\ Tagged' /\ ListsAccounted'
<1>0. note \in [Notifiers -> Notes] /\ list \in [Lists -> Objects \cup {None}] /\ None \notin Notifiers
  BY RulesAssumption DEF RulesInv, TInv, TypeOK
<1>1. /\ \A l \in Lists : list'[l] = IF l \in L THEN None ELSE list[l]
      /\ heap' = heap \ {list[l] : l \in L} /\ \A l \in L : lock[KindOf(l)] = None
  BY DEF Clean
<1>2. ReadersLock'
  BY <1>0, <1>1 DEF RulesInv, ReadersLock, Notes
<1>3. Tagged'
  BY <1>1 DEF RulesInv, Tagged
<1>4. ListsAccounted'
  <2>1. heap = {list[l] : l \in Lists} \ {None}
    BY DEF RulesInv, ListsAccounted
  <2>2. \A l, m \in Lists : list[l] # None /\ list[l] = list[m] => l = m
    BY DEF RulesInv, Tagged
  <2>3. heap' = {list'[l] : l \in Lists} \ {None}
    BY <1>1, <2>1, <2>2
  <2> QED
    BY <2>3 DEF ListsAccounted
<1> QED
  BY <1>2, <1>3, <1>4

LEMMA RequestKeepsRules ==
    ASSUME RulesInv,
           RequestStep \/ (\E l \in Lists, S \in SUBSET Procs : SetRule(l, S))
    PROVE  RulesInv'
<1>0. /\ ctl \in Requests /\ list \in [Lists -> Objects \cup {None}] /\ heap \subseteq Objects
      /\ None \notin Objects /\ note \in [Notifiers -> Notes]
  BY RulesAssumption DEF RulesInv, TInv, TypeOK
<1>1. TInv'
  BY RequestKeepsTypes DEF RulesInv
<1>2. UNCHANGED <<drv, session, lock, note>>
  BY DEF RequestStep, SetRule, SleepEnds, CleanList, AllocList, TakeOld, Install, SetMode, listVars
<1>3. ctl.pc # "idle" => session = "open"
  BY DEF RulesInv, Serial
<1>4. Serial'
  <2>1. session = "open"
    BY <1>3 DEF RequestStep, SetRule, SleepEnds, CleanList, AllocList, TakeOld, Install, SetMode
  <2> QED
    BY <1>2, <2>1 DEF RulesInv, Serial
<1>5. CASE (\E l \in Lists, S \in SUBSET Procs : SetRule(l, S)) \/ SleepEnds
  <2>1. UNCHANGED <<list, heap>> /\ ctl.new = None /\ ctl'.new = None /\ ctl'.pc \in {"sleep", "clean"}
    BY <1>0, <1>5 DEF SetRule, SleepEnds, listVars, NoRequest, RulesInv, Exchange, Requests
  <2> QED
    BY <1>1, <1>2, <1>4, <2>1 DEF RulesInv, ReadersLock, Tagged, ListsAccounted, Exchange
<1>6. CASE CleanList
  <2>1. ctl.new = None /\ ctl' = [ctl EXCEPT !.pc = "alloc"] /\ {ctl.list} \in SUBSET Lists /\ Clean({ctl.list})
    BY <1>0, <1>6 DEF CleanList, RulesInv, Exchange, Requests
  <2>2. ctl'.new = None /\ ctl'.list = ctl.list /\ ctl'.pc = "alloc"
    BY <1>0, <2>1 DEF Requests
  <2>3. list'[ctl.list] = None
    BY <2>1 DEF Clean
  <2>4. ReadersLock' /\ Tagged' /\ ListsAccounted'
    BY <1>2, <2>1, <2>2, CleanKeeps
  <2> QED
    BY <1>1, <1>4, <2>2, <2>3, <2>4 DEF RulesInv, Exchange
<1>7. CASE AllocList
  <2> DEFINE o == [list |-> ctl.list, gen |-> ctl.gen, names |-> ctl.names]
  <2>0. ctl.new = None /\ list' = list /\ list[ctl.list] = None
    BY <1>7 DEF AllocList, RulesInv, Exchange
  <2>1. CASE heap' = heap \cup {o} /\ ctl' = [ctl EXCEPT !.pc = "take", !.new = o]
    <3>1. o \in Objects /\ ctl'.new = o /\ ctl'.pc = "take" /\ ctl'.list = ctl.list /\ o.list = ctl.list
      <4>1. ctl.gen \in 1..MaxSets
        BY <1>0, <1>7, RulesAssumption DEF AllocList, RulesInv, TInv, Requests
      <4> QED
        BY <1>0, <2>1, <4>1 DEF Requests, Objects
    <3>2. Exchange'
      BY <1>0, <2>0, <3>1 DEF Exchange
    <3>3. ListsAccounted'
      BY <1>0, <2>0, <2>1, <3>1 DEF RulesInv, ListsAccounted
    <3> QED
      BY <1>1, <1>2, <1>4, <2>0, <3>2, <3>3 DEF RulesInv, ReadersLock, Tagged
  <2>2. CASE ctl' = After(FALSE) /\ UNCHANGED heap
    <3>1. ctl'.new = None /\ ctl'.pc \in {"idle", "sleep"}
      BY <2>2 DEF After, NoRequest
    <3> QED
      BY <1>1, <1>2, <1>4, <2>0, <2>2, <3>1, Zenon DEF RulesInv, ReadersLock, Tagged, ListsAccounted, Exchange
  <2> QED
    BY <1>7, <2>1, <2>2 DEF AllocList
<1>8. CASE TakeOld
  <2>1. /\ ctl'.pc = "install" /\ ctl'.old = list[ctl.list] /\ ctl'.new = ctl.new /\ ctl'.list = ctl.list
        /\ UNCHANGED <<list, heap>> /\ list[ctl.list] = None
    BY <1>0, <1>8 DEF TakeOld, Requests, listVars, RulesInv, Exchange
  <2>2. Exchange'
    BY <1>8, <2>1 DEF TakeOld, RulesInv, Exchange
  <2> QED
    BY <1>1, <1>2, <1>4, <2>1, <2>2 DEF RulesInv, ReadersLock, Tagged, ListsAccounted
<1>9. CASE Install
  <2>1. /\ list[ctl.list] = None /\ ctl.old = None /\ ctl.new # None /\ ctl.new.list = ctl.list
        /\ ctl.list \in Lists /\ ctl.new \in Objects
    BY <1>0, <1>9 DEF Install, RulesInv, Exchange, Requests
  <2>2. /\ heap' = heap /\ list'[ctl.list] = ctl.new
        /\ \A l \in Lists : l # ctl.list => list'[l] = list[l]
    BY <1>0, <1>9, <2>1 DEF Install
  <2>3. \/ ctl'.pc \in {"idle", "sleep"} /\ ctl'.new = None
        \/ ctl'.pc = "mode" /\ ctl'.new = ctl.new /\ ctl.list = "process"
    BY <1>0, <1>9 DEF Install, After, NoRequest, Requests
  <2>4. heap = ({list[l] : l \in Lists} \cup {ctl.new}) \ {None}
    BY DEF RulesInv, ListsAccounted
  <2>5. heap' = {list'[l] : l \in Lists} \ {None}
    BY <2>1, <2>2, <2>4
  <2>6. ListsAccounted'
    BY <2>1, <2>2, <2>3, <2>5 DEF ListsAccounted
  <2>7. ReadersLock'
    BY <1>0, <1>2, <2>1, <2>2 DEF RulesInv, ReadersLock, Notes
  <2>8. Tagged' /\ Exchange'
    BY <2>1, <2>2, <2>3 DEF RulesInv, Tagged, Exchange
  <2> QED
    BY <1>1, <1>4, <2>6, <2>7, <2>8 DEF RulesInv
<1>10. ASSUME NEW m \in Modes, SetMode(m)
       PROVE  RulesInv'
  <2>1. /\ ctl.new = list["process"] /\ ctl'.new = None /\ ctl'.pc = "idle" /\ UNCHANGED <<list, heap>>
        /\ "process" \in Lists
    BY <1>10 DEF SetMode, NoRequest, RulesInv, Exchange, listVars, Lists
  <2>2. ListsAccounted'
    BY <2>1 DEF RulesInv, ListsAccounted
  <2> QED
    BY <1>1, <1>2, <1>4, <2>1, <2>2 DEF RulesInv, ReadersLock, Tagged, Exchange
<1> QED
  BY <1>5, <1>6, <1>7, <1>8, <1>9, <1>10 DEF RequestStep

\* A close and an unload clean while no request is under way.
LEMMA OthersKeepRules ==
    ASSUME RulesInv,
           \/ CloseStep \/ Open \/ Close \/ (\E on \in BOOLEAN : SetMonitor(on) \/ SetIpsMonitor(on))
           \/ UnloadStep \/ Load \/ Unload \/ IoStep
    PROVE  RulesInv'
<1>1. TInv'
  BY SessionKeepsTypes, DriverKeepsTypes DEF RulesInv
<1>2. CASE CloseLists \/ Unload \/ FreeLists
  <2>1. /\ ctl.new = None /\ UNCHANGED <<ctl, lock, note>> /\ ctl.pc = "idle"
        /\ Clean({"process"}) \/ Clean({"names", "dirs"})
    BY <1>2 DEF CloseLists, Unload, FreeLists, RulesInv, Exchange, Serial
  <2>2. {"process"} \in SUBSET Lists /\ {"names", "dirs"} \in SUBSET Lists
    BY DEF Lists
  <2>3. ReadersLock' /\ Tagged' /\ ListsAccounted'
    BY <2>1, <2>2, CleanKeeps
  <2>4. Serial' /\ Exchange'
    BY <1>2, <2>1 DEF CloseLists, Unload, FreeLists, RulesInv, Exchange, Serial
  <2> QED
    BY <1>1, <2>3, <2>4 DEF RulesInv
<1>3. CASE Open
  BY <1>1, <1>3 DEF Open, RulesInv, ReadersLock, Tagged, ListsAccounted, Exchange, Serial, NoRequest,
                    listVars
<1>4. CASE ~CloseLists /\ ~Unload /\ ~FreeLists /\ ~Open
  <2>1. UNCHANGED <<ctl, listVars, note>>
    BY <1>4 DEF CloseStep, Close, SetMonitor, SetIpsMonitor, UnloadStep, Load, IoStep, CloseIps,
           CloseSleeps, CloseRecords, CloseCodes, UnregisterFilter, Free, FreeSleeps,
           FreeRecords, DeleteRecords, Unhook, FreeCodes, DeleteCodes, SetEvent, Join, IoPop,
           IoFree, IoEnd, svcVars
  <2>2. Serial'
    BY <1>4, <2>1 DEF CloseStep, Close, SetMonitor, SetIpsMonitor, UnloadStep, Load, IoStep, CloseIps,
           CloseSleeps, CloseRecords, CloseCodes, UnregisterFilter, Free, FreeSleeps,
           FreeRecords, DeleteRecords, Unhook, FreeCodes, DeleteCodes, SetEvent, Join, IoPop,
           IoFree, IoEnd, svcVars, RulesInv, Serial, Shutdown
  <2> QED
    BY <1>1, <2>1, <2>2 DEF RulesInv, ReadersLock, Tagged, ListsAccounted, Exchange, listVars
<1> QED
  BY <1>2, <1>3, <1>4

LEMMA StepRules == RulesInv /\ [Next]_vars => RulesInv'
<1> SUFFICES ASSUME RulesInv, [Next]_vars PROVE RulesInv'
  OBVIOUS
<1>1. CASE UNCHANGED vars
  BY <1>1, StutterKeepsTypes DEF RulesInv, ReadersLock, Tagged, ListsAccounted, Exchange, Serial,
                                 vars, svcVars, listVars
<1>2. CASE Next
  BY <1>2, NoteKeepsRules, RequestKeepsRules, OthersKeepRules DEF Next
<1> QED
  BY <1>1, <1>2

\* A routine never compares names in a list that was freed: the lock it holds keeps
\* a clean out, and the exchange of the pointers finds no list to free.
THEOREM NeverReadsFreed == Spec => []ReadersSafe
<1>1. RulesInv => ReadersSafe
  <2> SUFFICES ASSUME RulesInv, NEW n \in Notifiers, note[n].obj # None
               PROVE  note[n].obj \in heap
    BY DEF ReadersSafe
  <2>1. note[n].obj = list[note[n].list] /\ note[n].list \in Lists
    BY DEF RulesInv, ReadersLock, TInv, TypeOK, Notes
  <2> QED
    BY <2>1 DEF RulesInv, ListsAccounted
<1> QED
  BY <1>1, InitRules, StepRules, PTL DEF Spec

\* Every allocated list is in use or in the hand of the request: none is lost, and
\* none is used after its end, also when a request fails half way.
THEOREM NoListLost == Spec => []ListsAccounted
<1>1. RulesInv => ListsAccounted
  BY DEF RulesInv
<1> QED
  BY <1>1, InitRules, StepRules, PTL DEF Spec

-----------------------------------------------------------------------------
(***************************************************************************)
(* The lookaside lists.                                                    *)
(***************************************************************************)

\* What the sleeps of the close leave behind, when they are long enough: no routine
\* is under way and none begins, and what was queued is dropped.
Quieted ==
    /\ session # "open" => ~monitor
    /\ session \notin {"open", "ips"} => ips = {}
    /\ session \notin {"open", "ips", "pause"} =>
         io # "holding" /\ \A n \in Notifiers : note[n].pc = "idle"
    /\ ctl.pc = "first" => ~monitor /\ ips = {} /\ \A n \in Notifiers : note[n].pc = "idle"
    /\ session \in {"codes", "closed"} => records = 0
    /\ session = "closed" => codes = 0

\* A lookaside list is live from DriverEntry to the step of the unload that deletes it.
Allocated ==
    /\ \A x \in {"record", "code"} : lookaside[x] # "misused"
    /\ drv \in {"loaded", "filter", "free", "pause", "clean", "records", "delete"} =>
         lookaside["record"] = "live"
    /\ drv \in {"loaded"} \cup {"filter", "free", "pause", "clean", "records", "delete",
                                "unhook", "codes", "queue"} => lookaside["code"] = "live"

LookInv == RulesInv /\ Quieted /\ Allocated

\* What follows the exchange of a list.
LEMMA InstallGoesOn ==
    ASSUME ctl \in Requests, Install
    PROVE  /\ ctl'.pc \in {"mode", "idle", "sleep"}
           /\ ctl.list = "process" =>
                ctl'.pc = "mode" /\ ctl'.list = "process" /\ ctl'.gen = ctl.gen /\ ctl'.new = ctl.new
           /\ ctl.list = "names" => ctl'.pc = "sleep" /\ ctl'.list = "dirs" /\ ctl'.gen = ctl.gen
           /\ ctl.list = "dirs" => ctl'.pc = "idle"
<1>1. CASE ctl.list = "process"
  <2>1. ctl' = [ctl EXCEPT !.pc = "mode", !.old = None]
    BY <1>1 DEF Install, After
  <2> QED BY <1>1, <2>1 DEF Requests
<1>2. CASE ctl.list = "names"
  <2>1. ctl' = [NoRequest EXCEPT !.pc = "sleep", !.list = "dirs", !.gen = ctl.gen]
    BY <1>2 DEF Install, After
  <2> QED BY <1>2, <2>1 DEF NoRequest
<1>3. CASE ctl.list = "dirs"
  <2>1. ctl' = NoRequest
    BY <1>3 DEF Install, After
  <2> QED BY <1>3, <2>1 DEF NoRequest
<1> QED BY <1>1, <1>2, <1>3 DEF Requests, Lists

\* The memory of a list is there, or the request ends without it.
LEMMA AllocGoesOn ==
    ASSUME ctl \in Requests, AllocList
    PROVE  \/ /\ ctl'.pc = "take" /\ ctl'.list = ctl.list /\ ctl'.gen = ctl.gen
              /\ ctl'.new.gen = ctl.gen
           \/ /\ KindOf(ctl.list) \in Failing /\ ctl'.pc \in {"idle", "sleep"}
              /\ ctl.list \in {"process", "dirs"} => ctl'.pc = "idle"
              /\ ctl.list = "names" =>
                   ctl'.pc = "sleep" /\ ctl'.list = "dirs" /\ ctl'.gen = ctl.gen
<1>1. CASE ctl' = [ctl EXCEPT !.pc = "take",
                             !.new = [list |-> ctl.list, gen |-> ctl.gen, names |-> ctl.names]]
  BY <1>1 DEF Requests
<1>2. CASE KindOf(ctl.list) \in Failing /\ ctl' = After(FALSE)
  <2>0. KindOf(ctl.list) \in Failing
    BY <1>2
  <2>1. CASE ctl.list = "names"
    <3>1. ctl' = [NoRequest EXCEPT !.pc = "sleep", !.list = "dirs", !.gen = ctl.gen]
      BY <1>2, <2>1 DEF After
    <3> QED BY <2>0, <2>1, <3>1 DEF NoRequest
  <2>2. CASE ctl.list = "process"
    <3>1. ctl'.pc = "idle"
      BY <1>2, <2>2 DEF After, NoRequest
    <3> QED BY <2>0, <2>2, <3>1
  <2>3. CASE ctl.list = "dirs"
    <3>1. ctl'.pc = "idle"
      BY <1>2, <2>3 DEF After, NoRequest
    <3> QED BY <2>0, <2>3, <3>1
  <2> QED BY <2>1, <2>2, <2>3 DEF Requests, Lists
<1> QED BY <1>1, <1>2 DEF AllocList

LEMMA QuietedNext ==
    ASSUME RulesInv, Quieted, "close" \notin Overlap, [Next]_vars
    PROVE  Quieted'
<1>0. /\ session \in {"closed", "open", "ips", "pause", "clean", "records", "codes"}
      /\ session # "open" => ctl.pc = "idle"
      /\ drv # "loaded" => session = "closed"
      /\ note \in [Notifiers -> Notes]
  BY DEF RulesInv, TInv, TypeOK, Serial
<1>1. ASSUME NEW n \in Notifiers, NoteStep(n) PROVE Quieted'
  <2>1. note[n].pc # "idle"
    BY <1>1 DEF NoteStep, TestMode, Lookup, ReadList, DecideProcess, DecideDirectory, Denied, TakeRecord,
                InsertRecord, PushInfo
  <2>2. session \in {"open", "ips", "pause"} /\ ctl.pc # "first"
    BY <1>0, <2>1 DEF Quieted
  <2>3. UNCHANGED <<session, ctl, monitor, ips>>
    BY <1>1, NoteFrame DEF svcVars, flagVars
  <2> QED BY <2>2, <2>3 DEF Quieted
<1>2. ASSUME NEW n \in Notifiers, NEW p \in Procs, NotifyProcess(n, p) \/ PreOperation(n, p)
      PROVE  Quieted'
  <2>1. monitor \/ ips # {}
    BY <1>2 DEF NotifyProcess, PreOperation
  <2>2. session \in {"open", "ips"} /\ ctl.pc # "first"
    BY <1>0, <2>1 DEF Quieted
  <2>3. UNCHANGED <<session, ctl, monitor, ips>>
    BY <1>2, NoteFrame DEF svcVars, flagVars
  <2> QED BY <2>2, <2>3 DEF Quieted
<1>3. CASE IoStep
  <2>1. UNCHANGED <<session, ctl, monitor, ips, note>>
    BY <1>3 DEF IoStep, IoPop, IoFree, IoEnd, svcVars, flagVars
  <2>2. CASE IoPop
    BY <2>1, <2>2 DEF IoPop, Quieted
  <2>3. CASE IoFree
    BY <1>0, <2>1, <2>3 DEF IoFree, Quieted
  <2>4. CASE IoEnd
    BY <2>1, <2>4 DEF IoEnd, Quieted
  <2> QED BY <1>3, <2>2, <2>3, <2>4 DEF IoStep
<1>4. CASE RequestStep
  <2>1. ctl.pc \in {"sleep", "clean", "alloc", "take", "install", "mode"}
        /\ UNCHANGED <<session, monitor, ips, note, records, codes, io>>
    BY <1>4 DEF RequestStep, SleepEnds, CleanList, AllocList, TakeOld, Install, SetMode, flagVars, ioVars
  <2>2. ctl'.pc # "first"
    <3>1. ctl \in Requests
      BY DEF RulesInv, TInv, TypeOK
    <3>2. CASE \E m \in Modes : SetMode(m)
      BY <3>2 DEF SetMode, NoRequest
    <3>3. CASE SleepEnds \/ CleanList \/ TakeOld
      BY <3>1, <3>3 DEF SleepEnds, CleanList, TakeOld, Requests
    <3>4. CASE AllocList
      BY <3>1, <3>4, AllocGoesOn
    <3>5. CASE Install
      BY <3>1, <3>5, InstallGoesOn
    <3> QED BY <1>4, <3>2, <3>3, <3>4, <3>5 DEF RequestStep
  <2> QED BY <1>0, <2>1, <2>2 DEF Quieted
<1>5. ASSUME NEW l \in Lists, NEW S \in SUBSET Procs, SetRule(l, S) PROVE Quieted'
  <2>1. session = "open" /\ UNCHANGED <<session, monitor>> /\ ctl'.pc = "sleep"
    BY <1>5 DEF SetRule, NoRequest
  <2> QED BY <2>1 DEF Quieted
<1>6. CASE CloseStep
  <2>1. session \in {"ips", "pause", "clean", "records", "codes"} /\ UNCHANGED <<ctl, monitor, note, io>>
    BY <1>6 DEF CloseStep, CloseIps, CloseSleeps, CloseLists, CloseRecords, CloseCodes, flagVars, ioVars
  <2>2. ctl'.pc = "idle" /\ ~monitor'
    BY <1>0, <2>1 DEF Quieted
  <2>3. CASE CloseIps
    BY <2>1, <2>2, <2>3 DEF CloseIps, Quieted
  <2>4. CASE CloseSleeps
    BY <2>1, <2>2, <2>4 DEF CloseSleeps, Quiet, Quieted, flagVars
  <2>5. CASE CloseLists
    BY <2>1, <2>2, <2>5 DEF CloseLists, Quieted, flagVars
  <2>6. CASE CloseRecords
    BY <2>1, <2>2, <2>6 DEF CloseRecords, DropRecords, Quieted, flagVars
  <2>7. CASE CloseCodes
    BY <2>1, <2>2, <2>7 DEF CloseCodes, Quieted, flagVars
  <2> QED BY <1>6, <2>3, <2>4, <2>5, <2>6, <2>7 DEF CloseStep
<1>7. CASE UnloadStep \/ Unload \/ Load
  <2>1. session = "closed" /\ UNCHANGED <<session, ctl, ips, note>>
    BY <1>0, <1>7 DEF UnloadStep, UnregisterFilter, Free, FreeSleeps, FreeLists, FreeRecords, DeleteRecords,
       Unhook, FreeCodes, DeleteCodes, SetEvent, Join, Unload, Load, Shutdown, flagVars
  <2>2. (~monitor' \/ monitor' = monitor) /\ records' \in {0, records}
    BY <1>7 DEF UnloadStep, UnregisterFilter, Free, FreeSleeps, FreeLists, FreeRecords, DeleteRecords,
       Unhook, FreeCodes, DeleteCodes, SetEvent, Join, Unload, Load, DropRecords, flagVars, ioVars
  <2>3. codes' \in {0, codes}
    BY <1>7 DEF UnloadStep, UnregisterFilter, Free, FreeSleeps, FreeLists, FreeRecords, DeleteRecords,
       Unhook, FreeCodes, DeleteCodes, SetEvent, Join, Unload, Load, ioVars
  <2>4. io' # "holding" \/ io' = io
    BY <1>7 DEF UnloadStep, UnregisterFilter, Free, FreeSleeps, FreeLists, FreeRecords, DeleteRecords,
       Unhook, FreeCodes, DeleteCodes, SetEvent, Join, Unload, Load, ioVars
  <2> QED BY <1>0, <2>1, <2>2, <2>3, <2>4 DEF Quieted
<1>8. CASE Open
  BY <1>8 DEF Open, Quieted, flagVars, ioVars, drvVars
<1>9. CASE Close \/ \E on \in BOOLEAN : SetMonitor(on) \/ SetIpsMonitor(on)
  <2>1. session = "open" /\ ctl.pc = "idle" /\ ctl' = ctl
    BY <1>9 DEF Close, SetMonitor, SetIpsMonitor, svcVars
  <2>2. session' = "open" \/ (session' = "ips" /\ monitor' = FALSE)
    BY <1>9, <2>1 DEF Close, SetMonitor, SetIpsMonitor, svcVars
  <2> QED BY <2>1, <2>2 DEF Quieted
<1>10. CASE UNCHANGED vars
  BY <1>10 DEF vars, svcVars, flagVars, ioVars, Quieted
<1> QED
  BY <1>1, <1>2, <1>3, <1>4, <1>5, <1>6, <1>7, <1>8, <1>9, <1>10 DEF Next

LEMMA AllocatedNext ==
    ASSUME RulesInv, Allocated, "device" \notin Failing, [Next]_vars
    PROVE  Allocated'
<1>0. lookaside \in [{"record", "code"} -> {"absent", "live", "deleted", "misused"}]
  BY DEF RulesInv, TInv, TypeOK
<1>1. CASE Load
  BY <1>1 DEF Load, Allocated
<1>2. CASE DeleteRecords
  BY <1>0, <1>2 DEF DeleteRecords, Delete, Allocated
<1>3. CASE DeleteCodes
  BY <1>0, <1>3 DEF DeleteCodes, Delete, Allocated
<1>4. CASE Unload \/ (UnloadStep /\ ~DeleteRecords /\ ~DeleteCodes)
  BY <1>4 DEF UnloadStep, UnregisterFilter, Free, FreeSleeps, FreeLists, FreeRecords, Unhook, FreeCodes,
     SetEvent, Join, Unload, Allocated, drvVars
<1>5. CASE UNCHANGED <<drv, drvVars>>
  BY <1>5 DEF Allocated, drvVars
<1>6. ASSUME NEW n \in Notifiers, NoteStep(n) \/ \E p \in Procs : NotifyProcess(n, p) \/ PreOperation(n, p)
      PROVE  UNCHANGED <<drv, drvVars>>
  BY <1>6, NoteFrame DEF svcVars
<1>7. ASSUME IoStep \/ RequestStep \/ CloseStep \/ Open \/ Close
             \/ (\E l \in Lists, S \in SUBSET Procs : SetRule(l, S))
             \/ (\E on \in BOOLEAN : SetMonitor(on) \/ SetIpsMonitor(on)) \/ UNCHANGED vars
      PROVE  UNCHANGED <<drv, drvVars>>
  BY <1>7 DEF IoStep, IoPop, IoFree, IoEnd, RequestStep, SleepEnds, CleanList, AllocList, TakeOld, Install,
     SetMode, CloseStep, CloseIps, CloseSleeps, CloseLists, CloseRecords, CloseCodes, Open, Close, SetRule,
     SetMonitor, SetIpsMonitor, vars, svcVars
<1> QED BY <1>1, <1>2, <1>3, <1>4, <1>5, <1>6, <1>7 DEF Next

LEMMA InitLook == Init => Quieted /\ Allocated
BY DEF Init, Quieted, Allocated, NoRequest, NoNote

\* No routine and no thread uses a lookaside list after it was deleted: the sleeps of
\* the close leave nobody with an entry in hand, and the unload begins only then.
\* Both hypotheses are needed: the sleep of the close is a fixed time, and a driver
\* whose device could not be made deletes lists that it never initialised.
THEOREM LookasidesLive ==
    ASSUME "close" \notin Overlap, "device" \notin Failing
    PROVE  Spec => []LookasidesSafe
<1>1. Init => LookInv
  BY InitRules, InitLook DEF LookInv
<1>2. LookInv /\ [Next]_vars => LookInv'
  BY StepRules, QuietedNext, AllocatedNext DEF LookInv
<1>3. LookInv => LookasidesSafe
  <2> SUFFICES ASSUME LookInv PROVE LookasidesSafe
    OBVIOUS
  <2>1. session \in {"closed", "open", "ips", "pause", "clean", "records", "codes"}
        /\ (drv # "loaded" => session = "closed") /\ records \in Nat /\ codes \in Nat
    BY DEF LookInv, RulesInv, TInv, TypeOK, Serial
  <2>2. CASE drv = "loaded"
    BY <2>2 DEF LookInv, Allocated, LookasidesSafe
  <2>3. CASE session = "closed"
    BY <2>1, <2>3 DEF LookInv, Quieted, Allocated, LookasidesSafe
  <2> QED BY <2>1, <2>2, <2>3
<1> QED
  BY <1>1, <1>2, <1>3, PTL DEF Spec

-----------------------------------------------------------------------------
(***************************************************************************)
(* One rule set decides.                                                   *)
(***************************************************************************)

\* A request of kind k is under way.
Busy(k) == ctl.pc \notin {"idle", "first"} /\ KindOf(ctl.list) = k

\* While the driver is absent, and already when its routines are unregistered, no
\* routine is under way.
Unhooked ==
    drv \in {"codes", "queue", "event", "join", "absent"} =>
        registered = {} /\ \A n \in Notifiers : note[n].pc = "idle"

Requested ==
    /\ ctl.pc \in {"take", "install"} => ctl.new.gen = ctl.gen
    /\ ctl.pc = "mode" => ctl.list = "process" /\ list["process"] # None
                          /\ list["process"].gen = ctl.gen
    /\ Busy("directory") => "directory" \notin ips
    /\ Busy("process") => mode.value = 0

\* The mode is of the rule set of the names, as long as there are names.
ModeIs == mode.value # 0 /\ list["process"] # None => list["process"].gen = mode.gen

\* The two lists of directory rules are of one rule set, when both are there.
PairIs ==
    list["names"] # None =>
        /\ ~Busy("directory") /\ list["dirs"] # None => list["names"].gen = list["dirs"].gen
        /\ Busy("directory") /\ ctl.list = "dirs" => list["names"].gen = ctl.gen

\* What a routine knows that began after the last rules were sent.  No list that it
\* reads is replaced before it has decided, but one may go.
Knows(n) ==
    /\ note[n].pc = "test" => note[n].list = "process"
    /\ note[n].pc # "idle" => note[n].since <= sets
    /\ note[n].since = sets =>
         /\ note[n].pc \in {"lookup", "read", "decide"} =>
              IF note[n].list = "process" THEN mode.value # 0 ELSE ~Busy("directory")
         /\ note[n].pc \in {"lookup", "read"} /\ note[n].list = "names" /\ list["names"] # None =>
              note[n].with = list["names"].gen
         /\ note[n].pc = "decide" /\ note[n].gen # 0 =>
              note[n].gen = IF note[n].list = "process" THEN mode.gen ELSE note[n].with
         /\ note[n].pc = "denied" /\ note[n].gen # 0 => note[n].gen = note[n].with

SetInv ==
    RulesInv /\ Unhooked /\ Requested /\ ModeIs /\ PairIs /\ \A n \in Notifiers : Knows(n)

\* The unload waits for the routines before it goes on to the rest.
LEMMA UnhookedNext ==
    ASSUME Unhooked, Next
    PROVE  Unhooked'
<1>1. ASSUME NEW n \in Notifiers,
             NoteStep(n) \/ \E p \in Procs : NotifyProcess(n, p) \/ PreOperation(n, p)
      PROVE  Unhooked'
  <2>1. UNCHANGED <<drv, registered>>
    BY <1>1, NoteFrame DEF svcVars, drvVars
  <2>2. note[n].pc # "idle" \/ registered # {}
    BY <1>1 DEF NoteStep, NotifyProcess, PreOperation, TestMode, Lookup, ReadList, DecideProcess,
       DecideDirectory, Denied, TakeRecord, InsertRecord, PushInfo
  <2> QED BY <2>1, <2>2, Zenon DEF Unhooked
<1>2. CASE UNCHANGED <<drv, registered, note>>
  BY <1>2 DEF Unhooked
<1>3. CASE UnloadStep \/ Load \/ Unload
  <2>1. CASE Unhook
    BY <2>1 DEF Unhook, Unhooked
  <2>2. CASE FreeCodes \/ DeleteCodes \/ SetEvent \/ Join
    BY <2>2 DEF FreeCodes, DeleteCodes, SetEvent, Join, Unhooked, drvVars
  <2>3. CASE Load \/ Unload \/ UnregisterFilter \/ Free \/ FreeSleeps \/ FreeLists \/ FreeRecords \/ DeleteRecords
    BY <2>3 DEF Load, Unload, UnregisterFilter, Free, FreeSleeps, FreeLists, FreeRecords, DeleteRecords,
                Unhooked
  <2> QED BY <1>3, <2>1, <2>2, <2>3 DEF UnloadStep
<1>4. ASSUME IoStep \/ RequestStep \/ CloseStep \/ Open \/ Close
             \/ (\E l \in Lists, S \in SUBSET Procs : SetRule(l, S))
             \/ (\E on \in BOOLEAN : SetMonitor(on) \/ SetIpsMonitor(on))
      PROVE  UNCHANGED <<drv, registered, note>>
  BY <1>4 DEF IoStep, IoPop, IoFree, IoEnd, RequestStep, SleepEnds, CleanList, AllocList, TakeOld, Install,
     SetMode, CloseStep, CloseIps, CloseSleeps, CloseLists, CloseRecords, CloseCodes, Open, Close, SetRule,
     SetMonitor, SetIpsMonitor, svcVars, drvVars
<1> QED BY <1>1, <1>2, <1>3, <1>4 DEF Next

\* A step that leaves the service, the flags and the lists alone.
LEMMA SetsKept ==
    ASSUME Requested, ModeIs, PairIs, UNCHANGED <<session, ctl, ips, mode, list>>
    PROVE  Requested' /\ ModeIs' /\ PairIs'
<1>1. Busy("process")' = Busy("process") /\ Busy("directory")' = Busy("directory")
  BY DEF Busy
<1>2. Requested'
  BY <1>1 DEF Requested
<1>3. ModeIs'
  BY <1>1 DEF ModeIs
<1>4. PairIs'
  BY <1>1 DEF PairIs
<1> QED BY <1>2, <1>3, <1>4

\* What a routine knows stays true while a request of another kind goes on, and a
\* request of its own kind finds no such routine.
LEMMA KnowsKept ==
    ASSUME NEW n \in Notifiers, Knows(n), note'[n] = note[n], sets' = sets,
           Busy("directory")' => Busy("directory"),
           mode' = mode \/ mode.value = 0,
           list'["names"] \in {None, list["names"]} \/ Busy("directory")
    PROVE  Knows(n)'
<1> HIDE DEF Busy
<1>1. CASE note[n].pc = "idle"
  BY <1>1 DEF Knows
<1>2. CASE note[n].since # sets
  BY <1>2 DEF Knows
<1>3. CASE note[n].since = sets
  BY <1>3 DEF Knows
<1> QED BY <1>1, <1>2, <1>3

\* A step of a routine: what it knows follows from what it reads.
LEMMA NoteKeepsKnown ==
    ASSUME SetInv, NEW n \in Notifiers,
           NoteStep(n) \/ \E p \in Procs : NotifyProcess(n, p) \/ PreOperation(n, p)
    PROVE  \A m \in Notifiers : Knows(m)'
<1>0. /\ note \in [Notifiers -> Notes] /\ sets \in Nat /\ Knows(n)
      /\ \A m \in Notifiers : Knows(m)
  BY RulesAssumption DEF SetInv, RulesInv, TInv, TypeOK
<1>1. UNCHANGED <<sets, ctl, session, mode, list>>
  BY NoteFrame DEF svcVars, flagVars
<1>2. Busy("directory")' = Busy("directory")
  BY <1>1 DEF Busy
<1>3. ASSUME NEW m \in Notifiers, m # n PROVE Knows(m)'
  <2>1. note'[m] = note[m]
    BY <1>0, <1>3 DEF NoteStep, NotifyProcess, PreOperation, TestMode, Lookup, ReadList, DecideProcess,
       DecideDirectory, Denied, TakeRecord, InsertRecord, PushInfo
  <2> QED BY <1>0, <1>1, <1>2, <2>1, KnowsKept
<1>4. note[n] \in Notes
  BY <1>0
<1>5. Knows(n)'
  <2>1. ASSUME NEW p \in Procs, NotifyProcess(n, p) PROVE Knows(n)'
    <3>1. note'[n].pc = "test" /\ note'[n].list = "process" /\ note'[n].since = sets
      BY <1>0, <2>1 DEF NotifyProcess, NoNote
    <3> QED BY <1>0, <1>1, <3>1 DEF Knows
  <2>2. ASSUME NEW p \in Procs, PreOperation(n, p) PROVE Knows(n)'
    <3>1. note'[n].pc = "lookup" /\ note'[n].list = "dirs" /\ note'[n].since = sets
      BY <1>0, <2>2 DEF PreOperation, NoNote
    <3>2. ~Busy("directory")
      BY <2>2 DEF PreOperation, SetInv, Requested
    <3> QED BY <1>0, <1>1, <1>2, <3>1, <3>2 DEF Knows
  <2>3. CASE TestMode(n)
    <3>1. note[n].pc = "test" /\ note'[n].list = note[n].list /\ note'[n].since = note[n].since
      BY <1>0, <1>4, <2>3 DEF TestMode, Notes
    <3>2. note'[n].pc = "record" \/ (note'[n].pc = "lookup" /\ mode.value # 0)
      BY <1>0, <1>4, <2>3 DEF TestMode, Notes
    <3> QED BY <1>0, <1>1, <3>1, <3>2 DEF Knows
  <2>4. CASE Lookup(n)
    <3>1. /\ note[n].pc = "lookup" /\ note'[n].pc = "read" /\ note'[n].list = note[n].list
          /\ note'[n].since = note[n].since /\ note'[n].with = note[n].with
          /\ note'[n].obj = list[note[n].list]
      BY <1>0, <1>4, <2>4 DEF Lookup, Notes
    <3> QED BY <1>0, <1>1, <1>2, <3>1 DEF Knows
  <2>5. CASE ReadList(n)
    <3>1. note[n].pc = "read" /\ note[n].obj \in {None, list[note[n].list]} /\ note[n].list \in Lists
      BY <1>4, <2>5 DEF ReadList, SetInv, RulesInv, ReadersLock, Notes
    <3>2. CASE note[n].list = "dirs" /\ note[n].obj = None
      <4>1. note'[n].pc = "idle"
        BY <1>0, <2>5, <3>2 DEF ReadList, NoNote
      <4> QED BY <4>1 DEF Knows
    <3>3. CASE note[n].list = "dirs" /\ note[n].obj # None
      <4>1. /\ note'[n].pc = "lookup" /\ note'[n].list = "names" /\ note'[n].since = note[n].since
            /\ note'[n].with = note[n].obj.gen
        BY <1>0, <1>4, <2>5, <3>3 DEF ReadList, Notes
      <4>2. list["dirs"] # None /\ note'[n].with = list["dirs"].gen
        BY <3>1, <3>3, <4>1
      <4>3. ASSUME note[n].since = sets, list["names"] # None
            PROVE  note'[n].with = list["names"].gen
        BY <1>0, <3>1, <3>3, <4>2, <4>3 DEF Knows, SetInv, PairIs
      <4> QED BY <1>0, <1>1, <1>2, <3>1, <3>3, <4>1, <4>3 DEF Knows
    <3>4. CASE note[n].list # "dirs"
      <4>1. /\ note'[n].pc = "decide" /\ note'[n].list = note[n].list /\ note'[n].since = note[n].since
            /\ note'[n].with = note[n].with
            /\ note'[n].gen = IF note[n].obj = None THEN 0 ELSE note[n].obj.gen
        BY <1>0, <1>4, <2>5, <3>4 DEF ReadList, Notes
      <4>2. ASSUME note[n].since = sets, note'[n].gen # 0
            PROVE  note'[n].gen = IF note[n].list = "process" THEN mode.gen ELSE note[n].with
        <5>1. list[note[n].list] # None /\ note'[n].gen = list[note[n].list].gen
          BY <3>1, <4>1, <4>2
        <5>2. CASE note[n].list = "process"
          BY <1>0, <3>1, <4>2, <5>1, <5>2 DEF Knows, SetInv, ModeIs
        <5>3. CASE note[n].list = "names"
          BY <1>0, <3>1, <4>2, <5>1, <5>3 DEF Knows
        <5> QED BY <3>1, <3>4, <5>2, <5>3 DEF Lists
      <4> QED BY <1>0, <1>1, <1>2, <3>1, <4>1, <4>2 DEF Knows
    <3> QED BY <3>2, <3>3, <3>4
  <2>6. CASE DecideProcess(n)
    <3>1. /\ note[n].pc = "decide" /\ note[n].list = "process" /\ note'[n].since = note[n].since
          /\ note'[n].gen = note[n].gen
          /\ note'[n].pc = "record" \/ (note'[n].pc = "denied" /\ note'[n].with = mode.gen)
      BY <1>0, <1>4, <2>6 DEF DecideProcess, Notes
    <3> QED BY <1>0, <1>1, <3>1 DEF Knows
  <2>7. CASE DecideDirectory(n)
    <3>1. /\ note[n].pc = "decide" /\ note[n].list = "names"
          /\ \/ note'[n].pc = "idle"
             \/ /\ note'[n].pc = "denied" /\ note'[n].since = note[n].since
                /\ note'[n].gen = note[n].gen /\ note'[n].with = note[n].with
      BY <1>0, <1>4, <2>7 DEF DecideDirectory, Notes, NoNote
    <3> QED BY <1>0, <1>1, <3>1 DEF Knows
  <2>8. CASE Denied(n) \/ TakeRecord(n) \/ InsertRecord(n) \/ PushInfo(n)
    <3>1. /\ note[n].pc # "idle" /\ note'[n].pc \in {"idle", "record", "insert", "code"}
          /\ note'[n].since \in {0, note[n].since}
      <4>1. CASE Denied(n)
        BY <1>0, <1>4, <4>1 DEF Denied, Notes, NoNote
      <4>2. CASE TakeRecord(n)
        BY <1>0, <1>4, <4>2 DEF TakeRecord, Notes, NoNote
      <4>3. CASE InsertRecord(n)
        BY <1>0, <1>4, <4>3 DEF InsertRecord, Notes, NoNote
      <4>4. CASE PushInfo(n)
        BY <1>0, <1>4, <4>4 DEF PushInfo, Notes, NoNote
      <4> QED BY <2>8, <4>1, <4>2, <4>3, <4>4
    <3> QED BY <1>0, <1>1, <3>1 DEF Knows
  <2> QED BY <2>1, <2>2, <2>3, <2>4, <2>5, <2>6, <2>7, <2>8 DEF NoteStep
<1> QED BY <1>3, <1>5

\* A request replaces one list at a time, with the flag of its kind off.
LEMMA RequestKeepsSets ==
    ASSUME SetInv, RequestStep
    PROVE  Requested' /\ ModeIs' /\ PairIs' /\ \A n \in Notifiers : Knows(n)'
<1>0. /\ ctl \in Requests /\ ctl.list \in Lists /\ list \in [Lists -> Objects \cup {None}]
      /\ \A n \in Notifiers : Knows(n)
  BY DEF SetInv, RulesInv, TInv, TypeOK, Requests
<1>1. UNCHANGED <<session, sets, ips, note>>
  BY DEF RequestStep, SleepEnds, CleanList, AllocList, TakeOld, Install, SetMode, flagVars
<1>2. session = "open" /\ ctl.pc \notin {"idle", "first"}
  BY DEF RequestStep, SleepEnds, CleanList, AllocList, TakeOld, Install, SetMode, SetInv, RulesInv, Serial
<1>3. /\ ctl.list = "process" => Busy("process") /\ ~Busy("directory") /\ mode.value = 0
      /\ ctl.list \in {"names", "dirs"} =>
           Busy("directory") /\ ~Busy("process") /\ "directory" \notin ips
  BY <1>0, <1>2 DEF Busy, KindOf, Lists, SetInv, Requested
<1>4. CASE SleepEnds \/ TakeOld
  <2>1. /\ ctl'.list = ctl.list /\ ctl'.gen = ctl.gen /\ ctl'.new = ctl.new /\ ctl'.pc \in {"clean", "install"}
        /\ ctl'.pc = "install" => ctl.pc = "take"
        /\ UNCHANGED <<mode, list>>
    BY <1>0, <1>4 DEF SleepEnds, TakeOld, Requests, flagVars, listVars
  <2>2. Busy("process")' = Busy("process") /\ Busy("directory")' = Busy("directory")
    BY <1>2, <2>1 DEF Busy, KindOf
  <2>3. Requested'
    BY <1>1, <2>1, <2>2 DEF SetInv, Requested
  <2>4. ModeIs' /\ PairIs'
    BY <1>1, <1>2, <2>1, <2>2 DEF SetInv, ModeIs, PairIs
  <2>5. \A n \in Notifiers : Knows(n)'
    BY <1>0, <1>1, <2>1, <2>2, KnowsKept
  <2> QED BY <2>3, <2>4, <2>5
<1>5. CASE CleanList
  <2>1. /\ ctl'.list = ctl.list /\ ctl'.gen = ctl.gen /\ ctl'.pc = "alloc" /\ mode' = mode
        /\ \A l \in Lists : l # ctl.list => list'[l] = list[l]
    BY <1>0, <1>5 DEF CleanList, Clean, Requests, flagVars
  <2>2. Busy("process")' = Busy("process") /\ Busy("directory")' = Busy("directory")
    BY <1>2, <2>1 DEF Busy, KindOf
  <2>3. Requested'
    BY <1>1, <2>1, <2>2 DEF SetInv, Requested
  <2>4. CASE ctl.list = "process"
    <3>1. list'["names"] = list["names"] /\ list'["dirs"] = list["dirs"]
      BY <2>1, <2>4 DEF Lists
    <3>2. PairIs'
      BY <1>3, <2>1, <2>2, <2>4, <3>1 DEF SetInv, PairIs
    <3>3. \A n \in Notifiers : Knows(n)'
      BY <1>0, <1>1, <2>1, <2>2, <3>1, KnowsKept
    <3> QED BY <1>3, <2>1, <2>3, <2>4, <3>2, <3>3 DEF ModeIs
  <2>5. CASE ctl.list \in {"names", "dirs"}
    <3>1. list'["process"] = list["process"] /\ (ctl.list = "dirs" => list'["names"] = list["names"])
      BY <2>1, <2>5 DEF Lists
    <3>2. PairIs'
      BY <1>3, <2>1, <2>2, <2>5, <3>1 DEF SetInv, PairIs
    <3>3. ModeIs'
      BY <1>1, <1>2, <2>1, <3>1 DEF SetInv, ModeIs
    <3>4. \A n \in Notifiers : Knows(n)'
      BY <1>0, <1>1, <1>3, <2>1, <2>2, <2>5, KnowsKept
    <3> QED BY <2>3, <3>2, <3>3, <3>4
  <2> QED BY <1>0, <2>4, <2>5 DEF Lists
<1>6. CASE AllocList
  <2>1. UNCHANGED <<mode, list>>
    BY <1>6 DEF AllocList, flagVars
  <2>2. CASE ctl'.pc = "take" /\ ctl'.list = ctl.list /\ ctl'.gen = ctl.gen /\ ctl'.new.gen = ctl.gen
    <3>1. Busy("process")' = Busy("process") /\ Busy("directory")' = Busy("directory")
      BY <1>2, <2>2 DEF Busy, KindOf
    <3>2. Requested'
      BY <1>1, <2>1, <2>2, <3>1 DEF SetInv, Requested
    <3>3. ModeIs' /\ PairIs'
      BY <1>1, <1>2, <2>1, <2>2, <3>1 DEF SetInv, ModeIs, PairIs
    <3>4. \A n \in Notifiers : Knows(n)'
      BY <1>0, <1>1, <2>1, <3>1, KnowsKept
    <3> QED BY <3>2, <3>3, <3>4
  <2>3. CASE ctl.list = "process" /\ ctl'.pc = "idle"
    <3>1. ~Busy("process")' /\ ~Busy("directory")'
      BY <2>3 DEF Busy
    <3>2. Requested'
      BY <2>3, <3>1 DEF Requested
    <3>3. ModeIs' /\ PairIs'
      BY <1>1, <1>2, <1>3, <2>1, <2>3, <3>1 DEF SetInv, ModeIs, PairIs
    <3>4. \A n \in Notifiers : Knows(n)'
      BY <1>0, <1>1, <2>1, <3>1, KnowsKept
    <3> QED BY <3>2, <3>3, <3>4
  <2>4. CASE ctl.list = "names" /\ ctl'.pc = "sleep" /\ ctl'.list = "dirs" /\ ctl'.gen = ctl.gen
    <3>1. list["names"] = None
      BY <1>6, <2>4 DEF AllocList, SetInv, RulesInv, Exchange
    <3>2. ~Busy("process")' /\ Busy("directory")'
      BY <2>4 DEF Busy, KindOf
    <3>3. Requested'
      BY <1>1, <1>3, <2>1, <2>4, <3>2 DEF Requested
    <3>4. ModeIs' /\ PairIs'
      BY <2>1, <3>1 DEF SetInv, ModeIs, PairIs
    <3>5. \A n \in Notifiers : Knows(n)'
      BY <1>0, <1>1, <1>3, <2>1, <2>4, KnowsKept
    <3> QED BY <3>3, <3>4, <3>5
  <2>5. CASE ctl.list = "dirs" /\ ctl'.pc = "idle"
    <3>1. list["dirs"] = None
      BY <1>6, <2>5 DEF AllocList, SetInv, RulesInv, Exchange
    <3>2. ~Busy("process")' /\ ~Busy("directory")'
      BY <2>5 DEF Busy
    <3>3. Requested'
      BY <2>5, <3>2 DEF Requested
    <3>4. ModeIs' /\ PairIs'
      BY <2>1, <3>1, <3>2 DEF SetInv, ModeIs, PairIs
    <3>5. \A n \in Notifiers : Knows(n)'
      BY <1>0, <1>1, <2>1, <3>2, KnowsKept
    <3> QED BY <3>3, <3>4, <3>5
  <2> QED BY <1>0, <1>6, <2>2, <2>3, <2>4, <2>5, AllocGoesOn DEF Lists
<1>7. CASE Install
  <2>1. /\ ctl.new # None /\ ctl.new.gen = ctl.gen /\ mode' = mode
        /\ list'[ctl.list] = ctl.new
        /\ \A l \in Lists : l # ctl.list => list'[l] = list[l]
    BY <1>0, <1>7 DEF Install, SetInv, RulesInv, Exchange, Requested, flagVars
  <2>2. CASE ctl.list = "process"
    <3>1. ctl'.pc = "mode" /\ ctl'.list = "process" /\ ctl'.gen = ctl.gen
      BY <1>0, <1>7, <2>2, InstallGoesOn
    <3>2. Busy("process")' /\ ~Busy("directory")'
      BY <3>1 DEF Busy, KindOf
    <3>3. list'["names"] = list["names"] /\ list'["dirs"] = list["dirs"]
      BY <2>1, <2>2 DEF Lists
    <3>4. Requested'
      BY <1>3, <2>1, <2>2, <3>1, <3>2 DEF Requested
    <3>5. ModeIs' /\ PairIs'
      BY <1>3, <2>1, <2>2, <3>2, <3>3 DEF SetInv, ModeIs, PairIs
    <3>6. \A n \in Notifiers : Knows(n)'
      BY <1>0, <1>1, <2>1, <3>2, <3>3, KnowsKept
    <3> QED BY <3>4, <3>5, <3>6
  <2>3. CASE ctl.list = "names"
    <3>1. ctl'.pc = "sleep" /\ ctl'.list = "dirs" /\ ctl'.gen = ctl.gen
      BY <1>0, <1>7, <2>3, InstallGoesOn
    <3>2. ~Busy("process")' /\ Busy("directory")'
      BY <3>1 DEF Busy, KindOf
    <3>3. list'["process"] = list["process"]
      BY <2>1, <2>3 DEF Lists
    <3>4. Requested'
      BY <1>1, <1>3, <2>3, <3>1, <3>2 DEF Requested
    <3>5. PairIs'
      BY <2>1, <2>3, <3>1, <3>2 DEF PairIs
    <3>6. ModeIs'
      BY <1>1, <1>2, <2>1, <3>3 DEF SetInv, ModeIs
    <3>7. \A n \in Notifiers : Knows(n)'
      BY <1>0, <1>1, <1>3, <2>1, <2>3, KnowsKept
    <3> QED BY <3>4, <3>5, <3>6, <3>7
  <2>4. CASE ctl.list = "dirs"
    <3>1. ctl'.pc = "idle"
      BY <1>0, <1>7, <2>4, InstallGoesOn
    <3>2. ~Busy("process")' /\ ~Busy("directory")'
      BY <3>1 DEF Busy
    <3>3. list'["process"] = list["process"] /\ list'["names"] = list["names"]
      BY <2>1, <2>4 DEF Lists
    <3>4. Requested'
      BY <3>1, <3>2 DEF Requested
    <3>5. PairIs'
      BY <1>3, <2>1, <2>4, <3>2, <3>3 DEF SetInv, PairIs
    <3>6. ModeIs'
      BY <1>1, <1>2, <2>1, <3>3 DEF SetInv, ModeIs
    <3>7. \A n \in Notifiers : Knows(n)'
      BY <1>0, <1>1, <1>3, <2>1, <2>4, KnowsKept
    <3> QED BY <3>4, <3>5, <3>6, <3>7
  <2> QED BY <1>0, <2>2, <2>3, <2>4 DEF Lists
<1>8. ASSUME NEW m \in Modes, SetMode(m)
      PROVE  Requested' /\ ModeIs' /\ PairIs' /\ \A n \in Notifiers : Knows(n)'
  <2>1. /\ ctl.pc = "mode" /\ ctl'.pc = "idle" /\ mode'.gen = ctl.gen /\ list' = list
    BY <1>8 DEF SetMode, NoRequest, listVars
  <2>2. /\ ctl.list = "process" /\ list["process"] # None /\ list["process"].gen = ctl.gen
    BY <2>1 DEF SetInv, Requested
  <2>3. ~Busy("process")' /\ ~Busy("directory")'
    BY <2>1 DEF Busy
  <2>4. Requested'
    BY <2>1, <2>3 DEF Requested
  <2>5. ModeIs'
    BY <2>1, <2>2 DEF ModeIs
  <2>6. PairIs'
    BY <1>3, <2>1, <2>2, <2>3 DEF SetInv, PairIs
  <2>7. \A n \in Notifiers : Knows(n)'
    BY <1>0, <1>1, <1>3, <2>1, <2>2, <2>3, KnowsKept
  <2> QED BY <2>4, <2>5, <2>6, <2>7
<1> QED BY <1>4, <1>5, <1>6, <1>7, <1>8 DEF RequestStep

\* New rules: what was decided by the old ones is from before.
LEMMA SetRuleKeepsSets ==
    ASSUME SetInv, NEW l \in Lists, NEW S \in SUBSET Procs, SetRule(l, S)
    PROVE  Requested' /\ ModeIs' /\ PairIs' /\ \A n \in Notifiers : Knows(n)'
<1>1. /\ session = "open" /\ l \in {"process", "names"} /\ ctl.pc \in {"idle", "first"}
      /\ ctl.pc = "first" => l = "process"
      /\ UNCHANGED <<session, list, note>> /\ sets' = sets + 1
      /\ ctl'.pc = "sleep" /\ ctl'.list = l
      /\ ips' = ips \ {KindOf(l)} /\ mode' = IF l = "process" THEN NoMode ELSE mode
  BY DEF SetRule, NoRequest, listVars, Lists
<1>2. ~Busy("process") /\ ~Busy("directory")
  BY <1>1 DEF Busy
<1>3. /\ l = "process" => ~Busy("directory")' /\ mode'.value = 0
      /\ l = "names" => ~Busy("process")' /\ "directory" \notin ips' /\ mode' = mode
  BY <1>1 DEF Busy, KindOf, NoMode
<1>4. Requested'
  BY <1>1, <1>3 DEF Requested
<1>5. ModeIs'
  BY <1>1, <1>3 DEF SetInv, ModeIs
<1>6. PairIs'
  BY <1>1, <1>2, <1>3 DEF SetInv, PairIs
<1>7. ASSUME NEW n \in Notifiers PROVE Knows(n)'
  <2>1. sets \in Nat /\ note[n].since \in Nat /\ Knows(n) /\ note'[n] = note[n]
    BY <1>1, RulesAssumption DEF SetInv, RulesInv, TInv, TypeOK, Notes
  <2>2. CASE note[n].pc = "idle"
    BY <2>1, <2>2 DEF Knows
  <2>3. CASE note[n].pc # "idle"
    <3>1. note[n].since <= sets' /\ note[n].since # sets'
      BY <1>1, <2>1, <2>3 DEF Knows
    <3> QED BY <2>1, <2>3, <3>1 DEF Knows
  <2> QED BY <2>2, <2>3
<1> QED BY <1>4, <1>5, <1>6, <1>7

\* A close and an unload take lists away while no request is under way, and a load
\* finds no routine; an open changes nothing here.
LEMMA OthersKeepSets ==
    ASSUME SetInv,
           \/ CloseStep \/ Open \/ Close \/ (\E on \in BOOLEAN : SetMonitor(on) \/ SetIpsMonitor(on))
           \/ UnloadStep \/ Load \/ Unload \/ IoStep
    PROVE  Requested' /\ ModeIs' /\ PairIs' /\ \A n \in Notifiers : Knows(n)'
<1>0. /\ session # "open" => ctl.pc = "idle"
      /\ drv # "loaded" => session = "closed"
      /\ \A n \in Notifiers : Knows(n)
  BY DEF SetInv, RulesInv, Serial
<1>1. note' = note
  BY DEF CloseStep, Open, Close, SetMonitor, SetIpsMonitor, UnloadStep, Load, Unload, IoStep, CloseIps,
     CloseSleeps, CloseLists, CloseRecords, CloseCodes, UnregisterFilter, Free, FreeSleeps, FreeLists,
     FreeRecords, DeleteRecords, Unhook, FreeCodes, DeleteCodes, SetEvent, Join, IoPop, IoFree, IoEnd
<1>2. CASE CloseLists \/ Unload \/ FreeLists
  <2>1. /\ ctl.pc = "idle" /\ UNCHANGED <<ctl, ips, mode, sets>>
        /\ \A l \in Lists : list'[l] \in {None, list[l]}
    BY <1>0, <1>2 DEF CloseLists, Unload, FreeLists, Clean, Lists, SetInv, RulesInv, Serial, flagVars
  <2>2. ~Busy("process") /\ ~Busy("directory") /\ ~Busy("process")' /\ ~Busy("directory")'
    BY <2>1 DEF Busy
  <2>3. Requested'
    BY <2>1, <2>2 DEF Requested
  <2>4. ModeIs' /\ PairIs'
    BY <2>1, <2>2 DEF SetInv, ModeIs, PairIs, Lists
  <2>5. \A n \in Notifiers : Knows(n)'
    BY <1>0, <1>1, <2>1, <2>2, KnowsKept DEF Lists
  <2> QED BY <2>3, <2>4, <2>5
<1>5. CASE Load
  <2>1. drv = "absent" /\ mode'.value = 0 /\ UNCHANGED <<ctl, ips, list>> /\ ctl.pc = "idle"
    BY <1>0, <1>5 DEF Load, NoMode, listVars
  <2>2. ~Busy("process") /\ ~Busy("directory") /\ ~Busy("process")' /\ ~Busy("directory")'
    BY <2>1 DEF Busy
  <2>3. Requested' /\ ModeIs'
    BY <2>1, <2>2 DEF Requested, ModeIs
  <2>4. PairIs'
    BY <2>1, <2>2 DEF SetInv, PairIs
  <2>5. \A n \in Notifiers : Knows(n)'
    BY <1>1, <2>1 DEF SetInv, Unhooked, Knows
  <2> QED BY <2>3, <2>4, <2>5
<1>3. CASE Open
  <2>1. /\ ctl'.pc \in {"first", "idle"} /\ ctl.pc = "idle"
        /\ UNCHANGED <<sets, ips, mode, list>>
    BY <1>0, <1>3 DEF Open, NoRequest, flagVars, listVars
  <2>2. ~Busy("process") /\ ~Busy("directory") /\ ~Busy("process")' /\ ~Busy("directory")'
    BY <2>1 DEF Busy
  <2>3. Requested' /\ ModeIs'
    BY <2>1, <2>2 DEF SetInv, Requested, ModeIs
  <2>4. PairIs'
    BY <2>1, <2>2 DEF SetInv, PairIs
  <2>5. \A n \in Notifiers : Knows(n)'
    BY <1>0, <1>1, <2>1, <2>2, KnowsKept
  <2> QED BY <2>3, <2>4, <2>5
<1>4. CASE ~CloseLists /\ ~Unload /\ ~FreeLists /\ ~Load /\ ~Open
  <2>1. /\ UNCHANGED <<ctl, sets, mode, list>>
        /\ ips' = ips \/ ips' = {} \/ ctl.pc = "idle"
    BY <1>4 DEF CloseStep, Close, SetMonitor, SetIpsMonitor, UnloadStep, IoStep, CloseIps,
       CloseSleeps, CloseRecords, CloseCodes, UnregisterFilter, Free, FreeSleeps,
       FreeRecords, DeleteRecords, Unhook, FreeCodes, DeleteCodes, SetEvent, Join, IoPop, IoFree, IoEnd,
       svcVars, flagVars, listVars
  <2>2. Busy("process")' = Busy("process") /\ Busy("directory")' = Busy("directory")
        /\ (ctl.pc = "idle" => ~Busy("directory"))
    BY <2>1 DEF Busy
  <2>3. Requested'
    BY <2>1, <2>2 DEF SetInv, Requested
  <2>4. ModeIs'
    BY <2>1 DEF SetInv, ModeIs
  <2>5. PairIs'
    BY <2>1, <2>2 DEF SetInv, PairIs
  <2>6. \A n \in Notifiers : Knows(n)'
    BY <1>0, <1>1, <2>1, <2>2, KnowsKept
  <2> QED BY <2>3, <2>4, <2>5, <2>6
<1> QED BY <1>2, <1>3, <1>4, <1>5

LEMMA InitSets == Init => SetInv
<1> SUFFICES ASSUME Init PROVE SetInv
  OBVIOUS
<1>1. Requested /\ ModeIs /\ PairIs
  BY DEF Init, Requested, ModeIs, PairIs, Busy, NoRequest, NoMode, Lists
<1>2. \A n \in Notifiers : Knows(n)
  BY DEF Init, Knows, NoNote
<1>3. Unhooked
  BY DEF Init, Unhooked, NoNote
<1> QED BY <1>1, <1>2, <1>3, InitRules DEF SetInv

LEMMA StepSets ==
    ASSUME SetInv, [Next]_vars
    PROVE  SetInv'
<1>1. RulesInv'
  BY StepRules DEF SetInv
<1>2. CASE UNCHANGED vars
  <2>1. Requested' /\ ModeIs' /\ PairIs'
    BY <1>2, SetsKept DEF SetInv, vars, svcVars, flagVars, listVars
  <2>2. Busy("directory")' = Busy("directory") /\ UNCHANGED <<note, sets, mode, list>>
    BY <1>2 DEF Busy, vars, svcVars, flagVars, listVars
  <2>3. \A n \in Notifiers : Knows(n)'
    BY <2>2, KnowsKept DEF SetInv
  <2>4. Unhooked'
    BY <1>2 DEF SetInv, Unhooked, vars, svcVars, drvVars
  <2> QED BY <1>1, <2>1, <2>3, <2>4 DEF SetInv
<1>3. CASE Next
  <2>1. Unhooked'
    BY <1>3, UnhookedNext DEF SetInv
  <2>2. ASSUME NEW n \in Notifiers,
               NoteStep(n) \/ \E p \in Procs : NotifyProcess(n, p) \/ PreOperation(n, p)
        PROVE  SetInv'
    <3>1. \A m \in Notifiers : Knows(m)'
      BY <2>2, NoteKeepsKnown
    <3>2. Requested' /\ ModeIs' /\ PairIs'
      BY <2>2, NoteFrame, SetsKept DEF SetInv, svcVars, flagVars
    <3> QED BY <1>1, <2>1, <3>1, <3>2 DEF SetInv
  <2>3. CASE RequestStep
    BY <1>1, <2>1, <2>3, RequestKeepsSets DEF SetInv
  <2>4. ASSUME NEW l \in Lists, NEW S \in SUBSET Procs, SetRule(l, S) PROVE SetInv'
    BY <1>1, <2>1, <2>4, SetRuleKeepsSets DEF SetInv
  <2>5. CASE \/ CloseStep \/ Open \/ Close \/ (\E on \in BOOLEAN : SetMonitor(on) \/ SetIpsMonitor(on))
             \/ UnloadStep \/ Load \/ Unload \/ IoStep
    BY <1>1, <2>1, <2>5, OthersKeepSets DEF SetInv
  <2> QED BY <1>3, <2>2, <2>3, <2>4, <2>5 DEF Next
<1> QED BY <1>2, <1>3

\* A start or an access that a list refuses, in a routine during which no rules were
\* sent, is refused by one rule set, whatever fails and however short the sleeps
\* are: a list may go while a routine is under way, but none comes in its place
\* that goes with another mode or directory.
THEOREM OneSetDecides == Spec => []OneRuleSet
<1>1. SetInv /\ [Next]_vars => SetInv'
  BY StepSets
<1>2. SetInv => OneRuleSet
  BY DEF SetInv, Knows, OneRuleSet
<1> QED
  BY <1>1, <1>2, InitSets, PTL DEF Spec
=============================================================================
