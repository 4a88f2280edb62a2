------------------------- MODULE UdpContextsProofs -------------------------
(***************************************************************************)
(* Proofs about UdpContexts for every number of callouts, endpoints,       *)
(* contexts and packets.  The invariant comes in layers: what an actor has *)
(* in hand at each of its steps; that a packet is in one place only, so    *)
(* that an injection has an actor of its own; the counts of bytes; and the *)
(* codes behind the queued packets.  UdpReferencesProofs adds the          *)
(* references of the contexts.                                             *)
(***************************************************************************)
EXTENDS UdpContexts, Integers, FiniteSetTheorems, SequenceTheorems, TLAPS

(***************************************************************************)
(* The first layer: types, with the byte counters as integers, and locals. *)
(***************************************************************************)
Boxes == [pkt : Packets, ctx : Contexts, dir : Directions]

Globals ==
    /\ monitor \in BOOLEAN /\ opens \in 0..Sessions
    /\ session \in {"closed", "open", "pause", "cleanQueue", "cleanContexts", "cleanCodes"}
    /\ closed \in SUBSET Endpoints
    /\ state \in [Contexts -> {"unused", "live", "freed"}]
    /\ home \in [Contexts -> Endpoints \cup {None}]
    /\ refs \in [Contexts -> Nat]
    /\ listed \in SUBSET Contexts
    /\ byHandle \in [Endpoints -> Contexts \cup {None}]
    /\ pended \in [Contexts -> [Directions -> Int]]
    /\ injected \in [Contexts -> [Directions -> Int]]
    /\ busy \in [Contexts -> SUBSET Directions]
    /\ queue \in Seq(Boxes) /\ batch \in Seq(Boxes) /\ codes \in Seq(Directions)
    /\ made \in 0..MaxPackets

\* The steps at which an actor works for the callout, and for the write request.
Calling == {"find", "alloc", "pend", "push", "code"}
Writing == {"byId", "throttle", "count", "inject"}

\* The steps of each kind of actor.
Steps(a) ==
    IF a \in Callers THEN Calling \cup {"idle", "drop", "unhash"}
    ELSE IF a = Worker
    THEN Writing \cup {"idle", "reading", "filling", "pop", "next", "drop", "unhash"}
    ELSE {"idle", "out", "drop", "unhash"}

\* What an actor has in hand at each of its steps, with m packets made.
Fits(a, l, m) ==
    /\ l \in LocalsType
    /\ l.pc \in Steps(a)
    /\ l.pc \notin {"idle", "find", "alloc", "reading", "filling", "pop", "next"} => l.ctx \in Contexts
    /\ l.pc \in Calling => l.ep \in Endpoints /\ l.left >= 1 /\ l.pkt >= 1 /\ l.pkt + l.left - 1 <= m
    /\ l.pc \in Writing => l.pkt \in Packets
    /\ l.pc \in {"idle", "find", "alloc", "reading", "filling", "pop", "next", "byId"} => l.owes = 0
    /\ l.pc \in {"pend", "push", "code", "throttle", "out"} => l.owes = 1
    /\ l.pc \in {"count", "inject"} => l.owes = 2
    /\ l.pc = "drop" => l.owes # 0
    /\ l.pc = "unhash" => l.owes # 2

Locals == act \in [Actors -> LocalsType] /\ \A a \in Actors : Fits(a, act[a], made)

\* The stages of a session: after the pause of the close only a closure is under way.
Stages ==
    /\ monitor => session = "open"
    /\ session # "open" => batch = <<>> /\ act[Worker].pc = "idle"
    /\ session \notin {"open", "pause"} =>
         /\ \A k \in Callers : act[k].pc \notin Calling
         /\ \A p \in Packets : act[p].pc = "idle"
    /\ session \in {"cleanContexts", "cleanCodes", "closed"} => queue = <<>>
    /\ session = "closed" => codes = <<>>

Base == Globals /\ Locals /\ Stages

(***************************************************************************)
(* The second layer: a packet is in one place only.                        *)
(***************************************************************************)

\* The packets of a callout that it has not queued yet, and the one the worker
\* writes back.
Ahead(k) ==
    {p \in Packets : /\ act[k].pc \in Calling /\ p < act[k].pkt + act[k].left
                     /\ IF At(k, "code") THEN act[k].pkt < p ELSE act[k].pkt <= p}
InWork == IF act[Worker].pc \in Writing THEN {act[Worker].pkt} ELSE {}
Boxed(s) == {s[i].pkt : i \in 1..Len(s)}
Once(s) == \A i, j \in 1..Len(s) : s[i].pkt = s[j].pkt => i = j
Injecting == {p \in Packets : act[p].pc # "idle"}

\* a: what each callout has ahead; q, b: the queue and the batch; w: what the worker
\* writes back; r: what is being injected; m: how many were made.
Apart(a, q, b, w, r, m) ==
    /\ \A j, k \in Callers : j # k => a[j] \cap a[k] = {}
    /\ \A k \in Callers : a[k] \cap (Boxed(q) \cup Boxed(b) \cup w \cup r) = {}
    /\ Boxed(q) \cap (Boxed(b) \cup w \cup r) = {}
    /\ Boxed(b) \cap (w \cup r) = {}
    /\ w \cap r = {}
    /\ Once(q) /\ Once(b)
    /\ \A p \in Boxed(q) \cup Boxed(b) \cup w \cup r : p <= m
    /\ \A k \in Callers : \A p \in a[k] : p <= m

Aheads == [k \in Callers |-> Ahead(k)]

Unique == Apart(Aheads, queue, batch, InWork, Injecting, made)

(***************************************************************************)
(* The third layer: bytes.                                                 *)
(***************************************************************************)
Pushing(c, d) == {k \in Callers : At(k, "push") /\ act[k].ctx = c /\ act[k].dir = d}

Bytes ==
    \A c \in Contexts, d \in Directions :
        /\ pended[c][d] >= Cardinality(Pushing(c, d))
        /\ injected[c][d] >= Counted(c, d)
        /\ "header" \notin Failing => injected[c][d] = Counted(c, d)
        /\ d \in busy[c] <=> injected[c][d] > Limit
        /\ injected[c][d] <= Limit + 1
        /\ At(Worker, "count") /\ act[Worker].ctx = c /\ act[Worker].dir = d =>
             injected[c][d] <= Limit

UInv == Base /\ Unique /\ Bytes

-----------------------------------------------------------------------------
(***************************************************************************)
(* The first layer is inductive.                                           *)
(***************************************************************************)
Moves(a) == act' = [act EXCEPT ![a] = act'[a]]

LEMMA Boundaries ==
    /\ MaxPackets \in Nat /\ MaxBuffers \in Nat /\ MaxContexts \in Nat /\ Limit \in Nat
    /\ Callers \subseteq Actors /\ Worker \in Actors /\ Packets \subseteq Actors
    /\ Worker \notin Callers /\ Worker \notin Packets /\ Callers \cap Packets = {}
    /\ Contexts \subseteq Nat /\ Packets \subseteq Nat
    /\ None \notin Contexts /\ None \notin Endpoints
BY UdpAssumption DEF Actors, Contexts, Packets

\* What a record of locals is, field by field.
Is(r, p, c, e, o, n, k, d) ==
    /\ r \in LocalsType
    /\ r.pc = p /\ r.ctx = c /\ r.ep = e /\ r.owes = o /\ r.left = n /\ r.pkt = k /\ r.dir = d

\* What a step makes of its actor.
Becomes(a, p, c, e, o, n, k, d) == Moves(a) /\ Is(act'[a], p, c, e, o, n, k, d)

PCs == {"idle", "find", "alloc", "pend", "push", "code", "drop", "unhash", "reading",
        "filling", "pop", "next", "byId", "throttle", "count", "inject", "out"}

LEMMA RestIs == Is(Rest, "idle", None, None, 0, 0, 0, "send")
BY Boundaries DEF Rest, Is, LocalsType, Directions

LEMMA DoneIs ==
    ASSUME NEW a \in Actors
    PROVE  Is(Done(a), IF a = Worker THEN "next" ELSE "idle", None, None, 0, 0, 0, "send")
BY Boundaries DEF Done, Rest, Is, LocalsType, Directions

\* The locals with the types of their fields by name.
LEMMA LocalsAre ==
    LocalsType = [pc : PCs, ctx : Contexts \cup {None}, ep : Endpoints \cup {None}, owes : 0..2,
                  left : 0..MaxBuffers, pkt : 0..MaxPackets, dir : Directions]
BY DEF LocalsType, PCs

LEMMA PcIs ==
    ASSUME NEW r \in LocalsType, NEW p \in PCs
    PROVE  Is([r EXCEPT !.pc = p], p, r.ctx, r.ep, r.owes, r.left, r.pkt, r.dir)
BY LocalsAre DEF Is

LEMMA OwesIs ==
    ASSUME NEW r \in LocalsType, NEW o \in 0..2
    PROVE  Is([r EXCEPT !.owes = o], r.pc, r.ctx, r.ep, o, r.left, r.pkt, r.dir)
BY LocalsAre DEF Is

LEMMA OwesPcIs ==
    ASSUME NEW r \in LocalsType, NEW o \in 0..2, NEW p \in PCs
    PROVE  /\ Is([r EXCEPT !.owes = o, !.pc = p], p, r.ctx, r.ep, o, r.left, r.pkt, r.dir)
           /\ Is([r EXCEPT !.pc = p, !.owes = o], p, r.ctx, r.ep, o, r.left, r.pkt, r.dir)
<1>1. Is([r EXCEPT !.owes = o, !.pc = p], p, r.ctx, r.ep, o, r.left, r.pkt, r.dir)
  BY LocalsAre DEF Is
<1>2. Is([r EXCEPT !.pc = p, !.owes = o], p, r.ctx, r.ep, o, r.left, r.pkt, r.dir)
  BY LocalsAre DEF Is
<1> QED BY <1>1, <1>2

LEMMA CtxOwesPcIs ==
    ASSUME NEW r \in LocalsType, NEW p \in PCs, NEW c \in Contexts \cup {None},
           NEW o \in 0..2
    PROVE  Is([r EXCEPT !.ctx = c, !.owes = o, !.pc = p], p, c, r.ep, o, r.left, r.pkt, r.dir)
BY LocalsAre DEF Is

LEMMA PcEpDirLeftPktIs ==
    ASSUME NEW r \in LocalsType, NEW p \in PCs, NEW e \in Endpoints \cup {None},
           NEW d \in Directions, NEW n \in 0..MaxBuffers, NEW m \in 0..MaxPackets
    PROVE  Is([r EXCEPT !.pc = p, !.ep = e, !.dir = d, !.left = n, !.pkt = m], p, r.ctx, e, r.owes, n, m, d)
BY LocalsAre DEF Is

LEMMA PcEpCtxOwesIs ==
    ASSUME NEW r \in LocalsType, NEW p \in PCs, NEW e \in Endpoints \cup {None}, NEW c \in Contexts \cup {None},
           NEW o \in 0..2
    PROVE  Is([r EXCEPT !.pc = p, !.ep = e, !.ctx = c, !.owes = o], p, c, e, o, r.left, r.pkt, r.dir)
BY LocalsAre DEF Is

LEMMA PcCtxPktDirIs ==
    ASSUME NEW r \in LocalsType, NEW p \in PCs, NEW c \in Contexts \cup {None},
           NEW m \in 0..MaxPackets, NEW d \in Directions
    PROVE  Is([r EXCEPT !.pc = p, !.ctx = c, !.pkt = m, !.dir = d], p, c, r.ep, r.owes, r.left, m, d)
BY LocalsAre DEF Is

LEMMA PcCtxOwesDirIs ==
    ASSUME NEW r \in LocalsType, NEW p \in PCs, NEW c \in Contexts \cup {None},
           NEW o \in 0..2, NEW d \in Directions
    PROVE  Is([r EXCEPT !.pc = p, !.ctx = c, !.owes = o, !.dir = d], p, c, r.ep, o, r.left, r.pkt, d)
BY LocalsAre DEF Is

LEMMA HeldIs ==
    ASSUME NEW r \in LocalsType, NEW c \in Contexts
    PROVE  Is([r EXCEPT !.ctx = c, !.owes = 1, !.pc = "pend"], "pend", c, r.ep, 1, r.left, r.pkt, r.dir)
<1>1. "pend" \in PCs /\ 1 \in 0..2 /\ c \in Contexts \cup {None}
  BY DEF PCs
<1> QED BY <1>1, CtxOwesPcIs

LEMMA RestFields ==
    /\ Rest \in LocalsType /\ Rest.pc = "idle" /\ Rest.ctx = None /\ Rest.ep = None
    /\ Rest.owes = 0 /\ Rest.left = 0 /\ Rest.pkt = 0 /\ Rest.dir = "send"
BY RestIs DEF Is

LEMMA StartedIs ==
    ASSUME NEW e \in Endpoints, NEW d \in Directions, NEW n \in 0..MaxBuffers, NEW m \in 0..MaxPackets
    PROVE  Is([Rest EXCEPT !.pc = "find", !.ep = e, !.dir = d, !.left = n, !.pkt = m],
              "find", None, e, 0, n, m, d)
<1>1. "find" \in PCs
  BY DEF PCs
<1>2. Is([Rest EXCEPT !.pc = "find", !.ep = e, !.dir = d, !.left = n, !.pkt = m],
         "find", Rest.ctx, e, Rest.owes, n, m, d)
  BY <1>1, RestFields, PcEpDirLeftPktIs
<1> QED BY <1>2, RestFields

LEMMA ClosingIs ==
    ASSUME NEW e \in Endpoints, NEW c \in Contexts
    PROVE  Is([Rest EXCEPT !.pc = "drop", !.ep = e, !.ctx = c, !.owes = 2],
              "drop", c, e, 2, 0, 0, "send")
<1>1. "drop" \in PCs /\ 2 \in 0..2
  BY DEF PCs
<1>2. Is([Rest EXCEPT !.pc = "drop", !.ep = e, !.ctx = c, !.owes = 2],
         "drop", c, e, 2, Rest.left, Rest.pkt, Rest.dir)
  BY <1>1, RestFields, PcEpCtxOwesIs
<1> QED BY <1>2, RestFields

LEMMA NextBufferIs ==
    ASSUME NEW r \in LocalsType, NEW n \in 0..MaxBuffers, NEW m \in 0..MaxPackets
    PROVE  Is([r EXCEPT !.left = n, !.pkt = m, !.pc = "pend"], "pend", r.ctx, r.ep, r.owes, n, m, r.dir)
BY DEF LocalsType, Is

LEMMA PoppedIs ==
    ASSUME NEW r \in LocalsType, NEW d \in Directions
    PROVE  Is([r EXCEPT !.pc = "pop", !.dir = d], "pop", r.ctx, r.ep, r.owes, r.left, r.pkt, d)
BY DEF LocalsType, Is

LEMMA WrittenIs ==
    ASSUME NEW c \in Contexts, NEW m \in Packets, NEW d \in Directions
    PROVE  Is([Rest EXCEPT !.pc = "byId", !.ctx = c, !.pkt = m, !.dir = d],
              "byId", c, None, 0, 0, m, d)
<1>1. "byId" \in PCs
  BY DEF PCs
<1>2. m \in 0..MaxPackets
  BY Boundaries DEF Packets
<1>3. Is([Rest EXCEPT !.pc = "byId", !.ctx = c, !.pkt = m, !.dir = d],
         "byId", c, Rest.ep, Rest.owes, Rest.left, m, d)
  BY <1>1, <1>2, RestFields, PcCtxPktDirIs
<1> QED BY <1>3, RestFields

LEMMA InjectedIs ==
    ASSUME NEW c \in Contexts, NEW d \in Directions
    PROVE  Is([Rest EXCEPT !.pc = "out", !.ctx = c, !.owes = 1, !.dir = d],
              "out", c, None, 1, 0, 0, d)
<1>1. "out" \in PCs /\ 1 \in 0..2
  BY DEF PCs
<1>3. Is([Rest EXCEPT !.pc = "out", !.ctx = c, !.owes = 1, !.dir = d],
         "out", c, Rest.ep, 1, Rest.left, Rest.pkt, d)
  BY <1>1, RestFields, PcCtxOwesDirIs
<1> QED BY <1>3, RestFields

-----------------------------------------------------------------------------
(***************************************************************************)
(* What each step makes of its actor.                                      *)
(***************************************************************************)

\* The actor keeps what it has in hand, but for the references it owes.
Turns(a, p, o) == Becomes(a, p, act[a].ctx, act[a].ep, o, act[a].left, act[a].pkt, act[a].dir)

\* The actor has nothing in hand any more.
Ends(a, p) == Becomes(a, p, None, None, 0, 0, 0, "send")

\* The actor is done, or goes on to give back what it owes.
Leaves(a, o) ==
    \/ o = 0 /\ Ends(a, IF a = Worker THEN "next" ELSE "idle")
    \/ o # 0 /\ Turns(a, "drop", o)

LEMMA BecomesThat ==
    ASSUME act \in [Actors -> LocalsType], NEW a \in Actors, NEW r, act' = [act EXCEPT ![a] = r],
           NEW p, NEW c, NEW e, NEW o, NEW n, NEW k, NEW d, Is(r, p, c, e, o, n, k, d)
    PROVE  Becomes(a, p, c, e, o, n, k, d)
BY DEF Becomes, Moves

LEMMA GotoBecomes ==
    ASSUME act \in [Actors -> LocalsType], NEW a \in Actors, NEW p \in PCs, Goto(a, p)
    PROVE  Turns(a, p, act[a].owes)
<1>1. act[a] \in LocalsType
  OBVIOUS
<1>2. Is([act[a] EXCEPT !.pc = p], p, act[a].ctx, act[a].ep, act[a].owes, act[a].left, act[a].pkt, act[a].dir)
  BY <1>1, PcIs
<1>3. act' = [act EXCEPT ![a] = [act[a] EXCEPT !.pc = p]]
  BY DEF Goto
<1> QED BY <1>2, <1>3, BecomesThat DEF Turns

LEMMA LeaveBecomes ==
    ASSUME act \in [Actors -> LocalsType], NEW a \in Actors, Leave(a, act[a])
    PROVE  Leaves(a, act[a].owes)
<1>0. act[a] \in LocalsType
  OBVIOUS
<1>1. CASE act[a].owes = 0
  <2>1. act' = [act EXCEPT ![a] = Done(a)]
    BY <1>1 DEF Leave
  <2> QED BY <1>1, <2>1, DoneIs, BecomesThat DEF Leaves, Ends
<1>2. CASE act[a].owes # 0
  <2>1. act' = [act EXCEPT ![a] = [act[a] EXCEPT !.pc = "drop"]]
    BY <1>2 DEF Leave
  <2>2. Is([act[a] EXCEPT !.pc = "drop"], "drop", act[a].ctx, act[a].ep, act[a].owes, act[a].left, act[a].pkt, act[a].dir)
    BY <1>0, PcIs DEF PCs
  <2> QED BY <1>2, <2>1, <2>2, BecomesThat DEF Leaves, Turns
<1> QED BY <1>1, <1>2

LEMMA LeaveOneBecomes ==
    ASSUME act \in [Actors -> LocalsType], NEW a \in Actors, Leave(a, [act[a] EXCEPT !.owes = 1])
    PROVE  Leaves(a, 1)
<1> DEFINE one == [act[a] EXCEPT !.owes = 1]
<1>0. act[a] \in LocalsType /\ 1 \in 0..2 /\ "drop" \in PCs
  BY DEF PCs
<1>1. Is(one, act[a].pc, act[a].ctx, act[a].ep, 1, act[a].left, act[a].pkt, act[a].dir)
  BY <1>0, OwesIs
<1>2. one \in LocalsType /\ one.owes = 1 /\ one.ctx = act[a].ctx /\ one.ep = act[a].ep
      /\ one.left = act[a].left /\ one.pkt = act[a].pkt /\ one.dir = act[a].dir
  BY <1>1 DEF Is
<1>3. act' = [act EXCEPT ![a] = IF one.owes = 0 THEN Done(a) ELSE [one EXCEPT !.pc = "drop"]]
  BY DEF Leave
<1> HIDE DEF one
<1>4. act' = [act EXCEPT ![a] = [one EXCEPT !.pc = "drop"]]
  BY <1>2, <1>3
<1>5. Is([one EXCEPT !.pc = "drop"], "drop", one.ctx, one.ep, one.owes, one.left, one.pkt, one.dir)
  BY <1>0, <1>2, PcIs
<1>6. Is([one EXCEPT !.pc = "drop"], "drop", act[a].ctx, act[a].ep, 1, act[a].left, act[a].pkt, act[a].dir)
  BY <1>2, <1>5
<1> HIDE DEF one
<1>7. Becomes(a, "drop", act[a].ctx, act[a].ep, 1, act[a].left, act[a].pkt, act[a].dir)
  BY <1>4, <1>6, BecomesThat
<1> QED BY <1>7 DEF Leaves, Turns

LEMMA RestBecomes ==
    ASSUME act \in [Actors -> LocalsType], NEW a \in Actors, act' = [act EXCEPT ![a] = Rest]
    PROVE  Ends(a, "idle")
BY RestIs, BecomesThat DEF Ends

LEMMA OwesBecomes ==
    ASSUME act \in [Actors -> LocalsType], NEW a \in Actors, NEW p \in PCs, NEW o \in 0..2,
           \/ act' = [act EXCEPT ![a] = [act[a] EXCEPT !.owes = o, !.pc = p]]
           \/ act' = [act EXCEPT ![a] = [act[a] EXCEPT !.pc = p, !.owes = o]]
    PROVE  Turns(a, p, o)
<1>1. act[a] \in LocalsType
  OBVIOUS
<1>2. Is([act[a] EXCEPT !.owes = o, !.pc = p], p, act[a].ctx, act[a].ep, o, act[a].left, act[a].pkt, act[a].dir)
  BY <1>1, OwesPcIs
<1>3. Is([act[a] EXCEPT !.pc = p, !.owes = o], p, act[a].ctx, act[a].ep, o, act[a].left, act[a].pkt, act[a].dir)
  BY <1>1, OwesPcIs
<1>4. CASE act' = [act EXCEPT ![a] = [act[a] EXCEPT !.owes = o, !.pc = p]]
  BY <1>2, <1>4, BecomesThat DEF Turns
<1>5. CASE act' = [act EXCEPT ![a] = [act[a] EXCEPT !.pc = p, !.owes = o]]
  BY <1>3, <1>5, BecomesThat DEF Turns
<1> QED BY <1>4, <1>5

\* The actor of a context in use.
LEMMA InHand ==
    ASSUME Locals, NEW a \in Actors
    PROVE  /\ act \in [Actors -> LocalsType] /\ act[a] \in LocalsType
           /\ act[a].owes \in 0..2 /\ act[a].dir \in Directions
           /\ act[a].left \in 0..MaxBuffers /\ act[a].pkt \in 0..MaxPackets
           /\ act[a].pc \in PCs
BY DEF Locals, LocalsType, PCs

LEMMA ClassifyIs ==
    ASSUME Globals, Locals, NEW k \in Callers, NEW e \in Endpoints, NEW d \in Directions,
           NEW n \in 1..MaxBuffers, Classify(k, e, d, n)
    PROVE  /\ act[k].pc = "idle" /\ made' = made + n /\ made' \in 0..MaxPackets
           /\ Becomes(k, "find", None, e, 0, n, made + 1, d)
<1>1. made \in Nat /\ n \in Nat /\ n >= 1 /\ n <= MaxBuffers /\ MaxPackets \in Nat /\ MaxBuffers \in Nat
  BY Boundaries DEF Globals
<1>2. act[k].pc = "idle" /\ made' = made + n /\ made + n <= MaxPackets
  BY DEF Classify, At
<1>3. made + 1 \in 0..MaxPackets /\ n \in 0..MaxBuffers /\ made' \in 0..MaxPackets
  BY <1>1, <1>2
<1>4. act' = [act EXCEPT ![k] = [Rest EXCEPT !.pc = "find", !.ep = e, !.dir = d, !.left = n, !.pkt = made + 1]]
  BY DEF Classify
<1>5. Is([Rest EXCEPT !.pc = "find", !.ep = e, !.dir = d, !.left = n, !.pkt = made + 1],
         "find", None, e, 0, n, made + 1, d)
  BY <1>3, StartedIs
<1> QED BY <1>2, <1>3, <1>4, <1>5, BecomesThat, InHand, Boundaries

LEMMA ClosureIs ==
    ASSUME Globals, Locals, NEW k \in Callers, NEW e \in Endpoints, Closure(k, e)
    PROVE  /\ act[k].pc = "idle"
           /\ \/ byHandle[e] = None /\ act' = act /\ refs' = refs
              \/ /\ byHandle[e] \in Contexts /\ refs' = [refs EXCEPT ![byHandle[e]] = @ + 1]
                 /\ Becomes(k, "drop", byHandle[e], e, 2, 0, 0, "send")
<1>1. CASE byHandle[e] = None
  BY <1>1 DEF Closure, At
<1>2. CASE byHandle[e] # None
  <2>1. byHandle[e] \in Contexts
    BY <1>2 DEF Globals
  <2>2. act' = [act EXCEPT ![k] = [Rest EXCEPT !.pc = "drop", !.ep = e, !.ctx = byHandle[e], !.owes = 2]]
    BY <1>2 DEF Closure
  <2>3. Is([Rest EXCEPT !.pc = "drop", !.ep = e, !.ctx = byHandle[e], !.owes = 2], "drop", byHandle[e], e, 2, 0, 0, "send")
    BY <2>1, ClosingIs
  <2>4. Becomes(k, "drop", byHandle[e], e, 2, 0, 0, "send")
    BY <2>2, <2>3, BecomesThat, InHand, Boundaries
  <2> QED BY <1>2, <2>1, <2>4 DEF Closure, At, Found
<1> QED BY <1>1, <1>2

LEMMA FindIs ==
    ASSUME Globals, Locals, NEW k \in Callers, Find(k)
    PROVE  /\ act[k].pc = "find" /\ act[k].ep \in Endpoints
           /\ \/ /\ byHandle[act[k].ep] = None /\ Turns(k, "alloc", 0) /\ refs' = refs
              \/ /\ byHandle[act[k].ep] \in Contexts
                 /\ refs' = [refs EXCEPT ![byHandle[act[k].ep]] = @ + 1]
                 /\ Becomes(k, "pend", byHandle[act[k].ep], act[k].ep, 1, act[k].left, act[k].pkt, act[k].dir)
<1>1. act[k].pc = "find" /\ act[k].ep \in Endpoints /\ act[k].owes = 0 /\ k \in Actors
  BY Boundaries DEF Find, At, Locals, Fits, Calling
<1>2. CASE byHandle[act[k].ep] = None
  BY <1>1, <1>2, GotoBecomes, InHand DEF Find, PCs
<1>3. CASE byHandle[act[k].ep] # None
  <2>1. byHandle[act[k].ep] \in Contexts
    BY <1>1, <1>3 DEF Globals
  <2>2. act' = [act EXCEPT ![k] = [act[k] EXCEPT !.ctx = byHandle[act[k].ep], !.owes = 1, !.pc = "pend"]]
    BY <1>3 DEF Find
  <2>3. Is([act[k] EXCEPT !.ctx = byHandle[act[k].ep], !.owes = 1, !.pc = "pend"],
           "pend", byHandle[act[k].ep], act[k].ep, 1, act[k].left, act[k].pkt, act[k].dir)
    BY <1>1, <2>1, HeldIs, InHand
  <2> QED BY <1>1, <1>3, <2>1, <2>2, <2>3, BecomesThat, InHand DEF Find, Found
<1> QED BY <1>1, <1>2, <1>3

LEMMA AllocIs ==
    ASSUME Globals, Locals, NEW k \in Callers, Alloc(k)
    PROVE  /\ act[k].pc = "alloc" /\ act[k].ep \in Endpoints
           /\ \E c \in Contexts :
                /\ state[c] = "unused" /\ state' = [state EXCEPT ![c] = "live"]
                /\ home' = [home EXCEPT ![c] = act[k].ep] /\ refs' = [refs EXCEPT ![c] = 2]
                /\ listed' = listed \cup {c}
                /\ byHandle' = IF byHandle[act[k].ep] = None
                               THEN [byHandle EXCEPT ![act[k].ep] = c] ELSE byHandle
                /\ Becomes(k, "pend", c, act[k].ep, 1, act[k].left, act[k].pkt, act[k].dir)
<1>1. act[k].pc = "alloc" /\ act[k].ep \in Endpoints /\ k \in Actors
  BY Boundaries DEF Alloc, At, Locals, Fits, Calling
<1>2. PICK c \in Contexts :
         /\ state[c] = "unused" /\ state' = [state EXCEPT ![c] = "live"]
         /\ home' = [home EXCEPT ![c] = act[k].ep] /\ refs' = [refs EXCEPT ![c] = 2]
         /\ listed' = listed \cup {c}
         /\ byHandle' = IF byHandle[act[k].ep] = None
                        THEN [byHandle EXCEPT ![act[k].ep] = c] ELSE byHandle
         /\ act' = [act EXCEPT ![k] = [act[k] EXCEPT !.ctx = c, !.owes = 1, !.pc = "pend"]]
  BY DEF Alloc
<1>3. Is([act[k] EXCEPT !.ctx = c, !.owes = 1, !.pc = "pend"],
         "pend", c, act[k].ep, 1, act[k].left, act[k].pkt, act[k].dir)
  BY <1>1, HeldIs, InHand
<1>4. Becomes(k, "pend", c, act[k].ep, 1, act[k].left, act[k].pkt, act[k].dir)
  BY <1>1, <1>2, <1>3, BecomesThat, InHand
<1> QED BY <1>1, <1>2, <1>4

\* The steps of the callout that keep the context they have in hand.
LEMMA CalloutIs ==
    ASSUME Globals, Locals, NEW k \in Callers
    PROVE  /\ AllocFails(k) => act[k].pc = "alloc" /\ Ends(k, "idle")
           /\ Pend(k) => act[k].pc = "pend" /\ Turns(k, "push", 1)
           /\ PendRefused(k) => act[k].pc = "pend" /\ Turns(k, "drop", 1)
           /\ Push(k) => act[k].pc = "push" /\ Turns(k, "code", 1)
           /\ PushFails(k) => act[k].pc = "push" /\ Turns(k, "drop", 1)
<1>0. /\ k \in Actors /\ act \in [Actors -> LocalsType]
      /\ act[k].pc \in {"pend", "push", "code"} => act[k].owes = 1
  BY Boundaries DEF Locals, Fits
<1>1. AllocFails(k) => act[k].pc = "alloc" /\ Ends(k, "idle")
  BY <1>0, RestBecomes DEF AllocFails, At
<1>2. Pend(k) => act[k].pc = "pend" /\ Turns(k, "push", 1)
  BY <1>0, GotoBecomes DEF Pend, At, PCs
<1>3. PendRefused(k) => act[k].pc = "pend" /\ Turns(k, "drop", 1)
  BY <1>0, LeaveBecomes DEF PendRefused, At, Leaves
<1>4. Push(k) => act[k].pc = "push" /\ Turns(k, "code", 1)
  BY <1>0, GotoBecomes DEF Push, At, PCs
<1>5. PushFails(k) => act[k].pc = "push" /\ Turns(k, "drop", 1)
  BY <1>0, LeaveBecomes DEF PushFails, At, Leaves
<1> QED BY <1>1, <1>2, <1>3, <1>4, <1>5

LEMMA PushCodeIs ==
    ASSUME Globals, Locals, NEW k \in Callers, PushCode(k)
    PROVE  /\ act[k].pc = "code"
           /\ \/ /\ act[k].left > 1
                 /\ Becomes(k, "pend", act[k].ctx, act[k].ep, 1, act[k].left - 1, act[k].pkt + 1, act[k].dir)
              \/ act[k].left <= 1 /\ Turns(k, "drop", 1)
<1>0. /\ act[k].pc = "code" /\ k \in Actors /\ act \in [Actors -> LocalsType] /\ act[k].owes = 1
      /\ NextBuffer(k)
  BY Boundaries DEF Locals, Fits, PushCode, At
<1>1. CASE act[k].left > 1
  <2>1. /\ act[k].left \in 0..MaxBuffers /\ act[k].pkt \in 0..MaxPackets /\ made \in 0..MaxPackets
        /\ act[k].pkt + act[k].left - 1 <= made
    BY <1>0, InHand DEF Locals, Fits, Calling, Globals
  <2>2. act[k].left - 1 \in 0..MaxBuffers /\ act[k].pkt + 1 \in 0..MaxPackets
    BY <1>1, <2>1, Boundaries
  <2>3. act' = [act EXCEPT ![k] = [act[k] EXCEPT !.left = act[k].left - 1, !.pkt = act[k].pkt + 1, !.pc = "pend"]]
    BY <1>0, <1>1 DEF NextBuffer
  <2>4. Is([act[k] EXCEPT !.left = act[k].left - 1, !.pkt = act[k].pkt + 1, !.pc = "pend"],
           "pend", act[k].ctx, act[k].ep, act[k].owes, act[k].left - 1, act[k].pkt + 1, act[k].dir)
    BY <1>0, <2>2, NextBufferIs, InHand
  <2> QED BY <1>0, <1>1, <2>3, <2>4, BecomesThat
<1>2. CASE ~(act[k].left > 1)
  <2>1. Leave(k, act[k]) /\ act[k].left \in Nat
    BY <1>0, <1>2, InHand, Boundaries DEF NextBuffer
  <2>2. Turns(k, "drop", 1)
    BY <1>0, <2>1, LeaveBecomes DEF Leaves
  <2> QED BY <1>0, <1>2, <2>1, <2>2
<1> QED BY <1>1, <1>2

LEMMA FreeCtxIs ==
    ASSUME Globals, Locals, NEW a \in Actors, FreeCtx(a)
    PROVE  LET c == act[a].ctx
               o == act[a].owes - 1
           IN /\ act[a].pc = "drop" /\ c \in Contexts /\ act[a].owes \in {1, 2}
              /\ refs' = [refs EXCEPT ![c] = IF @ = 0 THEN 0 ELSE @ - 1]
              /\ \/ refs[c] = 1 /\ listed' = listed \ {c} /\ Turns(a, "unhash", o)
                 \/ /\ refs[c] # 1 /\ listed' = listed /\ o = 0
                    /\ Ends(a, IF a = Worker THEN "next" ELSE "idle")
                 \/ refs[c] # 1 /\ listed' = listed /\ o # 0 /\ Turns(a, "drop", o)
<1> DEFINE c == act[a].ctx
<1> DEFINE o == act[a].owes - 1
<1>0. /\ act[a].pc = "drop" /\ act \in [Actors -> LocalsType] /\ act[a] \in LocalsType
      /\ c \in Contexts /\ act[a].owes # 0 /\ act[a].owes \in 0..2
  BY InHand DEF FreeCtx, At, Locals, Fits
<1>1. o \in 0..2 /\ (act[a].owes = 1 <=> o = 0) /\ act[a].owes \in {1, 2}
  BY <1>0
<1>2. /\ refs' = [refs EXCEPT ![c] = IF @ = 0 THEN 0 ELSE @ - 1]
      /\ listed' = IF refs[c] = 1 THEN listed \ {c} ELSE listed
      /\ act' = [act EXCEPT ![a] =
                    IF refs[c] = 1 THEN [act[a] EXCEPT !.pc = "unhash", !.owes = o]
                    ELSE IF act[a].owes = 1 THEN Done(a)
                    ELSE [act[a] EXCEPT !.owes = o]]
  BY DEF FreeCtx
<1> HIDE DEF o
<1>3. CASE refs[c] = 1
  <2>1. Turns(a, "unhash", o)
    BY <1>0, <1>1, <1>2, <1>3, OwesBecomes DEF PCs
  <2> QED BY <1>0, <1>1, <1>2, <1>3, <2>1 DEF o
<1>4. CASE refs[c] # 1 /\ o = 0
  <2>1. act' = [act EXCEPT ![a] = Done(a)]
    BY <1>1, <1>2, <1>4
  <2>2. Ends(a, IF a = Worker THEN "next" ELSE "idle")
    BY <1>0, <2>1, DoneIs, BecomesThat DEF Ends
  <2> QED BY <1>0, <1>1, <1>2, <1>4, <2>2 DEF o
<1>5. CASE refs[c] # 1 /\ o # 0
  <2>1. act' = [act EXCEPT ![a] = [act[a] EXCEPT !.owes = o]]
    BY <1>1, <1>2, <1>5
  <2>2. Is([act[a] EXCEPT !.owes = o], "drop", act[a].ctx, act[a].ep, o, act[a].left, act[a].pkt, act[a].dir)
    BY <1>0, <1>1, OwesIs
  <2>3. Turns(a, "drop", o)
    BY <1>0, <2>1, <2>2, BecomesThat DEF Turns
  <2> QED BY <1>0, <1>1, <1>2, <1>5, <2>3 DEF o
<1> QED BY <1>3, <1>4, <1>5

LEMMA FreeUnhashIs ==
    ASSUME Globals, Locals, NEW a \in Actors, FreeUnhash(a)
    PROVE  /\ act[a].pc = "unhash" /\ act[a].ctx \in Contexts /\ act[a].owes \in {0, 1}
           /\ Leaves(a, act[a].owes)
<1>0. /\ act[a].pc = "unhash" /\ act \in [Actors -> LocalsType] /\ act[a].owes \in 0..2
      /\ act[a].ctx \in Contexts /\ act[a].owes # 2
  BY InHand DEF FreeUnhash, At, Locals, Fits
<1> QED BY <1>0, LeaveBecomes DEF FreeUnhash

LEMMA ReadIs ==
    ASSUME Globals, Locals
    PROVE  /\ Read => act[Worker].pc = "idle" /\ Turns(Worker, "reading", 0)
           /\ FillPacket => act[Worker].pc = "pop" /\ Turns(Worker, "filling", 0)
           /\ FillFull => act[Worker].pc = "pop" /\ Turns(Worker, "next", 0)
           /\ FillEnd => act[Worker].pc = "filling" /\ Turns(Worker, "next", 0)
           /\ FillCode =>
                /\ codes # <<>> /\ Head(codes) \in Directions
                /\ act[Worker].pc \in {"reading", "filling"}
                /\ Becomes(Worker, "pop", act[Worker].ctx, act[Worker].ep, 0, act[Worker].left,
                           act[Worker].pkt, Head(codes))
<1>0. /\ Worker \in Actors /\ act \in [Actors -> LocalsType] /\ act[Worker] \in LocalsType
      /\ act[Worker].pc \in {"idle", "reading", "filling", "pop", "next"} => act[Worker].owes = 0
  BY Boundaries DEF Locals, Fits
<1>1. Read => act[Worker].pc = "idle" /\ Turns(Worker, "reading", 0)
  BY <1>0, GotoBecomes DEF Read, At, PCs
<1>2. FillPacket => act[Worker].pc = "pop" /\ Turns(Worker, "filling", 0)
  BY <1>0, GotoBecomes DEF FillPacket, At, PCs
<1>3. FillFull => act[Worker].pc = "pop" /\ Turns(Worker, "next", 0)
  BY <1>0, GotoBecomes DEF FillFull, At, PCs
<1>4. FillEnd => act[Worker].pc = "filling" /\ Turns(Worker, "next", 0)
  BY <1>0, GotoBecomes DEF FillEnd, At, PCs
<1>5. ASSUME FillCode
      PROVE  /\ codes # <<>> /\ Head(codes) \in Directions
             /\ act[Worker].pc \in {"reading", "filling"}
             /\ Becomes(Worker, "pop", act[Worker].ctx, act[Worker].ep, 0, act[Worker].left,
                        act[Worker].pkt, Head(codes))
  <2>1. codes # <<>> /\ codes \in Seq(Directions) /\ act[Worker].pc \in {"reading", "filling"}
    BY <1>5 DEF FillCode, At, Globals
  <2>2. Head(codes) \in Directions
    BY <2>1
  <2>3. act' = [act EXCEPT ![Worker] = [act[Worker] EXCEPT !.pc = "pop", !.dir = Head(codes)]]
    BY <1>5 DEF FillCode
  <2>4. Is([act[Worker] EXCEPT !.pc = "pop", !.dir = Head(codes)], "pop", act[Worker].ctx,
           act[Worker].ep, act[Worker].owes, act[Worker].left, act[Worker].pkt, Head(codes))
    BY <1>0, <2>2, PoppedIs
  <2> QED BY <1>0, <2>1, <2>2, <2>3, <2>4, BecomesThat
<1> QED BY <1>1, <1>2, <1>3, <1>4, <1>5

LEMMA NextPacketIs ==
    ASSUME Globals, Locals, NEW deny \in BOOLEAN, NextPacket(deny)
    PROVE  /\ act[Worker].pc = "next"
           /\ \/ batch = <<>> /\ batch' = batch /\ Ends(Worker, "idle")
              \/ /\ batch # <<>> /\ batch' = Tail(batch) /\ Head(batch) \in Boxes
                 /\ \/ act' = act
                    \/ Becomes(Worker, "byId", Head(batch).ctx, None, 0, 0, Head(batch).pkt, Head(batch).dir)
<1>0. Worker \in Actors /\ act \in [Actors -> LocalsType] /\ act[Worker].pc = "next" /\ batch \in Seq(Boxes)
  BY Boundaries DEF Locals, Globals, NextPacket, At
<1>1. CASE batch = <<>>
  BY <1>0, <1>1, RestBecomes DEF NextPacket
<1>2. CASE batch # <<>>
  <2>1. Head(batch) \in Boxes
    BY <1>0, <1>2
  <2>2. Head(batch).ctx \in Contexts /\ Head(batch).pkt \in Packets /\ Head(batch).dir \in Directions
    BY <2>1 DEF Boxes
  <2>3. CASE deny
    BY <1>0, <1>2, <2>1, <2>3 DEF NextPacket
  <2>4. CASE ~deny
    <3>1. act' = [act EXCEPT ![Worker] = [Rest EXCEPT !.pc = "byId", !.ctx = Head(batch).ctx,
                                            !.pkt = Head(batch).pkt, !.dir = Head(batch).dir]]
      BY <1>2, <2>4 DEF NextPacket
    <3>2. Is([Rest EXCEPT !.pc = "byId", !.ctx = Head(batch).ctx, !.pkt = Head(batch).pkt, !.dir = Head(batch).dir],
             "byId", Head(batch).ctx, None, 0, 0, Head(batch).pkt, Head(batch).dir)
      BY <2>2, WrittenIs
    <3>3. Becomes(Worker, "byId", Head(batch).ctx, None, 0, 0, Head(batch).pkt, Head(batch).dir)
      BY <1>0, <3>1, <3>2, BecomesThat
    <3> QED BY <1>0, <1>2, <2>1, <3>3 DEF NextPacket
  <2> QED BY <2>3, <2>4
<1> QED BY <1>1, <1>2

LEMMA RequestIs ==
    ASSUME Globals, Locals
    PROVE  /\ ById => /\ act[Worker].pc = "byId" /\ act[Worker].ctx \in Contexts
                      /\ \/ /\ act[Worker].ctx \in listed
                            /\ refs' = [refs EXCEPT ![act[Worker].ctx] = @ + 1]
                            /\ Turns(Worker, "throttle", 1)
                         \/ act[Worker].ctx \notin listed /\ refs' = refs /\ Turns(Worker, "next", 0)
           /\ Request => /\ act[Worker].pc = "throttle" /\ act[Worker].ctx \in Contexts
                         /\ \/ refs' = refs /\ Turns(Worker, "drop", 1)
                            \/ /\ refs' = [refs EXCEPT ![act[Worker].ctx] = @ + 1]
                               /\ act[Worker].dir \notin busy[act[Worker].ctx]
                               /\ Turns(Worker, "count", 2)
           /\ RequestFails => /\ act[Worker].pc = "throttle" /\ act[Worker].ctx \in Contexts
                              /\ Turns(Worker, "drop", 1)
           /\ CountBytes => /\ act[Worker].pc = "count" /\ act[Worker].ctx \in Contexts
                            /\ Turns(Worker, "inject", 2)
<1>0. /\ Worker \in Actors /\ act \in [Actors -> LocalsType] /\ act[Worker] \in LocalsType
      /\ act[Worker].pc = "byId" => act[Worker].owes = 0
      /\ act[Worker].pc = "throttle" => act[Worker].owes = 1
      /\ act[Worker].pc = "count" => act[Worker].owes = 2
      /\ act[Worker].pc \in {"byId", "throttle", "count"} => act[Worker].ctx \in Contexts
  BY Boundaries DEF Locals, Fits
<1>1. ASSUME ById
      PROVE  /\ act[Worker].pc = "byId"
             /\ \/ /\ act[Worker].ctx \in listed
                   /\ refs' = [refs EXCEPT ![act[Worker].ctx] = @ + 1]
                   /\ Turns(Worker, "throttle", 1)
                \/ act[Worker].ctx \notin listed /\ refs' = refs /\ Turns(Worker, "next", 0)
  <2>1. CASE act[Worker].ctx \in listed
    <3>1. act' = [act EXCEPT ![Worker] = [act[Worker] EXCEPT !.owes = 1, !.pc = "throttle"]]
      BY <1>1, <2>1 DEF ById
    <3>2. 1 \in 0..2 /\ "throttle" \in PCs
      BY DEF PCs
    <3> QED BY <1>0, <1>1, <2>1, <3>1, <3>2, OwesBecomes DEF ById, At, Found
  <2>2. CASE act[Worker].ctx \notin listed
    BY <1>0, <1>1, <2>2, GotoBecomes DEF ById, At, PCs
  <2> QED BY <2>1, <2>2
<1>2. ASSUME Request
      PROVE  /\ act[Worker].pc = "throttle"
             /\ \/ refs' = refs /\ Turns(Worker, "drop", 1)
                \/ /\ refs' = [refs EXCEPT ![act[Worker].ctx] = @ + 1]
                   /\ act[Worker].dir \notin busy[act[Worker].ctx]
                   /\ Turns(Worker, "count", 2)
  <2>1. CASE act[Worker].dir \in busy[act[Worker].ctx]
    BY <1>0, <1>2, <2>1, LeaveBecomes DEF Request, At, Leaves
  <2>2. CASE act[Worker].dir \notin busy[act[Worker].ctx]
    <3>1. act' = [act EXCEPT ![Worker] = [act[Worker] EXCEPT !.owes = 2, !.pc = "count"]]
      BY <1>2, <2>2 DEF Request
    <3>2. 2 \in 0..2 /\ "count" \in PCs
      BY DEF PCs
    <3> QED BY <1>0, <1>2, <2>2, <3>1, <3>2, OwesBecomes DEF Request, At
  <2> QED BY <2>1, <2>2
<1>3. RequestFails => act[Worker].pc = "throttle" /\ Turns(Worker, "drop", 1)
  BY <1>0, LeaveBecomes DEF RequestFails, At, Leaves
<1>4. CountBytes => act[Worker].pc = "count" /\ Turns(Worker, "inject", 2)
  BY <1>0, GotoBecomes DEF CountBytes, At, PCs
<1> QED BY <1>0, <1>1, <1>2, <1>3, <1>4

\* The injection hands a reference to the packet's completion.
LEMMA InjectIs ==
    ASSUME Globals, Locals, Inject
    PROVE  LET w == act[Worker] IN
           /\ w.pc = "inject" /\ w.pkt \in Packets /\ w.ctx \in Contexts /\ w.owes = 2
           /\ act' = [act EXCEPT ![Worker] = act'[Worker], ![w.pkt] = act'[w.pkt]]
           /\ Is(act'[Worker], "drop", w.ctx, w.ep, 1, w.left, w.pkt, w.dir)
           /\ Is(act'[w.pkt], "out", w.ctx, None, 1, 0, 0, w.dir)
<1> DEFINE w == act[Worker]
<1> DEFINE f == [w EXCEPT !.owes = 1, !.pc = "drop"]
<1> DEFINE g == [Rest EXCEPT !.pc = "out", !.ctx = w.ctx, !.owes = 1, !.dir = w.dir]
<1>0. /\ Worker \in Actors /\ act \in [Actors -> LocalsType] /\ w \in LocalsType
      /\ w.pc = "inject" /\ w.owes = 2 /\ w.pkt \in Packets /\ w.ctx \in Contexts /\ w.dir \in Directions
  BY Boundaries, InHand DEF Locals, Fits, Inject, At, Writing
<1>1. act' = [act EXCEPT ![Worker] = f, ![w.pkt] = g]
  BY DEF Inject
<1>2. 1 \in 0..2 /\ "drop" \in PCs
  BY DEF PCs
<1>3. Is(f, "drop", w.ctx, w.ep, 1, w.left, w.pkt, w.dir)
  BY <1>0, <1>2, OwesPcIs
<1>4. Is(g, "out", w.ctx, None, 1, 0, 0, w.dir)
  BY <1>0, InjectedIs
<1> HIDE DEF f, g
<1>5. w.pkt # Worker /\ w.pkt \in Actors
  BY <1>0, Boundaries
<1>6. act'[Worker] = f /\ act'[w.pkt] = g
  BY <1>0, <1>1, <1>5
<1> QED BY <1>0, <1>1, <1>3, <1>4, <1>6

LEMMA InjectFailsIs ==
    ASSUME Globals, Locals, InjectFails
    PROVE  LET w == act[Worker] IN
           /\ w.pc = "inject" /\ w.ctx \in Contexts /\ w.owes = 2
           /\ \/ "inject" \in Failing /\ Uncount(w.ctx, w.dir) /\ Turns(Worker, "drop", 2)
              \/ "header" \in Failing /\ UNCHANGED <<injected, busy>> /\ Turns(Worker, "drop", 1)
<1> DEFINE w == act[Worker]
<1>0. /\ Worker \in Actors /\ act \in [Actors -> LocalsType] /\ w \in LocalsType
      /\ w.pc = "inject" /\ w.owes = 2 /\ w.ctx \in Contexts
  BY Boundaries DEF Locals, Fits, InjectFails, At, Writing
<1>1. CASE "inject" \in Failing /\ Uncount(w.ctx, w.dir) /\ Leave(Worker, w)
  BY <1>0, <1>1, LeaveBecomes DEF Leaves
<1>2. CASE /\ "header" \in Failing /\ UNCHANGED <<injected, busy>>
           /\ Leave(Worker, [w EXCEPT !.owes = 1])
  BY <1>0, <1>2, LeaveOneBecomes DEF Leaves
<1> QED BY <1>0, <1>1, <1>2 DEF InjectFails

LEMMA CompleteIs ==
    ASSUME Globals, Locals, NEW p \in Packets, CompleteBytes(p)
    PROVE  /\ act[p].pc = "out" /\ act[p].ctx \in Contexts /\ act[p].dir \in Directions
           /\ Turns(p, "drop", 1)
<1>0. /\ p \in Actors /\ act \in [Actors -> LocalsType] /\ act[p].pc = "out" /\ act[p].owes = 1
      /\ act[p].ctx \in Contexts /\ act[p].dir \in Directions
  BY Boundaries, InHand DEF Locals, Fits, CompleteBytes, At
<1> QED BY <1>0, GotoBecomes DEF CompleteBytes, PCs

LEMMA CloseIs ==
    ASSUME Globals, Locals, Close
    PROVE  act[Worker].pc \in {"idle", "reading", "next"} /\ Ends(Worker, "idle")
BY RestBecomes, Boundaries DEF Close, At, Locals

-----------------------------------------------------------------------------
(***************************************************************************)
(* The first layer is inductive.                                           *)
(***************************************************************************)

LEMMA MoveFits ==
    ASSUME Globals, Locals, made' \in Nat, made' >= made,
           NEW a \in Actors, Moves(a), act'[a] \in LocalsType, Fits(a, act'[a], made')
    PROVE  Locals'
<1>0. made \in Nat
  BY Boundaries DEF Globals
<1>1. act' \in [Actors -> LocalsType]
  BY DEF Locals, Moves
<1>2. ASSUME NEW b \in Actors PROVE Fits(b, act'[b], made')
  <2>1. CASE b = a  BY <2>1
  <2>2. CASE b # a
    <3>1. act'[b] = act[b] /\ Fits(b, act[b], made)  BY <2>2 DEF Moves, Locals
    <3>2. act[b].pkt \in Nat /\ act[b].left \in Nat
      BY InHand, Boundaries
    <3> QED BY <1>0, <3>1, <3>2 DEF Fits
  <2> QED BY <2>1, <2>2
<1> QED BY <1>1, <1>2 DEF Locals

LEMMA StepsAre ==
    /\ \A k \in Callers : Steps(k) = Calling \cup {"idle", "drop", "unhash"}
    /\ Steps(Worker) = Writing \cup {"idle", "reading", "filling", "pop", "next", "drop", "unhash"}
    /\ \A p \in Packets : Steps(p) = {"idle", "out", "drop", "unhash"}
    /\ \A a \in Actors : {"idle", "drop", "unhash"} \subseteq Steps(a)
BY Boundaries DEF Steps, Actors

\* The actor that gives up what it has in hand.
LEMMA EndsFits ==
    ASSUME NEW a \in Actors, NEW p, Ends(a, p), NEW m,
           p = "idle" \/ (a = Worker /\ p \in {"reading", "filling", "pop", "next"})
    PROVE  Moves(a) /\ act'[a] \in LocalsType /\ Fits(a, act'[a], m)
<1>1. Moves(a) /\ Is(act'[a], p, None, None, 0, 0, 0, "send")
  BY DEF Ends, Becomes
<1>2. act'[a] \in LocalsType /\ act'[a].pc = p /\ act'[a].owes = 0 /\ p \in Steps(a)
  BY <1>1, StepsAre DEF Is
<1> QED BY <1>1, <1>2 DEF Fits, Calling, Writing

\* The actor that owes what it has in hand.
LEMMA DropFits ==
    ASSUME NEW a \in Actors, NEW o \in 0..2, NEW m, act[a].ctx \in Contexts,
           \/ Turns(a, "drop", o) /\ o # 0
           \/ Turns(a, "unhash", o) /\ o # 2
    PROVE  Moves(a) /\ act'[a] \in LocalsType /\ Fits(a, act'[a], m)
<1>1. /\ Moves(a) /\ act'[a] \in LocalsType /\ act'[a].ctx \in Contexts /\ act'[a].owes = o
      /\ \/ act'[a].pc = "drop" /\ o # 0
         \/ act'[a].pc = "unhash" /\ o # 2
  BY DEF Turns, Becomes, Is
<1> QED BY <1>1, StepsAre DEF Fits, Calling, Writing

LEMMA LeavesFits ==
    ASSUME NEW a \in Actors, NEW o \in 0..2, NEW m, act[a].ctx \in Contexts, Leaves(a, o)
    PROVE  Moves(a) /\ act'[a] \in LocalsType /\ Fits(a, act'[a], m)
<1>1. CASE o = 0 /\ Ends(a, IF a = Worker THEN "next" ELSE "idle")
  BY <1>1, EndsFits
<1>2. CASE o # 0 /\ Turns(a, "drop", o)
  BY <1>2, DropFits
<1> QED BY <1>1, <1>2 DEF Leaves

LEMMA CalloutFits ==
    ASSUME Globals, Locals, NEW k \in Callers, CalloutStep(k)
    PROVE  Moves(k) /\ act'[k] \in LocalsType /\ Fits(k, act'[k], made)
<1>0. /\ k \in Actors /\ Fits(k, act[k], made) /\ 1 \in 0..2
      /\ act[k].left \in Nat /\ act[k].pkt \in Nat /\ made \in Nat
  BY Boundaries, InHand DEF Locals, Globals
<1>1. CASE Find(k)
  <2>1. /\ Moves(k) /\ act'[k] \in LocalsType /\ act'[k].ep = act[k].ep
        /\ act'[k].left = act[k].left /\ act'[k].pkt = act[k].pkt
        /\ \/ act'[k].pc = "alloc" /\ act'[k].owes = 0
           \/ act'[k].pc = "pend" /\ act'[k].owes = 1 /\ act'[k].ctx \in Contexts
    BY <1>1, FindIs DEF Turns, Becomes, Is
  <2>2. act[k].pc = "find"
    BY <1>1, FindIs
  <2> QED BY <1>0, <2>1, <2>2, StepsAre DEF Fits, Calling, Writing
<1>2. CASE Alloc(k)
  <2>1. /\ Moves(k) /\ act'[k] \in LocalsType /\ act'[k].ep = act[k].ep
        /\ act'[k].left = act[k].left /\ act'[k].pkt = act[k].pkt
        /\ act'[k].pc = "pend" /\ act'[k].owes = 1 /\ act'[k].ctx \in Contexts
    BY <1>2, AllocIs DEF Becomes, Is
  <2>2. act[k].pc = "alloc"
    BY <1>2, AllocIs
  <2> QED BY <1>0, <2>1, <2>2, StepsAre DEF Fits, Calling, Writing
<1>3. CASE AllocFails(k)
  BY <1>0, <1>3, CalloutIs, EndsFits
<1>4. CASE PendRefused(k) \/ PushFails(k)
  <2>1. Turns(k, "drop", 1) /\ act[k].pc \in {"pend", "push"}
    BY <1>4, CalloutIs
  <2>2. act[k].ctx \in Contexts
    BY <1>0, <2>1 DEF Fits
  <2> QED BY <1>0, <2>1, <2>2, DropFits
<1>5. CASE Pend(k) \/ Push(k)
  <2>1. /\ Moves(k) /\ act'[k] \in LocalsType /\ act'[k].ep = act[k].ep
        /\ act'[k].left = act[k].left /\ act'[k].pkt = act[k].pkt
        /\ act'[k].pc \in {"push", "code"} /\ act'[k].owes = 1 /\ act'[k].ctx = act[k].ctx
    BY <1>5, CalloutIs DEF Turns, Becomes, Is
  <2>2. act[k].pc \in {"pend", "push"}
    BY <1>5, CalloutIs
  <2> QED BY <1>0, <2>1, <2>2, StepsAre DEF Fits, Calling, Writing
<1>6. CASE PushCode(k)
  <2>1. act[k].pc = "code" /\ act[k].ctx \in Contexts
    BY <1>0, <1>6, PushCodeIs DEF Fits
  <2>2. CASE Turns(k, "drop", 1)
    BY <1>0, <2>1, <2>2, DropFits
  <2>3. CASE /\ act[k].left > 1
             /\ Becomes(k, "pend", act[k].ctx, act[k].ep, 1, act[k].left - 1, act[k].pkt + 1, act[k].dir)
    <3>1. /\ Moves(k) /\ act'[k] \in LocalsType /\ act'[k].ep = act[k].ep
          /\ act'[k].left = act[k].left - 1 /\ act'[k].pkt = act[k].pkt + 1
          /\ act'[k].pc = "pend" /\ act'[k].owes = 1 /\ act'[k].ctx = act[k].ctx
      BY <2>3 DEF Becomes, Is
    <3> QED BY <1>0, <2>1, <2>3, <3>1, StepsAre DEF Fits, Calling, Writing
  <2> QED BY <1>6, <2>2, <2>3, PushCodeIs
<1> QED BY <1>1, <1>2, <1>3, <1>4, <1>5, <1>6 DEF CalloutStep

LEMMA WorkerFits ==
    ASSUME Globals, Locals, ServeRead \/ (\E deny \in BOOLEAN : NextPacket(deny)) \/ Read \/ Close
                            \/ ById \/ Request \/ RequestFails \/ CountBytes \/ InjectFails
    PROVE  Moves(Worker) /\ act'[Worker] \in LocalsType /\ Fits(Worker, act'[Worker], made)
<1>0. /\ Worker \in Actors /\ Fits(Worker, act[Worker], made) /\ 1 \in 0..2 /\ 2 \in 0..2
      /\ act \in [Actors -> LocalsType]
  BY Boundaries, InHand DEF Locals
<1>1. CASE ServeRead \/ Read
  <2>1. /\ Moves(Worker) /\ act'[Worker] \in LocalsType /\ act'[Worker].owes = 0
        /\ act'[Worker].pc \in {"reading", "filling", "pop", "next"}
    BY <1>1, ReadIs DEF ServeRead, Turns, Becomes, Is
  <2> QED BY <2>1, StepsAre DEF Fits, Calling, Writing
<1>2. ASSUME NEW deny \in BOOLEAN, NextPacket(deny)
      PROVE  Moves(Worker) /\ act'[Worker] \in LocalsType /\ Fits(Worker, act'[Worker], made)
  <2>1. CASE Ends(Worker, "idle")
    BY <1>0, <2>1, EndsFits
  <2>2. CASE act' = act
    BY <1>0, <2>2 DEF Moves
  <2>3. CASE /\ Head(batch) \in Boxes
             /\ Becomes(Worker, "byId", Head(batch).ctx, None, 0, 0, Head(batch).pkt, Head(batch).dir)
    <3>1. /\ Moves(Worker) /\ act'[Worker] \in LocalsType /\ act'[Worker].owes = 0
          /\ act'[Worker].pc = "byId" /\ act'[Worker].ctx \in Contexts /\ act'[Worker].pkt \in Packets
      BY <2>3 DEF Becomes, Is, Boxes
    <3> QED BY <3>1, StepsAre DEF Fits, Calling, Writing
  <2> QED BY <1>2, <2>1, <2>2, <2>3, NextPacketIs
<1>3. CASE Close
  BY <1>0, <1>3, CloseIs, EndsFits
<1>4. CASE ById \/ Request \/ RequestFails \/ CountBytes \/ InjectFails
  <2>1. /\ act[Worker].pc \in Writing /\ act[Worker].ctx \in Contexts /\ act[Worker].pkt \in Packets
        /\ \/ Turns(Worker, "next", 0) \/ Turns(Worker, "throttle", 1) \/ Turns(Worker, "drop", 1)
           \/ Turns(Worker, "count", 2) \/ Turns(Worker, "inject", 2) \/ Turns(Worker, "drop", 2)
    <3>1. /\ act[Worker].pc \in Writing /\ act[Worker].ctx \in Contexts
          /\ \/ Turns(Worker, "next", 0) \/ Turns(Worker, "throttle", 1) \/ Turns(Worker, "drop", 1)
             \/ Turns(Worker, "count", 2) \/ Turns(Worker, "inject", 2) \/ Turns(Worker, "drop", 2)
      BY <1>4, RequestIs, InjectFailsIs DEF Writing
    <3> QED BY <1>0, <3>1 DEF Fits
  <2>2. CASE Turns(Worker, "drop", 1) \/ Turns(Worker, "drop", 2)
    BY <1>0, <2>1, <2>2, DropFits
  <2>3. CASE \/ Turns(Worker, "next", 0) \/ Turns(Worker, "throttle", 1)
             \/ Turns(Worker, "count", 2) \/ Turns(Worker, "inject", 2)
    <3>1. /\ Moves(Worker) /\ act'[Worker] \in LocalsType
          /\ act'[Worker].ctx \in Contexts /\ act'[Worker].pkt \in Packets
          /\ \/ act'[Worker].pc = "next" /\ act'[Worker].owes = 0
             \/ act'[Worker].pc = "throttle" /\ act'[Worker].owes = 1
             \/ act'[Worker].pc \in {"count", "inject"} /\ act'[Worker].owes = 2
      BY <2>1, <2>3 DEF Turns, Becomes, Is
    <3> QED BY <3>1, StepsAre DEF Fits, Calling, Writing
  <2> QED BY <2>1, <2>2, <2>3
<1> QED BY <1>1, <1>2, <1>3, <1>4

LEMMA StartFits ==
    ASSUME Globals, Locals, NEW k \in Callers, NEW e \in Endpoints,
           \/ \E d \in Directions, n \in 1..MaxBuffers : Classify(k, e, d, n)
           \/ Closure(k, e)
    PROVE  /\ made' \in Nat /\ made' >= made
           /\ Moves(k) /\ act'[k] \in LocalsType /\ Fits(k, act'[k], made')
<1>0. k \in Actors /\ made \in Nat /\ act \in [Actors -> LocalsType] /\ 2 \in 0..2
  BY Boundaries, InHand DEF Globals
<1>1. ASSUME NEW d \in Directions, NEW n \in 1..MaxBuffers, Classify(k, e, d, n)
      PROVE  /\ made' \in Nat /\ made' >= made
             /\ Moves(k) /\ act'[k] \in LocalsType /\ Fits(k, act'[k], made')
  <2>1. /\ made' = made + n /\ n \in Nat /\ n >= 1
        /\ Becomes(k, "find", None, e, 0, n, made + 1, d)
    BY <1>1, ClassifyIs, Boundaries
  <2>2. /\ Moves(k) /\ act'[k] \in LocalsType /\ act'[k].pc = "find" /\ act'[k].ep = e
        /\ act'[k].owes = 0 /\ act'[k].left = n /\ act'[k].pkt = made + 1
    BY <2>1 DEF Becomes, Is
  <2> QED BY <1>0, <2>1, <2>2, StepsAre DEF Fits, Calling, Writing
<1>2. CASE Closure(k, e)
  <2>1. made' = made
    BY <1>2 DEF Closure
  <2>2. CASE act' = act
    BY <1>0, <2>1, <2>2 DEF Moves, Locals
  <2>3. CASE byHandle[e] \in Contexts /\ Becomes(k, "drop", byHandle[e], e, 2, 0, 0, "send")
    <3>1. /\ Moves(k) /\ act'[k] \in LocalsType /\ act'[k].pc = "drop"
          /\ act'[k].owes = 2 /\ act'[k].ctx \in Contexts
      BY <2>3 DEF Becomes, Is
    <3> QED BY <1>0, <2>1, <3>1, StepsAre DEF Fits, Calling, Writing
  <2> QED BY <1>2, <2>2, <2>3, ClosureIs
<1> QED BY <1>1, <1>2

LEMMA FreeFits ==
    ASSUME Globals, Locals, NEW a \in Actors, FreeCtx(a) \/ FreeUnhash(a)
    PROVE  Moves(a) /\ act'[a] \in LocalsType /\ Fits(a, act'[a], made)
<1>1. CASE FreeCtx(a)
  <2> DEFINE o == act[a].owes - 1
  <2>1. act[a].ctx \in Contexts /\ o \in {0, 1} /\ o \in 0..2 /\ o # 2
    BY <1>1, FreeCtxIs
  <2>2. \/ Turns(a, "unhash", o)
        \/ o = 0 /\ Ends(a, IF a = Worker THEN "next" ELSE "idle")
        \/ o # 0 /\ Turns(a, "drop", o)
    BY <1>1, FreeCtxIs
  <2> HIDE DEF o
  <2>3. Turns(a, "unhash", o) \/ Leaves(a, o)
    BY <2>2 DEF Leaves
  <2> QED BY <2>1, <2>3, DropFits, LeavesFits
<1>2. CASE FreeUnhash(a)
  <2>1. act[a].ctx \in Contexts /\ act[a].owes \in 0..2 /\ Leaves(a, act[a].owes)
    BY <1>2, FreeUnhashIs, InHand
  <2> QED BY <2>1, LeavesFits
<1> QED BY <1>1, <1>2

LEMMA CompleteFits ==
    ASSUME Globals, Locals, NEW p \in Packets, CompleteBytes(p)
    PROVE  Moves(p) /\ act'[p] \in LocalsType /\ Fits(p, act'[p], made)
<1>1. p \in Actors /\ 1 \in 0..2 /\ act[p].ctx \in Contexts /\ Turns(p, "drop", 1)
  BY CompleteIs, Boundaries
<1> QED BY <1>1, DropFits

LEMMA InjectFits ==
    ASSUME Globals, Locals, Inject
    PROVE  Locals'
<1> DEFINE w == act[Worker]
<1>1. /\ w.pkt \in Packets /\ w.ctx \in Contexts /\ act \in [Actors -> LocalsType]
      /\ act' = [act EXCEPT ![Worker] = act'[Worker], ![w.pkt] = act'[w.pkt]]
      /\ Is(act'[Worker], "drop", w.ctx, w.ep, 1, w.left, w.pkt, w.dir)
      /\ Is(act'[w.pkt], "out", w.ctx, None, 1, 0, 0, w.dir)
      /\ made' = made
  BY InjectIs, InHand, Boundaries DEF Inject
<1>2. Worker \in Actors /\ w.pkt \in Actors
  BY <1>1, Boundaries
<1>3. act'[Worker] \in LocalsType /\ Fits(Worker, act'[Worker], made)
  BY <1>1, <1>2, StepsAre DEF Is, Fits, Calling, Writing
<1>4. act'[w.pkt] \in LocalsType /\ Fits(w.pkt, act'[w.pkt], made)
  BY <1>1, <1>2, StepsAre DEF Is, Fits, Calling, Writing
<1>5. \A b \in Actors : b # Worker /\ b # w.pkt => act'[b] = act[b]
  BY <1>1, <1>2
<1> HIDE DEF w
<1>6. act' \in [Actors -> LocalsType]
  BY <1>1, <1>2, <1>3, <1>4
<1>7. ASSUME NEW b \in Actors PROVE Fits(b, act'[b], made')
  BY <1>1, <1>3, <1>4, <1>5 DEF Locals
<1> QED BY <1>6, <1>7 DEF Locals

LEMMA SameFits ==
    ASSUME Locals, UNCHANGED <<act, made>> PROVE Locals'
BY DEF Locals

LEMMA LocalsNext ==
    ASSUME Globals, Locals, [Next]_vars
    PROVE  Locals'
<1>0. made \in Nat
  BY Boundaries DEF Globals
<1>a. ASSUME NEW a \in Actors, Moves(a), act'[a] \in LocalsType, Fits(a, act'[a], made), made' = made
      PROVE  Locals'
  BY <1>0, <1>a, MoveFits
<1>1. ASSUME NEW k \in Callers, NEW e \in Endpoints,
             \/ \E d \in Directions, n \in 1..MaxBuffers : Classify(k, e, d, n)
             \/ Closure(k, e)
      PROVE  Locals'
  BY <1>1, StartFits, MoveFits, Boundaries
<1>2. ASSUME NEW k \in Callers, CalloutStep(k) PROVE Locals'
  <2>1. made' = made /\ k \in Actors
    BY <1>2, Boundaries DEF CalloutStep, Find, Alloc, AllocFails, Pend, PendRefused, Push, PushFails, PushCode
  <2> QED BY <1>2, <1>a, <2>1, CalloutFits
<1>3. ASSUME NEW a \in Actors, FreeCtx(a) \/ FreeUnhash(a) PROVE Locals'
  <2>1. made' = made
    BY <1>3 DEF FreeCtx, FreeUnhash
  <2> QED BY <1>3, <1>a, <2>1, FreeFits
<1>4. CASE ServeRead \/ (\E deny \in BOOLEAN : NextPacket(deny)) \/ Read \/ Close
           \/ ById \/ Request \/ RequestFails \/ CountBytes \/ InjectFails
  <2>1. made' = made /\ Worker \in Actors
    BY <1>4, Boundaries DEF ServeRead, FillCode, FillPacket, FillFull, FillEnd, NextPacket, Read, Close,
       ById, Request, RequestFails, CountBytes, InjectFails
  <2> QED BY <1>4, <1>a, <2>1, WorkerFits
<1>5. CASE Inject
  BY <1>5, InjectFits
<1>6. ASSUME NEW p \in Packets, CompleteBytes(p) PROVE Locals'
  <2>1. made' = made /\ p \in Actors
    BY <1>6, Boundaries DEF CompleteBytes
  <2> QED BY <1>6, <1>a, <2>1, CompleteFits
<1>7. CASE Open \/ CloseStep \/ UNCHANGED vars
  <2>1. UNCHANGED <<act, made>>
    BY <1>7 DEF Open, CloseStep, PauseEnds, CleanQueue, CleanContexts, CleanCodes, vars
  <2> QED BY <2>1, SameFits
<1> QED
  BY <1>1, <1>2, <1>3, <1>4, <1>5, <1>6, <1>7 DEF Next, WorkerStep, WriteBack

\* Which steps leave which variables alone.
LEMMA SessionKept ==
    ASSUME [Next]_vars
    PROVE  Open \/ Close \/ CloseStep \/ UNCHANGED sesVars
<1>1. ASSUME NEW k \in Callers, NEW e \in Endpoints,
             \/ \E d \in Directions, n \in 1..MaxBuffers : Classify(k, e, d, n)
             \/ Closure(k, e)
      PROVE  UNCHANGED sesVars
  BY <1>1 DEF Classify, Closure
<1>2. ASSUME NEW k \in Callers, CalloutStep(k) PROVE UNCHANGED sesVars
  BY <1>2 DEF CalloutStep, Find, Alloc, AllocFails, Pend, PendRefused, Push, PushFails, PushCode
<1>3. ASSUME NEW a \in Actors, FreeCtx(a) \/ FreeUnhash(a) PROVE UNCHANGED sesVars
  BY <1>3 DEF FreeCtx, FreeUnhash
<1>4. ASSUME ServeRead \/ WorkerStep PROVE UNCHANGED sesVars
  BY <1>4 DEF ServeRead, FillCode, FillPacket, FillFull, FillEnd, WorkerStep, NextPacket, Read,
     WriteBack, ById, Request, RequestFails, CountBytes, Inject, InjectFails
<1>5. ASSUME NEW p \in Packets, CompleteBytes(p) PROVE UNCHANGED sesVars
  BY <1>5 DEF CompleteBytes
<1>6. ASSUME UNCHANGED vars PROVE UNCHANGED sesVars
  BY <1>6 DEF vars
<1> QED BY <1>1, <1>2, <1>3, <1>4, <1>5, <1>6 DEF Next

LEMMA ContextsKept ==
    ASSUME [Next]_vars
    PROVE  \/ UNCHANGED ctxVars
           \/ \E k \in Callers : Find(k) \/ Alloc(k) \/ \E e \in Endpoints : Closure(k, e)
           \/ \E a \in Actors : FreeCtx(a) \/ FreeUnhash(a)
           \/ ById \/ Request \/ CleanContexts
<1>1. ASSUME NEW k \in Callers, NEW e \in Endpoints, NEW d \in Directions, NEW n \in 1..MaxBuffers,
             Classify(k, e, d, n)
      PROVE  UNCHANGED ctxVars
  BY <1>1 DEF Classify
<1>2. ASSUME NEW k \in Callers, CalloutStep(k), ~Find(k), ~Alloc(k) PROVE UNCHANGED ctxVars
  BY <1>2 DEF CalloutStep, AllocFails, Pend, PendRefused, Push, PushFails, PushCode
<1>4. ASSUME ServeRead \/ WorkerStep, ~ById, ~Request PROVE UNCHANGED ctxVars
  BY <1>4 DEF ServeRead, FillCode, FillPacket, FillFull, FillEnd, WorkerStep, NextPacket, Read,
     WriteBack, RequestFails, CountBytes, Inject, InjectFails
<1>5. ASSUME NEW p \in Packets, CompleteBytes(p) PROVE UNCHANGED ctxVars
  BY <1>5 DEF CompleteBytes
<1>6. ASSUME Open \/ Close \/ CloseStep \/ UNCHANGED vars, ~CleanContexts PROVE UNCHANGED ctxVars
  BY <1>6 DEF vars, Open, Close, CloseStep, PauseEnds, CleanQueue, CleanCodes
<1> QED BY <1>1, <1>2, <1>4, <1>5, <1>6 DEF Next

LEMMA BytesKept ==
    ASSUME [Next]_vars
    PROVE  \/ UNCHANGED byteVars
           \/ \E k \in Callers : Pend(k) \/ PushFails(k)
           \/ CountBytes \/ InjectFails \/ \E p \in Packets : CompleteBytes(p)
<1>1. ASSUME NEW k \in Callers, NEW e \in Endpoints,
             \/ \E d \in Directions, n \in 1..MaxBuffers : Classify(k, e, d, n)
             \/ Closure(k, e)
      PROVE  UNCHANGED byteVars
  BY <1>1 DEF Classify, Closure
<1>2. ASSUME NEW k \in Callers, CalloutStep(k), ~Pend(k), ~PushFails(k) PROVE UNCHANGED byteVars
  BY <1>2 DEF CalloutStep, Find, Alloc, AllocFails, PendRefused, Push, PushCode
<1>3. ASSUME NEW a \in Actors, FreeCtx(a) \/ FreeUnhash(a) PROVE UNCHANGED byteVars
  BY <1>3 DEF FreeCtx, FreeUnhash
<1>4. ASSUME ServeRead \/ WorkerStep, ~CountBytes, ~InjectFails PROVE UNCHANGED byteVars
  BY <1>4 DEF ServeRead, FillCode, FillPacket, FillFull, FillEnd, WorkerStep, NextPacket, Read,
     WriteBack, RequestFails, ById, Request, Inject
<1>6. ASSUME Open \/ Close \/ CloseStep \/ UNCHANGED vars PROVE UNCHANGED byteVars
  BY <1>6 DEF vars, Open, Close, CloseStep, PauseEnds, CleanQueue, CleanContexts, CleanCodes
<1> QED BY <1>1, <1>2, <1>3, <1>4, <1>6 DEF Next

LEMMA QueuesKept ==
    ASSUME [Next]_vars
    PROVE  \/ UNCHANGED ioVars
           \/ \E k \in Callers : Push(k) \/ PushCode(k)
           \/ FillCode \/ FillPacket \/ FillFull \/ (\E deny \in BOOLEAN : NextPacket(deny))
           \/ Close \/ CleanQueue \/ CleanCodes
<1>1. ASSUME NEW k \in Callers, NEW e \in Endpoints,
             \/ \E d \in Directions, n \in 1..MaxBuffers : Classify(k, e, d, n)
             \/ Closure(k, e)
      PROVE  UNCHANGED ioVars
  BY <1>1 DEF Classify, Closure
<1>2. ASSUME NEW k \in Callers, CalloutStep(k), ~Push(k), ~PushCode(k) PROVE UNCHANGED ioVars
  BY <1>2 DEF CalloutStep, Find, Alloc, AllocFails, PendRefused, Pend, PushFails
<1>3. ASSUME NEW a \in Actors, FreeCtx(a) \/ FreeUnhash(a) PROVE UNCHANGED ioVars
  BY <1>3 DEF FreeCtx, FreeUnhash
<1>4. ASSUME FillEnd \/ Read \/ WriteBack PROVE UNCHANGED ioVars
  BY <1>4 DEF FillEnd, Read, WriteBack, RequestFails, ById, Request, Inject, InjectFails, CountBytes
<1>5. ASSUME NEW p \in Packets, CompleteBytes(p) PROVE UNCHANGED ioVars
  BY <1>5 DEF CompleteBytes
<1>6. ASSUME Open \/ PauseEnds \/ CleanContexts \/ UNCHANGED vars PROVE UNCHANGED ioVars
  BY <1>6 DEF vars, Open, PauseEnds, CleanContexts
<1> QED BY <1>1, <1>2, <1>3, <1>4, <1>5, <1>6 DEF Next, ServeRead, WorkerStep, CloseStep

LEMMA SessionTyped ==
    ASSUME Globals, [Next]_vars
    PROVE  /\ monitor' \in BOOLEAN /\ opens' \in 0..Sessions
           /\ session' \in {"closed", "open", "pause", "cleanQueue", "cleanContexts", "cleanCodes"}
<1>0. Sessions \in Nat /\ monitor \in BOOLEAN /\ opens \in 0..Sessions
      /\ session \in {"closed", "open", "pause", "cleanQueue", "cleanContexts", "cleanCodes"}
  BY UdpAssumption DEF Globals
<1>1. CASE Open
  BY <1>0, <1>1 DEF Open
<1>2. CASE Close
  BY <1>0, <1>2 DEF Close
<1>3. CASE CloseStep
  BY <1>0, <1>3 DEF CloseStep, PauseEnds, CleanQueue, CleanContexts, CleanCodes
<1>4. CASE UNCHANGED sesVars
  BY <1>0, <1>4 DEF sesVars
<1> QED BY <1>1, <1>2, <1>3, <1>4, SessionKept

LEMMA MadeTyped ==
    ASSUME Globals, Locals, [Next]_vars
    PROVE  made' \in 0..MaxPackets /\ closed' \in SUBSET Endpoints
<1>1. ASSUME NEW k \in Callers, NEW e \in Endpoints, NEW d \in Directions, NEW n \in 1..MaxBuffers,
             Classify(k, e, d, n)
      PROVE  made' \in 0..MaxPackets /\ closed' = closed
  BY <1>1, ClassifyIs DEF Classify
<1>2. ASSUME NEW k \in Callers, NEW e \in Endpoints, Closure(k, e)
      PROVE  made' = made /\ closed' = closed \cup {e}
  BY <1>2 DEF Closure
<1>3. ASSUME NEW k \in Callers, CalloutStep(k) PROVE UNCHANGED <<made, closed>>
  BY <1>3 DEF CalloutStep, Find, Alloc, AllocFails, Pend, PendRefused, Push, PushFails, PushCode
<1>4. ASSUME NEW a \in Actors, FreeCtx(a) \/ FreeUnhash(a) PROVE UNCHANGED <<made, closed>>
  BY <1>4 DEF FreeCtx, FreeUnhash
<1>5. ASSUME ServeRead \/ WorkerStep PROVE UNCHANGED <<made, closed>>
  BY <1>5 DEF ServeRead, FillCode, FillPacket, FillFull, FillEnd, WorkerStep, NextPacket, Read,
     WriteBack, ById, Request, RequestFails, CountBytes, Inject, InjectFails
<1>6. ASSUME NEW p \in Packets, CompleteBytes(p) PROVE UNCHANGED <<made, closed>>
  BY <1>6 DEF CompleteBytes
<1>7. ASSUME Open \/ Close \/ CloseStep \/ UNCHANGED vars PROVE UNCHANGED <<made, closed>>
  BY <1>7 DEF vars, Open, Close, CloseStep, PauseEnds, CleanQueue, CleanContexts, CleanCodes
<1>8. made \in 0..MaxPackets /\ closed \in SUBSET Endpoints
  BY DEF Globals
<1>9. CASE UNCHANGED <<made, closed>>
  BY <1>8, <1>9
<1> QED BY <1>1, <1>2, <1>3, <1>4, <1>5, <1>6, <1>7, <1>8, <1>9 DEF Next

LEMMA ContextsTyped ==
    ASSUME Globals, Locals, [Next]_vars
    PROVE  /\ state' \in [Contexts -> {"unused", "live", "freed"}]
           /\ home' \in [Contexts -> Endpoints \cup {None}]
           /\ refs' \in [Contexts -> Nat]
           /\ listed' \in SUBSET Contexts
           /\ byHandle' \in [Endpoints -> Contexts \cup {None}]
<1>0. /\ state \in [Contexts -> {"unused", "live", "freed"}]
      /\ home \in [Contexts -> Endpoints \cup {None}]
      /\ refs \in [Contexts -> Nat]
      /\ listed \in SUBSET Contexts
      /\ byHandle \in [Endpoints -> Contexts \cup {None}]
  BY DEF Globals
<1>1. CASE UNCHANGED ctxVars
  BY <1>0, <1>1 DEF ctxVars
<1>2. ASSUME NEW k \in Callers, Find(k) \/ \E e \in Endpoints : Closure(k, e)
      PROVE  UNCHANGED <<state, home, listed, byHandle>> /\ refs' \in [Contexts -> Nat]
  <2>1. CASE Find(k)
    <3>1. UNCHANGED <<state, home, listed, byHandle>>
      BY <2>1 DEF Find
    <3>2. \/ refs' = refs
          \/ /\ byHandle[act[k].ep] \in Contexts
             /\ refs' = [refs EXCEPT ![byHandle[act[k].ep]] = @ + 1]
      BY <2>1, FindIs
    <3> QED BY <1>0, <3>1, <3>2
  <2>2. ASSUME NEW e \in Endpoints, Closure(k, e)
        PROVE  UNCHANGED <<state, home, listed, byHandle>> /\ refs' \in [Contexts -> Nat]
    <3>1. UNCHANGED <<state, home, listed, byHandle>>
      BY <2>2 DEF Closure
    <3>2. \/ refs' = refs
          \/ /\ byHandle[e] \in Contexts
             /\ refs' = [refs EXCEPT ![byHandle[e]] = @ + 1]
      BY <2>2, ClosureIs
    <3> QED BY <1>0, <3>1, <3>2
  <2> QED BY <1>2, <2>1, <2>2
<1>3. ASSUME NEW k \in Callers, Alloc(k)
      PROVE  /\ state' \in [Contexts -> {"unused", "live", "freed"}]
             /\ home' \in [Contexts -> Endpoints \cup {None}]
             /\ refs' \in [Contexts -> Nat]
             /\ listed' \in SUBSET Contexts
             /\ byHandle' \in [Endpoints -> Contexts \cup {None}]
  BY <1>0, <1>3, AllocIs
<1>4. ASSUME NEW a \in Actors, FreeCtx(a)
      PROVE  /\ UNCHANGED <<state, home, byHandle>> /\ refs' \in [Contexts -> Nat]
             /\ listed' \in SUBSET Contexts
  <2>1. UNCHANGED <<state, home, byHandle>>
    BY <1>4 DEF FreeCtx
  <2>2. /\ act[a].ctx \in Contexts
        /\ refs' = [refs EXCEPT ![act[a].ctx] = IF @ = 0 THEN 0 ELSE @ - 1]
        /\ listed' = listed \ {act[a].ctx} \/ listed' = listed
    BY <1>4, FreeCtxIs
  <2> QED BY <1>0, <2>1, <2>2
<1>5. ASSUME NEW a \in Actors, FreeUnhash(a)
      PROVE  /\ state' \in [Contexts -> {"unused", "live", "freed"}]
             /\ home' \in [Contexts -> Endpoints \cup {None}]
             /\ UNCHANGED <<refs, listed>>
             /\ byHandle' \in [Endpoints -> Contexts \cup {None}]
  BY <1>0, <1>5, FreeUnhashIs DEF FreeUnhash
<1>6. ASSUME ById \/ Request
      PROVE  UNCHANGED <<state, home, listed, byHandle>> /\ refs' \in [Contexts -> Nat]
  BY <1>0, <1>6, RequestIs DEF ById, Request
<1>7. ASSUME CleanContexts
      PROVE  /\ state' \in [Contexts -> {"unused", "live", "freed"}]
             /\ home' \in [Contexts -> Endpoints \cup {None}]
             /\ refs' = refs /\ listed' = {}
             /\ byHandle' \in [Endpoints -> Contexts \cup {None}]
  BY <1>0, <1>7 DEF CleanContexts
<1> QED BY <1>0, <1>1, <1>2, <1>3, <1>4, <1>5, <1>6, <1>7, ContextsKept

\* One direction's count of one context.
LEMMA CountTyped ==
    ASSUME NEW f \in [Contexts -> [Directions -> Int]], NEW c \in Contexts, NEW d \in Directions,
           NEW n \in Int
    PROVE  /\ [f EXCEPT ![c][d] = n] \in [Contexts -> [Directions -> Int]]
           /\ \A b \in Contexts, e \in Directions :
                [f EXCEPT ![c][d] = n][b][e] = IF b = c /\ e = d THEN n ELSE f[b][e]
OBVIOUS

LEMMA UncountTyped ==
    ASSUME Globals, NEW c \in Contexts, NEW d \in Directions, Uncount(c, d)
    PROVE  /\ injected' \in [Contexts -> [Directions -> Int]]
           /\ busy' \in [Contexts -> SUBSET Directions]
           /\ \A b \in Contexts, e \in Directions :
                /\ b # c \/ e # d => injected'[b][e] = injected[b][e] /\ (e \in busy'[b] <=> e \in busy[b])
                /\ b = c /\ e = d => /\ injected'[b][e] = injected[b][e] - 1
                                     /\ injected'[b][e] <= Limit => e \notin busy'[b]
                                     /\ injected'[b][e] > Limit => (e \in busy'[b] <=> e \in busy[b])
<1>0. /\ injected \in [Contexts -> [Directions -> Int]] /\ busy \in [Contexts -> SUBSET Directions]
      /\ Limit \in Nat
  BY Boundaries DEF Globals
<1> DEFINE n == injected[c][d] - 1
<1>1. n \in Int
  BY <1>0
<1>2. /\ injected' = [injected EXCEPT ![c][d] = n]
      /\ busy' = IF n <= Limit THEN [busy EXCEPT ![c] = busy[c] \ {d}] ELSE busy
  BY DEF Uncount
<1>3. /\ injected' \in [Contexts -> [Directions -> Int]]
      /\ \A b \in Contexts, e \in Directions :
           injected'[b][e] = IF b = c /\ e = d THEN n ELSE injected[b][e]
  BY <1>0, <1>1, <1>2, CountTyped
<1> HIDE DEF n
<1>4. CASE n <= Limit
  <2>1. busy' = [busy EXCEPT ![c] = busy[c] \ {d}]
    BY <1>2, <1>4
  <2>2. busy' \in [Contexts -> SUBSET Directions]
    BY <1>0, <2>1
  <2>3. \A b \in Contexts, e \in Directions :
          /\ b # c \/ e # d => (e \in busy'[b] <=> e \in busy[b])
          /\ b = c /\ e = d => e \notin busy'[b]
    BY <1>0, <2>1
  <2> QED BY <1>1, <1>3, <1>4, <2>2, <2>3, <1>0 DEF n
<1>5. CASE ~(n <= Limit)
  BY <1>0, <1>1, <1>2, <1>3, <1>5 DEF n
<1> QED BY <1>4, <1>5

LEMMA CountIs ==
    ASSUME Globals, Locals, CountBytes
    PROVE  LET c == act[Worker].ctx
               d == act[Worker].dir
           IN /\ c \in Contexts /\ d \in Directions
              /\ injected' \in [Contexts -> [Directions -> Int]]
              /\ busy' \in [Contexts -> SUBSET Directions]
              /\ \A b \in Contexts, e \in Directions :
                   /\ b # c \/ e # d => injected'[b][e] = injected[b][e] /\ (e \in busy'[b] <=> e \in busy[b])
                   /\ b = c /\ e = d => /\ injected'[b][e] = injected[b][e] + 1
                                        /\ injected'[b][e] > Limit => e \in busy'[b]
                                        /\ injected'[b][e] <= Limit => (e \in busy'[b] <=> e \in busy[b])
<1> DEFINE c == act[Worker].ctx
<1> DEFINE d == act[Worker].dir
<1>0. /\ injected \in [Contexts -> [Directions -> Int]] /\ busy \in [Contexts -> SUBSET Directions]
      /\ Limit \in Nat /\ c \in Contexts /\ d \in Directions
  BY Boundaries, RequestIs, InHand DEF Globals
<1> DEFINE n == injected[c][d] + 1
<1>1. n \in Int
  BY <1>0
<1>2. /\ injected' = [injected EXCEPT ![c][d] = n]
      /\ busy' = IF n > Limit THEN [busy EXCEPT ![c] = busy[c] \cup {d}] ELSE busy
  BY DEF CountBytes
<1> HIDE DEF c, d
<1>3. /\ injected' \in [Contexts -> [Directions -> Int]]
      /\ \A b \in Contexts, e \in Directions :
           injected'[b][e] = IF b = c /\ e = d THEN n ELSE injected[b][e]
  BY <1>0, <1>1, <1>2, CountTyped
<1> HIDE DEF n
<1>4. CASE n > Limit
  <2>1. busy' = [busy EXCEPT ![c] = busy[c] \cup {d}]
    BY <1>2, <1>4
  <2>2. busy' \in [Contexts -> SUBSET Directions]
    BY <1>0, <2>1
  <2>3. \A b \in Contexts, e \in Directions :
          /\ b # c \/ e # d => (e \in busy'[b] <=> e \in busy[b])
          /\ b = c /\ e = d => e \in busy'[b]
    BY <1>0, <2>1
  <2> QED BY <1>1, <1>3, <1>4, <2>2, <2>3, <1>0 DEF n, c, d
<1>5. CASE ~(n > Limit)
  BY <1>0, <1>1, <1>2, <1>3, <1>5 DEF n, c, d
<1> QED BY <1>4, <1>5

LEMMA PendIs ==
    ASSUME Globals, Locals, NEW k \in Callers, NEW n \in Int,
           act[k].pc \in {"pend", "push"},
           pended' = [pended EXCEPT ![act[k].ctx][act[k].dir] = n]
    PROVE  /\ act[k].ctx \in Contexts /\ act[k].dir \in Directions
           /\ pended' \in [Contexts -> [Directions -> Int]]
           /\ \A b \in Contexts, e \in Directions :
                pended'[b][e] = IF b = act[k].ctx /\ e = act[k].dir THEN n ELSE pended[b][e]
<1>1. /\ act[k].ctx \in Contexts /\ act[k].dir \in Directions
      /\ pended \in [Contexts -> [Directions -> Int]]
  BY Boundaries, InHand DEF Globals, Locals, Fits
<1> QED BY <1>1, CountTyped

LEMMA BytesTyped ==
    ASSUME Globals, Locals, [Next]_vars
    PROVE  /\ pended' \in [Contexts -> [Directions -> Int]]
           /\ injected' \in [Contexts -> [Directions -> Int]]
           /\ busy' \in [Contexts -> SUBSET Directions]
<1>0. /\ pended \in [Contexts -> [Directions -> Int]]
      /\ injected \in [Contexts -> [Directions -> Int]]
      /\ busy \in [Contexts -> SUBSET Directions]
  BY DEF Globals
<1>1. CASE UNCHANGED byteVars
  BY <1>0, <1>1 DEF byteVars
<1>2. ASSUME NEW k \in Callers, Pend(k) \/ PushFails(k)
      PROVE  UNCHANGED <<injected, busy>> /\ pended' \in [Contexts -> [Directions -> Int]]
  <2>1. act[k].pc \in {"pend", "push"} /\ UNCHANGED <<injected, busy>>
    BY <1>2, CalloutIs DEF Pend, PushFails
  <2>2. act[k].ctx \in Contexts /\ act[k].dir \in Directions
    BY <2>1, Boundaries, InHand DEF Locals, Fits
  <2>3. \E n \in Int : pended' = [pended EXCEPT ![act[k].ctx][act[k].dir] = n]
    <3>1. pended[act[k].ctx][act[k].dir] \in Int
      BY <1>0, <2>2
    <3>2. ASSUME Pend(k)
          PROVE  pended' = [pended EXCEPT ![act[k].ctx][act[k].dir] = pended[act[k].ctx][act[k].dir] + 1]
      BY <3>2 DEF Pend
    <3>3. ASSUME PushFails(k)
          PROVE  pended' = [pended EXCEPT ![act[k].ctx][act[k].dir] = pended[act[k].ctx][act[k].dir] - 1]
      BY <3>3 DEF PushFails
    <3> DEFINE c == act[k].ctx
    <3> DEFINE d == act[k].dir
    <3>4. pended[c][d] + 1 \in Int /\ pended[c][d] - 1 \in Int
      BY <3>1
    <3> HIDE DEF c, d
    <3> QED BY <1>2, <3>2, <3>3, <3>4 DEF c, d
  <2> QED BY <2>1, <2>3, PendIs
<1>3. CASE CountBytes
  BY <1>0, <1>3, CountIs DEF CountBytes
<1>4. CASE InjectFails
  <2>1. /\ pended' = pended /\ act[Worker].ctx \in Contexts /\ act[Worker].dir \in Directions
        /\ Uncount(act[Worker].ctx, act[Worker].dir) \/ UNCHANGED <<injected, busy>>
    BY <1>4, InjectFailsIs, InHand, Boundaries DEF InjectFails
  <2> QED BY <1>0, <2>1, UncountTyped
<1>5. ASSUME NEW p \in Packets, CompleteBytes(p)
      PROVE  /\ pended' = pended /\ injected' \in [Contexts -> [Directions -> Int]]
             /\ busy' \in [Contexts -> SUBSET Directions]
  BY <1>5, CompleteIs, UncountTyped DEF CompleteBytes
<1> QED BY <1>0, <1>1, <1>2, <1>3, <1>4, <1>5, BytesKept

\* What the steps of the queues do.
LEMMA PushIs ==
    ASSUME Globals, Locals, NEW k \in Callers, Push(k)
    PROVE  /\ act[k].pkt \in Packets /\ act[k].ctx \in Contexts
           /\ Entry(act[k].pkt, act[k].ctx, act[k].dir) \in Boxes
           /\ queue' = <<Entry(act[k].pkt, act[k].ctx, act[k].dir)>> \o queue
           /\ queue' \in Seq(Boxes)
<1>1. /\ act[k].pkt \in 0..MaxPackets /\ act[k].pkt >= 1 /\ act[k].ctx \in Contexts
      /\ act[k].dir \in Directions /\ MaxPackets \in Nat
  BY Boundaries, InHand DEF Push, At, Locals, Fits, Calling
<1>2. act[k].pkt \in Packets
  BY <1>1 DEF Packets
<1>3. Entry(act[k].pkt, act[k].ctx, act[k].dir) \in Boxes
  BY <1>1, <1>2 DEF Entry, Boxes
<1> DEFINE x == Entry(act[k].pkt, act[k].ctx, act[k].dir)
<1>4. queue' = <<x>> \o queue
  BY DEF Push
<1>5. queue \in Seq(Boxes)
  BY DEF Globals
<1> HIDE DEF x
<1>6. <<x>> \in Seq(Boxes)
  BY <1>3 DEF x
<1>7. <<x>> \o queue \in Seq(Boxes)
  BY <1>5, <1>6
<1> QED BY <1>1, <1>2, <1>3, <1>4, <1>7 DEF x

LEMMA PopIs ==
    ASSUME Globals, Locals, FillPacket
    PROVE  \/ queue = <<>> /\ UNCHANGED <<queue, batch>>
           \/ /\ queue # <<>> /\ Head(queue) \in Boxes
              /\ queue' = Tail(queue) /\ queue' \in Seq(Boxes)
              /\ \E x \in Boxes : /\ x.pkt = Head(queue).pkt /\ x.ctx = Head(queue).ctx
                                  /\ batch' = Append(batch, x) /\ batch' \in Seq(Boxes)
<1>0. queue \in Seq(Boxes) /\ batch \in Seq(Boxes) /\ act[Worker].dir \in Directions
  BY Boundaries, InHand DEF Globals
<1>1. CASE queue = <<>>
  BY <1>1 DEF FillPacket
<1>2. CASE queue # <<>>
  <2>1. Head(queue) \in Boxes /\ Tail(queue) \in Seq(Boxes)
    BY <1>0, <1>2
  <2> DEFINE x == [Head(queue) EXCEPT !.dir = act[Worker].dir]
  <2>2. x \in Boxes /\ x.pkt = Head(queue).pkt /\ x.ctx = Head(queue).ctx
    BY <1>0, <2>1 DEF Boxes
  <2>3. queue' = Tail(queue) /\ batch' = Append(batch, x)
    BY <1>2 DEF FillPacket
  <2> HIDE DEF x
  <2>4. Append(batch, x) \in Seq(Boxes)
    BY <1>0, <2>2
  <2> QED BY <1>2, <2>1, <2>2, <2>3, <2>4
<1> QED BY <1>1, <1>2

LEMMA QueuesTyped ==
    ASSUME Globals, Locals, [Next]_vars
    PROVE  queue' \in Seq(Boxes) /\ batch' \in Seq(Boxes) /\ codes' \in Seq(Directions)
<1>0. queue \in Seq(Boxes) /\ batch \in Seq(Boxes) /\ codes \in Seq(Directions)
  BY DEF Globals
<1>1. CASE UNCHANGED ioVars
  BY <1>0, <1>1 DEF ioVars
<1>2. ASSUME NEW k \in Callers, Push(k)
      PROVE  queue' \in Seq(Boxes) /\ UNCHANGED <<batch, codes>>
  BY <1>2, PushIs DEF Push
<1>3. ASSUME NEW k \in Callers, PushCode(k)
      PROVE  codes' \in Seq(Directions) /\ UNCHANGED <<batch, queue>>
  <2>1. act[k].dir \in Directions
    BY InHand, Boundaries
  <2> DEFINE x == act[k].dir
  <2>2. <<x>> \in Seq(Directions)
    BY <2>1
  <2>3. <<x>> \o codes \in Seq(Directions)
    BY <1>0, <2>2
  <2>4. (codes' = <<x>> \o codes \/ codes' = codes) /\ UNCHANGED <<batch, queue>>
    BY <1>3 DEF PushCode
  <2> QED BY <1>0, <2>3, <2>4
<1>4. ASSUME FillCode
      PROVE  codes' \in Seq(Directions) /\ UNCHANGED <<batch, queue>>
  BY <1>0, <1>4 DEF FillCode
<1>5. ASSUME FillPacket
      PROVE  queue' \in Seq(Boxes) /\ batch' \in Seq(Boxes) /\ codes' = codes
  BY <1>0, <1>5, PopIs DEF FillPacket
<1>6. ASSUME FillFull
      PROVE  codes' \in Seq(Directions) /\ UNCHANGED <<batch, queue>>
  <2> DEFINE x == act[Worker].dir
  <2>1. x \in Directions
    BY InHand, Boundaries
  <2>2. <<x>> \in Seq(Directions)
    BY <2>1
  <2>3. <<x>> \o codes \in Seq(Directions)
    BY <1>0, <2>2
  <2>4. codes' = <<x>> \o codes /\ UNCHANGED <<batch, queue>>
    BY <1>6 DEF FillFull
  <2> QED BY <2>3, <2>4
<1>7. ASSUME NEW deny \in BOOLEAN, NextPacket(deny)
      PROVE  batch' \in Seq(Boxes) /\ UNCHANGED <<queue, codes>>
  <2>1. UNCHANGED <<queue, codes>>
    BY <1>7 DEF NextPacket
  <2>2. batch' = batch \/ (batch # <<>> /\ batch' = Tail(batch))
    BY <1>7, NextPacketIs
  <2>3. batch # <<>> => Tail(batch) \in Seq(Boxes)
    BY <1>0
  <2>4. batch' \in Seq(Boxes)
    BY <1>0, <2>2, <2>3
  <2> QED BY <2>1, <2>4
<1>8. ASSUME Close \/ CleanQueue \/ CleanCodes
      PROVE  queue' \in Seq(Boxes) /\ batch' \in Seq(Boxes) /\ codes' \in Seq(Directions)
  <2>1. <<>> \in Seq(Boxes) /\ <<>> \in Seq(Directions)
    OBVIOUS
  <2>2. /\ queue' = queue \/ queue' = <<>>
        /\ batch' = batch \/ batch' = <<>>
        /\ codes' = codes \/ codes' = <<>>
    BY <1>8 DEF Close, CleanQueue, CleanCodes
  <2> QED BY <1>0, <2>1, <2>2
<1> QED BY <1>0, <1>1, <1>2, <1>3, <1>4, <1>5, <1>6, <1>7, <1>8, QueuesKept

LEMMA GlobalsNext ==
    ASSUME Globals, Locals, [Next]_vars
    PROVE  Globals'
<1>1. /\ monitor' \in BOOLEAN /\ opens' \in 0..Sessions
      /\ session' \in {"closed", "open", "pause", "cleanQueue", "cleanContexts", "cleanCodes"}
  BY SessionTyped
<1>2. made' \in 0..MaxPackets /\ closed' \in SUBSET Endpoints
  BY MadeTyped
<1>3. /\ state' \in [Contexts -> {"unused", "live", "freed"}]
      /\ home' \in [Contexts -> Endpoints \cup {None}]
      /\ refs' \in [Contexts -> Nat]
      /\ listed' \in SUBSET Contexts
      /\ byHandle' \in [Endpoints -> Contexts \cup {None}]
  BY ContextsTyped
<1>4. /\ pended' \in [Contexts -> [Directions -> Int]]
      /\ injected' \in [Contexts -> [Directions -> Int]]
      /\ busy' \in [Contexts -> SUBSET Directions]
  BY BytesTyped
<1>5. queue' \in Seq(Boxes) /\ batch' \in Seq(Boxes) /\ codes' \in Seq(Directions)
  BY QueuesTyped
<1> QED BY <1>1, <1>2, <1>3, <1>4, <1>5 DEF Globals

LEMMA StagesNext ==
    ASSUME Base, [Next]_vars
    PROVE  Stages'
<1>0. Globals /\ Locals /\ Stages
  BY DEF Base
<1>a. act \in [Actors -> LocalsType] /\ Locals' /\ act' \in [Actors -> LocalsType]
  BY <1>0, LocalsNext DEF Locals
\* A step of one actor that leaves the session and the queues alone.
<1>b. ASSUME NEW a \in Actors, Moves(a), UNCHANGED <<sesVars, queue>>,
             session # "open" => UNCHANGED batch,
             session = "closed" => UNCHANGED codes,
             session # "open" => a # Worker,
             session \notin {"open", "pause"} =>
               /\ a \in Callers => act'[a].pc \notin Calling
               /\ a \in Packets => act'[a].pc = "idle"
      PROVE  Stages'
  <2>1. \A b \in Actors : b # a => act'[b] = act[b]
    BY <1>a, <1>b DEF Moves
  <2> QED BY <1>0, <1>b, <2>1, Boundaries DEF Stages, sesVars
<1>1. ASSUME NEW k \in Callers, NEW e \in Endpoints,
             \/ \E d \in Directions, n \in 1..MaxBuffers : Classify(k, e, d, n)
             \/ Closure(k, e)
      PROVE  Stages'
  <2>1. UNCHANGED <<sesVars, queue, batch, codes>>
    BY <1>1 DEF Classify, Closure, ioVars
  <2>2. session # "open" => act'[k].pc \notin Calling
    <3>1. ASSUME NEW d \in Directions, NEW n \in 1..MaxBuffers, Classify(k, e, d, n)
          PROVE  session = "open"
      BY <1>0, <3>1 DEF Classify, Stages
    <3>2. ASSUME Closure(k, e) PROVE act'[k].pc \notin Calling
      BY <1>0, <1>a, <3>2, ClosureIs, Boundaries DEF Becomes, Is, Calling
    <3> QED BY <1>1, <3>1, <3>2
  <2>3. Moves(k)
    BY <1>0, <1>1, StartFits
  <2> QED BY <1>b, <2>1, <2>2, <2>3, Boundaries
<1>2. ASSUME NEW k \in Callers, CalloutStep(k) PROVE Stages'
  <2>1. Moves(k) /\ act[k].pc \in Calling
    BY <1>0, <1>2, CalloutFits, FindIs, AllocIs, CalloutIs, PushCodeIs DEF CalloutStep, Calling
  <2>2. session \in {"open", "pause"}
    BY <1>0, <2>1 DEF Stages
  <2>3. UNCHANGED <<sesVars, batch>>
    BY <1>2 DEF CalloutStep, Find, Alloc, AllocFails, Pend, PendRefused, Push, PushFails, PushCode, ioVars
  <2>4. \A b \in Actors : b # k => act'[b] = act[b]
    BY <1>a, <2>1 DEF Moves
  <2> QED BY <1>0, <2>2, <2>3, <2>4, Boundaries DEF Stages, sesVars
<1>3. ASSUME NEW a \in Actors, FreeCtx(a) \/ FreeUnhash(a) PROVE Stages'
  <2>1. Moves(a) /\ act[a].pc \in {"drop", "unhash"}
    BY <1>0, <1>3, FreeFits, FreeCtxIs, FreeUnhashIs
  <2>2. UNCHANGED <<sesVars, queue, batch, codes>>
    BY <1>3 DEF FreeCtx, FreeUnhash, ioVars
  <2>3. session # "open" => a # Worker
    BY <1>0, <2>1 DEF Stages
  <2>4. session \notin {"open", "pause"} => a \notin Packets
    BY <1>0, <2>1 DEF Stages
  <2>5. act'[a].pc \notin Calling
    <3>1. CASE FreeCtx(a)
      BY <1>0, <3>1, FreeCtxIs DEF Turns, Ends, Becomes, Is, Calling
    <3>2. CASE FreeUnhash(a)
      BY <1>0, <3>2, FreeUnhashIs DEF Leaves, Turns, Ends, Becomes, Is, Calling
    <3> QED BY <1>3, <3>1, <3>2
  <2> QED BY <1>b, <2>1, <2>2, <2>3, <2>4, <2>5
<1>4. CASE ServeRead \/ WorkerStep
  <2>1. session = "open"
    <3>1. Read => session = "open"
      BY DEF Read
    <3>2. act[Worker].pc # "idle" \/ Read
      BY <1>0, <1>4, ReadIs, NextPacketIs, RequestIs, InjectIs, InjectFailsIs DEF ServeRead, WorkerStep, WriteBack
    <3> QED BY <1>0, <3>1, <3>2 DEF Stages
  <2>2. UNCHANGED sesVars
    BY <1>4 DEF ServeRead, FillCode, FillPacket, FillFull, FillEnd, WorkerStep, NextPacket, Read,
       WriteBack, ById, Request, RequestFails, CountBytes, Inject, InjectFails
  <2> QED BY <1>0, <2>1, <2>2 DEF Stages, sesVars
<1>5. ASSUME NEW p \in Packets, CompleteBytes(p) PROVE Stages'
  <2>1. Moves(p) /\ act[p].pc = "out" /\ p \in Actors /\ p # Worker /\ p \notin Callers
    BY <1>0, <1>5, CompleteFits, CompleteIs, Boundaries
  <2>2. session \in {"open", "pause"}
    BY <1>0, <2>1, <1>5 DEF Stages
  <2>3. UNCHANGED <<sesVars, queue, batch, codes>>
    BY <1>5 DEF CompleteBytes, ioVars
  <2> QED BY <1>b, <2>1, <2>2, <2>3
<1>6. CASE Open
  BY <1>0, <1>6 DEF Open, Stages
<1>7. CASE Close
  <2>1. Moves(Worker) /\ act'[Worker].pc = "idle"
    BY <1>0, <1>7, CloseIs DEF Ends, Becomes, Is
  <2> QED BY <1>7, <2>1 DEF Close, Stages
<1>8. CASE CloseStep
  <2>1. UNCHANGED <<monitor, act, batch>> /\ session # "open" /\ session' # "open"
    BY <1>8 DEF CloseStep, PauseEnds, CleanQueue, CleanContexts, CleanCodes, ioVars
  <2>2. CASE PauseEnds
    <3>1. session' = "cleanQueue" /\ \A a \in Actors : act[a].pc = "idle"
      BY <2>2 DEF PauseEnds, At
    <3> QED BY <1>0, <2>1, <3>1, Boundaries DEF Stages, Calling
  <2>3. CASE CleanQueue \/ CleanContexts \/ CleanCodes
    <3>1. /\ session \notin {"open", "pause"}
          /\ session' \in {"cleanContexts", "cleanCodes", "closed"}
          /\ queue' = <<>>
          /\ session' = "closed" => codes' = <<>>
      BY <1>0, <2>3 DEF CleanQueue, CleanContexts, CleanCodes, ioVars, Stages
    <3> QED BY <1>0, <2>1, <3>1 DEF Stages
  <2> QED BY <1>8, <2>2, <2>3 DEF CloseStep
<1>9. CASE UNCHANGED vars
  BY <1>0, <1>9 DEF vars, sesVars, ioVars, Stages
<1> QED
  BY <1>1, <1>2, <1>3, <1>4, <1>5, <1>6, <1>7, <1>8, <1>9 DEF Next

LEMMA BaseNext == Base /\ [Next]_vars => Base'
BY LocalsNext, GlobalsNext, StagesNext DEF Base

LEMMA InitBase == Init => Base
<1> SUFFICES ASSUME Init PROVE Base
  OBVIOUS
<1>1. Globals
  <2>1. /\ MaxPackets \in Nat /\ Sessions \in Nat
        /\ <<>> \in Seq(Boxes) /\ <<>> \in Seq(Directions)
    BY UdpAssumption
  <2>2. pended \in [Contexts -> [Directions -> Int]] /\ injected \in [Contexts -> [Directions -> Int]]
    BY DEF Init
  <2>3. busy \in [Contexts -> SUBSET Directions] /\ refs \in [Contexts -> Nat]
    BY DEF Init
  <2>4. /\ state \in [Contexts -> {"unused", "live", "freed"}]
        /\ home \in [Contexts -> Endpoints \cup {None}]
        /\ byHandle \in [Endpoints -> Contexts \cup {None}]
    BY DEF Init
  <2>5. opens \in 0..Sessions /\ made \in 0..MaxPackets
    BY <2>1 DEF Init
  <2> QED BY <2>1, <2>2, <2>3, <2>4, <2>5 DEF Init, Globals
<1>2. Locals
  <2>1. act \in [Actors -> LocalsType] /\ \A a \in Actors : act[a] = Rest
    BY RestFields DEF Init
  <2>2. \A a \in Actors : Fits(a, act[a], made)
    BY <2>1, RestFields, StepsAre DEF Fits, Calling, Writing
  <2> QED BY <2>1, <2>2 DEF Locals
<1>3. Stages
  BY RestFields, Boundaries DEF Init, Stages, Calling
<1> QED BY <1>1, <1>2, <1>3 DEF Base

-----------------------------------------------------------------------------
(***************************************************************************)
(* The second layer is inductive.  First what the queues' operations do to *)
(* the packets in them.                                                    *)
(***************************************************************************)

LEMMA BoxedEmpty == Boxed(<<>>) = {} /\ Once(<<>>)
BY DEF Boxed, Once

LEMMA BoxedCons ==
    ASSUME NEW q \in Seq(Boxes), NEW x \in Boxes
    PROVE  /\ Boxed(<<x>> \o q) = {x.pkt} \cup Boxed(q)
           /\ Once(q) /\ x.pkt \notin Boxed(q) => Once(<<x>> \o q)
<1> DEFINE s == <<x>> \o q
<1>1. /\ s \in Seq(Boxes) /\ Len(s) = Len(q) + 1 /\ Len(q) \in Nat
      /\ \A i \in 1..Len(s) : s[i] = IF i = 1 THEN x ELSE q[i - 1]
  <2>1. <<x>> \in Seq(Boxes) /\ Len(<<x>>) = 1 /\ <<x>>[1] = x
    OBVIOUS
  <2> QED BY <2>1
<1> HIDE DEF s
<1>2. Boxed(s) = {x.pkt} \cup Boxed(q)
  <2>1. \A i \in 1..Len(q) : i + 1 \in 1..Len(s) /\ s[i + 1] = q[i]
    BY <1>1
  <2>2. 1 \in 1..Len(s) /\ s[1] = x
    BY <1>1
  <2>3. ASSUME NEW p \in Boxed(s) PROVE p \in {x.pkt} \cup Boxed(q)
    <3>1. PICK i \in 1..Len(s) : p = s[i].pkt
      BY DEF Boxed
    <3>2. CASE i = 1  BY <3>1, <3>2, <2>2
    <3>3. CASE i # 1
      <4>1. i - 1 \in 1..Len(q) /\ s[i] = q[i - 1]
        BY <1>1, <3>3
      <4> QED BY <3>1, <4>1 DEF Boxed
    <3> QED BY <3>2, <3>3
  <2>4. x.pkt \in Boxed(s)
    BY <2>2 DEF Boxed
  <2>5. ASSUME NEW p \in Boxed(q) PROVE p \in Boxed(s)
    <3>1. PICK i \in 1..Len(q) : p = q[i].pkt
      BY DEF Boxed
    <3> QED BY <2>1, <3>1 DEF Boxed
  <2> QED BY <2>3, <2>4, <2>5
<1>3. ASSUME Once(q), x.pkt \notin Boxed(q) PROVE Once(s)
  <2>1. SUFFICES ASSUME NEW i \in 1..Len(s), NEW j \in 1..Len(s), s[i].pkt = s[j].pkt PROVE i = j
    BY DEF Once
  <2>2. \A n \in 1..Len(s) : n # 1 => n - 1 \in 1..Len(q) /\ s[n] = q[n - 1] /\ q[n - 1].pkt # x.pkt
    <3>1. ASSUME NEW n \in 1..Len(s), n # 1
          PROVE  n - 1 \in 1..Len(q) /\ s[n] = q[n - 1] /\ q[n - 1].pkt # x.pkt
      <4>1. n - 1 \in 1..Len(q) /\ s[n] = q[n - 1]
        BY <1>1, <3>1
      <4> QED BY <1>3, <4>1 DEF Boxed
    <3> QED BY <3>1
  <2>3. s[1] = x /\ 1 \in 1..Len(s)
    BY <1>1
  <2>4. CASE i = 1 \/ j = 1
    BY <2>1, <2>2, <2>3, <2>4
  <2>5. CASE i # 1 /\ j # 1
    <3>1. i - 1 = j - 1
      BY <1>3, <2>1, <2>2, <2>5 DEF Once
    <3> QED BY <1>1, <3>1
  <2> QED BY <2>4, <2>5
<1> QED BY <1>2, <1>3 DEF s

LEMMA BoxedTail ==
    ASSUME NEW q \in Seq(Boxes), q # <<>>
    PROVE  /\ Head(q).pkt \in Boxed(q)
           /\ Boxed(Tail(q)) \subseteq Boxed(q)
           /\ Once(q) => Once(Tail(q)) /\ Head(q).pkt \notin Boxed(Tail(q))
<1> DEFINE s == Tail(q)
<1>1. /\ Len(q) \in Nat /\ Len(q) >= 1 /\ s \in Seq(Boxes) /\ Len(s) = Len(q) - 1
      /\ \A i \in 1..Len(s) : s[i] = q[i + 1]
      /\ Head(q) = q[1]
  OBVIOUS
<1> HIDE DEF s
<1>2. 1 \in 1..Len(q) /\ \A i \in 1..Len(s) : i + 1 \in 1..Len(q) /\ i + 1 # 1
  BY <1>1
<1>3. Head(q).pkt \in Boxed(q)
  BY <1>1, <1>2 DEF Boxed
<1>4. Boxed(s) \subseteq Boxed(q)
  <2>1. ASSUME NEW p \in Boxed(s) PROVE p \in Boxed(q)
    <3>1. PICK i \in 1..Len(s) : p = s[i].pkt
      BY DEF Boxed
    <3>2. p = q[i + 1].pkt /\ i + 1 \in 1..Len(q)
      BY <1>1, <1>2, <3>1
    <3> QED BY <3>2 DEF Boxed
  <2> QED BY <2>1
<1>5. ASSUME Once(q) PROVE Once(s) /\ Head(q).pkt \notin Boxed(s)
  <2>1. Once(s)
    <3>1. ASSUME NEW i \in 1..Len(s), NEW j \in 1..Len(s), s[i].pkt = s[j].pkt PROVE i = j
      <4>1. i + 1 = j + 1
        BY <1>1, <1>2, <1>5, <3>1 DEF Once
      <4> QED BY <1>1, <4>1
    <3> QED BY <3>1 DEF Once
  <2>2. ASSUME Head(q).pkt \in Boxed(s) PROVE FALSE
    <3>1. PICK i \in 1..Len(s) : Head(q).pkt = s[i].pkt
      BY <2>2 DEF Boxed
    <3>2. q[1].pkt = q[i + 1].pkt /\ i + 1 \in 1..Len(q) /\ i + 1 # 1
      BY <1>1, <1>2, <3>1
    <3> QED BY <1>2, <1>5, <3>2 DEF Once
  <2> QED BY <2>1, <2>2
<1> QED BY <1>3, <1>4, <1>5 DEF s

LEMMA BoxedAppend ==
    ASSUME NEW q \in Seq(Boxes), NEW x \in Boxes
    PROVE  /\ Boxed(Append(q, x)) = {x.pkt} \cup Boxed(q)
           /\ Once(q) /\ x.pkt \notin Boxed(q) => Once(Append(q, x))
<1> DEFINE s == Append(q, x)
<1>1. /\ s \in Seq(Boxes) /\ Len(s) = Len(q) + 1 /\ Len(q) \in Nat
      /\ \A i \in 1..Len(q) : s[i] = q[i]
      /\ s[Len(q) + 1] = x
  OBVIOUS
<1> HIDE DEF s
<1>2. /\ Len(s) \in 1..Len(s) /\ s[Len(s)] = x
      /\ \A i \in 1..Len(s) : i # Len(s) => i \in 1..Len(q)
      /\ \A i \in 1..Len(q) : i \in 1..Len(s) /\ i # Len(s)
  BY <1>1
<1>3. Boxed(s) = {x.pkt} \cup Boxed(q)
  <2>3. ASSUME NEW p \in Boxed(s) PROVE p \in {x.pkt} \cup Boxed(q)
    <3>1. PICK i \in 1..Len(s) : p = s[i].pkt
      BY DEF Boxed
    <3>2. CASE i = Len(s)  BY <1>2, <3>1, <3>2
    <3>3. CASE i # Len(s)
      <4>1. i \in 1..Len(q) /\ s[i] = q[i]
        BY <1>1, <1>2, <3>3
      <4> QED BY <3>1, <4>1 DEF Boxed
    <3> QED BY <3>2, <3>3
  <2>4. x.pkt \in Boxed(s)
    BY <1>2 DEF Boxed
  <2>5. ASSUME NEW p \in Boxed(q) PROVE p \in Boxed(s)
    <3>1. PICK i \in 1..Len(q) : p = q[i].pkt
      BY DEF Boxed
    <3> QED BY <1>1, <1>2, <3>1 DEF Boxed
  <2> QED BY <2>3, <2>4, <2>5
<1>4. ASSUME Once(q), x.pkt \notin Boxed(q) PROVE Once(s)
  <2>1. SUFFICES ASSUME NEW i \in 1..Len(s), NEW j \in 1..Len(s), s[i].pkt = s[j].pkt PROVE i = j
    BY DEF Once
  <2>2. \A n \in 1..Len(s) : n # Len(s) => n \in 1..Len(q) /\ s[n] = q[n] /\ q[n].pkt # x.pkt
    <3>1. ASSUME NEW n \in 1..Len(s), n # Len(s)
          PROVE  n \in 1..Len(q) /\ s[n] = q[n] /\ q[n].pkt # x.pkt
      <4>1. n \in 1..Len(q) /\ s[n] = q[n]
        BY <1>1, <1>2, <3>1
      <4> QED BY <1>4, <4>1 DEF Boxed
    <3> QED BY <3>1
  <2>4. CASE i = Len(s) \/ j = Len(s)
    BY <1>2, <2>1, <2>2, <2>4
  <2>5. CASE i # Len(s) /\ j # Len(s)
    BY <1>4, <2>1, <2>2, <2>5 DEF Once
  <2> QED BY <2>4, <2>5
<1> QED BY <1>3, <1>4 DEF s

\* Packets that go, or that wait longer, stay apart.
LEMMA ApartShrinks ==
    ASSUME NEW a, NEW q, NEW b, NEW w, NEW r, NEW m \in Nat, Apart(a, q, b, w, r, m),
           \A k \in Callers : a[k] \subseteq Nat,
           (Boxed(q) \cup Boxed(b) \cup w \cup r) \subseteq Nat,
           NEW a2, NEW w2, NEW r2, NEW m2 \in Nat,
           \A k \in Callers : a2[k] \subseteq a[k],
           w2 \subseteq w, r2 \subseteq r, m <= m2
    PROVE  Apart(a2, q, b, w2, r2, m2)
BY DEF Apart

LEMMA AheadTyped ==
    /\ \A k \in Callers : Aheads[k] = Ahead(k) /\ Ahead(k) \subseteq Nat
    /\ \A p \in Packets : p \in Nat
BY Boundaries DEF Aheads, Ahead

LEMMA WaitingTyped ==
    ASSUME Globals, Locals
    PROVE  /\ Boxed(queue) \subseteq Packets /\ Boxed(batch) \subseteq Packets
           /\ InWork \subseteq Packets /\ Injecting \subseteq Packets
           /\ (Boxed(queue) \cup Boxed(batch) \cup InWork \cup Injecting) \subseteq Nat
<1>1. ASSUME NEW s \in Seq(Boxes), NEW p \in Boxed(s) PROVE p \in Packets
  <2>1. PICK i \in 1..Len(s) : p = s[i].pkt
    BY DEF Boxed
  <2>2. s[i] \in Boxes
    BY <2>1
  <2> QED BY <2>1, <2>2 DEF Boxes
<1>2. InWork \subseteq Packets
  BY Boundaries DEF InWork, Locals, Fits
<1>3. Injecting \subseteq Packets
  BY DEF Injecting
<1> QED BY <1>1, <1>2, <1>3, AheadTyped DEF Globals

\* A step that moves no packet, and of one actor.
LEMMA UniqueKept ==
    ASSUME Base, Base', Unique, UNCHANGED <<queue, batch>>, made' >= made,
           \A k \in Callers : Ahead(k)' \subseteq Ahead(k),
           InWork' \subseteq InWork, Injecting' \subseteq Injecting
    PROVE  Unique'
<1>1. /\ Aheads' = [k \in Callers |-> Ahead(k)'] /\ made \in Nat /\ made' \in Nat
      /\ queue' = queue /\ batch' = batch
  BY Boundaries DEF Aheads, Base, Globals
<1>2. \A k \in Callers : Aheads'[k] \subseteq Aheads[k]
  BY <1>1 DEF Aheads
<1>3. Apart(Aheads, queue, batch, InWork, Injecting, made)
  BY DEF Unique
<1>4. Apart(Aheads', queue, batch, InWork', Injecting', made')
  BY <1>1, <1>2, <1>3, ApartShrinks, AheadTyped, WaitingTyped DEF Base
<1> QED BY <1>1, <1>4 DEF Unique

LEMMA MovesAre ==
    ASSUME Locals, NEW a \in Actors, Moves(a)
    PROVE  \A b \in Actors : b # a => act'[b] = act[b]
BY DEF Moves, Locals

\* A step of one actor, by what becomes of the packets in its hand.
LEMMA UniqueMoves ==
    ASSUME Base, Base', Unique, UNCHANGED <<queue, batch>>, made' >= made,
           NEW a \in Actors, Moves(a),
           a \in Callers => Ahead(a)' \subseteq Ahead(a),
           a = Worker => InWork' \subseteq InWork,
           a \in Packets /\ act[a].pc = "idle" => act'[a].pc = "idle"
    PROVE  Unique'
<1>1. \A b \in Actors : b # a => act'[b] = act[b]
  BY MovesAre DEF Base
<1>2. \A k \in Callers : Ahead(k)' \subseteq Ahead(k)
  <2>1. ASSUME NEW k \in Callers, k # a PROVE Ahead(k)' = Ahead(k)
    <3>1. act'[k] = act[k]
      BY <1>1, <2>1, Boundaries
    <3> QED BY <3>1 DEF Ahead, At
  <2> QED BY <2>1
<1>3. InWork' \subseteq InWork
  <2>1. CASE a = Worker  BY <2>1
  <2>2. CASE a # Worker
    BY <1>1, <2>2, Boundaries DEF InWork
  <2> QED BY <2>1, <2>2
<1>4. Injecting' \subseteq Injecting
  BY <1>1, Boundaries DEF Injecting
<1> QED BY <1>2, <1>3, <1>4, UniqueKept

LEMMA ClassifyUnique ==
    ASSUME Base, Base', Unique, NEW k \in Callers, NEW e \in Endpoints, NEW d \in Directions,
           NEW n \in 1..MaxBuffers, Classify(k, e, d, n)
    PROVE  Unique'
<1>1. /\ made' = made + n /\ act[k].pc = "idle" /\ made \in Nat /\ n \in Nat
      /\ Moves(k) /\ act'[k].pc = "find" /\ act'[k].left = n /\ act'[k].pkt = made + 1
  <2>1. made' = made + n /\ act[k].pc = "idle" /\ Becomes(k, "find", None, e, 0, n, made + 1, d)
    BY ClassifyIs DEF Base
  <2>2. made \in Nat /\ n \in Nat
    BY Boundaries DEF Base, Globals
  <2> QED BY <2>1, <2>2 DEF Becomes, Is
<1>2. \A b \in Actors : b # k => act'[b] = act[b]
  BY <1>1, MovesAre, Boundaries DEF Base
<1>3. queue' = queue /\ batch' = batch
  BY DEF Classify, ioVars
<1>4. InWork' = InWork /\ Injecting' = Injecting
  BY <1>2, Boundaries DEF InWork, Injecting
<1>5. \A j \in Callers : j # k => Ahead(j)' = Ahead(j)
  <2>1. ASSUME NEW j \in Callers, j # k PROVE Ahead(j)' = Ahead(j)
    <3>1. act'[j] = act[j]
      BY <1>2, <2>1, Boundaries
    <3> QED BY <3>1 DEF Ahead, At
  <2> QED BY <2>1
<1>6. \A p \in Ahead(k)' : p > made /\ p <= made'
  BY <1>1, Boundaries DEF Ahead, At, Calling
<1>7. \A j \in Callers : Aheads'[j] = Ahead(j)' /\ Aheads[j] = Ahead(j)
  BY DEF Aheads
<1>8. Apart(Aheads, queue, batch, InWork, Injecting, made)
  BY DEF Unique
<1>9. (Boxed(queue) \cup Boxed(batch) \cup InWork \cup Injecting) \subseteq Nat
  BY WaitingTyped DEF Base
<1>10. \A j \in Callers : Ahead(j) \subseteq Nat /\ Ahead(j)' \subseteq Nat
  BY Boundaries DEF Ahead
<1>11. Apart(Aheads', queue, batch, InWork, Injecting, made')
  BY <1>1, <1>5, <1>6, <1>7, <1>8, <1>9, <1>10 DEF Apart
<1> QED BY <1>3, <1>4, <1>11 DEF Unique

LEMMA PushUnique ==
    ASSUME Base, Base', Unique, NEW k \in Callers, Push(k)
    PROVE  Unique'
<1> DEFINE x == Entry(act[k].pkt, act[k].ctx, act[k].dir)
<1>1. /\ queue' = <<x>> \o queue /\ x \in Boxes /\ x.pkt = act[k].pkt /\ act[k].pkt \in Packets
      /\ queue \in Seq(Boxes) /\ batch' = batch /\ made' = made
  BY PushIs DEF Base, Globals, Entry, Push
<1>2. /\ Moves(k) /\ act[k].pc = "push" /\ act'[k].pc = "code" /\ act'[k].left = act[k].left
      /\ act'[k].pkt = act[k].pkt
  BY CalloutIs DEF Base, Turns, Becomes, Is
<1>3. \A b \in Actors : b # k => act'[b] = act[b]
  BY <1>2, MovesAre, Boundaries DEF Base
<1>4. InWork' = InWork /\ Injecting' = Injecting
  BY <1>3, Boundaries DEF InWork, Injecting
<1>5. \A j \in Callers : j # k => Ahead(j)' = Ahead(j)
  <2>1. ASSUME NEW j \in Callers, j # k PROVE Ahead(j)' = Ahead(j)
    <3>1. act'[j] = act[j]
      BY <1>3, <2>1, Boundaries
    <3> QED BY <3>1 DEF Ahead, At
  <2> QED BY <2>1
<1>6. act[k].pkt \in Ahead(k) /\ Ahead(k)' = Ahead(k) \ {act[k].pkt}
  <2>1. act[k].left >= 1 /\ act[k].left \in Nat /\ act[k].pkt \in Nat
    BY <1>2, InHand, Boundaries DEF Base, Locals, Fits, Calling
  <2>2. Ahead(k) = {p \in Packets : p < act[k].pkt + act[k].left /\ act[k].pkt <= p}
    BY <1>2 DEF Ahead, At, Calling
  <2>3. Ahead(k)' = {p \in Packets : p < act[k].pkt + act[k].left /\ act[k].pkt < p}
    BY <1>2 DEF Ahead, At, Calling
  <2>4. /\ act[k].pkt < act[k].pkt + act[k].left /\ act[k].pkt <= act[k].pkt
        /\ \A p \in Packets : act[k].pkt < p <=> (act[k].pkt <= p /\ p # act[k].pkt)
    <3>1. Packets \subseteq Nat
      BY Boundaries
    <3> QED BY <2>1, <3>1
  <2> QED BY <1>1, <2>2, <2>3, <2>4
<1>7. \A j \in Callers : Aheads'[j] = Ahead(j)' /\ Aheads[j] = Ahead(j)
  BY DEF Aheads
<1>8. Apart(Aheads, queue, batch, InWork, Injecting, made)
  BY DEF Unique
<1> HIDE DEF x
<1>9. Boxed(<<x>> \o queue) = {act[k].pkt} \cup Boxed(queue) /\ act[k].pkt \notin Boxed(queue)
  BY <1>1, <1>6, <1>7, <1>8, BoxedCons DEF Apart
<1>10. Once(<<x>> \o queue)
  BY <1>1, <1>8, <1>9, BoxedCons DEF Apart
<1>11. Apart(Aheads', <<x>> \o queue, batch, InWork, Injecting, made)
  BY <1>5, <1>6, <1>7, <1>8, <1>9, <1>10 DEF Apart
<1> QED BY <1>1, <1>4, <1>11 DEF Unique

\* The reads of the worker take packets from the queue to the batch, and from there.
LEMMA PopUnique ==
    ASSUME Base, Base', Unique, FillPacket
    PROVE  Unique'
<1>0. queue \in Seq(Boxes) /\ batch \in Seq(Boxes) /\ made' = made
  BY DEF Base, Globals, FillPacket
<1>1. Moves(Worker) /\ act[Worker].pc = "pop" /\ act'[Worker].pc = "filling"
  BY ReadIs DEF Base, Turns, Becomes, Is
<1>2. \A b \in Actors : b # Worker => act'[b] = act[b]
  BY <1>1, MovesAre, Boundaries DEF Base
<1>3. InWork' = {} /\ InWork = {} /\ Injecting' = Injecting
  BY <1>1, <1>2, Boundaries DEF InWork, Injecting, Writing
<1>4. Aheads' = Aheads
  <2>1. \A j \in Callers : act'[j] = act[j]
    BY <1>2, Boundaries
  <2>2. \A j \in Callers : Ahead(j)' = Ahead(j)
    BY <2>1 DEF Ahead, At
  <2> QED BY <2>2 DEF Aheads
<1>5. CASE UNCHANGED <<queue, batch>>
  BY <1>0, <1>3, <1>4, <1>5 DEF Unique
<1>6. CASE queue # <<>> /\ queue' = Tail(queue)
  <2>1. PICK x \in Boxes : x.pkt = Head(queue).pkt /\ batch' = Append(batch, x)
    BY <1>6, PopIs DEF Base
  <2>2. Apart(Aheads, queue, batch, {}, Injecting, made)
    BY <1>3 DEF Unique
  <2>3. /\ x.pkt \in Boxed(queue) /\ Boxed(Tail(queue)) \subseteq Boxed(queue)
        /\ Once(Tail(queue)) /\ x.pkt \notin Boxed(Tail(queue))
    BY <1>0, <1>6, <2>1, <2>2, BoxedTail DEF Apart
  <2>4. x.pkt \notin Boxed(batch)
    BY <2>2, <2>3 DEF Apart
  <2>5. Boxed(Append(batch, x)) = {x.pkt} \cup Boxed(batch) /\ Once(Append(batch, x))
    BY <1>0, <2>2, <2>4, BoxedAppend DEF Apart
  <2>6. Apart(Aheads, Tail(queue), Append(batch, x), {}, Injecting, made)
    BY <2>2, <2>3, <2>4, <2>5 DEF Apart
  <2> QED BY <1>0, <1>3, <1>4, <1>6, <2>1, <2>6 DEF Unique
<1> QED BY <1>5, <1>6, PopIs DEF Base

LEMMA NextPacketUnique ==
    ASSUME Base, Base', Unique, NEW deny \in BOOLEAN, NextPacket(deny)
    PROVE  Unique'
<1>0. batch \in Seq(Boxes) /\ made' = made /\ queue' = queue /\ act \in [Actors -> LocalsType]
  BY InHand, Boundaries DEF Base, Globals, NextPacket
<1>1. Moves(Worker) /\ act[Worker].pc = "next"
  BY NextPacketIs, WorkerFits DEF Base
<1>2. \A b \in Actors : b # Worker => act'[b] = act[b]
  BY <1>1, MovesAre, Boundaries DEF Base
<1>3. InWork = {} /\ Injecting' = Injecting
  BY <1>1, <1>2, Boundaries DEF InWork, Injecting, Writing
<1>4. Aheads' = Aheads
  <2>1. \A j \in Callers : act'[j] = act[j]
    BY <1>2, Boundaries
  <2>2. \A j \in Callers : Ahead(j)' = Ahead(j)
    BY <2>1 DEF Ahead, At
  <2> QED BY <2>2 DEF Aheads
<1>a. Apart(Aheads, queue, batch, {}, Injecting, made)
  BY <1>3 DEF Unique
<1>5. CASE batch' = batch /\ Ends(Worker, "idle")
  <2>1. InWork' = {}
    BY <1>5 DEF Ends, Becomes, Is, InWork, Writing
  <2> QED BY <1>0, <1>3, <1>4, <1>5, <1>a, <2>1 DEF Unique
<1>6. CASE batch # <<>> /\ batch' = Tail(batch)
  <2>1. InWork' = {} \/ InWork' = {Head(batch).pkt}
    <3>1. CASE act' = act
      BY <1>1, <3>1 DEF InWork, Writing
    <3>2. CASE Becomes(Worker, "byId", Head(batch).ctx, None, 0, 0, Head(batch).pkt, Head(batch).dir)
      BY <3>2 DEF Becomes, Is, InWork, Writing
    <3> QED BY <1>6, <3>1, <3>2, NextPacketIs DEF Base
  <2>2. /\ Head(batch).pkt \in Boxed(batch) /\ Boxed(Tail(batch)) \subseteq Boxed(batch)
        /\ Once(Tail(batch)) /\ Head(batch).pkt \notin Boxed(Tail(batch))
    BY <1>0, <1>6, <1>a, BoxedTail DEF Apart
  <2>3. Apart(Aheads, queue, Tail(batch), InWork', Injecting, made)
    BY <1>a, <2>1, <2>2 DEF Apart
  <2> QED BY <1>0, <1>3, <1>4, <1>6, <2>3 DEF Unique
<1> QED BY <1>5, <1>6, NextPacketIs DEF Base

\* The completion that an injection starts was idle.
LEMMA InjectUnique ==
    ASSUME Base, Base', Unique, Inject
    PROVE  /\ Unique'
           /\ act[act[Worker].pkt].pc = "idle"
           /\ \A b \in Actors : b # Worker /\ b # act[Worker].pkt => act'[b] = act[b]
<1> DEFINE w == act[Worker]
<1>1. /\ w.pc = "inject" /\ w.pkt \in Packets /\ act \in [Actors -> LocalsType]
      /\ act' = [act EXCEPT ![Worker] = act'[Worker], ![w.pkt] = act'[w.pkt]]
      /\ act'[Worker].pc = "drop" /\ act'[w.pkt].pc = "out"
      /\ made' = made /\ queue' = queue /\ batch' = batch
  BY InjectIs, InHand, Boundaries DEF Base, Is, Inject, ioVars
<1>2. Worker \in Actors /\ w.pkt \in Actors /\ Worker \notin Packets
  BY <1>1, Boundaries
<1>3. \A b \in Actors : b # Worker /\ b # w.pkt => act'[b] = act[b]
  BY <1>1, <1>2
<1>4. InWork = {w.pkt} /\ InWork' = {}
  BY <1>1 DEF InWork, Writing
<1>5. Injecting' = Injecting \cup {w.pkt}
  <2>1. \A p \in Packets : p # w.pkt => act'[p] = act[p]
    BY <1>2, <1>3, Boundaries
  <2> QED BY <1>1, <2>1 DEF Injecting
<1>6. Aheads' = Aheads
  <2>1. \A j \in Callers : act'[j] = act[j]
    BY <1>1, <1>2, <1>3, Boundaries
  <2>2. \A j \in Callers : Ahead(j)' = Ahead(j)
    BY <2>1 DEF Ahead, At
  <2> QED BY <2>2 DEF Aheads
<1>7. Apart(Aheads, queue, batch, {w.pkt}, Injecting, made)
  BY <1>4 DEF Unique
<1>8. Apart(Aheads, queue, batch, {}, Injecting \cup {w.pkt}, made)
  BY <1>7 DEF Apart
<1>9. w.pkt \notin Injecting
  BY <1>7 DEF Apart
<1>10. act[w.pkt].pc = "idle"
  BY <1>1, <1>9 DEF Injecting
<1> QED BY <1>1, <1>3, <1>4, <1>5, <1>6, <1>8, <1>10 DEF Unique

LEMMA CalloutUnique ==
    ASSUME Base, Base', Unique, NEW k \in Callers, CalloutStep(k), ~Push(k)
    PROVE  Unique'
<1>1. Moves(k) /\ k \in Actors /\ k # Worker /\ k \notin Packets
  BY CalloutFits, Boundaries DEF Base
<1>2. UNCHANGED <<queue, batch>> /\ made' = made /\ made \in Nat
  <2>1. UNCHANGED <<queue, batch>> /\ made' = made
    BY DEF CalloutStep, Find, Alloc, AllocFails, Pend, PendRefused, PushFails, PushCode, ioVars
  <2> QED BY <2>1, Boundaries DEF Base, Globals
<1>3. Ahead(k)' \subseteq Ahead(k)
  <2>1. ASSUME act'[k].pc \notin Calling PROVE Ahead(k)' \subseteq Ahead(k)
    BY <2>1 DEF Ahead
  <2>2. ASSUME act[k].pc \in Calling \ {"code"}, act'[k].left = act[k].left, act'[k].pkt = act[k].pkt
        PROVE  Ahead(k)' \subseteq Ahead(k)
    <3>1. act[k].pkt \in Nat /\ Packets \subseteq Nat
      BY <1>1, InHand, Boundaries DEF Base
    <3> DEFINE n == act[k].pkt
    <3>2. \A p \in Packets : n < p => n <= p
      BY <3>1
    <3> QED BY <2>2, <3>2 DEF Ahead, At
  <2>3. CASE AllocFails(k) \/ PendRefused(k) \/ PushFails(k)
    <3>1. act'[k].pc \in {"idle", "drop"}
      BY <2>3, CalloutIs DEF Base, Turns, Ends, Becomes, Is
    <3> QED BY <2>1, <3>1 DEF Calling
  <2>4. CASE Pend(k)
    <3>1. act[k].pc = "pend" /\ act'[k].left = act[k].left /\ act'[k].pkt = act[k].pkt
      BY <2>4, CalloutIs DEF Base, Turns, Becomes, Is
    <3> QED BY <2>2, <3>1 DEF Calling
  <2>5. CASE Find(k)
    <3>1. act[k].pc = "find" /\ act'[k].left = act[k].left /\ act'[k].pkt = act[k].pkt
      BY <2>5, FindIs DEF Base, Turns, Becomes, Is
    <3> QED BY <2>2, <3>1 DEF Calling
  <2>6. CASE Alloc(k)
    <3>1. act[k].pc = "alloc" /\ act'[k].left = act[k].left /\ act'[k].pkt = act[k].pkt
      BY <2>6, AllocIs DEF Base, Becomes, Is
    <3> QED BY <2>2, <3>1 DEF Calling
  <2>7. CASE PushCode(k)
    <3>1. act[k].pc = "code"
      BY <2>7, PushCodeIs DEF Base
    <3>2. CASE Turns(k, "drop", 1)
      <4>1. act'[k].pc = "drop"
        BY <3>2 DEF Turns, Becomes, Is
      <4> QED BY <2>1, <4>1 DEF Calling
    <3>3. CASE Becomes(k, "pend", act[k].ctx, act[k].ep, 1, act[k].left - 1, act[k].pkt + 1, act[k].dir)
      <4>1. act'[k].pc = "pend" /\ act'[k].left = act[k].left - 1 /\ act'[k].pkt = act[k].pkt + 1
        BY <3>3 DEF Becomes, Is
      <4>2. act[k].left \in Nat /\ act[k].pkt \in Nat
        BY <1>1, InHand, Boundaries DEF Base
      <4>3. \A p \in Packets : /\ p < (act[k].pkt + 1) + (act[k].left - 1) => p < act[k].pkt + act[k].left
                               /\ act[k].pkt + 1 <= p => act[k].pkt < p
        <5>1. \A m, n \in Nat : \A p \in Nat : /\ p < (m + 1) + (n - 1) => p < m + n
                                              /\ m + 1 <= p => m < p
          OBVIOUS
        <5> QED BY <4>2, <5>1, AheadTyped
      <4> QED BY <3>1, <4>1, <4>3 DEF Ahead, At, Calling
    <3> QED BY <2>7, <3>2, <3>3, PushCodeIs DEF Base
  <2> QED BY <2>3, <2>4, <2>5, <2>6, <2>7 DEF CalloutStep
<1> QED BY <1>1, <1>2, <1>3, UniqueMoves

LEMMA UniqueNext ==
    ASSUME Base, Base', Unique, [Next]_vars
    PROVE  Unique'
<1>0. made \in Nat /\ made' \in Nat
  BY Boundaries DEF Base, Globals
<1>1. ASSUME NEW k \in Callers, NEW e \in Endpoints, NEW d \in Directions, NEW n \in 1..MaxBuffers,
             Classify(k, e, d, n)
      PROVE  Unique'
  BY <1>1, ClassifyUnique
<1>2. ASSUME NEW k \in Callers, NEW e \in Endpoints, Closure(k, e) PROVE Unique'
  <2>1. Moves(k) /\ k \in Actors /\ k # Worker /\ k \notin Packets
    BY <1>2, StartFits, Boundaries DEF Base
  <2>2. UNCHANGED <<queue, batch, made>>
    BY <1>2 DEF Closure, ioVars
  <2>3. Ahead(k)' \subseteq Ahead(k)
    <3>1. CASE act' = act  BY <3>1 DEF Ahead, At
    <3>2. CASE Becomes(k, "drop", byHandle[e], e, 2, 0, 0, "send")
      BY <3>2 DEF Becomes, Is, Ahead, Calling
    <3> QED BY <1>2, <3>1, <3>2, ClosureIs DEF Base
  <2> QED BY <1>0, <2>1, <2>2, <2>3, UniqueMoves
<1>3. ASSUME NEW k \in Callers, CalloutStep(k) PROVE Unique'
  BY <1>3, PushUnique, CalloutUnique
<1>4. ASSUME NEW a \in Actors, FreeCtx(a) \/ FreeUnhash(a) PROVE Unique'
  <2>1. Moves(a) /\ act[a].pc \in {"drop", "unhash"}
    BY <1>4, FreeFits, FreeCtxIs, FreeUnhashIs DEF Base
  <2>2. UNCHANGED <<queue, batch, made>>
    BY <1>4 DEF FreeCtx, FreeUnhash, ioVars
  <2>3. act'[a].pc \notin Calling \cup Writing
    <3>1. CASE FreeCtx(a)
      BY <3>1, FreeCtxIs DEF Turns, Ends, Becomes, Is, Calling, Writing, Base
    <3>2. CASE FreeUnhash(a)
      BY <3>2, FreeUnhashIs DEF Leaves, Turns, Ends, Becomes, Is, Calling, Writing, Base
    <3> QED BY <1>4, <3>1, <3>2
  <2>4. Ahead(a)' \subseteq Ahead(a)
    BY <2>3 DEF Ahead
  <2>5. a = Worker => InWork' \subseteq InWork
    BY <2>3 DEF InWork
  <2> QED BY <1>0, <2>1, <2>2, <2>4, <2>5, UniqueMoves
<1>5. CASE FillPacket
  BY <1>5, PopUnique
<1>6. ASSUME NEW deny \in BOOLEAN, NextPacket(deny) PROVE Unique'
  BY <1>6, NextPacketUnique
<1>7. CASE Inject
  BY <1>7, InjectUnique
<1>8. CASE FillCode \/ FillFull \/ FillEnd \/ Read \/ ById \/ Request \/ RequestFails \/ CountBytes \/ InjectFails
  <2>1. Moves(Worker) /\ Worker \in Actors /\ Worker \notin Callers /\ Worker \notin Packets
    BY <1>8, WorkerFits, Boundaries DEF Base, ServeRead
  <2>2. UNCHANGED <<queue, batch, made>>
    BY <1>8 DEF FillCode, FillFull, FillEnd, Read, ById, Request, RequestFails, CountBytes, InjectFails, ioVars
  <2>3. InWork' \subseteq InWork
    <3>1. CASE FillCode \/ FillFull \/ FillEnd \/ Read
      <4>1. act'[Worker].pc \in {"pop", "next", "reading"}
        BY <3>1, ReadIs DEF Turns, Becomes, Is, Base
      <4> QED BY <4>1 DEF InWork, Writing
    <3>2. CASE ById \/ Request \/ RequestFails \/ CountBytes \/ InjectFails
      <4>1. act[Worker].pc \in Writing /\ act'[Worker].pkt = act[Worker].pkt
        BY <3>2, RequestIs, InjectFailsIs DEF Turns, Becomes, Is, Base, Writing
      <4> QED BY <4>1 DEF InWork
    <3> QED BY <1>8, <3>1, <3>2
  <2> QED BY <1>0, <2>1, <2>2, <2>3, UniqueMoves
<1>9. ASSUME NEW p \in Packets, CompleteBytes(p) PROVE Unique'
  <2>1. Moves(p) /\ act[p].pc = "out" /\ p \in Actors /\ p # Worker /\ p \notin Callers
    BY <1>9, CompleteFits, CompleteIs, Boundaries DEF Base
  <2>2. UNCHANGED <<queue, batch, made>>
    BY <1>9 DEF CompleteBytes, ioVars
  <2> QED BY <1>0, <2>1, <2>2, UniqueMoves
<1>10. CASE Close
  <2>1. Moves(Worker) /\ act'[Worker].pc = "idle" /\ act \in [Actors -> LocalsType]
    BY <1>10, CloseIs DEF Ends, Becomes, Is, Base, Locals
  <2>2. \A b \in Actors : b # Worker => act'[b] = act[b]
    BY <2>1, MovesAre, Boundaries DEF Base
  <2>3. \A j \in Callers : act'[j] = act[j]
    BY <2>2, Boundaries
  <2>4. Aheads' = Aheads
    <3>1. \A j \in Callers : Ahead(j)' = Ahead(j)
      BY <2>3 DEF Ahead, At
    <3> QED BY <3>1 DEF Aheads
  <2>5. InWork' = {} /\ Injecting' = Injecting
    BY <2>1, <2>2, Boundaries DEF InWork, Injecting, Writing
  <2>6. queue' = queue /\ batch' = <<>> /\ made' = made
    BY <1>10 DEF Close
  <2>7. Apart(Aheads, queue, <<>>, {}, Injecting, made)
    BY BoxedEmpty DEF Unique, Apart
  <2> QED BY <2>4, <2>5, <2>6, <2>7 DEF Unique
<1>11. CASE CleanQueue
  <2>1. UNCHANGED <<act, batch, made>> /\ queue' = <<>>
    BY <1>11 DEF CleanQueue
  <2>2. Aheads' = Aheads /\ InWork' = InWork /\ Injecting' = Injecting
    BY <2>1 DEF Aheads, Ahead, At, InWork, Injecting
  <2>3. Apart(Aheads, <<>>, batch, InWork, Injecting, made)
    BY BoxedEmpty DEF Unique, Apart
  <2> QED BY <2>1, <2>2, <2>3 DEF Unique
<1>12. CASE Open \/ PauseEnds \/ CleanContexts \/ CleanCodes \/ UNCHANGED vars
  <2>1. UNCHANGED <<act, queue, batch, made>>
    BY <1>12 DEF Open, PauseEnds, CleanContexts, CleanCodes, ioVars, vars
  <2>2. Aheads' = Aheads /\ InWork' = InWork /\ Injecting' = Injecting
    BY <2>1 DEF Aheads, Ahead, At, InWork, Injecting
  <2> QED BY <2>1, <2>2 DEF Unique
<1> QED
  BY <1>1, <1>2, <1>3, <1>4, <1>5, <1>6, <1>7, <1>8, <1>9, <1>10, <1>11, <1>12
     DEF Next, ServeRead, WorkerStep, WriteBack, CloseStep

-----------------------------------------------------------------------------
(***************************************************************************)
(* The third layer is inductive.                                           *)
(***************************************************************************)

LEMMA ActorsFinite ==
    /\ IsFiniteSet(Callers) /\ IsFiniteSet(Packets) /\ IsFiniteSet(Actors)
<1>1. IsFiniteSet(Callers) /\ IsFiniteSet(Packets)
  BY UdpAssumption, FS_Interval DEF Packets
<1>2. IsFiniteSet(Callers \cup {Worker})
  BY <1>1, FS_AddElement
<1> QED BY <1>1, <1>2, FS_Union DEF Actors

\* Two sets that differ in one element at most.
LEMMA OneApart ==
    ASSUME NEW U, IsFiniteSet(U), NEW P, NEW Q, P \subseteq U, Q \subseteq U, NEW a, P \ {a} = Q \ {a}
    PROVE  /\ Cardinality(P) \in Nat /\ Cardinality(Q) \in Nat
           /\ (a \in P <=> a \in Q) => Cardinality(Q) = Cardinality(P)
           /\ a \in P /\ a \notin Q => Cardinality(Q) = Cardinality(P) - 1
           /\ a \notin P /\ a \in Q => Cardinality(Q) = Cardinality(P) + 1
<1>1. IsFiniteSet(P) /\ IsFiniteSet(Q)
  BY FS_Subset
<1>2. Cardinality(P) \in Nat /\ Cardinality(Q) \in Nat
  BY <1>1, FS_CardinalityType
<1>3. ASSUME a \in P <=> a \in Q PROVE Cardinality(Q) = Cardinality(P)
  <2>1. P = Q
    BY <1>3
  <2> QED BY <2>1
<1>4. ASSUME a \in P, a \notin Q PROVE Cardinality(Q) = Cardinality(P) - 1
  <2>1. Q = P \ {a}
    BY <1>4
  <2> QED BY <1>1, <1>2, <1>4, <2>1, FS_RemoveElement
<1>5. ASSUME a \notin P, a \in Q PROVE Cardinality(Q) = Cardinality(P) + 1
  <2>1. Q = P \cup {a}
    BY <1>5
  <2> QED BY <1>1, <1>2, <1>5, <2>1, FS_AddElement
<1> QED BY <1>2, <1>3, <1>4, <1>5

\* The injections of c in direction d that are under way.
Out(c, d) == {p \in Packets : At(p, "out") /\ act[p].ctx = c /\ act[p].dir = d}

\* The worker is between counting the bytes and the injection.
InInject(c, d) == At(Worker, "inject") /\ act[Worker].ctx = c /\ act[Worker].dir = d

LEMMA CountedIs ==
    ASSUME NEW c \in Contexts, NEW d \in Directions
    PROVE  /\ Counted(c, d) = Cardinality(Out(c, d)) + (IF InInject(c, d) THEN 1 ELSE 0)
           /\ Cardinality(Out(c, d)) \in Nat /\ Cardinality(Pushing(c, d)) \in Nat
           /\ Counted(c, d) \in Nat
<1>1. Counted(c, d) = Cardinality(Out(c, d)) + (IF InInject(c, d) THEN 1 ELSE 0)
  BY DEF Counted, Out, InInject
<1>2. IsFiniteSet(Out(c, d)) /\ IsFiniteSet(Pushing(c, d))
  BY ActorsFinite, FS_Subset DEF Out, Pushing
<1>3. Cardinality(Out(c, d)) \in Nat /\ Cardinality(Pushing(c, d)) \in Nat
  BY <1>2, FS_CardinalityType
<1> QED BY <1>1, <1>3

\* Nobody's bytes but an actor's own change with what it has in hand.
LEMMA OnePushes ==
    ASSUME Locals, NEW a \in Actors, \A b \in Actors : b # a => act'[b] = act[b],
           NEW c \in Contexts, NEW d \in Directions
    PROVE  /\ Pushing(c, d)' \ {a} = Pushing(c, d) \ {a}
           /\ Out(c, d)' \ {a} = Out(c, d) \ {a}
           /\ a # Worker => (InInject(c, d)' <=> InInject(c, d))
           /\ Pushing(c, d) \subseteq Callers /\ Pushing(c, d)' \subseteq Callers
           /\ Out(c, d) \subseteq Packets /\ Out(c, d)' \subseteq Packets
           /\ a \in Pushing(c, d) <=> (a \in Callers /\ act[a].pc = "push" /\ act[a].ctx = c /\ act[a].dir = d)
           /\ a \in Pushing(c, d)' <=> (a \in Callers /\ act'[a].pc = "push" /\ act'[a].ctx = c /\ act'[a].dir = d)
           /\ a \in Out(c, d) <=> (a \in Packets /\ act[a].pc = "out" /\ act[a].ctx = c /\ act[a].dir = d)
           /\ a \in Out(c, d)' <=> (a \in Packets /\ act'[a].pc = "out" /\ act'[a].ctx = c /\ act'[a].dir = d)
<1>1. Pushing(c, d)' = {k \in Callers : act'[k].pc = "push" /\ act'[k].ctx = c /\ act'[k].dir = d}
      /\ Pushing(c, d) = {k \in Callers : act[k].pc = "push" /\ act[k].ctx = c /\ act[k].dir = d}
  BY DEF Pushing, At
<1>2. Out(c, d)' = {p \in Packets : act'[p].pc = "out" /\ act'[p].ctx = c /\ act'[p].dir = d}
      /\ Out(c, d) = {p \in Packets : act[p].pc = "out" /\ act[p].ctx = c /\ act[p].dir = d}
  BY DEF Out, At
<1>3. a # Worker => (InInject(c, d)' <=> InInject(c, d))
  BY Boundaries DEF InInject, At
<1>4. Pushing(c, d)' \ {a} = Pushing(c, d) \ {a}
  BY <1>1, Boundaries
<1>5. Out(c, d)' \ {a} = Out(c, d) \ {a}
  BY <1>2, Boundaries
<1> QED BY <1>1, <1>2, <1>3, <1>4, <1>5

\* What one step of one actor changes in the counts of packets.
LEMMA CountsMove ==
    ASSUME Locals, NEW a \in Actors, \A b \in Actors : b # a => act'[b] = act[b],
           NEW c \in Contexts, NEW d \in Directions
    PROVE  /\ Cardinality(Pushing(c, d)') \in Nat /\ Cardinality(Pushing(c, d)) \in Nat
           /\ Cardinality(Out(c, d)') \in Nat /\ Cardinality(Out(c, d)) \in Nat
           /\ (a \in Pushing(c, d) <=> a \in Pushing(c, d)') =>
                Cardinality(Pushing(c, d)') = Cardinality(Pushing(c, d))
           /\ a \in Pushing(c, d) /\ a \notin Pushing(c, d)' =>
                Cardinality(Pushing(c, d)') = Cardinality(Pushing(c, d)) - 1
           /\ a \notin Pushing(c, d) /\ a \in Pushing(c, d)' =>
                Cardinality(Pushing(c, d)') = Cardinality(Pushing(c, d)) + 1
           /\ (a \in Out(c, d) <=> a \in Out(c, d)') =>
                Cardinality(Out(c, d)') = Cardinality(Out(c, d))
           /\ a \in Out(c, d) /\ a \notin Out(c, d)' =>
                Cardinality(Out(c, d)') = Cardinality(Out(c, d)) - 1
           /\ a \notin Out(c, d) /\ a \in Out(c, d)' =>
                Cardinality(Out(c, d)') = Cardinality(Out(c, d)) + 1
<1> DEFINE P == Pushing(c, d)
<1> DEFINE P2 == Pushing(c, d)'
<1> DEFINE O == Out(c, d)
<1> DEFINE O2 == Out(c, d)'
<1>1. /\ P2 \ {a} = P \ {a} /\ O2 \ {a} = O \ {a}
      /\ P \subseteq Callers /\ P2 \subseteq Callers /\ O \subseteq Packets /\ O2 \subseteq Packets
  BY OnePushes
<1>2. /\ IsFiniteSet(Callers) /\ IsFiniteSet(Packets)
  BY ActorsFinite
<1> HIDE DEF P, P2, O, O2
<1>3. /\ Cardinality(P2) \in Nat /\ Cardinality(P) \in Nat
      /\ (a \in P <=> a \in P2) => Cardinality(P2) = Cardinality(P)
      /\ a \in P /\ a \notin P2 => Cardinality(P2) = Cardinality(P) - 1
      /\ a \notin P /\ a \in P2 => Cardinality(P2) = Cardinality(P) + 1
  BY <1>1, <1>2, OneApart
<1>4. /\ Cardinality(O2) \in Nat /\ Cardinality(O) \in Nat
      /\ (a \in O <=> a \in O2) => Cardinality(O2) = Cardinality(O)
      /\ a \in O /\ a \notin O2 => Cardinality(O2) = Cardinality(O) - 1
      /\ a \notin O /\ a \in O2 => Cardinality(O2) = Cardinality(O) + 1
  BY <1>1, <1>2, OneApart
<1> QED BY <1>3, <1>4 DEF P, P2, O, O2

BytesOf(c, d) ==
    /\ pended[c][d] >= Cardinality(Pushing(c, d))
    /\ injected[c][d] >= Counted(c, d)
    /\ "header" \notin Failing => injected[c][d] = Counted(c, d)
    /\ d \in busy[c] <=> injected[c][d] > Limit
    /\ injected[c][d] <= Limit + 1
    /\ act[Worker].pc = "count" /\ act[Worker].ctx = c /\ act[Worker].dir = d => injected[c][d] <= Limit

LEMMA BytesAre == Bytes <=> \A c \in Contexts, d \in Directions : BytesOf(c, d)
BY DEF Bytes, BytesOf, At

LEMMA BytesAreNext ==
    ASSUME \A c \in Contexts, d \in Directions : BytesOf(c, d)' PROVE Bytes'
BY DEF Bytes, BytesOf, At

\* The numbers of one context and direction, before and after a step of actor a.
Numbers(c, d) ==
    /\ pended[c][d] \in Int /\ injected[c][d] \in Int
    /\ Cardinality(Pushing(c, d)) \in Nat /\ Cardinality(Out(c, d)) \in Nat
    /\ Counted(c, d) = Cardinality(Out(c, d)) + (IF InInject(c, d) THEN 1 ELSE 0)

LEMMA NumbersAre ==
    ASSUME Globals, NEW c \in Contexts, NEW d \in Directions PROVE Numbers(c, d)
BY CountedIs DEF Numbers, Globals

LEMMA NumbersAreNext ==
    ASSUME Globals', NEW c \in Contexts, NEW d \in Directions PROVE Numbers(c, d)'
<1>1. pended'[c][d] \in Int /\ injected'[c][d] \in Int
  BY DEF Globals
<1>2. IsFiniteSet(Out(c, d)') /\ IsFiniteSet(Pushing(c, d)')
  <2>1. Out(c, d)' \subseteq Packets /\ Pushing(c, d)' \subseteq Callers
    BY DEF Out, Pushing
  <2> QED BY <2>1, ActorsFinite, FS_Subset
<1>3. Cardinality(Out(c, d)') \in Nat /\ Cardinality(Pushing(c, d)') \in Nat
  BY <1>2, FS_CardinalityType
<1>4. Counted(c, d)' = Cardinality(Out(c, d)') + (IF InInject(c, d)' THEN 1 ELSE 0)
  BY DEF Counted, Out, InInject
<1> QED BY <1>1, <1>3, <1>4 DEF Numbers

\* A step of an actor whose bytes are not counted, and that counts none.
LEMMA QuietBytes ==
    ASSUME Base, Base', Bytes, UNCHANGED byteVars, NEW a \in Actors, Moves(a),
           act[a].pc \notin {"out", "inject"},
           act'[a].pc \notin {"push", "out", "inject", "count"}
    PROVE  Bytes'
<1>0. Limit \in Nat /\ \A b \in Actors : b # a => act'[b] = act[b]
  BY MovesAre, Boundaries DEF Base
<1>1. ASSUME NEW c \in Contexts, NEW d \in Directions PROVE BytesOf(c, d)'
  <2>1. BytesOf(c, d) /\ Numbers(c, d) /\ Numbers(c, d)'
    BY BytesAre, NumbersAre, NumbersAreNext DEF Base
  <2>2. pended' = pended /\ injected' = injected /\ busy' = busy
    BY DEF byteVars
  <2>3. /\ a \notin Pushing(c, d)' /\ a \notin Out(c, d) /\ a \notin Out(c, d)'
        /\ a = Worker => ~InInject(c, d) /\ ~InInject(c, d)'
        /\ a # Worker => (InInject(c, d)' <=> InInject(c, d))
    BY <1>0, OnePushes DEF Base, InInject, At
  <2>4. Cardinality(Out(c, d)') = Cardinality(Out(c, d))
    BY <1>0, <2>3, CountsMove DEF Base
  <2>5. Cardinality(Pushing(c, d)') <= Cardinality(Pushing(c, d))
    BY <1>0, <2>3, CountsMove DEF Base
  <2>6. Counted(c, d)' = Counted(c, d)
    BY <2>1, <2>3, <2>4 DEF Numbers
  <2>7. act'[Worker].pc = "count" => act'[Worker] = act[Worker]
    BY <1>0, Boundaries
  <2>8. pended[c][d] >= Cardinality(Pushing(c, d)')
    BY <1>0, <2>1, <2>5, CountsMove DEF Numbers, BytesOf, Base
  <2> QED BY <2>1, <2>2, <2>6, <2>7, <2>8 DEF BytesOf
<1> QED BY <1>1, BytesAreNext

LEMMA SameBytes ==
    ASSUME Bytes, UNCHANGED <<byteVars, act>> PROVE Bytes'
<1>1. ASSUME NEW c \in Contexts, NEW d \in Directions PROVE BytesOf(c, d)'
  <2>1. pended' = pended /\ injected' = injected /\ busy' = busy /\ act' = act
    BY DEF byteVars
  <2>2. Pushing(c, d)' = Pushing(c, d) /\ Counted(c, d)' = Counted(c, d)
    BY <2>1 DEF Pushing, Counted, At
  <2>3. BytesOf(c, d)
    BY BytesAre
  <2> QED BY <2>1, <2>2, <2>3 DEF BytesOf
<1> QED BY <1>1, BytesAreNext

\* A callout counts the bytes of the buffer it queues, or takes them back.
LEMMA PendBytes ==
    ASSUME Base, Base', Bytes, NEW k \in Callers, Pend(k) \/ PushFails(k)
    PROVE  Bytes'
<1> DEFINE c == act[k].ctx
<1> DEFINE d == act[k].dir
<1>0. /\ Limit \in Nat /\ k \in Actors /\ k # Worker /\ k \notin Packets /\ Moves(k)
      /\ \A b \in Actors : b # k => act'[b] = act[b]
      /\ injected' = injected /\ busy' = busy
  <2>1. Moves(k) /\ k \in Actors /\ k # Worker /\ k \notin Packets /\ Limit \in Nat
    BY CalloutFits, Boundaries DEF Base, CalloutStep
  <2> QED BY <2>1, MovesAre DEF Base, Pend, PushFails
<1>1. /\ act'[k].ctx = c /\ act'[k].dir = d /\ c \in Contexts /\ d \in Directions
      /\ \/ act[k].pc = "pend" /\ act'[k].pc = "push" /\ pended' = [pended EXCEPT ![c][d] = pended[c][d] + 1]
         \/ act[k].pc = "push" /\ act'[k].pc = "drop" /\ pended' = [pended EXCEPT ![c][d] = pended[c][d] - 1]
  <2>1. CASE Pend(k)
    <3>1. act[k].pc = "pend" /\ act'[k].pc = "push" /\ act'[k].ctx = c /\ act'[k].dir = d
      BY <2>1, CalloutIs DEF Base, Turns, Becomes, Is
    <3>2. c \in Contexts /\ d \in Directions
      BY <1>0, <3>1, InHand DEF Base, Locals, Fits
    <3>3. pended' = [pended EXCEPT ![c][d] = pended[c][d] + 1]
      BY <2>1 DEF Pend
    <3> QED BY <3>1, <3>2, <3>3
  <2>2. CASE PushFails(k)
    <3>1. act[k].pc = "push" /\ act'[k].pc = "drop" /\ act'[k].ctx = c /\ act'[k].dir = d
      BY <2>2, CalloutIs DEF Base, Turns, Becomes, Is
    <3>2. c \in Contexts /\ d \in Directions
      BY <1>0, <3>1, InHand DEF Base, Locals, Fits
    <3>3. pended' = [pended EXCEPT ![c][d] = pended[c][d] - 1]
      BY <2>2 DEF PushFails
    <3> QED BY <3>1, <3>2, <3>3
  <2> QED BY <2>1, <2>2
<1> HIDE DEF c, d
<1>2. ASSUME NEW x \in Contexts, NEW y \in Directions PROVE BytesOf(x, y)'
  <2>1. BytesOf(x, y) /\ Numbers(x, y) /\ Numbers(x, y)'
    BY BytesAre, NumbersAre, NumbersAreNext DEF Base
  <2>2. /\ k \notin Out(x, y) /\ k \notin Out(x, y)'
        /\ InInject(x, y)' <=> InInject(x, y)
        /\ k \in Pushing(x, y) <=> (act[k].pc = "push" /\ c = x /\ d = y)
        /\ k \in Pushing(x, y)' <=> (act'[k].pc = "push" /\ c = x /\ d = y)
    BY <1>0, <1>1, OnePushes DEF Base, c, d
  <2>3. Cardinality(Out(x, y)') = Cardinality(Out(x, y))
    BY <1>0, <2>2, CountsMove DEF Base
  <2>4. Counted(x, y)' = Counted(x, y)
    BY <2>1, <2>2, <2>3 DEF Numbers
  <2>5. act'[Worker] = act[Worker]
    BY <1>0, Boundaries
  <2>6. pended'[x][y] >= Cardinality(Pushing(x, y)')
    <3>1. /\ (k \in Pushing(x, y) <=> k \in Pushing(x, y)') =>
               Cardinality(Pushing(x, y)') = Cardinality(Pushing(x, y))
          /\ k \in Pushing(x, y) /\ k \notin Pushing(x, y)' =>
                Cardinality(Pushing(x, y)') = Cardinality(Pushing(x, y)) - 1
          /\ k \notin Pushing(x, y) /\ k \in Pushing(x, y)' =>
                Cardinality(Pushing(x, y)') = Cardinality(Pushing(x, y)) + 1
      BY <1>0, CountsMove DEF Base
    <3>2. pended \in [Contexts -> [Directions -> Int]] /\ pended[x][y] >= Cardinality(Pushing(x, y))
          /\ pended[x][y] \in Int /\ Cardinality(Pushing(x, y)) \in Nat
      BY <2>1 DEF Base, Globals, BytesOf, Numbers
    <3>3. CASE act[k].pc = "pend" /\ act'[k].pc = "push" /\ pended' = [pended EXCEPT ![c][d] = pended[c][d] + 1]
      <4>1. pended'[x][y] = IF x = c /\ y = d THEN pended[x][y] + 1 ELSE pended[x][y]
        BY <1>1, <3>2, <3>3
      <4> QED BY <2>2, <3>1, <3>2, <3>3, <4>1
    <3>4. CASE act[k].pc = "push" /\ act'[k].pc = "drop" /\ pended' = [pended EXCEPT ![c][d] = pended[c][d] - 1]
      <4>1. pended'[x][y] = IF x = c /\ y = d THEN pended[x][y] - 1 ELSE pended[x][y]
        BY <1>1, <3>2, <3>4
      <4> QED BY <2>2, <3>1, <3>2, <3>4, <4>1
    <3> QED BY <1>1, <3>3, <3>4
  <2> QED BY <1>0, <2>1, <2>4, <2>5, <2>6 DEF BytesOf
<1> QED BY <1>2, BytesAreNext

\* The request is let through only below the limit.
LEMMA RequestBytes ==
    ASSUME Base, Base', Bytes, Request
    PROVE  Bytes'
<1>1. act[Worker].pc = "throttle" /\ UNCHANGED byteVars
  BY RequestIs DEF Base, Request
<1>2. Moves(Worker) /\ Worker \in Actors
  BY WorkerFits, Boundaries DEF Base
<1>3. CASE Turns(Worker, "drop", 1)
  <2>1. act'[Worker].pc = "drop"
    BY <1>3 DEF Turns, Becomes, Is
  <2> QED BY <1>1, <1>2, <2>1, QuietBytes
<1>4. CASE act[Worker].dir \notin busy[act[Worker].ctx] /\ Turns(Worker, "count", 2)
  <2>0. Limit \in Nat /\ \A b \in Actors : b # Worker => act'[b] = act[b]
    BY <1>2, MovesAre, Boundaries DEF Base
  <2>1. act'[Worker].pc = "count" /\ act'[Worker].ctx = act[Worker].ctx /\ act'[Worker].dir = act[Worker].dir
    BY <1>4 DEF Turns, Becomes, Is
  <2>2. ASSUME NEW c \in Contexts, NEW d \in Directions PROVE BytesOf(c, d)'
    <3>1. BytesOf(c, d) /\ Numbers(c, d) /\ Numbers(c, d)'
      BY BytesAre, NumbersAre, NumbersAreNext DEF Base
    <3>2. pended' = pended /\ injected' = injected /\ busy' = busy
      BY <1>1 DEF byteVars
    <3>3. /\ Worker \notin Pushing(c, d)' /\ Worker \notin Pushing(c, d)
          /\ Worker \notin Out(c, d) /\ Worker \notin Out(c, d)'
          /\ ~InInject(c, d) /\ ~InInject(c, d)'
      BY <1>1, <1>2, <2>0, <2>1, OnePushes, Boundaries DEF Base, InInject, At
    <3>4. /\ Cardinality(Out(c, d)') = Cardinality(Out(c, d))
          /\ Cardinality(Pushing(c, d)') = Cardinality(Pushing(c, d))
      BY <1>2, <2>0, <3>3, CountsMove DEF Base
    <3>6. Counted(c, d)' = Counted(c, d)
      BY <3>1, <3>3, <3>4 DEF Numbers
    <3>7. act'[Worker].ctx = c /\ act'[Worker].dir = d => injected[c][d] <= Limit
      BY <1>4, <2>0, <2>1, <3>1 DEF BytesOf, Numbers
    <3> QED BY <3>1, <3>2, <3>4, <3>6, <3>7 DEF BytesOf
  <2> QED BY <2>2, BytesAreNext
<1> QED BY <1>3, <1>4, RequestIs DEF Base

LEMMA CountBytesBytes ==
    ASSUME Base, Base', Bytes, CountBytes
    PROVE  Bytes'
<1> DEFINE c == act[Worker].ctx
<1> DEFINE d == act[Worker].dir
<1>0. /\ Limit \in Nat /\ Worker \in Actors /\ Worker \notin Callers /\ Worker \notin Packets
      /\ \A b \in Actors : b # Worker => act'[b] = act[b]
  BY WorkerFits, MovesAre, Boundaries DEF Base
<1>1. /\ act[Worker].pc = "count" /\ act'[Worker].pc = "inject" /\ act'[Worker].ctx = c /\ act'[Worker].dir = d
      /\ pended' = pended
  BY RequestIs DEF Base, Turns, Becomes, Is, CountBytes
<1>2. /\ c \in Contexts /\ d \in Directions
      /\ \A x \in Contexts, y \in Directions :
           /\ x # c \/ y # d => injected'[x][y] = injected[x][y] /\ (y \in busy'[x] <=> y \in busy[x])
           /\ x = c /\ y = d => /\ injected'[x][y] = injected[x][y] + 1
                                /\ injected'[x][y] > Limit => y \in busy'[x]
                                /\ injected'[x][y] <= Limit => (y \in busy'[x] <=> y \in busy[x])
  BY CountIs DEF Base
<1>3. \A x \in Contexts, y \in Directions : ~InInject(x, y) /\ (InInject(x, y)' <=> x = c /\ y = d)
  BY <1>1 DEF InInject, At
<1>4. \A x \in Contexts, y \in Directions :
        act[Worker].pc = "count" /\ act[Worker].ctx = x /\ act[Worker].dir = y <=> x = c /\ y = d
  BY <1>1
<1> HIDE DEF c, d
<1>5. ASSUME NEW x \in Contexts, NEW y \in Directions PROVE BytesOf(x, y)'
  <2>1. BytesOf(x, y) /\ Numbers(x, y) /\ Numbers(x, y)'
    BY BytesAre, NumbersAre, NumbersAreNext DEF Base
  <2>2. /\ Worker \notin Pushing(x, y)' /\ Worker \notin Pushing(x, y)
        /\ Worker \notin Out(x, y) /\ Worker \notin Out(x, y)'
    BY <1>0, OnePushes DEF Base
  <2>3. /\ Cardinality(Out(x, y)') = Cardinality(Out(x, y))
        /\ Cardinality(Pushing(x, y)') = Cardinality(Pushing(x, y))
    BY <1>0, <2>2, CountsMove DEF Base
  <2>4. CASE x = c /\ y = d
    <3>1. Counted(x, y)' = Counted(x, y) + 1
      BY <1>3, <2>1, <2>3, <2>4 DEF Numbers
    <3>2. injected[x][y] <= Limit /\ y \notin busy[x] /\ injected'[x][y] = injected[x][y] + 1
      BY <1>0, <1>2, <1>4, <2>1, <2>4 DEF BytesOf, Numbers
    <3>3. y \in busy'[x] <=> injected'[x][y] > Limit
      BY <1>0, <1>2, <2>1, <2>4, <3>2 DEF Numbers
    <3> QED BY <1>0, <1>1, <2>1, <2>3, <3>1, <3>2, <3>3 DEF BytesOf, Numbers
  <2>5. CASE ~(x = c /\ y = d)
    <3>1. Counted(x, y)' = Counted(x, y)
      BY <1>3, <2>1, <2>3, <2>5 DEF Numbers
    <3> QED BY <1>1, <1>2, <2>1, <2>3, <2>5, <3>1 DEF BytesOf, Numbers
  <2> QED BY <2>4, <2>5
<1> QED BY <1>5, BytesAreNext

\* A step that takes back bytes that were counted, or leaves them.
LEMMA UncountBytes ==
    ASSUME Base, Base', Bytes, NEW a \in Actors, Moves(a), pended' = pended,
           a = Worker \/ a \in Packets,
           act[a].pc = IF a = Worker THEN "inject" ELSE "out",
           act'[a].pc = "drop",
           act[a].ctx \in Contexts, act[a].dir \in Directions,
           \/ Uncount(act[a].ctx, act[a].dir)
           \/ "header" \in Failing /\ UNCHANGED <<injected, busy>>
    PROVE  Bytes'
<1> DEFINE c == act[a].ctx
<1> DEFINE d == act[a].dir
<1>0. /\ Limit \in Nat /\ a \notin Callers /\ Worker \notin Packets
      /\ \A b \in Actors : b # a => act'[b] = act[b]
  BY MovesAre, Boundaries DEF Base
<1>1. ASSUME NEW x \in Contexts, NEW y \in Directions PROVE BytesOf(x, y)'
  <2>1. BytesOf(x, y) /\ Numbers(x, y) /\ Numbers(x, y)'
    BY BytesAre, NumbersAre, NumbersAreNext DEF Base
  <2>2. /\ a \notin Pushing(x, y)' /\ a \notin Pushing(x, y) /\ a \notin Out(x, y)'
        /\ a # Worker => (InInject(x, y)' <=> InInject(x, y)) /\ (a \in Out(x, y) <=> x = c /\ y = d)
        /\ a = Worker => ~InInject(x, y)' /\ (InInject(x, y) <=> x = c /\ y = d) /\ a \notin Out(x, y)
    BY <1>0, OnePushes DEF Base, InInject, At
  <2>3. Cardinality(Pushing(x, y)') = Cardinality(Pushing(x, y))
    BY <1>0, <2>2, CountsMove DEF Base
  <2>4. Counted(x, y)' = Counted(x, y) - (IF x = c /\ y = d THEN 1 ELSE 0)
    <3>1. /\ (a \in Out(x, y) <=> a \in Out(x, y)') => Cardinality(Out(x, y)') = Cardinality(Out(x, y))
          /\ a \in Out(x, y) /\ a \notin Out(x, y)' => Cardinality(Out(x, y)') = Cardinality(Out(x, y)) - 1
      BY <1>0, CountsMove DEF Base
    <3>2. CASE a = Worker
      BY <2>1, <2>2, <3>1, <3>2 DEF Numbers
    <3>3. CASE a # Worker
      BY <2>1, <2>2, <3>1, <3>3 DEF Numbers
    <3> QED BY <3>2, <3>3
  <2>5. act'[Worker].pc = "count" => act'[Worker] = act[Worker]
    BY <1>0, Boundaries
  <2>6. Counted(x, y) \in Nat
    BY CountedIs
  <2>7. CASE Uncount(c, d)
    <3>1. /\ x # c \/ y # d => injected'[x][y] = injected[x][y] /\ (y \in busy'[x] <=> y \in busy[x])
          /\ x = c /\ y = d => /\ injected'[x][y] = injected[x][y] - 1
                               /\ injected'[x][y] <= Limit => y \notin busy'[x]
                               /\ injected'[x][y] > Limit => (y \in busy'[x] <=> y \in busy[x])
      BY <2>7, UncountTyped DEF Base
    <3>2. y \in busy'[x] <=> injected'[x][y] > Limit
      BY <1>0, <2>1, <3>1 DEF BytesOf, Numbers
    <3>3. injected'[x][y] = injected[x][y] - (IF x = c /\ y = d THEN 1 ELSE 0)
      BY <2>1, <3>1 DEF Numbers
    <3> HIDE DEF c, d
    <3>4. injected'[x][y] <= injected[x][y]
      BY <2>1, <3>3 DEF Numbers
    <3>5. /\ injected'[x][y] >= Counted(x, y)'
          /\ "header" \notin Failing => injected'[x][y] = Counted(x, y)'
      BY <2>1, <2>4, <2>6, <3>3 DEF BytesOf, Numbers
    <3>6. /\ injected'[x][y] <= Limit + 1
          /\ act'[Worker].pc = "count" /\ act'[Worker].ctx = x /\ act'[Worker].dir = y => injected'[x][y] <= Limit
      BY <1>0, <2>1, <2>5, <3>4 DEF BytesOf, Numbers
    <3> QED BY <2>1, <2>3, <3>2, <3>5, <3>6 DEF BytesOf
  <2>8. CASE "header" \in Failing /\ UNCHANGED <<injected, busy>>
    <3> HIDE DEF c, d
    <3>1. injected'[x][y] >= Counted(x, y)'
      BY <2>1, <2>4, <2>6, <2>8 DEF BytesOf, Numbers
    <3> QED BY <2>1, <2>3, <2>5, <2>8, <3>1 DEF BytesOf
  <2> QED BY <2>7, <2>8
<1> QED BY <1>1, BytesAreNext

\* The injection's bytes go with it.
LEMMA InjectBytes ==
    ASSUME Base, Base', Unique, Bytes, Inject
    PROVE  Bytes'
<1> DEFINE w == act[Worker]
<1> DEFINE p == act[Worker].pkt
<1>1. /\ w.pc = "inject" /\ p \in Packets /\ act \in [Actors -> LocalsType]
      /\ act'[Worker].pc = "drop"
      /\ act'[p].pc = "out" /\ act'[p].ctx = w.ctx /\ act'[p].dir = w.dir
      /\ UNCHANGED byteVars
  BY InjectIs, InHand, Boundaries DEF Base, Is, Inject
<1>2. /\ act[p].pc = "idle"
      /\ \A b \in Actors : b # Worker /\ b # p => act'[b] = act[b]
  BY InjectUnique
<1>3. /\ Worker \in Actors /\ p \in Actors /\ Worker \notin Packets /\ Worker \notin Callers
      /\ p \notin Callers /\ Callers \subseteq Actors /\ Packets \subseteq Actors
  BY <1>1, Boundaries
<1>4. ASSUME NEW x \in Contexts, NEW y \in Directions PROVE BytesOf(x, y)'
  <2>1. BytesOf(x, y) /\ Numbers(x, y) /\ Numbers(x, y)'
    BY BytesAre, NumbersAre, NumbersAreNext DEF Base
  <2>2. Pushing(x, y)' = Pushing(x, y)
    BY <1>2, <1>3 DEF Pushing, At
  <2>3. /\ Out(x, y)' \ {p} = Out(x, y) \ {p} /\ Out(x, y)' \subseteq Packets /\ Out(x, y) \subseteq Packets
        /\ p \notin Out(x, y) /\ (p \in Out(x, y)' <=> w.ctx = x /\ w.dir = y)
        /\ ~InInject(x, y)' /\ (InInject(x, y) <=> w.ctx = x /\ w.dir = y)
    BY <1>1, <1>2, <1>3 DEF Out, InInject, At
  <2>4. Counted(x, y)' = Counted(x, y)
    <3> DEFINE O == Out(x, y)
    <3> DEFINE O2 == Out(x, y)'
    <3> HIDE DEF O, O2, w, p
    <3>1. /\ Cardinality(O2) \in Nat /\ Cardinality(O) \in Nat
          /\ (p \in O <=> p \in O2) => Cardinality(O2) = Cardinality(O)
          /\ p \notin O /\ p \in O2 => Cardinality(O2) = Cardinality(O) + 1
      BY <2>3, ActorsFinite, OneApart DEF O, O2
    <3> QED BY <2>1, <2>3, <3>1 DEF O, O2, Numbers
  <2>5. pended' = pended /\ injected' = injected /\ busy' = busy
    BY <1>1 DEF byteVars
  <2> QED BY <1>1, <2>1, <2>2, <2>4, <2>5 DEF BytesOf
<1> QED BY <1>4, BytesAreNext

LEMMA BytesNext ==
    ASSUME Base, Base', Unique, Bytes, [Next]_vars
    PROVE  Bytes'
<1>1. ASSUME NEW k \in Callers, NEW e \in Endpoints,
             \/ \E d \in Directions, n \in 1..MaxBuffers : Classify(k, e, d, n)
             \/ Closure(k, e)
      PROVE  Bytes'
  <2>1. Moves(k) /\ k \in Actors /\ UNCHANGED byteVars
    BY <1>1, StartFits, Boundaries DEF Base, Classify, Closure
  <2>2. act[k].pc = "idle" /\ act'[k].pc \in {"idle", "find", "drop"}
    BY <1>1, ClassifyIs, ClosureIs DEF Base, Becomes, Is
  <2> QED BY <2>1, <2>2, QuietBytes
<1>2. ASSUME NEW k \in Callers, CalloutStep(k), ~Pend(k), ~PushFails(k) PROVE Bytes'
  <2>1. Moves(k) /\ k \in Actors
    BY <1>2, CalloutFits, Boundaries DEF Base
  <2>2. UNCHANGED byteVars
    BY <1>2 DEF CalloutStep, Find, Alloc, AllocFails, PendRefused, Push, PushCode
  <2>3. act[k].pc \in Calling
    BY <1>2, FindIs, AllocIs, CalloutIs, PushCodeIs DEF CalloutStep, Calling, Base
  <2>4. act'[k].pc \in {"alloc", "pend", "idle", "drop", "code"}
    <3>1. CASE Find(k)  BY <3>1, FindIs DEF Base, Turns, Becomes, Is
    <3>2. CASE Alloc(k)  BY <3>2, AllocIs DEF Base, Becomes, Is
    <3>3. CASE AllocFails(k) \/ PendRefused(k) \/ Push(k)
      BY <3>3, CalloutIs DEF Base, Turns, Ends, Becomes, Is
    <3>4. CASE PushCode(k)  BY <3>4, PushCodeIs DEF Base, Turns, Becomes, Is
    <3> QED BY <1>2, <3>1, <3>2, <3>3, <3>4 DEF CalloutStep
  <2> QED BY <2>1, <2>2, <2>3, <2>4, QuietBytes DEF Calling
<1>3. ASSUME NEW k \in Callers, Pend(k) \/ PushFails(k) PROVE Bytes'
  BY <1>3, PendBytes
<1>4. ASSUME NEW a \in Actors, FreeCtx(a) \/ FreeUnhash(a) PROVE Bytes'
  <2>1. Moves(a) /\ act[a].pc \in {"drop", "unhash"}
    BY <1>4, FreeFits, FreeCtxIs, FreeUnhashIs DEF Base
  <2>2. UNCHANGED byteVars
    BY <1>4 DEF FreeCtx, FreeUnhash
  <2>3. act'[a].pc \in {"drop", "unhash", "next", "idle"}
    <3>1. CASE FreeCtx(a)
      BY <3>1, FreeCtxIs DEF Turns, Ends, Becomes, Is, Base
    <3>2. CASE FreeUnhash(a)
      BY <3>2, FreeUnhashIs DEF Leaves, Turns, Ends, Becomes, Is, Base
    <3> QED BY <1>4, <3>1, <3>2
  <2> QED BY <2>1, <2>2, <2>3, QuietBytes
<1>5. CASE ServeRead \/ Read \/ ById \/ RequestFails \/ Close \/ \E deny \in BOOLEAN : NextPacket(deny)
  <2>1. Moves(Worker) /\ Worker \in Actors
    BY <1>5, WorkerFits, Boundaries DEF Base
  <2>2. UNCHANGED byteVars
    BY <1>5 DEF ServeRead, FillCode, FillPacket, FillFull, FillEnd, Read, ById, RequestFails, Close, NextPacket
  <2>3. /\ act[Worker].pc \notin {"out", "inject"}
        /\ act'[Worker].pc \notin {"push", "out", "inject", "count"}
    <3>1. CASE ServeRead \/ Read
      BY <3>1, ReadIs DEF ServeRead, Base, Turns, Becomes, Is
    <3>2. CASE ById \/ RequestFails
      BY <3>2, RequestIs DEF Base, Turns, Becomes, Is
    <3>3. CASE Close
      BY <3>3, CloseIs DEF Base, Ends, Becomes, Is
    <3>4. ASSUME NEW deny \in BOOLEAN, NextPacket(deny)
          PROVE  /\ act[Worker].pc \notin {"out", "inject"}
                 /\ act'[Worker].pc \notin {"push", "out", "inject", "count"}
      BY <3>4, NextPacketIs DEF Base, Ends, Becomes, Is
    <3> QED BY <1>5, <3>1, <3>2, <3>3, <3>4
  <2> QED BY <2>1, <2>2, <2>3, QuietBytes
<1>6. CASE Request
  BY <1>6, RequestBytes
<1>7. CASE CountBytes
  BY <1>7, CountBytesBytes
<1>8. CASE Inject
  BY <1>8, InjectBytes
<1>9. CASE InjectFails
  <2>1. /\ Worker \in Actors /\ Moves(Worker) /\ pended' = pended /\ act[Worker].dir \in Directions
    BY <1>9, WorkerFits, InHand, Boundaries DEF Base, InjectFails
  <2>2. /\ act[Worker].pc = "inject" /\ act[Worker].ctx \in Contexts /\ act'[Worker].pc = "drop"
        /\ \/ Uncount(act[Worker].ctx, act[Worker].dir)
           \/ "header" \in Failing /\ UNCHANGED <<injected, busy>>
    BY <1>9, InjectFailsIs DEF Base, Turns, Becomes, Is
  <2> QED BY <2>1, <2>2, UncountBytes
<1>10. ASSUME NEW p \in Packets, CompleteBytes(p) PROVE Bytes'
  <2>1. p \in Actors /\ p # Worker /\ Moves(p) /\ pended' = pended /\ Uncount(act[p].ctx, act[p].dir)
    BY <1>10, CompleteFits, Boundaries DEF Base, CompleteBytes
  <2>2. /\ act[p].pc = "out" /\ act[p].ctx \in Contexts /\ act[p].dir \in Directions /\ act'[p].pc = "drop"
    BY <1>10, CompleteIs DEF Base, Turns, Becomes, Is
  <2> QED BY <2>1, <2>2, UncountBytes
<1>11. CASE Open \/ CloseStep \/ UNCHANGED vars
  <2>1. UNCHANGED <<byteVars, act>>
    BY <1>11 DEF Open, CloseStep, PauseEnds, CleanQueue, CleanContexts, CleanCodes, vars
  <2> QED BY <2>1, SameBytes
<1> QED
  BY <1>1, <1>2, <1>3, <1>4, <1>5, <1>6, <1>7, <1>8, <1>9, <1>10, <1>11
     DEF Next, WorkerStep, WriteBack

LEMMA InitUnique == Init => Unique /\ Bytes
<1> SUFFICES ASSUME Init PROVE Unique /\ Bytes
  OBVIOUS
<1>1. \A a \in Actors : act[a].pc = "idle"
  BY RestFields DEF Init
<1>2. /\ \A k \in Callers : Aheads[k] = {}
      /\ InWork = {} /\ Injecting = {}
  BY <1>1, Boundaries DEF Aheads, Ahead, Calling, InWork, Writing, Injecting
<1>3. Unique
  BY <1>2, BoxedEmpty DEF Init, Unique, Apart
<1>4. ASSUME NEW c \in Contexts, NEW d \in Directions PROVE BytesOf(c, d)
  <2>1. Pushing(c, d) = {} /\ Out(c, d) = {} /\ ~InInject(c, d)
    BY <1>1, Boundaries DEF Pushing, Out, InInject, At
  <2>2. Counted(c, d) = 0 /\ Cardinality(Pushing(c, d)) = 0
    BY <2>1, CountedIs, FS_EmptySet
  <2>3. pended[c][d] = 0 /\ injected[c][d] = 0 /\ busy[c] = {} /\ act[Worker].pc # "count"
    BY <1>1, Boundaries DEF Init
  <2> QED BY <2>2, <2>3, Boundaries DEF BytesOf
<1> QED BY <1>3, <1>4, BytesAre

-----------------------------------------------------------------------------
(***************************************************************************)
(* The codes behind the queued packets.                                    *)
(***************************************************************************)
Coding == {k \in Callers : act[k].pc = "code"}
Popping == IF act[Worker].pc = "pop" THEN 1 ELSE 0

LEMMA CodesAre ==
    PacketsHaveCodes <=> Len(queue) <= Len(codes) + Cardinality(Coding) + Popping
BY DEF PacketsHaveCodes, Coding, Popping, At

LEMMA CodesAreNext ==
    ASSUME Len(queue') <= Len(codes') + Cardinality(Coding') + Popping' PROVE PacketsHaveCodes'
BY DEF PacketsHaveCodes, Coding, Popping, At

LEMMA CodingMoves ==
    ASSUME Locals, NEW a \in Actors, \A b \in Actors : b # a => act'[b] = act[b]
    PROVE  /\ Cardinality(Coding) \in Nat /\ Cardinality(Coding') \in Nat
           /\ a \notin Callers => Cardinality(Coding') = Cardinality(Coding)
           /\ (act[a].pc = "code" <=> act'[a].pc = "code") => Cardinality(Coding') = Cardinality(Coding)
           /\ a \in Callers /\ act[a].pc = "code" /\ act'[a].pc # "code" =>
                Cardinality(Coding') = Cardinality(Coding) - 1
           /\ a \in Callers /\ act[a].pc # "code" /\ act'[a].pc = "code" =>
                Cardinality(Coding') = Cardinality(Coding) + 1
           /\ a # Worker => Popping' = Popping
<1>1. Coding \subseteq Callers /\ Coding' \subseteq Callers /\ Coding' \ {a} = Coding \ {a}
  BY Boundaries DEF Coding
<1>2. /\ a \in Coding <=> a \in Callers /\ act[a].pc = "code"
      /\ a \in Coding' <=> a \in Callers /\ act'[a].pc = "code"
  BY DEF Coding
<1>3. a # Worker => Popping' = Popping
  BY Boundaries DEF Popping
<1> DEFINE P == Coding
<1> DEFINE Q == Coding'
<1> HIDE DEF P, Q
<1>4. /\ Cardinality(P) \in Nat /\ Cardinality(Q) \in Nat
      /\ (a \in P <=> a \in Q) => Cardinality(Q) = Cardinality(P)
      /\ a \in P /\ a \notin Q => Cardinality(Q) = Cardinality(P) - 1
      /\ a \notin P /\ a \in Q => Cardinality(Q) = Cardinality(P) + 1
  BY <1>1, ActorsFinite, OneApart DEF P, Q
<1> QED BY <1>2, <1>3, <1>4 DEF P, Q

LEMMA QuietCodes ==
    ASSUME Base, Base', PacketsHaveCodes, UNCHANGED <<queue, codes>>, NEW a \in Actors, Moves(a),
           act[a].pc \notin {"code", "pop"}, act'[a].pc # "code"
    PROVE  PacketsHaveCodes'
<1>1. \A b \in Actors : b # a => act'[b] = act[b]
  BY MovesAre DEF Base
<1>2. /\ Cardinality(Coding) \in Nat /\ Cardinality(Coding') = Cardinality(Coding)
      /\ a # Worker => Popping' = Popping
  BY <1>1, CodingMoves DEF Base
<1>3. Popping' >= Popping /\ Popping \in Nat /\ Popping' \in Nat
  BY <1>2 DEF Popping
<1>4. Len(queue) \in Nat /\ Len(codes) \in Nat
  BY DEF Base, Globals
<1>5. Len(queue) <= Len(codes) + Cardinality(Coding) + Popping
  BY CodesAre
<1>6. Len(queue') <= Len(codes') + Cardinality(Coding') + Popping'
  BY <1>2, <1>3, <1>4, <1>5
<1> QED BY <1>6, CodesAreNext

LEMMA LenCons ==
    ASSUME NEW S, NEW x \in S, NEW s \in Seq(S)
    PROVE  Len(<<x>> \o s) = Len(s) + 1
OBVIOUS

LEMMA CodedNext ==
    ASSUME Base, Base', PacketsHaveCodes, "code" \notin Failing, [Next]_vars
    PROVE  PacketsHaveCodes'
<1>0. /\ Globals /\ Locals /\ queue \in Seq(Boxes) /\ codes \in Seq(Directions) /\ batch \in Seq(Boxes)
      /\ Len(queue) \in Nat /\ Len(codes) \in Nat /\ Len(codes') \in Nat
      /\ Len(queue) <= Len(codes) + Cardinality(Coding) + Popping
      /\ Cardinality(Coding) \in Nat /\ Cardinality(Coding') \in Nat
      /\ Popping \in Nat /\ Popping' \in Nat
  <2>1. Coding \subseteq Callers /\ Coding' \subseteq Callers
    BY DEF Coding
  <2>2. Cardinality(Coding) \in Nat /\ Cardinality(Coding') \in Nat
    BY <2>1, ActorsFinite, FS_Subset, FS_CardinalityType
  <2>3. queue \in Seq(Boxes) /\ codes \in Seq(Directions) /\ batch \in Seq(Boxes) /\ codes' \in Seq(Directions)
    BY DEF Base, Globals
  <2>4. Popping \in Nat /\ Popping' \in Nat
    BY DEF Popping
  <2> QED BY <2>2, <2>3, <2>4, CodesAre DEF Base
<1>1. ASSUME NEW k \in Callers, NEW e \in Endpoints,
             \/ \E d \in Directions, n \in 1..MaxBuffers : Classify(k, e, d, n)
             \/ Closure(k, e)
      PROVE  PacketsHaveCodes'
  <2>1. Moves(k) /\ k \in Actors /\ UNCHANGED <<queue, codes>>
    BY <1>0, <1>1, StartFits, Boundaries DEF Classify, Closure, ioVars
  <2>2. act[k].pc = "idle" /\ act'[k].pc \in {"idle", "find", "drop"}
    BY <1>0, <1>1, ClassifyIs, ClosureIs DEF Becomes, Is
  <2> QED BY <2>1, <2>2, QuietCodes
<1>2. ASSUME NEW k \in Callers, CalloutStep(k), ~Push(k), ~PushCode(k) PROVE PacketsHaveCodes'
  <2>1. Moves(k) /\ k \in Actors
    BY <1>0, <1>2, CalloutFits, Boundaries
  <2>2. UNCHANGED <<queue, codes>>
    BY <1>2 DEF CalloutStep, Find, Alloc, AllocFails, Pend, PendRefused, PushFails, ioVars
  <2>3. act[k].pc \in {"find", "alloc", "pend", "push"} /\ act'[k].pc # "code"
    <3>1. CASE Find(k)  BY <1>0, <3>1, FindIs DEF Turns, Becomes, Is
    <3>2. CASE Alloc(k)  BY <1>0, <3>2, AllocIs DEF Becomes, Is
    <3>3. CASE AllocFails(k) \/ PendRefused(k) \/ Pend(k) \/ PushFails(k)
      BY <1>0, <3>3, CalloutIs DEF Turns, Ends, Becomes, Is
    <3> QED BY <1>2, <3>1, <3>2, <3>3 DEF CalloutStep
  <2> QED BY <2>1, <2>2, <2>3, QuietCodes
<1>3. ASSUME NEW k \in Callers, Push(k) \/ PushCode(k) PROVE PacketsHaveCodes'
  <2>1. /\ k \in Actors /\ k # Worker /\ \A b \in Actors : b # k => act'[b] = act[b]
    BY <1>0, <1>3, CalloutFits, MovesAre, Boundaries DEF CalloutStep
  <2>2. Popping' = Popping
    BY <1>0, <2>1, CodingMoves
  <2>3. CASE Push(k)
    <3>1. act[k].pc = "push" /\ act'[k].pc = "code"
      BY <1>0, <2>3, CalloutIs DEF Turns, Becomes, Is
    <3>2. Cardinality(Coding') = Cardinality(Coding) + 1
      BY <1>0, <2>1, <3>1, CodingMoves
    <3>3. codes' = codes
      BY <2>3 DEF Push
    <3>4. Len(queue') = Len(queue) + 1
      BY <1>0, <2>3, PushIs, LenCons
    <3>5. /\ Len(queue) \in Nat /\ Len(codes) \in Nat /\ Cardinality(Coding) \in Nat /\ Popping \in Nat
          /\ Len(queue) <= Len(codes) + Cardinality(Coding) + Popping
      BY <1>0
    <3>6. Len(queue') <= Len(codes') + Cardinality(Coding') + Popping'
      BY <2>2, <3>2, <3>3, <3>4, <3>5
    <3> QED BY <3>6, CodesAreNext
  <2>4. CASE PushCode(k)
    <3>1. act[k].pc = "code" /\ act'[k].pc # "code"
      BY <1>0, <2>4, PushCodeIs DEF Turns, Becomes, Is
    <3>2. Cardinality(Coding') = Cardinality(Coding) - 1
      BY <1>0, <2>1, <3>1, CodingMoves
    <3>3. queue' = queue /\ codes' = <<act[k].dir>> \o codes
      BY <2>4 DEF PushCode
    <3>4. Len(codes') = Len(codes) + 1
      <4>1. act[k].dir \in Directions
        BY <1>0, <2>1, InHand
      <4> QED BY <1>0, <3>3, <4>1, LenCons
    <3>5. Len(queue') <= Len(codes') + Cardinality(Coding') + Popping'
      BY <1>0, <2>2, <3>2, <3>3, <3>4
    <3> QED BY <3>5, CodesAreNext
  <2> QED BY <1>3, <2>3, <2>4
<1>4. ASSUME NEW a \in Actors, FreeCtx(a) \/ FreeUnhash(a) PROVE PacketsHaveCodes'
  <2>1. Moves(a) /\ act[a].pc \in {"drop", "unhash"}
    BY <1>0, <1>4, FreeFits, FreeCtxIs, FreeUnhashIs
  <2>2. UNCHANGED <<queue, codes>>
    BY <1>4 DEF FreeCtx, FreeUnhash, ioVars
  <2>3. act'[a].pc # "code"
    <3>1. CASE FreeCtx(a)
      BY <1>0, <3>1, FreeCtxIs DEF Turns, Ends, Becomes, Is
    <3>2. CASE FreeUnhash(a)
      BY <1>0, <3>2, FreeUnhashIs DEF Leaves, Turns, Ends, Becomes, Is
    <3> QED BY <1>4, <3>1, <3>2
  <2> QED BY <2>1, <2>2, <2>3, QuietCodes
<1>5. CASE Read \/ FillEnd \/ Close \/ ById \/ Request \/ RequestFails \/ CountBytes \/ InjectFails
           \/ \E deny \in BOOLEAN : NextPacket(deny)
  <2>1. Moves(Worker) /\ Worker \in Actors
    BY <1>0, <1>5, WorkerFits, Boundaries DEF ServeRead
  <2>2. UNCHANGED <<queue, codes>>
    BY <1>5 DEF Read, FillEnd, Close, ById, Request, RequestFails, CountBytes, InjectFails, NextPacket, ioVars
  <2>3. act[Worker].pc \notin {"code", "pop"} /\ act'[Worker].pc # "code"
    <3>1. CASE Read \/ FillEnd
      BY <1>0, <3>1, ReadIs DEF Turns, Becomes, Is
    <3>2. CASE ById \/ Request \/ RequestFails \/ CountBytes \/ InjectFails
      BY <1>0, <3>2, RequestIs, InjectFailsIs DEF Turns, Becomes, Is
    <3>3. CASE Close
      BY <1>0, <3>3, CloseIs DEF Ends, Becomes, Is
    <3>4. ASSUME NEW deny \in BOOLEAN, NextPacket(deny)
          PROVE  act[Worker].pc \notin {"code", "pop"} /\ act'[Worker].pc # "code"
      BY <1>0, <3>4, NextPacketIs DEF Ends, Becomes, Is
    <3> QED BY <1>5, <3>1, <3>2, <3>3, <3>4
  <2> QED BY <2>1, <2>2, <2>3, QuietCodes
<1>6. CASE FillCode \/ FillFull \/ FillPacket
  <2>1. Moves(Worker) /\ Worker \in Actors /\ Worker \notin Callers
    BY <1>0, <1>6, WorkerFits, Boundaries DEF ServeRead
  <2>2. Cardinality(Coding') = Cardinality(Coding)
    BY <1>0, <2>1, MovesAre, CodingMoves
  <2>3. CASE FillCode
    <3>1. /\ Popping = 0 /\ Popping' = 1
      BY <1>0, <2>3, ReadIs DEF Becomes, Is, Popping
    <3>2. queue' = queue /\ codes # <<>> /\ codes' = Tail(codes)
      BY <2>3 DEF FillCode
    <3>3. Len(codes') = Len(codes) - 1
      BY <1>0, <3>2
    <3>4. Len(queue') <= Len(codes') + Cardinality(Coding') + Popping'
      BY <1>0, <2>2, <3>1, <3>2, <3>3
    <3> QED BY <3>4, CodesAreNext
  <2>4. CASE FillFull
    <3>1. /\ Popping = 1 /\ Popping' = 0
      BY <1>0, <2>4, ReadIs DEF Turns, Becomes, Is, Popping
    <3>2. queue' = queue /\ codes' = <<act[Worker].dir>> \o codes
      BY <2>4 DEF FillFull
    <3>3. Len(codes') = Len(codes) + 1
      <4>1. act[Worker].dir \in Directions
        BY <1>0, <2>1, InHand
      <4> QED BY <1>0, <3>2, <4>1, LenCons
    <3>4. Len(queue') <= Len(codes') + Cardinality(Coding') + Popping'
      BY <1>0, <2>2, <3>1, <3>2, <3>3
    <3> QED BY <3>4, CodesAreNext
  <2>5. CASE FillPacket
    <3>1. /\ Popping = 1 /\ Popping' = 0
      BY <1>0, <2>5, ReadIs DEF Turns, Becomes, Is, Popping
    <3>2. codes' = codes
      BY <2>5 DEF FillPacket
    <3>3. CASE queue = <<>> /\ queue' = queue
      <4>1. Len(queue') = 0
        BY <3>3
      <4>2. Len(queue') <= Len(codes') + Cardinality(Coding') + Popping'
        BY <1>0, <4>1
      <4> QED BY <4>2, CodesAreNext
    <3>4. CASE queue # <<>> /\ queue' = Tail(queue)
      <4>1. Len(queue') = Len(queue) - 1
        BY <1>0, <3>4
      <4>2. Len(queue') <= Len(codes') + Cardinality(Coding') + Popping'
        BY <1>0, <2>2, <3>1, <3>2, <4>1
      <4> QED BY <4>2, CodesAreNext
    <3> QED BY <1>0, <2>5, <3>3, <3>4, PopIs
  <2> QED BY <1>6, <2>3, <2>4, <2>5
<1>7. CASE Inject
  <2>1. /\ act[Worker].pc = "inject" /\ act[Worker].pkt \in Packets /\ act \in [Actors -> LocalsType]
        /\ act' = [act EXCEPT ![Worker] = act'[Worker], ![act[Worker].pkt] = act'[act[Worker].pkt]]
        /\ act'[Worker].pc = "drop"
    BY <1>0, <1>7, InjectIs, InHand, Boundaries DEF Is
  <2>2. \A k \in Callers : act'[k] = act[k]
    <3>1. \A k \in Callers : k \in Actors /\ k # Worker /\ k # act[Worker].pkt
      BY <2>1, Boundaries
    <3> QED BY <2>1, <3>1
  <2>3. Coding' = Coding /\ Popping' = Popping /\ UNCHANGED <<queue, codes>>
    BY <1>7, <2>1, <2>2 DEF Coding, Popping, Inject, ioVars
  <2> QED BY <1>0, <2>3, CodesAreNext
<1>8. ASSUME NEW p \in Packets, CompleteBytes(p) PROVE PacketsHaveCodes'
  <2>1. Moves(p) /\ p \in Actors /\ UNCHANGED <<queue, codes>>
    BY <1>0, <1>8, CompleteFits, Boundaries DEF CompleteBytes, ioVars
  <2>2. act[p].pc = "out" /\ act'[p].pc = "drop"
    BY <1>0, <1>8, CompleteIs DEF Turns, Becomes, Is
  <2> QED BY <2>1, <2>2, QuietCodes
<1>9. CASE Open \/ PauseEnds \/ CleanContexts \/ UNCHANGED vars
  <2>1. UNCHANGED <<queue, codes, act>>
    BY <1>9 DEF Open, PauseEnds, CleanContexts, vars, ioVars
  <2> QED BY <2>1 DEF PacketsHaveCodes, At
<1>10. CASE CleanQueue \/ CleanCodes
  <2>1. queue' = <<>>
    BY <1>10 DEF CleanQueue, CleanCodes, Base, Stages
  <2>2. Len(queue') = 0
    BY <2>1
  <2>3. Len(queue') <= Len(codes') + Cardinality(Coding') + Popping'
    BY <1>0, <2>2
  <2> QED BY <2>3, CodesAreNext
<1> QED
  BY <1>1, <1>2, <1>3, <1>4, <1>5, <1>6, <1>7, <1>8, <1>9, <1>10
     DEF Next, CalloutStep, ServeRead, WorkerStep, WriteBack, CloseStep

-----------------------------------------------------------------------------
(***************************************************************************)
(* The theorems.                                                           *)
(***************************************************************************)

LEMMA UdpInductive == Spec => []UInv
<1>1. Init => UInv
  BY InitBase, InitUnique DEF UInv
<1>2. UInv /\ [Next]_vars => UInv'
  BY BaseNext, UniqueNext, BytesNext DEF UInv
<1> QED BY <1>1, <1>2, PTL DEF Spec

\* The types of the callouts, of the read path and of the close: above all no byte
\* count of a context goes below zero, however the bytes are counted and taken
\* back (udpctx.c, callouts.c, devctrl.c).
THEOREM UdpTypeCorrect == Spec => []TypeOK
<1>1. UInv => TypeOK
  <2> SUFFICES ASSUME UInv PROVE TypeOK
    OBVIOUS
  <2>1. pended \in [Contexts -> [Directions -> Nat]] /\ injected \in [Contexts -> [Directions -> Nat]]
    <3>1. ASSUME NEW c \in Contexts, NEW d \in Directions
          PROVE  pended[c][d] \in Nat /\ injected[c][d] \in Nat
      BY BytesAre, NumbersAre, CountedIs DEF UInv, Base, Numbers, BytesOf
    <3>2. pended \in [Contexts -> [Directions -> Int]] /\ injected \in [Contexts -> [Directions -> Int]]
      BY DEF UInv, Base, Globals
    <3> QED BY <3>1, <3>2
  <2>2. Globals /\ act \in [Actors -> LocalsType]
    BY DEF UInv, Base, Locals
  <2> QED BY <2>1, <2>2 DEF TypeOK, Globals, Boxes
<1> QED BY <1>1, UdpInductive, PTL

\* A direction is throttled exactly while more is injected than the limit, whatever
\* callouts, write requests and completions run, as long as the headers of an
\* injected packet can be built (devctrl_processInjectUDPPacket).
THEOREM ThrottleExact == ASSUME "header" \notin Failing PROVE Spec => []ThrottleIsExact
<1>1. UInv => ThrottleIsExact
  <2> SUFFICES ASSUME UInv PROVE ThrottleIsExact
    OBVIOUS
  <2>1. ASSUME NEW c \in listed, NEW d \in Directions
        PROVE  /\ injected[c][d] = Counted(c, d)
               /\ d \in busy[c] <=> injected[c][d] > Limit
               /\ injected[c][d] <= Limit + 1
    <3>1. c \in Contexts
      BY DEF UInv, Base, Globals
    <3>2. BytesOf(c, d)
      BY <3>1, BytesAre DEF UInv
    <3> QED BY <3>2 DEF BytesOf
  <2> QED BY <2>1 DEF ThrottleIsExact
<1> QED BY <1>1, UdpInductive, PTL

\* Every queued packet has a code, as long as no code is lost to a failed
\* allocation (push_udpPacketinfo, devctrl_pushEventQueryLisy, devctrl_fillBuffer).
THEOREM EveryPacketHasACode == ASSUME "code" \notin Failing PROVE Spec => []PacketsHaveCodes
<1>1. Init => PacketsHaveCodes
  <2> SUFFICES ASSUME Init PROVE PacketsHaveCodes
    OBVIOUS
  <2>1. queue = <<>> /\ codes = <<>> /\ act[Worker].pc = "idle"
    BY RestFields, Boundaries DEF Init
  <2>2. Coding \subseteq Callers
    BY DEF Coding
  <2>3. Cardinality(Coding) \in Nat
    BY <2>2, ActorsFinite, FS_Subset, FS_CardinalityType
  <2>4. Len(queue) = 0 /\ Len(codes) = 0 /\ Popping = 0
    BY <2>1 DEF Popping
  <2> QED BY <2>3, <2>4, CodesAre
<1>2. UInv /\ UInv' /\ PacketsHaveCodes /\ [Next]_vars => PacketsHaveCodes'
  BY CodedNext DEF UInv
<1> QED BY <1>1, <1>2, UdpInductive, PTL DEF Spec
=============================================================================
