------------------------ MODULE UdpReferencesProofs ------------------------
(***************************************************************************)
(* Proofs about the references to the contexts of UdpContexts.  They stand *)
(* on the invariant UInv of UdpContextsProofs.  udp_clean frees what is in *)
(* the list whatever its count, so a closure that is indicated meanwhile   *)
(* may go on with a context that is gone; the proofs say what it does then *)
(* (Gone), and that nobody else can be in its place (Holding).             *)
(***************************************************************************)
EXTENDS UdpContextsProofs

\* The reference of the table of handles, until a closure takes it over.
TableRef(c) == IF home[c] \in closed /\ byHandle[home[c]] = c THEN 0 ELSE 1

\* An actor has taken c out of the list and has yet to clear the table and free it.
Unhashing(c) == \E a \in Actors : At(a, "unhash") /\ act[a].ctx = c

\* c was freed: by its last holder, or by udp_clean under a closure.
Gone(c) == state[c] = "freed"

CountOf(c) ==
    c \in listed =>
        /\ state[c] = "live" /\ home[c] \in Endpoints
        /\ refs[c] >= Owed(c) + TableRef(c)
        /\ "header" \notin Failing => refs[c] = Owed(c) + TableRef(c)

LiveOf(c) ==
    /\ state[c] = "live" => c \in listed \/ Unhashing(c)
    /\ state[c] = "freed" => home[c] = None

HandOf(a) ==
    /\ act[a].owes > 0 => act[a].ctx \in listed \/ Gone(act[a].ctx)
    /\ act[a].pc = "unhash" /\ ~Gone(act[a].ctx) =>
         /\ act[a].owes = 0 /\ act[a].ctx \notin listed /\ state[act[a].ctx] = "live"
         /\ home[act[a].ctx] \in closed /\ byHandle[home[act[a].ctx]] \in {act[a].ctx, None}
         /\ \A b \in Actors : act[b].pc = "unhash" /\ act[b].ctx = act[a].ctx => b = a
    /\ a \in Callers /\ act[a].pc \in Calling => act[a].ep \notin closed

TableOf(e) ==
    byHandle[e] # None =>
        /\ home[byHandle[e]] = e
        /\ byHandle[e] \in listed \/ Unhashing(byHandle[e])

References ==
    /\ \A c \in Contexts : CountOf(c) /\ LiveOf(c)
    /\ \A a \in Actors : HandOf(a)
    /\ \A e \in Endpoints : TableOf(e)

RInv == UInv /\ References

(***************************************************************************)
(* The fifth layer: who can hold a context that udp_clean frees.           *)
(***************************************************************************)

\* The stages of the close in which its pause is over and the list is not yet freed.
Late == {"cleanQueue", "cleanContexts"}

\* A callout holds contexts of its own endpoint.  A closure is alone on its endpoint,
\* and after the pause there are closures only.
CallerOf(k) ==
    act[k].pc # "idle" =>
        /\ act[k].ep \in closed =>
             \A j \in Callers : j = k \/ act[j].pc = "idle" \/ act[j].ep # act[k].ep
        /\ act[k].owes > 0 /\ act[k].ctx \in listed => home[act[k].ctx] = act[k].ep
        /\ session \in Late => act[k].ep \in closed

\* A context that is gone is held by one closure at most.
GoneOf(a) ==
    act[a].owes > 0 /\ Gone(act[a].ctx) =>
        /\ a \in Callers /\ act[a].ep \in closed
        /\ \A b \in Actors : act[b].owes > 0 /\ act[b].ctx = act[a].ctx => b = a

\* Behind udp_clean the list stays empty until the device is opened again.
Emptied == session \in {"cleanCodes", "closed"} => listed = {}

Holding ==
    /\ \A k \in Callers : CallerOf(k)
    /\ \A a \in Actors : GoneOf(a)
    /\ Emptied

HInv == RInv /\ Holding

-----------------------------------------------------------------------------
(***************************************************************************)
(* What is owed.                                                           *)
(***************************************************************************)

\* What an actor with locals l owes to c.
Share(l, c) == IF l.ctx = c THEN l.owes ELSE 0

HoldersIn(f, c) == {a \in Actors : f[a].ctx = c /\ f[a].owes > 0}
TwiceIn(f, c) == {a \in Actors : f[a].ctx = c /\ f[a].owes = 2}
OwedIn(f, c) == Cardinality(HoldersIn(f, c)) + Cardinality(TwiceIn(f, c))

\* Owed counts the actors that hold c, and once more those that hold it twice.
LEMMA OwedIs ==
    ASSUME NEW c
    PROVE  Owed(c) = OwedIn(act, c) /\ Owed(c)' = OwedIn(act', c)
<1>1. /\ Holders(c) = HoldersIn(act, c)
      /\ {a \in Holders(c) : act[a].owes = 2} = TwiceIn(act, c)
  BY DEF Holders, HoldersIn, TwiceIn
<1>2. /\ Holders(c)' = HoldersIn(act', c)
      /\ {a \in Holders(c)' : act'[a].owes = 2} = TwiceIn(act', c)
  BY DEF Holders, HoldersIn, TwiceIn
<1> QED BY <1>1, <1>2 DEF Owed, OwedIn

LEMMA OwedFinite ==
    ASSUME NEW f \in [Actors -> LocalsType], NEW c
    PROVE  /\ IsFiniteSet(HoldersIn(f, c)) /\ IsFiniteSet(TwiceIn(f, c))
           /\ Cardinality(HoldersIn(f, c)) \in Nat /\ Cardinality(TwiceIn(f, c)) \in Nat
           /\ OwedIn(f, c) \in Nat
<1>1. IsFiniteSet(HoldersIn(f, c)) /\ IsFiniteSet(TwiceIn(f, c))
  BY ActorsFinite, FS_Subset DEF HoldersIn, TwiceIn
<1>2. Cardinality(HoldersIn(f, c)) \in Nat /\ Cardinality(TwiceIn(f, c)) \in Nat
  BY <1>1, FS_CardinalityType
<1> QED BY <1>1, <1>2 DEF OwedIn

\* When one actor's locals change, what is owed changes by its share.
LEMMA OwedMoves ==
    ASSUME NEW f \in [Actors -> LocalsType], NEW g \in [Actors -> LocalsType], NEW a \in Actors,
           \A b \in Actors : b # a => g[b] = f[b], NEW c
    PROVE  OwedIn(g, c) = OwedIn(f, c) - Share(f[a], c) + Share(g[a], c)
<1> DEFINE P == HoldersIn(f, c)
           Q == HoldersIn(g, c)
           R == TwiceIn(f, c)
           S == TwiceIn(g, c)
<1>1. f[a].owes \in 0..2 /\ g[a].owes \in 0..2
  BY DEF LocalsType
<1>2. /\ P \subseteq Actors /\ Q \subseteq Actors /\ R \subseteq Actors /\ S \subseteq Actors
      /\ P \ {a} = Q \ {a} /\ R \ {a} = S \ {a}
  BY DEF HoldersIn, TwiceIn
<1>3. /\ a \in P <=> f[a].ctx = c /\ f[a].owes > 0
      /\ a \in Q <=> g[a].ctx = c /\ g[a].owes > 0
      /\ a \in R <=> f[a].ctx = c /\ f[a].owes = 2
      /\ a \in S <=> g[a].ctx = c /\ g[a].owes = 2
  BY DEF HoldersIn, TwiceIn
<1>4. OwedIn(f, c) = Cardinality(P) + Cardinality(R) /\ OwedIn(g, c) = Cardinality(Q) + Cardinality(S)
  BY DEF OwedIn
<1>5. /\ Share(f[a], c) = (IF a \in P THEN 1 ELSE 0) + (IF a \in R THEN 1 ELSE 0)
      /\ Share(g[a], c) = (IF a \in Q THEN 1 ELSE 0) + (IF a \in S THEN 1 ELSE 0)
  BY <1>1, <1>3 DEF Share
<1>6. /\ Cardinality(P) \in Nat /\ Cardinality(Q) \in Nat /\ Cardinality(R) \in Nat /\ Cardinality(S) \in Nat
  BY OwedFinite
<1> HIDE DEF P, Q, R, S
<1>7. Cardinality(Q) = Cardinality(P) - (IF a \in P THEN 1 ELSE 0) + (IF a \in Q THEN 1 ELSE 0)
  <2>1. /\ (a \in P <=> a \in Q) => Cardinality(Q) = Cardinality(P)
        /\ a \in P /\ a \notin Q => Cardinality(Q) = Cardinality(P) - 1
        /\ a \notin P /\ a \in Q => Cardinality(Q) = Cardinality(P) + 1
    BY <1>2, ActorsFinite, OneApart
  <2> QED BY <1>6, <2>1
<1>8. Cardinality(S) = Cardinality(R) - (IF a \in R THEN 1 ELSE 0) + (IF a \in S THEN 1 ELSE 0)
  <2>1. /\ (a \in R <=> a \in S) => Cardinality(S) = Cardinality(R)
        /\ a \in R /\ a \notin S => Cardinality(S) = Cardinality(R) - 1
        /\ a \notin R /\ a \in S => Cardinality(S) = Cardinality(R) + 1
    BY <1>2, ActorsFinite, OneApart
  <2> QED BY <1>6, <2>1
<1> QED BY <1>4, <1>5, <1>6, <1>7, <1>8

\* What is owed to c is what nobody, or at least what each actor owes.
LEMMA OwedBounds ==
    ASSUME Locals, NEW c
    PROVE  /\ Owed(c) \in Nat
           /\ (\A a \in Actors : Share(act[a], c) = 0) => Owed(c) = 0
           /\ \A a \in Actors : Share(act[a], c) \in 0..2 /\ Owed(c) >= Share(act[a], c)
           /\ \A a, b \in Actors : a # b /\ Share(act[a], c) > 0 /\ Share(act[b], c) > 0 => Owed(c) > 1
<1>0. act \in [Actors -> LocalsType] /\ \A a \in Actors : act[a].owes \in 0..2
  BY InHand DEF Locals
<1>1. /\ Owed(c) = Cardinality(HoldersIn(act, c)) + Cardinality(TwiceIn(act, c)) /\ Owed(c) \in Nat
      /\ IsFiniteSet(HoldersIn(act, c)) /\ IsFiniteSet(TwiceIn(act, c))
      /\ Cardinality(HoldersIn(act, c)) \in Nat /\ Cardinality(TwiceIn(act, c)) \in Nat
  BY <1>0, OwedIs, OwedFinite DEF OwedIn
<1>2. ASSUME \A a \in Actors : Share(act[a], c) = 0 PROVE Owed(c) = 0
  <2>1. HoldersIn(act, c) = {} /\ TwiceIn(act, c) = {}
    BY <1>0, <1>2 DEF HoldersIn, TwiceIn, Share
  <2> QED BY <1>1, <2>1, FS_EmptySet
<1>3. ASSUME NEW a \in Actors PROVE Share(act[a], c) \in 0..2 /\ Owed(c) >= Share(act[a], c)
  <2>1. /\ HoldersIn(act, c) # {} => Cardinality(HoldersIn(act, c)) # 0
        /\ TwiceIn(act, c) # {} => Cardinality(TwiceIn(act, c)) # 0
    BY <1>1, FS_EmptySet
  <2>2. /\ Share(act[a], c) \in 0..2
        /\ Share(act[a], c) > 0 => a \in HoldersIn(act, c)
        /\ Share(act[a], c) = 2 => a \in TwiceIn(act, c)
    BY <1>0 DEF Share, HoldersIn, TwiceIn
  <2> QED BY <1>1, <2>1, <2>2
<1>4. ASSUME NEW a \in Actors, NEW b \in Actors, a # b, Share(act[a], c) > 0, Share(act[b], c) > 0
      PROVE  Owed(c) > 1
  <2>1. {a, b} \subseteq HoldersIn(act, c)
    BY <1>0, <1>4 DEF Share, HoldersIn
  <2>2. Cardinality({a, b}) = 2
    <3>1. IsFiniteSet({a}) /\ Cardinality({a}) = 1
      BY FS_Singleton
    <3>2. Cardinality({a} \cup {b}) = 2
      BY <1>4, <3>1, FS_AddElement
    <3>3. {a, b} = {a} \cup {b}
      OBVIOUS
    <3> QED BY <3>2, <3>3
  <2>3. Cardinality({a, b}) <= Cardinality(HoldersIn(act, c))
    BY <1>1, <2>1, FS_Subset
  <2> QED BY <1>1, <2>2, <2>3
<1> QED BY <1>1, <1>2, <1>3, <1>4

-----------------------------------------------------------------------------
(***************************************************************************)
(* The kinds of steps.                                                     *)
(***************************************************************************)

\* A freed context has no endpoint, and nobody lists it.
LEMMA GoneIs ==
    ASSUME References, NEW c \in Contexts, Gone(c)
    PROVE  c \notin listed /\ home[c] = None
BY DEF Gone, References, CountOf, LiveOf

\* A context of an endpoint that is open is not on its way out of the table.
LEMMA OpenIsListed ==
    ASSUME References, Globals, Locals, NEW c \in Contexts, home[c] \in Endpoints, home[c] \notin closed
    PROVE  ~Unhashing(c)
<1> SUFFICES ASSUME NEW a \in Actors, act[a].pc = "unhash", act[a].ctx = c PROVE FALSE
  BY DEF Unhashing, At
<1>1. ~Gone(c)
  BY GoneIs, Boundaries
<1> QED BY <1>1 DEF References, HandOf

LEMMA TableRefIs ==
    ASSUME NEW c
    PROVE  /\ TableRef(c) \in {0, 1} /\ TableRef(c)' \in {0, 1}
           /\ TableRef(c) = 0 <=> home[c] \in closed /\ byHandle[home[c]] = c
           /\ TableRef(c)' = 0 <=> home'[c] \in closed' /\ byHandle'[home'[c]] = c
BY DEF TableRef

LEMMA OwedChanges ==
    ASSUME Locals, Locals', NEW a \in Actors, \A b \in Actors : b # a => act'[b] = act[b], NEW c
    PROVE  Owed(c)' = Owed(c) - Share(act[a], c) + Share(act'[a], c)
BY OwedIs, OwedMoves DEF Locals

\* The others go on clearing the table.
LEMMA StillUnhashing ==
    ASSUME NEW a \in Actors, \A b \in Actors : b # a => act'[b] = act[b], NEW c,
           act[a].pc = "unhash" => act[a].ctx # c
    PROVE  Unhashing(c) => Unhashing(c)'
BY DEF Unhashing, At

\* The table has c, if anything, for endpoint e.
TableIs(e, c) == byHandle[e] = c => c = None \/ (home[c] = e /\ (c \in listed \/ Unhashing(c)))

LEMMA TableIsThat ==
    ASSUME NEW e
    PROVE  /\ TableOf(e) <=> \A c : TableIs(e, c)
           /\ TableOf(e)' <=> \A c : TableIs(e, c)'
<1>1. TableOf(e) <=> \A c : TableIs(e, c)
  BY DEF TableOf, TableIs
<1>2. TableOf(e)' <=> \A c : TableIs(e, c)'
  BY DEF TableOf, TableIs, Unhashing, At
<1> QED BY <1>1, <1>2

\* A step of one actor that changes the counts by what it owes, and leaves the list
\* and the tables alone.
LEMMA StepRefs ==
    ASSUME UInv, UInv', References, UNCHANGED <<state, home, listed, byHandle, closed>>,
           NEW a \in Actors, \A b \in Actors : b # a => act'[b] = act[b],
           act[a].pc = "unhash" => Gone(act[a].ctx), act'[a].pc = "unhash" => Gone(act'[a].ctx),
           act'[a].owes > 0 => act'[a].ctx \in listed \/ Gone(act'[a].ctx),
           a \in Callers /\ act'[a].pc \in Calling => act'[a].ep \notin closed,
           \A c \in listed :
             LET n == refs[c] - Share(act[a], c) + Share(act'[a], c)
             IN refs'[c] = n \/ ("header" \in Failing /\ refs'[c] >= n)
    PROVE  References'
<1>0. Locals /\ Locals' /\ listed \subseteq Contexts
  BY DEF UInv, Base, Globals
<1>1. ASSUME NEW c \in Contexts PROVE CountOf(c)' /\ LiveOf(c)'
  <2>1. CountOf(c) /\ LiveOf(c)
    BY DEF References
  <2>2. ~Gone(c) /\ Unhashing(c) => Unhashing(c)'
    BY StillUnhashing
  <2>3. TableRef(c)' = TableRef(c)
    BY DEF TableRef
  <2>4. Owed(c)' = Owed(c) - Share(act[a], c) + Share(act'[a], c)
    BY <1>0, OwedChanges
  <2>5. /\ Owed(c) \in Nat /\ Share(act[a], c) \in Nat /\ TableRef(c) \in Nat
        /\ refs[c] \in Nat /\ refs'[c] \in Nat
    <3>1. Owed(c) \in Nat /\ Share(act[a], c) \in 0..2
      BY <1>0, OwedBounds
    <3>2. TableRef(c) \in {0, 1}
      BY TableRefIs
    <3>3. refs \in [Contexts -> Nat] /\ refs' \in [Contexts -> Nat]
      BY DEF UInv, Base, Globals
    <3> QED BY <3>1, <3>2, <3>3
  <2>6. Share(act'[a], c) \in Nat
    BY <1>0 DEF Share, Locals, LocalsType
  <2>7. ASSUME c \in listed
        PROVE  /\ refs'[c] >= Owed(c)' + TableRef(c)'
               /\ "header" \notin Failing => refs'[c] = Owed(c)' + TableRef(c)'
    <3>1. \/ refs'[c] = refs[c] - Share(act[a], c) + Share(act'[a], c)
          \/ "header" \in Failing /\ refs'[c] >= refs[c] - Share(act[a], c) + Share(act'[a], c)
      BY <2>7
    <3>2. /\ refs[c] >= Owed(c) + TableRef(c)
          /\ "header" \notin Failing => refs[c] = Owed(c) + TableRef(c)
      BY <2>1, <2>7 DEF CountOf
    <3> QED BY <2>3, <2>4, <2>5, <2>6, <3>1, <3>2
  <2>8. CountOf(c)'
    BY <2>1, <2>7 DEF CountOf
  <2>9. LiveOf(c)'
    BY <2>1, <2>2 DEF LiveOf, Gone
  <2> QED BY <2>8, <2>9
<1>2. ASSUME NEW b \in Actors PROVE HandOf(b)'
  <2>0. \A x : Gone(x)' = Gone(x)
    BY DEF Gone
  <2>1. CASE b = a
    BY <2>0, <2>1 DEF HandOf
  <2>2. CASE b # a
    <3>1. HandOf(b) /\ act'[b] = act[b]
      BY <2>2 DEF References
    <3> QED BY <2>0, <3>1 DEF HandOf
  <2> QED BY <2>1, <2>2
<1>3. ASSUME NEW e \in Endpoints PROVE TableOf(e)'
  <2>1. TableOf(e)
    BY DEF References
  <2>2. \A c : ~Gone(c) /\ Unhashing(c) => Unhashing(c)'
    BY StillUnhashing
  <2>3. ASSUME NEW c, TableIs(e, c) PROVE TableIs(e, c)'
    <3>1. byHandle[e] = c /\ c # None => c \in Contexts /\ home[c] = e
      BY <2>3 DEF TableIs, UInv, Base, Globals
    <3>2. byHandle[e] = c /\ c # None => ~Gone(c)
      BY <3>1, GoneIs, Boundaries
    <3> QED BY <2>2, <2>3, <3>2 DEF TableIs
  <2> QED BY <2>1, <2>3, TableIsThat
<1> QED BY <1>1, <1>2, <1>3 DEF References

\* A step of the session that changes no context and no actor.
LEMMA SessionRefs ==
    ASSUME References, UNCHANGED <<ctxVars, closed, act>>
    PROVE  References'
<1>1. \A c \in Contexts : TableRef(c)' = TableRef(c) /\ Owed(c)' = Owed(c) /\ Unhashing(c)' = Unhashing(c)
  BY DEF TableRef, Owed, Holders, Unhashing, At, ctxVars
<1>2. \A c \in Contexts : CountOf(c)' /\ LiveOf(c)'
  BY <1>1 DEF References, CountOf, LiveOf, ctxVars
<1>3. \A a \in Actors : HandOf(a)'
  BY DEF References, HandOf, Gone, ctxVars
<1>4. \A e \in Endpoints : TableOf(e)'
  BY DEF References, TableOf, Unhashing, At, ctxVars
<1> QED BY <1>2, <1>3, <1>4 DEF References

\* The count of a context that stays in the list, when one actor takes a step.
LEMMA StaysCounted ==
    ASSUME UInv, UInv', NEW c \in Contexts, CountOf(c),
           NEW a \in Actors, \A b \in Actors : b # a => act'[b] = act[b],
           c \in listed' =>
             /\ c \in listed /\ state'[c] = state[c] /\ home'[c] = home[c]
             /\ refs'[c] - Share(act'[a], c) - TableRef(c)' = refs[c] - Share(act[a], c) - TableRef(c)
    PROVE  CountOf(c)'
<1>0. Locals /\ Locals'
  BY DEF UInv, Base
<1>1. /\ Owed(c) \in Nat /\ Share(act[a], c) \in 0..2 /\ Share(act'[a], c) \in 0..2
      /\ TableRef(c) \in {0, 1} /\ TableRef(c)' \in {0, 1}
  <2>1. Share(act'[a], c) \in 0..2
    BY <1>0 DEF Share, Locals, LocalsType
  <2> QED BY <1>0, <2>1, OwedBounds, TableRefIs
<1>2. refs[c] \in Nat /\ refs'[c] \in Nat
  BY DEF UInv, Base, Globals
<1>3. Owed(c)' = Owed(c) - Share(act[a], c) + Share(act'[a], c)
  BY <1>0, OwedChanges
<1>4. ASSUME c \in listed'
      PROVE  /\ refs'[c] >= Owed(c)' + TableRef(c)'
             /\ "header" \notin Failing => refs'[c] = Owed(c)' + TableRef(c)'
  <2>1. /\ refs[c] >= Owed(c) + TableRef(c)
        /\ "header" \notin Failing => refs[c] = Owed(c) + TableRef(c)
    BY <1>4 DEF CountOf
  <2> QED BY <1>1, <1>2, <1>3, <1>4, <2>1
<1> QED BY <1>4 DEF CountOf

LEMMA ClosureRefs ==
    ASSUME UInv, UInv', References, NEW k \in Callers, NEW e \in Endpoints, Closure(k, e)
    PROVE  References'
<1>0. /\ Globals /\ Locals /\ k \in Actors /\ e \notin closed /\ closed' = closed \cup {e}
      /\ UNCHANGED <<session, state, home, listed, byHandle>>
      /\ \A j \in Callers : act[j].pc = "idle" \/ act[j].ep # e
      /\ act[k].pc = "idle" /\ act[k].owes = 0
  BY Boundaries DEF UInv, Base, Closure, At, sesVars, Locals, Fits
<1>1. CASE byHandle[e] = None /\ act' = act /\ refs' = refs
  <2>1. \A c \in Contexts : TableRef(c)' = TableRef(c) /\ Owed(c)' = Owed(c) /\ Unhashing(c)' = Unhashing(c)
    BY <1>0, <1>1, Boundaries DEF TableRef, Owed, Holders, Unhashing, At
  <2>2. \A c \in Contexts : CountOf(c)' /\ LiveOf(c)'
    BY <1>0, <1>1, <2>1 DEF References, CountOf, LiveOf
  <2>3. ASSUME NEW a \in Actors PROVE HandOf(a)'
    <3>1. HandOf(a)
      BY DEF References
    <3> QED BY <1>0, <1>1, <3>1 DEF HandOf, Gone, Calling
  <2>4. \A d \in Endpoints : TableOf(d)'
    BY <1>0, <1>1 DEF References, TableOf, Unhashing, At
  <2> QED BY <2>2, <2>3, <2>4 DEF References
<1>2. CASE /\ byHandle[e] \in Contexts /\ refs' = [refs EXCEPT ![byHandle[e]] = @ + 1]
           /\ Becomes(k, "drop", byHandle[e], e, 2, 0, 0, "send")
  <2>1. PICK c \in Contexts : c = byHandle[e] /\ byHandle'[e] = c
    BY <1>0, <1>2
  <2>2. /\ \A b \in Actors : b # k => act'[b] = act[b]
        /\ act'[k].pc = "drop" /\ act'[k].ctx = c /\ act'[k].owes = 2
    BY <1>0, <1>2, <2>1, MovesAre DEF Becomes, Is
  <2>3. refs' = [refs EXCEPT ![c] = @ + 1] /\ refs \in [Contexts -> Nat]
    BY <1>0, <1>2, <2>1 DEF Globals
  <2>4. home[c] = e /\ c \in listed
    <3>1. home[c] = e /\ (c \in listed \/ Unhashing(c))
      BY <2>1, Boundaries DEF References, TableOf
    <3>2. ~Unhashing(c)
      BY <1>0, <3>1, OpenIsListed
    <3> QED BY <3>1, <3>2
  <2>6. ASSUME NEW d \in Contexts PROVE CountOf(d)' /\ LiveOf(d)'
    <3>1. CountOf(d) /\ LiveOf(d)
      BY DEF References
    <3>2. LiveOf(d)'
      BY <1>0, <2>2, <3>1, StillUnhashing DEF LiveOf
    <3>3. CASE d = c
      <4>1. Share(act[k], d) = 0 /\ Share(act'[k], d) = 2 /\ refs'[d] = refs[d] + 1 /\ refs[d] \in Nat
        BY <1>0, <2>2, <2>3, <3>3 DEF Share
      <4>2. TableRef(d) = 1 /\ TableRef(d)' = 0
        BY <1>0, <2>1, <2>4, <3>3 DEF TableRef
      <4>3. refs'[d] - Share(act'[k], d) - TableRef(d)' = refs[d] - Share(act[k], d) - TableRef(d)
        BY <4>1, <4>2
      <4> QED BY <1>0, <2>2, <3>1, <3>2, <4>3, StaysCounted
    <3>4. CASE d # c
      <4>1. Share(act[k], d) = 0 /\ Share(act'[k], d) = 0 /\ refs'[d] = refs[d]
        BY <1>0, <2>2, <2>3, <3>4 DEF Share
      <4>2. TableRef(d)' = TableRef(d)
        BY <1>0, <2>1, <3>4 DEF TableRef
      <4> QED BY <1>0, <2>2, <3>1, <3>2, <4>1, <4>2, StaysCounted
    <3> QED BY <3>3, <3>4
  <2>7. ASSUME NEW a \in Actors PROVE HandOf(a)'
    <3>1. HandOf(a) /\ (a # k => act'[a] = act[a])
      BY <2>2 DEF References
    <3>2. \A b \in Actors : act'[b].pc = "unhash" => act'[b] = act[b]
      BY <2>2
    <3> QED BY <1>0, <2>2, <2>4, <3>1, <3>2 DEF HandOf, Gone, Calling
  <2>8. ASSUME NEW d \in Endpoints PROVE TableOf(d)'
    <3>1. \A x : Unhashing(x) => Unhashing(x)'
      BY <1>0, <2>2, StillUnhashing
    <3>2. \A x : TableIs(d, x) => TableIs(d, x)'
      BY <1>0, <3>1 DEF TableIs
    <3> QED BY <3>2, TableIsThat DEF References
  <2> QED BY <2>6, <2>7, <2>8 DEF References
<1> QED BY <1>0, <1>1, <1>2, ClosureIs

LEMMA AllocRefs ==
    ASSUME UInv, UInv', References, NEW k \in Callers, Alloc(k)
    PROVE  References'
<1>0. /\ Globals /\ Locals /\ k \in Actors /\ closed' = closed /\ session' = session
      /\ act[k].pc = "alloc" /\ act[k].owes = 0 /\ state \in [Contexts -> {"unused", "live", "freed"}]
      /\ refs \in [Contexts -> Nat] /\ home \in [Contexts -> Endpoints \cup {None}]
      /\ byHandle \in [Endpoints -> Contexts \cup {None}] /\ listed \subseteq Contexts
  BY Boundaries DEF UInv, Base, Globals, Alloc, At, sesVars, Locals, Fits
<1>1. PICK e \in Endpoints, c \in Contexts :
         /\ e = act[k].ep
         /\ state[c] = "unused" /\ state' = [state EXCEPT ![c] = "live"]
         /\ home' = [home EXCEPT ![c] = e] /\ refs' = [refs EXCEPT ![c] = 2]
         /\ listed' = listed \cup {c}
         /\ byHandle' = IF byHandle[e] = None THEN [byHandle EXCEPT ![e] = c] ELSE byHandle
         /\ Becomes(k, "pend", c, e, 1, act[k].left, act[k].pkt, act[k].dir)
  BY <1>0, AllocIs
<1>2. e \notin closed
  BY <1>0, <1>1 DEF References, HandOf, Calling
<1>3. /\ \A b \in Actors : b # k => act'[b] = act[b]
      /\ act'[k].pc = "pend" /\ act'[k].ctx = c /\ act'[k].ep = e /\ act'[k].owes = 1
  BY <1>0, <1>1, MovesAre DEF Becomes, Is
\* Nobody knows the new context yet.
<1>4. c \notin listed /\ ~Unhashing(c) /\ \A d \in Endpoints : byHandle[d] # c
  <2>1. c \notin listed
    BY <1>1 DEF References, CountOf
  <2>2. ~Unhashing(c)
    BY <1>1 DEF References, HandOf, Gone, Unhashing, At
  <2> QED BY <1>1, <2>1, <2>2, Boundaries DEF References, TableOf
<1>5. \A a \in Actors : Share(act[a], c) = 0
  <2>1. ASSUME NEW a \in Actors, act[a].ctx = c PROVE act[a].owes = 0
    <3>1. ~(act[a].owes > 0) /\ act[a].owes \in 0..2
      BY <1>0, <1>1, <1>4, <2>1, InHand DEF References, HandOf, Gone
    <3> QED BY <3>1
  <2> QED BY <2>1 DEF Share
<1>6. ASSUME NEW d \in Contexts PROVE CountOf(d)'
  <2>1. CASE d = c
    <3>1. Owed(c) = 0
      BY <1>0, <1>5, OwedBounds
    <3>2. Owed(c)' = 0 - 0 + 1
      <4>1. Owed(c)' = Owed(c) - Share(act[k], c) + Share(act'[k], c)
        BY <1>0, <1>3, OwedChanges DEF UInv, Base
      <4> QED BY <1>0, <1>3, <1>5, <3>1, <4>1 DEF Share
    <3>3. home'[c] = e /\ state'[c] = "live" /\ refs'[c] = 2 /\ TableRef(c)' = 1
      BY <1>0, <1>1, <1>2 DEF TableRef
    <3> QED BY <2>1, <3>2, <3>3 DEF CountOf
  <2>2. CASE d # c
    <3>1. Share(act[k], d) = 0 /\ Share(act'[k], d) = 0 /\ refs'[d] = refs[d]
      BY <1>0, <1>1, <1>3, <2>2 DEF Share
    <3>2. home'[d] = home[d] /\ state'[d] = state[d]
      BY <1>0, <1>1, <2>2
    <3>3. TableRef(d)' = TableRef(d)
      <4>1. CASE home[d] = e  BY <1>0, <1>2, <3>2, <4>1 DEF TableRef
      <4>2. CASE home[d] # e
        <5>1. home[d] \in closed => byHandle'[home[d]] = byHandle[home[d]]
          BY <1>0, <1>1, <4>2 DEF Globals
        <5> QED BY <1>0, <3>2, <5>1 DEF TableRef
      <4> QED BY <4>1, <4>2
    <3>4. CountOf(d) /\ (d \in listed' => d \in listed)
      BY <1>1, <2>2 DEF References
    <3> QED BY <1>0, <1>3, <3>1, <3>2, <3>3, <3>4, StaysCounted
  <2> QED BY <2>1, <2>2
<1>7. \A x : Unhashing(x) => Unhashing(x)'
  BY <1>0, <1>3, StillUnhashing
<1>8. ASSUME NEW d \in Contexts PROVE LiveOf(d)'
  <2>1. d # c => state'[d] = state[d] /\ home'[d] = home[d]
    BY <1>0, <1>1
  <2>2. state'[c] = "live" /\ c \in listed' /\ (d \in listed => d \in listed')
    BY <1>0, <1>1
  <2>3. LiveOf(d)
    BY DEF References
  <2> QED BY <1>7, <2>1, <2>2, <2>3 DEF LiveOf
<1>9. ASSUME NEW a \in Actors PROVE HandOf(a)'
  <2>0. \A x \in Contexts : x # c => Gone(x)' = Gone(x)
    BY <1>0, <1>1 DEF Gone
  <2>1. CASE a = k
    BY <1>0, <1>1, <1>2, <1>3, <2>1 DEF HandOf
  <2>2. CASE a # k
    <3>1. HandOf(a) /\ act'[a] = act[a]
      BY <1>3, <2>2 DEF References
    <3>2. ASSUME act[a].pc = "unhash", ~Gone(act[a].ctx)'
          PROVE  /\ ~Gone(act[a].ctx) /\ act[a].ctx \notin listed' /\ state'[act[a].ctx] = "live"
                 /\ home'[act[a].ctx] \in closed
                 /\ byHandle'[home'[act[a].ctx]] \in {act[a].ctx, None}
      <4>1. act[a].ctx # c /\ act[a].ctx \in Contexts
        BY <1>0, <1>4, <3>2 DEF Unhashing, At, Locals, Fits
      <4>2. /\ home'[act[a].ctx] = home[act[a].ctx] /\ state'[act[a].ctx] = state[act[a].ctx]
            /\ ~Gone(act[a].ctx)
        BY <1>0, <1>1, <2>0, <3>1, <3>2, <4>1
      <4>3. home[act[a].ctx] # e /\ home[act[a].ctx] \in Endpoints
        BY <1>0, <1>2, <3>1, <3>2, <4>2 DEF HandOf, Globals
      <4> QED BY <1>0, <1>1, <3>1, <3>2, <4>1, <4>2, <4>3 DEF HandOf
    <3>3. \A b \in Actors : act'[b].pc = "unhash" => act'[b] = act[b]
      BY <1>3
    <3>4. act[a].owes > 0 => act[a].ctx \in listed' \/ Gone(act[a].ctx)'
      BY <1>0, <1>1, <3>1 DEF HandOf, Gone
    <3> QED BY <1>0, <3>1, <3>2, <3>3, <3>4 DEF HandOf
  <2> QED BY <2>1, <2>2
<1>10. ASSUME NEW d \in Endpoints PROVE TableOf(d)'
  <2>1. ASSUME NEW x, TableIs(d, x) PROVE TableIs(d, x)'
    <3>1. CASE x = c /\ d = e
      BY <1>0, <1>1, <3>1 DEF TableIs
    <3>2. CASE x # c \/ d # e
      <4>1. byHandle'[d] = x => byHandle[d] = x
        BY <1>0, <1>1, <3>2
      <4>2. byHandle[d] = x /\ x # None => x # c /\ x \in Contexts /\ home'[x] = home[x]
        BY <1>0, <1>1, <1>4
      <4> QED BY <1>1, <1>7, <2>1, <4>1, <4>2 DEF TableIs
    <3> QED BY <3>1, <3>2
  <2> QED BY <2>1, TableIsThat DEF References
<1> QED BY <1>6, <1>8, <1>9, <1>10 DEF References

\* The last reference takes the context out of the list.
LEMMA LastRefs ==
    ASSUME UInv, UInv', References, NEW a \in Actors, FreeCtx(a), refs[act[a].ctx] = 1, ~Gone(act[a].ctx)
    PROVE  References'
<1> PICK c \in Contexts : c = act[a].ctx
  BY FreeCtxIs DEF UInv, Base
<1>0. /\ Globals /\ Locals /\ act[a].pc = "drop" /\ act[a].owes \in {1, 2}
      /\ UNCHANGED <<session, closed, state, home, byHandle>>
      /\ refs \in [Contexts -> Nat] /\ listed \subseteq Contexts
  BY FreeCtxIs DEF UInv, Base, Globals, FreeCtx, sesVars
<1>1. listed' = listed \ {c} /\ Turns(a, "unhash", act[a].owes - 1)
      /\ refs' = [refs EXCEPT ![c] = IF @ = 0 THEN 0 ELSE @ - 1]
  BY <1>0, FreeCtxIs
<1>2. c \in listed /\ CountOf(c) /\ HandOf(a)
  BY <1>0 DEF References, HandOf
<1>3. /\ act[a].owes = 1 /\ TableRef(c) = 0
      /\ \A b \in Actors : b # a => Share(act[b], c) = 0
  <2>1. /\ Share(act[a], c) = act[a].owes /\ Owed(c) \in Nat /\ Owed(c) >= Share(act[a], c)
        /\ \A b \in Actors : Share(act[b], c) \in 0..2
        /\ \A b \in Actors : a # b /\ Share(act[a], c) > 0 /\ Share(act[b], c) > 0 => Owed(c) > 1
    BY <1>0, OwedBounds DEF Share
  <2>2. 1 >= Owed(c) + TableRef(c) /\ TableRef(c) \in {0, 1}
    BY <1>2, TableRefIs DEF CountOf
  <2>3. act[a].owes = 1 /\ TableRef(c) = 0 /\ Owed(c) = 1
    BY <1>0, <2>1, <2>2
  <2>4. ASSUME NEW b \in Actors, b # a PROVE Share(act[b], c) = 0
    <3>1. ~(Share(act[b], c) > 0) /\ Share(act[b], c) \in 0..2
      BY <2>1, <2>3, <2>4
    <3> QED BY <3>1
  <2> QED BY <2>3, <2>4
<1>4. /\ \A b \in Actors : b # a => act'[b] = act[b]
      /\ act'[a].pc = "unhash" /\ act'[a].ctx = c /\ act'[a].owes = 0
  BY <1>0, <1>1, <1>3, MovesAre DEF Turns, Becomes, Is
<1>5. home[c] \in closed /\ byHandle[home[c]] = c /\ state[c] = "live"
  BY <1>2, <1>3, TableRefIs DEF CountOf
<1>6. \A x : Unhashing(x) => Unhashing(x)'
  BY <1>0, <1>4, StillUnhashing
<1>7. Unhashing(c)'
  BY <1>4 DEF Unhashing, At
<1>8. ASSUME NEW d \in Contexts PROVE CountOf(d)' /\ LiveOf(d)'
  <2>1. LiveOf(d)'
    BY <1>0, <1>1, <1>2, <1>6, <1>7 DEF References, LiveOf
  <2>2. CASE d = c
    BY <1>1, <2>1, <2>2 DEF CountOf
  <2>3. CASE d # c
    <3>1. Share(act[a], d) = 0 /\ Share(act'[a], d) = 0
      BY <1>4, <2>3 DEF Share
    <3>2. refs'[d] = refs[d]
      BY <1>0, <1>1, <2>3
    <3>3. TableRef(d)' = TableRef(d)
      BY <1>0 DEF TableRef
    <3>4. CountOf(d) /\ (d \in listed' => d \in listed)
      BY <1>1 DEF References
    <3> QED BY <1>0, <1>4, <2>1, <3>1, <3>2, <3>3, <3>4, StaysCounted
  <2> QED BY <2>2, <2>3
<1>9. ASSUME NEW b \in Actors PROVE HandOf(b)'
  <2>1. CASE b = a
    <3>1. \A x \in Actors : act[x].pc = "unhash" => act[x].ctx # c
      BY <1>2 DEF References, HandOf, CountOf, Gone
    <3> QED BY <1>0, <1>1, <1>4, <1>5, <2>1, <3>1 DEF HandOf, Calling
  <2>2. CASE b # a
    <3>1. HandOf(b) /\ act'[b] = act[b] /\ Share(act[b], c) = 0
      BY <1>3, <1>4, <2>2 DEF References
    <3>2. act[b].owes > 0 => act[b].ctx # c
      BY <3>1 DEF Share
    <3>3. act[b].pc = "unhash" => act[b].ctx # c
      BY <1>2, <3>1 DEF HandOf, CountOf, Gone
    <3>5. \A x : Gone(x)' = Gone(x)
      BY <1>0 DEF Gone
    <3>4. \A x \in Actors : act'[x].pc = "unhash" => act'[x] = act[x] \/ act'[x].ctx = c
      BY <1>4
    <3> QED BY <1>0, <1>1, <3>1, <3>2, <3>3, <3>4, <3>5 DEF HandOf
  <2> QED BY <2>1, <2>2
<1>10. ASSUME NEW e \in Endpoints PROVE TableOf(e)'
  <2>1. \A x : TableIs(e, x) => TableIs(e, x)'
    BY <1>0, <1>1, <1>6, <1>7 DEF TableIs
  <2> QED BY <2>1, TableIsThat DEF References
<1> QED BY <1>8, <1>9, <1>10 DEF References

\* The table is cleared of the context, and the context is freed.
LEMMA UnhashRefs ==
    ASSUME UInv, UInv', References, NEW a \in Actors, FreeUnhash(a), ~Gone(act[a].ctx)
    PROVE  References'
<1>0. /\ Globals /\ Locals /\ act[a].pc = "unhash" /\ act[a].ctx \in Contexts
      /\ UNCHANGED <<session, closed, refs, listed>>
      /\ state \in [Contexts -> {"unused", "live", "freed"}]
      /\ home \in [Contexts -> Endpoints \cup {None}] /\ closed \subseteq Endpoints
      /\ byHandle \in [Endpoints -> Contexts \cup {None}] /\ listed \subseteq Contexts
  BY FreeUnhashIs DEF UInv, Base, Globals, FreeUnhash, sesVars
<1>1. PICK c \in Contexts, e \in Endpoints :
         /\ c = act[a].ctx /\ e = home[c]
         /\ act[a].owes = 0 /\ c \notin listed /\ e \in closed /\ byHandle[e] \in {c, None}
         /\ state[c] = "live"
         /\ \A b \in Actors : act[b].pc = "unhash" /\ act[b].ctx = c => b = a
  BY <1>0 DEF References, HandOf
<1>2. /\ byHandle' = [d \in Endpoints |-> IF d = e THEN None ELSE byHandle[d]]
      /\ home' = [home EXCEPT ![c] = None] /\ state' = [state EXCEPT ![c] = "freed"]
  BY <1>1 DEF FreeUnhash
<1>3. /\ \A b \in Actors : b # a => act'[b] = act[b]
      /\ act'[a].pc \in {"next", "idle"} /\ act'[a].owes = 0
  <2>1. Leaves(a, 0)
    BY <1>0, <1>1, FreeUnhashIs
  <2> QED BY <1>0, <2>1, MovesAre DEF Leaves, Ends, Becomes, Is
<1>5. \A x : x # c /\ Unhashing(x) => Unhashing(x)'
  BY <1>1, <1>3, StillUnhashing
<1>6. ASSUME NEW d \in Contexts PROVE CountOf(d)' /\ LiveOf(d)'
  <2>1. CASE d = c
    BY <1>0, <1>1, <1>2, <2>1 DEF CountOf, LiveOf
  <2>2. CASE d # c
    <3>1. Share(act[a], d) = 0 /\ Share(act'[a], d) = 0
      BY <1>1, <1>3, <2>2 DEF Share
    <3>2. home'[d] = home[d] /\ state'[d] = state[d]
      BY <1>0, <1>2, <2>2
    <3>3. TableRef(d)' = TableRef(d)
      <4>1. home[d] \in closed => (byHandle'[home[d]] = d <=> byHandle[home[d]] = d)
        BY <1>0, <1>1, <1>2, <2>2, Boundaries
      <4> QED BY <1>0, <3>2, <4>1 DEF TableRef
    <3>4. CountOf(d) /\ LiveOf(d)
      BY DEF References
    <3> QED BY <1>0, <1>3, <1>5, <2>2, <3>1, <3>2, <3>3, <3>4, StaysCounted DEF LiveOf
  <2> QED BY <2>1, <2>2
<1>7. ASSUME NEW b \in Actors PROVE HandOf(b)'
  <2>1. CASE b = a
    BY <1>3, <2>1 DEF HandOf, Calling
  <2>2. CASE b # a
    <3>1. HandOf(b) /\ act'[b] = act[b]
      BY <1>3, <2>2 DEF References
    <3>2. ASSUME act[b].pc = "unhash", ~Gone(act[b].ctx)'
          PROVE  /\ ~Gone(act[b].ctx) /\ state'[act[b].ctx] = "live" /\ home'[act[b].ctx] \in closed
                 /\ byHandle'[home'[act[b].ctx]] \in {act[b].ctx, None}
      <4>1. act[b].ctx # c /\ act[b].ctx \in Contexts
        BY <1>0, <1>1, <2>2, <3>2 DEF Locals, Fits
      <4>2. home'[act[b].ctx] = home[act[b].ctx] /\ state'[act[b].ctx] = state[act[b].ctx]
        BY <1>0, <1>2, <4>1
      <4>3. ~Gone(act[b].ctx) /\ home[act[b].ctx] \in Endpoints
        BY <1>0, <3>1, <3>2, <4>2 DEF HandOf, Gone
      <4> QED BY <1>2, <3>1, <3>2, <4>2, <4>3 DEF HandOf
    <3>3. \A x \in Actors : act'[x].pc = "unhash" => act'[x] = act[x]
      BY <1>3
    <3>4. act[b].owes > 0 => act[b].ctx \in listed' \/ Gone(act[b].ctx)'
      BY <1>0, <1>1, <1>2, <3>1 DEF HandOf, Gone
    <3> QED BY <1>0, <3>1, <3>2, <3>3, <3>4 DEF HandOf
  <2> QED BY <2>1, <2>2
<1>8. ASSUME NEW d \in Endpoints PROVE TableOf(d)'
  <2>1. ASSUME NEW x, TableIs(d, x), byHandle'[d] = x, x # None PROVE TableIs(d, x)'
    <3>1. d # e /\ byHandle[d] = x /\ x \in Contexts
      BY <1>0, <1>2, <2>1
    <3>2. x # c /\ home'[x] = home[x]
      BY <1>0, <1>1, <1>2, <2>1, <3>1 DEF TableIs
    <3> QED BY <1>0, <1>5, <2>1, <3>1, <3>2 DEF TableIs
  <2>2. ASSUME NEW x, ~(byHandle'[d] = x /\ x # None) PROVE TableIs(d, x)'
    BY <2>2 DEF TableIs
  <2> QED BY <2>1, <2>2, TableIsThat DEF References
<1> QED BY <1>6, <1>7, <1>8 DEF References

\* An injection: one of the worker's two references is the completion's.
LEMMA InjectRefs ==
    ASSUME UInv, UInv', References, Inject
    PROVE  References'
<1>0. /\ Globals /\ Locals /\ Locals' /\ Worker \in Actors /\ Worker \notin Callers \cup Packets
      /\ UNCHANGED <<session, closed, state, home, refs, listed, byHandle>>
  BY Boundaries DEF UInv, Base, Inject, sesVars, ctxVars
<1>1. PICK p \in Packets, c \in Contexts :
         /\ p = act[Worker].pkt /\ c = act[Worker].ctx /\ act[Worker].pc = "inject" /\ act[Worker].owes = 2
         /\ act'[Worker].pc = "drop" /\ act'[Worker].ctx = c /\ act'[Worker].owes = 1
         /\ act'[p].pc = "out" /\ act'[p].ctx = c /\ act'[p].owes = 1
  BY <1>0, InjectIs DEF Is
<1>2. /\ p \in Actors /\ p # Worker /\ p \notin Callers
      /\ act[p].pc = "idle" /\ act[p].owes = 0
      /\ \A b \in Actors : b # Worker /\ b # p => act'[b] = act[b]
  BY <1>0, <1>1, InjectUnique, Boundaries DEF UInv, Locals, Fits
<1>3. c \in listed \/ Gone(c)
  BY <1>0, <1>1 DEF References, HandOf
<1>4. ASSUME NEW d PROVE Owed(d)' = Owed(d)
  <2> DEFINE f == act
             g == act'
             h == [act EXCEPT ![Worker] = act'[Worker]]
  <2>1. f \in [Actors -> LocalsType] /\ g \in [Actors -> LocalsType] /\ h \in [Actors -> LocalsType]
    BY <1>0 DEF Locals
  <2>2. /\ \A b \in Actors : b # Worker => h[b] = f[b]
        /\ \A b \in Actors : b # p => g[b] = h[b]
        /\ h[Worker] = g[Worker] /\ h[p] = f[p]
    BY <1>0, <1>2, <2>1
  <2>3. /\ Share(f[Worker], d) = (IF c = d THEN 2 ELSE 0) /\ Share(h[Worker], d) = (IF c = d THEN 1 ELSE 0)
        /\ Share(h[p], d) = 0 /\ Share(g[p], d) = (IF c = d THEN 1 ELSE 0)
    BY <1>1, <1>2, <2>2 DEF Share
  <2> HIDE DEF f, g, h
  <2>4. /\ OwedIn(h, d) = OwedIn(f, d) - Share(f[Worker], d) + Share(h[Worker], d)
        /\ OwedIn(g, d) = OwedIn(h, d) - Share(h[p], d) + Share(g[p], d)
    BY <1>0, <1>2, <2>1, <2>2, OwedMoves
  <2>5. OwedIn(f, d) \in Nat
    BY <2>1, OwedFinite
  <2>6. OwedIn(g, d) = OwedIn(f, d)
    BY <2>3, <2>4, <2>5
  <2> QED BY <2>6, OwedIs DEF f, g
<1>5. \A x : Unhashing(x) => Unhashing(x)'
  BY <1>1, <1>2 DEF Unhashing, At
<1>6. ASSUME NEW d \in Contexts PROVE CountOf(d)' /\ LiveOf(d)'
  <2>1. TableRef(d)' = TableRef(d) /\ Owed(d)' = Owed(d)
    BY <1>0, <1>4 DEF TableRef
  <2> QED BY <1>0, <1>5, <2>1 DEF References, CountOf, LiveOf
<1>7. ASSUME NEW a \in Actors PROVE HandOf(a)'
  <2>0. \A x : Gone(x)' = Gone(x)
    BY <1>0 DEF Gone
  <2>1. CASE a = Worker \/ a = p
    BY <1>0, <1>1, <1>2, <1>3, <2>0, <2>1 DEF HandOf
  <2>2. CASE a # Worker /\ a # p
    <3>1. HandOf(a) /\ act'[a] = act[a]
      BY <1>2, <2>2 DEF References
    <3>2. \A x \in Actors : act'[x].pc = "unhash" => act'[x] = act[x]
      BY <1>1, <1>2
    <3> QED BY <1>0, <2>0, <3>1, <3>2 DEF HandOf
  <2> QED BY <2>1, <2>2
<1>8. ASSUME NEW e \in Endpoints PROVE TableOf(e)'
  <2>1. \A x : TableIs(e, x) => TableIs(e, x)'
    BY <1>0, <1>5 DEF TableIs
  <2> QED BY <2>1, TableIsThat DEF References
<1> QED BY <1>6, <1>7, <1>8 DEF References

\* udp_clean frees what is listed.  A closure that holds one of these contexts goes
\* on with a freed one.
LEMMA CleanRefs ==
    ASSUME UInv, UInv', References, CleanContexts
    PROVE  References'
<1>0. /\ Globals /\ Locals /\ act' = act /\ closed' = closed /\ listed' = {} /\ session' = "cleanCodes"
      /\ listed \subseteq Contexts /\ byHandle \in [Endpoints -> Contexts \cup {None}]
  BY DEF CleanContexts, UInv, Base, Globals
<1>1. ASSUME NEW c \in Contexts
      PROVE  /\ c \in listed => state'[c] = "freed" /\ home'[c] = None
             /\ c \notin listed => state'[c] = state[c] /\ home'[c] = home[c]
  BY DEF CleanContexts
<1>2. ASSUME NEW e \in Endpoints
      PROVE  /\ byHandle'[e] \in {byHandle[e], None}
             /\ byHandle'[e] # None => \A c \in listed : home[c] # e
  BY DEF CleanContexts
<1>3. \A c : Unhashing(c)' = Unhashing(c)
  BY <1>0 DEF Unhashing, At
<1>4. ASSUME NEW c \in Contexts PROVE CountOf(c)' /\ LiveOf(c)'
  <2>1. LiveOf(c)
    BY DEF References
  <2> QED BY <1>0, <1>1, <1>3, <2>1 DEF CountOf, LiveOf
<1>5. ASSUME NEW a \in Actors PROVE HandOf(a)'
  <2>1. HandOf(a)
    BY DEF References
  <2>2. act[a].owes > 0 \/ act[a].pc = "unhash" => act[a].ctx \in Contexts
    BY <1>0, InHand DEF Locals, Fits
  <2>3. act[a].owes > 0 => Gone(act[a].ctx)'
    BY <1>0, <1>1, <2>1, <2>2 DEF HandOf, Gone
  <2>4. ASSUME act[a].pc = "unhash", ~Gone(act[a].ctx)'
        PROVE  /\ ~Gone(act[a].ctx) /\ state'[act[a].ctx] = "live" /\ home'[act[a].ctx] \in closed
               /\ byHandle'[home'[act[a].ctx]] \in {act[a].ctx, None}
    <3>1. ~Gone(act[a].ctx)
      BY <1>0, <1>1, <2>2, <2>4 DEF Gone
    <3>2. /\ act[a].ctx \notin listed /\ state[act[a].ctx] = "live" /\ home[act[a].ctx] \in closed
          /\ byHandle[home[act[a].ctx]] \in {act[a].ctx, None}
      BY <2>1, <2>4, <3>1 DEF HandOf
    <3>3. home[act[a].ctx] \in Endpoints
      BY <1>0, <3>2 DEF Globals
    <3> QED BY <1>1, <1>2, <2>2, <2>4, <3>1, <3>2, <3>3
  <2> QED BY <1>0, <2>1, <2>3, <2>4 DEF HandOf
<1>6. ASSUME NEW e \in Endpoints PROVE TableOf(e)'
  <2>1. ASSUME byHandle'[e] # None
        PROVE  /\ byHandle'[e] = byHandle[e] /\ home'[byHandle[e]] = e /\ Unhashing(byHandle[e])
    <3>1. byHandle'[e] = byHandle[e] /\ byHandle[e] \in Contexts
      BY <1>0, <1>2, <2>1
    <3>2. home[byHandle[e]] = e /\ (byHandle[e] \in listed \/ Unhashing(byHandle[e]))
      BY <2>1, <3>1 DEF References, TableOf
    <3> QED BY <1>1, <1>2, <2>1, <3>1, <3>2
  <2>2. \A c : TableIs(e, c)'
    BY <1>3, <2>1 DEF TableIs
  <2> QED BY <2>2, TableIsThat
<1> QED BY <1>4, <1>5, <1>6 DEF References

-----------------------------------------------------------------------------
(***************************************************************************)
(* The fourth layer is inductive.                                          *)
(***************************************************************************)

\* A step that leaves the count and the contexts alone, of an actor that keeps what
\* it owes.
LEMMA QuietRefs ==
    ASSUME UInv, UInv', References, UNCHANGED <<ctxVars, closed>>,
           NEW a \in Actors, \A b \in Actors : b # a => act'[b] = act[b],
           act[a].pc # "unhash", act'[a].pc # "unhash",
           \/ act[a].owes = 0 /\ act'[a].owes = 0
           \/ act'[a].ctx = act[a].ctx /\ act'[a].owes = act[a].owes,
           a \in Callers /\ act'[a].pc \in Calling => act'[a].ep \notin closed
    PROVE  References'
<1>1. UNCHANGED <<state, home, refs, listed, byHandle, closed>>
  BY DEF ctxVars
<1>2. act'[a].owes > 0 => act'[a].ctx \in listed \/ Gone(act'[a].ctx)
  BY DEF References, HandOf
<1>3. ASSUME NEW c \in listed PROVE refs'[c] = refs[c] - Share(act[a], c) + Share(act'[a], c)
  <2>1. Share(act'[a], c) = Share(act[a], c)
    BY DEF Share
  <2>2. refs[c] \in Nat /\ Share(act[a], c) \in 0..2
    BY OwedBounds DEF UInv, Base, Globals
  <2> QED BY <1>1, <2>1, <2>2
<1> QED BY <1>1, <1>2, <1>3, StepRefs

LEMMA CalloutRefs ==
    ASSUME UInv, UInv', References, NEW k \in Callers, CalloutStep(k)
    PROVE  References'
<1>0. /\ Globals /\ Locals /\ k \in Actors /\ Moves(k) /\ UNCHANGED <<session, closed>>
      /\ \A b \in Actors : b # k => act'[b] = act[b]
      /\ refs \in [Contexts -> Nat] /\ listed \subseteq Contexts
  <2>1. UNCHANGED <<session, closed>>
    BY DEF CalloutStep, Find, Alloc, AllocFails, Pend, PendRefused, Push, PushFails, PushCode, sesVars
  <2>2. Globals /\ Locals /\ k \in Actors
    BY Boundaries DEF UInv, Base
  <2>3. Moves(k)
    BY <2>2, CalloutFits
  <2>4. refs \in [Contexts -> Nat] /\ listed \subseteq Contexts
    BY <2>2 DEF Globals
  <2> QED BY <2>1, <2>2, <2>3, <2>4, MovesAre
<1>1. act[k].pc \in Calling /\ act[k].ep \notin closed
  <2>1. act[k].pc \in Calling
    BY <1>0, FindIs, AllocIs, CalloutIs, PushCodeIs DEF CalloutStep, Calling
  <2> QED BY <1>0, <2>1 DEF References, HandOf
<1>2. CASE Alloc(k)
  BY <1>2, AllocRefs
<1>3. CASE Find(k) /\ byHandle[act[k].ep] # None
  <2>1. PICK c \in Contexts :
           /\ byHandle[act[k].ep] = c /\ act[k].ep \in Endpoints /\ act[k].pc = "find"
           /\ refs' = [refs EXCEPT ![c] = @ + 1] /\ act'[k].pc = "pend"
           /\ act'[k].ctx = c /\ act'[k].ep = act[k].ep /\ act'[k].owes = 1
    BY <1>0, <1>3, FindIs DEF Becomes, Is
  <2>2. c \in listed
    <3>1. home[c] = act[k].ep /\ (c \in listed \/ Unhashing(c))
      BY <1>3, <2>1 DEF References, TableOf
    <3>2. ~Unhashing(c)
      BY <1>0, <1>1, <2>1, <3>1, OpenIsListed
    <3> QED BY <3>1, <3>2
  <2>3. UNCHANGED <<state, home, listed, byHandle>>
    BY <1>3 DEF Find
  <2>4. ASSUME NEW d \in listed PROVE refs'[d] = refs[d] - Share(act[k], d) + Share(act'[k], d)
    <3>1. act[k].owes = 0
      BY <1>0, <2>1 DEF Locals, Fits
    <3>2. Share(act[k], d) = 0 /\ Share(act'[k], d) = IF c = d THEN 1 ELSE 0
      BY <2>1, <3>1 DEF Share
    <3> QED BY <1>0, <2>1, <3>2
  <2> QED BY <1>0, <1>1, <2>1, <2>2, <2>3, <2>4, StepRefs
<1>4. CASE Find(k) /\ byHandle[act[k].ep] = None
  <2>1. act[k].pc = "find" /\ act'[k].pc = "alloc" /\ act'[k].owes = 0 /\ act'[k].ep = act[k].ep
    BY <1>0, <1>4, FindIs, Boundaries DEF Turns, Becomes, Is
  <2>2. act[k].owes = 0
    BY <1>0, <2>1 DEF Locals, Fits
  <2>3. UNCHANGED ctxVars
    BY <1>4 DEF Find, ctxVars
  <2> QED BY <1>0, <1>1, <2>1, <2>2, <2>3, QuietRefs
<1>5. CASE AllocFails(k) \/ Pend(k) \/ PendRefused(k) \/ Push(k) \/ PushFails(k)
  <2>1. UNCHANGED ctxVars
    BY <1>5 DEF AllocFails, Pend, PendRefused, Push, PushFails
  <2>2. CASE AllocFails(k)
    <3>1. act[k].pc = "alloc" /\ act'[k].pc = "idle" /\ act'[k].owes = 0
      BY <1>0, <2>2, CalloutIs DEF Ends, Becomes, Is
    <3>2. act[k].owes = 0
      BY <1>0, <3>1 DEF Locals, Fits
    <3> QED BY <1>0, <1>1, <2>1, <3>1, <3>2, QuietRefs DEF Calling
  <2>3. CASE Pend(k) \/ PendRefused(k) \/ Push(k) \/ PushFails(k)
    <3>1. /\ act[k].pc \in {"pend", "push"} /\ act'[k].pc \in {"push", "drop", "code"} /\ act'[k].owes = 1
          /\ act'[k].ctx = act[k].ctx /\ act'[k].ep = act[k].ep
      BY <1>0, <2>3, CalloutIs DEF Turns, Becomes, Is
    <3>2. act[k].owes = 1
      BY <1>0, <3>1 DEF Locals, Fits
    <3> QED BY <1>0, <1>1, <2>1, <3>1, <3>2, QuietRefs
  <2> QED BY <1>5, <2>2, <2>3
<1>6. CASE PushCode(k)
  <2>1. UNCHANGED ctxVars
    BY <1>6 DEF PushCode
  <2>2. /\ act[k].pc = "code" /\ act'[k].pc \in {"pend", "drop"} /\ act'[k].owes = 1
        /\ act'[k].ctx = act[k].ctx /\ act'[k].ep = act[k].ep
    BY <1>0, <1>6, PushCodeIs DEF Turns, Becomes, Is
  <2>3. act[k].owes = 1
    BY <1>0, <2>2 DEF Locals, Fits
  <2> QED BY <1>0, <1>1, <2>1, <2>2, <2>3, QuietRefs
<1> QED BY <1>2, <1>3, <1>4, <1>5, <1>6 DEF CalloutStep

\* What a closure does to a context that udp_clean has freed under it.
LEMMA GoneRefs ==
    ASSUME UInv, UInv', References, NEW a \in Actors, FreeCtx(a) \/ FreeUnhash(a), Gone(act[a].ctx)
    PROVE  References'
<1>0. /\ Globals /\ Locals /\ UNCHANGED <<session, closed>> /\ act[a].pc \in {"drop", "unhash"}
      /\ state \in [Contexts -> {"unused", "live", "freed"}] /\ refs \in [Contexts -> Nat]
      /\ home \in [Contexts -> Endpoints \cup {None}] /\ listed \subseteq Contexts
      /\ byHandle \in [Endpoints -> Contexts \cup {None}]
  BY DEF UInv, Base, Globals, FreeCtx, FreeUnhash, At, sesVars
<1>1. PICK c \in Contexts : c = act[a].ctx
  BY <1>0, FreeCtxIs, FreeUnhashIs
<1>2. c \notin listed /\ home[c] = None /\ state[c] = "freed"
  <2>1. Gone(c)
    BY <1>1
  <2> QED BY <2>1, GoneIs DEF Gone
<1>4. /\ UNCHANGED <<state, home, listed, byHandle>> /\ \A d \in listed : refs'[d] = refs[d]
      /\ \A b \in Actors : b # a => act'[b] = act[b]
      /\ act'[a].owes = 0 \/ act'[a].ctx = c
      /\ act'[a].pc = "unhash" => act'[a].ctx = c
      /\ act'[a].pc \notin Calling
  <2>1. CASE FreeCtx(a)
    <3>1. UNCHANGED <<state, home, byHandle>> /\ Moves(a)
      BY <1>0, <2>1, FreeFits DEF FreeCtx
    <3>2. /\ listed' = listed
          /\ refs' = [refs EXCEPT ![c] = IF @ = 0 THEN 0 ELSE @ - 1]
      <4>1. /\ listed' = listed \ {act[a].ctx} \/ listed' = listed
            /\ refs' = [refs EXCEPT ![act[a].ctx] = IF @ = 0 THEN 0 ELSE @ - 1]
        BY <1>0, <2>1, FreeCtxIs
      <4>2. listed \ {c} = listed
        BY <1>2
      <4> QED BY <1>1, <4>1, <4>2
    <3>3. PICK o \in {0, 1} : \/ Turns(a, "unhash", o) \/ Turns(a, "drop", o)
                              \/ Ends(a, IF a = Worker THEN "next" ELSE "idle")
      <4>1. act[a].owes - 1 \in {0, 1}
        BY <1>0, <2>1, FreeCtxIs
      <4>2. \/ Turns(a, "unhash", act[a].owes - 1) \/ Turns(a, "drop", act[a].owes - 1)
            \/ Ends(a, IF a = Worker THEN "next" ELSE "idle")
        BY <1>0, <2>1, FreeCtxIs
      <4> QED BY <4>1, <4>2
    <3> QED BY <1>0, <1>1, <1>2, <3>1, <3>2, <3>3, MovesAre DEF Turns, Ends, Becomes, Is, Calling
  <2>2. CASE FreeUnhash(a)
    <3>1. /\ byHandle' = [e \in Endpoints |-> IF e = home[c] THEN None ELSE byHandle[e]]
          /\ home' = [home EXCEPT ![c] = None] /\ state' = [state EXCEPT ![c] = "freed"]
          /\ UNCHANGED <<refs, listed>>
      BY <1>1, <2>2 DEF FreeUnhash
    <3>2. UNCHANGED <<state, home, byHandle>>
      BY <1>0, <1>2, <3>1, Boundaries
    <3>3. Leaves(a, act[a].owes) /\ act[a].owes \in {0, 1}
      BY <1>0, <2>2, FreeUnhashIs
    <3> QED BY <1>0, <1>1, <3>1, <3>2, <3>3, MovesAre DEF Leaves, Turns, Ends, Becomes, Is, Calling
  <2> QED BY <2>1, <2>2
<1>5. ASSUME NEW d \in listed PROVE refs'[d] = refs[d] - Share(act[a], d) + Share(act'[a], d)
  <2>1. Share(act[a], d) = 0 /\ Share(act'[a], d) = 0
    BY <1>1, <1>2, <1>4 DEF Share
  <2> QED BY <1>0, <1>4, <2>1
<1> QED BY <1>0, <1>1, <1>4, <1>5, StepRefs

LEMMA FreeRefs ==
    ASSUME UInv, UInv', References, NEW a \in Actors, FreeCtx(a) \/ FreeUnhash(a)
    PROVE  References'
<1>1. CASE FreeUnhash(a) /\ ~Gone(act[a].ctx)
  BY <1>1, UnhashRefs
<1>2. CASE FreeCtx(a) /\ refs[act[a].ctx] = 1 /\ ~Gone(act[a].ctx)
  BY <1>2, LastRefs
<1>3. CASE FreeCtx(a) /\ refs[act[a].ctx] # 1 /\ ~Gone(act[a].ctx)
  <2>0. /\ Globals /\ Locals /\ UNCHANGED <<state, home, byHandle, closed, session>>
        /\ refs \in [Contexts -> Nat] /\ listed \subseteq Contexts
    BY <1>3 DEF UInv, Base, Globals, FreeCtx, sesVars
  <2>1. PICK c \in Contexts :
           /\ c = act[a].ctx /\ act[a].pc = "drop" /\ act[a].owes \in {1, 2} /\ refs[c] # 1
           /\ refs' = [refs EXCEPT ![c] = IF @ = 0 THEN 0 ELSE @ - 1]
           /\ listed' = listed
           /\ \/ act[a].owes - 1 = 0 /\ Ends(a, IF a = Worker THEN "next" ELSE "idle")
              \/ act[a].owes - 1 # 0 /\ Turns(a, "drop", act[a].owes - 1)
    BY <1>3, <2>0, FreeCtxIs
  <2>2. c \in listed
    BY <1>3, <2>0, <2>1 DEF References, HandOf
  <2>3. refs[c] # 0
    <3>1. Owed(c) \in Nat /\ Owed(c) >= act[a].owes
      BY <2>0, <2>1, OwedBounds DEF Share
    <3>2. refs[c] >= Owed(c) + TableRef(c) /\ TableRef(c) \in {0, 1}
      BY <2>1, <2>2, TableRefIs DEF References, CountOf
    <3> QED BY <2>1, <3>1, <3>2
  <2>4. /\ \A b \in Actors : b # a => act'[b] = act[b]
        /\ \/ act[a].owes = 1 /\ act'[a].pc \in {"next", "idle"} /\ act'[a].owes = 0
           \/ act[a].owes = 2 /\ act'[a].pc = "drop" /\ act'[a].ctx = c /\ act'[a].owes = 1
    <3>1. CASE act[a].owes = 1
      <4>1. Ends(a, IF a = Worker THEN "next" ELSE "idle")
        BY <2>1, <3>1
      <4> QED BY <2>0, <3>1, <4>1, MovesAre DEF Ends, Becomes, Is
    <3>2. CASE act[a].owes = 2
      <4>1. Turns(a, "drop", 1)
        BY <2>1, <3>2
      <4> QED BY <2>0, <2>1, <3>2, <4>1, MovesAre DEF Turns, Becomes, Is
    <3> QED BY <2>1, <3>1, <3>2
  <2>5. ASSUME NEW d \in listed PROVE refs'[d] = refs[d] - Share(act[a], d) + Share(act'[a], d)
    <3>1. CASE d = c
      <4>1. refs'[d] = refs[d] - 1 /\ refs[d] \in Nat
        BY <2>0, <2>1, <2>3, <3>1
      <4>2. \/ Share(act[a], d) = 1 /\ Share(act'[a], d) = 0
            \/ Share(act[a], d) = 2 /\ Share(act'[a], d) = 1
        BY <2>1, <2>4, <3>1 DEF Share
      <4> QED BY <4>1, <4>2
    <3>2. CASE d # c
      <4>1. Share(act[a], d) = 0 /\ Share(act'[a], d) = 0
        BY <2>1, <2>4, <3>2 DEF Share
      <4>2. refs'[d] = refs[d] /\ refs[d] \in Nat
        BY <2>0, <2>1, <3>2
      <4> QED BY <4>1, <4>2
    <3> QED BY <3>1, <3>2
  <2> QED BY <2>0, <2>1, <2>2, <2>4, <2>5, StepRefs DEF Calling
<1>4. CASE Gone(act[a].ctx)
  BY <1>4, GoneRefs
<1> QED BY <1>1, <1>2, <1>3, <1>4

LEMMA WorkerRefs ==
    ASSUME UInv, UInv', References, WriteBack, ~Inject
    PROVE  References'
<1>0. /\ Globals /\ Locals /\ Worker \in Actors /\ Worker \notin Callers
      /\ UNCHANGED <<session, state, home, listed, byHandle, closed>>
      /\ refs \in [Contexts -> Nat] /\ listed \subseteq Contexts
  BY Boundaries DEF UInv, Base, Globals, WriteBack, ById, Request, RequestFails, CountBytes, InjectFails,
     ctxVars, sesVars
<1>1. \A b \in Actors : b # Worker => act'[b] = act[b]
  BY <1>0, WorkerFits, MovesAre DEF WriteBack
<1>2. act[Worker].pc \in Writing
  BY <1>0, RequestIs, InjectFailsIs DEF WriteBack, Writing
\* udp_findById and udpctx_addRef take a reference of a listed context.
<1>3. ASSUME NEW c, c = act[Worker].ctx, c \in listed \/ Gone(c), refs' = [refs EXCEPT ![c] = @ + 1],
             NEW n \in {0, 1}, act[Worker].owes = n, act'[Worker].owes = n + 1,
             act'[Worker].ctx = c, act'[Worker].pc \in {"throttle", "count"}
      PROVE  References'
  <2>1. ASSUME NEW d \in listed
        PROVE  refs'[d] = refs[d] - Share(act[Worker], d) + Share(act'[Worker], d)
    <3>1. /\ Share(act[Worker], d) = IF d = c THEN n ELSE 0
          /\ Share(act'[Worker], d) = IF d = c THEN n + 1 ELSE 0
      BY <1>3 DEF Share
    <3>2. refs'[d] = (IF d = c THEN refs[d] + 1 ELSE refs[d]) /\ refs[d] \in Nat
      BY <1>0, <1>3
    <3> QED BY <3>1, <3>2
  <2> QED BY <1>0, <1>1, <1>2, <1>3, <2>1, StepRefs DEF Writing
<1>4. ASSUME refs' = refs,
             \/ act[Worker].owes = 0 /\ act'[Worker].owes = 0
             \/ act'[Worker].ctx = act[Worker].ctx /\ act'[Worker].owes = act[Worker].owes,
             act'[Worker].pc # "unhash"
      PROVE  References'
  BY <1>0, <1>1, <1>2, <1>4, QuietRefs DEF Writing, ctxVars
<1>5. CASE ById
  <2>1. act[Worker].pc = "byId" /\ act[Worker].owes = 0
    BY <1>0, <1>5, RequestIs DEF Locals, Fits
  <2>2. CASE act[Worker].ctx \in listed
    <3>1. refs' = [refs EXCEPT ![act[Worker].ctx] = @ + 1] /\ Turns(Worker, "throttle", 1)
      BY <1>0, <1>5, <2>2, RequestIs
    <3>2. PICK c \in listed : c = act[Worker].ctx
      BY <2>2
    <3>3. act'[Worker].owes = 0 + 1 /\ act'[Worker].ctx = c /\ act'[Worker].pc = "throttle"
      BY <3>1, <3>2 DEF Turns, Becomes, Is
    <3> QED BY <1>3, <2>1, <3>1, <3>2, <3>3
  <2>3. CASE act[Worker].ctx \notin listed
    <3>1. refs' = refs /\ Turns(Worker, "next", 0)
      BY <1>0, <1>5, <2>3, RequestIs
    <3> QED BY <1>4, <2>1, <3>1 DEF Turns, Becomes, Is
  <2> QED BY <2>2, <2>3
<1>6. CASE Request
  <2>1. act[Worker].pc = "throttle" /\ act[Worker].owes = 1
    BY <1>0, <1>6, RequestIs DEF Locals, Fits
  <2>2. CASE refs' = refs /\ Turns(Worker, "drop", 1)
    BY <1>4, <2>1, <2>2 DEF Turns, Becomes, Is
  <2>3. CASE refs' = [refs EXCEPT ![act[Worker].ctx] = @ + 1] /\ Turns(Worker, "count", 2)
    <3>1. PICK c : c = act[Worker].ctx /\ (c \in listed \/ Gone(c))
      BY <1>0, <2>1 DEF References, HandOf
    <3>2. act'[Worker].owes = 1 + 1 /\ act'[Worker].ctx = c /\ act'[Worker].pc = "count"
      BY <2>3, <3>1 DEF Turns, Becomes, Is
    <3> QED BY <1>3, <2>1, <2>3, <3>1, <3>2
  <2> QED BY <1>0, <1>6, <2>2, <2>3, RequestIs
<1>7. CASE RequestFails \/ CountBytes
  <2>1. act'[Worker].ctx = act[Worker].ctx /\ act'[Worker].owes = act[Worker].owes /\ act'[Worker].pc # "unhash"
    <3>1. CASE RequestFails
      <4>1. act[Worker].pc = "throttle" /\ act[Worker].owes = 1 /\ Turns(Worker, "drop", 1)
        BY <1>0, <3>1, RequestIs DEF Locals, Fits
      <4> QED BY <4>1 DEF Turns, Becomes, Is
    <3>2. CASE CountBytes
      <4>1. act[Worker].pc = "count" /\ act[Worker].owes = 2 /\ Turns(Worker, "inject", 2)
        BY <1>0, <3>2, RequestIs DEF Locals, Fits
      <4> QED BY <4>1 DEF Turns, Becomes, Is
    <3> QED BY <1>7, <3>1, <3>2
  <2>2. refs' = refs
    BY <1>7 DEF RequestFails, CountBytes, ctxVars
  <2> QED BY <1>4, <2>1, <2>2
<1>8. CASE InjectFails
  <2>1. refs' = refs /\ act[Worker].pc = "inject" /\ act[Worker].owes = 2
    BY <1>0, <1>8, InjectFailsIs DEF InjectFails, ctxVars
  <2>2. CASE Turns(Worker, "drop", 2)
    BY <1>4, <2>1, <2>2 DEF Turns, Becomes, Is
  <2>3. CASE "header" \in Failing /\ Turns(Worker, "drop", 1)
    <3>1. /\ act'[Worker].ctx = act[Worker].ctx /\ act'[Worker].owes = 1 /\ act'[Worker].pc = "drop"
          /\ act[Worker].ctx \in listed \/ Gone(act[Worker].ctx)
      BY <1>0, <2>1, <2>3 DEF Turns, Becomes, Is, References, HandOf
    <3>2. ASSUME NEW d \in listed
          PROVE  refs'[d] >= refs[d] - Share(act[Worker], d) + Share(act'[Worker], d)
      <4>1. /\ Share(act[Worker], d) \in {0, 2} /\ Share(act'[Worker], d) \in {0, 1}
            /\ Share(act[Worker], d) >= Share(act'[Worker], d)
        BY <2>1, <3>1 DEF Share
      <4>2. refs'[d] = refs[d] /\ refs[d] \in Nat
        BY <1>0, <2>1
      <4> QED BY <4>1, <4>2
    <3> QED BY <1>0, <1>1, <1>2, <2>1, <2>3, <3>1, <3>2, StepRefs DEF Writing
  <2> QED BY <1>0, <1>8, <2>2, <2>3, InjectFailsIs
<1> QED BY <1>5, <1>6, <1>7, <1>8 DEF WriteBack

\* The read path never holds a context.
LEMMA ReaderRefs ==
    ASSUME UInv, UInv', References, ServeRead \/ Read \/ Close \/ \E deny \in BOOLEAN : NextPacket(deny)
    PROVE  References'
<1>0. /\ Globals /\ Locals /\ Worker \in Actors /\ Worker \notin Callers
      /\ UNCHANGED <<ctxVars, closed>> /\ Moves(Worker)
      /\ \A b \in Actors : b # Worker => act'[b] = act[b]
  <2>1. UNCHANGED <<ctxVars, closed>>
    BY DEF ServeRead, FillCode, FillPacket, FillFull, FillEnd, Read, Close, NextPacket
  <2> QED BY <2>1, WorkerFits, MovesAre, Boundaries DEF UInv, Base
<1>1. /\ act[Worker].pc \in {"idle", "reading", "filling", "pop", "next"}
      /\ act'[Worker].pc \in {"idle", "reading", "filling", "pop", "next", "byId"}
  <2>1. CASE ServeRead \/ Read
    BY <1>0, <2>1, ReadIs DEF ServeRead, Turns, Becomes, Is
  <2>2. CASE Close
    BY <1>0, <2>2, CloseIs DEF Ends, Becomes, Is
  <2>3. ASSUME NEW deny \in BOOLEAN, NextPacket(deny)
        PROVE  /\ act[Worker].pc = "next"
               /\ act'[Worker].pc \in {"idle", "next", "byId"}
    BY <1>0, <2>3, NextPacketIs DEF Ends, Becomes, Is
  <2> QED BY <2>1, <2>2, <2>3
<1>2. act[Worker].owes = 0 /\ act'[Worker].owes = 0
  <2>1. Locals'
    BY DEF UInv, Base
  <2> QED BY <1>0, <1>1, <2>1 DEF Locals, Fits
<1> QED BY <1>0, <1>1, <1>2, QuietRefs

LEMMA ReferencesNext ==
    ASSUME UInv, UInv', References, [Next]_vars
    PROVE  References'
<1>1. ASSUME NEW k \in Callers, NEW e \in Endpoints, NEW d \in Directions, NEW n \in 1..MaxBuffers,
             Classify(k, e, d, n)
      PROVE  References'
  <2>1. /\ act[k].pc = "idle" /\ Becomes(k, "find", None, e, 0, n, made + 1, d) /\ k \in Actors
        /\ act[k].owes = 0
    BY <1>1, ClassifyIs, Boundaries DEF UInv, Base, Locals, Fits
  <2>2. /\ act'[k].pc = "find" /\ act'[k].ep = e /\ act'[k].owes = 0
        /\ \A b \in Actors : b # k => act'[b] = act[b]
    BY <2>1, MovesAre DEF Becomes, Is, UInv, Base
  <2>3. UNCHANGED <<ctxVars, closed>> /\ e \notin closed
    BY <1>1 DEF Classify
  <2> QED BY <2>1, <2>2, <2>3, QuietRefs
<1>2. ASSUME NEW k \in Callers, NEW e \in Endpoints, Closure(k, e) PROVE References'
  BY <1>2, ClosureRefs
<1>3. ASSUME NEW k \in Callers, CalloutStep(k) PROVE References'
  BY <1>3, CalloutRefs
<1>4. ASSUME NEW a \in Actors, FreeCtx(a) \/ FreeUnhash(a) PROVE References'
  BY <1>4, FreeRefs
<1>5. CASE ServeRead \/ Read \/ Close \/ \E deny \in BOOLEAN : NextPacket(deny)
  BY <1>5, ReaderRefs
<1>6. CASE WriteBack
  BY <1>6, WorkerRefs, InjectRefs
<1>7. ASSUME NEW p \in Packets, CompleteBytes(p) PROVE References'
  <2>1. /\ p \in Actors /\ p \notin Callers /\ Moves(p) /\ act[p].pc = "out" /\ act[p].owes = 1
        /\ Turns(p, "drop", 1)
    BY <1>7, CompleteFits, CompleteIs, Boundaries DEF UInv, Base, Locals, Fits
  <2>2. /\ act'[p].pc = "drop" /\ act'[p].ctx = act[p].ctx /\ act'[p].owes = 1
        /\ \A b \in Actors : b # p => act'[b] = act[b]
    BY <2>1, MovesAre DEF Turns, Becomes, Is, UInv, Base
  <2>3. UNCHANGED <<ctxVars, closed>>
    BY <1>7 DEF CompleteBytes
  <2> QED BY <2>1, <2>2, <2>3, QuietRefs
<1>8. CASE CleanContexts
  BY <1>8, CleanRefs
<1>9. CASE Open \/ PauseEnds \/ CleanQueue \/ CleanCodes \/ UNCHANGED vars
  <2>1. UNCHANGED <<ctxVars, closed, act>>
    BY <1>9 DEF Open, PauseEnds, CleanQueue, CleanCodes, vars
  <2> QED BY <2>1, SessionRefs
<1> QED
  BY <1>1, <1>2, <1>3, <1>4, <1>5, <1>6, <1>7, <1>8, <1>9
     DEF Next, WorkerStep, CloseStep

LEMMA InitReferences == Init => References
<1> SUFFICES ASSUME Init PROVE References
  OBVIOUS
<1>1. /\ \A a \in Actors : act[a].pc = "idle" /\ act[a].owes = 0
      /\ listed = {} /\ \A e \in Endpoints : byHandle[e] = None
      /\ \A c \in Contexts : state[c] = "unused"
  BY RestFields DEF Init
<1> QED BY <1>1 DEF References, CountOf, LiveOf, HandOf, TableOf, Calling

-----------------------------------------------------------------------------
(***************************************************************************)
(* The fifth layer is inductive.                                           *)
(***************************************************************************)

\* A step of one actor, by whose context and whose endpoint it has after it.
LEMMA HoldStep ==
    ASSUME UInv, UInv', References, Holding, closed' = closed,
           session' = session \/ session' \notin Late \cup {"cleanCodes", "closed"},
           session' \in {"cleanCodes", "closed"} => listed' \subseteq listed,
           \A c \in Contexts : c \in listed' /\ state[c] # "unused" => c \in listed /\ home'[c] = home[c],
           \A c \in Contexts : state'[c] = "freed" =>
             state[c] = "freed" \/ \A b \in Actors : act[b].owes > 0 => act[b].ctx # c,
           NEW a \in Actors, \A b \in Actors : b # a => act'[b] = act[b],
           a \in Callers /\ act'[a].pc # "idle" =>
             \/ act[a].pc # "idle" /\ act'[a].ep = act[a].ep
             \/ act'[a].ep \notin closed /\ act'[a].owes = 0 /\ session' \notin Late,
           act'[a].owes > 0 =>
             \/ act[a].owes > 0 /\ act'[a].ctx = act[a].ctx
             \/ state'[act'[a].ctx] # "freed" /\ (a \in Callers => home'[act'[a].ctx] = act'[a].ep)
    PROVE  Holding'
<1>0. /\ Locals /\ Locals' /\ Callers \subseteq Actors
      /\ \A b \in Actors : act[b].owes > 0 => act[b].ctx \in Contexts /\ act[b].pc # "idle"
      /\ \A b \in Actors : act'[b].owes > 0 => act'[b].ctx \in Contexts /\ act'[b].pc # "idle"
  <2>1. Locals /\ Locals' /\ Callers \subseteq Actors
    BY Boundaries DEF UInv, Base
  <2>2. ASSUME NEW b \in Actors, act[b].owes > 0 PROVE act[b].ctx \in Contexts /\ act[b].pc # "idle"
    BY <2>1, <2>2 DEF Locals, Fits
  <2>3. ASSUME NEW b \in Actors, act'[b].owes > 0 PROVE act'[b].ctx \in Contexts /\ act'[b].pc # "idle"
    BY <2>1, <2>3 DEF Locals, Fits
  <2> QED BY <2>1, <2>2, <2>3
\* What is held was allocated before.
<1>1. ASSUME NEW b \in Actors, act[b].owes > 0 PROVE state[act[b].ctx] # "unused"
  BY <1>0, <1>1 DEF References, HandOf, CountOf, Gone
<1>2. ASSUME NEW k \in Callers, act'[k].pc # "idle" PROVE CallerOf(k)'
  <2>1. CallerOf(k) /\ k \in Actors
    BY <1>0 DEF Holding
  <2>2. ASSUME act'[k].ep \in closed', NEW j \in Callers, j # k, act'[j].pc # "idle"
        PROVE  act'[j].ep # act'[k].ep
    <3>1. j \in Actors /\ CallerOf(j)
      BY <1>0 DEF Holding
    <3>2. CASE k = a
      BY <1>2, <2>1, <2>2, <3>1, <3>2 DEF CallerOf
    <3>3. CASE k # a
      <4>1. act'[k] = act[k]
        BY <2>1, <3>3
      <4>2. j # a => act'[j] = act[j]
        BY <3>1
      <4> QED BY <1>2, <2>1, <2>2, <4>1, <4>2 DEF CallerOf
    <3> QED BY <3>2, <3>3
  <2>3. ASSUME act'[k].owes > 0, act'[k].ctx \in listed' PROVE home'[act'[k].ctx] = act'[k].ep
    <3>1. CASE act[k].owes > 0 /\ act'[k].ctx = act[k].ctx /\ act'[k].ep = act[k].ep
      BY <1>0, <1>1, <2>1, <2>3, <3>1 DEF CallerOf
    <3>2. CASE k = a /\ home'[act'[a].ctx] = act'[a].ep
      BY <3>2
    <3> QED BY <1>2, <2>1, <2>3, <3>1, <3>2
  <2>4. session' \in Late => act'[k].ep \in closed'
    BY <1>2, <2>1 DEF CallerOf
  <2> QED BY <2>2, <2>3, <2>4 DEF CallerOf
<1>3. ASSUME NEW b \in Actors, act'[b].owes > 0, Gone(act[b].ctx)' PROVE GoneOf(b)'
  <2>0. state'[act'[b].ctx] = "freed" /\ act'[b].ctx \in Contexts
    BY <1>0, <1>3 DEF Gone
  <2>1. act[b].owes > 0 /\ act'[b].ctx = act[b].ctx
    BY <1>3, <2>0
  <2>2. Gone(act[b].ctx) /\ GoneOf(b)
    BY <2>0, <2>1 DEF Gone, Holding
  <2>3. b \in Callers /\ act[b].ep \in closed /\ \A d \in Actors : act[d].owes > 0 /\ act[d].ctx = act[b].ctx => d = b
    BY <2>1, <2>2 DEF GoneOf
  <2>4. act'[b].ep = act[b].ep
    BY <1>0, <1>3, <2>3
  <2>5. ASSUME NEW d \in Actors, act'[d].owes > 0, act'[d].ctx = act'[b].ctx PROVE d = b
    <3>1. act[d].owes > 0 /\ act'[d].ctx = act[d].ctx
      BY <2>0, <2>5
    <3> QED BY <2>1, <2>3, <2>5, <3>1
  <2> QED BY <2>3, <2>4, <2>5 DEF GoneOf
<1>4. Emptied'
  BY DEF Holding, Emptied
<1>5. \A k \in Callers : CallerOf(k)'
  <2>1. ASSUME NEW k \in Callers, act'[k].pc = "idle" PROVE CallerOf(k)'
    BY <2>1 DEF CallerOf
  <2> QED BY <1>2, <2>1
<1>6. \A b \in Actors : GoneOf(b)'
  <2>1. ASSUME NEW b \in Actors, ~(act'[b].owes > 0 /\ Gone(act[b].ctx)') PROVE GoneOf(b)'
    BY <2>1 DEF GoneOf
  <2> QED BY <1>3, <2>1
<1> QED BY <1>4, <1>5, <1>6 DEF Holding

\* A step that neither makes nor frees a context, of an actor that takes none.
LEMMA QuietHold ==
    ASSUME UInv, UInv', References, Holding, UNCHANGED <<state, home, closed>>, listed' \subseteq listed,
           session' = session \/ session' \notin Late \cup {"cleanCodes", "closed"},
           NEW a \in Actors, \A b \in Actors : b # a => act'[b] = act[b],
           a \in Callers /\ act'[a].pc # "idle" => act[a].pc # "idle" /\ act'[a].ep = act[a].ep,
           act'[a].owes > 0 => act[a].owes > 0 /\ act'[a].ctx = act[a].ctx
    PROVE  Holding'
BY HoldStep

LEMMA CalloutHold ==
    ASSUME UInv, UInv', References, Holding, NEW k \in Callers, CalloutStep(k)
    PROVE  Holding'
<1>0. /\ Globals /\ Locals /\ k \in Actors /\ UNCHANGED <<session, closed>>
      /\ \A b \in Actors : b # k => act'[b] = act[b]
      /\ act[k].pc # "idle"
  <2>1. Globals /\ Locals /\ k \in Actors
    BY Boundaries DEF UInv, Base
  <2>2. UNCHANGED <<session, closed>> /\ act[k].pc # "idle"
    BY DEF CalloutStep, Find, Alloc, AllocFails, Pend, PendRefused, Push, PushFails, PushCode, sesVars, At
  <2> QED BY <2>1, <2>2, CalloutFits, MovesAre
<1>1. CASE Find(k)
  <2>1. UNCHANGED <<state, home, listed, byHandle>>
    BY <1>1 DEF Find
  <2>2. CASE Turns(k, "alloc", 0)
    <3>1. act'[k].ep = act[k].ep /\ act'[k].owes = 0
      BY <2>2 DEF Turns, Becomes, Is
    <3> QED BY <1>0, <2>1, <3>1, QuietHold
  <2>3. CASE /\ byHandle[act[k].ep] \in Contexts
             /\ Becomes(k, "pend", byHandle[act[k].ep], act[k].ep, 1, act[k].left, act[k].pkt, act[k].dir)
    <3>1. act'[k].ep = act[k].ep /\ act'[k].ctx = byHandle[act[k].ep]
      BY <2>3 DEF Becomes, Is
    <3>2. home[byHandle[act[k].ep]] = act[k].ep /\ act[k].ep \in Endpoints
      BY <1>0, <1>1, <2>3, FindIs, Boundaries DEF References, TableOf
    <3>3. state[byHandle[act[k].ep]] # "freed"
      BY <2>3, <3>2, Boundaries DEF References, LiveOf
    <3> QED BY <1>0, <2>1, <3>1, <3>2, <3>3, HoldStep
  <2> QED BY <1>0, <1>1, <2>2, <2>3, FindIs
<1>2. CASE Alloc(k)
  <2>1. PICK c \in Contexts :
           /\ state[c] = "unused" /\ state' = [state EXCEPT ![c] = "live"]
           /\ home' = [home EXCEPT ![c] = act[k].ep] /\ listed' = listed \cup {c}
           /\ act'[k].ctx = c /\ act'[k].ep = act[k].ep
    BY <1>0, <1>2, AllocIs DEF Becomes, Is
  <2>2. state \in [Contexts -> {"unused", "live", "freed"}] /\ home \in [Contexts -> Endpoints \cup {None}]
    BY <1>0 DEF Globals
  <2>3. /\ state'[c] = "live" /\ home'[c] = act[k].ep
        /\ \A d \in Contexts : d # c => state'[d] = state[d] /\ home'[d] = home[d]
    BY <2>1, <2>2
  <2>4. session' \notin Late \cup {"cleanCodes", "closed"}
    <3>1. session \in {"open", "pause"}
      BY <1>2 DEF UInv, Base, Stages, Calling, Alloc, At
    <3> QED BY <1>0, <3>1 DEF Late
  <2>5. \A d \in Contexts : d \in listed' /\ state[d] # "unused" => d \in listed /\ home'[d] = home[d]
    BY <2>1, <2>3
  <2>6. \A d \in Contexts : state'[d] = "freed" => state[d] = "freed"
    BY <2>1, <2>3
  <2> QED BY <1>0, <2>1, <2>3, <2>4, <2>5, <2>6, HoldStep
<1>3. CASE AllocFails(k) \/ Pend(k) \/ PendRefused(k) \/ Push(k) \/ PushFails(k) \/ PushCode(k)
  <2>1. UNCHANGED <<state, home, listed>>
    BY <1>3 DEF AllocFails, Pend, PendRefused, Push, PushFails, PushCode, ctxVars
  <2>2. CASE Ends(k, "idle")
    <3>1. act'[k].pc = "idle" /\ act'[k].owes = 0
      BY <2>2 DEF Ends, Becomes, Is
    <3> QED BY <1>0, <2>1, <3>1, QuietHold
  <2>3. CASE act[k].pc \in {"pend", "push", "code"} /\ act'[k].ctx = act[k].ctx /\ act'[k].ep = act[k].ep
    <3>1. act[k].owes > 0
      BY <1>0, <2>3 DEF Locals, Fits
    <3> QED BY <1>0, <2>1, <2>3, <3>1, QuietHold
  <2>4. CASE PushCode(k)
    BY <1>0, <2>3, <2>4, PushCodeIs DEF Turns, Becomes, Is
  <2>5. CASE ~PushCode(k)
    <3>1. CASE AllocFails(k)
      BY <1>0, <2>2, <3>1, CalloutIs
    <3>2. CASE Pend(k) \/ PendRefused(k) \/ Push(k) \/ PushFails(k)
      BY <1>0, <2>3, <3>2, CalloutIs DEF Turns, Becomes, Is
    <3> QED BY <1>3, <2>5, <3>1, <3>2
  <2> QED BY <2>4, <2>5
<1> QED BY <1>1, <1>2, <1>3 DEF CalloutStep

LEMMA FreeHold ==
    ASSUME UInv, UInv', References, Holding, NEW a \in Actors, FreeCtx(a) \/ FreeUnhash(a)
    PROVE  Holding'
<1>0. /\ Globals /\ Locals /\ UNCHANGED <<session, closed>> /\ Moves(a)
      /\ \A b \in Actors : b # a => act'[b] = act[b]
      /\ state \in [Contexts -> {"unused", "live", "freed"}] /\ listed \subseteq Contexts
      /\ home \in [Contexts -> Endpoints \cup {None}]
  <2>1. Globals /\ Locals /\ UNCHANGED <<session, closed>>
    BY DEF UInv, Base, FreeCtx, FreeUnhash, sesVars
  <2> QED BY <2>1, FreeFits, MovesAre DEF Globals
<1>1. CASE FreeCtx(a)
  <2>1. /\ UNCHANGED <<state, home>> /\ listed' \subseteq listed
        /\ act[a].pc = "drop" /\ act[a].owes \in {1, 2}
    <3>1. listed' = listed \ {act[a].ctx} \/ listed' = listed
      BY <1>0, <1>1, FreeCtxIs
    <3> QED BY <1>0, <1>1, <3>1, FreeCtxIs DEF FreeCtx
  <2>2. PICK o \in {0, 1} : \/ Turns(a, "unhash", o) \/ Turns(a, "drop", o)
                            \/ Ends(a, IF a = Worker THEN "next" ELSE "idle")
    <3>1. act[a].owes - 1 \in {0, 1}
      BY <2>1
    <3>2. \/ Turns(a, "unhash", act[a].owes - 1) \/ Turns(a, "drop", act[a].owes - 1)
          \/ Ends(a, IF a = Worker THEN "next" ELSE "idle")
      BY <1>0, <1>1, FreeCtxIs
    <3> QED BY <3>1, <3>2
  <2>3. /\ a \in Callers /\ act'[a].pc # "idle" => act'[a].ep = act[a].ep
        /\ act'[a].owes > 0 => act'[a].ctx = act[a].ctx
    BY <2>2, Boundaries DEF Turns, Ends, Becomes, Is
  <2> QED BY <1>0, <2>1, <2>3, QuietHold
<1>2. CASE FreeUnhash(a)
  <2>1. PICK c \in Contexts :
           /\ c = act[a].ctx /\ act[a].pc = "unhash" /\ act[a].owes \in {0, 1} /\ listed' = listed
           /\ home' = [home EXCEPT ![c] = None] /\ state' = [state EXCEPT ![c] = "freed"]
    BY <1>0, <1>2, FreeUnhashIs DEF FreeUnhash
  <2>2. /\ a \in Callers /\ act'[a].pc # "idle" => act'[a].ep = act[a].ep
        /\ act'[a].owes > 0 => act[a].owes > 0 /\ act'[a].ctx = act[a].ctx
    <3>1. PICK o \in {0, 1} : o = act[a].owes /\ Leaves(a, o)
      BY <1>0, <1>2, <2>1, FreeUnhashIs
    <3> QED BY <3>1, Boundaries DEF Leaves, Turns, Ends, Becomes, Is
  <2>3. CASE Gone(c)
    <3>1. state' = state /\ home' = home
      BY <1>0, <2>1, <2>3, GoneIs DEF Gone
    <3> QED BY <1>0, <2>1, <2>2, <3>1, QuietHold
  <2>4. CASE ~Gone(c)
    <3>1. c \notin listed
      BY <2>1, <2>4 DEF References, HandOf
    <3>2. \A b \in Actors : act[b].owes > 0 => act[b].ctx # c
      BY <2>4, <3>1 DEF References, HandOf
    <3>3. \A d \in Contexts : d # c => state'[d] = state[d] /\ home'[d] = home[d]
      BY <1>0, <2>1
    <3>4. \A d \in Contexts : d \in listed' => d \in listed /\ home'[d] = home[d]
      BY <2>1, <3>1, <3>3
    <3>5. \A d \in Contexts : state'[d] = "freed" =>
            state[d] = "freed" \/ \A b \in Actors : act[b].owes > 0 => act[b].ctx # d
      BY <3>2, <3>3
    <3> QED BY <1>0, <2>1, <2>2, <3>4, <3>5, HoldStep
  <2> QED BY <2>3, <2>4
<1> QED BY <1>1, <1>2

LEMMA WorkerHold ==
    ASSUME UInv, UInv', References, Holding, WriteBack, ~Inject
    PROVE  Holding'
<1>0. /\ Globals /\ Locals /\ Worker \in Actors /\ Worker \notin Callers
      /\ UNCHANGED <<session, state, home, listed, closed>>
      /\ \A b \in Actors : b # Worker => act'[b] = act[b]
  <2>1. Globals /\ Locals /\ Worker \in Actors /\ Worker \notin Callers
    BY Boundaries DEF UInv, Base
  <2>2. UNCHANGED <<session, state, home, listed, closed>>
    BY DEF WriteBack, ById, Request, RequestFails, CountBytes, InjectFails, ctxVars, sesVars
  <2> QED BY <2>1, <2>2, WorkerFits, MovesAre DEF WriteBack
<1>1. CASE ById
  <2>1. CASE act[Worker].ctx \in listed
    <3>1. act'[Worker].ctx = act[Worker].ctx /\ act[Worker].ctx \in Contexts
      BY <1>0, <1>1, <2>1, RequestIs DEF Turns, Becomes, Is
    <3>2. state[act[Worker].ctx] # "freed"
      BY <2>1, <3>1 DEF References, CountOf
    <3> QED BY <1>0, <3>1, <3>2, HoldStep
  <2>2. CASE act[Worker].ctx \notin listed
    <3>1. act'[Worker].owes = 0
      BY <1>0, <1>1, <2>2, RequestIs DEF Turns, Becomes, Is
    <3> QED BY <1>0, <3>1, QuietHold
  <2> QED BY <2>1, <2>2
<1>2. CASE Request \/ RequestFails \/ CountBytes \/ InjectFails
  <2>1. act[Worker].pc \in {"throttle", "count", "inject"} /\ act'[Worker].ctx = act[Worker].ctx
    BY <1>0, <1>2, RequestIs, InjectFailsIs DEF Turns, Becomes, Is
  <2>2. act[Worker].owes > 0
    BY <1>0, <2>1 DEF Locals, Fits
  <2> QED BY <1>0, <2>1, <2>2, QuietHold
<1> QED BY <1>1, <1>2 DEF WriteBack

LEMMA InjectHold ==
    ASSUME UInv, UInv', References, Holding, Inject
    PROVE  Holding'
<1>0. /\ Globals /\ Locals /\ Worker \in Actors /\ Worker \notin Callers \cup Packets
      /\ UNCHANGED <<session, closed, state, home, listed>> /\ Callers \subseteq Actors
  BY Boundaries DEF UInv, Base, Inject, sesVars, ctxVars
<1>1. PICK p \in Packets, c \in Contexts :
         /\ p = act[Worker].pkt /\ c = act[Worker].ctx /\ act[Worker].owes = 2
         /\ act'[Worker].ctx = c /\ act'[p].ctx = c
  BY <1>0, InjectIs DEF Is
<1>2. p \notin Callers /\ \A b \in Actors : b # Worker /\ b # p => act'[b] = act[b]
  BY <1>0, <1>1, InjectUnique, Boundaries DEF UInv, Locals, Fits
\* Not what the worker holds is gone: it is no closure.
<1>3. ~Gone(c)
  BY <1>0, <1>1 DEF Holding, GoneOf
<1>4. \A k \in Callers : act'[k] = act[k]
  BY <1>0, <1>2
<1>5. \A k \in Callers : CallerOf(k)'
  BY <1>0, <1>4 DEF Holding, CallerOf
<1>6. ASSUME NEW a \in Actors PROVE GoneOf(a)'
  <2>0. \A x : Gone(x)' = Gone(x)
    BY <1>0 DEF Gone
  <2>1. CASE a = Worker \/ a = p
    BY <1>1, <1>3, <2>0, <2>1 DEF GoneOf
  <2>2. CASE a # Worker /\ a # p
    <3>1. act'[a] = act[a] /\ GoneOf(a)
      BY <1>2, <2>2 DEF Holding
    <3>2. Gone(act[a].ctx) => \A b \in Actors : act'[b].ctx = act[a].ctx => act'[b] = act[b]
      BY <1>1, <1>2, <1>3
    <3> QED BY <1>0, <2>0, <3>1, <3>2 DEF GoneOf
  <2> QED BY <2>1, <2>2
<1>7. Emptied'
  BY <1>0 DEF Holding, Emptied
<1> QED BY <1>5, <1>6, <1>7 DEF Holding

LEMMA ReaderHold ==
    ASSUME UInv, UInv', References, Holding, ServeRead \/ Read \/ Close \/ \E deny \in BOOLEAN : NextPacket(deny)
    PROVE  Holding'
<1>0. /\ Globals /\ Locals /\ Worker \in Actors /\ Worker \notin Callers
      /\ UNCHANGED <<state, home, listed, closed>>
      /\ session' = session \/ session' \notin Late \cup {"cleanCodes", "closed"}
      /\ \A b \in Actors : b # Worker => act'[b] = act[b]
  <2>1. Globals /\ Locals /\ Worker \in Actors /\ Worker \notin Callers
    BY Boundaries DEF UInv, Base
  <2>2. UNCHANGED <<state, home, listed, closed>> /\ (session' = session \/ session' = "pause")
    BY DEF ServeRead, FillCode, FillPacket, FillFull, FillEnd, Read, Close, NextPacket, ctxVars, sesVars
  <2> QED BY <2>1, <2>2, WorkerFits, MovesAre DEF Late
<1>1. act'[Worker].owes = 0
  <2>1. CASE ServeRead \/ Read
    BY <1>0, <2>1, ReadIs DEF ServeRead, Turns, Becomes, Is
  <2>2. CASE Close
    BY <1>0, <2>2, CloseIs DEF Ends, Becomes, Is
  <2>3. ASSUME NEW deny \in BOOLEAN, NextPacket(deny) PROVE act'[Worker].owes = 0
    <3>1. act[Worker].pc = "next" => act[Worker].owes = 0
      BY <1>0 DEF Locals, Fits
    <3> QED BY <1>0, <2>3, <3>1, NextPacketIs DEF Ends, Becomes, Is
  <2> QED BY <2>1, <2>2, <2>3
<1> QED BY <1>0, <1>1, QuietHold

\* A closure begins on an endpoint nobody works for, with a context that is in the list.
LEMMA ClosureHold ==
    ASSUME UInv, UInv', References, Holding, NEW k \in Callers, NEW e \in Endpoints, Closure(k, e)
    PROVE  Holding'
<1>0. /\ Globals /\ Locals /\ k \in Actors /\ e \notin closed /\ closed' = closed \cup {e}
      /\ UNCHANGED <<session, state, home, listed, byHandle>>
      /\ \A j \in Callers : act[j].pc = "idle" \/ act[j].ep # e
      /\ Callers \subseteq Actors
  BY Boundaries DEF UInv, Base, Closure, At, sesVars
<1>1. CASE act' = act
  <2>1. \A j \in Callers : CallerOf(j)'
    BY <1>0, <1>1 DEF Holding, CallerOf
  <2>2. \A a \in Actors : GoneOf(a)'
    BY <1>0, <1>1 DEF Holding, GoneOf, Gone
  <2> QED BY <1>0, <2>1, <2>2 DEF Holding, Emptied
<1>2. CASE byHandle[e] \in Contexts /\ Becomes(k, "drop", byHandle[e], e, 2, 0, 0, "send")
  <2>1. PICK c \in Contexts : c = byHandle[e]
    BY <1>2
  <2>2. /\ \A b \in Actors : b # k => act'[b] = act[b]
        /\ act'[k].pc = "drop" /\ act'[k].ctx = c /\ act'[k].owes = 2 /\ act'[k].ep = e
    BY <1>0, <1>2, <2>1, MovesAre DEF Becomes, Is
  <2>3. home[c] = e
    BY <2>1, Boundaries DEF References, TableOf
  <2>4. ~Gone(c)
    BY <2>3, GoneIs, Boundaries
  <2>5. ASSUME NEW j \in Callers PROVE CallerOf(j)'
    <3>1. CASE j = k
      BY <1>0, <2>2, <2>3, <3>1 DEF CallerOf
    <3>2. CASE j # k
      BY <1>0, <2>2, <3>2 DEF Holding, CallerOf
    <3> QED BY <3>1, <3>2
  <2>6. ASSUME NEW a \in Actors PROVE GoneOf(a)'
    <3>1. CASE a = k
      BY <1>0, <2>2, <2>4, <3>1 DEF GoneOf, Gone
    <3>2. CASE a # k
      BY <1>0, <2>2, <2>4, <3>2 DEF Holding, GoneOf, Gone
    <3> QED BY <3>1, <3>2
  <2> QED BY <1>0, <2>5, <2>6 DEF Holding, Emptied
<1> QED BY <1>0, <1>1, <1>2, ClosureIs

\* Who holds a context when udp_clean frees it is a closure, and alone on its endpoint.
LEMMA CleanHold ==
    ASSUME UInv, UInv', References, Holding, CleanContexts
    PROVE  Holding'
<1>0. /\ Globals /\ Locals /\ act' = act /\ closed' = closed /\ listed' = {} /\ session' = "cleanCodes"
      /\ session = "cleanContexts" /\ Callers \subseteq Actors
      /\ \A c \in Contexts : state'[c] = IF c \in listed THEN "freed" ELSE state[c]
  BY Boundaries DEF CleanContexts, UInv, Base
<1>1. ASSUME NEW a \in Actors, act[a].owes > 0 PROVE a \in Callers /\ act[a].ep \in closed /\ act[a].pc # "idle"
  <2>1. act[a].pc # "idle"
    BY <1>0, <1>1 DEF Locals, Fits
  <2>2. a \in Callers
    BY <1>0, <1>1, <2>1 DEF UInv, Base, Stages, Actors
  <2>3. act[a].ep \in closed
    BY <1>0, <2>1, <2>2 DEF Holding, CallerOf, Late
  <2> QED BY <2>1, <2>2, <2>3
<1>2. \A k \in Callers : CallerOf(k)'
  BY <1>0 DEF Holding, CallerOf, Late
<1>3. ASSUME NEW a \in Actors, act[a].owes > 0 PROVE GoneOf(a)'
  <2>1. a \in Callers /\ act[a].ep \in closed /\ act[a].pc # "idle" /\ act[a].ctx \in Contexts
    BY <1>0, <1>1, <1>3 DEF Locals, Fits
  <2>2. ASSUME NEW b \in Actors, act[b].owes > 0, act[b].ctx = act[a].ctx PROVE b = a
    <3>1. CASE act[a].ctx \in listed
      <4>1. b \in Callers /\ act[b].pc # "idle"
        BY <1>1, <2>2
      <4>2. home[act[a].ctx] = act[a].ep /\ home[act[b].ctx] = act[b].ep
        BY <1>3, <2>1, <2>2, <3>1, <4>1 DEF Holding, CallerOf
      <4> QED BY <2>1, <2>2, <4>1, <4>2 DEF Holding, CallerOf
    <3>2. CASE act[a].ctx \notin listed
      <4>1. Gone(act[a].ctx)
        BY <1>3, <3>2 DEF References, HandOf
      <4> QED BY <1>3, <2>2, <4>1 DEF Holding, GoneOf
    <3> QED BY <3>1, <3>2
  <2> QED BY <1>0, <2>1, <2>2 DEF GoneOf
<1>4. \A a \in Actors : GoneOf(a)'
  <2>1. ASSUME NEW a \in Actors, ~(act[a].owes > 0) PROVE GoneOf(a)'
    BY <1>0, <2>1 DEF GoneOf
  <2> QED BY <1>3, <2>1
<1>5. Emptied'
  BY <1>0 DEF Emptied
<1> QED BY <1>2, <1>4, <1>5 DEF Holding

LEMMA HoldingNext ==
    ASSUME UInv, UInv', References, Holding, [Next]_vars
    PROVE  Holding'
<1>1. ASSUME NEW k \in Callers, NEW e \in Endpoints, NEW d \in Directions, NEW n \in 1..MaxBuffers,
             Classify(k, e, d, n)
      PROVE  Holding'
  <2>1. Becomes(k, "find", None, e, 0, n, made + 1, d) /\ k \in Actors
    BY <1>1, ClassifyIs, Boundaries DEF UInv, Base
  <2>2. /\ act'[k].ep = e /\ act'[k].owes = 0
        /\ \A b \in Actors : b # k => act'[b] = act[b]
    BY <2>1, MovesAre DEF Becomes, Is, UInv, Base
  <2>3. UNCHANGED <<state, home, listed, closed, session>> /\ e \notin closed /\ session = "open"
    BY <1>1 DEF Classify, ctxVars, sesVars, UInv, Base, Stages
  <2>4. session' \notin Late
    BY <2>3 DEF Late
  <2> QED BY <2>1, <2>2, <2>3, <2>4, HoldStep
<1>2. ASSUME NEW k \in Callers, NEW e \in Endpoints, Closure(k, e) PROVE Holding'
  BY <1>2, ClosureHold
<1>3. ASSUME NEW k \in Callers, CalloutStep(k) PROVE Holding'
  BY <1>3, CalloutHold
<1>4. ASSUME NEW a \in Actors, FreeCtx(a) \/ FreeUnhash(a) PROVE Holding'
  BY <1>4, FreeHold
<1>5. CASE ServeRead \/ Read \/ Close \/ \E deny \in BOOLEAN : NextPacket(deny)
  BY <1>5, ReaderHold
<1>6. CASE WriteBack
  BY <1>6, WorkerHold, InjectHold
<1>7. ASSUME NEW p \in Packets, CompleteBytes(p) PROVE Holding'
  <2>1. /\ p \in Actors /\ p \notin Callers /\ Moves(p) /\ act[p].owes = 1 /\ Turns(p, "drop", 1)
    BY <1>7, CompleteFits, CompleteIs, Boundaries DEF UInv, Base, Locals, Fits
  <2>2. act'[p].ctx = act[p].ctx /\ \A b \in Actors : b # p => act'[b] = act[b]
    BY <2>1, MovesAre DEF Turns, Becomes, Is, UInv, Base
  <2>3. UNCHANGED <<state, home, listed, closed, session>>
    BY <1>7 DEF CompleteBytes, ctxVars, sesVars
  <2> QED BY <2>1, <2>2, <2>3, QuietHold
<1>8. CASE CleanContexts
  BY <1>8, CleanHold
<1>9. CASE Open \/ PauseEnds \/ CleanQueue \/ CleanCodes \/ UNCHANGED vars
  <2>1. UNCHANGED <<state, home, listed, closed, act>>
    BY <1>9 DEF Open, PauseEnds, CleanQueue, CleanCodes, vars, ctxVars
  <2>2. \A a \in Actors : GoneOf(a)'
    BY <2>1 DEF Holding, GoneOf, Gone
  <2>3. session' \in Late => session \in Late \/ \A a \in Actors : act[a].pc = "idle"
    BY <1>9 DEF Open, PauseEnds, CleanQueue, CleanCodes, vars, sesVars, Late, At
  <2>4. \A k \in Callers : CallerOf(k)'
    BY <2>1, <2>3, Boundaries DEF Holding, CallerOf
  <2>5. session' \in {"cleanCodes", "closed"} => session \in {"cleanCodes", "closed"}
    BY <1>9 DEF Open, PauseEnds, CleanQueue, CleanCodes, vars, sesVars
  <2>6. Emptied'
    BY <2>1, <2>5 DEF Holding, Emptied
  <2> QED BY <2>2, <2>4, <2>6 DEF Holding
<1> QED
  BY <1>1, <1>2, <1>3, <1>4, <1>5, <1>6, <1>7, <1>8, <1>9
     DEF Next, WorkerStep, CloseStep

LEMMA InitHolding == Init => Holding
<1> SUFFICES ASSUME Init PROVE Holding
  OBVIOUS
<1>1. (\A a \in Actors : act[a].pc = "idle" /\ act[a].owes = 0) /\ listed = {}
  BY RestFields DEF Init
<1>2. \A k \in Callers : CallerOf(k)
  BY <1>1, Boundaries DEF CallerOf
<1>3. \A a \in Actors : GoneOf(a)
  BY <1>1 DEF GoneOf
<1> QED BY <1>1, <1>2, <1>3 DEF Holding, Emptied

-----------------------------------------------------------------------------
(***************************************************************************)
(* The theorems.                                                           *)
(***************************************************************************)

LEMMA HoldersInductive == Spec => []HInv
<1>1. Init => HInv
  BY InitBase, InitUnique, InitReferences, InitHolding DEF HInv, RInv, UInv
<1>2. UInv /\ [Next]_vars => UInv'
  BY BaseNext, UniqueNext, BytesNext DEF UInv
<1>3. HInv /\ [Next]_vars => HInv'
  BY <1>2, ReferencesNext, HoldingNext DEF HInv, RInv
<1> QED BY <1>1, <1>3, PTL DEF Spec

\* Only the closure of an endpoint can have a context freed under it, by udp_clean,
\* and then nobody else holds that context: one that a classify, a write request or
\* an injection holds is not freed (udp_freeCtx, udp_clean).
THEOREM HeldContexts == Spec => []HeldContextsLive
<1>1. HInv => HeldContextsLive
  <2> SUFFICES ASSUME HInv, NEW a \in Actors, act[a].owes > 0, state[act[a].ctx] # "live"
               PROVE  /\ a \in Callers /\ act[a].ep \in closed
                      /\ Holders(act[a].ctx) = {a}
    BY DEF HeldContextsLive
  <2>1. act[a].ctx \in Contexts
    BY DEF HInv, RInv, UInv, Base, Locals, Fits
  <2>2. Gone(act[a].ctx)
    BY <2>1 DEF HInv, RInv, References, HandOf, CountOf
  <2>3. GoneOf(a)
    BY DEF HInv, Holding
  <2> QED BY <2>2, <2>3 DEF GoneOf, Holders
<1> QED BY <1>1, HoldersInductive, PTL

\* The count of a listed context is what its holders owe and the reference of the
\* table: none is given back twice and none is lost, even if a closure meets
\* udp_clean, unless the headers of an injected packet cannot be built (udpctx.c,
\* devctrl_processInjectUDPPacket).
THEOREM CountsAreOwed ==
    ASSUME "header" \notin Failing PROVE Spec => []CountIsOwed
<1>1. RInv => CountIsOwed
  <2> SUFFICES ASSUME RInv, NEW c \in listed
               PROVE  /\ refs[c] - Owed(c) \in {0, 1}
                      /\ home[c] \notin closed => refs[c] = Owed(c) + 1
                      /\ byHandle[home[c]] = c /\ home[c] \in closed => refs[c] = Owed(c)
    BY DEF CountIsOwed
  <2>1. c \in Contexts /\ Locals
    BY DEF RInv, UInv, Base, Globals
  <2>2. refs[c] = Owed(c) + TableRef(c)
    BY <2>1 DEF RInv, References, CountOf
  <2>3. Owed(c) \in Nat
    BY <2>1, OwedBounds
  <2> QED BY <2>2, <2>3, TableRefIs
<1>2. HInv => RInv
  BY DEF HInv
<1> QED BY <1>1, <1>2, HoldersInductive, PTL


\* A closed device has no packet, no code and no context of the session that ended,
\* but one that a closure has taken out of the list and is about to free
\* (devctrl_close, udp_clean, devctrl_clean).
THEOREM CloseLeavesNone == Spec => []CloseLeavesNothing
<1>1. HInv => CloseLeavesNothing
  <2> SUFFICES ASSUME HInv, session = "closed"
               PROVE  /\ listed = {} /\ queue = <<>> /\ codes = <<>> /\ batch = <<>>
                      /\ \A c \in Contexts :
                           state[c] = "live" \/ (\E e \in Endpoints : byHandle[e] = c) =>
                             \E k \in Callers : At(k, "unhash") /\ act[k].ctx = c /\ home[c] \in closed
    BY DEF CloseLeavesNothing
  <2>1. listed = {} /\ queue = <<>> /\ codes = <<>> /\ batch = <<>>
    BY DEF HInv, RInv, UInv, Base, Stages, Holding, Emptied
  <2>2. ASSUME NEW c \in Contexts, state[c] = "live" \/ \E e \in Endpoints : byHandle[e] = c
        PROVE  \E k \in Callers : At(k, "unhash") /\ act[k].ctx = c /\ home[c] \in closed
    <3>2. Unhashing(c) /\ ~Gone(c)
      <4>1. CASE state[c] = "live"
        BY <2>1, <4>1 DEF HInv, RInv, References, LiveOf, Gone
      <4>2. ASSUME NEW e \in Endpoints, byHandle[e] = c PROVE Unhashing(c) /\ ~Gone(c)
        <5>1. home[c] = e /\ Unhashing(c)
          BY <2>1, <4>2, Boundaries DEF HInv, RInv, References, TableOf
        <5> QED BY <5>1, GoneIs, Boundaries DEF HInv, RInv
      <4> QED BY <2>2, <4>1, <4>2
    <3>3. PICK a \in Actors : At(a, "unhash") /\ act[a].ctx = c
      BY <3>2 DEF Unhashing
    <3>4. home[c] \in closed
      BY <3>2, <3>3 DEF At, HInv, RInv, References, HandOf
    <3>5. a \in Callers
      BY <3>3 DEF At, HInv, RInv, UInv, Base, Stages, Actors
    <3> QED BY <3>3, <3>4, <3>5
  <2> QED BY <2>1, <2>2
<1> QED BY <1>1, HoldersInductive, PTL
=============================================================================
