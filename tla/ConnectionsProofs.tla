------------------------- MODULE ConnectionsProofs -------------------------
(***************************************************************************)
(* Proofs about Connections, for every set of calls and both limits.       *)
(***************************************************************************)
EXTENDS Connections, FiniteSetTheorems, TLAPS

(***************************************************************************)
(* A state of the right type: each action keeps every field of every call  *)
(* and client in its range.                                                *)
(***************************************************************************)
LEMMA OpenedType ==
  ASSUME NEW c \in Calls, TypeOK
  PROVE  Opened(c) \in ClientStates
BY DEF Opened, NoClient, ClientStates

LEMMA ClosedType ==
  ASSUME NEW k \in Clients, TypeOK
  PROVE  /\ Closed(k) \in ClientStates
         /\ Closed(k).answer = client[k].answer
BY DEF Closed, ClientStates, TypeOK

LEMMA HolderType ==
  ASSUME NEW c \in Calls
  PROVE  Holder(c) \in Clients
BY DEF Holder, Clients, Attempts

LEMMA CurrentType ==
  ASSUME NEW c \in Calls, call[c].phase \in Attempts
  PROVE  Current(c) \in Clients
BY DEF Current, Clients

LEMMA TypeOKStep == TypeOK /\ [Next]_vars => TypeOK'
<1> SUFFICES ASSUME TypeOK, [Next]_vars PROVE TypeOK'
  OBVIOUS
<1>1. ASSUME NEW c \in Calls, CallNext(c) PROVE TypeOK'
  <2> USE DEF TypeOK
  <2>1. CASE StartConnect(c)
    <3>1. PICK m \in {"off", "on", "auto"}, l \in {"tls", "plain"} :
            call' = [call EXCEPT ![c] = [@ EXCEPT !.phase = "password", !.mode = m,
                                                  !.listener = l]]
      BY <2>1 DEF StartConnect, Admit
    <3>2. [call[c] EXCEPT !.phase = "password", !.mode = m, !.listener = l] \in CallStates
      BY DEF CallStates, Phases
    <3>. QED
      BY <2>1, <3>1, <3>2 DEF StartConnect, Admit
  <2>2. CASE LimitReached(c)
    BY <2>2 DEF LimitReached, CallStates, Phases
  <2>3. CASE PasswordMissing(c)
    BY <2>3 DEF PasswordMissing, CallStates, Phases
  <2>4. CASE OpenFirst(c)
    BY <2>4, OpenedType DEF OpenFirst, CallStates, Phases
  <2>5. CASE Abort(c)
    <3>1. call' \in [Calls -> CallStates]
      BY <2>5 DEF Abort, CallStates
    <3>2. CASE call[c].phase \in Attempts
      <4>1. [client[Current(c)] EXCEPT !.answer = "cancelled"] \in ClientStates
        BY <3>2, CurrentType DEF ClientStates
      <4>. QED
        BY <2>5, <3>1, <3>2, <4>1, CurrentType DEF Abort
    <3>3. CASE call[c].phase \notin Attempts
      BY <2>5, <3>1, <3>3 DEF Abort
    <3>. QED
      BY <3>2, <3>3
  <2>6. CASE SignedIn(c)
    <3>1. [call[c] EXCEPT !.phase = "registered", !.password = FALSE] \in CallStates
      BY DEF CallStates, Phases
    <3>2. Current(c) \in Clients
      BY <2>6, CurrentType DEF SignedIn, Answered
    <3>3. [client[Current(c)] EXCEPT !.answer = "accepted"] \in ClientStates
      BY <3>2 DEF ClientStates
    <3>. QED
      BY <2>6, <3>1, <3>3 DEF SignedIn
  <2>7. CASE SignInRefused(c)
    <3>1. Current(c) \in Clients
      BY <2>7, CurrentType DEF SignInRefused, Answered
    <3>2. [Closed(Current(c)) EXCEPT !.answer = "refused"] \in ClientStates
      BY <3>1, ClosedType DEF ClientStates
    <3>. QED
      BY <2>7, <3>2 DEF SignInRefused, CallStates, Phases
  <2>8. CASE FallBack(c)
    <3>a. <<c, "first">> \in Clients
      BY DEF Clients, Attempts
    <3>b. client[<<c, "first">>] \in ClientStates
      BY <3>a
    <3>1. [client[<<c, "first">>] EXCEPT !.answer = "transport"] \in ClientStates
      BY <3>b DEF ClientStates
    <3>2. /\ call' = [call EXCEPT ![c].phase = "fallback"]
          /\ client' = [client EXCEPT ![<<c, "first">>].answer = "transport",
                                      ![<<c, "fallback">>] = Opened(c)]
          /\ UNCHANGED <<registry, disposal, closing>>
      BY <2>8 DEF FallBack
    <3>3. Opened(c) \in ClientStates
      BY OpenedType
    <3>4. call' \in [Calls -> CallStates]
      BY <3>2 DEF CallStates, Phases
    <3>5. client' \in [Clients -> ClientStates]
      BY <3>1, <3>2, <3>3
    <3>. QED
      BY <3>2, <3>4, <3>5
  <2>9. CASE GiveUp(c)
    <3>1. Current(c) \in Clients
      BY <2>9, CurrentType DEF GiveUp, Attempts
    <3>2. [Closed(Current(c)) EXCEPT !.answer = "transport"] \in ClientStates
      BY <3>1, ClosedType DEF ClientStates
    <3>. QED
      BY <2>9, <3>2 DEF GiveUp, CallStates, Phases
  <2>10. CASE Disconnect(c)
    BY <2>10, HolderType, ClosedType DEF Disconnect
  <2>. QED
    BY <1>1, <2>1, <2>2, <2>3, <2>4, <2>5, <2>6, <2>7, <2>8, <2>9, <2>10 DEF CallNext
<1>2. ASSUME NEW k \in Clients, ClientNext(k) PROVE TypeOK'
  BY <1>2 DEF ClientNext, SignOutSettled, ServerAccepts, ServerRefuses, ServerEndsSession,
              TypeOK, ClientStates
<1>3. CASE Dispose
  BY <1>3, ClosedType DEF Dispose, TypeOK
<1>4. CASE DisposeSettled
  BY <1>4 DEF DisposeSettled, TypeOK
<1>5. CASE UNCHANGED vars
  BY <1>5 DEF vars, TypeOK
<1>. QED
  BY <1>1, <1>2, <1>3, <1>4, <1>5 DEF Next

(* Every reachable state is well typed. *)
THEOREM TypeCorrect == Spec => []TypeOK
<1>1. Init => TypeOK
  BY DEF Init, TypeOK, CallStates, Phases, ClientStates, NoClient
<1>. QED
  BY <1>1, TypeOKStep, PTL DEF Spec

(***************************************************************************)
(* The cap.  The registry alone is not inductive: a call in flight will    *)
(* add itself later, so the calls in flight count towards the bound.       *)
(***************************************************************************)
CapInv ==
  /\ Cardinality(InFlight) <= MaxParallel
  /\ Cardinality(registry \cup InFlight) <= Overshoot

LEMMA SubsetOfCalls ==
  ASSUME NEW S \in SUBSET Calls
  PROVE  IsFiniteSet(S) /\ Cardinality(S) \in Nat
BY CallsAssumption, FS_Subset, FS_CardinalityType

(* A step that takes calls out of flight or out of the registry, or moves  *)
(* one from flight to the registry, keeps the bound.                       *)
LEMMA CapShrinks ==
  ASSUME TypeOK, TypeOK', CapInv,
         InFlight' \subseteq InFlight,
         registry' \cup InFlight' \subseteq registry \cup InFlight
  PROVE  CapInv'
<1>1. /\ InFlight \in SUBSET Calls
      /\ registry \cup InFlight \in SUBSET Calls
  BY DEF InFlight, TypeOK
<1>2. /\ Cardinality(InFlight') <= Cardinality(InFlight)
      /\ Cardinality(registry' \cup InFlight') <= Cardinality(registry \cup InFlight)
  BY <1>1, SubsetOfCalls, FS_Subset
<1>3. /\ Cardinality(InFlight') \in Nat /\ Cardinality(InFlight) \in Nat
      /\ Cardinality(registry' \cup InFlight') \in Nat
      /\ Cardinality(registry \cup InFlight) \in Nat
  <2>1. InFlight' \in SUBSET Calls /\ registry' \cup InFlight' \in SUBSET Calls
    BY <1>1
  <2>. QED
    BY <1>1, <2>1, SubsetOfCalls
<1>4. MaxParallel \in Nat /\ Overshoot \in Nat
  BY LimitsAssumption DEF Overshoot
<1>. QED
  BY <1>2, <1>3, <1>4, LimitsAssumption DEF CapInv, Overshoot

(* Admitting a call adds it to those in flight, below both limits. *)
LEMMA CapStart ==
  ASSUME TypeOK, CapInv, NEW c \in Calls, StartConnect(c)
  PROVE  CapInv'
<1>1. /\ Cardinality(registry) < MaxConnections
      /\ Cardinality(InFlight) < MaxParallel
      /\ call[c].phase = "idle"
      /\ registry' = registry
  BY DEF StartConnect, Admit
<1>2. InFlight' = InFlight \cup {c}
  <2>1. PICK m \in {"off", "on", "auto"}, l \in {"tls", "plain"} :
          call' = [call EXCEPT ![c] = [@ EXCEPT !.phase = "password", !.mode = m,
                                                !.listener = l]]
    BY DEF StartConnect, Admit
  <2>2. call'[c].phase = "password"
    BY <2>1 DEF TypeOK, CallStates
  <2>3. \A d \in Calls \ {c} : call'[d] = call[d]
    BY <2>1 DEF TypeOK
  <2>. QED
    BY <2>2, <2>3 DEF InFlight
<1>3. c \notin InFlight /\ InFlight \in SUBSET Calls /\ registry \in SUBSET Calls
  BY <1>1 DEF InFlight, TypeOK
<1>4. Cardinality(InFlight') = Cardinality(InFlight) + 1
  BY <1>2, <1>3, SubsetOfCalls, FS_AddElement
<1>5. Cardinality(registry \cup InFlight') <= Cardinality(registry) + Cardinality(InFlight')
  <2>1. InFlight' \in SUBSET Calls /\ registry \cap InFlight' \in SUBSET Calls
    BY <1>2, <1>3
  <2>2. Cardinality(registry \cup InFlight')
          = Cardinality(registry) + Cardinality(InFlight') - Cardinality(registry \cap InFlight')
    BY <1>3, <2>1, SubsetOfCalls, FS_Union
  <2>. QED
    BY <1>3, <2>1, <2>2, SubsetOfCalls
<1>6. /\ Cardinality(registry) \in Nat /\ Cardinality(InFlight) \in Nat
      /\ Cardinality(registry \cup InFlight') \in Nat
  <2>1. registry \cup InFlight' \in SUBSET Calls
    BY <1>2, <1>3
  <2>. QED
    BY <1>3, <2>1, SubsetOfCalls
<1>. QED
  BY <1>1, <1>4, <1>5, <1>6, LimitsAssumption DEF CapInv, Overshoot

(* What the other actions do to the calls in flight and the registry. *)
LEMMA CapStep == TypeOK /\ TypeOK' /\ CapInv /\ [Next]_vars => CapInv'
<1> SUFFICES ASSUME TypeOK, TypeOK', CapInv, [Next]_vars PROVE CapInv'
  OBVIOUS
<1>1. ASSUME NEW c \in Calls, CallNext(c) PROVE CapInv'
  <2>1. CASE StartConnect(c)
    BY <2>1, CapStart
  <2>2. CASE \/ LimitReached(c) \/ PasswordMissing(c) \/ OpenFirst(c) \/ Abort(c)
             \/ SignInRefused(c) \/ FallBack(c) \/ GiveUp(c)
    <3>1. registry' = registry
      BY <2>2 DEF LimitReached, PasswordMissing, OpenFirst, Abort, SignInRefused, FallBack, GiveUp
    <3>2. \A d \in Calls \ {c} : call'[d] = call[d]
      BY <2>2 DEF LimitReached, PasswordMissing, OpenFirst, Abort, SignInRefused, FallBack,
                  GiveUp, TypeOK
    <3>3. c \in InFlight' => c \in InFlight
      <4>1. CASE LimitReached(c) \/ PasswordMissing(c) \/ SignInRefused(c) \/ GiveUp(c)
        BY <4>1 DEF LimitReached, PasswordMissing, SignInRefused, GiveUp, InFlight, TypeOK,
                    CallStates
      <4>2. CASE OpenFirst(c) \/ Abort(c) \/ FallBack(c)
        BY <4>2 DEF OpenFirst, Abort, FallBack, InFlight
      <4>. QED
        BY <2>2, <4>1, <4>2
    <3>. QED
      BY <3>1, <3>2, <3>3, CapShrinks DEF InFlight
  <2>3. CASE SignedIn(c)
    <3>1. /\ c \in InFlight
          /\ registry' = registry \cup {c}
          /\ call'[c].phase = "registered"
      BY <2>3 DEF SignedIn, Answered, Attempts, InFlight, TypeOK, CallStates
    <3>2. \A d \in Calls \ {c} : call'[d] = call[d]
      BY <2>3 DEF SignedIn, TypeOK
    <3>. QED
      BY <3>1, <3>2, CapShrinks DEF InFlight
  <2>4. CASE Disconnect(c)
    BY <2>4, CapShrinks DEF Disconnect, InFlight
  <2>. QED
    BY <1>1, <2>1, <2>2, <2>3, <2>4 DEF CallNext
<1>2. ASSUME NEW k \in Clients, ClientNext(k) PROVE CapInv'
  BY <1>2, CapShrinks DEF ClientNext, SignOutSettled, ServerAccepts, ServerRefuses,
                          ServerEndsSession, InFlight
<1>3. CASE Dispose
  BY <1>3, CapShrinks DEF Dispose, InFlight
<1>4. CASE DisposeSettled
  BY <1>4, CapShrinks DEF DisposeSettled, InFlight
<1>5. CASE UNCHANGED vars
  BY <1>5, CapShrinks DEF vars, InFlight
<1>. QED
  BY <1>1, <1>2, <1>3, <1>4, <1>5 DEF Next

LEMMA CapInvariant == Spec => []CapInv
<1>1. Init => CapInv
  <2> SUFFICES ASSUME Init PROVE CapInv
    OBVIOUS
  <2>1. InFlight = {} /\ registry \cup InFlight = {}
    BY DEF Init, InFlight
  <2>. QED
    BY <2>1, FS_EmptySet, LimitsAssumption DEF CapInv, Overshoot
<1>. QED
  BY <1>1, TypeCorrect, CapStep, PTL DEF Spec

(* However the connect calls interleave, the registry stays within the     *)
(* documented cap plus the calls that may be in flight beside the one that *)
(* was admitted last.                                                      *)
THEOREM OvershootBounded == Spec => []OvershootBound
<1>1. TypeOK /\ CapInv => OvershootBound
  <2> SUFFICES ASSUME TypeOK, CapInv PROVE OvershootBound
    OBVIOUS
  <2>1. registry \in SUBSET Calls /\ registry \cup InFlight \in SUBSET Calls
    BY DEF TypeOK, InFlight
  <2>2. Cardinality(registry) <= Cardinality(registry \cup InFlight)
    BY <2>1, SubsetOfCalls, FS_Subset
  <2>. QED
    BY <2>1, <2>2, SubsetOfCalls, LimitsAssumption DEF CapInv, OvershootBound, Overshoot
<1>. QED
  BY <1>1, TypeCorrect, CapInvariant, PTL

(* A host that runs one nebula_connect at a time keeps the documented cap. *)
THEOREM SequentialCapHolds == MaxParallel = 1 => (Spec => []ConnectionCap)
<1> SUFFICES ASSUME MaxParallel = 1 PROVE Spec => []ConnectionCap
  OBVIOUS
<1>1. OvershootBound => ConnectionCap
  BY LimitsAssumption DEF OvershootBound, Overshoot, ConnectionCap
<1>. QED
  BY <1>1, OvershootBounded, PTL

(***************************************************************************)
(* The life cycle.  What a call's state s says of its two clients, f the   *)
(* first and g the fallback, and what a client's own fields say of each    *)
(* other.  The safety invariants read single consequences of it; none of   *)
(* them is inductive alone, since each rests on what the earlier awaits    *)
(* left behind.                                                            *)
(***************************************************************************)
(* The answer an authenticate that is still awaited has. *)
Awaiting(s) == IF s.aborted THEN "cancelled" ELSE "none"

Releasing == {"signingOut", "signedOut"}

LifeCycle(s, f, g) ==
  /\ s.phase \in {"idle", "password"} => f = NoClient
  /\ s.phase = "first" => f.chan = "open" /\ f.answer = Awaiting(s)
  /\ s.phase = "fallback" => g.chan = "open" /\ g.answer = Awaiting(s)
  /\ s.phase = "registered" =>
       /\ ~s.password
       /\ f.answer = "accepted" \/ g.answer = "accepted"
  /\ s.phase = "failed" =>
       /\ f.answer # "accepted" /\ g.answer # "accepted" /\ g.chan # "open"
       /\ f.chan = "open" => g.chan # "none"
  /\ s.phase \in {"idle", "password", "first"} => g = NoClient
  /\ g.chan # "none" => s.mode = "auto" /\ f.answer = "transport" /\ f.chan = "open"

ClientSound(x) ==
  /\ x.chan = "none" => x = NoClient
  /\ x.chan \in Releasing => x.answer = "accepted"
  /\ x.answer = "accepted" => x.chan \in {"open"} \cup Releasing
  /\ x.session = "live" => x.request = "accepted"
  /\ x.answer = "refused" => x.request = "refused"

CallInv(c) ==
  /\ LifeCycle(call[c], client[<<c, "first">>], client[<<c, "fallback">>])
  /\ ClientSound(client[<<c, "first">>])
  /\ ClientSound(client[<<c, "fallback">>])
  /\ c \in registry => call[c].phase = "registered" /\ client[Holder(c)].chan = "open"
  /\ (call[c].phase = "registered" /\ c \notin registry) => client[Holder(c)].chan \in Releasing

LifeInv == \A c \in Calls : CallInv(c)

LEMMA TwoClients ==
  ASSUME NEW c \in Calls
  PROVE  /\ <<c, "first">> \in Clients /\ <<c, "fallback">> \in Clients
         /\ <<c, "first">> # <<c, "fallback">>
         /\ \A k \in Clients : k[1] = c => k = <<c, "first">> \/ k = <<c, "fallback">>
BY DEF Clients, Attempts

(* A call whose own state, clients and registration stay is still sound. *)
LEMMA Frame ==
  ASSUME NEW d \in Calls, CallInv(d),
         call'[d] = call[d],
         client'[<<d, "first">>] = client[<<d, "first">>],
         client'[<<d, "fallback">>] = client[<<d, "fallback">>],
         d \in registry' <=> d \in registry
  PROVE  CallInv(d)'
<1>1. Holder(d)' = Holder(d) /\ client'[Holder(d)] = client[Holder(d)]
  BY DEF Holder
<1>. QED
  BY <1>1 DEF CallInv

(* A step of one call leaves every other call, its clients and its         *)
(* registration alone.                                                     *)
LEMMA OthersKept ==
  ASSUME TypeOK, NEW c \in Calls, CallNext(c), NEW d \in Calls, d # c
  PROVE  /\ call'[d] = call[d]
         /\ client'[<<d, "first">>] = client[<<d, "first">>]
         /\ client'[<<d, "fallback">>] = client[<<d, "fallback">>]
         /\ d \in registry' <=> d \in registry
<1>1. ASSUME NEW a \in Attempts PROVE \A b : <<d, a>> # <<c, b>>
  OBVIOUS
<1>2. call'[d] = call[d]
  BY DEF CallNext, StartConnect, Admit, LimitReached, PasswordMissing, OpenFirst, Abort, SignedIn,
         SignInRefused, FallBack, GiveUp, Disconnect, TypeOK
<1>3. d \in registry' <=> d \in registry
  BY DEF CallNext, StartConnect, Admit, LimitReached, PasswordMissing, OpenFirst, Abort, SignedIn,
         SignInRefused, FallBack, GiveUp, Disconnect
<1>4. ASSUME NEW a \in Attempts PROVE client'[<<d, a>>] = client[<<d, a>>]
  <2>1. <<d, a>> \in Clients
    BY DEF Clients
  <2>2. CASE \/ StartConnect(c) \/ LimitReached(c) \/ PasswordMissing(c)
    BY <2>2 DEF StartConnect, Admit, LimitReached, PasswordMissing
  <2>3. CASE OpenFirst(c) \/ FallBack(c)
    BY <1>1, <2>1, <2>3 DEF OpenFirst, FallBack, TypeOK
  <2>4. CASE Abort(c) \/ SignedIn(c) \/ SignInRefused(c) \/ GiveUp(c)
    BY <1>1, <2>1, <2>4 DEF Abort, SignedIn, SignInRefused, GiveUp, Current, TypeOK
  <2>5. CASE Disconnect(c)
    BY <1>1, <2>1, <2>5 DEF Disconnect, Holder, TypeOK
  <2>. QED
    BY <2>2, <2>3, <2>4, <2>5 DEF CallNext
<1>. QED
  BY <1>2, <1>3, <1>4 DEF Attempts

(* A registered entry that is forgotten and closed: the step of            *)
(* nebula_disconnect for one entry and of plugin unload for each of them.  *)
LEMMA HeldClosed ==
  ASSUME TypeOK, NEW c \in Calls, CallInv(c), c \in registry, c \notin registry',
         call'[c] = call[c],
         client'[Holder(c)] = Closed(Holder(c)),
         \A k \in Clients : (k[1] = c /\ k # Holder(c)) => client'[k] = client[k]
  PROVE  CallInv(c)'
<1> DEFINE s == call[c]
           f == client[<<c, "first">>]
           g == client[<<c, "fallback">>]
<1>1. /\ s \in CallStates /\ f \in ClientStates /\ g \in ClientStates
      /\ LifeCycle(s, f, g) /\ ClientSound(f) /\ ClientSound(g)
      /\ s.phase = "registered"
  BY TwoClients DEF TypeOK, CallInv
<1>2. client[Holder(c)].chan = "open" /\ client[Holder(c)].answer = "accepted"
  BY <1>1 DEF CallInv, LifeCycle, Holder
<1>3. client'[Holder(c)] = [client[Holder(c)] EXCEPT !.chan = "signingOut"]
  BY <1>2 DEF Closed
<1>4. CASE g.answer = "accepted"
  <2>1. Holder(c) = <<c, "fallback">>
    BY <1>4 DEF Holder
  <2>2. client'[<<c, "fallback">>] = [g EXCEPT !.chan = "signingOut"] /\ client'[<<c, "first">>] = f
    BY <1>3, <2>1, TwoClients
  <2>3. /\ client'[<<c, "fallback">>].chan = "signingOut"
        /\ client'[<<c, "fallback">>].answer = "accepted"
        /\ ClientSound(client'[<<c, "fallback">>])
    BY <1>1, <1>4, <2>2 DEF ClientSound, ClientStates, Releasing
  <2>4. Holder(c)' = <<c, "fallback">>
    BY <2>3 DEF Holder
  <2>5. LifeCycle(call'[c], client'[<<c, "first">>], client'[<<c, "fallback">>])
    BY <1>1, <1>4, <2>1, <1>2, <2>2, <2>3 DEF LifeCycle
  <2>. QED
    BY <1>1, <2>2, <2>3, <2>4, <2>5 DEF CallInv, Releasing
<1>5. CASE g.answer # "accepted"
  <2>1. Holder(c) = <<c, "first">>
    BY <1>5 DEF Holder
  <2>2. client'[<<c, "first">>] = [f EXCEPT !.chan = "signingOut"] /\ client'[<<c, "fallback">>] = g
    BY <1>3, <2>1, TwoClients
  <2>3. f.answer = "accepted"
    BY <1>2, <2>1
  <2>4. /\ client'[<<c, "first">>].chan = "signingOut"
        /\ client'[<<c, "first">>].answer = "accepted"
        /\ ClientSound(client'[<<c, "first">>])
    BY <1>1, <2>2, <2>3 DEF ClientSound, ClientStates, Releasing
  <2>5. Holder(c)' = <<c, "first">>
    BY <1>5, <2>2 DEF Holder
  <2>6. LifeCycle(call'[c], client'[<<c, "first">>], client'[<<c, "fallback">>])
    BY <1>1, <2>2, <2>3, <2>4 DEF LifeCycle
  <2>. QED
    BY <1>1, <2>2, <2>4, <2>5, <2>6 DEF CallInv, Releasing
<1>. QED
  BY <1>4, <1>5

(* The call that takes a step: one step per await of nebula_connect. *)
LEMMA ConnectStep ==
  ASSUME TypeOK, NEW c \in Calls, CallInv(c), CallNext(c)
  PROVE  CallInv(c)'
<1> DEFINE s == call[c]
           f == client[<<c, "first">>]
           g == client[<<c, "fallback">>]
<1>0. /\ s \in CallStates /\ f \in ClientStates /\ g \in ClientStates
      /\ LifeCycle(s, f, g) /\ ClientSound(f) /\ ClientSound(g)
      /\ c \in registry => s.phase = "registered"
  BY TwoClients DEF TypeOK, CallInv
<1>1. CASE StartConnect(c)
  <2>1. PICK m \in {"off", "on", "auto"}, l \in {"tls", "plain"} :
          call' = [call EXCEPT ![c] = [@ EXCEPT !.phase = "password", !.mode = m,
                                                !.listener = l]]
    BY <1>1 DEF StartConnect, Admit
  <2>2. /\ call'[c].phase = "password"
        /\ s.phase = "idle"
        /\ client' = client /\ registry' = registry
    BY <1>1, <2>1 DEF StartConnect, Admit, TypeOK, CallStates
  <2>. QED
    BY <1>0, <2>2 DEF CallInv, LifeCycle, NoClient
<1>2. CASE LimitReached(c) \/ PasswordMissing(c)
  <2>1. /\ call'[c].phase = "failed"
        /\ s.phase \in {"idle", "password"}
        /\ client' = client /\ registry' = registry
    BY <1>2 DEF LimitReached, PasswordMissing, TypeOK, CallStates
  <2>. QED
    BY <1>0, <2>1 DEF CallInv, LifeCycle, NoClient
<1>3. CASE OpenFirst(c)
  <2>1. /\ call'[c].phase = "first" /\ call'[c].aborted = s.aborted
        /\ s.phase = "password"
        /\ client'[<<c, "first">>] = Opened(c)
        /\ client'[<<c, "fallback">>] = g
        /\ registry' = registry
    BY <1>3, TwoClients DEF OpenFirst, TypeOK, CallStates
  <2>2. /\ Opened(c).chan = "open" /\ Opened(c).answer = Awaiting(s)
        /\ ClientSound(Opened(c))
    BY DEF Opened, NoClient, Awaiting, Releasing, ClientSound
  <2>3. LifeCycle(call'[c], client'[<<c, "first">>], client'[<<c, "fallback">>])
    BY <1>0, <2>1, <2>2 DEF LifeCycle, NoClient, Awaiting
  <2>. QED
    BY <1>0, <2>1, <2>2, <2>3 DEF CallInv
<1>4. CASE Abort(c)
  <2>1. /\ call'[c].phase = s.phase /\ call'[c].mode = s.mode /\ call'[c].aborted
        /\ call'[c].password = s.password
        /\ s.phase \in {"password", "first", "fallback"}
        /\ registry' = registry
    BY <1>4 DEF Abort, InFlight, TypeOK, CallStates
  <2>2. CASE s.phase = "password"
    <3>1. client' = client
      BY <1>4, <2>2 DEF Abort, Attempts
    <3>. QED
      BY <1>0, <2>1, <2>2, <3>1 DEF CallInv, LifeCycle
  <2>3. CASE s.phase = "first"
    <3>1. /\ client'[<<c, "first">>] = [f EXCEPT !.answer = "cancelled"]
          /\ client'[<<c, "fallback">>] = g
      BY <1>4, <2>3, TwoClients DEF Abort, Attempts, Current, TypeOK
    <3>. QED
      BY <1>0, <2>1, <2>3, <3>1 DEF CallInv, LifeCycle, ClientSound, ClientStates, Awaiting,
                                   Releasing, NoClient
  <2>4. CASE s.phase = "fallback"
    <3>1. /\ client'[<<c, "fallback">>] = [g EXCEPT !.answer = "cancelled"]
          /\ client'[<<c, "first">>] = f
      BY <1>4, <2>4, TwoClients DEF Abort, Attempts, Current, TypeOK
    <3>. QED
      BY <1>0, <2>1, <2>4, <3>1 DEF CallInv, LifeCycle, ClientSound, ClientStates, Awaiting,
                                   Releasing, NoClient
  <2>. QED
    BY <2>1, <2>2, <2>3, <2>4
<1>5. CASE SignedIn(c)
  <2>1. /\ call'[c].phase = "registered" /\ call'[c].mode = s.mode /\ ~call'[c].password
        /\ s.phase \in {"first", "fallback"}
        /\ client[Current(c)].answer = "none"
        /\ c \in registry'
    BY <1>5 DEF SignedIn, Answered, Attempts, TypeOK, CallStates
  <2>2. CASE s.phase = "first"
    <3>1. /\ client'[<<c, "first">>] = [f EXCEPT !.answer = "accepted"]
          /\ client'[<<c, "fallback">>] = g
          /\ f.answer = "none" /\ g = NoClient
      BY <1>0, <1>5, <2>1, <2>2, TwoClients DEF SignedIn, Current, TypeOK, LifeCycle
    <3>2. Holder(c)' = <<c, "first">>
      BY <3>1 DEF Holder, NoClient
    <3>. QED
      BY <1>0, <2>1, <2>2, <3>1, <3>2 DEF CallInv, LifeCycle, ClientSound, ClientStates, Awaiting,
                                         Releasing, NoClient
  <2>3. CASE s.phase = "fallback"
    <3>1. /\ client'[<<c, "fallback">>] = [g EXCEPT !.answer = "accepted"]
          /\ client'[<<c, "first">>] = f
          /\ g.answer = "none"
      BY <1>5, <2>1, <2>3, TwoClients DEF SignedIn, Current, TypeOK
    <3>2. Holder(c)' = <<c, "fallback">>
      BY <1>0, <3>1 DEF Holder, ClientStates
    <3>. QED
      BY <1>0, <2>1, <2>3, <3>1, <3>2 DEF CallInv, LifeCycle, ClientSound, ClientStates, Awaiting,
                                         Releasing, NoClient
  <2>. QED
    BY <2>1, <2>2, <2>3
<1>6. CASE SignInRefused(c) \/ GiveUp(c)
  <2>1. /\ call'[c].phase = "failed" /\ call'[c].mode = s.mode
        /\ s.phase \in {"first", "fallback"}
        /\ registry' = registry
    BY <1>6 DEF SignInRefused, GiveUp, Answered, Attempts, TypeOK, CallStates
  <2>2. PICK r \in {"refused", "transport"} :
          /\ client' = [client EXCEPT ![Current(c)] = [Closed(Current(c)) EXCEPT !.answer = r]]
          /\ r = "refused" => client[Current(c)].request = "refused"
    BY <1>6 DEF SignInRefused, GiveUp, Answered
  <2>3. CASE s.phase = "first"
    <3>1. Current(c) = <<c, "first">>
      BY <2>3 DEF Current
    <3>2. Closed(<<c, "first">>) = [f EXCEPT !.chan = "dropped"]
      BY <1>0, <2>3 DEF Closed, LifeCycle, Awaiting
    <3>3. /\ client'[<<c, "first">>] = [[f EXCEPT !.chan = "dropped"] EXCEPT !.answer = r]
          /\ client'[<<c, "fallback">>] = g
      BY <2>2, <3>1, <3>2, TwoClients DEF TypeOK
    <3>4. r = "refused" => f.request = "refused"
      BY <2>2, <3>1
    <3>5. /\ client'[<<c, "first">>].chan = "dropped"
          /\ client'[<<c, "first">>].answer = r
          /\ ClientSound(client'[<<c, "first">>])
      BY <1>0, <3>3, <3>4 DEF ClientSound, ClientStates, Releasing, NoClient
    <3>6. LifeCycle(call'[c], client'[<<c, "first">>], client'[<<c, "fallback">>])
      BY <1>0, <2>1, <2>3, <3>3, <3>5 DEF LifeCycle, NoClient, Awaiting
    <3>. QED
      BY <1>0, <2>1, <2>3, <3>3, <3>5, <3>6 DEF CallInv
  <2>4. CASE s.phase = "fallback"
    <3>1. Current(c) = <<c, "fallback">>
      BY <2>4 DEF Current
    <3>2. Closed(<<c, "fallback">>) = [g EXCEPT !.chan = "dropped"]
      BY <1>0, <2>4 DEF Closed, LifeCycle, Awaiting
    <3>3. /\ client'[<<c, "fallback">>] = [[g EXCEPT !.chan = "dropped"] EXCEPT !.answer = r]
          /\ client'[<<c, "first">>] = f
      BY <2>2, <3>1, <3>2, TwoClients DEF TypeOK
    <3>4. r = "refused" => g.request = "refused"
      BY <2>2, <3>1
    <3>5. /\ client'[<<c, "fallback">>].chan = "dropped"
          /\ client'[<<c, "fallback">>].answer = r
          /\ ClientSound(client'[<<c, "fallback">>])
      BY <1>0, <3>3, <3>4 DEF ClientSound, ClientStates, Releasing, NoClient
    <3>6. LifeCycle(call'[c], client'[<<c, "first">>], client'[<<c, "fallback">>])
      BY <1>0, <2>1, <2>4, <3>3, <3>5 DEF LifeCycle, NoClient, Awaiting
    <3>. QED
      BY <1>0, <2>1, <2>4, <3>3, <3>5, <3>6 DEF CallInv
  <2>. QED
    BY <2>1, <2>3, <2>4
<1>7. CASE FallBack(c)
  <2>1. /\ call'[c].phase = "fallback" /\ call'[c].mode = "auto"
        /\ call'[c].aborted = s.aborted
        /\ s.phase = "first"
        /\ client'[<<c, "first">>] = [f EXCEPT !.answer = "transport"]
        /\ client'[<<c, "fallback">>] = Opened(c)
        /\ registry' = registry
    BY <1>7, TwoClients DEF FallBack, TypeOK, CallStates
  <2>2. /\ Opened(c).chan = "open" /\ Opened(c).answer = Awaiting(s)
        /\ ClientSound(Opened(c))
    BY DEF Opened, NoClient, Awaiting, Releasing, ClientSound
  <2>. QED
    BY <1>0, <2>1, <2>2 DEF CallInv, LifeCycle, ClientSound, ClientStates, Awaiting, Releasing,
                            NoClient
<1>8. CASE Disconnect(c)
  <2>1. /\ call'[c] = call[c] /\ c \in registry /\ c \notin registry'
        /\ client'[Holder(c)] = Closed(Holder(c))
        /\ \A k \in Clients : k # Holder(c) => client'[k] = client[k]
    BY <1>8, HolderType DEF Disconnect, TypeOK
  <2>. QED
    BY <2>1, HeldClosed
<1>. QED
  BY <1>1, <1>2, <1>3, <1>4, <1>5, <1>6, <1>7, <1>8 DEF CallNext

(* A step of the server or of a sign-out: nothing the call waits for.      *)
LEMMA ClientStep ==
  ASSUME TypeOK, LifeInv, NEW k \in Clients, ClientNext(k), NEW c \in Calls
  PROVE  CallInv(c)'
<1> DEFINE x == client[k]
           y == client'[k]
<1>1. /\ call' = call /\ registry' = registry
      /\ \A j \in Clients : j # k => client'[j] = client[j]
  BY DEF ClientNext, SignOutSettled, ServerAccepts, ServerRefuses, ServerEndsSession, TypeOK
<1>2. PICK d \in Calls : k = <<d, "first">> \/ k = <<d, "fallback">>
  BY DEF Clients, Attempts
<1>3. CallInv(d) /\ CallInv(c)
  BY DEF LifeInv
<1>4. x \in ClientStates /\ ClientSound(x)
  BY <1>2, <1>3 DEF TypeOK, CallInv
<1>5. /\ y.answer = x.answer
      /\ y.chan = x.chan \/ {x.chan, y.chan} \subseteq Releasing
      /\ ClientSound(y)
      /\ x # NoClient
  <2>1. CASE SignOutSettled(k)
    <3>1. y = [x EXCEPT !.chan = "signedOut"] /\ x.chan = "signingOut"
      BY <2>1 DEF SignOutSettled, TypeOK
    <3>. QED
      BY <1>4, <3>1 DEF ClientSound, ClientStates, Releasing, NoClient
  <2>2. CASE ServerAccepts(k)
    <3>1. y = [[x EXCEPT !.request = "accepted"] EXCEPT !.session = "live"]
          /\ x.request = "pending"
      BY <2>2 DEF ServerAccepts, TypeOK, ClientStates
    <3>. QED
      BY <1>4, <3>1 DEF ClientSound, ClientStates, Releasing, NoClient
  <2>3. CASE ServerRefuses(k)
    <3>1. y = [x EXCEPT !.request = "refused"] /\ x.request = "pending"
      BY <2>3 DEF ServerRefuses, TypeOK
    <3>2. x.session # "live" /\ x.chan # "none"
      BY <1>4, <3>1 DEF ClientSound, NoClient
    <3>. QED
      BY <1>4, <3>1, <3>2 DEF ClientSound, ClientStates, NoClient
  <2>4. CASE ServerEndsSession(k)
    <3>1. y = [x EXCEPT !.session = "ended"] /\ x.session = "live"
      BY <2>4 DEF ServerEndsSession, TypeOK
    <3>. QED
      BY <1>4, <3>1 DEF ClientSound, ClientStates, Releasing, NoClient
  <2>. QED
    BY <2>1, <2>2, <2>3, <2>4 DEF ClientNext
<1>6. CASE c # d
  <2>1. \A a \in Attempts : <<c, a>> \in Clients /\ <<c, a>> # k
    BY <1>2, <1>6 DEF Clients
  <2>2. /\ client'[<<c, "first">>] = client[<<c, "first">>]
        /\ client'[<<c, "fallback">>] = client[<<c, "fallback">>]
    BY <1>1, <2>1 DEF Attempts
  <2>. QED
    BY <1>1, <1>3, <2>2, Frame
<1>7. CASE c = d
  <2>1. \A j \in {<<c, "first">>, <<c, "fallback">>} :
          /\ client'[j].answer = client[j].answer
          /\ client'[j].chan = client[j].chan
             \/ {client[j].chan, client'[j].chan} \subseteq Releasing
          /\ ClientSound(client'[j])
          /\ client'[j] = client[j] \/ client[j] # NoClient
    BY <1>1, <1>2, <1>3, <1>5, <1>7, TwoClients DEF CallInv
  <2>2. Holder(c)' = Holder(c) /\ Holder(c) \in {<<c, "first">>, <<c, "fallback">>}
    BY <2>1 DEF Holder
  <2>3. LifeCycle(call'[c], client'[<<c, "first">>], client'[<<c, "fallback">>])
    BY <1>1, <1>3, <2>1 DEF CallInv, LifeCycle, Releasing
  <2>. QED
    BY <1>1, <1>3, <2>1, <2>2, <2>3 DEF CallInv, Releasing
<1>. QED
  BY <1>6, <1>7

(* Plugin unload: what is registered is closed, and nothing else changes. *)
LEMMA DisposeStep ==
  ASSUME TypeOK, LifeInv, Dispose, NEW c \in Calls
  PROVE  CallInv(c)'
<1>1. /\ CallInv(c)
      /\ call'[c] = call[c]
      /\ registry' = {}
  BY DEF LifeInv, Dispose
<1>2. \A d \in Calls : Holder(d)[1] = d /\ Holder(d) \in Clients
  BY TwoClients DEF Holder
<1>3. \A k \in Clients :
        client'[k] = IF k[1] \in registry /\ k = Holder(k[1]) THEN Closed(k) ELSE client[k]
  <2>1. \A k \in Clients : (\E d \in registry : k = Holder(d))
                             <=> (k[1] \in registry /\ k = Holder(k[1]))
    BY <1>2 DEF TypeOK
  <2>. QED
    BY <2>1 DEF Dispose
<1>4. CASE c \in registry
  <2>1. client'[Holder(c)] = Closed(Holder(c))
    BY <1>2, <1>3, <1>4
  <2>2. \A k \in Clients : (k[1] = c /\ k # Holder(c)) => client'[k] = client[k]
    BY <1>3
  <2>. QED
    BY <1>1, <1>4, <2>1, <2>2, HeldClosed
<1>5. CASE c \notin registry
  BY <1>1, <1>3, <1>5, TwoClients, Frame
<1>. QED
  BY <1>4, <1>5

LEMMA LifeInit == Init => LifeInv
<1> SUFFICES ASSUME Init, NEW c \in Calls PROVE CallInv(c)
  BY DEF LifeInv
<1>1. /\ client[<<c, "first">>] = NoClient /\ client[<<c, "fallback">>] = NoClient
      /\ call[c].phase = "idle" /\ c \notin registry
  BY TwoClients DEF Init
<1>. QED
  BY <1>1 DEF CallInv, LifeCycle, ClientSound, NoClient, Releasing

LEMMA LifeStep ==
  ASSUME TypeOK, LifeInv, [Next]_vars
  PROVE  LifeInv'
<1> SUFFICES ASSUME NEW c \in Calls PROVE CallInv(c)'
  BY DEF LifeInv
<1>0. CallInv(c)
  BY DEF LifeInv
<1>1. ASSUME NEW d \in Calls, CallNext(d) PROVE CallInv(c)'
  <2>1. CASE c = d
    BY <1>0, <1>1, <2>1, ConnectStep
  <2>2. CASE c # d
    BY <1>0, <1>1, <2>2, OthersKept, Frame
  <2>. QED
    BY <2>1, <2>2
<1>2. ASSUME NEW k \in Clients, ClientNext(k) PROVE CallInv(c)'
  BY <1>2, ClientStep
<1>3. CASE Dispose
  BY <1>3, DisposeStep
<1>4. CASE DisposeSettled \/ UNCHANGED vars
  BY <1>0, <1>4, Frame DEF DisposeSettled, vars
<1>. QED
  BY <1>1, <1>2, <1>3, <1>4 DEF Next

(* Every call, in every reachable state, is in one of the shapes LifeInv   *)
(* lists.                                                                  *)
THEOREM LifeInvariant == Spec => []LifeInv
<1>1. Spec => []TypeOK
  BY TypeCorrect
<1>2. TypeOK /\ LifeInv /\ [Next]_vars => LifeInv'
  BY LifeStep
<1>. QED
  BY <1>1, <1>2, LifeInit, PTL DEF Spec

(* What LifeInv says of the two clients of one call, as the safety         *)
(* theorems use it.                                                        *)
LEMMA LifeFacts ==
  ASSUME TypeOK, LifeInv, NEW c \in Calls
  PROVE  /\ LifeCycle(call[c], client[<<c, "first">>], client[<<c, "fallback">>])
         /\ ClientSound(client[<<c, "first">>]) /\ ClientSound(client[<<c, "fallback">>])
         /\ c \in registry => /\ call[c].phase = "registered"
                              /\ client[Holder(c)].chan = "open"
                              /\ client[Holder(c)].answer = "accepted"
         /\ (call[c].phase = "registered" /\ c \notin registry)
              => client[Holder(c)].chan \in Releasing
         /\ call[c].phase \in Phases
BY TwoClients DEF LifeInv, CallInv, LifeCycle, Holder, TypeOK, CallStates

(* No interleaving of connects, disconnects, answers and unload leaves an  *)
(* entry in the registry that is closed, not signed in or still holds its  *)
(* password (nebula_connect, NebulaClient.connect, authenticate).          *)
THEOREM EntriesSound == Spec => []RegisteredEntrySound
<1>1. TypeOK /\ LifeInv => RegisteredEntrySound
  <2> SUFFICES ASSUME TypeOK, LifeInv, NEW c \in registry
               PROVE /\ call[c].phase = "registered"
                     /\ ~call[c].password
                     /\ client[Holder(c)].chan = "open"
                     /\ client[Holder(c)].answer = "accepted"
                     /\ \A k \in Clients : (k[1] = c /\ k # Holder(c))
                                           => client[k].answer \in {"none", "transport"}
    BY DEF RegisteredEntrySound
  <2>1. c \in Calls
    BY DEF TypeOK
  <2>2. /\ call[c].phase = "registered"
        /\ ~call[c].password
        /\ client[Holder(c)].chan = "open"
        /\ client[Holder(c)].answer = "accepted"
    BY <2>1, LifeFacts DEF LifeCycle
  <2>3. ASSUME NEW k \in Clients, k[1] = c, k # Holder(c)
        PROVE  client[k].answer \in {"none", "transport"}
    <3>1. CASE Holder(c) = <<c, "fallback">>
      <4>1. client[<<c, "fallback">>].chan # "none"
        BY <2>2, <3>1
      <4>2. k = <<c, "first">>
        BY <2>1, <2>3, <3>1, TwoClients
      <4>. QED
        BY <2>1, <4>1, <4>2, LifeFacts DEF LifeCycle
    <3>2. CASE Holder(c) = <<c, "first">>
      <4>1. client[<<c, "fallback">>].chan = "none"
        BY <2>1, <2>2, <3>2, LifeFacts DEF LifeCycle
      <4>2. client[<<c, "fallback">>] = NoClient
        BY <2>1, <4>1, LifeFacts DEF ClientSound
      <4>3. k = <<c, "fallback">>
        BY <2>1, <2>3, <3>2, TwoClients
      <4>. QED
        BY <4>2, <4>3 DEF NoClient
    <3>. QED
      BY <3>1, <3>2 DEF Holder
  <2>. QED
    BY <2>2, <2>3
<1>. QED
  BY <1>1, TypeCorrect, LifeInvariant, PTL

(* The plaintext client exists only behind a failed TLS attempt of an auto *)
(* connect, whatever the server answers (NebulaClient.connect).            *)
THEOREM FallbackAlwaysJustified == Spec => []FallbackJustified
<1>1. TypeOK /\ LifeInv => FallbackJustified
  BY LifeFacts DEF FallbackJustified, LifeCycle
<1>. QED
  BY <1>1, TypeCorrect, LifeInvariant, PTL

(* Every open channel is a registered entry's, a call's in flight, or the  *)
(* one NebulaClient.connect abandons on fallback.                          *)
THEOREM NoChannelLost == Spec => []ChannelsAccounted
<1>1. TypeOK /\ LifeInv => ChannelsAccounted
  <2> SUFFICES ASSUME TypeOK, LifeInv, NEW k \in Clients, client[k].chan = "open"
               PROVE \/ k[1] \in registry /\ k = Holder(k[1])
                     \/ k[1] \in InFlight
                     \/ Abandoned(k)
    BY DEF ChannelsAccounted
  <2>1. PICK c \in Calls : k = <<c, "first">> \/ k = <<c, "fallback">>
    BY DEF Clients, Attempts
  <2>2. k[1] = c /\ (k[2] = "first" <=> k = <<c, "first">>)
    BY <2>1
  <2>3. CASE call[c].phase \in {"password", "first", "fallback"}
    BY <2>2, <2>3 DEF InFlight
  <2>4. CASE call[c].phase \in {"idle", "failed"}
    <3>1. LifeCycle(call[c], client[<<c, "first">>], client[<<c, "fallback">>])
      BY LifeFacts
    <3>2. client[<<c, "fallback">>].chan # "open"
      BY <2>4, <3>1 DEF LifeCycle, NoClient
    <3>3. k = <<c, "first">>
      BY <2>1, <3>2
    <3>4. client[<<c, "fallback">>].chan # "none"
      BY <2>4, <3>1, <3>3 DEF LifeCycle, NoClient
    <3>. QED
      BY <2>2, <3>3, <3>4 DEF Abandoned
  <2>5. CASE call[c].phase = "registered"
    <3>1. CASE k = Holder(c)
      BY <2>2, <2>5, <3>1, LifeFacts DEF Releasing
    <3>2. CASE k # Holder(c)
      <4>1. CASE k = <<c, "first">>
        <5>1. client[<<c, "fallback">>].answer = "accepted"
          BY <3>2, <4>1 DEF Holder
        <5>2. client[<<c, "fallback">>].chan # "none"
          BY <5>1, LifeFacts DEF ClientSound, Releasing
        <5>. QED
          BY <2>2, <4>1, <5>2 DEF Abandoned
      <4>2. CASE k = <<c, "fallback">>
        <5>1. client[<<c, "first">>].answer = "transport"
          BY <4>2, LifeFacts DEF LifeCycle
        <5>2. client[<<c, "fallback">>].answer = "accepted"
          BY <2>5, <5>1, LifeFacts DEF LifeCycle
        <5>. QED
          BY <3>2, <4>2, <5>2 DEF Holder
      <4>. QED
        BY <2>1, <4>1, <4>2
    <3>. QED
      BY <3>1, <3>2
  <2>. QED
    BY <2>3, <2>4, <2>5, LifeFacts DEF Phases
<1>. QED
  BY <1>1, TypeCorrect, LifeInvariant, PTL

(* A live server session is a registered entry's, one whose sign-in is     *)
(* still awaited or was never seen answered, or one asked to close.        *)
THEOREM NoSessionForgotten == Spec => []SessionsAccounted
<1>1. TypeOK /\ LifeInv => SessionsAccounted
  <2> SUFFICES ASSUME TypeOK, LifeInv, NEW k \in Clients, client[k].session = "live",
                      client[k].answer \notin {"none", "cancelled", "transport"},
                      client[k].chan \notin {"signingOut", "signedOut"}
               PROVE k[1] \in registry /\ k = Holder(k[1])
    BY DEF SessionsAccounted
  <2>1. PICK c \in Calls : k = <<c, "first">> \/ k = <<c, "fallback">>
    BY DEF Clients, Attempts
  <2>2. k[1] = c /\ client[k] \in ClientStates /\ ClientSound(client[k])
    <3>1. ClientSound(client[<<c, "first">>]) /\ ClientSound(client[<<c, "fallback">>])
      BY LifeFacts
    <3>. QED
      BY <2>1, <3>1 DEF TypeOK
  <2>3. client[k].answer = "accepted" /\ client[k].chan = "open"
    BY <2>2 DEF ClientStates, ClientSound, Releasing
  <2>4. k = Holder(c)
    <3>1. CASE k = <<c, "first">>
      <4>1. client[<<c, "fallback">>].chan = "none"
        BY <2>3, <3>1, LifeFacts DEF LifeCycle
      <4>. QED
        BY <3>1, <4>1, LifeFacts DEF ClientSound, Holder, NoClient
    <3>2. CASE k = <<c, "fallback">>
      BY <2>3, <3>2 DEF Holder
    <3>. QED
      BY <2>1, <3>1, <3>2
  <2>5. call[c].phase = "registered"
    BY <2>1, <2>3, LifeFacts DEF LifeCycle, Awaiting, NoClient, Phases
  <2>. QED
    BY <2>2, <2>3, <2>4, <2>5, LifeFacts DEF Releasing
<1>. QED
  BY <1>1, TypeCorrect, LifeInvariant, PTL

(* A call the host gave up before its sign-in was answered never enters    *)
(* the registry (callWithTimeout, nebula_connect).                         *)
THEOREM AbortsHonoured == Spec => AbortHonoured
<1>1. TypeOK /\ LifeInv /\ [Next]_vars
        => [\A c \in registry' \ registry : ~call[c].aborted]_vars
  <2> SUFFICES ASSUME TypeOK, LifeInv, Next, NEW c \in registry', c \notin registry
               PROVE ~call[c].aborted
    BY DEF vars
  <2>1. PICK d \in Calls : SignedIn(d) /\ c = d
    <3>1. ASSUME NEW d \in Calls, CallNext(d), ~SignedIn(d) PROVE registry' \subseteq registry
      BY <3>1 DEF CallNext, StartConnect, Admit, LimitReached, PasswordMissing, OpenFirst, Abort,
                  SignInRefused, FallBack, GiveUp, Disconnect
    <3>2. ASSUME NEW k \in Clients, ClientNext(k) PROVE registry' = registry
      BY <3>2 DEF ClientNext, SignOutSettled, ServerAccepts, ServerRefuses, ServerEndsSession
    <3>3. ASSUME NEW d \in Calls, SignedIn(d) PROVE registry' = registry \cup {d}
      BY <3>3 DEF SignedIn
    <3>. QED
      BY <3>1, <3>2, <3>3 DEF Next, Dispose, DisposeSettled
  <2>2. call[c].phase \in Attempts /\ client[<<c, call[c].phase>>].answer = "none"
    BY <2>1 DEF SignedIn, Answered, Current
  <2>3. c \in Calls /\ LifeCycle(call[c], client[<<c, "first">>], client[<<c, "fallback">>])
    BY <2>1, LifeFacts
  <2>4. CASE call[c].phase = "first"
    BY <2>2, <2>3, <2>4 DEF LifeCycle, Awaiting
  <2>5. CASE call[c].phase = "fallback"
    BY <2>2, <2>3, <2>5 DEF LifeCycle, Awaiting
  <2>. QED
    BY <2>2, <2>4, <2>5 DEF Attempts
<1>. QED
  BY <1>1, TypeCorrect, LifeInvariant, PTL DEF AbortHonoured, Spec

(* Lease's Cardinality is a copy that INSTANCE makes of the library's own. *)
LEMMA SameCardinality == \A S : Lease!Cardinality(S) = Cardinality(S)
BY DEF Lease!Cardinality, Cardinality

(* The leased handles are the registered calls. *)
LEMMA LeasedIsRegistry ==
  ASSUME TypeOK
  PROVE  Lease!Leased = registry
<1>1. \A c \in Calls : lease[c] = "held" <=> c \in registry
  BY DEF lease
<1>. QED
  BY <1>1 DEF Lease!Leased, TypeOK

(* A step that changes the lease of one call alone. *)
LEMMA LeaseChange ==
  ASSUME NEW c \in Calls, NEW v, lease'[c] = v, \A d \in Calls : d # c => lease'[d] = lease[d]
  PROVE  lease' = [lease EXCEPT ![c] = v]
<1>1. lease = [d \in Calls |-> lease[d]] /\ lease' = [d \in Calls |-> lease'[d]]
  BY DEF lease
<1> DEFINE before == lease
           after == lease'
<1>2. before = [d \in Calls |-> before[d]] /\ after = [d \in Calls |-> after[d]]
  BY <1>1
<1>3. after[c] = v /\ \A d \in Calls : d # c => after[d] = before[d]
  OBVIOUS
<1> HIDE DEF before, after
<1>4. after = [before EXCEPT ![c] = v]
  BY <1>2, <1>3
<1>. QED
  BY <1>4 DEF before, after

(* A call that keeps its phase and registration keeps its lease. *)
LEMMA LeaseKept ==
  ASSUME NEW d \in Calls, call'[d] = call[d], d \in registry' <=> d \in registry
  PROVE  lease'[d] = lease[d]
BY DEF lease

(* The registry implements the lease promise: a handle is leased once,     *)
(* never works again after disconnect or unload, and at most Overshoot     *)
(* handles are out (ConnectionRegistry with nebula_connect/disconnect).    *)
THEOREM RegistryImplementsLease == Spec => ImplementsLease
<1>1. Init => Lease!LeaseInit
  BY DEF Init, Lease!LeaseInit, lease
<1>2. TypeOK /\ LifeInv /\ CapInv /\ TypeOK' /\ [Next]_vars => [Lease!LeaseNext]_lease
  <2> SUFFICES ASSUME TypeOK, LifeInv, CapInv, TypeOK', [Next]_vars
               PROVE  Lease!LeaseNext \/ lease' = lease
    OBVIOUS
  <2>1. ASSUME NEW c \in Calls, CallNext(c) PROVE Lease!LeaseNext \/ lease' = lease
    <3>2. /\ c \in registry => call[c].phase = "registered"
          /\ \A d \in Calls : d # c => lease'[d] = lease[d]
      <4>1. c \in registry => call[c].phase = "registered"
        BY LifeFacts
      <4>2. ASSUME NEW d \in Calls, d # c PROVE lease'[d] = lease[d]
        BY <2>1, <4>2, OthersKept, LeaseKept
      <4>. QED
        BY <4>1, <4>2
    <3>3. CASE StartConnect(c) \/ OpenFirst(c) \/ Abort(c) \/ FallBack(c)
      <4>1. /\ call[c].phase \notin {"registered", "failed"}
            /\ call'[c].phase \notin {"registered", "failed"}
            /\ registry' = registry
        <5>1. CASE StartConnect(c)
          <6>1. PICK m \in {"off", "on", "auto"}, l \in {"tls", "plain"} :
                  call' = [call EXCEPT ![c] = [@ EXCEPT !.phase = "password", !.mode = m,
                                                        !.listener = l]]
            BY <5>1 DEF StartConnect, Admit
          <6>. QED
            BY <5>1, <6>1 DEF StartConnect, Admit, TypeOK, CallStates
        <5>2. CASE OpenFirst(c)
          BY <5>2 DEF OpenFirst, TypeOK, CallStates
        <5>4. CASE FallBack(c)
          BY <5>4 DEF FallBack, TypeOK, CallStates
        <5>3. CASE Abort(c)
          BY <5>3 DEF Abort, InFlight, TypeOK, CallStates
        <5>. QED
          BY <3>3, <5>1, <5>2, <5>3, <5>4
      <4>2. c \notin registry
        BY <3>2, <4>1
      <4>3. lease[c] = "asked" /\ lease'[c] = "asked"
        BY <4>1, <4>2 DEF lease
      <4>4. \A d \in Calls : lease'[d] = lease[d]
        BY <3>2, <4>3
      <4>5. lease = [d \in Calls |-> lease[d]] /\ lease' = [d \in Calls |-> lease'[d]]
        BY DEF lease
      <4>. QED
        BY <4>4, <4>5
    <3>4. CASE LimitReached(c) \/ PasswordMissing(c) \/ SignInRefused(c) \/ GiveUp(c)
      <4>1. /\ call[c].phase \notin {"registered", "failed"}
            /\ call'[c].phase = "failed"
            /\ registry' = registry
        BY <3>4 DEF LimitReached, PasswordMissing, SignInRefused, GiveUp, Answered, Attempts,
                    TypeOK, CallStates
      <4>2. lease[c] = "asked"
        BY <3>2, <4>1 DEF lease
      <4>3. lease'[c] = "refused"
        BY <3>2, <4>1 DEF lease
      <4>4. lease' = [lease EXCEPT ![c] = "refused"]
        BY <3>2, <4>3, LeaseChange
      <4>. QED
        BY <4>2, <4>4 DEF Lease!LeaseNext, Lease!Refuse
    <3>5. CASE SignedIn(c)
      <4>1. /\ call[c].phase \in {"first", "fallback"}
            /\ registry' = registry \cup {c}
        BY <3>5 DEF SignedIn, Answered, Attempts
      <4>2. lease[c] = "asked" /\ c \notin registry
        BY <3>2, <4>1 DEF lease
      <4>3. lease'[c] = "held"
        BY <4>1 DEF lease
      <4>4. lease' = [lease EXCEPT ![c] = "held"]
        BY <3>2, <4>3, LeaseChange
      <4>5. Cardinality(Lease!Leased) < Overshoot
        <5>1. c \in InFlight /\ registry \cup InFlight \in SUBSET Calls /\ registry \in SUBSET Calls
          BY <4>1 DEF InFlight, TypeOK
        <5>2. IsFiniteSet(registry \cup InFlight) /\ registry \subseteq registry \cup InFlight
          BY <5>1, SubsetOfCalls
        <5>3. Cardinality(registry) < Cardinality(registry \cup InFlight)
          <6>1. registry # registry \cup InFlight
            BY <4>2, <5>1
          <6>. QED
            BY <5>1, <5>2, <6>1, SubsetOfCalls, FS_Subset
        <5>4. Cardinality(registry) \in Nat /\ Cardinality(registry \cup InFlight) \in Nat
              /\ Overshoot \in Int
          BY <5>1, SubsetOfCalls, LimitsAssumption DEF Overshoot
        <5>. QED
          BY <5>3, <5>4, LeasedIsRegistry DEF CapInv
      <4>. QED
        <5>1. Lease!Grant(c)
          BY <4>2, <4>4, <4>5, SameCardinality DEF Lease!Grant
        <5>. QED
          BY <5>1 DEF Lease!LeaseNext
    <3>6. CASE Disconnect(c)
      <4>1. /\ c \in registry
            /\ call' = call
            /\ registry' = registry \ {c}
        BY <3>6 DEF Disconnect
      <4>2. \A d \in Calls : lease'[d] = IF d \in {c} THEN "returned" ELSE lease[d]
        BY <3>2, <4>1 DEF lease
      <4>4. lease' = [d \in Calls |-> IF d \in {c} THEN "returned" ELSE lease[d]]
        <5>1. lease' = [d \in Calls |-> lease'[d]]
          BY DEF lease
        <5>. QED
          BY <4>2, <5>1
      <4>3. {c} \subseteq Lease!Leased
        BY <4>1, LeasedIsRegistry
      <4>. QED
        BY <4>3, <4>4 DEF Lease!LeaseNext, Lease!Return
    <3>. QED
      BY <2>1, <3>3, <3>4, <3>5, <3>6 DEF CallNext
  <2>2. ASSUME NEW k \in Clients, ClientNext(k) PROVE lease' = lease
    BY <2>2 DEF ClientNext, SignOutSettled, ServerAccepts, ServerRefuses, ServerEndsSession, lease
  <2>3. CASE Dispose
    <3>1. registry' = {} /\ call' = call /\ registry \subseteq Calls
      BY <2>3 DEF Dispose, TypeOK
    <3>2. \A c \in registry : call[c].phase = "registered"
      BY <3>1, LifeFacts
    <3>3. lease' = [d \in Calls |-> IF d \in registry THEN "returned" ELSE lease[d]]
      BY <3>1, <3>2 DEF lease
    <3>. QED
      BY <3>1, <3>3, LeasedIsRegistry DEF Lease!LeaseNext, Lease!Return
  <2>4. CASE DisposeSettled \/ UNCHANGED vars
    BY <2>4 DEF DisposeSettled, vars, lease
  <2>. QED
    BY <2>1, <2>2, <2>3, <2>4 DEF Next
<1>. QED
  BY <1>1, <1>2, TypeCorrect, LifeInvariant, CapInvariant, PTL
  DEF Spec, ImplementsLease, Lease!LeaseSpec

(***************************************************************************)
(* Progress, as far as it is a matter of single steps.  That a connect     *)
(* call and an unload end is liveness, which the runs check; what their    *)
(* argument rests on is proved here: every step of a call or of a channel  *)
(* takes it further along a fixed order, and an unload waits for nothing   *)
(* but sign-outs, which settle by their own deadline.                      *)
(***************************************************************************)
CallStage == [ p \in Phases |->
  CASE p = "idle" -> 0 [] p = "password" -> 1 [] p = "first" -> 2 [] p = "fallback" -> 3
    [] OTHER -> 4 ]

ChanStage == [ h \in {"none", "open", "signingOut", "signedOut", "dropped"} |->
  CASE h = "none" -> 0 [] h = "open" -> 1 [] h = "signingOut" -> 2 [] OTHER -> 3 ]

(* No await of a connect call is entered twice and no ended call resumes;  *)
(* no channel, once closed or being closed, is opened or signed out again. *)
CallsMoveOn == \A c \in Calls :
  call'[c].phase # call[c].phase => CallStage[call'[c].phase] > CallStage[call[c].phase]

ChannelsMoveOn == \A k \in Clients :
  client'[k].chan # client[k].chan => ChanStage[client'[k].chan] > ChanStage[client[k].chan]

OnlyForward == [][CallsMoveOn /\ ChannelsMoveOn]_vars

(* What a step of one call does to its phase. *)
LEMMA CallMoves ==
  ASSUME TypeOK, NEW c \in Calls, CallNext(c)
  PROVE  CallsMoveOn
<1>1. call'[c].phase # call[c].phase => CallStage[call'[c].phase] > CallStage[call[c].phase]
  <2> USE DEF CallStage, Phases
  <2>1. CASE StartConnect(c)
    <3>1. PICK m \in {"off", "on", "auto"}, l \in {"tls", "plain"} :
            call' = [call EXCEPT ![c] = [@ EXCEPT !.phase = "password", !.mode = m,
                                                  !.listener = l]]
      BY <2>1 DEF StartConnect, Admit
    <3>2. call'[c].phase = "password" /\ call[c].phase = "idle"
      BY <2>1, <3>1 DEF StartConnect, Admit, TypeOK, CallStates
    <3>. QED
      BY <3>2
  <2>2. CASE LimitReached(c) \/ PasswordMissing(c)
    <3>1. call'[c].phase = "failed" /\ call[c].phase \in {"idle", "password"}
      BY <2>2 DEF LimitReached, PasswordMissing, TypeOK, CallStates
    <3>. QED
      BY <3>1
  <2>3. CASE OpenFirst(c)
    <3>1. call'[c].phase = "first" /\ call[c].phase = "password"
      BY <2>3 DEF OpenFirst, TypeOK, CallStates
    <3>. QED
      BY <3>1
  <2>4. CASE Abort(c) \/ Disconnect(c)
    <3>1. call'[c].phase = call[c].phase
      BY <2>4 DEF Abort, Disconnect, TypeOK, CallStates
    <3>. QED
      BY <3>1
  <2>5. CASE SignedIn(c) \/ SignInRefused(c) \/ GiveUp(c)
    <3>1. /\ call'[c].phase \in {"registered", "failed"}
          /\ call[c].phase \in {"first", "fallback"}
      BY <2>5 DEF SignedIn, SignInRefused, GiveUp, Answered, Attempts, TypeOK, CallStates
    <3>. QED
      BY <3>1
  <2>6. CASE FallBack(c)
    <3>1. call'[c].phase = "fallback" /\ call[c].phase = "first"
      BY <2>6 DEF FallBack, TypeOK, CallStates
    <3>. QED
      BY <3>1
  <2>. QED
    BY <2>1, <2>2, <2>3, <2>4, <2>5, <2>6 DEF CallNext
<1>2. \A d \in Calls : d # c => call'[d] = call[d]
  BY OthersKept
<1>. QED
  BY <1>1, <1>2 DEF CallsMoveOn

(* close() never takes a channel back. *)
LEMMA ClosedMoves ==
  ASSUME TypeOK, NEW k \in Clients
  PROVE  Closed(k).chan # client[k].chan => ChanStage[Closed(k).chan] > ChanStage[client[k].chan]
<1>1. CASE client[k].chan # "open"
  BY <1>1 DEF Closed
<1>2. CASE client[k].chan = "open"
  <2>1. Closed(k).chan \in {"signingOut", "dropped"}
    BY <1>2 DEF Closed, TypeOK, ClientStates
  <2>. QED
    BY <1>2, <2>1 DEF ChanStage
<1>. QED
  BY <1>1, <1>2

(* What a step of one call does to its two channels. *)
LEMMA ChannelMoves ==
  ASSUME TypeOK, LifeInv, NEW c \in Calls, CallNext(c)
  PROVE  ChannelsMoveOn
<1> SUFFICES ASSUME NEW k \in Clients, client'[k].chan # client[k].chan
             PROVE  ChanStage[client'[k].chan] > ChanStage[client[k].chan]
  BY DEF ChannelsMoveOn
<1>1. k = <<c, "first">> \/ k = <<c, "fallback">>
  <2>1. PICK d \in Calls : k = <<d, "first">> \/ k = <<d, "fallback">>
    BY DEF Clients, Attempts
  <2>. QED
    BY <2>1, OthersKept
<1>2. CASE StartConnect(c) \/ LimitReached(c) \/ PasswordMissing(c)
  BY <1>2 DEF StartConnect, Admit, LimitReached, PasswordMissing
<1>3. CASE OpenFirst(c) \/ FallBack(c)
  <2>1. Opened(c).chan = "open"
    BY DEF Opened, NoClient
  <2>2. client[k].chan = "none" /\ client'[k].chan = "open"
    <3>1. CASE OpenFirst(c)
      <4>1. client[<<c, "first">>] = NoClient
        BY <3>1, LifeFacts DEF OpenFirst, LifeCycle
      <4>. QED
        BY <2>1, <3>1, <4>1, TwoClients DEF OpenFirst, TypeOK, NoClient
    <3>2. CASE FallBack(c)
      <4>1. client[<<c, "fallback">>] = NoClient
        BY <3>2, LifeFacts DEF FallBack, LifeCycle
      <4>2. /\ client'[<<c, "first">>] = [client[<<c, "first">>] EXCEPT !.answer = "transport"]
            /\ client'[<<c, "fallback">>] = Opened(c)
        BY <3>2, TwoClients DEF FallBack, TypeOK
      <4>3. client'[<<c, "first">>].chan = client[<<c, "first">>].chan
        BY <4>2, TwoClients DEF TypeOK, ClientStates
      <4>4. k # <<c, "first">>
        BY <4>3
      <4>5. k = <<c, "fallback">>
        BY <1>1, <4>4
      <4>6. NoClient.chan = "none"
        BY DEF NoClient
      <4>. QED
        BY <2>1, <4>1, <4>2, <4>5, <4>6
    <3>. QED
      BY <1>3, <3>1, <3>2
  <2>. QED
    BY <2>2 DEF ChanStage
<1>4. CASE Abort(c) \/ SignedIn(c)
  <2>1. client' = client \/ \E a \in {"cancelled", "accepted"} :
                              client' = [client EXCEPT ![Current(c)].answer = a]
    BY <1>4 DEF Abort, SignedIn
  <2>. QED
    BY <2>1 DEF TypeOK, ClientStates
<1>5. CASE SignInRefused(c) \/ GiveUp(c)
  <2>1. PICK a \in {"refused", "transport"} :
          client' = [client EXCEPT ![Current(c)] = [Closed(Current(c)) EXCEPT !.answer = a]]
    BY <1>5 DEF SignInRefused, GiveUp
  <2>2. k = Current(c) /\ client'[k] = [Closed(k) EXCEPT !.answer = a]
    BY <2>1 DEF TypeOK
  <2>3. client'[k].chan = Closed(k).chan
    BY <2>2, ClosedType DEF ClientStates
  <2>. QED
    BY <2>3, ClosedMoves
<1>6. CASE Disconnect(c)
  <2>1. k = Holder(c) /\ client'[k] = Closed(k)
    BY <1>6 DEF Disconnect, TypeOK
  <2>. QED
    BY <2>1, ClosedMoves
<1>. QED
  BY <1>2, <1>3, <1>4, <1>5, <1>6 DEF CallNext

(* However calls, answers, deadlines, disconnects and unload interleave,   *)
(* calls and channels only move forward: with finitely many calls nothing  *)
(* goes on for ever (NebulaClient.connect, close).                         *)
THEOREM CallsOnlyMoveForward == Spec => OnlyForward
<1>1. TypeOK /\ LifeInv /\ [Next]_vars => [CallsMoveOn /\ ChannelsMoveOn]_vars
  <2> SUFFICES ASSUME TypeOK, LifeInv, Next PROVE CallsMoveOn /\ ChannelsMoveOn
    OBVIOUS
  <2>1. ASSUME NEW c \in Calls, CallNext(c) PROVE CallsMoveOn /\ ChannelsMoveOn
    BY <2>1, CallMoves, ChannelMoves
  <2>2. ASSUME NEW k \in Clients, ClientNext(k) PROVE CallsMoveOn /\ ChannelsMoveOn
    <3>1. call' = call
      BY <2>2 DEF ClientNext, SignOutSettled, ServerAccepts, ServerRefuses, ServerEndsSession
    <3>2. \A j \in Clients : j # k => client'[j] = client[j]
      BY <2>2 DEF ClientNext, SignOutSettled, ServerAccepts, ServerRefuses, ServerEndsSession,
                  TypeOK
    <3>3. CASE SignOutSettled(k)
      <4>1. client[k].chan = "signingOut" /\ client'[k].chan = "signedOut"
        BY <3>3 DEF SignOutSettled, TypeOK, ClientStates
      <4>. QED
        BY <3>1, <3>2, <4>1 DEF CallsMoveOn, ChannelsMoveOn, ChanStage
    <3>4. CASE ServerAccepts(k) \/ ServerRefuses(k) \/ ServerEndsSession(k)
      <4>1. client'[k].chan = client[k].chan
        BY <3>4 DEF ServerAccepts, ServerRefuses, ServerEndsSession, TypeOK, ClientStates
      <4>. QED
        BY <3>1, <3>2, <4>1 DEF CallsMoveOn, ChannelsMoveOn
    <3>. QED
      BY <2>2, <3>3, <3>4 DEF ClientNext
  <2>3. CASE Dispose
    BY <2>3, ClosedMoves DEF Dispose, CallsMoveOn, ChannelsMoveOn
  <2>4. CASE DisposeSettled
    BY <2>4 DEF DisposeSettled, CallsMoveOn, ChannelsMoveOn
  <2>. QED
    BY <2>1, <2>2, <2>3, <2>4 DEF Next
<1>. QED
  BY <1>1, TypeCorrect, LifeInvariant, PTL DEF OnlyForward, Spec

(* What dispose() captured stays what it was: calls that had registered    *)
(* and whose entries are gone.                                             *)
ClosingInv == \A c \in closing : call[c].phase = "registered" /\ c \notin registry

LEMMA ClosingStep == TypeOK /\ LifeInv /\ ClosingInv /\ [Next]_vars => ClosingInv'
<1> SUFFICES ASSUME TypeOK, LifeInv, ClosingInv, [Next]_vars PROVE ClosingInv'
  OBVIOUS
<1>1. ASSUME NEW d \in Calls, CallNext(d) PROVE ClosingInv'
  <2> SUFFICES ASSUME NEW c \in closing' PROVE call'[c].phase = "registered" /\ c \notin registry'
    BY DEF ClosingInv
  <2>1. c \in closing /\ c \in Calls
    BY <1>1 DEF CallNext, StartConnect, Admit, LimitReached, PasswordMissing, OpenFirst, Abort,
                SignedIn, SignInRefused, FallBack, GiveUp, Disconnect, TypeOK
  <2>2. call[c].phase = "registered" /\ c \notin registry
    BY <2>1 DEF ClosingInv
  <2>3. CASE c # d
    BY <1>1, <2>1, <2>2, <2>3, OthersKept
  <2>4. CASE c = d
    BY <1>1, <2>2, <2>4 DEF CallNext, StartConnect, Admit, LimitReached, PasswordMissing, OpenFirst,
       Abort, InFlight, SignedIn, SignInRefused, FallBack, GiveUp, Answered, Attempts, Disconnect
  <2>. QED
    BY <2>3, <2>4
<1>2. ASSUME NEW k \in Clients, ClientNext(k) PROVE ClosingInv'
  BY <1>2 DEF ClientNext, SignOutSettled, ServerAccepts, ServerRefuses, ServerEndsSession,
              ClosingInv
<1>3. CASE Dispose
  <2>1. closing' = registry /\ registry' = {} /\ call' = call /\ registry \subseteq Calls
    BY <1>3 DEF Dispose, TypeOK
  <2>. QED
    BY <2>1, LifeFacts DEF ClosingInv
<1>4. CASE DisposeSettled \/ UNCHANGED vars
  BY <1>4 DEF DisposeSettled, vars, ClosingInv
<1>. QED
  BY <1>1, <1>2, <1>3, <1>4 DEF Next

(* The closes an unload awaits have all begun: each is a sign-out that its *)
(* own deadline settles, or is over.  None is stuck behind a client that   *)
(* was never closed (ConnectionRegistry.dispose).                          *)
UnloadWaitsForSignOuts ==
  \A c \in closing : client[Holder(c)].chan \in Releasing

THEOREM UnloadNeverStuck == Spec => []UnloadWaitsForSignOuts
<1>1. Init => ClosingInv
  BY DEF Init, ClosingInv
<1>2. Spec => []ClosingInv
  BY <1>1, ClosingStep, TypeCorrect, LifeInvariant, PTL DEF Spec
<1>3. TypeOK /\ LifeInv /\ ClosingInv => UnloadWaitsForSignOuts
  BY LifeFacts DEF TypeOK, ClosingInv, UnloadWaitsForSignOuts
<1>. QED
  BY <1>2, <1>3, TypeCorrect, LifeInvariant, PTL
=============================================================================
