---------------------------- MODULE Connections ----------------------------
(***************************************************************************)
(* The life of a NebulaGraph connection: the nebula_connect tool, the      *)
(* NebulaClient it opens (one gRPC channel and at most one server session  *)
(* each), the registry that keeps it, nebula_disconnect and plugin unload. *)
(*                                                                         *)
(* A tool call runs between two awaits without interruption, so an action  *)
(* is what the code does from the settlement of one awaited promise to the *)
(* next await.  A connection is named by the nebula_connect call that made *)
(* it (connectionId is a fresh random UUID); the call's two possible       *)
(* clients are its first attempt and its plaintext fallback.               *)
(***************************************************************************)
EXTENDS Naturals, FiniteSets

CONSTANTS Calls,           \* the nebula_connect calls of a behaviour
          MaxConnections,  \* plugin config maxConnections
          MaxParallel      \* nebula_connect calls the host runs at a time

ASSUME CallsAssumption == IsFiniteSet(Calls)
ASSUME LimitsAssumption ==
         /\ MaxConnections \in Nat \ {0}   \* resolveConfig rejects less than 1
         /\ MaxParallel \in Nat \ {0}

VARIABLES call,      \* per nebula_connect call: where it stands, and its options
          client,    \* per <<call, attempt>>: one NebulaClient and its server session
          registry,  \* calls whose entry is in ConnectionRegistry.entries
          disposal,  \* plugin: "up", "disposing" (dispose awaits), "disposed"
          closing    \* the entries dispose() captured and awaits

vars == <<call, client, registry, disposal, closing>>

-----------------------------------------------------------------------------
Attempts == {"first", "fallback"}
Clients == Calls \X Attempts

(* The await the tool call is at, or how it ended. *)
Phases == { "idle",       \* not called yet
            "password",   \* awaits resolvePassword
            "first",      \* awaits the first client's authenticate
            "fallback",   \* awaits the plaintext client's authenticate
            "registered", \* returned a connectionId
            "failed" }    \* threw

InFlight == {c \in Calls : call[c].phase \in {"password", "first", "fallback"}}

CallStates ==
  [ phase    : Phases,
    mode     : {"off", "on", "auto"},  \* effective tls mode
    listener : {"tls", "plain"},       \* what the addressed port speaks
    aborted  : BOOLEAN,                \* exec.signal has fired
    password : BOOLEAN ]               \* options.password is non-empty

(* A released channel is "signedOut" when close() asked for SESSION CLOSE  *)
(* first and "dropped" when there was no session to sign out of.           *)
ClientStates ==
  [ chan    : {"none", "open", "signingOut", "signedOut", "dropped"},
    request : {"none", "pending", "accepted", "refused"},  \* authenticate, at the server
    answer  : {"none", "cancelled", "accepted", "refused", "transport"},  \* at the client
    session : {"none", "live", "ended"} ]                  \* the session, at the server

TypeOK ==
  /\ call \in [Calls -> CallStates]
  /\ client \in [Clients -> ClientStates]
  /\ registry \in SUBSET Calls
  /\ disposal \in {"up", "disposing", "disposed"}
  /\ closing \in SUBSET Calls

NoClient == [chan |-> "none", request |-> "none", answer |-> "none", session |-> "none"]

Init ==
  /\ call = [c \in Calls |-> [phase |-> "idle", mode |-> "auto", listener |-> "tls",
                              aborted |-> FALSE, password |-> FALSE]]
  /\ client = [k \in Clients |-> NoClient]
  /\ registry = {}
  /\ disposal = "up"
  /\ closing = {}

-----------------------------------------------------------------------------
(* A new client and its authenticate request.  A signal that has already   *)
(* fired cancels the request before the channel can carry it.              *)
OpenedUnderAnySignal(c) == [NoClient EXCEPT !.chan = "open", !.request = "pending"]

Opened(c) ==
  IF call[c].aborted THEN [NoClient EXCEPT !.chan = "open", !.answer = "cancelled"]
                     ELSE [NoClient EXCEPT !.chan = "open", !.request = "pending"]

(* NebulaClient.close up to its first await.  It is idempotent; a client   *)
(* that was signed in asks for SESSION CLOSE, another drops its channel.   *)
NeverClosed(k) == client[k]

ClosedWithoutSignOut(k) ==
  IF client[k].chan # "open" THEN client[k] ELSE [client[k] EXCEPT !.chan = "dropped"]

Closed(k) ==
  IF client[k].chan # "open" THEN client[k]
  ELSE [client[k] EXCEPT !.chan = IF client[k].answer = "accepted" THEN "signingOut"
                                  ELSE "dropped"]

(* The client a registered entry holds. *)
Holder(c) ==
  IF client[<<c, "fallback">>].answer = "accepted" THEN <<c, "fallback">> ELSE <<c, "first">>

(* The client whose authenticate the call awaits. *)
Current(c) == <<c, call[c].phase>>

Speaks(k) ==
  IF k[2] = "first" /\ call[k[1]].mode \in {"on", "auto"} THEN "tls" ELSE "plain"

-----------------------------------------------------------------------------
(* nebula_connect, up to its first await: the arguments are resolved and  *)
(* the limit is checked here; the entry is added after the awaits to come. *)
Admit(c) ==
  /\ disposal = "up"
  /\ call[c].phase = "idle"
  /\ Cardinality(InFlight) < MaxParallel
  /\ \E m \in {"off", "on", "auto"}, l \in {"tls", "plain"} :
       call' = [call EXCEPT ![c] = [@ EXCEPT !.phase = "password", !.mode = m, !.listener = l]]
  /\ UNCHANGED <<client, registry, disposal, closing>>

StartConnect(c) ==
  /\ Cardinality(registry) < MaxConnections
  /\ Admit(c)

LimitReached(c) ==
  /\ disposal = "up"
  /\ call[c].phase = "idle"
  /\ Cardinality(registry) >= MaxConnections
  /\ call' = [call EXCEPT ![c].phase = "failed"]
  /\ UNCHANGED <<client, registry, disposal, closing>>

(* resolvePassword: the reference does not resolve to a value. *)
PasswordMissing(c) ==
  /\ call[c].phase = "password"
  /\ call' = [call EXCEPT ![c].phase = "failed"]
  /\ UNCHANGED <<client, registry, disposal, closing>>

(* resolvePassword returned: NebulaClient.connect opens the first client. *)
OpenFirst(c) ==
  /\ call[c].phase = "password"
  /\ call' = [call EXCEPT ![c] = [@ EXCEPT !.phase = "first", !.password = TRUE]]
  /\ client' = [client EXCEPT ![<<c, "first">>] = Opened(c)]
  /\ UNCHANGED <<registry, disposal, closing>>

(* The host gives the tool call up (its 60 s budget, or the user): the     *)
(* awaited authenticate, if there is one, is cancelled.                    *)
Abort(c) ==
  /\ c \in InFlight
  /\ ~call[c].aborted
  /\ call' = [call EXCEPT ![c].aborted = TRUE]
  /\ client' = IF call[c].phase \in Attempts
               THEN [client EXCEPT ![Current(c)].answer = "cancelled"] ELSE client
  /\ UNCHANGED <<registry, disposal, closing>>

(* The server's answer reaches an authenticate that still waits for it. *)
Answered(c, outcome) ==
  /\ call[c].phase \in Attempts
  /\ client[Current(c)].request = outcome
  /\ client[Current(c)].answer = "none"

(* authenticate resolves with success: the session id is stored and the    *)
(* password cleared, connect returns the client and the tool registers it. *)
SignedInKeepingPassword(c) ==
  /\ Answered(c, "accepted")
  /\ call' = [call EXCEPT ![c].phase = "registered"]
  /\ client' = [client EXCEPT ![Current(c)].answer = "accepted"]
  /\ registry' = registry \cup {c}
  /\ UNCHANGED <<disposal, closing>>

SignedInAsClient(c) ==
  /\ Answered(c, "accepted")
  /\ call' = [call EXCEPT ![c] = [@ EXCEPT !.phase = "registered", !.password = FALSE]]
  /\ client' = [client EXCEPT ![Current(c)].answer = "accepted"]
  /\ registry' = registry \cup {Current(c)}
  /\ UNCHANGED <<disposal, closing>>

SignedIn(c) ==
  /\ Answered(c, "accepted")
  /\ call' = [call EXCEPT ![c] = [@ EXCEPT !.phase = "registered", !.password = FALSE]]
  /\ client' = [client EXCEPT ![Current(c)].answer = "accepted"]
  /\ registry' = registry \cup {c}
  /\ UNCHANGED <<disposal, closing>>

(* authenticate resolves with an error status: kind 'auth', no fallback.   *)
(* The client never signed in, so close() only drops its channel.          *)
RefusedFallsBack(c) ==
  /\ Answered(c, "refused")
  /\ call[c].phase = "first" /\ call[c].mode = "auto"
  /\ call' = [call EXCEPT ![c].phase = "fallback"]
  /\ client' = [client EXCEPT ![<<c, "first">>].answer = "refused",
                              ![<<c, "fallback">>] = Opened(c)]
  /\ UNCHANGED <<registry, disposal, closing>>

SignInRefused(c) ==
  /\ Answered(c, "refused")
  /\ call' = [call EXCEPT ![c].phase = "failed"]
  /\ client' = [client EXCEPT ![Current(c)] =
                  [Closed(Current(c)) EXCEPT !.answer = "refused"]]
  /\ UNCHANGED <<registry, disposal, closing>>

(* The authenticate call fails in transport: handshake, network, deadline  *)
(* or cancellation, all of them one kind of error.  In auto mode the first *)
(* failure opens the plaintext client, leaving the first one as it is.     *)
FallBack(c) ==
  /\ call[c].phase = "first"
  /\ call[c].mode = "auto"
  /\ call' = [call EXCEPT ![c].phase = "fallback"]
  /\ client' = [client EXCEPT ![<<c, "first">>].answer = "transport",
                              ![<<c, "fallback">>] = Opened(c)]
  /\ UNCHANGED <<registry, disposal, closing>>

GiveUpWhenCancelled(c) ==
  /\ \/ call[c].phase = "fallback"
     \/ call[c].phase = "first" /\ call[c].mode # "auto"
  /\ client[Current(c)].answer = "cancelled"
  /\ call' = [call EXCEPT ![c].phase = "failed"]
  /\ client' = [client EXCEPT ![Current(c)] =
                  [Closed(Current(c)) EXCEPT !.answer = "transport"]]
  /\ UNCHANGED <<registry, disposal, closing>>

GiveUp(c) ==
  /\ \/ call[c].phase = "fallback"
     \/ call[c].phase = "first" /\ call[c].mode # "auto"
  /\ call' = [call EXCEPT ![c].phase = "failed"]
  /\ client' = [client EXCEPT ![Current(c)] =
                  [Closed(Current(c)) EXCEPT !.answer = "transport"]]
  /\ UNCHANGED <<registry, disposal, closing>>

(* nebula_disconnect: registry.remove forgets the entry, then closes it. *)
Disconnect(c) ==
  /\ disposal = "up"
  /\ c \in registry
  /\ registry' = registry \ {c}
  /\ client' = [client EXCEPT ![Holder(c)] = Closed(Holder(c))]
  /\ UNCHANGED <<call, disposal, closing>>

(* The SESSION CLOSE statement is answered, fails, or meets its own one    *)
(* second deadline; close() then releases the channel in every case.       *)
SignOutAnswered(k) ==
  /\ client[k].chan = "signingOut"
  /\ client[k].session = "ended"
  /\ client' = [client EXCEPT ![k].chan = "signedOut"]
  /\ UNCHANGED <<call, registry, disposal, closing>>

SignOutSettled(k) ==
  /\ client[k].chan = "signingOut"
  /\ client' = [client EXCEPT ![k].chan = "signedOut"]
  /\ UNCHANGED <<call, registry, disposal, closing>>

(* Plugin unload: registry.dispose closes what is registered now. *)
Dispose ==
  /\ disposal = "up"
  /\ disposal' = "disposing"
  /\ closing' = registry
  /\ registry' = {}
  /\ client' = [k \in Clients |->
                  IF \E c \in registry : k = Holder(c) THEN Closed(k) ELSE client[k]]
  /\ UNCHANGED call

DisposeSettled ==
  /\ disposal = "disposing"
  /\ \A c \in closing : client[Holder(c)].chan = "signedOut"
  /\ disposal' = "disposed"
  /\ UNCHANGED <<call, client, registry, closing>>

-----------------------------------------------------------------------------
(* graphd, as far as the client can tell.  A request may be handled after  *)
(* its caller gave up, and a session is never dropped by the server here:  *)
(* an expiry shows up only as a later statement's error.                   *)
ServerAccepts(k) ==
  /\ client[k].request = "pending"
  /\ Speaks(k) = call[k[1]].listener
  /\ client' = [client EXCEPT ![k].request = "accepted", ![k].session = "live"]
  /\ UNCHANGED <<call, registry, disposal, closing>>

ServerRefuses(k) ==
  /\ client[k].request = "pending"
  /\ Speaks(k) = call[k[1]].listener
  /\ client' = [client EXCEPT ![k].request = "refused"]
  /\ UNCHANGED <<call, registry, disposal, closing>>

(* SESSION CLOSE reaches the server, possibly after its deadline. *)
ServerEndsSession(k) ==
  /\ client[k].session = "live"
  /\ client[k].chan \in {"signingOut", "signedOut"}
  /\ client' = [client EXCEPT ![k].session = "ended"]
  /\ UNCHANGED <<call, registry, disposal, closing>>

-----------------------------------------------------------------------------
CallNext(c) ==
  \/ StartConnect(c) \/ LimitReached(c)
  \/ PasswordMissing(c) \/ OpenFirst(c) \/ Abort(c)
  \/ SignedIn(c) \/ SignInRefused(c) \/ FallBack(c) \/ GiveUp(c)
  \/ Disconnect(c)

ClientNext(k) ==
  \/ SignOutSettled(k)
  \/ ServerAccepts(k) \/ ServerRefuses(k) \/ ServerEndsSession(k)

Next ==
  \/ \E c \in Calls : CallNext(c)
  \/ \E k \in Clients : ClientNext(k)
  \/ Dispose
  \/ DisposeSettled

(* The credentials seam answers; every gRPC call carries a deadline, so it *)
(* settles; Promise.allSettled resolves once the closes have.  Nothing is  *)
(* assumed of the server, the host or the user.                            *)
Fairness ==
  /\ \A c \in Calls : /\ WF_vars(OpenFirst(c) \/ PasswordMissing(c))
                      /\ WF_vars(FallBack(c) \/ GiveUp(c))
  /\ \A k \in Clients : WF_vars(SignOutSettled(k))
  /\ WF_vars(DisposeSettled)

Spec == Init /\ [][Next]_vars

FairSpec == Spec /\ Fairness

-----------------------------------------------------------------------------
(* However the connect calls interleave, the registry never holds more     *)
(* than the calls admitted below the limit: each of the MaxParallel calls  *)
(* in flight may have been admitted beside MaxConnections - 1 entries      *)
(* (the check and the add of nebula_connect are two awaits apart).         *)
Overshoot == MaxConnections + MaxParallel - 1

OvershootBound == Cardinality(registry) <= Overshoot

(* A registered entry is usable and quiet: its call returned, it holds the *)
(* one client that signed in, whose channel is open, no authenticate of    *)
(* its is still awaited, and no plaintext password is left in its options. *)
RegisteredEntrySound ==
  \A c \in registry :
    /\ call[c].phase = "registered"
    /\ ~call[c].password
    /\ client[Holder(c)].chan = "open"
    /\ client[Holder(c)].answer = "accepted"
    /\ \A k \in Clients : (k[1] = c /\ k # Holder(c)) => client[k].answer \in {"none", "transport"}

(* The plaintext client is opened only in auto mode and only after the TLS *)
(* attempt failed in transport, never after the server refused the user.   *)
FallbackJustified ==
  \A c \in Calls :
    client[<<c, "fallback">>].chan # "none" =>
      call[c].mode = "auto" /\ client[<<c, "first">>].answer = "transport"

(* Every open channel has an owner who will release it -- a registered     *)
(* entry or a call still in flight -- except one: the TLS client that an   *)
(* auto connect abandons when it falls back, which connect never closes.   *)
Abandoned(k) ==
  k[2] = "first" /\ client[<<k[1], "fallback">>].chan # "none"

ChannelsAccounted ==
  \A k \in Clients :
    client[k].chan = "open" =>
      \/ k[1] \in registry /\ k = Holder(k[1])
      \/ k[1] \in InFlight
      \/ Abandoned(k)

(* A session that is live at the server belongs to a registered entry, or  *)
(* to an authenticate still awaited, or SESSION CLOSE was sent for it --   *)
(* or its authenticate answer was lost, and the client knows nothing of it.*)
SessionsAccounted ==
  \A k \in Clients :
    client[k].session = "live" =>
      \/ k[1] \in registry /\ k = Holder(k[1])
      \/ client[k].answer \in {"none", "cancelled", "transport"}
      \/ client[k].chan \in {"signingOut", "signedOut"}

(* A call the host gave up before its sign-in was answered is not          *)
(* registered afterwards, also when it was given up before its             *)
(* authenticate was even sent (callWithTimeout on an aborted signal).      *)
AbortHonoured ==
  [][\A c \in registry' \ registry : ~call[c].aborted]_vars

(* A connect call ends, whatever the server does: two deadlines bound it.  *)
ConnectSettles ==
  \A c \in Calls : c \in InFlight ~> call[c].phase \in {"registered", "failed"}

(* A close that began releases its channel even if sign-out gets no answer,*)
(* and so an unload ends although a server may never answer a sign-out.    *)
ClosingCompletes ==
  /\ \A k \in Clients : client[k].chan = "signingOut" ~> client[k].chan = "signedOut"
  /\ disposal = "disposing" ~> disposal = "disposed"

(* The registry implements the lease promise with room for Overshoot.      *)
lease ==
  [c \in Calls |->
     IF c \in registry THEN "held"
     ELSE IF call[c].phase = "registered" THEN "returned"
     ELSE IF call[c].phase = "failed" THEN "refused" ELSE "asked"]

Lease == INSTANCE SessionLease WITH Handles <- Calls, Capacity <- Overshoot, lease <- lease

ImplementsLease == Lease!LeaseSpec

-----------------------------------------------------------------------------
(* "Upper bound on concurrently open connections" (index.ts, of the option *)
(* maxConnections).                                                        *)
ConnectionCap == Cardinality(registry) <= MaxConnections

(* "unloading the plugin closes every open session" (index.ts).            *)
UnloadClosesAll == disposal = "disposed" => registry = {}

(* "fall back to plaintext only when the server has no TLS listener"       *)
(* (README.md, of tls auto).                                               *)
FallbackMeansNoListener ==
  \A c \in Calls : client[<<c, "fallback">>].chan # "none" => call[c].listener = "plain"
=============================================================================
