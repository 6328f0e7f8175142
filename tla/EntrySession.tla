---------------------------- MODULE EntrySession ----------------------------
(***************************************************************************)
(* The calls that share one open connection: nebula_execute and            *)
(* nebula_schema, the working graph the plugin tracks for the session, and *)
(* the entry's element-key cache, which execute warms with SHOW GRAPHS and *)
(* one DESC GRAPH TYPE per graph type before a graph result is presented.  *)
(*                                                                         *)
(* Every action is what the code does between two awaits.  Each call has   *)
(* one statement at the server at a time, except that it awaits its DESC   *)
(* requests together; calls themselves overlap freely.  Each graph type    *)
(* has one element type here, so a type's keys are cached or they are not. *)
(***************************************************************************)
EXTENDS Naturals, FiniteSets, Sequences

CONSTANTS Calls,       \* the tool calls made on the connection
          Graphs,      \* graph names
          GraphTypes,  \* graph type names
          NoGraph, NoType, NoCall, NoListing,
          FirstCatalogs,  \* catalogs the server may have at first
          MaxSegments, \* bound: statements of one call that move the session
          MaxChanged   \* bound: graphs whose catalog entry other clients change

ASSUME SentinelAssumption ==
         NoGraph \notin Graphs /\ NoType \notin GraphTypes /\ NoCall \notin Calls
ASSUME BoundsAssumption == MaxSegments \in Nat /\ MaxChanged \in Nat

VARIABLES call,        \* per tool call: where it stands and what it works on
          tracked,     \* entry.currentGraph
          types,       \* schemaCache.graphTypes
          keys,        \* graph types whose element keys schemaCache holds
          inflight,    \* schemaCache.inflight: the call whose DESC is awaited
          registered,  \* the entry is in the registry
          session,     \* the working graph of the session, at the server
          catalog,     \* the graphs of the server and their types
          changed,     \* history: graphs whose catalog entry was changed
          muddled      \* history: since the last clear move, tracking had no chance

vars == <<call, tracked, types, keys, inflight, registered, session, catalog, changed, muddled>>

Catalogs == [Graphs -> GraphTypes \cup {NoType}]
ASSUME CatalogsAssumption == FirstCatalogs \subseteq Catalogs

(* A call moves the session by statements, separated by semicolons, each   *)
(* to some graph.  A plain one is SESSION SET graph with a name of letters,*)
(* digits and underscores; the others set a temporary graph, a hyphenated  *)
(* or a qualified name, or say USE.                                        *)
Segments == [graph : Graphs, plain : BOOLEAN]
Moves == UNION {[1 .. n -> Segments] : n \in 1 .. MaxSegments}
Operations == {"move", "query", "schema"}

CallStates ==
  [ pc      : {"idle", "statement",           \* execute awaits its statement
               "graphs", "keys",              \* ... then SHOW GRAPHS, then the DESCs
               "returned",                    \* ... and its result is to be presented
               "list", "describe",            \* schema awaits SHOW GRAPHS, then DESC
               "ok", "error", "threw"},
    op      : Operations,
    graphs  : SUBSET Graphs,                  \* query: the result's graphs; schema: the
                                              \* argument, or none
    reads   : Graphs \cup {NoGraph},          \* move: the graph sessionSetGraph reads of it
    request : {"none", "sent", "done", "refused"},   \* the statement, at the server
    missing : SUBSET Graphs,                  \* graphs whose keys were unknown
    listing : Catalogs \cup {NoListing},      \* what SHOW GRAPHS saw
    own     : SUBSET GraphTypes,              \* DESCs this call runs
    waits   : SUBSET GraphTypes,              \* DESCs of other calls it awaits
    mishap  : BOOLEAN,                        \* a catalog request it awaited failed
    current : Graphs \cup {NoGraph},          \* entry.currentGraph when schema started
    home    : Graphs \cup {NoGraph},          \* history: the session's graph then, if
                                              \* tracking was exact
    target  : Graphs \cup {NoGraph},          \* the graph a move ends on, schema describes
    clear   : BOOLEAN,                        \* history: a clear move (see TrackingExact)
    bare    : SUBSET Graphs ]                 \* result graphs presented without keys

TypeOK ==
  /\ call \in [Calls -> CallStates]
  /\ tracked \in Graphs \cup {NoGraph}
  /\ types \in Catalogs
  /\ keys \in SUBSET GraphTypes
  /\ inflight \in [GraphTypes -> Calls \cup {NoCall}]
  /\ registered \in BOOLEAN
  /\ session \in Graphs \cup {NoGraph}
  /\ catalog \in Catalogs
  /\ changed \in SUBSET Graphs
  /\ muddled \in BOOLEAN

NewCall == [pc |-> "idle", op |-> "query", graphs |-> {}, reads |-> NoGraph, request |-> "none",
            missing |-> {}, listing |-> NoListing, own |-> {}, waits |-> {}, mishap |-> FALSE,
            current |-> NoGraph, home |-> NoGraph, target |-> NoGraph, clear |-> FALSE, bare |-> {}]

Init ==
  /\ call = [c \in Calls |-> NewCall]
  /\ tracked = NoGraph
  /\ types = [g \in Graphs |-> NoType]
  /\ keys = {}
  /\ inflight = [t \in GraphTypes |-> NoCall]
  /\ registered = TRUE
  /\ session = NoGraph
  /\ catalog \in FirstCatalogs
  /\ changed = {}
  /\ muddled = FALSE

server == <<session, catalog, changed>>
cache == <<types, keys, inflight>>

-----------------------------------------------------------------------------
(* A move that the server may still make or whose answer is not processed. *)
Moving(c) == call[c].op = "move" /\ (call[c].request = "sent" \/ call[c].pc = "statement")

(* sessionSetGraph: the name in the last plain statement of a call, if any.*)
AllGraphsNamed(m) == {m[i].graph : i \in DOMAIN m}

SessionSetGraph(m) ==
  LET found == {i \in DOMAIN m : m[i].plain} IN
  IF found = {} THEN NoGraph ELSE m[CHOOSE i \in found : \A j \in found : j <= i].graph

(* What is left of a call that ended: a move may still be at the server.   *)
Ended(c, how) ==
  IF call[c].op = "move" /\ call[c].request = "sent"
  THEN [call[c] EXCEPT !.pc = how, !.reads = NoGraph, !.clear = FALSE]
  ELSE [NewCall EXCEPT !.pc = how, !.op = call[c].op]

(* nebula_execute returns the result of a query. *)
Returned(c) ==
  [NewCall EXCEPT !.pc = "returned", !.graphs = call[c].graphs, !.mishap = call[c].mishap]

(* lookupPrimaryKey and lookupMultiedgeKey find the keys of g's elements.  *)
Known(g) == types[g] \in keys

(* resolveTargetGraph over the rows of SHOW GRAPHS. *)
Listed(listing) == {g \in Graphs : listing[g] # NoType}

SoleOrNone(listing) ==
  IF Cardinality(Listed(listing)) = 1 THEN CHOOSE g \in Listed(listing) : TRUE ELSE NoGraph

ResolveFirst(listing, argument, current) ==
  IF argument # {} THEN CHOOSE g \in argument \cup {NoGraph} : g \in argument
  ELSE IF Listed(listing) # {} THEN CHOOSE g \in Listed(listing) : TRUE
  ELSE NoGraph

ResolveTarget(listing, argument, current) ==
  IF argument # {} THEN IF argument \subseteq Listed(listing)
                        THEN CHOOSE g \in argument : TRUE ELSE NoGraph
  ELSE IF current \in Listed(listing) THEN current
  ELSE SoleOrNone(listing)

(* resolveElementKeys from the listing on: fetchElementKeys for each graph *)
(* type of the missing graphs, its own DESC unless one is already awaited. *)
Warming(s) == [s EXCEPT !.pc = "keys", !.missing = {}, !.listing = NoListing]

NeededTypes(missing, known) == {known[g] : g \in missing} \ {NoType}

FetchAlways(c, s, known) ==
  LET needed == NeededTypes(s.missing, known) IN
  /\ call' = [call EXCEPT ![c] = [Warming(s) EXCEPT !.own = needed]]
  /\ inflight' = [t \in GraphTypes |-> IF t \in needed THEN c ELSE inflight[t]]

FetchWithoutWaiting(c, s, known) ==
  LET own == {t \in NeededTypes(s.missing, known) : inflight[t] = NoCall} IN
  /\ call' = [call EXCEPT ![c] = [Warming(s) EXCEPT !.own = own]]
  /\ inflight' = [t \in GraphTypes |-> IF t \in own THEN c ELSE inflight[t]]

Fetch(c, s, known) ==
  LET needed == NeededTypes(s.missing, known)
      own == {t \in needed : inflight[t] = NoCall} IN
  /\ call' = [call EXCEPT ![c] = [Warming(s) EXCEPT !.own = own, !.waits = needed \ own]]
  /\ inflight' = [t \in GraphTypes |-> IF t \in own THEN c ELSE inflight[t]]

-----------------------------------------------------------------------------
(* No move is clear that another one overlaps.                             *)
Overlapped == [d \in Calls |-> [call[d] EXCEPT !.clear = FALSE]]

(* nebula_execute up to its first await. *)
Execute(c) ==
  /\ call[c].pc = "idle" /\ registered
  /\ \/ /\ \E gs \in SUBSET Graphs :
             call' = [call EXCEPT ![c] = [@ EXCEPT !.pc = "statement", !.graphs = gs,
                                                   !.request = "sent"]]
        /\ UNCHANGED muddled
     \/ /\ \E m \in Moves :
             call' = [Overlapped EXCEPT ![c] =
               [@ EXCEPT !.pc = "statement", !.op = "move", !.request = "sent",
                         !.reads = SessionSetGraph(m), !.target = m[Len(m)].graph,
                         !.clear = m[Len(m)].plain /\ \A d \in Calls : ~Moving(d)]]
        /\ muddled' = (muddled \/ \E d \in Calls : Moving(d))
  /\ UNCHANGED <<tracked, cache, registered, server>>

(* The entry was removed before the call. *)
UnknownConnection(c) ==
  /\ call[c].pc = "idle" /\ ~registered
  /\ call' = [call EXCEPT ![c].pc = "threw"]
  /\ UNCHANGED <<tracked, cache, registered, server, muddled>>

(* The answer of a successful statement: the working graph is tracked, and *)
(* the keys of the result's elements that the cache lacks are asked for.   *)
StatementOk(c) ==
  LET s == [call[c] EXCEPT !.missing = {g \in call[c].graphs : ~Known(g)}] IN
  /\ call[c].pc = "statement" /\ call[c].request = "done"
  /\ \/ /\ s.op = "move"
        /\ tracked' = IF s.reads # NoGraph THEN s.reads ELSE tracked
        /\ muddled' = ~s.clear
        /\ call' = [call EXCEPT ![c] = Ended(c, "ok")]
        /\ UNCHANGED inflight
     \/ /\ s.op = "query" /\ s.missing = {}
        /\ call' = [call EXCEPT ![c] = Returned(c)]
        /\ UNCHANGED <<tracked, inflight, muddled>>
     \/ /\ s.op = "query" /\ s.missing # {}
        /\ \A g \in s.missing : types[g] # NoType
        /\ Fetch(c, s, types)
        /\ UNCHANGED <<tracked, muddled>>
     \/ /\ s.op = "query" /\ \E g \in s.missing : types[g] = NoType
        /\ call' = [call EXCEPT ![c] = [s EXCEPT !.pc = "graphs"]]
        /\ UNCHANGED <<tracked, inflight, muddled>>
  /\ UNCHANGED <<types, keys, registered, server>>

(* The server refused the statement: a result with ok FALSE. *)
ErrorTracked(c) ==
  /\ call[c].pc = "statement" /\ call[c].request = "refused"
  /\ tracked' = IF call[c].reads # NoGraph THEN call[c].reads ELSE tracked
  /\ call' = [call EXCEPT ![c] = Ended(c, "error")]
  /\ UNCHANGED <<cache, registered, server, muddled>>

StatementError(c) ==
  /\ call[c].pc = "statement" /\ call[c].request = "refused"
  /\ call' = [call EXCEPT ![c] = Ended(c, "error")]
  /\ UNCHANGED <<tracked, cache, registered, server, muddled>>

(* The deadline, an abort or the channel ends the wait: execute throws.    *)
StatementLost(c) ==
  /\ call[c].pc = "statement"
  /\ call' = [call EXCEPT ![c] = Ended(c, "threw")]
  /\ muddled' = (muddled \/ call[c].op = "move")
  /\ UNCHANGED <<tracked, cache, registered, server>>

(* resolveElementKeys: SHOW GRAPHS was answered, and adds to what it knew. *)
GraphsShown(c) ==
  LET seen == call[c].listing
      known == [g \in Graphs |-> IF seen[g] # NoType THEN seen[g] ELSE types[g]] IN
  /\ call[c].pc = "graphs" /\ seen # NoListing
  /\ types' = known
  /\ Fetch(c, call[c], known)
  /\ UNCHANGED <<tracked, keys, registered, server, muddled>>

(* ... or failed, which is swallowed; what is cached is still described.   *)
GraphsNotShown(c) ==
  /\ call[c].pc = "graphs"
  /\ Fetch(c, [call[c] EXCEPT !.mishap = TRUE], types)
  /\ UNCHANGED <<tracked, types, keys, registered, server, muddled>>

(* fetchElementKeys: the DESC settles, its inflight entry goes, and every  *)
(* call that awaited it goes on.                                           *)
Settled(c, t, failed) ==
  [d \in Calls |-> [call[d] EXCEPT !.own = @ \ (IF d = c THEN {t} ELSE {}), !.waits = @ \ {t},
                      !.mishap = @ \/ (failed /\ (d = c \/ t \in call[d].waits))]]

Described(c, t) ==
  /\ t \in call[c].own
  /\ call' = Settled(c, t, FALSE)
  /\ keys' = keys \cup {t}
  /\ inflight' = [inflight EXCEPT ![t] = NoCall]
  /\ UNCHANGED <<tracked, types, registered, server, muddled>>

FailureKeepsInflight(c, t) ==
  /\ t \in call[c].own
  /\ call' = Settled(c, t, TRUE)
  /\ UNCHANGED <<tracked, cache, registered, server, muddled>>

FailureNeedsAnswer(c, t) ==
  /\ t \in call[c].own /\ registered
  /\ call' = Settled(c, t, TRUE)
  /\ inflight' = [inflight EXCEPT ![t] = NoCall]
  /\ UNCHANGED <<tracked, types, keys, registered, server, muddled>>

NotDescribed(c, t) ==
  /\ t \in call[c].own
  /\ call' = Settled(c, t, TRUE)
  /\ inflight' = [inflight EXCEPT ![t] = NoCall]
  /\ UNCHANGED <<tracked, types, keys, registered, server, muddled>>

(* The call's fetches have all settled: nebula_execute returns. *)
Warmed(c) ==
  /\ call[c].pc = "keys" /\ call[c].own = {} /\ call[c].waits = {}
  /\ call' = [call EXCEPT ![c] = Returned(c)]
  /\ UNCHANGED <<tracked, cache, registered, server, muddled>>

(* presentationMeta, which the host calls with the result that execute     *)
(* returned, looks the entry up again: keys come from its cache, or there  *)
(* are none when the entry was removed meanwhile.                          *)
Present(c) ==
  /\ call[c].pc = "returned"
  /\ call' = [call EXCEPT ![c] =
       [NewCall EXCEPT !.pc = "ok", !.mishap = call[c].mishap,
          !.bare = {g \in call[c].graphs : ~(registered /\ Known(g))}]]
  /\ UNCHANGED <<tracked, cache, registered, server, muddled>>

(* nebula_schema up to its first await; it reads the tracked graph now.    *)
Schema(c) ==
  /\ call[c].pc = "idle" /\ registered
  /\ \E argument \in {{}} \cup {{g} : g \in Graphs} :
       call' = [call EXCEPT ![c] =
         [@ EXCEPT !.pc = "list", !.op = "schema", !.graphs = argument, !.current = tracked,
                   !.home = IF muddled \/ \E d \in Calls : Moving(d) THEN NoGraph ELSE session]]
  /\ UNCHANGED <<tracked, cache, registered, server, muddled>>

SchemaListed(c) ==
  /\ call[c].pc = "list" /\ call[c].listing # NoListing
  /\ LET target == ResolveTarget(call[c].listing, call[c].graphs, call[c].current) IN
     call' = [call EXCEPT ![c] = IF target = NoGraph THEN Ended(c, "threw")
                                 ELSE [@ EXCEPT !.pc = "describe", !.target = target]]
  /\ UNCHANGED <<tracked, cache, registered, server, muddled>>

SchemaDescribed(c) ==
  /\ call[c].pc = "describe"
  /\ call' = [call EXCEPT ![c] = Ended(c, "ok")]
  /\ UNCHANGED <<tracked, cache, registered, server, muddled>>

SchemaFailed(c) ==
  /\ call[c].pc \in {"list", "describe"}
  /\ call' = [call EXCEPT ![c] = Ended(c, "threw")]
  /\ UNCHANGED <<tracked, cache, registered, server, muddled>>

(* nebula_disconnect: calls that hold the entry go on with its client.     *)
Disconnect ==
  /\ registered
  /\ registered' = FALSE
  /\ UNCHANGED <<call, tracked, cache, server, muddled>>

-----------------------------------------------------------------------------
(* graphd.  It may handle a statement after the call stopped waiting, and  *)
(* a list of statements may move the session before one of them fails.     *)
ServerExecutes(c) ==
  /\ call[c].request = "sent"
  /\ call' = [call EXCEPT ![c].request = "done"]
  /\ session' = IF call[c].op = "move" THEN call[c].target ELSE session
  /\ UNCHANGED <<tracked, cache, registered, catalog, changed, muddled>>

ServerRefuses(c) ==
  /\ call[c].request = "sent"
  /\ call' = [call EXCEPT ![c].request = "refused"]
  /\ \/ UNCHANGED <<session, muddled>>
     \/ /\ call[c].op = "move"
        /\ \E g \in Graphs : session' = g
        /\ muddled' = TRUE
  /\ UNCHANGED <<tracked, cache, registered, catalog, changed>>

ServerLists(c) ==
  /\ call[c].pc \in {"graphs", "list"} /\ call[c].listing = NoListing
  /\ call' = [call EXCEPT ![c].listing = catalog]
  /\ UNCHANGED <<tracked, cache, registered, server, muddled>>

(* Another client creates, drops or retypes a graph. *)
CatalogChange ==
  /\ \E g \in Graphs, t \in GraphTypes \cup {NoType} :
       /\ Cardinality(changed \cup {g}) <= MaxChanged
       /\ changed' = changed \cup {g}
       /\ catalog' = [catalog EXCEPT ![g] = t]
  /\ UNCHANGED <<call, tracked, cache, registered, session, muddled>>

-----------------------------------------------------------------------------
ExecuteStep(c) ==
  \/ StatementOk(c) \/ StatementError(c) \/ StatementLost(c)
  \/ GraphsShown(c) \/ GraphsNotShown(c) \/ Warmed(c) \/ Present(c)
  \/ \E t \in GraphTypes : Described(c, t) \/ NotDescribed(c, t)

SchemaStep(c) == SchemaListed(c) \/ SchemaDescribed(c) \/ SchemaFailed(c)

CallNext(c) ==
  \/ Execute(c) \/ UnknownConnection(c) \/ Schema(c)
  \/ ExecuteStep(c) \/ SchemaStep(c)
  \/ ServerExecutes(c) \/ ServerRefuses(c) \/ ServerLists(c)

Next ==
  \/ \E c \in Calls : CallNext(c)
  \/ Disconnect
  \/ CatalogChange

Spec == Init /\ [][Next]_vars

(* A statement, a SHOW or a DESC the server never answers meets the        *)
(* connection's deadline; nothing is assumed of the server itself.         *)
Fairness == \A c \in Calls : /\ WF_vars(StatementLost(c) \/ GraphsNotShown(c) \/ Warmed(c))
                             /\ \A t \in GraphTypes : WF_vars(NotDescribed(c, t))
                             /\ WF_vars(SchemaFailed(c))

FairSpec == Spec /\ Fairness

-----------------------------------------------------------------------------
(* One DESC per graph type at a time on a connection, whichever calls need *)
(* it; and an inflight entry stands for a DESC that some call still runs,  *)
(* so a failed fetch never blocks the next one (fetchElementKeys).         *)
OneFetchPerType ==
  \A t \in GraphTypes :
    /\ Cardinality({c \in Calls : t \in call[c].own}) <= 1
    /\ inflight[t] # NoCall => t \in call[inflight[t]].own
    /\ \A c \in Calls : t \in call[c].waits => inflight[t] \notin {c, NoCall}

(* A graph result is presented with its keys.  When the host presents it,  *)
(* after execute returned, the keys of a listed graph are missing only if  *)
(* a catalog request the call awaited failed, its own or one it shared, or *)
(* another client changed that graph, or the entry is gone -- also when    *)
(* another call's DESC was the one that fetched them.                      *)
PresentedWithKeys ==
  \A c \in Calls :
    registered /\ ~call[c].mishap =>
      \A g \in call[c].bare : catalog[g] = NoType \/ g \in changed

(* With no move of the session in flight, the tracked graph is the one the *)
(* server works on, as long as every move since the last clear one was     *)
(* refused outright.  A move is clear if its last statement is a plain     *)
(* SESSION SET and no other move is under way while it is.  One that is    *)
(* not, that is lost or that fails half way muddles the tracking of        *)
(* nebula_execute until a clear one succeeds.                              *)
TrackingExact ==
  (~muddled /\ \A c \in Calls : ~Moving(c)) => tracked = session

(* nebula_schema without an argument describes the graph the session was   *)
(* on when it was called, as long as the server lists that graph, however  *)
(* the session moves while the catalog is being read.                      *)
SchemaOnSessionGraph ==
  \A c \in Calls :
    (call[c].pc = "describe" /\ call[c].graphs = {}
       /\ call[c].home # NoGraph /\ call[c].listing[call[c].home] # NoType)
      => call[c].target = call[c].home

(* Every call returns or throws: its own requests have deadlines, and a    *)
(* DESC it shares is another call's, which has one too.                    *)
CallsSettle ==
  \A c \in Calls : call[c].pc # "idle" ~> call[c].pc \in {"returned", "ok", "error", "threw"}

=============================================================================
