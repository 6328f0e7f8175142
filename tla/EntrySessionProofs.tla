------------------------- MODULE EntrySessionProofs -------------------------
(***************************************************************************)
(* Proofs about EntrySession, for every set of calls, graphs and graph     *)
(* types, every catalog, every list of moves and every change of the       *)
(* catalog by others.  What each action does to the calls is proved once   *)
(* (the Effect lemmas); every invariant then cites those.                  *)
(***************************************************************************)
EXTENDS EntrySession, FiniteSetTheorems, WellFoundedInduction, TLAPS

LEMMA SomeMember ==
  ASSUME NEW S, S # {}
  PROVE  (CHOOSE x \in S : TRUE) \in S
OBVIOUS

(* A set of numbers that is not empty has a least one.                     *)
LEMMA LeastNumber ==
  ASSUME NEW S \in SUBSET Nat, S # {}
  PROVE  \E n \in S : \A m \in S : n <= m
<1>1. PICK n \in S : \A m \in S : ~(<<m, n>> \in OpToRel(<, Nat))
  BY NatLessThanWellFounded, WFMin
<1>2. \A m \in S : ~(m < n)
  BY <1>1 DEF OpToRel
<1>3. QED
  BY <1>2

(***************************************************************************)
(* sessionSetGraph returns a graph the statement names, or none; and when  *)
(* the last statement is a plain one, the graph it names.                  *)
(***************************************************************************)
LEMMA LastFound ==
  ASSUME NEW n \in Nat, NEW S \in SUBSET (1 .. n), S # {}
  PROVE  \E i \in S : \A j \in S : j <= i
<1> DEFINE T == {n - i : i \in S}
<1>0. \A i \in S : i \in Nat /\ n - i \in Nat
  OBVIOUS
<1>1. T \in SUBSET Nat /\ T # {}
  BY <1>0
<1>2. PICK k \in T : \A m \in T : k <= m
  BY <1>1, LeastNumber
<1>3. PICK i \in S : k = n - i
  BY <1>2
<1>4. \A j \in S : k <= n - j
  BY <1>2
<1>. QED
  BY <1>0, <1>3, <1>4

LEMMA SetGraphReads ==
  ASSUME NEW m \in Moves
  PROVE  /\ m[Len(m)].graph \in Graphs /\ m[Len(m)].plain \in BOOLEAN
         /\ SessionSetGraph(m) \in Graphs \cup {NoGraph}
         /\ m[Len(m)].plain => SessionSetGraph(m) = m[Len(m)].graph
<1>1. PICK n \in 1 .. MaxSegments : m \in [1 .. n -> Segments]
  BY DEF Moves
<1>n. n \in Nat /\ n >= 1
  BY BoundsAssumption
<1>2. Len(m) = n /\ n \in 1 .. n
  BY <1>1, <1>n
<1> DEFINE found == {i \in DOMAIN m : m[i].plain}
           last == CHOOSE i \in found : \A j \in found : j <= i
<1>3. found \in SUBSET (1 .. n)
  BY <1>1
<1>4. found # {} => last \in found /\ \A j \in found : j <= last
  BY <1>n, <1>3, LastFound
<1>5. SessionSetGraph(m) = IF found = {} THEN NoGraph ELSE m[last].graph
  BY DEF SessionSetGraph
<1>6. \A i \in 1 .. n : m[i].graph \in Graphs /\ m[i].plain \in BOOLEAN
  BY <1>1 DEF Segments
<1>7. m[Len(m)].plain => found # {} /\ n \in found
  BY <1>1, <1>2
<1> HIDE DEF found, last
<1>8. m[Len(m)].plain => last = n
  <2> SUFFICES ASSUME m[Len(m)].plain PROVE last = n
    OBVIOUS
  <2>1. n \in found /\ last \in found /\ n <= last
    BY <1>4, <1>7
  <2>2. last \in 1 .. n
    BY <1>3, <2>1
  <2>. QED
    BY <1>n, <2>1, <2>2
<1>. QED
  BY <1>2, <1>3, <1>4, <1>5, <1>6, <1>7, <1>8

(***************************************************************************)
(* Types, and what the place where a call stands says of it: a call that   *)
(* is not warming the cache awaits no DESC, a clear move awaits its        *)
(* statement and is read as the graph it ends on, and so on.               *)
(***************************************************************************)
Shape(s) ==
  /\ s \in CallStates
  /\ s.pc = "idle" => s.op = "query" /\ s.listing = NoListing
  /\ s.pc # "keys" => s.own = {} /\ s.waits = {}
  /\ s.pc = "statement" => s.request # "none" /\ s.op # "schema"
  /\ s.pc \in {"graphs", "keys", "returned"} => s.op = "query"
  /\ s.pc \in {"list", "describe"} => s.op = "schema"
  /\ s.op = "move" /\ (s.request = "sent" \/ s.pc = "statement") => s.target \in Graphs
  /\ s.clear => s.pc = "statement" /\ s.op = "move" /\ s.reads = s.target
  /\ s.bare # {} => s.pc = "ok"

TypeInv == TypeOK /\ \A c \in Calls : Shape(call[c])

Hows == {"ok", "error", "threw"}

LEMMA NewCallShape == Shape(NewCall)
BY DEF NewCall, CallStates, Operations, Shape

(* What a step leaves of the other calls.                                  *)
Same(d) ==
  /\ call'[d].pc = call[d].pc /\ call'[d].op = call[d].op
  /\ call'[d].graphs = call[d].graphs /\ call'[d].reads = call[d].reads
  /\ call'[d].request = call[d].request /\ call'[d].missing = call[d].missing
  /\ call'[d].listing = call[d].listing /\ call'[d].current = call[d].current
  /\ call'[d].home = call[d].home /\ call'[d].target = call[d].target
  /\ call'[d].bare = call[d].bare

SameAwaits(d) ==
  /\ call'[d].own = call[d].own /\ call'[d].waits = call[d].waits
  /\ call'[d].mishap = call[d].mishap

Others(c) == \A d \in Calls \ {c} : call'[d] = call[d]

Shapes == call' \in [Calls -> CallStates] /\ \A d \in Calls : Shape(call'[d])

LEMMA SameOthers ==
  ASSUME NEW c \in Calls, Others(c)
  PROVE  \A d \in Calls \ {c} : Same(d) /\ SameAwaits(d) /\ call'[d].clear = call[d].clear
BY DEF Others, Same, SameAwaits

(* A step that replaces one call's state.                                  *)
LEMMA OneCall ==
  ASSUME NEW c \in Calls, TypeInv, NEW s, Shape(s), call' = [call EXCEPT ![c] = s]
  PROVE  Shapes /\ Others(c) /\ call'[c] = s
<1>1. call \in [Calls -> CallStates] /\ s \in CallStates
  BY DEF TypeInv, TypeOK, Shape
<1>2. call'[c] = s /\ Others(c) /\ call' \in [Calls -> CallStates]
  BY <1>1 DEF Others
<1>3. \A d \in Calls : Shape(call'[d])
  BY <1>2 DEF Others, TypeInv
<1>. QED
  BY <1>2, <1>3 DEF Shapes

(* A call that ends: only a move may still be at the server.               *)
LEMMA EndEffect ==
  ASSUME NEW c \in Calls, TypeInv, NEW how \in Hows, call[c].pc # "keys", call[c].pc # "ok",
         call' = [call EXCEPT ![c] = Ended(c, how)]
  PROVE  /\ Shapes /\ Others(c)
         /\ call'[c].pc = how /\ call'[c].bare = {}
         /\ call'[c].listing \in {call[c].listing, NoListing}
         /\ call'[c].op = "move" /\ call'[c].request = "sent" =>
              call[c].op = "move" /\ call[c].request = "sent"
<1>1. Shape(call[c]) /\ how \notin {"idle", "keys", "statement", "graphs", "returned", "list", "describe"}
  BY DEF TypeInv, Hows
<1>2. CASE call[c].op = "move" /\ call[c].request = "sent"
  <2> DEFINE s == [call[c] EXCEPT !.pc = how, !.reads = NoGraph, !.clear = FALSE]
  <2>1. /\ Shape(s) /\ s.pc = how /\ s.bare = {} /\ s.listing = call[c].listing
    BY <1>1, <1>2 DEF Shape, CallStates, Hows
  <2>2. call' = [call EXCEPT ![c] = s]
    BY <1>2 DEF Ended
  <2> HIDE DEF s
  <2>. QED
    BY <1>2, <2>1, <2>2, OneCall
<1>3. CASE ~(call[c].op = "move" /\ call[c].request = "sent")
  <2> DEFINE s == [NewCall EXCEPT !.pc = how, !.op = call[c].op]
  <2>a. NewCall \in CallStates /\ call[c].op \in Operations /\ how \in Hows
    BY <1>1, NewCallShape DEF Shape, CallStates
  <2>1. /\ s \in CallStates
        /\ s.pc = how /\ s.bare = {} /\ s.listing = NoListing /\ s.request = "none"
        /\ s.own = {} /\ s.waits = {} /\ s.clear = FALSE
    BY <2>a DEF CallStates, NewCall, Hows
  <2>2. call' = [call EXCEPT ![c] = s]
    BY <1>3 DEF Ended
  <2> HIDE DEF s
  <2>3. Shape(s)
    BY <1>1, <2>1 DEF Shape
  <2>. QED
    BY <2>1, <2>2, <2>3, OneCall
<1>. QED
  BY <1>2, <1>3

(* A call that returned its result to the host.                            *)
LEMMA ReturnEffect ==
  ASSUME NEW c \in Calls, TypeInv, call' = [call EXCEPT ![c] = Returned(c)]
  PROVE  /\ Shapes /\ Others(c)
         /\ call'[c].pc = "returned" /\ call'[c].op = "query" /\ call'[c].bare = {}
         /\ call'[c].graphs = call[c].graphs /\ call'[c].mishap = call[c].mishap
         /\ call'[c].listing = NoListing
<1>1. call[c] \in CallStates /\ NewCall \in CallStates
  BY NewCallShape DEF TypeInv, Shape
<1> DEFINE s == Returned(c)
<1>2. /\ s \in CallStates /\ s.pc = "returned" /\ s.op = "query" /\ s.bare = {}
      /\ s.graphs = call[c].graphs /\ s.mishap = call[c].mishap /\ s.listing = NoListing
      /\ s.own = {} /\ s.waits = {} /\ s.clear = FALSE
  BY <1>1 DEF Returned, CallStates, NewCall
<1>3. call' = [call EXCEPT ![c] = s]
  OBVIOUS
<1> HIDE DEF s
<1>4. Shape(s)
  BY <1>2 DEF Shape
<1>. QED
  BY <1>2, <1>3, <1>4, OneCall

(* A result that is presented. *)
LEMMA PresentEffect ==
  ASSUME NEW c \in Calls, TypeInv, Present(c)
  PROVE  /\ Shapes /\ Others(c)
         /\ call[c].pc = "returned" /\ call'[c].pc = "ok" /\ call'[c].op = "query"
         /\ call'[c].mishap = call[c].mishap /\ call'[c].listing = NoListing
         /\ call'[c].bare = {g \in call[c].graphs : ~(registered /\ Known(g))}
<1>1. call[c] \in CallStates /\ NewCall \in CallStates
  BY NewCallShape DEF TypeInv, Shape
<1> DEFINE bare == {g \in call[c].graphs : ~(registered /\ Known(g))}
           s == [NewCall EXCEPT !.pc = "ok", !.mishap = call[c].mishap, !.bare = bare]
<1>2. bare \in SUBSET Graphs /\ call' = [call EXCEPT ![c] = s] /\ call[c].pc = "returned"
  BY <1>1 DEF Present, CallStates
<1>b. bare = {g \in call[c].graphs : ~(registered /\ Known(g))}
  OBVIOUS
<1> HIDE DEF bare
<1>3. /\ s \in CallStates /\ s.pc = "ok" /\ s.op = "query" /\ s.bare = bare
      /\ s.mishap = call[c].mishap /\ s.listing = NoListing
      /\ s.own = {} /\ s.waits = {} /\ s.clear = FALSE
  BY <1>1, <1>2 DEF CallStates, NewCall
<1> HIDE DEF s
<1>4. Shape(s)
  BY <1>3 DEF Shape
<1>5. Shapes /\ Others(c) /\ call'[c] = s
  BY <1>2, <1>4, OneCall
<1>. QED
  BY <1>b, <1>2, <1>3, <1>5

(* A call that starts to warm the cache runs the DESCs nobody runs yet and *)
(* awaits the others.                                                      *)
LEMMA FetchEffect ==
  ASSUME NEW c \in Calls, TypeInv, NEW s \in CallStates, s.op = "query", s.clear = FALSE,
         s.bare = {}, NEW known \in Catalogs, Fetch(c, s, known)
  PROVE  /\ Shapes /\ Others(c)
         /\ call'[c].pc = "keys" /\ call'[c].op = "query" /\ call'[c].bare = {}
         /\ call'[c].graphs = s.graphs /\ call'[c].mishap = s.mishap
         /\ call'[c].listing = NoListing
         /\ call'[c].own = {t \in NeededTypes(s.missing, known) : inflight[t] = NoCall}
         /\ call'[c].waits = NeededTypes(s.missing, known) \ call'[c].own
         /\ call'[c].own \subseteq GraphTypes /\ call'[c].waits \subseteq GraphTypes
         /\ inflight' = [t \in GraphTypes |-> IF t \in call'[c].own THEN c ELSE inflight[t]]
         /\ inflight' \in [GraphTypes -> Calls \cup {NoCall}]
<1> DEFINE needed == NeededTypes(s.missing, known)
           own == {t \in needed : inflight[t] = NoCall}
           waits == needed \ own
           r == [s EXCEPT !.pc = "keys", !.missing = {}, !.listing = NoListing,
                          !.own = own, !.waits = waits]
<1>1. needed \subseteq GraphTypes
  <2>1. s.missing \subseteq Graphs
    BY DEF CallStates
  <2>. QED
    BY <2>1 DEF NeededTypes, Catalogs
<1>2. own \in SUBSET GraphTypes /\ waits \in SUBSET GraphTypes
  BY <1>1
<1>3. /\ call' = [call EXCEPT ![c] = [Warming(s) EXCEPT !.own = own, !.waits = waits]]
      /\ inflight' = [t \in GraphTypes |-> IF t \in own THEN c ELSE inflight[t]]
  BY DEF Fetch
<1>4. inflight' \in [GraphTypes -> Calls \cup {NoCall}]
  BY <1>3 DEF TypeInv, TypeOK
<1>5. own = {t \in NeededTypes(s.missing, known) : inflight[t] = NoCall}
      /\ waits = NeededTypes(s.missing, known) \ own
  OBVIOUS
<1> HIDE DEF own, waits, needed
<1>6. [Warming(s) EXCEPT !.own = own, !.waits = waits] = r
  BY DEF Warming, CallStates
<1>7. /\ r \in CallStates /\ r.pc = "keys" /\ r.op = "query" /\ r.bare = {} /\ r.clear = FALSE
      /\ r.graphs = s.graphs /\ r.mishap = s.mishap /\ r.listing = NoListing
      /\ r.own = own /\ r.waits = waits
  BY <1>2 DEF CallStates
<1>8. call' = [call EXCEPT ![c] = r]
  BY <1>3, <1>6
<1> HIDE DEF r
<1>9. Shape(r)
  BY <1>7 DEF Shape
<1>10. Shapes /\ Others(c) /\ call'[c] = r
  BY <1>8, <1>9, OneCall
<1>. QED
  BY <1>2, <1>3, <1>4, <1>5, <1>7, <1>10

(* A statement is sent.  A move ends the clearness of every other.         *)
LEMMA ExecuteEffect ==
  ASSUME NEW c \in Calls, TypeInv, Execute(c)
  PROVE  /\ Shapes
         /\ \A d \in Calls \ {c} : Same(d) /\ SameAwaits(d) /\ (call'[d].clear => call[d].clear)
         /\ call[c].pc = "idle" /\ call'[c].pc = "statement" /\ call'[c].request = "sent"
         /\ call'[c].bare = {} /\ call'[c].listing = NoListing
         /\ \/ /\ call'[c].op = "query" /\ muddled' = muddled
            \/ /\ call'[c].op = "move"
               /\ muddled' = (muddled \/ \E d \in Calls : Moving(d))
               /\ \A d \in Calls \ {c} : ~call'[d].clear
               /\ call'[c].clear => \A d \in Calls : ~Moving(d)
<1>1. /\ call \in [Calls -> CallStates] /\ call[c] \in CallStates /\ call[c].pc = "idle"
      /\ call[c].op = "query" /\ call[c].listing = NoListing /\ call[c].own = {}
      /\ call[c].waits = {} /\ call[c].bare = {} /\ call[c].clear = FALSE
  BY DEF TypeInv, TypeOK, Shape, CallStates, Execute
<1>2. CASE \E gs \in SUBSET Graphs :
             call' = [call EXCEPT ![c] = [@ EXCEPT !.pc = "statement", !.graphs = gs,
                                                   !.request = "sent"]] /\ muddled' = muddled
  <2>1. PICK gs \in SUBSET Graphs :
             call' = [call EXCEPT ![c] = [call[c] EXCEPT !.pc = "statement", !.graphs = gs,
                                                   !.request = "sent"]] /\ muddled' = muddled
    BY <1>1, <1>2
  <2> DEFINE s == [call[c] EXCEPT !.pc = "statement", !.graphs = gs, !.request = "sent"]
  <2>2. /\ s \in CallStates /\ s.pc = "statement" /\ s.request = "sent" /\ s.op = "query"
        /\ s.own = {} /\ s.waits = {} /\ s.bare = {} /\ s.clear = FALSE /\ s.listing = NoListing
    BY <1>1 DEF CallStates
  <2>3. call' = [call EXCEPT ![c] = s]
    BY <2>1
  <2> HIDE DEF s
  <2>4. Shape(s)
    BY <2>2 DEF Shape
  <2>5. Shapes /\ Others(c) /\ call'[c] = s
    BY <2>3, <2>4, OneCall
  <2>. QED
    BY <1>1, <2>1, <2>2, <2>5, SameOthers
<1>3. CASE /\ \E m \in Moves :
                 call' = [Overlapped EXCEPT ![c] =
                   [@ EXCEPT !.pc = "statement", !.op = "move", !.request = "sent",
                             !.reads = SessionSetGraph(m), !.target = m[Len(m)].graph,
                             !.clear = m[Len(m)].plain /\ \A d \in Calls : ~Moving(d)]]
           /\ muddled' = (muddled \/ \E d \in Calls : Moving(d))
  <2>1. PICK m \in Moves :
                 call' = [Overlapped EXCEPT ![c] =
                   [Overlapped[c] EXCEPT !.pc = "statement", !.op = "move", !.request = "sent",
                             !.reads = SessionSetGraph(m), !.target = m[Len(m)].graph,
                             !.clear = m[Len(m)].plain /\ \A d \in Calls : ~Moving(d)]]
    BY <1>3 DEF Overlapped
  <2> DEFINE reads == SessionSetGraph(m)
             target == m[Len(m)].graph
             clear == m[Len(m)].plain /\ \A d \in Calls : ~Moving(d)
             s == [Overlapped[c] EXCEPT !.pc = "statement", !.op = "move", !.request = "sent",
                             !.reads = reads, !.target = target, !.clear = clear]
  <2>2. /\ reads \in Graphs \cup {NoGraph} /\ target \in Graphs /\ clear \in BOOLEAN
        /\ clear => reads = target /\ \A d \in Calls : ~Moving(d)
    BY SetGraphReads
  <2>4. call' = [Overlapped EXCEPT ![c] = s]
    BY <2>1
  <2> HIDE DEF reads, target, clear
  <2>5. /\ s \in CallStates /\ s.pc = "statement" /\ s.request = "sent" /\ s.op = "move"
        /\ s.own = {} /\ s.waits = {} /\ s.bare = {} /\ s.clear = clear /\ s.listing = NoListing
        /\ s.reads = reads /\ s.target = target
    BY <1>1, <2>2 DEF CallStates, Operations, Overlapped
  <2> HIDE DEF s
  <2>6. Shape(s)
    BY <2>2, <2>5 DEF Shape
  <2>7. ASSUME NEW d \in Calls
        PROVE  /\ Overlapped[d] \in CallStates /\ Shape(Overlapped[d]) /\ ~Overlapped[d].clear
               /\ d # c /\ call'[d] = Overlapped[d] => Same(d) /\ SameAwaits(d)
    <3> DEFINE o == [call[d] EXCEPT !.clear = FALSE]
    <3>1. Shape(call[d]) /\ Overlapped[d] = o
      BY DEF TypeInv, Overlapped
    <3>2. /\ o \in CallStates /\ o.clear = FALSE /\ o.pc = call[d].pc /\ o.op = call[d].op
          /\ o.graphs = call[d].graphs /\ o.reads = call[d].reads
          /\ o.request = call[d].request /\ o.missing = call[d].missing
          /\ o.listing = call[d].listing /\ o.current = call[d].current
          /\ o.home = call[d].home /\ o.target = call[d].target
          /\ o.bare = call[d].bare /\ o.own = call[d].own /\ o.waits = call[d].waits
          /\ o.mishap = call[d].mishap
      BY <3>1 DEF Shape, CallStates
    <3> HIDE DEF o
    <3>4. Shape(o)
      BY <3>1, <3>2 DEF Shape
    <3>. QED
      BY <3>1, <3>2, <3>4 DEF Same, SameAwaits
  <2>8. Overlapped \in [Calls -> CallStates]
    BY <2>7 DEF Overlapped
  <2>9. /\ call' \in [Calls -> CallStates] /\ call'[c] = s
        /\ \A d \in Calls \ {c} : call'[d] = Overlapped[d]
    BY <2>4, <2>5, <2>8
  <2>10. Shapes
    BY <2>6, <2>7, <2>9 DEF Shapes
  <2>11. \A d \in Calls \ {c} : Same(d) /\ SameAwaits(d) /\ ~call'[d].clear
    BY <2>7, <2>9
  <2>. QED
    BY <1>1, <1>3, <2>2, <2>5, <2>9, <2>10, <2>11
<1>. QED
  BY <1>2, <1>3 DEF Execute

(* The connection of the call is not there. *)
LEMMA UnknownEffect ==
  ASSUME NEW c \in Calls, TypeInv, UnknownConnection(c)
  PROVE  /\ Shapes /\ Others(c)
         /\ call[c].pc = "idle" /\ call'[c].pc = "threw" /\ call'[c].op = "query"
         /\ call'[c].bare = {} /\ call'[c].listing = NoListing
<1> DEFINE s == [call[c] EXCEPT !.pc = "threw"]
<1>1. Shape(call[c]) /\ call[c].pc = "idle" /\ call' = [call EXCEPT ![c] = s]
  BY DEF UnknownConnection, TypeInv
<1>2. /\ s.pc = "threw" /\ s.op = "query" /\ s.bare = {} /\ s.listing = NoListing /\ Shape(s)
  BY <1>1 DEF Shape, CallStates
<1> HIDE DEF s
<1>. QED
  BY <1>1, <1>2, OneCall

(* nebula_schema starts. *)
LEMMA SchemaEffect ==
  ASSUME NEW c \in Calls, TypeInv, Schema(c)
  PROVE  /\ Shapes /\ Others(c)
         /\ call[c].pc = "idle" /\ call'[c].pc = "list" /\ call'[c].op = "schema"
         /\ call'[c].bare = {} /\ call'[c].listing = NoListing /\ call'[c].current = tracked
         /\ call'[c].home # NoGraph => /\ ~muddled /\ \A d \in Calls : ~Moving(d)
                                       /\ call'[c].home = session
<1> DEFINE home == IF muddled \/ \E d \in Calls : Moving(d) THEN NoGraph ELSE session
<1>1. PICK argument \in {{}} \cup {{g} : g \in Graphs} :
        call' = [call EXCEPT ![c] =
          [@ EXCEPT !.pc = "list", !.op = "schema", !.graphs = argument, !.current = tracked,
                    !.home = home]]
  BY DEF Schema
<1>2. /\ argument \in SUBSET Graphs /\ tracked \in Graphs \cup {NoGraph}
      /\ home \in Graphs \cup {NoGraph} /\ Shape(call[c]) /\ call[c].pc = "idle"
  BY DEF TypeInv, TypeOK, Schema
<1>3. home # NoGraph => ~muddled /\ home = session /\ \A d \in Calls : ~Moving(d)
  OBVIOUS
<1> HIDE DEF home
<1> DEFINE s == [call[c] EXCEPT !.pc = "list", !.op = "schema", !.graphs = argument,
                                !.current = tracked, !.home = home]
<1>4. /\ s.pc = "list" /\ s.op = "schema" /\ s.bare = {} /\ s.listing = NoListing
      /\ s.current = tracked /\ s.home = home /\ s \in CallStates
      /\ s.own = {} /\ s.waits = {} /\ s.clear = FALSE
  BY <1>2 DEF Shape, CallStates, Operations
<1>5. call' = [call EXCEPT ![c] = s]
  BY <1>1
<1> HIDE DEF s
<1>6. Shape(s)
  BY <1>4 DEF Shape
<1>. QED
  BY <1>2, <1>3, <1>4, <1>5, <1>6, OneCall

LEMMA ResolveType ==
  ASSUME NEW listing \in Catalogs, NEW argument \in SUBSET Graphs, NEW current
  PROVE  ResolveTarget(listing, argument, current) \in Graphs \cup {NoGraph}
<1>1. Listed(listing) \subseteq Graphs
  BY DEF Listed
<1>2. CASE argument # {}
  BY <1>2, SomeMember DEF ResolveTarget
<1>3. CASE argument = {} /\ current \in Listed(listing)
  BY <1>1, <1>3 DEF ResolveTarget
<1>4. CASE argument = {} /\ current \notin Listed(listing)
  <2>1. ResolveTarget(listing, argument, current) = SoleOrNone(listing)
    BY <1>4 DEF ResolveTarget
  <2>2. CASE Cardinality(Listed(listing)) = 1
    <3>1. Listed(listing) # {}
      BY <2>2, FS_EmptySet
    <3>. QED
      BY <1>1, <2>1, <2>2, <3>1, SomeMember DEF SoleOrNone
  <2>3. CASE Cardinality(Listed(listing)) # 1
    BY <2>1, <2>3 DEF SoleOrNone
  <2>. QED
    BY <2>2, <2>3
<1>. QED
  BY <1>2, <1>3, <1>4

(* nebula_schema knows its graph, or gives up. *)
LEMMA ListedEffect ==
  ASSUME NEW c \in Calls, TypeInv, SchemaListed(c)
  PROVE  \/ /\ call[c].pc = "list" /\ call' = [call EXCEPT ![c] = Ended(c, "threw")]
         \/ /\ Shapes /\ Others(c)
            /\ call[c].pc = "list" /\ call[c].listing # NoListing
            /\ call'[c].pc = "describe" /\ call'[c].op = "schema" /\ call'[c].bare = {}
            /\ call'[c].graphs = call[c].graphs /\ call'[c].listing = call[c].listing
            /\ call'[c].current = call[c].current /\ call'[c].home = call[c].home
            /\ call'[c].target
                 = ResolveTarget(call[c].listing, call[c].graphs, call[c].current)
<1> DEFINE target == ResolveTarget(call[c].listing, call[c].graphs, call[c].current)
<1>1. Shape(call[c]) /\ call[c].pc = "list" /\ call[c].listing # NoListing
  BY DEF SchemaListed, TypeInv
<1>2. call[c].listing \in Catalogs /\ call[c].graphs \in SUBSET Graphs
  BY <1>1 DEF Shape, CallStates
<1>3. target \in Graphs \cup {NoGraph}
  BY <1>2, ResolveType
<1>4. CASE call' = [call EXCEPT ![c] = [@ EXCEPT !.pc = "describe", !.target = target]]
  <2>t. target = ResolveTarget(call[c].listing, call[c].graphs, call[c].current)
    OBVIOUS
  <2> HIDE DEF target
  <2> DEFINE s == [call[c] EXCEPT !.pc = "describe", !.target = target]
  <2>1. /\ Shape(s) /\ s.pc = "describe" /\ s.op = "schema" /\ s.bare = {}
        /\ s.graphs = call[c].graphs /\ s.listing = call[c].listing
        /\ s.current = call[c].current /\ s.home = call[c].home /\ s.target = target
    BY <1>1, <1>3 DEF Shape, CallStates
  <2>2. call' = [call EXCEPT ![c] = s]
    BY <1>4
  <2> HIDE DEF s
  <2>. QED
    BY <1>1, <2>t, <2>1, <2>2, OneCall
<1>. QED
  BY <1>1, <1>4 DEF SchemaListed

(* The server handles a statement. *)
LEMMA ServerEffect ==
  ASSUME NEW c \in Calls, TypeInv, NEW how \in {"done", "refused"}, call[c].request = "sent",
         call' = [call EXCEPT ![c].request = how]
  PROVE  /\ Shapes /\ Others(c)
         /\ call'[c].request = how
         /\ call'[c].pc = call[c].pc /\ call'[c].op = call[c].op
         /\ call'[c].graphs = call[c].graphs /\ call'[c].listing = call[c].listing
         /\ call'[c].missing = call[c].missing /\ call'[c].target = call[c].target
         /\ call'[c].current = call[c].current /\ call'[c].home = call[c].home
         /\ call'[c].bare = call[c].bare /\ call'[c].clear = call[c].clear
         /\ SameAwaits(c)
<1> DEFINE s == [call[c] EXCEPT !.request = how]
<1>1. Shape(call[c]) /\ call' = [call EXCEPT ![c] = s]
  BY DEF TypeInv
<1>2. /\ Shape(s) /\ s.request = how /\ s.pc = call[c].pc /\ s.op = call[c].op
      /\ s.graphs = call[c].graphs /\ s.listing = call[c].listing /\ s.missing = call[c].missing
      /\ s.target = call[c].target /\ s.current = call[c].current /\ s.home = call[c].home
      /\ s.bare = call[c].bare /\ s.clear = call[c].clear /\ s.own = call[c].own
      /\ s.waits = call[c].waits /\ s.mishap = call[c].mishap
  BY <1>1 DEF Shape, CallStates
<1> HIDE DEF s
<1>3. Shapes /\ Others(c) /\ call'[c] = s
  BY <1>1, <1>2, OneCall
<1>. QED
  BY <1>2, <1>3 DEF SameAwaits

LEMMA ListsEffect ==
  ASSUME NEW c \in Calls, TypeInv, ServerLists(c)
  PROVE  /\ Shapes /\ Others(c) /\ call[c].pc \in {"graphs", "list"}
         /\ call'[c].listing = catalog /\ call'[c].request = call[c].request
         /\ call'[c].pc = call[c].pc /\ call'[c].op = call[c].op
         /\ call'[c].graphs = call[c].graphs /\ call'[c].missing = call[c].missing
         /\ call'[c].current = call[c].current /\ call'[c].home = call[c].home
         /\ call'[c].bare = call[c].bare /\ SameAwaits(c)
<1> DEFINE s == [call[c] EXCEPT !.listing = catalog]
<1>1. /\ Shape(call[c]) /\ call' = [call EXCEPT ![c] = s] /\ catalog \in Catalogs
      /\ call[c].pc \in {"graphs", "list"}
  BY DEF TypeInv, TypeOK, ServerLists
<1>2. /\ Shape(s) /\ s.listing = catalog /\ s.request = call[c].request /\ s.pc = call[c].pc
      /\ s.op = call[c].op /\ s.graphs = call[c].graphs /\ s.missing = call[c].missing
      /\ s.current = call[c].current /\ s.home = call[c].home
      /\ s.bare = call[c].bare /\ s.own = call[c].own
      /\ s.waits = call[c].waits /\ s.mishap = call[c].mishap
  BY <1>1 DEF Shape, CallStates
<1> HIDE DEF s
<1>3. Shapes /\ Others(c) /\ call'[c] = s
  BY <1>1, <1>2, OneCall
<1>. QED
  BY <1>1, <1>2, <1>3 DEF SameAwaits

(* A successful statement: the call ended, returned its result, started to *)
(* warm the cache, or asks for the graphs first.                           *)
LEMMA StatementOkEffect ==
  ASSUME NEW c \in Calls, TypeInv, StatementOk(c)
  PROVE  /\ call[c].pc = "statement" /\ call[c].request = "done"
         /\ \/ /\ call[c].op = "move" /\ call' = [call EXCEPT ![c] = Ended(c, "ok")]
               /\ tracked' = IF call[c].reads # NoGraph THEN call[c].reads ELSE tracked
               /\ muddled' = ~call[c].clear /\ inflight' = inflight
            \/ /\ call[c].op = "query" /\ \A g \in call[c].graphs : Known(g)
               /\ call' = [call EXCEPT ![c] = Returned(c)]
               /\ UNCHANGED <<tracked, muddled, inflight>>
            \/ /\ call[c].op = "query" /\ UNCHANGED <<tracked, muddled>>
               /\ \E s \in CallStates :
                    /\ s.op = "query" /\ s.graphs = call[c].graphs /\ s.mishap = call[c].mishap
                    /\ s.clear = FALSE /\ s.bare = {}
                    /\ \A g \in s.graphs : g \in s.missing \/ Known(g)
                    /\ \A g \in s.missing : types[g] # NoType
                    /\ Fetch(c, s, types)
            \/ /\ call[c].op = "query" /\ UNCHANGED <<tracked, muddled, inflight>>
               /\ Shapes /\ Others(c) /\ call'[c].pc = "graphs" /\ call'[c].op = "query"
               /\ call'[c].graphs = call[c].graphs /\ call'[c].bare = {}
               /\ call'[c].listing = call[c].listing
               /\ \A g \in call[c].graphs : g \in call'[c].missing \/ Known(g)
<1> DEFINE missing == {g \in call[c].graphs : ~Known(g)}
           s == [call[c] EXCEPT !.missing = missing]
<1>1. Shape(call[c]) /\ call[c].pc = "statement" /\ call[c].request = "done"
  BY DEF StatementOk, TypeInv
<1>2. missing \in SUBSET Graphs /\ \A g \in call[c].graphs : g \in missing \/ Known(g)
  BY <1>1 DEF Shape, CallStates
<1>3. missing = {} => \A g \in call[c].graphs : Known(g)
  OBVIOUS
<1>a. \/ /\ s.op = "move"
         /\ tracked' = IF s.reads # NoGraph THEN s.reads ELSE tracked
         /\ muddled' = ~s.clear
         /\ call' = [call EXCEPT ![c] = Ended(c, "ok")]
         /\ UNCHANGED inflight
      \/ /\ s.op = "query" /\ s.missing = {}
         /\ call' = [call EXCEPT ![c] = Returned(c)]
         /\ UNCHANGED <<tracked, inflight, muddled>>
      \/ /\ s.op = "query" /\ s.missing # {}
         /\ \A g \in s.missing : types[g] # NoType
         /\ Fetch(c, s, types)
         /\ UNCHANGED <<tracked, muddled>>
      \/ /\ s.op = "query" /\ \E g \in s.missing : types[g] = NoType
         /\ call' = [call EXCEPT ![c] = [s EXCEPT !.pc = "graphs"]]
         /\ UNCHANGED <<tracked, inflight, muddled>>
  BY DEF StatementOk
<1> HIDE DEF missing
<1>4. /\ s \in CallStates /\ s.op = call[c].op /\ s.reads = call[c].reads
      /\ s.clear = call[c].clear /\ s.missing = missing /\ s.graphs = call[c].graphs
      /\ s.mishap = call[c].mishap /\ s.bare = {} /\ s.own = {} /\ s.waits = {}
      /\ s.listing = call[c].listing /\ (s.op = "query" => s.clear = FALSE)
  BY <1>1, <1>2 DEF Shape, CallStates
<1> HIDE DEF s
<1>b. CASE s.op = "move" /\ call' = [call EXCEPT ![c] = Ended(c, "ok")]
  BY <1>1, <1>a, <1>4, <1>b
<1>c. CASE s.op = "query" /\ s.missing = {}
  BY <1>1, <1>3, <1>a, <1>4, <1>c
<1>d. CASE /\ s.op = "query" /\ \A g \in s.missing : types[g] # NoType
           /\ Fetch(c, s, types) /\ UNCHANGED <<tracked, muddled>>
  BY <1>1, <1>2, <1>d, <1>4
<1>e. CASE /\ s.op = "query" /\ call' = [call EXCEPT ![c] = [s EXCEPT !.pc = "graphs"]]
           /\ UNCHANGED <<tracked, inflight, muddled>>
  <2> DEFINE r == [s EXCEPT !.pc = "graphs"]
  <2>1. /\ r \in CallStates /\ r.pc = "graphs" /\ r.op = "query" /\ r.graphs = call[c].graphs
        /\ r.bare = {} /\ r.own = {} /\ r.waits = {} /\ r.clear = FALSE
        /\ r.listing = call[c].listing /\ r.missing = missing
    BY <1>4, <1>e DEF CallStates
  <2>2. call' = [call EXCEPT ![c] = r]
    BY <1>e
  <2> HIDE DEF r
  <2>3. Shape(r)
    BY <2>1 DEF Shape
  <2>4. Shapes /\ Others(c) /\ call'[c] = r
    BY <2>2, <2>3, OneCall
  <2>. QED
    BY <1>1, <1>2, <1>4, <1>e, <2>1, <2>4
<1>. QED
  <2>1. \/ s.op = "move" /\ call' = [call EXCEPT ![c] = Ended(c, "ok")]
        \/ s.op = "query" /\ s.missing = {}
        \/ /\ s.op = "query" /\ \A g \in s.missing : types[g] # NoType
           /\ Fetch(c, s, types) /\ UNCHANGED <<tracked, muddled>>
        \/ /\ s.op = "query" /\ call' = [call EXCEPT ![c] = [s EXCEPT !.pc = "graphs"]]
           /\ UNCHANGED <<tracked, inflight, muddled>>
    BY <1>a, Zenon
  <2>. QED
    BY <1>b, <1>c, <1>d, <1>e, <2>1, Zenon

(* What the end of a DESC changes: only what the calls await, and whether  *)
(* they met a mishap.                                                      *)
LEMMA SettledEffect ==
  ASSUME NEW c \in Calls, NEW t \in GraphTypes, TypeInv, Described(c, t) \/ NotDescribed(c, t)
  PROVE  /\ Shapes /\ call[c].pc = "keys"
         /\ \A d \in Calls :
              /\ Same(d) /\ call'[d].clear = call[d].clear
              /\ d = c => call'[d].own = call[d].own \ {t}
              /\ d # c => call'[d].own = call[d].own
              /\ call'[d].waits = call[d].waits \ {t}
              /\ ~call'[d].mishap => /\ ~call[d].mishap
                                     /\ NotDescribed(c, t) => d # c /\ t \notin call[d].waits
<1> DEFINE Own(d) == call[d].own \ (IF d = c THEN {t} ELSE {})
           Waits(d) == call[d].waits \ {t}
<1>0. call[c].pc = "keys"
  BY DEF Described, NotDescribed, TypeInv, Shape
<1>1. \E m \in [Calls -> BOOLEAN] :
        /\ call' = [d \in Calls |-> [call[d] EXCEPT !.own = Own(d), !.waits = Waits(d),
                                                   !.mishap = m[d]]]
        /\ \A d \in Calls : ~m[d] => /\ ~call[d].mishap
                                     /\ NotDescribed(c, t) => d # c /\ t \notin call[d].waits
  <2>1. CASE NotDescribed(c, t)
    <3> DEFINE m == [d \in Calls |-> call[d].mishap \/ (TRUE /\ (d = c \/ t \in call[d].waits))]
    <3>1. call' = [d \in Calls |-> [call[d] EXCEPT !.own = Own(d), !.waits = Waits(d),
                                                   !.mishap = m[d]]]
      BY <2>1 DEF NotDescribed, Settled
    <3>2. m \in [Calls -> BOOLEAN]
      OBVIOUS
    <3>3. \A d \in Calls : ~m[d] => ~call[d].mishap /\ d # c /\ t \notin call[d].waits
      OBVIOUS
    <3>. QED
      BY <3>1, <3>2, <3>3, Zenon
  <2>2. CASE Described(c, t) /\ ~NotDescribed(c, t)
    <3> DEFINE m == [d \in Calls |-> call[d].mishap \/ (FALSE /\ (d = c \/ t \in call[d].waits))]
    <3>1. call' = [d \in Calls |-> [call[d] EXCEPT !.own = Own(d), !.waits = Waits(d),
                                                   !.mishap = m[d]]]
      BY <2>2 DEF Described, Settled
    <3>2. m \in [Calls -> BOOLEAN]
      OBVIOUS
    <3>3. \A d \in Calls : ~m[d] => ~call[d].mishap
      OBVIOUS
    <3>. QED
      BY <2>2, <3>1, <3>2, <3>3, Zenon
  <2>. QED
    BY <2>1, <2>2
<1>2. PICK m \in [Calls -> BOOLEAN] :
        /\ call' = [d \in Calls |-> [call[d] EXCEPT !.own = Own(d), !.waits = Waits(d),
                                                   !.mishap = m[d]]]
        /\ \A d \in Calls : ~m[d] => /\ ~call[d].mishap
                                     /\ NotDescribed(c, t) => d # c /\ t \notin call[d].waits
  BY <1>1
<1>3. ASSUME NEW d \in Calls
      PROVE  /\ Shape(call'[d]) /\ Same(d) /\ call'[d].clear = call[d].clear
             /\ call'[d].own = Own(d) /\ call'[d].waits = Waits(d)
             /\ call'[d].mishap = m[d]
  <2> DEFINE own == Own(d)
             waits == Waits(d)
             mishap == m[d]
             s == [call[d] EXCEPT !.own = own, !.waits = waits, !.mishap = mishap]
  <2>1. Shape(call[d])
    BY DEF TypeInv
  <2>2. call'[d] = s
    BY <1>2
  <2>3. /\ own \in SUBSET GraphTypes /\ waits \in SUBSET GraphTypes /\ mishap \in BOOLEAN
        /\ call[d].own = {} => own = {}
        /\ call[d].waits = {} => waits = {}
    BY <2>1 DEF Shape, CallStates
  <2>4. own = Own(d) /\ waits = Waits(d) /\ mishap = m[d]
    OBVIOUS
  <2> HIDE DEF own, waits, mishap, Own, Waits
  <2>5. /\ s \in CallStates /\ s.own = own /\ s.waits = waits /\ s.mishap = mishap
        /\ s.pc = call[d].pc /\ s.op = call[d].op /\ s.graphs = call[d].graphs
        /\ s.reads = call[d].reads /\ s.request = call[d].request
        /\ s.missing = call[d].missing /\ s.listing = call[d].listing
        /\ s.current = call[d].current /\ s.home = call[d].home /\ s.target = call[d].target
        /\ s.bare = call[d].bare /\ s.clear = call[d].clear
    BY <2>1, <2>3 DEF Shape, CallStates
  <2> HIDE DEF s
  <2>6. Shape(s)
    BY <2>1, <2>3, <2>5 DEF Shape
  <2>. QED
    BY <2>2, <2>4, <2>5, <2>6 DEF Same
<1>4. Shapes
  <2>1. call' = [d \in Calls |-> call'[d]] /\ \A d \in Calls : call'[d] \in CallStates
    BY <1>2, <1>3 DEF Shape
  <2>. QED
    BY <1>3, <2>1 DEF Shapes
<1>b. \A d \in Calls : ~m[d] => /\ ~call[d].mishap
                                /\ NotDescribed(c, t) => d # c /\ t \notin call[d].waits
  BY <1>2, Zenon
<1>5. ASSUME NEW d \in Calls
      PROVE  ~call'[d].mishap => /\ ~call[d].mishap
                                 /\ NotDescribed(c, t) => d # c /\ t \notin call[d].waits
  <2>1. call'[d].mishap = m[d]
    BY <1>3
  <2>. QED
    BY <1>b, <2>1
<1>6. ASSUME NEW d \in Calls
      PROVE  /\ d = c => call'[d].own = call[d].own \ {t}
             /\ d # c => call'[d].own = call[d].own
  BY <1>3
<1>. QED
  BY <1>0, <1>3, <1>4, <1>5, <1>6

(* SHOW GRAPHS was answered, or failed: the DESCs are next.                *)
LEMMA ShownEffect ==
  ASSUME NEW c \in Calls, TypeInv, GraphsShown(c) \/ GraphsNotShown(c)
  PROVE  /\ call[c].pc = "graphs"
         /\ \E s \in CallStates, known \in Catalogs :
              /\ Fetch(c, s, known) /\ types' = known
              /\ s.op = "query" /\ s.clear = FALSE /\ s.bare = {} /\ s.graphs = call[c].graphs
              /\ s.missing = call[c].missing
              /\ \/ s.mishap = TRUE /\ known = types
                 \/ /\ s.mishap = call[c].mishap /\ call[c].listing # NoListing
                    /\ \A g \in Graphs :
                         known[g] = IF call[c].listing[g] # NoType THEN call[c].listing[g]
                                    ELSE types[g]
<1>1. Shape(call[c]) /\ call[c].pc = "graphs" /\ types \in Catalogs
  BY DEF GraphsShown, GraphsNotShown, TypeInv, TypeOK
<1>2. call[c] \in CallStates /\ call[c].op = "query" /\ call[c].clear = FALSE /\ call[c].bare = {}
  BY <1>1 DEF Shape, CallStates
<1>3. CASE GraphsShown(c)
  <2> DEFINE seen == call[c].listing
             known == [g \in Graphs |-> IF seen[g] # NoType THEN seen[g] ELSE types[g]]
  <2>1. known \in Catalogs
    BY <1>1, <1>2, <1>3 DEF GraphsShown, CallStates, Catalogs
  <2>2. Fetch(c, call[c], known) /\ types' = known /\ seen # NoListing
    BY <1>3 DEF GraphsShown
  <2>3. \A g \in Graphs :
          known[g] = IF call[c].listing[g] # NoType THEN call[c].listing[g] ELSE types[g]
    OBVIOUS
  <2> HIDE DEF known
  <2>. QED
    BY <1>1, <1>2, <2>1, <2>2, <2>3
<1>4. CASE GraphsNotShown(c)
  <2> DEFINE s == [call[c] EXCEPT !.mishap = TRUE]
  <2>1. /\ s \in CallStates /\ s.graphs = call[c].graphs /\ s.mishap = TRUE
        /\ s.op = "query" /\ s.clear = FALSE /\ s.bare = {} /\ s.missing = call[c].missing
    BY <1>2 DEF CallStates
  <2>2. Fetch(c, s, types) /\ types' = types
    BY <1>4 DEF GraphsNotShown
  <2> HIDE DEF s
  <2>. QED
    BY <1>1, <2>1, <2>2
<1>. QED
  BY <1>3, <1>4

-----------------------------------------------------------------------------
(* The calls keep their shape. *)
LEMMA ShapesStep ==
  ASSUME TypeInv, [Next]_vars
  PROVE  Shapes
<1>1. ASSUME NEW c \in Calls, CallNext(c) PROVE Shapes
  <2>t. Shape(call[c]) /\ types \in Catalogs
    BY DEF TypeInv, TypeOK
  <2>e. ASSUME NEW how \in Hows, call[c].pc # "keys", call[c].pc # "ok",
               call' = [call EXCEPT ![c] = Ended(c, how)]
        PROVE  Shapes
    BY <2>e, EndEffect
  <2>1. CASE Execute(c) \/ UnknownConnection(c) \/ Schema(c)
    BY <2>1, ExecuteEffect, UnknownEffect, SchemaEffect
  <2>2. CASE StatementOk(c)
    <3>1. call[c].pc = "statement"
      BY <2>2, StatementOkEffect
    <3>2. CASE call' = [call EXCEPT ![c] = Ended(c, "ok")]
      BY <2>e, <3>1, <3>2 DEF Hows
    <3>3. CASE call' = [call EXCEPT ![c] = Returned(c)]
      BY <3>3, ReturnEffect
    <3>4. CASE \E s \in CallStates : /\ s.op = "query" /\ s.clear = FALSE /\ s.bare = {}
                                     /\ Fetch(c, s, types)
      BY <2>t, <3>4, FetchEffect
    <3>. QED
      BY <2>2, <3>2, <3>3, <3>4, StatementOkEffect
  <2>3. CASE StatementError(c) \/ StatementLost(c) \/ SchemaDescribed(c) \/ SchemaFailed(c)
    <3>1. PICK how \in Hows : call' = [call EXCEPT ![c] = Ended(c, how)]
      BY <2>3 DEF StatementError, StatementLost, SchemaDescribed, SchemaFailed, Hows
    <3>2. call[c].pc \in {"statement", "list", "describe"}
      BY <2>3 DEF StatementError, StatementLost, SchemaDescribed, SchemaFailed
    <3>. QED
      BY <2>e, <3>1, <3>2
  <2>4. CASE GraphsShown(c) \/ GraphsNotShown(c)
    <3>1. PICK s \in CallStates, known \in Catalogs :
            Fetch(c, s, known) /\ s.op = "query" /\ s.clear = FALSE /\ s.bare = {}
      BY <2>4, ShownEffect
    <3>. QED
      BY <3>1, FetchEffect
  <2>5. CASE Warmed(c)
    BY <2>5, ReturnEffect DEF Warmed
  <2>6. CASE Present(c)
    BY <2>6, PresentEffect
  <2>7. CASE \E t \in GraphTypes : Described(c, t) \/ NotDescribed(c, t)
    BY <2>7, SettledEffect
  <2>8. CASE SchemaListed(c)
    <3>1. CASE call[c].pc = "list" /\ call' = [call EXCEPT ![c] = Ended(c, "threw")]
      BY <2>e, <3>1 DEF Hows
    <3>. QED
      BY <2>8, <3>1, ListedEffect
  <2>9. CASE ServerExecutes(c) \/ ServerRefuses(c)
    <3>1. PICK how \in {"done", "refused"} :
            call[c].request = "sent" /\ call' = [call EXCEPT ![c].request = how]
      BY <2>9 DEF ServerExecutes, ServerRefuses
    <3>. QED
      BY <3>1, ServerEffect
  <2>10. CASE ServerLists(c)
    BY <2>10, ListsEffect
  <2>. QED
    BY <1>1, <2>1, <2>2, <2>3, <2>4, <2>5, <2>6, <2>7, <2>8, <2>9, <2>10
       DEF CallNext, ExecuteStep, SchemaStep
<1>2. CASE Disconnect \/ CatalogChange \/ UNCHANGED vars
  <2>1. call' = call
    BY <1>2 DEF Disconnect, CatalogChange, vars
  <2>. QED
    BY <2>1 DEF Shapes, TypeInv, TypeOK
<1>. QED
  BY <1>1, <1>2 DEF Next

OtherTypes ==
  /\ tracked \in Graphs \cup {NoGraph} /\ types \in Catalogs /\ keys \in SUBSET GraphTypes
  /\ inflight \in [GraphTypes -> Calls \cup {NoCall}] /\ registered \in BOOLEAN
  /\ session \in Graphs \cup {NoGraph} /\ catalog \in Catalogs
  /\ changed \in SUBSET Graphs /\ muddled \in BOOLEAN

LEMMA TypeStep == TypeInv /\ [Next]_vars => TypeInv'
<1> SUFFICES ASSUME TypeInv, [Next]_vars PROVE TypeInv'
  OBVIOUS
<1>s. Shapes
  BY ShapesStep
<1>r. OtherTypes
  BY DEF TypeInv, TypeOK, OtherTypes
<1>1. ASSUME NEW c \in Calls, CallNext(c) PROVE OtherTypes'
  <2>0. Shape(call[c])
    BY DEF TypeInv
  <2>1. CASE Execute(c) \/ UnknownConnection(c) \/ Schema(c)
    BY <1>r, <2>1 DEF OtherTypes, Execute, UnknownConnection, Schema, cache, server
  <2>2. CASE StatementOk(c)
    <3>1. UNCHANGED <<types, keys, registered, session, catalog, changed>>
      BY <2>2 DEF StatementOk, server
    <3>2. tracked' \in Graphs \cup {NoGraph} /\ muddled' \in BOOLEAN
      <4>1. call[c].reads \in Graphs \cup {NoGraph} /\ call[c].clear \in BOOLEAN
        BY <2>0 DEF Shape, CallStates
      <4>2. \/ /\ tracked' = IF call[c].reads # NoGraph THEN call[c].reads ELSE tracked
               /\ muddled' = ~call[c].clear
            \/ tracked' = tracked /\ muddled' = muddled
        BY <2>2, StatementOkEffect
      <4>. QED
        BY <1>r, <4>1, <4>2 DEF OtherTypes
    <3>3. inflight' \in [GraphTypes -> Calls \cup {NoCall}]
      <4>1. CASE inflight' = inflight
        BY <1>r, <4>1 DEF OtherTypes
      <4>2. CASE \E s \in CallStates : /\ s.op = "query" /\ s.clear = FALSE /\ s.bare = {}
                                       /\ Fetch(c, s, types)
        BY <1>r, <4>2, FetchEffect DEF OtherTypes
      <4>. QED
        BY <2>2, <4>1, <4>2, StatementOkEffect
    <3>. QED
      BY <1>r, <3>1, <3>2, <3>3 DEF OtherTypes
  <2>3. CASE StatementError(c) \/ StatementLost(c) \/ Warmed(c) \/ Present(c)
             \/ SchemaListed(c) \/ SchemaDescribed(c) \/ SchemaFailed(c)
    BY <1>r, <2>3 DEF OtherTypes, StatementError, StatementLost, Warmed, Present, SchemaListed,
                      SchemaDescribed, SchemaFailed, cache, server
  <2>4. CASE GraphsShown(c) \/ GraphsNotShown(c)
    <3>1. PICK s \in CallStates, known \in Catalogs :
            /\ Fetch(c, s, known) /\ types' = known
            /\ s.op = "query" /\ s.clear = FALSE /\ s.bare = {}
      BY <2>4, ShownEffect
    <3>2. inflight' \in [GraphTypes -> Calls \cup {NoCall}]
      BY <3>1, FetchEffect
    <3>3. UNCHANGED <<tracked, keys, registered, session, catalog, changed, muddled>>
      BY <2>4 DEF GraphsShown, GraphsNotShown, server
    <3>. QED
      BY <1>r, <3>1, <3>2, <3>3 DEF OtherTypes
  <2>5. CASE \E t \in GraphTypes : Described(c, t) \/ NotDescribed(c, t)
    BY <1>r, <2>5 DEF OtherTypes, Described, NotDescribed, server
  <2>6. CASE ServerExecutes(c)
    <3>1. session' \in Graphs \cup {NoGraph}
      BY <1>r, <2>0, <2>6 DEF OtherTypes, ServerExecutes, Shape
    <3>. QED
      BY <1>r, <2>6, <3>1 DEF OtherTypes, ServerExecutes, cache
  <2>7. CASE ServerRefuses(c) \/ ServerLists(c)
    BY <1>r, <2>7 DEF OtherTypes, ServerRefuses, ServerLists, cache, server
  <2>. QED
    BY <1>1, <2>1, <2>2, <2>3, <2>4, <2>5, <2>6, <2>7 DEF CallNext, ExecuteStep, SchemaStep
<1>2. ASSUME Disconnect \/ UNCHANGED vars PROVE OtherTypes'
  BY <1>r, <1>2 DEF OtherTypes, Disconnect, vars, cache, server
<1>3. ASSUME CatalogChange PROVE OtherTypes'
  BY <1>r, <1>3 DEF OtherTypes, CatalogChange, cache, Catalogs
<1>4. OtherTypes'
  BY <1>1, <1>2, <1>3 DEF Next
<1>. QED
  BY <1>s, <1>4 DEF TypeInv, TypeOK, OtherTypes, Shapes

LEMMA TypeStart == Init => TypeInv
<1> SUFFICES ASSUME Init PROVE TypeInv
  OBVIOUS
<1>1. call \in [Calls -> CallStates] /\ \A c \in Calls : Shape(call[c])
  BY NewCallShape DEF Init, Shape
<1>2. catalog \in Catalogs
  BY CatalogsAssumption DEF Init
<1>. QED
  BY <1>1, <1>2 DEF Init, TypeInv, TypeOK, Catalogs

(* Every reachable state is well typed. *)
THEOREM TypeCorrect == Spec => []TypeOK
<1>1. TypeInv => TypeOK
  BY DEF TypeInv
<1>. QED
  BY <1>1, TypeStart, TypeStep, PTL DEF Spec

(***************************************************************************)
(* One DESC per graph type.  The table alone says nothing: the proof needs *)
(* that it points to the call that runs the DESC and at no other.          *)
(***************************************************************************)
FetchInv ==
  /\ \A c \in Calls, t \in GraphTypes :
       /\ t \in call[c].own => inflight[t] = c
       /\ t \in call[c].waits => inflight[t] \notin {c, NoCall}
  /\ \A t \in GraphTypes : inflight[t] # NoCall => t \in call[inflight[t]].own

(* A step that leaves the table and what the calls await alone. *)
LEMMA FetchKept ==
  ASSUME TypeInv, FetchInv, inflight' = inflight,
         \A d \in Calls : call'[d].own = call[d].own /\ call'[d].waits = call[d].waits
  PROVE  FetchInv'
<1>1. inflight \in [GraphTypes -> Calls \cup {NoCall}]
  BY DEF TypeInv, TypeOK
<1>. QED
  BY <1>1 DEF FetchInv

(* So does a step of one call that is not and will not be warming.         *)
LEMMA FetchOutside ==
  ASSUME NEW c \in Calls, TypeInv, FetchInv, inflight' = inflight, Shapes,
         \A d \in Calls \ {c} : SameAwaits(d),
         call[c].own = {}, call[c].waits = {}, call'[c].pc # "keys"
  PROVE  FetchInv'
<1>1. call'[c].own = {} /\ call'[c].waits = {}
  BY DEF Shapes, Shape
<1>. QED
  BY <1>1, FetchKept DEF SameAwaits

LEMMA FetchStarted ==
  ASSUME NEW c \in Calls, TypeInv, FetchInv, call[c].pc # "keys",
         NEW s \in CallStates, s.op = "query", s.clear = FALSE, s.bare = {},
         NEW known \in Catalogs, Fetch(c, s, known)
  PROVE  FetchInv'
<1> DEFINE own == call'[c].own
           waits == call'[c].waits
<1>1. /\ Others(c)
      /\ own = {t \in NeededTypes(s.missing, known) : inflight[t] = NoCall}
      /\ waits = NeededTypes(s.missing, known) \ own
      /\ own \subseteq GraphTypes /\ waits \subseteq GraphTypes
      /\ inflight' = [t \in GraphTypes |-> IF t \in own THEN c ELSE inflight[t]]
  BY FetchEffect
<1>2. call[c].own = {} /\ call[c].waits = {}
  BY DEF TypeInv, Shape
<1>3. inflight \in [GraphTypes -> Calls \cup {NoCall}] /\ NoCall \notin Calls
  BY SentinelAssumption DEF TypeInv, TypeOK
<1>4. \A t \in GraphTypes : /\ t \in own => inflight[t] = NoCall
                            /\ t \in waits => inflight[t] # NoCall
  BY <1>1
<1>5. \A t \in GraphTypes : inflight[t] # c
  BY <1>2, <1>3 DEF FetchInv
<1> HIDE DEF own, waits
<1>6. ASSUME NEW d \in Calls, NEW t \in GraphTypes
      PROVE  /\ t \in call'[d].own => inflight'[t] = d
             /\ t \in call'[d].waits => inflight'[t] \notin {d, NoCall}
  <2>1. CASE d = c
    BY <1>1, <1>3, <1>4, <1>5, <2>1 DEF own, waits
  <2>2. CASE d # c
    BY <1>1, <1>3, <1>4, <2>2 DEF FetchInv, Others
  <2>. QED
    BY <2>1, <2>2
<1>7. ASSUME NEW t \in GraphTypes, inflight'[t] # NoCall PROVE t \in call'[inflight'[t]].own
  <2>1. CASE t \in own
    BY <1>1, <2>1 DEF own
  <2>2. CASE t \notin own
    BY <1>1, <1>3, <1>5, <1>7, <2>2 DEF FetchInv, Others
  <2>. QED
    BY <2>1, <2>2
<1>. QED
  BY <1>6, <1>7 DEF FetchInv

(* A DESC that ends, well or not, is taken off the table. *)
LEMMA FetchSettled ==
  ASSUME NEW c \in Calls, NEW t \in GraphTypes, TypeInv, FetchInv,
         Described(c, t) \/ NotDescribed(c, t)
  PROVE  FetchInv'
<1>1. /\ t \in call[c].own
      /\ inflight' = [inflight EXCEPT ![t] = NoCall]
  BY DEF Described, NotDescribed
<1>2. \A d \in Calls : /\ d = c => call'[d].own = call[d].own \ {t}
                       /\ d # c => call'[d].own = call[d].own
                       /\ call'[d].waits = call[d].waits \ {t}
  BY SettledEffect
<1>3. inflight \in [GraphTypes -> Calls \cup {NoCall}] /\ NoCall \notin Calls
  BY SentinelAssumption DEF TypeInv, TypeOK
<1>4. inflight[t] = c
  BY <1>1 DEF FetchInv
<1>5. ASSUME NEW d \in Calls, NEW u \in GraphTypes
      PROVE  /\ u \in call'[d].own => inflight'[u] = d
             /\ u \in call'[d].waits => inflight'[u] \notin {d, NoCall}
  <2>1. u \in call'[d].own => u \in call[d].own /\ u # t
    BY <1>2, <1>4 DEF FetchInv
  <2>2. u \in call'[d].waits => u \in call[d].waits /\ u # t
    BY <1>2
  <2>. QED
    BY <1>1, <1>3, <2>1, <2>2 DEF FetchInv
<1>6. ASSUME NEW u \in GraphTypes, inflight'[u] # NoCall PROVE u \in call'[inflight'[u]].own
  <2>1. u # t /\ inflight'[u] = inflight[u] /\ inflight[u] \in Calls
    BY <1>1, <1>3, <1>6
  <2>2. u \in call[inflight[u]].own
    BY <1>6, <2>1 DEF FetchInv
  <2>. QED
    BY <1>2, <2>1, <2>2
<1>. QED
  BY <1>5, <1>6 DEF FetchInv

LEMMA FetchStep == TypeInv /\ FetchInv /\ [Next]_vars => FetchInv'
<1> SUFFICES ASSUME TypeInv, FetchInv, [Next]_vars PROVE FetchInv'
  OBVIOUS
<1>s. Shapes
  BY ShapesStep
<1>1. ASSUME NEW c \in Calls, CallNext(c) PROVE FetchInv'
  <2>0. call[c].pc # "keys" => call[c].own = {} /\ call[c].waits = {}
    BY DEF TypeInv, Shape
  <2>t. types \in Catalogs
    BY DEF TypeInv, TypeOK
  <2>e. ASSUME NEW how \in Hows, call[c].pc \notin {"keys", "ok"}, inflight' = inflight,
               call' = [call EXCEPT ![c] = Ended(c, how)]
        PROVE  FetchInv'
    <3>1. Others(c) /\ call'[c].pc = how /\ how # "keys"
      BY <2>e, EndEffect DEF Hows
    <3>. QED
      BY <1>s, <2>0, <2>e, <3>1, SameOthers, FetchOutside
  <2>r. ASSUME call[c].own = {}, call[c].waits = {}, inflight' = inflight,
               call' = [call EXCEPT ![c] = Returned(c)]
        PROVE  FetchInv'
    <3>1. Others(c) /\ call'[c].pc = "returned"
      BY <2>r, ReturnEffect
    <3>. QED
      BY <1>s, <2>r, <3>1, SameOthers, FetchOutside
  <2>1. CASE Execute(c) \/ UnknownConnection(c) \/ Schema(c)
    <3>1. /\ call[c].pc = "idle" /\ call'[c].pc # "keys"
          /\ \A d \in Calls \ {c} : SameAwaits(d)
      BY <2>1, ExecuteEffect, UnknownEffect, SchemaEffect, SameOthers
    <3>2. inflight' = inflight
      BY <2>1 DEF Execute, UnknownConnection, Schema, cache
    <3>. QED
      BY <1>s, <2>0, <3>1, <3>2, FetchOutside
  <2>2. CASE StatementOk(c)
    <3>1. call[c].pc = "statement"
      BY <2>2, StatementOkEffect
    <3>2. CASE call' = [call EXCEPT ![c] = Ended(c, "ok")] /\ inflight' = inflight
      BY <2>e, <3>1, <3>2 DEF Hows
    <3>3. CASE call' = [call EXCEPT ![c] = Returned(c)] /\ inflight' = inflight
      BY <2>0, <2>r, <3>1, <3>3
    <3>4. CASE \E s \in CallStates : /\ s.op = "query" /\ s.clear = FALSE /\ s.bare = {}
                                     /\ Fetch(c, s, types)
      BY <2>t, <3>1, <3>4, FetchStarted
    <3>5. CASE Others(c) /\ call'[c].pc = "graphs" /\ inflight' = inflight
      BY <1>s, <2>0, <3>1, <3>5, SameOthers, FetchOutside
    <3>. QED
      BY <2>2, <3>2, <3>3, <3>4, <3>5, StatementOkEffect
  <2>3. CASE StatementError(c) \/ StatementLost(c) \/ SchemaDescribed(c) \/ SchemaFailed(c)
    <3>1. PICK how \in Hows : call' = [call EXCEPT ![c] = Ended(c, how)]
      BY <2>3 DEF StatementError, StatementLost, SchemaDescribed, SchemaFailed, Hows
    <3>2. call[c].pc \in {"statement", "list", "describe"} /\ inflight' = inflight
      BY <2>3 DEF StatementError, StatementLost, SchemaDescribed, SchemaFailed, cache
    <3>. QED
      BY <2>e, <3>1, <3>2
  <2>4. CASE GraphsShown(c) \/ GraphsNotShown(c)
    <3>1. PICK s \in CallStates, known \in Catalogs :
            Fetch(c, s, known) /\ s.op = "query" /\ s.clear = FALSE /\ s.bare = {}
      BY <2>4, ShownEffect
    <3>2. call[c].pc = "graphs"
      BY <2>4, ShownEffect
    <3>. QED
      BY <3>1, <3>2, FetchStarted
  <2>5. CASE Warmed(c)
    BY <2>5, <2>r DEF Warmed, cache
  <2>6. CASE Present(c)
    <3>1. Others(c) /\ call[c].pc = "returned" /\ call'[c].pc = "ok" /\ inflight' = inflight
      BY <2>6, PresentEffect DEF Present, cache
    <3>. QED
      BY <1>s, <2>0, <3>1, SameOthers, FetchOutside
  <2>7. CASE \E t \in GraphTypes : Described(c, t) \/ NotDescribed(c, t)
    BY <2>7, FetchSettled
  <2>8. CASE SchemaListed(c)
    <3>1. inflight' = inflight
      BY <2>8 DEF SchemaListed, cache
    <3>2. CASE call[c].pc = "list" /\ call' = [call EXCEPT ![c] = Ended(c, "threw")]
      BY <2>e, <3>1, <3>2 DEF Hows
    <3>3. CASE Others(c) /\ call[c].pc = "list" /\ call'[c].pc = "describe"
      BY <1>s, <2>0, <3>1, <3>3, SameOthers, FetchOutside
    <3>. QED
      BY <2>8, <3>2, <3>3, ListedEffect
  <2>9. CASE ServerExecutes(c) \/ ServerRefuses(c)
    <3>1. PICK how \in {"done", "refused"} :
            call[c].request = "sent" /\ call' = [call EXCEPT ![c].request = how]
      BY <2>9 DEF ServerExecutes, ServerRefuses
    <3>2. Others(c) /\ SameAwaits(c)
      BY <3>1, ServerEffect
    <3>3. inflight' = inflight
      BY <2>9 DEF ServerExecutes, ServerRefuses, cache
    <3>. QED
      BY <3>2, <3>3, FetchKept DEF Others, SameAwaits
  <2>10. CASE ServerLists(c)
    <3>1. Others(c) /\ SameAwaits(c)
      BY <2>10, ListsEffect
    <3>2. inflight' = inflight
      BY <2>10 DEF ServerLists, cache
    <3>. QED
      BY <3>1, <3>2, FetchKept DEF Others, SameAwaits
  <2>. QED
    BY <1>1, <2>1, <2>2, <2>3, <2>4, <2>5, <2>6, <2>7, <2>8, <2>9, <2>10
       DEF CallNext, ExecuteStep, SchemaStep
<1>2. CASE Disconnect \/ CatalogChange \/ UNCHANGED vars
  BY <1>2 DEF Disconnect, CatalogChange, vars, cache, FetchInv
<1>. QED
  BY <1>1, <1>2 DEF Next

LEMMA FetchStart == Init => FetchInv
BY DEF Init, FetchInv, NewCall

(* On one connection a graph type is described by one call at a time, and  *)
(* what is on the table is being described, for any number of calls.       *)
THEOREM FetchedOnce == Spec => []OneFetchPerType
<1>1. TypeInv /\ FetchInv => OneFetchPerType
  <2> SUFFICES ASSUME TypeInv, FetchInv, NEW t \in GraphTypes
               PROVE  /\ Cardinality({c \in Calls : t \in call[c].own}) <= 1
                      /\ inflight[t] # NoCall => t \in call[inflight[t]].own
                      /\ \A c \in Calls : t \in call[c].waits => inflight[t] \notin {c, NoCall}
    BY DEF OneFetchPerType
  <2> DEFINE S == {c \in Calls : t \in call[c].own}
  <2>1. S \subseteq {inflight[t]}
    BY DEF FetchInv
  <2>2. /\ IsFiniteSet({inflight[t]}) /\ Cardinality({inflight[t]}) = 1
    BY FS_Singleton
  <2>3. IsFiniteSet(S) /\ Cardinality(S) <= 1
    BY <2>1, <2>2, FS_Subset
  <2>. QED
    BY <2>3 DEF FetchInv
<1>. QED
  BY <1>1, TypeStart, TypeStep, FetchStart, FetchStep, PTL DEF Spec

(***************************************************************************)
(* The tracked graph.  It equals the session's only between moves; while   *)
(* the one move of an unmuddled history is under way, what is known        *)
(* depends on how far its statement got.  A clear move is alone, and once  *)
(* the server made it the session is where sessionSetGraph will say: that  *)
(* is how tracking recovers from a muddle.                                 *)
(***************************************************************************)
TrackInv ==
  /\ \A c \in Calls : call[c].clear =>
       /\ \A d \in Calls \ {c} : ~Moving(d)
       /\ call[c].request = "done" => session = call[c].target
  /\ ~muddled =>
       /\ \A c, d \in Calls : Moving(c) /\ Moving(d) => c = d
       /\ (\A c \in Calls : ~Moving(c)) => tracked = session
       /\ \A c \in Calls : Moving(c) =>
            /\ call[c].pc = "statement"
            /\ call[c].request \in {"sent", "refused"} => tracked = session

(* A step that moves nothing. *)
LEMMA TrackKept ==
  ASSUME TypeInv, TrackInv, tracked' = tracked, session' = session, ~muddled' => ~muddled,
         \A d \in Calls :
           /\ call'[d].clear => call[d].clear
           /\ \/ /\ call'[d].pc = call[d].pc /\ call'[d].op = call[d].op
                 /\ call'[d].request = call[d].request /\ call'[d].target = call[d].target
              \/ ~Moving(d) /\ ~Moving(d)'
  PROVE  TrackInv'
<1>1. \A d \in Calls : (Moving(d)' <=> Moving(d))
  BY DEF Moving
<1>2. \A d \in Calls : Moving(d) => /\ call'[d].pc = call[d].pc
                                    /\ call'[d].request = call[d].request
                                    /\ call'[d].target = call[d].target
  OBVIOUS
<1>3. \A d \in Calls : call[d].clear => Moving(d)
  BY DEF TypeInv, Shape, Moving
<1>4. ASSUME NEW c \in Calls, call'[c].clear
      PROVE  /\ \A d \in Calls \ {c} : ~Moving(d)'
             /\ call'[c].request = "done" => session' = call'[c].target
  <2>1. call[c].clear /\ Moving(c)
    BY <1>3, <1>4
  <2>. QED
    BY <1>1, <1>2, <2>1 DEF TrackInv
<1>5. ASSUME ~muddled'
      PROVE  /\ \A c, d \in Calls : Moving(c)' /\ Moving(d)' => c = d
             /\ (\A c \in Calls : ~Moving(c)') => tracked' = session'
             /\ \A c \in Calls : Moving(c)' =>
                  /\ call'[c].pc = "statement"
                  /\ call'[c].request \in {"sent", "refused"} => tracked' = session'
  BY <1>1, <1>2, <1>5 DEF TrackInv
<1>. QED
  BY <1>4, <1>5 DEF TrackInv

(* A step of one call that neither was nor is a move. *)
LEMMA TrackAside ==
  ASSUME NEW c \in Calls, TypeInv, TrackInv, Shapes, tracked' = tracked, session' = session,
         ~muddled' => ~muddled, ~Moving(c), ~Moving(c)',
         \A d \in Calls \ {c} : Same(d) /\ (call'[d].clear => call[d].clear)
  PROVE  TrackInv'
<1>1. ~call'[c].clear
  BY DEF Shapes, Shape, Moving
<1>. QED
  BY <1>1, TrackKept DEF Same

(* A move whose call ends while the server is done with it, and one that   *)
(* is given up.                                                            *)
LEMMA TrackMoveEnds ==
  ASSUME NEW c \in Calls, TypeInv, TrackInv, NEW how \in Hows, call[c].pc = "statement",
         call[c].op = "move", call' = [call EXCEPT ![c] = Ended(c, how)], session' = session,
         ~muddled' => /\ call[c].request \in {"done", "refused"}
                      /\ \/ ~muddled /\ tracked' = tracked /\ call[c].request = "refused"
                         \/ /\ call[c].clear /\ tracked' = call[c].reads
                            /\ call[c].request = "done"
  PROVE  TrackInv'
<1>1. /\ Shapes /\ Others(c) /\ call'[c].pc = how /\ how # "statement"
      /\ call'[c].op = "move" /\ call'[c].request = "sent" => call[c].request = "sent"
  BY EndEffect DEF Hows
<1>2. Moving(c) /\ \A d \in Calls \ {c} : call'[d].clear = call[d].clear /\ ~call[d].clear
  BY <1>1 DEF Moving, TrackInv, Others
<1>3. ~call'[c].clear
  BY <1>1 DEF Shapes, Shape
<1>4. ASSUME ~muddled'
      PROVE  /\ \A e, d \in Calls : Moving(e)' /\ Moving(d)' => e = d
             /\ (\A d \in Calls : ~Moving(d)') => tracked' = session'
             /\ \A d \in Calls : Moving(d)' =>
                  /\ call'[d].pc = "statement"
                  /\ call'[d].request \in {"sent", "refused"} => tracked' = session'
  <2>1. ~Moving(c)'
    BY <1>1, <1>4 DEF Moving
  <2>2. \A d \in Calls \ {c} : ~Moving(d)
    BY <1>2, <1>4 DEF TrackInv
  <2>3. \A d \in Calls \ {c} : ~Moving(d)'
    BY <1>1, <2>2 DEF Moving, Others
  <2>4. tracked' = session
    <3>1. CASE ~muddled /\ tracked' = tracked /\ call[c].request = "refused"
      BY <1>2, <3>1 DEF TrackInv
    <3>2. CASE call[c].clear /\ tracked' = call[c].reads /\ call[c].request = "done"
      BY <3>2 DEF TrackInv, TypeInv, Shape
    <3>. QED
      BY <1>4, <3>1, <3>2
  <2>. QED
    BY <2>1, <2>3, <2>4
<1>. QED
  BY <1>2, <1>3, <1>4 DEF TrackInv

(* Any other call that ends. *)
LEMMA TrackEnds ==
  ASSUME NEW c \in Calls, TypeInv, TrackInv, NEW how \in Hows, call[c].pc # "keys",
         call[c].pc # "ok", call[c].op # "move",
         call' = [call EXCEPT ![c] = Ended(c, how)],
         tracked' = tracked, session' = session, muddled' = muddled
  PROVE  TrackInv'
<1>1. /\ Shapes /\ Others(c)
      /\ call'[c].op = "move" /\ call'[c].request = "sent" => call[c].op = "move"
      /\ call'[c].pc # "statement"
  BY EndEffect DEF Hows
<1>2. ~Moving(c) /\ ~Moving(c)'
  BY <1>1 DEF Moving
<1>. QED
  BY <1>1, <1>2, SameOthers, TrackAside

LEMMA TrackStep == TypeInv /\ TrackInv /\ [Next]_vars => TrackInv'
<1> SUFFICES ASSUME TypeInv, TrackInv, [Next]_vars PROVE TrackInv'
  OBVIOUS
<1>s. Shapes
  BY ShapesStep
<1>1. ASSUME NEW c \in Calls, CallNext(c) PROVE TrackInv'
  <2>0. Shape(call[c]) /\ types \in Catalogs
    BY DEF TypeInv, TypeOK
  <2>a. ASSUME Others(c), call[c].op # "move", call'[c].op # "move",
               tracked' = tracked, session' = session, muddled' = muddled
        PROVE  TrackInv'
    <3>1. ~Moving(c) /\ ~Moving(c)'
      BY <2>a DEF Moving
    <3>. QED
      BY <1>s, <2>a, <3>1, SameOthers, TrackAside
  <2>1. CASE Execute(c)
    <3>1. tracked' = tracked /\ session' = session
      BY <2>1 DEF Execute, server
    <3>2. /\ call[c].pc = "idle" /\ call[c].op = "query"
          /\ call'[c].pc = "statement" /\ call'[c].request = "sent"
          /\ \A d \in Calls \ {c} : Same(d) /\ (call'[d].clear => call[d].clear)
      BY <2>0, <2>1, ExecuteEffect DEF Shape
    <3>3. CASE call'[c].op = "query" /\ muddled' = muddled
      <4>1. ~Moving(c) /\ ~Moving(c)'
        BY <3>2, <3>3 DEF Moving
      <4>. QED
        BY <1>s, <3>1, <3>2, <3>3, <4>1, TrackAside
    <3>4. CASE /\ call'[c].op = "move"
               /\ muddled' = (muddled \/ \E d \in Calls : Moving(d))
               /\ \A d \in Calls \ {c} : ~call'[d].clear
               /\ call'[c].clear => \A d \in Calls : ~Moving(d)
      <4>1. \A d \in Calls \ {c} : (Moving(d)' <=> Moving(d))
        BY <3>2 DEF Moving, Same
      <4>2. ASSUME NEW d \in Calls, call'[d].clear
            PROVE  /\ \A e \in Calls \ {d} : ~Moving(e)'
                   /\ call'[d].request = "done" => session' = call'[d].target
        BY <3>2, <3>4, <4>1, <4>2
      <4>3. ASSUME ~muddled'
            PROVE  /\ \A e, d \in Calls : Moving(e)' /\ Moving(d)' => e = d
                   /\ (\A d \in Calls : ~Moving(d)') => tracked' = session'
                   /\ \A d \in Calls : Moving(d)' =>
                        /\ call'[d].pc = "statement"
                        /\ call'[d].request \in {"sent", "refused"} => tracked' = session'
        <5>1. ~muddled /\ \A d \in Calls : ~Moving(d)
          BY <3>4, <4>3
        <5>2. tracked = session
          BY <5>1 DEF TrackInv
        <5>. QED
          BY <3>1, <3>2, <4>1, <5>1, <5>2
      <4>. QED
        BY <4>2, <4>3 DEF TrackInv
    <3>. QED
      BY <2>1, <3>3, <3>4, ExecuteEffect
  <2>2. CASE UnknownConnection(c)
    <3>1. Others(c) /\ call[c].pc = "idle" /\ call'[c].op = "query"
      BY <2>2, UnknownEffect
    <3>2. tracked' = tracked /\ session' = session /\ muddled' = muddled
      BY <2>2 DEF UnknownConnection, server
    <3>. QED
      BY <2>0, <2>a, <3>1, <3>2 DEF Shape
  <2>3. CASE Schema(c)
    <3>1. Others(c) /\ call[c].pc = "idle" /\ call'[c].op = "schema"
      BY <2>3, SchemaEffect
    <3>2. tracked' = tracked /\ session' = session /\ muddled' = muddled
      BY <2>3 DEF Schema, server
    <3>. QED
      BY <2>0, <2>a, <3>1, <3>2 DEF Shape
  <2>4. CASE StatementOk(c)
    <3>1. call[c].pc = "statement" /\ call[c].request = "done"
      BY <2>4, StatementOkEffect
    <3>2. session' = session
      BY <2>4 DEF StatementOk, server
    <3>3. CASE /\ call[c].op = "move" /\ call' = [call EXCEPT ![c] = Ended(c, "ok")]
               /\ tracked' = IF call[c].reads # NoGraph THEN call[c].reads ELSE tracked
               /\ muddled' = ~call[c].clear
      <4>1. call[c].clear => call[c].reads \in Graphs
        BY <2>0, <3>1, <3>3 DEF Shape
      <4>2. ~muddled' => call[c].clear /\ tracked' = call[c].reads
        BY <3>3, <4>1, SentinelAssumption
      <4>. QED
        BY <3>1, <3>2, <3>3, <4>2, TrackMoveEnds DEF Hows
    <3>4. CASE /\ call[c].op = "query" /\ UNCHANGED <<tracked, muddled>>
               /\ call' = [call EXCEPT ![c] = Returned(c)]
      <4>1. Others(c) /\ call'[c].op = "query"
        BY <3>4, ReturnEffect
      <4>. QED
        BY <2>a, <3>2, <3>4, <4>1
    <3>5. CASE /\ call[c].op = "query" /\ UNCHANGED <<tracked, muddled>>
               /\ \E s \in CallStates : /\ s.op = "query" /\ s.clear = FALSE /\ s.bare = {}
                                        /\ Fetch(c, s, types)
      <4>1. Others(c) /\ call'[c].op = "query"
        BY <2>0, <3>5, FetchEffect
      <4>. QED
        BY <2>a, <3>2, <3>5, <4>1
    <3>6. CASE /\ call[c].op = "query" /\ UNCHANGED <<tracked, muddled>>
               /\ Others(c) /\ call'[c].op = "query"
      BY <2>a, <3>2, <3>6
    <3>. QED
      BY <2>4, <3>3, <3>4, <3>5, <3>6, StatementOkEffect
  <2>5. CASE StatementError(c)
    <3>1. /\ call[c].pc = "statement" /\ call[c].request = "refused"
          /\ tracked' = tracked /\ session' = session /\ muddled' = muddled
          /\ call' = [call EXCEPT ![c] = Ended(c, "error")] /\ "error" \in Hows
      BY <2>5 DEF StatementError, server, Hows
    <3>2. CASE call[c].op = "move"
      BY <3>1, <3>2, TrackMoveEnds
    <3>3. CASE call[c].op # "move"
      BY <3>1, <3>3, TrackEnds
    <3>. QED
      BY <3>2, <3>3
  <2>6. CASE StatementLost(c)
    <3>1. /\ call[c].pc = "statement"
          /\ tracked' = tracked /\ session' = session
          /\ muddled' = (muddled \/ call[c].op = "move")
          /\ call' = [call EXCEPT ![c] = Ended(c, "threw")] /\ "threw" \in Hows
      BY <2>6 DEF StatementLost, server, Hows
    <3>2. CASE call[c].op = "move"
      BY <3>1, <3>2, TrackMoveEnds
    <3>3. CASE call[c].op # "move"
      <4>1. muddled' = muddled
        BY <3>1, <3>3 DEF TypeInv, TypeOK
      <4>. QED
        BY <3>1, <3>3, <4>1, TrackEnds
    <3>. QED
      BY <3>2, <3>3
  <2>7. CASE GraphsShown(c) \/ GraphsNotShown(c)
    <3>1. PICK s \in CallStates, known \in Catalogs :
            Fetch(c, s, known) /\ s.op = "query" /\ s.clear = FALSE /\ s.bare = {}
      BY <2>7, ShownEffect
    <3>2. Others(c) /\ call'[c].op = "query" /\ call[c].op = "query"
      BY <2>0, <2>7, <3>1, FetchEffect, ShownEffect DEF Shape
    <3>3. tracked' = tracked /\ session' = session /\ muddled' = muddled
      BY <2>7 DEF GraphsShown, GraphsNotShown, server
    <3>. QED
      BY <2>a, <3>2, <3>3
  <2>8. CASE Warmed(c)
    <3>1. /\ call[c].pc = "keys" /\ call' = [call EXCEPT ![c] = Returned(c)]
          /\ tracked' = tracked /\ session' = session /\ muddled' = muddled
      BY <2>8 DEF Warmed, server
    <3>2. Others(c) /\ call'[c].op = "query"
      BY <3>1, ReturnEffect
    <3>. QED
      BY <2>0, <2>a, <3>1, <3>2 DEF Shape
  <2>9. CASE Present(c)
    <3>1. Others(c) /\ call[c].pc = "returned" /\ call'[c].op = "query"
      BY <2>9, PresentEffect
    <3>2. tracked' = tracked /\ session' = session /\ muddled' = muddled
      BY <2>9 DEF Present, server
    <3>. QED
      BY <2>0, <2>a, <3>1, <3>2 DEF Shape
  <2>10. CASE \E t \in GraphTypes : Described(c, t) \/ NotDescribed(c, t)
    <3>1. \A d \in Calls : Same(d) /\ call'[d].clear = call[d].clear
      BY <2>10, SettledEffect
    <3>2. tracked' = tracked /\ session' = session /\ muddled' = muddled
      BY <2>10 DEF Described, NotDescribed, server
    <3>. QED
      BY <3>1, <3>2, TrackKept DEF Same
  <2>11. CASE SchemaListed(c)
    <3>1. tracked' = tracked /\ session' = session /\ muddled' = muddled
      BY <2>11 DEF SchemaListed, server
    <3>2. call[c].op = "schema"
      BY <2>0, <2>11 DEF SchemaListed, Shape
    <3>3. CASE call[c].pc = "list" /\ call' = [call EXCEPT ![c] = Ended(c, "threw")]
      BY <3>1, <3>2, <3>3, TrackEnds DEF Hows
    <3>4. CASE Others(c) /\ call'[c].op = "schema"
      BY <2>a, <3>1, <3>2, <3>4
    <3>. QED
      BY <2>11, <3>3, <3>4, ListedEffect
  <2>12. CASE SchemaDescribed(c) \/ SchemaFailed(c)
    <3>1. PICK how \in Hows : call' = [call EXCEPT ![c] = Ended(c, how)]
      BY <2>12 DEF SchemaDescribed, SchemaFailed, Hows
    <3>2. call[c].pc \in {"list", "describe"}
          /\ tracked' = tracked /\ session' = session /\ muddled' = muddled
      BY <2>12 DEF SchemaDescribed, SchemaFailed, server
    <3>. QED
      BY <2>0, <3>1, <3>2, TrackEnds DEF Shape
  <2>13. CASE ServerExecutes(c) \/ ServerRefuses(c)
    <3>1. PICK how \in {"done", "refused"} :
            /\ call[c].request = "sent" /\ call' = [call EXCEPT ![c].request = how]
            /\ how = "done" => ServerExecutes(c)
            /\ how = "refused" => ServerRefuses(c)
      BY <2>13 DEF ServerExecutes, ServerRefuses
    <3>2. /\ Others(c) /\ call'[c].request = how
          /\ call'[c].pc = call[c].pc /\ call'[c].op = call[c].op
          /\ call'[c].target = call[c].target /\ call'[c].clear = call[c].clear
      BY <3>1, ServerEffect
    <3>3. tracked' = tracked
      BY <2>13 DEF ServerExecutes, ServerRefuses
    <3>4. CASE call[c].op # "move"
      <4>1. session' = session /\ muddled' = muddled
        BY <2>13, <3>4 DEF ServerExecutes, ServerRefuses
      <4>. QED
        BY <2>a, <3>2, <3>3, <3>4, <4>1
    <3>5. CASE call[c].op = "move"
      <4>1. /\ Moving(c) /\ \A d \in Calls \ {c} : (Moving(d)' <=> Moving(d))
            /\ \A d \in Calls \ {c} : call'[d].clear = call[d].clear /\ ~call[d].clear
        BY <3>1, <3>2, <3>5 DEF Moving, Others, TrackInv
      <4>2. how = "done" => session' = call[c].target /\ muddled' = muddled
        BY <2>13, <3>1, <3>2, <3>5 DEF ServerExecutes, ServerRefuses
      <4>3. how = "refused" /\ ~muddled' => session' = session /\ muddled' = muddled
        BY <2>13, <3>1, <3>2, <3>5 DEF ServerExecutes, ServerRefuses
      <4>4. ASSUME NEW d \in Calls, call'[d].clear
            PROVE  /\ \A e \in Calls \ {d} : ~Moving(e)'
                   /\ call'[d].request = "done" => session' = call'[d].target
        <5>1. d = c /\ call[c].clear
          BY <3>2, <4>1, <4>4
        <5>2. \A e \in Calls \ {c} : ~Moving(e)
          BY <5>1 DEF TrackInv
        <5>. QED
          BY <3>2, <4>1, <4>2, <5>1, <5>2
      <4>5. ASSUME ~muddled'
            PROVE  /\ \A e, d \in Calls : Moving(e)' /\ Moving(d)' => e = d
                   /\ (\A d \in Calls : ~Moving(d)') => tracked' = session'
                   /\ \A d \in Calls : Moving(d)' =>
                        /\ call'[d].pc = "statement"
                        /\ call'[d].request \in {"sent", "refused"} => tracked' = session'
        <5>1. ~muddled
          BY <3>1, <4>2, <4>3, <4>5
        <5>2. /\ \A d \in Calls \ {c} : ~Moving(d)
              /\ call[c].pc = "statement" /\ tracked = session
          BY <3>1, <4>1, <5>1 DEF TrackInv
        <5>3. \A d \in Calls \ {c} : ~Moving(d)'
          BY <4>1, <5>2
        <5>4. Moving(c)'
          BY <3>2, <3>5, <5>2 DEF Moving
        <5>5. how = "refused" => tracked' = session'
          BY <3>3, <4>3, <4>5, <5>2
        <5>. QED
          BY <3>1, <3>2, <5>2, <5>3, <5>4, <5>5
      <4>. QED
        BY <4>4, <4>5 DEF TrackInv
    <3>. QED
      BY <3>4, <3>5
  <2>14. CASE ServerLists(c)
    <3>1. /\ Others(c) /\ call[c].pc \in {"graphs", "list"} /\ call'[c].op = call[c].op
      BY <2>14, ListsEffect
    <3>2. tracked' = tracked /\ session' = session /\ muddled' = muddled
      BY <2>14 DEF ServerLists, server
    <3>. QED
      BY <2>0, <2>a, <3>1, <3>2 DEF Shape
  <2>. QED
    BY <1>1, <2>1, <2>2, <2>3, <2>4, <2>5, <2>6, <2>7, <2>8, <2>9, <2>10, <2>11, <2>12, <2>13,
       <2>14 DEF CallNext, ExecuteStep, SchemaStep
<1>2. CASE Disconnect \/ CatalogChange \/ UNCHANGED vars
  <2>1. call' = call /\ tracked' = tracked /\ session' = session /\ muddled' = muddled
    BY <1>2 DEF Disconnect, CatalogChange, vars, server
  <2>. QED
    BY <2>1, TrackKept
<1>. QED
  BY <1>1, <1>2 DEF Next

LEMMA TrackStart == Init => TrackInv
BY DEF Init, TrackInv, Moving, NewCall

(* The graph the plugin tracks is the session's whenever no move is under  *)
(* way and every one since the last clear move was refused outright, for   *)
(* any number of calls and of statements in them.                          *)
THEOREM TrackingIsExact == Spec => []TrackingExact
<1>1. TrackInv => TrackingExact
  BY DEF TrackInv, TrackingExact
<1>. QED
  BY <1>1, TypeStart, TypeStep, TrackStart, TrackStep, PTL DEF Spec

(***************************************************************************)
(* nebula_schema.  The tracked graph is read before the first await; that  *)
(* it was the session's graph follows from the tracking.                   *)
(***************************************************************************)
SchemaInv ==
  \A c \in Calls :
    /\ call[c].pc \in {"list", "describe"} /\ call[c].home # NoGraph =>
         call[c].home = call[c].current
    /\ call[c].pc = "describe" =>
         /\ call[c].listing # NoListing
         /\ call[c].target = ResolveTarget(call[c].listing, call[c].graphs, call[c].current)

(* Calls that are reading the catalog stay as they are. *)
LEMMA SchemaKept ==
  ASSUME SchemaInv,
         \A d \in Calls :
           \/ call'[d].pc \notin {"list", "describe"}
           \/ /\ call'[d].pc = call[d].pc
              /\ call'[d].home = call[d].home /\ call'[d].current = call[d].current
              /\ call[d].pc = "describe" => /\ call'[d].listing = call[d].listing
                                            /\ call'[d].graphs = call[d].graphs
                                            /\ call'[d].target = call[d].target
  PROVE  SchemaInv'
BY DEF SchemaInv

LEMMA SchemaAside ==
  ASSUME NEW c \in Calls, SchemaInv, \A d \in Calls \ {c} : Same(d),
         call'[c].pc \notin {"list", "describe"}
  PROVE  SchemaInv'
BY SchemaKept DEF Same

LEMMA SchemaStepInv == TypeInv /\ TrackInv /\ SchemaInv /\ [Next]_vars => SchemaInv'
<1> SUFFICES ASSUME TypeInv, TrackInv, SchemaInv, [Next]_vars PROVE SchemaInv'
  OBVIOUS
<1>1. ASSUME NEW c \in Calls, CallNext(c) PROVE SchemaInv'
  <2>0. Shape(call[c]) /\ types \in Catalogs
    BY DEF TypeInv, TypeOK
  <2>e. ASSUME NEW how \in Hows, call[c].pc \notin {"keys", "ok"},
               call' = [call EXCEPT ![c] = Ended(c, how)]
        PROVE  SchemaInv'
    <3>1. Others(c) /\ call'[c].pc \notin {"list", "describe"}
      BY <2>e, EndEffect DEF Hows
    <3>. QED
      BY <3>1, SameOthers, SchemaAside
  <2>1. CASE Execute(c) \/ UnknownConnection(c)
    <3>1. call'[c].pc \notin {"list", "describe"} /\ \A d \in Calls \ {c} : Same(d)
      BY <2>1, ExecuteEffect, UnknownEffect, SameOthers
    <3>. QED
      BY <3>1, SchemaAside
  <2>2. CASE Schema(c)
    <3>1. /\ Others(c) /\ call'[c].pc = "list" /\ call'[c].current = tracked
          /\ call'[c].home # NoGraph => /\ ~muddled /\ \A d \in Calls : ~Moving(d)
                                        /\ call'[c].home = session
      BY <2>2, SchemaEffect
    <3>2. call'[c].home # NoGraph => call'[c].home = call'[c].current
      BY <3>1 DEF TrackInv
    <3>. QED
      BY <3>1, <3>2 DEF SchemaInv, Others
  <2>3. CASE StatementOk(c)
    <3>1. call[c].pc = "statement"
      BY <2>3, StatementOkEffect
    <3>2. CASE call' = [call EXCEPT ![c] = Ended(c, "ok")]
      BY <2>e, <3>1, <3>2 DEF Hows
    <3>3. Others(c) /\ call'[c].pc \in {"returned", "keys", "graphs"} => SchemaInv'
      BY SameOthers, SchemaAside
    <3>4. CASE call' = [call EXCEPT ![c] = Returned(c)]
      BY <3>3, <3>4, ReturnEffect
    <3>5. CASE \E s \in CallStates : /\ s.op = "query" /\ s.clear = FALSE /\ s.bare = {}
                                     /\ Fetch(c, s, types)
      BY <2>0, <3>3, <3>5, FetchEffect
    <3>. QED
      BY <2>3, <3>2, <3>3, <3>4, <3>5, StatementOkEffect
  <2>4. CASE StatementError(c) \/ StatementLost(c) \/ SchemaDescribed(c) \/ SchemaFailed(c)
    <3>1. PICK how \in Hows : call' = [call EXCEPT ![c] = Ended(c, how)]
      BY <2>4 DEF StatementError, StatementLost, SchemaDescribed, SchemaFailed, Hows
    <3>2. call[c].pc \in {"statement", "list", "describe"}
      BY <2>4 DEF StatementError, StatementLost, SchemaDescribed, SchemaFailed
    <3>. QED
      BY <2>e, <3>1, <3>2
  <2>5. CASE GraphsShown(c) \/ GraphsNotShown(c)
    <3>1. PICK s \in CallStates, known \in Catalogs :
            Fetch(c, s, known) /\ s.op = "query" /\ s.clear = FALSE /\ s.bare = {}
      BY <2>5, ShownEffect
    <3>2. Others(c) /\ call'[c].pc = "keys"
      BY <3>1, FetchEffect
    <3>. QED
      BY <3>2, SameOthers, SchemaAside
  <2>6. CASE Warmed(c) \/ Present(c)
    <3>1. Others(c) /\ call'[c].pc \in {"returned", "ok"}
      BY <2>6, ReturnEffect, PresentEffect DEF Warmed
    <3>. QED
      BY <3>1, SameOthers, SchemaAside
  <2>7. CASE \E t \in GraphTypes : Described(c, t) \/ NotDescribed(c, t)
    <3>1. \A d \in Calls : Same(d)
      BY <2>7, SettledEffect
    <3>. QED
      BY <3>1, SchemaKept DEF Same
  <2>8. CASE SchemaListed(c)
    <3>1. CASE call[c].pc = "list" /\ call' = [call EXCEPT ![c] = Ended(c, "threw")]
      BY <2>e, <3>1 DEF Hows
    <3>2. CASE /\ Others(c)
               /\ call[c].pc = "list" /\ call[c].listing # NoListing
               /\ call'[c].graphs = call[c].graphs /\ call'[c].listing = call[c].listing
               /\ call'[c].current = call[c].current /\ call'[c].home = call[c].home
               /\ call'[c].target
                    = ResolveTarget(call[c].listing, call[c].graphs, call[c].current)
      BY <3>2 DEF SchemaInv, Others
    <3>. QED
      BY <2>8, <3>1, <3>2, ListedEffect
  <2>9. CASE ServerExecutes(c) \/ ServerRefuses(c)
    <3>1. PICK how \in {"done", "refused"} :
            call[c].request = "sent" /\ call' = [call EXCEPT ![c].request = how]
      BY <2>9 DEF ServerExecutes, ServerRefuses
    <3>2. /\ Others(c) /\ call'[c].pc = call[c].pc /\ call'[c].listing = call[c].listing
          /\ call'[c].graphs = call[c].graphs /\ call'[c].target = call[c].target
          /\ call'[c].current = call[c].current /\ call'[c].home = call[c].home
      BY <3>1, ServerEffect
    <3>. QED
      BY <3>2, SchemaKept DEF Others
  <2>10. CASE ServerLists(c)
    <3>1. /\ Others(c) /\ call'[c].pc = call[c].pc /\ call[c].pc # "describe"
          /\ call'[c].current = call[c].current /\ call'[c].home = call[c].home
      BY <2>10, ListsEffect
    <3>. QED
      BY <3>1, SchemaKept DEF Others
  <2>. QED
    BY <1>1, <2>1, <2>2, <2>3, <2>4, <2>5, <2>6, <2>7, <2>8, <2>9, <2>10
       DEF CallNext, ExecuteStep, SchemaStep
<1>2. CASE Disconnect \/ CatalogChange \/ UNCHANGED vars
  <2>1. call' = call
    BY <1>2 DEF Disconnect, CatalogChange, vars
  <2>. QED
    BY <2>1, SchemaKept
<1>. QED
  BY <1>1, <1>2 DEF Next

LEMMA SchemaStart == Init => SchemaInv
BY DEF Init, SchemaInv, NewCall

(* Without an argument nebula_schema describes the graph the session was   *)
(* on when it was called, as long as the server lists it.                  *)
THEOREM SchemaOfSession == Spec => []SchemaOnSessionGraph
<1>1. TypeInv /\ SchemaInv => SchemaOnSessionGraph
  <2> SUFFICES ASSUME TypeInv, SchemaInv, NEW c \in Calls,
                      call[c].pc = "describe", call[c].graphs = {}, call[c].home # NoGraph,
                      call[c].listing[call[c].home] # NoType
               PROVE  call[c].target = call[c].home
    BY DEF SchemaOnSessionGraph
  <2>1. call[c].home \in Graphs /\ call[c].home = call[c].current
    BY DEF TypeInv, TypeOK, CallStates, SchemaInv
  <2>2. call[c].current \in Listed(call[c].listing)
    BY <2>1 DEF Listed
  <2>3. call[c].target = ResolveTarget(call[c].listing, call[c].graphs, call[c].current)
    BY DEF SchemaInv
  <2>. QED
    BY <2>1, <2>2, <2>3 DEF ResolveTarget
<1>. QED
  BY <1>1, TypeStart, TypeStep, TrackStart, TrackStep, SchemaStart, SchemaStepInv, PTL DEF Spec

(***************************************************************************)
(* A graph result is presented with its keys.  Of a graph that nobody else *)
(* changed, what is cached is right, and a call that awaits its keys knows *)
(* where they are -- cached, asked for or awaited -- until the result is   *)
(* presented from the cache.                                               *)
(***************************************************************************)
CallKeys(c, g) ==
  /\ g \in call[c].graphs /\ catalog[g] # NoType =>
       /\ call[c].pc = "graphs" /\ g \notin call[c].missing => Known(g)
       /\ call[c].pc = "keys" /\ ~call[c].mishap =>
            types[g] # NoType /\ types[g] \in keys \cup call[c].own \cup call[c].waits
       /\ call[c].pc = "returned" /\ ~call[c].mishap => Known(g)
  /\ g \in call[c].bare /\ catalog[g] # NoType => ~registered \/ call[c].mishap

GraphKeys(g) ==
  /\ types[g] # NoType => types[g] = catalog[g]
  /\ \A c \in Calls : call[c].listing # NoListing => call[c].listing[g] = catalog[g]
  /\ \A c \in Calls : CallKeys(c, g)

KeysInv == \A g \in Graphs \ changed : GraphKeys(g)

(* Nothing is forgotten: cached types stay, and a key is cached before it  *)
(* is no longer awaited, unless the call meets a mishap.                   *)
LEMMA CallKeysKept ==
  ASSUME TypeInv, NEW d \in Calls, NEW g \in Graphs, CallKeys(d, g), catalog'[g] = catalog[g],
         types[g] # NoType => types'[g] = types[g],
         keys \subseteq keys', registered' => registered,
         call'[d].pc = call[d].pc, call'[d].bare = call[d].bare,
         call'[d].graphs = call[d].graphs, call'[d].missing = call[d].missing,
         ~call'[d].mishap =>
           /\ ~call[d].mishap
           /\ call[d].own \cup call[d].waits \subseteq keys' \cup call'[d].own \cup call'[d].waits
  PROVE  CallKeys(d, g)'
<1>1. keys \subseteq GraphTypes
  BY DEF TypeInv, TypeOK
<1>2. Known(g) => Known(g)'
  BY <1>1, SentinelAssumption DEF Known
<1>. QED
  BY <1>1, <1>2 DEF CallKeys

(* A step of one call that stores nothing but what the catalog says.       *)
LEMMA KeysOneCall ==
  ASSUME NEW c \in Calls, NEW g \in Graphs, TypeInv, GraphKeys(g), catalog'[g] = catalog[g],
         registered' = registered, \A d \in Calls \ {c} : Same(d) /\ SameAwaits(d),
         types'[g] = types[g] \/ (types[g] = NoType /\ types'[g] = catalog[g]),
         keys' = keys,
         \/ call'[c].listing \in {call[c].listing, NoListing}
         \/ call'[c].listing # NoListing /\ call'[c].listing[g] = catalog[g],
         CallKeys(c, g)'
  PROVE  GraphKeys(g)'
<1>1. types'[g] # NoType => types'[g] = catalog'[g]
  BY DEF GraphKeys
<1>2. \A d \in Calls : call'[d].listing # NoListing => call'[d].listing[g] = catalog'[g]
  BY DEF GraphKeys, Same
<1>3. ASSUME NEW d \in Calls PROVE CallKeys(d, g)'
  <2>1. CASE d = c
    BY <2>1
  <2>2. CASE d # c
    BY <2>2, CallKeysKept DEF GraphKeys, Same, SameAwaits
  <2>. QED
    BY <2>1, <2>2
<1>. QED
  BY <1>1, <1>2, <1>3 DEF GraphKeys

(* Such a step that leaves the call at no await of its keys.               *)
LEMMA KeysAside ==
  ASSUME NEW c \in Calls, NEW g \in Graphs, TypeInv, GraphKeys(g), catalog'[g] = catalog[g],
         UNCHANGED <<types, keys, registered>>,
         \A d \in Calls \ {c} : Same(d) /\ SameAwaits(d),
         call'[c].listing \in {call[c].listing, NoListing},
         call'[c].pc \notin {"graphs", "keys", "returned"}, call'[c].bare = {}
  PROVE  GraphKeys(g)'
<1>1. CallKeys(c, g)'
  BY DEF CallKeys
<1>. QED
  BY <1>1, KeysOneCall

(* A call that starts to warm the cache asks for what it lacks. *)
LEMMA KeysFetch ==
  ASSUME NEW c \in Calls, NEW g \in Graphs, TypeInv, GraphKeys(g), catalog'[g] = catalog[g],
         NEW s \in CallStates, s.op = "query", s.clear = FALSE, s.bare = {},
         NEW known \in Catalogs, Fetch(c, s, known),
         known[g] = types[g] \/ (types[g] = NoType /\ known[g] = catalog[g]),
         types' = known, keys' = keys, registered' = registered,
         ~s.mishap /\ g \in s.graphs /\ catalog[g] # NoType =>
           known[g] # NoType /\ (g \in s.missing \/ known[g] \in keys)
  PROVE  GraphKeys(g)'
<1>1. /\ Others(c)
      /\ call'[c].pc = "keys" /\ call'[c].graphs = s.graphs /\ call'[c].mishap = s.mishap
      /\ call'[c].listing = NoListing /\ call'[c].bare = {}
      /\ call'[c].own = {t \in NeededTypes(s.missing, known) : inflight[t] = NoCall}
      /\ call'[c].waits = NeededTypes(s.missing, known) \ call'[c].own
  BY FetchEffect
<1>2. NeededTypes(s.missing, known) \subseteq call'[c].own \cup call'[c].waits
  BY <1>1
<1>3. g \in s.missing /\ known[g] # NoType => known[g] \in NeededTypes(s.missing, known)
  BY DEF NeededTypes
<1>4. CallKeys(c, g)'
  BY <1>1, <1>2, <1>3 DEF CallKeys
<1>. QED
  BY <1>1, <1>4, SameOthers, KeysOneCall

LEMMA KeysStep == TypeInv /\ KeysInv /\ [Next]_vars => KeysInv'
<1> SUFFICES ASSUME TypeInv, KeysInv, [Next]_vars, NEW g \in Graphs \ changed'
             PROVE  GraphKeys(g)'
  BY DEF KeysInv
<1>1. ASSUME NEW c \in Calls, CallNext(c) PROVE GraphKeys(g)'
  <2>0. Shape(call[c]) /\ types \in Catalogs /\ keys \subseteq GraphTypes
    BY DEF TypeInv, TypeOK
  <2>1. changed' = changed /\ catalog' = catalog /\ registered' = registered
    BY <1>1 DEF CallNext, Execute, UnknownConnection, Schema, ExecuteStep, SchemaStep, StatementOk,
       StatementError, StatementLost, GraphsShown, GraphsNotShown, Warmed, Present, Described,
       NotDescribed, SchemaListed, SchemaDescribed, SchemaFailed, ServerExecutes, ServerRefuses,
       ServerLists, server
  <2>g. g \in Graphs /\ GraphKeys(g) /\ catalog'[g] = catalog[g]
    BY <2>1 DEF KeysInv
  <2>2. /\ types[g] # NoType => types[g] = catalog[g]
        /\ call[c].listing # NoListing => call[c].listing[g] = catalog[g]
        /\ CallKeys(c, g)
    BY <2>g DEF GraphKeys
  <2>e. ASSUME NEW how \in Hows, call[c].pc \notin {"keys", "ok"}, types' = types, keys' = keys,
               call' = [call EXCEPT ![c] = Ended(c, how)]
        PROVE  GraphKeys(g)'
    <3>1. /\ Others(c) /\ call'[c].pc \notin {"graphs", "keys", "returned"}
          /\ call'[c].bare = {} /\ call'[c].listing \in {call[c].listing, NoListing}
      BY <2>e, EndEffect DEF Hows
    <3>. QED
      BY <2>1, <2>e, <2>g, <3>1, SameOthers, KeysAside
  <2>r. ASSUME types' = types, keys' = keys, call' = [call EXCEPT ![c] = Returned(c)],
               g \in call[c].graphs /\ catalog[g] # NoType /\ ~call[c].mishap => Known(g)
        PROVE  GraphKeys(g)'
    <3>1. /\ Others(c) /\ call'[c].pc = "returned" /\ call'[c].bare = {}
          /\ call'[c].graphs = call[c].graphs /\ call'[c].mishap = call[c].mishap
          /\ call'[c].listing = NoListing
      BY <2>r, ReturnEffect
    <3>2. CallKeys(c, g)'
      BY <2>g, <2>r, <3>1 DEF CallKeys, Known
    <3>. QED
      BY <2>1, <2>g, <2>r, <3>1, <3>2, SameOthers, KeysOneCall
  <2>3. CASE Execute(c) \/ UnknownConnection(c) \/ Schema(c)
    <3>1. /\ \A d \in Calls \ {c} : Same(d) /\ SameAwaits(d)
          /\ call'[c].pc \notin {"graphs", "keys", "returned"}
          /\ call'[c].bare = {} /\ call'[c].listing = NoListing
      BY <2>3, ExecuteEffect, UnknownEffect, SchemaEffect, SameOthers
    <3>2. types' = types /\ keys' = keys
      BY <2>3 DEF Execute, UnknownConnection, Schema, cache
    <3>. QED
      BY <2>1, <2>g, <3>1, <3>2, KeysAside
  <2>4. CASE StatementOk(c)
    <3>1. types' = types /\ keys' = keys /\ call[c].pc = "statement"
      BY <2>4 DEF StatementOk
    <3>2. CASE call' = [call EXCEPT ![c] = Ended(c, "ok")]
      BY <2>e, <3>1, <3>2 DEF Hows
    <3>3. CASE /\ \A h \in call[c].graphs : Known(h)
               /\ call' = [call EXCEPT ![c] = Returned(c)]
      BY <2>r, <3>1, <3>3
    <3>4. CASE \E s \in CallStates :
                 /\ s.op = "query" /\ s.graphs = call[c].graphs /\ s.mishap = call[c].mishap
                 /\ s.clear = FALSE /\ s.bare = {}
                 /\ \A h \in s.graphs : h \in s.missing \/ Known(h)
                 /\ \A h \in s.missing : types[h] # NoType
                 /\ Fetch(c, s, types)
      <4>1. PICK s \in CallStates :
              /\ s.op = "query" /\ s.clear = FALSE /\ s.bare = {} /\ Fetch(c, s, types)
              /\ g \in s.graphs => g \in s.missing \/ Known(g)
              /\ g \in s.missing => types[g] # NoType
        BY <3>4
      <4>2. g \in s.graphs => types[g] # NoType /\ (g \in s.missing \/ types[g] \in keys)
        BY <2>0, <4>1, SentinelAssumption DEF Known
      <4>. QED
        BY <2>0, <2>1, <2>g, <3>1, <4>1, <4>2, KeysFetch
    <3>5. CASE /\ Others(c) /\ call'[c].pc = "graphs"
               /\ call'[c].graphs = call[c].graphs /\ call'[c].bare = {}
               /\ call'[c].listing = call[c].listing
               /\ \A h \in call[c].graphs : h \in call'[c].missing \/ Known(h)
      <4>1. CallKeys(c, g)'
        BY <2>g, <3>1, <3>5 DEF CallKeys, Known
      <4>. QED
        BY <2>1, <2>g, <3>1, <3>5, <4>1, SameOthers, KeysOneCall
    <3>. QED
      BY <2>4, <3>2, <3>3, <3>4, <3>5, StatementOkEffect
  <2>5. CASE StatementError(c) \/ StatementLost(c) \/ SchemaDescribed(c) \/ SchemaFailed(c)
    <3>1. PICK how \in Hows : call' = [call EXCEPT ![c] = Ended(c, how)]
      BY <2>5 DEF StatementError, StatementLost, SchemaDescribed, SchemaFailed, Hows
    <3>2. call[c].pc \in {"statement", "list", "describe"} /\ types' = types /\ keys' = keys
      BY <2>5 DEF StatementError, StatementLost, SchemaDescribed, SchemaFailed, cache
    <3>. QED
      BY <2>e, <3>1, <3>2
  <2>6. CASE GraphsShown(c) \/ GraphsNotShown(c)
    <3>1. PICK s \in CallStates, known \in Catalogs :
            /\ Fetch(c, s, known) /\ types' = known
            /\ s.op = "query" /\ s.clear = FALSE /\ s.bare = {} /\ s.graphs = call[c].graphs
            /\ s.missing = call[c].missing
            /\ \/ s.mishap = TRUE /\ known = types
               \/ /\ s.mishap = call[c].mishap /\ call[c].listing # NoListing
                  /\ known[g] = IF call[c].listing[g] # NoType THEN call[c].listing[g]
                                ELSE types[g]
      BY <2>6, ShownEffect
    <3>2. call[c].pc = "graphs" /\ keys' = keys
      BY <2>6, ShownEffect DEF GraphsShown, GraphsNotShown
    <3>3. known[g] = types[g] \/ (types[g] = NoType /\ known[g] = catalog[g])
      BY <2>2, <3>1
    <3>4. ~s.mishap /\ g \in s.graphs /\ catalog[g] # NoType =>
            known[g] # NoType /\ (g \in s.missing \/ known[g] \in keys)
      <4> SUFFICES ASSUME ~s.mishap, g \in s.graphs, catalog[g] # NoType
                   PROVE  known[g] # NoType /\ (g \in s.missing \/ known[g] \in keys)
        OBVIOUS
      <4>1. known[g] = catalog[g]
        BY <2>2, <3>1
      <4>2. g \notin s.missing => types[g] \in keys
        BY <2>2, <3>1, <3>2 DEF CallKeys, Known
      <4>3. types[g] \in keys => types[g] = catalog[g]
        BY <2>0, <2>2, SentinelAssumption
      <4>. QED
        BY <4>1, <4>2, <4>3
    <3>. QED
      BY <2>1, <2>g, <3>1, <3>2, <3>3, <3>4, KeysFetch
  <2>7. CASE Warmed(c)
    <3>1. /\ call' = [call EXCEPT ![c] = Returned(c)] /\ types' = types /\ keys' = keys
          /\ call[c].pc = "keys" /\ call[c].own = {} /\ call[c].waits = {}
      BY <2>7 DEF Warmed, cache
    <3>2. g \in call[c].graphs /\ catalog[g] # NoType /\ ~call[c].mishap => Known(g)
      BY <2>2, <3>1 DEF CallKeys, Known
    <3>. QED
      BY <2>r, <3>1, <3>2
  <2>8. CASE Present(c)
    <3>1. /\ Others(c) /\ call[c].pc = "returned" /\ call'[c].pc = "ok"
          /\ call'[c].mishap = call[c].mishap /\ call'[c].listing = NoListing
          /\ call'[c].bare = {h \in call[c].graphs : ~(registered /\ Known(h))}
      BY <2>8, PresentEffect
    <3>2. types' = types /\ keys' = keys
      BY <2>8 DEF Present, cache
    <3>3. g \in call'[c].bare => g \in call[c].graphs /\ ~(registered /\ Known(g))
      BY <3>1
    <3>4. CallKeys(c, g)'
      BY <2>1, <2>2, <3>1, <3>3 DEF CallKeys
    <3>. QED
      BY <2>1, <2>g, <3>1, <3>2, <3>4, SameOthers, KeysOneCall
  <2>9. ASSUME NEW t \in GraphTypes, Described(c, t) \/ NotDescribed(c, t) PROVE GraphKeys(g)'
    <3>1. \A d \in Calls :
            /\ Same(d)
            /\ d # c => call'[d].own = call[d].own
            /\ d = c => call'[d].own = call[d].own \ {t}
            /\ call'[d].waits = call[d].waits \ {t}
            /\ ~call'[d].mishap => /\ ~call[d].mishap
                                   /\ NotDescribed(c, t) => d # c /\ t \notin call[d].waits
      BY <2>9, SettledEffect
    <3>2. types' = types /\ keys \subseteq keys' /\ (t \in keys' \/ NotDescribed(c, t))
      BY <2>9 DEF Described, NotDescribed
    <3>3. ASSUME NEW d \in Calls, ~call'[d].mishap
          PROVE  call[d].own \cup call[d].waits
                   \subseteq keys' \cup call'[d].own \cup call'[d].waits
      <4>1. CASE t \in keys'
        BY <3>1, <4>1
      <4>2. CASE NotDescribed(c, t)
        <5>1. d # c /\ t \notin call[d].waits
          BY <3>1, <3>3, <4>2, Zenon
        <5>. QED
          BY <3>1, <5>1
      <4>. QED
        BY <3>2, <4>1, <4>2
    <3>4. ASSUME NEW d \in Calls PROVE CallKeys(d, g)'
      <4>1. CallKeys(d, g) /\ (~call'[d].mishap => ~call[d].mishap) /\ Same(d)
        BY <2>g, <3>1 DEF GraphKeys
      <4>. QED
        BY <2>1, <2>g, <3>2, <3>3, <4>1, CallKeysKept DEF Same
    <3>5. \A d \in Calls : call'[d].listing = call[d].listing
      BY <3>1 DEF Same
    <3>. QED
      BY <2>g, <3>2, <3>4, <3>5 DEF GraphKeys
  <2>10. CASE SchemaListed(c)
    <3>1. types' = types /\ keys' = keys
      BY <2>10 DEF SchemaListed, cache
    <3>2. CASE call[c].pc = "list" /\ call' = [call EXCEPT ![c] = Ended(c, "threw")]
      BY <2>e, <3>1, <3>2 DEF Hows
    <3>3. CASE /\ Others(c) /\ call'[c].pc = "describe" /\ call'[c].bare = {}
               /\ call'[c].listing = call[c].listing
      BY <2>1, <2>g, <3>1, <3>3, SameOthers, KeysAside
    <3>. QED
      BY <2>10, <3>2, <3>3, ListedEffect
  <2>11. CASE ServerExecutes(c) \/ ServerRefuses(c)
    <3>1. PICK how \in {"done", "refused"} :
            call[c].request = "sent" /\ call' = [call EXCEPT ![c].request = how]
      BY <2>11 DEF ServerExecutes, ServerRefuses
    <3>2. /\ Others(c) /\ SameAwaits(c)
          /\ call'[c].pc = call[c].pc /\ call'[c].listing = call[c].listing
          /\ call'[c].graphs = call[c].graphs /\ call'[c].missing = call[c].missing
          /\ call'[c].bare = call[c].bare
      BY <3>1, ServerEffect
    <3>3. types' = types /\ keys' = keys
      BY <2>11 DEF ServerExecutes, ServerRefuses, cache
    <3>4. CallKeys(c, g)'
      BY <2>1, <2>2, <2>g, <3>2, <3>3, CallKeysKept DEF SameAwaits
    <3>. QED
      BY <2>1, <2>g, <3>2, <3>3, <3>4, SameOthers, KeysOneCall
  <2>12. CASE ServerLists(c)
    <3>1. /\ Others(c) /\ SameAwaits(c) /\ call'[c].listing = catalog
          /\ call'[c].pc = call[c].pc /\ call'[c].bare = call[c].bare
          /\ call'[c].graphs = call[c].graphs /\ call'[c].missing = call[c].missing
      BY <2>12, ListsEffect
    <3>2. types' = types /\ keys' = keys
      BY <2>12 DEF ServerLists, cache
    <3>3. CallKeys(c, g)'
      BY <2>1, <2>2, <2>g, <3>1, <3>2, CallKeysKept DEF SameAwaits
    <3>. QED
      BY <2>1, <2>g, <3>1, <3>2, <3>3, SameOthers, KeysOneCall
  <2>. QED
    BY <1>1, <2>3, <2>4, <2>5, <2>6, <2>7, <2>8, <2>9, <2>10, <2>11, <2>12
       DEF CallNext, ExecuteStep, SchemaStep
<1>2. CASE Disconnect \/ CatalogChange \/ UNCHANGED vars
  <2>1. /\ UNCHANGED <<call, types, keys>> /\ (registered' => registered)
        /\ g \in Graphs \ changed /\ catalog'[g] = catalog[g]
    <3>a. CASE Disconnect
      BY <3>a DEF Disconnect, cache, server
    <3>b. CASE CatalogChange
      <4>1. PICK h \in Graphs, t \in GraphTypes \cup {NoType} :
              changed' = changed \cup {h} /\ catalog' = [catalog EXCEPT ![h] = t]
        BY <3>b DEF CatalogChange
      <4>2. UNCHANGED <<call, types, keys, registered>>
        BY <3>b DEF CatalogChange, cache
      <4>3. g # h /\ g \notin changed
        BY <4>1
      <4>4. catalog'[g] = catalog[g]
        BY <4>1, <4>3 DEF TypeInv, TypeOK, Catalogs
      <4>. QED
        BY <4>2, <4>3, <4>4
    <3>c. CASE UNCHANGED vars
      BY <3>c DEF vars
    <3>. QED
      BY <1>2, <3>a, <3>b, <3>c
  <2>2. GraphKeys(g)
    BY <2>1 DEF KeysInv
  <2>3. ASSUME NEW d \in Calls PROVE CallKeys(d, g)'
    <3>1. CallKeys(d, g)
      BY <2>2 DEF GraphKeys
    <3>. QED
      BY <2>1, <3>1, CallKeysKept
  <2>. QED
    BY <2>1, <2>2, <2>3 DEF GraphKeys
<1>. QED
  BY <1>1, <1>2 DEF Next

LEMMA KeysStart == Init => KeysInv
BY DEF Init, KeysInv, GraphKeys, CallKeys, NewCall

(* A graph result is presented with the keys of every listed graph, unless *)
(* a catalog request failed, another client changed that graph, or the     *)
(* connection is gone by then.                                             *)
THEOREM ResultsHaveKeys == Spec => []PresentedWithKeys
<1>1. TypeInv /\ KeysInv => PresentedWithKeys
  <2> SUFFICES ASSUME TypeInv, KeysInv, NEW c \in Calls, registered, ~call[c].mishap,
                      NEW g \in call[c].bare, g \notin changed
               PROVE  catalog[g] = NoType
    BY DEF PresentedWithKeys
  <2>1. g \in Graphs \ changed
    BY DEF TypeInv, TypeOK, CallStates
  <2>2. CallKeys(c, g)
    BY <2>1 DEF KeysInv, GraphKeys
  <2>. QED
    BY <2>2 DEF CallKeys
<1>. QED
  BY <1>1, TypeStart, TypeStep, KeysStart, KeysStep, PTL DEF Spec

(***************************************************************************)
(* Progress, as far as it is a matter of single steps.  That every call    *)
(* settles is liveness, which the run checks; what its argument rests on   *)
(* is proved here: no call goes back to an await it has left, what a call  *)
(* awaits while it warms the cache only shrinks -- calls that come later   *)
(* add nothing to it -- and a call that awaits another's DESC awaits a     *)
(* call that is running it, so that no two can wait for each other.        *)
(***************************************************************************)
CallStage ==
  [ p \in {"idle", "statement", "graphs", "keys", "returned", "list", "describe"} \cup Hows |->
      CASE p = "idle" -> 0 [] p \in {"statement", "list"} -> 1 [] p \in {"graphs", "describe"} -> 2
        [] p = "keys" -> 3 [] p = "returned" -> 4 [] OTHER -> 5 ]

CallsMoveOn == \A c \in Calls :
  /\ call'[c].pc # call[c].pc => CallStage[call'[c].pc] > CallStage[call[c].pc]
  /\ call[c].pc = "keys" => /\ call'[c].own \subseteq call[c].own
                            /\ call'[c].waits \subseteq call[c].waits

OnlyForward == [][CallsMoveOn]_vars

(* A step of one call whose pc goes up, seen as a step of all of them. *)
LEMMA OneMovesOn ==
  ASSUME NEW c \in Calls, \A d \in Calls \ {c} : Same(d) /\ SameAwaits(d),
         CallStage[call'[c].pc] > CallStage[call[c].pc], call[c].pc # "keys"
  PROVE  CallsMoveOn
BY DEF CallsMoveOn, Same, SameAwaits

(* A step that moves no call on and leaves what it awaits alone. *)
LEMMA NoneMovesOn ==
  ASSUME \A d \in Calls : call'[d].pc = call[d].pc /\ SameAwaits(d)
  PROVE  CallsMoveOn
BY DEF CallsMoveOn, SameAwaits

LEMMA EndsMoveOn ==
  ASSUME NEW c \in Calls, TypeInv, NEW how \in Hows,
         call[c].pc \in {"statement", "list", "describe"},
         call' = [call EXCEPT ![c] = Ended(c, how)]
  PROVE  CallsMoveOn
<1>1. Others(c) /\ call'[c].pc = how
  BY EndEffect
<1>2. CallStage[how] = 5 /\ CallStage[call[c].pc] \in {1, 2}
  BY DEF CallStage, Hows
<1>. QED
  BY <1>1, <1>2, SameOthers, OneMovesOn

LEMMA MoveOnStep == TypeInv /\ [Next]_vars => [CallsMoveOn]_vars
<1> SUFFICES ASSUME TypeInv, Next PROVE CallsMoveOn
  OBVIOUS
<1>p. /\ CallStage["idle"] = 0 /\ CallStage["statement"] = 1 /\ CallStage["list"] = 1
      /\ CallStage["graphs"] = 2 /\ CallStage["describe"] = 2 /\ CallStage["keys"] = 3
      /\ CallStage["returned"] = 4 /\ CallStage["ok"] = 5 /\ CallStage["threw"] = 5
  BY DEF CallStage, Hows
<1>1. ASSUME NEW c \in Calls, CallNext(c) PROVE CallsMoveOn
  <2>0. Shape(call[c]) /\ types \in Catalogs
    BY DEF TypeInv, TypeOK
  <2>f. ASSUME NEW s \in CallStates, s.op = "query", s.clear = FALSE, s.bare = {},
               NEW known \in Catalogs, call[c].pc \in {"statement", "graphs"}, Fetch(c, s, known)
        PROVE  CallsMoveOn
    <3>1. Others(c) /\ call'[c].pc = "keys"
      BY <2>f, FetchEffect
    <3>. QED
      BY <1>p, <2>f, <3>1, SameOthers, OneMovesOn
  <2>1. CASE Execute(c)
    <3>1. /\ \A d \in Calls \ {c} : Same(d) /\ SameAwaits(d)
          /\ call[c].pc = "idle" /\ call'[c].pc = "statement"
      BY <2>1, ExecuteEffect
    <3>. QED
      BY <1>p, <3>1, OneMovesOn
  <2>2. CASE UnknownConnection(c) \/ Schema(c)
    <3>1. Others(c) /\ call[c].pc = "idle" /\ call'[c].pc \in {"threw", "list"}
      BY <2>2, UnknownEffect, SchemaEffect
    <3>. QED
      BY <1>p, <3>1, SameOthers, OneMovesOn
  <2>3. CASE StatementOk(c)
    <3>0. call[c].pc = "statement"
      BY <2>3, StatementOkEffect
    <3>1. CASE call' = [call EXCEPT ![c] = Ended(c, "ok")]
      BY <3>0, <3>1, EndsMoveOn DEF Hows
    <3>2. CASE call' = [call EXCEPT ![c] = Returned(c)]
      <4>1. Others(c) /\ call'[c].pc = "returned"
        BY <3>2, ReturnEffect
      <4>. QED
        BY <1>p, <3>0, <4>1, SameOthers, OneMovesOn
    <3>3. CASE \E s \in CallStates : /\ s.op = "query" /\ s.clear = FALSE /\ s.bare = {}
                                     /\ Fetch(c, s, types)
      BY <2>0, <2>f, <3>0, <3>3
    <3>4. CASE Others(c) /\ call'[c].pc = "graphs"
      BY <1>p, <3>0, <3>4, SameOthers, OneMovesOn
    <3>. QED
      BY <2>3, <3>1, <3>2, <3>3, <3>4, StatementOkEffect
  <2>4. CASE StatementError(c) \/ StatementLost(c) \/ SchemaDescribed(c) \/ SchemaFailed(c)
    <3>1. PICK how \in Hows : call' = [call EXCEPT ![c] = Ended(c, how)]
      BY <2>4 DEF StatementError, StatementLost, SchemaDescribed, SchemaFailed, Hows
    <3>2. call[c].pc \in {"statement", "list", "describe"}
      BY <2>4 DEF StatementError, StatementLost, SchemaDescribed, SchemaFailed
    <3>. QED
      BY <3>1, <3>2, EndsMoveOn
  <2>5. CASE GraphsShown(c) \/ GraphsNotShown(c)
    <3>1. call[c].pc = "graphs"
      BY <2>5, ShownEffect
    <3>2. PICK s \in CallStates, known \in Catalogs :
            Fetch(c, s, known) /\ s.op = "query" /\ s.clear = FALSE /\ s.bare = {}
      BY <2>5, ShownEffect
    <3>. QED
      BY <2>f, <3>1, <3>2
  <2>6. CASE Warmed(c)
    <3>1. /\ Others(c) /\ call'[c].pc = "returned" /\ call[c].pc = "keys"
          /\ call[c].own = {} /\ call[c].waits = {}
      BY <2>6, ReturnEffect DEF Warmed
    <3>2. call'[c].own = {} /\ call'[c].waits = {}
      <4>1. Shape(call'[c])
        BY <2>6, ReturnEffect DEF Warmed, Shapes
      <4>. QED
        BY <3>1, <4>1 DEF Shape
    <3>. QED
      BY <1>p, <3>1, <3>2 DEF CallsMoveOn, Others
  <2>7. CASE Present(c)
    <3>1. Others(c) /\ call[c].pc = "returned" /\ call'[c].pc = "ok"
      BY <2>7, PresentEffect
    <3>. QED
      BY <1>p, <3>1, SameOthers, OneMovesOn
  <2>8. CASE \E t \in GraphTypes : Described(c, t) \/ NotDescribed(c, t)
    <3>1. PICK t \in GraphTypes : Described(c, t) \/ NotDescribed(c, t)
      BY <2>8
    <3>2. \A d \in Calls : /\ call'[d].pc = call[d].pc
                           /\ d = c => call'[d].own = call[d].own \ {t}
                           /\ d # c => call'[d].own = call[d].own
                           /\ call'[d].waits = call[d].waits \ {t}
      BY <3>1, SettledEffect DEF Same
    <3>. QED
      BY <3>2 DEF CallsMoveOn
  <2>9. CASE SchemaListed(c)
    <3>1. CASE call[c].pc = "list" /\ call' = [call EXCEPT ![c] = Ended(c, "threw")]
      BY <3>1, EndsMoveOn DEF Hows
    <3>2. CASE Others(c) /\ call[c].pc = "list" /\ call'[c].pc = "describe"
      BY <1>p, <3>2, SameOthers, OneMovesOn
    <3>. QED
      BY <2>9, <3>1, <3>2, ListedEffect
  <2>10. CASE ServerExecutes(c) \/ ServerRefuses(c)
    <3>1. PICK how \in {"done", "refused"} :
            call[c].request = "sent" /\ call' = [call EXCEPT ![c].request = how]
      BY <2>10 DEF ServerExecutes, ServerRefuses
    <3>2. Others(c) /\ call'[c].pc = call[c].pc /\ SameAwaits(c)
      BY <3>1, ServerEffect
    <3>3. \A d \in Calls : call'[d].pc = call[d].pc /\ SameAwaits(d)
      BY <3>2, SameOthers DEF Same
    <3>. QED
      BY <3>3, NoneMovesOn
  <2>11. CASE ServerLists(c)
    <3>1. Others(c) /\ call'[c].pc = call[c].pc /\ SameAwaits(c)
      BY <2>11, ListsEffect
    <3>2. \A d \in Calls : call'[d].pc = call[d].pc /\ SameAwaits(d)
      BY <3>1, SameOthers DEF Same
    <3>. QED
      BY <3>2, NoneMovesOn
  <2>. QED
    BY <1>1, <2>1, <2>2, <2>3, <2>4, <2>5, <2>6, <2>7, <2>8, <2>9, <2>10, <2>11
       DEF CallNext, ExecuteStep, SchemaStep
<1>2. CASE Disconnect \/ CatalogChange
  BY <1>2 DEF Disconnect, CatalogChange, CallsMoveOn
<1>. QED
  BY <1>1, <1>2 DEF Next

(* However the calls of a connection overlap, each only moves forward, and *)
(* what one awaits at the shared DESCs is never added to (nebula_execute,  *)
(* nebula_schema, resolveElementKeys, fetchElementKeys, presentationMeta). *)
THEOREM CallsOnlyMoveForward == Spec => OnlyForward
BY TypeStart, TypeStep, MoveOnStep, PTL DEF Spec, OnlyForward

(* A call that awaits a DESC it does not run awaits one that another call  *)
(* is running at that moment, itself at the same await: fetchElementKeys   *)
(* never leaves a promise in its table that nobody will settle.            *)
WaitsAreServed ==
  \A c \in Calls : \A t \in call[c].waits :
    \E d \in Calls \ {c} : t \in call[d].own /\ call[d].pc = "keys"

THEOREM NobodyStarves == Spec => []WaitsAreServed
<1>1. TypeInv /\ FetchInv => WaitsAreServed
  <2> SUFFICES ASSUME TypeInv, FetchInv, NEW c \in Calls, NEW t \in call[c].waits
               PROVE  \E d \in Calls \ {c} : t \in call[d].own /\ call[d].pc = "keys"
    BY DEF WaitsAreServed
  <2>1. t \in GraphTypes /\ inflight[t] \in Calls \cup {NoCall}
    BY DEF TypeInv, TypeOK, CallStates
  <2>2. inflight[t] \in Calls \ {c} /\ t \in call[inflight[t]].own
    BY <2>1 DEF FetchInv
  <2>3. call[inflight[t]].pc = "keys"
    BY <2>2 DEF TypeInv, Shape
  <2>. QED
    BY <2>2, <2>3
<1>. QED
  BY <1>1, TypeStart, TypeStep, FetchStart, FetchStep, PTL DEF Spec
=============================================================================
