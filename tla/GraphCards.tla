----------------------------- MODULE GraphCards -----------------------------
(* The graph cards of a conversation: nebulaGraphDefinition, which turns   *)
(* the conversation's log into one card per turn, and NebulaGraphView,     *)
(* which draws a card with a G6 instance and can fill the screen with it.  *)
(* React renders and runs effects some time after what caused them, and    *)
(* the browser answers a request for full screen later, or refuses it.     *)
(* A graph is named by the sequence number of the event that brought it.   *)
EXTENDS Naturals, Sequences, SequencesExt

CONSTANTS Turns, MaxEvents

ASSUME MaxEventsAssumption == MaxEvents \in Nat

VARIABLES
  log,      \* the conversation's events, as the engine applies them
  context,  \* turn -> the engine's context of the node nebula-<turn>
  view,     \* turn -> NebulaGraphView, if the card is mounted
  live,     \* the G6 instances not destroyed, as <<turn, graph>>
  screen,   \* the browser's stack of full-screen elements (cards)
  asking,   \* cards whose requestFullscreen is not answered yet
  leaving,  \* an exitFullscreen is not carried out yet
  changed   \* fullscreenchange is due

cardVars == <<log, context, view, live, screen, asking, leaving, changed>>

Kinds == {"turn start", "graph result", "other result"}

NoGraph == 0

Graphs == NoGraph .. MaxEvents

(* graph: the state's; latest: where context.matches.at(-1) is. *)
Contexts == [open : BOOLEAN, graph : Graphs, latest : Graphs]

(* shown: the graph last rendered (NoGraph: not mounted); drawn: the graph *)
(* the mount effect last ran for; full: the state fullscreen; refused is   *)
(* history: the browser refused the last request to fill the screen.       *)
Views == [shown : Graphs, drawn : Graphs, full : BOOLEAN, refused : BOOLEAN]

CardsTypeOK ==
  /\ log \in Seq([kind : Kinds, turn : Turns]) /\ Len(log) <= MaxEvents
  /\ context \in [Turns -> Contexts]
  /\ view \in [Turns -> Views]
  /\ live \subseteq Turns \X (Graphs \ {NoGraph})
  /\ screen \in Seq(Turns) /\ IsInjective(screen)
  /\ asking \subseteq Turns
  /\ leaving \in BOOLEAN /\ changed \in BOOLEAN

CardsInit ==
  /\ log = <<>>
  /\ context = [t \in Turns |-> [open |-> FALSE, graph |-> NoGraph, latest |-> NoGraph]]
  /\ view = [t \in Turns |->
               [shown |-> NoGraph, drawn |-> NoGraph, full |-> FALSE, refused |-> FALSE]]
  /\ live = {}
  /\ screen = <<>> /\ asking = {} /\ leaving = FALSE /\ changed = FALSE

-----------------------------------------------------------------------------
(* match: the role of an event in the node of its turn. *)
Match(kind) ==
  CASE kind = "turn start" -> "start"
    [] kind = "graph result" -> "update"
    [] kind = "other result" -> "none"

(* update: the state takes the graph of the event, if it has one. *)
Updated(t, kind, seq) == IF kind = "graph result" THEN seq ELSE context[t].graph

(* The engine applies an event: start, or update, or nothing to this node. *)
(* A turn has one start, which precedes its results.                       *)
Event(kind, t) ==
  LET seq == Len(log) + 1
  IN  /\ seq <= MaxEvents
      /\ kind = "turn start" <=> ~context[t].open
      /\ log' = Append(log, [kind |-> kind, turn |-> t])
      /\ CASE Match(kind) = "start" ->
                context' = [context EXCEPT ![t] =
                              [open |-> TRUE, graph |-> NoGraph, latest |-> seq]]
           [] Match(kind) = "update" ->
                context' = [context EXCEPT ![t] = [@ EXCEPT !.graph = Updated(t, kind, seq), !.latest = seq]]
           [] OTHER -> UNCHANGED context
      /\ UNCHANGED <<view, live, screen, asking, leaving, changed>>

-----------------------------------------------------------------------------
(* React has no effect of an earlier render of this card to run. *)
Flushed(t) == view[t].drawn = view[t].shown

Mounted(t) == view[t].shown # NoGraph

(* The card appears, or is rendered again with a newer graph.  Before it   *)
(* renders React runs the effects that are due.                            *)
Render(t) ==
  /\ context[t].graph # NoGraph
  /\ Flushed(t) /\ view[t].shown # context[t].graph
  /\ view' = [view EXCEPT ![t].shown = context[t].graph]
  /\ UNCHANGED <<log, context, live, screen, asking, leaving, changed>>

(* The effect with dependency [graph]: the cleanup of its last run destroys *)
(* the old G6 instance, then a mounted card gets one for the new graph.    *)
Instances(t) ==
  (live \ {<<t, view[t].drawn>>})
    \cup (IF Mounted(t) THEN {<<t, view[t].shown>>} ELSE {})

RunEffectOnMount(t) ==
  /\ ~Flushed(t)
  /\ live' = IF Mounted(t) /\ view[t].drawn # NoGraph THEN live ELSE Instances(t)
  /\ view' = [view EXCEPT ![t].drawn = view[t].shown]
  /\ UNCHANGED <<log, context, screen, asking, leaving, changed>>

RunEffect(t) ==
  /\ ~Flushed(t)
  /\ live' = Instances(t)
  /\ view' = [view EXCEPT ![t].drawn = view[t].shown]
  /\ UNCHANGED <<log, context, screen, asking, leaving, changed>>

(* The browser's stack without a card, which is in it once if at all.      *)
ScreenWithout(t) ==
  IF Contains(screen, t) THEN RemoveAt(screen, CHOOSE i \in DOMAIN screen : screen[i] = t) ELSE screen

(* The conversation takes the card off the page: its state is gone, and    *)
(* the browser drops an element that is no longer in the document.         *)
Unmount(t) ==
  /\ Mounted(t) /\ Flushed(t)
  /\ view' = [view EXCEPT ![t] =
                [shown |-> NoGraph, drawn |-> view[t].drawn, full |-> FALSE, refused |-> FALSE]]
  /\ asking' = asking \ {t}
  /\ screen' = ScreenWithout(t)
  /\ changed' = (changed \/ Contains(screen, t))
  /\ UNCHANGED <<log, context, live, leaving>>

-----------------------------------------------------------------------------
(* toggleFullscreen: the state changes at once, the screen later if at all; *)
(* exitFullscreen does nothing when no element fills the screen.           *)
ToggleFullscreen(t) ==
  /\ Mounted(t) /\ Flushed(t)
  /\ \/ /\ view[t].full
        /\ view' = [view EXCEPT ![t].full = FALSE]
        /\ leaving' = (leaving \/ screen # <<>>)
        /\ UNCHANGED asking
     \/ /\ ~view[t].full
        /\ view' = [view EXCEPT ![t] = [@ EXCEPT !.full = TRUE, !.refused = FALSE]]
        /\ asking' = asking \cup {t}
        /\ UNCHANGED leaving
  /\ UNCHANGED <<log, context, live, screen, changed>>

(* The listener of fullscreenchange on every card reads the screen as it   *)
(* is when the event arrives.                                              *)
FullscreenChangeUnheard ==
  /\ changed /\ changed' = FALSE
  /\ UNCHANGED <<log, context, view, live, screen, asking, leaving>>

FullscreenChange ==
  /\ changed /\ changed' = FALSE
  /\ view' = [t \in Turns |->
                IF screen = <<>> THEN [view[t] EXCEPT !.full = FALSE] ELSE view[t]]
  /\ UNCHANGED <<log, context, live, screen, asking, leaving>>

(* The browser's part. *)
Fills(t) ==
  /\ t \in asking
  /\ asking' = asking \ {t}
  /\ screen' = Append(ScreenWithout(t), t)
  /\ changed' = TRUE
  /\ UNCHANGED <<log, context, view, live, leaving>>

Refuses(t) ==
  /\ t \in asking
  /\ asking' = asking \ {t}
  /\ view' = [view EXCEPT ![t].refused = TRUE]
  /\ UNCHANGED <<log, context, live, screen, leaving, changed>>

Leaves ==
  /\ leaving /\ leaving' = FALSE
  /\ IF screen = <<>> THEN UNCHANGED <<screen, changed>>
     ELSE screen' = Front(screen) /\ changed' = TRUE
  /\ UNCHANGED <<log, context, view, live, asking>>

Escape ==
  /\ screen # <<>> /\ screen' = <<>>
  /\ changed' = TRUE
  /\ UNCHANGED <<log, context, view, live, asking, leaving>>

CardsNext ==
  \/ \E t \in Turns :
       \/ \E kind \in Kinds : Event(kind, t)
       \/ Render(t) \/ RunEffect(t) \/ Unmount(t)
       \/ ToggleFullscreen(t) \/ Fills(t) \/ Refuses(t)
  \/ FullscreenChange \/ Leaves \/ Escape

CardsSpec == CardsInit /\ [][CardsNext]_cardVars

-----------------------------------------------------------------------------
(* What the log says: the last graph a tool returned in a turn. *)
LastGraph(t) ==
  LET results == {n \in DOMAIN log : log[n] = [kind |-> "graph result", turn |-> t]}
  IN  IF results = {} THEN NoGraph ELSE CHOOSE n \in results : \A m \in results : m <= n

(* "Only the turn's FINAL graph renders": the card of a turn stands at the *)
(* turn's last graph result, and once React has caught up a card has one   *)
(* G6 instance, drawing that graph, and a card off the page has none       *)
(* (nebulaGraphDefinition, the mount effect and its cleanup).              *)
FinalGraphDrawn ==
  \A t \in Turns :
    /\ context[t].graph # NoGraph => context[t].latest = LastGraph(t)
    /\ Flushed(t) /\ view[t].shown \in {NoGraph, context[t].graph} =>
         {i \in live : i[1] = t} = (IF Mounted(t) THEN {<<t, LastGraph(t)>>} ELSE {})

(* When the screen is not filled any more no card covers the page as if it *)
(* were, where Escape would not help the user: a request is still open or  *)
(* was refused (toggleFullscreen does not look at the answer).             *)
NoStrandedOverlay ==
  \A t \in Turns :
    view[t].full /\ screen = <<>> /\ ~changed => t \in asking \/ view[t].refused
=============================================================================
