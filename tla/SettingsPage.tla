---------------------------- MODULE SettingsPage ----------------------------
(***************************************************************************)
(* Settings -> NebulaGraph: browser pages that edit one stored section     *)
(* through the plugin's /dsh-nebula/api route.  A page writes whole        *)
(* sections and names the revision it read; the host refuses a write whose *)
(* revision is not the current one and tells every page of a write it      *)
(* makes.  Loads, updates and their replies travel by separate HTTP        *)
(* requests and may overtake each other.                                   *)
(*                                                                         *)
(* Of an instance profile only the alias counts and whether two profiles   *)
(* differ; the page's field validation (validateDraft) has passed when a   *)
(* draft is saved.  Credential values are not part of the section.         *)
(***************************************************************************)
EXTENDS Naturals, Sequences

CONSTANTS Pages,        \* open settings pages
          Aliases,      \* instance aliases
          Profiles,     \* what else an instance says
          Refs,         \* extra credential references
          NoAlias,      \* no default instance
          FirstSections, \* what may be stored when the pages open
          MaxWrites,    \* bound: after that many writes users stop editing
          MaxRequests   \* bound on the updates a page has under way

ASSUME NoAliasAssumption == NoAlias \notin Aliases
ASSUME BoundsAssumption == MaxWrites \in Nat /\ MaxRequests \in Nat

VARIABLES log,       \* the sections stored so far; the revision is Len(log)
          page,      \* per page: what it shows, its editor, its loads
          requests,  \* instances.update calls the host has yet to handle
          replies    \* its replies, on their way

vars == <<log, page, requests, replies>>

-----------------------------------------------------------------------------
Instances == [alias : Aliases, profile : Profiles]
NoInstance == [alias |-> NoAlias]

Sections == [ instances : SUBSET Instances,
              default   : Aliases \cup {NoAlias},
              refs      : SUBSET Refs ]

AliasesOf(instances) == {i.alias : i \in instances}

Revisions == 1 .. (MaxWrites + 1)
Revision == Len(log)
Stored == log[Revision]

(* view 0: the page is loading or shows a load error, and takes no edits.  *)
(* edits is the instance an editor was seeded from.  A page loads when it  *)
(* opens and once per write it is told of, so a load under way is named by *)
(* the revision it was asked at.                                           *)
PageStates ==
  [ view      : {0} \cup Revisions,
    editor    : {"closed", "new", "edit"},
    edits     : Instances \cup {NoInstance},
    saving    : BOOLEAN,
    loads     : SUBSET Revisions,
    disturbed : BOOLEAN ]     \* a load failed, or an answer was overtaken

(* kind "section" leaves credentialRefs out of the write; "extras" does not.*)
(* A removal of a reference clears its value first ("unsetting").           *)
Requests ==
  [ page  : Pages,
    slot  : 1 .. MaxRequests,
    kind  : {"section", "extras"},
    next  : Sections,
    base  : Revisions,               \* the revision the page read
    from  : Instances \cup {NoInstance},
    stage : {"unsetting", "sent", "forsaken"} ]   \* forsaken: the page gave up on it

(* view 0: the host refused the write. *)
Replies == [page : Pages, slot : 1 .. MaxRequests, kind : {"section", "extras"},
            view : {0} \cup Revisions]

TypeOK ==
  /\ log \in Seq(Sections)
  /\ Revision \in Revisions
  /\ page \in [Pages -> PageStates]
  /\ requests \subseteq Requests
  /\ replies \subseteq Replies

Shown(p) == log[page[p].view]
Ready(p) == page[p].view # 0
Editing == Revision <= MaxWrites
Free(p) == (1 .. MaxRequests) \ {q.slot : q \in {r \in requests \cup replies : r.page = p}}

(* validateInstanceSettings: one profile per alias. *)
Valid(s) == \A i, j \in s.instances : i.alias = j.alias => i = j

Sound(s) == Valid(s) /\ s.default \in AliasesOf(s.instances) \cup {NoAlias}

ASSUME FirstSectionsAssumption == FirstSections \subseteq {s \in Sections : Sound(s)}

Init ==
  /\ \E s \in FirstSections : log = <<s>>
  /\ page = [p \in Pages |-> [view |-> 0, editor |-> "closed", edits |-> NoInstance,
                              saving |-> FALSE, loads |-> {1}, disturbed |-> FALSE]]
  /\ requests = {}
  /\ replies = {}

-----------------------------------------------------------------------------
(* instances.get answers the load asked at revision n with the section     *)
(* stored when the host gets to it, and the page shows what the answer     *)
(* says, whatever it shows already.                                        *)
LoadArrives(p, n, r) ==
  /\ n \in page[p].loads /\ n <= r /\ r <= Revision
  /\ page' = [page EXCEPT ![p].loads = @ \ {n}, ![p].view = r,
                          ![p].disturbed = @ \/ r < page[p].view]
  /\ UNCHANGED <<log, requests, replies>>

LoadFails(p, n) ==
  /\ n \in page[p].loads
  /\ page' = [page EXCEPT ![p].loads = @ \ {n}, ![p].view = 0, ![p].disturbed = TRUE]
  /\ UNCHANGED <<log, requests, replies>>

-----------------------------------------------------------------------------
BeginNew(p) ==
  /\ Ready(p) /\ Editing
  /\ page' = [page EXCEPT ![p].editor = "new", ![p].edits = NoInstance]
  /\ UNCHANGED <<log, requests, replies>>

BeginEdit(p, i) ==
  /\ Ready(p) /\ Editing
  /\ i \in Shown(p).instances
  /\ page' = [page EXCEPT ![p].editor = "edit", ![p].edits = i]
  /\ UNCHANGED <<log, requests, replies>>

CancelEdit(p) ==
  /\ Ready(p)
  /\ page[p].editor # "closed"
  /\ page' = [page EXCEPT ![p].editor = "closed", ![p].edits = NoInstance]
  /\ UNCHANGED <<log, requests, replies>>

(* The page posts the section it wants, with the revision it shows. *)
Request(p, kind, next, from, stage) ==
  /\ Editing /\ Free(p) # {}
  /\ requests' = requests \cup
       {[page |-> p, slot |-> CHOOSE n \in Free(p) : \A m \in Free(p) : n <= m,
         kind |-> kind, next |-> next, base |-> page[p].view, from |-> from, stage |-> stage]}
  /\ page' = [page EXCEPT ![p].saving = @ \/ stage = "sent"]
  /\ UNCHANGED <<log, replies>>

(* Saving a draft as instance i: the default follows a renamed default.    *)
DefaultStays(p, i) == Shown(p).default

DefaultFollows(p, i) ==
  IF page[p].editor = "edit" /\ page[p].edits.alias = Shown(p).default
  THEN i.alias ELSE Shown(p).default

SaveDraft(p, i) ==
  LET old == {j \in Shown(p).instances : page[p].editor = "edit" /\ j.alias = page[p].edits.alias}
      kept == Shown(p).instances \ old
  IN /\ Ready(p) /\ page[p].editor # "closed" /\ ~page[p].saving
     /\ i.alias \notin AliasesOf(kept)
     /\ Request(p, "section",
          [Shown(p) EXCEPT !.instances = IF page[p].editor = "new" \/ old # {}
                                         THEN kept \cup {i} ELSE kept,
                           !.default = DefaultFollows(p, i)],
          page[p].edits, "sent")

RemoveInstance(p, a) ==
  /\ Ready(p) /\ ~page[p].saving
  /\ a \in AliasesOf(Shown(p).instances)
  /\ Request(p, "section",
       [Shown(p) EXCEPT !.instances = {i \in @ : i.alias # a},
                        !.default = IF @ = a THEN NoAlias ELSE @], NoInstance, "sent")

SetDefaultInstance(p, a) ==
  \E i \in Instances :
    /\ Ready(p) /\ ~page[p].saving
    /\ i \in Shown(p).instances /\ i.alias = a
    /\ Request(p, "section", [Shown(p) EXCEPT !.default = i], NoInstance, "sent")

SetDefault(p, a) ==
  /\ Ready(p) /\ ~page[p].saving
  /\ a \in AliasesOf(Shown(p).instances)
  /\ Request(p, "section", [Shown(p) EXCEPT !.default = a], NoInstance, "sent")

(* The credential panel does not look at saving. *)
AddRef(p, r) ==
  /\ Ready(p)
  /\ r \notin Shown(p).refs
  /\ Request(p, "extras", [Shown(p) EXCEPT !.refs = @ \cup {r}], NoInstance, "sent")

RemoveRef(p, r) ==
  /\ Ready(p)
  /\ r \in Shown(p).refs
  /\ Request(p, "extras", [Shown(p) EXCEPT !.refs = @ \ {r}], NoInstance, "unsetting")

(* The value is cleared: the write goes out as it was prepared before.     *)
ValueCleared(q) ==
  /\ q.stage = "unsetting"
  /\ requests' = (requests \ {q}) \cup {[q EXCEPT !.stage = "sent"]}
  /\ page' = [page EXCEPT ![q.page].saving = TRUE]
  /\ UNCHANGED <<log, replies>>

ValueNotCleared(q) ==
  /\ q.stage = "unsetting"
  /\ requests' = requests \ {q}
  /\ UNCHANGED <<log, page, replies>>

-----------------------------------------------------------------------------
(* instances.update at the host.  The settings provider refuses a revision *)
(* that is not the stored one, merges the fields the write carries over    *)
(* the stored section and publishes document-updated, on which every page  *)
(* loads again; the reply carries the section read back.                   *)
Merged(q) ==
  IF q.kind = "section" THEN [q.next EXCEPT !.refs = Stored.refs] ELSE q.next

Answer(q, view) ==
  /\ requests' = requests \ {q}
  /\ replies' =
       IF q.stage = "forsaken" THEN replies
       ELSE replies \cup {[page |-> q.page, slot |-> q.slot, kind |-> q.kind, view |-> view]}

Told(p) == [page[p] EXCEPT !.loads = @ \cup {Revision + 1}]

HostAcceptsAny(q) ==
  /\ q.stage # "unsetting" /\ Valid(q.next)
  /\ Editing
  /\ log' = Append(log, Merged(q))
  /\ Answer(q, Revision + 1)
  /\ page' = [p \in Pages |-> Told(p)]

HostTellsOthers(q) ==
  /\ q.stage # "unsetting" /\ Valid(q.next) /\ q.base = Revision
  /\ Editing
  /\ log' = Append(log, Merged(q))
  /\ Answer(q, Revision + 1)
  /\ page' = [p \in Pages |-> IF p = q.page THEN page[p] ELSE Told(p)]

HostAccepts(q) ==
  /\ q.stage # "unsetting" /\ Valid(q.next) /\ q.base = Revision
  /\ Editing
  /\ log' = Append(log, Merged(q))
  /\ Answer(q, Revision + 1)
  /\ page' = [p \in Pages |-> Told(p)]

HostRefuses(q) ==
  /\ q.stage # "unsetting"
  /\ ~Valid(q.next) \/ q.base # Revision
  /\ Answer(q, 0)
  /\ UNCHANGED <<log, page>>

(* update resolves: the page shows the section it was answered with.  A    *)
(* saved section also closes the editor, whatever it is editing by now.    *)
UpdateReturns(m) ==
  /\ m.view # 0
  /\ replies' = replies \ {m}
  /\ page' = [page EXCEPT ![m.page].view = m.view, ![m.page].saving = FALSE,
                          ![m.page].editor = IF m.kind = "section" THEN "closed" ELSE @,
                          ![m.page].edits = IF m.kind = "section" THEN NoInstance ELSE @,
                          ![m.page].disturbed = @ \/ m.view < page[m.page].view]
  /\ UNCHANGED <<log, requests>>

(* update rejects: the host refused the write, the reply is lost, or the   *)
(* request is, perhaps only for the page.  The page keeps what it shows    *)
(* and loads nothing.                                                      *)
Rejected(p) == page' = [page EXCEPT ![p].saving = FALSE]

UpdateRejects(m) ==
  /\ Rejected(m.page)
  /\ replies' = replies \ {m}
  /\ UNCHANGED <<log, requests>>

RequestLost(q) ==
  /\ q.stage = "sent"
  /\ Rejected(q.page)
  /\ \/ requests' = requests \ {q}
     \/ requests' = (requests \ {q}) \cup {[q EXCEPT !.stage = "forsaken"]}
  /\ UNCHANGED <<log, replies>>

-----------------------------------------------------------------------------
PageNext(p) ==
  \/ \E n, r \in Revisions : LoadArrives(p, n, r)
  \/ \E n \in Revisions : LoadFails(p, n)
  \/ BeginNew(p) \/ CancelEdit(p)
  \/ \E i \in Instances : BeginEdit(p, i) \/ SaveDraft(p, i)
  \/ \E a \in Aliases : RemoveInstance(p, a) \/ SetDefault(p, a)
  \/ \E r \in Refs : AddRef(p, r) \/ RemoveRef(p, r)

RequestNext(q) ==
  \/ ValueCleared(q) \/ ValueNotCleared(q)
  \/ HostAccepts(q) \/ HostRefuses(q) \/ RequestLost(q)

Next ==
  \/ \E p \in Pages : PageNext(p)
  \/ \E q \in requests : RequestNext(q)
  \/ \E m \in replies : UpdateReturns(m) \/ UpdateRejects(m)

Spec == Init /\ [][Next]_vars

-----------------------------------------------------------------------------
(* Pages, retries and lost replies together never store a default that     *)
(* names no instance, nor two instances of one alias, although the host    *)
(* does not check the first (validateInstanceSettings).                    *)
StoredSound == \A n \in 1 .. Revision : Sound(log[n])

(* Every stored section differs from the one before it by one thing a user *)
(* did: at most one instance added, removed or replaced, or the default    *)
(* set, or one reference added or removed.  So no write, however late or   *)
(* repeated, undoes what another page has stored in the meantime.          *)
AtMostOne(S) == \A x, y \in S : x = y

OneInstanceEdit(s, t) ==
  /\ AtMostOne(s.instances \ t.instances)
  /\ AtMostOne(t.instances \ s.instances)
  /\ \/ t.default = s.default
     \/ t.instances = s.instances
     \/ s.default # NoAlias /\ s.default \notin AliasesOf(t.instances)
  /\ t.refs = s.refs

OneRefEdit(s, t) ==
  /\ t.instances = s.instances /\ t.default = s.default
  /\ AtMostOne((s.refs \ t.refs) \cup (t.refs \ s.refs))

OneEditAtATime ==
  \A n \in 1 .. (Revision - 1) :
    OneInstanceEdit(log[n], log[n + 1]) \/ OneRefEdit(log[n], log[n + 1])

(* Once nothing of its own is under way, a page shows the section stored   *)
(* now -- unless a load of it failed or an answer overtook a newer one,    *)
(* after which the page waits for the next write of anybody.               *)
PagesCatchUp ==
  \A p \in Pages :
    \/ page[p].disturbed
    \/ page[p].loads # {}
    \/ page[p].view = Revision

-----------------------------------------------------------------------------
(* "Replace the section; revision fences stale writes" (update, in         *)
(* NebulaInstancesSection.tsx): a draft is stored only over the very       *)
(* instance it was seeded from.                                            *)
DraftReplacesItsSeed ==
  [][\A q \in requests :
       HostAccepts(q) /\ q.from # NoInstance => q.from \in Stored.instances]_vars
=============================================================================
