------------------------- MODULE SettingsPageProofs -------------------------
(***************************************************************************)
(* Theorems about SettingsPage: for any pages, aliases, profiles and       *)
(* references, and any bounds on writes and requests, the stored sections  *)
(* are sound, each is one user edit away from the one before, and a page   *)
(* that nothing disturbed catches up.  What makes it so is the request     *)
(* under way: it is an edit of the section it was prepared from, whatever  *)
(* its page shows by the time the host looks at it.                        *)
(***************************************************************************)
EXTENDS SettingsPage, SequenceTheorems, WellFoundedInduction, TLAPS

(* A request asks for one edit of the section of its base.                 *)
Prepared(q) ==
  /\ q.base <= Revision
  /\ Sound(q.next)
  /\ q.kind = "section" => OneInstanceEdit(log[q.base], q.next)
  /\ q.kind = "extras" => OneRefEdit(log[q.base], q.next)

(* Pages and replies speak of sections there are.                          *)
Known ==
  /\ \A p \in Pages : /\ page[p].view <= Revision
                      /\ page[p].editor = "edit" => page[p].edits \in Instances
  /\ \A m \in replies : m.view <= Revision

RequestsPrepared == \A q \in requests : Prepared(q)

SettingsInv ==
  TypeOK /\ Known /\ RequestsPrepared /\ StoredSound /\ OneEditAtATime

-----------------------------------------------------------------------------
(* A set of numbers that is not empty has a least one. *)
LEMMA LeastNumber ==
  ASSUME NEW S \in SUBSET Nat, S # {}
  PROVE  \E n \in S : \A m \in S : n <= m
<1>1. PICK n \in S : \A m \in S : ~(<<m, n>> \in OpToRel(<, Nat))
  BY NatLessThanWellFounded, WFMin
<1>2. \A m \in S : ~(m < n)
  BY <1>1 DEF OpToRel
<1>3. QED
  BY <1>2

(* The slot of a new request is one of the page's. *)
LEMMA FreeSlot ==
  ASSUME NEW p \in Pages, Free(p) # {}
  PROVE  (CHOOSE n \in Free(p) : \A m \in Free(p) : n <= m) \in 1 .. MaxRequests
<1>1. Free(p) \in SUBSET (1 .. MaxRequests)
  BY DEF Free
<1>2. \E n \in Free(p) : \A m \in Free(p) : n <= m
  BY <1>1, LeastNumber, BoundsAssumption
<1>3. QED
  BY <1>1, <1>2

(* What a page shows is a section that is stored, and sound. *)
LEMMA ShownSound ==
  ASSUME SettingsInv, NEW p \in Pages, Ready(p)
  PROVE  /\ page[p] \in PageStates
         /\ page[p].view \in 1 .. Revision /\ page[p].view \in Revisions
         /\ Shown(p) \in Sections /\ Sound(Shown(p))
<1>1. page[p] \in PageStates /\ Revision \in Nat /\ log \in Seq(Sections)
  BY DEF SettingsInv, TypeOK, Revision
<1>2. page[p].view \in 1 .. Revision /\ page[p].view \in Revisions
  BY <1>1, BoundsAssumption DEF SettingsInv, Known, Ready, PageStates, Revisions
<1>3. log[page[p].view] \in Sections /\ Sound(log[page[p].view])
  BY <1>1, <1>2, ElementOfSeq DEF SettingsInv, StoredSound, Revision
<1>4. QED
  BY <1>1, <1>2, <1>3 DEF Shown

-----------------------------------------------------------------------------
(* A page that posts an edit of what it shows keeps the invariant. *)
LEMMA RequestKeeps ==
  ASSUME SettingsInv,
         NEW p \in Pages, Ready(p),
         NEW kind \in {"section", "extras"}, NEW next \in Sections,
         NEW from \in Instances \cup {NoInstance}, NEW stage \in {"unsetting", "sent"},
         Sound(next),
         kind = "section" => OneInstanceEdit(Shown(p), next),
         kind = "extras" => OneRefEdit(Shown(p), next),
         Request(p, kind, next, from, stage)
  PROVE  SettingsInv'
<1> DEFINE slot == CHOOSE n \in Free(p) : \A m \in Free(p) : n <= m
           new == [page |-> p, slot |-> slot, kind |-> kind, next |-> next,
                   base |-> page[p].view, from |-> from, stage |-> stage]
<1>1. slot \in 1 .. MaxRequests
  BY FreeSlot DEF Request
<1>2. new \in Requests
  BY <1>1, ShownSound DEF Requests
<1>3. /\ new.base = page[p].view /\ new.next = next /\ new.kind = kind
  OBVIOUS
<1>4. Prepared(new)
  BY <1>3, ShownSound DEF Prepared, Shown
<1>5. requests' = requests \cup {new} /\ UNCHANGED <<log, replies>>
  BY DEF Request
<1> HIDE DEF new, slot
<1>6. page' = [page EXCEPT ![p].saving = @ \/ stage = "sent"]
  BY DEF Request
<1>7. page \in [Pages -> PageStates] /\ page' \in [Pages -> PageStates]
  BY <1>6 DEF SettingsInv, TypeOK, PageStates
<1>8. \A x \in Pages : /\ page'[x].view = page[x].view
                       /\ page'[x].editor = page[x].editor /\ page'[x].edits = page[x].edits
  BY <1>6, <1>7 DEF PageStates
<1>9. TypeOK'
  BY <1>2, <1>5, <1>7 DEF SettingsInv, TypeOK, Revision
<1>10. Known'
  BY <1>5, <1>8 DEF SettingsInv, Known, Revision
<1>11. RequestsPrepared'
  BY <1>4, <1>5 DEF SettingsInv, RequestsPrepared, Prepared, Revision
<1>12. StoredSound' /\ OneEditAtATime'
  BY <1>5 DEF SettingsInv, StoredSound, OneEditAtATime, Revision
<1>13. QED
  BY <1>9, <1>10, <1>11, <1>12 DEF SettingsInv

-----------------------------------------------------------------------------
(* A saved draft, DefaultFollows included, edits one instance and leaves a *)
(* sound section: a renamed default takes the default along.               *)
LEMMA SaveDraftKeeps ==
  ASSUME SettingsInv, NEW p \in Pages, NEW i \in Instances, SaveDraft(p, i)
  PROVE  SettingsInv'
<1> DEFINE s == Shown(p)
           old == {j \in s.instances : page[p].editor = "edit" /\ j.alias = page[p].edits.alias}
           kept == s.instances \ old
           after == IF page[p].editor = "new" \/ old # {} THEN kept \cup {i} ELSE kept
           t == [s EXCEPT !.instances = after, !.default = DefaultFollows(p, i)]
<1>1. /\ Ready(p) /\ page[p].editor # "closed"
      /\ i.alias \notin AliasesOf(kept)
      /\ Request(p, "section", t, page[p].edits, "sent")
  BY DEF SaveDraft
<1>2. /\ page[p] \in PageStates /\ s \in Sections /\ Sound(s)
      /\ page[p].editor = "edit" => page[p].edits \in Instances
  BY <1>1, ShownSound DEF SettingsInv, Known
<1>3. DefaultFollows(p, i) \in Aliases \cup {NoAlias}
  BY <1>2 DEF DefaultFollows, Sections, Instances
<1>4. after \in SUBSET Instances
  BY <1>2 DEF Sections
<1> HIDE DEF after
<1>5. t \in Sections /\ t.instances = after /\ t.default = DefaultFollows(p, i) /\ t.refs = s.refs
  BY <1>2, <1>3, <1>4 DEF Sections
<1> HIDE DEF t, s
<1>6. \A x, y \in s.instances : x.alias = y.alias => x = y
  BY <1>2 DEF Sound, Valid
<1>7. kept \subseteq after /\ after \subseteq kept \cup {i}
  BY DEF after
<1>8. Valid(t)
  BY <1>1, <1>5, <1>6, <1>7 DEF Valid, AliasesOf
<1>9. AtMostOne(old)
  BY <1>6 DEF AtMostOne
<1>10. AtMostOne(s.instances \ after) /\ AtMostOne(after \ s.instances)
  BY <1>7, <1>9 DEF AtMostOne
<1>11. /\ t.default \in AliasesOf(after) \cup {NoAlias}
       /\ \/ t.default = s.default
          \/ s.default # NoAlias /\ s.default \notin AliasesOf(after)
  <2>1. CASE page[p].editor = "edit" /\ page[p].edits.alias = s.default
    <3>1. s.default \in Aliases /\ t.default = i.alias
      BY <1>2, <1>5, <2>1 DEF DefaultFollows, s, Instances
    <3>2. PICK j \in s.instances : j.alias = s.default
      BY <1>2, <3>1, NoAliasAssumption DEF Sound, AliasesOf
    <3>3. j \in old
      BY <2>1, <3>2
    <3>4. i \in after
      BY <3>3 DEF after
    <3>5. \A k \in kept : k.alias # s.default
      BY <2>1
    <3>6. QED
      BY <1>7, <3>1, <3>4, <3>5, NoAliasAssumption DEF AliasesOf
  <2>2. CASE ~(page[p].editor = "edit" /\ page[p].edits.alias = s.default)
    <3>1. t.default = s.default
      BY <1>5, <2>2 DEF DefaultFollows, s
    <3>2. \A j \in s.instances : j.alias = s.default => j \in kept
      BY <2>2
    <3>3. QED
      BY <1>2, <1>7, <3>1, <3>2 DEF Sound, AliasesOf
  <2>3. QED
    BY <2>1, <2>2
<1>12. Sound(t) /\ OneInstanceEdit(s, t)
  BY <1>5, <1>8, <1>10, <1>11 DEF Sound, OneInstanceEdit
<1>13. page[p].edits \in Instances \cup {NoInstance}
  BY <1>2 DEF PageStates
<1>14. QED
  BY <1>1, <1>5, <1>12, <1>13, RequestKeeps DEF s

(* Removing an instance takes the default with it when it was the default. *)
LEMMA RemoveInstanceKeeps ==
  ASSUME SettingsInv, NEW p \in Pages, NEW a \in Aliases, RemoveInstance(p, a)
  PROVE  SettingsInv'
<1> DEFINE s == Shown(p)
           after == {i \in s.instances : i.alias # a}
           default == IF s.default = a THEN NoAlias ELSE s.default
           t == [s EXCEPT !.instances = after, !.default = default]
<1>1. Ready(p)
  BY DEF RemoveInstance
<1>2. s \in Sections /\ Sound(s)
  BY <1>1, ShownSound
<1>3. t = [s EXCEPT !.instances = {i \in @ : i.alias # a},
                    !.default = IF @ = a THEN NoAlias ELSE @]
  BY <1>2 DEF Sections
<1>4. Request(p, "section", t, NoInstance, "sent")
  BY <1>3 DEF RemoveInstance
<1>5. default \in Aliases \cup {NoAlias} /\ after \in SUBSET Instances
  BY <1>2 DEF Sections
<1> HIDE DEF after, default
<1>6. t \in Sections /\ t.instances = after /\ t.default = default /\ t.refs = s.refs
  BY <1>2, <1>5 DEF Sections
<1> HIDE DEF t, s
<1>7. Sound(t)
  BY <1>2, <1>6 DEF Sound, Valid, AliasesOf, after, default
<1>8. AtMostOne(s.instances \ after) /\ AtMostOne(after \ s.instances)
  BY <1>2 DEF AtMostOne, after, Sound, Valid
<1>9. \/ default = s.default
      \/ s.default # NoAlias /\ s.default \notin AliasesOf(after)
  BY NoAliasAssumption DEF default, after, AliasesOf
<1>10. OneInstanceEdit(s, t)
  BY <1>6, <1>8, <1>9 DEF OneInstanceEdit
<1>11. QED
  BY <1>1, <1>4, <1>6, <1>7, <1>10, RequestKeeps DEF s

(* The default may be set to any instance shown. *)
LEMMA SetDefaultKeeps ==
  ASSUME SettingsInv, NEW p \in Pages, NEW a \in Aliases, SetDefault(p, a)
  PROVE  SettingsInv'
<1> DEFINE s == Shown(p)
           t == [s EXCEPT !.default = a]
<1>1. Ready(p) /\ a \in AliasesOf(s.instances) /\ Request(p, "section", t, NoInstance, "sent")
  BY DEF SetDefault
<1>2. s \in Sections /\ Sound(s)
  BY <1>1, ShownSound
<1>3. t \in Sections /\ t.instances = s.instances /\ t.default = a /\ t.refs = s.refs
  BY <1>2 DEF Sections
<1> HIDE DEF t, s
<1>4. Sound(t) /\ OneInstanceEdit(s, t)
  BY <1>1, <1>2, <1>3 DEF Sound, Valid, OneInstanceEdit, AtMostOne
<1>5. QED
  BY <1>1, <1>3, <1>4, RequestKeeps DEF s

(* The credential panel adds and removes one reference. *)
LEMMA RefKeeps ==
  ASSUME SettingsInv, NEW p \in Pages, NEW r \in Refs, AddRef(p, r) \/ RemoveRef(p, r)
  PROVE  SettingsInv'
<1> DEFINE s == Shown(p)
<1>1. Ready(p)
  BY DEF AddRef, RemoveRef
<1>2. s \in Sections /\ Sound(s)
  BY <1>1, ShownSound
<1>3. PICK refs \in {s.refs \cup {r}, s.refs \ {r}} :
        \E stage \in {"unsetting", "sent"} :
          Request(p, "extras", [s EXCEPT !.refs = refs], NoInstance, stage)
  <2>1. /\ [s EXCEPT !.refs = @ \cup {r}] = [s EXCEPT !.refs = s.refs \cup {r}]
        /\ [s EXCEPT !.refs = @ \ {r}] = [s EXCEPT !.refs = s.refs \ {r}]
    BY <1>2 DEF Sections
  <2>2. QED
    BY <2>1 DEF AddRef, RemoveRef
<1> DEFINE t == [s EXCEPT !.refs = refs]
<1>4. t \in Sections /\ t.instances = s.instances /\ t.default = s.default /\ t.refs = refs
  BY <1>2 DEF Sections
<1> HIDE DEF s
<1>5. AtMostOne((s.refs \ refs) \cup (refs \ s.refs))
  BY <1>3 DEF AtMostOne
<1> HIDE DEF t
<1>6. Sound(t) /\ OneRefEdit(s, t)
  BY <1>2, <1>4, <1>5 DEF Sound, Valid, OneRefEdit
<1>7. QED
  BY <1>1, <1>3, <1>4, <1>6, RequestKeeps DEF s, t

-----------------------------------------------------------------------------
(* A step of one page alone, which posts nothing: it must show a section   *)
(* there is, and remember what it edits.                                   *)
LEMMA PageKeeps ==
  ASSUME SettingsInv, NEW p \in Pages, NEW P \in PageStates,
         page' = [page EXCEPT ![p] = P], UNCHANGED log,
         P.view <= Revision, P.editor = "edit" => P.edits \in Instances,
         requests' \subseteq requests, replies' \subseteq replies
  PROVE  SettingsInv'
<1>1. page' \in [Pages -> PageStates] /\ page \in [Pages -> PageStates]
  BY DEF SettingsInv, TypeOK
<1>2. TypeOK'
  BY <1>1 DEF SettingsInv, TypeOK, Revision
<1>3. Known'
  BY <1>1 DEF SettingsInv, Known, Revision
<1>4. RequestsPrepared' /\ StoredSound' /\ OneEditAtATime'
  BY DEF SettingsInv, RequestsPrepared, Prepared, StoredSound, OneEditAtATime, Revision
<1>5. QED
  BY <1>2, <1>3, <1>4 DEF SettingsInv

(* Loads, failed loads and the editor. *)
LEMMA LoadKeeps ==
  ASSUME SettingsInv, NEW p \in Pages, NEW n \in Revisions,
         (\E r \in Revisions : LoadArrives(p, n, r)) \/ LoadFails(p, n)
  PROVE  SettingsInv'
<1>1. page[p] \in PageStates /\ Revision \in Nat /\ (page[p].editor = "edit" => page[p].edits \in Instances)
  BY DEF SettingsInv, TypeOK, Revisions, Known
<1>2. PICK v \in {0} \cup Revisions, d \in BOOLEAN :
        /\ v <= Revision /\ UNCHANGED <<log, requests, replies>>
        /\ page' = [page EXCEPT ![p].loads = @ \ {n}, ![p].view = v, ![p].disturbed = d]
  <2>1. CASE \E r \in Revisions : LoadArrives(p, n, r)
    <3>1. PICK r \in Revisions : LoadArrives(p, n, r)
      BY <2>1
    <3> DEFINE d == page[p].disturbed \/ r < page[p].view
    <3>2. d \in BOOLEAN
      OBVIOUS
    <3>3. page' = [page EXCEPT ![p].loads = @ \ {n}, ![p].view = r, ![p].disturbed = d]
      BY <3>1, Zenon DEF LoadArrives
    <3> HIDE DEF d
    <3>4. QED
      BY <3>1, <3>2, <3>3 DEF LoadArrives
  <2>2. CASE LoadFails(p, n)
    <3>1. /\ page' = [page EXCEPT ![p].loads = @ \ {n}, ![p].view = 0, ![p].disturbed = TRUE]
          /\ UNCHANGED <<log, requests, replies>>
      BY <2>2 DEF LoadFails
    <3>2. 0 \in {0} \cup Revisions /\ TRUE \in BOOLEAN /\ 0 <= Revision
      BY <1>1
    <3>3. QED
      BY <3>1, <3>2
  <2>3. QED
    BY <2>1, <2>2
<1> DEFINE P == [page[p] EXCEPT !.loads = @ \ {n}, !.view = v, !.disturbed = d]
<1>3. P \in PageStates /\ P.view = v /\ P.editor = page[p].editor /\ P.edits = page[p].edits
  BY <1>1 DEF PageStates
<1>4. page' = [page EXCEPT ![p] = P]
  BY <1>2 DEF SettingsInv, TypeOK
<1> HIDE DEF P
<1>5. QED
  BY <1>1, <1>2, <1>3, <1>4, PageKeeps

LEMMA EditorKeeps ==
  ASSUME SettingsInv, NEW p \in Pages,
         BeginNew(p) \/ CancelEdit(p) \/ \E i \in Instances : BeginEdit(p, i)
  PROVE  SettingsInv'
<1>1. page[p] \in PageStates /\ page[p].view <= Revision
  BY DEF SettingsInv, TypeOK, Known
<1>2. page \in [Pages -> PageStates]
  BY DEF SettingsInv, TypeOK
<1>3. PICK e \in {"closed", "new", "edit"}, i \in Instances \cup {NoInstance} :
        /\ e = "edit" => i \in Instances
        /\ page' = [page EXCEPT ![p].editor = e, ![p].edits = i]
        /\ UNCHANGED <<log, requests, replies>>
  <2>1. CASE BeginNew(p)
    BY <1>2, <2>1 DEF BeginNew, PageStates
  <2>2. CASE CancelEdit(p)
    BY <1>2, <2>2 DEF CancelEdit, PageStates
  <2>3. CASE \E i \in Instances : BeginEdit(p, i)
    BY <1>2, <2>3 DEF BeginEdit, PageStates
  <2>4. QED
    BY <2>1, <2>2, <2>3
<1> DEFINE P == [page[p] EXCEPT !.editor = e, !.edits = i]
<1>4. P \in PageStates /\ P.view = page[p].view /\ P.editor = e /\ P.edits = i
  BY <1>1 DEF PageStates
<1>5. page' = [page EXCEPT ![p] = P]
  BY <1>2, <1>3
<1> HIDE DEF P
<1>6. QED
  BY <1>1, <1>3, <1>4, <1>5, PageKeeps

(* A page that stops waiting shows and edits what it did before. *)
LEMMA SavingKeeps ==
  ASSUME SettingsInv, NEW p \in Pages, NEW b \in BOOLEAN, UNCHANGED log,
         page' = [page EXCEPT ![p].saving = b],
         requests' \subseteq requests, replies' \subseteq replies
  PROVE  SettingsInv'
<1> DEFINE P == [page[p] EXCEPT !.saving = b]
<1>1. /\ page[p] \in PageStates /\ page[p].view <= Revision
      /\ page[p].editor = "edit" => page[p].edits \in Instances
  BY DEF SettingsInv, TypeOK, Known
<1>2. /\ P \in PageStates /\ P.view = page[p].view
      /\ P.editor = page[p].editor /\ P.edits = page[p].edits
  BY <1>1 DEF PageStates
<1>3. page' = [page EXCEPT ![p] = P]
  BY DEF SettingsInv, TypeOK
<1> HIDE DEF P
<1>4. QED
  BY <1>1, <1>2, <1>3, PageKeeps

-----------------------------------------------------------------------------
(* The host accepts a write on the section it was prepared from, so what   *)
(* it stores is the one edit the page asked for: carrying the references   *)
(* over does nothing then.                                                 *)
LEMMA MergedIsOneEdit ==
  ASSUME SettingsInv, NEW q \in requests, q.base = Revision
  PROVE  /\ Merged(q) \in Sections /\ Sound(Merged(q))
         /\ OneInstanceEdit(Stored, Merged(q)) \/ OneRefEdit(Stored, Merged(q))
<1>1. q \in Requests /\ Prepared(q)
  BY DEF SettingsInv, TypeOK, RequestsPrepared
<1>2. q.next \in Sections /\ Sound(q.next)
  BY <1>1 DEF Requests, Prepared
<1>3. CASE q.kind = "section"
  <2>1. OneInstanceEdit(Stored, q.next)
    BY <1>1, <1>3 DEF Prepared, Stored
  <2>2. Merged(q) = q.next
    BY <1>2, <1>3, <2>1 DEF Merged, OneInstanceEdit, Sections
  <2>3. QED
    BY <1>2, <2>1, <2>2
<1>4. CASE q.kind = "extras"
  <2>1. OneRefEdit(Stored, q.next) /\ Merged(q) = q.next
    BY <1>1, <1>4 DEF Prepared, Stored, Merged
  <2>2. QED
    BY <1>2, <2>1
<1>5. QED
  BY <1>1, <1>3, <1>4 DEF Requests

LEMMA HostAcceptsKeeps ==
  ASSUME SettingsInv, NEW q \in requests, HostAccepts(q)
  PROVE  SettingsInv'
<1> DEFINE s == Merged(q)
<1>1. /\ q.base = Revision /\ Editing /\ log' = Append(log, s)
      /\ requests' = requests \ {q}
      /\ page' = [p \in Pages |-> Told(p)]
  BY DEF HostAccepts, Answer
<1>2. /\ s \in Sections /\ Sound(s)
      /\ OneInstanceEdit(Stored, s) \/ OneRefEdit(Stored, s)
  BY <1>1, MergedIsOneEdit
<1> HIDE DEF s
<1>3. log \in Seq(Sections) /\ Revision \in Revisions /\ Revision \in Nat \ {0}
  BY BoundsAssumption DEF SettingsInv, TypeOK, Revisions
<1>4. /\ log' \in Seq(Sections) /\ Revision' = Revision + 1
      /\ \A n \in 1 .. Revision : log'[n] = log[n]
      /\ log'[Revision + 1] = s
  BY <1>1, <1>2, <1>3, AppendProperties DEF Revision
<1>5. Revision' \in Revisions
  BY <1>1, <1>3, <1>4, BoundsAssumption DEF Editing, Revisions
<1>6. q \in Requests
  BY DEF SettingsInv, TypeOK
<1>7. replies' \subseteq Replies /\ \A m \in replies' : m.view <= Revision'
  <2>1. CASE q.stage = "forsaken"
    BY <1>1, <1>3, <1>4, <2>1 DEF HostAccepts, Answer, SettingsInv, TypeOK, Known, Replies, Revisions
  <2>2. CASE q.stage # "forsaken"
    <3> DEFINE m == [page |-> q.page, slot |-> q.slot, kind |-> q.kind, view |-> Revision + 1]
    <3>1. replies' = replies \cup {m}
      BY <2>2 DEF HostAccepts, Answer
    <3>2. m \in Replies /\ m.view = Revision + 1
      BY <1>4, <1>5, <1>6 DEF Requests, Replies
    <3> HIDE DEF m
    <3>3. \A r \in replies : r \in Replies /\ r.view <= Revision /\ r.view \in {0} \cup Revisions
      BY DEF SettingsInv, TypeOK, Known, Replies
    <3>4. QED
      BY <1>3, <1>4, <3>1, <3>2, <3>3, BoundsAssumption DEF Revisions
  <2>3. QED
    BY <2>1, <2>2
<1>8. /\ page' \in [Pages -> PageStates]
      /\ \A p \in Pages : /\ page'[p].view = page[p].view
                          /\ page'[p].editor = page[p].editor
                          /\ page'[p].edits = page[p].edits
  <2>1. \A p \in Pages : page[p] \in PageStates
    BY DEF SettingsInv, TypeOK
  <2>2. \A p \in Pages : /\ Told(p) \in PageStates
                         /\ Told(p).view = page[p].view
                         /\ Told(p).editor = page[p].editor
                         /\ Told(p).edits = page[p].edits
    BY <1>4, <1>5, <2>1 DEF Told, PageStates
  <2>3. QED
    BY <1>1, <2>2
<1>9. TypeOK'
  BY <1>1, <1>4, <1>5, <1>7, <1>8 DEF SettingsInv, TypeOK
<1>10. Known'
  <2>1. \A p \in Pages : page[p].view \in {0} \cup Revisions /\ page[p].view <= Revision
    BY DEF SettingsInv, TypeOK, PageStates, Known
  <2>2. QED
    BY <1>3, <1>4, <1>7, <1>8, <2>1, BoundsAssumption DEF SettingsInv, Known, Revisions
<1>11. RequestsPrepared'
  <2> SUFFICES ASSUME NEW r \in requests PROVE Prepared(r)'
    BY <1>1 DEF RequestsPrepared
  <2>1. Prepared(r) /\ r.base \in 1 .. Revision
    BY BoundsAssumption DEF SettingsInv, TypeOK, RequestsPrepared, Requests, Prepared, Revisions
  <2>2. log'[r.base] = log[r.base] /\ r.base <= Revision'
    BY <1>3, <1>4, <2>1
  <2>3. QED
    BY <2>1, <2>2 DEF Prepared
<1>12. StoredSound'
  BY <1>2, <1>3, <1>4 DEF SettingsInv, StoredSound
<1>13. OneEditAtATime'
  <2> SUFFICES ASSUME NEW n \in 1 .. Revision
               PROVE  OneInstanceEdit(log'[n], log'[n + 1]) \/ OneRefEdit(log'[n], log'[n + 1])
    BY <1>3, <1>4 DEF OneEditAtATime
  <2>1. CASE n = Revision
    BY <1>2, <1>3, <1>4, <2>1 DEF Stored
  <2>2. CASE n # Revision
    <3>1. n \in 1 .. (Revision - 1) /\ n + 1 \in 1 .. Revision
      BY <1>3, <2>2
    <3>2. QED
      BY <1>4, <3>1 DEF SettingsInv, OneEditAtATime
  <2>3. QED
    BY <2>1, <2>2
<1>14. QED
  BY <1>9, <1>10, <1>11, <1>12, <1>13 DEF SettingsInv

(* A write cleared for sending, or given up, is the write it was. *)
LEMMA StageKeeps ==
  ASSUME SettingsInv, NEW q \in requests, NEW stage \in {"sent", "forsaken"},
         NEW b \in BOOLEAN,
         page' = [page EXCEPT ![q.page].saving = b],
         requests' = (requests \ {q}) \cup {[q EXCEPT !.stage = stage]},
         UNCHANGED <<log, replies>>
  PROVE  SettingsInv'
<1> DEFINE r == [q EXCEPT !.stage = stage]
<1>1. q \in Requests /\ Prepared(q) /\ q.page \in Pages
  BY DEF SettingsInv, TypeOK, RequestsPrepared, Requests
<1>2. /\ r \in Requests
      /\ r.kind = q.kind /\ r.next = q.next /\ r.base = q.base
  BY <1>1 DEF Requests
<1> HIDE DEF r
<1>3. Prepared(r)
  BY <1>1, <1>2 DEF Prepared
<1>4. /\ page \in [Pages -> PageStates] /\ page' \in [Pages -> PageStates]
      /\ \A p \in Pages : /\ page'[p].view = page[p].view
                          /\ page'[p].editor = page[p].editor
                          /\ page'[p].edits = page[p].edits
  BY <1>1 DEF SettingsInv, TypeOK, PageStates
<1>5. requests' = (requests \ {q}) \cup {r}
  BY DEF r
<1>6. TypeOK' /\ Known'
  BY <1>2, <1>4, <1>5 DEF SettingsInv, TypeOK, Known, Revision
<1>7. RequestsPrepared'
  BY <1>3, <1>5 DEF SettingsInv, RequestsPrepared, Prepared, Revision
<1>8. StoredSound' /\ OneEditAtATime'
  BY DEF SettingsInv, StoredSound, OneEditAtATime, Revision
<1>9. QED
  BY <1>6, <1>7, <1>8 DEF SettingsInv

(* A refusal is one more reply, which shows nothing. *)
LEMMA HostRefusesKeeps ==
  ASSUME SettingsInv, NEW q \in requests, HostRefuses(q)
  PROVE  SettingsInv'
<1> DEFINE m == [page |-> q.page, slot |-> q.slot, kind |-> q.kind, view |-> 0]
<1>1. /\ requests' = requests \ {q} /\ UNCHANGED <<log, page>>
      /\ replies' \in {replies, replies \cup {m}}
  BY DEF HostRefuses, Answer
<1>2. m \in Replies /\ m.view = 0
  BY DEF SettingsInv, TypeOK, Requests, Replies
<1> HIDE DEF m
<1>3. TypeOK'
  BY <1>1, <1>2 DEF SettingsInv, TypeOK, Revision
<1>4. 0 <= Revision
  BY BoundsAssumption DEF SettingsInv, TypeOK, Revisions
<1>5. Known'
  BY <1>1, <1>2, <1>4 DEF SettingsInv, Known, Revision
<1>6. RequestsPrepared' /\ StoredSound' /\ OneEditAtATime'
  BY <1>1 DEF SettingsInv, RequestsPrepared, Prepared, StoredSound, OneEditAtATime, Revision
<1>7. QED
  BY <1>3, <1>5, <1>6 DEF SettingsInv

(* The page shows what it is answered with, and its editor may close. *)
LEMMA UpdateReturnsKeeps ==
  ASSUME SettingsInv, NEW m \in replies, UpdateReturns(m)
  PROVE  SettingsInv'
<1> DEFINE p == m.page
           d == page[p].disturbed \/ m.view < page[p].view
           e == IF m.kind = "section" THEN "closed" ELSE page[p].editor
           i == IF m.kind = "section" THEN NoInstance ELSE page[p].edits
           P == [page[p] EXCEPT !.view = m.view, !.saving = FALSE, !.editor = e,
                                !.edits = i, !.disturbed = d]
<1>1. m \in Replies /\ m.view <= Revision /\ p \in Pages /\ m.view \in {0} \cup Revisions
  BY DEF SettingsInv, TypeOK, Known, Replies
<1>2. /\ page \in [Pages -> PageStates] /\ page[p] \in PageStates
      /\ page[p].editor = "edit" => page[p].edits \in Instances
  BY <1>1 DEF SettingsInv, TypeOK, Known
<1>3. /\ d \in BOOLEAN
      /\ e \in {"closed", "new", "edit"} /\ i \in Instances \cup {NoInstance}
      /\ e = "edit" => i \in Instances
  BY <1>2 DEF PageStates
<1>4. page' = [page EXCEPT ![p].view = m.view, ![p].saving = FALSE, ![p].editor = e,
                           ![p].edits = i, ![p].disturbed = d]
  BY Zenon DEF UpdateReturns
<1> HIDE DEF d, e, i
<1>5. P \in PageStates /\ P.view = m.view /\ P.editor = e /\ P.edits = i
  BY <1>1, <1>2, <1>3 DEF PageStates
<1>6. page' = [page EXCEPT ![p] = P]
  BY <1>1, <1>2, <1>4
<1>7. UNCHANGED log /\ requests' \subseteq requests /\ replies' \subseteq replies
  BY DEF UpdateReturns
<1> HIDE DEF P, p
<1>8. QED
  BY <1>1, <1>3, <1>5, <1>6, <1>7, PageKeeps

-----------------------------------------------------------------------------
LEMMA InitSettings == Init => SettingsInv
<1> SUFFICES ASSUME Init PROVE SettingsInv
  OBVIOUS
<1>1. PICK s \in Sections : Sound(s) /\ log = <<s>>
  BY FirstSectionsAssumption DEF Init
<1>2. log \in Seq(Sections) /\ Len(log) = 1 /\ log[1] = s
  BY <1>1
<1>3. Revision = 1 /\ 1 \in Revisions
  BY <1>2, BoundsAssumption DEF Revision, Revisions
<1>4. page \in [Pages -> PageStates] /\ \A p \in Pages : page[p].view = 0 /\ page[p].editor = "closed"
  BY <1>3 DEF Init, PageStates
<1>5. TypeOK /\ Known /\ RequestsPrepared
  <2>1. requests = {} /\ replies = {}
    BY DEF Init
  <2>2. TypeOK
    BY <1>2, <1>3, <1>4, <2>1 DEF TypeOK
  <2>3. Known
    BY <1>3, <1>4, <2>1 DEF Known
  <2>4. RequestsPrepared
    BY <2>1 DEF RequestsPrepared
  <2>5. QED
    BY <2>2, <2>3, <2>4
<1>6. StoredSound /\ OneEditAtATime
  BY <1>1, <1>2, <1>3 DEF StoredSound, OneEditAtATime
<1>7. QED
  BY <1>5, <1>6 DEF SettingsInv

LEMMA SettingsInvStep == SettingsInv /\ [Next]_vars => SettingsInv'
<1> SUFFICES ASSUME SettingsInv, [Next]_vars PROVE SettingsInv'
  OBVIOUS
<1>1. CASE UNCHANGED vars
  BY <1>1 DEF vars, SettingsInv, TypeOK, Known, RequestsPrepared, Prepared, StoredSound,
              OneEditAtATime, Revision
<1>2. ASSUME NEW p \in Pages, PageNext(p) PROVE SettingsInv'
  BY <1>2, LoadKeeps, EditorKeeps, SaveDraftKeeps, RemoveInstanceKeeps, SetDefaultKeeps, RefKeeps
     DEF PageNext
<1>3. ASSUME NEW q \in requests, RequestNext(q) PROVE SettingsInv'
  <2>1. q.page \in Pages /\ page[q.page] \in PageStates /\ page \in [Pages -> PageStates]
    BY DEF SettingsInv, TypeOK, Requests
  <2>2. CASE ValueCleared(q)
    BY <2>2, StageKeeps DEF ValueCleared
  <2>3. CASE ValueNotCleared(q)
    <3>1. /\ page' = [page EXCEPT ![q.page].saving = page[q.page].saving]
          /\ page[q.page].saving \in BOOLEAN
      BY <2>1, <2>3 DEF ValueNotCleared, PageStates
    <3>2. UNCHANGED <<log, replies>> /\ requests' \subseteq requests
      BY <2>3 DEF ValueNotCleared
    <3>3. QED
      BY <2>1, <3>1, <3>2, SavingKeeps
  <2>4. CASE HostAccepts(q)
    BY <2>4, HostAcceptsKeeps
  <2>5. CASE HostRefuses(q)
    BY <2>5, HostRefusesKeeps
  <2>6. CASE RequestLost(q)
    <3>1. CASE requests' = requests \ {q}
      BY <2>1, <2>6, <3>1, SavingKeeps DEF RequestLost, Rejected
    <3>2. CASE requests' = (requests \ {q}) \cup {[q EXCEPT !.stage = "forsaken"]}
      BY <2>1, <2>6, <3>2, StageKeeps DEF RequestLost, Rejected
    <3>3. QED
      BY <2>6, <3>1, <3>2 DEF RequestLost
  <2>7. QED
    BY <1>3, <2>2, <2>3, <2>4, <2>5, <2>6 DEF RequestNext
<1>4. ASSUME NEW m \in replies, UpdateReturns(m) \/ UpdateRejects(m) PROVE SettingsInv'
  <2>1. m.page \in Pages
    BY DEF SettingsInv, TypeOK, Replies
  <2>2. CASE UpdateRejects(m)
    BY <2>1, <2>2, SavingKeeps DEF UpdateRejects, Rejected
  <2>3. QED
    BY <1>4, <2>2, UpdateReturnsKeeps
<1>5. QED
  BY <1>1, <1>2, <1>3, <1>4 DEF Next

(* What is stored, what a request asks for and what a page may show, for   *)
(* any number of pages and requests.                                       *)
THEOREM SettingsCorrect == Spec => []SettingsInv
<1>1. Init => SettingsInv
  BY InitSettings
<1>2. SettingsInv /\ [Next]_vars => SettingsInv'
  BY SettingsInvStep
<1>3. QED
  BY <1>1, <1>2, PTL DEF Spec

(* The variables of the pages, the host and the calls keep their shape.    *)
THEOREM SettingsTypes == Spec => []TypeOK
<1>1. SettingsInv => TypeOK
  BY DEF SettingsInv
<1>2. QED
  BY <1>1, SettingsCorrect, PTL

(* No stored section names a default that is no instance, or has two       *)
(* instances of one alias (the host checks only the second).               *)
THEOREM StoredSectionsSound == Spec => []StoredSound
<1>1. SettingsInv => StoredSound
  BY DEF SettingsInv
<1>2. QED
  BY <1>1, SettingsCorrect, PTL

(* Any two successive stored sections are one user edit apart: revisions   *)
(* fence stale writes (update in NebulaInstancesSection.tsx), whichever    *)
(* way calls and replies overtake each other, are lost or come late.       *)
THEOREM OneEditPerWrite == Spec => []OneEditAtATime
<1>1. SettingsInv => OneEditAtATime
  BY DEF SettingsInv
<1>2. QED
  BY <1>1, SettingsCorrect, PTL

-----------------------------------------------------------------------------
(* An undisturbed page that does not show the stored section has a load    *)
(* under way that was asked at the stored section's own revision, so its   *)
(* answer can bring nothing older.                                         *)
CatchInv ==
  \A p \in Pages :
    page[p].disturbed \/ page[p].view = Revision \/ Revision \in page[p].loads

(* A step of pages that moves neither view nor loads keeps CatchInv. *)
LEMMA SameViewsCatchUp ==
  ASSUME CatchInv, UNCHANGED log,
         \A p \in Pages : /\ page'[p].view = page[p].view
                          /\ page'[p].loads = page[p].loads
                          /\ page'[p].disturbed = page[p].disturbed
  PROVE  CatchInv'
BY DEF CatchInv, Revision

LEMMA LoadCatchesUp ==
  ASSUME SettingsInv, CatchInv, NEW p \in Pages, NEW n \in Revisions,
         (\E r \in Revisions : LoadArrives(p, n, r)) \/ LoadFails(p, n)
  PROVE  CatchInv'
<1>1. /\ page \in [Pages -> PageStates] /\ Revision \in Nat
      /\ page[p].view \in Nat /\ page[p].view <= Revision /\ page[p] \in PageStates
  BY BoundsAssumption DEF SettingsInv, TypeOK, Known, PageStates, Revisions
<1>2. UNCHANGED log /\ Revision' = Revision
  BY DEF LoadArrives, LoadFails, Revision
<1>3. CASE LoadFails(p, n)
  <2>1. page' = [page EXCEPT ![p].loads = @ \ {n}, ![p].view = 0, ![p].disturbed = TRUE]
    BY <1>3 DEF LoadFails
  <2>2. page'[p].disturbed
    BY <1>1, <2>1 DEF PageStates
  <2>3. \A x \in Pages \ {p} : page'[x] = page[x]
    BY <1>1, <2>1
  <2>4. QED
    BY <1>2, <2>2, <2>3 DEF CatchInv
<1>4. CASE \E r \in Revisions : LoadArrives(p, n, r)
  <2>1. PICK r \in Revisions : LoadArrives(p, n, r)
    BY <1>4
  <2> DEFINE d == page[p].disturbed \/ r < page[p].view
  <2>2. page' = [page EXCEPT ![p].loads = @ \ {n}, ![p].view = r, ![p].disturbed = d]
    BY <2>1, Zenon DEF LoadArrives
  <2>3. d \in BOOLEAN /\ (d <=> page[p].disturbed \/ r < page[p].view)
    OBVIOUS
  <2> HIDE DEF d
  <2>4. /\ page'[p].loads = page[p].loads \ {n}
        /\ page'[p].view = r /\ page'[p].disturbed = d
        /\ \A x \in Pages \ {p} : page'[x] = page[x]
    BY <1>1, <2>2 DEF PageStates
  <2>5. n \in Nat /\ r \in Nat /\ n <= r /\ r <= Revision
    <3>1. n <= r /\ r <= Revision
      BY <2>1, Zenon DEF LoadArrives
    <3>2. QED
      BY <3>1, BoundsAssumption DEF Revisions
  <2>6. CASE d
    BY <1>2, <2>4, <2>6 DEF CatchInv
  <2>7. CASE ~d
    <3>1. ~page[p].disturbed /\ page[p].view <= r
      BY <1>1, <2>3, <2>5, <2>7
    <3>2. page[p].view = Revision \/ Revision \in page[p].loads
      BY <3>1 DEF CatchInv
    <3>3. r = Revision \/ Revision \in page[p].loads \ {n}
      BY <1>1, <2>5, <3>1, <3>2
    <3>4. QED
      BY <1>2, <2>4, <3>3 DEF CatchInv
  <2>8. QED
    BY <2>6, <2>7
<1>5. QED
  BY <1>3, <1>4

(* The page takes what its own write was answered with, and counts itself  *)
(* disturbed when that is older than what it shows.                        *)
LEMMA UpdateReturnsCatchesUp ==
  ASSUME SettingsInv, CatchInv, NEW m \in replies, UpdateReturns(m)
  PROVE  CatchInv'
<1> DEFINE p == m.page
           d == page[p].disturbed \/ m.view < page[p].view
           e == IF m.kind = "section" THEN "closed" ELSE page[p].editor
           i == IF m.kind = "section" THEN NoInstance ELSE page[p].edits
<1>1. /\ m.view \in Nat /\ m.view <= Revision /\ Revision \in Nat
      /\ p \in Pages
      /\ page \in [Pages -> PageStates] /\ page[p] \in PageStates
      /\ page[p].view \in Nat /\ page[p].view <= Revision
  BY BoundsAssumption DEF SettingsInv, TypeOK, Known, PageStates, Replies, Revisions
<1>2. page' = [page EXCEPT ![p].view = m.view, ![p].saving = FALSE, ![p].editor = e,
                           ![p].edits = i, ![p].disturbed = d]
  BY Zenon DEF UpdateReturns
<1>3. d \in BOOLEAN /\ (d <=> page[p].disturbed \/ m.view < page[p].view)
  OBVIOUS
<1>4. Revision' = Revision
  BY DEF UpdateReturns, Revision
<1> HIDE DEF p, d, e, i
<1>5. /\ page'[p].loads = page[p].loads
      /\ page'[p].view = m.view /\ page'[p].disturbed = d
      /\ \A x \in Pages \ {p} : page'[x] = page[x]
  BY <1>1, <1>2 DEF PageStates
<1>6. d \/ m.view = Revision \/ Revision \in page[p].loads
  BY <1>1, <1>3 DEF CatchInv
<1>7. QED
  BY <1>4, <1>5, <1>6 DEF CatchInv

LEMMA CatchInvStep == SettingsInv /\ CatchInv /\ [Next]_vars => CatchInv'
<1> SUFFICES ASSUME SettingsInv, CatchInv, [Next]_vars PROVE CatchInv'
  OBVIOUS
<1>1. page \in [Pages -> PageStates]
  BY DEF SettingsInv, TypeOK
<1>2. CASE UNCHANGED vars
  BY <1>2 DEF vars, CatchInv, Revision
<1>3. ASSUME NEW p \in Pages, PageNext(p) PROVE CatchInv'
  <2>1. CASE BeginNew(p) \/ CancelEdit(p) \/ \E i \in Instances : BeginEdit(p, i)
    BY <1>1, <2>1, SameViewsCatchUp DEF BeginNew, CancelEdit, BeginEdit, PageStates
  <2>2. CASE \E kind, next, from, stage : Request(p, kind, next, from, stage)
    <3>1. PICK stage : page' = [page EXCEPT ![p].saving = @ \/ stage = "sent"]
      BY <2>2 DEF Request
    <3>2. UNCHANGED log
      BY <2>2 DEF Request
    <3>3. \A x \in Pages : /\ page'[x].view = page[x].view
                           /\ page'[x].loads = page[x].loads
                           /\ page'[x].disturbed = page[x].disturbed
      BY <1>1, <3>1 DEF PageStates
    <3>4. QED
      BY <3>2, <3>3, SameViewsCatchUp
  <2>3. QED
    BY <1>3, <2>1, <2>2, LoadCatchesUp
       DEF PageNext, SaveDraft, RemoveInstance, SetDefault, AddRef, RemoveRef
<1>4. ASSUME NEW q \in requests, RequestNext(q) PROVE CatchInv'
  <2>1. CASE HostAccepts(q)
    <3>1. /\ log' = Append(log, Merged(q)) /\ page' = [p \in Pages |-> Told(p)]
      BY <2>1 DEF HostAccepts
    <3>2. Revision' = Revision + 1
      BY <3>1, AppendProperties DEF SettingsInv, TypeOK, Revision
    <3>3. \A p \in Pages : Revision + 1 \in Told(p).loads
      BY <1>1 DEF Told, PageStates
    <3>4. QED
      BY <3>1, <3>2, <3>3 DEF CatchInv
  <2>2. CASE ~HostAccepts(q)
    <3>1. /\ log' = log
          /\ \/ page' = page
             \/ page' = [page EXCEPT ![q.page].saving = TRUE]
             \/ page' = [page EXCEPT ![q.page].saving = FALSE]
      BY <1>4, <2>2
         DEF RequestNext, ValueCleared, ValueNotCleared, HostRefuses, RequestLost, Rejected
    <3>2. \A p \in Pages : /\ page'[p].view = page[p].view
                           /\ page'[p].loads = page[p].loads
                           /\ page'[p].disturbed = page[p].disturbed
      BY <1>1, <3>1 DEF SettingsInv, TypeOK, Requests, PageStates
    <3>3. QED
      BY <3>1, <3>2, SameViewsCatchUp
  <2>3. QED
    BY <2>1, <2>2
<1>5. ASSUME NEW m \in replies, UpdateReturns(m) \/ UpdateRejects(m) PROVE CatchInv'
  <2>1. CASE UpdateRejects(m)
    BY <1>1, <2>1, SameViewsCatchUp DEF UpdateRejects, Rejected, SettingsInv, TypeOK, Replies, PageStates
  <2>2. QED
    BY <1>5, <2>1, UpdateReturnsCatchesUp
<1>6. QED
  BY <1>2, <1>3, <1>4, <1>5 DEF Next

(* A page with no load under way that no failed load and no overtaken      *)
(* answer disturbed shows the section stored now (load and update of       *)
(* NebulaInstancesSection.tsx, told by document-updated).                  *)
THEOREM QuietPagesCurrent == Spec => []PagesCatchUp
<1>1. Init => CatchInv
  <2> SUFFICES ASSUME Init PROVE CatchInv
    OBVIOUS
  <2>1. Revision = 1
    BY DEF Init, Revision
  <2>2. QED
    BY <2>1 DEF Init, CatchInv
<1>2. SettingsInv /\ CatchInv /\ [Next]_vars => CatchInv'
  BY CatchInvStep
<1>3. CatchInv => PagesCatchUp
  BY DEF CatchInv, PagesCatchUp
<1>4. QED
  BY <1>1, <1>2, <1>3, SettingsCorrect, PTL DEF Spec
=============================================================================
