------------------------- MODULE CredentialsProofs -------------------------
(***************************************************************************)
(* Theorems about the form of the settings page, InstanceForm: its types,  *)
(* and that it keeps what it edits, whatever the texts, the instances and  *)
(* the requests of others.  Then about a visit to the page: for any        *)
(* references, values, plugin configs, sections and bounds, what           *)
(* nebula_connect connects with, what the credentials panel shows and      *)
(* keeps, and what the form keeps.  A call holds on to what it resolved    *)
(* when it came; a panel to the newest version it has heard of.            *)
(***************************************************************************)
EXTENDS Credentials, FiniteSetTheorems, SequenceTheorems, TLAPS

-----------------------------------------------------------------------------
(* What is stored is an instance, and the empty place counts as one.       *)
LEMMA StorableInstances ==
  /\ NoInstance \in Storable
  /\ Storable \subseteq Instances
<1>1. NoInstance \in Instances
  BY DEF NoInstance, Instances, FieldType, OrAbsent
<1>2. QED
  BY <1>1 DEF Storable

(* What is shown of a field is a text, or a mode of TLS.                   *)
LEMMA FieldsText ==
  ASSUME NEW i \in Instances, NEW f \in Fields
  PROVE  FieldText(i, f) \in IF f = "tls" THEN TlsModes ELSE Texts
<1>1. i[f] \in FieldType(f)
  BY DEF Instances
<1>2. QED
  BY <1>1, TextAssumption, NumberAssumption DEF FieldText, FieldType, OrAbsent, NumberFields

(* A draft shows every field of its instance.                              *)
LEMMA DraftsFrom ==
  ASSUME NEW i \in Instances
  PROVE  /\ DraftFrom(i) \in Drafts
         /\ \A f \in Fields : DraftFrom(i)[f] = FieldText(i, f)
<1>1. \A f \in Fields : FieldText(i, f) \in IF f = "tls" THEN TlsModes ELSE Texts
  BY FieldsText
<1>2. \A f \in Fields : DraftFrom(i)[f] = FieldText(i, f)
  BY DEF DraftFrom
<1>3. DraftFrom(i) \in [Fields -> Texts \cup TlsModes]
  BY <1>1 DEF DraftFrom
<1>4. QED
  BY <1>1, <1>2, <1>3 DEF Drafts

LEMMA FieldsValue ==
  ASSUME NEW d \in Drafts, NEW f \in Fields, ValidDraft(d)
  PROVE  FieldValue(d, f) \in FieldType(f)
<1>1. d[f] \in IF f = "tls" THEN TlsModes ELSE Texts
  BY DEF Drafts
<1>2. CASE f = "tls"
  BY <1>1, <1>2 DEF FieldValue, FieldType, OrAbsent
<1>3. CASE f \in NumberFields /\ ~IsBlank(d[f])
  <2>1. Number[d[f]] \in Numbers
    BY <1>3 DEF NumberFields, ValidDraft, WholeFrom
  <2>2. QED
    BY <2>1, <1>3 DEF FieldValue, FieldType, OrAbsent, NumberFields
<1>4. CASE f # "tls" /\ IsBlank(d[f])
  BY <1>4 DEF FieldValue, FieldType, OrAbsent
<1>5. CASE f # "tls" /\ f \notin NumberFields /\ ~IsBlank(d[f])
  BY <1>1, <1>5, TextAssumption DEF FieldValue, FieldType, OrAbsent
<1>6. QED
  BY <1>2, <1>3, <1>4, <1>5

(* The page's grammar is within the host's: what validateDraft lets pass,  *)
(* the schema and validateInstanceSettings let pass.                       *)
LEMMA ValidDraftsStorable ==
  ASSUME NEW d \in Drafts, ValidDraft(d)
  PROVE  InstanceOf(d) \in Storable
<1> DEFINE i == InstanceOf(d)
<1>1. \A f \in Fields : i[f] = FieldValue(d, f)
  BY DEF InstanceOf
<1>2. i \in Instances
  <2>1. \A f \in Fields : FieldValue(d, f) \in FieldType(f)
    BY FieldsValue
  <2>2. i \in [Fields -> Texts \cup Numbers \cup TlsModes \cup {Absent}]
    BY <2>1 DEF InstanceOf, FieldType, OrAbsent
  <2>3. QED
    BY <1>1, <2>1, <2>2 DEF Instances
<1>3. d["alias"] \in Texts /\ d["host"] \in Texts
  BY DEF Drafts, Fields
<1>4. /\ ~IsBlank(d["alias"]) /\ ~IsBlank(d["host"])
      /\ i["alias"] = Trim[d["alias"]] /\ i["host"] = Trim[d["host"]]
  BY <1>1, TextAssumption DEF ValidDraft, IsBlank, FieldValue, Fields, NumberFields, RawFields
<1>5. Named(i, "alias") /\ Named(i, "host")
  BY <1>3, <1>4, TextAssumption DEF Named, IsBlank
<1>6. i["port"] = Absent \/ (WholeFrom(1, i["port"]) /\ i["port"] <= 65535)
  BY <1>1 DEF ValidDraft, FieldValue, Fields, NumberFields
<1>7. i["timeoutMs"] = Absent \/ WholeFrom(1, i["timeoutMs"])
  BY <1>1 DEF ValidDraft, FieldValue, Fields, NumberFields
<1>8. i["alias"] \in AliasTexts
  BY <1>4 DEF ValidDraft
<1>9. Schema(i)
  BY <1>5, <1>6, <1>7, <1>8 DEF Schema, Named
<1>10. Validated(i)
  BY <1>5 DEF Validated
<1>11. QED
  BY <1>2, <1>9, <1>10 DEF Storable

-----------------------------------------------------------------------------
(* What one field says after an edit of the others.                        *)
LEMMA FieldKept ==
  ASSUME NEW i \in Instances, NEW d \in Drafts, NEW f \in Fields,
         d[f] = FieldText(i, f), AsWritten(i, f)
  PROVE  FieldValue(d, f) = i[f]
<1>1. i[f] \in FieldType(f)
  BY DEF Instances
<1>2. CASE f = "tls"
  BY <1>1, <1>2 DEF FieldValue, FieldText, AsWritten, NumberFields
<1>3. CASE f # "tls" /\ i[f] = Absent
  <2>1. d[f] = Empty
    BY <1>3 DEF FieldText
  <2>2. QED
    BY <1>3, <2>1, TextAssumption DEF FieldValue, IsBlank
<1>4. CASE f \in NumberFields /\ i[f] # Absent
  <2>1. i[f] \in Numbers /\ d[f] = Printed[i[f]] /\ f # "tls"
    BY <1>1, <1>4 DEF FieldType, OrAbsent, FieldText, NumberFields
  <2>2. QED
    BY <1>4, <2>1, NumberAssumption DEF FieldValue, IsBlank
<1>5. CASE f # "tls" /\ f \notin NumberFields /\ i[f] # Absent
  BY <1>5 DEF FieldValue, FieldText, AsWritten
<1>6. QED
  BY <1>2, <1>3, <1>4, <1>5

(* A field as the form writes it reads as the form writes it. *)
LEMMA FieldAsWritten ==
  ASSUME NEW d \in Drafts, ValidDraft(d), NEW f \in Fields
  PROVE  AsWritten(InstanceOf(d), f)
<1> DEFINE i == InstanceOf(d)
<1>1. i[f] = FieldValue(d, f)
  BY DEF InstanceOf
<1>2. d[f] \in IF f = "tls" THEN TlsModes ELSE Texts
  BY DEF Drafts
<1>3. CASE f = "tls"
  BY <1>1, <1>2, <1>3, TextAssumption DEF AsWritten, FieldValue
<1>4. CASE f # "tls" /\ (IsBlank(d[f]) \/ f \in NumberFields)
  BY <1>1, <1>4 DEF AsWritten, FieldValue
<1>5. CASE f \in RawFields /\ f # "tls" /\ f \notin NumberFields /\ ~IsBlank(d[f])
  BY <1>1, <1>5 DEF AsWritten, FieldValue
<1>6. CASE f \notin RawFields /\ f # "tls" /\ f \notin NumberFields /\ ~IsBlank(d[f])
  <2>1. i[f] = Trim[d[f]] /\ d[f] \in Texts
    BY <1>1, <1>2, <1>6 DEF FieldValue
  <2>2. Trim[i[f]] = i[f]
    BY <2>1, TextAssumption
  <2>3. QED
    BY <1>6, <2>1, <2>2 DEF AsWritten, IsBlank
<1>7. QED
  BY <1>3, <1>4, <1>5, <1>6

(* What the form stored, it opens as a valid draft and stores unchanged.   *)
LEMMA Reopened ==
  ASSUME NEW d \in Drafts, ValidDraft(d)
  PROVE  /\ InstanceOf(DraftFrom(InstanceOf(d))) = InstanceOf(d)
         /\ ValidDraft(DraftFrom(InstanceOf(d)))
<1> DEFINE i == InstanceOf(d)
           e == DraftFrom(i)
<1>1. i \in Instances
  BY ValidDraftsStorable, StorableInstances
<1>2. e \in Drafts /\ \A f \in Fields : e[f] = FieldText(i, f)
  BY <1>1, DraftsFrom
<1>3. \A f \in Fields : AsWritten(i, f)
  BY FieldAsWritten
<1>4. \A f \in Fields : FieldValue(e, f) = i[f]
  <2> HIDE DEF i, e
  <2>1. QED
    BY <1>1, <1>2, <1>3, FieldKept
<1>5. InstanceOf(e) = i
  BY <1>4 DEF InstanceOf
<1>6. \A f \in Fields : i[f] = FieldValue(d, f)
  BY DEF InstanceOf
<1>7. \A f \in Fields : f # "tls" => (IsBlank(e[f]) <=> IsBlank(d[f]))
  <2>1. SUFFICES ASSUME NEW f \in Fields, f # "tls"
                 PROVE  IsBlank(e[f]) <=> IsBlank(d[f])
    OBVIOUS
  <2>2. e[f] \in Texts /\ d[f] \in Texts
    BY <1>2, <2>1 DEF Drafts
  <2>3. FieldValue(e, f) = FieldValue(d, f)
    BY <1>4, <1>6
  <2>4. IsBlank(d[f]) <=> i[f] = Absent
    <3>1. CASE IsBlank(d[f])
      BY <1>6, <2>1, <3>1 DEF FieldValue
    <3>2. CASE ~IsBlank(d[f])
      <4>1. CASE f \in NumberFields
        <5>1. Number[d[f]] \in Numbers
          BY <3>2, <4>1 DEF ValidDraft, WholeFrom, NumberFields
        <5>2. QED
          BY <1>6, <2>1, <3>2, <4>1, <5>1, TextAssumption DEF FieldValue
      <4>2. CASE f \notin NumberFields
        BY <1>6, <2>1, <2>2, <3>2, <4>2, TextAssumption DEF FieldValue
      <4>3. QED
        BY <4>1, <4>2
    <3>3. QED
      BY <3>1, <3>2
  <2>5. IsBlank(e[f]) <=> i[f] = Absent
    <3>1. CASE i[f] = Absent
      BY <1>2, <2>1, <3>1, TextAssumption DEF FieldText, IsBlank
    <3>2. CASE i[f] # Absent
      BY <1>4, <2>1, <3>2 DEF FieldValue
    <3>3. QED
      BY <3>1, <3>2
  <2>6. QED
    BY <2>4, <2>5
<1>8. Trim[e["alias"]] \in AliasTexts
  <2>1. ~IsBlank(d["alias"])
    BY TextAssumption DEF ValidDraft, IsBlank
  <2>2. FieldValue(e, "alias") = Trim[d["alias"]] /\ ~IsBlank(e["alias"])
    BY <1>4, <1>6, <1>7, <2>1 DEF FieldValue, Fields, NumberFields, RawFields
  <2>3. FieldValue(e, "alias") = Trim[e["alias"]]
    BY <2>2 DEF FieldValue, NumberFields, RawFields
  <2>4. QED
    BY <2>2, <2>3 DEF ValidDraft
<1>9. ~IsBlank(e["host"])
  BY <1>7 DEF ValidDraft, Fields
<1>10. \A f \in NumberFields : ~IsBlank(e[f]) => ~IsBlank(d[f]) /\ Number[e[f]] = Number[d[f]]
  <2>1. SUFFICES ASSUME NEW f \in NumberFields, ~IsBlank(e[f])
                 PROVE  ~IsBlank(d[f]) /\ Number[e[f]] = Number[d[f]]
    OBVIOUS
  <2>2. f \in Fields /\ f # "tls"
    BY DEF NumberFields, Fields
  <2>3. ~IsBlank(d[f]) /\ FieldValue(e, f) = FieldValue(d, f)
    BY <1>4, <1>6, <1>7, <2>1, <2>2
  <2>4. QED
    BY <2>1, <2>2, <2>3 DEF FieldValue
<1>11. ValidDraft(e)
  <2> HIDE DEF e, i
  <2>1. QED
    BY <1>8, <1>9, <1>10 DEF ValidDraft, NumberFields
<1>12. QED
  BY <1>5, <1>11
-----------------------------------------------------------------------------
(* Every answer is a reply, and only an update that is answered ok writes. *)
LEMMA RepliesTyped ==
  ASSUME NEW r
  PROVE  Reply(r) \in Replies
BY DEF Reply, UpdateReply, Replies

LEMMA HandleTyped ==
  ASSUME NEW r, Handle(r), host \in HostStates
  PROVE  /\ reply' = Reply(r) /\ reply' \in Replies
         /\ host' \in HostStates
         /\ host'.mounted = host.mounted /\ host'.trusted = host.trusted
         /\ host'.writable = host.writable
<1>1. Updates(r) => r.instance \in Storable
  <2>1. SUFFICES ASSUME Updates(r) PROVE r.instance \in Storable
    OBVIOUS
  <2>2. Reply(r) = UpdateReply(r) /\ Reply(r) = "ok"
    BY <2>1 DEF Updates, Reply
  <2>3. QED
    BY <2>2 DEF UpdateReply
<1>2. reply' = Reply(r) /\ reply' \in Replies
  BY RepliesTyped DEF Handle
<1>3. CASE Updates(r)
  <2>1. host' = [host EXCEPT !.stored = r.instance]
    BY <1>3 DEF Handle
  <2>2. QED
    BY <1>1, <1>2, <1>3, <2>1 DEF HostStates
<1>4. CASE ~Updates(r)
  BY <1>2, <1>4 DEF Handle
<1>5. QED
  BY <1>3, <1>4

(* The type invariant of the form, over a page whose drafts stay drafts.   *)
LEMMA FormTypes ==
  FormTypeOK /\ [FormNext]_formVars => FormTypeOK'
<1> SUFFICES ASSUME FormTypeOK, [FormNext]_formVars PROVE FormTypeOK'
  OBVIOUS
<1> USE StorableInstances
<1>1. host \in HostStates /\ page \in PageStates /\ reply \in Replies \cup {Nothing, "invalid"}
  BY DEF FormTypeOK
<1>2. DraftFrom(NoInstance) \in Drafts /\ \A i \in Storable : DraftFrom(i) \in Drafts
  BY DraftsFrom
<1>3. CASE Load
  <2> DEFINE r == PageRequest("instances.get", NoInstance)
  <2>1. Handle(r) /\ page' = IF Reply(r) = "ok"
                THEN [page EXCEPT !.status = "ready", !.view = host.stored, !.current = TRUE]
                ELSE [page EXCEPT !.status = "error"]
    BY <1>3 DEF Load
  <2>2. host' \in HostStates /\ reply' \in Replies
    BY <1>1, <2>1, HandleTyped
  <2>3. page' \in PageStates
    BY <1>1, <2>1 DEF PageStates, HostStates
  <2>4. QED
    BY <2>2, <2>3 DEF FormTypeOK
<1>4. ASSUME NEW i \in Storable, Begin(i) PROVE FormTypeOK'
  <2>1. page' = [page EXCEPT !.editing = TRUE, !.seed = i, !.draft = DraftFrom(i), !.typed = {}]
    BY <1>4 DEF Begin
  <2>2. page' \in PageStates
    BY <1>1, <1>2, <2>1 DEF PageStates
  <2>3. QED
    BY <1>1, <1>4, <2>2 DEF FormTypeOK, Begin
<1>5. CASE BeginNew
  BY <1>4, <1>5 DEF BeginNew
<1>6. CASE BeginEdit
  <2>1. page.view \in Storable
    BY <1>1 DEF PageStates
  <2>2. QED
    BY <1>4, <1>6, <2>1 DEF BeginEdit
<1>7. Closed(page) \in PageStates
  BY <1>1, <1>2 DEF Closed, PageStates
<1>8. CASE CancelEdit
  BY <1>1, <1>7, <1>8 DEF CancelEdit, FormTypeOK
<1>9. ASSUME NEW f \in Fields, NEW t \in Typed[f], SetDraftField(f, t) PROVE FormTypeOK'
  <2>1. t \in IF f = "tls" THEN TlsModes ELSE Texts
    BY RequestAssumption
  <2> DEFINE d == [page.draft EXCEPT ![f] = t]
  <2>2. d \in Drafts
    BY <1>1, <2>1 DEF PageStates, Drafts
  <2>3. page' = [page EXCEPT !.draft = d, !.typed = page.typed \cup {f},
                             !.typings = page.typings + 1]
    BY <1>1, <1>9 DEF SetDraftField, PageStates
  <2>4. page.typings + 1 \in 0 .. MaxTyped
    BY <1>1, <1>9, RequestAssumption DEF SetDraftField, PageStates
  <2> HIDE DEF d
  <2>5. page' \in PageStates
    BY <1>1, <2>2, <2>3, <2>4 DEF PageStates
  <2>6. QED
    BY <1>1, <1>9, <2>5 DEF SetDraftField, FormTypeOK
<1>10. CASE DraftRefused
  BY <1>1, <1>10 DEF DraftRefused, FormTypeOK
<1>11. CASE SaveDraft
  <2> DEFINE i == IF Replaces THEN InstanceOf(page.draft) ELSE page.view
             r == PageRequest("instances.update", i)
  <2>1. /\ Handle(r)
        /\ page' = IF Reply(r) = "ok"
                   THEN [Closed(page) EXCEPT !.view = i, !.current = TRUE]
                   ELSE page
    BY <1>11 DEF SaveDraft
  <2>2. i \in Storable
    <3>1. page.draft \in Drafts /\ page.view \in Storable /\ ValidDraft(page.draft)
      BY <1>1, <1>11 DEF PageStates, SaveDraft
    <3>2. QED
      BY <3>1, ValidDraftsStorable
  <2>3. host' \in HostStates /\ reply' \in Replies
    BY <1>1, <2>1, HandleTyped
  <2> HIDE DEF i, r
  <2>4. page' \in PageStates
    BY <1>1, <1>7, <2>1, <2>2 DEF PageStates
  <2>5. QED
    BY <2>3, <2>4 DEF FormTypeOK
<1>12. ASSUME NEW r \in OtherRequests, Elsewhere(r) PROVE FormTypeOK'
  <2>1. host' \in HostStates /\ reply' \in Replies
    BY <1>1, <1>12, HandleTyped DEF Elsewhere
  <2>2. page' \in PageStates
    BY <1>1, <1>12 DEF Elsewhere, PageStates
  <2>3. QED
    BY <2>1, <2>2 DEF FormTypeOK
<1>13. CASE UNCHANGED formVars
  BY <1>1, <1>13 DEF formVars, FormTypeOK
<1>14. QED
  BY <1>3, <1>5, <1>6, <1>8, <1>9, <1>10, <1>11, <1>12, <1>13 DEF FormNext
LEMMA FormTypesInit ==
  FormInit => FormTypeOK
<1> SUFFICES ASSUME FormInit PROVE FormTypeOK
  OBVIOUS
<1>1. DraftFrom(NoInstance) \in Drafts
  BY StorableInstances, DraftsFrom
<1>2. host \in HostStates
  BY FirstStoredAssumption DEF FormInit, HostStates
<1>3. page \in PageStates
  <2>1. PICK a \in Authorities : page = NewPage(a)
    BY DEF FormInit
  <2>2. 0 \in 0 .. MaxTyped
    BY RequestAssumption
  <2>3. QED
    BY <1>1, <2>1, <2>2, StorableInstances DEF NewPage, PageStates
<1>4. QED
  BY <1>2, <1>3 DEF FormInit, FormTypeOK

(* Types: what is stored is always something the schema and the checks of  *)
(* the handler admit, and what the page edits is always a draft.           *)
THEOREM FormTypesHold ==
  FormSpec => []FormTypeOK
<1>1. FormInit => FormTypeOK
  BY FormTypesInit
<1>2. FormTypeOK /\ [FormNext]_formVars => FormTypeOK'
  BY FormTypes
<1>3. QED
  BY <1>1, <1>2, PTL DEF FormSpec

-----------------------------------------------------------------------------
(* The authority the page was served from is one the fence lets pass.      *)
Served ==
  \/ page.at.name \in Loopback
  \/ \E e \in host.trusted : e.name = page.at.name /\ e.port \in {AnyPort, page.at.port}

(* A page that shows the section has got through the handler, which is the *)
(* same ever since; and the fields of its draft that nobody typed in are   *)
(* those of the instance the draft was made from.                          *)
FormInv ==
  /\ FormTypeOK
  /\ page.status = "ready" => host.mounted /\ Served
  /\ page.editing => \A f \in Fields \ page.typed : page.draft[f] = FieldText(page.seed, f)

LEMMA PageTrusted ==
  ASSUME FormTypeOK, NEW m, NEW i
  PROVE  Trusted(PageRequest(m, i)) <=> Served
<1>1. page.at \in Authorities
  BY DEF FormTypeOK, PageStates
<1>2. page.at # Nothing
  BY <1>1, RequestAssumption
<1>3. QED
  BY <1>2 DEF Trusted, PageRequest, Served

LEMMA FormInvInit ==
  FormInit => FormInv
<1> SUFFICES ASSUME FormInit PROVE FormInv
  OBVIOUS
<1>1. PICK a \in Authorities : page = NewPage(a)
  BY DEF FormInit
<1>2. page.status # "ready" /\ ~page.editing
  BY <1>1 DEF NewPage
<1>3. QED
  BY <1>2, FormTypesInit DEF FormInv

LEMMA FormInvStep ==
  FormInv /\ [FormNext]_formVars => FormInv'
<1> SUFFICES ASSUME FormInv, [FormNext]_formVars PROVE FormInv'
  OBVIOUS
<1>1. FormTypeOK /\ FormTypeOK'
  BY FormTypes DEF FormInv
<1>2. host \in HostStates /\ page \in PageStates
  BY <1>1 DEF FormTypeOK
<1>3. /\ page.status = "ready" => host.mounted /\ Served
      /\ page.editing => \A f \in Fields \ page.typed : page.draft[f] = FieldText(page.seed, f)
  BY DEF FormInv
<1>4. ASSUME host'.mounted = host.mounted, host'.trusted = host.trusted,
             page'.at = page.at, page'.status = page.status
      PROVE  page'.status = "ready" => host'.mounted /\ Served'
  BY <1>3, <1>4 DEF Served
<1>5. ASSUME page'.editing = page.editing, page'.typed = page.typed,
             page'.draft = page.draft, page'.seed = page.seed
      PROVE  page'.editing => \A f \in Fields \ page'.typed :
                                 page'.draft[f] = FieldText(page'.seed, f)
  BY <1>3, <1>5
<1>6. CASE Load
  <2> DEFINE r == PageRequest("instances.get", NoInstance)
  <2>1. /\ Handle(r)
        /\ page' = IF Reply(r) = "ok"
                   THEN [page EXCEPT !.status = "ready", !.view = host.stored, !.current = TRUE]
                   ELSE [page EXCEPT !.status = "error"]
    BY <1>6 DEF Load
  <2>2. host'.mounted = host.mounted /\ host'.trusted = host.trusted
    BY <1>2, <2>1, HandleTyped
  <2>3. Reply(r) = "ok" => host.mounted /\ Trusted(r)
    BY DEF Reply, PageRequest
  <2>4. Trusted(r) <=> Served
    BY <1>1, PageTrusted
  <2> HIDE DEF r
  <2>5. /\ page'.at = page.at /\ page'.editing = page.editing /\ page'.typed = page.typed
        /\ page'.draft = page.draft /\ page'.seed = page.seed
        /\ page'.status = IF Reply(r) = "ok" THEN "ready" ELSE "error"
    BY <1>2, <2>1 DEF PageStates
  <2>6. page'.status = "ready" => host'.mounted /\ Served'
    BY <2>2, <2>3, <2>4, <2>5 DEF Served
  <2>7. QED
    BY <1>1, <1>5, <2>5, <2>6 DEF FormInv
<1>7. ASSUME NEW i \in Storable, Begin(i) PROVE FormInv'
  <2>1. /\ page'.at = page.at /\ page'.status = page.status /\ page'.typed = {}
        /\ page'.seed = i /\ page'.draft = DraftFrom(i) /\ host' = host
    BY <1>2, <1>7 DEF Begin, PageStates
  <2>2. \A f \in Fields : DraftFrom(i)[f] = FieldText(i, f)
    BY StorableInstances, DraftsFrom
  <2>3. QED
    BY <1>1, <1>4, <2>1, <2>2 DEF FormInv
<1>8. CASE BeginNew
  BY <1>7, <1>8, StorableInstances DEF BeginNew
<1>9. CASE BeginEdit
  BY <1>2, <1>7, <1>9 DEF BeginEdit, PageStates
<1>10. /\ ~Closed(page).editing /\ Closed(page).at = page.at
       /\ Closed(page).status = page.status
  BY <1>2 DEF Closed, PageStates
<1>11. CASE CancelEdit
  BY <1>1, <1>4, <1>10, <1>11 DEF CancelEdit, FormInv
<1>12. ASSUME NEW f \in Fields, NEW t \in Typed[f], SetDraftField(f, t) PROVE FormInv'
  <2>1. /\ page'.at = page.at /\ page'.status = page.status /\ host' = host
        /\ page'.editing = page.editing /\ page'.seed = page.seed
        /\ page'.typed = page.typed \cup {f}
        /\ page'.draft = [page.draft EXCEPT ![f] = t]
    BY <1>2, <1>12 DEF SetDraftField, PageStates
  <2>2. page.draft \in [Fields -> Texts \cup TlsModes]
    BY <1>2 DEF PageStates, Drafts
  <2>3. \A g \in Fields \ {f} : page'.draft[g] = page.draft[g]
    BY <2>1, <2>2
  <2>4. page'.editing => \A g \in Fields \ page'.typed : page'.draft[g] = FieldText(page'.seed, g)
    BY <1>3, <2>1, <2>3
  <2>5. QED
    BY <1>1, <1>4, <2>1, <2>4 DEF FormInv
<1>13. CASE DraftRefused
  BY <1>1, <1>4, <1>5, <1>13 DEF DraftRefused, FormInv
<1>14. CASE SaveDraft
  <2>1. PICK r : /\ Handle(r)
                 /\ \/ \E i : page' = [Closed(page) EXCEPT !.view = i, !.current = TRUE]
                    \/ page' = page
    BY <1>14 DEF SaveDraft
  <2>2. host'.mounted = host.mounted /\ host'.trusted = host.trusted
    BY <1>2, <2>1, HandleTyped
  <2>3. CASE page' = page
    BY <1>1, <1>4, <1>5, <2>2, <2>3 DEF FormInv
  <2>4. ASSUME NEW i, page' = [Closed(page) EXCEPT !.view = i, !.current = TRUE]
        PROVE  FormInv'
    <3>1. ~page'.editing /\ page'.at = page.at /\ page'.status = page.status
      BY <1>2, <2>4 DEF Closed, PageStates
    <3>2. QED
      BY <1>1, <1>4, <2>2, <3>1 DEF FormInv
  <2>5. QED
    BY <2>1, <2>3, <2>4
<1>15. ASSUME NEW r \in OtherRequests, Elsewhere(r) PROVE FormInv'
  <2>1. host'.mounted = host.mounted /\ host'.trusted = host.trusted
    BY <1>2, <1>15, HandleTyped DEF Elsewhere
  <2>2. /\ page'.at = page.at /\ page'.status = page.status
        /\ page'.editing = page.editing /\ page'.typed = page.typed
        /\ page'.draft = page.draft /\ page'.seed = page.seed
    BY <1>2, <1>15 DEF Elsewhere, PageStates
  <2>3. QED
    BY <1>1, <1>4, <1>5, <2>1, <2>2 DEF FormInv
<1>16. CASE UNCHANGED formVars
  BY <1>1, <1>4, <1>5, <1>16 DEF formVars, FormInv
<1>17. QED
  BY <1>6, <1>8, <1>9, <1>11, <1>12, <1>13, <1>14, <1>15, <1>16 DEF FormNext

-----------------------------------------------------------------------------
(* A draft the page lets pass is stored, unless the page's revision is old.*)
LEMMA SaveAnswered ==
  ASSUME FormInv, SaveDraft
  PROVE  /\ page.current => reply' = "ok"
         /\ ~page.current => reply' = "conflict"
         /\ reply' = "ok" /\ Replaces => host'.stored = InstanceOf(page.draft)
<1> DEFINE i == IF Replaces THEN InstanceOf(page.draft) ELSE page.view
           r == PageRequest("instances.update", i)
<1>1. host \in HostStates /\ page \in PageStates /\ FormTypeOK
  BY DEF FormInv, FormTypeOK
<1>2. Handle(r)
  BY DEF SaveDraft
<1>3. i \in Storable
  <2>1. page.draft \in Drafts /\ page.view \in Storable /\ ValidDraft(page.draft)
    BY <1>1 DEF PageStates, SaveDraft
  <2>2. QED
    BY <2>1, ValidDraftsStorable
<1>4. host.mounted /\ host.writable /\ Served
  BY DEF SaveDraft, Savable, FormInv
<1>5. Trusted(r)
  BY <1>1, <1>4, PageTrusted
<1>6. Validated(i)
  BY <1>3 DEF Storable, Validated
<1>7. /\ r.post /\ r.method = "instances.update" /\ r.fault = "none"
      /\ r.instance = i /\ r.stale = ~page.current
  BY DEF PageRequest
<1> HIDE DEF r, i
<1>8. Reply(r) = UpdateReply(r)
  <2>1. r.method # Nothing
    BY <1>7, RequestAssumption DEF Methods
  <2>2. QED
    BY <1>4, <1>5, <1>7, <2>1 DEF Reply
<1>9. UpdateReply(r) = IF r.stale THEN "conflict" ELSE "ok"
  BY <1>3, <1>4, <1>6, <1>7 DEF UpdateReply
<1>10. page.current \in BOOLEAN
  BY <1>1 DEF PageStates
<1>11. reply' = "ok" => host' = [host EXCEPT !.stored = i]
  BY <1>2, <1>7 DEF Handle, Updates
<1>12. host'.stored = i \/ reply' # "ok"
  BY <1>1, <1>11 DEF HostStates
<1>13. Replaces => i = InstanceOf(page.draft)
  BY DEF i
<1>14. QED
  BY <1>2, <1>7, <1>8, <1>9, <1>10, <1>12, <1>13 DEF Handle

(* A saved draft ends as FormKeeps says, from any state of the invariant.  *)
SavedAsEdited ==
  SaveDraft =>
    /\ reply' = IF page.current THEN "ok" ELSE "conflict"
    /\ reply' = "ok" /\ Replaces =>
         LET i == host'.stored
         IN /\ ValidDraft(DraftFrom(i)) /\ InstanceOf(DraftFrom(i)) = i
            /\ \A f \in Fields \ page.typed :
                 AsWritten(page.seed, f) => i[f] = page.seed[f]

LEMMA SaveKeeps ==
  FormInv => SavedAsEdited
<1> SUFFICES ASSUME FormInv, SaveDraft PROVE SavedAsEdited
  BY DEF SavedAsEdited
<1>1. /\ page.draft \in Drafts /\ page.seed \in Instances
      /\ ValidDraft(page.draft) /\ page.editing
  BY StorableInstances DEF FormInv, FormTypeOK, PageStates, SaveDraft, Savable
<1>2. reply' = IF page.current THEN "ok" ELSE "conflict"
  BY SaveAnswered
<1>3. ASSUME reply' = "ok", Replaces
      PROVE  /\ ValidDraft(DraftFrom(host'.stored))
             /\ InstanceOf(DraftFrom(host'.stored)) = host'.stored
             /\ \A f \in Fields \ page.typed :
                  AsWritten(page.seed, f) => host'.stored[f] = page.seed[f]
  <2>1. host'.stored = InstanceOf(page.draft)
    BY <1>3, SaveAnswered
  <2>2. \A f \in Fields : InstanceOf(page.draft)[f] = FieldValue(page.draft, f)
    BY DEF InstanceOf
  <2>3. \A f \in Fields \ page.typed : page.draft[f] = FieldText(page.seed, f)
    BY <1>1 DEF FormInv
  <2>4. \A f \in Fields \ page.typed :
          AsWritten(page.seed, f) => FieldValue(page.draft, f) = page.seed[f]
    BY <1>1, <2>3, FieldKept
  <2>5. QED
    BY <1>1, <2>1, <2>2, <2>4, Reopened
<1>4. QED
  BY <1>2, <1>3 DEF SavedAsEdited

(* The form keeps what it edits: every draft that the page lets pass is    *)
(* stored unless somebody else wrote in the meantime, opens again as it    *)
(* was stored, and changes no field that nobody typed in.                  *)
THEOREM FormKeepsHolds ==
  FormSpec => FormKeeps
<1>1. FormInit => FormInv
  BY FormInvInit
<1>2. FormInv /\ [FormNext]_formVars => FormInv'
  BY FormInvStep
<1>3. FormInv => SavedAsEdited
  BY SaveKeeps
<1>4. QED
  BY <1>1, <1>2, <1>3, PTL DEF FormSpec, FormKeeps, SavedAsEdited

-----------------------------------------------------------------------------
(* Since its settings were read, a call is what resolveConnectArgs made of *)
(* them, whatever is edited; settled, it has what some version of the      *)
(* document gave.                                                          *)
Resolved ==
  /\ connect.since \in 1 .. Version
  /\ ~BadArguments(connect.seen, connect.args)
  /\ connect.instance = Source(connect.seen, connect.args)
  /\ connect.profile = ProfileOf(connect.seen, connect.instance)
  /\ connect.warning <=> Stale(connect.seen, connect.args)
  /\ connect.host = Else(connect.args.host, Else(connect.profile.host, config.host))
  /\ connect.tls = Else(connect.args.tls, Else(connect.profile.tls, config.tls))
  /\ connect.ref = Else(connect.args.ref, Else(connect.profile.ref, config.ref))

ConnectInv ==
  /\ connect.pc \in {"lookup", "connecting", "missing"} => Resolved
  /\ connect.pc = "connecting" =>
       /\ connect.cert = Else(connect.profile.cert, config.cert)
       /\ \E n \in connect.since .. Version : connect.password = Found(n) /\ Found(n) # NoPassword
  /\ connect.pc = "missing" =>
       \E n \in connect.since .. Version : Found(n) = NoPassword

(* A profile found for a call is one of the section's, or none. *)
LEMMA ProfilesTyped ==
  ASSUME NEW s \in SectionType, NEW a \in Optional(Aliases)
  PROVE  ProfileOf(s, a) \in Profiles \cup {NoProfile}
BY DEF ProfileOf, SectionType, Optional

(* The instance a call resolves to is an alias, or none. *)
LEMMA SourceTyped ==
  ASSUME NEW s \in SectionType, NEW args \in Arguments
  PROVE  Source(s, args) \in Optional(Aliases)
BY DEF Source, SectionType, Arguments, Optional

(* Every password a lookup comes to is one there is. *)
LEMMA FoundTyped ==
  ASSUME StoreTypeOK, ConnectTypeOK, NEW n \in 1 .. Version
  PROVE  Found(n) \in Passwords \cup {NoPassword}
<1>1. log[n] \in Documents
  BY ElementOfSeq DEF StoreTypeOK, Version
<1>2. connect.ref \in Optional(Refs \cup {Blank})
  BY DEF ConnectTypeOK, ConnectStates
<1>3. CASE connect.ref \in {Unset, Blank}
  BY <1>3 DEF Found, Passwords
<1>4. CASE connect.ref \notin {Unset, Blank}
  <2>1. connect.ref \in Refs
    BY <1>2, <1>4 DEF Optional
  <2>2. log[n][connect.ref] # NoValue => log[n][connect.ref] \in Values
    BY <1>1, <2>1 DEF Documents
  <2>3. QED
    BY <1>4, <2>1, <2>2 DEF Found, Passwords
<1>5. QED
  BY <1>3, <1>4

LEMMA ResolveKeeps ==
  ASSUME StoreTypeOK, ConnectTypeOK, ConnectInv, UNCHANGED log,
         NEW args \in Asked, Resolve(args)
  PROVE  ConnectTypeOK' /\ ConnectInv'
<1> DEFINE a == Source(settings, args)
           p == ProfileOf(settings, a)
           warning == Stale(settings, args)
           hst == Else(args.host, Else(p.host, config.host))
           tls == Else(args.tls, Else(p.tls, config.tls))
           ref == Else(args.ref, Else(p.ref, config.ref))
           C == [connect EXCEPT !.pc = "lookup", !.args = args, !.seen = settings,
                                !.since = Version, !.instance = a, !.profile = p,
                                !.warning = warning, !.host = hst, !.tls = tls, !.ref = ref]
<1>1. /\ connect' = C /\ config' = config /\ settings' = settings /\ edits' = edits
      /\ ~BadArguments(settings, args)
  BY Zenon DEF Resolve
<1>2. settings \in SectionType /\ args \in Arguments /\ connect \in ConnectStates
      /\ config \in ConfigType
  BY AskedAssumption, ConnectAssumption DEF ConnectTypeOK
<1>3. a \in Optional(Aliases) /\ p \in Profiles \cup {NoProfile}
  BY <1>2, SourceTyped, ProfilesTyped
<1>4. warning \in BOOLEAN /\ (warning <=> Stale(settings, args))
  BY DEF Stale
<1> HIDE DEF warning, a, p
<1>5. hst \in Optional(Hosts) /\ tls \in Optional(Modes) /\ ref \in Optional(Refs \cup {Blank})
  BY <1>1, <1>2, <1>3 DEF BadArguments, Else, Arguments, ConfigType, Profiles, NoProfile, Optional
<1>6. Version \in 0 .. (MaxWrites + 1) /\ Version \in 1 .. Version
  BY StoreAssumption DEF StoreTypeOK
<1> HIDE DEF hst, tls, ref
<1>7. /\ C \in ConnectStates
      /\ C.pc = "lookup" /\ C.args = args /\ C.seen = settings /\ C.since = Version
      /\ C.instance = a /\ C.profile = p /\ C.warning = warning
      /\ C.host = hst /\ C.tls = tls /\ C.ref = ref
  BY <1>2, <1>3, <1>4, <1>5, <1>6 DEF ConnectStates
<1> HIDE DEF C
<1>8. ConnectTypeOK'
  BY <1>1, <1>7 DEF ConnectTypeOK
<1>9. Resolved'
  <2>1. Version' = Version
    BY DEF Version
  <2>2. /\ connect'.since \in 1 .. Version'
        /\ connect'.instance = Source(connect'.seen, connect'.args)
        /\ connect'.profile = ProfileOf(connect'.seen, connect'.instance)
    BY <1>1, <1>6, <1>7, <2>1 DEF a, p
  <2>3. connect'.warning <=> Stale(connect'.seen, connect'.args)
    BY <1>1, <1>4, <1>7 DEF Stale
  <2>4. /\ connect'.host = Else(connect'.args.host, Else(connect'.profile.host, config'.host))
        /\ connect'.tls = Else(connect'.args.tls, Else(connect'.profile.tls, config'.tls))
        /\ connect'.ref = Else(connect'.args.ref, Else(connect'.profile.ref, config'.ref))
    BY <1>1, <1>7 DEF hst, tls, ref
  <2>5. (~BadArguments(connect.seen, connect.args))'
    BY <1>1, <1>7 DEF BadArguments
  <2>6. QED
    BY <2>2, <2>3, <2>4, <2>5 DEF Resolved
<1>10. connect'.pc = "lookup"
  BY <1>1, <1>7
<1>11. QED
  BY <1>8, <1>9, <1>10 DEF ConnectInv

(* A call that ends otherwise than connected forgets nothing. *)
LEMMA EndedKeeps ==
  ASSUME StoreTypeOK, ConnectTypeOK, ConnectInv, UNCHANGED <<log, config, settings, edits>>,
         NEW pc \in {"threw", "missing"}, connect' = [connect EXCEPT !.pc = pc],
         pc = "missing" => /\ connect.pc = "lookup"
                           /\ \E n \in connect.since .. Version : Found(n) = NoPassword
  PROVE  ConnectTypeOK' /\ ConnectInv'
<1>1. /\ connect \in ConnectStates
      /\ connect' \in ConnectStates /\ connect'.pc = pc
      /\ connect'.since = connect.since /\ connect'.args = connect.args
      /\ connect'.seen = connect.seen /\ connect'.instance = connect.instance
      /\ connect'.profile = connect.profile /\ connect'.warning = connect.warning
      /\ connect'.host = connect.host /\ connect'.tls = connect.tls /\ connect'.ref = connect.ref
  BY DEF ConnectTypeOK, ConnectStates
<1>2. ConnectTypeOK'
  BY <1>1 DEF ConnectTypeOK
<1>3. Resolved => Resolved'
  BY <1>1 DEF Resolved, BadArguments, Version
<1>4. \A n : Found(n)' = Found(n)
  BY <1>1 DEF Found
<1>5. QED
  BY <1>1, <1>2, <1>3, <1>4 DEF ConnectInv, Version

LEMMA PasswordFoundKeeps ==
  ASSUME StoreTypeOK, ConnectTypeOK, ConnectInv, UNCHANGED log,
         NEW n \in 1 .. Version, PasswordFound(n)
  PROVE  ConnectTypeOK' /\ ConnectInv'
<1> DEFINE password == Found(n)
           cert == Else(connect.profile.cert, config.cert)
           C == [connect EXCEPT !.pc = "connecting", !.password = password, !.cert = cert]
<1>1. /\ connect.pc = "lookup" /\ connect.since <= n /\ password # NoPassword
      /\ connect' = C
      /\ config' = config /\ settings' = settings /\ edits' = edits
  BY DEF PasswordFound, Complete
<1>2. connect \in ConnectStates /\ config \in ConfigType
  BY ConnectAssumption DEF ConnectTypeOK
<1>3. password \in Passwords \cup {NoPassword}
  BY FoundTyped
<1>4. cert \in Optional(Certs)
  BY <1>2 DEF ConnectStates, Profiles, NoProfile, ConfigType, Else, Optional
<1> HIDE DEF password, cert
<1>5. /\ C \in ConnectStates /\ C.pc = "connecting" /\ C.password = password /\ C.cert = cert
      /\ C.since = connect.since /\ C.args = connect.args
      /\ C.seen = connect.seen /\ C.instance = connect.instance
      /\ C.profile = connect.profile /\ C.warning = connect.warning
      /\ C.host = connect.host /\ C.tls = connect.tls /\ C.ref = connect.ref
  BY <1>2, <1>3, <1>4 DEF ConnectStates
<1> HIDE DEF C
<1>6. ConnectTypeOK'
  BY <1>1, <1>5 DEF ConnectTypeOK
<1>7. Resolved
  BY <1>1 DEF ConnectInv
<1>8. Resolved'
  BY <1>1, <1>5, <1>7 DEF Resolved, BadArguments, Version
<1>9. Found(n)' = Found(n)
  BY <1>1, <1>5 DEF Found
<1>10. n \in connect'.since .. Version'
  BY <1>1, <1>5, <1>7 DEF Resolved, Version
<1>11. connect'.cert = Else(connect'.profile.cert, config'.cert)
  BY <1>1, <1>5 DEF cert
<1>12. connect'.password = Found(n)' /\ Found(n)' # NoPassword
  BY <1>1, <1>5, <1>9 DEF password
<1>13. QED
  BY <1>1, <1>5, <1>6, <1>8, <1>10, <1>11, <1>12 DEF ConnectInv

LEMMA ConnectKeeps ==
  ASSUME StoreTypeOK, ConnectTypeOK, ConnectInv, UNCHANGED log, ConnectNext
  PROVE  ConnectTypeOK' /\ ConnectInv'
<1>1. ASSUME NEW args \in Asked, ResolveFails(args) PROVE ConnectTypeOK' /\ ConnectInv'
  BY <1>1, EndedKeeps DEF ResolveFails
<1>2. ASSUME NEW n \in 1 .. Version, PasswordMissing(n) PROVE ConnectTypeOK' /\ ConnectInv'
  <2>1. connect.pc = "lookup" /\ connect.since <= n /\ Found(n) = NoPassword
    BY <1>2 DEF PasswordMissing
  <2>2. n \in connect.since .. Version
    BY <2>1 DEF ConnectInv, Resolved
  <2>3. QED
    BY <1>2, <2>1, <2>2, EndedKeeps DEF PasswordMissing
<1>3. CASE LookupFails
  BY <1>3, EndedKeeps DEF LookupFails
<1>4. QED
  BY <1>1, <1>2, <1>3, ResolveKeeps, PasswordFoundKeeps DEF ConnectNext

(* Writes to the document and edits of the settings leave a call what it   *)
(* is: versions are added, none is changed.                                *)
LEMMA OthersKeepConnect ==
  ASSUME StoreTypeOK, ConnectTypeOK, ConnectInv,
         UNCHANGED <<config, connect>>,
         settings' \in SectionType, edits' \in 0 .. MaxEdits,
         Version' \in Nat, Version <= Version', \A n \in 1 .. Version : log'[n] = log[n]
  PROVE  ConnectTypeOK' /\ ConnectInv'
<1>1. ConnectTypeOK'
  BY DEF ConnectTypeOK
<1>2. Version \in Nat
  BY StoreAssumption DEF StoreTypeOK
<1>3. Resolved => Resolved'
  BY <1>2 DEF Resolved, BadArguments
<1>4. \A n \in 1 .. Version : Found(n)' = Found(n)
  BY DEF Found
<1>5. Resolved => \A n \in connect.since .. Version :
                    n \in connect'.since .. Version' /\ Found(n)' = Found(n)
  BY <1>2, <1>4 DEF Resolved
<1>6. QED
  BY <1>1, <1>3, <1>5 DEF ConnectInv

-----------------------------------------------------------------------------
(* What a call is resolved to is one configuration. *)
LEMMA ResolvedIsOne ==
  ASSUME ConnectTypeOK, ConnectInv
  PROVE  OneConfiguration /\ PolicyEnforced
<1> SUFFICES ASSUME connect.pc = "connecting" PROVE OneConfiguration /\ PolicyEnforced
  BY DEF OneConfiguration, PolicyEnforced
<1>1. Resolved /\ connect.cert = Else(connect.profile.cert, config.cert)
  BY DEF ConnectInv
<1> DEFINE p == ProfileOf(connect.seen, connect.instance)
           Chosen(used, levels) ==
             \E i \in DOMAIN levels : used = levels[i] /\ \A j \in 1 .. (i - 1) : levels[j] = Unset
<1>2. ASSUME NEW x, NEW y, NEW z PROVE Chosen(Else(x, Else(y, z)), <<x, y, z>>)
  <2>1. CASE x # Unset
    <3>1. Else(x, Else(y, z)) = <<x, y, z>>[1] /\ 1 \in DOMAIN <<x, y, z>>
      BY <2>1 DEF Else
    <3>2. QED
      BY <3>1
  <2>2. CASE x = Unset /\ y # Unset
    <3>1. Else(x, Else(y, z)) = <<x, y, z>>[2] /\ 2 \in DOMAIN <<x, y, z>>
      BY <2>2 DEF Else
    <3>2. \A j \in 1 .. (2 - 1) : <<x, y, z>>[j] = Unset
      BY <2>2
    <3>3. QED
      BY <3>1, <3>2
  <2>3. CASE x = Unset /\ y = Unset
    <3>1. Else(x, Else(y, z)) = <<x, y, z>>[3] /\ 3 \in DOMAIN <<x, y, z>>
      BY <2>3 DEF Else
    <3>2. \A j \in 1 .. (3 - 1) : <<x, y, z>>[j] = Unset
      BY <2>3
    <3>3. QED
      BY <3>1, <3>2
  <2>4. QED
    BY <2>1, <2>2, <2>3
<1>3. ASSUME NEW x, NEW y PROVE Chosen(Else(x, y), <<x, y>>)
  <2>1. CASE x # Unset
    <3>1. Else(x, y) = <<x, y>>[1] /\ 1 \in DOMAIN <<x, y>>
      BY <2>1 DEF Else
    <3>2. QED
      BY <3>1
  <2>2. CASE x = Unset
    <3>1. Else(x, y) = <<x, y>>[2] /\ 2 \in DOMAIN <<x, y>>
      BY <2>2 DEF Else
    <3>2. \A j \in 1 .. (2 - 1) : <<x, y>>[j] = Unset
      BY <2>2
    <3>3. QED
      BY <3>1, <3>2
  <2>3. QED
    BY <2>1, <2>2
<1>4. connect.profile = p
  BY <1>1 DEF Resolved
<1>5. /\ connect.host = Else(connect.args.host, Else(p.host, config.host))
      /\ connect.ref = Else(connect.args.ref, Else(p.ref, config.ref))
      /\ connect.tls = Else(connect.args.tls, Else(p.tls, config.tls))
      /\ connect.cert = Else(p.cert, config.cert)
  BY <1>1, <1>4 DEF Resolved
<1>6. /\ Chosen(connect.host, <<connect.args.host, p.host, config.host>>)
      /\ Chosen(connect.ref, <<connect.args.ref, p.ref, config.ref>>)
      /\ Chosen(connect.cert, <<p.cert, config.cert>>)
  <2> HIDE DEF Chosen, p
  <2>1. QED
    BY <1>2, <1>3, <1>5
<1>7. connect.args.instance # Unset => connect.instance = connect.args.instance
  BY <1>1 DEF Resolved, Source
<1>8. connect.instance = Unset => connect.args.instance = Unset /\ ~Exists(connect.seen, connect.seen.default)
  BY <1>1 DEF Resolved, Source, Exists
<1>9. connect.instance = Unset => connect.warning = (connect.seen.default # Unset)
  <2>1. connect.warning \in BOOLEAN
    BY DEF ConnectTypeOK, ConnectStates
  <2>2. QED
    BY <1>1, <1>8, <2>1 DEF Resolved, Stale
<1>10. OneConfiguration
  BY <1>6, <1>7, <1>8, <1>9, Zenon DEF OneConfiguration
<1>11. PolicyEnforced
  BY <1>1, <1>5 DEF PolicyEnforced, Resolved, BadArguments, Else
<1>12. QED
  BY <1>10, <1>11

(* What a call found is what its own reference had, or had not. *)
LEMMA FoundIsOfReference ==
  ASSUME StoreTypeOK, ConnectTypeOK, ConnectInv
  PROVE  PasswordOfReference
<1>1. connect.ref \in Refs \cup {Unset, Blank} /\ Unset \notin Refs /\ Blank \notin Refs
  BY ConnectAssumption DEF ConnectTypeOK, ConnectStates, Optional
<1>2. ASSUME connect.pc = "connecting"
      PROVE  \/ connect.ref \notin Refs /\ connect.password = <<"config">>
             \/ connect.ref \in Ambient /\ connect.password = <<"environment", connect.ref>>
             \/ connect.ref \in Refs /\ \E n \in connect.since .. Version :
                  connect.password = <<"store", connect.ref, log[n][connect.ref]>>
  <2>1. PICK n \in connect.since .. Version : connect.password = Found(n) /\ Found(n) # NoPassword
    BY <1>2 DEF ConnectInv
  <2>2. QED
    BY <1>1, <2>1 DEF Found
<1>3. ASSUME connect.pc = "missing"
      PROVE  /\ connect.ref \in Refs \ Ambient
             /\ ~config.seam \/ \E n \in connect.since .. Version : log[n][connect.ref] = NoValue
  <2>1. PICK n \in connect.since .. Version : Found(n) = NoPassword
    BY <1>3 DEF ConnectInv
  <2>2. \A x, y, z : <<x>> # <<>> /\ <<x, y>> # <<>> /\ <<x, y, z>> # <<>>
    OBVIOUS
  <2>3. QED
    BY <1>1, <2>1, <2>2 DEF Found, NoPassword
<1>4. QED
  BY <1>2, <1>3 DEF PasswordOfReference

-----------------------------------------------------------------------------
(* A call the host handled wrote its value; one that saves holds the draft *)
(* it was made from, which stays as long as the call does and the panel    *)
(* that made it: no row has two.                                           *)
Blocks(o) == o.here /\ o.kind # "remove"

OpsInv ==
  /\ \A o \in ops :
       /\ o.made <= Version
       /\ o.made # 0 => log[o.made][o.ref] = o.value
       /\ o.kind = "save" => o.value # NoValue /\ (o.here => drafts[o.ref] = o.value)
       /\ o.kind # "save" => o.value = NoValue
  /\ \A o, u \in ops : Blocks(o) /\ Blocks(u) /\ o.ref = u.ref => o = u

(* Every call under way still has its write within the bound. *)
Unmade == {o \in ops : o.made = 0}
RoomInv == IsFiniteSet(ops) /\ Version + Cardinality(Unmade) <= MaxWrites + 1

(* No panel, no rows.  Else the current version is asked for, or the panel *)
(* has heard of it: no answer is newer, so a flag that is wrong knows it.  *)
FlagsInv ==
  /\ asks \subseteq 1 .. Version
  /\ \A r \in Refs : shown[r].newest <= Version
  /\ ~open => rows = {} /\ asks = {}
  /\ \/ ~open
     \/ Version \in asks
     \/ /\ \A r \in Refs : shown[r].newest = Version
        /\ \A r \in rows : shown[r].disturbed \/ shown[r].flag = FlagAt(r, Version)

PanelInv == OpsInv /\ RoomInv /\ FlagsInv

(* A write adds a version that has its value, and changes none. *)
LEMMA Written ==
  ASSUME StoreTypeOK, NEW r \in Refs, NEW v \in Values \cup {NoValue},
         Version <= MaxWrites, Write(r, v)
  PROVE  /\ StoreTypeOK' /\ Version' = Version + 1
         /\ \A n \in 1 .. Version : log'[n] = log[n]
         /\ log'[Version + 1][r] = v
<1> DEFINE d == [log[Version] EXCEPT ![r] = v]
<1>1. log \in Seq(Documents) /\ Version \in Nat /\ Version \in 1 .. Version
  BY StoreAssumption DEF StoreTypeOK
<1>2. log[Version] \in Documents
  BY <1>1, ElementOfSeq DEF Version
<1>3. d \in Documents /\ d[r] = v
  BY <1>2 DEF Documents
<1>4. log' = Append(log, d)
  BY DEF Write
<1> HIDE DEF d
<1>5. /\ log' \in Seq(Documents) /\ Version' = Version + 1
      /\ \A n \in 1 .. Version : log'[n] = log[n]
      /\ log'[Version + 1] = d
  BY <1>1, <1>3, <1>4, AppendProperties DEF Version
<1>6. Version' \in 1 .. (MaxWrites + 1)
  BY <1>1, <1>5, StoreAssumption
<1>7. QED
  BY <1>3, <1>5, <1>6 DEF StoreTypeOK

(* A flag and the versions it goes by. *)
LEMMA FlaggedTyped ==
  ASSUME StoreTypeOK, PanelTypeOK, NEW r \in Refs,
         NEW flag \in {"unknown", "configured", "missing"}, NEW n \in 1 .. Version,
         shown[r].newest <= Version
  PROVE  /\ Flagged(r, flag, n) \in Shown
         /\ Flagged(r, flag, n).flag = flag
         /\ Flagged(r, flag, n).newest <= Version
         /\ shown[r].newest = Version => Flagged(r, flag, n).newest = Version
         /\ n = Version => Flagged(r, flag, n).newest = Version
         /\ Flagged(r, flag, n).disturbed <=> n < shown[r].newest
<1> DEFINE d == n < shown[r].newest
           m == Newer(shown[r].newest, n)
<1>1. shown[r].newest \in {0} \cup Versions /\ Version \in Versions /\ Version \in Nat
  BY StoreAssumption DEF PanelTypeOK, Shown, StoreTypeOK, Versions
<1>2. /\ m \in {0} \cup Versions /\ m <= Version
      /\ shown[r].newest = Version => m = Version
      /\ n = Version => m = Version
  BY <1>1, StoreAssumption DEF Newer, Versions
<1>3. d \in BOOLEAN /\ (d <=> n < shown[r].newest)
  OBVIOUS
<1>4. Flagged(r, flag, n) = [flag |-> flag, newest |-> m, disturbed |-> d]
  BY Zenon DEF Flagged
<1> HIDE DEF d, m
<1>5. QED
  BY <1>2, <1>3, <1>4 DEF Shown

(* What one part of the panel does not touch, the other two do not lose. *)
LEMMA CallsUntouched ==
  ASSUME OpsInv, RoomInv, UNCHANGED <<log, ops, drafts>>
  PROVE  OpsInv' /\ RoomInv'
BY DEF OpsInv, RoomInv, Unmade, Version

LEMMA FlagsUntouched ==
  ASSUME FlagsInv, UNCHANGED <<log, asks, shown, rows, open>>
  PROVE  FlagsInv'
BY DEF FlagsInv, FlagAt, Version

(* An answer as of version n: the newest one it is compared with is the    *)
(* document's own, unless that one is still asked for.                     *)
LEMMA DescribeKeeps ==
  ASSUME StoreTypeOK, PanelTypeOK, PanelInv, NEW m \in 1 .. Version,
         DescribeFails(m) \/ \E n \in 1 .. Version : DescribeArrives(m, n)
  PROVE  PanelTypeOK' /\ PanelInv'
<1>1. UNCHANGED <<log, permits, open, rows, ops, drafts>> /\ asks' = asks \ {m}
  BY Zenon DEF DescribeFails, DescribeArrives
<1>2. Version' = Version /\ Version \in Nat /\ Version \in Versions /\ Version \in 1 .. Version
  BY <1>1, StoreAssumption DEF Version, StoreTypeOK, Versions
<1>3. OpsInv' /\ RoomInv'
  BY <1>1, CallsUntouched DEF PanelInv
<1>4. asks' \subseteq 1 .. Version
  BY <1>1 DEF PanelInv, FlagsInv
<1>c. ~open' => rows' = {} /\ asks' = {}
  BY <1>1 DEF PanelInv, FlagsInv
<1>5. \A r \in Refs : shown[r].newest <= Version /\ shown[r].newest \in Nat
  <2> SUFFICES ASSUME NEW r \in Refs PROVE shown[r].newest <= Version /\ shown[r].newest \in Nat
    OBVIOUS
  <2>1. shown[r].newest \in {0} \cup Versions
    BY DEF PanelTypeOK, Shown
  <2>2. shown[r].newest <= Version
    BY DEF PanelInv, FlagsInv
  <2>3. QED
    BY <2>1, <2>2, StoreAssumption DEF Versions
<1>6. CASE DescribeFails(m)
  <2> DEFINE N(r) == Newer(shown[r].newest, m)
  <2>1. shown' = [r \in Refs |-> [flag |-> "unknown", newest |-> N(r), disturbed |-> TRUE]]
    BY <1>6 DEF DescribeFails
  <2>2. \A r \in Refs : /\ N(r) \in {0} \cup Versions /\ N(r) <= Version
                        /\ shown[r].newest = Version \/ m = Version => N(r) = Version
    BY <1>2, <1>5, StoreAssumption DEF Newer, Versions, StoreTypeOK
  <2> HIDE DEF N
  <2>3. shown' \in [Refs -> Shown]
    BY <2>1, <2>2 DEF Shown
  <2>4. \A r \in Refs : shown'[r].newest = N(r) /\ shown'[r].disturbed
    BY <2>1
  <2>5. ~open \/ Version \in asks' \/ \A r \in Refs : shown'[r].newest = Version
    BY <1>1, <2>2, <2>4 DEF PanelInv, FlagsInv
  <2>6. rows \subseteq Refs
    BY DEF PanelTypeOK
  <2>7. FlagsInv'
    <3>1. \/ ~open'
          \/ Version' \in asks'
          \/ /\ \A r \in Refs : shown'[r].newest = Version'
             /\ \A r \in rows' : shown'[r].disturbed
      BY <1>1, <1>2, <2>4, <2>5, <2>6
    <3>2. \A r \in Refs : shown'[r].newest <= Version'
      BY <1>2, <2>2, <2>4
    <3>. QED
      BY <1>2, <1>4, <1>c, <3>1, <3>2 DEF FlagsInv
  <2>8. QED
    BY <1>1, <1>3, <2>3, <2>7 DEF PanelTypeOK, PanelInv
<1>7. ASSUME NEW n \in 1 .. Version, DescribeArrives(m, n) PROVE PanelTypeOK' /\ PanelInv'
  <2> DEFINE F(r) == IF r \in rows THEN FlagAt(r, n) ELSE "unknown"
             G(r) == Flagged(r, F(r), n)
  <2>1. shown' = [r \in Refs |-> G(r)] /\ m \in asks /\ m <= n
    BY <1>7, Zenon DEF DescribeArrives
  <2>2. \A r \in Refs : F(r) \in {"unknown", "configured", "missing"}
    BY DEF FlagAt
  <2>3. \A r \in rows : F(r) = FlagAt(r, n)
    OBVIOUS
  <2> HIDE DEF F
  <2>4. \A r \in Refs : /\ G(r) \in Shown /\ G(r).flag = F(r) /\ G(r).newest <= Version
                        /\ shown[r].newest = Version \/ n = Version => G(r).newest = Version
                        /\ G(r).disturbed <=> n < shown[r].newest
    <3> SUFFICES ASSUME NEW r \in Refs
                 PROVE  /\ G(r) \in Shown /\ G(r).flag = F(r) /\ G(r).newest <= Version
                        /\ shown[r].newest = Version \/ n = Version => G(r).newest = Version
                        /\ G(r).disturbed <=> n < shown[r].newest
      OBVIOUS
    <3>1. F(r) \in {"unknown", "configured", "missing"} /\ shown[r].newest <= Version
      BY <1>5, <2>2
    <3>2. QED
      BY <3>1, FlaggedTyped
  <2> HIDE DEF G
  <2>5. shown' \in [Refs -> Shown] /\ \A r \in Refs : shown'[r] = G(r)
    BY <2>1, <2>4
  <2>6. rows \subseteq Refs
    BY DEF PanelTypeOK
  <2> DEFINE Known == \/ ~open
                      \/ Version \in asks'
                      \/ /\ \A r \in Refs : shown'[r].newest = Version
                         /\ \A r \in rows : \/ shown'[r].disturbed
                                            \/ shown'[r].flag = FlagAt(r, Version)
  <2>7. ASSUME ~open \/ Version \in asks' PROVE Known
    BY <2>7
  <2>8. ASSUME open, Version \notin asks' PROVE Known
    <3>1. n = Version \/ \A r \in Refs : shown[r].newest = Version
      BY <1>1, <1>2, <2>1, <2>8 DEF PanelInv, FlagsInv
    <3>2. \A r \in Refs : G(r).newest = Version
      BY <2>4, <3>1
    <3>3. \A r \in rows : G(r).disturbed \/ G(r).flag = FlagAt(r, Version)
      <4>1. CASE n = Version
        BY <2>3, <2>4, <2>6, <4>1
      <4>2. CASE n # Version
        BY <1>2, <2>4, <2>6, <3>1, <4>2
      <4>3. QED
        BY <4>1, <4>2
    <3>4. QED
      BY <2>5, <2>6, <3>2, <3>3
  <2>9. FlagsInv'
    <3>1. Known
      BY <2>7, <2>8
    <3>2. \A r \in rows : FlagAt(r, Version)' = FlagAt(r, Version)
      BY <1>1, <1>2 DEF FlagAt
    <3>3. \A r \in Refs : shown'[r].newest <= Version
      BY <2>4, <2>5
    <3>4. QED
      BY <1>1, <1>2, <1>4, <1>c, <3>1, <3>2, <3>3 DEF FlagsInv
  <2>10. QED
    BY <1>1, <1>3, <2>5, <2>9 DEF PanelTypeOK, PanelInv
<1>8. QED
  BY <1>6, <1>7

(* New rows are asked for at once, and so are those of a new panel. *)
LEMMA RelistKeeps ==
  ASSUME StoreTypeOK, PanelTypeOK, PanelInv, NEW R \in SUBSET Refs, Relist(R) \/ Mount(R)
  PROVE  PanelTypeOK' /\ PanelInv'
<1>1. Version' = Version /\ Version \in 1 .. Version /\ Version \in Versions
  BY StoreAssumption DEF Relist, Mount, Version, StoreTypeOK, Versions
<1>2. OpsInv' /\ RoomInv'
  BY CallsUntouched DEF Relist, Mount, PanelInv
<1>3. FlagsInv'
  BY <1>1 DEF Relist, Mount, PanelInv, FlagsInv
<1>4. QED
  BY <1>1, <1>2, <1>3 DEF Relist, Mount, PanelTypeOK, PanelInv

(* A panel that leaves the page has its calls answered to nobody. *)
LEMMA UnmountKeeps ==
  ASSUME StoreTypeOK, PanelTypeOK, PanelInv, Unmount
  PROVE  PanelTypeOK' /\ PanelInv'
<1> DEFINE d == [r \in Refs |-> NoValue]
           Left(o) == [o EXCEPT !.here = FALSE]
<1>1. /\ open' = FALSE /\ rows' = {} /\ asks' = {} /\ ops' = {Left(o) : o \in ops}
      /\ shown' = [r \in Refs |-> Unseen] /\ drafts' = d /\ UNCHANGED <<log, permits>>
  BY DEF Unmount
<1>2. Version' = Version /\ Version \in Nat
  BY <1>1, StoreAssumption DEF Version, StoreTypeOK
<1>3. \A o \in ops : /\ Left(o) \in Ops /\ ~Left(o).here /\ Left(o).ref = o.ref
                     /\ Left(o).kind = o.kind /\ Left(o).value = o.value
                     /\ Left(o).made = o.made
  BY DEF PanelTypeOK, Ops
<1>4. d \in Documents
  BY DEF Documents
<1> HIDE DEF d, Left
<1>5. Unseen \in Shown /\ Unseen.newest = 0
  BY DEF Unseen, Shown
<1>6. PanelTypeOK'
  BY <1>1, <1>3, <1>4, <1>5 DEF PanelTypeOK
<1>7. OpsInv'
  <2>1. \A u \in ops' : ~u.here /\ \E o \in ops : /\ u.kind = o.kind /\ u.value = o.value
                                                /\ u.made = o.made /\ u.ref = o.ref
    BY <1>1, <1>3
  <2>2. \A u \in ops' : /\ u.made <= Version' /\ (u.made # 0 => log'[u.made][u.ref] = u.value)
                        /\ u.kind = "save" => u.value # NoValue
                        /\ u.kind # "save" => u.value = NoValue
    BY <1>1, <1>2, <2>1 DEF PanelInv, OpsInv
  <2>3. \A u \in ops' : u.here => FALSE
    BY <2>1
  <2>4. \A t, u \in ops' : Blocks(t) /\ Blocks(u) /\ t.ref = u.ref => t = u
    BY <2>3, Zenon DEF Blocks
  <2>5. \A u \in ops' : u.here => drafts'[u.ref] = u.value
    BY <2>3, Zenon
  <2>. QED
    BY <2>2, <2>4, <2>5, Zenon DEF OpsInv
<1>8. RoomInv'
  <2>1. IsFiniteSet(ops) /\ IsFiniteSet(Unmade)
    BY FS_Subset DEF PanelInv, RoomInv, Unmade
  <2>2. IsFiniteSet(ops')
    <3> DEFINE f == [o \in ops |-> Left(o)]
    <3>1. f \in Surjection(ops, ops')
      BY <1>1 DEF Surjection
    <3>. QED
      BY <2>1, <3>1, FS_Surjection
  <2>3. Cardinality(Unmade') <= Cardinality(Unmade) /\ IsFiniteSet(Unmade')
    <3> DEFINE f == [o \in Unmade |-> Left(o)]
    <3>1. f \in Surjection(Unmade, Unmade')
      BY <1>1, <1>3 DEF Surjection, Unmade
    <3>. QED
      BY <2>1, <3>1, FS_Surjection
  <2>4. Cardinality(Unmade) \in Nat /\ Cardinality(Unmade') \in Nat
    BY <2>1, <2>3, FS_CardinalityType
  <2>. QED
    BY <1>2, <2>2, <2>3, <2>4, StoreAssumption DEF PanelInv, RoomInv
<1>9. FlagsInv'
  BY <1>1, <1>2, <1>5 DEF FlagsInv
<1>. QED
  BY <1>6, <1>7, <1>8, <1>9 DEF PanelInv

(* Nothing is typed into a row with a call under way. *)
LEMMA TypeKeeps ==
  ASSUME StoreTypeOK, PanelTypeOK, PanelInv, NEW r \in Refs, NEW v \in Values, Type(r, v)
  PROVE  PanelTypeOK' /\ PanelInv'
<1>1. /\ drafts' = [drafts EXCEPT ![r] = v] /\ ~Busy(r)
      /\ UNCHANGED <<log, permits, open, rows, shown, asks, ops>>
  BY DEF Type
<1>2. drafts \in Documents /\ drafts' \in Documents
  BY <1>1 DEF PanelTypeOK, Documents
<1>3. \A o \in ops : o.here /\ o.kind = "save" => drafts'[o.ref] = drafts[o.ref]
  BY <1>1, <1>2 DEF Busy, Documents, PanelTypeOK, Ops
<1>4. OpsInv'
  BY <1>1, <1>3 DEF PanelInv, OpsInv, Version
<1>5. RoomInv' /\ FlagsInv'
  BY <1>1, FlagsUntouched DEF PanelInv, RoomInv, Unmade, Version
<1>6. QED
  BY <1>1, <1>2, <1>4, <1>5 DEF PanelTypeOK, PanelInv

(* A call posted in a row that has none holds the row's draft, and its     *)
(* write is within the bound.                                              *)
LEMMA PostKeeps ==
  ASSUME StoreTypeOK, PanelTypeOK, PanelInv, NEW r \in Refs,
         NEW kind \in {"save", "clear", "remove"}, NEW value \in Values \cup {NoValue},
         ~Busy(r), kind = "save" => value # NoValue /\ drafts[r] = value,
         kind # "save" => value = NoValue, Post(r, kind, value)
  PROVE  PanelTypeOK' /\ PanelInv'
<1> DEFINE o == [ref |-> r, kind |-> kind, value |-> value, made |-> 0, here |-> TRUE]
<1>1. /\ Writing /\ ops' = ops \cup {o}
      /\ UNCHANGED <<log, permits, open, rows, shown, asks, drafts>>
  BY DEF Post
<1>2. o \in Ops /\ o.ref = r /\ o.kind = kind /\ o.value = value /\ o.made = 0
  BY DEF Ops
<1> HIDE DEF o
<1>3. Version \in Nat /\ Version \in 1 .. Version /\ Version' = Version
  BY <1>1, StoreAssumption DEF StoreTypeOK, Version
<1>4. PanelTypeOK'
  BY <1>1, <1>2 DEF PanelTypeOK
<1>5. OpsInv'
  <2>1. \A u \in ops : Blocks(u) => u.ref # r
    BY DEF Busy, Blocks
  <2>2. \A u \in ops' : /\ u.made <= Version'
                        /\ u.made # 0 => log'[u.made][u.ref] = u.value
                        /\ u.kind = "save" => u.value # NoValue /\ (u.here => drafts'[u.ref] = u.value)
                        /\ u.kind # "save" => u.value = NoValue
    BY <1>1, <1>2, <1>3 DEF PanelInv, OpsInv
  <2>3. \A t, u \in ops' : Blocks(t) /\ Blocks(u) /\ t.ref = u.ref => t = u
    <3>1. ASSUME NEW t \in ops', NEW u \in ops', Blocks(t), Blocks(u), t.ref = u.ref
          PROVE  t = u
      <4>1. CASE t \in ops /\ u \in ops
        BY <3>1, <4>1, Zenon DEF PanelInv, OpsInv
      <4>2. CASE t = o \/ u = o
        BY <1>1, <1>2, <2>1, <3>1, <4>2 DEF Blocks
      <4>. QED
        BY <1>1, <4>1, <4>2
    <3>. QED
      BY <3>1, Zenon
  <2>4. QED
    BY <2>2, <2>3 DEF OpsInv
<1>6. RoomInv'
  <2>1. IsFiniteSet(ops) /\ IsFiniteSet(Unmade)
    BY FS_Subset DEF PanelInv, RoomInv, Unmade
  <2>2. Unmade' = Unmade \cup {o}
    BY <1>1, <1>2 DEF Unmade
  <2>3. /\ Cardinality(Unmade) \in Nat
        /\ Cardinality(Unmade') \in {Cardinality(Unmade), Cardinality(Unmade) + 1}
    <3>1. Cardinality(Unmade \cup {o}) \in {Cardinality(Unmade), Cardinality(Unmade) + 1}
      BY <2>1, FS_AddElement
    <3>2. QED
      BY <2>1, <2>2, <3>1, FS_CardinalityType
  <2>4. IsFiniteSet(ops')
    BY <1>1, <2>1, FS_AddElement
  <2>5. Version + Cardinality(Unmade) <= MaxWrites
    BY <1>1 DEF Writing, Unmade
  <2>6. QED
    BY <1>3, <2>3, <2>4, <2>5, StoreAssumption DEF RoomInv
<1>7. FlagsInv'
  BY <1>1, FlagsUntouched DEF PanelInv
<1>8. QED
  BY <1>4, <1>5, <1>6, <1>7 DEF PanelInv

LEMMA ButtonsKeep ==
  ASSUME StoreTypeOK, PanelTypeOK, PanelInv, NEW r \in Refs,
         Save(r) \/ Clear(r) \/ Remove(r, settings.refs)
  PROVE  PanelTypeOK' /\ PanelInv'
<1>1. drafts[r] \in Values \cup {NoValue}
  BY DEF PanelTypeOK, Documents
<1>2. CASE Save(r)
  BY <1>1, <1>2, PostKeeps DEF Save
<1>3. CASE Clear(r)
  BY <1>3, PostKeeps DEF Clear
<1>4. CASE Remove(r, settings.refs)
  BY <1>4, PostKeeps DEF Remove
<1>5. QED
  BY <1>2, <1>3, <1>4

(* A call that ended leaves the others what they were. *)
LEMMA FewerOps ==
  ASSUME RoomInv, StoreTypeOK, NEW o \in ops, ops' = ops \ {o}, UNCHANGED log
  PROVE  RoomInv'
<1>1. IsFiniteSet(ops') /\ IsFiniteSet(Unmade) /\ Unmade' \subseteq Unmade
  BY FS_Subset DEF RoomInv, Unmade
<1>2. /\ Cardinality(Unmade) \in Nat /\ Cardinality(Unmade') \in Nat
      /\ Cardinality(Unmade') <= Cardinality(Unmade)
  BY <1>1, FS_Subset, FS_CardinalityType
<1>3. Version' = Version /\ Version \in Nat
  BY StoreAssumption DEF Version, StoreTypeOK
<1>4. QED
  BY <1>1, <1>2, <1>3, StoreAssumption DEF RoomInv

LEMMA OpFailsKeeps ==
  ASSUME StoreTypeOK, PanelTypeOK, PanelInv, NEW o \in ops, OpFails(o)
  PROVE  PanelTypeOK' /\ PanelInv'
<1>1. ops' = ops \ {o} /\ UNCHANGED <<log, permits, open, rows, shown, asks, drafts>>
  BY DEF OpFails
<1>2. RoomInv' /\ FlagsInv'
  BY <1>1, FewerOps, FlagsUntouched DEF PanelInv
<1>3. OpsInv'
  BY <1>1 DEF PanelInv, OpsInv, Version
<1>4. QED
  BY <1>1, <1>2, <1>3 DEF PanelTypeOK, PanelInv

(* Every write is asked for, by a panel that is there. *)
LEMMA WrittenAskedFor ==
  ASSUME StoreTypeOK, PanelTypeOK, FlagsInv, UNCHANGED <<shown, rows, open>>,
         Version' = Version + 1, Version <= MaxWrites, asks' = AsksAgain
  PROVE  FlagsInv' /\ asks' \subseteq Versions
<1>1. Version \in Nat /\ MaxWrites \in Nat
  BY StoreAssumption DEF StoreTypeOK
<1>2. asks \subseteq 1 .. Version
  BY DEF FlagsInv
<1>3. asks' \subseteq 1 .. Version' /\ (open => Version' \in asks') /\ asks' \subseteq Versions
  BY <1>1, <1>2 DEF Versions, AsksAgain
<1>4. \A r \in Refs : shown'[r].newest <= Version'
  <2> SUFFICES ASSUME NEW r \in Refs PROVE shown[r].newest <= Version'
    OBVIOUS
  <2>1. shown[r].newest \in {0} \cup Versions
    BY DEF PanelTypeOK, Shown
  <2>2. shown[r].newest <= Version
    BY DEF FlagsInv
  <2>3. QED
    BY <1>1, <2>1, <2>2 DEF Versions
<1>5. ~open => rows' = {} /\ asks' = {}
  BY DEF FlagsInv, AsksAgain
<1>6. QED
  BY <1>3, <1>4, <1>5 DEF FlagsInv

LEMMA HostWritesKeeps ==
  ASSUME StoreTypeOK, PanelTypeOK, PanelInv, NEW o \in ops, HostWrites(o)
  PROVE  /\ StoreTypeOK' /\ PanelTypeOK' /\ PanelInv'
         /\ Version' = Version + 1 /\ \A n \in 1 .. Version : log'[n] = log[n]
<1> DEFINE u == [o EXCEPT !.made = Version + 1]
<1>1. /\ o.made = 0 /\ Write(o.ref, o.value)
      /\ ops' = (ops \ {o}) \cup {u} /\ asks' = AsksAgain
      /\ UNCHANGED <<permits, open, rows, shown, drafts>>
  BY DEF HostWrites
<1>2. /\ o \in Ops /\ o.ref \in Refs /\ o.value \in Values \cup {NoValue}
      /\ Version \in Nat /\ MaxWrites \in Nat
  BY StoreAssumption DEF PanelTypeOK, Ops, StoreTypeOK
<1>3. /\ IsFiniteSet(ops) /\ IsFiniteSet(Unmade) /\ Cardinality(Unmade) \in Nat
      /\ o \in Unmade
  BY <1>1, FS_Subset, FS_CardinalityType DEF PanelInv, RoomInv, Unmade
<1>4. /\ Cardinality(Unmade \ {o}) = Cardinality(Unmade) - 1
      /\ IsFiniteSet(Unmade \ {o})
  BY <1>3, FS_RemoveElement
<1>5. Cardinality(Unmade \ {o}) \in Nat
  BY <1>4, FS_CardinalityType
<1>6. Version + Cardinality(Unmade) <= MaxWrites + 1
  BY DEF PanelInv, RoomInv
<1>7. Version <= MaxWrites
  BY <1>2, <1>3, <1>4, <1>5, <1>6
<1>8. /\ StoreTypeOK' /\ Version' = Version + 1
      /\ \A n \in 1 .. Version : log'[n] = log[n]
      /\ log'[Version + 1][o.ref] = o.value
  BY <1>1, <1>2, <1>7, Written
<1>9. Version + 1 \in Versions
  BY <1>2, <1>7 DEF Versions
<1>10. /\ u \in Ops /\ u.made = Version + 1
       /\ u.ref = o.ref /\ u.kind = o.kind /\ u.value = o.value /\ u.here = o.here
  BY <1>2, <1>9 DEF Ops
<1> HIDE DEF u
<1>11. FlagsInv' /\ asks' \subseteq Versions
  BY <1>1, <1>7, <1>8, WrittenAskedFor DEF PanelInv
<1>12. PanelTypeOK'
  BY <1>1, <1>10, <1>11 DEF PanelTypeOK
<1>13. OpsInv'
  <2>1. \A t \in ops : t.made \in Nat /\ t.made <= Version
    BY <1>2 DEF PanelInv, OpsInv, PanelTypeOK, Ops, Versions
  <2>2. \A t \in ops : /\ t.made <= Version'
                       /\ t.made # 0 => log'[t.made][t.ref] = t.value
    BY <1>2, <1>8, <2>1 DEF PanelInv, OpsInv
  <2>3. /\ u.made <= Version' /\ log'[u.made][u.ref] = u.value
    BY <1>2, <1>8, <1>10
  <2>4. \A t \in ops' : /\ t.kind = "save" => t.value # NoValue /\ (t.here => drafts'[t.ref] = t.value)
                        /\ t.kind # "save" => t.value = NoValue
    BY <1>1, <1>10 DEF PanelInv, OpsInv
  <2>5. \A t, v \in ops' : Blocks(t) /\ Blocks(v) /\ t.ref = v.ref => t = v
    BY <1>1, <1>10 DEF PanelInv, OpsInv, Blocks
  <2>6. QED
    BY <1>1, <2>2, <2>3, <2>4, <2>5 DEF OpsInv
<1>14. RoomInv'
  <2>1. Unmade' = Unmade \ {o}
    BY <1>1, <1>2, <1>10 DEF Unmade
  <2>2. IsFiniteSet(ops')
    BY <1>1, <1>3, FS_RemoveElement, FS_AddElement
  <2>3. QED
    BY <1>2, <1>3, <1>4, <1>6, <1>8, <2>1, <2>2 DEF RoomInv
<1>15. QED
  BY <1>8, <1>11, <1>12, <1>13, <1>14 DEF PanelInv

LEMMA ElsewhereWritesKeeps ==
  ASSUME StoreTypeOK, PanelTypeOK, PanelInv, NEW r \in Refs, NEW v \in Values \cup {NoValue},
         ElsewhereWrites(r, v)
  PROVE  /\ StoreTypeOK' /\ PanelTypeOK' /\ PanelInv'
         /\ Version' = Version + 1 /\ \A n \in 1 .. Version : log'[n] = log[n]
<1>1. /\ Write(r, v) /\ asks' = AsksAgain
      /\ UNCHANGED <<permits, open, rows, shown, ops, drafts>>
      /\ Version + Cardinality(Unmade) <= MaxWrites
  BY DEF ElsewhereWrites, Writing, Unmade
<1>2. Version \in Nat /\ MaxWrites \in Nat
  BY StoreAssumption DEF StoreTypeOK
<1>3. IsFiniteSet(ops) /\ Cardinality(Unmade) \in Nat
  BY FS_Subset, FS_CardinalityType DEF PanelInv, RoomInv, Unmade
<1>4. Version <= MaxWrites
  BY <1>1, <1>2, <1>3
<1>5. /\ StoreTypeOK' /\ Version' = Version + 1
      /\ \A n \in 1 .. Version : log'[n] = log[n]
  BY <1>1, <1>4, Written
<1>6. FlagsInv' /\ asks' \subseteq Versions
  BY <1>1, <1>4, <1>5, WrittenAskedFor DEF PanelInv
<1>7. OpsInv'
  <2>1. \A t \in ops : t.made \in Nat /\ t.made <= Version
    BY <1>2 DEF PanelInv, OpsInv, PanelTypeOK, Ops, Versions
  <2>2. \A t \in ops : /\ t.made <= Version'
                       /\ t.made # 0 => log'[t.made][t.ref] = t.value
    BY <1>2, <1>5, <2>1 DEF PanelInv, OpsInv
  <2>3. QED
    BY <1>1, <2>2 DEF PanelInv, OpsInv
<1>8. RoomInv'
  <2>1. Unmade' = Unmade
    BY <1>1 DEF Unmade
  <2>2. QED
    BY <1>1, <1>2, <1>3, <1>5, <2>1 DEF RoomInv
<1>9. QED
  BY <1>1, <1>5, <1>6, <1>7, <1>8 DEF PanelTypeOK, PanelInv

(* The reply of a call flags its row by the version it wrote: a draft that *)
(* is dropped is in the document, and a flag that is older than what the   *)
(* row has heard of counts as disturbed.                                   *)
LEMMA OpReturnsKeeps ==
  ASSUME StoreTypeOK, PanelTypeOK, PanelInv, NEW o \in ops, OpReturns(o)
  PROVE  PanelTypeOK' /\ PanelInv'
<1>1. /\ o.made # 0 /\ ops' = ops \ {o}
      /\ drafts' = IF o.here /\ o.kind = "save" THEN [drafts EXCEPT ![o.ref] = NoValue] ELSE drafts
      /\ UNCHANGED <<log, permits, open, rows, asks>>
  BY Zenon DEF OpReturns
<1>2. /\ o \in Ops /\ o.ref \in Refs /\ o.kind \in {"save", "clear", "remove"}
      /\ Version \in Nat /\ MaxWrites \in Nat /\ Version' = Version
  BY <1>1, StoreAssumption DEF PanelTypeOK, Ops, StoreTypeOK, Version
<1>3. o.made \in 1 .. Version /\ log[o.made][o.ref] = o.value
  BY <1>1, <1>2 DEF PanelInv, OpsInv, Ops, Versions
<1>4. drafts \in Documents /\ drafts' \in Documents
  BY <1>1, <1>2 DEF PanelTypeOK, Documents
<1>5. OpsInv'
  <2>1. \A t \in ops' : t.here /\ t.kind = "save" => drafts'[t.ref] = drafts[t.ref]
    <3>1. CASE o.here /\ o.kind = "save"
      <4>1. \A t \in ops' : t.here /\ t.kind = "save" => t.ref # o.ref /\ t.ref \in Refs
        <5>1. \A t \in ops' : t \in ops /\ t # o
          BY <1>1
        <5>2. Blocks(o) /\ \A t \in ops : t.here /\ t.kind = "save" => Blocks(t) /\ t.ref \in Refs
          BY <3>1 DEF Blocks, PanelTypeOK, Ops
        <5>. QED
          BY <5>1, <5>2 DEF PanelInv, OpsInv
      <4>. QED
        BY <1>1, <1>4, <3>1, <4>1 DEF Documents
    <3>2. CASE ~o.here \/ o.kind # "save"
      BY <1>1, <3>2
    <3>3. QED
      BY <3>1, <3>2
  <2>2. QED
    BY <1>1, <2>1 DEF PanelInv, OpsInv, Version
<1>6. RoomInv'
  BY <1>1, FewerOps DEF PanelInv
<1>7. CASE ~o.here \/ o.kind = "remove"
  <2>1. shown' = shown
    BY <1>7 DEF OpReturns
  <2>2. FlagsInv'
    BY <1>1, <2>1, FlagsUntouched DEF PanelInv
  <2>3. QED
    BY <1>1, <1>4, <1>5, <1>6, <2>1, <2>2 DEF PanelTypeOK, PanelInv
<1>8. CASE o.here /\ o.kind # "remove"
  <2> DEFINE flag == FlagAfter(o.kind)
             F == Flagged(o.ref, flag, o.made)
  <2>1. shown' = [shown EXCEPT ![o.ref] = F]
    BY <1>2, <1>8 DEF OpReturns
  <2>2. flag \in {"unknown", "configured", "missing"} /\ flag = FlagAt(o.ref, o.made)
    BY <1>2, <1>3, <1>8 DEF FlagAfter, FlagAt, PanelInv, OpsInv
  <2> HIDE DEF flag
  <2>3. shown[o.ref].newest <= Version /\ shown \in [Refs -> Shown] /\ shown[o.ref].newest \in Nat
    BY <1>2 DEF PanelInv, FlagsInv, PanelTypeOK, Shown, Versions
  <2>4. /\ F \in Shown /\ F.flag = flag /\ F.newest <= Version
        /\ shown[o.ref].newest = Version => F.newest = Version
        /\ F.disturbed <=> o.made < shown[o.ref].newest
    BY <1>2, <1>3, <2>2, <2>3, FlaggedTyped
  <2> HIDE DEF F
  <2>5. /\ shown' \in [Refs -> Shown] /\ shown'[o.ref] = F
        /\ \A r \in Refs \ {o.ref} : shown'[r] = shown[r]
    BY <1>2, <2>1, <2>3, <2>4
  <2>6. shown[o.ref].newest = Version => F.disturbed \/ F.flag = FlagAt(o.ref, Version)
    <3>1. CASE o.made = Version
      BY <2>2, <2>4, <3>1
    <3>2. CASE o.made # Version
      BY <1>2, <1>3, <2>4, <3>2
    <3>3. QED
      BY <3>1, <3>2
  <2>7. \A r \in Refs : /\ shown'[r].newest <= Version
                        /\ shown[r].newest = Version => shown'[r].newest = Version
    BY <2>4, <2>5 DEF PanelInv, FlagsInv
  <2>8. \A r \in rows : /\ FlagAt(r, Version)' = FlagAt(r, Version)
                        /\ r \in Refs
    BY <1>1, <1>2 DEF FlagAt, PanelTypeOK
  <2>9. ~open \/ Version \in asks \/ \A r \in rows : shown'[r].disturbed \/ shown'[r].flag = FlagAt(r, Version)
    BY <2>5, <2>6, <2>8 DEF PanelInv, FlagsInv
  <2>10. FlagsInv'
    BY <1>1, <1>2, <2>7, <2>8, <2>9 DEF PanelInv, FlagsInv
  <2>11. QED
    BY <1>1, <1>4, <1>5, <1>6, <2>5, <2>10 DEF PanelTypeOK, PanelInv
<1>9. QED
  BY <1>7, <1>8

-----------------------------------------------------------------------------
(* A visit as a whole: the call, the panel and the form, each as it should *)
(* be, whichever of them moves.                                            *)
VisitInv ==
  /\ StoreTypeOK
  /\ ConnectTypeOK /\ ConnectInv
  /\ PanelTypeOK /\ PanelInv
  /\ FormInv
  /\ visit \in {"panel", "form"}

LEMMA CommitKeeps ==
  ASSUME StoreTypeOK, ConnectTypeOK, ConnectInv, NEW s \in SectionType, Commit(s), UNCHANGED log
  PROVE  ConnectTypeOK' /\ ConnectInv'
<1>1. Version \in Nat /\ Version' = Version
  BY StoreAssumption DEF StoreTypeOK, Version
<1>2. edits' \in 0 .. MaxEdits
  BY ConnectAssumption DEF Commit, ConnectTypeOK
<1>3. QED
  BY <1>1, <1>2, OthersKeepConnect DEF Commit

(* The rows of a section are references. *)
LEMMA RowsTyped ==
  ASSUME NEW s \in SectionType
  PROVE  RowsFor(s) \in SUBSET Refs
<1>1. \A a \in Aliases : s.profile[a].ref \in Optional(Refs \cup {Blank})
  BY DEF SectionType, Profiles, NoProfile, Optional
<1>2. s.refs \subseteq Refs
  BY DEF SectionType
<1>3. QED
  BY <1>1, <1>2 DEF RowsFor, Optional

LEMMA SameStore ==
  ASSUME StoreTypeOK, ConnectTypeOK, ConnectInv, UNCHANGED <<log, config, settings, edits, connect>>
  PROVE  StoreTypeOK' /\ ConnectTypeOK' /\ ConnectInv'
<1>1. Version \in Nat /\ Version' = Version /\ StoreTypeOK'
  BY StoreAssumption DEF StoreTypeOK, Version
<1>2. QED
  BY <1>1, OthersKeepConnect DEF ConnectTypeOK

LEMMA SamePanel ==
  ASSUME StoreTypeOK, PanelTypeOK, PanelInv, UNCHANGED <<log, permits, open, rows, shown, asks, ops, drafts>>
  PROVE  StoreTypeOK' /\ PanelTypeOK' /\ PanelInv'
<1>1. OpsInv' /\ RoomInv' /\ FlagsInv'
  BY CallsUntouched, FlagsUntouched DEF PanelInv
<1>2. QED
  BY <1>1 DEF PanelInv, PanelTypeOK, StoreTypeOK, Version

(* One step of the panel's own. *)
LEMMA PanelNextKeeps ==
  ASSUME StoreTypeOK, ConnectTypeOK, ConnectInv, PanelTypeOK, PanelInv,
         PanelNext(settings.refs), UNCHANGED <<config, settings, edits, connect>>
  PROVE  /\ StoreTypeOK' /\ ConnectTypeOK' /\ ConnectInv' /\ PanelTypeOK' /\ PanelInv'
<1>1. Version \in Nat
  BY StoreAssumption DEF StoreTypeOK
<1>2. ASSUME NEW m \in 1 .. Version,
             DescribeFails(m) \/ \E n \in 1 .. Version : DescribeArrives(m, n)
      PROVE  PanelTypeOK' /\ PanelInv' /\ UNCHANGED log
  BY <1>2, DescribeKeeps DEF DescribeFails, DescribeArrives
<1>3. ASSUME NEW r \in Refs, NEW v \in Values, Type(r, v)
      PROVE  PanelTypeOK' /\ PanelInv' /\ UNCHANGED log
  BY <1>3, TypeKeeps DEF Type
<1>4. ASSUME NEW r \in Refs, Save(r) \/ Clear(r) \/ Remove(r, settings.refs)
      PROVE  PanelTypeOK' /\ PanelInv' /\ UNCHANGED log
  BY <1>4, ButtonsKeep DEF Save, Clear, Remove, Post
<1>5. ASSUME NEW o \in ops, OpFails(o) PROVE PanelTypeOK' /\ PanelInv' /\ UNCHANGED log
  BY <1>5, OpFailsKeeps DEF OpFails
<1>6. ASSUME \/ \E o \in ops : HostWrites(o)
             \/ \E r \in Refs, v \in Values \cup {NoValue} : ElsewhereWrites(r, v)
      PROVE  /\ StoreTypeOK' /\ PanelTypeOK' /\ PanelInv'
             /\ Version' = Version + 1 /\ \A n \in 1 .. Version : log'[n] = log[n]
  BY <1>6, HostWritesKeeps, ElsewhereWritesKeeps
<1>7. CASE UNCHANGED log /\ PanelTypeOK' /\ PanelInv'
  BY <1>7, SameStore
<1>8. CASE /\ StoreTypeOK' /\ PanelTypeOK' /\ PanelInv'
           /\ Version' = Version + 1 /\ \A n \in 1 .. Version : log'[n] = log[n]
  <2>1. Version' \in Nat /\ Version <= Version'
    BY <1>1, <1>8
  <2>2. settings' \in SectionType /\ edits' \in 0 .. MaxEdits
    BY DEF ConnectTypeOK
  <2>3. QED
    BY <1>8, <2>1, <2>2, OthersKeepConnect
<1>9. QED
  BY <1>2, <1>3, <1>4, <1>5, <1>6, <1>7, <1>8, Zenon DEF PanelNext

(* A reply ends its call; a removal may go on to edit the section. *)
LEMMA ReplyKeeps ==
  ASSUME StoreTypeOK, ConnectTypeOK, ConnectInv, PanelTypeOK, PanelInv,
         NEW o \in ops, Removed(o) \/ Replied(o)
  PROVE  /\ StoreTypeOK' /\ ConnectTypeOK' /\ ConnectInv' /\ PanelTypeOK' /\ PanelInv'
<1>1. OpReturns(o)
  BY Zenon DEF Removed, Replied
<1>2. UNCHANGED log /\ PanelTypeOK' /\ PanelInv'
  BY <1>1, OpReturnsKeeps DEF OpReturns
<1>3. StoreTypeOK'
  BY <1>2 DEF StoreTypeOK, Version
<1>4. \/ Commit([settings EXCEPT !.refs = @ \ {o.ref}])
      \/ UNCHANGED <<config, settings, edits, connect>>
  BY Zenon DEF Removed, Replied, connectVars
<1>5. [settings EXCEPT !.refs = @ \ {o.ref}] \in SectionType
  BY DEF ConnectTypeOK, SectionType
<1>6. ConnectTypeOK' /\ ConnectInv'
  BY <1>2, <1>4, <1>5, CommitKeeps, SameStore
<1>7. QED
  BY <1>2, <1>3, <1>6

LEMMA PanelVisitKeeps ==
  ASSUME StoreTypeOK, ConnectTypeOK, ConnectInv, PanelTypeOK, PanelInv, PanelVisit
  PROVE  StoreTypeOK' /\ ConnectTypeOK' /\ ConnectInv' /\ PanelTypeOK' /\ PanelInv'
<1>1. CASE ConnectNext /\ UNCHANGED <<log, panelVars>>
  BY <1>1, ConnectKeeps, SamePanel DEF panelVars
<1>2. CASE PanelNext(settings.refs) /\ UNCHANGED connectVars
  BY <1>2, PanelNextKeeps DEF connectVars
<1>3. CASE Reloaded
  <2>1. RowsFor(settings) \in SUBSET Refs
    BY RowsTyped DEF ConnectTypeOK
  <2>2. UNCHANGED <<log, config, settings, edits, connect>>
    BY <1>3 DEF Reloaded, Relist, Mount, connectVars
  <2>3. QED
    BY <1>3, <2>1, <2>2, RelistKeeps, SameStore DEF Reloaded
<1>u. CASE Unmount /\ UNCHANGED connectVars
  <2>1. UNCHANGED <<log, config, settings, edits, connect>>
    BY <1>u DEF Unmount, connectVars
  <2>2. QED
    BY <1>u, <2>1, UnmountKeeps, SameStore
<1>4. CASE SettingsWritten \/ \E r \in Addable : AddExtra(r)
  <2>1. PICK s \in SectionType : Commit(s)
    <3>1. \A r \in Addable : [settings EXCEPT !.refs = @ \cup {r}] \in SectionType
      BY PermitAssumption DEF ConnectTypeOK, SectionType
    <3>2. QED
      BY <1>4, <3>1, ConnectAssumption DEF SettingsWritten, AddExtra
  <2>2. UNCHANGED <<log, panelVars>>
    BY <1>4 DEF SettingsWritten, AddExtra
  <2>3. QED
    BY <2>1, <2>2, CommitKeeps, SamePanel DEF panelVars
<1>5. CASE \E o \in ops : Removed(o) \/ Replied(o)
  BY <1>5, ReplyKeeps
<1>6. QED
  BY <1>1, <1>2, <1>3, <1>u, <1>4, <1>5 DEF PanelVisit

-----------------------------------------------------------------------------
(* The half that is not visited starts as it should be, too. *)
LEMMA ConnectInitially ==
  ASSUME settings \in Sections, config \in Configs, edits = 0, connect = Idle(settings)
  PROVE  ConnectTypeOK /\ ConnectInv
<1>1. settings \in SectionType /\ 0 \in 0 .. MaxEdits /\ 0 \in 0 .. (MaxWrites + 1)
  BY ConnectAssumption, StoreAssumption
<1>2. NoArguments \in Arguments
  BY DEF NoArguments, Arguments, Optional
<1>3. /\ Idle(settings).pc = "idle"
      /\ Idle(settings) \in ConnectStates
  BY <1>1, <1>2 DEF Idle, ConnectStates, Optional
<1>4. QED
  BY <1>1, <1>3 DEF ConnectTypeOK, ConnectInv

LEMMA PanelInitially ==
  ASSUME StoreInit, NEW R \in SUBSET Refs, PanelInit(R)
  PROVE  StoreTypeOK /\ PanelTypeOK /\ PanelInv
<1> DEFINE d == [r \in Refs |-> NoValue]
<1>1. d \in Documents
  BY DEF Documents
<1>2. log = <<d>>
  BY DEF StoreInit
<1> HIDE DEF d
<1>3. log \in Seq(Documents) /\ Version = 1 /\ 1 \in Versions
  BY <1>1, <1>2, StoreAssumption DEF Version, Versions
<1>4. StoreTypeOK
  BY <1>3 DEF StoreTypeOK, Versions
<1>5. /\ permits \in Permits /\ open = TRUE /\ rows = R /\ shown = [r \in Refs |-> Unseen]
      /\ asks = {1} /\ ops = {} /\ drafts = d
  BY DEF PanelInit, d
<1>6. Unseen \in Shown /\ Unseen.newest = 0
  BY DEF Unseen, Shown
<1>7. PanelTypeOK
  BY <1>1, <1>3, <1>5, <1>6 DEF PanelTypeOK
<1>8. OpsInv
  BY <1>5 DEF OpsInv
<1>9. RoomInv
  <2>1. Unmade = {}
    BY <1>5 DEF Unmade
  <2>2. QED
    BY <1>3, <1>5, <2>1, FS_EmptySet, StoreAssumption DEF RoomInv
<1>10. FlagsInv
  BY <1>3, <1>5, <1>6 DEF FlagsInv
<1>11. QED
  BY <1>4, <1>7, <1>8, <1>9, <1>10 DEF PanelInv

LEMMA FormUnusedKept ==
  FormUnused => FormInv
<1> SUFFICES ASSUME FormUnused PROVE FormInv
  OBVIOUS
<1> DEFINE a == CHOOSE x \in Authorities : TRUE
           t == CHOOSE x \in TrustedHosts : TRUE
<1>1. a \in Authorities /\ t \in TrustedHosts
  BY VisitAssumption
<1>2. /\ host = [stored |-> NoInstance, writable |-> FALSE, mounted |-> FALSE, trusted |-> t]
      /\ page = NewPage(a) /\ reply = Nothing
  BY DEF FormUnused
<1> HIDE DEF a, t
<1>3. NoInstance \in Storable
  BY DEF Storable
<1>4. host \in HostStates
  BY <1>1, <1>2, <1>3 DEF HostStates
<1>5. page \in PageStates /\ page.status = "loading" /\ page.editing = FALSE
  <2>1. 0 \in 0 .. MaxTyped /\ DraftFrom(NoInstance) \in Drafts
    BY RequestAssumption, StorableInstances, DraftsFrom
  <2>2. QED
    BY <1>1, <1>2, <1>3, <2>1 DEF NewPage, PageStates
<1>6. QED
  BY <1>2, <1>4, <1>5 DEF FormInv, FormTypeOK

LEMMA VisitInit == Init => VisitInv
<1> SUFFICES ASSUME Init PROVE VisitInv
  OBVIOUS
<1>1. CASE visit = "panel" /\ StoreInit /\ ConnectInit /\ PanelInit(RowsFor(settings)) /\ FormUnused
  <2>1. ConnectTypeOK /\ ConnectInv
    BY <1>1, ConnectInitially DEF ConnectInit
  <2>2. RowsFor(settings) \in SUBSET Refs
    BY <2>1, RowsTyped DEF ConnectTypeOK
  <2>3. QED
    BY <1>1, <2>1, <2>2, PanelInitially, FormUnusedKept DEF VisitInv
<1>2. CASE visit = "form" /\ FormInit /\ PanelUnused
  <2>1. config \in Configs /\ settings \in Sections
    BY <1>2, VisitAssumption DEF PanelUnused
  <2>2. ConnectTypeOK /\ ConnectInv
    BY <1>2, <2>1, ConnectInitially DEF PanelUnused
  <2>3. StoreTypeOK /\ PanelTypeOK /\ PanelInv
    BY <1>2, PanelInitially DEF PanelUnused
  <2>4. QED
    BY <1>2, <2>2, <2>3, FormInvInit DEF VisitInv
<1>3. QED
  BY <1>1, <1>2 DEF Init

LEMMA VisitStep == VisitInv /\ [Next]_vars => VisitInv'
<1> SUFFICES ASSUME VisitInv, [Next]_vars PROVE VisitInv'
  OBVIOUS
<1>1. StoreTypeOK /\ ConnectTypeOK /\ ConnectInv /\ PanelTypeOK /\ PanelInv /\ FormInv
  BY DEF VisitInv
<1>2. CASE visit = "panel" /\ PanelVisit /\ UNCHANGED <<formVars, visit>>
  BY <1>1, <1>2, PanelVisitKeeps, FormInvStep DEF VisitInv
<1>3. CASE /\ FormNext \/ UNCHANGED formVars
           /\ UNCHANGED <<log, connectVars, panelVars, visit>>
  BY <1>1, <1>3, SameStore, SamePanel, FormInvStep DEF VisitInv, connectVars, panelVars
<1>4. QED
  BY <1>2, <1>3 DEF Next, vars

THEOREM VisitCorrect == Spec => []VisitInv
<1>1. Init => VisitInv
  BY VisitInit
<1>2. VisitInv /\ [Next]_vars => VisitInv'
  BY VisitStep
<1>3. QED
  BY <1>1, <1>2, PTL DEF Spec

(* The call, the panel, the form and the document keep their shape.        *)
THEOREM VisitTypes == Spec => []TypeOK
<1>1. VisitInv => TypeOK
  BY DEF VisitInv, TypeOK, FormInv
<1>2. QED
  BY <1>1, VisitCorrect, PTL

(* nebula_connect connects with one configuration: the call's arguments,   *)
(* the profile as it was when the call came, the plugin config, whatever   *)
(* is edited while it waits for its password (resolveConnectArgs).         *)
THEOREM OneConfigurationHolds == Spec => []OneConfiguration
<1>1. VisitInv => OneConfiguration
  BY ResolvedIsOne DEF VisitInv
<1>2. QED
  BY <1>1, VisitCorrect, PTL

(* No tool argument changes the transport policy that the profile, or the  *)
(* plugin config, sets (resolveConnectArgs).                               *)
THEOREM PolicyEnforcedHolds == Spec => []PolicyEnforced
<1>1. VisitInv => PolicyEnforced
  BY ResolvedIsOne DEF VisitInv
<1>2. QED
  BY <1>1, VisitCorrect, PTL

(* A reference in force decides the password, while values are written     *)
(* during the lookup (resolvePassword).                                    *)
THEOREM PasswordOfReferenceHolds == Spec => []PasswordOfReference
<1>1. VisitInv => PasswordOfReference
  BY FoundIsOfReference DEF VisitInv
<1>2. QED
  BY <1>1, VisitCorrect, PTL

(* A row with no describe under way shows what the document has, or counts *)
(* as disturbed (CredentialsPanel).                                        *)
THEOREM FlagsCatchUpHolds == Spec => []FlagsCatchUp
<1>1. VisitInv => FlagsCatchUp
  <2> SUFFICES ASSUME VisitInv, asks = {} PROVE FlagsCatchUp
    BY DEF FlagsCatchUp
  <2>1. \A r \in rows : shown[r].disturbed \/ shown[r].flag = FlagAt(r, Version)
    BY DEF VisitInv, PanelInv, FlagsInv
  <2>2. QED
    BY <2>1 DEF FlagsCatchUp
<1>2. QED
  BY <1>1, VisitCorrect, PTL

(* The only step that empties a field of a panel that stays is the reply   *)
(* of the call by which this panel saved the field's own value, and the    *)
(* document has had that one.                                              *)
LEMMA DraftsKeptStep ==
  ASSUME VisitInv, [Next]_vars, NEW r \in Refs, drafts[r] # NoValue, drafts'[r] = NoValue,
         ~(open /\ ~open')
  PROVE  \E n \in 1 .. Version : log[n][r] = drafts[r]
<1>1. drafts \in Documents /\ drafts' # drafts
  BY DEF VisitInv, PanelTypeOK
<1>2. PanelVisit
  BY <1>1 DEF Next, vars, panelVars
<1>3. \A q \in Refs, v \in Values : ~Type(q, v)
  <2> SUFFICES ASSUME NEW q \in Refs, NEW v \in Values, Type(q, v) PROVE FALSE
    OBVIOUS
  <2>1. drafts' = [drafts EXCEPT ![q] = v]
    BY DEF Type
  <2>2. drafts'[r] = IF r = q THEN v ELSE drafts[r]
    BY <1>1, <2>1 DEF Documents
  <2>3. QED
    BY <2>2, StoreAssumption
<1>u. ~Unmount
  BY DEF Unmount
<1>4. PICK o \in ops : OpReturns(o)
  BY <1>1, <1>2, <1>3, <1>u, Zenon
     DEF PanelVisit, PanelNext, panelVars, DescribeArrives, DescribeFails, Save, Clear, Remove, Post,
         HostWrites, OpFails, ElsewhereWrites, Reloaded, Relist, Mount,
         SettingsWritten, AddExtra, Removed, Replied
<1>5. drafts' = IF o.here /\ o.kind = "save" THEN [drafts EXCEPT ![o.ref] = NoValue] ELSE drafts
  BY <1>4, Zenon DEF OpReturns
<1>6. o.here /\ o.kind = "save" /\ o.ref = r
  BY <1>1, <1>5 DEF Documents
<1>7. o.made # 0 /\ log[o.made][r] = o.value /\ drafts[r] = o.value /\ o.made <= Version
  BY <1>4, <1>6 DEF OpReturns, VisitInv, PanelInv, OpsInv
<1>8. o.made \in Nat
  BY StoreAssumption DEF VisitInv, PanelTypeOK, Ops, Versions
<1>9. o.made \in 1 .. Version
  BY <1>7, <1>8, StoreAssumption DEF VisitInv, StoreTypeOK
<1>10. QED
  BY <1>7, <1>9

(* A typed password leaves its field only once the document has had it, or *)
(* with the panel, whichever calls of other rows, of other pages and of    *)
(* panels that were there before come between.                             *)
THEOREM DraftsKeptHolds == Spec => DraftsKept
<1>1. VisitInv /\ [Next]_vars =>
        \A r \in Refs : drafts[r] # NoValue /\ drafts'[r] = NoValue =>
          \/ open /\ ~open'
          \/ \E n \in 1 .. Version : log[n][r] = drafts[r]
  BY DraftsKeptStep
<1>2. QED
  BY <1>1, VisitCorrect, PTL DEF Spec, DraftsKept

(* The form keeps what it edits during any visit, beside the other half.   *)
THEOREM VisitFormKeeps == Spec => FormKeeps
<1>1. VisitInv => SavedAsEdited
  BY SaveKeeps DEF VisitInv
<1>2. QED
  BY <1>1, VisitCorrect, PTL DEF FormKeeps, SavedAsEdited
=============================================================================
