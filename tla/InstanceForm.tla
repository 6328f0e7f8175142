---------------------------- MODULE InstanceForm ----------------------------
(***************************************************************************)
(* The form of the settings page and the route behind it: an instance is   *)
(* read into text fields, typed in, validated by the page, posted to       *)
(* /dsh-nebula/api and validated again by the host, whose grammar and      *)
(* whose fence the page cannot see.  One place of the section is followed, *)
(* empty or holding an instance; aliases that collide, replies that        *)
(* overtake each other and the counting of revisions are SettingsPage's.   *)
(*                                                                         *)
(* user goes with note and servername, cert with ca and key.  What trim,   *)
(* Number and String do to a text is given by constants; a number that is  *)
(* not whole is a Fraction between 1 and 65535.                            *)
(***************************************************************************)
EXTENDS Integers

CONSTANTS Texts,         \* what a field may hold
          Empty,         \* ""
          Trim,          \* text.trim()
          Numbers,       \* numbers written in a section
          Fractions,     \* those that are not whole
          NaN,
          Number,        \* Number(text)
          Printed,       \* String(number)
          AliasTexts,    \* the texts of INSTANCE_ALIAS_PATTERN
          TlsModes, AutoMode,
          Absent,        \* a field left out
          Machines,      \* with Ports, what an authority is made of
          Ports,
          AnyPort,
          Loopback,      \* hosts that isLoopbackHostname accepts
          Nothing,       \* no such header, method or body
          FirstStored,   \* what may be stored when the page opens
          TrustedHosts,  \* trustedHosts of the connection row, to consider
          OtherRequests, \* requests of others to consider
          Typed,         \* per field: texts to consider typing
          MaxTyped       \* bound: fields typed in

OrAbsent(S) == S \cup {Absent}

Fields == {"alias", "host", "user", "passwordRef", "cert", "tls", "port", "timeoutMs"}
NumberFields == {"port", "timeoutMs"}
RawFields == {"cert"}

ASSUME TextAssumption ==
         /\ Empty \in Texts /\ Empty \notin AliasTexts /\ AliasTexts \subseteq Texts
         /\ Trim \in [Texts -> Texts] /\ Trim[Empty] = Empty
         /\ \A t \in Texts : Trim[Trim[t]] = Trim[t]
         /\ \A t \in AliasTexts : Trim[t] = t
         /\ Absent \notin Texts \cup Numbers \cup TlsModes
         /\ AutoMode \in TlsModes /\ TlsModes \cap Texts = {}

ASSUME NumberAssumption ==
         /\ Fractions \subseteq Numbers /\ Numbers \ Fractions \subseteq Int
         /\ NaN \notin Numbers
         /\ Number \in [Texts -> Numbers \cup {NaN}]
         /\ Printed \in [Numbers -> Texts]
         /\ \A n \in Numbers : Number[Printed[n]] = n /\ Trim[Printed[n]] # Empty

VARIABLES host,    \* the section, and how the plugin is deployed
          page,    \* the settings page and its form
          reply    \* how the last request, or Save, ended

formVars == <<host, page, reply>>

-----------------------------------------------------------------------------
(* An instance as the section stores it; the form holds a text per field,  *)
(* "" for a field left out -- but a mode, the select has no empty option.  *)
FieldType(f) ==
  IF f = "tls" THEN OrAbsent(TlsModes)
  ELSE IF f \in NumberFields THEN OrAbsent(Numbers)
  ELSE OrAbsent(Texts)

Instances == {i \in [Fields -> Texts \cup Numbers \cup TlsModes \cup {Absent}] :
                \A f \in Fields : i[f] \in FieldType(f)}
NoInstance == [f \in Fields |-> Absent]

Drafts == {d \in [Fields -> Texts \cup TlsModes] :
             \A f \in Fields : d[f] \in IF f = "tls" THEN TlsModes ELSE Texts}

FieldText(i, f) ==
  IF i[f] = Absent THEN IF f = "tls" THEN AutoMode ELSE Empty
  ELSE IF f \in NumberFields THEN Printed[i[f]]
  ELSE i[f]

DraftWithoutRef(i) == [f \in Fields |-> IF f = "passwordRef" THEN Empty ELSE FieldText(i, f)]

DraftFrom(i) == [f \in Fields |-> FieldText(i, f)]

(* validateDraft, over parsePort and parsePositiveInt.                     *)
IsBlank(t) == Trim[t] = Empty
WholeFrom(first, n) == n \in Numbers \ Fractions /\ first <= n

ValidDraft(d) ==
  /\ Trim[d["alias"]] \in AliasTexts
  /\ ~IsBlank(d["host"])
  /\ ~IsBlank(d["port"]) => WholeFrom(1, Number[d["port"]]) /\ Number[d["port"]] <= 65535
  /\ ~IsBlank(d["timeoutMs"]) => WholeFrom(1, Number[d["timeoutMs"]])

FieldValue(d, f) ==
  IF f = "tls" THEN d[f]
  ELSE IF IsBlank(d[f]) THEN Absent
  ELSE IF f \in NumberFields THEN Number[d[f]]
  ELSE IF f \in RawFields THEN d[f]
  ELSE Trim[d[f]]

InstanceOf(d) == [f \in Fields |-> FieldValue(d, f)]

(* NebulaInstanceSchema; validateInstanceSettings asks for less of the     *)
(* alias and more of the host.                                             *)
Schema(i) ==
  /\ i["alias"] \in AliasTexts
  /\ i["host"] # Absent
  /\ \/ i["port"] \in {Absent} \cup Fractions
     \/ WholeFrom(1, i["port"]) /\ i["port"] <= 65535
  /\ i["timeoutMs"] \in {Absent} \cup Fractions \/ WholeFrom(1, i["timeoutMs"])

Named(i, f) == i[f] # Absent /\ ~IsBlank(i[f])

Validated(i) == i = NoInstance \/ (Named(i, "alias") /\ Named(i, "host"))

Storable == {NoInstance} \cup {i \in Instances : Schema(i) /\ Validated(i)}

ASSUME FirstStoredAssumption == FirstStored \subseteq Storable

-----------------------------------------------------------------------------
(* A request as the handler sees it: the value of its Host and Origin      *)
(* headers, what is wrong with its body, and the instance it wants stored  *)
(* in the place.  stale: it names a revision that is not the stored one.   *)
Authorities == [name : Machines, port : Ports]
Entries == [name : Machines, port : Ports \cup {AnyPort}]

Methods == {"instances.get", "instances.update", "other"}

Requests == [ to        : Authorities \cup {Nothing},
              origin    : Authorities \cup {Nothing},
              crossSite : BOOLEAN,
              post      : BOOLEAN,
              method    : Methods \cup {Nothing},
              fault     : {"none", "noJSON", "noSection"},
              instance  : Instances,
              stale     : BOOLEAN ]

ASSUME RequestAssumption ==
         /\ Loopback \subseteq Machines /\ AnyPort \notin Ports
         /\ Nothing \notin Authorities /\ Nothing \notin Methods
         /\ OtherRequests \subseteq Requests
         /\ TrustedHosts \subseteq SUBSET Entries
         /\ Typed \in [Fields -> SUBSET (Texts \cup TlsModes)]
         /\ \A f \in Fields : Typed[f] \subseteq IF f = "tls" THEN TlsModes ELSE Texts
         /\ MaxTyped \in Nat

Replies == {"ok", "forbidden", "method-not-allowed", "not-found", "settings-unavailable",
            "bad-request", "rejected", "conflict"}

(* isTrustedApiRequest: the authority is loopback or trusted, and a        *)
(* browser asks from the page's own origin.                                *)
Trusted(r) ==
  /\ r.to # Nothing
  /\ \/ r.to.name \in Loopback
     \/ \E e \in host.trusted : e.name = r.to.name /\ e.port \in {AnyPort, r.to.port}
  /\ ~r.crossSite
  /\ r.origin \in {Nothing, r.to}

(* applyInstancesUpdate: validateInstanceSettings looks at the section      *)
(* first; the provider then wants a document it may write, the revision it *)
(* has, and a section of the schema.                                       *)
UpdateReply(r) ==
  IF r.fault = "noSection" \/ ~Validated(r.instance) \/ ~host.writable THEN "rejected"
  ELSE IF r.stale THEN "conflict"
  ELSE IF r.instance \notin Storable THEN "rejected"
  ELSE "ok"

(* The handler, in the order of its early returns.                         *)
Reply(r) ==
  IF ~Trusted(r) THEN "forbidden"
  ELSE IF ~r.post THEN "method-not-allowed"
  ELSE IF r.method = Nothing THEN "not-found"
  ELSE IF ~host.mounted THEN "settings-unavailable"
  ELSE IF r.fault = "noJSON" THEN "bad-request"
  ELSE IF r.method = "other" THEN "not-found"
  ELSE IF r.method = "instances.get" THEN "ok"
  ELSE UpdateReply(r)

Updates(r) == r.method = "instances.update" /\ Reply(r) = "ok"

Handle(r) ==
  /\ reply' = Reply(r)
  /\ host' = IF Updates(r) THEN [host EXCEPT !.stored = r.instance] ELSE host

-----------------------------------------------------------------------------
(* trusted is read once, when the route is registered; mounted: the loader *)
(* knows the plugin by an entry of the profile.                            *)
HostStates == [stored : Storable, writable : BOOLEAN, mounted : BOOLEAN,
               trusted : TrustedHosts]

(* seed is what the draft was made from: no instance for a new one.        *)
PageStates ==
  [ at      : Authorities,                  \* where the page was served from
    status  : {"loading", "error", "ready"},
    view    : Storable,                     \* the place as it was last read
    current : BOOLEAN,                      \* nobody has written since
    editing : BOOLEAN,
    seed    : Storable,
    draft   : Drafts,
    typed   : SUBSET Fields,                \* history: fields typed in
    typings : 0 .. MaxTyped ]

FormTypeOK ==
  /\ host \in HostStates
  /\ page \in PageStates
  /\ reply \in Replies \cup {Nothing, "invalid"}

NewPage(a) ==
  [at |-> a, status |-> "loading", view |-> NoInstance, current |-> FALSE,
   editing |-> FALSE, seed |-> NoInstance, draft |-> DraftFrom(NoInstance),
   typed |-> {}, typings |-> 0]

FormInit ==
  /\ \E i \in FirstStored, w, m \in BOOLEAN, t \in TrustedHosts :
       host = [stored |-> i, writable |-> w, mounted |-> m, trusted |-> t]
  /\ \E a \in Authorities : page = NewPage(a)
  /\ reply = Nothing

(* callInstancesApi: a POST from the page's own origin. *)
PageRequest(method, i) ==
  [to |-> page.at, origin |-> page.at, crossSite |-> FALSE, post |-> TRUE,
   method |-> method, fault |-> "none", instance |-> i, stale |-> ~page.current]

(* The page loads when it opens and again on document-updated. *)
Load ==
  LET r == PageRequest("instances.get", NoInstance)
  IN /\ Handle(r)
     /\ page' = IF Reply(r) = "ok"
                THEN [page EXCEPT !.status = "ready", !.view = host.stored, !.current = TRUE]
                ELSE [page EXCEPT !.status = "error"]

Begin(i) ==
  /\ page.status = "ready"
  /\ page' = [page EXCEPT !.editing = TRUE, !.seed = i, !.draft = DraftFrom(i), !.typed = {}]
  /\ UNCHANGED <<host, reply>>

BeginNew == host.writable /\ ~page.editing /\ Begin(NoInstance)

BeginEdit == page.view # NoInstance /\ Begin(page.view)

(* The draft left behind is never read: an editor opens with a new one. *)
Closed(p) == [p EXCEPT !.editing = FALSE, !.seed = NoInstance,
                       !.draft = DraftFrom(NoInstance), !.typed = {}]

CancelEdit ==
  /\ page.status = "ready" /\ page.editing
  /\ page' = Closed(page)
  /\ UNCHANGED <<host, reply>>

SetDraftField(f, t) ==
  /\ page.status = "ready" /\ page.editing
  /\ page.typings < MaxTyped
  /\ page' = [page EXCEPT !.draft[f] = t, !.typed = @ \cup {f}, !.typings = @ + 1]
  /\ UNCHANGED <<host, reply>>

(* The alias is that of an instance the draft does not replace. *)
AliasExists ==
  /\ page.view["alias"] # page.seed["alias"]
  /\ page.view["alias"] = Trim[page.draft["alias"]]

Savable == page.status = "ready" /\ page.editing /\ host.writable

DraftRefused ==
  /\ Savable
  /\ ~ValidDraft(page.draft) \/ AliasExists
  /\ reply' = "invalid"
  /\ UNCHANGED <<host, page>>

(* The draft replaces the instance of the alias it was seeded from, if the *)
(* page still shows one; a new one goes where there was none.              *)
Replaces == page.view["alias"] = page.seed["alias"]

SaveDraft ==
  /\ Savable
  /\ ValidDraft(page.draft) /\ ~AliasExists
  /\ LET i == IF Replaces THEN InstanceOf(page.draft) ELSE page.view
         r == PageRequest("instances.update", i)
     IN /\ Handle(r)
        /\ page' = IF Reply(r) = "ok"
                   THEN [Closed(page) EXCEPT !.view = i, !.current = TRUE]
                   ELSE page

(* Other pages, tools, and whoever edits the settings file.                *)
Elsewhere(r) ==
  /\ Handle(r)
  /\ page' = [page EXCEPT !.current = @ /\ ~Updates(r)]

FormNext ==
  \/ Load
  \/ BeginNew \/ BeginEdit \/ CancelEdit
  \/ \E f \in Fields : \E t \in Typed[f] : SetDraftField(f, t)
  \/ DraftRefused \/ SaveDraft
  \/ \E r \in OtherRequests : Elsewhere(r)

FormSpec == FormInit /\ [][FormNext]_formVars

-----------------------------------------------------------------------------
(* A field reads as the form writes it: no blanks around a text, no blank  *)
(* text.  A mode that was left out does not: the form stores it as auto.   *)
AsWritten(i, f) ==
  IF f = "tls" THEN i[f] # Absent
  ELSE \/ i[f] = Absent
       \/ f \in NumberFields
       \/ ~IsBlank(i[f]) /\ (f \in RawFields \/ Trim[i[f]] = i[f])

(* What the page lets pass, the host stores: the two grammars and the      *)
(* route's fence agree, and only a stale revision is refused.  What is     *)
(* stored the form can open and save again without changing it; and a      *)
(* field nobody typed in keeps what it said.                               *)
FormKeeps ==
  [][ SaveDraft =>
        /\ reply' = IF page.current THEN "ok" ELSE "conflict"
        /\ reply' = "ok" /\ Replaces =>
             LET i == host'.stored
             IN /\ ValidDraft(DraftFrom(i)) /\ InstanceOf(DraftFrom(i)) = i
                /\ \A f \in Fields \ page.typed :
                     AsWritten(page.seed, f) => i[f] = page.seed[f] ]_formVars
=============================================================================
