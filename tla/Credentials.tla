----------------------------- MODULE Credentials -----------------------------
(***************************************************************************)
(* A visit to the settings page.  Its credentials panel works while a      *)
(* nebula_connect call is under way, over one credentials document and one *)
(* settings section: what the panel lists, the settings decide; what it    *)
(* writes, the call may be looking up.  Or the visit is to its form.  The  *)
(* halves meet in the section only, and what a form writes is a settings   *)
(* write like any other to the panel and to the call, so a visit to the    *)
(* form starts with those two at rest and leaves them there.               *)
(***************************************************************************)
EXTENDS ConnectArguments, CredentialsPanel, InstanceForm

VARIABLE visit     \* the half in use: "panel" or "form"

vars == <<log, connectVars, panelVars, formVars, visit>>

(* The references worth managing: the instances' and the extra ones. *)
RowsFor(s) == ({s.profile[a].ref : a \in Aliases} \ {Unset, Blank}) \cup s.refs

TypeOK ==
  /\ StoreTypeOK /\ ConnectTypeOK /\ PanelTypeOK /\ FormTypeOK
  /\ visit \in {"panel", "form"}

(* The half not visited is some page, or some call, of a deployment.       *)
ASSUME VisitAssumption ==
         Configs # {} /\ Sections # {} /\ Permits # {} /\ TrustedHosts # {} /\ Authorities # {}

FormUnused ==
  /\ host = [stored |-> NoInstance, writable |-> FALSE, mounted |-> FALSE,
             trusted |-> CHOOSE t \in TrustedHosts : TRUE]
  /\ page = NewPage(CHOOSE a \in Authorities : TRUE)
  /\ reply = Nothing

PanelUnused ==
  /\ StoreInit
  /\ config = CHOOSE c \in Configs : TRUE
  /\ settings = CHOOSE s \in Sections : TRUE
  /\ edits = 0 /\ connect = Idle(settings)
  /\ PanelInit({}) /\ permits = CHOOSE p \in Permits : TRUE

Init ==
  \/ /\ visit = "panel"
     /\ StoreInit /\ ConnectInit /\ PanelInit(RowsFor(settings)) /\ FormUnused
  \/ visit = "form" /\ FormInit /\ PanelUnused

(* The section is read again: the panel is there with the rows it has now. *)
Reloaded ==
  /\ Relist(RowsFor(settings)) \/ Mount(RowsFor(settings))
  /\ UNCHANGED connectVars

(* Somebody's settings write is committed; the panel hears of it later.    *)
SettingsWritten ==
  /\ \E s \in Sections : Commit(s)
  /\ UNCHANGED <<log, panelVars>>

(* A removal that cleared its value goes on to drop the reference from the *)
(* section, which the page is answered with -- or that write fails.  It    *)
(* does so even when the panel it was asked of is gone.                    *)
Removed(o) ==
  /\ o.kind = "remove"
  /\ OpReturns(o)
  /\ \/ permits.settings /\ Commit([settings EXCEPT !.refs = @ \ {o.ref}])
     \/ UNCHANGED connectVars

(* A reference no row has is added to the section.  When that write fails, *)
(* or the reference is listed or is none, the page only says so.           *)
AddExtra(r) ==
  /\ open /\ permits.settings
  /\ r \notin rows
  /\ Commit([settings EXCEPT !.refs = @ \cup {r}])
  /\ UNCHANGED <<log, panelVars>>

Replied(o) ==
  /\ o.kind # "remove"
  /\ OpReturns(o)
  /\ UNCHANGED connectVars

PanelVisit ==
  \/ ConnectNext /\ UNCHANGED <<log, panelVars>>
  \/ PanelNext(settings.refs) /\ UNCHANGED connectVars
  \/ Reloaded
  \/ Unmount /\ UNCHANGED connectVars
  \/ SettingsWritten
  \/ \E r \in Addable : AddExtra(r)
  \/ \E o \in ops : Removed(o) \/ Replied(o)

Next ==
  \/ visit = "panel" /\ PanelVisit /\ UNCHANGED <<formVars, visit>>
  \/ visit = "form" /\ FormNext /\ UNCHANGED <<log, connectVars, panelVars, visit>>

Spec == Init /\ [][Next]_vars
=============================================================================
