-------------------------- MODULE CredentialsPanel --------------------------
(***************************************************************************)
(* CredentialsPanel of the settings page: one row per managed reference,   *)
(* with a flag that says whether the document has a value, a field to type *)
(* one, and buttons to save, clear and remove.  The page never sees a      *)
(* value; it asks the host to describe its references when it opens, when  *)
(* its rows change and when the host says that a reference was updated.    *)
(* Answers and replies may overtake each other.  When the page cannot read *)
(* its settings it shows no panel: what was typed and shown goes with it,  *)
(* and what it had posted is answered to nobody.                           *)
(***************************************************************************)
EXTENDS CredentialStore, FiniteSets

CONSTANTS Permits,  \* what a deployment may let the page write, to consider
          Addable   \* references to consider adding

VARIABLES permits,  \* what it does: the settings, and which references
          open,     \* the page shows the panel
          rows,     \* the references the panel lists
          shown,    \* per reference: the flag shown
          asks,     \* describe calls under way, by the version asked at
          ops,      \* set and unset calls under way
          drafts    \* per reference: the value typed

panelVars == <<permits, open, rows, shown, asks, ops, drafts>>

-----------------------------------------------------------------------------
Versions == 1 .. (MaxWrites + 1)

Shown == [ flag      : {"unknown", "configured", "missing"},
           newest    : {0} \cup Versions,   \* history: newest version shown so far
           disturbed : BOOLEAN ]            \* history: a describe failed, or an older
                                            \* answer came after a newer one

(* made: the version the call wrote, 0 before the host handled it.         *)
(* here: the panel that posted it is the one that is open.                 *)
Ops == [ref : Refs, kind : {"save", "clear", "remove"}, value : Values \cup {NoValue},
        made : {0} \cup Versions, here : BOOLEAN]

PermitType == [settings : BOOLEAN, refs : SUBSET Refs]

ASSUME PermitAssumption == Permits \subseteq PermitType /\ Addable \subseteq Refs

PanelTypeOK ==
  /\ permits \in Permits
  /\ open \in BOOLEAN
  /\ rows \subseteq Refs
  /\ shown \in [Refs -> Shown]
  /\ asks \subseteq Versions
  /\ ops \subseteq Ops
  /\ drafts \in Documents

(* The state hooks of a panel as it mounts. *)
Unseen == [flag |-> "unknown", newest |-> 0, disturbed |-> FALSE]

PanelInit(R) ==
  /\ permits \in Permits
  /\ open = TRUE
  /\ rows = R
  /\ shown = [r \in Refs |-> Unseen]
  /\ asks = {1}
  /\ ops = {}
  /\ drafts = [r \in Refs |-> NoValue]

Newer(m, n) == IF m < n THEN n ELSE m

(* A flag for r as of version n. *)
Flagged(r, flag, n) ==
  [flag |-> flag, newest |-> Newer(shown[r].newest, n), disturbed |-> n < shown[r].newest]

FlagAt(r, n) == IF log[n][r] = NoValue THEN "missing" ELSE "configured"

(* A reference not described yet is taken for one that may be written. *)
Writable(r) == permits.settings /\ (shown[r].flag = "unknown" \/ r \in permits.refs)

Busy(r) == \E o \in ops : o.here /\ o.ref = r /\ o.kind # "remove"

(* The panel's subscription has it ask again when a value was written.     *)
AsksAgain == IF open THEN asks \cup {Version + 1} ELSE asks

(* Users stop when the bound on writes is reached. *)
Writing == Version + Cardinality({o \in ops : o.made = 0}) <= MaxWrites

-----------------------------------------------------------------------------
(* describeCredentials answers with the document at version n; an answer   *)
(* replaces every flag, and only listed references are asked for.          *)
DescribeArrives(m, n) ==
  /\ m \in asks /\ m <= n
  /\ asks' = asks \ {m}
  /\ shown' = [r \in Refs |-> Flagged(r, IF r \in rows THEN FlagAt(r, n) ELSE "unknown", n)]
  /\ UNCHANGED <<log, permits, open, rows, ops, drafts>>

(* A describe that fails is answered with an empty list by the page's own  *)
(* remote wrapper, so every flag is forgotten.                             *)
DescribeFails(m) ==
  /\ m \in asks
  /\ asks' = asks \ {m}
  /\ shown' = [r \in Refs |-> [flag |-> "unknown", newest |-> Newer(shown[r].newest, m),
                               disturbed |-> TRUE]]
  /\ UNCHANGED <<log, permits, open, rows, ops, drafts>>

(* The section the page shows lists other references now: answers to the   *)
(* describes under way are ignored and the new list is asked for.          *)
Relist(R) ==
  /\ open /\ rows # R
  /\ rows' = R
  /\ asks' = {Version}
  /\ UNCHANGED <<log, permits, open, shown, ops, drafts>>

(* A reload of the section failed: the page shows the error and no panel.  *)
Unmount ==
  /\ open
  /\ open' = FALSE
  /\ rows' = {}
  /\ shown' = [r \in Refs |-> Unseen]
  /\ asks' = {}
  /\ ops' = {[o EXCEPT !.here = FALSE] : o \in ops}
  /\ drafts' = [r \in Refs |-> NoValue]
  /\ UNCHANGED <<log, permits>>

(* The section was read after all: the page shows a panel, a new one.      *)
Mount(R) ==
  /\ ~open
  /\ open' = TRUE
  /\ rows' = R
  /\ asks' = {Version}
  /\ UNCHANGED <<log, permits, shown, ops, drafts>>

-----------------------------------------------------------------------------
TypeAnytime(r, v) ==
  /\ r \in rows /\ Writable(r)
  /\ drafts' = [drafts EXCEPT ![r] = v]
  /\ UNCHANGED <<log, permits, open, rows, shown, asks, ops>>

Type(r, v) ==
  /\ r \in rows /\ Writable(r) /\ ~Busy(r)
  /\ drafts' = [drafts EXCEPT ![r] = v]
  /\ UNCHANGED <<log, permits, open, rows, shown, asks, ops>>

Post(r, kind, value) ==
  /\ Writing
  /\ ops' = ops \cup {[ref |-> r, kind |-> kind, value |-> value, made |-> 0,
                       here |-> TRUE]}
  /\ UNCHANGED <<log, permits, open, rows, shown, asks, drafts>>

Save(r) ==
  /\ r \in rows /\ Writable(r) /\ ~Busy(r) /\ drafts[r] # NoValue
  /\ Post(r, "save", drafts[r])

Clear(r) ==
  /\ r \in rows /\ Writable(r) /\ ~Busy(r) /\ shown[r].flag = "configured"
  /\ Post(r, "clear", NoValue)

(* Removing an extra reference clears its value first; that does not make  *)
(* the row busy, and is offered for settings that cannot be written too.   *)
Remove(r, extras) ==
  /\ r \in rows \cap extras /\ ~Busy(r)
  /\ Post(r, "remove", NoValue)

-----------------------------------------------------------------------------
(* The host sets or unsets a value and says so, to every page. *)
HostWritesQuietly(o) ==
  /\ o.made = 0 /\ o.ref \in permits.refs
  /\ Write(o.ref, o.value)
  /\ ops' = (ops \ {o}) \cup {[o EXCEPT !.made = Version + 1]}
  /\ UNCHANGED <<permits, open, rows, shown, asks, drafts>>

HostWrites(o) ==
  /\ o.made = 0 /\ o.ref \in permits.refs
  /\ Write(o.ref, o.value)
  /\ ops' = (ops \ {o}) \cup {[o EXCEPT !.made = Version + 1]}
  /\ asks' = AsksAgain
  /\ UNCHANGED <<permits, open, rows, shown, drafts>>

(* Another page, or the user's editor, writes the document. *)
ElsewhereWrites(r, v) ==
  /\ Writing
  /\ Write(r, v)
  /\ asks' = AsksAgain
  /\ UNCHANGED <<permits, open, rows, shown, ops, drafts>>

(* The call returns ok.  A removal leaves the flag to the next describe,   *)
(* and a panel that is gone has neither flags nor fields.                  *)
FlagAfter(kind) == IF kind = "save" THEN "configured" ELSE "missing"

OpReturns(o) ==
  /\ o.made # 0
  /\ ops' = ops \ {o}
  /\ shown' = IF o.here /\ o.kind # "remove"
              THEN [shown EXCEPT ![o.ref] = Flagged(o.ref, FlagAfter(o.kind), o.made)] ELSE shown
  /\ drafts' = IF o.here /\ o.kind = "save" THEN [drafts EXCEPT ![o.ref] = NoValue] ELSE drafts
  /\ UNCHANGED <<log, permits, open, rows, asks>>

(* The host refuses, or the call or its reply is lost: the draft stays.    *)
OpFails(o) ==
  /\ ops' = ops \ {o}
  /\ UNCHANGED <<log, permits, open, rows, shown, asks, drafts>>

PanelNext(extras) ==
  \/ \E m, n \in 1 .. Version : DescribeArrives(m, n)
  \/ \E m \in 1 .. Version : DescribeFails(m)
  \/ \E r \in Refs, v \in Values : Type(r, v)
  \/ \E r \in Refs : Save(r) \/ Clear(r) \/ Remove(r, extras)
  \/ \E o \in ops : HostWrites(o) \/ OpFails(o)
  \/ \E r \in Refs, v \in Values \cup {NoValue} : ElsewhereWrites(r, v)

-----------------------------------------------------------------------------
(* Unless a describe is under way, a listed row says whether the document  *)
(* has a value -- whichever page wrote it, in whatever order answers and   *)
(* replies came -- or a describe failed or an older answer came last.      *)
FlagsCatchUp ==
  \A r \in rows :
    \/ asks # {}
    \/ shown[r].disturbed
    \/ shown[r].flag = FlagAt(r, Version)

(* A typed password leaves its field only once the document has had it --  *)
(* no reply to another panel's save empties it -- or together with the     *)
(* whole panel, when a reload of the section fails.                        *)
DraftsKept ==
  [][\A r \in Refs :
       drafts[r] # NoValue /\ drafts'[r] = NoValue =>
         \/ open /\ ~open'
         \/ \E n \in 1 .. Version : log[n][r] = drafts[r]]_<<log, panelVars>>
=============================================================================
