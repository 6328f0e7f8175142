--------------------------- MODULE CredentialStore ---------------------------
(***************************************************************************)
(* The passwords the plugin only knows by reference: the DSH credentials   *)
(* document and the process environment.  Both belong to the host; the     *)
(* settings page writes the document through the credentials remote, and   *)
(* nebula_connect reads it when it resolves a passwordRef.                 *)
(***************************************************************************)
EXTENDS Naturals, Sequences

CONSTANTS Refs,       \* credential references
          Values,     \* password values
          NoValue,    \* the document has no value for a reference
          Ambient,    \* references the environment has a value for
          MaxWrites   \* bound: writes to the document

ASSUME StoreAssumption == NoValue \notin Values /\ Ambient \subseteq Refs /\ MaxWrites \in Nat

VARIABLE log   \* the document after each write to it

Documents == [Refs -> Values \cup {NoValue}]

Version == Len(log)

StoreTypeOK == log \in Seq(Documents) /\ Version \in 1 .. (MaxWrites + 1)

StoreInit == log = <<[r \in Refs |-> NoValue]>>

(* One value set, or unset with NoValue. *)
Write(r, v) == log' = Append(log, [log[Version] EXCEPT ![r] = v])
=============================================================================
