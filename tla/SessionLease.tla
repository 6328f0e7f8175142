---------------------------- MODULE SessionLease ----------------------------
(***************************************************************************)
(* What the connection registry promises its callers, with no transport,   *)
(* password or server in sight: a handle is leased at most once, a leased  *)
(* handle is returned at most once, a returned handle never works again,   *)
(* and no more than Capacity handles are out at a time.                    *)
(***************************************************************************)
EXTENDS Naturals, FiniteSets

CONSTANTS Handles,   \* the handles that may ever be asked for
          Capacity   \* how many may be out at once, a positive number

VARIABLE lease       \* lease[h]: what has become of handle h

Leased == {h \in Handles : lease[h] = "held"}

LeaseTypeOK == lease \in [Handles -> {"asked", "refused", "held", "returned"}]

LeaseInit == lease = [h \in Handles |-> "asked"]

(* The request for h is turned down. *)
Refuse(h) ==
  /\ lease[h] = "asked"
  /\ lease' = [lease EXCEPT ![h] = "refused"]

(* h goes out, which it may only while there is room for it. *)
Grant(h) ==
  /\ lease[h] = "asked"
  /\ Cardinality(Leased) < Capacity
  /\ lease' = [lease EXCEPT ![h] = "held"]

(* A set of handles comes back at once: one on disconnect, all on unload. *)
Return(H) ==
  /\ H \subseteq Leased
  /\ lease' = [h \in Handles |-> IF h \in H THEN "returned" ELSE lease[h]]

LeaseNext ==
  \/ \E h \in Handles : Refuse(h) \/ Grant(h)
  \/ \E H \in SUBSET Handles : Return(H)

LeaseSpec == LeaseInit /\ [][LeaseNext]_lease

=============================================================================
