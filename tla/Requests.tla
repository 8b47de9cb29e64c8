------------------------------ MODULE Requests ------------------------------
(***************************************************************************)
(* The requests the controls of pages and remotes make, and the bound on   *)
(* them: one of Quotas, chosen at the start.                               *)
(***************************************************************************)
EXTENDS Naturals

Acts == {"on", "off", "alter", "zero", "send", "stop"}

CONSTANT Quotas    \* bounds: by action, how many requests clients may make
ASSUME QuotasAssumption == Quotas \subseteq [Acts -> Nat]

VARIABLE quota     \* what is left of the quota

QuotaTypeOK == quota \in [Acts -> Nat]
QuotaInit   == quota \in Quotas

Use(act) == quota[act] > 0 /\ quota' = [quota EXCEPT ![act] = @ - 1]

\* For the instances.
Quota(on, off, alter, zero, send, stop) ==
  [act \in Acts |-> CASE act = "on" -> on [] act = "off" -> off [] act = "alter" -> alter
                      [] act = "zero" -> zero [] act = "send" -> send [] OTHER -> stop]
=============================================================================
