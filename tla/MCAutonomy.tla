----------------------------- MODULE MCAutonomy -----------------------------
(* Instances of Autonomy for TLC. *)
EXTENDS Autonomy, TLC

CONSTANTS c1, c2, r1, r2, i1, i2

Mail(force, role) == [type |-> "send_email", channel |-> "email", role |-> role, force |-> force]
MCSensitiveRoles == {"lawyer"}
MCTaggedRoles == {"pets"}

\* One request is enough for the questions about decisions.
MCOneRequest == {Mail(FALSE, "support")}

Row(mode, actions, channels, owner) ==
  [mode |-> mode, actions |-> actions, channels |-> channels, owner |-> owner]
MCSemiRows == {Row("off", {}, {}, TRUE), Row("semi", {}, {}, TRUE)}
=============================================================================
