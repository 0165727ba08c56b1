----------------------------- MODULE MCCredPool -----------------------------
(* Instances of CredPool for TLC: growers, cookie settings, events. *)
EXTENDS CredPool

CONSTANT g1

NoGrower == {}
OneGrower == {g1}

Anonymous == {FALSE}
Either == BOOLEAN

Quiet == {}
Quota == {"quota"}
Transport == {"path", "quota", "expire"}
Rejects == {"reject"}
Drops == {"reset", "reject"}
Restarts == {"restart"}
=============================================================================
