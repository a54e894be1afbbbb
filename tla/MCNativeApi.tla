---------------------------- MODULE MCNativeApi ----------------------------
(* One process, or two that share a data directory. *)
EXTENDS NativeApi, TLC

CONSTANTS app, share, main, main2, other, k1, k2, k3

OneProcess == {app}
TwoProcesses == {app, share}
OneHome == (main :> app) @@ (other :> app) @@ (main2 :> app)
HostAndOther == [th \in {main, other} |-> OneHome[th]]
TwoHosts == [th \in {main, main2} |-> OneHome[th]]
TwoHomes == (main :> app) @@ (other :> share)
MainOnly == {main}
Both == {main, other}
Mains == {main, main2}
AllKeys == {k1, k2, k3}
NewDevice == {"absent"}
OldDevice == {"absent", k1}
============================================================================
