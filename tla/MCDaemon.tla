------------------------------ MODULE MCDaemon ------------------------------
(* One daemon of each kind, all with the same LOCKFILE.                    *)
EXTENDS Daemon, TLC

OneOfEach == ("d1" :> "handler") @@ ("d2" :> "thread") @@ ("d3" :> "singleton")
=============================================================================
