-------------------------- MODULE MCProcessStarter --------------------------
EXTENDS MCCpusetController, ProcessStarter

\* One container that waits for exclusive CPUs with their siblings and a shared one.
MixedContainer == (p1 :> <<(Exclusive :> 1) @@ (Shared :> 1)>>)
=============================================================================
