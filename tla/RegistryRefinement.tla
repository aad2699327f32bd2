------------------------ MODULE RegistryRefinement --------------------------
(***************************************************************************)
(* PluginRegistry implements AbstractRegistry. The current configuration   *)
(* is that of the runtime in the slot; a failed or dropped slot has none.  *)
(* Runtimes, their owners, Redis, the loaders and the watcher are hidden.  *)
(***************************************************************************)
EXTENDS PluginRegistry

Current == IF slot \in Runtime THEN built[slot] ELSE Failed

Unpinned ==
    [c \in Call |-> [phase |-> call[c].phase, op |-> call[c].op,
                     doc |-> call[c].doc, ran |-> call[c].ran]]

Abstract == INSTANCE AbstractRegistry WITH
    Configuration <- Buildable \cup {NoDoc},
    Default       <- NoDoc,
    Unavailable   <- Failed,
    current       <- Current,
    call          <- Unpinned

\* The handlers see a registry in which a configuration becomes current in one
\* step and a call keeps the one it began with, whatever loads, failures,
\* manual reloads, drops and shutdowns go on (current, before, after).
Implements == Abstract!Spec

\* And every call that began ends, as long as hooks and backends return: no
\* reload, failed load or dropped handle leaves a call stuck (before, after).
ImplementsFairly == Abstract!FairSpec

=============================================================================
