--------------------------- MODULE MCIndexPublish ---------------------------
(* Small instances of IndexPublish for TLC.  The constants of the module are *)
(* those of S3; Local is the same module for one machine.  A behaviour is    *)
(* about one of the two storages, chosen at the start.                       *)
EXTENDS IndexPublish

CONSTANTS LocalWorkers, LocalCallers

VARIABLE storage

\* Lambda: every builder has a container, and its /tmp, of its own.
OwnSites == Builders
OwnSite == [b \in Builders |-> b]

\* Local: all builders of the one build process share <root>/staging.
Local == INSTANCE IndexPublish WITH
    Workers <- LocalWorkers,
    Callers <- LocalCallers,
    Sites   <- {"staging"},
    Site    <- [b \in LocalWorkers \cup LocalCallers |-> "staging"],
    OnS3    <- FALSE

MCInit ==
    \/ storage = "s3" /\ Init
    \/ storage = "local" /\ Local!Init

MCNext ==
    /\ UNCHANGED storage
    /\ \/ storage = "s3" /\ Next
       \/ storage = "local" /\ Local!Next

MCSpec == MCInit /\ [][MCNext]_<<storage, vars>>

\* The type invariant of the storage the behaviour is about; the other
\* properties do not depend on who builds where.
TypesOK == IF storage = "s3" THEN TypeOK ELSE Local!TypeOK
=============================================================================
