------------------------------- MODULE Startup -------------------------------
(***************************************************************************)
(* The process with its port mapper (src/src/nfs/mod.rs, portmap.rs):      *)
(* start spawns the task that fills the table, the two listeners of port   *)
(* 111 and those of the services in the table, and waits for none of them. *)
(* Requests are answered from the table before it is filled and after, and *)
(* the end of the process drops the table with the tasks.                  *)
(***************************************************************************)
EXTENDS Service

CONSTANTS
    Program,    \* u32s that requests ask about ...
    Version,
    Protocol,
    NoReply     \* the request is dropped

ASSUME ConstantsAssumption ==
    /\ Program \subseteq SUBSET (0..31)
    /\ Version \subseteq SUBSET (0..31)
    /\ Protocol \subseteq SUBSET (0..31)

VARIABLES
    mappings,   \* the table of the port mapper
    reply       \* its last answer

portmap == <<mappings, reply>>

P == INSTANCE Portmap

\* One invariant for the process and the port mapper in it: the table only
\* exists while a started server does.
ProcessTypeOK ==
    /\ TypeOK
    /\ P!TypeOK
    /\ mappings # {} => server = "started" /\ pc # "done"

StartupInit == Init /\ P!Init

-----------------------------------------------------------------------------

\* A step of the process.  Its end takes the table along.
ProcessStep ==
    /\ Next
    /\ IF pc' = "done" THEN mappings' = {} /\ reply' = NoReply ELSE UNCHANGED portmap

\* The task that PortmapServer::new spawns, at any time after the start.
FillTable ==
    /\ server = "started" /\ pc # "done"
    /\ P!InitializeMappings
    /\ UNCHANGED vars

\* A request reaches a listener of port 111 that is bound.
PortmapRequest ==
    /\ \E l \in {"portmap_tcp", "portmap_udp"} : socket[l] = "bound"
    /\ P!Request
    /\ UNCHANGED vars

StartupNext == ProcessStep \/ FillTable \/ PortmapRequest

\* The main thread goes on whenever it can; nothing is asked of the tasks.
StartupSpec ==
    /\ StartupInit
    /\ [][StartupNext]_<<vars, portmap>>
    /\ WF_<<vars, portmap>>(Main /\ ProcessStep)

-----------------------------------------------------------------------------

\* "not found, returning 0", of the port mapper in the process: before its table
\* is filled and after, a port is only told of what is registered, of the very
\* triple that was named if its version and protocol fit in the key.
OnlyRegisteredFound == P!OnlyRegisteredFound
=============================================================================
