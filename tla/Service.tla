------------------------------- MODULE Service -------------------------------
(***************************************************************************)
(* The life of the process: service_main under the Windows service manager *)
(* (src/src/service.rs) or main in the foreground (src/src/main.rs), the   *)
(* task that runs NfsServer::start (src/src/nfs/mod.rs), and the sockets   *)
(* that the tasks it spawns bind.  Stop requests come at any time.         *)
(***************************************************************************)
EXTENDS Naturals

VARIABLES
    mode,       \* "service" or "foreground"
    tls,        \* [tls] of the configuration: off, complete, incomplete, unloadable
    enableUdp,  \* enable_udp
    pc,         \* the main thread: what it does next
    scm,        \* the last state reported to the service manager
    stopSent,   \* a stop request is in the channel (Ctrl-C in the foreground)
    exports,    \* the exports are loaded
    server,     \* the task that runs NfsServer::start
    socket      \* what each listener's task came to

vars == <<mode, tls, enableUdp, pc, scm, stopSent, exports, server, socket>>
config == <<mode, tls, enableUdp>>

Listener == {"portmap_tcp", "portmap_udp", "mount_tcp", "mount_udp", "nfs_tcp", "nfs_udp"}

TypeOK ==
    /\ mode \in {"service", "foreground"}
    /\ tls \in {"off", "complete", "incomplete", "unloadable"}
    /\ enableUdp \in BOOLEAN
    /\ pc \in {"register", "config", "runtime", "exports", "spawn", "wait", "stop", "done"}
    /\ scm \in {"none", "StartPending", "Running", "StopPending", "Stopped"}
    /\ stopSent \in BOOLEAN /\ exports \in BOOLEAN
    /\ server \in {"none", "starting", "started", "failed", "aborted"}
    /\ socket \in [Listener -> {"none", "bound", "failed"}]
    /\ server # "started" => \A l \in Listener : socket[l] = "none"

Init ==
    /\ mode \in {"service", "foreground"}
    /\ tls \in {"off", "complete", "incomplete", "unloadable"}
    /\ enableUdp \in BOOLEAN
    /\ pc = IF mode = "service" THEN "register" ELSE "config"
    /\ scm = "none"
    /\ stopSent = FALSE
    /\ exports = FALSE
    /\ server = "none"
    /\ socket = [l \in Listener |-> "none"]

-----------------------------------------------------------------------------
(* The main thread.                                                        *)

Go(from, to) ==
    /\ pc = from
    /\ pc' = to
    /\ UNCHANGED <<config, stopSent>>

\* report_status; in the foreground there is no service manager.
Report(state) == scm' = IF mode = "service" THEN state ELSE scm

Quiet == UNCHANGED <<exports, server, socket>>

\* The handler is registered and the start reported; or it cannot be, and
\* nothing is ever reported.
Register ==
    \/ Go("register", "config") /\ Report("StartPending") /\ Quiet
    \/ Go("register", "done") /\ UNCHANGED scm /\ Quiet

\* The configuration is read and the log set up.  RUNNING is reported here.
LoadConfig ==
    \/ Go("config", IF mode = "service" THEN "runtime" ELSE "exports") /\ Report("Running") /\ Quiet
    \/ Go("config", "done") /\ Report("Stopped") /\ Quiet

MakeRuntime ==
    \/ Go("runtime", "exports") /\ UNCHANGED scm /\ Quiet
    \/ Go("runtime", "done") /\ Report("Stopped") /\ Quiet

\* A service goes on without exports when they cannot be loaded.
LoadExports ==
    \/ Go("exports", "spawn") /\ exports' = TRUE /\ UNCHANGED <<scm, server, socket>>
    \/ mode = "service" /\ Go("exports", "spawn") /\ UNCHANGED scm /\ Quiet
    \/ mode = "foreground" /\ Go("exports", "done") /\ UNCHANGED scm /\ Quiet

SpawnServer ==
    /\ Go("spawn", "wait")
    /\ server' = "starting"
    /\ UNCHANGED <<scm, exports, socket>>

StopOnceStarted ==
    \/ /\ stopSent /\ server = "started"
       /\ Go("wait", "stop")
       /\ Report("StopPending")
       /\ Quiet
    \/ stopSent /\ server # "started" /\ UNCHANGED vars

\* The stop request is taken from the channel.  A service aborts the server
\* task: that ends start, if it still runs, but none of the tasks it spawned.
Stop ==
    /\ stopSent
    /\ Go("wait", "stop")
    /\ Report("StopPending")
    /\ server' = IF mode = "service" /\ server = "starting" THEN "aborted" ELSE server
    /\ UNCHANGED <<exports, socket>>

ShutdownLeavesTasks ==
    /\ Go("stop", "done")
    /\ Report("Stopped")
    /\ UNCHANGED <<exports, server, socket>>

\* The runtime is shut down, and every task that still runs is dropped with it.
\* (A task that blocks in the file system for longer than the 5 s allowed is
\* left behind; the process ends next.)
Shutdown ==
    /\ Go("stop", "done")
    /\ Report("Stopped")
    /\ socket' = [l \in Listener |-> "none"]
    /\ UNCHANGED <<exports, server>>

Main ==
    \/ Register \/ LoadConfig \/ MakeRuntime \/ LoadExports \/ SpawnServer
    \/ Stop \/ Shutdown

-----------------------------------------------------------------------------

\* The service manager sends Stop or Shutdown to a service that accepts them: it
\* may still be starting.  Before it waits for Ctrl-C, Ctrl-C ends the process.
RequestStopService ==
    /\ ~stopSent
    /\ mode = "service" /\ scm \in {"StartPending", "Running"} /\ pc # "done"
    /\ stopSent' = TRUE
    /\ UNCHANGED <<config, pc, scm, exports, server, socket>>

CtrlC ==
    /\ ~stopSent
    /\ mode = "foreground" /\ pc # "done"
    /\ stopSent' = TRUE
    /\ pc' = IF pc = "wait" THEN pc ELSE "done"
    /\ UNCHANGED <<config, scm, exports, server, socket>>

\* NfsServer::start: the certificate is loaded, all tasks are spawned, and the
\* start is logged as successful.  With TLS on and no certificate it fails.
Start ==
    /\ server = "starting" /\ pc \in {"wait", "stop"}
    /\ server' = IF tls \in {"incomplete", "unloadable"} THEN "failed" ELSE "started"
    /\ UNCHANGED <<config, pc, scm, stopSent, exports, socket>>

BindBeforeCertificate(l) ==
    /\ server \in {"starting", "started"} /\ pc \in {"wait", "stop"}
    /\ socket[l] = "none"
    /\ \E s \in {"bound", "failed"} : socket' = [socket EXCEPT ![l] = s]
    /\ UNCHANGED <<config, pc, scm, stopSent, exports, server>>

\* One listener's task binds its port, or fails and ends.  On port 2049 the TCP
\* socket is bound after the UDP one, and not at all when that failed.
Bind(l) ==
    /\ server = "started" /\ pc \in {"wait", "stop"}
    /\ socket[l] = "none"
    /\ l = "nfs_udp" => enableUdp
    /\ l = "nfs_tcp" => ~enableUdp \/ socket["nfs_udp"] = "bound"
    /\ \E s \in {"bound", "failed"} : socket' = [socket EXCEPT ![l] = s]
    /\ UNCHANGED <<config, pc, scm, stopSent, exports, server>>

\* The process has ended.
Ended == pc = "done" /\ UNCHANGED vars

Next ==
    \/ Main
    \/ RequestStopService \/ CtrlC
    \/ Start
    \/ \E l \in Listener : Bind(l)
    \/ Ended

-----------------------------------------------------------------------------

\* When the end of the service is reported nothing listens any more, however
\* far the start had come: aborting the start alone would not do that.
StoppedIsQuiet == pc = "done" => \A l \in Listener : socket[l] # "bound"

\* A stop that was accepted, at whatever point of the start, ends the process.
StopEndsIt == stopSent ~> (pc = "done")
=============================================================================
