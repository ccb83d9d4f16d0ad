------------------------------ MODULE PidFile -------------------------------
(***************************************************************************)
(* Several server processes that are started with the same configuration:  *)
(* load_server, clear_pid_file, attempt_chroot_drop and the end of         *)
(* complete_shutdown of src/mongrel2.c, over src/unixy.c.  They share the  *)
(* port and the PID file.  A process that fails to start exits, which      *)
(* frees the port and leaves the file.                                     *)
(***************************************************************************)
EXTENDS Null, Integers

CONSTANT Procs   \* the processes, by PID

ASSUME PidAssumption == NULL \notin Procs

VARIABLES
    proc,       \* [Procs -> where the process is]
    seen,       \* [Procs -> the PID that the process has read from the file]
    port,       \* the process that listens, or NULL
    pidfile,    \* the PID in the file, or NULL when there is no file
    chrooted,   \* chroot worked; otherwise the server runs in test mode
    reloaded    \* processes that have reloaded their configuration

pidvars == <<proc, seen, port, pidfile, chrooted, reloaded>>

PidInit ==
    /\ proc = [p \in Procs |-> "new"]
    /\ seen = [p \in Procs |-> NULL]
    /\ port = NULL
    /\ pidfile = NULL
    /\ chrooted \in BOOLEAN
    /\ reloaded = {}

At(p, pc) == proc' = [proc EXCEPT ![p] = pc]
Alive(p) == proc[p] \notin {"new", "exited", "dead"}

(* A process is gone without any cleanup: check failed in taskmain, or it was killed. *)
Die(p) ==
    /\ At(p, "dead")
    /\ port' = IF port = p THEN NULL ELSE port
    /\ UNCHANGED <<seen, pidfile, chrooted, reloaded>>

(* load_server announces the port, or cannot. *)
load_server(p) ==
    /\ proc[p] = "new"
    /\ IF port # NULL THEN Die(p)
       ELSE At(p, "loaded") /\ port' = p /\ UNCHANGED <<seen, pidfile, chrooted, reloaded>>

(* Unixy_pid_read; without a file there is nothing to remove. *)
Unixy_pid_read(p) ==
    /\ proc[p] = "loaded"
    /\ seen' = [seen EXCEPT ![p] = pidfile]
    /\ At(p, IF pidfile = NULL THEN "cleared" ELSE "read")
    /\ UNCHANGED <<port, pidfile, chrooted, reloaded>>

(* mutant: nobody asks whether the process is still there *)
Unixy_still_running_Never(p) == FALSE

Unixy_still_running(p) == Alive(seen[p])

(* The rest of Unixy_remove_dead_pidfile: unlink fails if the file is gone by now. *)
Unixy_remove_dead_pidfile(p) ==
    /\ proc[p] = "read"
    /\ IF Unixy_still_running(p) \/ pidfile = NULL THEN Die(p)
       ELSE At(p, "cleared") /\ pidfile' = NULL /\ UNCHANGED <<seen, port, chrooted, reloaded>>

clear_pid_file(p) == Unixy_pid_read(p) \/ Unixy_remove_dead_pidfile(p)

(* Where chroot fails the server goes on in test mode. *)
Unixy_chroot(p) ==
    /\ proc[p] = "cleared"
    /\ At(p, IF chrooted THEN "jailed" ELSE "test")
    /\ UNCHANGED <<seen, port, pidfile, chrooted, reloaded>>

(* After Unixy_chroot, and Unixy_daemonize in the jail. *)
Unixy_pid_file(p) ==
    /\ proc[p] \in {"jailed", "test"}
    /\ IF pidfile # NULL THEN Die(p)
       ELSE /\ At(p, IF proc[p] = "jailed" THEN "written" ELSE "serving")
            /\ pidfile' = p
            /\ UNCHANGED <<seen, port, chrooted, reloaded>>

(* The end of attempt_chroot_drop; a process that fails here leaves the file. *)
Unixy_drop_priv(p) ==
    /\ proc[p] = "written"
    /\ At(p, "serving")
    /\ UNCHANGED <<seen, port, pidfile, chrooted, reloaded>>

(* A check that fails anywhere in it ends the process: Die. *)
attempt_chroot_drop(p) == Unixy_chroot(p) \/ Unixy_pid_file(p) \/ Unixy_drop_priv(p)

(* reload_server: the new Server has the path of the configuration, not the local one *)
(* that attempt_chroot_drop made in test mode.                                        *)
reload_path(p) ==
    /\ proc[p] = "serving"
    /\ reloaded' = reloaded \cup {p}
    /\ UNCHANGED <<proc, seen, port, pidfile, chrooted>>

(* terminate closes the listening socket; the process waits for its connections. *)
StopListening(p) ==
    /\ proc[p] = "serving"
    /\ At(p, "draining")
    /\ port' = NULL
    /\ UNCHANGED <<seen, pidfile, chrooted, reloaded>>

(* The end of complete_shutdown: unlink is of no effect with the wrong path. *)
RemovesFile(p) == chrooted \/ p \notin reloaded

Unlink(p) ==
    /\ proc[p] = "draining"
    /\ At(p, "exited")
    /\ pidfile' = IF RemovesFile(p) THEN NULL ELSE pidfile
    /\ UNCHANGED <<seen, port, chrooted, reloaded>>

PidNext ==
    \E p \in Procs :
        \/ load_server(p) \/ clear_pid_file(p) \/ attempt_chroot_drop(p)
        \/ reload_path(p) \/ StopListening(p) \/ Unlink(p)
        \/ Alive(p) /\ Die(p)

PidSpec == PidInit /\ [][PidNext]_pidvars

-----------------------------------------------------------------------------
(* Whatever crashes, and however starts and stops overlap, the PID file names the process *)
(* that serves, until that process has exited: m2sh sends its signals to it.              *)
PidFileNamesTheServer ==
    \A p \in Procs : proc[p] \in {"written", "serving", "draining"} => pidfile = p

(* complete_shutdown removes the file.  (In test mode a reload makes it forget where.) *)
CleanExitRemovesFile ==
    \A p \in Procs : proc[p] = "exited" /\ (chrooted \/ p \notin reloaded) => pidfile # p

(***************************************************************************)
(* unixy.c, mongrel2.c: through crashes and overlapping starts and stops   *)
(* the file names the server that is running, and a clean exit removes it. *)
(***************************************************************************)
PidFileTellsTheServer ==
    /\ PidFileNamesTheServer /\ CleanExitRemovesFile
=============================================================================
