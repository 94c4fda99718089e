-------------------------------- MODULE Daemon --------------------------------
(***************************************************************************)
(* cmd/mount.go: `kubefs mount' starts itself again in the background and  *)
(* waits for one message on a pipe; the process that serves the mount      *)
(* reports on the pipe, then waits for signals or for the unmount.  With   *)
(* it Mount, Unmount and Wait of internal/nfsmount/server.go.              *)
(*                                                                         *)
(* With -f there is no parent: the process started is the one that serves. *)
(* The mount command of the NFS transport is a process of its own and      *)
(* inherits the pipe, which daemonize passed on as descriptor 3.           *)
(*                                                                         *)
(* External: mount, umount and the kernel's mount table; signals; whoever  *)
(* kills a process or unmounts by hand; go-fuse, whose Mount mounts within *)
(* the process, whose Wait ends once the file system is unmounted.         *)
(***************************************************************************)
EXTENDS Naturals

CONSTANT MaxSignals    \* model bound: signals sent to the server

ASSUME DaemonAssumption == MaxSignals \in Nat

VARIABLES
    transport,  \* what resolveTransport says
    parent,     \* the process that daemonizes: where it is, or how it ended
    pipe,       \* the text in the status pipe
    server,     \* the process that mounts: where its main goroutine is
    exit,       \* how that process ended
    mounter,    \* the mount command, or the answer Mount has from it
    mounted,    \* the kernel's mount table has the mount
    handler,    \* the goroutine that takes signals
    sigs,       \* signals in sigCh, which has room for one
    sent,       \* signals sent so far
    served      \* history: the mount succeeded

procs == <<parent, server, exit, handler>>
vars  == <<transport, parent, pipe, server, exit, mounter, mounted, handler,
           sigs, sent, served>>

ParentEnds == {"success", "failure", "killed"}

Alive == server \notin {"none", "ended"}
Ended == server = "ended"

-----------------------------------------------------------------------------
\* The parent.

ParentGoes(from, to) ==
    /\ parent = from
    /\ parent' = to
    /\ UNCHANGED <<transport, exit, mounter, mounted, handler, sigs, sent, served>>

\* The verbs, the client, a first request to the cluster; then, in daemonize,
\* the path of the program, a pipe, a log file, Start.
ParentFails == ParentGoes("starting", "failure") /\ UNCHANGED <<pipe, server>>

ParentStartsChild ==
    /\ ParentGoes("starting", "started")
    /\ server' = "starting"
    /\ UNCHANGED pipe

\* fault: the parent reads with its own write end open
SeededWriteEndOpen ==
    \/ parent # "none"
    \/ server \in {"starting", "mounting", "mounted", "refused"}
    \/ transport = "nfs" /\ mounter = "running"

\* fault: the mount command is given no descriptors
SeededWriteEndsKept ==
    parent = "started" \/ server \in {"starting", "mounting", "mounted", "refused"}

\* Who holds a write end of the pipe.
WriteEndOpen ==
    \/ parent = "started"
    \/ server \in {"starting", "mounting", "mounted", "refused"}
    \/ transport = "nfs" /\ mounter = "running"

ParentClosesWriteEnd == ParentGoes("started", "reading") /\ UNCHANGED <<pipe, server>>

ParentReadsOk ==
    /\ ParentGoes("reading", "success") /\ pipe = "ok"
    /\ pipe' = "empty" /\ UNCHANGED server

\* An error text, or the end of file.
ParentReadsOther ==
    /\ ParentGoes("reading", "waiting")
    /\ pipe = "error" \/ (pipe = "empty" /\ ~ WriteEndOpen)
    /\ pipe' = "empty" /\ UNCHANGED server

\* child.Wait
ParentHearsOfEnd ==
    /\ ParentGoes("waiting", "failure") /\ Ended
    /\ UNCHANGED <<pipe, server>>

ParentKilled ==
    /\ parent \notin ParentEnds \cup {"none"}
    /\ parent' = "killed"
    /\ UNCHANGED <<transport, pipe, server, exit, mounter, mounted, handler, sigs,
                   sent, served>>

-----------------------------------------------------------------------------
\* The server.

ServerGoes(from, to) ==
    /\ server = from
    /\ server' = to
    /\ UNCHANGED <<transport, parent, mounted, sent>>

\* The process ends, with all its goroutines; a mount command goes on.
Ends(code) ==
    /\ server' = "ended" /\ exit' = code
    /\ handler' = "none" /\ sigs' = 0
    /\ UNCHANGED <<transport, parent, pipe, mounted, sent, served>>

\* The verbs, the client or the request to the cluster fail this time, or the
\* transport is unknown: nothing is reported.
ServerFailsEarly == server = "starting" /\ Ends("1") /\ UNCHANGED mounter

BeginsMount ==
    /\ ServerGoes("starting", "mounting") /\ transport # "other"
    /\ mounter' = "running"
    /\ UNCHANGED <<pipe, exit, handler, sigs, served>>

\* The listener, or the directory of the mount point.
MountNotTried ==
    /\ ServerGoes("starting", "refused") /\ transport = "nfs"
    /\ UNCHANGED <<pipe, exit, mounter, handler, sigs, served>>

MountEnds ==
    /\ mounter = "running"
    /\ \/ mounter' = "ok" /\ mounted' = TRUE /\ served' = TRUE
       \/ mounter' = "error" /\ UNCHANGED <<mounted, served>>
    /\ UNCHANGED <<transport, pipe, procs, sigs, sent>>

MountReturns ==
    /\ mounter \in {"ok", "error"}
    /\ ServerGoes("mounting", IF mounter = "ok" THEN "mounted" ELSE "refused")
    /\ mounter' = "none"
    /\ UNCHANGED <<pipe, exit, handler, sigs, served>>

\* reportMountStatus writes if there is a pipe; a reader that is gone is no
\* error to it.
Reported(text) == IF parent \in {"started", "reading"} THEN text ELSE pipe

ReportsOk ==
    /\ ServerGoes("mounted", "reported")
    /\ pipe' = Reported("ok")
    /\ UNCHANGED <<exit, mounter, handler, sigs, served>>

ReportsError ==
    /\ ServerGoes("refused", "failing")
    /\ pipe' = Reported("error")
    /\ UNCHANGED <<exit, mounter, handler, sigs, served>>

ServerFails == server = "failing" /\ Ends("1") /\ UNCHANGED mounter

\* signal.Notify, and the goroutine.
NotifiesSignals ==
    /\ ServerGoes("reported", "serving")
    /\ handler' = "waiting"
    /\ UNCHANGED <<pipe, exit, mounter, sigs, served>>

HandlerGoes(from, to) ==
    /\ handler = from
    /\ handler' = to
    /\ UNCHANGED <<transport, parent, pipe, server, exit, mounter, sent, served>>

TakesSignal ==
    /\ HandlerGoes("waiting", "unmounting")
    /\ sigs = 1 /\ sigs' = 0
    /\ UNCHANGED mounted

\* umount succeeds; with NFS the listener is closed then.
UnmountSucceeds ==
    /\ HandlerGoes("unmounting", IF transport = "nfs" THEN "unmounted" ELSE "again")
    /\ mounted /\ mounted' = FALSE
    /\ UNCHANGED sigs

\* It is in use, or not mounted any more: os.Exit(1).
UnmountFails == handler = "unmounting" /\ Ends("1") /\ UNCHANGED mounter

\* fault: the goroutine ends without cancel()
SeededCancels == HandlerGoes("unmounted", "none") /\ UNCHANGED <<mounted, sigs>>

\* cancel(), for which Wait waits.
Cancels == HandlerGoes("unmounted", "done") /\ UNCHANGED <<mounted, sigs>>

TakesSecondSignal ==
    handler = "again" /\ sigs = 1 /\ Ends("1") /\ UNCHANGED mounter

\* fault: serveNFS waits for the signal, not for the unmount
SeededWaitIsOver ==
    IF transport = "nfs" THEN handler \in {"unmounting", "unmounted", "done"} ELSE ~ mounted

\* fault: serveFUSE waits for its signal handler
SeededWaitForHandler == handler \in {"done", "again"}

\* go-fuse's Wait ends whoever unmounted; the NFS server's when its context does.
WaitIsOver == IF transport = "nfs" THEN handler = "done" ELSE ~ mounted

WaitReturns == server = "serving" /\ WaitIsOver /\ Ends("0") /\ UNCHANGED mounter

-----------------------------------------------------------------------------
\* From outside.

\* Any death: a mount within the process goes with it.
Dies ==
    /\ Ends("killed")
    /\ mounter' = IF transport = "fuse" /\ mounter = "running" THEN "none" ELSE mounter

Killed == Alive /\ Dies

\* fault: sigCh without a limit
SeededQueued == sigs + 1

\* make(chan os.Signal, 1)
Queued == 1

\* SIGINT or SIGTERM kills until signal.Notify; then sigCh takes it, or it is
\* dropped.
Signal ==
    /\ Alive /\ sent < MaxSignals
    /\ IF server = "serving"
       THEN /\ sigs' = Queued /\ sent' = sent + 1
            /\ UNCHANGED <<transport, parent, pipe, server, exit, mounter, mounted,
                           handler, served>>
       ELSE Dies

UmountByHand ==
    /\ mounted /\ mounted' = FALSE
    /\ UNCHANGED <<transport, pipe, procs, mounter, sigs, sent, served>>

-----------------------------------------------------------------------------
Init ==
    /\ transport \in {"fuse", "nfs", "other"}
    /\ \/ parent = "starting" /\ server = "none"
       \/ parent = "none" /\ server = "starting"     \* -f
    /\ pipe = "empty" /\ exit = "none" /\ mounter = "none" /\ mounted = FALSE
    /\ handler = "none" /\ sigs = 0 /\ sent = 0 /\ served = FALSE

ParentNext ==
    \/ ParentFails \/ ParentStartsChild \/ ParentClosesWriteEnd
    \/ ParentReadsOk \/ ParentReadsOther \/ ParentHearsOfEnd

MainNext ==
    \/ ServerFailsEarly \/ BeginsMount \/ MountNotTried \/ MountReturns
    \/ ReportsOk \/ ReportsError \/ ServerFails \/ NotifiesSignals \/ WaitReturns

HandlerNext == TakesSignal \/ Cancels \/ TakesSecondSignal

UmountEnds == UnmountSucceeds \/ UnmountFails

Next ==
    \/ ParentNext \/ MainNext \/ HandlerNext \/ MountEnds \/ UmountEnds
    \/ ParentKilled \/ Killed \/ Signal \/ UmountByHand

\* Each process and goroutine goes on when it can, and a mount command ends;
\* an umount may hang, and nobody has to signal, kill or unmount.
Fairness ==
    /\ WF_vars(ParentNext) /\ WF_vars(MainNext) /\ WF_vars(HandlerNext)
    /\ WF_vars(MountEnds)

Spec == Init /\ [][Next]_vars /\ Fairness

-----------------------------------------------------------------------------
TypeOK ==
    /\ transport \in {"fuse", "nfs", "other"}
    /\ parent \in {"none", "starting", "started", "reading", "waiting"} \cup ParentEnds
    /\ pipe \in {"empty", "ok", "error"}
    /\ server \in {"none", "starting", "mounting", "mounted", "refused", "reported",
                   "failing", "serving", "ended"}
    /\ exit \in {"none", "0", "1", "killed"}
    /\ mounter \in {"none", "running", "ok", "error"}
    /\ mounted \in BOOLEAN /\ served \in BOOLEAN
    /\ handler \in {"none", "waiting", "unmounting", "unmounted", "done", "again"}
    /\ sigs \in 0..1 /\ sent \in 0..MaxSignals

\* The parent says success only of a mount that was made, by a child that has
\* reported; and failure only when the child is gone and makes no mount any
\* more: its mount command too has ended.  What is mounted then, a child left
\* that was killed between its mount and its report.
VerdictIsTrue ==
    /\ parent = "success" => served
    /\ parent = "failure" =>
          /\ server \in {"none", "ended"} /\ mounter # "running"
          /\ mounted => exit = "killed"

\* A server that ends with its mount in place was killed, or was asked to end
\* and could not unmount.
EndsUnmounted == Ended /\ mounted => exit \in {"killed", "1"} /\ (exit = "1" => sent > 0)

\* The parent comes to its verdict, whatever becomes of the child: its read
\* ends with the child and its mount command.
ParentReturns == parent = "starting" ~> parent \in ParentEnds

\* One signal ends a serving process, or leaves it in an umount that hangs.
SignalStops == sigs = 1 ~> Ended \/ [](handler = "unmounting")

\* An umount by hand ends a server, but for the NFS server, which stays until
\* it is told.
UmountStops == (server = "serving" /\ ~ mounted) ~> (Ended \/ transport = "nfs")
=============================================================================
