----------------------------- MODULE Daemon_proofs -----------------------------
(***************************************************************************)
(* The safety properties of Daemon, for any number of signals.  DaemonInv  *)
(* is their inductive invariant; the liveness properties are left to TLC.  *)
(***************************************************************************)
EXTENDS Daemon, TLAPS

Listening == parent \in {"started", "reading"}

\* Where the parties are, relative to each other.
PlacesInv ==
    /\ parent = "starting" => server = "none"
    /\ server = "none" => parent \in {"starting", "failure", "killed"}
    /\ Ended <=> exit # "none"
    /\ handler # "none" <=> server = "serving"
    /\ server = "mounting" <=> mounter # "none" /\ ~ Ended
    /\ mounter = "running" => server = "mounting" \/ exit = "killed"
    /\ mounter = "running" => transport = "nfs" \/ (transport = "fuse" /\ ~ Ended)

\* What the pipe says, and what a reader who finds it empty may conclude.
PipeInv ==
    /\ pipe = "ok" => served
    /\ pipe = "error" =>
          server \in {"failing", "ended"} /\ mounter # "running" /\ ~ mounted
    /\ Listening /\ pipe = "empty" =>
          /\ server \notin {"reported", "serving", "failing"}
          /\ Ended /\ mounted => exit = "killed"
    /\ parent = "waiting" =>
          /\ server \in {"failing", "ended"} /\ mounter # "running"
          /\ mounted => exit = "killed"

\* Where there is a mount, and who was asked to end it.
MountInv ==
    /\ mounter = "ok" \/ server \in {"mounted", "reported", "serving"} => served
    /\ mounted => server \in {"mounting", "mounted", "reported", "serving", "ended"}
    /\ mounted /\ server = "mounting" => mounter = "ok"
    /\ handler \in {"unmounted", "done", "again"} => ~ mounted
    /\ sigs # 0 \/ handler \notin {"none", "waiting"} => sent > 0

\* TypeOK, without the two variables that are Boolean.
Ranges ==
    /\ transport \in {"fuse", "nfs", "other"}
    /\ parent \in {"none", "starting", "started", "reading", "waiting"} \cup ParentEnds
    /\ pipe \in {"empty", "ok", "error"}
    /\ server \in {"none", "starting", "mounting", "mounted", "refused", "reported",
                   "failing", "serving", "ended"}
    /\ exit \in {"none", "0", "1", "killed"}
    /\ mounter \in {"none", "running", "ok", "error"}
    /\ handler \in {"none", "waiting", "unmounting", "unmounted", "done", "again"}
    /\ sigs \in 0..1 /\ sent \in 0..MaxSignals

Booleans == mounted \in BOOLEAN /\ served \in BOOLEAN

DaemonInv ==
    Ranges /\ PlacesInv /\ PipeInv /\ MountInv /\ VerdictIsTrue /\ EndsUnmounted

-----------------------------------------------------------------------------
\* The two variables that are Boolean stay so.
LEMMA BooleansKeep == Booleans /\ [Next]_vars => Booleans'
<1> SUFFICES ASSUME Booleans, [Next]_vars PROVE Booleans'
  OBVIOUS
<1>1. CASE UNCHANGED <<mounted, served>>
  BY <1>1, Zenon DEF Booleans
<1>2. CASE MountEnds
  BY <1>2, Zenon DEF MountEnds, Booleans
<1>3. CASE UnmountSucceeds \/ UmountByHand
  BY <1>3, Zenon DEF UnmountSucceeds, UmountByHand, HandlerGoes, Booleans
<1>4. [Next]_vars => \/ MountEnds \/ UnmountSucceeds \/ UmountByHand
                    \/ UNCHANGED <<mounted, served>>
  BY Zenon DEF Next, ParentNext, MainNext, HandlerNext, UmountEnds, vars, ParentFails,
     ParentStartsChild, ParentClosesWriteEnd, ParentReadsOk, ParentReadsOther,
     ParentHearsOfEnd, ParentGoes, ServerFailsEarly, BeginsMount, MountNotTried,
     MountReturns, ReportsOk, ReportsError, ServerFails, NotifiesSignals, WaitReturns,
     ServerGoes, Ends, TakesSignal, Cancels, TakesSecondSignal, HandlerGoes,
     UnmountFails, ParentKilled, Killed, Dies, Signal
<1> QED
  BY <1>1, <1>2, <1>3, <1>4

\* A death of the server keeps the invariant, whenever it comes.
LEMMA DeathKeeps == DaemonInv /\ Alive /\ Dies => DaemonInv'
<1> SUFFICES ASSUME DaemonInv, Alive, Dies PROVE DaemonInv'
  OBVIOUS
<1> USE DEF DaemonInv, Ranges, PlacesInv, PipeInv, MountInv, VerdictIsTrue,
      EndsUnmounted, Ended, Listening, ParentEnds, Dies, Ends, Alive
<1>1. CASE transport = "fuse" /\ mounter = "running"
  BY <1>1
<1>2. CASE ~ (transport = "fuse" /\ mounter = "running")
  BY <1>2
<1> QED
  BY <1>1, <1>2

\* The steps of the parent keep the invariant: its verdict is what the pipe,
\* or the end of the file in it, allows.
LEMMA ParentKeeps ==
    DaemonInv /\ ParentNext => DaemonInv'
<1> SUFFICES ASSUME DaemonInv, ParentNext PROVE DaemonInv'
  OBVIOUS
<1> USE DaemonAssumption DEF DaemonInv, Ranges, PlacesInv, PipeInv, MountInv,
      VerdictIsTrue, EndsUnmounted, Ended, Listening, ParentEnds, procs
<1>1. CASE ParentFails
  BY <1>1 DEF ParentFails, ParentGoes
<1>2. CASE ParentStartsChild
  BY <1>2 DEF ParentStartsChild, ParentGoes
<1>3. CASE ParentClosesWriteEnd
  BY <1>3 DEF ParentClosesWriteEnd, ParentGoes
<1>4. CASE ParentReadsOk
  BY <1>4 DEF ParentReadsOk, ParentGoes
<1>5. CASE ParentReadsOther
  BY <1>5 DEF ParentReadsOther, ParentGoes, WriteEndOpen
<1>6. CASE ParentHearsOfEnd
  BY <1>6 DEF ParentHearsOfEnd, ParentGoes
<1> QED
  BY <1>1, <1>2, <1>3, <1>4, <1>5, <1>6 DEF ParentNext

\* So do the server's own steps: it serves, and reports so, once there is a
\* mount, and ends by itself only when there is none.
LEMMA MainKeeps ==
    DaemonInv /\ MainNext => DaemonInv'
<1> SUFFICES ASSUME DaemonInv, MainNext PROVE DaemonInv'
  OBVIOUS
<1> USE DaemonAssumption DEF DaemonInv, Ranges, PlacesInv, PipeInv, MountInv,
      VerdictIsTrue, EndsUnmounted, Ended, Listening, ParentEnds, procs
<1>1. CASE ServerFailsEarly
  BY <1>1 DEF ServerFailsEarly, Ends
<1>2. CASE BeginsMount
  BY <1>2 DEF BeginsMount, ServerGoes
<1>3. CASE MountNotTried
  BY <1>3 DEF MountNotTried, ServerGoes
<1>4. CASE MountReturns
  BY <1>4 DEF MountReturns, ServerGoes
<1>5. CASE ReportsOk
  BY <1>5 DEF ReportsOk, ServerGoes, Reported
<1>6. CASE ReportsError
  BY <1>6 DEF ReportsError, ServerGoes, Reported
<1>7. CASE ServerFails
  BY <1>7 DEF ServerFails, Ends
<1>8. CASE NotifiesSignals
  BY <1>8 DEF NotifiesSignals, ServerGoes
<1>9. CASE WaitReturns
  BY <1>9 DEF WaitReturns, Ends, WaitIsOver
<1> QED
  BY <1>1, <1>2, <1>3, <1>4, <1>5, <1>6, <1>7, <1>8, <1>9 DEF MainNext

\* So do the steps of its signal handler.
LEMMA HandlerKeeps ==
    DaemonInv /\ (HandlerNext \/ UmountEnds) => DaemonInv'
<1> SUFFICES ASSUME DaemonInv, HandlerNext \/ UmountEnds PROVE DaemonInv'
  OBVIOUS
<1> USE DaemonAssumption DEF DaemonInv, Ranges, PlacesInv, PipeInv, MountInv,
      VerdictIsTrue, EndsUnmounted, Ended, Listening, ParentEnds, procs
<1>1. CASE TakesSignal
  BY <1>1 DEF TakesSignal, HandlerGoes
<1>2. CASE Cancels
  BY <1>2 DEF Cancels, HandlerGoes
<1>3. CASE TakesSecondSignal
  BY <1>3 DEF TakesSecondSignal, Ends
<1>4. CASE UnmountSucceeds
  BY <1>4 DEF UnmountSucceeds, HandlerGoes
<1>5. CASE UnmountFails
  BY <1>5 DEF UnmountFails, Ends
<1> QED
  BY <1>1, <1>2, <1>3, <1>4, <1>5 DEF HandlerNext, UmountEnds

\* And so do the mount command and whoever kills, signals or unmounts.
LEMMA OthersKeep ==
    DaemonInv /\ (MountEnds \/ ParentKilled \/ Killed \/ Signal \/ UmountByHand)
        => DaemonInv'
<1> SUFFICES ASSUME DaemonInv,
                    MountEnds \/ ParentKilled \/ Killed \/ Signal \/ UmountByHand
             PROVE  DaemonInv'
  OBVIOUS
<1> USE DaemonAssumption DEF DaemonInv, Ranges, PlacesInv, PipeInv, MountInv,
      VerdictIsTrue, EndsUnmounted, Ended, Listening, ParentEnds, procs
<1>1. CASE MountEnds
  BY <1>1 DEF MountEnds
<1>2. CASE ParentKilled
  BY <1>2 DEF ParentKilled
<1>3. CASE Killed
  BY <1>3, DeathKeeps DEF Killed
<1>4. CASE Signal
  <2>1. CASE server = "serving"
    BY <1>4, <2>1 DEF Signal, Alive, Queued
  <2>2. CASE server # "serving"
    BY <1>4, <2>2, DeathKeeps DEF Signal
  <2> QED
    BY <2>1, <2>2
<1>5. CASE UmountByHand
  BY <1>5 DEF UmountByHand
<1> QED
  BY <1>1, <1>2, <1>3, <1>4, <1>5

\* Type correctness, the relations between the processes, the pipe and the
\* mount, and the two properties are one inductive invariant.
LEMMA DaemonInvHolds == Spec => []DaemonInv
<1>1. Init => DaemonInv
  BY DaemonAssumption DEF Init, DaemonInv, Ranges, PlacesInv, PipeInv, MountInv,
     VerdictIsTrue, EndsUnmounted, Ended, Listening, ParentEnds
<1>2. DaemonInv /\ [Next]_vars => DaemonInv'
  <2>1. CASE UNCHANGED vars
    BY <2>1 DEF DaemonInv, Ranges, PlacesInv, PipeInv, MountInv, VerdictIsTrue,
       EndsUnmounted, Ended, Listening, vars
  <2> QED
    BY <2>1, ParentKeeps, MainKeeps, HandlerKeeps, OthersKeep DEF Next
<1> QED
  BY <1>1, <1>2, PTL DEF Spec

\* The variables keep their types for any number of signals.
THEOREM DaemonTypeCorrect == Spec => []TypeOK
<1>1. Init => Booleans
  BY Zenon DEF Init, Booleans
<1>2. Booleans /\ [Next]_vars => Booleans'
  BY BooleansKeep
<1>3. DaemonInv /\ Booleans => TypeOK
  BY DEF DaemonInv, Ranges, Booleans, TypeOK
<1> QED
  BY <1>1, <1>2, <1>3, DaemonInvHolds, PTL DEF Spec

\* daemonize says success only of a mount that a child made, and failure only
\* when the child and its mount command are gone; wherever the child was
\* killed, whatever the pipe held then, however many signals came.
THEOREM ParentVerdictIsTrue == Spec => []VerdictIsTrue
<1>1. DaemonInv => VerdictIsTrue
  BY DEF DaemonInv
<1> QED
  BY <1>1, DaemonInvHolds, PTL

\* serveFUSE and serveNFS leave a mount behind only when killed, or when a
\* signal was taken and its umount failed.
THEOREM ServerEndsUnmounted == Spec => []EndsUnmounted
<1>1. DaemonInv => EndsUnmounted
  BY DEF DaemonInv
<1> QED
  BY <1>1, DaemonInvHolds, PTL
===============================================================================
