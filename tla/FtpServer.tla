----------------------------- MODULE FtpServer ------------------------------
(***************************************************************************)
(* source/ftp/ftp.c and source/ftp/server.c around the client threads of   *)
(* FtpSession: the listener, the control thread that lets ftp_working fade *)
(* and the GUI that starts and stops the server (ftp_init, ftp_deinit).    *)
(* ftp_deinit joins the listener and the control thread; nobody joins the  *)
(* client threads, which may live on into the next start.                  *)
(*                                                                         *)
(* accept, recv and send are taken to fail on sockets of a network that    *)
(* has been deinitialised. A bound: each thread of Threads is used once.   *)
(***************************************************************************)
EXTENDS FtpSession

CONSTANTS
  MaxStarts,  \* bound on the calls of ftp_init
  Ticks       \* turns of the control thread before activity fades, 100

ASSUME ServerAssumption == MaxStarts \in Nat /\ Ticks \in Nat \ {0}

VARIABLES
  gui,              \* where the GUI is in ftp_init and ftp_deinit
  ftp_initialized,
  lpc,              \* where the listener is
  kpc,              \* where the control thread is
  ticks,            \* its counter, n
  starts,           \* calls of ftp_init so far
  given_up,         \* history: ftp_working is 1 from a transfer that a 425 ended
  hidden            \* history: the threads whose transfer another step may hide

srvVars == <<gui, ftp_initialized, lpc, kpc, ticks, starts>>
history == <<given_up, hidden>>
vars == <<sesVars, srvVars, history>>

SrvTypeOK ==
  /\ SesTypeOK
  /\ gui \in {"idle", "netdown", "joinListener", "joinControl"}
  /\ ftp_initialized \in {0, 1}
  /\ lpc \in {"off", "bind", "test", "accept", "spawn", "exited"}
  /\ kpc \in {"off", "test", "set3", "late", "set0", "exited"}
  /\ ticks \in 0..Ticks
  /\ starts \in 0..MaxStarts
  /\ given_up \in BOOLEAN
  /\ hidden \subseteq Threads

Init ==
  /\ appstate = 0
  /\ ftp_working = 0
  /\ net = FALSE
  /\ conn = [c \in Conns |-> "free"]
  /\ conn_s = NoSock
  /\ ses = [t \in Threads |-> Fresh("off")]
  /\ received = 0
  /\ gui = "idle"
  /\ ftp_initialized = 0
  /\ lpc = "off"
  /\ kpc = "off"
  /\ ticks = 0
  /\ starts = 0
  /\ given_up = FALSE
  /\ hidden = {}

-----------------------------------------------------------------------------
(* A thread with the file of a STOR, an APPE or a RETR in hand.            *)
Transferring(s) ==
  s.pc \in {"connect", "block", "finish"} /\ s.cmd.name # "LIST"

(* In a step of thread t: it opens the file of a transfer; a 425 gives the *)
(* transfer up; it takes ftp_working from what the others left there. The  *)
(* assignment of Mark is left to the test before it.                       *)
Begins(t) == ~Transferring(ses[t]) /\ Transferring(ses'[t])
GivesUp(t) ==
  Transferring(ses[t]) /\ ses[t].pc = "connect" /\ ses'[t].pc = "test"
Overwrites(t) ==
  ftp_working' # ftp_working /\ ftp_working' # 1 /\ ~At(t, "mark")

(* Somebody is between a test of ftp_working and the assignment after it.  *)
AboutToAssign(t) ==
  kpc \in {"set3", "set0"} \/ \E u \in Threads \ {t} : At(u, "mark")

(* What a step of thread t adds to the history, and takes from it.         *)
History(t) ==
  /\ given_up' =
       (ftp_working' = 1 /\ ~Begins(t) /\ (given_up \/ GivesUp(t)))
  /\ hidden' = {u \in Threads :
       /\ Transferring(ses'[u])
       /\ \/ u \in hidden
          \/ u # t /\ Overwrites(t)
          \/ u = t /\ Begins(t) /\ AboutToAssign(t)}

(* ftp_init and ftp_deinit set ftp_working to 0 without a look at it.      *)
Forgets ==
  /\ given_up' = FALSE
  /\ hidden' = {u \in Threads : Transferring(ses[u])}

-----------------------------------------------------------------------------
(* netDeinitialize: no socket of the process works any longer.             *)
SocketsDie ==
  /\ conn' = [c \in Conns |->
                CASE conn[c] \in {"open", "closed"} -> "broken"
                  [] conn[c] = "backlog" -> "free"
                  [] OTHER -> conn[c]]
  /\ ses' = [t \in Threads |->
               [ses[t] EXCEPT !.data = IF @ = "none" THEN "none" ELSE "dead",
                              !.pasv = IF @ = "none" THEN "none" ELSE "dead"]]

(* ftp_init: 0, or -1 to -4 with the network down; ftp_working is set to 0 *)
(* in either case. A call while the server is initialised does nothing.    *)
ftp_init ==
  /\ gui = "idle"
  /\ ftp_initialized = 0
  /\ starts < MaxStarts
  /\ starts' = starts + 1
  /\ ftp_working' = 0
  /\ \/ /\ net' = TRUE
        /\ appstate' = 0
        /\ lpc' = "bind"
        /\ kpc' = "test"
        /\ ticks' = 0
        /\ ftp_initialized' = 1
     \/ UNCHANGED <<net, appstate, lpc, kpc, ticks, ftp_initialized>>
  /\ Forgets
  /\ UNCHANGED <<conn, conn_s, ses, received, gui>>

(* ftp_deinit, step by step.                                               *)
SetAppstate ==
  /\ gui = "idle"
  /\ ftp_initialized = 1
  /\ appstate' = 1
  /\ gui' = "netdown"
  /\ UNCHANGED <<ftp_working, net, conn, conn_s, ses, received,
                 ftp_initialized, lpc, kpc, ticks, starts, history>>

ftp_net_deinit ==
  /\ gui = "netdown"
  /\ net' = FALSE
  /\ SocketsDie
  /\ gui' = "joinListener"
  /\ UNCHANGED <<appstate, ftp_working, conn_s, received,
                 ftp_initialized, lpc, kpc, ticks, starts, history>>

JoinListener ==
  /\ gui = "joinListener"
  /\ lpc = "exited"
  /\ lpc' = "off"
  /\ gui' = "joinControl"
  /\ UNCHANGED <<sesVars, ftp_initialized, kpc, ticks, starts, history>>

JoinControl ==
  /\ gui = "joinControl"
  /\ kpc = "exited"
  /\ kpc' = "off"
  /\ gui' = "idle"
  /\ ftp_initialized' = 0
  /\ ftp_working' = 0
  /\ Forgets
  /\ UNCHANGED <<appstate, net, conn, conn_s, ses, received, lpc, ticks, starts>>

Gui == \/ ftp_init \/ SetAppstate \/ ftp_net_deinit
       \/ JoinListener \/ JoinControl

-----------------------------------------------------------------------------
(* listener_thread.                                                        *)

(* bind or listen may fail, which stops the server.                        *)
Bind ==
  /\ lpc = "bind"
  /\ lpc' = "test"
  /\ appstate' \in {appstate, 1}
  /\ UNCHANGED <<ftp_working, net, conn, conn_s, ses, received,
                 gui, ftp_initialized, kpc, ticks, starts, history>>

ListenerTests ==
  /\ lpc = "test"
  /\ lpc' = IF appstate = 1 THEN "exited" ELSE "accept"
  /\ UNCHANGED <<sesVars, gui, ftp_initialized, kpc, ticks, starts, history>>

(* A connection, or -1 and a sleep when the network is gone. Either goes   *)
(* to the one local conn_s.                                                *)
Accept ==
  /\ lpc = "accept"
  /\ \/ \E c \in Conns :
          /\ conn[c] = "backlog"
          /\ conn_s' = c
          /\ conn' = [conn EXCEPT ![c] = "open"]
          /\ lpc' = "spawn"
     \/ /\ ~net
        /\ conn_s' = NoSock
        /\ lpc' = "test"
        /\ UNCHANGED conn
  /\ UNCHANGED <<appstate, ftp_working, net, ses, received,
                 gui, ftp_initialized, kpc, ticks, starts, history>>

(* sysThreadCreate, whose result is not looked at: the thread has &conn_s. *)
Spawn ==
  /\ lpc = "spawn"
  /\ lpc' = "test"
  /\ LET unused == {t \in Threads : At(t, "off")}
     IN  \/ unused # {} /\ Put(CHOOSE t \in unused : TRUE, Fresh("start"))
         \/ UNCHANGED ses
  /\ UNCHANGED <<appstate, ftp_working, net, conn, conn_s, received,
                 gui, ftp_initialized, kpc, ticks, starts, history>>

Listener == Bind \/ ListenerTests \/ Accept \/ Spawn

(* A client connects to port 21. Connections are taken in a fixed order.   *)
Connect ==
  /\ net
  /\ lpc \in {"test", "accept", "spawn"}
  /\ LET unused == {c \in Conns : conn[c] = "free"}
     IN  /\ unused # {}
         /\ conn' = [conn EXCEPT ![CHOOSE c \in unused : TRUE] = "backlog"]
  /\ UNCHANGED <<appstate, ftp_working, net, conn_s, ses, received, srvVars,
                 history>>

-----------------------------------------------------------------------------
(* control_thread: each test and each assignment of ftp_working is a step. *)

Quiet == UNCHANGED <<appstate, net, conn, conn_s, ses, received,
                     gui, ftp_initialized, lpc, starts, hidden>>

(* while(appstate != 1), sysUsleep, n++, and the first test.               *)
Wake ==
  /\ kpc = "test"
  /\ kpc' = CASE appstate = 1    -> "exited"
              [] ftp_working = 2 -> "set3"
              [] OTHER           -> "late"
  /\ ticks' = IF appstate = 1 THEN ticks ELSE ticks + 1
  /\ Quiet
  /\ UNCHANGED <<ftp_working, given_up>>

SetThree ==
  /\ kpc = "set3"
  /\ ftp_working' = 3
  /\ ticks' = 0
  /\ kpc' = "late"
  /\ given_up' = FALSE
  /\ Quiet

LateAnyway ==     \* mutant
  /\ kpc = "late"
  /\ IF ticks >= Ticks
     THEN kpc' = "set0" /\ ticks' = ticks
     ELSE kpc' = "test" /\ ticks' = ticks
  /\ Quiet
  /\ UNCHANGED <<ftp_working, given_up>>

(* n >= 100: if(ftp_working == 3) ...; n = 0.                              *)
Late ==
  /\ kpc = "late"
  /\ IF ticks >= Ticks /\ ftp_working = 3
     THEN kpc' = "set0" /\ ticks' = ticks
     ELSE kpc' = "test" /\ ticks' = IF ticks >= Ticks THEN 0 ELSE ticks
  /\ Quiet
  /\ UNCHANGED <<ftp_working, given_up>>

SetZero ==
  /\ kpc = "set0"
  /\ ftp_working' = 0
  /\ ticks' = 0
  /\ kpc' = "test"
  /\ given_up' = FALSE
  /\ Quiet

Control == Wake \/ SetThree \/ Late \/ SetZero

-----------------------------------------------------------------------------
ClientStep(t) == Client(t) /\ History(t) /\ UNCHANGED srvVars

Others ==
  \/ \E t \in Threads : ClientStep(t)
  \/ (\E c \in Conns : Peer(c)) /\ UNCHANGED <<srvVars, history>>

Next == Gui \/ Listener \/ Control \/ Others \/ Connect

(* Threads run when they can; the GUI goes on with an ftp_deinit it began. *)
Spec ==
  /\ Init
  /\ [][Next]_vars
  /\ WF_vars(Listener)
  /\ WF_vars(Control)
  /\ WF_vars(ftp_net_deinit \/ JoinListener \/ JoinControl)
  /\ \A t \in Threads : WF_vars(~Waits(t) /\ ClientStep(t))

-----------------------------------------------------------------------------
(* While ftp_working is 1 (and the GUI asks before it starts anything, and *)
(* never stops asking) a file is being transferred, or the last transfer   *)
(* was given up by a 425 and since then nobody began one, ended one or set *)
(* ftp_working to anything: a finished transfer does not leave it so.      *)
BusyIsExplained ==
  ftp_working = 1 => given_up \/ \E t \in Threads : Transferring(ses[t])

(* While a file is being transferred ftp_working is 1, unless it was taken *)
(* from the transfer by one of: another client's NOOP, QUIT, 550 or end of *)
(* a transfer; a start or the end of a stop of the server; an assignment   *)
(* whose test came before the transfer. Neither the control thread nor a   *)
(* change of the file system takes it from a transfer their test can see.  *)
TransfersAreShown ==
  \A t \in Threads :
    Transferring(ses[t]) => ftp_working = 1 \/ t \in hidden

(* What test_ftp_working (ftp.c:49) tells the GUI of transfers is so, both *)
(* when there is one and when there is none.                               *)
ActivityIsTrue == BusyIsExplained /\ TransfersAreShown

(* Activity that is over fades, as long as the control thread runs.        *)
ActivityFades ==
  ftp_working \in {2, 3} ~> ftp_working \in {0, 1} \/ appstate = 1

(* ftp_deinit returns, whatever the threads are doing when it is called.   *)
DeinitReturns == gui # "idle" ~> gui = "idle"

(* A server that is stopped and not started again has no client thread     *)
(* left in the end, although ftp_deinit joins none: a thread in a call on  *)
(* a dead socket, or reading its own answers, comes back to its test.      *)
StopEndsEverySession ==
  <>[](appstate = 1 /\ ~net)
    => <>[](\A t \in Threads : ses[t].pc \in {"off", "exited"})

(* ftp_deinit and what it leaves to itself: the call returns, the client   *)
(* threads nobody joins end, as does one whose client closed (client.c:166)*)
(* and the activity shown fades.                                           *)
ServerWindsDown ==
  ActivityFades /\ DeinitReturns /\ StopEndsEverySession /\ ClosedSessionEnds
=============================================================================
