---------------------------- MODULE MCFtpServer -----------------------------
(* Two ways to look at the server. A client who may send any command, to a *)
(* server that is stopped and started again, where the thread may live on  *)
(* into the second start; the other thread has served and ended. Or two    *)
(* clients who have logged in and upload, change the file system or say    *)
(* NOOP at the same time, beside a stop of the server.                     *)
(*                                                                         *)
(* RMD and APPE are answered as MKD and STOR are, and a parameter is left  *)
(* out only where the code asks for it.                                    *)
EXTENDS FtpServer

CONSTANTS First, Second, FirstConn, SecondConn

MCVocabulary ==
  [name : CommandNames \ {"RMD", "APPE"}, param : {TRUE}]
    \cup [name : {"PASS", "MKD", "PORT", "RETR"}, param : {FALSE}]

OneClient ==
  /\ appstate = 0
  /\ ftp_working = 0
  /\ net = FALSE
  /\ conn = [c \in Conns |-> IF c = FirstConn THEN "free" ELSE "shut"]
  /\ conn_s = NoSock
  /\ ses = [t \in Threads |-> Fresh(IF t = First THEN "off" ELSE "exited")]
  /\ received = 0
  /\ ftp_initialized = 0
  /\ lpc = "off"
  /\ kpc = "off"
  /\ starts = 0

LoggedIn(c) == [Fresh("test") EXCEPT !.sock = c, !.socks = 1, !.auth = TRUE]

TwoClients ==
  /\ appstate = 0
  /\ ftp_working = 0
  /\ net = TRUE
  /\ conn = [c \in Conns |-> "open"]
  /\ conn_s = SecondConn
  /\ ses = [t \in Threads |-> LoggedIn(IF t = First THEN FirstConn ELSE SecondConn)]
  /\ received = MaxCommands - 2
  /\ ftp_initialized = 1
  /\ lpc = "accept"
  /\ kpc = "test"
  /\ starts = MaxStarts

MCInit ==
  /\ OneClient \/ TwoClients
  /\ gui = "idle"
  /\ ticks = 0
  /\ given_up = FALSE
  /\ hidden = {}

(* A bound: what is sent while the second client is there, and that both   *)
(* keep their control connections.                                         *)
BothThere ==
  ses[Second].sock # NoSock =>
    /\ \A t \in Threads : ses[t].cmd = NoCommand \/ ses[t].cmd.name \in {"STOR", "MKD", "NOOP"}
    /\ net => \A c \in Conns : conn[c] \in {"open", "shut"}

MCNext == Next /\ BothThere'

MCSpec ==
  /\ MCInit
  /\ [][MCNext]_vars
  /\ WF_vars(Listener)
  /\ WF_vars(Control)
  /\ WF_vars(ftp_net_deinit \/ JoinListener \/ JoinControl)
  /\ \A t \in Threads : WF_vars(~Waits(t) /\ ClientStep(t))
=============================================================================
