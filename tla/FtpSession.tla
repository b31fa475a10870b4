----------------------------- MODULE FtpSession -----------------------------
(***************************************************************************)
(* source/ftp/client.c: client_thread, the thread that serves one control  *)
(* connection of the FTP server. FtpServer adds the threads around it.     *)
(*                                                                         *)
(* Commands that differ only in wording share a name: CHANGE is DELE and   *)
(* SITE CHMOD, LIST is LIST, MLSD and NLST, OTHER is every command with    *)
(* one answer and no effect on the state below. A command carries whether  *)
(* it has a parameter. Names of files, the working directory and contents  *)
(* are left out; of rest only whether it is 0 is kept. The loops on cqueue *)
(* and dqueue (l.86-89) test (itemp + 1) - 1 > itemp on plain ints: the    *)
(* compiler removes them, so they appear nowhere below.                    *)
(***************************************************************************)
EXTENDS Integers

CONSTANTS
  Threads,      \* the client threads there can be
  Conns,        \* control connections
  NoSock,       \* a socket number of -1
  Vocabulary,   \* the commands the clients use
  MaxCommands,  \* bound on the commands received
  MaxBlocks     \* bound on the blocks of a transfer, the entries of a list

CommandNames ==
  {"EMPTY", "NOOP", "QUIT", "OTHER", "USER", "PASS", "MKD", "RMD", "CHANGE",
   "RNFR", "RNTO", "PASV", "PORT", "ABOR", "REST", "LIST", "MLST", "STOR",
   "APPE", "RETR", "EXITAPP"}

(* A command, and whether it has a parameter.                              *)
Command == [name : CommandNames, param : BOOLEAN]

ASSUME NoSockAssumption == NoSock \notin Conns
ASSUME VocabularyAssumption == Vocabulary \subseteq Command
ASSUME BoundsAssumption == MaxCommands \in Nat /\ MaxBlocks \in Nat

VARIABLES
  appstate,     \* 1: everything of the server is to stop
  ftp_working,  \* 0 idle, 1 transfer, 2 just worked, 3 worked a while ago
  net,          \* the network is initialised
  conn,         \* each control connection, as the network sees it
  conn_s,       \* the listener's local whose address the threads are given
  ses,          \* the locals of each client thread
  received      \* commands received so far

sesVars == <<appstate, ftp_working, net, conn, conn_s, ses, received>>

(* "closed": the client closed it in order; "broken": it was lost; "shut": *)
(* a thread of the server closed it.                                       *)
ConnStates == {"free", "backlog", "open", "closed", "broken", "shut"}

Places == {"off", "start", "test", "recv", "cmd", "mark", "connect", "block",
           "finish", "close", "exited"}

(* Besides the locals of client_thread: asked, a REST was acknowledged     *)
(* since the last PASV or PORT; socks and files, the descriptors the       *)
(* system holds for the thread; left, the files that 425s left open; lost, *)
(* data of the transfer in hand did not arrive; reply, the answer to it.   *)
Session ==
  [pc : Places, sock : Conns \cup {NoSock},
   cmd : Command,
   auth : BOOLEAN,                                   \* authorized
   expect : {"", "PASS", "RNTO", "junk"},            \* expectcmd
   line : BOOLEAN,                                   \* temp holds "\r\n"
   data : {"none", "pasv", "port", "legacy", "dead"},  \* data_s
   pasv : {"none", "listening", "dead"},             \* pasv_s
   rest : {0, 1}, asked : BOOLEAN, todo : 0..MaxBlocks,
   socks : Nat, files : Nat, left : Nat,
   lost : BOOLEAN, reply : {"none", "226", "451"}]

SesTypeOK ==
  /\ appstate \in {0, 1}
  /\ ftp_working \in 0..3
  /\ net \in BOOLEAN
  /\ conn \in [Conns -> ConnStates]
  /\ conn_s \in Conns \cup {NoSock}
  /\ ses \in [Threads -> Session]
  /\ received \in 0..MaxCommands

NoCommand == [name |-> "OTHER", param |-> FALSE]

(* A thread that has not read its argument yet.                            *)
Fresh(place) ==
  [pc |-> place, sock |-> NoSock, cmd |-> NoCommand,
   auth |-> FALSE, expect |-> "", line |-> TRUE,
   data |-> "none", pasv |-> "none", rest |-> 0, asked |-> FALSE, todo |-> 0,
   socks |-> 0, files |-> 0, left |-> 0, lost |-> FALSE, reply |-> "none"]

-----------------------------------------------------------------------------
(* Steps of several commands, as functions of a session.                   *)

Put(t, s) == ses' = [ses EXCEPT ![t] = s]

CloseData(s) ==
  IF s.data = "none" THEN s ELSE [s EXCEPT !.data = "none", !.socks = @ - 1]
ClosePasv(s) ==
  IF s.pasv = "none" THEN s ELSE [s EXCEPT !.pasv = "none", !.socks = @ - 1]
CloseBoth(s) == CloseData(ClosePasv(s))

(* The command is done with. Answered: an answer is in temp.               *)
Silent(s) ==
  [s EXCEPT !.pc = "test", !.expect = "", !.cmd = NoCommand, !.todo = 0,
            !.lost = FALSE, !.reply = "none"]
Answered(s) == [Silent(s) EXCEPT !.line = TRUE]

(* Closing the uninitialised fd of an open that failed: a number that      *)
(* names nothing, or one of the descriptors this thread left open.         *)
AfterStrayClose(s) ==
  {s} \cup IF s.files > 0 THEN {[s EXCEPT !.files = @ - 1]} ELSE {}

(* 425 and continue: what the command opened stays open.                   *)
NoDataConnection(s) == Answered([s EXCEPT !.left = @ + 1])

At(t, place) == ses[t].pc = place

(* The command in hand is one of names and passed the check of expectcmd.  *)
Runs(t, names) ==
  /\ At(t, "cmd")
  /\ ses[t].expect \in {"", ses[t].cmd.name}
  /\ ses[t].cmd.name \in names

RunsIn(t, names) == ses[t].auth /\ Runs(t, names)

OnlySes == UNCHANGED <<appstate, ftp_working, net, conn, conn_s, received>>

-----------------------------------------------------------------------------
(* The head of the loop.                                                   *)

(* conn_s = *(int * )conn_s_p; greet. Nothing sets expectcmd.              *)
Start(t) ==
  /\ At(t, "start")
  /\ \E e \in {"", "junk"} :
       Put(t, [Fresh("test") EXCEPT !.sock = conn_s, !.expect = e,
                                    !.socks = IF conn_s = NoSock THEN 0 ELSE 1])
  /\ OnlySes

TestNothing(t) ==     \* mutant
  /\ At(t, "test")
  /\ Put(t, [ses[t] EXCEPT !.pc = "recv"])
  /\ OnlySes

TestState(t) ==
  /\ At(t, "test")
  /\ Put(t, [ses[t] EXCEPT !.pc = IF appstate = 1 THEN "close" ELSE "recv"])
  /\ OnlySes

(* The socket a thread uses is usable / has come to its end in order.      *)
IsOpen(s) == s.sock # NoSock /\ conn[s.sock] = "open"
IsAtItsEnd(s) == s.sock # NoSock /\ conn[s.sock] = "closed"

(* recv brings a line, or a piece without line end, which ends the session.*)
RecvCommand(t) ==
  /\ At(t, "recv")
  /\ IsOpen(ses[t])
  /\ received < MaxCommands
  /\ received' = received + 1
  /\ \/ \E c \in Vocabulary :
          Put(t, [ses[t] EXCEPT !.pc = "cmd", !.cmd = c, !.line = FALSE])
     \/ Put(t, [ses[t] EXCEPT !.pc = "close"])
  /\ UNCHANGED <<appstate, ftp_working, net, conn, conn_s>>

(* recv returns 0.                                                         *)
RecvEnd(t) ==
  /\ At(t, "recv")
  /\ IsAtItsEnd(ses[t])
  /\ Put(t, [ses[t] EXCEPT !.pc = "close"])
  /\ OnlySes

(* recv returns -1, which is > 0 as the size_t bytes: the thread reads its *)
(* own last answer as a command, if temp still holds one.                  *)
RecvError(t) ==
  /\ At(t, "recv")
  /\ ~IsOpen(ses[t])
  /\ ~IsAtItsEnd(ses[t])
  /\ Put(t, IF ses[t].line
            THEN [ses[t] EXCEPT !.pc = "cmd", !.line = FALSE,
                                !.cmd = [name |-> "OTHER", param |-> TRUE]]
            ELSE [ses[t] EXCEPT !.pc = "close"])
  /\ OnlySes

-----------------------------------------------------------------------------
(* Commands without a data connection.                                     *)

(* 503 Bad command sequence: the command is blanked.                       *)
BadSequence(t) ==
  /\ At(t, "cmd")
  /\ ses[t].expect \notin {"", ses[t].cmd.name}
  /\ Put(t, Answered(ses[t]))
  /\ OnlySes

(* An empty line is not answered: temp keeps no line end.                  *)
Empty(t) ==
  /\ Runs(t, {"EMPTY"})
  /\ Put(t, Silent(ses[t]))
  /\ OnlySes

NoopOrQuit(t) ==
  /\ Runs(t, {"NOOP", "QUIT"})
  /\ ftp_working' = 0
  /\ Put(t, IF ses[t].cmd.name = "NOOP"
            THEN Answered(ses[t])
            ELSE [Answered(ses[t]) EXCEPT !.pc = "close"])
  /\ UNCHANGED <<appstate, net, conn, conn_s, received>>

(* One answer: a plain command, a command before the log-in, USER and PASS *)
(* after it, and 501 for a parameter that is missing.                      *)
JustAnswer(t) ==
  /\ \/ Runs(t, {"OTHER"})
     \/ ~ses[t].auth /\ Runs(t, CommandNames \ {"EMPTY", "NOOP", "QUIT", "USER",
                                                "PASS"})
     \/ ~ses[t].auth /\ Runs(t, {"USER"})
     \/ ~ses[t].auth /\ Runs(t, {"PASS"}) /\ ~ses[t].cmd.param
     \/ RunsIn(t, {"USER", "PASS"})
     \/ RunsIn(t, {"CHANGE", "RNFR", "RNTO", "PORT", "EXITAPP", "REST"})
          /\ ~ses[t].cmd.param
  /\ Put(t, Answered(ses[t]))
  /\ OnlySes

(* 331 and 230. USER is refused (JustAnswer) when the name is too long.    *)
LogIn(t) ==
  /\ ~ses[t].auth
  /\ Runs(t, {"USER", "PASS"})
  /\ ses[t].cmd.param
  /\ Put(t, IF ses[t].cmd.name = "USER"
            THEN [Answered(ses[t]) EXCEPT !.expect = "PASS"]
            ELSE [Answered(ses[t]) EXCEPT !.auth = TRUE])
  /\ OnlySes

(* MKD and RMD without a parameter send back what they received.           *)
Echo(t) ==
  /\ RunsIn(t, {"MKD", "RMD"})
  /\ ~ses[t].cmd.param
  /\ Put(t, Silent(ses[t]))
  /\ OnlySes

ChangeUnasked(t) ==     \* mutant
  /\ RunsIn(t, {"MKD", "RMD", "CHANGE", "RNTO"})
  /\ ses[t].cmd.param
  /\ Put(t, [ses[t] EXCEPT !.pc = "mark", !.expect = ""])
  /\ OnlySes

(* if(ftp_working != 1) ftp_working = 2: the test. With 1 the change of    *)
(* the file system follows at once.                                        *)
Change(t) ==
  /\ RunsIn(t, {"MKD", "RMD", "CHANGE", "RNTO"})
  /\ ses[t].cmd.param
  /\ Put(t, IF ftp_working = 1
            THEN Answered(ses[t])
            ELSE [ses[t] EXCEPT !.pc = "mark", !.expect = ""])
  /\ OnlySes

(* The assignment, the change of the file system, 250 or 550.              *)
Mark(t) ==
  /\ At(t, "mark")
  /\ ftp_working' = 2
  /\ Put(t, Answered(ses[t]))
  /\ UNCHANGED <<appstate, net, conn, conn_s, received>>

(* 350, or 550 when the file does not exist.                               *)
RenameFrom(t) ==
  /\ RunsIn(t, {"RNFR"})
  /\ ses[t].cmd.param
  /\ \/ Put(t, [Answered(ses[t]) EXCEPT !.expect = "RNTO"])
     \/ Put(t, Answered(ses[t]))
  /\ OnlySes

(* 350, or 501 for a negative number, which also sets rest to 0.           *)
Restart(t) ==
  /\ RunsIn(t, {"REST"})
  /\ ses[t].cmd.param
  /\ \/ \E r \in {0, 1} :
          Put(t, [Answered(ses[t]) EXCEPT !.rest = r, !.asked = TRUE])
     \/ Put(t, [Answered(ses[t]) EXCEPT !.rest = 0])
  /\ OnlySes

ExitApp(t) ==
  /\ RunsIn(t, {"EXITAPP"})
  /\ ses[t].cmd.param
  /\ appstate' = 1
  /\ Put(t, Answered(ses[t]))
  /\ UNCHANGED <<ftp_working, net, conn, conn_s, received>>

(* MLST lists over the control connection.                                 *)
ListHere(t) ==
  /\ RunsIn(t, {"MLST"})
  /\ \/ Put(t, Answered(ses[t]))
     \/ \E s \in AfterStrayClose(ses[t]) : Put(t, Answered(s))
  /\ OnlySes

-----------------------------------------------------------------------------
(* Data connections.                                                       *)

(* 227, or 451 with neither socket.                                        *)
Pasv(t) ==
  /\ RunsIn(t, {"PASV"})
  /\ LET s == Answered(CloseBoth(ses[t]))
     IN  \/ net /\ Put(t, [s EXCEPT !.pasv = "listening", !.socks = @ + 1,
                                    !.rest = 0, !.asked = FALSE])
         \/ Put(t, s)
  /\ OnlySes

(* 200, or 451 or 501 with neither socket.                                 *)
Port(t) ==
  /\ RunsIn(t, {"PORT"})
  /\ ses[t].cmd.param
  /\ LET s == Answered(CloseBoth(ses[t]))
     IN  \/ net /\ Put(t, [s EXCEPT !.data = "port", !.socks = @ + 1,
                                    !.rest = 0, !.asked = FALSE])
         \/ Put(t, s)
  /\ OnlySes

Abort(t) ==
  /\ RunsIn(t, {"ABOR"})
  /\ Put(t, Answered(CloseBoth(ses[t])))
  /\ OnlySes

(* LIST, MLSD and NLST up to the data connection; 550 closes it.           *)
OpenList(t) ==
  /\ RunsIn(t, {"LIST"})
  /\ \/ Put(t, [ses[t] EXCEPT !.pc = "connect", !.expect = "", !.files = @ + 1])
     \/ \E s \in AfterStrayClose(ses[t]) : Put(t, Answered(CloseData(s)))
  /\ OnlySes

(* STOR, APPE and RETR up to the data connection. 550 and 501 close it,    *)
(* 550 sets ftp_working as the end of a transfer does.                     *)
OpenFile(t) ==
  /\ RunsIn(t, {"STOR", "APPE", "RETR"})
  /\ \/ /\ ses[t].cmd.param
        /\ ftp_working' = 1
        /\ Put(t, [ses[t] EXCEPT !.pc = "connect", !.expect = "",
                                 !.files = @ + 1])
     \/ /\ ses[t].cmd.param
        /\ ftp_working' = 2
        /\ \E s \in AfterStrayClose(ses[t]) :
             Put(t, Answered(CloseData(s)))
     \/ /\ ~ses[t].cmd.param
        /\ Put(t, Answered(CloseData(ses[t])))
        /\ UNCHANGED ftp_working
  /\ UNCHANGED <<appstate, net, conn, conn_s, received>>

(* The loop of the transfer begins; n blocks or entries are to come.       *)
Begin(s, n) == [s EXCEPT !.pc = "block", !.todo = n]

(* 125: the connection of PORT.                                            *)
UsePort(t) ==
  /\ At(t, "connect")
  /\ ses[t].data # "none"
  /\ \E n \in 0..MaxBlocks : Put(t, Begin(ses[t], n))
  /\ OnlySes

AcceptLeavingPasv(t) ==     \* mutant
  /\ At(t, "connect")
  /\ ses[t].data = "none"
  /\ ses[t].pasv = "listening"
  /\ \E n \in 0..MaxBlocks :
       Put(t, Begin([ses[t] EXCEPT !.data = "pasv", !.pasv = "none",
                                   !.socks = @ + 1], n))
  /\ OnlySes

(* accept on pasv_s, which is closed whatever it returns.                  *)
AcceptData(t) ==
  /\ At(t, "connect")
  /\ ses[t].data = "none"
  /\ \/ /\ ses[t].pasv = "listening"
        /\ \E n \in 0..MaxBlocks :
             Put(t, Begin([ClosePasv(ses[t]) EXCEPT !.data = "pasv",
                                                    !.socks = @ + 1], n))
     \/ /\ ses[t].pasv # "none"
        /\ Put(t, NoDataConnection(ClosePasv(ses[t])))
  /\ OnlySes

(* The legacy way: connect to port 20 of the client.                       *)
ConnectLegacy(t) ==
  /\ At(t, "connect")
  /\ ses[t].data = "none"
  /\ ses[t].pasv = "none"
  /\ \/ /\ net
        /\ \E n \in 0..MaxBlocks :
             Put(t, Begin([ses[t] EXCEPT !.data = "legacy", !.socks = @ + 1], n))
     \/ Put(t, NoDataConnection(ses[t]))
  /\ OnlySes

-----------------------------------------------------------------------------
(* Transfers.                                                              *)

InLoop(t, names) == At(t, "block") /\ ses[t].cmd.name \in names
Alive(s) == s.data # "dead"

OneBlock(s) == [s EXCEPT !.todo = @ - 1]
LoopEnds(s, r) == [s EXCEPT !.pc = "finish", !.reply = r]

(* malloc returned NULL.                                                   *)
NoBuffer(t) ==
  /\ InLoop(t, {"STOR", "APPE", "RETR"})
  /\ Put(t, LoopEnds(ses[t], "451"))
  /\ OnlySes

StoreWithoutWriteError(t) ==     \* mutant
  /\ InLoop(t, {"STOR", "APPE"})
  /\ \/ Alive(ses[t]) /\ ses[t].todo > 0 /\ Put(t, OneBlock(ses[t]))
     \/ Alive(ses[t]) /\ ses[t].todo = 0 /\ Put(t, LoopEnds(ses[t], "226"))
     \/ Put(t, LoopEnds([ses[t] EXCEPT !.lost = TRUE], "226"))
  /\ OnlySes

(* One turn of the loop of STOR: a block arrives and is written, the write *)
(* fails or is short, the data ends, or recv returns -1: as a u64 that is  *)
(* a block of 2^64 - 1 bytes, whose write fails.                           *)
StoreBlock(t) ==
  /\ InLoop(t, {"STOR", "APPE"})
  /\ \/ Alive(ses[t]) /\ ses[t].todo > 0 /\ Put(t, OneBlock(ses[t]))
     \/ Alive(ses[t]) /\ ses[t].todo = 0 /\ Put(t, LoopEnds(ses[t], "226"))
     \/ Put(t, LoopEnds([ses[t] EXCEPT !.lost = TRUE], "451"))
  /\ OnlySes

(* One turn of the loop of RETR: the block is sent, only in part (the one  *)
(* error the loop sees), or send returns -1, as a u64 not below read; the  *)
(* file is at its end, or the read fails, which looks the same.            *)
RetrieveBlock(t) ==
  /\ InLoop(t, {"RETR"})
  /\ LET s == ses[t]
         l == [s EXCEPT !.lost = TRUE]
     IN  \/ s.todo > 0 /\ Alive(s) /\ Put(t, OneBlock(s))
         \/ s.todo > 0 /\ Alive(s) /\ Put(t, LoopEnds(l, "451"))
         \/ s.todo > 0 /\ Put(t, OneBlock(l))
         \/ s.todo > 0 /\ Put(t, LoopEnds(l, "226"))
         \/ s.todo = 0 /\ Put(t, LoopEnds(s, "226"))
  /\ OnlySes

(* The lists look neither at send nor at why readdir ends.                 *)
ListBlock(t) ==
  /\ InLoop(t, {"LIST"})
  /\ Put(t, IF ses[t].todo > 0 THEN OneBlock(ses[t])
                               ELSE LoopEnds(ses[t], "226"))
  /\ OnlySes

FinishWorking(t) ==     \* mutant
  /\ At(t, "finish")
  /\ Put(t, Answered(CloseData([ses[t] EXCEPT !.files = @ - 1])))
  /\ OnlySes

(* Close the file, ftp_working = 2 (not the lists), answer, close data_s.  *)
Finish(t) ==
  /\ At(t, "finish")
  /\ ftp_working' = IF ses[t].cmd.name = "LIST" THEN ftp_working ELSE 2
  /\ Put(t, Answered(CloseData([ses[t] EXCEPT !.files = @ - 1])))
  /\ UNCHANGED <<appstate, net, conn, conn_s, received>>

(* After the loop of commands: the sockets are closed and the locals gone. *)
(* Files left open stay open.                                              *)
Close(t) ==
  /\ At(t, "close")
  /\ LET s == CloseBoth(ses[t])
         held == IF s.sock = NoSock THEN s.socks ELSE s.socks - 1
     IN  Put(t, [Fresh("exited") EXCEPT !.socks = held, !.files = s.files,
                          !.left = s.left])
  /\ conn' = IF ses[t].sock = NoSock THEN conn
                                     ELSE [conn EXCEPT ![ses[t].sock] = "shut"]
  /\ UNCHANGED <<appstate, ftp_working, net, conn_s, received>>

-----------------------------------------------------------------------------
Client(t) ==
  \/ Start(t) \/ TestState(t) \/ RecvCommand(t) \/ RecvEnd(t) \/ RecvError(t)
  \/ BadSequence(t) \/ Empty(t) \/ NoopOrQuit(t) \/ JustAnswer(t) \/ LogIn(t)
  \/ Echo(t) \/ Change(t) \/ Mark(t) \/ RenameFrom(t) \/ Restart(t)
  \/ ExitApp(t) \/ ListHere(t) \/ Pasv(t) \/ Port(t) \/ Abort(t)
  \/ OpenList(t) \/ OpenFile(t) \/ UsePort(t) \/ AcceptData(t)
  \/ ConnectLegacy(t) \/ NoBuffer(t) \/ StoreBlock(t) \/ RetrieveBlock(t)
  \/ ListBlock(t) \/ Finish(t) \/ Close(t)

(* The other end of a control connection.                                  *)
Peer(c) ==
  /\ conn[c] = "open"
  /\ \E e \in {"closed", "broken"} : conn' = [conn EXCEPT ![c] = e]
  /\ UNCHANGED <<appstate, ftp_working, net, conn_s, ses, received>>

(* The thread is in a call that the other end may let wait for ever.       *)
Waits(t) ==
  \/ At(t, "recv") /\ IsOpen(ses[t])
  \/ At(t, "connect") /\ ses[t].data = "none" /\ ses[t].pasv = "listening"
  \/ At(t, "block") /\ Alive(ses[t])

(* One thread on an accepted connection.                                   *)
SesInit ==
  /\ appstate = 0
  /\ ftp_working = 0
  /\ net = TRUE
  /\ conn = [c \in Conns |-> "open"]
  /\ conn_s \in Conns
  /\ ses = [t \in Threads |-> Fresh("start")]
  /\ received = 0

SesNext == (\E t \in Threads : Client(t)) \/ (\E c \in Conns : Peer(c))

(* A thread that need not wait for the other end goes on.                  *)
SesSpec ==
  /\ SesInit
  /\ [][SesNext]_sesVars
  /\ \A t \in Threads : WF_sesVars(~Waits(t) /\ Client(t))

-----------------------------------------------------------------------------
One(held) == IF held THEN 1 ELSE 0

(* No descriptor is lost but by a 425: the thread holds its three sockets  *)
(* and no other, and after its end none; of the files and directories it   *)
(* opened are open the one of the transfer in hand and at most one for     *)
(* each 425 it answered.                                                   *)
SocketsHeld(s) ==
  s.socks = IF s.pc \in {"off", "start", "exited"} THEN 0
            ELSE One(s.sock # NoSock) + One(s.data # "none")
                                      + One(s.pasv # "none")
FilesHeld(s) ==
  s.files <= s.left + One(s.pc \in {"connect", "block", "finish"})
DescriptorsAccounted ==
  \A t \in Threads : SocketsHeld(ses[t]) /\ FilesHeld(ses[t])

(* When an upload (STOR, APPE) is answered with 226, everything that was   *)
(* received has been written and the data ended in order: a connection     *)
(* that broke, a failed and a short write are all answered with 451.       *)
StoreAnswerIsTrue(s) ==
  s.cmd.name \in {"STOR", "APPE"} /\ s.reply = "226" => ~s.lost
StoreAnswersAreTrue == \A t \in Threads : StoreAnswerIsTrue(ses[t])

(* A transfer over a connection that PASV or PORT set up starts at offset  *)
(* 0 unless a REST came after them: the rest of an earlier transfer, of an *)
(* aborted or a refused one, is not used again.                            *)
StartsAtZero(s) ==
  s.pc = "block" /\ s.data \in {"pasv", "port"} /\ ~s.asked => s.rest = 0
FreshTransfersStartAtZero == \A t \in Threads : StartsAtZero(ses[t])

(* When the client has closed its control connection in order, the thread  *)
(* ends, unless a data connection keeps it waiting or the network goes     *)
(* down first: a thread left over when the server starts again would read  *)
(* its own answers for ever.                                               *)
ClosedSessionEnds ==
  \A t \in Threads :
    IsAtItsEnd(ses[t]) /\ ~At(t, "exited") ~> At(t, "exited") \/ Waits(t) \/ ~net
=============================================================================
