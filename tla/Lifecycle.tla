------------------------------ MODULE Lifecycle ------------------------------
(***************************************************************************)
(* Start-up and shutdown of the server (src/main.cpp): the threads main    *)
(* starts, the flag each of their loops tests, and the joins.  A signal    *)
(* clears gRunning.  EpollMgr::run and TcpServer::start test a flag of     *)
(* their own, which their stop() would clear; nobody calls EpollMgr::stop, *)
(* and TcpServer::stop only runs when start has returned.                  *)
(*                                                                         *)
(* Of the work the loops do the raw queue is kept, as a number of messages:*)
(* the epoll thread, which is the main thread, blocks in push while it is  *)
(* full.                                                                   *)
(***************************************************************************)
EXTENDS Naturals

CONSTANT Slots  \* bound: messages in rawQueue

VARIABLES
  gRunning,
  epollRunning, acceptRunning,  \* EpollMgr::running, TcpServer::running
  mainAt,     \* "start", "test", "wait", "push", "shutdown", "join matching",
              \* "join gui", "join accept", "complete", or "terminated"
  at,         \* where the other threads are: "none", "setup", "test", "body" or "done"
  queued

lifeVars == <<gRunning, epollRunning, acceptRunning, mainAt, at, queued>>

Threads == {"accept", "matching", "gui"}
Alive == mainAt \notin {"complete", "terminated"}

LifeInit ==
  /\ gRunning = TRUE /\ epollRunning = FALSE /\ acceptRunning = FALSE
  /\ mainAt = "start" /\ at = [t \in Threads |-> "none"] /\ queued = 0

signalHandler ==
  /\ Alive /\ gRunning' = FALSE
  /\ UNCHANGED <<epollRunning, acceptRunning, mainAt, at, queued>>

-----------------------------------------------------------------------------
(* The main thread: starts the others and runs the epoll loop.             *)

main_start ==
  /\ mainAt = "start"
  /\ at' = [t \in Threads |-> IF t = "accept" THEN "setup" ELSE "test"]
  /\ epollRunning' = TRUE
  /\ mainAt' = "test"
  /\ UNCHANGED <<gRunning, acceptRunning, queued>>

EpollMgr_test ==
  /\ mainAt = "test"
  /\ mainAt' = IF epollRunning THEN "wait" ELSE "shutdown"
  /\ UNCHANGED <<gRunning, epollRunning, acceptRunning, at, queued>>

(* epoll_wait returns, after 100 ms at the latest, with or without data.   *)
EpollMgr_wait ==
  /\ mainAt = "wait"
  /\ mainAt' \in {"test", "push"}
  /\ UNCHANGED <<gRunning, epollRunning, acceptRunning, at, queued>>

rawQueue_push ==
  /\ mainAt = "push" /\ queued < Slots
  /\ queued' = queued + 1
  /\ mainAt' = "test"
  /\ UNCHANGED <<gRunning, epollRunning, acceptRunning, at>>

(* "Exchange shutting down".                                               *)
main_shutdown ==
  /\ mainAt = "shutdown"
  /\ gRunning' = FALSE
  /\ mainAt' = "join matching"
  /\ UNCHANGED <<epollRunning, acceptRunning, at, queued>>

join(here, t, next) ==
  /\ mainAt = here /\ at[t] = "done"
  /\ mainAt' = next
  /\ UNCHANGED <<gRunning, epollRunning, acceptRunning, at, queued>>

MainThread ==
  \/ main_start \/ EpollMgr_test \/ EpollMgr_wait \/ rawQueue_push \/ main_shutdown
  \/ join("join matching", "matching", "join gui")
  \/ join("join gui", "gui", "join accept")
  \/ join("join accept", "accept", "complete")

-----------------------------------------------------------------------------
(* The accept thread.                                                      *)

(* An exception from socket, bind or listen is not caught and ends the     *)
(* process.                                                                *)
TcpServer_setup ==
  /\ Alive /\ at["accept"] = "setup"
  /\ \/ at' = [at EXCEPT !["accept"] = "test"] /\ acceptRunning' = TRUE /\ UNCHANGED mainAt
     \/ mainAt' = "terminated" /\ UNCHANGED <<at, acceptRunning>>
  /\ UNCHANGED <<gRunning, epollRunning, queued>>

(* accept returns a connection, whose handler is detached, or an error.    *)
TcpServer_start ==
  /\ Alive
  /\ \/ /\ at["accept"] = "test"
        /\ at' = [at EXCEPT !["accept"] = IF acceptRunning THEN "body" ELSE "done"]
     \/ /\ at["accept"] = "body"
        /\ at' = [at EXCEPT !["accept"] = "test"]
  /\ UNCHANGED <<gRunning, epollRunning, acceptRunning, mainAt, queued>>

-----------------------------------------------------------------------------
(* The matching thread pops and answers; the GUI thread sleeps and prints. *)

loop_test(t) ==
  /\ Alive /\ at[t] = "test"
  /\ at' = [at EXCEPT ![t] = IF gRunning THEN "body" ELSE "done"]
  /\ UNCHANGED <<gRunning, epollRunning, acceptRunning, mainAt, queued>>

loop_body(t) ==
  /\ Alive /\ at[t] = "body"
  /\ at' = [at EXCEPT ![t] = "test"]
  /\ queued' = IF t = "matching" /\ queued > 0 THEN queued - 1 ELSE queued
  /\ UNCHANGED <<gRunning, epollRunning, acceptRunning, mainAt>>

MatchingThread == loop_test("matching") \/ loop_body("matching")
GuiThread      == loop_test("gui") \/ loop_body("gui")

LifeNext ==
  \/ signalHandler \/ MainThread \/ TcpServer_setup \/ TcpServer_start
  \/ MatchingThread \/ GuiThread

(* Every thread keeps running, and clients keep connecting, so that accept *)
(* returns.                                                                *)
LifeFairSpec ==
  /\ LifeInit /\ [][LifeNext]_lifeVars
  /\ WF_lifeVars(MainThread) /\ WF_lifeVars(TcpServer_setup) /\ WF_lifeVars(TcpServer_start)
  /\ WF_lifeVars(MatchingThread) /\ WF_lifeVars(GuiThread)

-----------------------------------------------------------------------------
(* After SIGINT or SIGTERM main comes to print "Exchange shutting down"    *)
(* and "Exchange shutdown complete" and return (main.cpp:49-57).           *)
ShutdownCompletes == ~gRunning ~> ~Alive

=============================================================================
