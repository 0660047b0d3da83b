------------------------------ MODULE NosoMain ------------------------------
(***************************************************************************)
(* The program from its start to its end (main in noso-2m.cpp), for any    *)
(* number of pools, in the builds with and without the text interface.     *)
(*                                                                         *)
(* main starts the interface, chooses the options (module Options), gets   *)
(* the network ready, and creates the comm thread of each pool.  It has    *)
(* four resources to give back: the network library, the addrinfo it binds *)
(* sockets to, the threads of the pools and the timer of the interface.    *)
(* A comm thread is what main knows of it: it runs until it is told to     *)
(* stop (BlockMining), and uses the addrinfo for every call.               *)
(***************************************************************************)
EXTENDS Options

VARIABLES
  textui,     \* the build has the text interface: NO_TEXTUI is not defined
  at,         \* where main is
  timer,      \* the timer thread of the text interface runs
  binding,    \* g_binding_address is not empty
  net,        \* the network library: "no", "up", "down"
  bindServ,   \* bind_serv: "null", "made", "freed"
  handler,    \* the handler of SIGINT is installed
  running,    \* g_still_running
  comm,       \* comm_threads: of each thread, whether it runs or has ended
  mined,      \* history: a comm thread ran while g_still_running held
  status      \* the exit status, "none" before the end

mainVars == <<vars, textui, at, timer, binding, net, bindServ, handler,
              running, comm, mined, status>>

Count == Len(chosen.pools)

MainInit ==
  /\ Init
  /\ textui \in BOOLEAN /\ binding \in BOOLEAN
  /\ at = "tui" /\ timer = FALSE
  /\ net = "no" /\ bindServ = "null"
  /\ handler = FALSE /\ running = TRUE
  /\ comm = << >> /\ mined = FALSE /\ status = "none"

-----------------------------------------------------------------------------
(* The end: what a process that exits gives back.                          *)

BugFreed(s) == s
\* if ( bind_serv ) freeaddrinfo( bind_serv )
Freed(s) == IF s = "made" THEN "freed" ELSE s

BugAllEnded == TRUE
\* What the join of every comm thread waits for.
AllEnded == \A i \in DOMAIN comm : comm[i] = "ended"

\* Exit with a status: the destructor of the interface joins the timer.
Exit(s) ==
  /\ at' = "ended" /\ status' = s
  /\ timer' = FALSE

\* std::terminate ends the process on the spot, with every thread in it.
Terminate ==
  /\ at' = "aborted" /\ status' = "failure"
  /\ timer' = FALSE
  /\ comm' = [i \in DOMAIN comm |-> "ended"]

-----------------------------------------------------------------------------
\* The interface: it may have no terminal (before the timer is started), or
\* one that is too small (after it).
StartTUI ==
  /\ at = "tui"
  /\ \/ at' = "options" /\ timer' = textui /\ UNCHANGED status
     \/ textui /\ Exit("failure")
  /\ UNCHANGED <<vars, textui, binding, net, bindServ, handler, running, comm,
                 mined>>

\* process_options, and whether any pool is left.
ProcessOptions ==
  /\ at = "options"
  /\ Next
  /\ UNCHANGED <<textui, at, timer, binding, net, bindServ, handler, running,
                 comm, mined, status>>

\* A bad option: with the interface, after a key.  An exception that is not
\* std::bad_exception is not caught.
OptionsFailed ==
  /\ at = "options"
  /\ \/ pc = "failed" /\ Exit("failure") /\ UNCHANGED comm
     \/ pc = "terminated" /\ Terminate
  /\ UNCHANGED <<vars, textui, binding, net, bindServ, handler, running, mined>>

InetInit ==
  /\ at = "options" /\ pc = "started"
  /\ \/ net' = "up" /\ at' = IF binding THEN "binding" ELSE "handler"
     \/ net' = "no" /\ at' = "catch"
  /\ UNCHANGED <<vars, textui, timer, binding, bindServ, handler, running,
                 comm, mined, status>>

\* inet_local_ipv4 and inet_service.
Bind ==
  /\ at = "binding"
  /\ \/ bindServ' = "made" /\ at' = "handler"
     \/ bindServ' = "null" /\ at' = "catch"
  /\ UNCHANGED <<vars, textui, timer, binding, net, handler, running, comm,
                 mined, status>>

\* Without the interface: signal( SIGINT, ... ).
InstallHandler ==
  /\ at = "handler" /\ ~textui
  /\ handler' = TRUE /\ at' = "create"
  /\ UNCHANGED <<vars, textui, timer, binding, net, bindServ, running, comm,
                 mined, status>>

\* With it: HandleEventLoop, which returns when the user leaves, or throws when
\* the windows cannot be made anew (module TextUI).
EnterLoop ==
  /\ at = "handler" /\ textui
  /\ at' = "loop"
  /\ UNCHANGED <<vars, textui, timer, binding, net, bindServ, handler, running,
                 comm, mined, status>>

LeaveLoop ==
  /\ at = "loop"
  /\ \/ running' = FALSE /\ at' = "create"
     \/ at' = "catch" /\ UNCHANGED running
  /\ UNCHANGED <<vars, textui, timer, binding, net, bindServ, handler, comm,
                 mined, status>>

\* The CCommThread of the next pool, with its mine threads, and its thread.
CreateThread ==
  /\ at = "create" /\ Len(comm) < Count
  /\ comm' = Append(comm, "runs")
  /\ mined' = (mined \/ running)
  /\ UNCHANGED <<vars, textui, at, timer, binding, net, bindServ, handler,
                 running, status>>

\* A std::thread cannot be made.  If it is the first of all, the exception is
\* caught; if not, a thread that nobody joined is destroyed on the way.
CreateFails ==
  /\ at = "create" /\ Len(comm) < Count
  /\ \/ comm = << >> /\ at' = "catch" /\ UNCHANGED <<comm, timer, status>>
     \/ Terminate
  /\ UNCHANGED <<vars, textui, binding, net, bindServ, handler, running, mined>>

\* All are joined, and the rest is given back.
JoinThreads ==
  /\ at = "create" /\ Len(comm) = Count
  /\ AllEnded
  /\ bindServ' = Freed(bindServ)
  /\ net' = "down"
  /\ Exit("success")
  /\ UNCHANGED <<vars, textui, binding, handler, running, comm, mined>>

\* The exceptions of std::exception: with the interface, after a key.
Catch ==
  /\ at = "catch"
  /\ bindServ' = Freed(bindServ)
  /\ net' = "down"
  /\ Exit("failure")
  /\ UNCHANGED <<vars, textui, binding, handler, running, comm, mined>>

Main ==
  \/ StartTUI \/ ProcessOptions \/ OptionsFailed \/ InetInit \/ Bind
  \/ InstallHandler \/ EnterLoop \/ CreateThread \/ CreateFails \/ JoinThreads
  \/ Catch

\* Ctrl+C without the interface, at any time.
Interrupt ==
  /\ handler /\ status = "none"
  /\ running' = FALSE
  /\ UNCHANGED <<vars, textui, at, timer, binding, net, bindServ, handler,
                 comm, mined, status>>

\* A comm thread ends when it is told to, whether it is banned or not.
CommEnds == \E i \in DOMAIN comm :
  /\ comm[i] = "runs" /\ ~running
  /\ comm' = [comm EXCEPT ![i] = "ended"]
  /\ UNCHANGED <<vars, textui, at, timer, binding, net, bindServ, handler,
                 running, mined, status>>

MainNext == Main \/ LeaveLoop \/ Interrupt \/ CommEnds

MainSpec == MainInit /\ [][MainNext]_mainVars

\* main goes on, and a comm thread that is told to stop ends; nobody has to
\* press a key.
MainFairSpec == MainSpec /\ WF_mainVars(Main) /\ WF_mainVars(CommEnds)

-----------------------------------------------------------------------------
(* Properties.                                                             *)

\* A comm thread that is bound to an address runs only while the addrinfo and
\* the network it was given exist: they are freed after the last join, also
\* when Ctrl+C comes before the threads are created, or among them.
ThreadsOutlived ==
  (\E i \in DOMAIN comm : comm[i] = "runs") =>
    net = "up" /\ (binding => bindServ = "made")

\* However the program ends by itself, at the end, by a bad option, an error of
\* the network, of the interface or of a thread, it has given back what it had,
\* and nothing of it runs any more; it reports success only if it was told to
\* stop and has had a thread for each pool.
EndsClean == at = "ended" =>
  /\ ~timer /\ net # "up" /\ bindServ # "made"
  /\ \A i \in DOMAIN comm : comm[i] = "ended"
  /\ status = "success" => ~running /\ pc = "started" /\ Len(comm) = Count

\* The interface serves a miner: "threads - Show hashrate per thread last mining
\* block" (textui.hpp:271), "Press Ctrl+C to stop!" (comm.cpp:239).  A program
\* that got as far as its interface has mined before the user leaves it.
MinesInLoop == at = "loop" ~> mined \/ status = "failure"
=============================================================================
