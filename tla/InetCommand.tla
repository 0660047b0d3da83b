---------------------------- MODULE InetCommand -----------------------------
(***************************************************************************)
(* A request to a pool (RequestPoolTarget in comm.cpp, inet_service,       *)
(* inet_socket, inet_send, inet_recv and inet_command in inet.cpp): the    *)
(* name of the pool is resolved, its addresses are tried one after the     *)
(* other until one can be connected to, the command is sent, one part of   *)
(* the answer is read, and the socket is closed.                           *)
(*                                                                         *)
(* The comm threads of several pools do so at the same time.  A socket is  *)
(* a number in a table of the process, and the lowest free one is given    *)
(* out: a thread that closes a number it does not own closes the socket of *)
(* another.  This is the system's table, as on Linux, where select also    *)
(* leaves in timeout the time that it did not use.                         *)
(***************************************************************************)
EXTENDS PoolStatus

CONSTANTS
  Threads,     \* the comm threads
  T,           \* DEFAULT_POOL_INET_TIMEOSEC
  Addresses,   \* the most addresses that a pool has
  Answers,     \* what a pool may answer: [lens : tokens, payment : its parts]
  BufferSize,  \* DEFAULT_INET_BUFFER_SIZE
  Free         \* the owner of a number that is not in use

ASSUME InetAssumption ==
  /\ T \in Nat \ {0} /\ Addresses \in Nat \ {0}
  /\ BufferSize \in Nat /\ IsFiniteSet(Threads) /\ Free \notin Threads
  /\ \A a \in Answers : a.lens \in [DOMAIN Order -> Nat]

Numbers == 1 .. Cardinality(Threads)
NoSocket == 0
NoStatus == << >>

VARIABLES
  pc,           \* where a thread is in its request
  psi,          \* how many addresses are left, the one that is tried included
  sock,         \* sockfd
  left,         \* timeout of inet_socket: what is left of it
  waited,       \* history: the time the request has waited
  status,       \* what RequestPoolTarget has made of the answer
  owner,        \* the table: who has opened each number
  interrupted   \* history: the threads whose socket was closed before their time

privateVars == <<pc, psi, sock, left, waited, status>>
vars == <<privateVars, owner, interrupted>>

-----------------------------------------------------------------------------
\* close(sockfd), by whoever: the number is free.
inet_close_socket(t) == [owner EXCEPT ![sock[t]] = Free]

\* Where a failing select leads: a thread that was interrupted closes the socket
\* of whoever has its number by now, and has no socket then.
Interrupted(t) ==
  (IF t \in interrupted THEN interrupted \cup {owner[sock[t]]} ELSE interrupted)
    \ {t, Free}

BugTimeLeft(t, d) == T
\* What select leaves of the timeout after it has waited d.
TimeLeft(t, d) == left[t] - d

BugNextAddress(t) == psi[t]
BugSkippedAddress(t) == psi[t] - 2
\* psi = psi->ai_next.
NextAddress(t) == psi[t] - 1

BugStillSet(n) == TRUE
\* The socket is still in the sets after select returned n: they are cleared
\* when the time is over, not when select fails.
StillSet(n) == n # 0

Init ==
  /\ pc = [t \in Threads |-> "idle"]
  /\ psi = [t \in Threads |-> 0] /\ sock = [t \in Threads |-> NoSocket]
  /\ left = [t \in Threads |-> 0] /\ waited = [t \in Threads |-> 0]
  /\ status = [t \in Threads |-> NoStatus]
  /\ owner = [f \in Numbers |-> Free]
  /\ interrupted = {}

\* inet_service knows the pool.  (If not, the request has failed before it
\* waits for anything; while getaddrinfo says EAI_AGAIN it is asked again.)
Resolve(t) ==
  /\ pc[t] = "idle"
  /\ pc' = [pc EXCEPT ![t] = "address"]
  /\ \E n \in 1 .. Addresses : psi' = [psi EXCEPT ![t] = n]
  /\ left' = [left EXCEPT ![t] = T]
  /\ waited' = [waited EXCEPT ![t] = 0]
  /\ status' = [status EXCEPT ![t] = NoStatus]
  /\ UNCHANGED <<sock, owner, interrupted>>

\* No socket can be had for this address.
SocketFails(t) ==
  /\ pc[t] = "address" /\ psi[t] > 0
  /\ psi' = [psi EXCEPT ![t] = NextAddress(t)]
  /\ UNCHANGED <<pc, sock, left, waited, status, owner, interrupted>>

Socket(t) ==
  /\ pc[t] = "address" /\ psi[t] > 0
  /\ \E f \in Numbers :
       /\ owner[f] = Free /\ \A g \in 1 .. f - 1 : owner[g] # Free
       /\ sock' = [sock EXCEPT ![t] = f]
       /\ owner' = [owner EXCEPT ![f] = t]
  /\ pc' = [pc EXCEPT ![t] = "opened"]
  /\ UNCHANGED <<psi, left, waited, status, interrupted>>

\* inet_bind, inet_set_nonblock and connect: done, begun, or one has failed.
Connect(t) ==
  /\ pc[t] = "opened"
  /\ \E next \in {"send", "select", "failed"} :
       pc' = [pc EXCEPT ![t] = next]
  /\ UNCHANGED <<psi, sock, left, waited, status, owner, interrupted>>

\* The select of inet_socket; the socket is closed if it returns 0 or -1.
Select(t) ==
  /\ pc[t] = "select"
  /\ \E n \in {-1, 0, 1}, d \in 0 .. left[t] :
       /\ n = 0 => d = left[t]
       /\ left' = [left EXCEPT ![t] = TimeLeft(t, d)]
       /\ waited' = [waited EXCEPT ![t] = @ + d]
       /\ owner' = IF n <= 0 THEN inet_close_socket(t) ELSE owner
       /\ interrupted' = IF n = 1 THEN interrupted
                         ELSE IF n = 0 THEN Interrupted(t)
                         ELSE Interrupted(t) \cup {t}
       /\ IF StillSet(n)
            THEN pc' = [pc EXCEPT ![t] = "getsockopt"] /\ UNCHANGED psi
            ELSE /\ pc' = [pc EXCEPT ![t] = "address"]
                 /\ psi' = [psi EXCEPT ![t] = NextAddress(t)]
  /\ UNCHANGED <<sock, status>>

\* Is there an error on the socket?  There is one if the number is free, and
\* nobody knows if it is the socket of another thread by now.
GetSockOpt(t) ==
  /\ pc[t] = "getsockopt"
  /\ \/ pc' = [pc EXCEPT ![t] = "failed"]
     \/ owner[sock[t]] # Free /\ pc' = [pc EXCEPT ![t] = "send"]
  /\ UNCHANGED <<psi, sock, left, waited, status, owner, interrupted>>

BugDiscarded(t) == owner
\* The table when a socket that could not be connected is given up.
Discarded(t) == inet_close_socket(t)

Discard(t) ==
  /\ pc[t] = "failed"
  /\ owner' = Discarded(t)
  /\ interrupted' = Interrupted(t)
  /\ psi' = [psi EXCEPT ![t] = NextAddress(t)]
  /\ pc' = [pc EXCEPT ![t] = "address"]
  /\ UNCHANGED <<sock, left, waited, status>>

\* No address is left: -1.
NoAddress(t) ==
  /\ pc[t] = "address" /\ psi[t] = 0
  /\ pc' = [pc EXCEPT ![t] = "idle"]
  /\ UNCHANGED <<psi, sock, left, waited, status, owner, interrupted>>

\* inet_send waits T at most, and succeeds or not.
Send(t) ==
  /\ pc[t] = "send"
  /\ \E d \in 0 .. T : waited' = [waited EXCEPT ![t] = @ + d]
  /\ \E next \in {"recv", "close"} : pc' = [pc EXCEPT ![t] = next]
  /\ UNCHANGED <<psi, sock, left, status, owner, interrupted>>

\* What CPoolStatus may make of what was read: the last two characters are
\* erased, whatever they are, and it throws if there is only one.
StatusesRead ==
  {Status(p[1].lens, p[2] - 2) : p \in
     {p \in Answers \X (2 .. BufferSize - 1) :
        /\ p[2] <= Characters(p[1].lens) + 2
        /\ Understood(p[1].lens, p[1].payment, p[2] - 2)}}

\* inet_recv waits T at most, and reads nothing, or some first characters of an
\* answer.  CPoolStatus takes them apart when the socket is closed, and needs
\* nothing else for it.
Recv(t) ==
  /\ pc[t] = "recv"
  /\ \E d \in 0 .. T : waited' = [waited EXCEPT ![t] = @ + d]
  /\ \/ UNCHANGED status
     \/ \E s \in StatusesRead : status' = [status EXCEPT ![t] = s]
  /\ pc' = [pc EXCEPT ![t] = "close"]
  /\ UNCHANGED <<psi, sock, left, owner, interrupted>>

\* inet_command closes the socket, and RequestPoolTarget returns.
Close(t) ==
  /\ pc[t] = "close"
  /\ owner' = inet_close_socket(t)
  /\ interrupted' = Interrupted(t)
  /\ pc' = [pc EXCEPT ![t] = "idle"]
  /\ UNCHANGED <<psi, sock, left, waited, status>>

\* What a thread does of itself once a request is begun.
Proceed(t) ==
  \/ SocketFails(t) \/ Socket(t) \/ Connect(t) \/ Select(t) \/ GetSockOpt(t)
  \/ Discard(t) \/ NoAddress(t) \/ Send(t) \/ Recv(t) \/ Close(t)

Next == \E t \in Threads : Resolve(t) \/ Proceed(t)

Spec == Init /\ [][Next]_vars
FairSpec == Spec /\ \A t \in Threads : WF_vars(Proceed(t))

-----------------------------------------------------------------------------
(* Properties.                                                             *)

\* The types of the variables.
TypeOK ==
  /\ pc \in [Threads -> {"idle", "address", "opened", "select", "getsockopt",
                         "failed", "send", "recv", "close"}]
  /\ psi \in [Threads -> 0 .. Addresses]
  /\ sock \in [Threads -> Numbers \cup {NoSocket}]
  /\ left \in [Threads -> 0 .. T]
  /\ waited \in [Threads -> Nat]
  /\ owner \in [Numbers -> Threads \cup {Free}]
  /\ interrupted \subseteq Threads

HasSocket(t) == pc[t] \in {"opened", "select", "getsockopt", "failed",
                           "send", "recv", "close"}

\* No socket is left open: what is open is the socket of a thread that is using
\* it and will close it, however the request goes, even after a thread has
\* closed the socket of another.
NoSocketLeft ==
  \A f \in Numbers :
    owner[f] # Free => HasSocket(owner[f]) /\ sock[owner[f]] = f

\* A thread uses only the socket it has opened: no command goes to another pool,
\* and no socket is closed under its owner.  The exception is a thread whose
\* select has failed, and one that such a thread, closing its socket a second
\* time, has made an exception; with the next socket it opens it is none any
\* more.
OwnSocket ==
  \A t \in Threads :
    HasSocket(t) /\ t \notin interrupted => owner[sock[t]] = t

\* A request waits 3 * T at most, one T for the connection, however many
\* addresses are tried, one for sending and one for the answer.
CallBounded == \A t \in Threads : waited[t] <= 3 * T

\* A target is made only of an answer that has come whole but for its last
\* token: each other field is the one that the pool has sent under that name.
\* No answer that is cut is taken for a whole one, although CPoolStatus reads
\* past its end.
AcceptedAsSent ==
  \A t \in Threads : status[t] # NoStatus =>
    \E a \in Answers : \A f \in DOMAIN FieldNo :
      LET token == status[t][f] IN
        /\ Order[token.at] = f
        /\ token.len = a.lens[token.at] \/ f = "max_shares"

\* A request that has begun comes to its end.
CallEnds == \A t \in Threads : pc[t] # "idle" ~> pc[t] = "idle"
=============================================================================
