------------------------- MODULE InetCommand_proofs -------------------------
(***************************************************************************)
(* The sockets of the requests and the time they wait, for any number of   *)
(* comm threads, addresses of a pool and seconds of the timeout.           *)
(*                                                                         *)
(* A socket is closed in four places; what has to be shown is that each of *)
(* them is reached with a socket of the thread that closes it, or after a  *)
(* select has failed, and that what is left of the timeout is what has not *)
(* been waited.                                                            *)
(***************************************************************************)
EXTENDS InetCommand, FiniteSetTheorems, WellFoundedInduction, TLAPS

\* While an address is tried; and when a socket for it is open.
Connecting == {"address", "opened", "select", "getsockopt", "failed"}

\* An address is tried while there is one, and a thread that has a socket knows
\* its number.
AddressTried == \A t \in Threads :
  /\ pc[t] \in Connecting \ {"address"} => psi[t] > 0
  /\ HasSocket(t) => sock[t] \in Numbers

\* The timeout of a connection is what it has waited and what is left.
TimeShared == \A t \in Threads :
  /\ pc[t] \in Connecting => waited[t] + left[t] = T
  /\ pc[t] = "send" => waited[t] <= T
  /\ pc[t] = "recv" => waited[t] <= 2 * T
  /\ waited[t] <= 3 * T

RequestInv == TypeOK /\ AddressTried /\ NoSocketLeft /\ OwnSocket /\ TimeShared

-----------------------------------------------------------------------------
\* The steps in which a thread opens no socket and closes none.
Calls(t) ==
  Resolve(t) \/ SocketFails(t) \/ Connect(t) \/ GetSockOpt(t) \/ NoAddress(t)
  \/ Send(t) \/ Recv(t)

LEMMA InitRequest == Init => RequestInv
<1> SUFFICES ASSUME Init PROVE RequestInv
  OBVIOUS
<1> USE InetAssumption DEF Init
<1>1. TypeOK
  <2>1. /\ pc \in [Threads -> {"idle"}] /\ psi \in [Threads -> 0 .. Addresses]
        /\ left \in [Threads -> 0 .. T] /\ waited \in [Threads -> Nat]
    OBVIOUS
  <2>2. /\ sock \in [Threads -> Numbers \cup {NoSocket}]
        /\ owner \in [Numbers -> Threads \cup {Free}]
    OBVIOUS
  <2> QED  BY <2>1, <2>2 DEF TypeOK
<1>2. AddressTried /\ OwnSocket
  BY DEF AddressTried, OwnSocket, HasSocket, Connecting
<1>3. NoSocketLeft
  BY DEF NoSocketLeft
<1>4. TimeShared
  BY DEF TimeShared, Connecting
<1> QED  BY <1>1, <1>2, <1>3, <1>4 DEF RequestInv

LEMMA StepTypes ==
  ASSUME RequestInv, NEW t \in Threads, Resolve(t) \/ Proceed(t)
  PROVE  TypeOK'
<1> USE InetAssumption DEF RequestInv, TypeOK, AddressTried, HasSocket, Connecting
<1>1. CASE Resolve(t)
  BY <1>1 DEF Resolve
<1>2. CASE SocketFails(t)
  BY <1>2 DEF SocketFails, NextAddress
<1>3. CASE Socket(t)
  BY <1>3 DEF Socket
<1>4. CASE Connect(t)
  BY <1>4 DEF Connect
<1>5. CASE Select(t)
  BY <1>5 DEF Select, NextAddress, TimeLeft, inet_close_socket, Interrupted
<1>6. CASE GetSockOpt(t)
  BY <1>6 DEF GetSockOpt
<1>7. CASE Discard(t)
  BY <1>7 DEF Discard, Discarded, NextAddress, inet_close_socket, Interrupted
<1>8. CASE NoAddress(t)
  BY <1>8 DEF NoAddress
<1>9. CASE Send(t)
  BY <1>9 DEF Send
<1>10. CASE Recv(t)
  BY <1>10 DEF Recv
<1>11. CASE Close(t)
  BY <1>11 DEF Close, inet_close_socket, Interrupted
<1> QED
  BY <1>1, <1>2, <1>3, <1>4, <1>5, <1>6, <1>7, <1>8, <1>9, <1>10, <1>11 DEF Proceed

LEMMA StepAddress ==
  ASSUME RequestInv, NEW t \in Threads, Resolve(t) \/ Proceed(t)
  PROVE  AddressTried'
<1> USE InetAssumption DEF RequestInv, TypeOK, AddressTried, HasSocket, Connecting
<1>1. CASE Calls(t)
  BY <1>1 DEF Calls, Resolve, SocketFails, Connect, GetSockOpt, NoAddress, Send, Recv
<1>2. CASE Socket(t)
  BY <1>2 DEF Socket
<1>3. CASE Select(t)
  BY <1>3 DEF Select
<1>4. CASE Discard(t) \/ Close(t)
  BY <1>4 DEF Discard, Close
<1> QED  BY <1>1, <1>2, <1>3, <1>4 DEF Proceed, Calls

\* No socket is left open.
LEMMA StepNoSocketLeft ==
  ASSUME RequestInv, NEW t \in Threads, Resolve(t) \/ Proceed(t)
  PROVE  NoSocketLeft'
<1> USE DEF RequestInv, TypeOK, AddressTried, NoSocketLeft, HasSocket
<1>1. CASE Calls(t)
  BY <1>1 DEF Calls, Resolve, SocketFails, Connect, GetSockOpt, NoAddress, Send, Recv
<1>2. CASE Socket(t)
  BY <1>2 DEF Socket
<1>3. CASE Select(t)
  BY <1>3 DEF Select, StillSet, inet_close_socket
<1>4. CASE Discard(t) \/ Close(t)
  BY <1>4 DEF Discard, Discarded, Close, inet_close_socket
<1> QED  BY <1>1, <1>2, <1>3, <1>4 DEF Proceed, Calls

\* A thread that closes what it takes for its socket takes no other thread's
\* socket away, but of those it makes interrupted.
LEMMA OthersKeep ==
  ASSUME RequestInv, NEW t \in Threads, HasSocket(t),
         NEW u \in Threads, u # t, HasSocket(u), u \notin Interrupted(t)
  PROVE  inet_close_socket(t)[sock[u]] = u
<1>1. u # Free /\ sock[u] \in Numbers /\ sock[t] \in Numbers
  BY InetAssumption DEF RequestInv, AddressTried
<1>2. u \notin interrupted /\ (t \in interrupted => owner[sock[t]] # u)
  BY <1>1 DEF Interrupted
<1>3. owner[sock[u]] = u /\ (t \notin interrupted => owner[sock[t]] = t)
  BY <1>2 DEF RequestInv, OwnSocket
<1>4. sock[u] # sock[t]
  BY <1>2, <1>3
<1> QED  BY <1>1, <1>3, <1>4 DEF RequestInv, TypeOK, inet_close_socket

\* A thread that was not interrupted uses the socket it has opened.
LEMMA StepOwnSocket ==
  ASSUME RequestInv, NEW t \in Threads, Resolve(t) \/ Proceed(t)
  PROVE  OwnSocket'
<1> USE DEF RequestInv, TypeOK, AddressTried, OwnSocket, HasSocket
<1>1. CASE Calls(t)
  BY <1>1 DEF Calls, Resolve, SocketFails, Connect, GetSockOpt, NoAddress, Send, Recv
<1>2. CASE Socket(t)
  BY <1>2, InetAssumption DEF Socket
<1>3. CASE Select(t) \/ Discard(t) \/ Close(t)
  <2>1. \/ UNCHANGED <<owner, interrupted, sock>> /\ pc[t] = "select"
           /\ \A u \in Threads : u # t => pc'[u] = pc[u]
        \/ /\ HasSocket(t) /\ UNCHANGED sock /\ owner' = inet_close_socket(t)
           /\ \A u \in Threads : u # t => pc'[u] = pc[u]
           /\ Interrupted(t) \subseteq interrupted'
           /\ ~HasSocket(t)' \/ t \in interrupted'
    <3>1. CASE Select(t)
      <4>1. PICK n \in {-1, 0, 1} :
              /\ owner' = IF n <= 0 THEN inet_close_socket(t) ELSE owner
              /\ interrupted' = IF n = 1 THEN interrupted
                                ELSE IF n = 0 THEN Interrupted(t)
                                ELSE Interrupted(t) \cup {t}
              /\ IF StillSet(n) THEN pc' = [pc EXCEPT ![t] = "getsockopt"]
                                ELSE pc' = [pc EXCEPT ![t] = "address"]
              /\ pc[t] = "select" /\ UNCHANGED sock
        BY <3>1 DEF Select
      <4>2. \A u \in Threads : u # t => pc'[u] = pc[u]
        BY <4>1
      <4>3. CASE n = 1
        BY <4>1, <4>2, <4>3
      <4>4. CASE n = 0
        BY <4>1, <4>2, <4>4 DEF StillSet
      <4>5. CASE n = -1
        BY <4>1, <4>2, <4>5
      <4> QED  BY <4>3, <4>4, <4>5
    <3>2. CASE Discard(t) \/ Close(t)
      BY <3>2 DEF Discard, Discarded, Close
    <3> QED  BY <1>3, <3>1, <3>2
  <2>2. SUFFICES ASSUME NEW u \in Threads, HasSocket(u)', u \notin interrupted'
                 PROVE  owner'[sock'[u]] = u
    OBVIOUS
  <2> HIDE DEF RequestInv
  <2>3. CASE UNCHANGED <<owner, interrupted, sock>> /\ pc[t] = "select"
             /\ \A x \in Threads : x # t => pc'[x] = pc[x]
    BY <2>2, <2>3 DEF RequestInv
  <2>4. CASE /\ HasSocket(t) /\ UNCHANGED sock /\ owner' = inet_close_socket(t)
             /\ \A x \in Threads : x # t => pc'[x] = pc[x]
             /\ Interrupted(t) \subseteq interrupted'
             /\ ~HasSocket(t)' \/ t \in interrupted'
    <3>1. u # t
      BY <2>2, <2>4
    <3>2. HasSocket(u) /\ u \notin Interrupted(t)
      BY <2>2, <2>4, <3>1
    <3> HIDE DEF HasSocket
    <3> QED  BY <2>4, <3>1, <3>2, OthersKeep
  <2> QED  BY <2>1, <2>3, <2>4
<1> QED  BY <1>1, <1>2, <1>3 DEF Proceed, Calls

LEMMA StepTime ==
  ASSUME RequestInv, NEW t \in Threads, Resolve(t) \/ Proceed(t)
  PROVE  TimeShared'
<1> USE InetAssumption DEF RequestInv, TypeOK, TimeShared, Connecting
<1>1. CASE Resolve(t) \/ SocketFails(t) \/ Socket(t) \/ Connect(t)
  BY <1>1 DEF Resolve, SocketFails, Socket, Connect
<1>2. CASE Select(t)
  BY <1>2 DEF Select, TimeLeft
<1>3. CASE GetSockOpt(t) \/ Discard(t) \/ NoAddress(t)
  BY <1>3 DEF GetSockOpt, Discard, NoAddress
<1>4. CASE Send(t)
  BY <1>4 DEF Send
<1>5. CASE Recv(t)
  BY <1>5 DEF Recv
<1>6. CASE Close(t)
  BY <1>6 DEF Close
<1> QED  BY <1>1, <1>2, <1>3, <1>4, <1>5, <1>6 DEF Proceed

LEMMA RequestInvariant == Spec => []RequestInv
<1>1. RequestInv /\ [Next]_vars => RequestInv'
  <2> SUFFICES ASSUME RequestInv, [Next]_vars PROVE RequestInv'
    OBVIOUS
  <2>1. CASE Next
    BY <2>1, StepTypes, StepAddress, StepNoSocketLeft, StepOwnSocket, StepTime
    DEF Next, RequestInv
  <2>2. CASE UNCHANGED vars
    BY <2>2
    DEF vars, privateVars, RequestInv, TypeOK, AddressTried, NoSocketLeft, OwnSocket,
        TimeShared, HasSocket
  <2> QED  BY <2>1, <2>2
<1> QED  BY <1>1, InitRequest, PTL DEF Spec

-----------------------------------------------------------------------------
\* The types: a thread is at one of its addresses, and has no more time left than
\* its timeout.
THEOREM RequestTyped == Spec => []TypeOK
BY RequestInvariant, PTL DEF RequestInv

\* However a request goes, and even after a thread has closed the socket of
\* another, each open socket is in use by the thread that opened it.
THEOREM NoSocketIsLeft == Spec => []NoSocketLeft
BY RequestInvariant, PTL DEF RequestInv

\* A thread uses or closes the socket of another only if its own select has
\* failed, or if it has lost its socket to a thread of which this is true; and
\* only until it opens its next one.
THEOREM SocketIsOwn == Spec => []OwnSocket
BY RequestInvariant, PTL DEF RequestInv

\* A request waits for three timeouts at most, for any number of addresses.
THEOREM CallIsBounded == Spec => []CallBounded
<1>1. RequestInv => CallBounded
  BY DEF RequestInv, TimeShared, CallBounded
<1> QED  BY <1>1, RequestInvariant, PTL

-----------------------------------------------------------------------------
(* Where the tokens of an answer begin.                                    *)

IsStart(g, lens) ==
  g = [k \in DOMAIN lens |-> IF k = 1 THEN 0 ELSE g[k - 1] + lens[k - 1] + 1]

\* Induction, for a set of natural numbers.
LEMMA NatInductionSet ==
  ASSUME NEW S \in SUBSET Nat, 0 \in S, \A n \in S : n + 1 \in S
  PROVE  S = Nat
<1> SUFFICES ASSUME Nat \ S # {} PROVE FALSE
  OBVIOUS
<1>1. PICK x \in Nat \ S : \A y \in Nat \ S : ~(<<y, x>> \in OpToRel(<, Nat))
  BY NatLessThanWellFounded, WFMin
<1>2. \A y \in Nat \ S : ~(y < x)
  BY <1>1 DEF OpToRel
<1>3. x # 0 /\ x - 1 \in Nat
  BY <1>2
<1>4. x - 1 \in S
  BY <1>2, <1>3
<1> QED  BY <1>2, <1>3, <1>4

\* The positions exist: those of the first tokens can be gone on with.
LEMMA StartsExist ==
  ASSUME NEW n \in Nat, NEW lens \in [1 .. n -> Nat]
  PROVE  \E g : IsStart(g, lens)
<1> DEFINE First(g, k) ==
             g = [i \in 1 .. k |-> IF i = 1 THEN 0 ELSE g[i - 1] + lens[i - 1] + 1]
           Good == {k \in Nat : \E g : First(g, k)}
<1>1. 0 \in Good
  <2> DEFINE e == [i \in 1 .. 0 |-> 0]
  <2>1. First(e, 0)
    OBVIOUS
  <2> QED  BY <2>1
<1>2. ASSUME NEW k \in Good PROVE k + 1 \in Good
  <2>1. PICK g : First(g, k)
    OBVIOUS
  <2> DEFINE h == [i \in 1 .. k + 1 |->
                     IF i = 1 THEN 0 ELSE g[i - 1] + lens[i - 1] + 1]
  <2>2. \A i \in 1 .. k : h[i] = g[i]
    BY <2>1
  <2>3. \A i \in 1 .. k + 1 : i # 1 => i - 1 \in 1 .. k
    OBVIOUS
  <2>4. First(h, k + 1)
    BY <2>2, <2>3
  <2>5. k + 1 \in Nat
    OBVIOUS
  <2> HIDE DEF h, First
  <2> QED  BY <2>4, <2>5
<1>3. Good = Nat
  <2> HIDE DEF Good
  <2>1. Good \in SUBSET Nat
    BY DEF Good
  <2> QED  BY <1>1, <1>2, <2>1, NatInductionSet
<1>4. PICK g : First(g, n)
  BY <1>3
<1>5. DOMAIN lens = 1 .. n
  OBVIOUS
<1> QED  BY <1>4, <1>5 DEF IsStart

\* A token begins after the one before it.
LEMMA Starts ==
  ASSUME NEW n \in Nat, NEW lens \in [1 .. n -> Nat], NEW k \in 1 .. n
  PROVE  Start(lens, k) = IF k = 1 THEN 0 ELSE Start(lens, k - 1) + lens[k - 1] + 1
<1> DEFINE g == CHOOSE h : IsStart(h, lens)
<1>1. IsStart(g, lens)
  BY StartsExist, Zenon
<1>2. \A i : Start(lens, i) = g[i]
  BY DEF Start, IsStart
<1>3. DOMAIN lens = 1 .. n
  OBVIOUS
<1>4. g[k] = IF k = 1 THEN 0 ELSE g[k - 1] + lens[k - 1] + 1
  <2> HIDE DEF g
  <2> QED  BY <1>1, <1>3 DEF IsStart
<1> QED  BY <1>2, <1>4

\* The positions are natural numbers and grow.
LEMMA StartsGrow ==
  ASSUME NEW n \in Nat, NEW lens \in [1 .. n -> Nat]
  PROVE  /\ \A i \in 1 .. n : Start(lens, i) \in Nat
         /\ \A i, j \in 1 .. n : i < j => Start(lens, i) + lens[i] < Start(lens, j)
<1> DEFINE Good == {k \in Nat :
             /\ \A i \in 1 .. n : i <= k => Start(lens, i) \in Nat
             /\ \A i, j \in 1 .. n : i < j /\ j <= k =>
                  Start(lens, i) + lens[i] < Start(lens, j)}
<1>1. 0 \in Good
  OBVIOUS
<1>2. ASSUME NEW k \in Good PROVE k + 1 \in Good
  <2>0. k \in Nat /\ k + 1 \in Nat
    OBVIOUS
  <2>1. CASE ~(k + 1 \in 1 .. n)
    BY <2>0, <2>1
  <2>2. CASE k + 1 \in 1 .. n /\ k = 0
    <3>1. Start(lens, 1) = 0
      BY <2>2, Starts
    <3> QED  BY <2>2, <3>1
  <2>3. CASE k + 1 \in 1 .. n /\ k # 0
    <3>0. k \in 1 .. n /\ k + 1 # 1 /\ (k + 1) - 1 = k
      BY <2>0, <2>3
    <3>1. Start(lens, k + 1) = Start(lens, k) + lens[k] + 1
      BY <2>3, <3>0, Starts
    <3>2. Start(lens, k) \in Nat /\ lens[k] \in Nat
      BY <3>0
    <3>3. Start(lens, k + 1) \in Nat /\ Start(lens, k) + lens[k] < Start(lens, k + 1)
      BY <3>1, <3>2
    <3>4. ASSUME NEW i \in 1 .. n, i < k + 1
          PROVE  Start(lens, i) + lens[i] < Start(lens, k + 1)
      <4>1. CASE i = k
        BY <3>3, <4>1
      <4>2. CASE i < k
        <5>1. Start(lens, i) + lens[i] < Start(lens, k)
          BY <3>0, <4>2
        <5>2. Start(lens, i) \in Nat /\ lens[i] \in Nat
          BY <4>2
        <5> QED  BY <3>2, <3>3, <5>1, <5>2
      <4> QED  BY <2>0, <3>4, <4>1, <4>2
    <3>5. \A i \in 1 .. n : i <= k + 1 => i <= k \/ i = k + 1
      BY <2>0
    <3>6. \A i \in 1 .. n : i <= k + 1 => Start(lens, i) \in Nat
      BY <3>3, <3>5
    <3>7. \A i, j \in 1 .. n : i < j /\ j <= k + 1 =>
            Start(lens, i) + lens[i] < Start(lens, j)
      BY <3>4, <3>5
    <3> QED  BY <2>0, <3>6, <3>7
  <2> QED  BY <2>1, <2>2, <2>3
<1>3. Good = Nat
  <2>1. Good \in SUBSET Nat
    OBVIOUS
  <2> HIDE DEF Good
  <2> QED  BY <1>1, <1>2, <2>1, NatInductionSet
<1>4. n \in Good
  BY <1>3
<1> QED  BY <1>4

\* The tokens that begin in the first m characters are the first ones.
LEMMA TokensBegun ==
  ASSUME NEW n \in Nat \ {0}, NEW lens \in [1 .. n -> Nat], NEW m \in Nat
  PROVE  \E k \in 1 .. n :
           /\ {i \in DOMAIN lens : Start(lens, i) <= m} = 1 .. k
           /\ Cardinality(1 .. k) = k
<1> DEFINE B == {i \in 1 .. n : Start(lens, i) <= m}
<1>0. DOMAIN lens = 1 .. n
  OBVIOUS
<1>1. 1 \in B
  BY Starts
<1>2. \A i, j \in 1 .. n : i < j /\ j \in B => i \in B
  <2> SUFFICES ASSUME NEW i \in 1 .. n, NEW j \in B, i < j
               PROVE  Start(lens, i) <= m
    OBVIOUS
  <2>1. Start(lens, i) + lens[i] < Start(lens, j)
    BY StartsGrow
  <2>2. Start(lens, i) \in Nat /\ Start(lens, j) \in Nat /\ lens[i] \in Nat
    BY StartsGrow
  <2>3. Start(lens, j) <= m
    OBVIOUS
  <2> QED  BY <2>1, <2>2, <2>3
<1> HIDE DEF B
<1>3. PICK k \in 1 .. n : k \in B /\ (k = n \/ k + 1 \notin B)
  <2> SUFFICES ASSUME \A k \in 1 .. n : k \in B => k # n /\ k + 1 \in B
               PROVE  FALSE
    OBVIOUS
  <2> DEFINE S == {i \in Nat : i + 1 \in B}
  <2>1. 0 \in S
    BY <1>1
  <2>2. \A i \in S : i + 1 \in S
    BY DEF B
  <2>3. S = Nat
    <3>1. S \in SUBSET Nat
      OBVIOUS
    <3> HIDE DEF S
    <3> QED  BY <2>1, <2>2, <3>1, NatInductionSet
  <2>4. n \in S
    BY <2>3
  <2> QED  BY <2>4 DEF B
<1>4. B = 1 .. k
  <2>1. ASSUME NEW i \in 1 .. k PROVE i \in B
    <3>1. i \in 1 .. n /\ (i = k \/ i < k)
      BY <1>3
    <3> QED  BY <1>2, <1>3, <3>1
  <2>2. ASSUME NEW i \in B, i \notin 1 .. k PROVE FALSE
    <3>1. i \in 1 .. n /\ i > k
      BY <2>2, <1>3 DEF B
    <3>2. k + 1 \in 1 .. n /\ k # n
      BY <1>3, <3>1
    <3>3. k + 1 = i \/ k + 1 < i
      BY <1>3, <3>1
    <3> QED  BY <1>2, <1>3, <2>2, <3>1, <3>2, <3>3
  <2> QED  BY <2>1, <2>2
<1>5. Cardinality(1 .. k) = k
  BY <1>3, FS_Interval
<1> QED  BY <1>0, <1>3, <1>4, <1>5 DEF B

Fields == DOMAIN FieldNo

\* The calls of next_status_token that a number is read after.
NumberCalls == {5, 6, 7, 9, 10, 11, 12, 13, 15, 16}

LEMMA CallsOfNumbers ==
  \A n \in NumberCalls : \E f \in NumberFields : FieldNo[f] = n
<1>1. /\ \A f \in {"blck_no", "till_balance", "till_payment", "pool_hashrate",
                   "mnet_hashrate", "pool_fee", "utc_time", "num_miners",
                   "sum_amount", "max_shares"} : f \in NumberFields
      /\ FieldNo["blck_no"] = 5 /\ FieldNo["till_balance"] = 6
      /\ FieldNo["till_payment"] = 7 /\ FieldNo["pool_hashrate"] = 9
      /\ FieldNo["mnet_hashrate"] = 10 /\ FieldNo["pool_fee"] = 11
      /\ FieldNo["utc_time"] = 12 /\ FieldNo["num_miners"] = 13
      /\ FieldNo["sum_amount"] = 15 /\ FieldNo["max_shares"] = 16
  BY DEF NumberFields, FieldNo
<1> QED  BY <1>1 DEF NumberCalls

\* With fewer tokens than 17, the calls that go round read "OK" or the address
\* where a number is expected.
LEMMA GoesRound ==
  ASSUME NEW k \in 1 .. 16
  PROVE  \E n \in NumberCalls : n % k \in {0, 2}
<1>1. k \in {1, 2, 3, 4, 5, 6, 7, 8, 9, 10, 11, 12, 13, 14, 15, 16}
  OBVIOUS
<1>2. /\ 5 % 1 = 0 /\ 6 % 2 = 0 /\ 6 % 3 = 0 /\ 12 % 4 = 0 /\ 5 % 5 = 0
      /\ 6 % 6 = 0 /\ 7 % 7 = 0 /\ 16 % 8 = 0 /\ 9 % 9 = 0 /\ 10 % 10 = 0
      /\ 11 % 11 = 0 /\ 12 % 12 = 0 /\ 13 % 13 = 0 /\ 16 % 14 = 2
      /\ 15 % 15 = 0 /\ 16 % 16 = 0
  BY SMT
<1> QED  BY <1>1, <1>2, SMT DEF NumberCalls

\* An answer of which the last token has not begun is not understood.
LEMMA CutRefused ==
  ASSUME NEW lens \in [1 .. 17 -> Nat], NEW payment, NEW m \in Nat,
         Understood(lens, payment, m)
  PROVE  /\ Start(lens, 17) <= m
         /\ \A n \in 0 .. 16 : TokenAt(lens, m, n) = n + 1
<1>1. PICK k \in 1 .. 17 :
        /\ {i \in DOMAIN lens : Start(lens, i) <= m} = 1 .. k
        /\ Cardinality(1 .. k) = k
  <2>1. 17 \in Nat \ {0}
    OBVIOUS
  <2> QED  BY <2>1, TokensBegun
<1>2. \A n : TokenAt(lens, m, n) = (n % k) + 1
  BY <1>1 DEF TokenAt
<1>3. \A n \in NumberCalls : Order[(n % k) + 1] \notin {"OK", "address"}
  <2> SUFFICES ASSUME NEW n \in NumberCalls
               PROVE  Order[(n % k) + 1] \notin {"OK", "address"}
    OBVIOUS
  <2>1. PICK f \in NumberFields : FieldNo[f] = n
    BY CallsOfNumbers
  <2>2. IsNumber(Field(lens, m, f))
    BY DEF Understood
  <2> QED  BY <1>2, <2>1, <2>2 DEF IsNumber, Field, Token
<1>4. Order[1] = "OK" /\ Order[3] = "address"
  BY DEF Order
<1>5. k = 17
  <2> SUFFICES ASSUME k # 17 PROVE FALSE
    OBVIOUS
  <2>1. k \in 1 .. 16
    OBVIOUS
  <2>2. PICK n \in NumberCalls : n % k \in {0, 2}
    BY <2>1, GoesRound
  <2>3. (n % k) + 1 \in {1, 3}
    BY <2>2
  <2> QED  BY <1>3, <1>4, <2>3
<1>6. 17 \in {i \in DOMAIN lens : Start(lens, i) <= m}
  BY <1>1, <1>5
<1>7. \A n \in 0 .. 16 : n % 17 = n
  BY SMT
<1> QED  BY <1>2, <1>5, <1>6, <1>7

\* Each call then finds the token its field is named after.
LEMMA FieldsInOrder ==
  \A f \in Fields : /\ FieldNo[f] \in 1 .. 16 /\ Order[FieldNo[f] + 1] = f
                    /\ FieldNo[f] = 16 => f = "max_shares"
<1>1. Fields = {"prefix", "address", "mn_diff", "lb_hash", "blck_no",
                "till_balance", "till_payment", "payment_info",
                "pool_hashrate", "mnet_hashrate", "pool_fee", "utc_time",
                "num_miners", "sum_amount", "max_shares"}
  BY DEF Fields, FieldNo
<1>2. \A f \in Fields : FieldNo[f] \in 1 .. 16 /\ (FieldNo[f] = 16 => f = "max_shares")
  BY <1>1 DEF FieldNo
<1>3. \A f \in Fields : Order[FieldNo[f] + 1] = f
  BY <1>1 DEF FieldNo, Order
<1> QED  BY <1>2, <1>3

\* What is understood of an answer is what was sent, but for the last token.
LEMMA UnderstoodAsSent ==
  ASSUME NEW lens \in [1 .. 17 -> Nat], NEW payment, NEW m \in Nat,
         Understood(lens, payment, m), NEW f \in Fields
  PROVE  LET token == Status(lens, m)[f] IN
           /\ Order[token.at] = f
           /\ token.len = lens[token.at] \/ f = "max_shares"
<1> DEFINE i == FieldNo[f] + 1
<1>1. i \in 1 .. 17 /\ Order[i] = f /\ (i = 17 => f = "max_shares")
      /\ i - 1 \in 0 .. 16 /\ FieldNo[f] = i - 1
  BY FieldsInOrder
<1> HIDE DEF i
<1>2. TokenAt(lens, m, i - 1) = i /\ Start(lens, 17) <= m
  BY <1>1, CutRefused
<1>3. Status(lens, m)[f] = [at |-> i, len |-> LengthIn(lens, m, i)]
  BY <1>1, <1>2 DEF Status, Field, Token, Fields
<1>4. i # 17 => LengthIn(lens, m, i) = lens[i]
  <2> SUFFICES ASSUME i # 17 PROVE LengthIn(lens, m, i) = lens[i]
    OBVIOUS
  <2>1. i \in 1 .. 17 /\ i < 17
    BY <1>1
  <2>2. /\ Start(lens, i) + lens[i] < Start(lens, 17)
        /\ Start(lens, i) \in Nat /\ Start(lens, 17) \in Nat /\ lens[i] \in Nat
    <3>1. 17 \in Nat /\ 17 \in 1 .. 17
      OBVIOUS
    <3> QED  BY <2>1, <3>1, StartsGrow
  <2>3. ~(m - Start(lens, i) < lens[i])
    BY <1>2, <2>2
  <2> QED  BY <2>3 DEF LengthIn
<1> QED  BY <1>1, <1>3, <1>4

\* A status is what was made of an answer that was understood.
StatusInv == status \in [Threads -> StatusesRead \cup {NoStatus}]

\* A target is made of fields that the pool has sent under their names, for fields
\* of any length and an answer cut anywhere: CPoolStatus (comm.cpp:61) refuses what
\* is not whole but for its last token.
THEOREM SentIsAccepted == Spec => []AcceptedAsSent
<1>1. Init => StatusInv
  BY DEF Init, StatusInv
<1>2. StatusInv /\ [Next]_vars => StatusInv'
  <2> SUFFICES ASSUME StatusInv, [Next]_vars PROVE StatusInv'
    OBVIOUS
  <2>1. ASSUME NEW t \in Threads, Recv(t) PROVE StatusInv'
    BY <2>1 DEF Recv, StatusInv
  <2>2. ASSUME NEW t \in Threads, Resolve(t) PROVE StatusInv'
    BY <2>2 DEF Resolve, StatusInv
  <2>3. ASSUME NEW t \in Threads, Proceed(t), ~Recv(t) PROVE status' = status
    BY <2>3 DEF Proceed, SocketFails, Socket, Connect, Select, GetSockOpt, Discard,
                NoAddress, Send, Close
  <2>4. CASE UNCHANGED vars
    BY <2>4 DEF vars, privateVars, StatusInv
  <2> QED  BY <2>1, <2>2, <2>3, <2>4 DEF Next, StatusInv
<1>3. StatusInv => AcceptedAsSent
  <2> SUFFICES ASSUME StatusInv, NEW t \in Threads, status[t] # NoStatus
               PROVE  \E a \in Answers : \A f \in DOMAIN FieldNo :
                        LET token == status[t][f] IN
                          /\ Order[token.at] = f
                          /\ token.len = a.lens[token.at] \/ f = "max_shares"
    BY DEF AcceptedAsSent
  <2>1. status[t] \in StatusesRead
    BY DEF StatusInv
  <2>2. PICK p \in Answers \X (2 .. BufferSize - 1) :
          /\ status[t] = Status(p[1].lens, p[2] - 2)
          /\ Understood(p[1].lens, p[1].payment, p[2] - 2)
    BY <2>1 DEF StatusesRead
  <2>3. p[1] \in Answers /\ p[1].lens \in [1 .. 17 -> Nat] /\ p[2] - 2 \in Nat
    <3>1. DOMAIN Order = 1 .. 17
      BY DEF Order
    <3> QED  BY <3>1, InetAssumption
  <2>4. \A f \in Fields :
          LET token == Status(p[1].lens, p[2] - 2)[f] IN
            /\ Order[token.at] = f
            /\ token.len = p[1].lens[token.at] \/ f = "max_shares"
    BY <2>2, <2>3, UnderstoodAsSent
  <2> QED  BY <2>2, <2>3, <2>4 DEF Fields
<1> QED  BY <1>1, <1>2, <1>3, PTL DEF Spec
=============================================================================
