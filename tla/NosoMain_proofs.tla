--------------------------- MODULE NosoMain_proofs ---------------------------
(***************************************************************************)
(* The start and the end of the program, for any config file, arguments    *)
(* and number of pools, and with Ctrl+C at any moment: it starts with      *)
(* valid options, those of the file where no argument says otherwise; what *)
(* the comm threads use outlives them; nothing is left when main returns.  *)
(*                                                                         *)
(* main throws and catches in seven places.  What has to be known is how   *)
(* far it had come: no thread exists before the network and the addrinfo   *)
(* do, and the exceptions that are caught come when there is none.  Of the *)
(* options: cfg is at every line what the lines read so far have set.      *)
(***************************************************************************)
EXTENDS NosoMain, WellFoundedInduction, TLAPS

\* What main has made when it gets to a place.
Made ==
  /\ at \in {"tui", "options"} => net = "no" /\ bindServ = "null"
  /\ at \in {"binding", "handler", "loop", "create"} => net = "up" /\ pc = "started"
  /\ at \in {"handler", "loop", "create"} => (binding => bindServ = "made")
  /\ at \in {"tui", "options", "binding", "handler", "loop", "catch"} =>
       comm = << >>

\* The comm threads: they end when they are told to, or with the process.
Threads ==
  /\ comm \in Seq({"runs", "ended"})
  /\ at = "aborted" => \A i \in DOMAIN comm : comm[i] = "ended"
  /\ at # "aborted" /\ (\E i \in DOMAIN comm : comm[i] = "ended") => ~running

\* There is a pool to mine for.
HasPool == pc = "started" => Len(chosen.pools) # 0

MainInv ==
  /\ at \in {"tui", "options", "binding", "handler", "loop", "create", "catch",
             "ended", "aborted"}
  /\ Made /\ Threads /\ HasPool /\ EndsClean

-----------------------------------------------------------------------------
LEMMA OptionsGivePool == HasPool /\ Next => HasPool'
BY DEF HasPool, Next, OpenFile, ReadLine, StoulThrows, EndOfFile, ProcessArgs

LEMMA InitMain == MainInit => MainInv
<1> SUFFICES ASSUME MainInit PROVE MainInv
  OBVIOUS
<1>1. pc = "open" /\ at = "tui" /\ comm = << >> /\ net = "no" /\ bindServ = "null"
  BY DEF MainInit, Init
<1> QED
  BY <1>1 DEF MainInv, Made, Threads, HasPool, EndsClean

\* main goes on and has no thread yet.
LEMMA StartKeeps ==
  ASSUME MainInv,
         StartTUI \/ OptionsFailed \/ InetInit \/ Bind \/ InstallHandler
           \/ EnterLoop \/ LeaveLoop \/ Catch
  PROVE  MainInv'
<1> USE DEF MainInv, Made, Threads, HasPool, EndsClean, vars
<1>1. CASE StartTUI
  BY <1>1 DEF StartTUI, Exit
<1>2. CASE OptionsFailed
  <2>1. /\ at = "options" /\ comm = << >> /\ net = "no" /\ bindServ = "null"
        /\ UNCHANGED <<vars, binding, net, bindServ, running>>
    BY <1>2 DEF OptionsFailed
  <2>2. CASE pc = "failed" /\ Exit("failure") /\ UNCHANGED comm
    BY <2>1, <2>2 DEF Exit
  <2>3. CASE Terminate
    BY <2>1, <2>3 DEF Terminate
  <2> QED  BY <1>2, <2>2, <2>3 DEF OptionsFailed
<1>3. CASE InetInit
  BY <1>3 DEF InetInit
<1>4. CASE Bind
  BY <1>4 DEF Bind
<1>5. CASE InstallHandler
  BY <1>5 DEF InstallHandler
<1>6. CASE EnterLoop
  BY <1>6 DEF EnterLoop
<1>7. CASE LeaveLoop
  BY <1>7 DEF LeaveLoop
<1>8. CASE Catch
  BY <1>8 DEF Catch, Exit, Freed
<1> QED  BY <1>1, <1>2, <1>3, <1>4, <1>5, <1>6, <1>7, <1>8

LEMMA ProcessOptionsKeeps == MainInv /\ ProcessOptions => MainInv'
<1> SUFFICES ASSUME MainInv, ProcessOptions PROVE MainInv'
  OBVIOUS
<1>1. HasPool'
  BY OptionsGivePool DEF MainInv, ProcessOptions
<1>2. /\ at = "options"
      /\ UNCHANGED <<at, timer, net, binding, bindServ, running, comm, status>>
  BY DEF ProcessOptions
<1> QED
  BY <1>1, <1>2 DEF MainInv, Made, Threads, EndsClean

\* The threads are made, or one cannot be.
LEMMA CreateKeeps == MainInv /\ (CreateThread \/ CreateFails) => MainInv'
<1> SUFFICES ASSUME MainInv, CreateThread \/ CreateFails PROVE MainInv'
  OBVIOUS
<1> USE DEF MainInv, Made, Threads, HasPool, EndsClean, vars
<1>1. CASE CreateThread
  <2>1. /\ comm' = Append(comm, "runs") /\ comm \in Seq({"runs", "ended"})
        /\ at = "create"
        /\ UNCHANGED <<vars, at, net, bindServ, binding, running>>
    BY <1>1 DEF CreateThread
  <2>2. /\ comm' \in Seq({"runs", "ended"})
        /\ \A i \in DOMAIN comm' :
             comm'[i] = "ended" => i \in DOMAIN comm /\ comm[i] = "ended"
    BY <2>1
  <2> QED  BY <2>1, <2>2
<1>2. CASE CreateFails
  BY <1>2 DEF CreateFails, Terminate
<1> QED  BY <1>1, <1>2

\* All are joined: there is at least one, and it was told to stop.
LEMMA JoinKeeps == MainInv /\ JoinThreads => MainInv'
<1> SUFFICES ASSUME MainInv, JoinThreads PROVE MainInv'
  OBVIOUS
<1> USE DEF MainInv, Made, Threads, HasPool, EndsClean, vars
<1>1. /\ at = "create" /\ Len(comm) = Len(chosen.pools) /\ Len(comm) # 0
      /\ \A i \in DOMAIN comm : comm[i] = "ended"
      /\ UNCHANGED <<vars, running, comm>>
      /\ timer' = FALSE /\ at' = "ended" /\ net' = "down" /\ bindServ' # "made"
  BY DEF JoinThreads, AllEnded, Count, Exit, Freed
<1>2. 1 \in DOMAIN comm
  BY <1>1
<1>3. ~running
  BY <1>1, <1>2
<1> QED  BY <1>1, <1>3 DEF Count

\* What happens around main.
LEMMA EnvironmentKeeps ==
  ASSUME MainInv, Interrupt \/ CommEnds \/ UNCHANGED mainVars
  PROVE  MainInv'
<1> USE DEF MainInv, Made, Threads, HasPool, EndsClean, vars
<1>1. CASE Interrupt
  BY <1>1 DEF Interrupt, Count
<1>2. CASE CommEnds
  <2>1. PICK i \in DOMAIN comm :
          comm[i] = "runs" /\ ~running /\ comm' = [comm EXCEPT ![i] = "ended"]
    BY <1>2 DEF CommEnds
  <2>2. UNCHANGED <<vars, at, timer, net, bindServ, binding, running, status>>
    BY <1>2 DEF CommEnds
  <2>3. comm' \in Seq({"runs", "ended"}) /\ Len(comm') = Len(comm)
    BY <2>1
  <2>4. at # "ended" /\ at # "aborted"
    BY <2>1
  <2>5. comm # << >>
    BY <2>1
  <2> QED  BY <2>1, <2>2, <2>3, <2>4, <2>5
<1>3. CASE UNCHANGED mainVars
  BY <1>3 DEF mainVars, Count
<1> QED  BY <1>1, <1>2, <1>3

\* How far main has come holds at every step of it, of its threads and of Ctrl+C.
THEOREM MainInvariant == MainSpec => []MainInv
<1>1. MainInv /\ [MainNext]_mainVars => MainInv'
  BY StartKeeps, ProcessOptionsKeeps, CreateKeeps, JoinKeeps, EnvironmentKeeps
     DEF MainNext, Main
<1> QED  BY <1>1, InitMain, PTL DEF MainSpec

-----------------------------------------------------------------------------
\* freeaddrinfo and inet_cleanup come after the last comm thread that uses what
\* they free, in main's way to its end and in its way through an exception.
THEOREM ResourcesOutlive == MainSpec => []ThreadsOutlived
<1>1. MainInv => ThreadsOutlived
  BY DEF MainInv, Made, Threads, EndsClean, ThreadsOutlived
<1> QED  BY <1>1, MainInvariant, PTL

\* When the program returns, its threads have ended and it has given back what
\* it had; if it reports success, it was told to stop.
THEOREM NothingIsLeft == MainSpec => []EndsClean
<1>1. MainInv => EndsClean
  BY DEF MainInv
<1> QED  BY <1>1, MainInvariant, PTL

-----------------------------------------------------------------------------
\* Induction, for a set of natural numbers.
LEMMA NatInductionSet ==
  ASSUME NEW S \in SUBSET Nat, 0 \in S, \A n \in S : n + 1 \in S
  PROVE  S = Nat
<1> SUFFICES ASSUME Nat \ S # {} PROVE FALSE
  OBVIOUS
<1>1. PICK x \in Nat \ S : \A y \in Nat \ S : ~(<<y, x>> \in OpToRel(<, Nat))
  BY NatLessThanWellFounded, WFMin
<1>2. \A y \in Nat \ S : ~(y < x)
  BY <1>1 DEF OpToRel
<1>3. x # 0 /\ x - 1 \in Nat
  BY <1>2
<1>4. x - 1 \in S
  BY <1>2, <1>3
<1> QED  BY <1>2, <1>3, <1>4

-----------------------------------------------------------------------------
(* The lists of pools.                                                     *)

\* What stands between the separators of a list of pools; the provers do not
\* know that a word that is written out is in STRING.
Word == STRING \cup {"f04ever"}

LEMMA ListsOfWords == PoolLists \subseteq Seq(Word)
<1>1. ASSUME NEW S, NEW T, S \subseteq T PROVE Seq(S) \subseteq Seq(T)
  BY <1>1
<1>2. STRING \subseteq Word
  BY DEF Word
<1>3. Seq(STRING) \subseteq Seq(Word)
  BY <1>1, <1>2, Zenon
<1> QED  BY <1>3, OptionsAssumption

\* f is the function of ParsePoolsArgv; there is one, as what it is for the first
\* words can be gone on with.
IsParse(f, list) ==
  f = [k \in 0 .. Len(list) |->
         IF k = 0 THEN << >> ELSE WithWord(f[k - 1], list[k])]

LEMMA ParseExists ==
  ASSUME NEW list \in Seq(Word)
  PROVE  \E f : IsParse(f, list)
<1> DEFINE First(f, n) ==
             f = [k \in 0 .. n |->
                    IF k = 0 THEN << >> ELSE WithWord(f[k - 1], list[k])]
           Good == {n \in Nat : \E f : First(f, n)}
<1>1. 0 \in Good
  <2> DEFINE e == [k \in 0 .. 0 |-> << >>]
  <2>1. First(e, 0)
    OBVIOUS
  <2> QED  BY <2>1
<1>2. ASSUME NEW n \in Good PROVE n + 1 \in Good
  <2>1. PICK f : First(f, n)
    OBVIOUS
  <2> DEFINE h == [k \in 0 .. n + 1 |->
                     IF k = 0 THEN << >> ELSE WithWord(f[k - 1], list[k])]
  <2>2. \A k \in 0 .. n : h[k] = f[k]
    BY <2>1
  <2>3. \A k \in 0 .. n + 1 : k # 0 => k - 1 \in 0 .. n
    OBVIOUS
  <2>4. First(h, n + 1)
    BY <2>2, <2>3
  <2>5. n + 1 \in Nat
    OBVIOUS
  <2> HIDE DEF h, First
  <2> QED  BY <2>4, <2>5
<1>3. Good = Nat
  <2> HIDE DEF Good
  <2>1. Good \in SUBSET Nat
    BY DEF Good
  <2> QED  BY <1>1, <1>2, <2>1, NatInductionSet
<1> QED  BY <1>3 DEF IsParse

ArePools(s) == s \in Seq(Word) /\ \A i \in DOMAIN s : s[i] # "bad"

LEMMA NoPools == ArePools(<< >>)
<1>1. << >> \in Seq(Word) /\ \A i \in DOMAIN << >> : FALSE
  OBVIOUS
<1> QED  BY <1>1 DEF ArePools

LEMMA OneMore ==
  ASSUME NEW S, NEW bad, NEW s \in Seq(S), \A i \in DOMAIN s : s[i] # bad,
         NEW w \in S, w # bad
  PROVE  /\ Append(s, w) \in Seq(S)
         /\ \A i \in DOMAIN Append(s, w) : Append(s, w)[i] # bad
OBVIOUS

LEMMA OneMorePool ==
  ASSUME NEW s, ArePools(s), NEW w \in Word
  PROVE  ArePools(WithWord(s, w))
<1>1. CASE w = "bad"
  BY <1>1 DEF WithWord
<1>2. CASE w # "bad"
  <2>1. s \in Seq(Word) /\ \A i \in DOMAIN s : s[i] # "bad"
    BY DEF ArePools
  <2>2. /\ Append(s, w) \in Seq(Word)
        /\ \A i \in DOMAIN Append(s, w) : Append(s, w)[i] # "bad"
    BY <1>2, <2>1, OneMore, Zenon
  <2>3. WithWord(s, w) = Append(s, w)
    BY <1>2 DEF WithWord
  <2> QED  BY <2>2, <2>3, Zenon DEF ArePools
<1> QED  BY <1>1, <1>2

\* What parse_pools_argv leaves of a list: words that are pools.
LEMMA ParsedArePools ==
  ASSUME NEW list \in Seq(Word)
  PROVE  ArePools(ParsePoolsArgv(list))
<1> DEFINE f == CHOOSE g : IsParse(g, list)
           Good == {n \in Nat : n <= Len(list) => ArePools(f[n])}
<1>1. IsParse(f, list)
  BY ParseExists, Zenon
<1>2. ParsePoolsArgv(list) = f[Len(list)]
  BY DEF ParsePoolsArgv, IsParse
<1> HIDE DEF f
<1>3. f[0] = << >>
  BY <1>1 DEF IsParse
<1>4. 0 \in Good
  BY <1>3, NoPools
<1>5. ASSUME NEW n \in Good PROVE n + 1 \in Good
  <2>1. CASE n + 1 <= Len(list)
    <3>1. n + 1 \in 1 .. Len(list) /\ (n + 1) - 1 = n /\ n + 1 # 0 /\ n <= Len(list)
      BY <2>1
    <3>2. f[n + 1] = WithWord(f[n], list[n + 1])
      BY <1>1, <3>1 DEF IsParse
    <3>3. list[n + 1] \in Word
      BY <3>1
    <3>4. ArePools(f[n])
      BY <3>1
    <3>5. ArePools(f[n + 1])
      BY <3>2, <3>3, <3>4, OneMorePool
    <3> QED  BY <3>1, <3>5
  <2>2. CASE ~(n + 1 <= Len(list))
    BY <2>2
  <2> QED  BY <2>1, <2>2
<1>6. Good = Nat
  <2> HIDE DEF Good
  <2>1. Good \in SUBSET Nat
    BY DEF Good
  <2> QED  BY <1>4, <1>5, <2>1, NatInductionSet
<1>7. ArePools(f[Len(list)])
  BY <1>6
<1> QED  BY <1>2, <1>7

-----------------------------------------------------------------------------
(* The pools of a file: those of its lines, joined.                        *)

IsJoin(f, s, n) ==
  f = [k \in 0 .. n |->
         IF k = 0 THEN << >> ELSE Joined(f[k - 1], s[k])]
Join(s) == (CHOOSE f : IsJoin(f, s, Len(s)))[Len(s)]

LEMMA ReadIsJoined == PoolsRead = Join(read)
BY DEF PoolsRead, Join, IsJoin

LEMMA JoinExists ==
  ASSUME NEW s, NEW m \in Nat
  PROVE  \E f : IsJoin(f, s, m)
<1> DEFINE Good == {n \in Nat : \E f : IsJoin(f, s, n)}
<1>1. 0 \in Good
  <2> DEFINE e == [k \in 0 .. 0 |-> << >>]
  <2>1. IsJoin(e, s, 0)
    BY DEF IsJoin
  <2> QED  BY <2>1
<1>2. ASSUME NEW n \in Good PROVE n + 1 \in Good
  <2>1. PICK f : IsJoin(f, s, n)
    OBVIOUS
  <2> DEFINE h == [k \in 0 .. n + 1 |->
                     IF k = 0 THEN << >> ELSE Joined(f[k - 1], s[k])]
  <2>2. \A k \in 0 .. n : h[k] = f[k]
    BY <2>1 DEF IsJoin
  <2>3. \A k \in 0 .. n + 1 : k # 0 => k - 1 \in 0 .. n
    OBVIOUS
  <2>4. IsJoin(h, s, n + 1)
    BY <2>2, <2>3 DEF IsJoin
  <2>5. n + 1 \in Nat
    OBVIOUS
  <2> HIDE DEF h
  <2> QED  BY <2>4, <2>5
<1>3. Good = Nat
  <2> HIDE DEF Good
  <2>1. Good \in SUBSET Nat
    BY DEF Good
  <2> QED  BY <1>1, <1>2, <2>1, NatInductionSet
<1> QED  BY <1>3

\* Two such functions agree where both are, if the lines do.
LEMMA JoinsAgree ==
  ASSUME NEW s, NEW t, NEW m \in Nat, NEW n \in Nat, m <= n,
         \A k \in 1 .. m : s[k] = t[k],
         NEW f, IsJoin(f, s, m), NEW g, IsJoin(g, t, n)
  PROVE  f[m] = g[m]
<1> DEFINE Good == {k \in Nat : k <= m => f[k] = g[k]}
<1>1. 0 \in Good
  BY DEF IsJoin
<1>2. ASSUME NEW k \in Good PROVE k + 1 \in Good
  <2>1. CASE k + 1 <= m
    <3>1. /\ k + 1 \in 0 .. m /\ k + 1 \in 0 .. n /\ k + 1 # 0
          /\ (k + 1) - 1 = k /\ k <= m
      BY <2>1
    <3>2. f[k] = g[k] /\ s[k + 1] = t[k + 1]
      BY <2>1, <3>1
    <3>3. f[k + 1] = Joined(f[k], s[k + 1])
      BY <3>1 DEF IsJoin
    <3>4. g[k + 1] = Joined(g[k], t[k + 1])
      BY <3>1 DEF IsJoin
    <3> QED  BY <3>1, <3>2, <3>3, <3>4
  <2>2. CASE ~(k + 1 <= m)
    BY <2>2
  <2> QED  BY <2>1, <2>2
<1>3. Good = Nat
  <2> HIDE DEF Good
  <2>1. Good \in SUBSET Nat
    BY DEF Good
  <2> QED  BY <1>1, <1>2, <2>1, NatInductionSet
<1> QED  BY <1>3

LEMMA JoinNothing == Join(<< >>) = << >>
<1> DEFINE f == CHOOSE g : IsJoin(g, << >>, 0)
<1>1. IsJoin(f, << >>, 0)
  BY JoinExists, Zenon
<1>2. Join(<< >>) = f[0]
  BY DEF Join
<1> HIDE DEF f
<1> QED  BY <1>1, <1>2 DEF IsJoin

\* One more line.
LEMMA JoinLine ==
  ASSUME NEW S, NEW s \in Seq(S), NEW l \in S
  PROVE  Join(Append(s, l)) = Joined(Join(s), l)
<1> DEFINE t == Append(s, l)
           n == Len(s)
           f == CHOOSE g : IsJoin(g, s, n)
           h == CHOOSE g : IsJoin(g, t, n + 1)
<1>1. n \in Nat /\ n + 1 \in Nat /\ Len(t) = n + 1 /\ t[n + 1] = l
      /\ \A k \in 1 .. n : s[k] = t[k]
  OBVIOUS
<1>2. Join(s) = f[n] /\ Join(t) = h[n + 1]
  BY <1>1 DEF Join
<1> HIDE DEF t, n
<1>3. IsJoin(f, s, n) /\ IsJoin(h, t, n + 1)
  <2>1. (\E g : IsJoin(g, s, n)) /\ (\E g : IsJoin(g, t, n + 1))
    BY <1>1, JoinExists
  <2> QED  BY <2>1, Zenon
<1> HIDE DEF f, h
<1>4. f[n] = h[n]
  <2>1. n <= n + 1
    BY <1>1
  <2> QED  BY <1>1, <1>3, <2>1, JoinsAgree
<1>5. h[n + 1] = Joined(h[n], t[n + 1])
  BY <1>1, <1>3 DEF IsJoin
<1> QED  BY <1>1, <1>2, <1>4, <1>5 DEF t

-----------------------------------------------------------------------------
(* The config file.                                                        *)

CfgType == [threads : 0 .. W - 1, shares : 0 .. W - 1, pools : Seq(Word),
            logging : Words]
CfgValid == cfg.threads # 0 /\ cfg.logging # "bad"

\* What the file left is what its last lines said.
Follows ==
  /\ \A o \in Opts \ {"pools"} : \A i \in DOMAIN read :
       IsLastSetting(o, i) => cfg[o] = Setting(o, i)
  /\ cfg.pools = PoolsRead

OptionsInv ==
  /\ args \in Arguments
  /\ lines \in Seq(Lines) /\ read \in Seq(Lines)
  /\ found \in BOOLEAN
  /\ pc \in {"open", "file", "args", "failed", "terminated", "started"}
  /\ pc \in {"args", "started"} => lines = << >>
  /\ pc = "open" /\ ~found => lines = << >>
  /\ cfg \in CfgType
  /\ pc # "failed" => CfgValid
  /\ Follows
  /\ StartsValid /\ FileFollowed

LEMMA LineKinds ==
  ASSUME NEW l \in Lines
  PROVE  \/ DOMAIN l = {"threads"} /\ l.threads \in Numbers
         \/ DOMAIN l = {"shares"} /\ l.shares \in Numbers
         \/ DOMAIN l = {"pools"} /\ l.pools \in PoolLists
         \/ DOMAIN l = {"logging"} /\ l.logging \in Words
BY DEF Lines

\* A line changes the option it sets, and no other.
LEMMA LineSets ==
  ASSUME cfg \in CfgType, NEW l \in Lines,
         IsNumberLine(l) => ~Throws(NumberOf(l))
  PROVE  /\ \A o \in Opts \ {"pools"} :
              WithLine(l)[o] = IF o \in DOMAIN l
                               THEN (IF IsNumberLine(l) THEN l[o] % W ELSE l[o])
                               ELSE cfg[o]
         /\ WithLine(l).pools = Joined(cfg.pools, l)
         /\ WithLine(l) \in CfgType
         /\ CfgValid /\ ~InvalidLine(l) =>
              WithLine(l).threads # 0 /\ WithLine(l).logging # "bad"
<1>0. /\ W \in Nat \ {0} /\ Numbers \subseteq {NoNumber} \cup Nat
      /\ PoolLists \subseteq Seq(Word)
  BY OptionsAssumption, ListsOfWords
<1>1. CASE DOMAIN l = {"threads"} /\ l.threads \in Numbers
  <2>1. l.threads \in Nat
    BY <1>0, <1>1 DEF IsNumberLine, NumberOf, Throws
  <2>2. l.threads % W \in 0 .. W - 1
    BY <1>0, <2>1
  <2>3. WithLine(l) = [cfg EXCEPT !.threads = l.threads % W]
    BY <1>1 DEF WithLine
  <2> QED  BY <1>1, <2>2, <2>3 DEF CfgType, Joined, IsNumberLine, Opts, CfgValid,
                InvalidLine, IsValidThreads
<1>2. CASE DOMAIN l = {"shares"} /\ l.shares \in Numbers
  <2>1. l.shares \in Nat
    BY <1>0, <1>2 DEF IsNumberLine, NumberOf, Throws
  <2>2. l.shares % W \in 0 .. W - 1
    BY <1>0, <2>1
  <2>3. WithLine(l) = [cfg EXCEPT !.shares = l.shares % W]
    BY <1>2 DEF WithLine
  <2> QED  BY <1>2, <2>2, <2>3 DEF CfgType, Joined, IsNumberLine, Opts, CfgValid
<1>3. CASE DOMAIN l = {"pools"} /\ l.pools \in PoolLists
  <2>1. WithLine(l) = [cfg EXCEPT !.pools = @ \o l.pools]
    BY <1>3 DEF WithLine
  <2>2. cfg.pools \o l.pools \in Seq(Word)
    BY <1>0, <1>3 DEF CfgType
  <2> QED  BY <1>3, <2>1, <2>2 DEF CfgType, Joined, Opts, CfgValid
<1>4. CASE DOMAIN l = {"logging"} /\ l.logging \in Words
  <2>1. WithLine(l) = [cfg EXCEPT !.logging = l.logging]
    BY <1>4 DEF WithLine
  <2> QED  BY <1>4, <2>1 DEF CfgType, Joined, IsNumberLine, Opts, CfgValid,
                InvalidLine, IsValidWord
<1> QED  BY <1>1, <1>2, <1>3, <1>4, LineKinds

LEMMA InitOptions == Init => OptionsInv
<1> SUFFICES ASSUME Init PROVE OptionsInv
  OBVIOUS
<1>1. /\ pc = "open" /\ read = << >> /\ found \in BOOLEAN /\ args \in Arguments
      /\ found \/ lines = << >>
      /\ cfg = [Default EXCEPT !.pools = << >>]
  BY DEF Init
<1>2. cfg.threads = 1 /\ cfg.shares = 1 /\ cfg.pools = << >> /\ cfg.logging = "info"
      /\ cfg = [threads |-> 1, shares |-> 1, pools |-> << >>, logging |-> "info"]
  BY <1>1 DEF Default
<1>3. << >> \in Seq(Word) /\ 1 \in 0 .. W - 1
  BY OptionsAssumption
<1>4. cfg \in CfgType /\ CfgValid
  BY <1>2, <1>3 DEF CfgType, CfgValid, Words
<1>5. lines \in Seq(Lines)
  <2>1. PICK n \in 0 .. MaxLines : lines \in [1 .. n -> Lines]
    BY DEF Init
  <2>2. n \in Nat
    BY <2>1, OptionsAssumption
  <2> HIDE DEF Lines
  <2> QED  BY <2>1, <2>2
<1>6. Follows
  <2>1. PoolsRead = << >>
    BY <1>1, JoinNothing, ReadIsJoined
  <2>2. DOMAIN read = {}
    BY <1>1
  <2> QED  BY <1>2, <2>1, <2>2 DEF Follows
<1>7. read \in Seq(Lines)
  BY <1>1
<1> QED  BY <1>1, <1>4, <1>5, <1>6, <1>7 DEF OptionsInv, StartsValid, FileFollowed

\* A line is read.
LEMMA ReadLineKeeps == OptionsInv /\ ReadLine => OptionsInv'
<1> SUFFICES ASSUME OptionsInv, ReadLine PROVE OptionsInv'
  OBVIOUS
<1> DEFINE l == Head(lines)
<1>1. /\ pc = "file" /\ lines # << >> /\ lines \in Seq(Lines)
      /\ read \in Seq(Lines) /\ cfg \in CfgType /\ CfgValid /\ Follows
      /\ args \in Arguments /\ found \in BOOLEAN
  BY DEF ReadLine, OptionsInv
<1>2. /\ IsNumberLine(l) => ~Throws(NumberOf(l))
      /\ cfg' = WithLine(l) /\ read' = Append(read, l)
      /\ pc' = IF InvalidLine(l) THEN "failed" ELSE "file"
      /\ lines' = Tail(lines) /\ UNCHANGED <<args, found>>
  BY DEF ReadLine
<1>3. l \in Lines /\ Tail(lines) \in Seq(Lines)
  BY <1>1
<1> HIDE DEF l
<1>4. /\ \A o \in Opts \ {"pools"} :
           cfg'[o] = IF o \in DOMAIN l
                     THEN (IF IsNumberLine(l) THEN l[o] % W ELSE l[o]) ELSE cfg[o]
      /\ cfg'.pools = Joined(cfg.pools, l)
      /\ cfg' \in CfgType
      /\ ~InvalidLine(l) => cfg'.threads # 0 /\ cfg'.logging # "bad"
  BY <1>1, <1>2, <1>3, LineSets, Zenon
<1>5. /\ read' \in Seq(Lines) /\ DOMAIN read' = 1 .. Len(read) + 1
      /\ Len(read) \in Nat /\ DOMAIN read = 1 .. Len(read)
      /\ read'[Len(read) + 1] = l
      /\ \A i \in DOMAIN read : read'[i] = read[i]
  BY <1>1, <1>2, <1>3
<1>6. Follows'
  <2>1. cfg'.pools = PoolsRead'
    <3>1. PoolsRead' = Join(read')
      BY DEF PoolsRead, Join, IsJoin
    <3>2. Join(Append(read, l)) = Joined(Join(read), l)
      BY <1>1, <1>3, JoinLine, Zenon DEF Joined
    <3>3. cfg.pools = Join(read)
      BY <1>1, ReadIsJoined DEF Follows
    <3> QED  BY <1>2, <1>4, <3>1, <3>2, <3>3
  <2>2. ASSUME NEW o \in Opts \ {"pools"}, NEW i \in DOMAIN read',
               IsLastSetting(o, i)'
        PROVE  cfg'[o] = Setting(o, i)'
    <3>1. /\ o \in DOMAIN read'[i]
          /\ \A j \in DOMAIN read' : j > i => o \notin DOMAIN read'[j]
      BY <2>2 DEF IsLastSetting
    <3>2. Setting(o, i)' = IF IsNumberLine(read'[i]) THEN read'[i][o] % W
                           ELSE read'[i][o]
      BY DEF Setting, IsNumberLine
    <3>3. CASE i = Len(read) + 1
      <4>1. read'[i] = l
        BY <1>5, <3>3
      <4> QED  BY <1>4, <3>1, <3>2, <4>1, Zenon
    <3>4. CASE i # Len(read) + 1
      <4>1. i \in DOMAIN read /\ Len(read) + 1 > i /\ Len(read) + 1 \in DOMAIN read'
        BY <1>5, <3>4
      <4>2. o \notin DOMAIN l /\ read'[i] = read[i]
        BY <1>5, <3>1, <4>1
      <4>3. IsLastSetting(o, i)
        BY <1>5, <3>1, <4>1, <4>2 DEF IsLastSetting
      <4>4. cfg[o] = Setting(o, i)
        BY <1>1, <4>1, <4>3 DEF Follows
      <4>5. Setting(o, i) = Setting(o, i)'
        BY <3>2, <4>2 DEF Setting
      <4>6. cfg'[o] = cfg[o]
        BY <1>4, <4>2
      <4> QED  BY <4>4, <4>5, <4>6
    <3> QED  BY <3>3, <3>4
  <2> QED  BY <2>1, <2>2 DEF Follows
<1>7. pc' # "failed" => CfgValid'
  BY <1>2, <1>4 DEF CfgValid
<1> QED  BY <1>1, <1>2, <1>3, <1>4, <1>5, <1>6, <1>7
         DEF OptionsInv, StartsValid, FileFollowed, CfgType

\* The file is opened, or ends, or has a number that is none.
LEMMA FileKeeps ==
  ASSUME OptionsInv, OpenFile \/ StoulThrows \/ EndOfFile \/ UNCHANGED vars
  PROVE  OptionsInv'
<1>1. UNCHANGED <<args, found, lines, cfg, chosen, read>>
  BY DEF OpenFile, StoulThrows, EndOfFile, vars
<1>2. Follows' <=> Follows
  <2>1. PoolsRead' = PoolsRead
    BY <1>1 DEF PoolsRead, Joined
  <2>2. \A o, i : (IsLastSetting(o, i)' <=> IsLastSetting(o, i))
                    /\ Setting(o, i)' = Setting(o, i)
    BY <1>1 DEF IsLastSetting, Setting, IsNumberLine
  <2> QED  BY <1>1, <2>1, <2>2 DEF Follows
<1>3. CfgValid' <=> CfgValid
  BY <1>1 DEF CfgValid
<1>4. CASE OpenFile \/ StoulThrows \/ EndOfFile
  <2>1. /\ pc' # "started" /\ pc # "failed"
        /\ pc' \in {"open", "file", "args", "failed", "terminated", "started"}
        /\ pc' # "open"
        /\ pc' = "args" => lines = << >>
    BY <1>4 DEF OpenFile, StoulThrows, EndOfFile, OptionsInv
  <2> QED  BY <1>1, <1>2, <1>3, <2>1 DEF OptionsInv, StartsValid, FileFollowed, CfgType
<1>5. CASE UNCHANGED vars
  <2>1. /\ pc' = pc /\ PoolsRead' = PoolsRead
        /\ ParsePoolsArgv(PoolsRead)' = ParsePoolsArgv(PoolsRead)
    BY <1>1, <1>5 DEF vars, PoolsRead, Joined, ParsePoolsArgv
  <2>2. FileFollowed' <=> FileFollowed
    <3>1. \A o, i : (IsLastSetting(o, i)' <=> IsLastSetting(o, i))
                    /\ Setting(o, i)' = Setting(o, i)
      BY <1>1 DEF IsLastSetting, Setting, IsNumberLine
    <3> QED  BY <1>1, <2>1, <3>1 DEF FileFollowed
  <2>3. StartsValid' <=> StartsValid
    BY <1>1, <2>1 DEF StartsValid
  <2> QED  BY <1>1, <1>2, <1>3, <2>1, <2>2, <2>3 DEF OptionsInv, CfgType
<1> QED  BY <1>4, <1>5

LEMMA OneElement == ASSUME NEW S, NEW x \in S PROVE <<x>> \in Seq(S)
OBVIOUS

\* The choice.
LEMMA ProcessArgsKeeps == OptionsInv /\ ProcessArgs => OptionsInv'
<1> SUFFICES ASSUME OptionsInv, ProcessArgs PROVE OptionsInv'
  OBVIOUS
<1>1. /\ pc = "args" /\ lines = << >> /\ cfg \in CfgType /\ CfgValid /\ Follows
      /\ args \in Arguments
      /\ UNCHANGED <<args, found, lines, cfg, read>>
      /\ pc' \in {"failed", "started"}
  BY DEF ProcessArgs, OptionsInv
<1>2. Follows' /\ CfgValid'
  <2>1. PoolsRead' = PoolsRead
    BY <1>1 DEF PoolsRead, Joined
  <2>2. \A o, i : (IsLastSetting(o, i)' <=> IsLastSetting(o, i))
                    /\ Setting(o, i)' = Setting(o, i)
    BY <1>1 DEF IsLastSetting, Setting, IsNumberLine
  <2> QED  BY <1>1, <2>1, <2>2 DEF Follows, CfgValid
<1>3. /\ args.threads \in 0 .. W - 1 /\ args.shares \in 0 .. W - 1
      /\ args.logging \in Words /\ args.pools \in PoolLists
  BY <1>1 DEF Arguments
<1>4. /\ cfg.threads \in 0 .. W - 1 /\ cfg.threads # 0 /\ cfg.shares \in 0 .. W - 1
      /\ cfg.pools \in Seq(Word) /\ cfg.logging \in {"info", "debug"}
  BY <1>1 DEF CfgType, CfgValid, Words
<1>5. /\ Default.threads = 1 /\ Default.shares = 1 /\ Default.logging = "info"
      /\ Default["threads"] = 1 /\ Default["shares"] = 1
      /\ Default["logging"] = "info"
      /\ Default.pools \in Seq(Word)
  <2>1. "f04ever" \in Word
    BY DEF Word
  <2>2. <<"f04ever">> \in Seq(Word)
    BY <2>1, OneElement, Zenon
  <2>3. Default.pools = <<"f04ever">>
    BY DEF Default
  <2>4. Default.pools \in Seq(Word)
    BY <2>2, <2>3, Zenon
  <2> QED  BY <2>4 DEF Default
<1>6. CASE pc' = "started"
  <2>1. /\ chosen' = [threads |-> Selected("threads"),
                      shares |-> Selected("shares"),
                      pools |-> ParsePoolsArgv(Selected("pools")),
                      logging |-> Selected("logging")]
        /\ args.threads >= 1 /\ args.logging # "bad"
        /\ Len(chosen'.pools) # 0
    BY <1>6 DEF ProcessArgs, IsValidThreads, IsValidWord
  <2>2. /\ chosen'.threads = Selected("threads") /\ chosen'.shares = Selected("shares")
        /\ chosen'.pools = ParsePoolsArgv(Selected("pools"))
        /\ chosen'.logging = Selected("logging")
        /\ chosen'["threads"] = Selected("threads")
        /\ chosen'["shares"] = Selected("shares")
        /\ chosen'["logging"] = Selected("logging")
    BY <2>1
  <2>3. StartsValid'
    <3>1. chosen'.threads \in 1 .. W - 1
      BY <1>3, <1>4, <2>1, <2>2 DEF Selected
    <3>2. chosen'.shares \in 0 .. W - 1
      BY <1>3, <1>4, <2>2 DEF Selected
    <3>3. chosen'.logging \in {"info", "debug"}
      BY <1>3, <1>4, <2>1, <2>2 DEF Selected, Words
    <3>4. Selected("pools") \in Seq(Word)
      BY <1>3, <1>4, <1>5, ListsOfWords DEF Selected
    <3>5. ArePools(chosen'.pools)
      BY <2>2, <3>4, ParsedArePools, Zenon
    <3>6. chosen'.pools # << >>
      BY <2>1
    <3> QED  BY <3>1, <3>2, <3>3, <3>5, <3>6 DEF StartsValid, ArePools
  <2>4. FileFollowed'
    <3>1. \A o, i : (IsLastSetting(o, i)' <=> IsLastSetting(o, i))
                      /\ Setting(o, i)' = Setting(o, i)
      BY <1>1 DEF IsLastSetting, Setting, IsNumberLine
    <3>2. /\ PoolsRead' = PoolsRead
          /\ ParsePoolsArgv(PoolsRead)' = ParsePoolsArgv(PoolsRead)
      BY <1>1 DEF PoolsRead, Joined, ParsePoolsArgv
    <3>3. ASSUME NEW o \in Opts \ {"pools"}, args[o] = Default[o],
                 NEW i \in DOMAIN read, IsLastSetting(o, i)
          PROVE  chosen'[o] = Setting(o, i)
      <4>1. cfg[o] = Setting(o, i)
        BY <1>1, <3>3 DEF Follows
      <4>2. chosen'[o] = Selected(o)
        BY <2>2 DEF Opts
      <4>3. Selected(o) = cfg[o]
        BY <3>3 DEF Selected
      <4> QED  BY <4>1, <4>2, <4>3
    <3>4. args.pools = Default.pools /\ PoolsRead # << >> =>
            chosen'.pools = ParsePoolsArgv(PoolsRead)
      <4>1. cfg.pools = PoolsRead
        BY <1>1 DEF Follows
      <4> SUFFICES ASSUME args["pools"] = Default["pools"], PoolsRead # << >>
                   PROVE  chosen'.pools = ParsePoolsArgv(PoolsRead)
        OBVIOUS
      <4>2. Selected("pools") = PoolsRead
        BY <4>1 DEF Selected
      <4> QED  BY <2>2, <4>2
    <3> QED  BY <1>1, <3>1, <3>2, <3>3, <3>4 DEF FileFollowed
  <2> QED  BY <1>1, <1>2, <1>6, <2>3, <2>4 DEF OptionsInv, CfgType
<1>7. CASE pc' # "started"
  BY <1>1, <1>2, <1>7 DEF OptionsInv, StartsValid, FileFollowed, CfgType
<1> QED  BY <1>6, <1>7

LEMMA OptionsInvariant == MainSpec => []OptionsInv
<1>1. OptionsInv /\ [MainNext]_mainVars => OptionsInv'
  <2> SUFFICES ASSUME OptionsInv, [MainNext]_mainVars PROVE OptionsInv'
    OBVIOUS
  <2>1. Next \/ UNCHANGED vars
    BY DEF MainNext, Main, mainVars, StartTUI, ProcessOptions, OptionsFailed,
           InetInit, Bind, InstallHandler, EnterLoop, LeaveLoop, CreateThread,
           CreateFails, JoinThreads, Catch, Interrupt, CommEnds
  <2> QED  BY <2>1, FileKeeps, ReadLineKeeps, ProcessArgsKeeps DEF Next
<1>2. MainInit => OptionsInv
  BY InitOptions DEF MainInit
<1> QED  BY <1>1, <1>2, PTL DEF MainSpec

-----------------------------------------------------------------------------
\* process_options starts the program with numbers, words and pools that can be
\* mined with, for any lines of the file and any arguments: what stoul makes of
\* a number is cut to 32 bits before it is checked.
THEOREM ValidStart == MainSpec => []StartsValid
<1>1. OptionsInv => StartsValid
  BY DEF OptionsInv
<1> QED  BY <1>1, OptionsInvariant, PTL

\* The file decides what no argument does: the last line that sets an option, of
\* however many, and the pools of all of them.
THEOREM FileIsFollowed == MainSpec => []FileFollowed
<1>1. OptionsInv => FileFollowed
  BY DEF OptionsInv
<1> QED  BY <1>1, OptionsInvariant, PTL
=============================================================================
