------------------------------ MODULE Options -------------------------------
(***************************************************************************)
(* How the program gets its options (main in noso-2m.cpp, process_options  *)
(* in misc.cpp): the config file is read line by line, then the arguments  *)
(* are looked at, and for each option one of them, or the default, wins.   *)
(*                                                                         *)
(* Four options stand for all: threads, a number that is checked; shares,  *)
(* a number that is not; pools, a list; and logging, a word that is        *)
(* checked, as address and binding are.                                    *)
(***************************************************************************)
EXTENDS Integers, Sequences

CONSTANTS
  W,          \* 2^32: the numbers kept are in 0 .. W - 1, and an unsigned
              \* long, which std::stoul makes, in 0 .. W * W - 1
  Numbers,    \* the numbers the config file may have
  PoolLists,  \* the lists of pools, in the config file or as an argument
  MaxLines    \* bound of the model: lines of the config file

NoNumber == -1
Words == {"info", "debug", "bad"}

ASSUME OptionsAssumption ==
  /\ W \in Nat /\ W > 1 /\ MaxLines \in Nat
  /\ Numbers \subseteq {NoNumber} \cup Nat
  /\ PoolLists \subseteq Seq(STRING)

Default ==
  [threads |-> 1, shares |-> 1, pools |-> <<"f04ever">>, logging |-> "info"]
Opts == {"threads", "shares", "pools", "logging"}

\* What cxxopts lets through: numbers of 32 bits, the default for an option
\* that is not among the arguments.
Arguments ==
  {a \in [given : SUBSET Opts, threads : Numbers, shares : Numbers,
          pools : PoolLists, logging : Words] :
     /\ a.threads \in 0 .. W - 1 /\ a.shares \in 0 .. W - 1
     /\ \A o \in Opts \ a.given : a[o] = Default[o]}

\* A line of the config file sets one option; other lines are skipped.
Lines == [threads : Numbers] \cup [shares : Numbers] \cup [pools : PoolLists]
           \cup [logging : Words]

VARIABLES
  pc,      \* where process_options is, or how the start ended
  args,    \* parsed_options
  found,   \* the config file can be read
  named,   \* its name is not DEFAULT_CONFIG_FILENAME
  lines,   \* the lines still to be read
  cfg,     \* _g_cfg_options
  chosen,  \* the g_... variables
  read     \* history: the lines that were read

vars == <<pc, args, found, named, lines, cfg, chosen, read>>

-----------------------------------------------------------------------------
\* std::stoul, of what follows the name of the option.
Throws(n) == n = NoNumber \/ n >= W * W

IsValidWord(w) == w # "bad"
IsValidThreads(n) == n >= 1

BugInvalidLine(l) ==
  \/ "threads" \in DOMAIN l /\ ~IsValidThreads(l.threads)
  \/ "logging" \in DOMAIN l /\ ~IsValidWord(l.logging)
\* The lines that are refused.  A number is checked after it is cut to 32 bits.
InvalidLine(l) ==
  \/ "threads" \in DOMAIN l /\ ~IsValidThreads(l.threads % W)
  \/ "logging" \in DOMAIN l /\ ~IsValidWord(l.logging)

BugWithLine(l) ==
  CASE "threads" \in DOMAIN l -> [cfg EXCEPT !.threads = l.threads % W]
    [] "shares" \in DOMAIN l  -> [cfg EXCEPT !.shares = l.shares % W]
    [] "pools" \in DOMAIN l   -> [cfg EXCEPT !.pools = l.pools]
    [] "logging" \in DOMAIN l -> [cfg EXCEPT !.logging = l.logging]
\* _g_cfg_options after a line: lists are joined, anything else is replaced.
WithLine(l) ==
  CASE "threads" \in DOMAIN l -> [cfg EXCEPT !.threads = l.threads % W]
    [] "shares" \in DOMAIN l  -> [cfg EXCEPT !.shares = l.shares % W]
    [] "pools" \in DOMAIN l   -> [cfg EXCEPT !.pools = @ \o l.pools]
    [] "logging" \in DOMAIN l -> [cfg EXCEPT !.logging = l.logging]

\* Of the words of a list, the ones that are pools.
WithWord(pools, word) == IF word = "bad" THEN pools ELSE Append(pools, word)
ParsePoolsArgv(list) ==
  LET pools[k \in 0 .. Len(list)] ==
        IF k = 0 THEN << >> ELSE WithWord(pools[k - 1], list[k])
  IN pools[Len(list)]

\* Each option: the argument if it is not the default, or what the config file
\* left, which is the default if the file has nothing.
Selected(o) ==
  IF args[o] # Default[o] THEN args[o]
  ELSE IF o = "pools" /\ cfg[o] = << >> THEN Default[o]
  ELSE cfg[o]

-----------------------------------------------------------------------------
Init ==
  /\ pc = "open"
  /\ args \in Arguments
  /\ found \in BOOLEAN /\ named \in BOOLEAN
  /\ lines \in UNION {[1 .. n -> Lines] : n \in 0 .. MaxLines}
  /\ found \/ (lines = << >>)
  /\ cfg = [Default EXCEPT !.pools = << >>]
  /\ chosen = Default
  /\ read = << >>

\* Only the config file nobody asked for may be missing.
OpenFile ==
  /\ pc = "open"
  /\ pc' = IF found THEN "file" ELSE IF named THEN "failed" ELSE "args"
  /\ UNCHANGED <<args, found, named, lines, cfg, chosen, read>>

IsNumberLine(l) == "threads" \in DOMAIN l \/ "shares" \in DOMAIN l
NumberOf(l) == IF "threads" \in DOMAIN l THEN l.threads ELSE l.shares

ReadLine ==
  /\ pc = "file" /\ lines # << >>
  /\ LET l == Head(lines) IN
       /\ IsNumberLine(l) => ~Throws(NumberOf(l))
       /\ cfg' = WithLine(l)
       /\ read' = Append(read, l)
       /\ pc' = IF InvalidLine(l) THEN "failed" ELSE "file"
  /\ lines' = Tail(lines)
  /\ UNCHANGED <<args, found, named, chosen>>

\* std::stoul throws: invalid_argument is caught, out_of_range is not.
StoulThrows ==
  /\ pc = "file" /\ lines # << >>
  /\ IsNumberLine(Head(lines)) /\ Throws(NumberOf(Head(lines)))
  /\ pc' = IF NumberOf(Head(lines)) = NoNumber THEN "failed" ELSE "terminated"
  /\ UNCHANGED <<args, found, named, lines, cfg, chosen, read>>

EndOfFile ==
  /\ pc = "file" /\ lines = << >>
  /\ pc' = "args"
  /\ UNCHANGED <<args, found, named, lines, cfg, chosen, read>>

\* process_arg_options, the choice, and whether any pool is left.
ProcessArgs ==
  /\ pc = "args"
  /\ IF IsValidThreads(args.threads) /\ IsValidWord(args.logging)
       THEN /\ chosen' = [threads |-> Selected("threads"),
                          shares |-> Selected("shares"),
                          pools |-> ParsePoolsArgv(Selected("pools")),
                          logging |-> Selected("logging")]
            /\ pc' = IF Len(chosen'.pools) = 0 THEN "failed" ELSE "started"
       ELSE pc' = "failed" /\ UNCHANGED chosen
  /\ UNCHANGED <<args, found, named, lines, cfg, read>>

Next == OpenFile \/ ReadLine \/ StoulThrows \/ EndOfFile \/ ProcessArgs

Spec == Init /\ [][Next]_vars

-----------------------------------------------------------------------------
(* Properties.                                                             *)

\* The program mines with at least one thread, for pools that can be one, and
\* with a word it knows, whatever the file and the arguments say: no number
\* that becomes 0 when it is cut gets past the check.
StartsValid ==
  pc = "started" =>
    /\ chosen.threads \in 1 .. W - 1 /\ chosen.shares \in 0 .. W - 1
    /\ chosen.logging \in {"info", "debug"}
    /\ chosen.pools # << >> /\ \A i \in DOMAIN chosen.pools : chosen.pools[i] # "bad"

\* The last line read that sets the option o is the i-th; and what it sets o to.
IsLastSetting(o, i) ==
  o \in DOMAIN read[i] /\ \A j \in DOMAIN read : j > i => o \notin DOMAIN read[j]
Setting(o, i) == IF IsNumberLine(read[i]) THEN read[i][o] % W ELSE read[i][o]

\* The pools of all the lines read that have some.
Joined(list, l) == IF "pools" \in DOMAIN l THEN list \o l.pools ELSE list
PoolsRead ==
  LET all[k \in 0 .. Len(read)] ==
        IF k = 0 THEN << >> ELSE Joined(all[k - 1], read[k])
  IN all[Len(read)]

\* A program that starts has read the whole file, and uses of it, for each
\* option no argument changes, the last line, or the pools of all its lines.
FileFollowed ==
  pc = "started" =>
    /\ lines = << >>
    /\ \A o \in Opts \ {"pools"} : args[o] = Default[o] =>
         \A i \in DOMAIN read : IsLastSetting(o, i) => chosen[o] = Setting(o, i)
    /\ args.pools = Default.pools /\ PoolsRead # << >> =>
         chosen.pools = ParsePoolsArgv(PoolsRead)

\* "Options loading from the config file will be overrided by options provided
\* by the command arguments" (README.md:62).
ArgumentsOverride ==
  pc = "started" =>
    \A o \in args.given \ {"pools"} : chosen[o] = args[o]
=============================================================================
