# A TLA+ model of noso-2m

noso-2m is a miner for the Noso cryptocurrency. It mines for several pools at
once: each pool has a thread that talks to it (the *comm thread*) and a number
of *mine threads*. This directory holds TLA+ modules of its threads, its
network client, its start and end, its options, its hash and its text interface,
the configurations TLC checks them with, and theorems about them that the TLA+
proof system checks.

Contents: [the system](#the-system), [the modules](#the-modules),
[what is checked](#what-is-checked), [what is proved](#what-is-proved),
[what was found](#what-was-found), [what is not modelled](#what-is-not-modelled),
[the plan](#the-plan).

## The system

A Noso block lasts 600 seconds of wall-clock time. Shares of a block may be
computed and sent while its age is 10..585 seconds, the *inner mining period*.
There is no message that says a block has ended: every thread reads the clock.

| Component | State | Operations | Must hold |
|---|---|---|---|
| Block clock (`noso-2m.hpp`) | none, `std::time` | `NOSO_BLOCK_AGE...` | the two periods exclude each other; timeouts reach into the next one |
| Comm thread (`CCommThread`, `comm.cpp`) | `m_pool_solutions`, counters of accepted, rejected and failed shares, `m_reached_pool_max_shares`, `m_been_banded_by_pool`, the locals of `Communicate` | get a target, hand it to the mine objects, submit shares, close the block (collect summaries), reset, join | shares are for the block being mined, sent once, within the limits; a block is closed, the next one is begun |
| Mine thread (`CMineThread`, `mining.cpp`) | the fields a target fills, `m_computed_hashes_count`, two mutexes and two condition variables | `WaitTarget`, the hash loop, `SetBlockSummary`, `DoneTarget` | its target is not rewritten while it mines, nor lost; one summary for each target |
| Waiting threads (`misc.cpp`) | `g_all_awaiting_threads`, `g_still_running` | `handle`, `release`, `notify`, `wait_for` | a sleeping thread can be reached; Ctrl+C ends everything |
| Share submission (`SubmitPoolSolution`) | `m_inet_command`, `m_inet_buffer` | send, read the code, retry | a share is counted as the pool counted it |
| Network client (`inet.cpp`) | a socket for each call | resolve, connect, send, receive, with timeouts | a socket is closed once; a call ends |
| Answers of a pool (`CPoolStatus`, `CPoolInfo`, `CPoolPublic`) | none | parse | a malformed answer is refused |
| Hash rates (`g_last_block_thread_hashrates`, `tool.cpp`) | one vector for all pools | fill at the end of a block, show | read only when complete |
| Options (`misc.cpp`) | globals | arguments, config file, defaults | arguments win; what is accepted is valid |
| NosoHash, MD5 | a buffer for each thread | `GetBase`, `GetHash` | different bases for different threads and counters |
| Text interface (`textui.hpp`, `output.hpp`), tools, logging | windows, pads, positions | keys, commands, output | positions stay in bounds |
| `main` (`noso-2m.cpp`) | everything above | start-up, exit handler, join | mining starts; everything ends |

How they interact. `main` creates one comm thread for each pool; the
constructor of `CCommThread` starts its mine threads. The comm thread writes a
target into each mine object (`NewTarget`, under `m_mutex_blck_no`); the mine
threads call back `AddSolution`, `IsBandedByPool` and `ReachedMaxShares`, the
last two without a lock. At the end of a block, each thread leaves its loop by
reading the clock; the comm thread then calls `GetBlockSummary` on each mine
object, which blocks until `SetBlockSummary`. All of them register in
`g_all_awaiting_threads` while they wait, for the exit handler to notify them.

What is hard: the mine threads read the fields of their target without the
mutex that `NewTarget` takes, and nothing but the order of summaries and
targets keeps them apart; the end of a block is noticed by every thread on its
own; a call to a pool may last longer (60 seconds for each of three steps) than
the 24 seconds between two inner periods; a notification may come between the
test of a predicate and the sleep.

## The modules

| Module | What it is |
|---|---|
| `BlockClock` | the macros of the block clock and the timeouts computed from it |
| `BlockMining` | one pool: its comm thread and mine threads, block after block |
| `BlockBases` | the bases that `NosoHash` makes of the shares of `BlockMining` |
| `BlockRounds` | what the hand-over promises: rounds that do not overlap |
| `AwaitingThreads` | the same threads, seen by their waits: mutexes, condition variables, the registry, the exit handler |
| `ShareSubmission` | the shares of one pool: the tries, the network, the pool's answers and what is counted |
| `ShareLedger` | what a submission promises: each share decided once, as the pool did |
| `InetCommand` | a request for a target, from the addresses of the pool to the close of its socket, in several comm threads at once |
| `PoolStatus` | what `CPoolStatus` makes of the first characters of an answer |
| `NosoHash` | the base of a hash, the rows made of it and the packing, as functions |
| `Options` | the config file, the arguments and the defaults, and what the program starts with |
| `NosoMain` | `main`, from the options to the last join, for any number of pools, in both kinds of build; it extends `Options` |
| `TextUI` | the log window: two pads, keys, commands and the size of the terminal |
| `MC...` | the instances TLC checks |
| `..._proofs` | the theorems, eight modules, each about the module it is named after; `BlockTotals_proofs` goes on from `BlockMining_proofs`, to what holds of a block as a whole |

How they compose. `NosoMain` extends `Options`: `process_options` is a stretch
of `main`, and the number of pools it leaves is the number of comm threads that
`main` makes. `BlockMining` is one of these comm threads with its mine threads;
`AwaitingThreads` and `ShareSubmission` are the same threads with the detail
that `BlockMining` takes for one step, their waits and a submission;
`InetCommand` is a call below these. `BlockMining` implements `BlockRounds`,
`ShareSubmission` implements `ShareLedger`.
`BlockBases` takes the bases of the shares from `NosoHash`, and `InetCommand`
the fields of a status from `PoolStatus`.

### BlockMining

The variables are the members of `CCommThread` and `CMineThread` and the locals
of `Communicate`, `GetPoolTargetRetrying` and `Mine` that outlive a step; their
names in the code stand beside their declaration. `cpc` and `mpc[m]` say where
the comm thread and mine thread `m` are. An action is the code between two
points where another thread, the clock or the pool can make a difference: one
call of `NewTarget` or `GetBlockSummary` under its mutex, the head of a loop,
one hash.

* The block, its number and its hash are one number. The pool is a variable
  `poolBlck`, which follows the clock at once, late or never (`PoolNewBlock`): a
  target may be the one of the block before.
* A call to the pool is one step that may come at any time after it began, so
  it may last as long as the clock lets it. Its outcomes are those the code
  distinguishes: a target or none; a share accepted, rejected, refused for the
  limit (code 9), banned (11, 12), or not answered (-1, put back).
* A share is its block, its thread and its number within the block: that is
  what its base is made of.
* `solution->diff < target->mn_diff` (comm.cpp:681) is always true, because the
  mine threads leave `diff` empty (mining.cpp:121); it is not in the model.
* The counts of rejected and failed shares are only shown to the user, and are
  left out, with all the output.
* `Prompt`: the code has no rule that a thread is scheduled in time. With
  `Prompt = FALSE` the clock runs on whatever the threads do. With `TRUE`, it
  does not leave the outer period while a thread has something to compute: a
  thread is never late by 24 seconds, unless it waits for the pool. Only
  `in_time`, `zero_hash_hang` and `liveness` assume it.

### BlockRounds

A round is open from the target to `ResetMiningBlock`. A thread works at most
once in it and then reports; a round ends when all have reported (or after a
stop), and a new one begins only when nobody is at work and no share is left.
`BlockMining` implements it with `block <- target.blck`,
`open <- InBlock`, `working <-` the threads between `WaitTarget` and
`SetBlockSummary`, `reported <-` the threads whose summary is there or was
collected, `shares <-` the blocks of the shares queued or under way.

### AwaitingThreads

`BlockMining` takes a wait for a guard. Here a wait is its steps: take the mutex
of what is waited for, lock the registry (`Handle`), insert (`Insert`), test the
predicate (`Test`), go to sleep (`Block`), be notified, time out or wake for
nothing, lock the registry (`Release`), erase (`Erase`). The exit handler clears
`g_still_running`, locks the registry and notifies one condition variable after
another. What the threads do between two waits is reduced to what decides the
next wait. `HandlerOn` says on which threads the handler may run: on the main
thread or one of its own, or on any. With any, the model reaches a state in
which it stands still: in a build with `NO_TEXTUI` the `SIGINT` handler locks
the mutex of the registry, and never ends on a thread that holds it. Linux
prefers the main thread, which does not take it, and the runs assume that.

### ShareSubmission

`BlockMining` knows four outcomes of a submission. Here are the tries that lead
to them, with the pool and the network as actors. The comm thread takes the last
share of the queue (`GetSolution`), tries it `Retries` times at most (`NotSent`,
`Send`), and either understands an answer (`Answered`) or has none (`NoAnswer`);
with no try left, or no time, the share goes back (`Failed`). The pool keeps the
shares it has accepted (`taken`).

* Each try is a connection of its own. `requests` holds what is on its way, with
  `open` for the connection that is waited on; `answers` what comes back on it.
  When a try is given up its request is no longer open: the pool may still get
  it, more than once if the share was sent more than once, but nobody hears the
  answer. A request that is lost is one the pool never answers.
* An answer is the outcome the code reads from it: `True`, `False` with a number
  (a ban or not), `False SHARES_LIMIT`. An answer of which too little arrived is
  not understood and counts as none; the codes are short enough that a part is
  never taken for another code. Of `False SHARES_LIMIT` 9 to 17 bytes make
  `std::stoul` throw, which ends the program (`Terminate`).
* `PoolVerdicts` is the least one has to believe of a pool: it accepts a share
  of its block once, up to its limit, and may refuse any share.
* The limits: `SharesLimit` is `--shares`, `maxShares` the `max_shares` that came
  with the target, any of `PoolLimits`. The code counts the answers `True` that
  arrive. If one is lost, the retry is refused as a duplicate, or the share goes
  back unanswered, and the pool may accept more shares than `--shares`: one for
  each share that was not heard of (`unheard`), and no more
  (`TakenWithinLimit`). `AcceptedCounted` and `ShareLedger` accept it: they say
  what is made of the answers received.
* `found`, `credited`, `refused` and `unheard` are history: what became of the
  shares of the target. `ResetMiningBlock` comes with the end of the submitting loop
  (`Close`). The mine threads are reduced to `AddSolution`.

### ShareLedger

What is left of a submission when tries, connections and the clock are taken
away: shares that wait, at most one under way, and those that are decided. A
share under way comes back to wait or is decided, once, and as accepted only if
the pool has accepted it; it is given up only with the whole program. Nothing
waits when a block closes, and the next one is a later one. The pool accepts what
was found for the block of the target, at any time, so also a share that waits
again or was refused. `ShareSubmission` implements it with
`waiting <- Range(queue)`, `underway <-` the share that is being submitted,
`good <- credited`, `bad <- refused`, `kept <- taken`.

### InetCommand and PoolStatus

A thread resolves the name of its pool (`Resolve`) and takes its addresses one
after the other (`Socket`, `Connect`, `Select`, `GetSockOpt`), sends, reads one
part of an answer and closes. Each call may fail, and there are three places
where a socket is closed before the next address is tried. Sockets are numbers of
a table of the process; the lowest free one is given out, so that closing one
twice closes the socket of another thread. `Select` keeps what the code keeps
after an error: the socket is closed, its bit is still in the sets, and
`getsockopt` is asked about a number that may be another's by then. It also
takes from `left` what it has waited, as Linux does. Windows leaves `timeval`
alone, so that there the bound is one timeout for each address and two more;
and there an error of `connect` is never recognised at once (`inet.cpp:128`).

What was read is cut at any character (`StatusesRead`), loses two more, which
the code takes for the end of the line, and is taken apart by `PoolStatus`:
`next_status_token` begins again at the first token when it is past the last
one, and the conversions of numbers throw on a token that begins with a letter.
An answer is the lengths of its tokens, since nothing but their places decides.

### NosoHash

The characters of the base (the prefix of the pool, two for the thread, nine
digits of the counter), the 128 rows, the packing, and the difference to a
target. What is between them, MD5, decides nothing here. The table of sums is
indexed by the sum of two or of four characters; that it is never left rests on
its giving characters again.

### Options

The steps of `process_options`: the file is opened (`OpenFile`), read a line at a
time (`ReadLine`, or `StoulThrows`), then the arguments are checked and each
option chosen (`ProcessArgs`). Any error ends the start; `std::out_of_range` of a
number too large is caught nowhere and ends it with a termination. The six
options of the file are of four kinds, and one of each is in the model: a number
that is checked, a number that is not, a list, and a word (`logging`, which
stands for `address` and `binding` too, whose checks are regular expressions and
lengths). Numbers keep their width: `W` is 2^32, `std::stoul` makes 64 bits.
That `binding` must be an address of the machine is left to `NosoMain`.

### NosoMain

Each stretch of `main` that may fail is an action with its ways out: an exit
with a status, an exception that is caught (`Catch`), or a termination.
`textui` is the kind of build, `binding` whether an address to bind to was
given. With the interface, `main` is in its event loop until the user leaves it
(`LeaveLoop`), and only then creates the comm threads (`CreateThread`). A comm
thread is what `main` knows of it: it runs until it is told to stop. What a
thread does before that is the subject of the modules above.

### TextUI

A pad is the number of its lines and the first that is shown. A key or a command
is handled after the other, the size of the terminal is any of `Heights` at any
time, and each handler moves a pad, or adds lines, or makes the windows anew,
and draws. The names are the code's: PageUp and Home move towards the newest
lines, PageDown and End towards the oldest, contrary to the arrows. `cramped` is
history: 14 lines are for the header, the activity, the command, the status and
two rules (`textui.hpp:160`), so that a terminal of less than 16 has left the log
window less than two, and `clen - m_logs_rows` is then the end of the pad or
behind it.

## What is checked

Bounds common to the runs of `BlockMining`: a block of 4 seconds, inner in
seconds 1 and 2, so that it has a *before*, an *inner* and a *behind* part and
an inner period of more than one second; the clock starts at any second of a
block and stops at `MaxTime` 7, after the inner period of the second block (4
in `liveness`: the first block and the start of the second). Two blocks are
enough for every hand-over, which relates a block to the one after it. Two mine
threads are enough for one to be late while another one is not; the proofs
cover any number. `MaxHashes` bounds the hashes of a thread in one block.
`MaxShares` are the limits the pool may announce, `DefaultShares` is
`DEFAULT_POOL_SHARES_LIMIT`, 5 in the code, made small so that it is reached.

| Run | Instance | Shows |
|---|---|---|
| `any_speed` | 2 threads, not prompt | types; the invariant of the hand-over; no target is rewritten under a mining thread; every share is for the block mined; no share is queued twice, nor are two with the same base; the hashes reported are those computed; `BlockRounds` is implemented |
| `in_time` | 2 threads, prompt | `--shares` and the pool's limit bound what is counted as accepted; no target is erased by the `DoneTarget` of the block before |
| `liveness` | 2 threads, prompt, `--shares 0`, one retry | a block that is mined is closed; Ctrl+C ends every thread; the limit of the pool (0 or 1) bounds what is accepted |
| `zero_hash_hang` | 1 thread, prompt | violated: see below |
| `waits` | 1 thread | no target, no summary is missed, though test and sleep are two steps; who sleeps when Ctrl+C is pressed is woken; the registry holds exactly the condition variables being waited on: the assertions of `misc.cpp:244` and `258` |
| `lost_wakeup` | 1 thread | violated: see below |
| `lost_answers` | 2 shares a block, both limits | what is counted as accepted the pool has accepted; each accepted share is counted once; no share is lost or doubled, whatever fails; the pool has no more than `--shares` and those it was not heard to accept; `ShareLedger` is implemented |
| `requests` | 2 comm threads | no socket is left open; no thread uses the socket of another, but one whose `select` has failed and those whose socket it closes, until their next socket; a request ends, in three timeouts; no answer that is cut is taken for a whole one |
| `startup` | 2 lines of config | the program starts with valid options only; where no argument changes an option, it is what the whole file says; what comm threads use outlives them; nothing is left when `main` returns, on whatever way |
| `argument_ignored` | 1 line of config | violated: see below |
| `textui_never_mines` | no line of config | violated: see below |
| `screen` | 2 pads, 4 heights | the window shows what the keys move; and unless the terminal was once cramped, the position stays in the pad and the last line of an answer is seen |

`waits` has one mine thread because a temporal check with two takes minutes;
each mine object has condition variables and mutexes of its own, and the comm
thread takes the objects one at a time; `RegistryExact` is proved for any number.

`lost_answers` has two shares in each of two blocks, two tries, `--shares 1` and
a pool that announces one or two (`PoolLimits`) with each target, so that the
limit of the pool and, where it is two, that of `--shares`, a retry, a share put
back, a request that arrives in the next block and an answer for another share
all occur; shares are interchangeable, hence the symmetry. The bound of
`TakenWithinLimit` is reached: where the pool accepts two, it has two with
`--shares 1` after one answer was lost.

`requests` has two comm threads, so that one may get the number the other has
closed, pools of one or two addresses, so that there is a second one to try with
what is left of the timeout (1 second, all or nothing), and two answers, with
and without a last payment, shorter than the buffer of 180 characters. Each is
cut at every character.

`startup` has files of two lines at most, enough for a repeated option and for
one that another line follows, with numbers on both sides of each boundary (0,
the default 1, 2, `W`, which is cut to 0, and `W * W`, out of range, for `W` 4) and lists that are empty, the default, useful or
without any pool: up to two comm threads. It has 9.2 million states; the two
violations below need less and have shorter files.

`screen` has pads of 16 and 10 lines, so that both get full, a page of 3, and
heights (13, 15, 16, 21) that leave the log window less than no line, one, two,
and seven: on both sides of what is cramped, smaller and larger than a page. Two pools answer or do not, so that an answer has 4, 5 or 6
lines.

Deadlock is not checked where the program comes to its end: `startup` and what
extends `Options`, `lost_answers` (the comm thread may have ended, or the last
block is over), `screen` (the loop is left).

`ShareLimit` says what is *counted* as accepted. A pool that announces 0 shares
is sent one (`0 <= 0` in `ReachedMaxShares`), which the property admits.

Fairness. `BlockMining!Fairness`: weak fairness of the comm thread, of each mine
thread and of the clock. The operating system runs every thread, every call to
the pool ends because each of its steps has a timeout, and time goes on. One
step has none: `inet_service` (`inet.cpp:66-70`) repeats `getaddrinfo` as long as
it says `EAI_AGAIN`. That name resolution gives another answer in the end is an
assumption about the world, not a fact of the code. Nobody
has to press Ctrl+C and the pool does not have to learn of a block.
`AwaitingThreads!Fairness`: strong fairness of each thread, because it competes
for mutexes that are free again and again; a mutex refused forever to the same
thread would need an unfair lock, which the platforms do not guarantee against
but whose holders here leave it after a few instructions. Spurious wakeups and
Ctrl+C are possible and never required.
`InetCommand!FairSpec`: weak fairness of each thread within a request, which
every call leaves because of its timeout; nobody has to begin one, and the
repetition of `getaddrinfo` is left out, as above. `NosoMain!MainFairSpec`: weak
fairness of `main` and of a comm thread that is told to stop (which is what
`liveness` shows of it, with the exceptions above); nobody has to press a key,
so that `main` may stay in its event loop.

## What is proved

For every value of the constants, under the assumptions that the modules name:
any number of threads, any clock with a non-empty inner period and a non-empty
outer one on both sides, any limits and number of tries, prompt or not
(`ClockAssumption`, `MiningAssumption`, `SubmissionAssumption`); any number of
addresses and any timeout, answers with fields of any length (`InetAssumption`);
any options and any file (`OptionsAssumption`); any prefix of three characters
(`PrefixAssumption`);
pads of at least two lines, and any terminal (`TextUIAssumption`).

Two theorems assume `Prompt`, which is what a run of `in_time` sets: the mine
threads notice the end of a period before the next one begins. It is needed: TLC
finds both violated in the instance of `in_time` with `Prompt = FALSE`, when a
thread sleeps over a whole outer period. One assumes that the
threads are those `nosohash_prefix` tells apart, up to 92 * 92, and that a
thread computes less than 10^9 hashes in a block: the counter has nine digits.

| Theorem | Module | Says |
|---|---|---|
| `TypeCorrect` | `BlockMining_proofs` | `Spec => []TypeOK` |
| `HandOver` | `BlockMining_proofs` | `Spec => []HandOverInv` |
| `TargetsProtected` | `BlockMining_proofs` | `Spec => []NewTargetProtected` |
| `SharesMatchTarget` | `BlockMining_proofs` | `Spec => []SharesOfTarget` |
| `NoShareIsTwice` | `BlockMining_proofs` | `Spec => []NoShareTwice` |
| `RoundsRefined` | `BlockMining_proofs` | `Spec => RoundsImplemented` |
| `HashesAreCounted` | `BlockTotals_proofs` | `Spec => []HashesCounted` |
| `SharesHaveTheirBases` | `BlockTotals_proofs` | `Spec => []BasesDiffer`, for the threads and hashes a base can tell apart |
| `TargetsKept`, `SharesLimited` | `BlockTotals_proofs` | `Prompt` implies `Spec => []TargetNotErased`, `[]ShareLimit` |
| `RegistryIsExact` | `AwaitingThreads_proofs` | `Spec => []RegistryExact` |
| `SubmissionTyped`, `NothingInvented` | `ShareSubmission_proofs` | `Spec => []TypeOK`, `[]CreditedIsTaken` |
| `AcceptedIsCounted`, `SharesAccounted` | `ShareSubmission_proofs` | `Spec => []AcceptedCounted`, `[]SharesKept` |
| `LimitPassedUnheard` | `ShareSubmission_proofs` | `Spec => []TakenWithinLimit` |
| `LedgerIsKept` | `ShareSubmission_proofs` | `Spec => LedgerKept` |
| `RequestTyped`, `NoSocketIsLeft`, `SocketIsOwn`, `CallIsBounded` | `InetCommand_proofs` | `Spec => []TypeOK`, `[]NoSocketLeft`, `[]OwnSocket`, `[]CallBounded` |
| `SentIsAccepted` | `InetCommand_proofs` | `Spec => []AcceptedAsSent` |
| `ResourcesOutlive`, `NothingIsLeft` | `NosoMain_proofs` | `MainSpec => []ThreadsOutlived`, `[]EndsClean` |
| `ValidStart`, `FileIsFollowed` | `NosoMain_proofs` | `MainSpec => []StartsValid`, `[]FileFollowed` |
| `ScreenTyped` | `TextUI_proofs` | `Spec => []TypeOK` |
| `WindowInPad`, `ScreenIsCurrent`, `AnswersShown` | `TextUI_proofs` | `Spec => []ViewInPad`, `[]ScreenFollows`, `NewestShown` |
| `BaseInjective` | `NosoHash_proofs` | different bases for different threads (up to 92 * 92) or counters (up to 10^9) |
| `HashStaysInTable` | `NosoHash_proofs` | none of the 128 rows leads out of `nosohash_chars_table` |

### The hand-over

That no thread mines when `NewTarget` is called cannot be proved
from itself: one has to know that each thread has given the summary of the block
that ended *and* has no target left to start again with. `HandOverInv` says it:

* `MinesTarget`: a thread that mines has the target of the comm thread and no
  summary yet;
* `WaitsForTarget`: a thread that waits has no other target, and none while its
  summary is there;
* `HandsToFree`, `ClosesFree`, `AllFreeBetween`: the comm thread frees the
  threads one by one when it collects summaries, all are free and no share is
  left between two blocks, and it gives targets to free threads only. *Free* is:
  no summary, not mining, and no target unless `DoneTarget` is about to erase it;
* `SharesBlck`: every share is for the target of the comm thread.

`WaitsForTarget` carries the case that looks wrong in the code: `DoneTarget`
comes after `SetBlockSummary`, so a fast comm thread may hand over a target that
is then erased. The invariant survives it (the thread waits with no target);
what is lost is the block, which is why `TargetNotErased` needs promptness and
the hand-over does not. There is one lemma for each action that disturbs the
invariant, and one for all that do not. The refinement uses the invariant in
each step: `Begin` needs `AllFreeBetween`, `Work` needs `WaitsForTarget`, `Find`
needs `MinesTarget`, `End` needs `ClosesFree`.

`NoShareIsTwice` rests on it. A share is its thread and a number, and the
numbers of a thread begin again with each target; the invariant
`SharesDifferInv` says that every number in the queue is one its thread has
used, and that a thread about to begin again has no share there. That holds when
a target comes because all queues are empty between two blocks, which is
`AllFreeBetween`.

### The block as a whole

`TargetsKept` and `SharesLimited` need the clock in the invariant. A second later
a block is a second older or a new one begins (`AgeGrows`), so the instant that
ends a timed wait does not move while the wait lasts, and lies behind the last
second waited for (`Deadlines`).

* `InTimeInv`: no thread gives its target up while the age is inner; when the
  comm thread asks for a target no thread is about to erase one, because one
  that was (`mpc = "done"`) was so before the wait for the inner period began,
  and the clock cannot get there before it has finished.
* `ShareLimitInv`: a share is sent only from an iteration that found the limits
  not reached (`MayAccept`), and a rest of the comm thread in the inner period
  ends with it, so that it does not go on to another share.

`HashesAreCounted` is about a sum. The fold of the library takes the elements of
a set in an order nobody knows; `SumsUnique`, `SumsExist` and `SumTake` say that
there is one sum, whatever the order, by an induction over the subsets of a
finite set. With them `CountInv` goes from one summary to the next: what has
been collected is the sum over the mine objects before `obj`, and a summary that
is there is the count of its thread.

`SharesHaveTheirBases` joins `NoShareIsTwice` and `BaseInjective`: a queue holds
shares of threads and counters that a base can tell apart (`SharesTold`), all of
one block (`SharesBlck`), and no two that are the same.

### The registry

`RegistryInv`: between `Insert` and `Erase`, and only there, the condition
variable of a thread is in the registry, and a thread that waits does so at the
condition variable its place in the code tells. One lemma says that a
notification changes neither.

### The shares on their way

`CreditedIsTaken` is not inductive: an answer is a word that names no share. The
invariant `Connected` ties it to one: a connection that is open carries the
share that is being submitted, answers exist only while it is open, and an
answer `True` means that this share is among the accepted ones. The counts of
`SharesKept` follow from `Places` and `Apart`: where the shares of the block are,
and that no two of these places have one in common; each step moves one share
from one place to another.

The same invariants make each such step one of `ShareLedger`: an answer decides
the share under way because no connection that is open carries another
(`Connected`), and decides it once because it is in no other place (`Apart`).
That the pool accepts only what was found needs one more, `RequestsFound`: a
request, even one given up in an earlier block, is of a share found for its own
block, and a pool that has gone on to a later block refuses it.

`LimitPassedUnheard` needs both sides. `Accounted`: what the pool has of the block
is counted, or not heard, or its answer is on the way, and a request nobody waits
for is of a share not heard. `LimitLeft`: while a share is submitted the count is
below `--shares`, so that the answer on the way does not pass it.

### Sockets and time

`RequestInv`: the timeout of a connection is the sum of what has been waited and
what is left (`TimeShared`), and a thread that has a socket knows its number.
`NoSocketLeft` is inductive even after an error of `select`, when a thread may
close the socket of another one. `OwnSocket` excepts the threads of
`interrupted`: the one whose `select` failed, and any whose socket such a thread
closes; each until it opens its next socket (the set is history, and shrinks
again). Of the others it is inductive with the types and `AddressTried`: a number
has one owner, and only who has it, or one of these, closes it.

### What an answer is taken for

`SentIsAccepted` is about the place where a token begins. Positions grow, by the
length of a token and a blank (`Starts`, `StartsGrow`, by induction over the
tokens, on the recursive function `Start`). An answer that is cut before its
last token leaves one of the calls that read a number with nothing to read
(`CutRefused`); one that is not has its tokens where the fields are looked for,
each in its length, the last one apart.

### The options

`OptionsInv` says what the variables of the config file are at every line: the
numbers are 32 bits wide and, after the checks, valid; each option is what the
last line that sets it said, and the pools are those of all lines joined
(`Follows`). `ParsedArePools` and `JoinLine`, both by induction over a list, say
what the two loops leave: nothing but pools, and one more line's pools behind
those there were.

### The rows of a hash

A sum of two or four characters is a place of the table, where a character
stands (`TableNotLeft`). `HashStaysInTable` goes from there to all the rows, by
induction over them (`RowsExist`, `RowsChars`), and begins with what `GetBase`
makes of any prefix, thread and counter and `_init` of any address.

### The end of the program

`MainInv` says how far `main` has come at each place: no comm thread before the
network and the addrinfo are there, none where an exception is caught, and an
ended one only after `g_still_running` was cleared. That success implies it was
told to stop needs that there is at least one pool, which `Options` provides.

### The log window

The positions are computed in four different ways. What holds of all is that a
position is 0 or has at least two lines below it, because every window that is
not cramped has two; with one line it would not be inductive.

### Model-checked only

Every invariant and every action property that a passing run checks is a theorem. Every
liveness property stays with TLC: it rests on fairness, which, like `ENABLED`,
is beyond this prover.

## What was found

* **A block without a hash stops a pool** (`zero_hash_hang`). When the inner
  period ends while the comm thread asks for a target, `GetTarget` returns the
  last answer, and it is handed over. The mine threads report 0 hashes, and
  `GetBlockSummary` waits for a number above 0. This pool does not mine any more
  until the program is restarted. A target obtained in the last moments of the
  period, before a mine thread wakes up, has the same effect, and so has a limit
  of shares reached by others before a thread has computed one hash.
  `BlockCloses` is the property that does hold: it excepts such blocks.
* **Ctrl+C may not be heard** (`lost_wakeup`). It is announced without the mutex
  under which the waits test `g_still_running`; a thread between test and sleep
  misses it. The timed waits end later, the untimed ones do not, and `main`
  waits for them.
* **The text interface never mines** (`textui_never_mines`). `main` runs the
  event loop first (`noso-2m.cpp:194`) and creates the comm threads when it has
  returned (`214-218`), which it does after `g_still_running` was cleared: they
  end at once. `textui.hpp:271` offers "Show hashrate per thread last mining
  block" in the meantime. The builds of `README.md` are made with `-DNO_TEXTUI`.
* **An argument may be ignored** (`argument_ignored`). `README.md:62` says that
  arguments override the config file; one that repeats the default does not.

Seen while modelling, and claimed otherwise nowhere in the code's documents: a
`SIGINT` handler on a thread that holds the mutex of the registry (see
[AwaitingThreads](#awaitingthreads)); more shares than `--shares` after a lost
answer ([ShareSubmission](#sharesubmission)); mine threads that wait after a ban, and the
comm thread that joins them, until Ctrl+C, which is all that the `StopEnds` of
`liveness` speaks of; a socket closed twice after an error of `select`
([InetCommand](#inetcommand-and-poolstatus)); the keys that go the other way, and
a position behind the pad in a terminal of less than 16 lines
([TextUI](#textui)). Code that is
never reached: the branch of `m_exited` (`comm.cpp:165`), the test of
`comm.cpp:374`, and the table of `tool.cpp:130` as long as the interface never
mines.

## What is not modelled

The reports and all output but the number of its lines; the text of commands and
answers (their outcomes and their lengths are); MD5; `CPoolInfo`, whose numbers
are only shown, and `CPoolPublic`, which nothing uses; the regular expressions of
options; `inet_local_ipv4`; the pads of the interface that do not scroll, and its
command field; the table of hash rates, which the comm threads of several pools
write with a race whose outcomes a model cannot enumerate, and which is shown
only while there is none of them.

cxxopts, MD5 and the two copies of the ncurses headers are third-party: four
fifths of the lines under `src/`. Of the program's own 3700 lines, the modules
stand for about a third; the rest is output, declarations and text.

Wall-clock and steady clock are one clock. Data races on
`m_reached_pool_max_shares`, `m_been_banded_by_pool` and the counters are atomic
reads and writes, of a possibly old value only in that a step may come at any
time later.

## The plan

What is left, in this order:

1. `BlockMining` as an implementation of `ShareLedger` too, so that both models of
   a submission keep the same promise: its `ShareAccepted`, `ShareRejected` and
   `ShareFailed` are `Accept`, `Refuse` and `PutBack`. Its pool is only its
   answers, so `kept` has to come from them.
2. `BlockAgeWait`: the clock read several times for one timeout, wall-clock and
   steady clock apart; that a wait ends in the period it waits for.
