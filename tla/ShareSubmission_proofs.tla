----------------------- MODULE ShareSubmission_proofs -----------------------
(***************************************************************************)
(* The shares of a pool, for any number of shares, tries, blocks and any   *)
(* limits: none is lost or doubled, each accepted one is counted once, and *)
(* what is counted the pool has accepted.                                  *)
(*                                                                         *)
(* The counts follow from the places of the shares, which are disjoint;    *)
(* and what is counted from the connections: the one that is open carries  *)
(* the share that is being submitted, and its answers are for that share.  *)
(* What the pool has and is not counted is a share that was not heard.     *)
(***************************************************************************)
EXTENDS ShareSubmission, FiniteSetTheorems, SequenceTheorems, TLAPS

Mining == pc \in {"loop", "try", "wait", "rest"}

\* Where the shares of the target are; a comm thread that has closed its block
\* has none left.
Places ==
  /\ \A s \in found : s.blck = blck
  /\ Range(queue) \subseteq found /\ ({share} \ {NoShare}) \subseteq found
  /\ credited \subseteq found /\ refused \subseteq found
  /\ pc \in {"try", "wait"} => share # NoShare
  /\ pc = "wait" => tries < Retries
  /\ pc \in {"loop", "rest", "top"} => share = NoShare
  /\ pc = "top" => queue = << >>
  /\ Mining =>
       found = Range(queue) \cup ({share} \ {NoShare}) \cup credited \cup refused

\* No share is in two of them.
Distinct(q) == \A i, j \in DOMAIN q : q[i] = q[j] => i = j
Apart == Mining =>
  /\ Distinct(queue)
  /\ Range(queue) \cap (credited \cup refused) = {}
  /\ share \notin Range(queue) \cup credited \cup refused

\* The connection that is open has the share that is being submitted.
Connected ==
  /\ \A r \in requests : r.open => pc \in {"wait", "ended"} /\ r.share = share
  /\ answers # {} => pc \in {"wait", "ended"}
  /\ "true" \in answers => share \in taken
  /\ credited \subseteq taken

Finite == IsFiniteSet(found) /\ IsFiniteSet(credited) /\ IsFiniteSet(refused)

Counts ==
  /\ pc = "top" => accepted = 0
  /\ Mining => accepted = Cardinality(credited)
  /\ Mining => Cardinality(found) = Len(queue) + Cardinality({share} \ {NoShare})
                                    + Cardinality(credited) + Cardinality(refused)

SharesInv == TypeOK /\ Places /\ Apart /\ Connected /\ Finite /\ Counts

-----------------------------------------------------------------------------
\* The queue without its last share, and with one more.
WithoutLast(q) == SubSeq(q, 1, Len(q) - 1)
LastOf(q) == q[Len(q)]

LEMMA LastTaken ==
  ASSUME NEW q \in Seq(Shares), q # << >>
  PROVE  /\ WithoutLast(q) \in Seq(Shares) /\ Len(WithoutLast(q)) = Len(q) - 1
         /\ LastOf(q) \in Shares
         /\ Range(q) = Range(WithoutLast(q)) \cup {LastOf(q)}
         /\ Distinct(q) =>
              Distinct(WithoutLast(q)) /\ LastOf(q) \notin Range(WithoutLast(q))
<1> DEFINE r == WithoutLast(q)
           x == LastOf(q)
<1> USE DEF WithoutLast, LastOf
<1>1. Len(q) \in Nat \ {0} /\ DOMAIN q = 1 .. Len(q) /\ x \in Shares
  OBVIOUS
<1> DEFINE n == Len(q) - 1
<1>2. n \in Nat /\ \A i \in 1 .. n : q[i] \in Shares
  BY <1>1
<1>3. /\ r \in Seq(Shares)
      /\ Len(r) = IF 1 <= n THEN n - 1 + 1 ELSE 0
      /\ \A i \in 1 .. n - 1 + 1 : r[i] = q[1 + i - 1]
  BY <1>2, SubSeqProperties
<1>4. DOMAIN q = (1 .. n) \cup {Len(q)} /\ Len(q) \notin 1 .. n
  BY <1>1
<1>5. n = Len(q) - 1
  OBVIOUS
<1> HIDE DEF n
<1>6. n - 1 + 1 = n
  BY <1>2
<1>7. Len(r) = n
  BY <1>2, <1>3, <1>6
<1>8. \A i \in 1 .. n : r[i] = q[i]
  <2> SUFFICES ASSUME NEW i \in 1 .. n PROVE r[i] = q[i]
    OBVIOUS
  <2>1. 1 + i - 1 = i
    BY <1>2
  <2> QED  BY <1>3, <1>6, <2>1
<1>9. DOMAIN r = 1 .. n
  BY <1>3, <1>7
<1>10. Range(q) = Range(r) \cup {x}
  <2>1. Range(q) = {q[i] : i \in 1 .. n} \cup {q[Len(q)]}
    BY <1>4, Zenon DEF Range
  <2>2. Range(r) = {q[i] : i \in 1 .. n}
    BY <1>8, <1>9 DEF Range
  <2> QED  BY <2>1, <2>2
<1>11. Distinct(q) => Distinct(r) /\ x \notin Range(r)
  BY <1>4, <1>8, <1>9 DEF Range, Distinct
<1> QED  BY <1>1, <1>3, <1>5, <1>7, <1>10, <1>11

LEMMA Appended ==
  ASSUME NEW q \in Seq(Shares), NEW x \in Shares,
         NEW r, r = Append(q, x)
  PROVE  /\ r \in Seq(Shares) /\ Len(r) = Len(q) + 1 /\ r # << >>
         /\ Range(r) = Range(q) \cup {x}
         /\ Distinct(q) /\ x \notin Range(q) => Distinct(r)
<1>1. /\ r \in Seq(Shares) /\ Len(r) = Len(q) + 1 /\ Len(q) \in Nat
      /\ r[Len(q) + 1] = x /\ \A i \in 1 .. Len(q) : r[i] = q[i]
  OBVIOUS
<1>2. DOMAIN r = (1 .. Len(q)) \cup {Len(q) + 1} /\ DOMAIN q = 1 .. Len(q)
  BY <1>1
<1>3. Range(r) = Range(q) \cup {x}
  BY <1>1, <1>2 DEF Range
<1>4. Distinct(q) /\ x \notin Range(q) => Distinct(r)
  BY <1>1, <1>2 DEF Range, Distinct
<1> QED  BY <1>1, <1>3, <1>4

LEMMA NoShareIsNone == NoShare \notin Shares
BY DEF NoShare, Shares

\* TypeOK in parts.
FlagTypes ==
  /\ running \in BOOLEAN /\ inner \in BOOLEAN
  /\ pc \in {"top", "loop", "try", "wait", "rest", "ended"}
  /\ reached \in BOOLEAN /\ banned \in BOOLEAN
NumberTypes ==
  /\ blck \in 0 .. MaxBlock /\ poolBlck \in 0 .. MaxBlock
  /\ maxShares \in PoolLimits
  /\ tries \in 0 .. Retries /\ accepted \in Nat
ShareTypes ==
  /\ queue \in Seq(Shares) /\ share \in Shares \cup {NoShare}
  /\ taken \subseteq Shares /\ found \subseteq Shares
  /\ credited \subseteq Shares /\ refused \subseteq Shares
  /\ unheard \subseteq Shares
WireTypes ==
  requests \subseteq [share : Shares, open : BOOLEAN] /\ answers \subseteq Verdicts

LEMMA TypesInParts ==
  TypeOK <=> FlagTypes /\ NumberTypes /\ ShareTypes /\ WireTypes
BY DEF TypeOK, FlagTypes, NumberTypes, ShareTypes, WireTypes

LEMMA StepTypes ==
  ASSUME TypeOK, Places, [Next]_vars
  PROVE  TypeOK'
<1> USE SubmissionAssumption, TypesInParts
    DEF commVars, poolVars, pastVars
<1>1. FlagTypes'
  <2> USE DEF FlagTypes
  <2>1. CASE Communicate \/ AddSolution
    BY <2>1 DEF Communicate, GetSolution, NotSent, Send, NoAnswer, Answered,
         Terminate, Failed, Close, GetTarget, AddSolution
  <2>2. CASE ~(Communicate \/ AddSolution)
    BY <2>2 DEF Next, vars, PoolAnswer, EndInner, StartInner, Stop
  <2> QED  BY <2>1, <2>2
<1>2. NumberTypes'
  <2> USE DEF NumberTypes, Places
  <2>1. CASE Communicate \/ AddSolution
    <3>1. CASE GetSolution \/ NotSent \/ NoAnswer
      BY <3>1 DEF GetSolution, NotSent, NoAnswer, MayTry
    <3>2. CASE Answered
      BY <3>2 DEF Answered, NewAccepted
    <3>3. CASE Send \/ Terminate \/ Failed \/ Close \/ GetTarget \/ AddSolution
      BY <3>3 DEF Send, Terminate, Failed, Close, GetTarget, AddSolution
    <3> QED  BY <2>1, <3>1, <3>2, <3>3 DEF Communicate
  <2>2. CASE ~(Communicate \/ AddSolution)
    BY <2>2 DEF Next, vars, PoolAnswer, EndInner, StartInner, Stop
  <2> QED  BY <2>1, <2>2
<1>3. ShareTypes'
  <2> USE DEF ShareTypes
  <2>1. CASE Communicate
    <3>1. CASE GetSolution
      <4>1. SubSeq(queue, 1, Len(queue) - 1) \in Seq(Shares)
            /\ queue[Len(queue)] \in Shares
        BY <3>1, LastTaken DEF GetSolution, WithoutLast, LastOf
      <4> QED  BY <3>1, <4>1 DEF GetSolution
    <3>2. CASE Answered
      BY <3>2 DEF Answered, Places
    <3>3. CASE Failed
      <4>1. Append(queue, share) \in Seq(Shares)
        BY <3>3, Appended DEF Failed, Places
      <4> QED  BY <3>3, <4>1 DEF Failed, PutBack
    <3>4. CASE Close \/ GetTarget
      <4>1. << >> \in Seq(Shares)
        OBVIOUS
      <4>2. CASE Close
        BY <4>1, <4>2 DEF Close, SolutionsLeft
      <4>3. CASE GetTarget
        BY <4>3 DEF GetTarget
      <4> QED  BY <3>4, <4>2, <4>3
    <3>5. CASE NotSent \/ Send \/ NoAnswer \/ Terminate
      BY <3>5 DEF NotSent, Send, NoAnswer, Terminate, Places
    <3> QED  BY <2>1, <3>1, <3>2, <3>3, <3>4, <3>5 DEF Communicate
  <2>2. CASE AddSolution
    BY <2>2 DEF AddSolution
  <2>3. CASE PoolAnswer
    BY <2>3 DEF PoolAnswer, WireTypes
  <2>4. CASE EndInner \/ StartInner \/ Stop \/ UNCHANGED vars
    BY <2>4 DEF vars, EndInner, StartInner, Stop
  <2> QED  BY <2>1, <2>2, <2>3, <2>4 DEF Next
<1>4. WireTypes'
  <2> USE DEF WireTypes
  <2>1. CASE NoAnswer \/ Answered
    BY <2>1 DEF NoAnswer, Answered, Closed
  <2>2. CASE Send
    <3>1. share \in Shares
      BY <2>2 DEF Send, ShareTypes, Places
    <3>2. [share |-> share, open |-> TRUE] \in [share : Shares, open : BOOLEAN]
      BY <3>1
    <3> QED  BY <2>2, <3>2 DEF Send
  <2>3. CASE PoolAnswer
    BY <2>3 DEF PoolAnswer
  <2>4. CASE \/ GetSolution \/ NotSent \/ Terminate \/ Failed \/ Close \/ GetTarget
             \/ AddSolution \/ EndInner \/ StartInner \/ Stop \/ UNCHANGED vars
    BY <2>4 DEF GetSolution, NotSent, Terminate, Failed, Close, GetTarget,
         AddSolution, vars, EndInner, StartInner, Stop
  <2> QED  BY <2>1, <2>2, <2>3, <2>4 DEF Next, Communicate
<1> QED
  BY <1>1, <1>2, <1>3, <1>4
     DEF TypeOK, FlagTypes, NumberTypes, ShareTypes, WireTypes

LEMMA InitShares == Init => SharesInv
<1> SUFFICES ASSUME Init PROVE SharesInv
  OBVIOUS
<1> USE SubmissionAssumption DEF Init
<1>1. TypeOK
  <2>1. FlagTypes
    BY DEF FlagTypes
  <2>2. NumberTypes
    BY DEF NumberTypes
  <2>3. ShareTypes /\ WireTypes
    BY DEF ShareTypes, WireTypes
  <2> QED  BY <2>1, <2>2, <2>3, TypesInParts
<1>2. Range(queue) = {} /\ {share} \ {NoShare} = {}
  BY DEF Range
<1>3. Places
  BY <1>2 DEF Places
<1>4. Apart /\ Connected
  BY <1>2 DEF Apart, Connected, Distinct
<1>5. Finite /\ Counts
  BY <1>2, FS_EmptySet DEF Finite, Counts
<1> QED  BY <1>1, <1>3, <1>4, <1>5 DEF SharesInv

LEMMA QueueTyped ==
  ASSUME TypeOK
  PROVE  /\ queue \in Seq(Shares) /\ Len(queue) \in Nat /\ accepted \in Nat
         /\ share # NoShare => share \in Shares
BY DEF TypeOK

LEMMA NoneOpen ==
  ASSUME TypeOK
  PROVE  \A r \in Closed : ~r.open
<1> SUFFICES ASSUME NEW q \in requests PROVE ~[q EXCEPT !.open = FALSE].open
  BY DEF Closed
<1>1. q \in [share : Shares, open : BOOLEAN]
  BY DEF TypeOK
<1> QED  BY <1>1

LEMMA StepConnected ==
  ASSUME SharesInv, [Next]_vars
  PROVE  Connected'
<1> USE DEF SharesInv, Connected, commVars, poolVars, pastVars
<1>1. CASE PoolAnswer
  <2>1. PICK r \in requests, v \in Verdicts :
          /\ v \in PoolVerdicts(r.share)
          /\ requests' \subseteq requests
          /\ taken' = IF v = "true" THEN taken \cup {r.share} ELSE taken
          /\ answers' = IF r.open THEN answers \cup {v} ELSE answers
    BY <1>1 DEF PoolAnswer
  <2>2. UNCHANGED <<pc, share, credited>>
    BY <1>1 DEF PoolAnswer
  <2> QED  BY <2>1, <2>2
<1>2. CASE NoAnswer
  BY <1>2, NoneOpen DEF NoAnswer
<1>3. CASE Answered
  <2>1. PICK v \in answers :
          IF v = "true" THEN credited' = credited \cup {share} ELSE UNCHANGED credited
    BY <1>3 DEF Answered
  <2>2. answers' = {} /\ taken' = taken /\ \A r \in requests' : ~r.open
    BY <1>3, NoneOpen DEF Answered
  <2> QED  BY <2>1, <2>2
<1>4. CASE Send
  BY <1>4 DEF Send
<1>5. CASE GetTarget
  BY <1>5 DEF GetTarget
<1>6. CASE Terminate
  BY <1>6 DEF Terminate
<1>7. CASE GetSolution \/ NotSent \/ Failed \/ Close
  BY <1>7 DEF GetSolution, NotSent, Failed, Close
<1>8. CASE AddSolution \/ EndInner \/ StartInner \/ Stop \/ UNCHANGED vars
  BY <1>8 DEF AddSolution, EndInner, StartInner, Stop, vars
<1> QED
  BY <1>1, <1>2, <1>3, <1>4, <1>5, <1>6, <1>7, <1>8 DEF Next, Communicate

-----------------------------------------------------------------------------
(* The places of the shares and the counts, action by action.              *)

Placed == Places /\ Apart /\ Finite /\ Counts

\* The cardinality of what is being submitted.
LEMMA Submitted ==
  /\ \A s : s # NoShare => Cardinality({s} \ {NoShare}) = 1
  /\ Cardinality({NoShare} \ {NoShare}) = 0
  /\ Cardinality({share} \ {NoShare}) \in {0, 1}
<1>1. {NoShare} \ {NoShare} = {} /\ \A s : s # NoShare => {s} \ {NoShare} = {s}
  OBVIOUS
<1>2. Cardinality({}) = 0 /\ \A s : Cardinality({s}) = 1
  BY FS_EmptySet, FS_Singleton
<1> QED  BY <1>1, <1>2

LEMMA CountsTyped ==
  ASSUME Finite
  PROVE  {Cardinality(found), Cardinality(credited), Cardinality(refused)} \subseteq Nat
BY FS_CardinalityType DEF Finite

LEMMA AddSolutionPlaces == SharesInv /\ AddSolution => Placed'
<1> SUFFICES ASSUME SharesInv, AddSolution PROVE Placed'
  OBVIOUS
<1> USE DEF SharesInv
<1>1. PICK s \in Shares \ found :
        s.blck = blck /\ found' = found \cup {s} /\ queue' = Append(queue, s)
  BY DEF AddSolution
<1>2. /\ UNCHANGED <<pc, blck, share, tries, accepted, credited, refused>>
      /\ pc # "top" /\ pc # "ended"
  BY DEF AddSolution
<1>3. /\ queue \in Seq(Shares) /\ Len(queue) \in Nat
      /\ queue' # << >> /\ Len(queue') = Len(queue) + 1
      /\ Range(queue') = Range(queue) \cup {s}
      /\ Distinct(queue) /\ s \notin Range(queue) => Distinct(queue')
  BY <1>1, QueueTyped, Appended
<1>4. s \notin Range(queue) /\ s \notin credited \cup refused /\ s # share
  BY <1>1, NoShareIsNone DEF Places
<1>5. Places'
  BY <1>1, <1>2, <1>3 DEF Places, Mining
<1>6. Apart'
  BY <1>2, <1>3, <1>4 DEF Apart, Mining
<1>7. Finite' /\ Cardinality(found') = Cardinality(found) + 1
  BY <1>1, <1>2, FS_AddElement DEF Finite
<1>8. Counts'
  <2>1. Mining' <=> Mining
    BY <1>2 DEF Mining
  <2> QED
    BY <1>2, <1>3, <1>7, <2>1, CountsTyped, Submitted DEF Counts
<1> QED  BY <1>5, <1>6, <1>7, <1>8 DEF Placed

LEMMA GetSolutionPlaces == SharesInv /\ GetSolution => Placed'
<1> SUFFICES ASSUME SharesInv, GetSolution PROVE Placed'
  OBVIOUS
<1> USE DEF SharesInv
<1>1. /\ pc = "loop" /\ pc' = "try" /\ queue # << >>
      /\ share' = queue[Len(queue)] /\ queue' = SubSeq(queue, 1, Len(queue) - 1)
      /\ UNCHANGED <<blck, accepted, found, credited, refused>>
  BY DEF GetSolution, pastVars
<1>2. /\ Len(queue) \in Nat /\ Len(queue') = Len(queue) - 1 /\ share' \in Shares
      /\ Range(queue) = Range(queue') \cup {share'}
      /\ Distinct(queue) => Distinct(queue') /\ share' \notin Range(queue')
  <2>1. queue \in Seq(Shares) /\ queue # << >> /\ Len(queue) \in Nat
    BY <1>1, QueueTyped
  <2>2. queue' = WithoutLast(queue) /\ share' = LastOf(queue)
    BY <1>1 DEF WithoutLast, LastOf
  <2> QED  BY <2>1, <2>2, LastTaken
<1>3. share = NoShare /\ share' # NoShare
  BY <1>1, <1>2, NoShareIsNone DEF Places
<1>4. Places'
  BY <1>1, <1>2, <1>3 DEF Places, Mining
<1>5. Apart'
  BY <1>1, <1>2, <1>3 DEF Apart, Mining
<1>6. Finite'
  BY <1>1 DEF Finite
<1>7. /\ Cardinality({share} \ {NoShare}) = 0
      /\ Cardinality({share'} \ {NoShare}) = 1
  BY <1>3, Submitted
<1>8. Counts'
  BY <1>1, <1>2, <1>7, CountsTyped DEF Counts, Mining
<1> QED  BY <1>4, <1>5, <1>6, <1>8 DEF Placed

LEMMA FailedPlaces == SharesInv /\ Failed => Placed'
<1> SUFFICES ASSUME SharesInv, Failed PROVE Placed'
  OBVIOUS
<1> USE DEF SharesInv
<1>1. /\ pc = "try" /\ pc' = "loop"
      /\ share' = NoShare /\ queue' = Append(queue, share)
      /\ UNCHANGED <<blck, accepted, found, credited, refused>>
  BY DEF Failed, PutBack, pastVars
<1>2. share # NoShare /\ share \in Shares
  BY <1>1 DEF Places, TypeOK
<1>3. /\ Len(queue) \in Nat /\ Len(queue') = Len(queue) + 1
      /\ Range(queue') = Range(queue) \cup {share}
      /\ Distinct(queue) /\ share \notin Range(queue) => Distinct(queue')
  BY <1>1, <1>2, QueueTyped, Appended
<1>4. NoShare \notin found
  BY NoShareIsNone DEF TypeOK
<1>5. Places'
  BY <1>1, <1>2, <1>3 DEF Places, Mining
<1>6. Apart'
  BY <1>1, <1>3, <1>4 DEF Apart, Mining, Places
<1>7. Finite'
  BY <1>1 DEF Finite
<1>8. /\ Cardinality({share} \ {NoShare}) = 1
      /\ Cardinality({share'} \ {NoShare}) = 0
  BY <1>1, <1>2, Submitted
<1>9. Counts'
  BY <1>1, <1>3, <1>8, CountsTyped DEF Counts, Mining
<1> QED  BY <1>5, <1>6, <1>7, <1>9 DEF Placed

LEMMA AnsweredPlaces == SharesInv /\ Answered => Placed'
<1> SUFFICES ASSUME SharesInv, Answered PROVE Placed'
  OBVIOUS
<1> USE DEF SharesInv
<1>1. /\ pc = "wait" /\ pc' \in {"rest", "loop"} /\ share' = NoShare
      /\ UNCHANGED <<blck, queue, found>>
  BY DEF Answered
<1>2. share # NoShare /\ share \in Shares
  BY <1>1 DEF Places, TypeOK
<1>3. PICK v \in answers :
        /\ accepted' = IF v = "true" THEN accepted + 1 ELSE accepted
        /\ IF v = "true"
             THEN credited' = credited \cup {share} /\ UNCHANGED refused
             ELSE refused' = refused \cup {share} /\ UNCHANGED credited
  BY DEF Answered, NewAccepted
<1>4. NoShare \notin found
  BY NoShareIsNone DEF TypeOK
<1>5. Places'
  BY <1>1, <1>2, <1>3 DEF Places, Mining
<1>6. Apart'
  BY <1>1, <1>3, <1>4 DEF Apart, Mining, Places
<1>7. share \notin credited /\ share \notin refused
  BY <1>1 DEF Apart, Mining
<1>8. /\ IsFiniteSet(credited \cup {share}) /\ IsFiniteSet(refused \cup {share})
      /\ Cardinality(credited \cup {share}) = Cardinality(credited) + 1
      /\ Cardinality(refused \cup {share}) = Cardinality(refused) + 1
  BY <1>7, FS_AddElement DEF Finite
<1>9. Finite'
  BY <1>1, <1>3, <1>8 DEF Finite
<1>10. /\ Cardinality({share} \ {NoShare}) = 1
       /\ Cardinality({share'} \ {NoShare}) = 0
  BY <1>1, <1>2, Submitted
<1>11. Len(queue) \in Nat
  BY DEF TypeOK
<1>12. Counts'
  <2>1. Mining /\ pc' # "top" /\ Len(queue') = Len(queue)
        /\ Cardinality(found') = Cardinality(found)
    BY <1>1 DEF Mining
  <2>2. \/ /\ accepted' = accepted + 1
           /\ Cardinality(credited') = Cardinality(credited) + 1
           /\ Cardinality(refused') = Cardinality(refused)
        \/ /\ accepted' = accepted
           /\ Cardinality(credited') = Cardinality(credited)
           /\ Cardinality(refused') = Cardinality(refused) + 1
    <3>1. CASE v = "true"
      BY <1>3, <1>8, <3>1
    <3>2. CASE v # "true"
      BY <1>3, <1>8, <3>2
    <3> QED  BY <3>1, <3>2
  <2>3. /\ {accepted, Len(queue)} \subseteq Nat
        /\ {Cardinality(found), Cardinality(credited), Cardinality(refused)}
             \subseteq Nat
    BY CountsTyped, QueueTyped
  <2>4. /\ accepted = Cardinality(credited)
        /\ Cardinality(found) = Len(queue) + 1
                                + Cardinality(credited) + Cardinality(refused)
    BY <1>10, <2>1 DEF Counts
  <2>5. /\ accepted' = Cardinality(credited')
        /\ Cardinality(found') = Len(queue') + 0
                                + Cardinality(credited') + Cardinality(refused')
    BY <2>1, <2>2, <2>3, <2>4
  <2> QED  BY <1>10, <2>1, <2>5 DEF Counts
<1> QED  BY <1>5, <1>6, <1>9, <1>12 DEF Placed

\* The end of a block and the next target: what is queued or found is dropped.
LEMMA NewTargetPlaces == SharesInv /\ (Close \/ GetTarget) => Placed'
<1> SUFFICES ASSUME SharesInv, Close \/ GetTarget PROVE Placed'
  OBVIOUS
<1> USE DEF SharesInv
<1>1. Range(<< >>) = {} /\ Len(<< >>) = 0
  BY DEF Range
<1>2. CASE Close
  <2>1. /\ pc \in {"loop", "rest"} /\ pc' \in {"ended", "top"}
        /\ accepted' = 0 /\ queue' = << >>
        /\ UNCHANGED <<blck, share, found, credited, refused>>
    BY <1>2 DEF Close, SolutionsLeft, pastVars
  <2>2. Places' /\ Apart'
    BY <1>1, <2>1 DEF Places, Apart, Mining
  <2> QED  BY <2>1, <2>2 DEF Placed, Finite, Counts, Mining
<1>3. CASE GetTarget
  <2>1. /\ pc = "top" /\ pc' = "loop"
        /\ found' = {} /\ credited' = {} /\ refused' = {}
        /\ UNCHANGED <<queue, share, accepted>>
    BY <1>3 DEF GetTarget
  <2>2. queue = << >> /\ share = NoShare /\ accepted = 0
    BY <2>1 DEF Places, Counts
  <2>3. Places' /\ Apart'
    BY <1>1, <2>1, <2>2 DEF Places, Apart, Mining, Distinct
  <2>4. Finite' /\ Counts'
    BY <1>1, <2>1, <2>2, FS_EmptySet, Submitted DEF Finite, Counts
  <2> QED  BY <2>3, <2>4 DEF Placed
<1> QED  BY <1>2, <1>3

\* The steps that move no share.
LEMMA RestKeepsPlaces ==
  ASSUME SharesInv,
         \/ NotSent \/ Send \/ NoAnswer \/ Terminate \/ PoolAnswer
         \/ EndInner \/ StartInner \/ Stop \/ UNCHANGED vars
  PROVE  Placed'
<1> USE DEF SharesInv, commVars, poolVars, pastVars
<1>1. UNCHANGED <<blck, queue, share, accepted, found, credited, refused>>
  BY DEF NotSent, Send, NoAnswer, Terminate, PoolAnswer, EndInner, StartInner,
     Stop, vars
<1>2. \/ pc' = pc /\ tries' = tries
      \/ pc \in {"try", "wait"} /\ pc' \in {"try", "ended"}
      \/ pc = "try" /\ pc' = "wait" /\ tries' = tries /\ tries < Retries
  BY DEF NotSent, Send, NoAnswer, Terminate, PoolAnswer, EndInner, StartInner,
     Stop, vars, MayTry
<1>3. pc' # "top" \/ pc' = pc
  BY <1>2
<1>4. Mining' => Mining
  BY <1>2 DEF Mining
<1>5. Places'
  BY <1>1, <1>2, <1>4 DEF Places
<1>6. Apart'
  BY <1>1, <1>4 DEF Apart
<1>7. Finite' /\ Counts'
  BY <1>1, <1>3, <1>4 DEF Finite, Counts
<1> QED  BY <1>5, <1>6, <1>7 DEF Placed

\* The inductive invariant of the shares of a pool, from AddSolution to the
\* answer SubmitPoolSolution counts (comm.cpp).
THEOREM SharesInvariant == Spec => []SharesInv
<1>1. SharesInv /\ [Next]_vars => SharesInv'
  <2> SUFFICES ASSUME SharesInv, [Next]_vars PROVE SharesInv'
    OBVIOUS
  <2>1. TypeOK'
    BY StepTypes DEF SharesInv
  <2>2. Connected'
    BY StepConnected
  <2>3. Placed'
    BY AddSolutionPlaces, GetSolutionPlaces, FailedPlaces, AnsweredPlaces,
       NewTargetPlaces, RestKeepsPlaces DEF Next, Communicate
  <2> QED  BY <2>1, <2>2, <2>3 DEF SharesInv, Placed
<1> QED  BY <1>1, InitShares, PTL DEF Spec

-----------------------------------------------------------------------------
\* The types, and that a share is tried Retries times at most: tries_count.
THEOREM SubmissionTyped == Spec => []TypeOK
<1>1. SharesInv => TypeOK
  BY DEF SharesInv
<1> QED  BY <1>1, SharesInvariant, PTL

\* m_accepted_solutions_count never counts what the pool has not accepted,
\* however many tries, lost and late answers came before.
THEOREM NothingInvented == Spec => []CreditedIsTaken
<1>1. SharesInv => CreditedIsTaken
  BY DEF SharesInv, Places, Connected, CreditedIsTaken, TakenOf
<1> QED  BY <1>1, SharesInvariant, PTL

\* It counts each of them once, however many tries it took.
THEOREM AcceptedIsCounted == Spec => []AcceptedCounted
<1>1. SharesInv => AcceptedCounted
  BY DEF SharesInv, Places, Counts, Mining, AcceptedCounted
<1> QED  BY <1>1, SharesInvariant, PTL

\* No share is lost or doubled on its way between m_pool_solutions and the pool.
THEOREM SharesAccounted == Spec => []SharesKept
<1>1. SharesInv => SharesKept
  BY DEF SharesInv, Places, Counts, Mining, SharesKept
<1> QED  BY <1>1, SharesInvariant, PTL

-----------------------------------------------------------------------------
(* The submission implements the ledger.                                   *)

\* What the ledger needs to know of the network: a request on its way, even one
\* given up long ago, is of a share that was found, and the pool, which has not
\* fallen behind, accepts it only if that was for the block of the target.
RequestsFound ==
  /\ blck <= poolBlck
  /\ \A r \in requests :
       r.share.blck <= blck /\ (r.share.blck = blck => r.share \in found)

LEMMA InitRequests == Init => RequestsFound
BY SubmissionAssumption DEF Init, RequestsFound

LEMMA StepRequests ==
  ASSUME SharesInv, RequestsFound, [Next]_vars
  PROVE  RequestsFound'
<1>t. /\ blck \in Int /\ poolBlck \in Int
      /\ requests \subseteq [share : Shares, open : BOOLEAN]
      /\ \A s \in Shares : s.blck \in Int
  BY SubmissionAssumption DEF SharesInv, TypeOK, Shares
<1> USE DEF commVars, poolVars, pastVars
<1>1. CASE NoAnswer \/ Answered
  <2>1. UNCHANGED <<blck, poolBlck, found>> /\ requests' = Closed
    BY <1>1 DEF NoAnswer, Answered
  <2>2. \A r \in Closed : \E q \in requests : r.share = q.share
    BY <1>t DEF Closed
  <2> QED  BY <2>1, <2>2 DEF RequestsFound
<1>2. CASE Send
  <2>1. /\ UNCHANGED <<blck, poolBlck, found>> /\ pc = "try"
        /\ requests' = requests \cup {[share |-> share, open |-> TRUE]}
    BY <1>2 DEF Send
  <2>2. share \in found /\ share.blck = blck
    BY <2>1 DEF SharesInv, Places
  <2> QED  BY <1>t, <2>1, <2>2 DEF RequestsFound
<1>3. CASE GetTarget
  BY <1>t, <1>3 DEF GetTarget, RequestsFound
<1>4. CASE PoolAnswer
  <2>1. UNCHANGED <<blck, poolBlck, found>> /\ requests' \subseteq requests
    BY <1>4 DEF PoolAnswer
  <2> QED  BY <2>1 DEF RequestsFound
<1>5. CASE AddSolution
  BY <1>5 DEF AddSolution, RequestsFound
<1>6. CASE StartInner
  BY <1>t, <1>6 DEF StartInner, RequestsFound
<1>7. CASE \/ GetSolution \/ NotSent \/ Terminate \/ Failed \/ Close \/ EndInner
           \/ Stop \/ UNCHANGED vars
  <2>1. UNCHANGED <<blck, poolBlck, found, requests>>
    BY <1>7 DEF GetSolution, NotSent, Terminate, Failed, Close, EndInner, Stop, vars
  <2> QED  BY <2>1 DEF RequestsFound
<1> QED  BY <1>1, <1>2, <1>3, <1>4, <1>5, <1>6, <1>7 DEF Next, Communicate

-----------------------------------------------------------------------------
(* The limit of --shares.                                                  *)

\* What the pool has of the block is counted, or was not heard, or its answer
\* is on the way; requests that nobody waits for are of shares not heard.
Accounted ==
  /\ unheard \subseteq found
  /\ \A r \in requests :
       ~r.open /\ r.share.blck = blck => r.share \in unheard
  /\ \A s \in TakenOf(blck) :
       s \in credited \cup unheard \/ (s = share /\ answers = {"true"})
  /\ answers # {} => \A r \in requests : ~r.open
  /\ \A q, r \in requests : q.open /\ r.open => q = r
  /\ \A s \in taken : s.blck <= blck

\* A share is sent only while the limit is not reached.
LimitLeft ==
  /\ Cardinality(credited) <= SharesLimit
  /\ pc = "loop" \/ share # NoShare => Cardinality(credited) < SharesLimit

\* A union has no more elements than its parts.
LEMMA UnionBound ==
  ASSUME NEW S, IsFiniteSet(S), NEW T, IsFiniteSet(T)
  PROVE  /\ IsFiniteSet(S \cup T)
         /\ Cardinality(S \cup T) <= Cardinality(S) + Cardinality(T)
<1>1. /\ IsFiniteSet(S \cup T) /\ IsFiniteSet(S \cap T)
      /\ Cardinality(S \cup T)
           = Cardinality(S) + Cardinality(T) - Cardinality(S \cap T)
  BY FS_Union, FS_Intersection
<1>2. /\ Cardinality(S) \in Nat /\ Cardinality(T) \in Nat
      /\ Cardinality(S \cap T) \in Nat
  BY <1>1, FS_CardinalityType
<1> QED  BY <1>1, <1>2

LEMMA InitLimit == Init => Accounted /\ LimitLeft
<1> SUFFICES ASSUME Init PROVE Accounted /\ LimitLeft
  OBVIOUS
<1>1. Accounted
  BY DEF Init, Accounted, TakenOf
<1>2. LimitLeft
  BY SubmissionAssumption, FS_EmptySet DEF Init, LimitLeft
<1> QED  BY <1>1, <1>2

LEMMA StepAccounted ==
  ASSUME SharesInv, RequestsFound, Accounted, [Next]_vars
  PROVE  Accounted'
<1>t. /\ blck \in Int /\ poolBlck \in Int
      /\ requests \subseteq [share : Shares, open : BOOLEAN]
      /\ \A s \in Shares : s.blck \in Int
      /\ taken \subseteq Shares
  BY SubmissionAssumption DEF SharesInv, TypeOK, Shares
<1>c. /\ \A r \in Closed : ~r.open
      /\ \A r \in Closed : \E q \in requests : r.share = q.share /\ (r = q \/ q.open)
  <2>1. \A q \in requests :
          [q EXCEPT !.open = FALSE].share = q.share
          /\ (q.open \/ [q EXCEPT !.open = FALSE] = q)
    BY <1>t
  <2> QED  BY <2>1, NoneOpen DEF Closed, SharesInv
<1> USE DEF Accounted, TakenOf, commVars, poolVars, pastVars
<1>1. CASE PoolAnswer
  <2>1. PICK r \in requests, v \in Verdicts :
          /\ requests' = requests \ {r} \/ (~r.open /\ UNCHANGED requests)
          /\ taken' = IF v = "true" THEN taken \cup {r.share} ELSE taken
          /\ answers' = IF r.open THEN answers \cup {v} ELSE answers
    BY <1>1 DEF PoolAnswer
  <2>2. UNCHANGED <<blck, share, found, credited, unheard>>
    BY <1>1 DEF PoolAnswer
  <2>3. r.open => answers = {} /\ r.share = share
    BY DEF SharesInv, Connected
  <2>4. r.share.blck <= blck
    BY DEF RequestsFound
  <2>5. CASE r.open
    BY <2>1, <2>2, <2>3, <2>4, <2>5
  <2>6. CASE ~r.open
    BY <2>1, <2>2, <2>4, <2>6
  <2> QED  BY <2>5, <2>6
<1>2. CASE NoAnswer
  <2>1. /\ answers' = {} /\ requests' = Closed /\ unheard' = unheard \cup {share}
        /\ UNCHANGED <<blck, share, taken, found, credited>> /\ pc = "wait"
    BY <1>2 DEF NoAnswer
  <2>2. share \in found /\ \A r \in requests : r.open => r.share = share
    BY <2>1 DEF SharesInv, Places, Connected
  <2> QED  BY <1>c, <2>1, <2>2
<1>3. CASE Answered
  <2>1. PICK v \in answers :
          IF v = "true" THEN credited' = credited \cup {share} ELSE UNCHANGED credited
    BY <1>3 DEF Answered
  <2>2. answers' = {} /\ requests' = Closed
        /\ UNCHANGED <<blck, taken, found, unheard>>
    BY <1>3 DEF Answered
  <2>3. \A r \in requests : ~r.open
    BY <2>1
  <2> QED  BY <1>c, <2>1, <2>2, <2>3
<1>4. CASE Send
  <2>1. /\ requests' = requests \cup {[share |-> share, open |-> TRUE]}
        /\ UNCHANGED <<blck, share, answers, taken, found, credited, unheard>>
        /\ pc = "try"
    BY <1>4 DEF Send
  <2>2. answers = {} /\ \A r \in requests : ~r.open
    BY <2>1 DEF SharesInv, Connected
  <2> DEFINE q == [share |-> share, open |-> TRUE]
  <2>3. q.open /\ requests' = requests \cup {q}
    BY <2>1
  <2> HIDE DEF q
  <2> QED  BY <2>1, <2>2, <2>3
<1>5. CASE GetTarget
  <2>1. /\ poolBlck # blck /\ blck' = poolBlck /\ unheard' = {} /\ found' = {}
        /\ UNCHANGED <<requests, answers, taken>> /\ pc = "top"
    BY <1>5 DEF GetTarget
  <2>2. blck < blck' /\ \A r \in requests : r.share.blck <= blck
    BY <1>t, <2>1 DEF RequestsFound
  <2>3. answers = {} /\ \A r \in requests : ~r.open
    BY <2>1 DEF SharesInv, Connected
  <2> QED  BY <1>t, <2>1, <2>2, <2>3
<1>6. CASE AddSolution
  BY <1>6 DEF AddSolution
<1>7. CASE GetSolution \/ Failed
  <2>1. /\ pc \in {"loop", "try"}
        /\ UNCHANGED <<blck, requests, answers, taken, found, credited, unheard>>
    BY <1>7 DEF GetSolution, Failed
  <2>2. answers = {}
    BY <2>1 DEF SharesInv, Connected
  <2> QED  BY <2>1, <2>2
<1>8. CASE \/ NotSent \/ Terminate \/ Close \/ EndInner \/ StartInner
           \/ Stop \/ UNCHANGED vars
  <2>1. UNCHANGED <<blck, share, requests, answers, taken, found, credited, unheard>>
    BY <1>8 DEF NotSent, Terminate, Close, EndInner, StartInner, Stop, vars
  <2> QED  BY <2>1
<1> QED
  BY <1>1, <1>2, <1>3, <1>4, <1>5, <1>6, <1>7, <1>8 DEF Next, Communicate

LEMMA StepLimit ==
  ASSUME SharesInv, SharesInv', LimitLeft, [Next]_vars
  PROVE  LimitLeft'
<1>t. SharesLimit \in Nat \ {0} /\ {Cardinality(credited)} \subseteq Nat
  BY SubmissionAssumption, CountsTyped DEF SharesInv
<1> USE DEF LimitLeft, commVars, poolVars, pastVars
<1>1. CASE Answered
  <2>1. /\ pc = "wait" /\ share' = NoShare /\ pc' \in {"rest", "loop"}
        /\ pc' = "loop" => ~(accepted' >= SharesLimit)
    BY <1>1 DEF Answered, ReachedMaxShares
  <2>2. share # NoShare /\ share \notin credited /\ IsFiniteSet(credited)
    BY <2>1 DEF SharesInv, Places, Apart, Mining, Finite
  <2>3. Cardinality(credited \cup {share}) = Cardinality(credited) + 1
    BY <2>2, FS_AddElement
  <2>4. credited' = credited \cup {share} \/ credited' = credited
    BY <1>1 DEF Answered
  <2>5. Cardinality(credited') <= SharesLimit
    BY <1>t, <2>2, <2>3, <2>4
  <2>6. accepted' = Cardinality(credited')
    BY <2>1 DEF SharesInv, Counts, Mining
  <2>7. accepted' \in Nat
    BY DEF SharesInv, TypeOK
  <2> QED  BY <1>t, <2>1, <2>5, <2>6, <2>7
<1>2. CASE GetTarget
  <2>1. credited' = {}
    BY <1>2 DEF GetTarget
  <2> QED  BY <1>t, <2>1, FS_EmptySet
<1>3. CASE GetSolution \/ Failed
  <2>1. pc = "loop" \/ pc = "try"
    BY <1>3 DEF GetSolution, Failed
  <2>2. pc = "loop" \/ share # NoShare
    BY <2>1 DEF SharesInv, Places
  <2>3. UNCHANGED credited
    BY <1>3 DEF GetSolution, Failed
  <2> QED  BY <1>t, <2>2, <2>3
<1>4. CASE \/ NotSent \/ Send \/ NoAnswer \/ Terminate \/ Close \/ AddSolution
           \/ PoolAnswer \/ EndInner \/ StartInner \/ Stop \/ UNCHANGED vars
  <2>1. UNCHANGED <<share, credited>> /\ (pc' = "loop" => pc = "loop")
    BY <1>4 DEF NotSent, Send, NoAnswer, Terminate, Close, AddSolution, PoolAnswer,
         EndInner, StartInner, Stop, vars
  <2> QED  BY <2>1
<1> QED  BY <1>1, <1>2, <1>3, <1>4 DEF Next, Communicate

\* The pool has no more shares of the block than --shares and those whose answer
\* was lost, for any limits, numbers of shares and tries: comm.cpp:303 and 445.
THEOREM LimitPassedUnheard == Spec => []TakenWithinLimit
<1>1. SharesInv /\ Accounted /\ LimitLeft => TakenWithinLimit
  <2> SUFFICES ASSUME SharesInv, Accounted, LimitLeft PROVE TakenWithinLimit
    OBVIOUS
  <2> DEFINE Sent == {share} \ {NoShare}
             Known == (credited \cup unheard) \cup Sent
  <2>1. TakenOf(blck) \subseteq Known
    <3>1. \A s \in TakenOf(blck) : s # NoShare
      BY NoShareIsNone DEF SharesInv, TypeOK, TakenOf
    <3> QED  BY <3>1 DEF Accounted
  <2>2. IsFiniteSet(credited) /\ IsFiniteSet(unheard) /\ IsFiniteSet(Sent)
    BY FS_Subset, FS_Singleton DEF SharesInv, Finite, Accounted, Places
  <2>3. /\ IsFiniteSet(credited \cup unheard)
        /\ Cardinality(credited \cup unheard)
             <= Cardinality(credited) + Cardinality(unheard)
    BY <2>2, UnionBound
  <2>4. /\ IsFiniteSet(Known)
        /\ Cardinality(Known)
             <= Cardinality(credited \cup unheard) + Cardinality(Sent)
    BY <2>2, <2>3, UnionBound
  <2>5. Cardinality(TakenOf(blck)) <= Cardinality(Known)
        /\ IsFiniteSet(TakenOf(blck))
    BY <2>1, <2>4, FS_Subset
  <2>6. Cardinality(credited) + Cardinality(Sent) <= SharesLimit
    BY <2>2, FS_CardinalityType, Submitted, SubmissionAssumption DEF LimitLeft
  <2>7. /\ {Cardinality(credited), Cardinality(unheard), Cardinality(Sent),
            Cardinality(credited \cup unheard), Cardinality(Known),
            Cardinality(TakenOf(blck))} \subseteq Nat
        /\ SharesLimit \in Nat
    BY <2>2, <2>3, <2>4, <2>5, FS_CardinalityType, SubmissionAssumption
  <2> HIDE DEF Sent, Known
  <2> QED  BY <2>3, <2>4, <2>5, <2>6, <2>7 DEF TakenWithinLimit
<1>2. SharesInv /\ RequestsFound /\ [Next]_vars => RequestsFound'
  BY StepRequests
<1>3. SharesInv /\ RequestsFound /\ Accounted /\ [Next]_vars => Accounted'
  BY StepAccounted
<1>4. SharesInv /\ SharesInv' /\ LimitLeft /\ [Next]_vars => LimitLeft'
  BY StepLimit
<1> QED
  BY <1>1, <1>2, <1>3, <1>4, InitRequests, InitLimit, SharesInvariant, PTL DEF Spec

-----------------------------------------------------------------------------
(* Every step is one of the ledger, or none.                               *)

LEMMA InitLedger == Init => Ledger!LedgerInit
<1> SUFFICES ASSUME Init PROVE Ledger!LedgerInit
  OBVIOUS
<1>1. /\ pc = "loop" /\ blck = 0 /\ queue = << >> /\ share = NoShare
      /\ found = {} /\ credited = {} /\ refused = {} /\ taken = {}
  BY DEF Init
<1>2. 0 \in 0 .. MaxBlock /\ Range(<< >>) = {} /\ {NoShare} \ {NoShare} = {}
  BY SubmissionAssumption DEF Range
<1> QED  BY <1>1, <1>2 DEF Ledger!LedgerInit, Phase

\* A share is found, or taken from the queue, or put back.
LEMMA QueueSteps ==
  ASSUME SharesInv, AddSolution \/ GetSolution \/ Failed
  PROVE  \E s \in Shares : Ledger!Find(s) \/ Ledger!Take(s) \/ Ledger!PutBack(s)
<1> USE DEF poolVars, pastVars
<1>1. CASE AddSolution
  <2>1. PICK s \in Shares \ found :
          s.blck = blck /\ found' = found \cup {s} /\ queue' = Append(queue, s)
    BY <1>1 DEF AddSolution
  <2>2. /\ UNCHANGED <<pc, blck, share, taken, credited, refused>>
        /\ pc # "top" /\ pc # "ended"
    BY <1>1 DEF AddSolution
  <2>3. Range(queue') = Range(queue) \cup {s}
    BY <2>1, QueueTyped, Appended DEF SharesInv
  <2> QED  BY <2>1, <2>2, <2>3 DEF Ledger!Find, Phase
<1>2. CASE GetSolution
  <2>1. /\ pc = "loop" /\ pc' = "try" /\ queue # << >>
        /\ share' = LastOf(queue) /\ queue' = WithoutLast(queue)
        /\ UNCHANGED <<blck, taken, found, credited, refused>>
    BY <1>2 DEF GetSolution, LastOf, WithoutLast
  <2>2. share = NoShare /\ Distinct(queue)
    BY <2>1 DEF SharesInv, Places, Apart, Mining
  <2>3. /\ share' \in Shares /\ share' \in Range(queue)
        /\ Range(queue') = Range(queue) \ {share'}
    BY <2>1, <2>2, QueueTyped, LastTaken DEF SharesInv
  <2>4. share' # NoShare
    BY <2>3, NoShareIsNone
  <2> QED  BY <2>1, <2>2, <2>3, <2>4 DEF Ledger!Take, Phase
<1>3. CASE Failed
  <2>1. /\ pc = "try" /\ pc' = "loop" /\ share' = NoShare
        /\ queue' = Append(queue, share)
        /\ UNCHANGED <<blck, taken, found, credited, refused>>
    BY <1>3 DEF Failed, PutBack
  <2>2. share # NoShare /\ share \in Shares /\ share \notin Range(queue)
    BY <2>1, QueueTyped DEF SharesInv, Places, Apart, Mining
  <2>3. Range(queue') = Range(queue) \cup {share}
    BY <2>1, <2>2, QueueTyped, Appended DEF SharesInv
  <2> QED  BY <2>1, <2>2, <2>3 DEF Ledger!PutBack, Phase
<1> QED  BY <1>1, <1>2, <1>3

\* The answer that is counted is one to the share under way.
LEMMA AnsweredDecides ==
  ASSUME SharesInv, Answered
  PROVE  \E s \in Shares : Ledger!Accept(s) \/ Ledger!Refuse(s)
<1>1. PICK v \in answers :
        IF v = "true"
          THEN credited' = credited \cup {share} /\ UNCHANGED refused
          ELSE refused' = refused \cup {share} /\ UNCHANGED credited
  BY DEF Answered
<1>2. /\ pc = "wait" /\ pc' \in {"rest", "loop"} /\ share' = NoShare
      /\ UNCHANGED <<blck, queue, taken, found>>
  BY DEF Answered
<1>3. /\ share # NoShare /\ share \in Shares
      /\ share \notin credited \cup refused
      /\ v = "true" => share \in taken
  BY <1>2, QueueTyped DEF SharesInv, Places, Apart, Mining, Connected
<1>4. CASE v = "true"
  BY <1>1, <1>2, <1>3, <1>4 DEF Ledger!Accept, Phase
<1>5. CASE v # "true"
  BY <1>1, <1>2, <1>3, <1>5 DEF Ledger!Refuse, Phase
<1> QED  BY <1>4, <1>5

\* The pool accepts a share, or the miner sees nothing of what it does.
LEMMA PoolSteps ==
  ASSUME SharesInv, RequestsFound, PoolAnswer
  PROVE  (\E s \in Shares : Ledger!PoolKeeps(s)) \/ UNCHANGED Ledger!lvars
<1>1. PICK r \in requests, v \in Verdicts :
        /\ v \in PoolVerdicts(r.share)
        /\ taken' = IF v = "true" THEN taken \cup {r.share} ELSE taken
  BY DEF PoolAnswer
<1>2. UNCHANGED <<pc, blck, queue, share, found, credited, refused>>
  BY DEF PoolAnswer, commVars, pastVars
<1>3. UNCHANGED <<Phase, Range(queue)>>
  BY <1>2 DEF Phase
<1>4. CASE v = "true"
  <2>1. r.share.blck = poolBlck /\ r.share \notin taken
    BY <1>1, <1>4 DEF PoolVerdicts
  <2>2. r.share \in Shares /\ r.share.blck \in Int /\ blck \in Int /\ poolBlck \in Int
    BY SubmissionAssumption DEF SharesInv, TypeOK, Shares
  <2>3. r.share \in found
    BY <2>1, <2>2 DEF RequestsFound
  <2> QED  BY <1>1, <1>2, <1>3, <1>4, <2>1, <2>2, <2>3 DEF Ledger!PoolKeeps
<1>5. CASE v # "true"
  BY <1>1, <1>2, <1>3, <1>5 DEF Ledger!lvars
<1> QED  BY <1>4, <1>5

\* A block ends, and the next one begins.
LEMMA BlockSteps ==
  ASSUME SharesInv, RequestsFound, Terminate \/ Close \/ GetTarget
  PROVE  Ledger!Close \/ Ledger!Open
<1> USE DEF commVars, poolVars, pastVars
<1>0. Range(<< >>) = {} /\ {NoShare} \ {NoShare} = {}
  BY DEF Range
<1>1. CASE Terminate
  <2>1. pc = "wait" /\ pc' = "ended"
        /\ UNCHANGED <<blck, share, taken, found, credited, refused>>
    BY <1>1 DEF Terminate
  <2> QED  BY <2>1 DEF Ledger!Close, Phase
<1>2. CASE Close
  <2>1. /\ pc \in {"loop", "rest"} /\ pc' \in {"ended", "top"} /\ queue' = << >>
        /\ UNCHANGED <<blck, share, taken, found, credited, refused>>
    BY <1>2 DEF Close, SolutionsLeft
  <2>2. share = NoShare
    BY <2>1 DEF SharesInv, Places
  <2> QED  BY <1>0, <2>1, <2>2 DEF Ledger!Close, Phase
<1>3. CASE GetTarget
  <2>1. /\ pc = "top" /\ pc' = "loop" /\ poolBlck # blck /\ blck' = poolBlck
        /\ found' = {} /\ credited' = {} /\ refused' = {}
        /\ UNCHANGED <<queue, share, taken>>
    BY <1>3 DEF GetTarget
  <2>2. poolBlck \in 0 .. MaxBlock /\ poolBlck > blck
    BY <2>1, SubmissionAssumption DEF SharesInv, TypeOK, RequestsFound
  <2> QED  BY <2>1, <2>2 DEF Ledger!Open, Phase
<1> QED  BY <1>1, <1>2, <1>3

\* Tries, connections and the clock are not in the ledger.
LEMMA Unseen ==
  ASSUME \/ NotSent \/ Send \/ NoAnswer \/ EndInner \/ StartInner \/ Stop
         \/ UNCHANGED vars
  PROVE  UNCHANGED Ledger!lvars
<1>1. /\ UNCHANGED <<blck, queue, share, found, credited, refused, taken>>
      /\ pc' = pc \/ (pc \in {"try", "wait"} /\ pc' \in {"try", "wait"})
  BY DEF NotSent, Send, NoAnswer, EndInner, StartInner, Stop, vars, commVars,
         poolVars, pastVars
<1>2. Phase' = Phase /\ (pc' = "ended" <=> pc = "ended") /\ Range(queue)' = Range(queue)
  BY <1>1 DEF Phase
<1> QED  BY <1>1, <1>2 DEF Ledger!lvars

\* However often a share is sent, and whatever is lost, late or doubled on its
\* way, SubmitPoolSolution decides it once, as accepted only if the pool has
\* accepted it; for any number of shares, tries and blocks.
THEOREM LedgerIsKept == Spec => LedgerKept
<1>1. SharesInv /\ RequestsFound /\ [Next]_vars
        => [Ledger!LedgerNext]_(Ledger!lvars)
  BY QueueSteps, AnsweredDecides, PoolSteps, BlockSteps, Unseen
  DEF Next, Communicate, Ledger!LedgerNext
<1>2. SharesInv /\ RequestsFound /\ [Next]_vars => RequestsFound'
  BY StepRequests
<1> QED
  BY <1>1, <1>2, InitLedger, InitRequests, SharesInvariant, PTL
  DEF Spec, LedgerKept, Ledger!LedgerSpec

=============================================================================
