---------------------------- MODULE ReportsProofs ----------------------------
(***************************************************************************)
(* What the gateway sends and what becomes of it, for every value of the   *)
(* constants.                                                              *)
(*                                                                         *)
(* The messages of a run are numbered in the order in which they are made, *)
(* and the handlers run one after the other.  What has been sent, lost or  *)
(* remembered is therefore behind whatever the running handler still has   *)
(* to send to the same channel (Behind), and all that is claimed of the    *)
(* error file and of the balances follows from there.                      *)
(***************************************************************************)
EXTENDS Reports, SequenceFacts, FiniteSetTheorems

\* The channels that a task will send to: the question for balances becomes a message
\* to the core and one to the log server.
Reaches(slot) == IF slot = "ask" THEN {"balance", "log"} ELSE {ChannelOf(slot)}

\* The tasks from one to the next, when they reach the same channel, have larger numbers.
InTurn(s) ==
  \A i, j \in 1..Len(s) :
    i < j /\ Reaches(s[i].slot) \cap Reaches(s[j].slot) # {} => s[i].n < s[j].n

\* Tasks of the run that ends with the number 3 * r.
OfRun(s, r) ==
  /\ IsSequence(s)
  /\ \A i \in 1..Len(s) :
       /\ s[i] = Task(s[i].slot, s[i].n) /\ s[i].slot \in Slots \cup {"ask"}
       /\ s[i].n \in Nat /\ 3 * r < s[i].n + 3 /\ s[i].n <= 3 * r

\* What has been given to a channel.
History(h) ==
  /\ IsSequence(h)
  /\ \A k \in 1..Len(h) : /\ h[k].slot \in Slots /\ h[k].n \in Nat
                          /\ h[k].n <= 3 * runs
  /\ \A j, k \in 1..Len(h) : j < k => h[j].n < h[k].n

\* The number n is behind all that is still to be sent to channel c.
Behind(n, c) == \A i \in 1..Len(tasks) : c \in Reaches(tasks[i].slot) => n < tasks[i].n

\* What a _prev_ member says of its channel: it names a message of its slot before n.
Recalls(h, slot, last, n) ==
  last # 0 => \E k \in 1..Len(h) : h[k].slot = slot /\ h[k].n = last /\ h[k].n < n

SendInv ==
  /\ runs \in Nat
  /\ tasks # <<>> => runs > 0
  /\ OfRun(tasks, runs) /\ InTurn(tasks)
  /\ DOMAIN got = AeronChannels
  /\ \A c \in AeronChannels :
       /\ History(got[c])
       /\ \A k \in 1..Len(got[c]) : Behind(got[c][k].n, c)
  /\ prev \in [Remembering -> Nat]
  /\ \A s \in Remembering : Recalls(got[ChannelOf(s)], s, prev[s], 3 * runs + 1)
  /\ \A e \in errors :
       /\ e.slot \in Slots /\ e.n \in Nat /\ e.last \in Nat
       /\ e.last < e.n /\ e.n <= 3 * runs
       /\ Behind(e.n, ChannelOf(e.slot))
       /\ e.slot \in Remembering => Recalls(got[ChannelOf(e.slot)], e.slot, e.last, e.n)

LossInv ==
  \A t \in queued :
    /\ t.slot \in Slots /\ t.n \in Nat
    /\ \/ Delivered(t) \/ t \in Blamed \/ \E i \in 1..Len(tasks) : tasks[i] = t
       \/ t.slot = "copy" \/ RunOf(t.n) \in excused

\* A message of balances tells what the exchange listed, and 0 for what its handler
\* wanted besides.
BalanceInv ==
  \A b \in balances :
    /\ b.n \in Nat /\ b.wallet \in Nat
    /\ b.listed \subseteq held /\ b.zero \subseteq Coins /\ b.listed \cap b.zero = {}
    /\ b.n <= 3 * runs
    /\ tasks # <<>> /\ 3 * runs < b.n + 3 => b.zero \subseteq handler.assets

HandlerInv ==
  /\ handler \in [kind : Kinds, assets : SUBSET Coins, long : BOOLEAN]
  /\ (tasks # <<>>) = (handler.kind # "none")
  /\ handler.kind = "private" => handler.assets = Assets /\ ~handler.long
  /\ wallet \in 0..MaxWallet /\ held \subseteq Coins
  /\ link \in {"open", "deaf"} /\ alive \in BOOLEAN
  /\ runs <= MaxRuns /\ unlucky \in 0..MaxLost

\* The balances that follow the update u are still to be asked for, or were made and
\* are to be sent or have been.
Underway(u) ==
  \/ \E i \in 1..Len(tasks) : tasks[i] = Task("ask", BalanceOf(u.run))
  \/ \E b \in balances :
       /\ b.n = BalanceOf(u.run) /\ b.wallet >= u.wallet
       /\ \/ Delivered(Task("balance_core", b.n))
          \/ \E i \in 1..Len(tasks) : tasks[i] = Task("balance_core", b.n)

FollowInv ==
  /\ IsSequence(updates)
  /\ \A i \in 1..Len(updates) : updates[i] \in 0..wallet
  /\ \A u \in seen :
       /\ u.run \in Nat /\ u.run < runs /\ u.wallet \in 0..wallet
       /\ \/ u.run \in excused
          \/ Task("balance_core", BalanceOf(u.run)) \in Blamed
          \/ Underway(u)

IInv ==
  /\ SendInv /\ LossInv /\ BalanceInv /\ HandlerInv /\ FollowInv
  /\ OnlyOwnAssetsDeafen

-----------------------------------------------------------------------------
(* Numbers and channels *)

LEMMA Numbers ==
  ASSUME NEW r \in Nat
  PROVE  /\ ReportOf(r) \in Nat /\ BalanceOf(r) \in Nat /\ OtherOf(r) \in Nat
         /\ \A n \in {ReportOf(r), BalanceOf(r), OtherOf(r)} : 3 * r < n /\ n <= 3 * (r + 1)
         /\ ReportOf(r) < BalanceOf(r) /\ BalanceOf(r) < OtherOf(r)
BY DEF ReportOf, BalanceOf, OtherOf

LEMMA RunsOfNumbers ==
  ASSUME NEW r \in Nat, NEW n \in Nat, 3 * r < n, n <= 3 * (r + 1)
  PROVE  RunOf(n) = r
BY DEF RunOf

LEMMA ChannelType ==
  /\ \A slot : ChannelOf(slot) \in AeronChannels
  /\ \A slot \in Slots : slot # "ask" /\ Reaches(slot) = {ChannelOf(slot)}
  /\ \A slot : Reaches(slot) \subseteq AeronChannels
BY DEF ChannelOf, AeronChannels, Reaches, Slots

LEMMA NumberOfTask ==
  ASSUME NEW slot, NEW n
  PROVE  Task(slot, n).slot = slot /\ Task(slot, n).n = n
BY DEF Task

-----------------------------------------------------------------------------
(* The tasks of a handler *)

LEMMA NoTasks == \A r : OfRun(<<>>, r) /\ InTurn(<<>>)
BY DEF OfRun, InTurn, IsSequence

LEMMA OneTask ==
  ASSUME NEW t
  PROVE  IsSequence(<<t>>) /\ Len(<<t>>) = 1 /\ <<t>>[1] = t
BY DEF IsSequence

LEMMA TwoTasks ==
  ASSUME NEW t, NEW u
  PROVE  /\ IsSequence(<<t, u>>) /\ Len(<<t, u>>) = 2
         /\ <<t, u>>[1] = t /\ <<t, u>>[2] = u
BY DEF IsSequence

LEMMA ThreeTasks ==
  ASSUME NEW t, NEW u, NEW v
  PROVE  /\ IsSequence(<<t, u, v>>) /\ Len(<<t, u, v>>) = 3
         /\ <<t, u, v>>[1] = t /\ <<t, u, v>>[2] = u /\ <<t, u, v>>[3] = v
BY DEF IsSequence

LEMMA IsTwoTasks ==
  ASSUME NEW s, IsSequence(s), Len(s) = 2
  PROVE  s = <<s[1], s[2]>>
<1> DEFINE r == <<s[1], s[2]>>
<1>1. IsSequence(r) /\ Len(r) = 2 /\ r[1] = s[1] /\ r[2] = s[2]
  BY TwoTasks
<1>2. \A i \in 1..2 : i = 1 \/ i = 2
  OBVIOUS
<1> HIDE DEF r
<1>3. \A i \in 1..Len(s) : s[i] = r[i]
  BY <1>1, <1>2
<1>4. s = r
  BY <1>1, <1>3, SameSequence
<1> QED
  BY <1>4 DEF r

LEMMA JoinTasks ==
  ASSUME NEW t, NEW u
  PROVE  /\ <<t>> \o <<u>> = <<t, u>> /\ <<t>> \o <<>> = <<t>>
         /\ Append(<<t>>, u) = <<t, u>> /\ Append(<<>>, u) = <<u>>
<1>1. IsSequence(<<>>) /\ Len(<<>>) = 0
  BY DEF IsSequence
<1>2. <<t>> \o <<u>> = <<t, u>>
  <2>1. /\ IsSequence(<<t>> \o <<u>>) /\ Len(<<t>> \o <<u>>) = 2
        /\ (<<t>> \o <<u>>)[1] = t /\ (<<t>> \o <<u>>)[2] = u
    BY OneTask, ConcatSequence
  <2> QED
    BY <2>1, IsTwoTasks
<1>3. <<t>> \o <<>> = <<t>>
  BY <1>1, OneTask, ConcatSequence, SameSequence
<1>4. Append(<<t>>, u) = <<t, u>>
  <2>1. /\ IsSequence(Append(<<t>>, u)) /\ Len(Append(<<t>>, u)) = 2
        /\ Append(<<t>>, u)[1] = t /\ Append(<<t>>, u)[2] = u
    BY OneTask, AppendSequence
  <2> QED
    BY <2>1, IsTwoTasks
<1>5. Append(<<>>, u) = <<u>>
  OBVIOUS
<1> QED
  BY <1>2, <1>3, <1>4, <1>5

\* A task of the run that comes next.
Fresh(t) == \E slot \in Slots \cup {"ask"}, n \in {ReportOf(runs), BalanceOf(runs), OtherOf(runs)} :
              t = Task(slot, n)

Apart(t, u) == Reaches(t.slot) \cap Reaches(u.slot) = {} \/ t.n < u.n

LEMMA FreshTask ==
  ASSUME NEW t, Fresh(t), runs \in Nat
  PROVE  /\ t = Task(t.slot, t.n) /\ t.slot \in Slots \cup {"ask"}
         /\ t.n \in Nat /\ 3 * (runs + 1) < t.n + 3 /\ t.n <= 3 * (runs + 1)
<1>1. PICK slot \in Slots \cup {"ask"}, n \in {ReportOf(runs), BalanceOf(runs), OtherOf(runs)} :
        t = Task(slot, n)
  BY DEF Fresh
<1>2. t.slot = slot /\ t.n = n
  BY <1>1, NumberOfTask
<1>3. n \in Nat /\ 3 * runs < n /\ n <= 3 * (runs + 1)
  BY Numbers
<1>4. 3 * (runs + 1) < n + 3
  BY <1>3
<1> QED
  BY <1>1, <1>2, <1>3, <1>4

LEMMA RunOfOne ==
  ASSUME NEW t, Fresh(t), runs \in Nat
  PROVE  OfRun(<<t>>, runs + 1) /\ InTurn(<<t>>) /\ <<t>> # <<>>
<1>1. OfRun(<<t>>, runs + 1)
  BY FreshTask, OneTask DEF OfRun
<1>2. InTurn(<<t>>)
  BY OneTask DEF InTurn
<1> QED
  BY <1>1, <1>2

LEMMA RunOfTwo ==
  ASSUME NEW t, NEW u, Fresh(t), Fresh(u), Apart(t, u), runs \in Nat
  PROVE  OfRun(<<t, u>>, runs + 1) /\ InTurn(<<t, u>>) /\ <<t, u>> # <<>>
<1>1. OfRun(<<t, u>>, runs + 1)
  <2>1. \A i \in 1..2 : i = 1 \/ i = 2
    OBVIOUS
  <2> QED
    BY <2>1, FreshTask, TwoTasks DEF OfRun
<1>2. InTurn(<<t, u>>)
  <2>1. \A i, j \in 1..2 : i < j => i = 1 /\ j = 2
    OBVIOUS
  <2> QED
    BY <2>1, TwoTasks DEF InTurn, Apart
<1> QED
  BY <1>1, <1>2

LEMMA RunOfThree ==
  ASSUME NEW t, NEW u, NEW v, Fresh(t), Fresh(u), Fresh(v),
         Apart(t, u), Apart(t, v), Apart(u, v), runs \in Nat
  PROVE  OfRun(<<t, u, v>>, runs + 1) /\ InTurn(<<t, u, v>>) /\ <<t, u, v>> # <<>>
<1>1. OfRun(<<t, u, v>>, runs + 1)
  <2>1. \A i \in 1..3 : i = 1 \/ i = 2 \/ i = 3
    OBVIOUS
  <2> QED
    BY <2>1, FreshTask, ThreeTasks DEF OfRun
<1>2. InTurn(<<t, u, v>>)
  <2> SUFFICES ASSUME NEW i \in 1..3, NEW j \in 1..3, i < j,
                      Reaches(<<t, u, v>>[i].slot) \cap Reaches(<<t, u, v>>[j].slot) # {}
               PROVE  <<t, u, v>>[i].n < <<t, u, v>>[j].n
    BY ThreeTasks DEF InTurn
  <2>1. j = 2 \/ j = 3
    OBVIOUS
  <2>2. CASE j = 2
    <3>1. i = 1
      BY <2>2
    <3> QED
      BY <2>2, <3>1, ThreeTasks DEF Apart
  <2>3. CASE j = 3
    <3>1. i = 1 \/ i = 2
      BY <2>3
    <3> QED
      BY <2>3, <3>1, ThreeTasks DEF Apart
  <2> QED
    BY <2>1, <2>2, <2>3
<1> QED
  BY <1>1, <1>2

-----------------------------------------------------------------------------
(* Sending: a handler starts, goes on, ends *)

LEMMA SendInit == Init => SendInv
<1> SUFFICES ASSUME Init PROVE SendInv
  OBVIOUS
<1> USE DEF Init, SendersInit
<1>1. runs \in Nat /\ (tasks # <<>> => runs > 0) /\ DOMAIN got = AeronChannels /\ errors = {}
  OBVIOUS
<1>2. OfRun(tasks, runs) /\ InTurn(tasks)
  BY NoTasks
<1>3. IsSequence(<<>>) /\ Len(<<>>) = 0
  BY DEF IsSequence
<1>4. \A c \in AeronChannels :
        History(got[c]) /\ \A k \in 1..Len(got[c]) : Behind(got[c][k].n, c)
  BY <1>3 DEF History
<1>5. prev \in [Remembering -> Nat]
  OBVIOUS
<1>6. \A s \in Remembering : Recalls(got[ChannelOf(s)], s, prev[s], 3 * runs + 1)
  BY <1>3, ChannelType DEF Recalls
<1> QED
  BY <1>1, <1>2, <1>4, <1>5, <1>6 DEF SendInv

LEMMA SendStarts ==
  ASSUME SendInv, runs' = runs + 1, OfRun(tasks', runs + 1), InTurn(tasks'),
         got' = got, prev' = prev, errors' = errors
  PROVE  SendInv'
<1> USE DEF SendInv
<1>1. runs' \in Nat /\ runs' > 0 /\ runs \in Nat
  OBVIOUS
<1>2. \A n \in Nat : \A c : n <= 3 * runs => Behind(n, c)'
  BY <1>1 DEF Behind, OfRun
<1>3. \A c \in AeronChannels :
        (History(got[c]))' /\ \A k \in 1..Len(got'[c]) : (Behind(got[c][k].n, c))'
  <2> SUFFICES ASSUME NEW c \in AeronChannels
               PROVE  (History(got[c]))' /\ \A k \in 1..Len(got'[c]) : (Behind(got[c][k].n, c))'
    OBVIOUS
  <2>1. History(got[c])
    OBVIOUS
  <2>2. (History(got[c]))'
    BY <1>1, <2>1 DEF History
  <2> QED
    BY <1>2, <2>1, <2>2 DEF History
<1>4. \A s \in Remembering : Recalls(got[ChannelOf(s)], s, prev[s], 3 * runs' + 1)
  <2> SUFFICES ASSUME NEW s \in Remembering
               PROVE  Recalls(got[ChannelOf(s)], s, prev[s], 3 * runs' + 1)
    OBVIOUS
  <2>1. /\ Recalls(got[ChannelOf(s)], s, prev[s], 3 * runs + 1)
        /\ History(got[ChannelOf(s)])
    BY ChannelType
  <2>2. \A k \in 1..Len(got[ChannelOf(s)]) :
          got[ChannelOf(s)][k].n < 3 * runs + 1 /\ got[ChannelOf(s)][k].n < 3 * runs' + 1
    BY <1>1, <2>1 DEF History
  <2> QED
    BY <2>1, <2>2 DEF Recalls
<1>5. \A e \in errors :
       /\ e.slot \in Slots /\ e.n \in Nat /\ e.last \in Nat
       /\ e.last < e.n /\ e.n <= 3 * runs'
       /\ Behind(e.n, ChannelOf(e.slot))'
       /\ e.slot \in Remembering => Recalls(got[ChannelOf(e.slot)], e.slot, e.last, e.n)
  BY <1>1, <1>2
<1> QED
  BY <1>1, <1>3, <1>4, <1>5

\* Tasks that reach no more than the ones they stand for, with the same numbers.
LEMMA SendGoesOn ==
  ASSUME SendInv, OfRun(tasks', runs), InTurn(tasks'), tasks # <<>>,
         \A i \in 1..Len(tasks') : \E j \in 1..Len(tasks) :
           tasks'[i].n = tasks[j].n /\ Reaches(tasks'[i].slot) \subseteq Reaches(tasks[j].slot),
         UNCHANGED <<runs, got, prev, errors>>
  PROVE  SendInv'
<1> USE DEF SendInv
<1>1. \A n, c : Behind(n, c) => Behind(n, c)'
  BY DEF Behind
<1>2. \A c \in AeronChannels :
        (History(got[c]))' /\ \A k \in 1..Len(got'[c]) : (Behind(got[c][k].n, c))'
  BY <1>1 DEF History
<1>3. \A e \in errors :
       /\ e.slot \in Slots /\ e.n \in Nat /\ e.last \in Nat
       /\ e.last < e.n /\ e.n <= 3 * runs
       /\ Behind(e.n, ChannelOf(e.slot))'
       /\ e.slot \in Remembering => Recalls(got[ChannelOf(e.slot)], e.slot, e.last, e.n)
  BY <1>1
<1> QED
  BY <1>2, <1>3

\* What is left after the first task.
LEMMA RestOfTasks ==
  ASSUME SendInv, tasks # <<>>
  PROVE  /\ Len(tasks) \in Nat \ {0} /\ Head(tasks) = tasks[1]
         /\ IsSequence(Tail(tasks)) /\ Len(Tail(tasks)) = Len(tasks) - 1
         /\ \A i \in 1..Len(Tail(tasks)) : i + 1 \in 1..Len(tasks) /\ Tail(tasks)[i] = tasks[i + 1]
         /\ OfRun(Tail(tasks), runs) /\ InTurn(Tail(tasks))
<1> USE DEF SendInv
<1>1. IsSequence(tasks)
  BY DEF OfRun
<1>2. /\ Len(tasks) \in Nat \ {0} /\ Head(tasks) = tasks[1]
      /\ IsSequence(Tail(tasks)) /\ Len(Tail(tasks)) = Len(tasks) - 1
      /\ \A i \in 1..Len(Tail(tasks)) : Tail(tasks)[i] = tasks[i + 1]
  BY <1>1, TailSequence
<1>3. \A i \in 1..Len(Tail(tasks)) : i + 1 \in 1..Len(tasks)
  BY <1>2
<1>4. OfRun(Tail(tasks), runs)
  BY <1>2, <1>3 DEF OfRun
<1>5. InTurn(Tail(tasks))
  <2>1. \A i, j \in 1..Len(Tail(tasks)) : i < j => i + 1 < j + 1
    OBVIOUS
  <2> QED
    BY <1>2, <1>3, <2>1 DEF InTurn
<1> QED
  BY <1>2, <1>3, <1>4, <1>5

\* A message that is lost, and one that is sent.
LEMMA SendLoses ==
  ASSUME NEW outcome \in Outcomes, outcome \notin Sent, SendInv, send(outcome),
         UNCHANGED runs
  PROVE  SendInv'
<1>0. PICK t, e : t = Head(tasks) /\ e = Entry(t.slot, t.n)
  OBVIOUS
<1>1. /\ tasks # <<>> /\ t.slot \in Slots /\ tasks' = Tail(tasks) /\ got' = got
      /\ prev' = prev /\ errors' \subseteq errors \cup {e}
  BY <1>0, Zenon DEF send, Remembers, Sent
<1>2. t = tasks[1] /\ 1 \in 1..Len(tasks) /\ Len(tasks) \in Nat
  BY <1>0, <1>1, RestOfTasks
<1>3. t.n \in Nat /\ t.n <= 3 * runs /\ runs \in Nat /\ 0 < t.n
  BY <1>1, <1>2 DEF SendInv, OfRun
<1>4. OfRun(tasks', runs) /\ InTurn(tasks')
  BY <1>1, RestOfTasks
<1>5. \A i \in 1..Len(tasks') : \E j \in 1..Len(tasks) :
        tasks'[i].n = tasks[j].n /\ Reaches(tasks'[i].slot) \subseteq Reaches(tasks[j].slot)
  BY <1>1, RestOfTasks
<1>6. \A n, c : Behind(n, c) => Behind(n, c)'
  BY <1>5 DEF Behind
<1>7. Behind(t.n, ChannelOf(t.slot))'
  <2> SUFFICES ASSUME NEW i \in 1..Len(tasks'), ChannelOf(t.slot) \in Reaches(tasks'[i].slot)
               PROVE  t.n < tasks'[i].n
    BY DEF Behind
  <2>1. i + 1 \in 1..Len(tasks) /\ tasks'[i] = tasks[i + 1] /\ 1 < i + 1
    BY <1>1, <1>2, RestOfTasks
  <2>2. ChannelOf(t.slot) \in Reaches(tasks[1].slot) \cap Reaches(tasks[i + 1].slot)
    BY <1>1, <1>2, <2>1, ChannelType
  <2>3. tasks[1].n < tasks[i + 1].n
    BY <1>2, <2>1, <2>2 DEF SendInv, InTurn
  <2> QED
    BY <1>2, <2>1, <2>3
<1>8. e.slot = t.slot /\ e.n = t.n /\ e.last = IF t.slot \in Remembering THEN prev[t.slot] ELSE 0
  BY <1>0 DEF Entry
<1>9. e.slot \in Remembering => Recalls(got[ChannelOf(e.slot)], e.slot, e.last, e.n)
                                /\ e.last \in Nat /\ e.last < e.n
  <2> SUFFICES ASSUME t.slot \in Remembering
               PROVE  Recalls(got[ChannelOf(t.slot)], t.slot, prev[t.slot], t.n)
                      /\ prev[t.slot] \in Nat /\ prev[t.slot] < t.n
    BY <1>8
  <2> DEFINE h == got[ChannelOf(t.slot)]
  <2>1. /\ Recalls(h, t.slot, prev[t.slot], 3 * runs + 1) /\ prev[t.slot] \in Nat
        /\ History(h) /\ \A k \in 1..Len(h) : Behind(h[k].n, ChannelOf(t.slot))
    BY ChannelType DEF SendInv
  <2>2. \A k \in 1..Len(h) : h[k].n < t.n /\ h[k].n < 3 * runs + 1
    <3>1. ChannelOf(t.slot) \in Reaches(tasks[1].slot)
      BY <1>1, <1>2, ChannelType
    <3>2. \A k \in 1..Len(h) : h[k].n < t.n
      BY <1>2, <2>1, <3>1 DEF Behind
    <3>3. \A k \in 1..Len(h) : h[k].n < 3 * runs + 1
      BY <1>3, <2>1 DEF History
    <3> QED
      BY <3>2, <3>3
  <2> HIDE DEF h
  <2>3. Recalls(h, t.slot, prev[t.slot], t.n)
    BY <2>1, <2>2 DEF Recalls
  <2>4. prev[t.slot] < t.n
    <3>1. CASE prev[t.slot] = 0
      BY <1>3, <3>1
    <3>2. CASE prev[t.slot] # 0
      BY <2>2, <2>1, <3>2 DEF Recalls
    <3> QED
      BY <3>1, <3>2
  <2> QED
    BY <2>1, <2>3, <2>4 DEF h
<1>10. /\ e.slot \in Slots /\ e.n \in Nat /\ e.last \in Nat /\ e.last < e.n /\ e.n <= 3 * runs
       /\ Behind(e.n, ChannelOf(e.slot))'
  BY <1>1, <1>3, <1>7, <1>8, <1>9
<1>11. \A f \in errors' :
       /\ f.slot \in Slots /\ f.n \in Nat /\ f.last \in Nat
       /\ f.last < f.n /\ f.n <= 3 * runs
       /\ Behind(f.n, ChannelOf(f.slot))'
       /\ f.slot \in Remembering => Recalls(got[ChannelOf(f.slot)], f.slot, f.last, f.n)
  BY <1>1, <1>6, <1>9, <1>10 DEF SendInv
<1>12. \A c \in AeronChannels :
        (History(got[c]))' /\ \A k \in 1..Len(got'[c]) : (Behind(got[c][k].n, c))'
  BY <1>1, <1>6 DEF SendInv, History
<1> QED
  BY <1>1, <1>3, <1>4, <1>11, <1>12 DEF SendInv

LEMMA SendGives ==
  ASSUME NEW outcome \in Sent, SendInv, send(outcome), UNCHANGED runs
  PROVE  SendInv'
<1>0. PICK t, m, d : /\ t = Head(tasks) /\ m = Task(t.slot, t.n)
                     /\ d = ChannelOf(t.slot)
  OBVIOUS
<1>1. /\ tasks # <<>> /\ t.slot \in Slots /\ tasks' = Tail(tasks)
      /\ got' = [got EXCEPT ![d] = Append(@, m)]
      /\ prev' = IF Remembers(t.slot, outcome) THEN [prev EXCEPT ![t.slot] = t.n] ELSE prev
      /\ errors' = errors
  BY <1>0, Zenon DEF send, Blames
<1>2. t = tasks[1] /\ 1 \in 1..Len(tasks) /\ Len(tasks) \in Nat
  BY <1>0, <1>1, RestOfTasks
<1>3. t.n \in Nat /\ t.n <= 3 * runs /\ runs \in Nat /\ 0 < t.n
  BY <1>1, <1>2 DEF SendInv, OfRun
<1>4. OfRun(tasks', runs) /\ InTurn(tasks')
  BY <1>1, RestOfTasks
<1>5. \A i \in 1..Len(tasks') : \E j \in 1..Len(tasks) :
        tasks'[i].n = tasks[j].n /\ Reaches(tasks'[i].slot) \subseteq Reaches(tasks[j].slot)
  BY <1>1, RestOfTasks
<1>6. \A n, c : Behind(n, c) => Behind(n, c)'
  BY <1>5 DEF Behind
<1>7. Behind(t.n, d)'
  <2> SUFFICES ASSUME NEW i \in 1..Len(tasks'), d \in Reaches(tasks'[i].slot)
               PROVE  t.n < tasks'[i].n
    BY DEF Behind
  <2>1. i + 1 \in 1..Len(tasks) /\ tasks'[i] = tasks[i + 1] /\ 1 < i + 1
    BY <1>1, <1>2, RestOfTasks
  <2>2. d \in Reaches(tasks[1].slot) \cap Reaches(tasks[i + 1].slot)
    BY <1>0, <1>1, <1>2, <2>1, ChannelType
  <2>3. tasks[1].n < tasks[i + 1].n
    BY <1>2, <2>1, <2>2 DEF SendInv, InTurn
  <2> QED
    BY <1>2, <2>1, <2>3
\* The channel of the message.
<1>8. PICK h : h = got[d]
  OBVIOUS
<1>9. /\ d \in AeronChannels /\ History(h) /\ \A k \in 1..Len(h) : Behind(h[k].n, d)
      /\ DOMAIN got = AeronChannels
  BY <1>0, <1>8, ChannelType DEF SendInv
<1>10. m.slot = t.slot /\ m.n = t.n
  BY <1>0 DEF Task
<1>11. PICK g : g = Append(h, m)
  OBVIOUS
<1>12. /\ IsSequence(g) /\ Len(g) = Len(h) + 1 /\ Len(h) \in Nat
       /\ \A k \in 1..Len(h) : g[k] = h[k]
       /\ g[Len(h) + 1] = m
  BY <1>9, <1>11, AppendSequence DEF History, IsSequence
<1>13. \A k \in 1..Len(g) : k \in 1..Len(h) \/ k = Len(h) + 1
  BY <1>12
<1>14. \A k \in 1..Len(h) : h[k].n < t.n
  <2>1. d \in Reaches(tasks[1].slot)
    BY <1>0, <1>1, <1>2, ChannelType
  <2> QED
    BY <1>2, <1>9, <2>1 DEF Behind
<1>15. DOMAIN got' = AeronChannels /\ \A c \in AeronChannels : got'[c] = IF c = d THEN g ELSE got[c]
  BY <1>1, <1>8, <1>9, <1>11
<1>16. History(g)
  <2>1. \A k \in 1..Len(g) : /\ g[k].slot \in Slots /\ g[k].n \in Nat
                             /\ g[k].n <= 3 * runs
    BY <1>1, <1>3, <1>9, <1>10, <1>12, <1>13 DEF History
  <2>2. \A j, k \in 1..Len(g) : j < k => g[j].n < g[k].n
    <3> SUFFICES ASSUME NEW j \in 1..Len(g), NEW k \in 1..Len(g), j < k
                 PROVE  g[j].n < g[k].n
      OBVIOUS
    <3>1. j \in 1..Len(h)
      BY <1>12
    <3>2. CASE k \in 1..Len(h)
      BY <1>9, <1>12, <3>1, <3>2 DEF History
    <3>3. CASE k = Len(h) + 1
      BY <1>10, <1>12, <1>14, <3>1, <3>3
    <3> QED
      BY <1>13, <3>2, <3>3
  <2> QED
    BY <1>12, <2>1, <2>2 DEF History
<1>17. \A c \in AeronChannels :
         (History(got[c]))' /\ \A k \in 1..Len(got'[c]) : (Behind(got[c][k].n, c))'
  <2> SUFFICES ASSUME NEW c \in AeronChannels
               PROVE  (History(got[c]))' /\ \A k \in 1..Len(got'[c]) : (Behind(got[c][k].n, c))'
    OBVIOUS
  <2>1. CASE c # d
    BY <1>6, <1>15, <2>1 DEF SendInv, History
  <2>2. CASE c = d
    <3>1. (History(got[c]))'
      BY <1>15, <1>16, <2>2 DEF History
    <3>2. \A k \in 1..Len(g) : Behind(g[k].n, d)'
      BY <1>6, <1>7, <1>9, <1>10, <1>12, <1>13
    <3> QED
      BY <1>15, <2>2, <3>1, <3>2
  <2> QED
    BY <2>1, <2>2
\* What was remembered, and what is remembered now.
<1>18. ASSUME NEW s, NEW last, NEW n, Recalls(h, s, last, n)
       PROVE  Recalls(g, s, last, n)
  <2> SUFFICES ASSUME last # 0
               PROVE  \E k \in 1..Len(g) : g[k].slot = s /\ g[k].n = last /\ g[k].n < n
    BY DEF Recalls
  <2>1. PICK k \in 1..Len(h) : h[k].slot = s /\ h[k].n = last /\ h[k].n < n
    BY <1>18 DEF Recalls
  <2> QED
    BY <1>12, <2>1
<1>19. prev' \in [Remembering -> Nat]
  BY <1>1, <1>3 DEF SendInv
<1>20. \A s \in Remembering : Recalls(got'[ChannelOf(s)], s, prev'[s], 3 * runs + 1)
  <2> SUFFICES ASSUME NEW s \in Remembering
               PROVE  Recalls(got'[ChannelOf(s)], s, prev'[s], 3 * runs + 1)
    OBVIOUS
  <2>0. /\ s \in Slots /\ ChannelOf(s) \in AeronChannels
        /\ Recalls(got[ChannelOf(s)], s, prev[s], 3 * runs + 1)
    BY ChannelType DEF SendInv, Remembering
  <2>1. CASE s # t.slot
    <3>1. prev'[s] = prev[s]
      BY <1>1, <1>19, <2>1 DEF SendInv
    <3>2. CASE ChannelOf(s) = d
      BY <1>3, <1>8, <1>15, <1>18, <2>0, <2>1, <3>1, <3>2
    <3>3. CASE ChannelOf(s) # d
      BY <1>15, <2>0, <3>1, <3>3
    <3> QED
      BY <3>2, <3>3
  <2>2. CASE s = t.slot /\ outcome = "again"
    <3>1. prev'[s] = prev[s] /\ ChannelOf(s) = d
      BY <1>0, <1>1, <2>2 DEF Remembers
    <3> QED
      BY <1>3, <1>8, <1>15, <1>18, <2>0, <2>2, <3>1
  <2>3. CASE s = t.slot /\ outcome = "first"
    <3>1. prev'[s] = t.n /\ ChannelOf(s) = d
      BY <1>0, <1>1, <2>3 DEF Remembers, SendInv
    <3>2. Len(g) \in 1..Len(g) /\ g[Len(g)].slot = s /\ g[Len(g)].n = t.n /\ t.n < 3 * runs + 1
      BY <1>3, <1>10, <1>12, <2>3
    <3>3. Recalls(g, s, t.n, 3 * runs + 1)
      BY <3>2 DEF Recalls
    <3> QED
      BY <1>15, <2>0, <3>1, <3>3
  <2> QED
    BY <2>1, <2>2, <2>3 DEF Sent
<1>21. \A e \in errors :
       /\ e.slot \in Slots /\ e.n \in Nat /\ e.last \in Nat
       /\ e.last < e.n /\ e.n <= 3 * runs
       /\ Behind(e.n, ChannelOf(e.slot))'
       /\ e.slot \in Remembering => Recalls(got'[ChannelOf(e.slot)], e.slot, e.last, e.n)
  <2> SUFFICES ASSUME NEW e \in errors
               PROVE  /\ e.slot \in Slots /\ e.n \in Nat /\ e.last \in Nat
                      /\ e.last < e.n /\ e.n <= 3 * runs
                      /\ Behind(e.n, ChannelOf(e.slot))'
                      /\ e.slot \in Remembering =>
                           Recalls(got'[ChannelOf(e.slot)], e.slot, e.last, e.n)
    OBVIOUS
  <2>1. /\ e.slot \in Slots /\ e.n \in Nat /\ e.last \in Nat
        /\ e.last < e.n /\ e.n <= 3 * runs /\ Behind(e.n, ChannelOf(e.slot))
        /\ e.slot \in Remembering => Recalls(got[ChannelOf(e.slot)], e.slot, e.last, e.n)
    BY DEF SendInv
  <2>2. Behind(e.n, ChannelOf(e.slot))'
    <3>1. PICK n, c : n = e.n /\ c = ChannelOf(e.slot)
      OBVIOUS
    <3> QED
      BY <1>6, <2>1
  <2>3. ASSUME e.slot \in Remembering
        PROVE  Recalls(got'[ChannelOf(e.slot)], e.slot, e.last, e.n)
    <3>1. CASE ChannelOf(e.slot) = d
      BY <1>8, <1>9, <1>15, <1>18, <2>1, <2>3, <3>1
    <3>2. CASE ChannelOf(e.slot) # d
      BY <1>15, <2>1, <2>3, <3>2, ChannelType
    <3> QED
      BY <3>1, <3>2
  <2> QED
    BY <2>1, <2>2, <2>3
<1> QED
  BY <1>1, <1>3, <1>4, <1>15, <1>17, <1>19, <1>20, <1>21 DEF SendInv

-----------------------------------------------------------------------------
(* A handler gets the thread *)

LEMMA RestInit == Init => LossInv /\ BalanceInv /\ HandlerInv /\ FollowInv /\ OnlyOwnAssetsDeafen
<1> SUFFICES ASSUME Init
             PROVE  LossInv /\ BalanceInv /\ HandlerInv /\ FollowInv /\ OnlyOwnAssetsDeafen
  OBVIOUS
<1> USE DEF Init, SendersInit
<1>1. LossInv /\ BalanceInv /\ OnlyOwnAssetsDeafen
  BY DEF LossInv, BalanceInv, OnlyOwnAssetsDeafen
<1>2. HandlerInv
  BY ReportsAssumption DEF HandlerInv, Idle, Kinds
<1>3. FollowInv
  BY DEF FollowInv, IsSequence
<1> QED
  BY <1>1, <1>2, <1>3

\* What holds of the balances underway while no handler runs.
LEMMA FollowIdle ==
  ASSUME FollowInv, tasks = <<>>, runs \in Nat, runs' = runs + 1,
         UNCHANGED <<wallet, balances, got, errors, excused>>
  PROVE  \A u \in seen :
           /\ u.run \in Nat /\ u.run < runs' /\ u.wallet \in 0..wallet'
           /\ \/ u.run \in excused'
              \/ Task("balance_core", BalanceOf(u.run)) \in Blamed'
              \/ Underway(u)'
<1> SUFFICES ASSUME NEW u \in seen
             PROVE  /\ u.run \in Nat /\ u.run < runs' /\ u.wallet \in 0..wallet'
                    /\ \/ u.run \in excused'
                       \/ Task("balance_core", BalanceOf(u.run)) \in Blamed'
                       \/ Underway(u)'
  OBVIOUS
<1>1. /\ u.run \in Nat /\ u.run < runs /\ u.wallet \in 0..wallet
      /\ \/ u.run \in excused
         \/ Task("balance_core", BalanceOf(u.run)) \in Blamed
         \/ Underway(u)
  BY DEF FollowInv
<1>2. Blamed' = Blamed
  BY DEF Blamed
<1>3. Underway(u) => Underway(u)'
  <2> SUFFICES ASSUME Underway(u) PROVE Underway(u)'
    OBVIOUS
  <2>1. Len(tasks) = 0
    OBVIOUS
  <2>2. PICK b \in balances : /\ b.n = BalanceOf(u.run) /\ b.wallet >= u.wallet
                              /\ Delivered(Task("balance_core", b.n))
    BY <2>1 DEF Underway
  <2>3. Delivered(Task("balance_core", b.n))'
    BY <2>2 DEF Delivered
  <2> QED
    BY <2>2, <2>3 DEF Underway
<1> QED
  BY <1>1, <1>2, <1>3

LEMMA Started ==
  ASSUME IInv, NEW kind \in Kinds \ {"none"}, NEW assets \in SUBSET Coins, NEW long \in BOOLEAN,
         NEW todo, Starts(kind, assets, long, todo),
         OfRun(todo, runs + 1) /\ InTurn(todo) /\ todo # <<>>,
         kind = "private" => assets = Assets /\ ~long
  PROVE  /\ SendInv' /\ LossInv' /\ BalanceInv' /\ HandlerInv' /\ OnlyOwnAssetsDeafen'
         /\ runs \in Nat /\ tasks = <<>> /\ runs' = runs + 1
         /\ UNCHANGED <<wallet, balances, got, errors, excused>>
<1>1. /\ handler = Idle /\ runs < MaxRuns
      /\ handler' = [kind |-> kind, assets |-> assets, long |-> long]
      /\ runs' = runs + 1 /\ tasks' = todo
      /\ queued' = queued \cup {todo[i] : i \in {j \in DOMAIN todo : todo[j].slot # "ask"}}
      /\ UNCHANGED <<got, prev, errors, wallet, held, link, alive, balances, excused, unlucky>>
  BY DEF Starts
<1>2. runs \in Nat /\ tasks = <<>>
  BY <1>1 DEF IInv, SendInv, HandlerInv, Idle
<1>3. SendInv'
  BY <1>1, SendStarts DEF IInv
<1>4. HandlerInv'
  BY <1>1, <1>2, ReportsAssumption DEF IInv, HandlerInv
<1>5. BalanceInv'
  BY <1>1, <1>2 DEF IInv, BalanceInv
<1>6. OnlyOwnAssetsDeafen'
  BY <1>1 DEF IInv, OnlyOwnAssetsDeafen
<1>7. LossInv'
  <2> SUFFICES ASSUME NEW t \in queued'
               PROVE  /\ t.slot \in Slots /\ t.n \in Nat
                      /\ \/ Delivered(t)' \/ t \in Blamed' \/ \E i \in 1..Len(tasks') : tasks'[i] = t
                         \/ t.slot = "copy" \/ RunOf(t.n) \in excused'
    BY Zenon DEF LossInv
  <2>1. CASE t \in queued
    <3>1. /\ t.slot \in Slots /\ t.n \in Nat
          /\ \/ Delivered(t) \/ t \in Blamed
             \/ t.slot = "copy" \/ RunOf(t.n) \in excused
      <4>1. Len(tasks) = 0
        BY <1>2
      <4> QED
        BY <2>1, <4>1 DEF IInv, LossInv
    <3>2. Blamed' = Blamed /\ (Delivered(t) => Delivered(t)')
      BY <1>1 DEF Blamed, Delivered
    <3> QED
      BY <1>1, <3>1, <3>2
  <2>2. CASE t \notin queued
    <3>1. DOMAIN todo = 1..Len(todo)
      BY SequenceOfElements DEF OfRun
    <3>2. PICK i \in 1..Len(todo) : t = todo[i] /\ todo[i].slot # "ask"
      BY <1>1, <2>2, <3>1
    <3>3. t.slot \in Slots /\ t.n \in Nat
      BY <3>2 DEF OfRun
    <3> QED
      BY <1>1, <3>2, <3>3
  <2> QED
    BY <2>1, <2>2
<1> QED
  BY <1>1, <1>2, <1>3, <1>4, <1>5, <1>6, <1>7

LEMMA Inv_private_ws_handler ==
  ASSUME IInv, private_ws_handler
  PROVE  IInv'
<1>1. PICK t, u, v : /\ t = Task("report_core", ReportOf(runs))
                     /\ u = Task("report_log", ReportOf(runs))
                     /\ v = Task("ask", BalanceOf(runs))
  OBVIOUS
<1>2. /\ updates # <<>> /\ updates' = Tail(updates)
      /\ seen' = seen \cup {[run |-> runs, wallet |-> Head(updates)]}
      /\ Starts("private", Assets, FALSE, <<t, u, v>>)
  BY <1>1 DEF private_ws_handler
<1>3. runs \in Nat
  BY DEF IInv, SendInv
<1>4. Fresh(t) /\ Fresh(u) /\ Fresh(v)
  BY <1>1 DEF Fresh, Slots
<1>5. Apart(t, u) /\ Apart(t, v) /\ Apart(u, v)
  <2>1. /\ Reaches(t.slot) = {"order_status"} /\ Reaches(u.slot) = {"log"}
        /\ Reaches(v.slot) = {"balance", "log"}
    BY <1>1 DEF Task, Reaches, ChannelOf
  <2>2. u.n < v.n
    BY <1>1, <1>3, Numbers DEF Task
  <2> QED
    BY <2>1, <2>2 DEF Apart
<1>6. OfRun(<<t, u, v>>, runs + 1) /\ InTurn(<<t, u, v>>) /\ <<t, u, v>> # <<>>
  BY <1>3, <1>4, <1>5, RunOfThree
<1>7. "private" \in Kinds \ {"none"} /\ Assets \in SUBSET Coins
  BY ReportsAssumption DEF Kinds
<1>8. /\ SendInv' /\ LossInv' /\ BalanceInv' /\ HandlerInv' /\ OnlyOwnAssetsDeafen'
      /\ tasks = <<>> /\ runs' = runs + 1
      /\ UNCHANGED <<wallet, balances, got, errors, excused>>
  BY <1>2, <1>6, <1>7, Started
<1>9. FollowInv'
  <2>1. /\ IsSequence(updates') /\ Head(updates) = updates[1] /\ Len(updates) \in Nat \ {0}
        /\ Len(updates') = Len(updates) - 1
        /\ \A i \in 1..Len(updates') : updates'[i] = updates[i + 1]
    BY <1>2, TailSequence DEF IInv, FollowInv
  <2>2. \A i \in 1..Len(updates') : updates'[i] \in 0..wallet'
    BY <1>8, <2>1 DEF IInv, FollowInv
  <2>3. \A w \in seen :
           /\ w.run \in Nat /\ w.run < runs' /\ w.wallet \in 0..wallet'
           /\ \/ w.run \in excused'
              \/ Task("balance_core", BalanceOf(w.run)) \in Blamed'
              \/ Underway(w)'
    BY <1>3, <1>8, FollowIdle DEF IInv
  <2>4. PICK w : w = [run |-> runs, wallet |-> Head(updates)]
    OBVIOUS
  <2>5. w.run \in Nat /\ w.run < runs' /\ w.wallet \in 0..wallet'
    BY <1>3, <1>8, <2>1, <2>4 DEF IInv, FollowInv
  <2>6. Underway(w)'
    <3>1. tasks' = <<t, u, v>> /\ w.run = runs
      BY <1>2, <2>4 DEF Starts
    <3>2. 3 \in 1..Len(tasks') /\ tasks'[3] = Task("ask", BalanceOf(w.run))
      BY <1>1, <3>1, ThreeTasks
    <3> QED
      BY <3>2 DEF Underway
  <2>7. seen' = seen \cup {w}
    BY <1>2, <2>4
  <2>8. \A x \in seen' :
           /\ x.run \in Nat /\ x.run < runs' /\ x.wallet \in 0..wallet'
           /\ \/ x.run \in excused'
              \/ Task("balance_core", BalanceOf(x.run)) \in Blamed'
              \/ Underway(x)'
    BY <2>3, <2>5, <2>6, <2>7
  <2> QED
    BY <2>1, <2>2, <2>8 DEF FollowInv
<1> QED
  BY <1>8, <1>9 DEF IInv

\* The other handlers leave the order updates alone.
LEMMA StartedOther ==
  ASSUME IInv, NEW kind \in Kinds \ {"none", "private"}, NEW assets \in SUBSET Coins,
         NEW long \in BOOLEAN, NEW todo, Starts(kind, assets, long, todo),
         OfRun(todo, runs + 1) /\ InTurn(todo) /\ todo # <<>>,
         UNCHANGED <<updates, seen>>
  PROVE  IInv'
<1>1. /\ SendInv' /\ LossInv' /\ BalanceInv' /\ HandlerInv' /\ OnlyOwnAssetsDeafen'
      /\ runs \in Nat /\ tasks = <<>> /\ runs' = runs + 1
      /\ UNCHANGED <<wallet, balances, got, errors, excused>>
  BY Started
<1>2. \A u \in seen :
           /\ u.run \in Nat /\ u.run < runs' /\ u.wallet \in 0..wallet'
           /\ \/ u.run \in excused'
              \/ Task("balance_core", BalanceOf(u.run)) \in Blamed'
              \/ Underway(u)'
  BY <1>1, FollowIdle DEF IInv
<1>3. FollowInv'
  BY <1>1, <1>2 DEF IInv, FollowInv
<1> QED
  BY <1>1, <1>3 DEF IInv

LEMMA Inv_aeron_handler ==
  ASSUME IInv, NEW c \in Commands, NEW failing \in BOOLEAN, aeron_handler(c, failing)
  PROVE  IInv'
<1>1. PICK q, e, o : /\ q = Task("ask", BalanceOf(runs)) /\ e = Task("error", ReportOf(runs))
                     /\ o = Task("copy", OtherOf(runs))
  OBVIOUS
<1>2. runs \in Nat
  BY DEF IInv, SendInv
<1>3. Fresh(q) /\ Fresh(e) /\ Fresh(o)
  BY <1>1 DEF Fresh, Slots
<1>4. Apart(q, o) /\ Apart(e, o)
  BY <1>1, <1>2, Numbers DEF Apart, Task
<1>5. /\ c.assets \in SUBSET Coins /\ c.long \in BOOLEAN
      /\ "poll" \in Kinds \ {"none", "private"}
  BY ReportsAssumption DEF Commands, Kinds
<1>6. \E todo \in {<<q, o>>, <<e, o>>, <<o>>} : Starts("poll", c.assets, c.long, todo)
  <2> DEFINE first == CASE c.kind = "get_balances" -> <<q>>
                        [] c.kind = "other" /\ failing -> <<e>>
                        [] OTHER -> <<>>
  <2>1. Starts("poll", c.assets, c.long, Append(first, o))
    BY <1>1 DEF aeron_handler
  <2>2. first \in {<<q>>, <<e>>, <<>>}
    <3>1. c.kind = "get_balances" \/ c.kind = "other"
      BY DEF Commands
    <3>2. CASE c.kind = "get_balances"
      BY <3>2
    <3>3. CASE c.kind = "other"
      BY <3>3
    <3> QED
      BY <3>1, <3>2, <3>3
  <2>3. Append(<<q>>, o) = <<q, o>> /\ Append(<<e>>, o) = <<e, o>> /\ Append(<<>>, o) = <<o>>
    BY JoinTasks
  <2> HIDE DEF first
  <2> QED
    BY <2>1, <2>2, <2>3
<1>7. \A todo \in {<<q, o>>, <<e, o>>, <<o>>} :
        OfRun(todo, runs + 1) /\ InTurn(todo) /\ todo # <<>>
  BY <1>2, <1>3, <1>4, RunOfOne, RunOfTwo
<1> QED
  BY <1>5, <1>6, <1>7, StartedOther DEF aeron_handler

LEMMA Inv_public_ws_handler ==
  ASSUME IInv, NEW metric \in BOOLEAN, public_ws_handler(metric)
  PROVE  IInv'
<1>1. PICK b, m : b = Task("book", ReportOf(runs)) /\ m = Task("metric", OtherOf(runs))
  OBVIOUS
<1>2. runs \in Nat
  BY DEF IInv, SendInv
<1>3. Fresh(b) /\ Fresh(m)
  BY <1>1 DEF Fresh, Slots
<1>4. Apart(b, m)
  BY <1>1, <1>2, Numbers DEF Apart, Task
<1>5. {} \in SUBSET Coins /\ FALSE \in BOOLEAN /\ "public" \in Kinds \ {"none", "private"}
  BY DEF Kinds
<1>6. \E todo \in {<<b>>, <<b, m>>} : Starts("public", {}, FALSE, todo)
  <2>1. <<b>> \o <<m>> = <<b, m>> /\ <<b>> \o <<>> = <<b>>
    BY JoinTasks
  <2>2. Starts("public", {}, FALSE, <<b>> \o (IF metric THEN <<m>> ELSE <<>>))
    BY <1>1 DEF public_ws_handler
  <2> QED
    BY <2>1, <2>2
<1>7. \A todo \in {<<b>>, <<b, m>>} : OfRun(todo, runs + 1) /\ InTurn(todo) /\ todo # <<>>
  BY <1>2, <1>3, <1>4, RunOfOne, RunOfTwo
<1> QED
  BY <1>5, <1>6, <1>7, StartedOther DEF public_ws_handler

LEMMA Inv_status_order_handler ==
  ASSUME IInv, NEW ok \in BOOLEAN, status_order_handler(ok)
  PROVE  IInv'
<1>1. PICK t, u, e : /\ t = Task("report_core", ReportOf(runs))
                     /\ u = Task("report_log", ReportOf(runs))
                     /\ e = Task("error", OtherOf(runs))
  OBVIOUS
<1>2. runs \in Nat
  BY DEF IInv, SendInv
<1>3. Fresh(t) /\ Fresh(u) /\ Fresh(e)
  BY <1>1 DEF Fresh, Slots
<1>4. Apart(t, u)
  <2>1. Reaches(t.slot) = {"order_status"} /\ Reaches(u.slot) = {"log"}
    BY <1>1 DEF Task, Reaches, ChannelOf
  <2> QED
    BY <2>1 DEF Apart
<1>5. {} \in SUBSET Coins /\ FALSE \in BOOLEAN /\ "rest" \in Kinds \ {"none", "private"}
  BY DEF Kinds
<1>6. \E todo \in {<<t, u>>, <<e>>} : Starts("rest", {}, FALSE, todo)
  BY <1>1 DEF status_order_handler
<1>7. \A todo \in {<<t, u>>, <<e>>} : OfRun(todo, runs + 1) /\ InTurn(todo) /\ todo # <<>>
  BY <1>2, <1>3, <1>4, RunOfOne, RunOfTwo
<1> QED
  BY <1>5, <1>6, <1>7, StartedOther DEF status_order_handler

-----------------------------------------------------------------------------
(* The other steps *)

\* A larger wallet fits no better.
LEMMA MoreCoins ==
  ASSUME NEW S \in SUBSET Coins, NEW T \in SUBSET S, Cardinality(T) > CoinsFit
  PROVE  Cardinality(S) > CoinsFit
<1>1. IsFiniteSet(S)
  BY FS_Subset, ReportsAssumption
<1>2. Cardinality(T) <= Cardinality(S) /\ IsFiniteSet(T)
  BY <1>1, FS_Subset
<1>3. Cardinality(T) \in Nat /\ Cardinality(S) \in Nat
  BY <1>1, <1>2, FS_CardinalityType
<1> QED
  BY <1>2, <1>3, ReportsAssumption

LEMMA SendUnchanged ==
  ASSUME SendInv, UNCHANGED <<runs, sendVars>>
  PROVE  SendInv'
<1>1. \A n, c : Behind(n, c) => Behind(n, c)'
  BY DEF Behind, sendVars
<1>2. \A c \in AeronChannels :
        (History(got[c]))' /\ \A k \in 1..Len(got'[c]) : (Behind(got[c][k].n, c))'
  BY <1>1 DEF SendInv, History, sendVars
<1>3. \A e \in errors : Behind(e.n, ChannelOf(e.slot))'
  BY <1>1 DEF SendInv
<1> QED
  BY <1>2, <1>3 DEF SendInv, sendVars

LEMMA Inv_fill ==
  ASSUME IInv, NEW coin \in Coins, fill(coin)
  PROVE  IInv'
<1> USE DEF IInv, fill, sendVars
<1>1. wallet \in Nat /\ wallet' = wallet + 1 /\ wallet' \in 0..MaxWallet /\ held' \subseteq Coins
  BY ReportsAssumption DEF HandlerInv
<1>2. SendInv'
  BY SendUnchanged
<1>3. LossInv'
  BY DEF LossInv, Delivered, Blamed
<1>4. BalanceInv'
  BY DEF BalanceInv
<1>5. HandlerInv'
  BY <1>1 DEF HandlerInv
<1>6. FollowInv'
  <2>1. IsSequence(updates') /\ \A i \in 1..Len(updates') : updates'[i] \in 0..wallet'
    <3>1. CASE updates' = updates
      BY <1>1, <3>1 DEF FollowInv
    <3>2. CASE updates' = Append(updates, wallet')
      <4>1. /\ IsSequence(updates') /\ Len(updates') = Len(updates) + 1 /\ Len(updates) \in Nat
            /\ \A i \in 1..Len(updates) : updates'[i] = updates[i]
            /\ updates'[Len(updates) + 1] = wallet'
        BY <3>2, AppendSequence DEF FollowInv, IsSequence
      <4>2. \A i \in 1..Len(updates') : i \in 1..Len(updates) \/ i = Len(updates) + 1
        BY <4>1
      <4> QED
        BY <1>1, <4>1, <4>2 DEF FollowInv
    <3> QED
      BY <3>1, <3>2
  <2>2. \A u \in seen :
           /\ u.run \in Nat /\ u.run < runs' /\ u.wallet \in 0..wallet'
           /\ \/ u.run \in excused'
              \/ Task("balance_core", BalanceOf(u.run)) \in Blamed'
              \/ Underway(u)'
    <3>1. Blamed' = Blamed
      BY DEF Blamed
    <3>2. \A u : Underway(u) => Underway(u)'
      BY DEF Underway, Delivered
    <3> QED
      BY <1>1, <3>1, <3>2 DEF FollowInv
  <2> QED
    BY <2>1, <2>2 DEF FollowInv
<1>7. OnlyOwnAssetsDeafen'
  <2> SUFFICES ASSUME link' = "deaf" PROVE Cardinality(held' \cup Assets) > CoinsFit
    BY DEF OnlyOwnAssetsDeafen
  <2>1. Cardinality(held \cup Assets) > CoinsFit
    BY DEF OnlyOwnAssetsDeafen
  <2>2. held' \cup Assets \in SUBSET Coins /\ held \cup Assets \in SUBSET (held' \cup Assets)
    BY <1>1, ReportsAssumption
  <2> QED
    BY <2>1, <2>2, MoreCoins
<1> QED
  BY <1>2, <1>3, <1>4, <1>5, <1>6, <1>7

\* The first task, and where the others are once it is done.
LEMMA FirstTask ==
  ASSUME SendInv, tasks # <<>>
  PROVE  /\ 1 \in 1..Len(tasks) /\ Head(tasks) = tasks[1] /\ runs \in Nat \ {0}
         /\ \A i \in 1..Len(tasks) : /\ tasks[i] = Task(tasks[i].slot, tasks[i].n)
                                     /\ tasks[i].slot \in Slots \cup {"ask"}
                                     /\ tasks[i].n \in Nat
                                     /\ 3 * runs < tasks[i].n + 3 /\ tasks[i].n <= 3 * runs
                                     /\ RunOf(tasks[i].n) = runs - 1
         /\ \A i \in 1..Len(tasks) :
              i = 1 \/ (i - 1 \in 1..Len(Tail(tasks)) /\ Tail(tasks)[i - 1] = tasks[i])
<1>1. Len(tasks) \in Nat \ {0} /\ runs \in Nat \ {0}
  BY RestOfTasks DEF SendInv
<1>2. \A i \in 1..Len(tasks) : /\ tasks[i] = Task(tasks[i].slot, tasks[i].n)
                               /\ tasks[i].slot \in Slots \cup {"ask"}
                               /\ tasks[i].n \in Nat
                               /\ 3 * runs < tasks[i].n + 3 /\ tasks[i].n <= 3 * runs
  BY DEF SendInv, OfRun
<1>3. \A i \in 1..Len(tasks) : RunOf(tasks[i].n) = runs - 1
  <2> SUFFICES ASSUME NEW i \in 1..Len(tasks) PROVE RunOf(tasks[i].n) = runs - 1
    OBVIOUS
  <2>1. PICK r, n : r = runs - 1 /\ n = tasks[i].n
    OBVIOUS
  <2>2. r \in Nat /\ n \in Nat /\ 3 * r < n /\ n <= 3 * (r + 1)
    BY <1>1, <1>2, <2>1
  <2> QED
    BY <2>1, <2>2, RunsOfNumbers
<1>4. \A i \in 1..Len(tasks) :
              i = 1 \/ (i - 1 \in 1..Len(Tail(tasks)) /\ Tail(tasks)[i - 1] = tasks[i])
  BY <1>1, RestOfTasks
<1> QED
  BY <1>1, <1>2, <1>3, <1>4, RestOfTasks

LEMMA RunOfBalance == \A r \in Nat : RunOf(BalanceOf(r)) = r
BY Numbers, RunsOfNumbers

\* Who has the thread after a step of the handler.
LEMMA HandlerGoesOn ==
  ASSUME HandlerInv, tasks # <<>>, Continues
  PROVE  /\ handler' \in [kind : Kinds, assets : SUBSET Coins, long : BOOLEAN]
         /\ (tasks' # <<>>) = (handler'.kind # "none")
         /\ handler'.kind = "private" => handler'.assets = Assets /\ ~handler'.long
         /\ tasks' # <<>> => handler' = handler
<1>1. CASE tasks' = <<>>
  BY <1>1 DEF Continues, Idle, Kinds
<1>2. CASE tasks' # <<>>
  BY <1>2 DEF Continues, HandlerInv
<1> QED
  BY <1>1, <1>2

LEMMA Inv_unanswered ==
  ASSUME IInv, NEW answered \in BOOLEAN, check_balances(answered), ~(answered /\ held # {})
  PROVE  IInv'
<1>1. /\ tasks # <<>> /\ Head(tasks).slot = "ask" /\ tasks' = Tail(tasks)
      /\ excused' = excused \cup {RunOf(Head(tasks).n)} /\ Continues
      /\ UNCHANGED <<balances, queued, got, prev, errors, wallet, held, updates, link, alive,
                     runs, seen, unlucky>>
  BY DEF check_balances
<1> USE DEF IInv
<1>2. SendInv'
  BY <1>1, RestOfTasks, SendGoesOn
<1>3. HandlerInv'
  BY <1>1, HandlerGoesOn DEF HandlerInv
<1>4. LossInv'
  <2> SUFFICES ASSUME NEW t \in queued
               PROVE  /\ t.slot \in Slots /\ t.n \in Nat
                      /\ \/ Delivered(t)' \/ t \in Blamed' \/ \E i \in 1..Len(tasks') : tasks'[i] = t
                         \/ t.slot = "copy" \/ RunOf(t.n) \in excused'
    BY <1>1, Zenon DEF LossInv
  <2>1. Blamed' = Blamed /\ (Delivered(t) => Delivered(t)')
    BY <1>1 DEF Blamed, Delivered
  <2>2. t.slot \in Slots /\ t.slot # "ask" /\ t.n \in Nat
    BY ChannelType DEF LossInv
  <2>3. (\E i \in 1..Len(tasks) : tasks[i] = t) => \E i \in 1..Len(tasks') : tasks'[i] = t
    BY <1>1, <2>2, FirstTask
  <2> QED
    BY <1>1, <2>1, <2>2, <2>3 DEF LossInv
<1>5. BalanceInv'
  BY <1>1, HandlerGoesOn DEF BalanceInv
<1>6. FollowInv'
  <2> SUFFICES ASSUME NEW u \in seen
               PROVE  \/ u.run \in excused'
                      \/ Task("balance_core", BalanceOf(u.run)) \in Blamed'
                      \/ Underway(u)'
    BY <1>1 DEF FollowInv
  <2>1. Blamed' = Blamed
    BY <1>1 DEF Blamed
  <2>2. ASSUME Underway(u) PROVE u.run \in excused' \/ Underway(u)'
    <3>1. CASE \E i \in 1..Len(tasks) : tasks[i] = Task("ask", BalanceOf(u.run))
      <4>1. PICK i \in 1..Len(tasks) : tasks[i] = Task("ask", BalanceOf(u.run))
        BY <3>1
      <4>2. CASE i = 1
        <5>1. u.run \in Nat /\ Head(tasks).n = BalanceOf(u.run)
          BY <1>1, <4>1, <4>2, FirstTask, NumberOfTask DEF FollowInv
        <5> QED
          BY <1>1, <5>1, RunOfBalance
      <4>3. CASE i # 1
        <5>1. i - 1 \in 1..Len(tasks') /\ tasks'[i - 1] = Task("ask", BalanceOf(u.run))
          BY <1>1, <4>1, <4>3, FirstTask
        <5> QED
          BY <5>1 DEF Underway
      <4> QED
        BY <4>2, <4>3
    <3>2. CASE \E b \in balances :
                 /\ b.n = BalanceOf(u.run) /\ b.wallet >= u.wallet
                 /\ \/ Delivered(Task("balance_core", b.n))
                    \/ \E i \in 1..Len(tasks) : tasks[i] = Task("balance_core", b.n)
      <4>1. PICK b \in balances : /\ b.n = BalanceOf(u.run) /\ b.wallet >= u.wallet
                                  /\ \/ Delivered(Task("balance_core", b.n))
                                     \/ \E i \in 1..Len(tasks) : tasks[i] = Task("balance_core", b.n)
        BY <3>2
      <4>2. Delivered(Task("balance_core", b.n)) => Delivered(Task("balance_core", b.n))'
        BY <1>1 DEF Delivered
      <4>3. tasks[1] # Task("balance_core", b.n)
        BY <1>1, FirstTask, NumberOfTask
      <4>4. \A i \in 1..Len(tasks) : tasks[i] = Task("balance_core", b.n) =>
              i - 1 \in 1..Len(tasks') /\ tasks'[i - 1] = Task("balance_core", b.n)
        BY <1>1, <4>3, FirstTask
      <4>5. \/ Delivered(Task("balance_core", b.n))'
            \/ \E i \in 1..Len(tasks') : tasks'[i] = Task("balance_core", b.n)
        BY <4>1, <4>2, <4>4
      <4> QED
        BY <1>1, <4>1, <4>5 DEF Underway
    <3> QED
      BY <2>2, <3>1, <3>2 DEF Underway
  <2> QED
    BY <1>1, <2>1, <2>2 DEF FollowInv
<1>7. OnlyOwnAssetsDeafen'
  BY <1>1 DEF OnlyOwnAssetsDeafen
<1> QED
  BY <1>2, <1>3, <1>4, <1>5, <1>6, <1>7

\* The question for balances becomes a message to the core and one to the log server.
AskedTasks(n, s) ==
  /\ OfRun(s, runs) /\ InTurn(s) /\ s # <<>>
  /\ Len(s) = Len(tasks) + 1 /\ Len(tasks) \in Nat
  /\ s[1] = Task("balance_core", n) /\ s[2] = Task("balance_log", n)
  /\ \A i \in 2..Len(tasks) : s[i + 1] = tasks[i]
  /\ \A i \in 1..Len(s) : \E j \in 1..Len(tasks) :
       s[i].n = tasks[j].n /\ Reaches(s[i].slot) \subseteq Reaches(tasks[j].slot)

LEMMA AskBecomesTwo ==
  ASSUME SendInv, tasks # <<>>, tasks[1].slot = "ask"
  PROVE  \A n, s : n = tasks[1].n /\ s = <<Task("balance_core", n), Task("balance_log", n)>> \o Tail(tasks)
                  => AskedTasks(n, s)
<1> SUFFICES ASSUME NEW n, n = tasks[1].n,
                    NEW s, s = <<Task("balance_core", n), Task("balance_log", n)>> \o Tail(tasks)
             PROVE  AskedTasks(n, s)
  OBVIOUS
<1>1. PICK b, l : b = Task("balance_core", n) /\ l = Task("balance_log", n)
  OBVIOUS
<1>2. /\ IsSequence(Tail(tasks)) /\ Len(Tail(tasks)) = Len(tasks) - 1 /\ Len(tasks) \in Nat \ {0}
      /\ \A i \in 1..Len(Tail(tasks)) : Tail(tasks)[i] = tasks[i + 1]
  BY RestOfTasks
<1>3. IsSequence(<<b, l>>) /\ Len(<<b, l>>) = 2 /\ <<b, l>>[1] = b /\ <<b, l>>[2] = l
  BY TwoTasks
<1>4. s = <<b, l>> \o Tail(tasks)
  BY <1>1
<1>5. /\ IsSequence(s) /\ Len(s) = 2 + (Len(tasks) - 1)
      /\ \A i \in 1..2 : s[i] = <<b, l>>[i]
      /\ \A i \in 3..(2 + (Len(tasks) - 1)) : s[i] = Tail(tasks)[i - 2]
  <2>1. PICK p, q : p = <<b, l>> /\ q = Tail(tasks)
    OBVIOUS
  <2>2. IsSequence(p) /\ IsSequence(q) /\ Len(p) = 2 /\ Len(q) = Len(tasks) - 1 /\ s = p \o q
    BY <1>2, <1>3, <1>4, <2>1
  <2>3. /\ IsSequence(p \o q) /\ Len(p \o q) = Len(p) + Len(q)
        /\ \A i \in 1..Len(p) : (p \o q)[i] = p[i]
        /\ \A i \in (Len(p) + 1)..(Len(p) + Len(q)) : (p \o q)[i] = q[i - Len(p)]
    BY <2>2, ConcatSequence
  <2>4. \A i : i \in 1..2 => i \in 1..Len(p)
    BY <2>2
  <2>5. \A i : i \in 3..(2 + (Len(tasks) - 1)) => i \in (Len(p) + 1)..(Len(p) + Len(q)) /\ i - Len(p) = i - 2
    BY <1>2, <2>2
  <2> QED
    BY <2>1, <2>2, <2>3, <2>4, <2>5
<1>6. Len(s) = Len(tasks) + 1 /\ s[1] = b /\ s[2] = l
  BY <1>2, <1>3, <1>5
<1>7. \A i \in 2..Len(tasks) : s[i + 1] = tasks[i]
  <2> SUFFICES ASSUME NEW i \in 2..Len(tasks) PROVE s[i + 1] = tasks[i]
    OBVIOUS
  <2>1. PICK k : k = i + 1
    OBVIOUS
  <2>2. k \in 3..(2 + (Len(tasks) - 1)) /\ k - 2 = i - 1 /\ i - 1 \in 1..Len(Tail(tasks)) /\ (i - 1) + 1 = i
    BY <1>2, <2>1
  <2>3. s[k] = Tail(tasks)[i - 1] /\ Tail(tasks)[i - 1] = tasks[i]
    BY <1>2, <1>5, <2>2
  <2> QED
    BY <2>1, <2>3
<1>8. \A i \in 1..Len(s) : i = 1 \/ i = 2 \/ (i - 1 \in 2..Len(tasks) /\ s[i] = tasks[i - 1])
  <2> SUFFICES ASSUME NEW i \in 1..Len(s), i # 1, i # 2
               PROVE  i - 1 \in 2..Len(tasks) /\ s[i] = tasks[i - 1]
    OBVIOUS
  <2>1. i - 1 \in 2..Len(tasks) /\ (i - 1) + 1 = i
    BY <1>2, <1>6
  <2> QED
    BY <1>7, <2>1
<1>9. /\ Reaches(b.slot) = {"balance"} /\ Reaches(l.slot) = {"log"} /\ b.n = n /\ l.n = n
      /\ b.slot \in Slots /\ l.slot \in Slots
      /\ b = Task(b.slot, b.n) /\ l = Task(l.slot, l.n)
  BY <1>1 DEF Reaches, ChannelOf, Task, Slots
<1>10. Reaches(tasks[1].slot) = {"balance", "log"}
  BY DEF Reaches
<1>11. OfRun(s, runs)
  <2>1. n \in Nat /\ 3 * runs < n + 3 /\ n <= 3 * runs
    BY FirstTask
  <2> QED
    <3>1. \A i \in 1..Len(s) :
            /\ s[i] = Task(s[i].slot, s[i].n) /\ s[i].slot \in Slots \cup {"ask"}
            /\ s[i].n \in Nat /\ 3 * runs < s[i].n + 3 /\ s[i].n <= 3 * runs
      <4> SUFFICES ASSUME NEW i \in 1..Len(s)
                   PROVE  /\ s[i] = Task(s[i].slot, s[i].n) /\ s[i].slot \in Slots \cup {"ask"}
                          /\ s[i].n \in Nat /\ 3 * runs < s[i].n + 3 /\ s[i].n <= 3 * runs
        OBVIOUS
      <4>1. CASE i = 1 \/ i = 2
        BY <1>6, <1>9, <2>1, <4>1
      <4>2. CASE ~(i = 1 \/ i = 2)
        <5>1. i - 1 \in 1..Len(tasks) /\ s[i] = tasks[i - 1]
          BY <1>8, <4>2
        <5> QED
          BY <5>1, FirstTask
      <4> QED
        BY <4>1, <4>2
    <3> QED
      BY <1>5, <3>1 DEF OfRun
<1>12. InTurn(s)
  <2> SUFFICES ASSUME NEW i \in 1..Len(s), NEW j \in 1..Len(s), i < j,
                      Reaches(s[i].slot) \cap Reaches(s[j].slot) # {}
               PROVE  s[i].n < s[j].n
    BY DEF InTurn
  <2>1. CASE j = 2
    <3>1. i = 1
      BY <2>1
    <3> QED
      BY <1>6, <1>9, <2>1, <3>1
  <2>2. CASE j # 2
    <3>1. j # 1 /\ j - 1 \in 2..Len(tasks) /\ s[j] = tasks[j - 1]
      BY <1>8, <2>2
    <3>2. CASE i = 1 \/ i = 2
      <4>1. s[i].n = tasks[1].n /\ Reaches(s[i].slot) \subseteq Reaches(tasks[1].slot)
        BY <1>6, <1>9, <1>10, <3>2
      <4>2. Reaches(tasks[1].slot) \cap Reaches(tasks[j - 1].slot) # {}
        BY <3>1, <4>1
      <4>3. 1 \in 1..Len(tasks) /\ j - 1 \in 1..Len(tasks) /\ 1 < j - 1
        BY <1>2, <3>1
      <4>4. tasks[1].n < tasks[j - 1].n
        BY <4>2, <4>3 DEF SendInv, InTurn
      <4> QED
        BY <3>1, <4>1, <4>4
    <3>3. CASE ~(i = 1 \/ i = 2)
      <4>1. i - 1 \in 2..Len(tasks) /\ s[i] = tasks[i - 1]
        BY <1>8, <3>3
      <4>2. i - 1 \in 1..Len(tasks) /\ j - 1 \in 1..Len(tasks) /\ i - 1 < j - 1
        BY <3>1, <4>1
      <4> QED
        BY <3>1, <4>1, <4>2 DEF SendInv, InTurn
    <3> QED
      BY <3>2, <3>3
  <2> QED
    BY <2>1, <2>2
<1>13. \A i \in 1..Len(s) : \E j \in 1..Len(tasks) :
              s[i].n = tasks[j].n /\ Reaches(s[i].slot) \subseteq Reaches(tasks[j].slot)
  <2> SUFFICES ASSUME NEW i \in 1..Len(s)
               PROVE  \E j \in 1..Len(tasks) :
                        s[i].n = tasks[j].n /\ Reaches(s[i].slot) \subseteq Reaches(tasks[j].slot)
    OBVIOUS
  <2>1. CASE i = 1 \/ i = 2
    BY <1>2, <1>6, <1>9, <1>10, <2>1
  <2>2. CASE ~(i = 1 \/ i = 2)
    <3>1. i - 1 \in 1..Len(tasks) /\ s[i] = tasks[i - 1]
      BY <1>8, <2>2
    <3> QED
      BY <3>1
  <2> QED
    BY <2>1, <2>2
<1>14. s # <<>>
  BY <1>2, <1>6
<1> QED
  BY <1>1, <1>2, <1>6, <1>7, <1>11, <1>12, <1>13, <1>14 DEF AskedTasks

LEMMA Inv_answered ==
  ASSUME IInv, NEW answered \in BOOLEAN, check_balances(answered), answered /\ held # {}
  PROVE  IInv'
<1>0. PICK n, a : /\ n = Head(tasks).n
                  /\ a = [n |-> n, wallet |-> wallet, listed |-> held,
                          zero |-> Missing(handler.assets, held)]
  OBVIOUS
<1>1. /\ tasks # <<>> /\ Head(tasks).slot = "ask"
      /\ tasks' = <<Task("balance_core", n), Task("balance_log", n)>> \o Tail(tasks)
      /\ balances' = balances \cup {a}
      /\ queued' = queued \cup {Task("balance_core", n), Task("balance_log", n)}
      /\ excused' = excused /\ Continues
      /\ UNCHANGED <<got, prev, errors, wallet, held, updates, link, alive,
                     runs, seen, unlucky>>
  BY <1>0 DEF check_balances
<1> USE DEF IInv
<1>2. /\ 1 \in 1..Len(tasks) /\ Head(tasks) = tasks[1] /\ n = tasks[1].n /\ n \in Nat
      /\ 3 * runs < n + 3 /\ n <= 3 * runs
  BY <1>0, <1>1, FirstTask
<1>3. /\ OfRun(tasks', runs) /\ InTurn(tasks') /\ tasks' # <<>>
      /\ Len(tasks') = Len(tasks) + 1 /\ Len(tasks) \in Nat
      /\ tasks'[1] = Task("balance_core", n) /\ tasks'[2] = Task("balance_log", n)
      /\ \A i \in 2..Len(tasks) : tasks'[i + 1] = tasks[i]
      /\ \A i \in 1..Len(tasks') : \E j \in 1..Len(tasks) :
           tasks'[i].n = tasks[j].n /\ Reaches(tasks'[i].slot) \subseteq Reaches(tasks[j].slot)
  <2>1. PICK s : s = tasks'
    OBVIOUS
  <2>2. AskedTasks(n, s)
    BY <1>1, <1>2, <2>1, AskBecomesTwo
  <2> QED
    BY <2>1, <2>2 DEF AskedTasks
<1>4. SendInv'
  BY <1>1, <1>3, SendGoesOn
<1>5. HandlerInv' /\ handler' = handler
  BY <1>1, <1>3, HandlerGoesOn DEF HandlerInv
\* Every other task is still there.
<1>6. \A t : (\E i \in 1..Len(tasks) : tasks[i] = t) /\ t # tasks[1]
             => \E i \in 1..Len(tasks') : tasks'[i] = t
  <2> SUFFICES ASSUME NEW i \in 1..Len(tasks), tasks[i] # tasks[1]
               PROVE  \E j \in 1..Len(tasks') : tasks'[j] = tasks[i]
    OBVIOUS
  <2>1. i \in 2..Len(tasks) /\ i + 1 \in 1..Len(tasks')
    BY <1>3
  <2> QED
    BY <1>3, <2>1
<1>7. Blamed' = Blamed /\ \A t : Delivered(t) => Delivered(t)'
  BY <1>1 DEF Blamed, Delivered
<1>8. LossInv'
  <2> SUFFICES ASSUME NEW t \in queued'
               PROVE  /\ t.slot \in Slots /\ t.n \in Nat
                      /\ \/ Delivered(t)' \/ t \in Blamed' \/ \E i \in 1..Len(tasks') : tasks'[i] = t
                         \/ t.slot = "copy" \/ RunOf(t.n) \in excused'
    BY Zenon DEF LossInv
  <2>1. CASE t \in queued
    <3>1. t.slot \in Slots /\ t.slot # "ask" /\ t.n \in Nat
      BY <2>1, ChannelType DEF LossInv
    <3>2. t # tasks[1]
      BY <1>1, <1>2, <3>1
    <3> QED
      BY <1>1, <1>6, <1>7, <2>1, <3>1, <3>2 DEF LossInv
  <2>2. CASE t = Task("balance_core", n) \/ t = Task("balance_log", n)
    <3>1. 1 \in 1..Len(tasks') /\ 2 \in 1..Len(tasks')
      BY <1>2, <1>3
    <3>2. t.slot \in Slots /\ t.n \in Nat
      BY <1>2, <2>2, NumberOfTask DEF Slots
    <3> QED
      BY <1>3, <2>2, <3>1, <3>2
  <2> QED
    BY <1>1, <2>1, <2>2
<1>9. /\ a.n = n /\ a.wallet = wallet /\ a.listed = held /\ a.zero = handler.assets \ held
  BY <1>0 DEF Missing
<1>10. BalanceInv'
  <2>1. /\ a.n \in Nat /\ a.wallet \in Nat
        /\ a.listed \subseteq held /\ a.zero \subseteq Coins /\ a.listed \cap a.zero = {}
        /\ a.n <= 3 * runs /\ a.zero \subseteq handler.assets
    BY <1>2, <1>9, ReportsAssumption DEF HandlerInv
  <2> QED
    BY <1>1, <1>5, <2>1 DEF BalanceInv
<1>11. FollowInv'
  <2> SUFFICES ASSUME NEW u \in seen
               PROVE  \/ u.run \in excused'
                      \/ Task("balance_core", BalanceOf(u.run)) \in Blamed'
                      \/ Underway(u)'
    BY <1>1 DEF FollowInv
  <2>1. ASSUME Underway(u) PROVE Underway(u)'
    <3>1. CASE \E i \in 1..Len(tasks) : tasks[i] = Task("ask", BalanceOf(u.run))
      <4>1. PICK i \in 1..Len(tasks) : tasks[i] = Task("ask", BalanceOf(u.run))
        BY <3>1
      <4>2. CASE tasks[i] = tasks[1]
        <5>1. n = BalanceOf(u.run)
          BY <1>2, <4>1, <4>2, NumberOfTask
        <5>2. a.n = BalanceOf(u.run) /\ a.wallet >= u.wallet /\ a \in balances'
          BY <1>1, <1>9, <5>1 DEF FollowInv, HandlerInv
        <5>3. 1 \in 1..Len(tasks') /\ tasks'[1] = Task("balance_core", a.n)
          BY <1>2, <1>3, <1>9
        <5> QED
          BY <5>2, <5>3 DEF Underway
      <4>3. CASE tasks[i] # tasks[1]
        <5>1. \E j \in 1..Len(tasks') : tasks'[j] = Task("ask", BalanceOf(u.run))
          BY <1>6, <4>1, <4>3
        <5> QED
          BY <5>1 DEF Underway
      <4> QED
        BY <4>2, <4>3
    <3>2. CASE \E b \in balances :
                 /\ b.n = BalanceOf(u.run) /\ b.wallet >= u.wallet
                 /\ \/ Delivered(Task("balance_core", b.n))
                    \/ \E i \in 1..Len(tasks) : tasks[i] = Task("balance_core", b.n)
      <4>1. PICK b \in balances : /\ b.n = BalanceOf(u.run) /\ b.wallet >= u.wallet
                                  /\ \/ Delivered(Task("balance_core", b.n))
                                     \/ \E i \in 1..Len(tasks) : tasks[i] = Task("balance_core", b.n)
        BY <3>2
      <4>2. tasks[1] # Task("balance_core", b.n)
        BY <1>1, <1>2, NumberOfTask
      <4>3. \/ Delivered(Task("balance_core", b.n))'
            \/ \E i \in 1..Len(tasks') : tasks'[i] = Task("balance_core", b.n)
        BY <1>6, <1>7, <4>1, <4>2
      <4> QED
        BY <1>1, <4>1, <4>3 DEF Underway
    <3> QED
      BY <2>1, <3>1, <3>2 DEF Underway
  <2> QED
    BY <1>1, <1>7, <2>1 DEF FollowInv
<1>12. OnlyOwnAssetsDeafen'
  BY <1>1 DEF OnlyOwnAssetsDeafen
<1> QED
  BY <1>4, <1>5, <1>8, <1>10, <1>11, <1>12

\* What an offer leaves of the first task.
LEMMA SentOrBlamed ==
  ASSUME SendInv, NEW outcome \in Outcomes, send(outcome)
  PROVE  /\ tasks # <<>> /\ tasks' = Tail(tasks) /\ tasks[1].slot \in Slots
         /\ \A t : Delivered(t) => Delivered(t)'
         /\ Blamed \subseteq Blamed'
         /\ \A t : t = tasks[1] => Delivered(t)' \/ t \in Blamed' \/ t.slot = "copy"
<1>0. PICK t, d, h, m, g : /\ t = Head(tasks) /\ d = ChannelOf(t.slot) /\ h = got[d]
                           /\ m = Task(t.slot, t.n)
                           /\ g = Append(h, m)
  OBVIOUS
<1>1. /\ tasks # <<>> /\ tasks' = Tail(tasks) /\ t.slot \in Slots
      /\ got' = IF outcome \in Sent THEN [got EXCEPT ![d] = Append(@, m)] ELSE got
      /\ errors' = IF Blames(t.slot, outcome) THEN errors \cup {Entry(t.slot, t.n)} ELSE errors
  BY <1>0, Zenon DEF send
<1>2. /\ t = tasks[1] /\ t = Task(t.slot, t.n) /\ DOMAIN got = AeronChannels /\ d \in AeronChannels
      /\ IsSequence(h)
  BY <1>0, <1>1, FirstTask, ChannelType DEF SendInv, History
<1>3. /\ IsSequence(g) /\ Len(g) = Len(h) + 1 /\ Len(h) \in Nat
      /\ \A k \in 1..Len(h) : g[k] = h[k]
      /\ g[Len(h) + 1] = m
  BY <1>0, <1>2, AppendSequence DEF IsSequence
<1>4. DOMAIN h = 1..Len(h) /\ DOMAIN g = 1..Len(g)
  BY <1>2, <1>3, SequenceOfElements
<1>5. \A x : Delivered(x) => Delivered(x)'
  <2> SUFFICES ASSUME NEW x, Delivered(x) PROVE Delivered(x)'
    OBVIOUS
  <2>1. PICK k \in DOMAIN got[ChannelOf(x.slot)] :
          got[ChannelOf(x.slot)][k].slot = x.slot /\ got[ChannelOf(x.slot)][k].n = x.n
    BY DEF Delivered
  <2>2. CASE outcome \in Sent /\ ChannelOf(x.slot) = d
    <3>1. got'[d] = g
      BY <1>0, <1>1, <1>2, <2>2
    <3>2. k \in DOMAIN g /\ g[k] = h[k]
      BY <1>0, <1>3, <1>4, <2>1, <2>2
    <3> QED
      BY <1>0, <2>1, <2>2, <3>1, <3>2 DEF Delivered
  <2>3. CASE ~(outcome \in Sent /\ ChannelOf(x.slot) = d)
    <3>1. got'[ChannelOf(x.slot)] = got[ChannelOf(x.slot)]
      BY <1>1, <1>2, <2>3, ChannelType
    <3> QED
      BY <2>1, <3>1 DEF Delivered
  <2> QED
    BY <2>2, <2>3
<1>6. Blamed \subseteq Blamed'
  BY <1>1 DEF Blamed
<1>7. Delivered(t)' \/ t \in Blamed' \/ t.slot = "copy"
  <2>1. CASE outcome \in Sent
    <3>1. got'[d] = g
      BY <1>0, <1>1, <1>2, <2>1
    <3>2. Len(h) + 1 \in DOMAIN g /\ g[Len(h) + 1].slot = t.slot /\ g[Len(h) + 1].n = t.n
      BY <1>0, <1>3, <1>4 DEF Task
    <3> QED
      BY <1>0, <3>1, <3>2 DEF Delivered
  <2>2. CASE outcome \notin Sent /\ t.slot # "copy"
    <3>1. errors' = errors \cup {Entry(t.slot, t.n)}
      BY <1>1, <2>2 DEF Blames
    <3>2. PICK e : e = Entry(t.slot, t.n)
      OBVIOUS
    <3>3. e \in errors' /\ e.slot = t.slot /\ e.n = t.n
      BY <3>1, <3>2 DEF Entry
    <3>4. Task(e.slot, e.n) = t
      BY <1>2, <3>3
    <3> QED
      BY <3>3, <3>4 DEF Blamed
  <2> QED
    BY <2>1, <2>2
<1>8. \A x : x = tasks[1] => Delivered(x)' \/ x \in Blamed' \/ x.slot = "copy"
  BY <1>2, <1>7, Zenon
<1> QED
  BY <1>1, <1>2, <1>5, <1>6, <1>8

LEMMA Inv_sends ==
  ASSUME IInv, NEW outcome \in Outcomes, sends(outcome)
  PROVE  IInv'
<1> USE DEF IInv
<1>1. /\ send(outcome) /\ Continues
      /\ unlucky < MaxLost \/ outcome = "first"
      /\ unlucky' = IF outcome = "first" THEN unlucky ELSE unlucky + 1
      /\ UNCHANGED <<wallet, held, updates, link, alive, runs, balances, queued,
                     excused, seen>>
  BY DEF sends
<1>2. PICK t : t = tasks[1]
  OBVIOUS
<1>3. /\ tasks # <<>> /\ tasks' = Tail(tasks) /\ t.slot \in Slots
      /\ \A x : Delivered(x) => Delivered(x)'
      /\ Blamed \subseteq Blamed'
      /\ Delivered(t)' \/ t \in Blamed' \/ t.slot = "copy"
  BY <1>1, <1>2, SentOrBlamed
<1>4. SendInv'
  <2>1. CASE outcome \in Sent
    BY <1>1, <2>1, SendGives
  <2>2. CASE outcome \notin Sent
    BY <1>1, <2>2, SendLoses
  <2> QED
    BY <2>1, <2>2
<1>5. HandlerInv'
  <2>1. unlucky' \in 0..MaxLost
    BY <1>1, ReportsAssumption DEF HandlerInv
  <2> QED
    BY <1>1, <1>3, <2>1, HandlerGoesOn DEF HandlerInv
\* Every other task is still there.
<1>6. \A x : (\E i \in 1..Len(tasks) : tasks[i] = x) /\ x # t
             => \E i \in 1..Len(tasks') : tasks'[i] = x
  <2> SUFFICES ASSUME NEW i \in 1..Len(tasks), tasks[i] # t
               PROVE  \E j \in 1..Len(tasks') : tasks'[j] = tasks[i]
    OBVIOUS
  <2>1. i # 1
    BY <1>2
  <2> QED
    BY <1>3, <2>1, FirstTask
<1>7. LossInv'
  BY <1>1, <1>3, <1>6 DEF LossInv
<1>8. BalanceInv'
  BY <1>1, <1>3, HandlerGoesOn DEF BalanceInv
<1>9. FollowInv'
  <2> SUFFICES ASSUME NEW u \in seen
               PROVE  \/ u.run \in excused'
                      \/ Task("balance_core", BalanceOf(u.run)) \in Blamed'
                      \/ Underway(u)'
    BY <1>1 DEF FollowInv
  <2>1. ASSUME Underway(u)
        PROVE  Task("balance_core", BalanceOf(u.run)) \in Blamed' \/ Underway(u)'
    <3>1. CASE \E i \in 1..Len(tasks) : tasks[i] = Task("ask", BalanceOf(u.run))
      <4>1. t # Task("ask", BalanceOf(u.run))
        BY <1>3, ChannelType, NumberOfTask
      <4>2. \E i \in 1..Len(tasks') : tasks'[i] = Task("ask", BalanceOf(u.run))
        BY <1>6, <3>1, <4>1
      <4> QED
        BY <4>2 DEF Underway
    <3>2. CASE \E b \in balances :
                 /\ b.n = BalanceOf(u.run) /\ b.wallet >= u.wallet
                 /\ \/ Delivered(Task("balance_core", b.n))
                    \/ \E i \in 1..Len(tasks) : tasks[i] = Task("balance_core", b.n)
      <4>1. PICK b \in balances : /\ b.n = BalanceOf(u.run) /\ b.wallet >= u.wallet
                                  /\ \/ Delivered(Task("balance_core", b.n))
                                     \/ \E i \in 1..Len(tasks) : tasks[i] = Task("balance_core", b.n)
        BY <3>2
      <4>2. CASE t = Task("balance_core", b.n)
        <5>1. t.slot # "copy"
          BY <4>2, NumberOfTask
        <5>2. CASE Delivered(t)'
          <6>1. Delivered(Task("balance_core", b.n))'
            BY <4>2, <5>2
          <6> QED
            BY <1>1, <4>1, <6>1 DEF Underway
        <5>3. CASE t \in Blamed'
          BY <4>1, <4>2, <5>3
        <5> QED
          BY <1>3, <5>1, <5>2, <5>3
      <4>3. CASE t # Task("balance_core", b.n)
        <5>1. \/ Delivered(Task("balance_core", b.n))'
              \/ \E i \in 1..Len(tasks') : tasks'[i] = Task("balance_core", b.n)
          BY <1>3, <1>6, <4>1, <4>3
        <5> QED
          BY <1>1, <4>1, <5>1 DEF Underway
      <4> QED
        BY <4>2, <4>3
    <3> QED
      BY <2>1, <3>1, <3>2 DEF Underway
  <2> QED
    BY <1>1, <1>3, <2>1 DEF FollowInv
<1>10. OnlyOwnAssetsDeafen'
  BY <1>1 DEF OnlyOwnAssetsDeafen
<1> QED
  BY <1>4, <1>5, <1>7, <1>8, <1>9, <1>10

LEMMA Inv_throws ==
  ASSUME IInv, throws
  PROVE  IInv'
<1> USE DEF IInv
<1>1. /\ tasks # <<>> /\ Overlong(Head(tasks)) /\ tasks' = <<>>
      /\ link' = IF handler.kind = "private" THEN "deaf" ELSE link
      /\ alive' \in IF handler.kind = "poll" THEN BOOLEAN ELSE {TRUE}
      /\ excused' = excused \cup {RunOf(Head(tasks).n)} /\ Continues
      /\ UNCHANGED <<got, prev, errors, wallet, held, updates, runs, balances, queued,
                     seen, unlucky>>
  BY DEF throws
<1>2. PICK t : t = tasks[1]
  OBVIOUS
<1>3. /\ t = Head(tasks) /\ excused' = excused \cup {runs - 1}
      /\ t.n \in Nat /\ 3 * runs < t.n + 3
      /\ \A i \in 1..Len(tasks) : RunOf(tasks[i].n) = runs - 1
  BY <1>1, <1>2, FirstTask
<1>4. Len(tasks') = 0
  BY <1>1
<1>5. SendInv'
  <2>1. OfRun(tasks', runs) /\ InTurn(tasks')
    BY <1>1, NoTasks
  <2> QED
    BY <1>1, <1>4, <2>1, SendGoesOn
<1>6. HandlerInv'
  BY <1>1, HandlerGoesOn DEF HandlerInv
<1>7. Blamed' = Blamed /\ \A x : Delivered(x) => Delivered(x)'
  BY <1>1 DEF Blamed, Delivered
<1>8. LossInv'
  <2> SUFFICES ASSUME NEW x \in queued
               PROVE  /\ x.slot \in Slots /\ x.n \in Nat
                      /\ \/ Delivered(x)' \/ x \in Blamed'
                         \/ x.slot = "copy" \/ RunOf(x.n) \in excused'
    BY <1>1, Zenon DEF LossInv
  <2> QED
    BY <1>1, <1>3, <1>7 DEF LossInv
<1>9. BalanceInv'
  BY <1>1 DEF BalanceInv
<1>10. FollowInv'
  <2> SUFFICES ASSUME NEW u \in seen
               PROVE  \/ u.run \in excused'
                      \/ Task("balance_core", BalanceOf(u.run)) \in Blamed'
                      \/ Underway(u)'
    BY <1>1 DEF FollowInv
  <2>1. \A i \in 1..Len(tasks) : \A slot : tasks[i] = Task(slot, BalanceOf(u.run)) => u.run \in excused'
    <3> SUFFICES ASSUME NEW i \in 1..Len(tasks), NEW slot, tasks[i] = Task(slot, BalanceOf(u.run))
                 PROVE  u.run \in excused'
      OBVIOUS
    <3>1. tasks[i].n = BalanceOf(u.run) /\ u.run \in Nat
      BY NumberOfTask DEF FollowInv
    <3> QED
      BY <1>3, <3>1, RunOfBalance
  <2>2. ASSUME Underway(u) PROVE u.run \in excused' \/ Underway(u)'
    <3>1. CASE \E i \in 1..Len(tasks) : tasks[i] = Task("ask", BalanceOf(u.run))
      BY <2>1, <3>1
    <3>2. CASE \E b \in balances :
                 /\ b.n = BalanceOf(u.run) /\ b.wallet >= u.wallet
                 /\ \/ Delivered(Task("balance_core", b.n))
                    \/ \E i \in 1..Len(tasks) : tasks[i] = Task("balance_core", b.n)
      <4>1. PICK b \in balances : /\ b.n = BalanceOf(u.run) /\ b.wallet >= u.wallet
                                  /\ \/ Delivered(Task("balance_core", b.n))
                                     \/ \E i \in 1..Len(tasks) : tasks[i] = Task("balance_core", b.n)
        BY <3>2
      <4>2. CASE Delivered(Task("balance_core", b.n))
        BY <1>1, <1>7, <4>1, <4>2 DEF Underway
      <4>3. CASE \E i \in 1..Len(tasks) : tasks[i] = Task("balance_core", b.n)
        BY <2>1, <4>1, <4>3
      <4> QED
        BY <4>1, <4>2, <4>3
    <3> QED
      BY <2>2, <3>1, <3>2 DEF Underway
  <2> QED
    BY <1>1, <1>7, <2>2 DEF FollowInv
\* It was a message of balances, of what the exchange lists and the configured assets.
<1>11. OnlyOwnAssetsDeafen'
  <2>1. CASE handler.kind # "private"
    BY <1>1, <2>1 DEF OnlyOwnAssetsDeafen
  <2>2. CASE handler.kind = "private"
    <3>1. ~handler.long /\ handler.assets = Assets
      BY <2>2 DEF HandlerInv
    <3>2. PICK b \in balances : b.n = t.n /\ Cardinality(b.listed \cup b.zero) > CoinsFit
      BY <1>1, <1>3, <3>1 DEF Overlong
    <3>3. b.listed \subseteq held /\ b.zero \subseteq Assets
      BY <1>1, <1>3, <3>1, <3>2 DEF BalanceInv
    <3>4. held \cup Assets \in SUBSET Coins /\ b.listed \cup b.zero \in SUBSET (held \cup Assets)
      BY <3>3, ReportsAssumption DEF HandlerInv
    <3>5. Cardinality(held \cup Assets) > CoinsFit
      BY <3>2, <3>4, MoreCoins
    <3> QED
      BY <1>1, <3>5 DEF OnlyOwnAssetsDeafen
  <2> QED
    BY <2>1, <2>2
<1> QED
  BY <1>5, <1>6, <1>8, <1>9, <1>10, <1>11

-----------------------------------------------------------------------------
LEMMA InvInit == Init => IInv
BY SendInit, RestInit DEF IInv

LEMMA InvStep == IInv /\ [Next]_vars => IInv'
<1> SUFFICES ASSUME IInv, [Next]_vars PROVE IInv'
  OBVIOUS
<1>1. ASSUME NEW coin \in Coins, fill(coin) PROVE IInv'
  BY <1>1, Inv_fill
<1>2. ASSUME NEW answered \in BOOLEAN, check_balances(answered) PROVE IInv'
  <2>1. CASE answered /\ held # {}
    BY <1>2, <2>1, Inv_answered
  <2>2. CASE ~(answered /\ held # {})
    BY <1>2, <2>2, Inv_unanswered
  <2> QED
    BY <2>1, <2>2
<1>3. ASSUME NEW outcome \in Outcomes, sends(outcome) PROVE IInv'
  BY <1>3, Inv_sends
<1>4. CASE throws
  BY <1>4, Inv_throws
<1>5. ASSUME NEW c \in Commands, NEW failing \in BOOLEAN, aeron_handler(c, failing) PROVE IInv'
  BY <1>5, Inv_aeron_handler
<1>6. CASE private_ws_handler
  BY <1>6, Inv_private_ws_handler
<1>7. ASSUME NEW metric \in BOOLEAN, public_ws_handler(metric) PROVE IInv'
  BY <1>7, Inv_public_ws_handler
<1>8. ASSUME NEW ok \in BOOLEAN, status_order_handler(ok) PROVE IInv'
  BY <1>8, Inv_status_order_handler
<1>9. CASE UNCHANGED vars
  <2> USE <1>9 DEF vars, sendVars
  <2>1. SendInv'
    BY SendUnchanged DEF IInv
  <2>2. Blamed' = Blamed /\ \A t : Delivered(t) => Delivered(t)'
    BY DEF Blamed, Delivered
  <2>3. LossInv'
    BY <2>2 DEF IInv, LossInv
  <2>4. \A u : Underway(u) => Underway(u)'
    BY DEF Underway, Delivered
  <2>5. FollowInv'
    BY <2>2, <2>4 DEF IInv, FollowInv
  <2>6. BalanceInv' /\ HandlerInv' /\ OnlyOwnAssetsDeafen'
    BY DEF IInv, BalanceInv, HandlerInv, OnlyOwnAssetsDeafen
  <2> QED
    BY <2>1, <2>3, <2>5, <2>6 DEF IInv
<1> QED
  BY <1>1, <1>2, <1>3, <1>4, <1>5, <1>6, <1>7, <1>8, <1>9 DEF Next, Thread

LEMMA Invariant == Spec => []IInv
BY InvInit, InvStep, PTL DEF Spec

-----------------------------------------------------------------------------
(* Theorems *)

LEMMA TypeFromInv == IInv => TypeOK
<1> SUFFICES ASSUME IInv PROVE TypeOK
  OBVIOUS
<1>1. \A i \in DOMAIN tasks : tasks[i].slot \in Slots \cup {"ask"}
  BY SequenceOfElements DEF IInv, SendInv, OfRun
<1>2. \A e \in errors : e.slot \in Slots /\ e.n > e.last
  BY DEF IInv, SendInv
<1>3. runs \in 0..MaxRuns
  BY ReportsAssumption DEF IInv, SendInv, HandlerInv
<1>4. \A b \in balances : b.listed \subseteq Coins /\ b.zero \subseteq Coins
  BY DEF IInv, BalanceInv, HandlerInv
<1>5. handler.kind \in Kinds /\ handler.assets \subseteq Coins
  BY DEF IInv, HandlerInv
<1> QED
  BY <1>1, <1>2, <1>3, <1>4, <1>5 DEF IInv, HandlerInv, TypeOK

\* The senders and the handlers keep their types: among them, what the error file names
\* as sent last was made before what it names as lost.
THEOREM TypeCorrect == Spec => []TypeOK
BY Invariant, TypeFromInv, PTL

LEMMA LossFromInv == IInv => EveryLossBlamed
<1> SUFFICES ASSUME IInv PROVE EveryLossBlamed
  OBVIOUS
<1>1. DOMAIN tasks = 1..Len(tasks)
  BY SequenceOfElements DEF IInv, SendInv, OfRun
<1> QED
  BY <1>1 DEF IInv, LossInv, EveryLossBlamed

\* No message is lost in silence by the senders of gateway.cpp: it is delivered or in
\* the error file, whatever handlers run, whatever offers answer and whatever throws.
THEOREM LossesBlamed == Spec => []EveryLossBlamed
BY Invariant, LossFromInv, PTL

LEMMA OrderFromInv == IInv => OnceAndInOrder
<1> SUFFICES ASSUME IInv PROVE OnceAndInOrder
  OBVIOUS
<1>1. \A c \in AeronChannels : History(got[c]) /\ DOMAIN got[c] = 1..Len(got[c])
  BY SequenceOfElements DEF IInv, SendInv, History
<1> QED
  BY <1>1 DEF History, OnceAndInOrder

\* A channel is given each message once at most and in the order they were made, though
\* an offer may be repeated and one handler sends to several channels.
THEOREM GivenInOrder == Spec => []OnceAndInOrder
BY Invariant, OrderFromInv, PTL

LEMMA NamedFromInv == IInv => NamedWasSent
<1> SUFFICES ASSUME IInv, NEW e \in errors, e.slot \in Remembering, e.last # 0
             PROVE  e.last \in SentBefore(e)
  BY DEF NamedWasSent
<1>1. PICK c : c = got[ChannelOf(e.slot)]
  OBVIOUS
<1>2. History(c) /\ Recalls(c, e.slot, e.last, e.n)
  BY <1>1, ChannelType DEF IInv, SendInv
<1>3. DOMAIN c = 1..Len(c)
  BY <1>2, SequenceOfElements DEF History
<1>4. PICK k \in 1..Len(c) : c[k].slot = e.slot /\ c[k].n = e.last /\ c[k].n < e.n
  BY <1>2 DEF Recalls
<1> QED
  BY <1>1, <1>3, <1>4 DEF SentBefore

\* What processing_error names as sent was sent: from the same place, and before what was
\* lost.  That it was the last of them is more than the code does, see NamedIsLastSent.
THEOREM NamesWhatWasSent == Spec => []NamedWasSent
BY Invariant, NamedFromInv, PTL

LEMMA FollowFromInv == IInv => BalancesFollowUpdates
<1> SUFFICES ASSUME IInv, NEW u \in seen
             PROVE  \/ RunOf(BalanceOf(u.run)) \in excused
                    \/ Task("balance_core", BalanceOf(u.run)) \in Blamed
                    \/ \E i \in DOMAIN tasks : RunOf(tasks[i].n) = u.run
                    \/ \E b \in balances : /\ Delivered(Task("balance_core", b.n))
                                           /\ b.n = BalanceOf(u.run) /\ b.wallet >= u.wallet
                                           /\ b.listed \cap b.zero = {}
  BY Zenon DEF BalancesFollowUpdates
<1>1. DOMAIN tasks = 1..Len(tasks)
  BY SequenceOfElements DEF IInv, SendInv, OfRun
<1>2. u.run \in Nat /\ RunOf(BalanceOf(u.run)) = u.run
  BY RunOfBalance DEF IInv, FollowInv
<1>3. \A slot : Task(slot, BalanceOf(u.run)).n = BalanceOf(u.run)
  BY NumberOfTask
<1>4. CASE Underway(u)
  <2>1. CASE \E i \in 1..Len(tasks) : tasks[i] = Task("ask", BalanceOf(u.run))
    BY <1>1, <1>2, <1>3, <2>1
  <2>2. CASE \E b \in balances :
               /\ b.n = BalanceOf(u.run) /\ b.wallet >= u.wallet
               /\ \/ Delivered(Task("balance_core", b.n))
                  \/ \E i \in 1..Len(tasks) : tasks[i] = Task("balance_core", b.n)
    <3>1. PICK b \in balances : /\ b.n = BalanceOf(u.run) /\ b.wallet >= u.wallet
                                /\ \/ Delivered(Task("balance_core", b.n))
                                   \/ \E i \in 1..Len(tasks) : tasks[i] = Task("balance_core", b.n)
      BY <2>2
    <3>2. b.listed \cap b.zero = {}
      BY DEF IInv, BalanceInv
    <3>3. CASE \E i \in 1..Len(tasks) : tasks[i] = Task("balance_core", b.n)
      BY <1>1, <1>2, <1>3, <3>1, <3>3
    <3> QED
      BY <3>1, <3>2, <3>3
  <2> QED
    BY <1>4, <2>1, <2>2 DEF Underway
<1> QED
  BY <1>2, <1>4 DEF IInv, FollowInv

\* check_balances after an order update: the core is given balances that are not older
\* than the update and call no listed coin 0, or the error file says that it was not,
\* unless the exchange did not answer with coins or the handler threw.
THEOREM BalancesFollow == Spec => []BalancesFollowUpdates
BY Invariant, FollowFromInv, PTL

\* The private socket goes deaf to a message of balances only when the wallet and the
\* configured assets do not fit the buffer: not by what the core asks for, nor by a copy.
THEOREM OnlyOwnAssets == Spec => []OnlyOwnAssetsDeafen
<1>1. IInv => OnlyOwnAssetsDeafen
  BY DEF IInv
<1> QED
  BY <1>1, Invariant, PTL
=============================================================================
