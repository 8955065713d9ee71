------------------------- MODULE HandlerExecutorProofs -------------------------
(***************************************************************************)
(* Theorems about HandlerExecutor, for every set of runs, of children      *)
(* and of calls, and any number of slow scripts and exits.                 *)
(*                                                                         *)
(* SlotsAccounted also holds for scripts that leave calls un-awaited       *)
(* (Detached), which the run of TLC excludes.  It is not inductive: that a *)
(* child is lent to one run only needs that the runs in the queue are      *)
(* distinct and hold no child (Queued), and that a killed child's run has  *)
(* been rejected needs that the run somebody listens for has not been      *)
(* resolved (Slots).                                                       *)
(*                                                                         *)
(* IsolatedRuns is proved for scripts that await their calls.  Its         *)
(* invariant follows a message from the child to the run that listens:     *)
(* what is in a channel was written by the child's present run (Letters),  *)
(* a child works for the run it is lent to (Lent), and a script that waits *)
(* for a call has it under way exactly once (Awaited).                     *)
(***************************************************************************)
EXTENDS HandlerExecutor, TLAPS

PoolTypes ==
  /\ queue \in Seq(Runs) /\ idle \subseteq Children
  /\ holder \in [Children -> Runs \cup {NoRun}]
  /\ listener \in [Children -> Runs \cup {NoRun}]
  /\ timer \subseteq Runs /\ alive \subseteq Children
  /\ result \in [Runs -> Answers]

\* What each child is there for.
Slots ==
  /\ \A c \in Children : holder[c] = NoRun <=> c \in idle
  /\ \A c \in Children : listener[c] # NoRun =>
       /\ holder[c] = listener[c] /\ listener[c] \in timer
       /\ result[listener[c]] \in {"none", "rejected"}
  /\ \A c \in Children \ idle :
       listener[c] # NoRun \/ (result[holder[c]] \in {"timedOut", "rejected"} /\ c \notin alive)
  /\ \A c, d \in Children : c # d /\ holder[c] = holder[d] => holder[c] = NoRun

\* The runs that wait for a child are distinct, unanswered, and have none yet.
Queued ==
  /\ \A i \in 1..Len(queue) : result[queue[i]] = "none" /\ \A c \in Children : holder[c] # queue[i]
  /\ \A i, j \in 1..Len(queue) : queue[i] = queue[j] => i = j

SlotsInv == PoolTypes /\ Slots /\ Queued

-----------------------------------------------------------------------------
(* The parent's steps. *)

LEMMA RunSlots ==
  ASSUME SlotsInv, NEW r \in Runs, Run(r)
  PROVE  SlotsInv'
<1> USE RunsAssumption DEF SlotsInv, Run, Started, parentVars, childVars
<1>1. PoolTypes'
      BY DEF PoolTypes
<1>2. Slots'
      BY DEF Slots
<1>3. Queued'
      BY DEF PoolTypes, Queued
<1> QED
  BY <1>1, <1>2, <1>3

LEMMA AcquireSlots ==
  ASSUME SlotsInv, NEW c \in Children, Acquire(c)
  PROVE  SlotsInv'
<1> DEFINE r == Head(queue)
<1> USE RunsAssumption DEF SlotsInv
<1>1. /\ queue # <<>> /\ c \in idle
      /\ holder' = [holder EXCEPT ![c] = r] /\ listener' = [listener EXCEPT ![c] = r]
      /\ timer' = timer \cup {r}
      /\ queue' = Tail(queue) /\ idle' = idle \ {c}
      /\ UNCHANGED <<result, alive>>
      BY DEF Acquire
<1>2. r \in Runs /\ r = queue[1] /\ 1 \in 1..Len(queue)
      BY <1>1 DEF PoolTypes
<1>3. PoolTypes'
      BY <1>1, <1>2 DEF PoolTypes
<1>4. result[r] = "none" /\ \A d \in Children : holder[d] # r
      BY <1>2 DEF Queued
<1>5. Slots'
      BY <1>1, <1>2, <1>4 DEF PoolTypes, Slots
<1>6. \A i \in 1..Len(queue') : queue'[i] = queue[i + 1] /\ i + 1 \in 1..Len(queue)
      BY <1>1 DEF PoolTypes
<1>7. ASSUME NEW i \in 1..Len(queue')
      PROVE  result'[queue'[i]] = "none" /\ \A d \in Children : holder'[d] # queue'[i]
  <2>1. queue'[i] = queue[i + 1] /\ i + 1 \in 1..Len(queue) /\ i + 1 # 1
        BY <1>6
  <2>2. queue[i + 1] # r
        BY <1>2, <2>1 DEF Queued
  <2> QED
    BY <1>1, <2>1, <2>2 DEF PoolTypes, Queued
<1>8. ASSUME NEW i \in 1..Len(queue'), NEW j \in 1..Len(queue'), queue'[i] = queue'[j]
      PROVE  i = j
      BY <1>6, <1>8 DEF Queued
<1>9. Queued'
      BY <1>7, <1>8 DEF Queued
<1> QED
  BY <1>3, <1>5, <1>9

\* Listeners off, timer cleared, child returned, run answered.
LEMMA FinishSlots ==
  ASSUME SlotsInv, NEW c \in Children, NEW answer \in {"resolved", "rejected"}, NEW by,
         listener[c] # NoRun, Finish(c, answer, by), UNCHANGED alive
  PROVE  SlotsInv'
<1> DEFINE r == listener[c]
<1> USE RunsAssumption DEF SlotsInv
<1>1. /\ holder' = [holder EXCEPT ![c] = NoRun] /\ listener' = [listener EXCEPT ![c] = NoRun]
      /\ timer' = timer \ {r}
      /\ idle' = idle \cup {c}
      /\ result' = [result EXCEPT ![r] = IF @ = "none" THEN answer ELSE @]
      /\ UNCHANGED <<queue, alive>>
      BY DEF Finish, Settle
<1>2. r \in Runs /\ holder[c] = r
      BY DEF PoolTypes, Slots
<1>3. PoolTypes'
      BY <1>1, <1>2 DEF PoolTypes, Answers
<1>4. \A d \in Children \ {c} : holder[d] # r
      BY <1>2 DEF PoolTypes, Slots
<1>5. Slots'
      BY <1>1, <1>2, <1>4 DEF PoolTypes, Slots
<1>6. Queued'
      BY <1>1, <1>2 DEF PoolTypes, Queued
<1> QED
  BY <1>3, <1>5, <1>6

LEMMA DeliverSlots ==
  ASSUME SlotsInv, NEW c \in Children, Deliver(c)
  PROVE  SlotsInv'
<1> DEFINE m == Head(inbox[c])
<1>1. UNCHANGED alive
      BY DEF Deliver, childVars
<1>2. CASE listener[c] = NoRun
      BY <1>1, <1>2 DEF Deliver, poolVars, parentVars, SlotsInv, PoolTypes, Slots, Queued
<1>3. CASE listener[c] # NoRun /\ OnDone(c, m)
      BY <1>1, <1>3, FinishSlots DEF OnDone
<1>4. CASE listener[c] # NoRun /\ OnError(c, m)
      BY <1>1, <1>4, FinishSlots DEF OnError
<1>5. CASE listener[c] # NoRun /\ OnCall(c, m)
  <2>1. listener[c] \in Runs /\ holder[c] = listener[c]
        BY <1>5, RunsAssumption DEF SlotsInv, PoolTypes, Slots
  <2>2. UNCHANGED <<queue, idle, holder, listener, timer, alive>>
        BY <1>1, <1>5 DEF OnCall, poolVars
  <2>3. \/ UNCHANGED result
        \/ result' = [result EXCEPT ![listener[c]] = IF @ = "none" THEN "rejected" ELSE @]
        BY <1>5 DEF OnCall, Settle
  <2>4. PoolTypes'
        BY <2>1, <2>2, <2>3 DEF SlotsInv, PoolTypes, Answers
  <2>5. Slots'
        BY <2>1, <2>2, <2>3, RunsAssumption DEF SlotsInv, PoolTypes, Slots
  <2>6. Queued'
        BY <2>1, <2>2, <2>3 DEF SlotsInv, PoolTypes, Queued
  <2> QED
    BY <2>4, <2>5, <2>6 DEF SlotsInv
<1> QED
  BY <1>2, <1>3, <1>4, <1>5 DEF Deliver

LEMMA TimeoutSlots ==
  ASSUME SlotsInv, NEW c \in Children, Timeout(c)
  PROVE  SlotsInv'
<1> DEFINE r == listener[c]
<1> USE RunsAssumption DEF SlotsInv
<1>1. /\ r \in timer
      /\ listener' = [listener EXCEPT ![c] = NoRun]
      /\ timer' = timer \ {r} /\ alive' = alive \ {c}
      /\ result' = [result EXCEPT ![r] = IF @ = "none" THEN "timedOut" ELSE @]
      /\ UNCHANGED <<queue, idle, holder>>
      BY DEF Timeout, Settle, poolVars
<1>2. r \in Runs /\ holder[c] = r
      BY <1>1 DEF PoolTypes, Slots
<1>3. PoolTypes'
      BY <1>1, <1>2 DEF PoolTypes, Answers
<1>4. \A d \in Children \ {c} : holder[d] # r
      BY <1>2 DEF PoolTypes, Slots
<1>5. Slots'
      BY <1>1, <1>2, <1>4 DEF PoolTypes, Slots
<1>6. Queued'
      BY <1>1, <1>2 DEF PoolTypes, Queued
<1> QED
  BY <1>3, <1>5, <1>6

-----------------------------------------------------------------------------
(* The invariant, and the theorem. *)

LEMMA NextInv == SlotsInv /\ [Next]_vars => SlotsInv'
<1> SUFFICES ASSUME SlotsInv, [Next]_vars
             PROVE  SlotsInv'
  OBVIOUS
<1>1. ASSUME NEW c \in Children, ChildExit(c)
      PROVE  SlotsInv'
      BY <1>1 DEF ChildExit, poolVars, parentVars, SlotsInv, PoolTypes, Slots, Queued
<1>2. ASSUME UNCHANGED <<poolVars, listener, timer, result, alive>>
      PROVE  SlotsInv'
      BY <1>2 DEF poolVars, SlotsInv, PoolTypes, Slots, Queued
<1>3. ASSUME NEW k \in calls, FinishCall(k) \/ IgnoreCall(k)
      PROVE  SlotsInv'
      BY <1>2, <1>3 DEF FinishCall, IgnoreCall, childVars
<1>4. ASSUME NEW c \in Children, NEW r \in Runs, ScriptCall(c, r) \/ ScriptEnd(c, r)
      PROVE  SlotsInv'
      BY <1>2, <1>4 DEF ScriptCall, ScriptEnd, parentVars
<1>5. CASE UNCHANGED vars
      BY <1>2, <1>5 DEF vars, parentVars, childVars
<1> QED
  BY RunSlots, AcquireSlots, DeliverSlots, TimeoutSlots, <1>1, <1>3, <1>4, <1>5 DEF Next

LEMMA InitInv == Init => SlotsInv
  BY RunsAssumption DEF Init, SlotsInv, PoolTypes, Slots, Queued, Answers

\* Whatever scripts do, however they end and whichever messages come late: a child
\* out of the pool is that of one run which listens on it under an armed timer, or
\* was killed by the timeout of its run (HandlerExecutorService.run,
\* ChildProcessManager).
THEOREM NoSlotIsShared == Spec => []SlotsAccounted
<1>1. SlotsInv => SlotsAccounted
  BY DEF SlotsInv, Slots, SlotsAccounted
<1> QED
  BY InitInv, NextInv, <1>1, PTL DEF Spec
-----------------------------------------------------------------------------
(* Isolation, for scripts that await every call.  A child then has at most  *)
(* one message of a script on its way, always the next to be delivered, and *)
(* it is that of the run that holds the child (Letters); a call is executed *)
(* while its script waits for it (Awaited).                                 *)

Letter(c, i) ==
  LET m == inbox[c][i] IN
  /\ m.run = NoRun => c \notin alive /\ m.type \notin {"call", "errors"}
  /\ m.run # NoRun =>
       /\ i = 1 /\ m.run = holder[c]
       /\ \A k \in calls : k.script # m.run
       /\ IF m.type \in {"call", "errors"} THEN m.run \in blocked /\ m.awaited
                                            ELSE m.run \notin scripts[c]

Letters == \A c \in Children : \A i \in 1..Len(inbox[c]) : Letter(c, i)

Lent ==
  \A c \in Children :
    /\ \A r \in scripts[c] : r = holder[c]
    /\ c \notin alive => scripts[c] = {}

Awaited ==
  /\ \A k \in calls : k.awaited /\ k.script \in blocked
  /\ \A k, l \in calls : k.script = l.script => k = l

RunTypes ==
  /\ inbox \in [Children -> Seq(Message)]
  /\ scripts \in [Children -> SUBSET Runs]
  /\ calls \subseteq Call
  /\ answeredBy \in [Runs -> Runs \cup {NoRun}]

RunsInv == SlotsInv /\ RunTypes /\ Letters /\ Lent /\ Awaited /\ IsolatedRuns

\* What the proofs below use of SlotsInv.
LEMMA Holders ==
  ASSUME SlotsInv
  PROVE  /\ holder \in [Children -> Runs \cup {NoRun}] /\ alive \subseteq Children
         /\ \A c \in Children : listener[c] # NoRun => listener[c] \in Runs /\ holder[c] = listener[c]
         /\ \A c, d \in Children : c # d /\ holder[c] = holder[d] => holder[c] = NoRun
         /\ \A c \in idle : c \in Children /\ holder[c] = NoRun
         /\ queue \in Seq(Runs)
  BY RunsAssumption DEF SlotsInv, PoolTypes, Slots

\* A message appended to, and one removed from, what is on its way.
LEMMA PostInbox ==
  ASSUME RunTypes, NEW c \in Children, NEW m \in Message, Post(c, m)
  PROVE  /\ inbox' \in [Children -> Seq(Message)]
         /\ \A d \in Children \ {c} : inbox'[d] = inbox[d]
         /\ Len(inbox'[c]) = Len(inbox[c]) + 1 /\ Len(inbox[c]) \in Nat
         /\ \A i \in 1..Len(inbox[c]) : inbox'[c][i] = inbox[c][i]
         /\ inbox'[c][Len(inbox[c]) + 1] = m
  BY DEF RunTypes, Post

\* What the parent or the end of the process adds names no run.
LEMMA NoteInbox ==
  ASSUME RunTypes, NEW c \in Children, NEW t \in {"exit", "sendError"},
         Post(c, Msg(t, NoRun, FALSE))
  PROVE  /\ inbox' \in [Children -> Seq(Message)]
         /\ \A d \in Children \ {c} : inbox'[d] = inbox[d]
         /\ \A i \in 1..Len(inbox'[c]) :
              \/ i \in 1..Len(inbox[c]) /\ inbox'[c][i] = inbox[c][i]
              \/ inbox'[c][i].run = NoRun /\ inbox'[c][i].type = t
<1> DEFINE m == Msg(t, NoRun, FALSE)
<1>1. m \in Message /\ m.run = NoRun /\ m.type = t
      BY DEF Msg, Message
<1> HIDE DEF m
<1>2. /\ inbox' \in [Children -> Seq(Message)]
      /\ \A d \in Children \ {c} : inbox'[d] = inbox[d]
      /\ Len(inbox'[c]) = Len(inbox[c]) + 1 /\ Len(inbox[c]) \in Nat
      /\ \A i \in 1..Len(inbox[c]) : inbox'[c][i] = inbox[c][i]
      /\ inbox'[c][Len(inbox[c]) + 1] = m
      BY <1>1, PostInbox DEF m
<1>3. ASSUME NEW i \in 1..Len(inbox'[c]), i \notin 1..Len(inbox[c])
      PROVE  inbox'[c][i] = m
      BY <1>2, <1>3
<1> QED
  BY <1>1, <1>2, <1>3

LEMMA TakeInbox ==
  ASSUME RunTypes, NEW c \in Children, inbox[c] # <<>>,
         inbox' = [inbox EXCEPT ![c] = Tail(@)]
  PROVE  /\ inbox' \in [Children -> Seq(Message)]
         /\ \A d \in Children \ {c} : inbox'[d] = inbox[d]
         /\ Len(inbox'[c]) = Len(inbox[c]) - 1 /\ Len(inbox[c]) \in Nat \ {0}
         /\ \A i \in 1..Len(inbox'[c]) : inbox'[c][i] = inbox[c][i + 1] /\ i + 1 \in 1..Len(inbox[c])
         /\ Head(inbox[c]) = inbox[c][1] /\ Head(inbox[c]) \in Message
  BY DEF RunTypes

\* A script that runs has no message on its way.
LEMMA NothingWaits ==
  ASSUME RunsInv, NEW c \in Children, NEW r \in Runs, Executing(c, r)
  PROVE  Len(inbox[c]) = 0 /\ holder[c] = r /\ \A k \in calls : k.script # r
<1>1. holder[c] = r /\ \A k \in calls : k.script # r
      BY DEF RunsInv, Executing, Lent, Awaited
<1>2. ASSUME NEW i \in 1..Len(inbox[c])
      PROVE  FALSE
      BY <1>1, <1>2, RunsAssumption DEF RunsInv, Letters, Letter, Executing
<1>3. Len(inbox[c]) \in Nat
      BY DEF RunsInv, RunTypes
<1> QED
  BY <1>1, <1>2, <1>3

LEMMA ScriptCallRuns ==
  ASSUME RunsInv, SlotsInv', ~Detached, NEW c \in Children, NEW r \in Runs, ScriptCall(c, r)
  PROVE  RunsInv'
<1>1. Len(inbox[c]) = 0 /\ holder[c] = r /\ \A k \in calls : k.script # r
      BY NothingWaits DEF ScriptCall
<1>2. PICK t \in {"call", "errors"} : Post(c, Msg(t, r, TRUE)) /\ blocked' = blocked \cup {r}
      BY DEF ScriptCall
<1>3. UNCHANGED <<holder, alive, scripts, calls, answeredBy>>
      BY DEF ScriptCall, poolVars, parentVars
<1>4. Msg(t, r, TRUE) \in Message
      BY DEF Msg, Message
<1>5. /\ inbox' \in [Children -> Seq(Message)]
      /\ \A d \in Children \ {c} : inbox'[d] = inbox[d]
      /\ Len(inbox'[c]) = 1 /\ inbox'[c][1] = Msg(t, r, TRUE)
  <2> DEFINE m == Msg(t, r, TRUE)
  <2>1. RunTypes /\ m \in Message /\ Post(c, m)
        BY <1>2, <1>4 DEF RunsInv
  <2> HIDE DEF m
  <2>2. /\ inbox' \in [Children -> Seq(Message)]
        /\ \A d \in Children \ {c} : inbox'[d] = inbox[d]
        /\ Len(inbox'[c]) = Len(inbox[c]) + 1 /\ inbox'[c][Len(inbox[c]) + 1] = m
        BY <2>1, PostInbox
  <2>3. Len(inbox'[c]) = 1 /\ inbox'[c][1] = m
        BY <1>1, <2>2
  <2> QED
    BY <2>2, <2>3 DEF m
<1>6. RunTypes'
      BY <1>3, <1>5 DEF RunsInv, RunTypes
<1>7. ASSUME NEW d \in Children, NEW i \in 1..Len(inbox'[d])
      PROVE  Letter(d, i)'
  <2>1. CASE d = c
    <3>1. Len(inbox'[d]) = 1 /\ inbox'[d][1] = Msg(t, r, TRUE)
          BY <1>5, <2>1
    <3>2. i = 1
          BY <3>1
    <3>3. inbox'[d][i].type = t /\ inbox'[d][i].run = r /\ inbox'[d][i].awaited
          BY <3>1, <3>2 DEF Msg
    <3>4. holder'[d] = r /\ r \in blocked' /\ calls' = calls
          BY <1>1, <1>2, <1>3, <2>1
    <3> QED
      BY <1>1, <3>2, <3>3, <3>4, RunsAssumption DEF Letter
  <2>2. CASE d # c
    <3>1. inbox'[d] = inbox[d] /\ Letter(d, i)
          BY <1>5, <2>2 DEF RunsInv, Letters
    <3> QED
      BY <1>2, <1>3, <3>1 DEF Letter
  <2> QED
    BY <2>1, <2>2
<1>8. Lent' /\ Awaited' /\ IsolatedRuns'
      BY <1>2, <1>3 DEF RunsInv, Lent, Awaited, IsolatedRuns
<1> QED
  BY <1>6, <1>7, <1>8 DEF RunsInv, Letters

LEMMA ScriptEndRuns ==
  ASSUME RunsInv, SlotsInv', NEW c \in Children, NEW r \in Runs, ScriptEnd(c, r)
  PROVE  RunsInv'
<1>1. Len(inbox[c]) = 0 /\ holder[c] = r /\ \A k \in calls : k.script # r
      BY NothingWaits DEF ScriptEnd
<1>2. PICK t \in {"done", "error"} : Post(c, Msg(t, r, FALSE))
      BY DEF ScriptEnd
<1>3. /\ UNCHANGED <<holder, alive, blocked, calls, answeredBy>>
      /\ scripts' = [scripts EXCEPT ![c] = @ \ {r}]
      BY DEF ScriptEnd, poolVars, parentVars
<1>4. Msg(t, r, FALSE) \in Message
      BY DEF Msg, Message
<1>5. /\ inbox' \in [Children -> Seq(Message)]
      /\ \A d \in Children \ {c} : inbox'[d] = inbox[d]
      /\ Len(inbox'[c]) = 1 /\ inbox'[c][1] = Msg(t, r, FALSE)
  <2> DEFINE m == Msg(t, r, FALSE)
  <2>1. RunTypes /\ m \in Message /\ Post(c, m)
        BY <1>2, <1>4 DEF RunsInv
  <2> HIDE DEF m
  <2>2. /\ inbox' \in [Children -> Seq(Message)]
        /\ \A d \in Children \ {c} : inbox'[d] = inbox[d]
        /\ Len(inbox'[c]) = Len(inbox[c]) + 1 /\ inbox'[c][Len(inbox[c]) + 1] = m
        BY <2>1, PostInbox
  <2>3. Len(inbox'[c]) = 1 /\ inbox'[c][1] = m
        BY <1>1, <2>2
  <2> QED
    BY <2>2, <2>3 DEF m
<1>6. RunTypes'
      BY <1>3, <1>5 DEF RunsInv, RunTypes
<1>7. Letters'
  <2> SUFFICES ASSUME NEW d \in Children, NEW i \in 1..Len(inbox'[d])
               PROVE  LET m == inbox'[d][i] IN
                      /\ m.run = NoRun => d \notin alive /\ m.type \notin {"call", "errors"}
                      /\ m.run # NoRun =>
                           /\ i = 1 /\ m.run = holder[d]
                           /\ \A k \in calls : k.script # m.run
                           /\ IF m.type \in {"call", "errors"} THEN m.run \in blocked /\ m.awaited
                                                                ELSE m.run \notin scripts'[d]
    BY <1>3 DEF Letters, Letter
  <2>1. CASE d = c
        BY <1>1, <1>3, <1>5, <2>1, RunsAssumption DEF RunsInv, RunTypes, Msg
  <2>2. CASE d # c
        BY <1>3, <1>5, <2>2 DEF RunsInv, RunTypes, Letters, Letter
  <2> QED
    BY <2>1, <2>2
<1>8. Lent' /\ Awaited' /\ IsolatedRuns'
      BY <1>3 DEF RunsInv, RunTypes, Lent, Awaited, IsolatedRuns
<1> QED
  BY <1>6, <1>7, <1>8 DEF RunsInv

\* The child dies, and an event of its own joins what it has sent.
LEMMA ChildExitRuns ==
  ASSUME RunsInv, SlotsInv', NEW c \in Children, ChildExit(c)
  PROVE  RunsInv'
<1>1. /\ UNCHANGED <<holder, blocked, calls, answeredBy>>
      /\ scripts' = [scripts EXCEPT ![c] = {}] /\ alive' = alive \ {c}
      /\ Post(c, Msg("exit", NoRun, FALSE))
      BY DEF ChildExit, poolVars, parentVars
<1>2. /\ inbox' \in [Children -> Seq(Message)]
      /\ \A d \in Children \ {c} : inbox'[d] = inbox[d]
      /\ \A i \in 1..Len(inbox'[c]) :
           \/ i \in 1..Len(inbox[c]) /\ inbox'[c][i] = inbox[c][i]
           \/ inbox'[c][i].run = NoRun /\ inbox'[c][i].type = "exit"
      BY <1>1, NoteInbox DEF RunsInv
<1>3. RunTypes'
      BY <1>1, <1>2 DEF RunsInv, RunTypes
<1>4. Letters'
      BY <1>1, <1>2 DEF RunsInv, RunTypes, Letters, Letter
<1>5. Lent' /\ Awaited' /\ IsolatedRuns'
      BY <1>1 DEF RunsInv, RunTypes, Lent, Awaited, IsolatedRuns
<1> QED
  BY <1>3, <1>4, <1>5 DEF RunsInv

\* A child that nobody holds has no message of a script on its way.
LEMMA AcquireRuns ==
  ASSUME RunsInv, SlotsInv', NEW c \in Children, Acquire(c)
  PROVE  RunsInv'
<1> DEFINE r == Head(queue)
<1>1. /\ r \in Runs /\ holder[c] = NoRun /\ holder' = [holder EXCEPT ![c] = r]
      /\ UNCHANGED <<alive, blocked, calls, answeredBy>>
      BY Holders DEF Acquire, RunsInv
<1>2. ASSUME NEW i \in 1..Len(inbox[c])
      PROVE  inbox[c][i].run = NoRun /\ c \notin alive
      BY <1>1 DEF RunsInv, Letters, Letter
<1>3. scripts[c] = {}
      BY <1>1, RunsAssumption DEF RunsInv, RunTypes, Lent
<1> HIDE DEF r
<1>4. CASE c \in alive
  <2>1. scripts' = [scripts EXCEPT ![c] = @ \cup {r}] /\ UNCHANGED inbox
        BY <1>4 DEF Acquire, r
  <2>2. Len(inbox[c]) = 0
        BY <1>2, <1>4 DEF RunsInv, RunTypes
  <2>3. RunTypes'
        BY <1>1, <2>1 DEF RunsInv, RunTypes
  <2>4. Letters'
    <3>1. ASSUME NEW d \in Children \ {c}
          PROVE  holder'[d] = holder[d] /\ scripts'[d] = scripts[d]
          BY <1>1, <2>1, Holders DEF RunsInv, RunTypes
    <3>2. \A i \in 1..Len(inbox[c]) : FALSE
          BY <2>2
    <3> QED
      BY <1>1, <2>1, <3>1, <3>2 DEF RunsInv, Letters, Letter
  <2>5. Lent' /\ Awaited' /\ IsolatedRuns'
        BY <1>1, <1>3, <1>4, <2>1, Holders DEF RunsInv, RunTypes, Lent, Awaited, IsolatedRuns
  <2> QED
    BY <2>3, <2>4, <2>5 DEF RunsInv
<1>5. CASE c \notin alive
  <2>1. UNCHANGED scripts /\ Post(c, Msg("sendError", NoRun, FALSE))
        BY <1>5 DEF Acquire
  <2>2. /\ inbox' \in [Children -> Seq(Message)]
        /\ \A d \in Children \ {c} : inbox'[d] = inbox[d]
        /\ \A i \in 1..Len(inbox'[c]) :
             \/ i \in 1..Len(inbox[c]) /\ inbox'[c][i] = inbox[c][i]
             \/ inbox'[c][i].run = NoRun /\ inbox'[c][i].type = "sendError"
        BY <2>1, NoteInbox DEF RunsInv
  <2>3. RunTypes'
        BY <1>1, <2>1, <2>2 DEF RunsInv, RunTypes
  <2>4. Letters'
    <3>1. ASSUME NEW i \in 1..Len(inbox'[c])
          PROVE  inbox'[c][i].run = NoRun /\ inbox'[c][i].type \notin {"call", "errors"}
          BY <1>1, <1>2, <2>2 DEF RunsInv, Letters, Letter
    <3>2. ASSUME NEW d \in Children \ {c}
          PROVE  inbox'[d] = inbox[d] /\ holder'[d] = holder[d] /\ scripts'[d] = scripts[d]
          BY <1>1, <2>1, <2>2, Holders DEF RunsInv
    <3> QED
      BY <1>1, <1>5, <3>1, <3>2 DEF RunsInv, Letters, Letter
  <2>5. Lent' /\ Awaited' /\ IsolatedRuns'
        BY <1>1, <1>3, <2>1, Holders DEF RunsInv, Lent, Awaited, IsolatedRuns
  <2> QED
    BY <2>3, <2>4, <2>5 DEF RunsInv
<1> QED
  BY <1>4, <1>5

\* The end of a call: no message of its script is on its way.
LEMMA FinishCallRuns ==
  ASSUME RunsInv, SlotsInv', NEW k \in calls, FinishCall(k)
  PROVE  RunsInv'
<1>1. /\ calls' = calls \ {k} /\ UNCHANGED <<holder, alive, scripts, answeredBy>>
      /\ k.awaited /\ k.child \in Children
      BY DEF FinishCall, poolVars, RunsInv, Awaited, RunTypes, Call
<1>2. \A c \in Children : \A i \in 1..Len(inbox[c]) :
        inbox[c][i].run # NoRun => inbox[c][i].run # k.script
      BY DEF RunsInv, Letters, Letter
<1>3. CASE UNCHANGED inbox /\ blocked' = blocked \ {k.script}
  <2>1. RunTypes' /\ Lent' /\ Awaited' /\ IsolatedRuns'
        BY <1>1, <1>3 DEF RunsInv, RunTypes, Lent, Awaited, IsolatedRuns
  <2>2. Letters'
        BY <1>1, <1>2, <1>3 DEF RunsInv, Letters, Letter
  <2> QED
    BY <2>1, <2>2 DEF RunsInv
<1>4. CASE UNCHANGED <<inbox, blocked>>
  <2>1. RunTypes' /\ Lent' /\ Awaited' /\ IsolatedRuns'
        BY <1>1, <1>4 DEF RunsInv, RunTypes, Lent, Awaited, IsolatedRuns
  <2>2. Letters'
        BY <1>1, <1>4 DEF RunsInv, Letters, Letter
  <2> QED
    BY <2>1, <2>2 DEF RunsInv
<1>5. CASE /\ k.child \notin alive /\ UNCHANGED blocked
           /\ Post(k.child, Msg("sendError", NoRun, FALSE))
  <2> DEFINE c == k.child
  <2>1. /\ inbox' \in [Children -> Seq(Message)]
        /\ \A d \in Children \ {c} : inbox'[d] = inbox[d]
        /\ \A i \in 1..Len(inbox'[c]) :
             \/ i \in 1..Len(inbox[c]) /\ inbox'[c][i] = inbox[c][i]
             \/ inbox'[c][i].run = NoRun /\ inbox'[c][i].type = "sendError"
        BY <1>1, <1>5, NoteInbox DEF RunsInv
  <2>2. RunTypes' /\ Lent' /\ Awaited' /\ IsolatedRuns'
        BY <1>1, <1>5, <2>1 DEF RunsInv, RunTypes, Lent, Awaited, IsolatedRuns
  <2>3. Letters'
        BY <1>1, <1>5, <2>1 DEF RunsInv, Letters, Letter
  <2> QED
    BY <2>2, <2>3 DEF RunsInv
<1> QED
  BY <1>1, <1>3, <1>4, <1>5 DEF FinishCall

LEMMA IgnoreCallRuns ==
  ASSUME RunsInv, SlotsInv', NEW k \in calls, IgnoreCall(k)
  PROVE  RunsInv'
<1>1. calls' = calls \ {k} /\ UNCHANGED <<holder, alive, scripts, blocked, inbox, answeredBy>>
      BY DEF IgnoreCall, poolVars, childVars
<1>2. RunTypes' /\ Lent' /\ Awaited' /\ IsolatedRuns'
      BY <1>1 DEF RunsInv, RunTypes, Lent, Awaited, IsolatedRuns
<1>3. Letters'
      BY <1>1 DEF RunsInv, Letters, Letter
<1> QED
  BY <1>2, <1>3 DEF RunsInv

\* The next message: if it is a script's, it is that of the run that holds the
\* child, and nothing of that script is behind it.
LEMMA DeliverRuns ==
  ASSUME RunsInv, SlotsInv', NEW c \in Children, Deliver(c)
  PROVE  RunsInv'
<1> DEFINE m == Head(inbox[c])
<1>1. inbox[c] # <<>> /\ inbox' = [inbox EXCEPT ![c] = Tail(@)]
      /\ UNCHANGED <<alive, scripts, blocked>>
      BY DEF Deliver, childVars
<1>2. /\ inbox' \in [Children -> Seq(Message)]
      /\ \A d \in Children \ {c} : inbox'[d] = inbox[d]
      /\ \A i \in 1..Len(inbox'[c]) :
           inbox'[c][i] = inbox[c][i + 1] /\ i + 1 \in 1..Len(inbox[c]) /\ i + 1 # 1
      /\ m = inbox[c][1] /\ 1 \in 1..Len(inbox[c]) /\ m \in Message
  <2>1. /\ inbox' \in [Children -> Seq(Message)]
        /\ \A d \in Children \ {c} : inbox'[d] = inbox[d]
        /\ Len(inbox'[c]) = Len(inbox[c]) - 1 /\ Len(inbox[c]) \in Nat \ {0}
        /\ \A i \in 1..Len(inbox'[c]) :
             inbox'[c][i] = inbox[c][i + 1] /\ i + 1 \in 1..Len(inbox[c])
        /\ m = inbox[c][1] /\ m \in Message
        BY <1>1, TakeInbox DEF RunsInv
  <2>2. 1 \in 1..Len(inbox[c])
        BY <2>1
  <2>3. \A i \in 1..Len(inbox'[c]) : i + 1 # 1
        BY <2>1
  <2> QED
    BY <2>1, <2>2, <2>3
<1> HIDE DEF m
<1>3. ASSUME NEW i \in 1..Len(inbox'[c])
      PROVE  /\ inbox'[c][i].run = NoRun /\ inbox'[c][i].type \notin {"call", "errors"}
             /\ c \notin alive
  <2>1. inbox'[c][i] = inbox[c][i + 1] /\ i + 1 \in 1..Len(inbox[c]) /\ i + 1 # 1
        BY <1>2
  <2> QED
    BY <2>1 DEF RunsInv, Letters, Letter
<1>4. /\ m.run = NoRun => c \notin alive /\ m.type \notin {"call", "errors"}
      /\ m.run # NoRun =>
           /\ m.run = holder[c] /\ \A k \in calls : k.script # m.run
           /\ IF m.type \in {"call", "errors"} THEN m.run \in blocked /\ m.awaited
                                               ELSE m.run \notin scripts[c]
      BY <1>2 DEF RunsInv, Letters, Letter
<1>5. CASE UNCHANGED <<holder, calls, answeredBy>>
  <2>1. RunTypes' /\ Lent' /\ Awaited' /\ IsolatedRuns'
        BY <1>1, <1>2, <1>5 DEF RunsInv, RunTypes, Lent, Awaited, IsolatedRuns
  <2>2. Letters'
        BY <1>1, <1>2, <1>3, <1>5 DEF RunsInv, Letters, Letter
  <2> QED
    BY <2>1, <2>2 DEF RunsInv
<1>6. ASSUME NEW answer, listener[c] # NoRun, m.type \notin {"call", "errors"},
             Finish(c, answer, m.run)
      PROVE  RunsInv'
  <2>1. /\ holder' = [holder EXCEPT ![c] = NoRun] /\ UNCHANGED calls
        /\ listener[c] \in Runs /\ holder[c] = listener[c]
        /\ answeredBy' = [answeredBy EXCEPT ![listener[c]] =
                            IF result[listener[c]] = "none" THEN m.run ELSE @]
        BY <1>6, Holders DEF Finish, Settle, RunsInv
  <2>2. scripts[c] = {}
        BY <1>4, <1>6, <2>1 DEF RunsInv, RunTypes, Lent
  <2>3. RunTypes'
        BY <1>1, <1>2, <2>1 DEF RunsInv, RunTypes, Message
  <2>4. Letters'
    <3>1. ASSUME NEW d \in Children \ {c}
          PROVE  holder'[d] = holder[d]
          BY <2>1, Holders DEF RunsInv
    <3> QED
      BY <1>1, <1>2, <1>3, <2>1, <3>1 DEF RunsInv, Letters, Letter
  <2>5. Lent'
        BY <1>1, <2>1, <2>2, Holders DEF RunsInv, Lent
  <2>6. Awaited'
        BY <1>1, <2>1 DEF RunsInv, Awaited
  <2>7. IsolatedRuns'
        BY <1>4, <2>1 DEF RunsInv, RunTypes, IsolatedRuns
  <2> QED
    BY <2>3, <2>4, <2>5, <2>6, <2>7 DEF RunsInv
<1>7. CASE listener[c] # NoRun /\ OnCall(c, m)
  <2> DEFINE k == [script |-> m.run, child |-> c, ctx |-> listener[c],
                   awaited |-> m.awaited, errors |-> m.type = "errors"]
  <2>1. /\ m.type \in {"call", "errors"} /\ calls' = calls \cup {k} /\ UNCHANGED holder
        /\ listener[c] \in Runs /\ holder[c] = listener[c]
        /\ \/ UNCHANGED answeredBy
           \/ answeredBy' = [answeredBy EXCEPT ![listener[c]] =
                               IF result[listener[c]] = "none" THEN m.run ELSE @]
        BY <1>7, Holders DEF OnCall, Settle, poolVars, RunsInv
  <2>2. m.run = listener[c] /\ m.run \in blocked /\ m.awaited /\ \A l \in calls : l.script # m.run
        BY <1>4, <2>1
  <2>3. k \in Call /\ k.script = m.run /\ k.ctx = m.run /\ k.awaited
        BY <1>2, <2>1, <2>2 DEF Call, Message
  <2> HIDE DEF k
  <2>4. RunTypes'
    <3>1. calls' \in SUBSET Call
          BY <2>1, <2>3 DEF RunsInv, RunTypes
    <3>2. answeredBy' \in [Runs -> Runs \cup {NoRun}]
          BY <2>1, <2>2 DEF RunsInv, RunTypes
    <3>3. inbox' \in [Children -> Seq(Message)] /\ scripts' \in [Children -> SUBSET Runs]
          BY <1>1, <1>2 DEF RunsInv, RunTypes
    <3> QED
      BY <3>1, <3>2, <3>3 DEF RunTypes
  <2>5. \A d \in Children \ {c} : \A i \in 1..Len(inbox[d]) :
          inbox[d][i].run # NoRun => inbox[d][i].run # m.run
        BY <2>1, <2>2, Holders, RunsAssumption DEF RunsInv, Letters, Letter
  <2>6. ASSUME NEW d \in Children, NEW i \in 1..Len(inbox'[d])
        PROVE  Letter(d, i)'
    <3>1. CASE d = c
          BY <1>1, <1>3, <3>1 DEF Letter
    <3>2. CASE d # c
      <4>1. inbox'[d] = inbox[d] /\ Letter(d, i)
            BY <1>2, <3>2 DEF RunsInv, Letters
      <4>2. inbox[d][i].run # NoRun => inbox[d][i].run # m.run
            BY <2>5, <3>2, <4>1
      <4>3. /\ UNCHANGED <<holder, alive, scripts, blocked>>
            /\ \A l \in calls' : l \in calls \/ l.script = m.run
            BY <1>1, <2>1, <2>3
      <4> QED
        BY <4>1, <4>2, <4>3 DEF Letter
    <3> QED
      BY <3>1, <3>2
  <2>7. Lent' /\ Awaited'
        BY <1>1, <2>1, <2>2, <2>3 DEF RunsInv, Lent, Awaited
  <2>8. IsolatedRuns'
        BY <2>1, <2>2, <2>3 DEF RunsInv, RunTypes, IsolatedRuns
  <2> QED
    BY <2>4, <2>6, <2>7, <2>8 DEF RunsInv, Letters
<1> QED
  BY <1>5, <1>6, <1>7 DEF Deliver, OnDone, OnError, poolVars, parentVars, m

LEMMA TimeoutRuns ==
  ASSUME RunsInv, SlotsInv', NEW c \in Children, Timeout(c)
  PROVE  RunsInv'
<1>1. /\ UNCHANGED <<holder, calls, blocked, inbox>>
      /\ scripts' = [scripts EXCEPT ![c] = {}] /\ alive' = alive \ {c}
      /\ answeredBy' = [answeredBy EXCEPT ![listener[c]] =
                          IF result[listener[c]] = "none" THEN NoRun ELSE @]
      BY DEF Timeout, Settle, poolVars
<1>2. RunTypes' /\ IsolatedRuns'
      BY <1>1 DEF RunsInv, RunTypes, IsolatedRuns
<1>3. Letters'
      BY <1>1 DEF RunsInv, RunTypes, Letters, Letter
<1>4. Lent' /\ Awaited'
      BY <1>1 DEF RunsInv, RunTypes, Lent, Awaited
<1> QED
  BY <1>2, <1>3, <1>4 DEF RunsInv

LEMMA RunsNext ==
  ASSUME ~Detached, RunsInv, [Next]_vars
  PROVE  RunsInv'
<1>1. SlotsInv'
      BY NextInv DEF RunsInv
<1>2. ASSUME UNCHANGED <<inbox, scripts, calls, answeredBy, holder, alive, blocked>>
      PROVE  RunsInv'
      BY <1>1, <1>2 DEF RunsInv, RunTypes, Letters, Letter, Lent, Awaited, IsolatedRuns
<1>3. ASSUME NEW r \in Runs, Run(r)
      PROVE  RunsInv'
      BY <1>2, <1>3 DEF Run, parentVars, childVars
<1>4. CASE UNCHANGED vars
      BY <1>2, <1>4 DEF vars, poolVars, parentVars, childVars
<1> QED
  BY <1>1, <1>3, <1>4, AcquireRuns, DeliverRuns, TimeoutRuns, ChildExitRuns,
     FinishCallRuns, IgnoreCallRuns, ScriptCallRuns, ScriptEndRuns
  DEF Next

LEMMA RunsInit == Init => RunsInv
<1> SUFFICES ASSUME Init
             PROVE  RunsInv
  OBVIOUS
<1>1. RunTypes
      BY DEF Init, RunTypes
<1>2. Letters /\ Lent /\ Awaited
      BY DEF Init, Letters, Letter, Lent, Awaited
<1>3. IsolatedRuns
      BY DEF Init, IsolatedRuns
<1> QED
  BY InitInv, <1>1, <1>2, <1>3 DEF RunsInv

\* docs/ARCHITECTURE.md:148: as long as scripts await their calls, a run is answered
\* by its own script and its calls are executed under its own context, whatever
\* times out, exits or arrives late.
THEOREM RunsAreIsolated ==
  ASSUME ~Detached
  PROVE  Spec => []IsolatedRuns
<1>1. RunsInv /\ [Next]_vars => RunsInv'
      BY RunsNext
<1>2. RunsInv => IsolatedRuns
      BY DEF RunsInv
<1> QED
  BY RunsInit, <1>1, <1>2, PTL DEF Spec

-----------------------------------------------------------------------------
(* Types. *)

\* A call in a channel names the script that makes it.
Mail == {m \in Message : m.type \in {"call", "errors"} => m.run \in Runs}

\* The children, their channels and what the parent executes for them.
ChildTypes ==
  /\ blocked \subseteq Runs /\ slow \subseteq Runs
  /\ answeredBy \in [Runs -> Runs \cup {NoRun}]
  /\ scripts \in [Children -> SUBSET Runs]
  /\ made \in [Runs -> 0..MaxCalls]
  /\ inbox \in [Children -> Seq(Mail)]
  /\ calls \subseteq Call
  /\ exits \in 0..MaxExits /\ down \in BOOLEAN

\* What children write is mail.
LEMMA MailMsg ==
  /\ \A t \in {"call", "errors", "done", "error"}, r \in Runs, a \in BOOLEAN : Msg(t, r, a) \in Mail
  /\ \A t \in {"exit", "sendError"} : Msg(t, NoRun, FALSE) \in Mail
BY DEF Mail, Message, Msg

\* A channel that gets mail stays one of mail.
LEMMA PostMail ==
  ASSUME inbox \in [Children -> Seq(Mail)], NEW c \in Children, NEW m \in Mail, Post(c, m)
  PROVE  inbox' \in [Children -> Seq(Mail)]
<1>1. Append(inbox[c], m) \in Seq(Mail)
  OBVIOUS
<1> QED
  BY <1>1 DEF Post

\* pool.acquire lends a child to the first run of the queue.
LEMMA AcquireTypes ==
  ASSUME PoolTypes, ChildTypes, NEW c \in Children, Acquire(c)
  PROVE  ChildTypes'
<1>1. Head(queue) \in Runs
  BY DEF PoolTypes, Acquire
<1>2. scripts' \in [Children -> SUBSET Runs]
  <2>1. UNCHANGED scripts \/ scripts' = [scripts EXCEPT ![c] = @ \cup {Head(queue)}]
    BY DEF Acquire
  <2> QED
    BY <1>1, <2>1 DEF ChildTypes
<1>3. inbox' \in [Children -> Seq(Mail)]
  <2>1. UNCHANGED inbox \/ Post(c, Msg("sendError", NoRun, FALSE))
    BY DEF Acquire
  <2> QED
    BY <2>1, PostMail, MailMsg DEF ChildTypes
<1>4. UNCHANGED <<blocked, slow, answeredBy, made, calls, exits, down>>
  BY DEF Acquire
<1> QED
  BY <1>2, <1>3, <1>4 DEF ChildTypes

\* Settle notes by whom a promise was answered.
LEMMA SettleTypes ==
  ASSUME answeredBy \in [Runs -> Runs \cup {NoRun}], NEW r, NEW answer,
         NEW by \in Runs \cup {NoRun}, Settle(r, answer, by)
  PROVE  answeredBy' \in [Runs -> Runs \cup {NoRun}]
<1>1. answeredBy' = [answeredBy EXCEPT ![r] = IF result[r] = "none" THEN by ELSE answeredBy[r]]
  BY DEF Settle
<1>2. CASE r \in Runs
  BY <1>1, <1>2
<1>3. CASE r \notin Runs
  BY <1>1, <1>3
<1> QED
  BY <1>2, <1>3

\* The listener of a child takes the message at the head of its channel.
LEMMA DeliverTypes ==
  ASSUME PoolTypes, ChildTypes, NEW c \in Children, Deliver(c)
  PROVE  ChildTypes'
<1> DEFINE m == Head(inbox[c])
<1>1. /\ inbox[c] \in Seq(Mail) /\ inbox[c] # <<>>
      /\ inbox' = [inbox EXCEPT ![c] = Tail(@)]
      /\ UNCHANGED <<blocked, slow, scripts, made, exits>>
  BY DEF ChildTypes, Deliver, childVars
<1>2. m \in Mail /\ m \in Message /\ m.run \in Runs \cup {NoRun} /\ m.awaited \in BOOLEAN
  BY <1>1 DEF Mail, Message
<1>3. inbox' \in [Children -> Seq(Mail)]
  <2>1. Tail(inbox[c]) \in Seq(Mail)
    BY <1>1
  <2> QED
    BY <1>1, <2>1 DEF ChildTypes
<1>4. CASE listener[c] = NoRun
  <2>1. UNCHANGED <<answeredBy, calls, down>>
    BY <1>4 DEF Deliver, parentVars
  <2> QED
    BY <1>1, <1>3, <2>1 DEF ChildTypes
<1>5. CASE listener[c] # NoRun /\ (OnDone(c, m) \/ OnError(c, m))
  <2>1. PICK answer : Finish(c, answer, m.run)
    BY <1>5 DEF OnDone, OnError
  <2>2. answeredBy' \in [Runs -> Runs \cup {NoRun}]
    BY <2>1, <1>2, SettleTypes DEF Finish, ChildTypes
  <2>3. UNCHANGED <<calls, down>>
    BY <2>1 DEF Finish
  <2> QED
    BY <1>1, <1>3, <2>2, <2>3 DEF ChildTypes
<1>6. CASE listener[c] # NoRun /\ OnCall(c, m)
  <2>1. answeredBy' \in [Runs -> Runs \cup {NoRun}]
    BY <1>6, <1>2, SettleTypes DEF OnCall, ChildTypes
  <2>2. m.run \in Runs /\ listener[c] \in Runs
    BY <1>6, <1>2 DEF OnCall, Mail, PoolTypes
  <2>3. calls' \subseteq Call
    <3>1. [script |-> m.run, child |-> c, ctx |-> listener[c], awaited |-> m.awaited,
           errors |-> m.type = "errors"] \in Call
      BY <1>2, <2>2 DEF Call
    <3> QED
      BY <1>6, <3>1 DEF OnCall, ChildTypes
  <2>4. UNCHANGED down
    BY <1>6 DEF OnCall
  <2> QED
    BY <1>1, <1>3, <2>1, <2>3, <2>4 DEF ChildTypes
<1> QED
  BY <1>4, <1>5, <1>6 DEF Deliver

\* The parent answers a call, or fails to.
LEMMA FinishCallTypes ==
  ASSUME ChildTypes, NEW k \in calls, FinishCall(k)
  PROVE  ChildTypes'
<1>1. k \in Call /\ k.child \in Children /\ k.script \in Runs
  BY DEF ChildTypes, Call
<1>2. inbox' \in [Children -> Seq(Mail)]
  <2>1. \/ UNCHANGED inbox
        \/ Post(k.child, Msg("error", k.script, FALSE))
        \/ Post(k.child, Msg("sendError", NoRun, FALSE))
    BY DEF FinishCall
  <2>2. Msg("error", k.script, FALSE) \in Mail /\ Msg("sendError", NoRun, FALSE) \in Mail
    BY <1>1, MailMsg
  <2> QED
    BY <1>1, <2>1, <2>2, PostMail DEF ChildTypes
<1>3. blocked' \subseteq Runs /\ calls' \subseteq Call /\ down' \in BOOLEAN
  BY DEF ChildTypes, FinishCall
<1>4. UNCHANGED <<slow, answeredBy, scripts, made, exits>>
  BY DEF FinishCall
<1> QED
  BY <1>2, <1>3, <1>4 DEF ChildTypes

\* A script writes to its child's channel.
LEMMA ScriptTypes ==
  ASSUME ChildTypes, NEW c \in Children, NEW r \in Runs, ScriptCall(c, r) \/ ScriptEnd(c, r)
  PROVE  ChildTypes'
<1>1. inbox' \in [Children -> Seq(Mail)]
  <2>1. PICK t \in {"call", "errors", "done", "error"}, a \in BOOLEAN : Post(c, Msg(t, r, a))
    BY DEF ScriptCall, ScriptEnd
  <2>2. Msg(t, r, a) \in Mail
    BY MailMsg
  <2> QED
    BY <2>1, <2>2, PostMail DEF ChildTypes
<1>2. made' \in [Runs -> 0..MaxCalls]
  <2>1. \/ UNCHANGED made
        \/ made[r] < MaxCalls /\ made' = [made EXCEPT ![r] = made[r] + 1]
    BY DEF ScriptCall, ScriptEnd
  <2>2. made[r] < MaxCalls => made[r] + 1 \in 0..MaxCalls
    BY BoundsAssumption DEF ChildTypes
  <2> QED
    BY <2>1, <2>2 DEF ChildTypes
<1>3. blocked' \subseteq Runs /\ scripts' \in [Children -> SUBSET Runs]
  BY DEF ChildTypes, ScriptCall, ScriptEnd
<1>4. UNCHANGED <<slow, answeredBy, calls, exits, down>>
  BY DEF ScriptCall, ScriptEnd, parentVars
<1> QED
  BY <1>1, <1>2, <1>3, <1>4 DEF ChildTypes

\* An exit or a timeout ends what runs in the child.
LEMMA ExitTypes ==
  ASSUME ChildTypes, NEW c \in Children, ChildExit(c) \/ Timeout(c)
  PROVE  ChildTypes'
<1>1. inbox' \in [Children -> Seq(Mail)]
  BY PostMail, MailMsg DEF ChildTypes, ChildExit, Timeout
<1>2. exits' \in 0..MaxExits
  <2>1. UNCHANGED exits \/ (exits < MaxExits /\ exits' = exits + 1)
    BY DEF ChildExit, Timeout
  <2> QED
    BY <2>1, BoundsAssumption DEF ChildTypes
<1>3. scripts' \in [Children -> SUBSET Runs]
  BY DEF ChildTypes, ChildExit, Timeout
<1>4. answeredBy' \in [Runs -> Runs \cup {NoRun}]
  <2>1. UNCHANGED answeredBy \/ Settle(listener[c], "timedOut", NoRun)
    BY DEF ChildExit, Timeout, parentVars
  <2> QED
    BY <2>1, SettleTypes DEF ChildTypes
<1>5. UNCHANGED <<blocked, slow, made, calls, down>>
  BY DEF ChildExit, Timeout, parentVars
<1> QED
  BY <1>1, <1>2, <1>3, <1>4, <1>5 DEF ChildTypes

\* All steps together.
LEMMA ChildTypesNext == PoolTypes /\ ChildTypes /\ [Next]_vars => ChildTypes'
<1> SUFFICES ASSUME PoolTypes, ChildTypes, [Next]_vars PROVE ChildTypes'
  OBVIOUS
<1>1. ASSUME NEW r \in Runs, Run(r) PROVE ChildTypes'
  BY <1>1 DEF Run, parentVars, childVars, ChildTypes
<1>2. ASSUME NEW k \in calls, IgnoreCall(k) PROVE ChildTypes'
  BY <1>2 DEF IgnoreCall, childVars, ChildTypes
<1>3. CASE UNCHANGED vars
  BY <1>3 DEF vars, parentVars, childVars, ChildTypes
<1> QED
  BY <1>1, <1>2, <1>3, AcquireTypes, DeliverTypes, FinishCallTypes, ScriptTypes, ExitTypes DEF Next

\* The types of HandlerExecutor; in particular, the parent executes every call under
\* the context of a run, also one that comes from a script left over from another.
THEOREM HandlersTyped == Spec => []TypeOK
<1>1. ASSUME Init PROVE ChildTypes
  <2>1. /\ blocked \subseteq Runs /\ slow \subseteq Runs /\ calls \subseteq Call /\ down \in BOOLEAN
        /\ answeredBy \in [Runs -> Runs \cup {NoRun}]
        /\ scripts \in [Children -> SUBSET Runs]
    BY <1>1 DEF Init
  <2>2. made \in [Runs -> 0..MaxCalls] /\ exits \in 0..MaxExits
    BY <1>1, BoundsAssumption DEF Init
  <2>3. inbox \in [Children -> Seq(Mail)]
    BY <1>1 DEF Init
  <2> QED
    BY <2>1, <2>2, <2>3 DEF ChildTypes
<1>2. SlotsInv => PoolTypes
  BY DEF SlotsInv
<1>3. SlotsInv /\ ChildTypes => TypeOK
  <2> SUFFICES ASSUME SlotsInv, ChildTypes PROVE TypeOK
    OBVIOUS
  <2>1. inbox \in [Children -> Seq(Message)]
    <3>1. Mail \subseteq Message
      BY DEF Mail
    <3>2. \A c \in Children : inbox[c] \in Seq(Message)
      BY <3>1 DEF ChildTypes
    <3> QED
      BY <3>2 DEF ChildTypes
  <2> QED
    BY <2>1 DEF SlotsInv, PoolTypes, ChildTypes, TypeOK
<1> QED
  BY <1>1, <1>2, <1>3, InitInv, NextInv, ChildTypesNext, PTL DEF Spec

=============================================================================
