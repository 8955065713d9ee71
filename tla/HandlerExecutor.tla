--------------------------- MODULE HandlerExecutor ---------------------------
(***************************************************************************)
(* HandlerExecutorService.run with ChildProcessManager, ErrorHandler, the  *)
(* ExecutorPoolService (generic-pool, no validation, no eviction) and the  *)
(* runner in the child process.                                            *)
(*                                                                         *)
(* A run borrows a child, attaches its listeners, starts its timer and     *)
(* sends the script.  The messages that come back (call, done, error) name *)
(* no run: whoever listens on the child takes them.  A script may leave a  *)
(* call un-awaited (Detached); it then ends, or goes on, with the call     *)
(* still open, and a failure of that call becomes an "error" message of    *)
(* the child's unhandledRejection handler.                                 *)
(***************************************************************************)
EXTENDS Naturals, Sequences, FiniteSets

CONSTANTS Runs,       \* calls of run (bounds their number)
          Children,   \* the slots of the pool; their number is its max
          NoRun,
          MaxCalls,   \* bound: calls a script makes
          MaxSlow,    \* bound: scripts that outlive their timeout
          MaxExits,   \* bound: children that die by themselves
          Detached    \* whether scripts leave calls un-awaited

ASSUME RunsAssumption == NoRun \notin Runs /\ IsFiniteSet(Runs)
ASSUME ChildrenAssumption == Children # {} /\ IsFiniteSet(Children)
ASSUME BoundsAssumption == MaxCalls \in Nat /\ MaxSlow \in Nat /\ MaxExits \in Nat
ASSUME DetachedAssumption == Detached \in BOOLEAN

VARIABLES
  queue,      \* runs that wait in pool.acquire
  idle,       \* children available in the pool
  holder,     \* the run that borrowed each child
  alive,      \* children whose process lives
  listener,   \* the run whose listeners each child has
  timer,      \* runs whose timeout is armed
  result,     \* how the promise of each run settled
  answeredBy, \* the run whose script's message settled it
  scripts,    \* the scripts each child is executing
  blocked,    \* scripts that await a call
  made,       \* calls each script has made
  inbox,      \* messages and events of each child on their way to the parent
  calls,      \* calls the parent is executing
  slow,       \* scripts that outlive their timeout
  exits,      \* children that died by themselves
  down        \* the parent process ended by an uncaught 'error' event

poolVars   == <<queue, idle, holder>>
parentVars == <<listener, timer, result, answeredBy, calls, down>>
childVars  == <<alive, scripts, blocked, made, exits>>
vars == <<poolVars, parentVars, childVars, inbox, slow>>

Started == {r \in Runs : \E c \in Children : holder[c] = r}
Answers == {"none", "resolved", "rejected", "timedOut"}

Message == [type : {"call", "errors", "done", "error", "exit", "sendError"},
            run : Runs \cup {NoRun}, awaited : BOOLEAN]
Msg(t, r, a) == [type |-> t, run |-> r, awaited |-> a]

Post(c, m) == inbox' = [inbox EXCEPT ![c] = Append(@, m)]

Init ==
  /\ queue = <<>> /\ idle = Children
  /\ holder = [c \in Children |-> NoRun]
  /\ alive = Children
  /\ listener = [c \in Children |-> NoRun]
  /\ timer = {} /\ calls = {} /\ blocked = {}
  /\ result = [r \in Runs |-> "none"]
  /\ answeredBy = [r \in Runs |-> NoRun]
  /\ scripts = [c \in Children |-> {}]
  /\ made = [r \in Runs |-> 0]
  /\ inbox = [c \in Children |-> <<>>]
  /\ slow \in {S \in SUBSET Runs : Cardinality(S) <= MaxSlow}
  /\ exits = 0
  /\ down = FALSE

-----------------------------------------------------------------------------
(* The parent: run. *)

\* A request asks for a child.  The wait has no timeout of its own.
Run(r) ==
  /\ ~down
  /\ result[r] = "none" /\ r \notin Started
  /\ \A i \in 1..Len(queue) : queue[i] # r
  /\ queue' = Append(queue, r)
  /\ UNCHANGED <<idle, holder, parentVars, childVars, inbox, slow>>

\* The pool hands a child to the first in the queue, whatever has become of
\* its process; then timer, listeners and the script, in one turn.  A send to
\* a dead child comes back as an 'error' event.
Acquire(c) ==
  /\ ~down
  /\ queue # <<>> /\ c \in idle
  /\ LET r == Head(queue) IN
       /\ holder' = [holder EXCEPT ![c] = r]
       /\ listener' = [listener EXCEPT ![c] = r]
       /\ timer' = timer \cup {r}
       /\ IF c \in alive
            THEN scripts' = [scripts EXCEPT ![c] = @ \cup {r}] /\ UNCHANGED inbox
            ELSE Post(c, Msg("sendError", NoRun, FALSE)) /\ UNCHANGED scripts
  /\ queue' = Tail(queue)
  /\ idle' = idle \ {c}
  /\ UNCHANGED <<result, answeredBy, calls, down, alive, blocked, made, exits, slow>>

\* The promise of r: the first answer counts.
Settle(r, answer, by) ==
  /\ result' = [result EXCEPT ![r] = IF @ = "none" THEN answer ELSE @]
  /\ answeredBy' = [answeredBy EXCEPT ![r] = IF result[r] = "none" THEN by ELSE @]

\* Mutant: done answers the request and forgets to return the child.
FinishKeep(c, answer, by) ==
  LET r == listener[c] IN
  /\ listener' = [listener EXCEPT ![c] = NoRun]
  /\ timer' = timer \ {r}
  /\ Settle(r, answer, by)
  /\ UNCHANGED <<queue, holder, idle, calls, down>>

\* removeAllListeners, clearTimeout, pool.release, answer.
Finish(c, answer, by) ==
  LET r == listener[c] IN
  /\ listener' = [listener EXCEPT ![c] = NoRun]
  /\ timer' = timer \ {r}
  /\ holder' = [holder EXCEPT ![c] = NoRun]
  /\ idle' = idle \cup {c}
  /\ Settle(r, answer, by)
  /\ UNCHANGED <<queue, calls, down>>

\* The script returned: its value resolves the run that listens.
OnDone(c, m) ==
  /\ m.type = "done"
  /\ Finish(c, "resolved", m.run)

\* handleChildError: the script threw, the child exited, or a send failed.  A
\* child that is dead goes back to the pool like any other.
OnError(c, m) ==
  /\ m.type \in {"error", "exit", "sendError"}
  /\ Finish(c, "rejected", m.run)

\* A call of a context function: executed under the context of the run that
\* listens.  A call of $errors rejects that run first.
OnCall(c, m) ==
  /\ m.type \in {"call", "errors"}
  /\ calls' = calls \cup {[script |-> m.run, child |-> c, ctx |-> listener[c],
                           awaited |-> m.awaited, errors |-> m.type = "errors"]}
  /\ IF m.type = "errors"
       THEN Settle(listener[c], "rejected", m.run)
       ELSE UNCHANGED <<result, answeredBy>>
  /\ UNCHANGED <<poolVars, listener, timer, down>>

\* A message reaches the parent; without listeners it is dropped.
Deliver(c) ==
  /\ ~down
  /\ inbox[c] # <<>>
  /\ inbox' = [inbox EXCEPT ![c] = Tail(@)]
  /\ IF listener[c] = NoRun
       THEN UNCHANGED <<poolVars, parentVars>>
       ELSE OnDone(c, Head(inbox[c])) \/ OnError(c, Head(inbox[c])) \/ OnCall(c, Head(inbox[c]))
  /\ UNCHANGED <<childVars, slow>>

\* The parent has executed a call and sends its result.  An awaited call lets
\* the script go on; the failure of an un-awaited one is an unhandled rejection
\* in the child.  To a dead child the send is lost or raises an 'error' event,
\* which nobody handles once the listeners are gone.
FinishCall(k) ==
  /\ ~down
  /\ k \in calls
  /\ calls' = calls \ {k}
  /\ IF k.child \in alive
       THEN /\ blocked' = IF k.awaited THEN blocked \ {k.script} ELSE blocked
            /\ \/ k.awaited /\ UNCHANGED inbox
               \/ ~k.awaited /\ ~k.errors /\ UNCHANGED inbox
               \/ ~k.awaited /\ Post(k.child, Msg("error", k.script, FALSE))
            /\ UNCHANGED down
       ELSE /\ \/ UNCHANGED <<inbox, down>>
               \/ /\ listener[k.child] # NoRun
                  /\ Post(k.child, Msg("sendError", NoRun, FALSE))
                  /\ UNCHANGED down
               \/ /\ listener[k.child] = NoRun
                  /\ down' = TRUE
                  /\ UNCHANGED inbox
            /\ UNCHANGED blocked
  /\ UNCHANGED <<poolVars, listener, timer, result, answeredBy, alive, scripts,
                 made, exits, slow>>

\* The path of a call names no function: the script gets no answer.
IgnoreCall(k) ==
  /\ ~down
  /\ k \in calls /\ k.script \in slow
  /\ calls' = calls \ {k}
  /\ UNCHANGED <<poolVars, listener, timer, result, answeredBy, down, childVars,
                 inbox, slow>>

\* Mutant: the child is returned to the pool and not killed.
TimeoutRelease(c) ==
  LET r == listener[c] IN
  /\ ~down
  /\ r \in timer /\ r \in slow
  /\ listener' = [listener EXCEPT ![c] = NoRun]
  /\ timer' = timer \ {r}
  /\ holder' = [holder EXCEPT ![c] = NoRun]
  /\ idle' = idle \cup {c}
  /\ Settle(r, "timedOut", NoRun)
  /\ UNCHANGED <<queue, calls, down, childVars, inbox, slow>>

\* Mutant: the child is killed and the run not rejected.
TimeoutSilent(c) ==
  LET r == listener[c] IN
  /\ ~down
  /\ r \in timer /\ r \in slow
  /\ listener' = [listener EXCEPT ![c] = NoRun]
  /\ timer' = timer \ {r}
  /\ alive' = alive \ {c}
  /\ scripts' = [scripts EXCEPT ![c] = {}]
  /\ UNCHANGED <<poolVars, result, answeredBy, calls, down, blocked, made, exits,
                 inbox, slow>>

\* The timeout: listeners off, child killed, run rejected.  The child is not
\* given back to the pool, so its slot is gone.
Timeout(c) ==
  LET r == listener[c] IN
  /\ ~down
  /\ r \in timer /\ r \in slow
  /\ listener' = [listener EXCEPT ![c] = NoRun]
  /\ timer' = timer \ {r}
  /\ alive' = alive \ {c}
  /\ scripts' = [scripts EXCEPT ![c] = {}]
  /\ Settle(r, "timedOut", NoRun)
  /\ UNCHANGED <<poolVars, calls, down, blocked, made, exits, inbox, slow>>

-----------------------------------------------------------------------------
(* The child: the runner and the user's script. *)

Executing(c, r) == ~down /\ c \in alive /\ r \in scripts[c] /\ r \notin blocked

\* The script calls a context function and awaits it, or (Detached) does not.
ScriptCall(c, r) ==
  /\ Executing(c, r)
  /\ made[r] < MaxCalls
  /\ made' = [made EXCEPT ![r] = @ + 1]
  /\ \E t \in {"call", "errors"}, a \in BOOLEAN :
       /\ a \/ Detached
       /\ Post(c, Msg(t, r, a))
       /\ blocked' = IF a THEN blocked \cup {r} ELSE blocked
  /\ UNCHANGED <<poolVars, parentVars, alive, scripts, exits, slow>>

\* The script returns or throws.
ScriptEnd(c, r) ==
  /\ Executing(c, r)
  /\ \E t \in {"done", "error"} : Post(c, Msg(t, r, FALSE))
  /\ scripts' = [scripts EXCEPT ![c] = @ \ {r}]
  /\ UNCHANGED <<poolVars, parentVars, alive, blocked, made, exits, slow>>

\* The child process ends by itself (out of memory, process.exit in a script).
ChildExit(c) ==
  /\ ~down
  /\ c \in alive /\ exits < MaxExits
  /\ alive' = alive \ {c}
  /\ scripts' = [scripts EXCEPT ![c] = {}]
  /\ exits' = exits + 1
  /\ Post(c, Msg("exit", NoRun, FALSE))
  /\ UNCHANGED <<poolVars, parentVars, blocked, made, slow>>

-----------------------------------------------------------------------------

Next ==
  \/ \E r \in Runs : Run(r)
  \/ \E c \in Children : Acquire(c) \/ Deliver(c) \/ Timeout(c) \/ ChildExit(c)
  \/ \E k \in calls : FinishCall(k) \/ IgnoreCall(k)
  \/ \E c \in Children, r \in Runs : ScriptCall(c, r) \/ ScriptEnd(c, r)

Spec == Init /\ [][Next]_vars

\* The event loop serves the pool's queue, the messages and the timers; the
\* functions of the context return; a script that is not slow ends.  Requests
\* and exits are never forced.
Fairness ==
  /\ WF_vars(\E c \in Children : Acquire(c))
  /\ WF_vars(\E k \in calls : FinishCall(k))
  /\ \A c \in Children : WF_vars(Deliver(c)) /\ WF_vars(Timeout(c))
  /\ \A c \in Children, r \in Runs : WF_vars(r \notin slow /\ ScriptEnd(c, r))

FairSpec == Spec /\ Fairness

-----------------------------------------------------------------------------
(* Properties. *)

Call == [script : Runs, child : Children, ctx : Runs, awaited : BOOLEAN, errors : BOOLEAN]

\* Every variable stays in its domain; among others, no call is executed
\* without the context of a run.
TypeOK ==
  /\ queue \in Seq(Runs) /\ idle \subseteq Children
  /\ holder \in [Children -> Runs \cup {NoRun}]
  /\ alive \subseteq Children
  /\ listener \in [Children -> Runs \cup {NoRun}]
  /\ timer \subseteq Runs /\ blocked \subseteq Runs /\ slow \subseteq Runs
  /\ result \in [Runs -> Answers]
  /\ answeredBy \in [Runs -> Runs \cup {NoRun}]
  /\ scripts \in [Children -> SUBSET Runs]
  /\ made \in [Runs -> 0..MaxCalls]
  /\ inbox \in [Children -> Seq(Message)]
  /\ calls \subseteq Call
  /\ exits \in 0..MaxExits /\ down \in BOOLEAN

\* docs/ARCHITECTURE.md:148 and 163, "isolated execution environment" and
\* "context": a run is answered by its own script, and a call a script makes is
\* executed under the context of its own request.  (Holds of scripts that await
\* every call; refuted for those that do not.)
IsolatedRuns ==
  /\ \A r \in Runs : answeredBy[r] \in {NoRun, r}
  /\ \A k \in calls : k.ctx = k.script

\* A child out of the pool belongs to exactly the run that listens on it and
\* has its timer armed, or is one a timeout killed: no other way of ending a
\* run keeps or shares a child.
SlotsAccounted ==
  /\ \A c \in Children :
       IF c \in idle
         THEN holder[c] = NoRun /\ listener[c] = NoRun
         ELSE \/ holder[c] # NoRun /\ listener[c] = holder[c] /\ holder[c] \in timer
              \/ result[holder[c]] \in {"timedOut", "rejected"} /\ c \notin alive
  /\ \A c, d \in Children : c # d /\ holder[c] = holder[d] => holder[c] = NoRun

\* As long as not every slot has been lost to a timeout, every request is
\* answered (or the server has gone down).
EveryRunEnds ==
  \A r \in Runs : (\E i \in 1..Len(queue) : queue[i] = r) ~> (result[r] # "none" \/ down)

\* docs/ARCHITECTURE.md:145-151 and 158: "manage timeouts and resource
\* cleanup", "handle process lifecycle".  Once every run has been answered and
\* nothing is on its way, the pool is whole again.  Refuted: a timeout keeps
\* its slot for good, and a child that exited goes back to the pool dead.
PoolRecovers ==
  (\A r \in Runs : result[r] # "none") /\ (\A c \in Children : inbox[c] = <<>> /\ scripts[c] = {})
    => idle = Children /\ alive = Children
=============================================================================
