------------------------------- MODULE JobPool -------------------------------
(***************************************************************************)
(* shell/core/cli_job.c with what it uses of cli_core.c, cli_session.c and *)
(* cli_printf.c: background jobs.  `cmd &` takes a slot of a fixed pool    *)
(* and starts a worker thread in it; whoever next runs a line, a launch or *)
(* `jobs` -- a shell, or a job running `jobs &` -- reaps the finished ones *)
(* and announces them; `kill %n` latches a cooperative cancel.  A job      *)
(* prints on the terminal of the shell it came from, under that shell's    *)
(* output lock, and the terminal may stop taking bytes.                    *)
(*                                                                         *)
(* A step is a critical section (TX_DISABLE), a ThreadX call, or what lies *)
(* between two of them.  Steps of any two actors interleave, which allows  *)
(* more than the priorities do.  Abstracted: the text of commands and      *)
(* output, the clock (a timeout is a step), the line editor.               *)
(***************************************************************************)
EXTENDS Integers, FiniteSets

CONSTANTS
    Shells,     \* the interactive shells
    NSlots,     \* CLI_MAX_BG_JOBS
    MaxJobs,    \* bound: jobs launched
    Nobody      \* no owner of an output lock

ASSUME JobAssumption ==
    /\ NSlots \in Nat /\ MaxJobs \in Nat
    /\ IsFiniteSet(Shells)
    /\ Shells \cap (1 .. NSlots) = {} /\ Nobody \notin Shells \cup (1 .. NSlots)

Slots == 1 .. NSlots
Ids == 1 .. MaxJobs
Actors == Shells \cup Slots      \* a slot stands for its worker thread, too

VARIABLES
    state,      \* cli_jobs[].state
    id,         \* cli_jobs[].id, 0 when free
    fg,         \* cli_jobs[].inst.fg, the shell a job came from
    cancel,     \* cli_jobs[].inst.cancel_req
    wake,       \* CLI_EVT_KILL in cli_jobs[].inst.events
    nextId,     \* cli_job_next_id
    completed,  \* slots whose tx_thread_state reads COMPLETED
    created,    \* slots whose TX_THREAD exists
    registered, \* slots in the thread registry (cli_thread_reg)
    lock,       \* owner of each shell's tx_lock
    pc,         \* where each actor is
    at,         \* the slot it works on, or the one its loop goes on with
    goal,       \* what its reaping is for
    after,      \* where it goes on once it has printed
    killed,     \* ghost: ids in the pool that a kill found running
    announced   \* ghost: ids reaped, or whose launch failed

poolVars == <<state, id, nextId, announced>>
cancelVars == <<cancel, wake, killed>>
threadVars == <<completed, created>>
actorVars == <<pc, at, goal, after>>
vars == <<poolVars, cancelVars, threadVars, fg, registered, lock, actorVars>>

Goto(a, where) == pc' = [pc EXCEPT ![a] = where]
Say(a, then) == Goto(a, "lock") /\ after' = [after EXCEPT ![a] = then]

\* A shell goes on with its line; a worker's segment is all it runs.
Done(a) == IF a \in Shells THEN "segment" ELSE "unregister"

Terminal(a) == IF a \in Shells THEN a ELSE fg[a]

FreeSlots == {i \in Slots : state[i] = "FREE"}
Lowest(i, S) == i \in S /\ \A j \in S : i <= j

------------------------------------------------------------------------------
Init ==
    /\ state = [i \in Slots |-> "FREE"] /\ id = [i \in Slots |-> 0]
    /\ nextId = 1 /\ announced = {}
    /\ cancel = [i \in Slots |-> FALSE] /\ wake = [i \in Slots |-> FALSE]
    /\ killed = {}
    /\ completed = {} /\ created = {} /\ registered = {}
    /\ fg = [i \in Slots |-> Nobody]
    /\ lock = [s \in Shells |-> Nobody]
    /\ pc = [a \in Actors |-> IF a \in Shells THEN "idle" ELSE "none"]
    /\ at = [a \in Actors |-> 1] /\ goal = [a \in Actors |-> "line"]
    /\ after = [a \in Actors |-> "idle"]

------------------------------------------------------------------------------
(* Output: every print takes the terminal's lock and sends.                *)

Lock(a) ==
    /\ pc[a] = "lock" /\ lock[Terminal(a)] = Nobody
    /\ lock' = [lock EXCEPT ![Terminal(a)] = a]
    /\ Goto(a, "send")
    /\ UNCHANGED <<poolVars, cancelVars, threadVars, fg, registered, at, goal, after>>

Unlock(a) ==
    /\ pc[a] = "send"
    /\ lock' = [lock EXCEPT ![Terminal(a)] = Nobody]
    /\ Goto(a, after[a]) /\ after' = [after EXCEPT ![a] = "idle"]
    /\ UNCHANGED <<poolVars, cancelVars, threadVars, fg, registered, at, goal>>

\* The terminal takes the bytes.
Sent(a) == Unlock(a)

\* A job waits for room in slices, on its own KILL event.
SendPolls(w) ==
    /\ pc[w] = "send" /\ wake[w]
    /\ wake' = [wake EXCEPT ![w] = FALSE]
    /\ UNCHANGED <<poolVars, cancel, killed, threadVars, fg, registered, lock, actorVars>>

\* Mutant: a job waits for room without a deadline.
SendDroppedByShell(a) == a \in Shells /\ Unlock(a)

\* The terminal takes none for CLI_TX_TIMEOUT ticks, or the job is cancelled:
\* the rest is dropped.
SendDropped(a) == Unlock(a)

------------------------------------------------------------------------------
(* Reaping (cli_jobs_reap).                                                *)

ReapFrom(a, why) ==
    /\ Goto(a, "reap")
    /\ at' = [at EXCEPT ![a] = 1]
    /\ goal' = [goal EXCEPT ![a] = why]

Reapable(i) == state[i] = "RUNNING" /\ i \in completed

\* The slots its loop has not passed yet.
ToReap(a) == {i \in Slots : i >= at[a] /\ Reapable(i)}

ReapClaim(a) ==
    /\ pc[a] = "reap"
    /\ \E i \in Slots :
         /\ Lowest(i, ToReap(a))
         /\ state' = [state EXCEPT ![i] = "REAPING"]
         /\ at' = [at EXCEPT ![a] = i]
    /\ Goto(a, "delete")
    /\ UNCHANGED <<id, nextId, announced, cancelVars, threadVars, fg, registered, lock,
                   goal, after>>

\* The completed thread's memory still reads COMPLETED after the delete.
ReapDelete(a) ==
    /\ pc[a] = "delete"
    /\ registered' = registered \ {at[a]}
    /\ created' = created \ {at[a]}
    /\ Say(a, "free")
    /\ UNCHANGED <<poolVars, cancelVars, completed, fg, lock, at, goal>>

ReapFree(a) ==
    /\ pc[a] = "free"
    /\ announced' = announced \cup {id[at[a]]}
    /\ id' = [id EXCEPT ![at[a]] = 0]
    /\ state' = [state EXCEPT ![at[a]] = "FREE"]
    /\ Goto(a, "reap") /\ at' = [at EXCEPT ![a] = @ + 1]
    /\ killed' = killed \ {id[at[a]]}
    /\ UNCHANGED <<nextId, cancel, wake, threadVars, fg, registered, lock, goal, after>>

\* What the reaping was for: a new line, a launch, `jobs`.
ReapEnd(a) ==
    /\ pc[a] = "reap" /\ ToReap(a) = {}
    /\ \/ goal[a] = "line" /\ Goto(a, Done(a)) /\ UNCHANGED after
       \/ goal[a] = "launch" /\ Goto(a, "claim") /\ UNCHANGED after
       \/ goal[a] = "jobs" /\ Say(a, Done(a))
    /\ at' = [at EXCEPT ![a] = 1] /\ goal' = [goal EXCEPT ![a] = "line"]
    /\ UNCHANGED <<poolVars, cancelVars, threadVars, fg, registered, lock>>

------------------------------------------------------------------------------
(* Launching (cli_job_launch), from a shell.                               *)

InstReset(i, s) ==
    /\ fg' = [fg EXCEPT ![i] = s]
    /\ cancel' = [cancel EXCEPT ![i] = FALSE]
    /\ wake' = [wake EXCEPT ![i] = FALSE]

\* Mutant: the slot counts as RUNNING before its thread exists.
LaunchClaimRuns(s) ==
    /\ pc[s] = "claim" /\ nextId <= MaxJobs
    /\ \E i \in Slots :
         /\ Lowest(i, FreeSlots)
         /\ state' = [state EXCEPT ![i] = "RUNNING"]
         /\ id' = [id EXCEPT ![i] = nextId]
         /\ InstReset(i, s)
         /\ registered' = registered \cup {i}
         /\ at' = [at EXCEPT ![s] = i]
    /\ nextId' = nextId + 1
    /\ Goto(s, "create")
    /\ UNCHANGED <<announced, killed, threadVars, lock, goal, after>>

\* A slot of its own, reset for the new job, the thread in the registry.
LaunchClaim(s) ==
    /\ pc[s] = "claim" /\ nextId <= MaxJobs
    /\ \E i \in Slots :
         /\ Lowest(i, FreeSlots)
         /\ state' = [state EXCEPT ![i] = "LAUNCHING"]
         /\ id' = [id EXCEPT ![i] = nextId]
         /\ InstReset(i, s)
         /\ registered' = registered \cup {i}
         /\ at' = [at EXCEPT ![s] = i]
    /\ nextId' = nextId + 1
    /\ Goto(s, "create")
    /\ UNCHANGED <<announced, killed, threadVars, lock, goal, after>>

LaunchTooMany(s) ==
    /\ pc[s] = "claim" /\ FreeSlots = {}
    /\ Say(s, Done(s))
    /\ UNCHANGED <<poolVars, cancelVars, threadVars, fg, registered, lock, at, goal>>

\* The thread exists and is ready: it may run before its slot says RUNNING.
LaunchCreate(s) ==
    /\ pc[s] = "create"
    /\ created' = created \cup {at[s]}
    /\ completed' = completed \ {at[s]}
    /\ pc' = [pc EXCEPT ![s] = "started", ![at[s]] = "segment"]
    /\ UNCHANGED <<poolVars, cancelVars, fg, registered, lock, at, goal, after>>

\* tx_thread_create() refuses.  The code frees the slot before it zeroes the
\* id; only a shell launches and no shell preempts another, so that no claim
\* comes between the two.
LaunchRefused(s) ==
    /\ pc[s] = "create"
    /\ registered' = registered \ {at[s]}
    /\ announced' = announced \cup {id[at[s]]}
    /\ state' = [state EXCEPT ![at[s]] = "FREE"]
    /\ id' = [id EXCEPT ![at[s]] = 0]
    /\ Say(s, Done(s)) /\ at' = [at EXCEPT ![s] = 1]
    /\ UNCHANGED <<nextId, cancelVars, threadVars, fg, lock, goal>>

LaunchStarted(s) ==
    /\ pc[s] = "started"
    /\ state' = [state EXCEPT ![at[s]] = "RUNNING"]
    /\ Say(s, Done(s)) /\ at' = [at EXCEPT ![s] = 1]
    /\ UNCHANGED <<id, nextId, announced, cancelVars, threadVars, fg, registered, lock, goal>>

------------------------------------------------------------------------------
(* `kill %n` (cli_job_kill): match and latch are one critical section.     *)

Matches(i, n) == state[i] = "RUNNING" /\ id[i] = n

KillFound(a) ==
    /\ pc[a] = "segment"
    /\ \E i \in Slots, n \in Ids :
         /\ Matches(i, n)
         /\ cancel' = [cancel EXCEPT ![i] = TRUE]
         /\ wake' = [wake EXCEPT ![i] = TRUE]
         /\ killed' = killed \cup {n}
    /\ Say(a, Done(a))
    /\ UNCHANGED <<poolVars, threadVars, fg, registered, lock, at, goal>>

KillNoSuchJob(a) ==
    /\ pc[a] = "segment"
    /\ \E n \in Ids : \A i \in Slots : ~Matches(i, n)
    /\ Say(a, Done(a))
    /\ UNCHANGED <<poolVars, cancelVars, threadVars, fg, registered, lock, at, goal>>

------------------------------------------------------------------------------
(* Lines and segments (cli_dispatch_line, cli_dispatch_segment): a shell   *)
(* reaps and runs the segments of its line, a worker runs its one segment. *)

Enter(s) ==
    /\ pc[s] = "idle"
    /\ ReapFrom(s, "line")
    /\ UNCHANGED <<poolVars, cancelVars, threadVars, fg, registered, lock, after>>

EndLine(s) ==
    /\ pc[s] = "segment"
    /\ Say(s, "idle")
    /\ UNCHANGED <<poolVars, cancelVars, threadVars, fg, registered, lock, at, goal>>

\* `cmd &`; a lone `&` reaps and starts nothing.
SegmentLaunch(s) ==
    /\ pc[s] = "segment"
    /\ (nextId <= MaxJobs /\ ReapFrom(s, "launch")) \/ ReapFrom(s, "line")
    /\ UNCHANGED <<poolVars, cancelVars, threadVars, fg, registered, lock, after>>

SegmentJobs(a) ==
    /\ pc[a] = "segment"
    /\ ReapFrom(a, "jobs")
    /\ UNCHANGED <<poolVars, cancelVars, threadVars, fg, registered, lock, after>>

\* A job's dispatch leaves cancel_req alone: the kill may have come first.
SegmentWork(w) ==
    /\ pc[w] = "segment"
    /\ Goto(w, "work")
    /\ UNCHANGED <<poolVars, cancelVars, threadVars, fg, registered, lock, at, goal,
                   after>>

------------------------------------------------------------------------------
(* A long-running command: it polls for a cancel (cli_cancel_poll), prints *)
(* and sleeps (cli_sleep).                                                 *)

WorkCancelled(w) ==
    /\ pc[w] = "work" /\ cancel[w]
    /\ Goto(w, "unregister")
    /\ UNCHANGED <<poolVars, cancelVars, threadVars, fg, registered, lock, at, goal,
                   after>>

WorkOn(w) ==
    /\ pc[w] = "work" /\ ~cancel[w]
    /\ \/ Say(w, "work")
       \/ (Goto(w, "sleep") \/ Goto(w, "unregister")) /\ UNCHANGED after
    /\ UNCHANGED <<poolVars, cancelVars, threadVars, fg, registered, lock, at, goal>>

SleepKilled(w) ==
    /\ pc[w] = "sleep" /\ wake[w]
    /\ wake' = [wake EXCEPT ![w] = FALSE]
    /\ Goto(w, "unregister")
    /\ UNCHANGED <<poolVars, cancel, killed, threadVars, fg, registered, lock, at, goal,
                   after>>

\* `sleep 86400` does not end in any time worth waiting for.
SleepEnds(w) ==
    /\ pc[w] = "sleep" /\ ~wake[w]
    /\ Goto(w, "work")
    /\ UNCHANGED <<poolVars, cancelVars, threadVars, fg, registered, lock, at, goal,
                   after>>

\* The return epilogue (cli_job_entry): off the registry, then COMPLETED.
Unregister(w) ==
    /\ pc[w] = "unregister"
    /\ registered' = registered \ {w}
    /\ Goto(w, "return")
    /\ UNCHANGED <<poolVars, cancelVars, threadVars, fg, lock, at, goal, after>>

Return(w) ==
    /\ pc[w] = "return"
    /\ completed' = completed \cup {w}
    /\ Goto(w, "none")
    /\ UNCHANGED <<poolVars, cancelVars, created, fg, registered, lock, at, goal,
                   after>>

------------------------------------------------------------------------------
Reaping(a) == ReapClaim(a) \/ ReapDelete(a) \/ ReapFree(a) \/ ReapEnd(a)

Launching(s) == \/ LaunchClaim(s) \/ LaunchTooMany(s)
                \/ LaunchCreate(s) \/ LaunchRefused(s) \/ LaunchStarted(s)

Killing(a) == KillFound(a) \/ KillNoSuchJob(a)

Working(w) == \/ SegmentWork(w) \/ WorkOn(w) \/ WorkCancelled(w) \/ SleepKilled(w)
              \/ Unregister(w) \/ Return(w) \/ SendPolls(w)

\* What a thread does without waiting for a key, a terminal or a long sleep.
Continue(a) == \/ Reaping(a) \/ Killing(a) \/ SegmentJobs(a)
               \/ a \in Shells /\ (Launching(a) \/ SegmentLaunch(a) \/ EndLine(a))
               \/ a \in Slots /\ Working(a)

Next == \/ \E a \in Actors : Continue(a) \/ Lock(a) \/ Sent(a) \/ SendDropped(a)
        \/ \E s \in Shells : Enter(s)
        \/ \E w \in Slots : SleepEnds(w)

Spec == Init /\ [][Next]_vars

(* Threads that can run do, time passes, and the mutex goes to a waiter    *)
(* when it is put.  Nobody has to type, no terminal has to take a byte and *)
(* no sleep has to end.                                                    *)
Fairness == \A a \in Actors : 
    WF_vars(Continue(a)) /\ WF_vars(SendDropped(a)) /\ SF_vars(Lock(a))

FairSpec == Spec /\ Fairness

------------------------------------------------------------------------------
Alive(w) == w \in created \ completed

PoolTypes ==
    /\ state \in [Slots -> {"FREE", "LAUNCHING", "RUNNING", "REAPING"}]
    /\ id \in [Slots -> Ids \cup {0}] /\ nextId \in 1 .. MaxJobs + 1
    /\ announced \subseteq Ids

JobTypes ==
    /\ fg \in [Slots -> Shells \cup {Nobody}]
    /\ cancel \in [Slots -> BOOLEAN] /\ wake \in [Slots -> BOOLEAN]
    /\ killed \subseteq Ids

ThreadTypes ==
    completed \subseteq Slots /\ created \subseteq Slots /\ registered \subseteq Slots

LockType == lock \in [Shells -> Actors \cup {Nobody}]

Places == {"idle", "none", "segment", "lock", "send", "reap", "delete", "free", "claim",
           "create", "started", "work", "sleep", "unregister", "return"}

PlaceTypes ==
    /\ pc \in [Actors -> Places]
    /\ at \in [Actors -> 1 .. NSlots + 1]
    /\ goal \in [Actors -> {"line", "launch", "jobs"}]
    /\ after \in [Actors -> {"idle", "segment", "unregister", "free", "work"}]

TypeOK == PoolTypes /\ JobTypes /\ ThreadTypes /\ LockType /\ PlaceTypes

(* The pool never pulls a thread from under itself: what a reaper deletes   *)
(* has returned, has not been deleted, and is no other reaper's; a slot on  *)
(* offer holds no thread; and no terminal's lock is held by a dead job.     *)
HasClaimed(a) == \/ pc[a] \in {"delete", "free"}
                 \/ pc[a] \in {"lock", "send"} /\ after[a] = "free"

NoLiveThreadReaped ==
    /\ \A a \in Actors : pc[a] = "delete" => at[a] \in created \cap completed
    /\ \A a, b \in Actors : HasClaimed(a) /\ HasClaimed(b) /\ at[a] = at[b] => a = b
    /\ \A i \in Slots : state[i] = "FREE" => i \notin created \cup registered
    /\ \A s \in Shells : lock[s] \in Slots => Alive(lock[s])

(* A kill hits the job it names and sticks: a running job is cancelled      *)
(* exactly if a kill found its id, also when the kill came before the job   *)
(* first ran, and never because of what an earlier tenant of the slot did.  *)
KillHitsItsJob ==
    \A w \in Slots : state[w] = "RUNNING" => (cancel[w] <=> id[w] \in killed)

(* Every id handed out is in one slot or was announced, never both, so that *)
(* each job is announced once; and a job can print only while the registry  *)
(* routes its output and its slot says it is there.                         *)
JobsAccounted ==
    /\ \A n \in 1 .. nextId - 1 :
         n \in announced <=> ~\E i \in Slots : id[i] = n
    /\ \A i, j \in Slots : id[i] = id[j] /\ id[i] # 0 => i = j
    /\ \A w \in Slots : pc[w] \notin {"none", "return"} =>
         w \in registered /\ state[w] \in {"LAUNCHING", "RUNNING"}

(* What the commands and the jobs of several shells may never do to the pool. *)
JobsSound == NoLiveThreadReaped /\ KillHitsItsJob /\ JobsAccounted

\* What the above rests on: who launches or reaps a slot has it alone, in the
\* state the pool has for it; a worker is somewhere exactly while its thread
\* lives; a slot has an id, from those handed out, exactly while it is taken;
\* and a lock's owner is in the send it took the lock for.
Launches(a) == pc[a] \in {"create", "started"}
Owns(a) == Launches(a) \/ HasClaimed(a)

OwnerInv ==
    /\ \A a \in Actors :
         /\ Owns(a) => at[a] \in Slots
         /\ Launches(a) => a \in Shells /\ state[at[a]] = "LAUNCHING"
         /\ HasClaimed(a) => state[at[a]] = "REAPING"
         /\ pc[a] = "create" => at[a] \in registered \ created
         /\ pc[a] \in {"started", "delete"} => at[a] \in created
         /\ HasClaimed(a) /\ pc[a] # "delete" => at[a] \notin created \cup registered
    /\ \A a, b \in Actors : Owns(a) /\ Owns(b) /\ at[a] = at[b] => a = b

ThreadInv ==
    \A w \in Slots : /\ pc[w] # "none" <=> Alive(w)
                     /\ state[w] = "FREE" => w \notin created \cup registered
                     /\ state[w] = "RUNNING" => w \in created
                     /\ state[w] = "REAPING" => w \in completed

IdInv ==
    /\ \A w \in Slots : /\ id[w] < nextId
                        /\ id[w] = 0 <=> state[w] = "FREE"
                        /\ state[w] = "LAUNCHING" => ~cancel[w] /\ id[w] \notin killed
    /\ \A n \in announced \cup killed : n < nextId

LockInv ==
    \A s \in Shells : lock[s] # Nobody => pc[lock[s]] = "send" /\ Terminal(lock[s]) = s

JobInv == TypeOK /\ KillHitsItsJob /\ JobsAccounted /\ OwnerInv /\ ThreadInv
          /\ IdInv /\ LockInv

(* No print waits for ever, for the lock or in the send, whatever the       *)
(* terminals do: a job gives its shell's lock back.                         *)
PrintsEnd == \A a \in Actors : pc[a] \in {"lock", "send"} ~> pc[a] \notin {"lock", "send"}

(* A job that was killed returns, whatever it was doing when the kill came. *)
KilledEnds == \A w \in Slots : Alive(w) /\ cancel[w] ~> ~Alive(w)

(* Neither a terminal that stops taking bytes nor a full pool makes a shell  *)
(* or a job hang: prints end, and killed jobs do.                            *)
JobsSettle == PrintsEnd /\ KilledEnds
=============================================================================
