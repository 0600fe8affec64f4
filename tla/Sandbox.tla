------------------------------ MODULE Sandbox ------------------------------
(***************************************************************************)
(* SandboxLab.execute (agi_platform/sandbox/core.py), called by handlers   *)
(* in threads: validate the command, make a workspace, run the command     *)
(* with subprocess.run(capture_output, timeout), remove the workspace,     *)
(* record the run.                                                         *)
(*                                                                         *)
(* A command is a process, the child, that may start others and hand them  *)
(* its output pipes.  subprocess.run waits until nobody holds the pipes    *)
(* any more and the child has exited; when the time is over it kills the   *)
(* child, and only it: setsid gives the command a group nobody signals.    *)
(*                                                                         *)
(* allowed stands for the allowlist and the denied tokens.  Output and the *)
(* limits of _apply_process_limits, which only end processes earlier or    *)
(* keep them from starting, are left out.                                  *)
(***************************************************************************)
EXTENDS Integers, Sequences, FiniteSets, FiniteSetsExt

CONSTANTS
    Calls,      \* one call of execute each
    Kids,       \* what a command may start besides the child, per call
    Timeouts,   \* timeout_seconds of a request
    MaxTimeout, \* SandboxPolicy.max_timeout_seconds
    MaxClock    \* bound on the clock

ASSUME TimeoutAssumption == MaxTimeout \in Nat \ {0} /\ Timeouts \subseteq Int

Child == "child"

VARIABLES
    call,      \* where each call is
    child,     \* the direct child of each call
    kids,      \* the other live processes of each call
    pipes,     \* those of its processes that hold stdout or stderr
    workspace, \* the calls whose temporary directory exists
    runs,      \* SandboxLab.runs
    clock

processes == <<child, kids, pipes>>
vars == <<call, child, kids, pipes, workspace, runs, clock>>

------------------------------------------------------------------------------
Init ==
    /\ call = [c \in Calls |-> [at |-> "idle"]]
    /\ child = [c \in Calls |-> "none"]
    /\ kids = [c \in Calls |-> {}]
    /\ pipes = [c \in Calls |-> {}]
    /\ workspace = {}
    /\ runs = <<>>
    /\ clock = 0

Goto(c, state) == call' = [call EXCEPT ![c] = state]
Step(c, from, to) == call[c].at = from /\ Goto(c, [call[c] EXCEPT !.at = to])

\* execute has raised or returned.
Done(c) == Goto(c, [at |-> "done"])

------------------------------------------------------------------------------
(* execute *)

\* validate raises ValueError.
Denied(c, allowed, timeout) ==
    /\ call[c].at = "idle"
    /\ ~allowed \/ timeout < 1
    /\ Done(c)
    /\ UNCHANGED <<processes, workspace, runs, clock>>

EffectiveTimeout(timeout) == Min({timeout, MaxTimeout})

\* validate, then the workspace.
Execute(c, allowed, timeout) ==
    /\ call[c].at = "idle"
    /\ allowed /\ timeout >= 1
    /\ clock + MaxTimeout <= MaxClock \* its time is within the bound
    /\ Goto(c, [at |-> "popen", timeout |-> EffectiveTimeout(timeout)])
    /\ workspace' = workspace \cup {c}
    /\ UNCHANGED <<processes, runs, clock>>

\* fork and exec; communicate computes its deadline.
Popen(c) ==
    /\ call[c].at = "popen"
    /\ clock + call[c].timeout <= MaxClock
    /\ Goto(c, [at |-> "communicate", deadline |-> clock + call[c].timeout])
    /\ child' = [child EXCEPT ![c] = "running"]
    /\ pipes' = [pipes EXCEPT ![c] = {Child}]
    /\ UNCHANGED <<kids, workspace, runs, clock>>

\* OSError or SubprocessError: the command is not installed, or a limit
\* cannot be set.
PopenFails(c) ==
    /\ Step(c, "popen", "raising")
    /\ UNCHANGED <<processes, workspace, runs, clock>>

\* Mutant: the end of the child is taken for the end of its output.
OutputEndedWithChild(c) == child[c] = "exited"

OutputEnded(c) == pipes[c] = {}

EndOfOutput(c) ==
    /\ Step(c, "communicate", "wait")
    /\ OutputEnded(c)
    /\ clock <= call[c].deadline
    /\ UNCHANGED <<processes, workspace, runs, clock>>

Result(c, timedOut) ==
    Goto(c, [at |-> "cleanup", result |-> [call |-> c, timed_out |-> timedOut]])

Completed(c) ==
    /\ call[c].at = "wait"
    /\ child[c] = "exited"
    /\ Result(c, FALSE)
    /\ UNCHANGED <<processes, workspace, runs, clock>>

\* The output is not UTF-8: UnicodeDecodeError, a ValueError, which the API
\* reports as a denied command.
Undecodable(c) ==
    /\ child[c] = "exited"
    /\ Step(c, "wait", "raising")
    /\ UNCHANGED <<processes, workspace, runs, clock>>

\* Mutant: the output is read to its end after the child was killed.
ExpiredDrained(c) == clock >= call[c].deadline /\ kids[c] \cap pipes[c] = {}

Expired(c) == clock >= call[c].deadline

\* Mutant: nobody is killed.
KillNobody(c) == UNCHANGED <<child, pipes>>

\* process.kill and process.wait.
Kill(c) ==
    /\ child' = [child EXCEPT ![c] = "exited"]
    /\ pipes' = [pipes EXCEPT ![c] = @ \ {Child}]

\* TimeoutExpired, although the processes may just have ended.
TimeOut(c) ==
    /\ \/ call[c].at = "communicate"
       \/ call[c].at = "wait" /\ child[c] = "running"
    /\ Expired(c)
    /\ Kill(c)
    /\ Result(c, TRUE)
    /\ UNCHANGED <<kids, workspace, runs, clock>>

------------------------------------------------------------------------------
(* The end of the with statement *)

\* Mutant: errors of the removal are ignored.
CleanedOrNot(c) == workspace' = workspace \/ workspace' = workspace \ {c}

Cleaned(c) == workspace' = workspace \ {c}

\* The workspace is removed and the run recorded.
Record(c) ==
    /\ call[c].at = "cleanup"
    /\ Cleaned(c)
    /\ runs' = Append(runs, call[c].result)
    /\ Done(c)
    /\ UNCHANGED <<processes, clock>>

\* The exception goes on once the workspace is removed.
Raise(c) ==
    /\ call[c].at = "raising"
    /\ Cleaned(c)
    /\ Done(c)
    /\ UNCHANGED <<processes, runs, clock>>

\* OSError: a process that was left writes files while rmtree removes them.
CleanupFails(c) ==
    /\ call[c].at \in {"cleanup", "raising"}
    /\ kids[c] # {}
    /\ Done(c)
    /\ UNCHANGED <<processes, workspace, runs, clock>>

------------------------------------------------------------------------------
(* The processes of a command *)

Alive(c) == kids[c] \cup (IF child[c] = "running" THEN {Child} ELSE {})

\* A live process starts another, with the pipes it has or without.
Spawn(c, k) ==
    /\ Alive(c) # {}
    /\ k \notin kids[c]
    /\ kids' = [kids EXCEPT ![c] = @ \cup {k}]
    /\ \/ UNCHANGED pipes
       \/ pipes[c] # {} /\ pipes' = [pipes EXCEPT ![c] = @ \cup {k}]
    /\ UNCHANGED <<call, child, workspace, runs, clock>>

ClosePipes(c, p) ==
    /\ p \in pipes[c]
    /\ pipes' = [pipes EXCEPT ![c] = @ \ {p}]
    /\ UNCHANGED <<call, child, kids, workspace, runs, clock>>

Exit(c, p) ==
    /\ p \in Alive(c)
    /\ child' = IF p = Child THEN [child EXCEPT ![c] = "exited"] ELSE child
    /\ kids' = [kids EXCEPT ![c] = @ \ {p}]
    /\ pipes' = [pipes EXCEPT ![c] = @ \ {p}]
    /\ UNCHANGED <<call, workspace, runs, clock>>

Tick ==
    /\ clock < MaxClock
    /\ clock' = clock + 1
    /\ UNCHANGED <<call, processes, workspace, runs>>

------------------------------------------------------------------------------
\* What the thread of a call does by itself once the workspace exists.
Thread(c) ==
    \/ Popen(c) \/ PopenFails(c)
    \/ EndOfOutput(c) \/ Completed(c) \/ Undecodable(c) \/ TimeOut(c)
    \/ Record(c) \/ Raise(c) \/ CleanupFails(c)

Next ==
    \/ \E c \in Calls :
          \/ \E allowed \in BOOLEAN, timeout \in Timeouts :
                Denied(c, allowed, timeout) \/ Execute(c, allowed, timeout)
          \/ Thread(c)
          \/ \E k \in Kids : Spawn(c, k)
          \/ \E p \in Kids \cup {Child} : ClosePipes(c, p) \/ Exit(c, p)
    \/ Tick

\* The OS schedules threads and time passes; what processes do is up to them.
Spec == Init /\ [][Next]_vars /\ WF_vars(Tick) /\ \A c \in Calls : WF_vars(Thread(c))

------------------------------------------------------------------------------
(* Properties *)

\* However a call of execute ends, by result, timeout or exception, the process
\* it started is dead: no command goes on behind a recorded run or an error.
ChildDead == \A c \in Calls : call[c].at = "done" => child[c] # "running"

\* A run recorded as not timed out has all of its output: no process that could
\* still write to the pipes is left, although others may be.
OutputComplete ==
    \A i \in DOMAIN runs :
        ~runs[i].timed_out => pipes[runs[i].call] = {}

\* workspace_cleaned, which execute sets to True without looking, is true of
\* every recorded run and stays so, whatever processes are left of it.
CleanedIsTrue == \A i \in DOMAIN runs : runs[i].call \notin workspace

\* Every call of execute ends, also when a process that a command left behind
\* keeps the pipes open for ever.
ExecuteEnds ==
    \A c \in Calls : call[c].at = "popen" ~> call[c].at = "done"
=============================================================================
