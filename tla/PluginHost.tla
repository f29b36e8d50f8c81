------------------------------ MODULE PluginHost ------------------------------
(***************************************************************************)
(* The plugin host of zfb-build (plugin_runner.rs): one child process that *)
(* runs the plugins' hooks, the callers that send it one line of JSON per  *)
(* request over its stdin, the two reader tasks that drain its stdout and  *)
(* its stderr, the hook timeout that kills it, and the shutdown.  The host *)
(* is the one `spawn` returns: its `init` request has been answered.       *)
(*                                                                         *)
(* A request is written in two pieces, because a line longer than what the *)
(* pipe takes at once is written piecemeal; the shutdown request is short  *)
(* and is one piece.  What a hook computes is left out: an answer is the   *)
(* identity of the request it answers, whether the hook succeeded or not.  *)
(***************************************************************************)
EXTENDS Naturals, Sequences, FiniteSets

CONSTANTS
    Calls,          \* the hook and middleware calls of a session
    Droppable,      \* those made for an HTTP request, whose future may be dropped
    Bye,            \* the shutdown request
    Owner,          \* the first caller of `shutdown`
    NoOne,          \* nobody holds a lock, or no line is half read
    PipeCapacity,   \* the pieces the stdin pipe holds
    MaxLogs         \* bound: the lines the plugins print on each output

ASSUME HostAssumption ==
    /\ Droppable \subseteq Calls
    /\ Bye \notin Calls /\ Owner \notin Calls \cup {Bye}
    /\ NoOne \notin Calls \cup {Bye, Owner}
    /\ PipeCapacity \in Nat \ {0} /\ MaxLogs \in Nat

Requests == Calls \cup {Bye}
Threads == Requests \cup {Owner}

VARIABLES
    pc,            \* [Threads -> where the call or the shutdown is]
    pending,       \* `HostInner::pending`: the requests an answer is looked up in
    answered,      \* the requests whose oneshot channel holds a reply
    stdin,         \* the holder of the mutex around the child's stdin
    pipe,          \* the pieces written and not read by the child
    child,         \* "Listening", "Spinning", "Exiting" or "Dead"
    cause,         \* why it died: "None", "Self", "Exit" or "Killed"
    rest,          \* the request whose line is half read, "Garbled", or NoOne
    working,       \* the hooks that run in the child
    inherited,     \* a process the child started keeps its outputs open
    out, err,      \* the lines in the stdout and in the stderr pipe
    logs,          \* the lines that may still be printed on each
    outReader, errReader,   \* the two reader tasks
    outHandle, errHandle,   \* their join handles are still to be taken
    handle,        \* `HostInner::child` holds the process
    childLock,     \* the holder of the mutex around it
    shuttingDown, forceKilled, deathReported,   \* the three flags of HostInner
    reports,       \* the alarms raised about the host's death
    incomplete     \* the diagnostic sink has been marked incomplete

request == <<pc, pending, answered>>
process == <<pipe, child, cause, rest, working, inherited, logs>>
outputs == <<out, err>>
readers == <<outReader, errReader, outHandle, errHandle>>
flags == <<shuttingDown, forceKilled, deathReported, reports, incomplete>>
locks == <<stdin, handle, childLock>>
vars == <<request, process, outputs, readers, flags, locks>>

Init ==
    /\ pc = [t \in Threads |-> "Idle"]
    /\ pending = {} /\ answered = {}
    /\ stdin = NoOne /\ handle = TRUE /\ childLock = NoOne
    /\ pipe = <<>> /\ child = "Listening" /\ cause = "None"
    /\ rest = NoOne /\ working = {} /\ inherited = FALSE
    /\ out = <<>> /\ err = 0 /\ logs = [out |-> MaxLogs, err |-> MaxLogs]
    /\ outReader = "Reading" /\ errReader = "Reading"
    /\ outHandle = TRUE /\ errHandle = TRUE
    /\ shuttingDown = FALSE /\ forceKilled = FALSE /\ deathReported = FALSE
    /\ reports = 0 /\ incomplete = FALSE

Goto(t, place) == pc' = [pc EXCEPT ![t] = place]

-----------------------------------------------------------------------------
(* `request_typed_with_timeout`, up to the end of the write.               *)

\* The caller takes an id and leaves its reply channel in `pending`.
Insert(r) == pending' = pending \cup {r}

\* A hook or a middleware is called; the callers of `shutdown` have stopped
\* calling before they shut the host down.
Call(c) ==
    /\ pc[c] = "Idle" /\ pc[Owner] = "Idle"
    /\ Insert(c) /\ Goto(c, "Stdin")
    /\ UNCHANGED <<answered, process, outputs, readers, flags, locks>>

LockStdin(r) ==
    /\ pc[r] = "Stdin" /\ stdin = NoOne
    /\ stdin' = r /\ Goto(r, IF r = Bye THEN "WriteTail" ELSE "WriteHead")
    /\ UNCHANGED <<pending, answered, process, outputs, readers, flags, handle, childLock>>

\* The pipe takes the next piece; the last one ends the write and the lock.
Write(r) ==
    /\ pc[r] \in {"WriteHead", "WriteTail"}
    /\ child # "Dead" /\ Len(pipe) < PipeCapacity
    /\ \/ /\ pc[r] = "WriteHead"
          /\ pipe' = Append(pipe, <<r, "Head">>)
          /\ Goto(r, "WriteTail") /\ UNCHANGED stdin
       \/ /\ pc[r] = "WriteTail"
          /\ pipe' = Append(pipe, <<r, "Tail">>)
          /\ Goto(r, "Await") /\ stdin' = NoOne
    /\ UNCHANGED <<pending, answered, child, cause, rest, working, inherited, logs,
                   outputs, readers, flags, handle, childLock>>

\* Nobody reads the pipe any more: the write fails and the lock is let go.
WriteFails(r) ==
    /\ pc[r] \in {"WriteHead", "WriteTail"} /\ child = "Dead"
    /\ stdin' = NoOne /\ Goto(r, "Evict")
    /\ UNCHANGED <<pending, answered, process, outputs, readers, flags, handle, childLock>>

Evict(r) ==
    /\ pc[r] = "Evict"
    /\ pending' = pending \ {r} /\ Goto(r, "Returned")
    /\ UNCHANGED <<answered, process, outputs, readers, flags, locks>>

-----------------------------------------------------------------------------
(* The wait for the reply, and the hook timeout with `force_kill_child`.   *)

Answered(r) ==
    /\ pc[r] = "Await" /\ r \in answered
    /\ Goto(r, "Returned")
    /\ UNCHANGED <<pending, answered, process, outputs, readers, flags, locks>>

\* The timer fires first: the pending entry is evicted.
TimesOut(r) ==
    /\ pc[r] = "Await" /\ r \notin answered
    /\ Goto(r, "Late")
    /\ UNCHANGED <<pending, answered, process, outputs, readers, flags, locks>>

Forget(r) ==
    /\ pc[r] = "Late"
    /\ pending' = pending \ {r} /\ Goto(r, "Condemn")
    /\ UNCHANGED <<answered, process, outputs, readers, flags, locks>>

\* The flag is raised before the kill, so that the readers expect the end.
Condemn(r) ==
    /\ pc[r] = "Condemn"
    /\ forceKilled' = TRUE /\ Goto(r, "Lock")
    /\ UNCHANGED <<pending, answered, process, outputs, readers, locks,
                   shuttingDown, deathReported, reports, incomplete>>

\* `child.lock()` and `guard.take()`: the first to come takes the process
\* and keeps the lock until it is gone.
TakeChild(t) ==
    /\ pc[t] = "Lock" /\ childLock = NoOne
    /\ handle' = FALSE
    /\ \/ handle /\ childLock' = t /\ Goto(t, "Reap")
       \/ ~handle /\ Goto(t, "JoinOut") /\ UNCHANGED childLock
    /\ UNCHANGED <<pending, answered, process, outputs, readers, flags, stdin>>

\* The process is gone: what it had not read and what it ran go with it.
Dies(why) ==
    /\ child' = "Dead" /\ cause' = (IF child = "Dead" THEN cause ELSE why)
    /\ pipe' = <<>> /\ rest' = NoOne /\ working' = {}
    /\ UNCHANGED <<inherited, logs>>

\* `force_kill_child` kills and waits; the shutdown waits for an exit and
\* kills when its two seconds are over.
Reap(t) ==
    /\ pc[t] = "Reap"
    /\ \/ child = "Dead" /\ UNCHANGED process
       \/ Dies("Killed")
    /\ childLock' = NoOne /\ Goto(t, "JoinOut")
    /\ UNCHANGED <<pending, answered, outputs, readers, flags, stdin, handle>>

-----------------------------------------------------------------------------
(* `join_reader_task`, for the two readers in turn: take the handle, wait  *)
(* for the task, and abort it when two seconds are over.  Only the         *)
(* shutdown reports a reader that had to be aborted.                       *)

JoinOut(t) ==
    /\ pc[t] = "JoinOut"
    /\ outHandle' = FALSE
    /\ Goto(t, IF outHandle THEN "JoiningOut" ELSE "JoinErr")
    /\ UNCHANGED <<pending, answered, process, outputs, outReader, errReader, errHandle,
                   flags, locks>>

(* Mutant: the stderr reader is detached instead of joined. *)
JoinErrDetached(t) ==
    /\ pc[t] = "JoinErr"
    /\ errHandle' = FALSE /\ Goto(t, "Returned")
    /\ UNCHANGED <<pending, answered, process, outputs, outReader, errReader, outHandle,
                   flags, locks>>

JoinErr(t) ==
    /\ pc[t] = "JoinErr"
    /\ errHandle' = FALSE
    /\ Goto(t, IF errHandle THEN "JoiningErr" ELSE "Returned")
    /\ UNCHANGED <<pending, answered, process, outputs, outReader, errReader, outHandle,
                   flags, locks>>

Joined(t) ==
    /\ \/ pc[t] = "JoiningOut" /\ outReader = "Ended" /\ Goto(t, "JoinErr")
       \/ pc[t] = "JoiningErr" /\ errReader = "Ended" /\ Goto(t, "Returned")
    /\ UNCHANGED <<pending, answered, process, outputs, readers, flags, locks>>

\* A task that waits for its pipe ends at once; one that has seen its end
\* finishes what it was doing.
Abort(reader) == IF reader = "Reading" THEN "Aborted" ELSE reader

(* Mutant: a reader is joined without a deadline. *)
JoinUnbounded(t) == FALSE

JoinExpires(t) ==
    /\ \/ /\ pc[t] = "JoiningOut" /\ outReader # "Ended"
          /\ outReader' = Abort(outReader) /\ Goto(t, "JoinErr")
          /\ UNCHANGED errReader
       \/ /\ pc[t] = "JoiningErr" /\ errReader # "Ended"
          /\ errReader' = Abort(errReader) /\ Goto(t, "Returned")
          /\ UNCHANGED outReader
    /\ incomplete' = (incomplete \/ t = Owner)
    /\ UNCHANGED <<pending, answered, process, outputs, outHandle, errHandle, locks,
                   shuttingDown, forceKilled, deathReported, reports>>

-----------------------------------------------------------------------------
(* The HTTP server drops the future of a request whose connection ended.   *)
(* It can only be dropped where it waits; its locks are let go, a process  *)
(* it had taken is killed on drop, and its pending entry stays.            *)

Waits(c) ==
    \/ pc[c] = "Stdin" /\ stdin # NoOne
    \/ pc[c] \in {"WriteHead", "WriteTail"} /\ child # "Dead" /\ Len(pipe) = PipeCapacity
    \/ pc[c] = "Await" /\ c \notin answered
    \/ pc[c] = "Lock" /\ childLock # NoOne
    \/ pc[c] = "Reap"
    \/ pc[c] = "JoiningOut" /\ outReader # "Ended"
    \/ pc[c] = "JoiningErr" /\ errReader # "Ended"

Drop(c) ==
    /\ c \in Droppable /\ Waits(c)
    /\ stdin' = (IF stdin = c THEN NoOne ELSE stdin)
    /\ childLock' = (IF childLock = c THEN NoOne ELSE childLock)
    /\ IF pc[c] = "Reap" THEN Dies("Killed") ELSE UNCHANGED process
    /\ Goto(c, "Returned")
    /\ UNCHANGED <<pending, answered, outputs, readers, flags, handle>>

-----------------------------------------------------------------------------
(* `shutdown`: the first caller sends the request and tears the host down. *)

Shutdown ==
    /\ pc[Owner] = "Idle" /\ \A c \in Calls : pc[c] \in {"Idle", "Returned"}
    /\ shuttingDown' = TRUE
    /\ Insert(Bye)
    /\ pc' = [pc EXCEPT ![Owner] = "Asks", ![Bye] = "Stdin"]
    /\ UNCHANGED <<answered, process, outputs, readers, locks,
                   forceKilled, deathReported, reports, incomplete>>

\* The request is over, answered or not: the teardown goes on.
TearDown ==
    /\ pc[Owner] = "Asks" /\ pc[Bye] = "Returned"
    /\ Goto(Owner, "Lock")
    /\ UNCHANGED <<pending, answered, process, outputs, readers, flags, locks>>

-----------------------------------------------------------------------------
(* The child (plugin-host.mjs): an event loop that reads lines and runs    *)
(* the hooks concurrently.  A hook may never finish, occupy the loop, end  *)
(* the process, or start a process that keeps the outputs open.            *)

\* `rl.on("line")`.  The shutdown request is answered and the process exits
\* with the next turn of the loop.
Receives(r) ==
    /\ rest' = NoOne
    /\ \/ /\ r = Bye
          /\ out' = Append(out, Bye) /\ child' = "Exiting"
          /\ UNCHANGED working
       \/ /\ r # Bye
          /\ working' = working \cup {r}
          /\ UNCHANGED <<out, child>>
    /\ UNCHANGED <<cause, inherited, logs>>

\* The next piece is read.  What follows half a line belongs to that line,
\* and a line that is not JSON ends the process.
Read ==
    /\ child = "Listening" /\ pipe # <<>>
    /\ LET r == Head(pipe)[1]
           part == Head(pipe)[2]
       IN \/ /\ part = "Head"
             /\ rest' = (IF rest = NoOne THEN r ELSE "Garbled")
             /\ pipe' = Tail(pipe)
             /\ UNCHANGED <<child, cause, working, inherited, logs, out>>
          \/ /\ part = "Tail"
             /\ rest = (IF r = Bye THEN NoOne ELSE r)
             /\ pipe' = Tail(pipe)
             /\ Receives(r)
          \/ /\ part = "Tail"
             /\ rest # (IF r = Bye THEN NoOne ELSE r)
             /\ Dies("Self") /\ UNCHANGED out
    /\ UNCHANGED <<request, err, readers, flags, locks>>

\* `exit(0)` after the answer to the shutdown.
Exit ==
    /\ child = "Exiting"
    /\ Dies("Exit")
    /\ UNCHANGED <<request, outputs, readers, flags, locks>>

\* A hook finishes, or throws: `sendOk` or `sendErr`.
Reply(c) ==
    /\ child = "Listening" /\ c \in working
    /\ working' = working \ {c}
    /\ out' = Append(out, c)
    /\ UNCHANGED <<request, pipe, child, cause, rest, inherited, logs, err, readers, flags,
                   locks>>

\* A plugin prints on stdout or on stderr.
PluginPrints ==
    /\ child \in {"Listening", "Spinning"}
    /\ \/ /\ logs.out > 0
          /\ logs' = [logs EXCEPT !.out = @ - 1] /\ out' = Append(out, "Log")
          /\ UNCHANGED err
       \/ /\ logs.err > 0
          /\ logs' = [logs EXCEPT !.err = @ - 1] /\ err' = err + 1
          /\ UNCHANGED out
    /\ UNCHANGED <<request, pipe, child, cause, rest, working, inherited, readers, flags, locks>>

\* Plugin code occupies the event loop, and may let go of it.
Spin ==
    /\ child \in {"Listening", "Spinning"}
    /\ child' = (IF child = "Listening" THEN "Spinning" ELSE "Listening")
    /\ UNCHANGED <<request, pipe, cause, rest, working, inherited, logs, outputs, readers, flags,
                   locks>>

Crash ==
    /\ child # "Dead"
    /\ Dies("Self")
    /\ UNCHANGED <<request, outputs, readers, flags, locks>>

\* A process the child started inherits its outputs, and ends some time.
Inherit ==
    /\ \/ ~inherited /\ child \in {"Listening", "Spinning"}
       \/ inherited
    /\ inherited' = ~inherited
    /\ UNCHANGED <<request, pipe, child, cause, rest, working, logs, outputs, readers, flags,
                   locks>>

-----------------------------------------------------------------------------
(* The reader tasks.  At the end of a pipe a reader decides whether it was *)
(* expected; of two surprised readers, the first to claim it reports it.   *)

Ended == child = "Dead" /\ ~inherited
Expected == shuttingDown \/ forceKilled

\* `handle_line`: a reply goes to the caller `pending` still has, and is
\* dropped with a warning when there is none.
ReadOut ==
    /\ outReader = "Reading" /\ out # <<>>
    /\ out' = Tail(out)
    /\ pending' = pending \ {Head(out)}
    /\ answered' = answered \cup (pending \cap {Head(out)})
    /\ UNCHANGED <<pc, process, err, readers, flags, locks>>

EndOfOut ==
    /\ outReader = "Reading" /\ out = <<>> /\ Ended
    /\ outReader' = (IF Expected THEN "Draining" ELSE "Alarmed")
    /\ UNCHANGED <<request, process, outputs, errReader, outHandle, errHandle, flags, locks>>

(* Mutant: each reader reports the death it sees. *)
ClaimEach ==
    /\ deathReported' = TRUE /\ reports' = reports + 1
    /\ UNCHANGED <<shuttingDown, forceKilled, incomplete>>

(* Mutant: the flag is read after it is set. *)
ClaimAfterTheSwap ==
    /\ deathReported' = TRUE /\ UNCHANGED reports
    /\ UNCHANGED <<shuttingDown, forceKilled, incomplete>>

\* `claim_death_report`, and the alarm of the one that wins it.
Claim ==
    /\ deathReported' = TRUE
    /\ reports' = (IF deathReported THEN reports ELSE reports + 1)
    /\ UNCHANGED <<shuttingDown, forceKilled, incomplete>>

AlarmOut ==
    /\ outReader = "Alarmed"
    /\ Claim /\ outReader' = "Draining"
    /\ UNCHANGED <<request, process, outputs, errReader, outHandle, errHandle, locks>>

(* Mutant: the callers are forgotten instead of woken. *)
DrainSilently ==
    /\ outReader = "Draining"
    /\ pending' = {} /\ outReader' = "Ended"
    /\ UNCHANGED <<pc, answered, process, outputs, errReader, outHandle, errHandle, flags, locks>>

\* Every caller still in `pending` is woken with a synthetic error.
DrainPending ==
    /\ outReader = "Draining"
    /\ answered' = answered \cup pending /\ pending' = {}
    /\ outReader' = "Ended"
    /\ UNCHANGED <<pc, process, outputs, errReader, outHandle, errHandle, flags, locks>>

ReadErr ==
    /\ errReader = "Reading" /\ err > 0
    /\ err' = err - 1
    /\ UNCHANGED <<request, process, out, readers, flags, locks>>

EndOfErr ==
    /\ errReader = "Reading" /\ err = 0 /\ Ended
    /\ errReader' = (IF Expected THEN "Ended" ELSE "Alarmed")
    /\ UNCHANGED <<request, process, outputs, outReader, outHandle, errHandle, flags, locks>>

AlarmErr ==
    /\ errReader = "Alarmed"
    /\ Claim /\ errReader' = "Ended"
    /\ UNCHANGED <<request, process, outputs, outReader, outHandle, errHandle, locks>>

-----------------------------------------------------------------------------
Sends(r) ==
    \/ LockStdin(r) \/ Write(r) \/ WriteFails(r) \/ Evict(r)
    \/ Answered(r) \/ TimesOut(r) \/ Forget(r) \/ Condemn(r)

Ends(t) ==
    \/ TakeChild(t) \/ Reap(t)
    \/ JoinOut(t) \/ JoinErr(t) \/ Joined(t) \/ JoinExpires(t)

ReadsOut == ReadOut \/ EndOfOut \/ AlarmOut \/ DrainPending
ReadsErr == ReadErr \/ EndOfErr \/ AlarmErr

Child ==
    \/ Read \/ Exit \/ PluginPrints \/ Spin \/ Crash \/ Inherit
    \/ \E c \in Calls : Reply(c)

Next ==
    \/ \E c \in Calls : Call(c) \/ Drop(c)
    \/ \E r \in Requests : Sends(r)
    \/ \E t \in Threads : Ends(t)
    \/ Shutdown \/ TearDown
    \/ ReadsOut \/ ReadsErr \/ Child

\* Tasks that can go on do, and timers fire.  Of the child nothing is
\* assumed: a hook may hang, and plugin code may keep the event loop.
Fairness ==
    /\ \A r \in Requests : WF_vars(Sends(r))
    /\ \A t \in Threads : WF_vars(Ends(t))
    /\ WF_vars(TearDown) /\ WF_vars(ReadsOut) /\ WF_vars(ReadsErr)

Spec == Init /\ [][Next]_vars /\ Fairness

-----------------------------------------------------------------------------
(* Properties.                                                             *)

Places == {"Idle", "Stdin", "WriteHead", "WriteTail", "Evict", "Await", "Late", "Condemn",
           "Asks", "Lock", "Reap", "JoinOut", "JoiningOut", "JoinErr", "JoiningErr", "Returned"}

\* Every variable keeps its type; the pipe never holds more than it takes,
\* and a lock is held by a thread that is where it holds it.
TypeOK ==
    /\ pc \in [Threads -> Places]
    /\ pending \subseteq Requests /\ answered \subseteq Requests
    /\ stdin \in Requests \cup {NoOne} /\ childLock \in Threads \cup {NoOne}
    /\ \A r \in Requests : (stdin = r) <=> (pc[r] \in {"WriteHead", "WriteTail"})
    /\ \A t \in Threads : (childLock = t) <=> (pc[t] = "Reap")
    /\ pipe \in Seq(Requests \X {"Head", "Tail"}) /\ Len(pipe) <= PipeCapacity
    /\ child \in {"Listening", "Spinning", "Exiting", "Dead"}
    /\ cause \in {"None", "Self", "Exit", "Killed"}
    /\ rest \in Calls \cup {"Garbled", NoOne} /\ working \subseteq Calls
    /\ out \in Seq(Requests \cup {"Log"}) /\ err \in 0..MaxLogs
    /\ logs \in [{"out", "err"} -> 0..MaxLogs]
    /\ outReader \in {"Reading", "Alarmed", "Draining", "Ended", "Aborted"}
    /\ errReader \in {"Reading", "Alarmed", "Ended", "Aborted"}
    /\ reports \in Nat
    /\ \A b \in {handle, outHandle, errHandle, inherited, shuttingDown, forceKilled,
                  deathReported, incomplete} : b \in BOOLEAN

\* The death of the child is announced at most once, though two readers see
\* it, and only when the child died by itself: neither the kill after a
\* timeout nor the exit the shutdown asks for raises the alarm
\* (run_stdout_reader, run_stderr_reader, claim_death_report).
OneHonestAlarm ==
    /\ reports <= 1
    /\ reports = 1 => child = "Dead" /\ cause = "Self"

\* A caller that waits for its reply can still get one: its channel is in
\* `pending` or already holds the reply, whoever drained, timed out or died
\* in the meantime.  "reply channel dropped" is never what a caller gets.
WaiterIsRemembered ==
    \A r \in Requests : pc[r] = "Await" => r \in pending \cup answered

\* When the shutdown returns the child is dead, and unless a kill went
\* before or the sink says that the report is incomplete, every line the
\* plugins printed has been read (build.rs takes its snapshot next).
CleanShutdown ==
    pc[Owner] = "Returned" =>
        /\ child = "Dead" /\ ~handle
        /\ ~incomplete /\ ~forceKilled => out = <<>> /\ err = 0

\* A call whose request is written comes back, answered, failed or timed
\* out, and so does a shutdown from there on: hooks that hang, a plugin that
\* occupies the loop, a death or a kill by another call do not keep it.
WrittenCallReturns ==
    \A t \in Threads : (pc[t] \in {"Await", "Evict", "Lock"}) ~> (pc[t] = "Returned")

\* A child that died by itself is announced, unless the host was going to end
\* it anyway or something it started still holds its outputs.
CrashIsTold ==
    (child = "Dead" /\ cause = "Self") ~> (reports = 1 \/ Expected \/ inherited)
=============================================================================
