--------------------------- MODULE PluginHostProofs ---------------------------
(***************************************************************************)
(* Theorems about the plugin host, for any number of calls, any pipe and   *)
(* any amount of output.                                                   *)
(***************************************************************************)
EXTENDS PluginHost, SequenceTheorems, TLAPS

-----------------------------------------------------------------------------
(* What the places of the callers and the state of the child say about the *)
(* flags.  Every part is needed for one of the theorems below.             *)

Writing == {"WriteHead", "WriteTail"}
Tearing == {"Lock", "Reap", "JoinOut", "JoiningOut", "JoinErr", "JoiningErr"}
Gone    == {"JoinOut", "JoiningOut", "JoinErr", "JoiningErr", "Returned"}

Types ==
    /\ pc \in [Threads -> Places]
    /\ pending \subseteq Requests /\ answered \subseteq Requests
    /\ stdin \in Requests \cup {NoOne} /\ childLock \in Threads \cup {NoOne}
    /\ pipe \in Seq(Requests \X {"Head", "Tail"}) /\ Len(pipe) <= PipeCapacity
    /\ child \in {"Listening", "Spinning", "Exiting", "Dead"}
    /\ cause \in {"None", "Self", "Exit", "Killed"}
    /\ rest \in Calls \cup {"Garbled", NoOne} /\ working \subseteq Calls
    /\ out \in Seq(Requests \cup {"Log"})
    /\ outReader \in {"Reading", "Alarmed", "Draining", "Ended", "Aborted"}
    /\ errReader \in {"Reading", "Alarmed", "Ended", "Aborted"}
    /\ handle \in BOOLEAN /\ outHandle \in BOOLEAN /\ errHandle \in BOOLEAN
    /\ inherited \in BOOLEAN /\ shuttingDown \in BOOLEAN /\ forceKilled \in BOOLEAN
    /\ deathReported \in BOOLEAN /\ incomplete \in BOOLEAN

\* What a plugin has printed and may still print is bounded.
Counts ==
    /\ err \in Nat /\ reports \in Nat
    /\ logs \in [{"out", "err"} -> Nat]
    /\ logs["out"] <= MaxLogs /\ err + logs["err"] <= MaxLogs

Locks ==
    /\ \A r \in Requests : (stdin = r) <=> (pc[r] \in Writing)
    /\ \A t \in Threads : (childLock = t) <=> (pc[t] = "Reap")

\* The shutdown request is written in one piece and by nobody else.
Farewell ==
    /\ pc[Bye] # "WriteHead"
    /\ \A i \in 1..Len(pipe) : pipe[i] # <<Bye, "Head">>
    /\ pc[Owner] = "Idle" =>
         /\ pc[Bye] = "Idle" /\ child # "Exiting"
         /\ \A i \in 1..Len(pipe) : pipe[i][1] # Bye
    /\ pc[Owner] # "Idle" => shuttingDown

\* A kill is announced by a flag before it happens.
Announced ==
    /\ \A r \in Requests : pc[r] \in Tearing => forceKilled
    /\ child = "Exiting" => shuttingDown
    /\ child = "Dead" <=> cause # "None"
    /\ cause \in {"Exit", "Killed"} => Expected

Alarms ==
    /\ reports = (IF deathReported THEN 1 ELSE 0)
    /\ deathReported \/ outReader = "Alarmed" \/ errReader = "Alarmed" => cause = "Self"

Remembered ==
    \A r \in Requests :
        pc[r] \in {"Stdin", "WriteHead", "WriteTail", "Await"} => r \in pending \cup answered

\* Who has taken the process ends it before anybody else goes on.
Reaped ==
    /\ ~handle /\ childLock = NoOne => child = "Dead"
    /\ handle => childLock = NoOne
    /\ pc[Owner] \in Gone => child = "Dead" /\ ~handle

\* A reader that has seen the end has read everything.
Drained ==
    /\ outReader \in {"Alarmed", "Draining", "Ended"} => child = "Dead" /\ out = <<>>
    /\ errReader \in {"Alarmed", "Ended"} => child = "Dead" /\ err = 0

\* Without a kill only the shutdown takes the join handles.
Handles ==
    ~forceKilled =>
        /\ pc[Owner] \notin {"JoiningOut", "JoinErr", "JoiningErr", "Returned"} => outHandle
        /\ pc[Owner] \notin {"JoiningErr", "Returned"} => errHandle
        /\ pc[Owner] \in {"JoinErr", "JoiningErr", "Returned"} /\ ~incomplete => outReader = "Ended"
        /\ pc[Owner] = "Returned" /\ ~incomplete => errReader = "Ended"

Inv == /\ Types /\ Counts /\ Locks /\ Farewell /\ Announced /\ Alarms /\ Remembered
       /\ Reaped /\ Drained /\ Handles

-----------------------------------------------------------------------------
LEMMA InitInv == Init => Inv
<1> SUFFICES ASSUME Init PROVE Inv
  OBVIOUS
<1> USE HostAssumption DEF Init, Requests, Threads
<1>1. Types
  <2>1. pc \in [Threads -> Places]
    BY DEF Places
  <2>2. pipe \in Seq(Requests \X {"Head", "Tail"}) /\ Len(pipe) <= PipeCapacity
    BY EmptySeq
  <2>3. out \in Seq(Requests \cup {"Log"})
    BY EmptySeq
  <2> QED BY <2>1, <2>2, <2>3 DEF Types
<1>2. Counts /\ Locks /\ Farewell
  BY DEF Counts, Locks, Farewell, Writing
<1>3. Announced /\ Alarms /\ Remembered
  BY DEF Announced, Alarms, Remembered, Tearing, Expected
<1>4. Reaped /\ Drained /\ Handles
  BY DEF Reaped, Drained, Handles, Gone
<1> QED BY <1>1, <1>2, <1>3, <1>4 DEF Inv

LEMMA TypesStep == Inv /\ [Next]_vars => Types'
<1> SUFFICES ASSUME Inv, [Next]_vars PROVE Types'
  OBVIOUS
<1> USE HostAssumption DEF Inv, Types, Requests, Threads, Places, request, process, outputs, readers, flags, locks
<1>1. ASSUME NEW c \in Calls, Call(c) PROVE Types'
  BY <1>1 DEF Call, Insert, Goto
<1>2. ASSUME NEW c \in Calls, Drop(c) PROVE Types'
  <2>1. stdin' \in Requests \cup {NoOne} /\ childLock' \in Threads \cup {NoOne}
        /\ pc' \in [Threads -> Places]
    BY <1>2 DEF Drop, Goto
  <2>2. UNCHANGED <<pending, answered, outputs, readers, flags, handle>>
    BY <1>2 DEF Drop
  <2>3. Dies("Killed") \/ UNCHANGED process
    BY <1>2 DEF Drop
  <2>4. CASE Dies("Killed")
    BY <2>1, <2>2, <2>4 DEF Dies
  <2>5. CASE UNCHANGED process
    BY <2>1, <2>2, <2>5
  <2> QED BY <2>3, <2>4, <2>5
<1>3. ASSUME NEW c \in Calls, Reply(c) PROVE Types'
  BY <1>3 DEF Reply
<1>4. ASSUME NEW r \in Requests, LockStdin(r) PROVE Types'
  BY <1>4 DEF LockStdin, Goto
<1>5. ASSUME NEW r \in Requests, Write(r) PROVE Types'
  <2>1. PICK part \in {"Head", "Tail"} : pipe' = Append(pipe, <<r, part>>)
    BY <1>5 DEF Write
  <2>2. pipe' \in Seq(Requests \X {"Head", "Tail"}) /\ Len(pipe') = Len(pipe) + 1
    BY <2>1, AppendProperties
  <2>3. pc' \in [Threads -> Places] /\ stdin' \in Requests \cup {NoOne}
    BY <1>5 DEF Write, Goto
  <2>4. Len(pipe') <= PipeCapacity
    BY <1>5, <2>2 DEF Write
  <2> QED BY <1>5, <2>2, <2>3, <2>4 DEF Write
<1>6. ASSUME NEW r \in Requests, WriteFails(r) PROVE Types'
  BY <1>6 DEF WriteFails, Goto
<1>7. ASSUME NEW r \in Requests, Evict(r) PROVE Types'
  BY <1>7 DEF Evict, Goto
<1>8. ASSUME NEW r \in Requests, Answered(r) PROVE Types'
  BY <1>8 DEF Answered, Goto
<1>9. ASSUME NEW r \in Requests, TimesOut(r) PROVE Types'
  BY <1>9 DEF TimesOut, Goto
<1>10. ASSUME NEW r \in Requests, Forget(r) PROVE Types'
  BY <1>10 DEF Forget, Goto
<1>11. ASSUME NEW r \in Requests, Condemn(r) PROVE Types'
  BY <1>11 DEF Condemn, Goto
<1>12. ASSUME NEW t \in Threads, TakeChild(t) PROVE Types'
  <2>1. handle' \in BOOLEAN /\ childLock' \in Threads \cup {NoOne} /\ pc' \in [Threads -> Places]
    BY <1>12 DEF TakeChild, Goto
  <2>2. UNCHANGED <<pending, answered, process, outputs, readers, flags, stdin>>
    BY <1>12 DEF TakeChild
  <2> QED BY <2>1, <2>2
<1>13. ASSUME NEW t \in Threads, Reap(t) PROVE Types'
  <2>1. CASE Dies("Killed") /\ childLock' = NoOne /\ Goto(t, "JoinOut")
    BY <1>13, <2>1 DEF Reap, Dies, Goto
  <2>2. CASE UNCHANGED process /\ childLock' = NoOne /\ Goto(t, "JoinOut")
    BY <1>13, <2>2 DEF Reap, Goto
  <2> QED BY <1>13, <2>1, <2>2 DEF Reap
<1>14. ASSUME NEW t \in Threads, JoinOut(t) PROVE Types'
  <2>1. pc' \in [Threads -> Places] /\ outHandle' \in BOOLEAN
    BY <1>14 DEF JoinOut, Goto
  <2>2. UNCHANGED <<pending, answered, process, outputs, outReader, errReader, errHandle, flags, locks>>
    BY <1>14 DEF JoinOut
  <2> QED BY <2>1, <2>2
<1>15. ASSUME NEW t \in Threads, JoinErr(t) PROVE Types'
  <2>1. pc' \in [Threads -> Places] /\ errHandle' \in BOOLEAN
    BY <1>15 DEF JoinErr, Goto
  <2>2. UNCHANGED <<pending, answered, process, outputs, outReader, errReader, outHandle, flags, locks>>
    BY <1>15 DEF JoinErr
  <2> QED BY <2>1, <2>2
<1>16. ASSUME NEW t \in Threads, Joined(t) PROVE Types'
  BY <1>16 DEF Joined, Goto
<1>17. ASSUME NEW t \in Threads, JoinExpires(t) PROVE Types'
  BY <1>17 DEF JoinExpires, Goto, Abort
<1>18. CASE Shutdown
  BY <1>18 DEF Shutdown, Insert
<1>19. CASE TearDown
  BY <1>19 DEF TearDown, Goto
<1>20. CASE Read
  <2> DEFINE r == Head(pipe)[1]
  <2>1. /\ pipe \in Seq(Requests \X {"Head", "Tail"}) /\ pipe # <<>> /\ child = "Listening"
        /\ UNCHANGED <<request, err, readers, flags, locks>>
    BY <1>20 DEF Read
  <2>2. /\ Head(pipe) \in Requests \X {"Head", "Tail"}
        /\ Tail(pipe) \in Seq(Requests \X {"Head", "Tail"}) /\ Len(Tail(pipe)) = Len(pipe) - 1
    BY <2>1, HeadTailProperties
  <2>3. r \in Requests
    BY <2>2
  <2>4. CASE /\ Head(pipe)[2] = "Head" /\ rest' = (IF rest = NoOne THEN r ELSE "Garbled")
             /\ pipe' = Tail(pipe)
             /\ UNCHANGED <<child, cause, working, inherited, logs, out>>
    <3>1. r # Bye
      <4>1. 1 \in 1..Len(pipe) /\ Head(pipe) = pipe[1]
        BY <2>1, EmptySeq
      <4>2. pipe[1] = <<r, "Head">>
        BY <2>2, <2>4, <4>1
      <4> QED BY <4>1, <4>2 DEF Farewell
    <3> QED BY <2>1, <2>2, <2>3, <2>4, <3>1
  <2>5. CASE pipe' = Tail(pipe) /\ Receives(r)
    <3>1. CASE r = Bye
      <4>1. out' = Append(out, Bye) /\ child' = "Exiting" /\ working' = working /\ rest' = NoOne
            /\ UNCHANGED <<cause, inherited, logs>>
        BY <2>5, <3>1 DEF Receives
      <4>2. out' \in Seq(Requests \cup {"Log"})
        BY <4>1, AppendProperties
      <4> QED BY <2>1, <2>2, <2>5, <4>1, <4>2
    <3>2. CASE r # Bye
      <4>1. out' = out /\ child' = child /\ working' = working \cup {r} /\ rest' = NoOne
            /\ UNCHANGED <<cause, inherited, logs>>
        BY <2>5, <3>2 DEF Receives
      <4> QED BY <2>1, <2>2, <2>3, <2>5, <3>2, <4>1
    <3> QED BY <3>1, <3>2
  <2>6. CASE Dies("Self") /\ UNCHANGED out
    BY <2>1, <2>6 DEF Dies
  <2> QED BY <1>20, <2>4, <2>5, <2>6 DEF Read
<1>21. CASE Exit
  BY <1>21 DEF Exit, Dies
<1>22. CASE PluginPrints
  BY <1>22 DEF PluginPrints
<1>23. CASE Spin
  BY <1>23 DEF Spin
<1>24. CASE Crash
  BY <1>24 DEF Crash, Dies
<1>25. CASE Inherit
  BY <1>25 DEF Inherit
<1>26. CASE ReadOut
  BY <1>26 DEF ReadOut
<1>27. CASE EndOfOut
  BY <1>27 DEF EndOfOut, Ended, Expected
<1>28. CASE AlarmOut
  BY <1>28 DEF AlarmOut, Claim
<1>29. CASE DrainPending
  BY <1>29 DEF DrainPending
<1>30. CASE ReadErr
  BY <1>30 DEF ReadErr
<1>31. CASE EndOfErr
  BY <1>31 DEF EndOfErr, Ended, Expected
<1>32. CASE AlarmErr
  BY <1>32 DEF AlarmErr, Claim
<1>33. CASE UNCHANGED vars
  BY <1>33 DEF vars
<1> QED BY <1>1, <1>2, <1>3, <1>4, <1>5, <1>6, <1>7, <1>8, <1>9, <1>10, <1>11, <1>12, <1>13, <1>14, <1>15, <1>16, <1>17, <1>18, <1>19, <1>20, <1>21, <1>22, <1>23, <1>24, <1>25, <1>26, <1>27, <1>28, <1>29, <1>30, <1>31, <1>32, <1>33 DEF Next, Sends, Ends, ReadsOut, ReadsErr, Child

LEMMA CountsStep == Inv /\ [Next]_vars => Counts'
<1> SUFFICES ASSUME Inv, [Next]_vars PROVE Counts'
  OBVIOUS
<1> USE HostAssumption DEF Inv, Types, Counts, request, process, outputs, readers, flags, locks
<1>1. ASSUME NEW c \in Calls, Call(c) PROVE Counts'
  BY <1>1 DEF Call, Insert, Goto
<1>2. ASSUME NEW c \in Calls, Drop(c) PROVE Counts'
  BY <1>2 DEF Drop, Goto, Dies, Waits
<1>3. ASSUME NEW c \in Calls, Reply(c) PROVE Counts'
  BY <1>3 DEF Reply
<1>4. ASSUME NEW r \in Requests, LockStdin(r) PROVE Counts'
  BY <1>4 DEF LockStdin, Goto
<1>5. ASSUME NEW r \in Requests, Write(r) PROVE Counts'
  BY <1>5 DEF Write, Goto
<1>6. ASSUME NEW r \in Requests, WriteFails(r) PROVE Counts'
  BY <1>6 DEF WriteFails, Goto
<1>7. ASSUME NEW r \in Requests, Evict(r) PROVE Counts'
  BY <1>7 DEF Evict, Goto
<1>8. ASSUME NEW r \in Requests, Answered(r) PROVE Counts'
  BY <1>8 DEF Answered, Goto
<1>9. ASSUME NEW r \in Requests, TimesOut(r) PROVE Counts'
  BY <1>9 DEF TimesOut, Goto
<1>10. ASSUME NEW r \in Requests, Forget(r) PROVE Counts'
  BY <1>10 DEF Forget, Goto
<1>11. ASSUME NEW r \in Requests, Condemn(r) PROVE Counts'
  BY <1>11 DEF Condemn, Goto
<1>12. ASSUME NEW t \in Threads, TakeChild(t) PROVE Counts'
  BY <1>12 DEF TakeChild, Goto
<1>13. ASSUME NEW t \in Threads, Reap(t) PROVE Counts'
  BY <1>13 DEF Reap, Goto, Dies
<1>14. ASSUME NEW t \in Threads, JoinOut(t) PROVE Counts'
  BY <1>14 DEF JoinOut, Goto
<1>15. ASSUME NEW t \in Threads, JoinErr(t) PROVE Counts'
  BY <1>15 DEF JoinErr, Goto
<1>16. ASSUME NEW t \in Threads, Joined(t) PROVE Counts'
  BY <1>16 DEF Joined, Goto
<1>17. ASSUME NEW t \in Threads, JoinExpires(t) PROVE Counts'
  BY <1>17 DEF JoinExpires, Goto, Abort
<1>18. CASE Shutdown
  BY <1>18 DEF Shutdown, Insert
<1>19. CASE TearDown
  BY <1>19 DEF TearDown, Goto
<1>20. CASE Read
  BY <1>20 DEF Read, Receives, Dies
<1>21. CASE Exit
  BY <1>21 DEF Exit, Dies
<1>22. CASE PluginPrints
  BY <1>22 DEF PluginPrints
<1>23. CASE Spin
  BY <1>23 DEF Spin
<1>24. CASE Crash
  BY <1>24 DEF Crash, Dies
<1>25. CASE Inherit
  BY <1>25 DEF Inherit
<1>26. CASE ReadOut
  BY <1>26 DEF ReadOut
<1>27. CASE EndOfOut
  BY <1>27 DEF EndOfOut, Ended, Expected
<1>28. CASE AlarmOut
  BY <1>28 DEF AlarmOut, Claim
<1>29. CASE DrainPending
  BY <1>29 DEF DrainPending
<1>30. CASE ReadErr
  BY <1>30 DEF ReadErr
<1>31. CASE EndOfErr
  BY <1>31 DEF EndOfErr, Ended, Expected
<1>32. CASE AlarmErr
  BY <1>32 DEF AlarmErr, Claim
<1>33. CASE UNCHANGED vars
  BY <1>33 DEF vars
<1> QED BY <1>1, <1>2, <1>3, <1>4, <1>5, <1>6, <1>7, <1>8, <1>9, <1>10, <1>11, <1>12, <1>13, <1>14, <1>15, <1>16, <1>17, <1>18, <1>19, <1>20, <1>21, <1>22, <1>23, <1>24, <1>25, <1>26, <1>27, <1>28, <1>29, <1>30, <1>31, <1>32, <1>33 DEF Next, Sends, Ends, ReadsOut, ReadsErr, Child

LEMMA LocksStep == Inv /\ [Next]_vars => Locks'
<1> SUFFICES ASSUME Inv, [Next]_vars PROVE Locks'
  OBVIOUS
<1> USE HostAssumption DEF Inv, Types, Locks, Writing, Requests, Threads, Reaped, request, process, outputs, readers, flags, locks
<1>1. ASSUME NEW c \in Calls, Call(c) PROVE Locks'
  BY <1>1 DEF Call, Insert, Goto
<1>2. ASSUME NEW c \in Calls, Drop(c) PROVE Locks'
  BY <1>2 DEF Drop, Goto, Dies, Waits
<1>3. ASSUME NEW c \in Calls, Reply(c) PROVE Locks'
  BY <1>3 DEF Reply
<1>4. ASSUME NEW r \in Requests, LockStdin(r) PROVE Locks'
  BY <1>4 DEF LockStdin, Goto
<1>5. ASSUME NEW r \in Requests, Write(r) PROVE Locks'
  <2>1. /\ pc[r] \in Writing /\ stdin = r /\ UNCHANGED childLock
        /\ \/ pc' = [pc EXCEPT ![r] = "WriteTail"] /\ stdin' = stdin
           \/ pc' = [pc EXCEPT ![r] = "Await"] /\ stdin' = NoOne
    BY <1>5 DEF Write, Goto
  <2> QED BY <2>1
<1>6. ASSUME NEW r \in Requests, WriteFails(r) PROVE Locks'
  BY <1>6 DEF WriteFails, Goto
<1>7. ASSUME NEW r \in Requests, Evict(r) PROVE Locks'
  BY <1>7 DEF Evict, Goto
<1>8. ASSUME NEW r \in Requests, Answered(r) PROVE Locks'
  BY <1>8 DEF Answered, Goto
<1>9. ASSUME NEW r \in Requests, TimesOut(r) PROVE Locks'
  BY <1>9 DEF TimesOut, Goto
<1>10. ASSUME NEW r \in Requests, Forget(r) PROVE Locks'
  BY <1>10 DEF Forget, Goto
<1>11. ASSUME NEW r \in Requests, Condemn(r) PROVE Locks'
  BY <1>11 DEF Condemn, Goto
<1>12. ASSUME NEW t \in Threads, TakeChild(t) PROVE Locks'
  BY <1>12 DEF TakeChild, Goto
<1>13. ASSUME NEW t \in Threads, Reap(t) PROVE Locks'
  BY <1>13 DEF Reap, Goto, Dies
<1>14. ASSUME NEW t \in Threads, JoinOut(t) PROVE Locks'
  BY <1>14 DEF JoinOut, Goto
<1>15. ASSUME NEW t \in Threads, JoinErr(t) PROVE Locks'
  BY <1>15 DEF JoinErr, Goto
<1>16. ASSUME NEW t \in Threads, Joined(t) PROVE Locks'
  BY <1>16 DEF Joined, Goto
<1>17. ASSUME NEW t \in Threads, JoinExpires(t) PROVE Locks'
  BY <1>17 DEF JoinExpires, Goto, Abort
<1>18. CASE Shutdown
  <2>1. pc' = [pc EXCEPT ![Owner] = "Asks", ![Bye] = "Stdin"] /\ UNCHANGED locks
    BY <1>18 DEF Shutdown
  <2>2. pc[Owner] = "Idle" /\ pc[Bye] = "Idle"
    BY <1>18 DEF Shutdown, Farewell
  <2>3. \A t \in Threads : pc'[t] = (IF t = Owner THEN "Asks" ELSE IF t = Bye THEN "Stdin" ELSE pc[t])
    BY <2>1
  <2> QED BY <2>1, <2>2, <2>3
<1>19. CASE TearDown
  BY <1>19 DEF TearDown, Goto
<1>20. CASE Read
  BY <1>20 DEF Read, Receives, Dies
<1>21. CASE Exit
  BY <1>21 DEF Exit, Dies
<1>22. CASE PluginPrints
  BY <1>22 DEF PluginPrints
<1>23. CASE Spin
  BY <1>23 DEF Spin
<1>24. CASE Crash
  BY <1>24 DEF Crash, Dies
<1>25. CASE Inherit
  BY <1>25 DEF Inherit
<1>26. CASE ReadOut
  BY <1>26 DEF ReadOut
<1>27. CASE EndOfOut
  BY <1>27 DEF EndOfOut, Ended, Expected
<1>28. CASE AlarmOut
  BY <1>28 DEF AlarmOut, Claim
<1>29. CASE DrainPending
  BY <1>29 DEF DrainPending
<1>30. CASE ReadErr
  BY <1>30 DEF ReadErr
<1>31. CASE EndOfErr
  BY <1>31 DEF EndOfErr, Ended, Expected
<1>32. CASE AlarmErr
  BY <1>32 DEF AlarmErr, Claim
<1>33. CASE UNCHANGED vars
  BY <1>33 DEF vars
<1> QED BY <1>1, <1>2, <1>3, <1>4, <1>5, <1>6, <1>7, <1>8, <1>9, <1>10, <1>11, <1>12, <1>13, <1>14, <1>15, <1>16, <1>17, <1>18, <1>19, <1>20, <1>21, <1>22, <1>23, <1>24, <1>25, <1>26, <1>27, <1>28, <1>29, <1>30, <1>31, <1>32, <1>33 DEF Next, Sends, Ends, ReadsOut, ReadsErr, Child

LEMMA FarewellStep == Inv /\ [Next]_vars => Farewell'
<1> SUFFICES ASSUME Inv, [Next]_vars PROVE Farewell'
  OBVIOUS
<1> USE HostAssumption DEF Inv, Types, Farewell, Requests, Threads, request, process, outputs, readers, flags, locks
<1>1. ASSUME NEW c \in Calls, Call(c) PROVE Farewell'
  BY <1>1 DEF Call, Insert, Goto
<1>2. ASSUME NEW c \in Calls, Drop(c) PROVE Farewell'
  BY <1>2 DEF Drop, Goto, Dies, Waits
<1>3. ASSUME NEW c \in Calls, Reply(c) PROVE Farewell'
  BY <1>3 DEF Reply
<1>4. ASSUME NEW r \in Requests, LockStdin(r) PROVE Farewell'
  BY <1>4 DEF LockStdin, Goto
<1>5. ASSUME NEW r \in Requests, Write(r) PROVE Farewell'
  <2>1. PICK part \in {"Head", "Tail"} :
          /\ pipe' = Append(pipe, <<r, part>>)
          /\ part = "Head" => pc[r] = "WriteHead"
          /\ pc' = [pc EXCEPT ![r] = IF part = "Head" THEN "WriteTail" ELSE "Await"]
    BY <1>5 DEF Write, Goto
  <2>2. /\ Len(pipe) \in Nat /\ Len(pipe') = Len(pipe) + 1 /\ pipe'[Len(pipe) + 1] = <<r, part>>
        /\ \A i \in 1..Len(pipe) : pipe'[i] = pipe[i]
    BY <2>1, AppendProperties
  <2>3. pc[r] \in {"WriteHead", "WriteTail"} /\ UNCHANGED <<child, flags>>
    BY <1>5 DEF Write
  <2>4. r = Bye => part = "Tail" /\ pc[Owner] # "Idle"
    BY <2>1, <2>3
  <2>5. \A i \in 1..Len(pipe') : i \in 1..Len(pipe) \/ i = Len(pipe) + 1
    BY <2>2
  <2>6. \A i \in 1..Len(pipe') : pipe'[i] # <<Bye, "Head">>
    BY <2>2, <2>4, <2>5
  <2>7. pc[Owner] = "Idle" => \A i \in 1..Len(pipe') : pipe'[i][1] # Bye
    BY <2>2, <2>4, <2>5
  <2>8. pc'[Owner] = pc[Owner] /\ pc'[Bye] # "WriteHead" /\ (pc[Owner] = "Idle" => pc'[Bye] = "Idle")
    BY <2>1, <2>3
  <2> QED BY <2>3, <2>6, <2>7, <2>8
<1>6. ASSUME NEW r \in Requests, WriteFails(r) PROVE Farewell'
  BY <1>6 DEF WriteFails, Goto
<1>7. ASSUME NEW r \in Requests, Evict(r) PROVE Farewell'
  BY <1>7 DEF Evict, Goto
<1>8. ASSUME NEW r \in Requests, Answered(r) PROVE Farewell'
  BY <1>8 DEF Answered, Goto
<1>9. ASSUME NEW r \in Requests, TimesOut(r) PROVE Farewell'
  BY <1>9 DEF TimesOut, Goto
<1>10. ASSUME NEW r \in Requests, Forget(r) PROVE Farewell'
  BY <1>10 DEF Forget, Goto
<1>11. ASSUME NEW r \in Requests, Condemn(r) PROVE Farewell'
  BY <1>11 DEF Condemn, Goto
<1>12. ASSUME NEW t \in Threads, TakeChild(t) PROVE Farewell'
  BY <1>12 DEF TakeChild, Goto
<1>13. ASSUME NEW t \in Threads, Reap(t) PROVE Farewell'
  <2>1. pc[t] = "Reap" /\ pc' = [pc EXCEPT ![t] = "JoinOut"] /\ UNCHANGED flags
    BY <1>13 DEF Reap, Goto
  <2>2. CASE Dies("Killed")
    BY <2>1, <2>2 DEF Dies
  <2>3. CASE UNCHANGED process
    BY <2>1, <2>3
  <2> QED BY <1>13, <2>2, <2>3 DEF Reap
<1>14. ASSUME NEW t \in Threads, JoinOut(t) PROVE Farewell'
  BY <1>14 DEF JoinOut, Goto
<1>15. ASSUME NEW t \in Threads, JoinErr(t) PROVE Farewell'
  BY <1>15 DEF JoinErr, Goto
<1>16. ASSUME NEW t \in Threads, Joined(t) PROVE Farewell'
  BY <1>16 DEF Joined, Goto
<1>17. ASSUME NEW t \in Threads, JoinExpires(t) PROVE Farewell'
  BY <1>17 DEF JoinExpires, Goto, Abort
<1>18. CASE Shutdown
  BY <1>18 DEF Shutdown, Insert
<1>19. CASE TearDown
  BY <1>19 DEF TearDown, Goto
<1>20. CASE Read
  <2> DEFINE r == Head(pipe)[1]
  <2>1. /\ pipe \in Seq(Requests \X {"Head", "Tail"}) /\ pipe # <<>> /\ child = "Listening"
        /\ UNCHANGED <<pc, shuttingDown>>
    BY <1>20 DEF Read
  <2>2. pipe' = Tail(pipe) \/ pipe' = <<>>
    BY <1>20 DEF Read, Dies
  <2>3. \A i \in 1..Len(pipe') : \E j \in 1..Len(pipe) : pipe'[i] = pipe[j]
    <3>1. CASE pipe' = <<>>
      BY <3>1
    <3>2. CASE pipe' = Tail(pipe)
      <4>1. /\ Len(pipe') = Len(pipe) - 1 /\ Len(pipe) \in Nat
            /\ \A i \in 1..Len(pipe') : pipe'[i] = pipe[i + 1]
        BY <2>1, <3>2, HeadTailProperties
      <4>2. \A i \in 1..Len(pipe') : i + 1 \in 1..Len(pipe)
        BY <4>1
      <4> QED BY <4>1, <4>2
    <3> QED BY <2>2, <3>1, <3>2
  <2>4. child' = "Exiting" => r = Bye
    BY <1>20, <2>1 DEF Read, Receives, Dies
  <2>5. 1 \in 1..Len(pipe) /\ Head(pipe) = pipe[1]
    BY <2>1, EmptySeq
  <2>6. \A i \in 1..Len(pipe') : pipe'[i] # <<Bye, "Head">>
    BY <2>3
  <2>7. pc[Owner] = "Idle" => child' # "Exiting" /\ \A i \in 1..Len(pipe') : pipe'[i][1] # Bye
    BY <2>3, <2>4, <2>5
  <2> QED BY <2>1, <2>6, <2>7
<1>21. CASE Exit
  BY <1>21 DEF Exit, Dies
<1>22. CASE PluginPrints
  BY <1>22 DEF PluginPrints
<1>23. CASE Spin
  BY <1>23 DEF Spin
<1>24. CASE Crash
  BY <1>24 DEF Crash, Dies
<1>25. CASE Inherit
  BY <1>25 DEF Inherit
<1>26. CASE ReadOut
  BY <1>26 DEF ReadOut
<1>27. CASE EndOfOut
  BY <1>27 DEF EndOfOut, Ended, Expected
<1>28. CASE AlarmOut
  BY <1>28 DEF AlarmOut, Claim
<1>29. CASE DrainPending
  BY <1>29 DEF DrainPending
<1>30. CASE ReadErr
  BY <1>30 DEF ReadErr
<1>31. CASE EndOfErr
  BY <1>31 DEF EndOfErr, Ended, Expected
<1>32. CASE AlarmErr
  BY <1>32 DEF AlarmErr, Claim
<1>33. CASE UNCHANGED vars
  BY <1>33 DEF vars
<1> QED BY <1>1, <1>2, <1>3, <1>4, <1>5, <1>6, <1>7, <1>8, <1>9, <1>10, <1>11, <1>12, <1>13, <1>14, <1>15, <1>16, <1>17, <1>18, <1>19, <1>20, <1>21, <1>22, <1>23, <1>24, <1>25, <1>26, <1>27, <1>28, <1>29, <1>30, <1>31, <1>32, <1>33 DEF Next, Sends, Ends, ReadsOut, ReadsErr, Child

LEMMA AnnouncedStep == Inv /\ [Next]_vars => Announced'
<1> SUFFICES ASSUME Inv, [Next]_vars PROVE Announced'
  OBVIOUS
<1> USE HostAssumption DEF Inv, Types, Locks, Farewell, Announced, Tearing, Expected, Requests, Threads, request, process, outputs, readers, flags, locks
<1>1. ASSUME NEW c \in Calls, Call(c) PROVE Announced'
  BY <1>1 DEF Call, Insert, Goto
<1>2. ASSUME NEW c \in Calls, Drop(c) PROVE Announced'
  BY <1>2 DEF Drop, Goto, Dies, Waits
<1>3. ASSUME NEW c \in Calls, Reply(c) PROVE Announced'
  BY <1>3 DEF Reply
<1>4. ASSUME NEW r \in Requests, LockStdin(r) PROVE Announced'
  BY <1>4 DEF LockStdin, Goto
<1>5. ASSUME NEW r \in Requests, Write(r) PROVE Announced'
  BY <1>5 DEF Write, Goto
<1>6. ASSUME NEW r \in Requests, WriteFails(r) PROVE Announced'
  BY <1>6 DEF WriteFails, Goto
<1>7. ASSUME NEW r \in Requests, Evict(r) PROVE Announced'
  BY <1>7 DEF Evict, Goto
<1>8. ASSUME NEW r \in Requests, Answered(r) PROVE Announced'
  BY <1>8 DEF Answered, Goto
<1>9. ASSUME NEW r \in Requests, TimesOut(r) PROVE Announced'
  BY <1>9 DEF TimesOut, Goto
<1>10. ASSUME NEW r \in Requests, Forget(r) PROVE Announced'
  BY <1>10 DEF Forget, Goto
<1>11. ASSUME NEW r \in Requests, Condemn(r) PROVE Announced'
  BY <1>11 DEF Condemn, Goto
<1>12. ASSUME NEW t \in Threads, TakeChild(t) PROVE Announced'
  BY <1>12 DEF TakeChild, Goto
<1>13. ASSUME NEW t \in Threads, Reap(t) PROVE Announced'
  BY <1>13 DEF Reap, Goto, Dies
<1>14. ASSUME NEW t \in Threads, JoinOut(t) PROVE Announced'
  BY <1>14 DEF JoinOut, Goto
<1>15. ASSUME NEW t \in Threads, JoinErr(t) PROVE Announced'
  BY <1>15 DEF JoinErr, Goto
<1>16. ASSUME NEW t \in Threads, Joined(t) PROVE Announced'
  BY <1>16 DEF Joined, Goto
<1>17. ASSUME NEW t \in Threads, JoinExpires(t) PROVE Announced'
  BY <1>17 DEF JoinExpires, Goto, Abort
<1>18. CASE Shutdown
  BY <1>18 DEF Shutdown, Insert
<1>19. CASE TearDown
  BY <1>19 DEF TearDown, Goto
<1>20. CASE Read
  BY <1>20 DEF Read, Receives, Dies
<1>21. CASE Exit
  BY <1>21 DEF Exit, Dies
<1>22. CASE PluginPrints
  BY <1>22 DEF PluginPrints
<1>23. CASE Spin
  BY <1>23 DEF Spin
<1>24. CASE Crash
  BY <1>24 DEF Crash, Dies
<1>25. CASE Inherit
  BY <1>25 DEF Inherit
<1>26. CASE ReadOut
  BY <1>26 DEF ReadOut
<1>27. CASE EndOfOut
  BY <1>27 DEF EndOfOut, Ended, Expected
<1>28. CASE AlarmOut
  BY <1>28 DEF AlarmOut, Claim
<1>29. CASE DrainPending
  BY <1>29 DEF DrainPending
<1>30. CASE ReadErr
  BY <1>30 DEF ReadErr
<1>31. CASE EndOfErr
  BY <1>31 DEF EndOfErr, Ended, Expected
<1>32. CASE AlarmErr
  BY <1>32 DEF AlarmErr, Claim
<1>33. CASE UNCHANGED vars
  BY <1>33 DEF vars
<1> QED BY <1>1, <1>2, <1>3, <1>4, <1>5, <1>6, <1>7, <1>8, <1>9, <1>10, <1>11, <1>12, <1>13, <1>14, <1>15, <1>16, <1>17, <1>18, <1>19, <1>20, <1>21, <1>22, <1>23, <1>24, <1>25, <1>26, <1>27, <1>28, <1>29, <1>30, <1>31, <1>32, <1>33 DEF Next, Sends, Ends, ReadsOut, ReadsErr, Child

LEMMA AlarmsStep == Inv /\ [Next]_vars => Alarms'
<1> SUFFICES ASSUME Inv, [Next]_vars PROVE Alarms'
  OBVIOUS
<1> USE HostAssumption DEF Inv, Types, Announced, Alarms, Drained, Expected, request, process, outputs, readers, flags, locks
<1>1. ASSUME NEW c \in Calls, Call(c) PROVE Alarms'
  BY <1>1 DEF Call, Insert, Goto
<1>2. ASSUME NEW c \in Calls, Drop(c) PROVE Alarms'
  BY <1>2 DEF Drop, Goto, Dies, Waits
<1>3. ASSUME NEW c \in Calls, Reply(c) PROVE Alarms'
  BY <1>3 DEF Reply
<1>4. ASSUME NEW r \in Requests, LockStdin(r) PROVE Alarms'
  BY <1>4 DEF LockStdin, Goto
<1>5. ASSUME NEW r \in Requests, Write(r) PROVE Alarms'
  BY <1>5 DEF Write, Goto
<1>6. ASSUME NEW r \in Requests, WriteFails(r) PROVE Alarms'
  BY <1>6 DEF WriteFails, Goto
<1>7. ASSUME NEW r \in Requests, Evict(r) PROVE Alarms'
  BY <1>7 DEF Evict, Goto
<1>8. ASSUME NEW r \in Requests, Answered(r) PROVE Alarms'
  BY <1>8 DEF Answered, Goto
<1>9. ASSUME NEW r \in Requests, TimesOut(r) PROVE Alarms'
  BY <1>9 DEF TimesOut, Goto
<1>10. ASSUME NEW r \in Requests, Forget(r) PROVE Alarms'
  BY <1>10 DEF Forget, Goto
<1>11. ASSUME NEW r \in Requests, Condemn(r) PROVE Alarms'
  BY <1>11 DEF Condemn, Goto
<1>12. ASSUME NEW t \in Threads, TakeChild(t) PROVE Alarms'
  BY <1>12 DEF TakeChild, Goto
<1>13. ASSUME NEW t \in Threads, Reap(t) PROVE Alarms'
  BY <1>13 DEF Reap, Goto, Dies
<1>14. ASSUME NEW t \in Threads, JoinOut(t) PROVE Alarms'
  BY <1>14 DEF JoinOut, Goto
<1>15. ASSUME NEW t \in Threads, JoinErr(t) PROVE Alarms'
  BY <1>15 DEF JoinErr, Goto
<1>16. ASSUME NEW t \in Threads, Joined(t) PROVE Alarms'
  BY <1>16 DEF Joined, Goto
<1>17. ASSUME NEW t \in Threads, JoinExpires(t) PROVE Alarms'
  BY <1>17 DEF JoinExpires, Goto, Abort
<1>18. CASE Shutdown
  BY <1>18 DEF Shutdown, Insert
<1>19. CASE TearDown
  BY <1>19 DEF TearDown, Goto
<1>20. CASE Read
  BY <1>20 DEF Read, Receives, Dies
<1>21. CASE Exit
  BY <1>21 DEF Exit, Dies
<1>22. CASE PluginPrints
  BY <1>22 DEF PluginPrints
<1>23. CASE Spin
  BY <1>23 DEF Spin
<1>24. CASE Crash
  BY <1>24 DEF Crash, Dies
<1>25. CASE Inherit
  BY <1>25 DEF Inherit
<1>26. CASE ReadOut
  BY <1>26 DEF ReadOut
<1>27. CASE EndOfOut
  BY <1>27 DEF EndOfOut, Ended, Expected
<1>28. CASE AlarmOut
  BY <1>28 DEF AlarmOut, Claim
<1>29. CASE DrainPending
  BY <1>29 DEF DrainPending
<1>30. CASE ReadErr
  BY <1>30 DEF ReadErr
<1>31. CASE EndOfErr
  BY <1>31 DEF EndOfErr, Ended, Expected
<1>32. CASE AlarmErr
  BY <1>32 DEF AlarmErr, Claim
<1>33. CASE UNCHANGED vars
  BY <1>33 DEF vars
<1> QED BY <1>1, <1>2, <1>3, <1>4, <1>5, <1>6, <1>7, <1>8, <1>9, <1>10, <1>11, <1>12, <1>13, <1>14, <1>15, <1>16, <1>17, <1>18, <1>19, <1>20, <1>21, <1>22, <1>23, <1>24, <1>25, <1>26, <1>27, <1>28, <1>29, <1>30, <1>31, <1>32, <1>33 DEF Next, Sends, Ends, ReadsOut, ReadsErr, Child

LEMMA RememberedStep == Inv /\ [Next]_vars => Remembered'
<1> SUFFICES ASSUME Inv, [Next]_vars PROVE Remembered'
  OBVIOUS
<1> USE HostAssumption DEF Inv, Types, Remembered, Requests, Threads, request, process, outputs, readers, flags, locks
<1>1. ASSUME NEW c \in Calls, Call(c) PROVE Remembered'
  BY <1>1 DEF Call, Insert, Goto
<1>2. ASSUME NEW c \in Calls, Drop(c) PROVE Remembered'
  BY <1>2 DEF Drop, Goto, Dies, Waits
<1>3. ASSUME NEW c \in Calls, Reply(c) PROVE Remembered'
  BY <1>3 DEF Reply
<1>4. ASSUME NEW r \in Requests, LockStdin(r) PROVE Remembered'
  BY <1>4 DEF LockStdin, Goto
<1>5. ASSUME NEW r \in Requests, Write(r) PROVE Remembered'
  BY <1>5 DEF Write, Goto
<1>6. ASSUME NEW r \in Requests, WriteFails(r) PROVE Remembered'
  BY <1>6 DEF WriteFails, Goto
<1>7. ASSUME NEW r \in Requests, Evict(r) PROVE Remembered'
  BY <1>7 DEF Evict, Goto
<1>8. ASSUME NEW r \in Requests, Answered(r) PROVE Remembered'
  BY <1>8 DEF Answered, Goto
<1>9. ASSUME NEW r \in Requests, TimesOut(r) PROVE Remembered'
  BY <1>9 DEF TimesOut, Goto
<1>10. ASSUME NEW r \in Requests, Forget(r) PROVE Remembered'
  BY <1>10 DEF Forget, Goto
<1>11. ASSUME NEW r \in Requests, Condemn(r) PROVE Remembered'
  BY <1>11 DEF Condemn, Goto
<1>12. ASSUME NEW t \in Threads, TakeChild(t) PROVE Remembered'
  BY <1>12 DEF TakeChild, Goto
<1>13. ASSUME NEW t \in Threads, Reap(t) PROVE Remembered'
  BY <1>13 DEF Reap, Goto, Dies
<1>14. ASSUME NEW t \in Threads, JoinOut(t) PROVE Remembered'
  BY <1>14 DEF JoinOut, Goto
<1>15. ASSUME NEW t \in Threads, JoinErr(t) PROVE Remembered'
  BY <1>15 DEF JoinErr, Goto
<1>16. ASSUME NEW t \in Threads, Joined(t) PROVE Remembered'
  BY <1>16 DEF Joined, Goto
<1>17. ASSUME NEW t \in Threads, JoinExpires(t) PROVE Remembered'
  BY <1>17 DEF JoinExpires, Goto, Abort
<1>18. CASE Shutdown
  BY <1>18 DEF Shutdown, Insert
<1>19. CASE TearDown
  BY <1>19 DEF TearDown, Goto
<1>20. CASE Read
  BY <1>20 DEF Read, Receives, Dies
<1>21. CASE Exit
  BY <1>21 DEF Exit, Dies
<1>22. CASE PluginPrints
  BY <1>22 DEF PluginPrints
<1>23. CASE Spin
  BY <1>23 DEF Spin
<1>24. CASE Crash
  BY <1>24 DEF Crash, Dies
<1>25. CASE Inherit
  BY <1>25 DEF Inherit
<1>26. CASE ReadOut
  BY <1>26 DEF ReadOut
<1>27. CASE EndOfOut
  BY <1>27 DEF EndOfOut, Ended, Expected
<1>28. CASE AlarmOut
  BY <1>28 DEF AlarmOut, Claim
<1>29. CASE DrainPending
  BY <1>29 DEF DrainPending
<1>30. CASE ReadErr
  BY <1>30 DEF ReadErr
<1>31. CASE EndOfErr
  BY <1>31 DEF EndOfErr, Ended, Expected
<1>32. CASE AlarmErr
  BY <1>32 DEF AlarmErr, Claim
<1>33. CASE UNCHANGED vars
  BY <1>33 DEF vars
<1> QED BY <1>1, <1>2, <1>3, <1>4, <1>5, <1>6, <1>7, <1>8, <1>9, <1>10, <1>11, <1>12, <1>13, <1>14, <1>15, <1>16, <1>17, <1>18, <1>19, <1>20, <1>21, <1>22, <1>23, <1>24, <1>25, <1>26, <1>27, <1>28, <1>29, <1>30, <1>31, <1>32, <1>33 DEF Next, Sends, Ends, ReadsOut, ReadsErr, Child

LEMMA ReapedStep == Inv /\ [Next]_vars => Reaped'
<1> SUFFICES ASSUME Inv, [Next]_vars PROVE Reaped'
  OBVIOUS
<1> USE HostAssumption DEF Inv, Types, Locks, Reaped, Farewell, Announced, Gone, Requests, Threads, request, process, outputs, readers, flags, locks
<1>1. ASSUME NEW c \in Calls, Call(c) PROVE Reaped'
  BY <1>1 DEF Call, Insert, Goto
<1>2. ASSUME NEW c \in Calls, Drop(c) PROVE Reaped'
  BY <1>2 DEF Drop, Goto, Dies, Waits
<1>3. ASSUME NEW c \in Calls, Reply(c) PROVE Reaped'
  BY <1>3 DEF Reply
<1>4. ASSUME NEW r \in Requests, LockStdin(r) PROVE Reaped'
  BY <1>4 DEF LockStdin, Goto
<1>5. ASSUME NEW r \in Requests, Write(r) PROVE Reaped'
  BY <1>5 DEF Write, Goto
<1>6. ASSUME NEW r \in Requests, WriteFails(r) PROVE Reaped'
  BY <1>6 DEF WriteFails, Goto
<1>7. ASSUME NEW r \in Requests, Evict(r) PROVE Reaped'
  BY <1>7 DEF Evict, Goto
<1>8. ASSUME NEW r \in Requests, Answered(r) PROVE Reaped'
  BY <1>8 DEF Answered, Goto
<1>9. ASSUME NEW r \in Requests, TimesOut(r) PROVE Reaped'
  BY <1>9 DEF TimesOut, Goto
<1>10. ASSUME NEW r \in Requests, Forget(r) PROVE Reaped'
  BY <1>10 DEF Forget, Goto
<1>11. ASSUME NEW r \in Requests, Condemn(r) PROVE Reaped'
  BY <1>11 DEF Condemn, Goto
<1>12. ASSUME NEW t \in Threads, TakeChild(t) PROVE Reaped'
  BY <1>12 DEF TakeChild, Goto
<1>13. ASSUME NEW t \in Threads, Reap(t) PROVE Reaped'
  BY <1>13 DEF Reap, Goto, Dies
<1>14. ASSUME NEW t \in Threads, JoinOut(t) PROVE Reaped'
  BY <1>14 DEF JoinOut, Goto
<1>15. ASSUME NEW t \in Threads, JoinErr(t) PROVE Reaped'
  BY <1>15 DEF JoinErr, Goto
<1>16. ASSUME NEW t \in Threads, Joined(t) PROVE Reaped'
  BY <1>16 DEF Joined, Goto
<1>17. ASSUME NEW t \in Threads, JoinExpires(t) PROVE Reaped'
  BY <1>17 DEF JoinExpires, Goto, Abort
<1>18. CASE Shutdown
  BY <1>18 DEF Shutdown, Insert
<1>19. CASE TearDown
  BY <1>19 DEF TearDown, Goto
<1>20. CASE Read
  BY <1>20 DEF Read, Receives, Dies
<1>21. CASE Exit
  BY <1>21 DEF Exit, Dies
<1>22. CASE PluginPrints
  BY <1>22 DEF PluginPrints
<1>23. CASE Spin
  BY <1>23 DEF Spin
<1>24. CASE Crash
  BY <1>24 DEF Crash, Dies
<1>25. CASE Inherit
  BY <1>25 DEF Inherit
<1>26. CASE ReadOut
  BY <1>26 DEF ReadOut
<1>27. CASE EndOfOut
  BY <1>27 DEF EndOfOut, Ended, Expected
<1>28. CASE AlarmOut
  BY <1>28 DEF AlarmOut, Claim
<1>29. CASE DrainPending
  BY <1>29 DEF DrainPending
<1>30. CASE ReadErr
  BY <1>30 DEF ReadErr
<1>31. CASE EndOfErr
  BY <1>31 DEF EndOfErr, Ended, Expected
<1>32. CASE AlarmErr
  BY <1>32 DEF AlarmErr, Claim
<1>33. CASE UNCHANGED vars
  BY <1>33 DEF vars
<1> QED BY <1>1, <1>2, <1>3, <1>4, <1>5, <1>6, <1>7, <1>8, <1>9, <1>10, <1>11, <1>12, <1>13, <1>14, <1>15, <1>16, <1>17, <1>18, <1>19, <1>20, <1>21, <1>22, <1>23, <1>24, <1>25, <1>26, <1>27, <1>28, <1>29, <1>30, <1>31, <1>32, <1>33 DEF Next, Sends, Ends, ReadsOut, ReadsErr, Child

LEMMA DrainedStep == Inv /\ [Next]_vars => Drained'
<1> SUFFICES ASSUME Inv, [Next]_vars PROVE Drained'
  OBVIOUS
<1> USE HostAssumption DEF Inv, Types, Counts, Drained, request, process, outputs, readers, flags, locks
<1>1. ASSUME NEW c \in Calls, Call(c) PROVE Drained'
  BY <1>1 DEF Call, Insert, Goto
<1>2. ASSUME NEW c \in Calls, Drop(c) PROVE Drained'
  BY <1>2 DEF Drop, Goto, Dies, Waits
<1>3. ASSUME NEW c \in Calls, Reply(c) PROVE Drained'
  BY <1>3 DEF Reply
<1>4. ASSUME NEW r \in Requests, LockStdin(r) PROVE Drained'
  BY <1>4 DEF LockStdin, Goto
<1>5. ASSUME NEW r \in Requests, Write(r) PROVE Drained'
  BY <1>5 DEF Write, Goto
<1>6. ASSUME NEW r \in Requests, WriteFails(r) PROVE Drained'
  BY <1>6 DEF WriteFails, Goto
<1>7. ASSUME NEW r \in Requests, Evict(r) PROVE Drained'
  BY <1>7 DEF Evict, Goto
<1>8. ASSUME NEW r \in Requests, Answered(r) PROVE Drained'
  BY <1>8 DEF Answered, Goto
<1>9. ASSUME NEW r \in Requests, TimesOut(r) PROVE Drained'
  BY <1>9 DEF TimesOut, Goto
<1>10. ASSUME NEW r \in Requests, Forget(r) PROVE Drained'
  BY <1>10 DEF Forget, Goto
<1>11. ASSUME NEW r \in Requests, Condemn(r) PROVE Drained'
  BY <1>11 DEF Condemn, Goto
<1>12. ASSUME NEW t \in Threads, TakeChild(t) PROVE Drained'
  BY <1>12 DEF TakeChild, Goto
<1>13. ASSUME NEW t \in Threads, Reap(t) PROVE Drained'
  BY <1>13 DEF Reap, Goto, Dies
<1>14. ASSUME NEW t \in Threads, JoinOut(t) PROVE Drained'
  BY <1>14 DEF JoinOut, Goto
<1>15. ASSUME NEW t \in Threads, JoinErr(t) PROVE Drained'
  BY <1>15 DEF JoinErr, Goto
<1>16. ASSUME NEW t \in Threads, Joined(t) PROVE Drained'
  BY <1>16 DEF Joined, Goto
<1>17. ASSUME NEW t \in Threads, JoinExpires(t) PROVE Drained'
  BY <1>17 DEF JoinExpires, Goto, Abort
<1>18. CASE Shutdown
  BY <1>18 DEF Shutdown, Insert
<1>19. CASE TearDown
  BY <1>19 DEF TearDown, Goto
<1>20. CASE Read
  BY <1>20 DEF Read, Receives, Dies
<1>21. CASE Exit
  BY <1>21 DEF Exit, Dies
<1>22. CASE PluginPrints
  BY <1>22 DEF PluginPrints
<1>23. CASE Spin
  BY <1>23 DEF Spin
<1>24. CASE Crash
  BY <1>24 DEF Crash, Dies
<1>25. CASE Inherit
  BY <1>25 DEF Inherit
<1>26. CASE ReadOut
  BY <1>26 DEF ReadOut
<1>27. CASE EndOfOut
  BY <1>27 DEF EndOfOut, Ended, Expected
<1>28. CASE AlarmOut
  BY <1>28 DEF AlarmOut, Claim
<1>29. CASE DrainPending
  BY <1>29 DEF DrainPending
<1>30. CASE ReadErr
  BY <1>30 DEF ReadErr
<1>31. CASE EndOfErr
  BY <1>31 DEF EndOfErr, Ended, Expected
<1>32. CASE AlarmErr
  BY <1>32 DEF AlarmErr, Claim
<1>33. CASE UNCHANGED vars
  BY <1>33 DEF vars
<1> QED BY <1>1, <1>2, <1>3, <1>4, <1>5, <1>6, <1>7, <1>8, <1>9, <1>10, <1>11, <1>12, <1>13, <1>14, <1>15, <1>16, <1>17, <1>18, <1>19, <1>20, <1>21, <1>22, <1>23, <1>24, <1>25, <1>26, <1>27, <1>28, <1>29, <1>30, <1>31, <1>32, <1>33 DEF Next, Sends, Ends, ReadsOut, ReadsErr, Child

LEMMA HandlesStep == Inv /\ [Next]_vars => Handles'
<1> SUFFICES ASSUME Inv, [Next]_vars PROVE Handles'
  OBVIOUS
<1> USE HostAssumption DEF Inv, Types, Announced, Handles, Tearing, Requests, Threads, request, process, outputs, readers, flags, locks
<1>1. ASSUME NEW c \in Calls, Call(c) PROVE Handles'
  BY <1>1 DEF Call, Insert, Goto
<1>2. ASSUME NEW c \in Calls, Drop(c) PROVE Handles'
  BY <1>2 DEF Drop, Goto, Dies, Waits
<1>3. ASSUME NEW c \in Calls, Reply(c) PROVE Handles'
  BY <1>3 DEF Reply
<1>4. ASSUME NEW r \in Requests, LockStdin(r) PROVE Handles'
  BY <1>4 DEF LockStdin, Goto
<1>5. ASSUME NEW r \in Requests, Write(r) PROVE Handles'
  BY <1>5 DEF Write, Goto
<1>6. ASSUME NEW r \in Requests, WriteFails(r) PROVE Handles'
  BY <1>6 DEF WriteFails, Goto
<1>7. ASSUME NEW r \in Requests, Evict(r) PROVE Handles'
  BY <1>7 DEF Evict, Goto
<1>8. ASSUME NEW r \in Requests, Answered(r) PROVE Handles'
  BY <1>8 DEF Answered, Goto
<1>9. ASSUME NEW r \in Requests, TimesOut(r) PROVE Handles'
  BY <1>9 DEF TimesOut, Goto
<1>10. ASSUME NEW r \in Requests, Forget(r) PROVE Handles'
  BY <1>10 DEF Forget, Goto
<1>11. ASSUME NEW r \in Requests, Condemn(r) PROVE Handles'
  BY <1>11 DEF Condemn, Goto
<1>12. ASSUME NEW t \in Threads, TakeChild(t) PROVE Handles'
  BY <1>12 DEF TakeChild, Goto
<1>13. ASSUME NEW t \in Threads, Reap(t) PROVE Handles'
  BY <1>13 DEF Reap, Goto, Dies
<1>14. ASSUME NEW t \in Threads, JoinOut(t) PROVE Handles'
  BY <1>14 DEF JoinOut, Goto
<1>15. ASSUME NEW t \in Threads, JoinErr(t) PROVE Handles'
  BY <1>15 DEF JoinErr, Goto
<1>16. ASSUME NEW t \in Threads, Joined(t) PROVE Handles'
  BY <1>16 DEF Joined, Goto
<1>17. ASSUME NEW t \in Threads, JoinExpires(t) PROVE Handles'
  BY <1>17 DEF JoinExpires, Goto, Abort
<1>18. CASE Shutdown
  BY <1>18 DEF Shutdown, Insert
<1>19. CASE TearDown
  BY <1>19 DEF TearDown, Goto
<1>20. CASE Read
  BY <1>20 DEF Read, Receives, Dies
<1>21. CASE Exit
  BY <1>21 DEF Exit, Dies
<1>22. CASE PluginPrints
  BY <1>22 DEF PluginPrints
<1>23. CASE Spin
  BY <1>23 DEF Spin
<1>24. CASE Crash
  BY <1>24 DEF Crash, Dies
<1>25. CASE Inherit
  BY <1>25 DEF Inherit
<1>26. CASE ReadOut
  BY <1>26 DEF ReadOut
<1>27. CASE EndOfOut
  BY <1>27 DEF EndOfOut, Ended, Expected
<1>28. CASE AlarmOut
  BY <1>28 DEF AlarmOut, Claim
<1>29. CASE DrainPending
  BY <1>29 DEF DrainPending
<1>30. CASE ReadErr
  BY <1>30 DEF ReadErr
<1>31. CASE EndOfErr
  BY <1>31 DEF EndOfErr, Ended, Expected
<1>32. CASE AlarmErr
  BY <1>32 DEF AlarmErr, Claim
<1>33. CASE UNCHANGED vars
  BY <1>33 DEF vars
<1> QED BY <1>1, <1>2, <1>3, <1>4, <1>5, <1>6, <1>7, <1>8, <1>9, <1>10, <1>11, <1>12, <1>13, <1>14, <1>15, <1>16, <1>17, <1>18, <1>19, <1>20, <1>21, <1>22, <1>23, <1>24, <1>25, <1>26, <1>27, <1>28, <1>29, <1>30, <1>31, <1>32, <1>33 DEF Next, Sends, Ends, ReadsOut, ReadsErr, Child

-----------------------------------------------------------------------------
(* The theorems *)

\* The invariant holds in every state the host can reach.
THEOREM HostInvariant == Spec => []Inv
<1>1. Inv /\ [Next]_vars => Inv'
  BY TypesStep, CountsStep, LocksStep, FarewellStep, AnnouncedStep, AlarmsStep, RememberedStep,
     ReapedStep, DrainedStep, HandlesStep DEF Inv
<1> QED BY InitInv, <1>1, PTL DEF Spec

\* Every variable keeps its type, a pipe never holds more than it takes, and
\* a lock is held by the thread that is where it holds it (TypeOK).
THEOREM TypeCorrect == Spec => []TypeOK
<1>1. Inv => TypeOK
  <2> SUFFICES ASSUME Inv PROVE TypeOK
    OBVIOUS
  <2>1. err \in 0..MaxLogs /\ logs \in [{"out", "err"} -> 0..MaxLogs] /\ reports \in Nat
    BY HostAssumption DEF Inv, Counts
  <2> QED BY <2>1 DEF Inv, Types, Locks, Writing, TypeOK
<1> QED BY HostInvariant, <1>1, PTL

\* The death of the child is announced at most once, and only when it died
\* by itself: a reader reaches its alarm only if neither flag was up when it
\* saw the end, and every kill comes after a flag (OneHonestAlarm).
THEOREM AlarmIsHonest == Spec => []OneHonestAlarm
<1>1. Inv => OneHonestAlarm
  BY DEF Inv, Types, Counts, Announced, Alarms, OneHonestAlarm
<1> QED BY HostInvariant, <1>1, PTL

\* Whoever waits for a reply is still in `pending', or its reply is there
\* (WaiterIsRemembered).
THEOREM NoWaiterIsForgotten == Spec => []WaiterIsRemembered
<1>1. Inv => WaiterIsRemembered
  BY DEF Inv, Remembered, WaiterIsRemembered
<1> QED BY HostInvariant, <1>1, PTL

\* A shutdown that returns leaves a dead child, and a report that is complete
\* unless it says otherwise or a timeout killed the child before (CleanShutdown).
THEOREM ShutdownIsClean == Spec => []CleanShutdown
<1>1. Inv => CleanShutdown
  BY DEF Inv, Types, Reaped, Gone, Drained, Handles, CleanShutdown
<1> QED BY HostInvariant, <1>1, PTL
=============================================================================
