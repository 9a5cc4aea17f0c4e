------------------------------- MODULE Blocking ------------------------------
(***************************************************************************)
(* Blocking calls of worker threads and the garbage collector              *)
(* (support/repl_shim.c, used by async.ss).                                *)
(*                                                                         *)
(* Chez (external) collects when every active thread has stopped at the    *)
(* rendezvous.  A thread blocked in a C call never gets there, so the      *)
(* wrapper takes it off the active threads first and puts it back before   *)
(* it returns to Scheme, which waits for a running collection.  The        *)
(* output of a command or a file is gathered in a buffer of the thread     *)
(* that grows by doubling and is kept for the next call; every allocation  *)
(* and every open may fail, a command may never end, and a stream may      *)
(* report an error, which the code takes for the end of the data when it   *)
(* reads and does not look at when it closes what it has written.          *)
(***************************************************************************)
EXTENDS Integers, FiniteSets

CONSTANTS
    Threads,    \* the Scheme threads
    FirstCap,   \* 8192
    MaxTotal    \* bound: bytes of a command, a file or a content

ASSUME BlockingAssumption ==
    /\ FirstCap \in Nat /\ FirstCap >= 2
    /\ MaxTotal \in Nat

VARIABLES
    pc,         \* where each thread is: see States
    active,     \* the threads a collection waits for
    parked,     \* those stopped at the rendezvous
    gc,         \* "idle", "requested" or "running"
    cap,        \* tls_cmd_cap of each thread, 0 without a buffer
    len,        \* bytes gathered by the call
    total,      \* bytes there are to gather or write
    result      \* what the call is about to return

blockingVars == <<pc, active, parked, gc, cap, len, total, result>>

States == {"scheme", "sleep", "open", "read", "create", "write", "activate"}

\* How a call ended, the bytes gathered or on the file, and whether the stream
\* had reported an error, which nothing remembers.
Ended(how, n, error) == [how |-> how, bytes |-> n, error |-> error]
Hows == {"none", "output", "failure", "written"}
NotEnded == Ended("none", 0, FALSE)
Failure == Ended("failure", 0, FALSE)

BlockingInit ==
    /\ pc = [t \in Threads |-> "scheme"]
    /\ active = Threads
    /\ parked = {}
    /\ gc = "idle"
    /\ cap = [t \in Threads |-> 0]
    /\ len = [t \in Threads |-> 0]
    /\ total = [t \in Threads |-> 0]
    /\ result = [t \in Threads |-> NotEnded]

Enters(t, s) == pc' = [pc EXCEPT ![t] = s]
Returns(t, ended) == result' = [result EXCEPT ![t] = ended]

\* A thread runs Scheme code until it notices a request to collect.
Running(t) == pc[t] = "scheme" /\ gc = "idle"

------------------------------------------------------------------------------
(* Chez's collector (external).                                            *)

Request(t) ==
    /\ Running(t)
    /\ gc' = "requested"
    /\ UNCHANGED <<pc, active, parked, cap, len, total, result>>

Park(t) ==
    /\ gc = "requested" /\ pc[t] = "scheme" /\ t \notin parked
    /\ parked' = parked \cup {t}
    /\ UNCHANGED <<pc, active, gc, cap, len, total, result>>

Collect ==
    /\ gc = "requested" /\ active \subseteq parked
    /\ gc' = "running"
    /\ UNCHANGED <<pc, active, parked, cap, len, total, result>>

Collected ==
    /\ gc = "running"
    /\ gc' = "idle"
    /\ parked' = {}
    /\ UNCHANGED <<pc, active, cap, len, total, result>>

StayActive(t) == UNCHANGED active

\* Sdeactivate_thread
Deactivate(t) == active' = active \ {t}

\* Sactivate_thread, and the way back to Scheme, where the result is taken.
Activate(t) ==
    /\ pc[t] = "activate" /\ gc # "running"
    /\ active' = active \cup {t}
    /\ Enters(t, "scheme")
    /\ len' = [len EXCEPT ![t] = 0]
    /\ total' = [total EXCEPT ![t] = 0]
    /\ Returns(t, NotEnded)
    /\ UNCHANGED <<parked, gc, cap>>

------------------------------------------------------------------------------
(* repl_poll and repl_nanosleep: the thread stays active, for a bounded    *)
(* time.                                                                   *)

Sleep(t) ==
    /\ Running(t)
    /\ Enters(t, "sleep")
    /\ UNCHANGED <<active, parked, gc, cap, len, total, result>>

Wake(t) ==
    /\ pc[t] = "sleep"
    /\ Enters(t, "scheme")
    /\ UNCHANGED <<active, parked, gc, cap, len, total, result>>

------------------------------------------------------------------------------
(* repl_capture_command and repl_read_file, which differ in what they open. *)

\* The first call of a thread allocates its buffer; without memory it returns
\* at once, still active, and nothing has changed.
CallRead(t) ==
    /\ Running(t)
    /\ cap' = [cap EXCEPT ![t] = IF @ = 0 THEN FirstCap ELSE @]
    /\ Deactivate(t)
    /\ Enters(t, "open")
    /\ UNCHANGED <<parked, gc, len, total, result>>

OpenFailsInactive(t) ==
    /\ pc[t] = "open"
    /\ Returns(t, Failure)
    /\ Enters(t, "scheme")
    /\ UNCHANGED <<active, parked, gc, cap, len, total>>

\* popen or fopen fails.
OpenFails(t) ==
    /\ pc[t] = "open"
    /\ Returns(t, Failure)
    /\ Enters(t, "activate")
    /\ UNCHANGED <<active, parked, gc, cap, len, total>>

OpenSource(t) ==
    /\ pc[t] = "open"
    /\ \E n \in 0 .. MaxTotal : total' = [total EXCEPT ![t] = n]
    /\ Enters(t, "read")
    /\ UNCHANGED <<active, parked, gc, cap, len, result>>

Smaller(m, n) == IF m <= n THEN m ELSE n

\* What fread gives at most: the room up to the last byte, unless the data ends.
Chunk(t) == Smaller(total[t] - len[t], cap[t] - len[t] - 1)

FullLate(t, n) == n + 1 > cap[t]

\* After a read of n bytes in all, only room for the terminating NUL is left.
Full(t, n) == n + 1 >= cap[t]

\* fread returns bytes, fewer than it could after an error; a full buffer
\* doubles.
Read(t) ==
    /\ pc[t] = "read"
    /\ \E n \in 1 .. Chunk(t) :
         /\ len' = [len EXCEPT ![t] = @ + n]
         /\ cap' = [cap EXCEPT ![t] = IF Full(t, len[t] + n) THEN 2 * @ ELSE @]
    /\ UNCHANGED <<pc, active, parked, gc, total, result>>

ReallocUnchecked(t) ==
    /\ pc[t] = "read" /\ Chunk(t) > 0 /\ Full(t, len[t] + Chunk(t))
    /\ cap' = [cap EXCEPT ![t] = 0]
    /\ UNCHANGED <<pc, active, parked, gc, len, total, result>>

\* realloc fails: the thread has no buffer any more.
ReadOutOfMemory(t) ==
    /\ pc[t] = "read" /\ Chunk(t) > 0 /\ Full(t, len[t] + Chunk(t))
    /\ cap' = [cap EXCEPT ![t] = 0]
    /\ Returns(t, Failure)
    /\ Enters(t, "activate")
    /\ UNCHANGED <<active, parked, gc, len, total>>

\* fread returns 0, at the end of the data or on an error at any place in it:
\* what was gathered is the output.
ReadEnds(t) ==
    /\ pc[t] = "read"
    /\ \E error \in BOOLEAN :
         /\ error \/ Chunk(t) = 0
         /\ Returns(t, Ended("output", len[t], error))
    /\ Enters(t, "activate")
    /\ UNCHANGED <<active, parked, gc, cap, len, total>>

------------------------------------------------------------------------------
(* repl_write_file                                                         *)

CallWrite(t) ==
    /\ Running(t)
    /\ \E n \in 0 .. MaxTotal : total' = [total EXCEPT ![t] = n]
    /\ Deactivate(t)
    /\ Enters(t, "create")
    /\ UNCHANGED <<parked, gc, cap, len, result>>

Create(t) ==
    /\ pc[t] = "create"
    /\ \/ Returns(t, Failure) /\ Enters(t, "activate")
       \/ Enters(t, "write") /\ UNCHANGED result
    /\ UNCHANGED <<active, parked, gc, cap, len, total>>

\* fwrite counts the bytes it took, which on a full disk may not be all, and
\* decides what is returned; fclose writes those still in its buffer, and when
\* that fails only some of them get to the file.
WriteFile(t) ==
    /\ pc[t] = "write"
    /\ \E counted \in 0 .. total[t], error \in BOOLEAN :
         \E kept \in 0 .. counted :
           /\ error \/ kept = counted
           /\ Returns(t, IF counted = total[t]
                         THEN Ended("written", kept, error) ELSE Failure)
    /\ Enters(t, "activate")
    /\ UNCHANGED <<active, parked, gc, cap, len, total>>

------------------------------------------------------------------------------
\* Steps a thread takes in bounded time.
Prompt(t) == Park(t) \/ Wake(t)

BlockingNext ==
    \/ \E t \in Threads :
         \/ Request(t) \/ Activate(t) \/ Sleep(t) \/ Prompt(t)
         \/ CallRead(t) \/ OpenFails(t) \/ OpenSource(t)
         \/ Read(t) \/ ReadOutOfMemory(t) \/ ReadEnds(t)
         \/ CallWrite(t) \/ Create(t) \/ WriteFile(t)
    \/ Collect
    \/ Collected

\* No fairness for a blocking call: a command may run for ever.
BlockingSpec ==
    /\ BlockingInit /\ [][BlockingNext]_blockingVars
    /\ \A t \in Threads : WF_blockingVars(Prompt(t))
    /\ WF_blockingVars(Collect) /\ WF_blockingVars(Collected)

------------------------------------------------------------------------------
(* Properties.                                                             *)

\* Every variable has its type, and the bytes gathered leave room for the NUL
\* that ends them (repl_shim.c:93).
BlockingTypeOK ==
    /\ pc \in [Threads -> States]
    /\ active \subseteq Threads
    /\ parked \subseteq Threads
    /\ gc \in {"idle", "requested", "running"}
    /\ cap \in [Threads -> Nat]
    /\ len \in [Threads -> Nat]
    /\ total \in [Threads -> 0 .. MaxTotal]
    /\ result \in [Threads -> [how : Hows, bytes : Nat, error : BOOLEAN]]
    /\ \A t \in Threads : pc[t] = "read" => len[t] < cap[t]

\* While the collector moves objects no thread runs Scheme code or converts a
\* result: whichever way a call ends, its thread has come back through the
\* rendezvous (repl_shim.c, all returns after Sdeactivate_thread).
HeapSafe ==
    gc = "running" => \A t \in Threads : pc[t] \in {"scheme", "sleep"} => t \in parked

\* Only an error of the stream cuts an output short or leaves a file reported
\* written without all its bytes: never the way the data fell into chunks, nor
\* the size earlier calls left the buffer in (repl_shim.c:80-93, 129-142,
\* 170-175).  With an error either may happen, since the code looks at fread's 0
\* and fwrite's count alone.
WholeResult ==
    \A t \in Threads :
        pc[t] = "activate" /\ result[t].how # "failure" /\ ~result[t].error
            => result[t].bytes = total[t]

\* A requested collection runs although commands never end (async.ss:11-15).
CollectionRuns == gc = "requested" ~> gc = "running"
==============================================================================
