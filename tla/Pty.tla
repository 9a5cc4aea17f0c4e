--------------------------------- MODULE Pty ---------------------------------
(***************************************************************************)
(* Commands on pseudo-terminals (support/pty_shim.c, pty.sls, terminal.ss).*)
(*                                                                         *)
(* A terminal runs one command at a time.  The command's output is read    *)
(* without blocking by a thread of its own, which posts it on a channel    *)
(* and, once the child has gone, a last message that says so; the timer    *)
(* takes the messages and releases the descriptor, whose number the next   *)
(* command may get.  The thread learns of the exit in two steps, a read    *)
(* and a waitpid, with the child running in between.  A command that is    *)
(* killed asks for its reader to be terminated before it closes the        *)
(* descriptor, without waiting and whether or not that fails: the reader   *)
(* may outlive it, and read a descriptor that is another command's by then.*)
(* Statuses are left out, since neither front end uses them.               *)
(***************************************************************************)
EXTENDS Integers, Sequences

CONSTANTS
    Terms,      \* terminal buffers
    MaxCmds,    \* bound: commands in a behaviour
    Fds,        \* descriptor numbers
    MaxChunks,  \* bound: chunks of output of a command
    EofRetries, \* 500
    ReapTries   \* 200

Cmds == 1 .. MaxCmds
None == 0
Done == MaxCmds + 1

ASSUME PtyAssumption ==
    /\ MaxCmds \in Nat /\ MaxChunks \in Nat
    /\ Fds \subseteq Nat \ {None}
    /\ EofRetries \in Nat /\ ReapTries \in Nat

VARIABLES
    command,    \* the command each terminal runs, or None
    file,       \* the command at the other side of each descriptor, or None
    mfd,        \* the descriptor that the reader of a command holds, or None
    proc,       \* the child of a command: see Procs
    sent,       \* chunks it has written
    unread,     \* those not read yet
    reader,     \* where the reader of a command is: see Readers
    tries,      \* eagain-count, or attempts of its reap-loop
    channel,    \* all the reader has posted: data of a command, or Done
    taken,      \* how many of these the timer has taken
    stolen      \* history: its chunks that readers of others have read

vars == <<command, file, mfd, proc, sent, unread, reader, tries, channel, taken, stolen>>
readers == <<mfd, reader, tries, channel>>
kernel == <<file, sent, stolen>>

\* A detached child lives on with its terminal closed.
Procs == {"none", "running", "detached", "exited", "reaped"}
Readers == {"none", "poll", "nothing", "eof", "drain", "reap", "finished", "stopped"}

Init ==
    /\ command = [t \in Terms |-> None]
    /\ file = [f \in Fds |-> None]
    /\ mfd = [c \in Cmds |-> None]
    /\ proc = [c \in Cmds |-> "none"]
    /\ sent = [c \in Cmds |-> 0]
    /\ unread = [c \in Cmds |-> 0]
    /\ reader = [c \in Cmds |-> "none"]
    /\ tries = [c \in Cmds |-> 0]
    /\ channel = [c \in Cmds |-> <<>>]
    /\ taken = [c \in Cmds |-> 0]
    /\ stolen = [c \in Cmds |-> 0]

\* A terminal runs the command and knows its channel; otherwise the reader of
\* the command, if it goes on, is on its own.
Owned(c) == \E t \in Terms : command[t] = c

Alive(c) == proc[c] \in {"running", "detached"}

------------------------------------------------------------------------------
(* The child (external).                                                   *)

Write(c) ==
    /\ proc[c] = "running" /\ \E f \in Fds : file[f] = c
    /\ sent[c] < MaxChunks
    /\ sent' = [sent EXCEPT ![c] = @ + 1]
    /\ unread' = [unread EXCEPT ![c] = @ + 1]
    /\ UNCHANGED <<command, file, proc, taken, stolen, readers>>

\* It closes its terminal, or exits.
Leave(c) ==
    /\ Alive(c)
    /\ \E p \in {"detached", "exited"} : p # proc[c] /\ proc' = [proc EXCEPT ![c] = p]
    /\ UNCHANGED <<command, unread, taken, readers, kernel>>

\* waitpid without waiting: reaps a child that has exited.
Waitpid(c) == proc' = [proc EXCEPT ![c] = IF @ = "exited" THEN "reaped" ELSE @]

------------------------------------------------------------------------------
(* The reader thread.                                                      *)

\* Nobody sees what is posted on a channel that was closed.
Post(c, message) ==
    channel' = [channel EXCEPT ![c] = IF Owned(c) THEN Append(@, message) ELSE @]
Goto(c, s) == reader' = [reader EXCEPT ![c] = s]

\* A read of the reader of c gets what the command d behind its descriptor has
\* written.
ReadData(c, d) ==
    /\ file[mfd[c]] = d /\ unread[d] > 0
    /\ unread' = [unread EXCEPT ![d] = @ - 1]
    /\ stolen' = [stolen EXCEPT ![d] = IF c = d THEN @ ELSE @ + 1]
    /\ Post(c, d)
    /\ UNCHANGED <<command, file, mfd, proc, sent, taken>>

Poll(c) ==
    /\ reader[c] = "poll" /\ \E d \in Cmds : ReadData(c, d)
    /\ tries' = [tries EXCEPT ![c] = 0]
    /\ UNCHANGED reader

\* Its descriptor was closed, and no other command has the number.
Closed(c) == mfd[c] # None /\ file[mfd[c]] = None

\* EBADF
PollError(c) ==
    /\ reader[c] = "poll" /\ Closed(c)
    /\ Post(c, Done)
    /\ Goto(c, "finished")
    /\ UNCHANGED <<command, mfd, proc, unread, tries, taken, kernel>>

Empty(c) == mfd[c] # None /\ \E d \in Cmds : file[mfd[c]] = d /\ unread[d] = 0

\* EAGAIN, or EIO once the terminal is closed.
PollNothing(c) ==
    /\ reader[c] = "poll" /\ Empty(c)
    /\ Goto(c, "nothing")
    /\ UNCHANGED <<command, mfd, proc, unread, tries, channel, taken, kernel>>

\* Some systems report the end of a closed terminal instead.
PollEof(c) ==
    /\ reader[c] = "poll" /\ Empty(c) /\ proc[file[mfd[c]]] # "running"
    /\ Goto(c, "eof")
    /\ UNCHANGED <<command, mfd, proc, unread, tries, channel, taken, kernel>>

Least(m, n) == IF m <= n THEN m ELSE n

NothingUndrained(c) ==
    /\ reader[c] = "nothing"
    /\ Waitpid(c)
    /\ IF Alive(c) THEN Goto(c, "poll") /\ UNCHANGED channel
       ELSE Post(c, Done) /\ Goto(c, "finished")
    /\ UNCHANGED <<command, mfd, unread, tries, taken, kernel>>

\* pty-child-alive?, which reaps a child that is not.
Nothing(c) ==
    /\ reader[c] = "nothing"
    /\ Waitpid(c)
    /\ IF Alive(c)
       THEN /\ Goto(c, "poll")
            /\ tries' = [tries EXCEPT ![c] = Least(@ + 1, EofRetries)]
       ELSE Goto(c, "drain") /\ UNCHANGED tries
    /\ UNCHANGED <<command, mfd, unread, channel, taken, kernel>>

Drain(c) ==
    /\ reader[c] = "drain" /\ \E d \in Cmds : ReadData(c, d)
    /\ UNCHANGED <<reader, tries>>

DrainUntilEof(c) == reader[c] = "drain" /\ Empty(c) /\ UNCHANGED vars

\* Whatever the second waitpid says.
DrainEnds(c) ==
    /\ reader[c] = "drain" /\ (Empty(c) \/ Closed(c))
    /\ Post(c, Done)
    /\ Goto(c, "finished")
    /\ UNCHANGED <<command, mfd, proc, unread, tries, taken, kernel>>

Eof(c) ==
    /\ reader[c] = "eof"
    /\ Waitpid(c)
    /\ IF Alive(c) /\ tries[c] < EofRetries
       THEN Goto(c, "poll") /\ tries' = [tries EXCEPT ![c] = @ + 1]
       ELSE Goto(c, "reap") /\ tries' = [tries EXCEPT ![c] = 0]
    /\ UNCHANGED <<command, mfd, unread, channel, taken, kernel>>

\* A status of 0 is taken for a child that has not exited.
Reap(c) ==
    /\ reader[c] = "reap"
    /\ Waitpid(c)
    /\ \/ /\ proc[c] # "reaped" /\ tries[c] < ReapTries
          /\ tries' = [tries EXCEPT ![c] = @ + 1]
          /\ UNCHANGED <<reader, channel>>
       \/ /\ Alive(c) => tries[c] = ReapTries
          /\ Post(c, Done)
          /\ Goto(c, "finished")
          /\ UNCHANGED tries
    /\ UNCHANGED <<command, mfd, unread, taken, kernel>>

\* pty-reader-loop
ReaderStep(c) ==
    \/ Poll(c) \/ PollNothing(c) \/ PollEof(c) \/ PollError(c) \/ Nothing(c)
    \/ Drain(c) \/ DrainEnds(c) \/ Eof(c) \/ Reap(c)

\* thread-terminate! (external) takes effect, or the closed channel refuses a
\* message: at any time after the command was killed, or never.
Terminate(c) ==
    /\ ~Owned(c) /\ reader[c] \notin {"none", "finished", "stopped"}
    /\ Goto(c, "stopped")
    /\ tries' = [tries EXCEPT ![c] = 0]
    /\ UNCHANGED <<command, mfd, proc, unread, channel, taken, kernel>>

------------------------------------------------------------------------------
(* The user interface.                                                     *)

\* What forkpty gives: a new child, and the lowest descriptor that is free.
Fresh(c) == proc[c] = "none" /\ \A d \in 1 .. c - 1 : proc[d] # "none"
Free(f) == file[f] = None /\ \A g \in Fds : g < f => file[g] # None

Idle(t) == command[t] = None

StartAgain(t) ==
    /\ \E c \in Cmds, f \in Fds :
         /\ Fresh(c) /\ Free(f)
         /\ command' = [command EXCEPT ![t] = c]
         /\ file' = [file EXCEPT ![f] = c]
         /\ mfd' = [mfd EXCEPT ![c] = f]
         /\ proc' = [proc EXCEPT ![c] = "running"]
         /\ Goto(c, "poll")
    /\ UNCHANGED <<sent, unread, tries, channel, taken, stolen>>

\* terminal-execute-async! of an idle terminal
Start(t) == Idle(t) /\ StartAgain(t)

\* terminal-cleanup-pty!: the reader is told to terminate, the descriptor closed,
\* and the child killed, if it minds SIGTERM; what it still had to say is lost,
\* and the channel forgotten.  The reader stays where it is: see Terminate.
Cleanup(t) ==
    LET c == command[t] IN
    /\ file' = [file EXCEPT ![mfd[c]] = None]
    /\ Waitpid(c)
    /\ unread' = [unread EXCEPT ![c] = 0]
    /\ command' = [command EXCEPT ![t] = None]
    /\ channel' = [channel EXCEPT ![c] = <<>>]
    /\ sent' = [sent EXCEPT ![c] = 0]
    /\ taken' = [taken EXCEPT ![c] = 0]
    /\ stolen' = [stolen EXCEPT ![c] = 0]
    /\ UNCHANGED <<mfd, reader, tries>>

\* The timer takes one message (terminal-poll-output).
Take(t) ==
    /\ ~Idle(t)
    /\ LET c == command[t] IN
       /\ taken[c] < Len(channel[c])
       /\ IF channel[c][taken[c] + 1] = Done
          THEN Cleanup(t)
          ELSE /\ taken' = [taken EXCEPT ![c] = @ + 1]
               /\ UNCHANGED <<command, proc, unread, readers, kernel>>

\* Its buffer is killed.
Kill(t) == ~Idle(t) /\ Cleanup(t)

------------------------------------------------------------------------------
Next ==
    \/ \E c \in Cmds : Write(c) \/ Leave(c) \/ ReaderStep(c) \/ Terminate(c)
    \/ \E t \in Terms : Start(t) \/ Take(t) \/ Kill(t)

\* The readers sleep for bounded times and the timer is periodic; nothing is
\* assumed of the children, of the user and of thread-terminate!.
Spec ==
    /\ Init /\ [][Next]_vars
    /\ \A c \in Cmds : WF_vars(ReaderStep(c))
    /\ \A t \in Terms : WF_vars(Take(t))

------------------------------------------------------------------------------
(* Properties.                                                             *)

Open(c) == {f \in Fds : file[f] = c}

\* Every variable has its type, and the open descriptors are those of the
\* commands that the terminals run: none leaks and none is closed twice.
TypeOK ==
    /\ command \in [Terms -> Cmds \cup {None}]
    /\ file \in [Fds -> Cmds \cup {None}]
    /\ mfd \in [Cmds -> Fds \cup {None}]
    /\ proc \in [Cmds -> Procs]
    /\ sent \in [Cmds -> 0 .. MaxChunks]
    /\ unread \in [Cmds -> 0 .. MaxChunks]
    /\ reader \in [Cmds -> Readers]
    /\ tries \in [Cmds -> Nat]
    /\ channel \in [Cmds -> Seq(Cmds \cup {Done})]
    /\ taken \in [Cmds -> Nat]
    /\ stolen \in [Cmds -> 0 .. MaxChunks]
    /\ \A c \in Cmds : Open(c) = IF Owned(c) THEN {mfd[c]} ELSE {}

\* What a terminal is told comes from its own command, although the number of
\* its descriptor was that of others before, whose readers may still read it
\* (terminal.ss:526, 763-779).
OwnOutput ==
    \A c \in Cmds : \A i \in DOMAIN channel[c] : channel[c][i] \in {c, Done}

\* And its last message comes once and after all the child has written, also what
\* it wrote between the read that found nothing and its exit, save what such a
\* reader has read instead: that is lost (terminal.ss:564-580, 769-772).
OutputComplete ==
    /\ OwnOutput
    /\ \A c \in Cmds : \A i \in DOMAIN channel[c] :
         channel[c][i] = Done => i = Len(channel[c]) /\ i + stolen[c] = sent[c] + 1

\* A terminal whose child has exited gets its prompt back (terminal.ss:511-514).
CommandEnds ==
    \A t \in Terms, c \in Cmds :
        command[t] = c /\ proc[c] \in {"exited", "reaped"} ~> command[t] # c
==============================================================================
