---------------------------- MODULE Process_proofs ----------------------------
(***************************************************************************)
(* The two ways to run a command.  In a terminal (Pty), for any terminals, *)
(* commands, descriptors and bounds: no descriptor leaks, and what a       *)
(* terminal is told of a command is the command's own output, all of it    *)
(* that no reader left over from another has read, and then its end.  In a *)
(* blocking call (Blocking), for any threads, first size of the buffer and *)
(* bound on the outputs: the collector never runs beside Scheme code, and  *)
(* nothing but an error of the stream cuts a result short.                 *)
(***************************************************************************)
EXTENDS Pty, Blocking, TLAPS

\* A terminal's command has a reader, and a command without a terminal has said
\* nothing that is remembered, whether or not its reader goes on.
Held(c) ==
    /\ proc[c] = "none" => reader[c] = "none" /\ ~Owned(c)
    /\ Owned(c) => reader[c] \notin {"none", "stopped"}
    /\ ~Owned(c) => channel[c] = <<>> /\ sent[c] = 0 /\ unread[c] = 0 /\ stolen[c] = 0

\* What a command has written is on the channel, still to be read, or lost to
\* the reader of another.
Counted(c) ==
    Owned(c) =>
        Len(channel[c]) + unread[c] + stolen[c]
            = sent[c] + IF reader[c] = "finished" THEN 1 ELSE 0

\* A reader that no longer polls has a command that no longer writes, and one
\* that has seen the end of its output has left none unread.
Silent(c) ==
    Owned(c) =>
        /\ reader[c] \in {"drain", "eof", "reap", "finished"} => proc[c] # "running"
        /\ reader[c] \in {"eof", "reap", "finished"} => unread[c] = 0

Own(c) == \A i \in DOMAIN channel[c] : channel[c][i] \in {c, Done}

\* Its end is the last thing a reader says.
Last(c) ==
    \A i \in DOMAIN channel[c] :
        channel[c][i] = Done => reader[c] = "finished" /\ i = Len(channel[c])

\* Two terminals never run the same command.
Apart ==
    \A t, u \in Terms : command[t] = command[u] /\ command[t] # None => t = u

Consistent(c) == Held(c) /\ Counted(c) /\ Silent(c) /\ Own(c) /\ Last(c)

IInv == TypeOK /\ Apart /\ \A c \in Cmds : Consistent(c)

------------------------------------------------------------------------------
LEMMA Constants ==
    /\ None \notin Cmds /\ None \notin Fds /\ Done \notin Cmds /\ Done \in Nat
    /\ Cmds \subseteq Nat /\ Fds \subseteq Nat
BY PtyAssumption DEF Cmds, None, Done

LEMMA InitIInv == Init => IInv
<1> SUFFICES ASSUME Init PROVE IInv
  OBVIOUS
<1> USE PtyAssumption, Constants
<1>1. TypeOK
  BY DEF Init, TypeOK, Procs, Readers, Open, Owned
<1>2. Apart
  BY DEF Init, Apart
<1>3. ASSUME NEW c \in Cmds PROVE Consistent(c)
  BY DEF Init, Consistent, Held, Owned, Counted, Silent, Own, Last
<1> QED BY <1>1, <1>2, <1>3 DEF IInv

\* How many chunks there are of each kind.
LEMMA Sums ==
    ASSUME IInv, NEW c \in Cmds
    PROVE  /\ Len(channel[c]) \in Nat /\ sent[c] \in Nat /\ unread[c] \in Nat /\ stolen[c] \in Nat
           /\ sent[c] <= MaxChunks
           /\ Owned(c) /\ reader[c] # "finished"
                => Len(channel[c]) + unread[c] + stolen[c] = sent[c]
           /\ Owned(c) /\ reader[c] = "finished"
                => Len(channel[c]) + unread[c] + stolen[c] = sent[c] + 1
<1>1. channel[c] \in Seq(Cmds \cup {Done}) /\ sent[c] \in 0 .. MaxChunks
      /\ unread[c] \in 0 .. MaxChunks /\ stolen[c] \in 0 .. MaxChunks
  BY DEF IInv, TypeOK
<1>2. Len(channel[c]) \in Nat /\ sent[c] \in Nat /\ unread[c] \in Nat /\ stolen[c] \in Nat
      /\ sent[c] <= MaxChunks
  BY <1>1, PtyAssumption
<1>3. Counted(c)
  BY DEF IInv, Consistent
<1> QED BY <1>2, <1>3 DEF Counted

\* The reader of a terminal's command reads what that command has written.
LEMMA OwnFile ==
    ASSUME IInv, NEW c \in Cmds, Owned(c)
    PROVE  mfd[c] \in Fds /\ file[mfd[c]] = c
<1>1. Open(c) = {mfd[c]}
  BY DEF IInv, TypeOK
<1> QED BY <1>1 DEF Open

\* A message added to a sequence of messages.
LEMMA Appended ==
    ASSUME NEW c \in Cmds, NEW m \in Cmds \cup {Done}, Owned(c), Post(c, m),
           channel \in [Cmds -> Seq(Cmds \cup {Done})]
    PROVE  /\ channel' \in [Cmds -> Seq(Cmds \cup {Done})]
           /\ Len(channel'[c]) = Len(channel[c]) + 1
           /\ DOMAIN channel'[c] = DOMAIN channel[c] \cup {Len(channel[c]) + 1}
           /\ \A i \in DOMAIN channel[c] : channel'[c][i] = channel[c][i]
           /\ channel'[c][Len(channel[c]) + 1] = m
           /\ \A d \in Cmds \ {c} : channel'[d] = channel[d]
<1>1. channel' = [channel EXCEPT ![c] = Append(channel[c], m)]
  BY DEF Post
<1> QED BY <1>1

\* What steps of the child and of the reader leave alone.
LEMMA Frame ==
    ASSUME IInv, UNCHANGED <<command, file, mfd, taken>>,
           sent' \in [Cmds -> 0 .. MaxChunks], unread' \in [Cmds -> 0 .. MaxChunks],
           stolen' \in [Cmds -> 0 .. MaxChunks],
           proc' \in [Cmds -> Procs], reader' \in [Cmds -> Readers],
           tries' \in [Cmds -> Nat], channel' \in [Cmds -> Seq(Cmds \cup {Done})]
    PROVE  TypeOK' /\ Apart'
BY DEF IInv, TypeOK, Apart, Open, Owned

\* waitpid reaps at most the child it is about, and only one that has exited.
LEMMA Waited ==
    ASSUME IInv, NEW c \in Cmds, Waitpid(c) \/ UNCHANGED proc
    PROVE  /\ proc' \in [Cmds -> Procs]
           /\ \A d \in Cmds \ {c} : proc'[d] = proc[d]
           /\ proc'[c] = proc[c] \/ (proc[c] = "exited" /\ proc'[c] = "reaped")
<1>1. proc \in [Cmds -> Procs]
  BY DEF IInv, TypeOK
<1>2. CASE UNCHANGED proc
  BY <1>1, <1>2
<1>3. CASE Waitpid(c)
  <2>1. proc' = [proc EXCEPT ![c] = IF proc[c] = "exited" THEN "reaped" ELSE proc[c]]
    BY <1>3 DEF Waitpid
  <2>2. "reaped" \in Procs
    BY DEF Procs
  <2> QED BY <1>1, <2>1, <2>2
<1> QED BY <1>2, <1>3

------------------------------------------------------------------------------
LEMMA ChildStep ==
    ASSUME IInv, NEW c \in Cmds, Write(c) \/ Leave(c)
    PROVE  IInv'
<1> USE PtyAssumption, Constants
<1>1. CASE Write(c)
  <2>1. Owned(c)
    <3>1. PICK f \in Fds : file[f] = c
      BY <1>1 DEF Write
    <3> QED BY <3>1 DEF IInv, TypeOK, Open
  <2>2. /\ sent' = [sent EXCEPT ![c] = sent[c] + 1]
        /\ unread' = [unread EXCEPT ![c] = unread[c] + 1]
        /\ sent[c] < MaxChunks /\ proc[c] = "running"
        /\ UNCHANGED <<command, file, proc, mfd, reader, tries, channel, taken, stolen>>
    BY <1>1 DEF Write, readers
  <2>3. reader[c] # "finished"
    BY <2>1, <2>2 DEF IInv, Consistent, Silent
  <2>4. unread[c] <= sent[c]
    BY <2>1, <2>3, Sums
  <2>5. sent' \in [Cmds -> 0 .. MaxChunks] /\ unread' \in [Cmds -> 0 .. MaxChunks]
    <3>1. sent[c] + 1 \in 0 .. MaxChunks /\ unread[c] + 1 \in 0 .. MaxChunks
      BY <2>2, <2>4, Sums
    <3>2. sent \in [Cmds -> 0 .. MaxChunks] /\ unread \in [Cmds -> 0 .. MaxChunks]
      BY DEF IInv, TypeOK
    <3> QED BY <2>2, <3>1, <3>2
  <2>6. TypeOK' /\ Apart'
    BY <2>2, <2>5, Frame DEF IInv, TypeOK
  <2>7. ASSUME NEW d \in Cmds PROVE Consistent(d)'
    <3>0. Owned(d)' <=> Owned(d)
      BY <2>2 DEF Owned
    <3>1. d # c => sent'[d] = sent[d] /\ unread'[d] = unread[d]
      BY <2>2 DEF IInv, TypeOK
    <3>2. Held(d)'
      BY <2>1, <2>2, <3>0, <3>1 DEF IInv, Consistent, Held
    <3>3. Counted(d)'
      <4>1. CASE d = c
        <5>1. sent'[c] = sent[c] + 1 /\ unread'[c] = unread[c] + 1
          BY <2>2 DEF IInv, TypeOK
        <5>2. Len(channel[c]) + unread[c] + stolen[c] = sent[c]
          BY <2>1, <2>3, Sums
        <5>3. Len(channel[c]) \in Nat /\ sent[c] \in Nat /\ unread[c] \in Nat /\ stolen[c] \in Nat
          BY Sums
        <5>4. channel'[c] = channel[c] /\ stolen'[c] = stolen[c]
          BY <2>2
        <5>5. Len(channel'[c]) + unread'[c] + stolen'[c] = sent'[c] + 0
          BY <5>1, <5>2, <5>3, <5>4
        <5> QED BY <2>2, <2>3, <4>1, <5>5 DEF Counted
      <4>2. CASE d # c
        BY <2>2, <3>0, <3>1, <4>2 DEF Counted, IInv, Consistent
      <4> QED BY <4>1, <4>2
    <3>4. Silent(d)'
      BY <2>2, <3>0, <3>1 DEF IInv, Consistent, Silent
    <3>5. Own(d)' /\ Last(d)'
      BY <2>2 DEF IInv, Consistent, Own, Last
    <3> QED BY <3>2, <3>3, <3>4, <3>5 DEF Consistent
  <2> QED BY <2>6, <2>7 DEF IInv
<1>2. CASE Leave(c)
  <2>1. PICK p \in {"detached", "exited"} : proc' = [proc EXCEPT ![c] = p]
    BY <1>2 DEF Leave
  <2>2. UNCHANGED <<command, file, mfd, sent, unread, reader, tries, channel, taken, stolen>>
    BY <1>2 DEF Leave, readers, kernel
  <2>3. TypeOK' /\ Apart'
    BY <2>1, <2>2, Frame DEF Procs, IInv, TypeOK
  <2>4. ASSUME NEW d \in Cmds PROVE Consistent(d)'
    <3>1. proc'[d] = proc[d] \/ (proc[d] # "none" /\ proc'[d] \in {"detached", "exited"})
      BY <1>2, <2>1 DEF IInv, TypeOK, Leave, Alive
    <3>2. Owned(d)' <=> Owned(d)
      BY <2>2 DEF Owned
    <3>3. Held(d)' /\ Silent(d)'
      BY <2>2, <3>1, <3>2 DEF IInv, Consistent, Held, Silent
    <3>4. Counted(d)' /\ Own(d)' /\ Last(d)'
      BY <2>2, <3>2 DEF IInv, Consistent, Counted, Own, Last
    <3> QED BY <3>3, <3>4 DEF Consistent
  <2> QED BY <2>3, <2>4 DEF IInv
<1> QED BY <1>1, <1>2

\* A read that gets something.
LEMMA DataStep ==
    ASSUME IInv, NEW c \in Cmds, Owned(c), Poll(c) \/ Drain(c)
    PROVE  IInv'
<1> USE PtyAssumption, Constants
<1>1. reader[c] \in {"poll", "drain"} /\ reader' = reader
  BY DEF Poll, Drain
<1>2. ReadData(c, c)
  BY OwnFile DEF Poll, Drain, ReadData
<1>3. tries' \in [Cmds -> Nat]
  <2>1. tries \in [Cmds -> Nat]
    BY DEF IInv, TypeOK
  <2>2. tries' = tries \/ tries' = [tries EXCEPT ![c] = 0]
    BY DEF Poll, Drain
  <2> QED BY <2>1, <2>2
<1>4. /\ UNCHANGED <<command, file, mfd, proc, sent, taken, stolen>> /\ Post(c, c)
      /\ unread[c] > 0 /\ unread' = [unread EXCEPT ![c] = @ - 1]
  BY <1>2 DEF ReadData, IInv, TypeOK
<1>5. unread' \in [Cmds -> 0 .. MaxChunks] /\ unread'[c] = unread[c] - 1
      /\ \A d \in Cmds \ {c} : unread'[d] = unread[d]
  BY <1>4 DEF IInv, TypeOK
<1>6. /\ channel' \in [Cmds -> Seq(Cmds \cup {Done})]
      /\ Len(channel'[c]) = Len(channel[c]) + 1
      /\ DOMAIN channel'[c] = DOMAIN channel[c] \cup {Len(channel[c]) + 1}
      /\ \A i \in DOMAIN channel[c] : channel'[c][i] = channel[c][i]
      /\ channel'[c][Len(channel[c]) + 1] = c
      /\ \A d \in Cmds \ {c} : channel'[d] = channel[d]
  BY <1>4, Appended DEF IInv, TypeOK
<1>7. TypeOK' /\ Apart'
  BY <1>1, <1>3, <1>4, <1>5, <1>6, Frame DEF IInv, TypeOK
<1>8. ASSUME NEW d \in Cmds PROVE Consistent(d)'
  <2>0. Owned(d)' <=> Owned(d)
    BY <1>4 DEF Owned
  <2>1. CASE d # c
    <3>1. channel'[d] = channel[d] /\ unread'[d] = unread[d]
      BY <1>5, <1>6, <2>1
    <3> QED BY <1>1, <1>4, <2>0, <3>1
           DEF IInv, Consistent, Held, Counted, Silent, Own, Last
  <2>2. CASE d = c
    <3>1. Held(c)'
      BY <1>1, <1>4, <2>0, <2>2 DEF IInv, Consistent, Held
    <3>2. Counted(c)'
      <4>1. Len(channel[c]) + unread[c] + stolen[c] = sent[c]
        BY <1>1, Sums
      <4>2. Len(channel'[c]) + unread'[c] + stolen'[c] = sent'[c] + 0
        BY <1>4, <1>5, <1>6, <4>1, Sums
      <4> QED BY <1>1, <4>2 DEF Counted
    <3>3. Silent(c)'
      BY <1>1, <1>4 DEF IInv, Consistent, Silent
    <3>4. Own(c)' /\ Last(c)'
      <4>1. Own(c) /\ Last(c) /\ reader[c] # "finished" /\ c # Done
        BY <1>1 DEF IInv, Consistent
      <4> QED BY <1>6, <4>1 DEF Own, Last
    <3> QED BY <2>2, <3>1, <3>2, <3>3, <3>4 DEF Consistent
  <2> QED BY <2>1, <2>2
<1> QED BY <1>7, <1>8 DEF IInv

\* A reader that moves without posting anything: it may have reaped its child.
LEMMA MoveStep ==
    ASSUME IInv, NEW c \in Cmds, NEW s \in Readers, Owned(c), Goto(c, s),
           UNCHANGED <<command, file, mfd, sent, unread, channel, taken, stolen>>,
           Waitpid(c) \/ UNCHANGED proc, tries' \in [Cmds -> Nat],
           reader[c] # "finished", s \notin {"none", "stopped", "finished"},
           s \in {"drain", "eof", "reap"} => proc[c] # "running",
           s \in {"eof", "reap"} => unread[c] = 0
    PROVE  IInv'
<1> USE PtyAssumption, Constants
<1>1. reader' = [reader EXCEPT ![c] = s] /\ reader' \in [Cmds -> Readers] /\ reader'[c] = s
      /\ \A d \in Cmds \ {c} : reader'[d] = reader[d]
  BY DEF Goto, IInv, TypeOK
<1>2. /\ proc' \in [Cmds -> Procs]
      /\ \A d \in Cmds : proc'[d] = proc[d] \/ (d = c /\ proc[d] = "exited" /\ proc'[d] = "reaped")
  BY Waited
<1>3. TypeOK' /\ Apart'
  BY <1>1, <1>2, Frame DEF IInv, TypeOK
<1>4. ASSUME NEW d \in Cmds PROVE Consistent(d)'
  <2>0. Owned(d)' <=> Owned(d)
    BY DEF Owned
  <2>1. Held(d)'
    BY <1>1, <1>2, <2>0 DEF IInv, Consistent, Held
  <2>2. Counted(d)' /\ Own(d)' /\ Last(d)'
    BY <1>1, <2>0 DEF IInv, Consistent, Counted, Own, Last
  <2>3. Silent(d)'
    BY <1>1, <1>2, <2>0 DEF IInv, Consistent, Silent
  <2> QED BY <2>1, <2>2, <2>3 DEF Consistent
<1> QED BY <1>3, <1>4 DEF IInv

\* A reader that says that its command has ended.
LEMMA EndStep ==
    ASSUME IInv, NEW c \in Cmds, Owned(c), Goto(c, "finished"), Post(c, Done),
           UNCHANGED <<command, file, mfd, sent, unread, tries, taken, stolen>>,
           Waitpid(c) \/ UNCHANGED proc,
           reader[c] # "finished", proc[c] # "running", unread[c] = 0
    PROVE  IInv'
<1> USE PtyAssumption, Constants
<1>1. reader' \in [Cmds -> Readers] /\ reader'[c] = "finished"
      /\ \A d \in Cmds \ {c} : reader'[d] = reader[d]
  BY DEF Goto, IInv, TypeOK, Readers
<1>2. /\ proc' \in [Cmds -> Procs]
      /\ \A d \in Cmds : proc'[d] = proc[d] \/ (d = c /\ proc[d] = "exited" /\ proc'[d] = "reaped")
  BY Waited
<1>3. /\ channel' \in [Cmds -> Seq(Cmds \cup {Done})]
      /\ Len(channel'[c]) = Len(channel[c]) + 1
      /\ DOMAIN channel'[c] = DOMAIN channel[c] \cup {Len(channel[c]) + 1}
      /\ \A i \in DOMAIN channel[c] : channel'[c][i] = channel[c][i]
      /\ channel'[c][Len(channel[c]) + 1] = Done
      /\ \A d \in Cmds \ {c} : channel'[d] = channel[d]
  BY Appended DEF IInv, TypeOK
<1>4. TypeOK' /\ Apart'
  BY <1>1, <1>2, <1>3, Frame DEF IInv, TypeOK
<1>5. ASSUME NEW d \in Cmds PROVE Consistent(d)'
  <2>0. Owned(d)' <=> Owned(d)
    BY DEF Owned
  <2>1. CASE d # c
    <3>1. channel'[d] = channel[d] /\ reader'[d] = reader[d] /\ proc'[d] = proc[d]
      BY <1>1, <1>2, <1>3, <2>1
    <3> QED BY <2>0, <3>1 DEF IInv, Consistent, Held, Counted, Silent, Own, Last
  <2>2. CASE d = c
    <3>1. Held(c)'
      BY <1>1, <1>2, <2>0, <2>2 DEF IInv, Consistent, Held
    <3>2. Counted(c)'
      <4>1. Len(channel[c]) + unread[c] + stolen[c] = sent[c]
        BY Sums
      <4>2. Len(channel[c]) \in Nat /\ sent[c] \in Nat /\ unread[c] \in Nat /\ stolen[c] \in Nat
        BY Sums
      <4>3. unread'[c] = unread[c] /\ stolen'[c] = stolen[c] /\ sent'[c] = sent[c]
        OBVIOUS
      <4>4. Len(channel'[c]) + unread'[c] + stolen'[c] = sent'[c] + 1
        BY <1>3, <4>1, <4>2, <4>3
      <4> QED BY <1>1, <4>4 DEF Counted
    <3>3. Silent(c)'
      BY <1>1, <1>2 DEF Silent
    <3>4. Own(c)' /\ Last(c)'
      BY <1>1, <1>3 DEF IInv, TypeOK, Consistent, Own, Last
    <3> QED BY <2>2, <3>1, <3>2, <3>3, <3>4 DEF Consistent
  <2> QED BY <2>1, <2>2
<1> QED BY <1>4, <1>5 DEF IInv

\* The reader of a terminal's command is never at a closed descriptor.
LEMMA NotClosed ==
    ASSUME IInv, NEW c \in Cmds, Owned(c)
    PROVE  ~Closed(c)
BY OwnFile, Constants DEF Closed

LEMMA ReaderKeeps ==
    ASSUME IInv, NEW c \in Cmds, Owned(c), ReaderStep(c)
    PROVE  IInv'
<1> USE PtyAssumption, Constants
<1>1. CASE Poll(c) \/ Drain(c)
  BY <1>1, DataStep
<1>2. CASE PollNothing(c)
  BY <1>2, MoveStep DEF PollNothing, Readers, kernel, IInv, TypeOK
<1>3. CASE PollEof(c)
  <2>1. unread[c] = 0 /\ proc[c] # "running"
    BY <1>3, OwnFile DEF PollEof, Empty
  <2> QED BY <1>3, <2>1, MoveStep DEF PollEof, Readers, kernel, IInv, TypeOK
<1>4. CASE Nothing(c)
  <2>1. tries' \in [Cmds -> Nat]
    <3>1. tries \in [Cmds -> Nat] /\ EofRetries \in Nat
      BY DEF IInv, TypeOK
    <3>2. Least(tries[c] + 1, EofRetries) \in Nat
      BY <3>1 DEF Least
    <3>3. tries' = tries \/ tries' = [tries EXCEPT ![c] = Least(tries[c] + 1, EofRetries)]
      BY <1>4 DEF Nothing
    <3> QED BY <3>1, <3>2, <3>3
  <2>2. CASE Alive(c)
    BY <1>4, <2>1, <2>2, MoveStep DEF Nothing, Readers, kernel
  <2>3. CASE ~Alive(c)
    BY <1>4, <2>1, <2>3, MoveStep DEF Nothing, Readers, kernel, Alive
  <2> QED BY <2>2, <2>3
<1>5. CASE DrainEnds(c)
  <2>1. unread[c] = 0 /\ proc[c] # "running"
    BY <1>5, OwnFile, NotClosed DEF DrainEnds, Empty, IInv, Consistent, Silent
  <2> QED BY <1>5, <2>1, EndStep DEF DrainEnds, kernel
<1>6. CASE Eof(c)
  <2>1. unread[c] = 0 /\ proc[c] # "running"
    BY <1>6 DEF Eof, IInv, Consistent, Silent
  <2>2. tries' \in [Cmds -> Nat]
    <3>1. tries' = [tries EXCEPT ![c] = tries[c] + 1] \/ tries' = [tries EXCEPT ![c] = 0]
      BY <1>6 DEF Eof
    <3>2. tries \in [Cmds -> Nat] /\ tries[c] + 1 \in Nat
      BY DEF IInv, TypeOK
    <3> QED BY <3>1, <3>2
  <2>3. CASE Alive(c) /\ tries[c] < EofRetries
    BY <1>6, <2>1, <2>2, <2>3, MoveStep DEF Eof, Readers, kernel
  <2>4. CASE ~(Alive(c) /\ tries[c] < EofRetries)
    BY <1>6, <2>1, <2>2, <2>4, MoveStep DEF Eof, Readers, kernel
  <2> QED BY <2>3, <2>4
<1>7. CASE Reap(c)
  <2>1. unread[c] = 0 /\ proc[c] # "running"
    BY <1>7 DEF Reap, IInv, Consistent, Silent
  <2>2. CASE UNCHANGED <<reader, channel>> /\ tries' = [tries EXCEPT ![c] = @ + 1]
    <3>1. tries' \in [Cmds -> Nat]
      BY <2>2 DEF IInv, TypeOK
    <3>2. Goto(c, "reap")
      BY <1>7, <2>2 DEF Reap, Goto, IInv, TypeOK
    <3> QED BY <1>7, <2>1, <2>2, <3>1, <3>2, MoveStep DEF Reap, Readers, kernel
  <2>3. CASE Post(c, Done) /\ Goto(c, "finished") /\ UNCHANGED tries
    BY <1>7, <2>1, <2>3, EndStep DEF Reap, kernel
  <2> QED BY <1>7, <2>2, <2>3 DEF Reap
<1>8. ~PollError(c)
  BY NotClosed DEF PollError
<1> QED BY <1>1, <1>2, <1>3, <1>4, <1>5, <1>6, <1>7, <1>8 DEF ReaderStep

\* What the reader of a command that no terminal runs any more can do: it posts
\* nothing that is seen, may reap its child, and may read what another command
\* has written.
LEMMA OrphanFacts ==
    ASSUME IInv, NEW c \in Cmds, ~Owned(c), ReaderStep(c) \/ Terminate(c)
    PROVE  /\ UNCHANGED <<command, file, mfd, sent, taken, channel>>
           /\ reader[c] # "none"
           /\ reader' \in [Cmds -> Readers] /\ tries' \in [Cmds -> Nat]
           /\ \A d \in Cmds \ {c} : reader'[d] = reader[d]
           /\ Waitpid(c) \/ UNCHANGED proc
           /\ \/ UNCHANGED <<unread, stolen>>
              \/ \E d \in Cmds :
                   /\ unread[d] > 0
                   /\ unread' = [unread EXCEPT ![d] = @ - 1]
                   /\ stolen' = [stolen EXCEPT ![d] = IF c = d THEN @ ELSE @ + 1]
<1> USE PtyAssumption, Constants
<1>0. /\ channel \in [Cmds -> Seq(Cmds \cup {Done})] /\ reader \in [Cmds -> Readers]
      /\ tries \in [Cmds -> Nat]
  BY DEF IInv, TypeOK
<1>1. ASSUME NEW m, Post(c, m) PROVE channel' = channel
  BY <1>0, <1>1 DEF Post
<1>2. ASSUME NEW s \in Readers, Goto(c, s)
      PROVE  reader' \in [Cmds -> Readers] /\ \A d \in Cmds \ {c} : reader'[d] = reader[d]
  BY <1>0, <1>2 DEF Goto
<1>3. {"poll", "nothing", "eof", "drain", "reap", "finished", "stopped"} \subseteq Readers
  BY DEF Readers
<1>4. CASE Poll(c) \/ Drain(c)
  <2>1. PICK d \in Cmds : ReadData(c, d)
    BY <1>4 DEF Poll, Drain
  <2>2. channel' = channel
    BY <1>1, <2>1 DEF ReadData
  <2>3. tries' \in [Cmds -> Nat] /\ reader' = reader /\ reader[c] # "none"
    BY <1>0, <1>4 DEF Poll, Drain
  <2> QED BY <1>0, <2>1, <2>2, <2>3 DEF ReadData
<1>5. CASE PollNothing(c) \/ PollEof(c)
  BY <1>0, <1>2, <1>3, <1>5 DEF PollNothing, PollEof, kernel
<1>6. CASE PollError(c) \/ DrainEnds(c)
  BY <1>0, <1>1, <1>2, <1>3, <1>6 DEF PollError, DrainEnds, kernel
<1>7. CASE Nothing(c)
  <2>1. Least(tries[c] + 1, EofRetries) \in Nat
    BY <1>0 DEF Least
  <2>2. tries' \in [Cmds -> Nat]
    BY <1>0, <1>7, <2>1 DEF Nothing
  <2>3. Goto(c, "poll") \/ Goto(c, "drain")
    BY <1>7 DEF Nothing
  <2> QED BY <1>2, <1>3, <1>7, <2>2, <2>3 DEF Nothing, kernel
<1>8. CASE Eof(c)
  <2>1. tries' \in [Cmds -> Nat]
    <3>1. tries[c] + 1 \in Nat
      BY <1>0
    <3> QED BY <1>0, <1>8, <3>1 DEF Eof
  <2>2. Goto(c, "poll") \/ Goto(c, "reap")
    BY <1>8 DEF Eof
  <2> QED BY <1>2, <1>3, <1>8, <2>1, <2>2 DEF Eof, kernel
<1>9. CASE Reap(c)
  <2>1. CASE UNCHANGED <<reader, channel>> /\ tries' = [tries EXCEPT ![c] = @ + 1]
    <3>1. tries' \in [Cmds -> Nat]
      BY <1>0, <2>1
    <3> QED BY <1>0, <1>9, <2>1, <3>1 DEF Reap, kernel
  <2>2. CASE Post(c, Done) /\ Goto(c, "finished") /\ UNCHANGED tries
    BY <1>0, <1>1, <1>2, <1>3, <1>9, <2>2 DEF Reap, kernel
  <2> QED BY <1>9, <2>1, <2>2 DEF Reap
<1>10. CASE Terminate(c)
  <2>1. tries' \in [Cmds -> Nat]
    BY <1>0, <1>10 DEF Terminate
  <2> QED BY <1>2, <1>3, <1>10, <2>1 DEF Terminate, kernel
<1> QED BY <1>4, <1>5, <1>6, <1>7, <1>8, <1>9, <1>10 DEF ReaderStep

\* One unread chunk fewer and one lost more leave the sum as it is.
LEMMA Moved ==
    ASSUME IInv, NEW d \in Cmds, Owned(d), reader[d] # "finished", unread[d] > 0
    PROVE  /\ Len(channel[d]) + (unread[d] - 1) + (stolen[d] + 1) = sent[d]
           /\ unread[d] - 1 \in 0 .. MaxChunks /\ stolen[d] + 1 \in 0 .. MaxChunks
<1>1. /\ Len(channel[d]) \in Nat /\ sent[d] \in Nat /\ unread[d] \in Nat /\ stolen[d] \in Nat
      /\ sent[d] <= MaxChunks /\ Len(channel[d]) + unread[d] + stolen[d] = sent[d]
  BY Sums
<1>2. MaxChunks \in Nat
  BY PtyAssumption
<1>3. Len(channel[d]) + (unread[d] - 1) + (stolen[d] + 1) = sent[d]
  BY <1>1
<1>4. unread[d] - 1 \in 0 .. MaxChunks
  <2>1. unread[d] \in 0 .. MaxChunks
    BY DEF IInv, TypeOK
  <2> QED BY <1>2, <2>1
<1>5. stolen[d] + 1 \in 0 .. MaxChunks
  BY <1>1, <1>2
<1> QED BY <1>3, <1>4, <1>5

\* What it reads is counted as lost by the command that wrote it.
LEMMA OrphanKeeps ==
    ASSUME IInv, NEW c \in Cmds, ~Owned(c), ReaderStep(c) \/ Terminate(c)
    PROVE  IInv'
<1> USE PtyAssumption, Constants
<1>1. /\ UNCHANGED <<command, file, mfd, sent, taken, channel>>
      /\ reader[c] # "none"
      /\ reader' \in [Cmds -> Readers] /\ tries' \in [Cmds -> Nat]
      /\ \A d \in Cmds \ {c} : reader'[d] = reader[d]
      /\ Waitpid(c) \/ UNCHANGED proc
      /\ \/ UNCHANGED <<unread, stolen>>
         \/ \E d \in Cmds :
              /\ unread[d] > 0
              /\ unread' = [unread EXCEPT ![d] = @ - 1]
              /\ stolen' = [stolen EXCEPT ![d] = IF c = d THEN @ ELSE @ + 1]
  BY OrphanFacts
<1>2. /\ proc' \in [Cmds -> Procs]
      /\ \A d \in Cmds : proc'[d] = proc[d] \/ (d = c /\ proc[d] = "exited" /\ proc'[d] = "reaped")
  BY <1>1, Waited
<1>3. unread[c] = 0 /\ proc[c] # "none"
  BY <1>1 DEF IInv, Consistent, Held
<1>4. \A d \in Cmds : Owned(d)' <=> Owned(d)
  BY <1>1 DEF Owned
<1>5. ASSUME NEW d \in Cmds
      PROVE  \/ unread'[d] = unread[d] /\ stolen'[d] = stolen[d]
             \/ /\ d # c /\ Owned(d) /\ unread[d] > 0 /\ reader[d] # "finished"
                /\ unread'[d] = unread[d] - 1 /\ stolen'[d] = stolen[d] + 1
  <2>1. CASE UNCHANGED <<unread, stolen>>
    BY <2>1
  <2>2. ASSUME NEW e \in Cmds, unread[e] > 0,
               unread' = [unread EXCEPT ![e] = @ - 1],
               stolen' = [stolen EXCEPT ![e] = IF c = e THEN @ ELSE @ + 1]
        PROVE  \/ unread'[d] = unread[d] /\ stolen'[d] = stolen[d]
               \/ /\ d # c /\ Owned(d) /\ unread[d] > 0 /\ reader[d] # "finished"
                  /\ unread'[d] = unread[d] - 1 /\ stolen'[d] = stolen[d] + 1
    <3>1. e # c /\ Owned(e) /\ reader[e] # "finished"
      BY <1>3, <2>2, Sums DEF IInv, Consistent, Held, Silent
    <3> QED BY <2>2, <3>1 DEF IInv, TypeOK
  <2> QED BY <1>1, <2>1, <2>2
<1>6. unread' \in [Cmds -> 0 .. MaxChunks] /\ stolen' \in [Cmds -> 0 .. MaxChunks]
  <2>1. \A d \in Cmds : unread'[d] \in 0 .. MaxChunks /\ stolen'[d] \in 0 .. MaxChunks
    <3> SUFFICES ASSUME NEW d \in Cmds
                 PROVE  unread'[d] \in 0 .. MaxChunks /\ stolen'[d] \in 0 .. MaxChunks
      OBVIOUS
    <3>1. CASE unread'[d] = unread[d] /\ stolen'[d] = stolen[d]
      BY <3>1 DEF IInv, TypeOK
    <3>2. CASE /\ d # c /\ Owned(d) /\ unread[d] > 0 /\ reader[d] # "finished"
               /\ unread'[d] = unread[d] - 1 /\ stolen'[d] = stolen[d] + 1
      BY <3>2, Moved
    <3> QED BY <1>5, <3>1, <3>2
  <2>2. /\ unread' = [d \in Cmds |-> unread'[d]]
        /\ stolen' = [d \in Cmds |-> stolen'[d]]
    BY <1>1 DEF IInv, TypeOK
  <2> QED BY <2>1, <2>2
<1>7. TypeOK' /\ Apart'
  BY <1>1, <1>2, <1>6, Frame DEF IInv, TypeOK
<1>8. ASSUME NEW d \in Cmds PROVE Consistent(d)'
  <2>0. Consistent(d) /\ (Owned(d)' <=> Owned(d)) /\ channel'[d] = channel[d]
        /\ sent'[d] = sent[d]
    BY <1>1, <1>4 DEF IInv
  <2>1. CASE d = c
    <3>1. ~Owned(c)' /\ unread'[c] = unread[c] /\ stolen'[c] = stolen[c] /\ proc'[c] # "none"
      BY <1>2, <1>3, <1>4, <1>5
    <3>2. Held(c)' /\ Counted(c)' /\ Silent(c)'
      BY <2>0, <2>1, <3>1 DEF Consistent, Held, Counted, Silent
    <3>3. Own(c)' /\ Last(c)'
      <4>1. channel'[c] = <<>>
        BY <2>0, <2>1 DEF Consistent, Held
      <4> QED BY <4>1 DEF Own, Last
    <3> QED BY <2>1, <3>2, <3>3 DEF Consistent
  <2>2. CASE d # c
    <3>0. reader'[d] = reader[d] /\ proc'[d] = proc[d]
      BY <1>1, <1>2, <2>2
    <3>1. Held(d)' /\ Silent(d)'
      BY <1>5, <2>0, <3>0 DEF Consistent, Held, Silent
    <3>2. Counted(d)'
      <4>1. CASE unread'[d] = unread[d] /\ stolen'[d] = stolen[d]
        BY <2>0, <3>0, <4>1 DEF Consistent, Counted
      <4>2. CASE /\ d # c /\ Owned(d) /\ unread[d] > 0 /\ reader[d] # "finished"
                 /\ unread'[d] = unread[d] - 1 /\ stolen'[d] = stolen[d] + 1
        <5>2. channel'[d] = channel[d] /\ sent'[d] = sent[d]
          BY <2>0
        <5>3. unread'[d] = unread[d] - 1 /\ stolen'[d] = stolen[d] + 1
          BY <4>2
        <5>4. Len(channel[d]) + (unread[d] - 1) + (stolen[d] + 1) = sent[d]
          BY <4>2, Moved
        <5>5. Len(channel'[d]) + unread'[d] + stolen'[d] = sent'[d]
          BY <5>2, <5>3, <5>4
        <5>6. sent'[d] = sent'[d] + 0
          BY <5>2, Sums
        <5> QED BY <3>0, <4>2, <5>5, <5>6 DEF Counted
      <4> QED BY <1>5, <4>1, <4>2
    <3>3. Own(d)' /\ Last(d)'
      BY <2>0, <3>0 DEF Consistent, Own, Last
    <3> QED BY <3>1, <3>2, <3>3 DEF Consistent
  <2> QED BY <2>1, <2>2
<1> QED BY <1>7, <1>8 DEF IInv

------------------------------------------------------------------------------
LEMMA StartKeeps ==
    ASSUME IInv, NEW t \in Terms, Start(t)
    PROVE  IInv'
<1> USE PtyAssumption, Constants
<1>1. PICK c \in Cmds, f \in Fds :
        /\ Fresh(c) /\ Free(f)
        /\ command' = [command EXCEPT ![t] = c]
        /\ file' = [file EXCEPT ![f] = c]
        /\ mfd' = [mfd EXCEPT ![c] = f]
        /\ proc' = [proc EXCEPT ![c] = "running"]
        /\ Goto(c, "poll")
  BY DEF Start, StartAgain
<1>2. UNCHANGED <<sent, unread, tries, channel, taken, stolen>> /\ command[t] = None
  BY DEF Start, StartAgain, Idle
<1>3. proc[c] = "none" /\ reader[c] = "none" /\ file[f] = None
  BY <1>1 DEF Fresh, Free, IInv, Consistent, Held
<1>4. ~Owned(c)
  BY <1>3 DEF IInv, Consistent, Held
<1>5. \A d \in Cmds \ {c} : Owned(d)' <=> Owned(d)
  BY <1>1, <1>2 DEF Owned, IInv, TypeOK
<1>6. Owned(c)'
  BY <1>1 DEF Owned, IInv, TypeOK
<1>7. TypeOK'
  <2>1. /\ command' \in [Terms -> Cmds \cup {None}] /\ file' \in [Fds -> Cmds \cup {None}]
        /\ mfd' \in [Cmds -> Fds \cup {None}] /\ proc' \in [Cmds -> Procs]
        /\ reader' \in [Cmds -> Readers]
    BY <1>1 DEF IInv, TypeOK, Goto, Procs, Readers
  <2>2. ASSUME NEW d \in Cmds
        PROVE  Open(d)' = IF Owned(d)' THEN {mfd'[d]} ELSE {}
    <3>1. CASE d = c
      <4>1. Open(c) = {}
        BY <1>4 DEF IInv, TypeOK
      <4>2. Open(c)' = {f}
        <5>1. \A g \in Fds : file[g] # c
          BY <4>1 DEF Open
        <5>2. \A g \in Fds : file'[g] = IF g = f THEN c ELSE file[g]
          BY <1>1 DEF IInv, TypeOK
        <5> QED BY <5>1, <5>2 DEF Open
      <4> QED BY <1>1, <1>6, <3>1, <4>2 DEF IInv, TypeOK
    <3>2. CASE d # c
      <4>1. Open(d)' = Open(d)
        BY <1>1, <1>3, <3>2 DEF Open, IInv, TypeOK
      <4>2. Open(d) = IF Owned(d) THEN {mfd[d]} ELSE {}
        BY DEF IInv, TypeOK
      <4> QED BY <1>1, <1>5, <3>2, <4>1, <4>2 DEF IInv, TypeOK
    <3> QED BY <3>1, <3>2
  <2> QED BY <1>2, <2>1, <2>2 DEF IInv, TypeOK
<1>8. Apart'
  BY <1>1, <1>4 DEF IInv, TypeOK, Apart, Owned
<1>9. ASSUME NEW d \in Cmds PROVE Consistent(d)'
  <2>1. CASE d = c
    BY <1>1, <1>2, <1>3, <1>6, <2>1
       DEF IInv, TypeOK, Consistent, Held, Counted, Silent, Own, Last, Goto
  <2>2. CASE d # c
    <3>1. proc'[d] = proc[d] /\ reader'[d] = reader[d]
      BY <1>1, <2>2 DEF Goto, IInv, TypeOK
    <3> QED BY <1>2, <1>5, <2>2, <3>1
           DEF IInv, Consistent, Held, Counted, Silent, Own, Last
  <2> QED BY <2>1, <2>2
<1> QED BY <1>7, <1>8, <1>9 DEF IInv

LEMMA CleanupKeeps ==
    ASSUME IInv, NEW t \in Terms, ~Idle(t), Cleanup(t)
    PROVE  IInv'
<1> USE PtyAssumption, Constants
<1>0. PICK c \in Cmds : c = command[t]
  BY DEF IInv, TypeOK, Idle
<1>1. Owned(c)
  BY <1>0 DEF Owned
<1>2. /\ Waitpid(c)
      /\ file' = [file EXCEPT ![mfd[c]] = None]
      /\ unread' = [unread EXCEPT ![c] = 0]
      /\ command' = [command EXCEPT ![t] = None]
      /\ channel' = [channel EXCEPT ![c] = <<>>]
      /\ sent' = [sent EXCEPT ![c] = 0]
      /\ taken' = [taken EXCEPT ![c] = 0]
      /\ stolen' = [stolen EXCEPT ![c] = 0]
      /\ UNCHANGED <<mfd, reader, tries>>
  BY <1>0 DEF Cleanup
<1>3. proc[c] # "none" /\ mfd[c] \in Fds /\ file[mfd[c]] = c
  BY <1>1, OwnFile DEF IInv, Consistent, Held
<1>4. /\ proc' \in [Cmds -> Procs]
      /\ \A d \in Cmds : proc'[d] = proc[d] \/ (d = c /\ proc'[d] # "none")
  BY <1>1, <1>2, Waited
<1>5. \A d \in Cmds \ {c} : Owned(d)' <=> Owned(d)
  BY <1>0, <1>2 DEF Owned, IInv, TypeOK
<1>6. ~Owned(c)'
  BY <1>0, <1>2 DEF Owned, IInv, TypeOK, Apart
<1>7. TypeOK'
  <2>1. /\ command' \in [Terms -> Cmds \cup {None}] /\ file' \in [Fds -> Cmds \cup {None}]
        /\ mfd' \in [Cmds -> Fds \cup {None}]
        /\ reader' \in [Cmds -> Readers]
    BY <1>1, <1>2 DEF IInv, TypeOK
  <2>2. /\ unread' \in [Cmds -> 0 .. MaxChunks] /\ sent' \in [Cmds -> 0 .. MaxChunks]
        /\ tries' \in [Cmds -> Nat] /\ taken' \in [Cmds -> Nat]
        /\ stolen' \in [Cmds -> 0 .. MaxChunks]
    BY <1>1, <1>2 DEF IInv, TypeOK
  <2>3. channel' \in [Cmds -> Seq(Cmds \cup {Done})]
    BY <1>1, <1>2 DEF IInv, TypeOK
  <2>4. ASSUME NEW d \in Cmds
        PROVE  Open(d)' = IF Owned(d)' THEN {mfd'[d]} ELSE {}
    <3>1. Open(d) = IF Owned(d) THEN {mfd[d]} ELSE {}
      BY DEF IInv, TypeOK
    <3>2. CASE d = c
      <4>1. Open(c)' = {}
        BY <1>1, <1>2, <1>3, <3>1, <3>2 DEF Open, IInv, TypeOK
      <4> QED BY <1>6, <3>2, <4>1
    <3>3. CASE d # c
      <4>1. Open(d)' = Open(d)
        BY <1>1, <1>2, <1>3, <3>3 DEF Open, IInv, TypeOK
      <4> QED BY <1>2, <1>5, <3>1, <3>3, <4>1
    <3> QED BY <3>2, <3>3
  <2> QED BY <1>4, <2>1, <2>2, <2>3, <2>4 DEF TypeOK
<1>8. Apart'
  BY <1>2 DEF IInv, TypeOK, Apart
<1>9. ASSUME NEW d \in Cmds PROVE Consistent(d)'
  <2>1. CASE d = c
    <3>1. channel'[c] = <<>> /\ sent'[c] = 0 /\ unread'[c] = 0 /\ stolen'[c] = 0
      BY <1>2 DEF IInv, TypeOK
    <3>2. proc'[c] # "none"
      BY <1>3, <1>4
    <3>3. Held(c)'
      BY <1>6, <3>1, <3>2 DEF Held
    <3>4. Counted(c)' /\ Silent(c)'
      BY <1>6 DEF Counted, Silent
    <3>5. Own(c)' /\ Last(c)'
      BY <3>1 DEF Own, Last
    <3> QED BY <2>1, <3>3, <3>4, <3>5 DEF Consistent
  <2>2. CASE d # c
    <3>1. /\ reader'[d] = reader[d] /\ channel'[d] = channel[d]
          /\ sent'[d] = sent[d] /\ unread'[d] = unread[d] /\ proc'[d] = proc[d]
          /\ stolen'[d] = stolen[d]
      BY <1>2, <1>4, <2>2 DEF IInv, TypeOK
    <3> QED BY <1>5, <2>2, <3>1
           DEF IInv, Consistent, Held, Counted, Silent, Own, Last
  <2> QED BY <2>1, <2>2
<1> QED BY <1>7, <1>8, <1>9 DEF IInv

LEMMA TakeKeeps ==
    ASSUME IInv, NEW t \in Terms, Take(t)
    PROVE  IInv'
<1>1. CASE Cleanup(t)
  BY <1>1, CleanupKeeps DEF Take
<1>2. CASE ~Cleanup(t)
  <2>1. UNCHANGED <<command, file, mfd, proc, sent, unread, reader, tries, channel, stolen>>
    BY <1>2 DEF Take, readers, kernel
  <2>2. taken' \in [Cmds -> Nat]
    <3>1. taken' = [taken EXCEPT ![command[t]] = taken[command[t]] + 1]
      BY <1>2 DEF Take
    <3>2. command[t] \in Cmds
      BY DEF Take, Idle, IInv, TypeOK
    <3> QED BY <3>1, <3>2 DEF IInv, TypeOK
  <2>3. TypeOK' /\ Apart'
    BY <2>1, <2>2 DEF IInv, TypeOK, Apart, Open, Owned
  <2>4. \A c \in Cmds : Consistent(c)'
    BY <2>1 DEF IInv, Consistent, Held, Owned, Counted, Silent, Own, Last
  <2> QED BY <2>3, <2>4 DEF IInv
<1> QED BY <1>1, <1>2

LEMMA Stutter == IInv /\ UNCHANGED vars => IInv'
BY DEF IInv, TypeOK, Apart, Open, Consistent, Held, Owned, Counted, Silent, Own,
       Last, vars

LEMMA Step == IInv /\ [Next]_vars => IInv'
BY ChildStep, ReaderKeeps, OrphanKeeps, StartKeeps, TakeKeeps, CleanupKeeps, Stutter
   DEF Next, Kill, Terminate

LEMMA Invariant == Spec => []IInv
BY InitIInv, Step, PTL DEF Spec

\* The open descriptors are those of the running commands, for any terminals and
\* any descriptors.
THEOREM TypeCorrect == Spec => []TypeOK
<1>1. IInv => TypeOK
  BY DEF IInv
<1> QED BY <1>1, Invariant, PTL

\* Whatever the order of output, exit, reads and waits, and however long the
\* readers of commands that were killed go on, a terminal is told all its own
\* command has written that they have not read and then, once, that it has ended.
THEOREM OutputWhole == Spec => []OutputComplete
<1>1. IInv => OutputComplete
  <2> SUFFICES ASSUME IInv PROVE OutputComplete
    OBVIOUS
  <2>1. OwnOutput
    BY DEF IInv, Consistent, Own, OwnOutput
  <2>2. ASSUME NEW c \in Cmds, NEW i \in DOMAIN channel[c], channel[c][i] = Done
        PROVE  i = Len(channel[c]) /\ i + stolen[c] = sent[c] + 1
    <3>1. Owned(c)
      BY <2>2 DEF IInv, Consistent, Held
    <3>2. reader[c] = "finished" /\ i = Len(channel[c]) /\ unread[c] = 0
      BY <2>2, <3>1 DEF IInv, Consistent, Last, Silent
    <3> QED BY <3>1, <3>2, Sums
  <2> QED BY <2>1, <2>2 DEF OutputComplete
<1> QED BY <1>1, Invariant, PTL

------------------------------------------------------------------------------
(* Blocking calls.                                                         *)

\* A thread outside the blocking calls is active; only threads in Scheme code
\* are parked, and only until the collection ends; and it runs only when all
\* active threads are parked.
Rendezvous ==
    /\ \A t \in Threads : pc[t] \in {"scheme", "sleep"} => t \in active
    /\ \A t \in parked : pc[t] = "scheme"
    /\ gc = "idle" => parked = {}
    /\ gc = "running" => active \subseteq parked

\* A reader has always room for one byte more and the NUL.
Room ==
    \A t \in Threads :
        /\ cap[t] = 0 \/ cap[t] >= 2
        /\ pc[t] \in {"scheme", "sleep", "open"} => len[t] = 0
        /\ pc[t] = "open" => cap[t] >= 2
        /\ pc[t] = "read" => len[t] + 1 < cap[t] /\ len[t] <= total[t]

BlockingInv == BlockingTypeOK /\ Rendezvous /\ Room /\ WholeResult

------------------------------------------------------------------------------
\* What fread gives is a number of bytes that fits before the last one, and
\* zero only at the end of the data.
LEMMA ChunkFacts ==
    ASSUME BlockingTypeOK, Room, NEW t \in Threads, pc[t] = "read"
    PROVE  /\ Chunk(t) \in Nat
           /\ len[t] + Chunk(t) < cap[t]
           /\ len[t] + Chunk(t) <= total[t]
           /\ Chunk(t) = 0 => len[t] = total[t]
<1>1. /\ len[t] \in Nat /\ cap[t] \in Nat /\ total[t] \in Nat
      /\ len[t] + 1 < cap[t] /\ len[t] <= total[t]
  BY BlockingAssumption DEF BlockingTypeOK, Room
<1> QED BY <1>1 DEF Chunk, Smaller

Results == [Threads -> [how : Hows, bytes : Nat, error : BOOLEAN]]

\* What a call returns is a result; the other threads keep theirs.
LEMMA ReturnsFacts ==
    ASSUME result \in Results, NEW t \in Threads,
           NEW how \in Hows, NEW n \in Nat, NEW error \in BOOLEAN,
           Returns(t, Ended(how, n, error))
    PROVE  /\ result' \in Results
           /\ result'[t].how = how /\ result'[t].bytes = n /\ result'[t].error = error
           /\ \A u \in Threads \ {t} : result'[u] = result[u]
<1>1. result' = [result EXCEPT ![t] = [how |-> how, bytes |-> n, error |-> error]]
  BY DEF Returns, Ended
<1> QED BY <1>1 DEF Results

LEMMA FailsFacts ==
    ASSUME result \in Results, NEW t \in Threads,
           NEW r \in {NotEnded, Failure}, Returns(t, r)
    PROVE  /\ result' \in Results
           /\ r = Failure => result'[t].how = "failure"
           /\ \A u \in Threads \ {t} : result'[u] = result[u]
<1>1. NotEnded = Ended("none", 0, FALSE) /\ Failure = Ended("failure", 0, FALSE)
  BY DEF NotEnded, Failure
<1>2. "none" \in Hows /\ "failure" \in Hows
  BY DEF Hows
<1>3. CASE r = NotEnded
  <2>1. Failure # NotEnded
    BY DEF NotEnded, Failure, Ended
  <2> QED BY <1>1, <1>2, <1>3, <2>1, ReturnsFacts
<1>4. CASE r = Failure
  BY <1>1, <1>2, <1>4, ReturnsFacts
<1> QED BY <1>3, <1>4

LEMMA BlockingInvInit == BlockingInit => BlockingInv
BY BlockingAssumption DEF BlockingInit, BlockingInv, BlockingTypeOK, Rendezvous, Room, WholeResult,
   NotEnded, Ended, States, Hows

\* The collector's own steps and the stutter.
LEMMA CollectorStep ==
    ASSUME BlockingInv, \/ Collect \/ Collected \/ UNCHANGED blockingVars
                 \/ \E t \in Threads : Request(t) \/ Park(t)
    PROVE  BlockingInv'
<1>1. UNCHANGED <<pc, active, cap, len, total, result>>
  BY DEF Collect, Collected, Request, Park, blockingVars
<1>2. BlockingTypeOK'
  BY <1>1 DEF BlockingInv, BlockingTypeOK, Collect, Collected, Request, Park, blockingVars
<1>3. Rendezvous'
  BY <1>1 DEF BlockingInv, BlockingTypeOK, Rendezvous, Running, Collect, Collected, Request, Park, blockingVars
<1>4. Room' /\ WholeResult'
  BY <1>1 DEF BlockingInv, Room, WholeResult
<1> QED BY <1>2, <1>3, <1>4 DEF BlockingInv

\* The way into and out of the calls.
LEMMA CallStep ==
    ASSUME BlockingInv, NEW t \in Threads,
           Activate(t) \/ Sleep(t) \/ Wake(t) \/ CallRead(t) \/ CallWrite(t)
    PROVE  BlockingInv'
<1> USE BlockingAssumption
<1>1. BlockingTypeOK'
  <2>1. CASE Activate(t)
    <3>1. result' \in Results
      BY <2>1, FailsFacts DEF Activate, BlockingInv, BlockingTypeOK, Results
    <3>2. /\ active' \subseteq Threads
          /\ len' \in [Threads -> Nat]
          /\ total' \in [Threads -> 0 .. MaxTotal]
      BY <2>1 DEF Activate, BlockingInv, BlockingTypeOK
    <3> QED BY <2>1, <3>1, <3>2 DEF Activate, Enters, States, BlockingInv, BlockingTypeOK, Results
  <2>2. CASE Sleep(t) \/ Wake(t) \/ CallRead(t) \/ CallWrite(t)
    <3>1. CASE Sleep(t) \/ Wake(t)
      BY <3>1 DEF BlockingInv, BlockingTypeOK, Sleep, Wake, Enters, States
    <3>2. CASE CallRead(t)
      BY <3>2 DEF BlockingInv, BlockingTypeOK, CallRead, Enters, Deactivate, States
    <3>3. CASE CallWrite(t)
      BY <3>3 DEF BlockingInv, BlockingTypeOK, CallWrite, Enters, Deactivate, States
    <3> QED BY <2>2, <3>1, <3>2, <3>3
  <2> QED BY <2>1, <2>2
<1>2. Rendezvous'
  BY DEF BlockingInv, BlockingTypeOK, Rendezvous, Activate, Sleep, Wake, CallRead, CallWrite, Enters,
         Deactivate, Running, States
<1>3. Room'
  BY DEF BlockingInv, BlockingTypeOK, Room, Activate, Sleep, Wake, CallRead, CallWrite, Enters, Running, States
<1>4. WholeResult'
  BY DEF BlockingInv, BlockingTypeOK, WholeResult, Activate, Sleep, Wake, CallRead, CallWrite, Enters,
         Returns, States
<1> QED BY <1>1, <1>2, <1>3, <1>4 DEF BlockingInv

\* The steps within a reading call.
LEMMA ReadStep ==
    ASSUME BlockingInv, NEW t \in Threads,
           OpenFails(t) \/ OpenSource(t) \/ Read(t) \/ ReadOutOfMemory(t) \/ ReadEnds(t)
    PROVE  BlockingInv'
<1> USE BlockingAssumption
<1>1. UNCHANGED <<active, parked, gc>> /\ pc[t] \in {"open", "read"}
  BY DEF OpenFails, OpenSource, Read, ReadOutOfMemory, ReadEnds
<1>2. pc[t] = "read" => /\ Chunk(t) \in Nat
                        /\ len[t] + Chunk(t) < cap[t]
                        /\ len[t] + Chunk(t) <= total[t]
                        /\ Chunk(t) = 0 => len[t] = total[t]
  BY ChunkFacts DEF BlockingInv
<1>3. Rendezvous'
  BY <1>1 DEF BlockingInv, BlockingTypeOK, Rendezvous, OpenFails, OpenSource, Read, ReadOutOfMemory, ReadEnds, Enters
<1>4. CASE OpenFails(t) \/ OpenSource(t)
  <2>0. OpenFails(t) => Returns(t, Failure)
    BY DEF OpenFails
  <2>1. result' \in Results /\ \A u \in Threads \ {t} : result'[u] = result[u]
    BY <1>4, <2>0, FailsFacts DEF OpenSource, BlockingInv, BlockingTypeOK, Results
  <2>2. OpenFails(t) => result'[t].how = "failure"
    BY <2>0, FailsFacts DEF BlockingInv, BlockingTypeOK, Results
  <2>3. BlockingTypeOK'
    <3>1. /\ pc' \in [Threads -> States]
          /\ \A u \in Threads : pc'[u] = "read" => pc[u] = "read" \/ (u = t /\ pc[u] = "open")
      BY <1>4 DEF BlockingInv, BlockingTypeOK, OpenFails, OpenSource, Enters, States
    <3>2. total' \in [Threads -> 0 .. MaxTotal] /\ UNCHANGED <<active, parked, gc, cap, len>>
      BY <1>4 DEF BlockingInv, BlockingTypeOK, OpenFails, OpenSource
    <3> QED BY <2>1, <3>1, <3>2 DEF BlockingInv, BlockingTypeOK, Room, Results
  <2>4. Room'
    BY <1>4 DEF BlockingInv, BlockingTypeOK, Room, OpenFails, OpenSource, Enters
  <2>5. WholeResult'
    BY <1>4, <2>1, <2>2 DEF BlockingInv, BlockingTypeOK, WholeResult, OpenFails, OpenSource, Enters
  <2> QED BY <1>3, <2>3, <2>4, <2>5 DEF BlockingInv
<1>5. CASE Read(t)
  <2>1. PICK n \in 1 .. Chunk(t) :
          /\ len' = [len EXCEPT ![t] = len[t] + n]
          /\ cap' = [cap EXCEPT ![t] = IF len[t] + n + 1 >= cap[t] THEN 2 * cap[t] ELSE cap[t]]
    BY <1>5 DEF Read, Full
  <2>2. pc[t] = "read"
    BY <1>5 DEF Read
  <2>3. n \in Nat /\ len[t] + n < cap[t] /\ len[t] + n <= total[t]
    BY <1>2, <2>2 DEF BlockingInv, BlockingTypeOK
  <2>4. BlockingTypeOK'
    BY <1>5, <2>1, <2>3 DEF BlockingInv, BlockingTypeOK, Room, Read
  <2>5. Room' /\ WholeResult'
    BY <1>5, <2>1, <2>3 DEF BlockingInv, BlockingTypeOK, Room, WholeResult, Read
  <2> QED BY <1>3, <2>4, <2>5 DEF BlockingInv
<1>6. CASE ReadOutOfMemory(t) \/ ReadEnds(t)
  <2>0. len[t] \in Nat /\ result \in Results /\ "output" \in Hows
    BY DEF BlockingInv, BlockingTypeOK, Results, Hows
  <2>1. /\ result' \in Results
        /\ \A u \in Threads \ {t} : result'[u] = result[u]
        /\ result'[t].how = "failure" \/ result'[t].error \/ result'[t].bytes = total[t]
    <3>1. CASE ReadOutOfMemory(t)
      BY <2>0, <3>1, FailsFacts DEF ReadOutOfMemory
    <3>2. CASE ReadEnds(t)
      <4>1. PICK error \in BOOLEAN :
              (error \/ Chunk(t) = 0) /\ Returns(t, Ended("output", len[t], error))
        BY <3>2 DEF ReadEnds
      <4>2. Chunk(t) = 0 => len[t] = total[t]
        BY <1>2, <3>2 DEF ReadEnds
      <4>3. /\ result' \in Results
            /\ result'[t].bytes = len[t] /\ result'[t].error = error
            /\ \A u \in Threads \ {t} : result'[u] = result[u]
        BY <2>0, <4>1, ReturnsFacts
      <4> QED BY <4>1, <4>2, <4>3
    <3> QED BY <1>6, <3>1, <3>2
  <2>2. /\ pc' = [pc EXCEPT ![t] = "activate"]
        /\ UNCHANGED <<active, parked, gc, len, total>>
        /\ cap' = cap \/ cap' = [cap EXCEPT ![t] = 0]
    BY <1>6 DEF ReadOutOfMemory, ReadEnds, Enters
  <2>3. BlockingTypeOK'
    <3>1. pc' \in [Threads -> States] /\ cap' \in [Threads -> Nat]
      BY <2>2 DEF BlockingInv, BlockingTypeOK, States
    <3>2. \A u \in Threads : pc'[u] = "read" => pc[u] = "read" /\ cap'[u] = cap[u]
      BY <2>2 DEF BlockingInv, BlockingTypeOK
    <3> QED BY <2>1, <2>2, <3>1, <3>2 DEF BlockingInv, BlockingTypeOK, Results
  <2>4. Room'
    BY <2>2 DEF BlockingInv, BlockingTypeOK, Room
  <2>5. WholeResult'
    BY <2>1, <2>2 DEF BlockingInv, BlockingTypeOK, WholeResult
  <2> QED BY <1>3, <2>3, <2>4, <2>5 DEF BlockingInv
<1> QED BY <1>4, <1>5, <1>6

\* The steps within a writing call.
LEMMA WriteStep ==
    ASSUME BlockingInv, NEW t \in Threads, Create(t) \/ WriteFile(t)
    PROVE  BlockingInv'
<1> USE BlockingAssumption
<1>0. result \in Results /\ total[t] \in Nat /\ "written" \in Hows
  BY DEF BlockingInv, BlockingTypeOK, Results, Hows
<1>1. /\ result' \in Results
      /\ \A u \in Threads \ {t} : result'[u] = result[u]
      /\ pc'[t] = "activate" =>
           result'[t].how = "failure" \/ result'[t].error \/ result'[t].bytes = total[t]
  <2>1. CASE Create(t)
    BY <1>0, <2>1, FailsFacts DEF Create, Enters, BlockingInv, BlockingTypeOK
  <2>2. CASE WriteFile(t)
    <3>1. PICK counted \in 0 .. total[t], error \in BOOLEAN :
            \E kept \in 0 .. counted :
              /\ error \/ kept = counted
              /\ Returns(t, IF counted = total[t] THEN Ended("written", kept, error) ELSE Failure)
      BY <2>2 DEF WriteFile
    <3>2. PICK kept \in 0 .. counted :
              /\ error \/ kept = counted
              /\ Returns(t, IF counted = total[t] THEN Ended("written", kept, error) ELSE Failure)
      BY <3>1
    <3>3. CASE counted = total[t]
      <4>1. Returns(t, Ended("written", kept, error)) /\ kept \in Nat
        BY <3>2, <3>3
      <4>2. /\ result' \in Results
            /\ result'[t].bytes = kept /\ result'[t].error = error
            /\ \A u \in Threads \ {t} : result'[u] = result[u]
        BY <1>0, <4>1, ReturnsFacts
      <4> QED BY <3>2, <3>3, <4>2
    <3>4. CASE counted # total[t]
      BY <1>0, <3>2, <3>4, FailsFacts
    <3> QED BY <3>3, <3>4
  <2> QED BY <2>1, <2>2
<1>2. /\ pc' \in [Threads -> States] /\ \A u \in Threads \ {t} : pc'[u] = pc[u]
      /\ pc[t] \in {"create", "write"} /\ pc'[t] \in {"write", "activate"}
      /\ UNCHANGED <<active, parked, gc, cap, len, total>>
  BY DEF BlockingInv, BlockingTypeOK, Create, WriteFile, Enters, States
<1>3. BlockingTypeOK'
  BY <1>1, <1>2 DEF BlockingInv, BlockingTypeOK, Results
<1>4. Rendezvous'
  BY <1>2 DEF BlockingInv, BlockingTypeOK, Rendezvous
<1>5. Room'
  BY <1>2 DEF BlockingInv, BlockingTypeOK, Room
<1>6. WholeResult'
  BY <1>1, <1>2 DEF BlockingInv, BlockingTypeOK, WholeResult
<1> QED BY <1>3, <1>4, <1>5, <1>6 DEF BlockingInv

LEMMA BlockingInvStep == BlockingInv /\ [BlockingNext]_blockingVars => BlockingInv'
BY CollectorStep, CallStep, ReadStep, WriteStep DEF BlockingNext, Prompt

LEMMA BlockingInvAlways == BlockingSpec => []BlockingInv
BY BlockingInvInit, BlockingInvStep, PTL DEF BlockingSpec

\* The buffer always has room for the NUL that ends an output, for any sizes.
THEOREM BuffersCorrect == BlockingSpec => []BlockingTypeOK
<1>1. BlockingInv => BlockingTypeOK
  BY DEF BlockingInv
<1> QED BY <1>1, BlockingInvAlways, PTL

\* No thread runs Scheme code while the collector does, for any threads and
\* whichever calls fail.
THEOREM HeapSafeAlways == BlockingSpec => []HeapSafe
<1>1. BlockingInv => HeapSafe
  BY DEF BlockingInv, Rendezvous, HeapSafe
<1> QED BY <1>1, BlockingInvAlways, PTL

\* Nothing but an error of the stream cuts an output short or leaves a file
\* reported written without all its bytes, for any sizes of buffer and data.
THEOREM ResultsWhole == BlockingSpec => []WholeResult
<1>1. BlockingInv => WholeResult
  BY DEF BlockingInv
<1> QED BY <1>1, BlockingInvAlways, PTL
==============================================================================
