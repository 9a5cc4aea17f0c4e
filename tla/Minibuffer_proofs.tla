-------------------------- MODULE Minibuffer_proofs --------------------------
(***************************************************************************)
(* Proofs about Minibuffer, for any number of calls and any depth of       *)
(* nesting: the key handler dispatches no key inside a reader's loop until *)
(* the chord timer has; readers leave no mode behind; and one that never   *)
(* was in progress with another returns its own answer.                    *)
(***************************************************************************)
EXTENDS Minibuffer, TLAPS

Frame == [id : Prompts, kind : Kinds, phase : {"events", "tick"}]

\* The part of the type invariant that the arguments below use.
Shape == loops \in Seq(Frame)

\* A reader that processes events is the innermost one and has
\* *minibuffer-active?* on; and where an inner reader switched it off, the
\* full box keeps the outer ones from turning.
Listening ==
    loops # <<>> => /\ active \/ result # Running
                    /\ Top.phase = "events" => active

\* The outer readers are inside their master timer.
Nested == \A i \in 1 .. Len(loops) - 1 : loops[i].phase = "tick"

\* All of this holds until the chord timer replays a key inside a reader.
KeyInv ==
    /\ Shape /\ opened \in Nat
    /\ slipped \/ (Nested /\ Listening /\ ~nestedKey)

------------------------------------------------------------------------------
(* Facts about stacks of readers.                                          *)

\* What removing the last entry of a sequence leaves.
LEMMA FrontEntries ==
    ASSUME NEW S, NEW s \in Seq(S), s # <<>>
    PROVE  LET t == SubSeq(s, 1, Len(s) - 1) IN
           /\ t \in Seq(S) /\ Len(s) \in Nat /\ Len(t) = Len(s) - 1
           /\ \A i \in 1 .. Len(s) - 1 : t[i] = s[i]
<1>1. Len(s) \in Nat /\ Len(s) # 0 /\ \A i \in 1 .. Len(s) : s[i] \in S
  OBVIOUS
<1> DEFINE n == Len(s) - 1
<1>2. n \in Nat /\ n < Len(s)
  BY <1>1
<1>3. \A i \in 1 .. n : s[i] \in S
  BY <1>1
<1> HIDE DEF n
<1>4. /\ SubSeq(s, 1, n) \in Seq(S) /\ Len(SubSeq(s, 1, n)) = n
      /\ \A i \in 1 .. n : SubSeq(s, 1, n)[i] = s[i]
  BY <1>2, <1>3
<1>5. QED
  BY <1>1, <1>4 DEF n

LEMMA PushShape ==
    ASSUME Shape, NEW f \in Frame, loops' = Append(loops, f)
    PROVE  /\ Shape' /\ loops' # <<>>
           /\ Top' = f
  BY DEF Shape, Top

LEMMA PopShape ==
    ASSUME Shape, loops # <<>>, loops' = SubSeq(loops, 1, Len(loops) - 1)
    PROVE  Shape'
  BY DEF Shape

LEMMA TopShape ==
    ASSUME Shape, loops # <<>>
    PROVE  Top \in Frame /\ Len(loops) \in DOMAIN loops
  BY DEF Shape, Top

LEMMA PhaseShape ==
    ASSUME Shape, loops # <<>>, NEW p \in {"events", "tick"}, loops' = SetPhase(p)
    PROVE  /\ Shape' /\ loops' # <<>>
           /\ Top'.phase = p
<1> DEFINE n == Len(loops)
           g == [id |-> Top.id, kind |-> Top.kind, phase |-> p]
<1>1. Top \in Frame /\ n \in DOMAIN loops /\ n \in Nat /\ DOMAIN loops = 1 .. n
  BY TopShape DEF Shape
<1>2. g \in Frame /\ [Top EXCEPT !.phase = p] = g
  BY <1>1 DEF Frame
<1>3. loops' = [loops EXCEPT ![n] = g]
  BY <1>2 DEF SetPhase, Top
<1>4. loops' \in Seq(Frame) /\ Len(loops') = n /\ loops'[n] = g
  BY <1>1, <1>2, <1>3 DEF Shape
<1>5. QED
  BY <1>1, <1>4 DEF Shape, Top

LEMMA PushNested ==
    ASSUME Shape, Nested, loops # <<>> => Top.phase = "tick",
           NEW f \in Frame, loops' = Append(loops, f)
    PROVE  Nested'
<1>1. /\ Len(loops) \in Nat /\ Len(loops') = Len(loops) + 1
      /\ \A i \in 1 .. Len(loops) : loops'[i] = loops[i]
  BY DEF Shape
<1>2. \A i \in 1 .. Len(loops) : loops[i].phase = "tick"
  BY <1>1 DEF Nested, Top, Shape
<1>3. QED
  BY <1>1, <1>2 DEF Nested

LEMMA PopNested ==
    ASSUME Shape, Nested, loops # <<>>, loops' = SubSeq(loops, 1, Len(loops) - 1)
    PROVE  /\ Nested'
           /\ loops' # <<>> => Top'.phase = "tick"
<1>1. /\ Len(loops) \in Nat /\ Len(loops') = Len(loops) - 1
      /\ \A i \in 1 .. Len(loops) - 1 : loops'[i] = loops[i]
  BY FrontEntries DEF Shape
<1>2. loops' # <<>> => Len(loops) - 1 \in 1 .. Len(loops) - 1
  <2>1. loops' \in Seq(Frame)
    BY FrontEntries DEF Shape
  <2>2. QED
    BY <1>1, <2>1
<1>3. QED
  BY <1>1, <1>2 DEF Nested, Top

LEMMA PhaseNested ==
    ASSUME Shape, Nested, loops # <<>>, NEW p, loops' = SetPhase(p)
    PROVE  Nested'
<1>1. /\ Len(loops) \in Nat /\ Len(loops') = Len(loops)
      /\ \A i \in 1 .. Len(loops) - 1 : loops'[i] = loops[i]
  BY DEF Shape, SetPhase
<1>2. QED
  BY <1>1 DEF Nested

LEMMA OpenNested ==
    ASSUME Shape, Nested, loops # <<>> => Top.phase = "tick",
           NEW k \in Kinds, Open(k), opened \in Nat
    PROVE  Nested'
<1>1. [id |-> opened + 1, kind |-> k, phase |-> "events"] \in Frame
  BY MinibufferAssumption DEF Open, Frame, Prompts
<1>2. QED
  BY <1>1, PushNested DEF Open

LEMMA OpenShape ==
    ASSUME Shape, NEW k \in Kinds, Open(k), opened \in Nat
    PROVE  /\ Shape' /\ loops' # <<>> /\ active'
           /\ opened' \in Nat
<1>1. [id |-> opened + 1, kind |-> k, phase |-> "events"] \in Frame
  BY MinibufferAssumption DEF Open, Frame, Prompts
<1>2. QED
  BY <1>1, PushShape DEF Open

------------------------------------------------------------------------------
(* The key handler.                                                        *)

LEMMA KeyInvInit == ASSUME Init PROVE KeyInv
  BY DEF Init, KeyInv, Shape, Listening, Nested

\* What the stack keeps in every step.
LEMMA ShapeStep ==
    ASSUME Shape, opened \in Nat, [Next]_vars
    PROVE  Shape' /\ opened' \in Nat /\ (slipped => slipped')
<1>1. ASSUME NEW k \in Kinds, Open(k) PROVE Shape' /\ opened' \in Nat
  BY <1>1, OpenShape
<1>2. CASE \E k \in Kinds : Key(k) \/ TaskReads(k)
  BY <1>1, <1>2 DEF Key, TaskReads
<1>3. CASE ChordTimeout
  BY <1>1, <1>3 DEF ChordTimeout, Shape
<1>4. CASE EventsEnd \/ Turn
  <2>1. PICK p \in {"events", "tick"} : loops' = SetPhase(p)
    BY <1>4 DEF EventsEnd, Turn
  <2>2. loops # <<>> /\ opened' = opened /\ slipped' = slipped
    BY <1>4 DEF EventsEnd, Turn, history
  <2>3. QED
    BY <2>1, <2>2, PhaseShape
<1>5. CASE Return
  BY <1>5, PopShape DEF Return
<1>6. CASE ChordStart \/ Type \/ Tab \/ Enter \/ Descend \/ Escape \/ UNCHANGED vars
  BY <1>6 DEF ChordStart, Type, Tab, Enter, Descend, Escape, history, vars, Shape
<1>7. QED
  BY <1>2, <1>3, <1>4, <1>5, <1>6 DEF Next, LoopStep

LEMMA KeyInvStep ==
    ASSUME KeyInv, [Next]_vars
    PROVE  KeyInv'
<1>0. Shape /\ opened \in Nat /\ Shape' /\ opened' \in Nat /\ (slipped => slipped')
  BY ShapeStep DEF KeyInv
<1>s. CASE slipped
  BY <1>0, <1>s DEF KeyInv
<1>n. CASE ~slipped
  <2>0. Nested /\ Listening /\ ~nestedKey
    BY <1>n DEF KeyInv
  <2> SUFFICES slipped' \/ (Nested' /\ Listening' /\ ~nestedKey')
    BY <1>0 DEF KeyInv
  <2>1. ASSUME NEW k \in Kinds, Key(k) PROVE Nested' /\ Listening' /\ ~nestedKey'
    <3>1. loops = <<>>
      BY <2>0, <2>1 DEF Key, ProcessingEvents, Listening
    <3>2. active' /\ loops' # <<>>
      BY <1>0, <2>1, OpenShape DEF Key
    <3>3. ~nestedKey'
      BY <2>0, <2>1, <3>1 DEF Key
    <3>4. Nested'
      BY <1>0, <2>0, <2>1, <3>1, OpenNested DEF Key
    <3>5. QED
      BY <3>2, <3>3, <3>4 DEF Listening
  <2>2. ASSUME NEW k \in Kinds, TaskReads(k) PROVE Nested' /\ Listening' /\ ~nestedKey'
    <3>1. active' /\ loops' # <<>>
      BY <1>0, <2>2, OpenShape DEF TaskReads
    <3>2. ~nestedKey'
      BY <2>0, <2>2 DEF TaskReads
    <3>3. Nested'
      BY <1>0, <2>0, <2>2, OpenNested DEF TaskReads
    <3>4. QED
      BY <3>1, <3>2, <3>3 DEF Listening
  <2>3. CASE ChordStart
    <3>1. loops = <<>>
      BY <2>0, <2>3 DEF ChordStart, ProcessingEvents, Listening
    <3>2. QED
      BY <2>0, <2>3, <3>1 DEF ChordStart, Nested, Listening
  <2>4. CASE ChordTimeout
    <3>1. CASE loops # <<>>
      BY <2>4, <3>1 DEF ChordTimeout
    <3>2. ASSUME loops = <<>>, NEW k \in Kinds, Open(k)
          PROVE  Nested' /\ Listening' /\ ~nestedKey'
      <4>1. active' /\ loops' # <<>>
        BY <1>0, <3>2, OpenShape
      <4>2. Nested'
        BY <1>0, <2>0, <3>2, OpenNested
      <4>3. QED
        BY <2>0, <2>4, <4>1, <4>2 DEF ChordTimeout, Listening
    <3>3. CASE loops = <<>> /\ UNCHANGED <<loops, opened, active, result, widgets, modes, returned, mixed>>
      BY <2>0, <2>4, <3>3 DEF ChordTimeout, Nested, Listening
    <3>4. QED
      BY <2>4, <3>1, <3>2, <3>3 DEF ChordTimeout
  <2>5. CASE EventsEnd
    <3>1. loops' # <<>> /\ Top'.phase = "tick"
      BY <1>0, <2>5, PhaseShape DEF EventsEnd
    <3>2. Nested'
      BY <1>0, <2>0, <2>5, PhaseNested DEF EventsEnd
    <3>3. QED
      BY <2>0, <2>5, <3>1, <3>2 DEF EventsEnd, Listening, history
  <2>6. CASE Turn
    <3>1. loops' # <<>> /\ Top'.phase = "events"
      BY <1>0, <2>6, PhaseShape DEF Turn
    <3>2. active'
      BY <2>0, <2>6 DEF Turn, Listening
    <3>3. Nested'
      BY <1>0, <2>0, <2>6, PhaseNested DEF Turn
    <3>4. QED
      BY <2>0, <2>6, <3>1, <3>2, <3>3 DEF Turn, Listening, history
  <2>7. CASE Return
    <3>1. result' # Running /\ ~nestedKey'
      BY <2>0, <2>7 DEF Return
    <3>2. Nested' /\ (loops' # <<>> => Top'.phase = "tick")
      BY <1>0, <2>0, <2>7, PopNested DEF Return
    <3>3. QED
      BY <3>1, <3>2 DEF Listening
  <2>8. CASE Type \/ Tab \/ Enter \/ Descend \/ Escape
    <3>1. UserAt /\ loops' = loops /\ active' = active /\ nestedKey' = nestedKey
      BY <2>8 DEF Type, Tab, Enter, Descend, Escape, history
    <3>2. active
      BY <2>0, <3>1 DEF UserAt, Listening
    <3>3. QED
      BY <2>0, <3>1, <3>2 DEF Nested, Listening, Top
  <2>9. CASE UNCHANGED vars
    BY <2>0, <2>9 DEF vars, history, Nested, Listening, Top
  <2>10. QED
    BY <2>1, <2>2, <2>3, <2>4, <2>5, <2>6, <2>7, <2>8, <2>9 DEF Next, LoopStep
<1>1. QED
  BY <1>s, <1>n

\* app.ss:917: while a minibuffer blocks, however its readers nest, the key
\* handler dispatches no key to the editor, unless the chord timer has.
THEOREM KeysIgnored == Spec => []NoNestedKeys
<1>1. KeyInv => NoNestedKeys
  BY DEF KeyInv, NoNestedKeys
<1>2. QED
  BY KeyInvInit, KeyInvStep, <1>1, PTL DEF Spec

------------------------------------------------------------------------------
(* The modes.                                                              *)

Has(K) == \E i \in DOMAIN loops : loops[i].kind \in K

\* A mode that is on, or a list of candidates, belongs to a reader in progress
\* that will switch it off.
Owned ==
    /\ active => loops # <<>>
    /\ narrowing => Has(Narrowing)
    /\ candidates # None => Has(Narrowing)
    /\ list # None => Has(Narrowing)
    /\ fileNarrowing => Has({"fileNarrow"})
    /\ fileMode => Has({"file"})
    /\ completions # None => Has({"completion"})

ModeInv == Shape /\ opened \in Nat /\ Owned

LEMMA OpenHas ==
    ASSUME Shape, opened \in Nat, NEW k \in Kinds, Open(k), NEW K
    PROVE  /\ Has(K) => Has(K)'
           /\ k \in K => Has(K)'
<1> DEFINE f == [id |-> opened + 1, kind |-> k, phase |-> "events"]
<1>1. loops' = Append(loops, f) /\ f \in Frame
  BY MinibufferAssumption DEF Open, Frame, Prompts
<1>2. f.kind = k
  OBVIOUS
<1> HIDE DEF f
<1>3. /\ Len(loops) \in Nat /\ DOMAIN loops = 1 .. Len(loops)
      /\ DOMAIN loops' = 1 .. Len(loops) + 1
      /\ \A i \in DOMAIN loops : loops'[i] = loops[i]
      /\ loops'[Len(loops) + 1] = f
  BY <1>1 DEF Shape
<1>4. QED
  BY <1>2, <1>3 DEF Has

LEMMA ReturnHas ==
    ASSUME Shape, Return, NEW K, Top.kind \notin K, Has(K)
    PROVE  Has(K)'
<1>1. /\ Len(loops) \in Nat /\ DOMAIN loops = 1 .. Len(loops)
      /\ loops' \in Seq(Frame) /\ Len(loops') = Len(loops) - 1
      /\ \A i \in 1 .. Len(loops) - 1 : loops'[i] = loops[i]
  BY FrontEntries DEF Shape, Return
<1>2. PICK i \in DOMAIN loops : loops[i].kind \in K
  BY DEF Has
<1>3. i # Len(loops)
  BY <1>2 DEF Top
<1>4. i \in 1 .. Len(loops) - 1
  BY <1>1, <1>2, <1>3
<1>5. i \in DOMAIN loops' /\ loops'[i] = loops[i]
  BY <1>1, <1>4
<1>6. QED
  BY <1>2, <1>5 DEF Has

LEMMA PhaseHas ==
    ASSUME Shape, loops # <<>>, NEW p \in {"events", "tick"}, loops' = SetPhase(p), NEW K
    PROVE  Has(K) => Has(K)'
<1> DEFINE n == Len(loops)
           g == [id |-> Top.id, kind |-> Top.kind, phase |-> p]
<1>1. Top \in Frame /\ n \in DOMAIN loops
  BY TopShape
<1>2. [Top EXCEPT !.phase = p] = g
  BY <1>1 DEF Frame
<1>3. loops' = [loops EXCEPT ![n] = g]
  BY <1>2 DEF SetPhase, Top
<1>4. DOMAIN loops' = DOMAIN loops /\ \A i \in DOMAIN loops : loops'[i].kind = loops[i].kind
  BY <1>1, <1>3 DEF Top
<1>5. QED
  BY <1>4 DEF Has

LEMMA ModeInvInit == ASSUME Init PROVE ModeInv
  BY DEF Init, ModeInv, Shape, Owned

LEMMA OpenOwned ==
    ASSUME ModeInv, NEW k \in Kinds, Open(k)
    PROVE  ModeInv'
<1>1. Shape' /\ opened' \in Nat /\ loops' # <<>>
  BY OpenShape DEF ModeInv
<1>2. \A K \in {Narrowing, {"fileNarrow"}, {"file"}, {"completion"}} :
        (Has(K) => Has(K)') /\ (k \in K => Has(K)')
  BY OpenHas DEF ModeInv
<1>3. narrowing' => Has(Narrowing)'
  BY <1>2 DEF Open, ModeInv, Owned
<1>4. list' # None => Has(Narrowing)'
  BY <1>2 DEF Open, ModeInv, Owned
<1>5. candidates' # None => Has(Narrowing)'
  BY <1>2, <1>4 DEF Open, ModeInv, Owned
<1>6. fileNarrowing' => Has({"fileNarrow"})'
  BY <1>2 DEF Open, ModeInv, Owned
<1>7. fileMode' => Has({"file"})'
  BY <1>2 DEF Open, ModeInv, Owned
<1>8. completions' # None => Has({"completion"})'
  BY <1>2 DEF Open, ModeInv, Owned
<1>9. QED
  BY <1>1, <1>3, <1>4, <1>5, <1>6, <1>7, <1>8 DEF ModeInv, Owned

LEMMA ModeInvStep == ASSUME ModeInv, [Next]_vars PROVE ModeInv'
<1>1. ASSUME NEW k \in Kinds, Open(k) PROVE ModeInv'
  BY <1>1, OpenOwned
<1>2. CASE EventsEnd \/ Turn
  <2>1. PICK p \in {"events", "tick"} : loops' = SetPhase(p)
    BY <1>2 DEF EventsEnd, Turn
  <2>2. loops # <<>> /\ UNCHANGED <<opened, active, list, modes>>
    BY <1>2 DEF EventsEnd, Turn, widgets
  <2>3. Shape' /\ loops' # <<>>
    BY <2>1, <2>2, PhaseShape DEF ModeInv
  <2>4. \A K \in {Narrowing, {"fileNarrow"}, {"file"}, {"completion"}} : Has(K) => Has(K)'
    BY <2>1, <2>2, PhaseHas DEF ModeInv
  <2>5. QED
    BY <2>2, <2>3, <2>4 DEF ModeInv, Owned, modes
<1>3. CASE Return
  <2>1. Shape' /\ opened' \in Nat /\ ~active'
    BY <1>3, PopShape DEF Return, ModeInv
  <2>2. \A K \in {Narrowing, {"fileNarrow"}, {"file"}, {"completion"}} :
          Top.kind \notin K /\ Has(K) => Has(K)'
    BY <1>3, ReturnHas DEF ModeInv
  <2>3. /\ narrowing' => Has(Narrowing)'
        /\ list' # None => Has(Narrowing)'
        /\ candidates' # None => Has(Narrowing)'
    BY <1>3, <2>2 DEF Return, ModeInv, Owned
  <2>4. /\ fileNarrowing' => Has({"fileNarrow"})'
        /\ fileMode' => Has({"file"})'
    BY <1>3, <2>2 DEF Return, ModeInv, Owned
  <2>5. completions' # None => Has({"completion"})'
    BY <1>3, <2>2 DEF Return, ModeInv, Owned
  <2>6. QED
    BY <2>1, <2>3, <2>4, <2>5 DEF ModeInv, Owned
<1>4. CASE Type \/ Descend
  <2>1. UNCHANGED <<loops, opened, active, modes>> /\ TextChanged
    BY <1>4 DEF Type, Descend
  <2>2. list' # None => Has(Narrowing)
    BY <2>1 DEF TextChanged, ModeInv, Owned
  <2>3. QED
    BY <2>1, <2>2 DEF ModeInv, Owned, Shape, Has, modes
<1>5. CASE UNCHANGED <<loops, opened, active, list, modes>>
  BY <1>5 DEF ModeInv, Owned, Shape, Has, modes
<1>6. CASE Tab \/ Enter \/ Escape \/ ChordStart \/ UNCHANGED vars
  BY <1>5, <1>6 DEF Tab, Enter, Escape, ChordStart, vars, widgets
<1>7. CASE ChordTimeout
  BY <1>1, <1>5, <1>7 DEF ChordTimeout, widgets
<1>8. CASE \E k \in Kinds : Key(k) \/ TaskReads(k)
  BY <1>1, <1>8 DEF Key, TaskReads
<1>9. QED
  BY <1>2, <1>3, <1>4, <1>6, <1>7, <1>8 DEF Next, LoopStep

\* echo.ss: once no reader is in progress, however they nested and whatever
\* their kinds, every mode is off and no candidate is left.
THEOREM ModesCleared == Spec => []NothingLeft
<1>1. ModeInv => NothingLeft
  BY DEF ModeInv, Owned, Has, NothingLeft
<1>2. QED
  BY ModeInvInit, ModeInvStep, <1>1, PTL DEF Spec

------------------------------------------------------------------------------
(* Types.                                                                  *)

Sizes == Len(loops) <= MaxDepth /\ opened \in 0 .. MaxPrompts

Texts ==
    /\ result \in {Running} \cup Answers
    /\ label \in Answers /\ input \in Answers /\ list \in Answers
    /\ completions \in Answers /\ candidates \in Answers /\ basePrompt \in Answers
    /\ returned \in [Prompts -> {Running} \cup Answers]
    /\ mixed \subseteq Prompts

Flags ==
    /\ active \in BOOLEAN /\ narrowing \in BOOLEAN /\ fileNarrowing \in BOOLEAN
    /\ fileMode \in BOOLEAN /\ chord \in BOOLEAN /\ nestedKey \in BOOLEAN
    /\ slipped \in BOOLEAN

TypeInv == KeyInv /\ Sizes /\ Texts /\ Flags

LEMMA TypeInvInit == ASSUME Init PROVE TypeInv
<1>1. Sizes
  <2>1. Len(loops) = 0 /\ opened = 0
    BY DEF Init
  <2>2. QED
    BY <2>1, MinibufferAssumption DEF Sizes
<1>2. Texts
  BY DEF Init, Texts, Answers
<1>3. Flags
  BY DEF Init, Flags
<1>4. QED
  BY <1>1, <1>2, <1>3, KeyInvInit DEF TypeInv

LEMMA InProgress ==
    ASSUME Shape
    PROVE  Ids \subseteq Prompts /\ (loops # <<>> => Top.id \in Prompts)
<1>1. \A i \in DOMAIN loops : loops[i] \in Frame
  BY DEF Shape
<1>2. QED
  BY <1>1, TopShape DEF Ids, Frame

LEMMA OpenTypes ==
    ASSUME TypeInv, NEW k \in Kinds, Open(k)
    PROVE  /\ Sizes' /\ Texts'
           /\ active' \in BOOLEAN /\ narrowing' \in BOOLEAN
           /\ fileNarrowing' \in BOOLEAN /\ fileMode' \in BOOLEAN
<1> DEFINE p == opened + 1
           f == [id |-> p, kind |-> k, phase |-> "events"]
<1>1. p \in Prompts /\ opened' = p /\ Len(loops) < MaxDepth /\ loops' = Append(loops, f)
  BY MinibufferAssumption DEF Open, TypeInv, Sizes, Prompts
<1>2. f \in Frame
  BY <1>1 DEF Frame
<1> HIDE DEF f
<1>3. Sizes'
  <2>1. Len(loops') = Len(loops) + 1 /\ Len(loops) \in Nat
    BY <1>1, <1>2 DEF TypeInv, KeyInv, Shape
  <2>2. QED
    BY <1>1, <2>1, MinibufferAssumption DEF Sizes, Prompts
<1> HIDE DEF p
<1>4. list' \in Answers
  BY <1>1 DEF Open, TypeInv, Texts, Answers, p
<1>5. /\ label' \in Answers /\ input' \in Answers /\ completions' \in Answers
      /\ candidates' \in Answers /\ basePrompt' \in Answers
      /\ result' \in {Running} \cup Answers /\ returned' = returned
  BY <1>1, <1>4 DEF Open, TypeInv, Texts, Answers, p
<1>6. mixed' \subseteq Prompts
  <2>1. Ids \subseteq Prompts
    BY InProgress DEF TypeInv, KeyInv
  <2>2. QED
    BY <1>1, <2>1 DEF Open, TypeInv, Texts, p
<1>7. /\ active' \in BOOLEAN /\ narrowing' \in BOOLEAN
      /\ fileNarrowing' \in BOOLEAN /\ fileMode' \in BOOLEAN
  BY DEF Open
<1>8. QED
  BY <1>3, <1>4, <1>5, <1>6, <1>7 DEF TypeInv, Texts

LEMMA TypeInvStep == ASSUME TypeInv, [Next]_vars PROVE TypeInv'
<1> SUFFICES Sizes' /\ Texts' /\ Flags'
  BY KeyInvStep DEF TypeInv
<1>0. Shape /\ Sizes /\ Texts /\ Flags
  BY DEF TypeInv, KeyInv
<1>1. ASSUME NEW k \in Kinds, Key(k) \/ TaskReads(k) PROVE Sizes' /\ Texts' /\ Flags'
  <2>1. Open(k) /\ (chord' = FALSE \/ chord' = chord) /\ slipped' = slipped
        /\ (nestedKey' = (nestedKey \/ loops # <<>>) \/ nestedKey' = nestedKey)
    BY <1>1 DEF Key, TaskReads
  <2>2. QED
    BY <1>0, <2>1, OpenTypes DEF Flags
<1>2. CASE ChordTimeout
  <2>1. chord' = FALSE /\ slipped' \in BOOLEAN /\ nestedKey' = nestedKey
    BY <1>2 DEF ChordTimeout
  <2>2. ASSUME NEW k \in Kinds, Open(k) PROVE Sizes' /\ Texts' /\ Flags'
    BY <1>0, <2>1, <2>2, OpenTypes DEF Flags
  <2>3. CASE UNCHANGED <<loops, opened, active, result, widgets, modes, returned, mixed>>
    BY <1>0, <2>1, <2>3 DEF Sizes, Texts, Flags, widgets, modes
  <2>4. QED
    BY <1>2, <2>2, <2>3 DEF ChordTimeout
<1>3. CASE EventsEnd \/ Turn
  <2>1. PICK p \in {"events", "tick"} : loops' = SetPhase(p)
    BY <1>3 DEF EventsEnd, Turn
  <2>2. loops # <<>> /\ UNCHANGED <<opened, active, result, widgets, modes, chord, history>>
    BY <1>3 DEF EventsEnd, Turn
  <2>3. Len(loops') = Len(loops)
    BY <1>0, <2>1 DEF Shape, SetPhase
  <2>4. QED
    BY <1>0, <2>2, <2>3 DEF Sizes, Texts, Flags, widgets, modes, history
<1>4. CASE Return
  <2>1. Len(loops') <= MaxDepth /\ opened' = opened
    <3>1. Len(loops') = Len(loops) - 1 /\ Len(loops) \in Nat
      BY <1>0, <1>4, FrontEntries DEF Return, Shape
    <3>2. QED
      BY <1>0, <1>4, <3>1, MinibufferAssumption DEF Sizes, Return
  <2>2. returned' \in [Prompts -> {Running} \cup Answers]
    BY <1>0, <1>4, InProgress DEF Return, Texts
  <2>3. /\ completions' \in Answers /\ candidates' \in Answers /\ list' \in Answers
        /\ UNCHANGED <<result, label, input, basePrompt, mixed>>
    BY <1>0, <1>4 DEF Return, Texts, Answers
  <2>4. Flags'
    BY <1>0, <1>4 DEF Return, Flags
  <2>5. QED
    BY <1>0, <2>1, <2>2, <2>3, <2>4 DEF Sizes, Texts
<1>5. CASE Type \/ Tab \/ Enter \/ Descend \/ Escape
  <2>1. UNCHANGED <<loops, opened, active, modes, chord, history>>
    BY <1>5 DEF Type, Tab, Enter, Descend, Escape
  <2>2. label' \in Answers /\ list' \in Answers
    BY <1>0, <1>5 DEF Type, Tab, Enter, Descend, Escape, TextChanged, Texts, Answers, widgets
  <2>3. input' \in Answers
    BY <1>0, <1>5 DEF Type, Tab, Enter, Descend, Escape, Texts, Answers, widgets
  <2>4. result' \in {Running} \cup Answers
    BY <1>0, <1>5 DEF Type, Tab, Enter, Descend, Escape, Texts, Answers
  <2>5. QED
    BY <1>0, <2>1, <2>2, <2>3, <2>4 DEF Sizes, Texts, Flags, modes, history
<1>6. CASE ChordStart
  BY <1>0, <1>6 DEF ChordStart, Sizes, Texts, Flags, widgets, modes
<1>7. CASE UNCHANGED vars
  BY <1>0, <1>7 DEF vars, Sizes, Texts, Flags, widgets, modes, history
<1>8. QED
  BY <1>1, <1>2, <1>3, <1>4, <1>5, <1>6, <1>7 DEF Next, LoopStep

\* The types, and that the outer readers are in their timers unless the chord
\* timer called one, for any calls and any nesting.
THEOREM TypeCorrect == Spec => []TypeOK
<1>1. TypeInv => TypeOK
  <2> SUFFICES ASSUME TypeInv PROVE TypeOK
    OBVIOUS
  <2>1. loops \in Seq([id : Prompts, kind : Kinds, phase : {"events", "tick"}])
    BY DEF TypeInv, KeyInv, Shape, Frame
  <2>2. {label, input, list, completions, candidates, basePrompt} \subseteq Answers
    BY DEF TypeInv, Texts
  <2>3. {active, narrowing, fileNarrowing, fileMode, chord, nestedKey, slipped}
          \subseteq BOOLEAN
    BY DEF TypeInv, Flags
  <2>4. slipped \/ \A i \in 1 .. Len(loops) - 1 : loops[i].phase = "tick"
    BY DEF TypeInv, KeyInv, Nested
  <2>5. QED
    BY <2>1, <2>2, <2>3, <2>4 DEF TypeInv, Sizes, Texts, TypeOK
<1>2. QED
  BY TypeInvInit, TypeInvStep, <1>1, PTL DEF Spec

------------------------------------------------------------------------------
(* The answers.                                                            *)

\* Readers in progress together are known to be.
Together == Len(loops) >= 2 => Ids \subseteq mixed

\* Whatever a reader that has always been alone finds is its own or nothing.
Alone ==
    Len(loops) = 1 /\ Top.id \notin mixed =>
        /\ result \in {Running, None, Top.id}
        /\ label = Top.id
        /\ input \in {None, Top.id} /\ list \in {None, Top.id}
        /\ candidates \in {None, Top.id} /\ completions \in {None, Top.id}
        /\ narrowing => basePrompt = Top.id

AnswerInv == ModeInv /\ returned \in [Prompts -> {Running} \cup Answers]
             /\ Together /\ Alone /\ AloneAnswer

LEMMA AnswerInvInit == ASSUME Init PROVE AnswerInv
<1>1. Len(loops) = 0 /\ returned \in [Prompts -> {Running} \cup Answers]
      /\ \A p \in Prompts : returned[p] = Running
  BY DEF Init
<1>2. QED
  BY <1>1, ModeInvInit DEF AnswerInv, Together, Alone, AloneAnswer

LEMMA OpenAnswer ==
    ASSUME AnswerInv, NEW k \in Kinds, Open(k)
    PROVE  Together' /\ Alone'
<1> DEFINE p == opened + 1
           f == [id |-> p, kind |-> k, phase |-> "events"]
<1>1. Shape /\ opened \in Nat /\ Owned
  BY DEF AnswerInv, ModeInv
<1>2. f \in Frame /\ f.id = p /\ loops' = Append(loops, f)
  BY <1>1, MinibufferAssumption DEF Open, Frame, Prompts
<1>3. /\ Len(loops) \in Nat /\ Len(loops') = Len(loops) + 1
      /\ DOMAIN loops = 1 .. Len(loops) /\ DOMAIN loops' = 1 .. Len(loops) + 1
      /\ \A i \in DOMAIN loops : loops'[i] = loops[i]
      /\ loops'[Len(loops) + 1] = f
  BY <1>1, <1>2 DEF Shape
<1>4. Top'.id = p
  BY <1>2, <1>3 DEF Top
<1>5. CASE loops = <<>>
  <2>1. Len(loops') = 1
    BY <1>3, <1>5
  <2>2. ~narrowing /\ candidates = None /\ list = None /\ completions = None
    BY <1>1, <1>5 DEF Owned, Has
  <2>3. /\ result' = Running /\ label' = p /\ input' \in {None, p} /\ list' \in {None, p}
        /\ candidates' \in {None, p} /\ completions' \in {None, p}
        /\ narrowing' => basePrompt' = p
    BY <2>2 DEF Open
  <2>4. QED
    BY <1>4, <2>1, <2>3 DEF Together, Alone
<1>6. CASE loops # <<>>
  <2>1. Len(loops') # 1
    BY <1>1, <1>3, <1>6 DEF Shape
  <2>2. mixed' = mixed \cup {p} \cup Ids
    BY <1>6 DEF Open
  <2>3. Ids' \subseteq {p} \cup Ids
    BY <1>2, <1>3 DEF Ids
  <2>4. QED
    BY <2>1, <2>2, <2>3 DEF Together, Alone
<1>7. QED
  BY <1>5, <1>6

LEMMA ReturnAnswer ==
    ASSUME AnswerInv, Return
    PROVE  Together' /\ Alone' /\ AloneAnswer'
<1>1. Shape /\ loops # <<>> /\ mixed' = mixed
      /\ loops' = SubSeq(loops, 1, Len(loops) - 1)
      /\ returned' = [returned EXCEPT ![Top.id] = result]
  BY DEF AnswerInv, ModeInv, Return
<1>2. /\ Len(loops) \in Nat /\ Len(loops') = Len(loops) - 1
      /\ DOMAIN loops = 1 .. Len(loops) /\ DOMAIN loops' = 1 .. Len(loops) - 1
      /\ \A i \in DOMAIN loops' : i \in DOMAIN loops /\ loops'[i] = loops[i]
  BY <1>1, FrontEntries DEF Shape
<1>3. Ids' \subseteq Ids /\ Top.id \in Ids /\ Top.id \in Prompts
  BY <1>1, <1>2, TopShape, InProgress DEF Ids, Top
<1>4. Together'
  BY <1>1, <1>2, <1>3 DEF AnswerInv, Together
<1>5. Alone'
  <2>1. Len(loops') = 1 => Top'.id \in Ids'
    BY <1>2 DEF Top, Ids
  <2>2. Len(loops') = 1 => Ids \subseteq mixed
    <3>1. Len(loops') = 1 => Len(loops) >= 2
      BY <1>2
    <3>2. QED
      BY <3>1 DEF AnswerInv, Together
  <2>3. QED
    BY <1>1, <1>3, <2>1, <2>2 DEF Alone
<1>6. AloneAnswer'
  <2> SUFFICES ASSUME NEW p \in Prompts \ mixed
               PROVE  returned'[p] \in {Running, None, p}
    BY <1>1 DEF AloneAnswer
  <2>1. CASE p = Top.id
    <3>1. Len(loops) # 0
      BY <1>1 DEF Shape
    <3>2. Len(loops) = 1
      BY <1>2, <1>3, <2>1, <3>1 DEF AnswerInv, Together
    <3>3. result \in {Running, None, p}
      BY <2>1, <3>2 DEF AnswerInv, Alone
    <3>4. QED
      BY <1>1, <1>3, <2>1, <3>3 DEF AnswerInv
  <2>2. CASE p # Top.id
    BY <1>1, <2>2 DEF AnswerInv, AloneAnswer
  <2>3. QED
    BY <2>1, <2>2
<1>7. QED
  BY <1>4, <1>5, <1>6

LEMMA PhaseIds ==
    ASSUME Shape, loops # <<>>, NEW p \in {"events", "tick"}, loops' = SetPhase(p)
    PROVE  /\ DOMAIN loops' = DOMAIN loops /\ Len(loops') = Len(loops)
           /\ \A i \in DOMAIN loops : loops'[i].id = loops[i].id
<1> DEFINE n == Len(loops)
           g == [id |-> Top.id, kind |-> Top.kind, phase |-> p]
<1>1. Top \in Frame /\ n \in DOMAIN loops
  BY TopShape
<1>2. [Top EXCEPT !.phase = p] = g
  BY <1>1 DEF Frame
<1>3. loops' = [loops EXCEPT ![n] = g]
  BY <1>2 DEF SetPhase, Top
<1>4. QED
  BY <1>1, <1>3 DEF Top, Shape

LEMMA AnswerInvStep == ASSUME AnswerInv, TypeInv, [Next]_vars PROVE AnswerInv'
<1>0. ModeInv' /\ Shape /\ TypeInv'
  BY ModeInvStep, TypeInvStep DEF AnswerInv, ModeInv
<1>r. returned' \in [Prompts -> {Running} \cup Answers]
  BY <1>0 DEF TypeInv, Texts
<1> SUFFICES Together' /\ Alone' /\ AloneAnswer'
  BY <1>0, <1>r DEF AnswerInv
<1>1. ASSUME NEW k \in Kinds, Open(k) PROVE Together' /\ Alone' /\ AloneAnswer'
  <2>1. returned' = returned /\ mixed \subseteq mixed'
    BY <1>1 DEF Open
  <2>2. QED
    BY <1>1, <2>1, OpenAnswer DEF AnswerInv, AloneAnswer
<1>2. CASE EventsEnd \/ Turn
  <2>1. PICK q \in {"events", "tick"} : loops' = SetPhase(q)
    BY <1>2 DEF EventsEnd, Turn
  <2>2. loops # <<>> /\ UNCHANGED <<result, widgets, modes, history>>
    BY <1>2 DEF EventsEnd, Turn
  <2>3. /\ DOMAIN loops' = DOMAIN loops /\ Len(loops') = Len(loops)
        /\ \A i \in DOMAIN loops : loops'[i].id = loops[i].id
    BY <1>0, <2>1, <2>2, PhaseIds
  <2>4. Ids' = Ids /\ Top'.id = Top.id
    BY <1>0, <2>2, <2>3, TopShape DEF Ids, Top
  <2>5. QED
    BY <2>2, <2>3, <2>4 DEF AnswerInv, Together, Alone, AloneAnswer, widgets, modes, history
<1>3. CASE Return
  BY <1>3, ReturnAnswer
<1>4. CASE Type \/ Tab \/ Enter \/ Descend \/ Escape
  <2>1. UNCHANGED <<loops, modes, history>>
    BY <1>4 DEF Type, Tab, Enter, Descend, Escape
  <2>2. Together' /\ AloneAnswer'
    BY <2>1 DEF AnswerInv, Together, AloneAnswer, Ids, history
  <2>3. Alone'
    <3> SUFFICES ASSUME Len(loops) = 1, Top.id \notin mixed
                 PROVE  /\ result' \in {Running, None, Top.id}
                        /\ label' = Top.id
                        /\ input' \in {None, Top.id} /\ list' \in {None, Top.id}
      BY <2>1 DEF AnswerInv, Alone, Top, modes, history
    <3>1. /\ result \in {Running, None, Top.id} /\ label = Top.id
          /\ input \in {None, Top.id} /\ list \in {None, Top.id}
          /\ candidates \in {None, Top.id} /\ completions \in {None, Top.id}
          /\ narrowing => basePrompt = Top.id
      BY DEF AnswerInv, Alone
    <3>2. CASE Type
      BY <3>1, <3>2 DEF Type, TextChanged
    <3>3. CASE Tab
      BY <3>1, <3>3 DEF Tab
    <3>4. CASE Enter
      BY <3>1, <3>4 DEF Enter, widgets
    <3>5. CASE Descend
      BY <3>1, <3>5 DEF Descend, TextChanged
    <3>6. CASE Escape
      BY <3>1, <3>6 DEF Escape, widgets
    <3>7. QED
      BY <1>4, <3>2, <3>3, <3>4, <3>5, <3>6
  <2>4. QED
    BY <2>2, <2>3
<1>5. CASE UNCHANGED <<loops, result, widgets, modes, returned, mixed>>
  BY <1>5 DEF AnswerInv, Together, Alone, AloneAnswer, Ids, Top, widgets, modes
<1>6. CASE ChordStart \/ UNCHANGED vars
  BY <1>5, <1>6 DEF ChordStart, vars, history
<1>7. CASE ChordTimeout
  BY <1>1, <1>5, <1>7 DEF ChordTimeout
<1>8. CASE \E k \in Kinds : Key(k) \/ TaskReads(k)
  BY <1>1, <1>8 DEF Key, TaskReads
<1>9. QED
  BY <1>2, <1>3, <1>4, <1>6, <1>7, <1>8 DEF Next, LoopStep

\* A reader that is never in progress with another one returns its own answer,
\* whatever was read before it, for any kinds and any number of calls.
THEOREM AloneAnswers == Spec => []AloneAnswer
<1>1. AnswerInv /\ TypeInv => AloneAnswer
  BY DEF AnswerInv
<1>2. QED
  BY AnswerInvInit, AnswerInvStep, TypeInvInit, TypeInvStep, <1>1, PTL DEF Spec
==============================================================================
