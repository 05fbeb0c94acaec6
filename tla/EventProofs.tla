---------------------------- MODULE EventProofs ----------------------------
(***************************************************************************)
(* Theorems about Tasks and Event for any frames, any depth of calls and   *)
(* any number of posted tasks.                                             *)
(***************************************************************************)
EXTENDS Event, QueueProofs, SequenceTheorems, TLAPS

Kinds == {"none", "task", "generator", "spawn"}
States == {"free", "new", "running", "yielded", "awaiting", "done", "escaped", "event"}

FrameTypes(fs) ==
    fs \in [Frames -> [kind : Kinds, state : States, owner : Frames \cup {Main, Nobody},
                       m_continuation : Frames \cup {noop}, m_unhandled_exception : BOOLEAN,
                       awaits : Frames \cup {noop}]]

CallTypes(cs) ==
    cs \in Seq([root : Frames, cur : Frames, how : {"task", "callback", "next", "spawn"}])

Live(r) == r.state \notin {"free", "done"}

\* Who waits, and for what.
Waits(fs) ==
    /\ \A f, g \in Frames : fs[f].state = "awaiting" /\ fs[f].awaits = g
                            <=> Live(fs[g]) /\ fs[g].m_continuation = f
    /\ \A f \in Frames : fs[f].state = "awaiting" <=> fs[f].awaits # noop
    /\ \A f \in Frames : fs[f].awaits \in Frames => fs[fs[f].awaits].kind = "task"

\* Who destroys whom: there is no circle, and a frame of co_spawn has nothing but the task
\* it awaits.
Owners(fs) ==
    /\ \A set \in SUBSET Frames : (\A f \in set : fs[f].owner \in set) => set = {}
    /\ \A f \in Frames :
        /\ fs[f].state = "free" => fs[f] = FreeFrame
        /\ fs[f].state # "free" =>
              /\ fs[f].owner \in Frames => Live(fs[fs[f].owner])
              /\ fs[f].owner = Nobody <=> fs[f].kind = "spawn"
              /\ fs[f].kind = "spawn" =>
                    /\ fs[f].state \in {"awaiting", "escaped"}
                    /\ \E g \in Frames : fs[g].owner = f
                    /\ \A g \in Frames : fs[g].owner = f =>
                          IF fs[f].state = "awaiting" THEN fs[f].awaits = g
                                                      ELSE fs[g].state = "done"

\* Who resumed the coroutine that a call is about.
Caller(cs, i) == IF i = 1 THEN Main ELSE cs[i - 1].cur

\* The frames that run, and those that resume looks at when it returns.
Running(fs, cs) ==
    /\ \A f \in Frames : fs[f].state = "running" <=> \E i \in 1..Len(cs) : cs[i].cur = f
    /\ \A i, j \in 1..Len(cs) : cs[i].cur = cs[j].cur => i = j
    /\ \A i \in 1..Len(cs) : cs[i].how = "task" =>
          fs[cs[i].root].state # "free" /\ fs[cs[i].root].owner = Caller(cs, i)

Good(fs) == FrameTypes(fs) /\ Waits(fs) /\ Owners(fs)
Sound(fs, cs) == Good(fs) /\ CallTypes(cs) /\ Running(fs, cs)

-----------------------------------------------------------------------------
(* Trees *)

\* A tree has its root, and with a member all the frames it owns.
LEMMA TreeClosed ==
    ASSUME FrameTypes(frames), NEW f \in Frames
    PROVE  /\ Tree(f) \subseteq {g \in Frames : frames[g].state # "free"}
           /\ frames[f].state # "free" => f \in Tree(f)
           /\ \A g \in Frames : frames[g].state # "free" /\ frames[g].owner \in Tree(f)
                                  => g \in Tree(f)
           /\ \A g \in Tree(f) : g = f \/ frames[g].owner \in Frames
  <1>1. Tree(f) \subseteq {g \in Frames : frames[g].state # "free"}
    BY DEF Tree
  <1>2. frames[f].state # "free" => f \in Tree(f)
    BY DEF Tree
  <1>3. ASSUME NEW g \in Frames, frames[g].state # "free", frames[g].owner \in Tree(f)
        PROVE  g \in Tree(f)
    BY <1>3 DEF Tree
  <1>4. ASSUME NEW g \in Tree(f), g # f PROVE frames[g].owner \in Frames
    <2> DEFINE set == Frames \ {g}
    <2>1. g \in Frames /\ f \in set /\ g \notin set /\ set \in SUBSET Frames BY <1>4 DEF Tree
    <2>2. PICK h \in Frames : frames[h].owner \in set /\ h \notin set
      BY <1>4, <2>1 DEF Tree
    <2> QED BY <2>1, <2>2
  <1> QED BY <1>1, <1>2, <1>3, <1>4

\* With live owners, all members of a tree but the root are owned by a member.
LEMMA TreeOwned ==
    ASSUME FrameTypes(frames), Owners(frames), NEW f \in Frames, NEW g \in Tree(f), g # f
    PROVE  frames[g].owner \in Tree(f)
  <1> DEFINE Closed(set) == f \in set /\ \A h \in Frames : frames[h].owner \in set => h \in set
             common == {h \in Frames : \A set \in SUBSET Frames : Closed(set) => h \in set}
             o == frames[g].owner
  <1>1. g \in Frames /\ frames[g].state # "free" /\ g \in common
    BY DEF Tree
  <1>2. o \in Frames /\ frames[o].state # "free"
    BY <1>1, TreeClosed DEF Owners, Live
  <1>3. SUFFICES ASSUME o \notin common PROVE FALSE
    BY <1>2 DEF Tree
  <1>4. ASSUME NEW h \in Frames, frames[h].owner \in common \ {g} PROVE h \in common \ {g}
    <2>1. h # g BY <1>3, <1>4
    <2>2. ASSUME NEW set \in SUBSET Frames, Closed(set) PROVE h \in set
      <3>1. frames[h].owner \in set BY <1>4, <2>2
      <3> QED BY <2>2, <3>1
    <2> QED BY <2>1, <2>2
  <1>5. f \in common \ {g}
    OBVIOUS
  <1>6. Closed(common \ {g})
    BY <1>4, <1>5
  <1>7. g \in common \ {g}
    BY <1>1, <1>6
  <1> QED BY <1>7

\* The owner of a frame is not in its tree.
LEMMA TreeRoot ==
    ASSUME FrameTypes(frames), Owners(frames), NEW f \in Frames
    PROVE  frames[f].owner \notin Tree(f)
  <1>1. SUFFICES ASSUME frames[f].owner \in Tree(f) PROVE FALSE
    OBVIOUS
  <1>2. \A g \in Tree(f) : frames[g].owner \in Tree(f)
    BY <1>1, TreeOwned
  <1>3. Tree(f) \in SUBSET Frames
    BY TreeClosed
  <1> QED BY <1>1, <1>2, <1>3 DEF Owners

-----------------------------------------------------------------------------
(* The stack of calls *)

LEMMA CallFields ==
    ASSUME NEW cs, CallTypes(cs)
    PROVE  /\ Len(cs) \in Nat /\ (cs = << >> <=> Len(cs) = 0)
           /\ \A i \in 1..Len(cs) : cs[i].root \in Frames /\ cs[i].cur \in Frames
  <1> DEFINE Entry == [root : Frames, cur : Frames, how : {"task", "callback", "next", "spawn"}]
  <1>1. \A c \in Entry : c.root \in Frames /\ c.cur \in Frames
    OBVIOUS
  <1>2. cs \in Seq(Entry)
    BY DEF CallTypes
  <1> HIDE DEF Entry
  <1>3. Len(cs) \in Nat /\ (cs = << >> <=> Len(cs) = 0) /\ \A i \in 1..Len(cs) : cs[i] \in Entry
    BY <1>2
  <1> QED BY <1>1, <1>3

LEMMA ActorRuns ==
    ASSUME Sound(frames, calls)
    PROVE  /\ Len(calls) \in Nat
           /\ calls = << >> => Actor = Main /\ Len(calls) = 0
           /\ calls # << >> => /\ Actor = calls[Len(calls)].cur /\ Len(calls) \in 1..Len(calls)
                               /\ Actor \in Frames /\ frames[Actor].state = "running"
           /\ Actor \in Frames => calls # << >>
  <1>1. Len(calls) \in Nat /\ (calls # << >> => Len(calls) \in 1..Len(calls))
        /\ (calls = << >> => Len(calls) = 0)
    BY CallFields DEF Sound
  <1>2. calls # << >> => Actor = calls[Len(calls)].cur /\ Actor \in Frames
    BY <1>1, CallFields DEF Sound, Actor, Last
  <1>3. calls # << >> => frames[Actor].state = "running"
    BY <1>1, <1>2 DEF Sound, Running
  <1>4. calls = << >> => Actor = Main
    BY DEF Actor
  <1> QED BY <1>1, <1>2, <1>3, <1>4, NamesAssumption

\* What nobody but a caller further down the stack may destroy or give away.
Held(g) == /\ frames[g].state # "free" /\ frames[g].owner # Actor
           /\ \/ frames[g].owner = Main
              \/ frames[g].owner \in Frames /\ frames[frames[g].owner].state = "running"

KeepsHeld(fs) ==
    \A g \in Frames : Held(g) => fs[g].state # "free" /\ fs[g].owner = frames[g].owner

LEMMA RootsHeld ==
    ASSUME Sound(frames, calls), NEW i \in 1..Len(calls), calls[i].how = "task"
    PROVE  /\ calls[i].root \in Frames /\ Held(calls[i].root)
           /\ frames[calls[i].root].owner = Caller(calls, i)
  <1>1. /\ Len(calls) \in Nat /\ calls # << >> /\ Actor = calls[Len(calls)].cur
        /\ Len(calls) \in 1..Len(calls) /\ Actor \in Frames
    BY ActorRuns
  <1>2. calls[i].root \in Frames
    BY CallFields DEF Sound
  <1>3. frames[calls[i].root].state # "free" /\ frames[calls[i].root].owner = Caller(calls, i)
    BY DEF Sound, Running
  <1>4. CASE i = 1
    BY <1>1, <1>2, <1>3, <1>4, NamesAssumption DEF Caller, Held
  <1>5. CASE i # 1
    <2>1. i - 1 \in 1..Len(calls) /\ i - 1 # Len(calls) BY <1>1, <1>5
    <2>2. calls[i - 1].cur \in Frames BY <2>1, CallFields DEF Sound
    <2>3. frames[calls[i - 1].cur].state = "running" BY <2>1, <2>2 DEF Sound, Running
    <2>4. calls[i - 1].cur # Actor BY <1>1, <2>1 DEF Sound, Running
    <2> QED BY <1>2, <1>3, <1>5, <2>2, <2>3, <2>4 DEF Caller, Held
  <1> QED BY <1>4, <1>5

\* Nobody begins or ends to run.
LEMMA StackStays ==
    ASSUME Sound(frames, calls), NEW fs, KeepsHeld(fs),
           \A g \in Frames : fs[g].state = "running" <=> frames[g].state = "running"
    PROVE  Running(fs, calls)
  <1>1. ASSUME NEW i \in 1..Len(calls), calls[i].how = "task"
        PROVE  fs[calls[i].root].state # "free" /\ fs[calls[i].root].owner = Caller(calls, i)
    BY <1>1, RootsHeld DEF KeepsHeld
  <1> QED BY <1>1 DEF Sound, Running

\* A resume begins.
LEMMA StackPush ==
    ASSUME Sound(frames, calls), NEW fs, KeepsHeld(fs),
           NEW root \in Frames, NEW cur \in Frames, NEW how \in {"task", "callback", "next", "spawn"},
           frames[cur].state # "running",
           \A g \in Frames : fs[g].state = "running" <=> g = cur \/ frames[g].state = "running",
           how = "task" => fs[root].state # "free" /\ fs[root].owner = Actor
    PROVE  LET cs == Append(calls, [root |-> root, cur |-> cur, how |-> how])
           IN  CallTypes(cs) /\ Running(fs, cs)
  <1> DEFINE call == [root |-> root, cur |-> cur, how |-> how]
             cs == Append(calls, call)
             n == Len(calls)
  <1>1. n \in Nat /\ CallTypes(calls)
    BY ActorRuns DEF Sound
  <1>2. CallTypes(cs) /\ Len(cs) = n + 1 /\ cs[n + 1] = call /\ \A i \in 1..n : cs[i] = calls[i]
    BY <1>1 DEF CallTypes
  <1>3. call.root = root /\ call.cur = cur /\ call.how = how
    OBVIOUS
  <1> HIDE DEF cs, call, n
  <1>4. \A i \in 1..(n + 1) : i = n + 1 \/ i \in 1..n
    BY <1>1
  <1>5. n + 1 \in 1..(n + 1) /\ \A i \in 1..n : i \in 1..(n + 1)
    BY <1>1
  <1>6. \A i \in 1..n : calls[i].cur # cur
    BY DEF Sound, Running, n
  <1>7. \A f \in Frames : fs[f].state = "running" <=> \E i \in 1..Len(cs) : cs[i].cur = f
    <2> SUFFICES ASSUME NEW f \in Frames
                 PROVE  fs[f].state = "running" <=> \E i \in 1..(n + 1) : cs[i].cur = f
      BY <1>2
    <2>1. frames[f].state = "running" <=> \E i \in 1..n : calls[i].cur = f
      BY DEF Sound, Running, n
    <2>2. (\E i \in 1..(n + 1) : cs[i].cur = f) <=> f = cur \/ \E i \in 1..n : calls[i].cur = f
      BY <1>2, <1>3, <1>4, <1>5
    <2> QED BY <2>1, <2>2
  <1>8. ASSUME NEW i \in 1..(n + 1), NEW j \in 1..(n + 1), cs[i].cur = cs[j].cur PROVE i = j
    <2>1. CASE i \in 1..n /\ j \in 1..n
      BY <1>2, <1>8, <2>1 DEF Sound, Running, n
    <2>2. CASE i = n + 1 \/ j = n + 1
      BY <1>2, <1>3, <1>4, <1>6, <1>8, <2>2
    <2> QED BY <1>4, <2>1, <2>2
  <1>9. ASSUME NEW i \in 1..(n + 1), cs[i].how = "task"
        PROVE  fs[cs[i].root].state # "free" /\ fs[cs[i].root].owner = Caller(cs, i)
    <2>1. CASE i \in 1..n
      <3>1. calls[i].how = "task" BY <1>2, <1>9, <2>1
      <3>2. fs[calls[i].root].state # "free" /\ fs[calls[i].root].owner = Caller(calls, i)
        BY <2>1, <3>1, RootsHeld DEF KeepsHeld, n
      <3>3. Caller(cs, i) = Caller(calls, i)
        <4>1. i # 1 => i - 1 \in 1..n BY <1>1, <2>1
        <4> QED BY <1>2, <4>1 DEF Caller
      <3> QED BY <1>2, <2>1, <3>2, <3>3
    <2>2. CASE i = n + 1
      <3>1. how = "task" BY <1>2, <1>3, <1>9, <2>2
      <3>2. Actor = Caller(cs, i)
        <4>1. CASE n = 0 BY <2>2, <4>1, ActorRuns DEF Caller, n
        <4>2. CASE n # 0
          <5>1. n \in 1..n /\ i # 1 /\ i - 1 = n BY <1>1, <2>2, <4>2
          <5>2. Actor = calls[n].cur BY <4>2, ActorRuns DEF n
          <5> QED BY <1>2, <5>1, <5>2 DEF Caller
        <4> QED BY <4>1, <4>2
      <3> QED BY <1>2, <1>3, <2>2, <3>1, <3>2
    <2> QED BY <1>4, <2>1, <2>2
  <1>10. Running(fs, cs)
    BY <1>2, <1>7, <1>8, <1>9 DEF Running
  <1> QED BY <1>2, <1>10 DEF cs, call

\* A resume returns.
LEMMA StackPop ==
    ASSUME Sound(frames, calls), NEW fs, KeepsHeld(fs), calls # << >>,
           \A g \in Frames : fs[g].state = "running" <=> frames[g].state = "running" /\ g # Actor
    PROVE  CallTypes(Front(calls)) /\ Running(fs, Front(calls))
  <1> DEFINE cs == Front(calls)
             n == Len(calls)
  <1>1. n \in Nat /\ n \in 1..n /\ CallTypes(calls) /\ Actor = calls[n].cur
    BY ActorRuns DEF Sound
  <1>2. CallTypes(cs) /\ Len(cs) = n - 1 /\ \A i \in 1..(n - 1) : cs[i] = calls[i]
    <2> DEFINE Entry == [root : Frames, cur : Frames, how : {"task", "callback", "next", "spawn"}]
    <2>1. calls \in Seq(Entry) BY <1>1 DEF CallTypes
    <2> HIDE DEF Entry
    <2>2. cs \in Seq(Entry) /\ Len(cs) = n - 1 /\ \A i \in 1..(n - 1) : cs[i] = calls[i]
      <3>1. \A i \in 1..(n - 1) : calls[i] \in Entry BY <1>1, <2>1
      <3>2. cs = SubSeq(calls, 1, n - 1) /\ 1 \in Int /\ n - 1 \in Int BY <1>1 DEF Front
      <3>3. /\ cs \in Seq(Entry) /\ Len(cs) = IF 1 <= n - 1 THEN (n - 1) - 1 + 1 ELSE 0
            /\ \A i \in 1..((n - 1) - 1 + 1) : cs[i] = calls[1 + i - 1]
        <4> HIDE DEF n, cs
        <4> QED BY <3>1, <3>2, SubSeqProperties
      <3>4. (n - 1) - 1 + 1 = n - 1 BY <1>1
      <3>5. n - 1 \in Nat /\ \A i \in 1..(n - 1) : 1 + i - 1 = i BY <1>1
      <3> HIDE DEF n, cs
      <3>6. Len(cs) = n - 1 BY <3>3, <3>4, <3>5
      <3> QED BY <3>3, <3>4, <3>5, <3>6
    <2> QED BY <2>2 DEF CallTypes, Entry
  <1> HIDE DEF cs, n
  <1>3. \A i \in 1..(n - 1) : i \in 1..n /\ i # n
    BY <1>1
  <1>4. \A i \in 1..n : i = n \/ i \in 1..(n - 1)
    BY <1>1
  <1>5. ASSUME NEW f \in Frames
        PROVE  fs[f].state = "running" <=> \E i \in 1..(n - 1) : cs[i].cur = f
    <2>1. frames[f].state = "running" <=> \E i \in 1..n : calls[i].cur = f
      BY DEF Sound, Running, n
    <2>2. \A i \in 1..(n - 1) : calls[i].cur # Actor
      BY <1>1, <1>3 DEF Sound, Running, n
    <2>3. (\E i \in 1..(n - 1) : cs[i].cur = f) <=> \E i \in 1..(n - 1) : calls[i].cur = f
      BY <1>2
    <2> QED BY <1>1, <1>3, <1>4, <2>1, <2>2, <2>3
  <1>6. ASSUME NEW i \in 1..(n - 1), NEW j \in 1..(n - 1), cs[i].cur = cs[j].cur PROVE i = j
    BY <1>2, <1>3, <1>6 DEF Sound, Running, n
  <1>7. ASSUME NEW i \in 1..(n - 1), cs[i].how = "task"
        PROVE  fs[cs[i].root].state # "free" /\ fs[cs[i].root].owner = Caller(cs, i)
    <2>1. calls[i].how = "task" /\ i \in 1..n BY <1>2, <1>3, <1>7
    <2>2. fs[calls[i].root].state # "free" /\ fs[calls[i].root].owner = Caller(calls, i)
      BY <2>1, RootsHeld DEF KeepsHeld, n
    <2>3. Caller(cs, i) = Caller(calls, i)
      <3>1. i # 1 => i - 1 \in 1..(n - 1) BY <1>1, <1>7
      <3> QED BY <1>2, <3>1 DEF Caller
    <2> QED BY <1>2, <2>2, <2>3
  <1>8. Running(fs, cs)
    BY <1>2, <1>5, <1>6, <1>7 DEF Running
  <1> QED BY <1>2, <1>8 DEF cs

\* A resume goes on in another coroutine.
LEMMA StackJump ==
    ASSUME Sound(frames, calls), NEW fs, KeepsHeld(fs), calls # << >>,
           NEW cur \in Frames, frames[cur].state # "running",
           \A g \in Frames : fs[g].state = "running"
                               <=> g = cur \/ (frames[g].state = "running" /\ g # Actor)
    PROVE  LET cs == [calls EXCEPT ![Len(calls)].cur = cur]
           IN  CallTypes(cs) /\ Running(fs, cs)
  <1> DEFINE n == Len(calls)
             cs == [calls EXCEPT ![n].cur = cur]
  <1>1. n \in Nat /\ n \in 1..n /\ CallTypes(calls) /\ Actor = calls[n].cur
    BY ActorRuns DEF Sound
  <1>2. /\ CallTypes(cs) /\ Len(cs) = n /\ cs[n].cur = cur
        /\ \A i \in 1..n : /\ cs[i].root = calls[i].root /\ cs[i].how = calls[i].how
                           /\ i # n => cs[i].cur = calls[i].cur
    <2> DEFINE Entry == [root : Frames, cur : Frames, how : {"task", "callback", "next", "spawn"}]
               call == [calls[n] EXCEPT !.cur = cur]
    <2>1. calls \in Seq(Entry) BY <1>1 DEF CallTypes
    <2>2. calls[n] \in Entry
      <3> HIDE DEF Entry
      <3> QED BY <1>1, <2>1
    <2>3. /\ call \in Entry /\ call.cur = cur /\ call.root = calls[n].root
          /\ call.how = calls[n].how
      BY <2>2
    <2>4. cs = [calls EXCEPT ![n] = call]
      OBVIOUS
    <2> HIDE DEF Entry, call
    <2>5. cs \in Seq(Entry) /\ Len(cs) = n /\ cs[n] = call /\ \A i \in 1..n : i # n => cs[i] = calls[i]
      BY <1>1, <2>1, <2>3, <2>4
    <2>6. CallTypes(cs) BY <2>5 DEF CallTypes, Entry
    <2> QED BY <2>3, <2>5, <2>6
  <1> HIDE DEF cs, n
  <1>3. ASSUME NEW f \in Frames
        PROVE  fs[f].state = "running" <=> \E i \in 1..n : cs[i].cur = f
    <2>1. frames[f].state = "running" <=> \E i \in 1..n : calls[i].cur = f
      BY DEF Sound, Running, n
    <2>2. \A i \in 1..n : i # n => calls[i].cur # Actor
      BY <1>1 DEF Sound, Running, n
    <2>3. (\E i \in 1..n : cs[i].cur = f) <=> f = cur \/ \E i \in 1..n : i # n /\ calls[i].cur = f
      BY <1>1, <1>2
    <2>4. (\E i \in 1..n : i # n /\ calls[i].cur = f)
          <=> f # Actor /\ \E i \in 1..n : calls[i].cur = f
      BY <1>1, <2>2
    <2> QED BY <2>1, <2>3, <2>4
  <1>4. ASSUME NEW i \in 1..n, NEW j \in 1..n, cs[i].cur = cs[j].cur PROVE i = j
    <2>1. \A k \in 1..n : calls[k].cur # cur
      BY DEF Sound, Running, n
    <2> QED BY <1>2, <1>4, <2>1 DEF Sound, Running, n
  <1>5. ASSUME NEW i \in 1..n, cs[i].how = "task"
        PROVE  fs[cs[i].root].state # "free" /\ fs[cs[i].root].owner = Caller(cs, i)
    <2>1. calls[i].how = "task" BY <1>2, <1>5
    <2>2. fs[calls[i].root].state # "free" /\ fs[calls[i].root].owner = Caller(calls, i)
      BY <2>1, RootsHeld DEF KeepsHeld, n
    <2>3. Caller(cs, i) = Caller(calls, i)
      <3>1. i # 1 => i - 1 \in 1..n /\ i - 1 # n BY <1>1, <1>5
      <3> QED BY <1>2, <3>1 DEF Caller
    <2> QED BY <1>2, <2>2, <2>3
  <1>6. Running(fs, cs)
    BY <1>2, <1>3, <1>4, <1>5 DEF Running
  <1> QED BY <1>2, <1>6 DEF cs, n

-----------------------------------------------------------------------------
(* Changes to frames *)

\* All that Waits and Owners tell apart, but the state.
Alike(fs, gs, f) ==
    /\ gs[f].kind = fs[f].kind /\ gs[f].owner = fs[f].owner
    /\ gs[f].m_continuation = fs[f].m_continuation /\ gs[f].awaits = fs[f].awaits

Active == {"new", "running", "yielded", "event"}

\* Coroutines that wait for no task begin or end to run.
LEMMA Restated ==
    ASSUME NEW fs, Good(fs), NEW gs, FrameTypes(gs),
           \A f \in Frames : /\ Alike(fs, gs, f)
                             /\ \/ gs[f].state = fs[f].state /\ (fs[f].state = "free" => gs[f] = fs[f])
                                \/ gs[f].state \in Active /\ fs[f].state \in Active
    PROVE  Good(gs)
  <1>1. Waits(gs)
    BY DEF Good, Waits, Alike, Live, Active
  <1>2. \A f \in Frames : Live(gs[f]) <=> Live(fs[f])
    BY DEF Live, Active
  <1>3. \A f \in Frames : gs[f].state = "free" => gs[f] = FreeFrame
    BY DEF Good, Owners, Active
  <1>4. \A set \in SUBSET Frames : (\A f \in set : gs[f].owner \in set) => set = {}
    BY DEF Good, Owners, Alike
  <1>5. ASSUME NEW f \in Frames, gs[f].state # "free"
        PROVE  /\ gs[f].owner \in Frames => Live(gs[gs[f].owner])
               /\ gs[f].owner = Nobody <=> gs[f].kind = "spawn"
    BY <1>2, <1>5 DEF Good, Owners, Alike, Active
  <1>6. ASSUME NEW f \in Frames, gs[f].state # "free", gs[f].kind = "spawn"
        PROVE  /\ gs[f].state \in {"awaiting", "escaped"}
               /\ \E g \in Frames : gs[g].owner = f
               /\ \A g \in Frames : gs[g].owner = f =>
                     IF gs[f].state = "awaiting" THEN gs[f].awaits = g
                                                 ELSE gs[g].state = "done"
    <2>1. fs[f].kind = "spawn" /\ fs[f].state # "free" /\ gs[f].state = fs[f].state
      BY <1>6 DEF Good, Owners, Alike, Active
    <2>2. \A g \in Frames : fs[g].state = "done" => gs[g].state = "done"
      BY DEF Active
    <2> QED BY <2>1, <2>2 DEF Good, Owners, Alike
  <1>7. Owners(gs)
    BY <1>3, <1>4, <1>5, <1>6 DEF Owners
  <1> QED BY <1>1, <1>7 DEF Good

LEMMA StillHeld ==
    ASSUME NEW fs, KeepsHeld(fs), NEW gs,
           \A f \in Frames : gs[f].owner = fs[f].owner /\ (fs[f].state # "free" => gs[f].state # "free")
    PROVE  KeepsHeld(gs)
  BY DEF KeepsHeld

LEMMA HeldAtFirst == KeepsHeld(frames)
  BY DEF KeepsHeld, Held

\* A resume returns or throws.
LEMMA Leaves ==
    ASSUME Sound(frames, calls), calls # << >>, NEW fs, Good(fs), KeepsHeld(fs),
           \A g \in Frames : fs[g].state = "running" <=> frames[g].state = "running" /\ g # Actor,
           Return(fs) \/ Escape(fs)
    PROVE  Sound(frames, calls)' /\ \A g \in Frames : frames'[g].state = fs[g].state
  <1>1. calls' = Front(calls)
    BY DEF Return, Escape
  <1>2. CASE frames' = fs
    BY <1>1, <1>2, StackPop DEF Sound
  <1>3. CASE frames' # fs
    <2>1. PICK r \in Frames : frames' = [fs EXCEPT ![r].m_unhandled_exception = FALSE]
      <3>1. Last(calls).root \in Frames BY ActorRuns, CallFields DEF Sound, Last
      <3> QED BY <1>3, <3>1 DEF Return, Escape
    <2>2. FrameTypes(frames')
      <3>1. FrameTypes(fs) BY DEF Good
      <3>2. PICK gs : gs = frames' OBVIOUS
      <3>3. PICK x \in BOOLEAN : gs = [fs EXCEPT ![r].m_unhandled_exception = x]
        BY <2>1, <3>2
      <3>4. FrameTypes(gs) BY <3>1, <3>3 DEF FrameTypes
      <3> QED BY <3>2, <3>4
    <2>3. \A f \in Frames : /\ Alike(fs, frames', f) /\ frames'[f].state = fs[f].state
                            /\ fs[f] = FreeFrame => frames'[f] = fs[f]
      BY <2>1 DEF Alike, Good, FrameTypes, FreeFrame, Frame
    <2>4. Good(frames')
      <3>1. \A f \in Frames : fs[f].state = "free" => frames'[f] = fs[f]
        BY <2>3 DEF Good, Owners
      <3>2. \A f \in Frames :
                /\ Alike(fs, frames', f)
                /\ \/ frames'[f].state = fs[f].state /\ (fs[f].state = "free" => frames'[f] = fs[f])
                   \/ frames'[f].state \in Active /\ fs[f].state \in Active
        BY <2>3, <3>1
      <3> QED BY <2>2, <3>2, Restated
    <2>5. KeepsHeld(frames')
      <3>1. \A f \in Frames : /\ frames'[f].owner = fs[f].owner
                              /\ fs[f].state # "free" => frames'[f].state # "free"
        BY <2>3 DEF Alike
      <3> QED BY <3>1, StillHeld
    <2>6. \A g \in Frames : frames'[g].state = "running" <=> frames[g].state = "running" /\ g # Actor
      BY <2>3
    <2> QED BY <1>1, <2>3, <2>4, <2>5, <2>6, StackPop DEF Sound
  <1> QED BY <1>2, <1>3

\* A coroutine begins to wait for a task that nobody waits for.
LEMMA AwaitBegins ==
    ASSUME NEW fs, Good(fs), NEW f \in Frames, NEW a \in Frames, f # a,
           fs[f].kind = "task", Live(fs[f]), \A g \in Frames : fs[g].awaits # f,
           fs[a].state = "running", NEW gs, gs = AwaitedBy(fs, f, a)
    PROVE  /\ Good(gs)
           /\ \A g \in Frames : /\ gs[g].kind = fs[g].kind /\ gs[g].owner = fs[g].owner
                                /\ gs[g].state = IF g = a THEN "awaiting" ELSE fs[g].state
  <1>1. FrameTypes(fs) /\ Waits(fs) /\ Owners(fs)
    BY DEF Good
  <1>2. gs[f] = [fs[f] EXCEPT !.m_continuation = a]
    BY <1>1 DEF AwaitedBy, FrameTypes
  <1>3. gs[a] = [[fs[a] EXCEPT !.state = "awaiting"] EXCEPT !.awaits = f]
    BY <1>1 DEF AwaitedBy, FrameTypes
  <1>4. \A g \in Frames : g # a /\ g # f => gs[g] = fs[g]
    BY <1>1 DEF AwaitedBy, FrameTypes
  <1>5. FrameTypes(gs)
    BY <1>1 DEF AwaitedBy, FrameTypes, States
  <1>6. ASSUME NEW g \in Frames
        PROVE  /\ gs[g].kind = fs[g].kind /\ gs[g].owner = fs[g].owner
               /\ gs[g].state = IF g = a THEN "awaiting" ELSE fs[g].state
               /\ gs[g].m_continuation = IF g = f THEN a ELSE fs[g].m_continuation
               /\ gs[g].awaits = IF g = a THEN f ELSE fs[g].awaits
    <2>1. CASE g = a
      <3>1. fs[a] \in [kind : Kinds, state : States, owner : Frames \cup {Main, Nobody},
                       m_continuation : Frames \cup {noop}, m_unhandled_exception : BOOLEAN,
                       awaits : Frames \cup {noop}]
        BY <1>1 DEF FrameTypes
      <3>2. PICK r : r = [fs[a] EXCEPT !.state = "awaiting"]
        OBVIOUS
      <3>3. /\ r.kind = fs[a].kind /\ r.owner = fs[a].owner /\ r.state = "awaiting"
            /\ r.m_continuation = fs[a].m_continuation /\ r.awaits = fs[a].awaits
            /\ DOMAIN r = {"kind", "state", "owner", "m_continuation", "m_unhandled_exception", "awaits"}
        BY <3>1, <3>2
      <3>4. gs[a] = [r EXCEPT !.awaits = f]
        BY <1>3, <3>2
      <3>5. /\ gs[a].kind = r.kind /\ gs[a].owner = r.owner /\ gs[a].state = r.state
            /\ gs[a].m_continuation = r.m_continuation /\ gs[a].awaits = f
        BY <3>3, <3>4
      <3> QED BY <2>1, <3>3, <3>5
    <2>2. CASE g = f
      BY <1>1, <1>2, <2>2 DEF FrameTypes
    <2>3. CASE g # a /\ g # f
      BY <1>4, <2>3
    <2> QED BY <2>1, <2>2, <2>3
  <1>7. Waits(gs)
    <2>1. ASSUME NEW h \in Frames, NEW g \in Frames
          PROVE  gs[h].state = "awaiting" /\ gs[h].awaits = g
                 <=> Live(gs[g]) /\ gs[g].m_continuation = h
      <3>1. fs[h].state = "awaiting" /\ fs[h].awaits = g
            <=> Live(fs[g]) /\ fs[g].m_continuation = h
        BY <1>1 DEF Waits
      <3>2. Live(gs[g]) <=> Live(fs[g])
        BY <1>6 DEF Live
      <3> QED BY <1>6, <3>1, <3>2
    <2>2. ASSUME NEW h \in Frames PROVE gs[h].state = "awaiting" <=> gs[h].awaits # noop
      BY <1>1, <1>6, NamesAssumption DEF Waits
    <2>3. ASSUME NEW h \in Frames, gs[h].awaits \in Frames PROVE gs[gs[h].awaits].kind = "task"
      BY <1>1, <1>6, <2>3 DEF Waits
    <2> QED BY <2>1, <2>2, <2>3 DEF Waits
  <1>8. Owners(gs)
    <2>1. \A set \in SUBSET Frames : (\A h \in set : gs[h].owner \in set) => set = {}
      BY <1>1, <1>6 DEF Owners
    <2>2. ASSUME NEW h \in Frames, gs[h].state = "free" PROVE gs[h] = FreeFrame
      <3>1. h # a /\ h # f BY <1>6, <2>2 DEF Live
      <3> QED BY <1>1, <1>4, <2>2, <3>1 DEF Owners
    <2>3. \A h \in Frames : Live(gs[h]) <=> Live(fs[h])
      BY <1>6 DEF Live
    <2>4. ASSUME NEW h \in Frames, gs[h].state # "free"
          PROVE  /\ gs[h].owner \in Frames => Live(gs[gs[h].owner])
                 /\ gs[h].owner = Nobody <=> gs[h].kind = "spawn"
      BY <1>1, <1>6, <2>3, <2>4 DEF Owners
    <2>5. ASSUME NEW h \in Frames, gs[h].state # "free", gs[h].kind = "spawn"
          PROVE  /\ gs[h].state \in {"awaiting", "escaped"}
                 /\ \E g \in Frames : gs[g].owner = h
                 /\ \A g \in Frames : gs[g].owner = h =>
                       IF gs[h].state = "awaiting" THEN gs[h].awaits = g
                                                   ELSE gs[g].state = "done"
      <3>1. h # a BY <1>1, <1>6, <2>5 DEF Owners
      <3>2. fs[h].kind = "spawn" /\ fs[h].state # "free" /\ gs[h].state = fs[h].state
            /\ gs[h].awaits = fs[h].awaits
        BY <1>6, <2>5, <3>1
      <3>3. \A g \in Frames : gs[g].state = fs[g].state \/ fs[g].state # "done"
        BY <1>6
      <3> QED BY <1>1, <1>6, <3>2, <3>3 DEF Owners
    <2> QED BY <2>1, <2>2, <2>4, <2>5 DEF Owners
  <1> QED BY <1>5, <1>6, <1>7, <1>8 DEF Good

Becomes(fs, gs, f, x) == gs = [fs EXCEPT ![f].state = x]

\* A coroutine that waits for no task changes between running and not.
LEMMA Runs ==
    ASSUME NEW fs, Good(fs), NEW f \in Frames, NEW x \in Active, fs[f].state \in Active,
           NEW gs, Becomes(fs, gs, f, x)
    PROVE  /\ Good(gs) /\ (KeepsHeld(fs) => KeepsHeld(gs))
           /\ \A g \in Frames : /\ Alike(fs, gs, g)
                                /\ gs[g].state = IF g = f THEN x ELSE fs[g].state
  <1>1. FrameTypes(fs)
    BY DEF Good
  <1>2. FrameTypes(gs)
    BY <1>1 DEF FrameTypes, Active, States, Becomes
  <1>3. ASSUME NEW g \in Frames
        PROVE  /\ Alike(fs, gs, g) /\ gs[g].state = IF g = f THEN x ELSE fs[g].state
               /\ g # f => gs[g] = fs[g]
    BY <1>1 DEF FrameTypes, Alike, Becomes
  <1>4. Good(gs)
    BY <1>2, <1>3, Restated
  <1>5. \A g \in Frames : gs[g].owner = fs[g].owner /\ (fs[g].state # "free" => gs[g].state # "free")
    BY <1>3 DEF Alike, Active
  <1>6. KeepsHeld(fs) => KeepsHeld(gs)
    BY <1>5, StillHeld
  <1> QED BY <1>3, <1>4, <1>6

\* A resume begins.
LEMMA Enters ==
    ASSUME Sound(frames, calls), NEW fs, Good(fs), KeepsHeld(fs),
           NEW root \in Frames, NEW cur \in Frames, NEW how \in {"task", "callback", "next", "spawn"},
           fs[cur].state \in Active, frames[cur].state # "running",
           \A g \in Frames : fs[g].state = "running" <=> frames[g].state = "running",
           how = "task" => root = cur /\ fs[root].owner = Actor,
           Call(fs, root, cur, how)
    PROVE  /\ Sound(frames, calls)'
           /\ \A g \in Frames : frames'[g].state = IF g = cur THEN "running" ELSE fs[g].state
  <1>1. /\ Becomes(fs, frames', cur, "running")
        /\ calls' = Append(calls, [root |-> root, cur |-> cur, how |-> how])
    BY DEF Call, Becomes
  <1>2. "running" \in Active
    BY DEF Active
  <1>3. /\ Good(frames') /\ KeepsHeld(frames')
        /\ \A g \in Frames : /\ Alike(fs, frames', g)
                             /\ frames'[g].state = IF g = cur THEN "running" ELSE fs[g].state
    BY <1>1, <1>2, Runs
  <1>4. /\ \A g \in Frames : frames'[g].state = "running" <=> g = cur \/ frames[g].state = "running"
        /\ how = "task" => frames'[root].state # "free" /\ frames'[root].owner = Actor
    BY <1>3 DEF Alike
  <1>5. CallTypes(calls') /\ Running(frames', calls')
    <2>1. PICK hs : hs = frames' OBVIOUS
    <2>2. /\ KeepsHeld(hs)
          /\ \A g \in Frames : hs[g].state = "running" <=> g = cur \/ frames[g].state = "running"
          /\ how = "task" => hs[root].state # "free" /\ hs[root].owner = Actor
      BY <1>3, <1>4, <2>1
    <2>3. PICK cs : cs = Append(calls, [root |-> root, cur |-> cur, how |-> how]) OBVIOUS
    <2>4. CallTypes(cs) /\ Running(hs, cs) BY <2>2, <2>3, StackPush
    <2> QED BY <1>1, <2>1, <2>3, <2>4
  <1> QED BY <1>3, <1>5 DEF Sound

\* The coroutine that runs makes room for another.
LEMMA Goes ==
    ASSUME Sound(frames, calls), calls # << >>, NEW fs, Good(fs), KeepsHeld(fs),
           NEW cur \in Frames, fs[cur].state \in Active, frames[cur].state # "running",
           \A g \in Frames : fs[g].state = "running" <=> frames[g].state = "running" /\ g # Actor,
           Transfer(fs, cur)
    PROVE  /\ Sound(frames, calls)'
           /\ \A g \in Frames : frames'[g].state = IF g = cur THEN "running" ELSE fs[g].state
  <1>1. /\ Becomes(fs, frames', cur, "running")
        /\ calls' = [calls EXCEPT ![Len(calls)].cur = cur]
    BY DEF Transfer, Becomes
  <1>2. "running" \in Active
    BY DEF Active
  <1>3. /\ Good(frames') /\ KeepsHeld(frames')
        /\ \A g \in Frames : frames'[g].state = IF g = cur THEN "running" ELSE fs[g].state
    BY <1>1, <1>2, Runs
  <1>4. \A g \in Frames : frames'[g].state = "running"
                          <=> g = cur \/ (frames[g].state = "running" /\ g # Actor)
    BY <1>3
  <1>5. CallTypes(calls') /\ Running(frames', calls')
    BY <1>1, <1>3, <1>4, StackJump
  <1> QED BY <1>3, <1>5 DEF Sound

-----------------------------------------------------------------------------
(* Main and the coroutines *)

\* No coroutine begins or ends to wait for the event.
EventsKept == \A g \in Frames : frames'[g].state = "event" <=> frames[g].state = "event"

LEMMA FreshIsFree ==
    ASSUME Sound(frames, calls), FreeFrames # {}
    PROVE  /\ Fresh \in Frames /\ frames[Fresh] = FreeFrame /\ frames[Fresh].state = "free"
           /\ \A g \in Frames : frames[g].owner # Fresh /\ frames[g].awaits # Fresh
                                /\ (Live(frames[g]) => frames[g].m_continuation # Fresh)
  <1>1. Fresh \in Frames /\ frames[Fresh].state = "free"
    BY DEF Fresh, FreeFrames
  <1>2. frames[Fresh] = FreeFrame
    BY <1>1 DEF Sound, Good, Owners
  <1>3. frames[Fresh].kind = "none"
    BY <1>2 DEF FreeFrame, Frame
  <1>4. ASSUME NEW g \in Frames PROVE frames[g].owner # Fresh
    <2>1. frames[g].state = "free" => frames[g].owner = Nobody
      BY DEF Sound, Good, Owners, FreeFrame, Frame
    <2>2. frames[g].state # "free" /\ frames[g].owner = Fresh => FALSE
      BY <1>1 DEF Sound, Good, Owners, Live
    <2> QED BY <1>1, <2>1, <2>2, NamesAssumption
  <1>5. \A g \in Frames : frames[g].awaits # Fresh
    BY <1>1, <1>3 DEF Sound, Good, Waits
  <1>6. \A g \in Frames : Live(frames[g]) => frames[g].m_continuation # Fresh
    BY <1>1 DEF Sound, Good, Waits
  <1> QED BY <1>1, <1>2, <1>4, <1>5, <1>6

LEMMA Resumes ==
    ASSUME Sound(frames, calls), NEW f \in Frames, Resumable(f),
           \/ resume(f) \/ resume_coroutine_callback(f) \/ next(f)
    PROVE  Sound(frames, calls)' /\ EventsKept
  <1>1. frames[f].state \in Active /\ frames[f].state # "running" /\ frames[f].state # "event"
    BY DEF Resumable, Active
  <1>2. Good(frames) /\ KeepsHeld(frames)
    BY HeldAtFirst DEF Sound
  <1>3. \E how \in {"task", "callback", "next", "spawn"} :
            Call(frames, f, f, how) /\ (how = "task" => frames[f].owner = Actor)
    BY DEF resume, resume_coroutine_callback, next, Owns
  <1>4. PICK how \in {"task", "callback", "next", "spawn"} :
            Call(frames, f, f, how) /\ (how = "task" => frames[f].owner = Actor)
    BY <1>3
  <1>5. /\ Sound(frames, calls)'
        /\ \A g \in Frames : frames'[g].state = IF g = f THEN "running" ELSE frames[g].state
    BY <1>1, <1>2, <1>4, Enters
  <1> QED BY <1>1, <1>5 DEF EventsKept

\* The coroutine that runs is suspended, for an event or anything else but a task.
LEMMA Suspended ==
    ASSUME Sound(frames, calls), Actor \in Frames, NEW x \in {"yielded", "event"}, NEW fs,
           Becomes(frames, fs, Actor, x)
    PROVE  /\ calls # << >> /\ Good(fs) /\ KeepsHeld(fs)
           /\ frames[Actor].state = "running"
           /\ \A g \in Frames : fs[g].state = IF g = Actor THEN x ELSE frames[g].state
           /\ \A g \in Frames : fs[g].state = "running" <=> frames[g].state = "running" /\ g # Actor
  <1> DEFINE a == Actor
  <1>1. calls # << >> /\ frames[a].state = "running"
    BY ActorRuns
  <1>2. Becomes(frames, fs, a, x) /\ x \in Active /\ frames[a].state \in Active /\ Good(frames)
    BY <1>1 DEF Active, Sound
  <1>3. a \in Frames
    OBVIOUS
  <1> HIDE DEF a
  <1>4. /\ Good(fs) /\ KeepsHeld(fs)
        /\ \A g \in Frames : fs[g].state = IF g = a THEN x ELSE frames[g].state
    BY <1>2, <1>3, HeldAtFirst, Runs
  <1>5. \A g \in Frames : fs[g].state = "running" <=> frames[g].state = "running" /\ g # a
    BY <1>4
  <1> QED BY <1>1, <1>4, <1>5 DEF a

LEMMA Yields ==
    ASSUME Sound(frames, calls), Actor \in Frames, Yield \/ \E f \in Frames : YieldTo(f)
    PROVE  Sound(frames, calls)' /\ EventsKept
  <1>1. PICK fs : Becomes(frames, fs, Actor, "yielded")
    BY DEF Becomes
  <1>2. /\ calls # << >> /\ Good(fs) /\ KeepsHeld(fs)
        /\ frames[Actor].state = "running"
        /\ \A g \in Frames : fs[g].state = IF g = Actor THEN "yielded" ELSE frames[g].state
        /\ \A g \in Frames : fs[g].state = "running" <=> frames[g].state = "running" /\ g # Actor
    BY <1>1, Suspended
  <1>3. CASE Yield
    <2>1. Return(fs) BY <1>1, <1>3 DEF Yield, Becomes
    <2>2. Sound(frames, calls)' /\ \A g \in Frames : frames'[g].state = fs[g].state
      BY <1>2, <2>1, Leaves
    <2> QED BY <1>2, <2>2 DEF EventsKept
  <1>4. CASE \E f \in Frames : YieldTo(f)
    <2>1. PICK f \in Frames : YieldTo(f) BY <1>4
    <2>2. Transfer(fs, f) /\ Resumable(f) BY <1>1, <2>1 DEF YieldTo, Becomes
    <2>3. frames[f].state \in {"new", "yielded"} BY <2>2 DEF Resumable
    <2>4. f # Actor /\ fs[f].state \in Active /\ frames[f].state # "running"
      BY <1>2, <2>3 DEF Active
    <2>5. /\ Sound(frames, calls)'
          /\ \A g \in Frames : frames'[g].state = IF g = f THEN "running" ELSE fs[g].state
      BY <1>2, <2>2, <2>4, Goes
    <2> QED BY <1>2, <2>3, <2>5 DEF EventsKept
  <1> QED BY <1>3, <1>4

LEMMA Awaits ==
    ASSUME Sound(frames, calls), Actor \in Frames, NEW f \in Frames, Await(f) \/ Join(f)
    PROVE  Sound(frames, calls)' /\ EventsKept
  <1> DEFINE a == Actor
  <1>1. calls # << >> /\ frames[a].state = "running" /\ a \in Frames
    BY ActorRuns
  <1>2. frames[f].kind = "task" /\ ~Awaited(f)
    BY DEF Await, Join, Is
  <1>3. frames[f].state # "free"
    BY <1>2 DEF Sound, Good, Owners, FreeFrame, Frame
  <1>4. PICK fs : fs = AwaitedBy(frames, f, a)
    OBVIOUS
  <1>5. ASSUME f # a, frames[f].state # "done"
        PROVE  /\ Good(fs) /\ KeepsHeld(fs)
               /\ \A g \in Frames : fs[g].state = IF g = a THEN "awaiting" ELSE frames[g].state
               /\ \A g \in Frames : fs[g].state = "running" <=> frames[g].state = "running" /\ g # a
    <2>1. Live(frames[f]) /\ Good(frames) /\ \A g \in Frames : frames[g].awaits # f
      BY <1>2, <1>3, <1>5 DEF Live, Sound, Awaited
    <2>2. /\ Good(fs)
          /\ \A g \in Frames : /\ fs[g].kind = frames[g].kind /\ fs[g].owner = frames[g].owner
                               /\ fs[g].state = IF g = a THEN "awaiting" ELSE frames[g].state
      <3> HIDE DEF a
      <3> QED BY <1>1, <1>2, <1>4, <1>5, <2>1, AwaitBegins
    <2>3. \A g \in Frames : /\ fs[g].owner = frames[g].owner
                            /\ frames[g].state # "free" => fs[g].state # "free"
      BY <2>2
    <2>4. KeepsHeld(fs) BY <2>3, HeldAtFirst, StillHeld
    <2>5. \A g \in Frames : fs[g].state = "running" <=> frames[g].state = "running" /\ g # a
      BY <2>2
    <2> QED BY <2>2, <2>4, <2>5
  <1>6. CASE Await(f)
    <2>1. Transfer(fs, f) /\ frames[f].state \in {"new", "yielded"}
      BY <1>4, <1>6 DEF Await, Resumable
    <2>2. f # a /\ frames[f].state # "done" BY <1>1, <2>1
    <2>3. fs[f].state \in Active /\ frames[f].state # "running" BY <1>5, <2>1, <2>2 DEF Active
    <2>4. /\ Sound(frames, calls)'
          /\ \A g \in Frames : frames'[g].state = IF g = f THEN "running" ELSE fs[g].state
      BY <1>1, <1>5, <2>1, <2>2, <2>3, Goes
    <2> QED BY <1>1, <1>5, <2>1, <2>2, <2>4 DEF EventsKept
  <1>7. CASE Join(f) /\ frames[f].state # "done"
    <2>1. Return(fs) /\ f # a BY <1>4, <1>7 DEF Join
    <2>2. Sound(frames, calls)' /\ \A g \in Frames : frames'[g].state = fs[g].state
      BY <1>1, <1>5, <1>7, <2>1, Leaves
    <2> QED BY <1>1, <1>5, <1>7, <2>1, <2>2 DEF EventsKept
  <1>8. CASE Join(f) /\ frames[f].state = "done"
    <2>1. frames' = [frames EXCEPT ![f].m_unhandled_exception = FALSE] /\ calls' = calls
      BY <1>8 DEF Join, Return
    <2>2. FrameTypes(frames) BY DEF Sound, Good
    <2>3. FrameTypes(frames') BY <2>1, <2>2 DEF FrameTypes
    <2>4. \A g \in Frames : /\ Alike(frames, frames', g) /\ frames'[g].state = frames[g].state
                            /\ g # f => frames'[g] = frames[g]
      BY <2>1, <2>2 DEF Alike, FrameTypes
    <2>5. \A g \in Frames :
              /\ Alike(frames, frames', g)
              /\ \/ frames'[g].state = frames[g].state /\ (frames[g].state = "free" => frames'[g] = frames[g])
                 \/ frames'[g].state \in Active /\ frames[g].state \in Active
      BY <1>8, <2>4
    <2>6. Good(frames') BY <2>3, <2>5, Restated DEF Sound
    <2>7. \A g \in Frames : /\ frames'[g].owner = frames[g].owner
                            /\ frames[g].state # "free" => frames'[g].state # "free"
      BY <2>4 DEF Alike
    <2>8. KeepsHeld(frames') BY <2>7, HeldAtFirst, StillHeld
    <2>9. Running(frames', calls) BY <2>4, <2>8, StackStays
    <2> QED BY <2>1, <2>4, <2>6, <2>9 DEF Sound, EventsKept
  <1> QED BY <1>6, <1>7, <1>8

-----------------------------------------------------------------------------
(* Fields of frames *)

Continues(fs, gs, f, x) == gs = [fs EXCEPT ![f].m_continuation = x]
Fails(fs, gs, f, x) == gs = [fs EXCEPT ![f].m_unhandled_exception = x]
WaitsFor(fs, gs, f, x) == gs = [fs EXCEPT ![f].awaits = x]
Owned(fs, gs, f, x) == gs = [fs EXCEPT ![f].owner = x]

LEMMA PutState ==
    ASSUME NEW fs, FrameTypes(fs), NEW gs, NEW f \in Frames, NEW x \in States,
           Becomes(fs, gs, f, x)
    PROVE  /\ FrameTypes(gs) /\ \A g \in Frames : g # f => gs[g] = fs[g]
           /\ gs[f].state = x
           /\ gs[f].kind = fs[f].kind /\ gs[f].owner = fs[f].owner
           /\ gs[f].m_continuation = fs[f].m_continuation /\ gs[f].awaits = fs[f].awaits
  BY DEF FrameTypes, Becomes

LEMMA PutContinuation ==
    ASSUME NEW fs, FrameTypes(fs), NEW gs, NEW f \in Frames, NEW x \in Frames \cup {noop},
           Continues(fs, gs, f, x)
    PROVE  /\ FrameTypes(gs) /\ \A g \in Frames : g # f => gs[g] = fs[g]
           /\ gs[f].m_continuation = x
           /\ gs[f].kind = fs[f].kind /\ gs[f].owner = fs[f].owner
           /\ gs[f].state = fs[f].state /\ gs[f].awaits = fs[f].awaits
  BY DEF FrameTypes, Continues

LEMMA PutException ==
    ASSUME NEW fs, FrameTypes(fs), NEW gs, NEW f \in Frames, NEW x \in BOOLEAN,
           Fails(fs, gs, f, x)
    PROVE  /\ FrameTypes(gs) /\ \A g \in Frames : g # f => gs[g] = fs[g]
           /\ gs[f].kind = fs[f].kind /\ gs[f].owner = fs[f].owner
           /\ gs[f].state = fs[f].state /\ gs[f].m_continuation = fs[f].m_continuation
           /\ gs[f].awaits = fs[f].awaits
  BY DEF FrameTypes, Fails

LEMMA PutAwaits ==
    ASSUME NEW fs, FrameTypes(fs), NEW gs, NEW f \in Frames, NEW x \in Frames \cup {noop},
           WaitsFor(fs, gs, f, x)
    PROVE  /\ FrameTypes(gs) /\ \A g \in Frames : g # f => gs[g] = fs[g]
           /\ gs[f].awaits = x
           /\ gs[f].kind = fs[f].kind /\ gs[f].owner = fs[f].owner
           /\ gs[f].state = fs[f].state /\ gs[f].m_continuation = fs[f].m_continuation
  BY DEF FrameTypes, WaitsFor

LEMMA PutOwner ==
    ASSUME NEW fs, FrameTypes(fs), NEW gs, NEW f \in Frames, NEW x \in Frames,
           Owned(fs, gs, f, x)
    PROVE  /\ FrameTypes(gs) /\ \A g \in Frames : g # f => gs[g] = fs[g]
           /\ gs[f].owner = x
           /\ gs[f].kind = fs[f].kind /\ gs[f].awaits = fs[f].awaits
           /\ gs[f].state = fs[f].state /\ gs[f].m_continuation = fs[f].m_continuation
  BY DEF FrameTypes, Owned

-----------------------------------------------------------------------------
(* Frames that begin and end *)

LEMMA Created ==
    ASSUME Sound(frames, calls), NEW kind \in {"task", "generator"}, Create(kind)
    PROVE  Sound(frames, calls)' /\ EventsKept
  <1> DEFINE new == Frame(kind, "new", Actor)
             x == Fresh
  <1>1. frames' = [frames EXCEPT ![x] = new] /\ calls' = calls /\ FreeFrames # {}
    BY DEF Create
  <1>2. /\ x \in Frames /\ frames[x] = FreeFrame /\ frames[x].state = "free"
        /\ \A g \in Frames : frames[g].owner # x /\ frames[g].awaits # x
                             /\ (Live(frames[g]) => frames[g].m_continuation # x)
    BY <1>1, FreshIsFree
  <1>3. Good(frames) /\ FrameTypes(frames) /\ Waits(frames) /\ Owners(frames)
    BY DEF Sound, Good
  <1>4. Actor = Main \/ (Actor \in Frames /\ frames[Actor].state = "running")
    BY ActorRuns
  <1>5. /\ new.kind = kind /\ new.state = "new" /\ new.owner = Actor
        /\ new.m_continuation = noop /\ new.awaits = noop
        /\ new.m_unhandled_exception = FALSE
    BY DEF Frame
  <1>6. FrameTypes(frames')
    BY <1>1, <1>3, <1>4 DEF FrameTypes, Frame, Kinds, States
  <1>7. frames'[x] = new /\ \A g \in Frames : g # x => frames'[g] = frames[g]
    BY <1>1, <1>2, <1>3 DEF FrameTypes
  <1> HIDE DEF new, x
  <1>8. Actor # x /\ Actor # Nobody
    BY <1>2, <1>4, NamesAssumption
  <1>9. \A g \in Frames : Live(frames[g]) => g # x
    BY <1>2 DEF Live
  <1>10. Waits(frames')
    <2>1. ASSUME NEW h \in Frames, NEW g \in Frames
          PROVE  frames'[h].state = "awaiting" /\ frames'[h].awaits = g
                 <=> Live(frames'[g]) /\ frames'[g].m_continuation = h
      <3>1. CASE h = x
        BY <1>2, <1>5, <1>7, <3>1, NamesAssumption
      <3>2. CASE h # x /\ g = x
        BY <1>2, <1>5, <1>7, <3>2, NamesAssumption
      <3>3. CASE h # x /\ g # x
        BY <1>3, <1>7, <3>3 DEF Waits
      <3> QED BY <3>1, <3>2, <3>3
    <2>2. ASSUME NEW h \in Frames PROVE frames'[h].state = "awaiting" <=> frames'[h].awaits # noop
      BY <1>3, <1>5, <1>7 DEF Waits
    <2>3. ASSUME NEW h \in Frames, frames'[h].awaits \in Frames
          PROVE  frames'[frames'[h].awaits].kind = "task"
      <3>1. h # x BY <1>5, <1>7, <2>3, NamesAssumption
      <3> QED BY <1>2, <1>3, <1>7, <2>3, <3>1 DEF Waits
    <2> QED BY <2>1, <2>2, <2>3 DEF Waits
  <1>11. Owners(frames')
    <2>1. ASSUME NEW set \in SUBSET Frames, \A g \in set : frames'[g].owner \in set
          PROVE  set = {}
      <3>1. ASSUME NEW g \in set \ {x} PROVE frames[g].owner \in set \ {x}
        BY <1>2, <1>7, <2>1, <3>1
      <3>2. set \ {x} = {} BY <1>3, <3>1 DEF Owners
      <3>3. x \in set => Actor \in set BY <1>5, <1>7, <2>1
      <3> QED BY <1>8, <3>2, <3>3
    <2>2. ASSUME NEW g \in Frames, frames'[g].state = "free" PROVE frames'[g] = FreeFrame
      BY <1>3, <1>5, <1>7, <2>2 DEF Owners
    <2>3. ASSUME NEW g \in Frames, frames'[g].state # "free"
          PROVE  /\ frames'[g].owner \in Frames => Live(frames'[frames'[g].owner])
                 /\ frames'[g].owner = Nobody <=> frames'[g].kind = "spawn"
      <3>1. CASE g = x
        <4>1. frames'[g].owner = Actor /\ frames'[g].kind \in {"task", "generator"}
          BY <1>5, <1>7, <3>1
        <4>2. Actor \in Frames => Live(frames'[Actor])
          BY <1>4, <1>7, <1>8, NamesAssumption DEF Live
        <4> QED BY <1>8, <4>1, <4>2
      <3>2. CASE g # x
        BY <1>2, <1>3, <1>7, <2>3, <3>2 DEF Owners
      <3> QED BY <3>1, <3>2
    <2>4. ASSUME NEW g \in Frames, frames'[g].state # "free", frames'[g].kind = "spawn"
          PROVE  /\ frames'[g].state \in {"awaiting", "escaped"}
                 /\ \E h \in Frames : frames'[h].owner = g
                 /\ \A h \in Frames : frames'[h].owner = g =>
                       IF frames'[g].state = "awaiting" THEN frames'[g].awaits = h
                                                        ELSE frames'[h].state = "done"
      <3>1. g # x /\ frames'[g] = frames[g] BY <1>5, <1>7, <2>4
      <3>2. frames[g].state \in {"awaiting", "escaped"} BY <1>3, <2>4, <3>1 DEF Owners
      <3>3. g # Actor BY <1>4, <3>2, NamesAssumption
      <3>4. \A h \in Frames : frames'[h].owner = g <=> frames[h].owner = g
        <4>1. frames[x].owner = Nobody BY <1>2 DEF FreeFrame, Frame
        <4>2. frames'[x].owner = Actor BY <1>5, <1>7
        <4> QED BY <1>7, <3>3, <4>1, <4>2, NamesAssumption
      <3>5. \A h \in Frames : frames[h].owner = g =>
                       IF frames[g].state = "awaiting" THEN frames[g].awaits = h
                                                       ELSE frames[h].state = "done"
        BY <1>3, <2>4, <3>1 DEF Owners
      <3>6. \A h \in Frames : frames[h].state = "done" => frames'[h].state = "done"
        BY <1>2, <1>7
      <3>7. \E h \in Frames : frames[h].owner = g BY <1>3, <2>4, <3>1 DEF Owners
      <3> QED BY <3>1, <3>2, <3>4, <3>5, <3>6, <3>7
    <2> QED BY <2>1, <2>2, <2>3, <2>4 DEF Owners
  <1>12. Running(frames', calls)
    <2>1. \A g \in Frames : frames'[g].state = "running" <=> frames[g].state = "running"
      BY <1>2, <1>5, <1>7
    <2>2. KeepsHeld(frames')
      BY <1>2, <1>7 DEF KeepsHeld, Held
    <2> QED BY <2>1, <2>2, StackStays
  <1>13. EventsKept
    BY <1>2, <1>5, <1>7 DEF EventsKept
  <1> QED BY <1>1, <1>6, <1>10, <1>11, <1>12, <1>13 DEF Sound, Good

LEMMA Released ==
    ASSUME Sound(frames, calls), NEW f \in Frames, release(f)
    PROVE  Sound(frames, calls)' /\ EventsKept
  <1> DEFINE a == Actor
  <1>1. /\ frames' = [frames EXCEPT ![f].owner = Main] /\ calls' = calls
        /\ a \in Frames /\ frames[f].owner = a /\ frames[f].state # "free"
    BY DEF release, Owns
  <1>2. frames[a].state = "running"
    BY <1>1, ActorRuns
  <1>3. FrameTypes(frames) /\ Waits(frames) /\ Owners(frames)
    BY DEF Sound, Good
  <1>4. FrameTypes(frames')
    BY <1>1, <1>3 DEF FrameTypes
  <1>5. ASSUME NEW g \in Frames
        PROVE  /\ frames'[g].kind = frames[g].kind /\ frames'[g].state = frames[g].state
               /\ frames'[g].m_continuation = frames[g].m_continuation
               /\ frames'[g].awaits = frames[g].awaits
               /\ frames'[g].owner = IF g = f THEN Main ELSE frames[g].owner
               /\ g # f => frames'[g] = frames[g]
    BY <1>1, <1>3 DEF FrameTypes
  <1> HIDE DEF a
  <1>6. \A g \in Frames : Live(frames'[g]) <=> Live(frames[g])
    BY <1>5 DEF Live
  <1>7. Waits(frames')
    BY <1>3, <1>5, <1>6 DEF Waits
  <1>8. Owners(frames')
    <2>1. ASSUME NEW set \in SUBSET Frames, \A g \in set : frames'[g].owner \in set
          PROVE  set = {}
      <3>1. f \notin set BY <1>5, <2>1, NamesAssumption
      <3> QED BY <1>3, <1>5, <2>1, <3>1 DEF Owners
    <2>2. ASSUME NEW g \in Frames, frames'[g].state = "free" PROVE frames'[g] = FreeFrame
      BY <1>1, <1>3, <1>5, <2>2 DEF Owners
    <2>3. ASSUME NEW g \in Frames, frames'[g].state # "free"
          PROVE  /\ frames'[g].owner \in Frames => Live(frames'[frames'[g].owner])
                 /\ frames'[g].owner = Nobody <=> frames'[g].kind = "spawn"
      <3>1. CASE g = f
        <4>1. frames[f].kind # "spawn" BY <1>1, <1>3, NamesAssumption DEF Owners
        <4> QED BY <1>5, <3>1, <4>1, NamesAssumption
      <3>2. CASE g # f
        BY <1>3, <1>5, <1>6, <2>3, <3>2 DEF Owners
      <3> QED BY <3>1, <3>2
    <2>4. ASSUME NEW g \in Frames, frames'[g].state # "free", frames'[g].kind = "spawn"
          PROVE  /\ frames'[g].state \in {"awaiting", "escaped"}
                 /\ \E h \in Frames : frames'[h].owner = g
                 /\ \A h \in Frames : frames'[h].owner = g =>
                       IF frames'[g].state = "awaiting" THEN frames'[g].awaits = h
                                                        ELSE frames'[h].state = "done"
      <3>1. frames[g].state # "free" /\ frames[g].kind = "spawn" BY <1>5, <2>4
      <3>2. frames[g].state \in {"awaiting", "escaped"} BY <1>3, <3>1 DEF Owners
      <3>3. g # a BY <1>2, <3>2
      <3>4. \A h \in Frames : frames'[h].owner = g <=> frames[h].owner = g
        BY <1>1, <1>5, <3>3, NamesAssumption
      <3>5. \A h \in Frames : frames[h].owner = g =>
                       IF frames[g].state = "awaiting" THEN frames[g].awaits = h
                                                       ELSE frames[h].state = "done"
        BY <1>3, <3>1 DEF Owners
      <3>6. \E h \in Frames : frames[h].owner = g BY <1>3, <3>1 DEF Owners
      <3> QED BY <1>5, <3>2, <3>4, <3>5, <3>6
    <2> QED BY <2>1, <2>2, <2>3, <2>4 DEF Owners
  <1>9. KeepsHeld(frames')
    BY <1>1, <1>5 DEF KeepsHeld, Held, a
  <1>10. Running(frames', calls)
    BY <1>5, <1>9, StackStays
  <1>11. EventsKept
    BY <1>5 DEF EventsKept
  <1> QED BY <1>1, <1>4, <1>7, <1>8, <1>10, <1>11 DEF Sound, Good

\* Frames are freed with all they own, and with those who wait for one of them.
LEMMA Frees ==
    ASSUME NEW fs, Good(fs), NEW set \in SUBSET Frames,
           \A g \in Frames : fs[g].state = "awaiting" => (g \in set <=> fs[g].awaits \in set),
           \A g \in Frames : fs[g].state # "free" /\ fs[g].owner \in set => g \in set,
           \A g \in set : fs[g].owner \in Frames /\ fs[fs[g].owner].kind = "spawn"
                            => fs[g].owner \in set
    PROVE  /\ Good(Free(fs, set))
           /\ \A g \in Frames : Free(fs, set)[g] = IF g \in set THEN FreeFrame ELSE fs[g]
  <1> DEFINE gs == Free(fs, set)
  <1>1. FrameTypes(fs) /\ Waits(fs) /\ Owners(fs)
    BY DEF Good
  <1>2. \A g \in Frames : gs[g] = IF g \in set THEN FreeFrame ELSE fs[g]
    BY DEF Free
  <1>3. /\ FreeFrame.kind = "none" /\ FreeFrame.state = "free" /\ FreeFrame.owner = Nobody
        /\ FreeFrame.m_continuation = noop /\ FreeFrame.awaits = noop
    BY DEF FreeFrame, Frame
  <1>4. FrameTypes(gs)
    <2>1. FreeFrame \in [kind : Kinds, state : States, owner : Frames \cup {Main, Nobody},
                         m_continuation : Frames \cup {noop}, m_unhandled_exception : BOOLEAN,
                         awaits : Frames \cup {noop}]
      BY DEF FreeFrame, Frame, Kinds, States
    <2> QED BY <1>1, <2>1 DEF FrameTypes, Free
  <1> HIDE DEF gs
  <1>5. Waits(gs)
    <2>1. ASSUME NEW h \in Frames, NEW g \in Frames
          PROVE  gs[h].state = "awaiting" /\ gs[h].awaits = g
                 <=> Live(gs[g]) /\ gs[g].m_continuation = h
      <3>1. fs[h].state = "awaiting" /\ fs[h].awaits = g
            <=> Live(fs[g]) /\ fs[g].m_continuation = h
        BY <1>1 DEF Waits
      <3>2. CASE h \in set
        BY <1>2, <1>3, <3>1, <3>2 DEF Live
      <3>3. CASE h \notin set /\ g \in set
        BY <1>2, <1>3, <3>3 DEF Live
      <3>4. CASE h \notin set /\ g \notin set
        BY <1>2, <3>1, <3>4
      <3> QED BY <3>2, <3>3, <3>4
    <2>2. ASSUME NEW h \in Frames PROVE gs[h].state = "awaiting" <=> gs[h].awaits # noop
      BY <1>1, <1>2, <1>3 DEF Waits
    <2>3. ASSUME NEW h \in Frames, gs[h].awaits \in Frames PROVE gs[gs[h].awaits].kind = "task"
      <3>1. h \notin set /\ gs[h] = fs[h] BY <1>2, <1>3, <2>3, NamesAssumption
      <3>2. fs[h].state = "awaiting" BY <1>1, <2>3, <3>1, NamesAssumption DEF Waits
      <3> QED BY <1>1, <1>2, <2>3, <3>1, <3>2 DEF Waits
    <2> QED BY <2>1, <2>2, <2>3 DEF Waits
  <1>6. Owners(gs)
    <2>1. ASSUME NEW some \in SUBSET Frames, \A g \in some : gs[g].owner \in some
          PROVE  some = {}
      <3>1. some \cap set = {} BY <1>2, <1>3, <2>1, NamesAssumption
      <3> QED BY <1>1, <1>2, <2>1, <3>1 DEF Owners
    <2>2. ASSUME NEW g \in Frames, gs[g].state = "free" PROVE gs[g] = FreeFrame
      BY <1>1, <1>2, <2>2 DEF Owners
    <2>3. ASSUME NEW g \in Frames, gs[g].state # "free"
          PROVE  /\ gs[g].owner \in Frames => Live(gs[gs[g].owner])
                 /\ gs[g].owner = Nobody <=> gs[g].kind = "spawn"
      <3>1. g \notin set /\ gs[g] = fs[g] BY <1>2, <1>3, <2>3
      <3>2. fs[g].owner \notin set BY <2>3, <3>1
      <3> QED BY <1>1, <1>2, <2>3, <3>1, <3>2 DEF Owners
    <2>4. ASSUME NEW g \in Frames, gs[g].state # "free", gs[g].kind = "spawn"
          PROVE  /\ gs[g].state \in {"awaiting", "escaped"}
                 /\ \E h \in Frames : gs[h].owner = g
                 /\ \A h \in Frames : gs[h].owner = g =>
                       IF gs[g].state = "awaiting" THEN gs[g].awaits = h
                                                   ELSE gs[h].state = "done"
      <3>1. g \notin set /\ gs[g] = fs[g] BY <1>2, <1>3, <2>4
      <3>2. \A h \in Frames : gs[h].owner = g <=> fs[h].owner = g
        BY <1>2, <1>3, <2>4, <3>1, NamesAssumption
      <3>3. \A h \in Frames : fs[h].owner = g => gs[h] = fs[h]
        BY <1>2, <2>4, <3>1
      <3>4. /\ fs[g].state \in {"awaiting", "escaped"}
            /\ \E h \in Frames : fs[h].owner = g
            /\ \A h \in Frames : fs[h].owner = g =>
                       IF fs[g].state = "awaiting" THEN fs[g].awaits = h
                                                   ELSE fs[h].state = "done"
        BY <1>1, <2>4, <3>1 DEF Owners
      <3> QED BY <3>1, <3>2, <3>3, <3>4
    <2> QED BY <2>1, <2>2, <2>3, <2>4 DEF Owners
  <1> QED BY <1>2, <1>4, <1>5, <1>6 DEF Good, gs

LEMMA Dropped ==
    ASSUME Sound(frames, calls), NEW f \in Frames, Drop(f)
    PROVE  Sound(frames, calls)' /\ EventsKept
  <1> DEFINE T == Tree(f)
  <1>1. frames' = Free(frames, T) /\ calls' = calls /\ Droppable(T) /\ frames[f].owner = Actor
    BY DEF Drop, Owns
  <1>2. Good(frames) /\ FrameTypes(frames) /\ Owners(frames)
    BY DEF Sound, Good
  <1>3. /\ T \in SUBSET Frames
        /\ \A g \in Frames : frames[g].state # "free" /\ frames[g].owner \in T => g \in T
        /\ \A g \in T : g # f => frames[g].owner \in T
    BY <1>2, TreeClosed, TreeOwned
  <1> HIDE DEF T
  <1>4. /\ \A g \in T : frames[g].state \in {"new", "yielded", "awaiting", "done"}
        /\ \A g \in Frames : frames[g].state = "awaiting" => (g \in T <=> frames[g].awaits \in T)
    BY <1>1 DEF Droppable
  <1>5. Actor = Main \/ (Actor \in Frames /\ frames[Actor].state = "running")
    BY ActorRuns
  <1>6. ASSUME NEW g \in T, frames[g].owner \in Frames, frames[frames[g].owner].kind = "spawn"
        PROVE  frames[g].owner \in T
    <2>1. CASE g = f
      <3>1. frames[Actor].state = "running" /\ frames[Actor].kind = "spawn" /\ Actor \in Frames
        BY <1>1, <1>5, <1>6, <2>1, NamesAssumption
      <3> QED BY <1>2, <3>1 DEF Owners
    <2> QED BY <1>3, <2>1
  <1>7. /\ Good(frames')
        /\ \A g \in Frames : frames'[g] = IF g \in T THEN FreeFrame ELSE frames[g]
    BY <1>1, <1>2, <1>3, <1>4, <1>6, Frees
  <1>8. FreeFrame.state = "free"
    BY DEF FreeFrame, Frame
  <1>9. ASSUME NEW g \in Frames, Held(g) PROVE g \notin T
    <2>1. g # f BY <1>1, <1>9 DEF Held
    <2>2. g \in T => frames[g].owner \in T BY <1>3, <2>1
    <2>3. frames[g].owner \in T =>
              frames[g].owner \in Frames /\ frames[frames[g].owner].state # "running"
      BY <1>3, <1>4
    <2> QED BY <1>9, <2>2, <2>3, NamesAssumption DEF Held
  <1>10. KeepsHeld(frames')
    BY <1>7, <1>9 DEF KeepsHeld, Held
  <1>11. \A g \in Frames : frames'[g].state = "running" <=> frames[g].state = "running"
    BY <1>4, <1>7, <1>8
  <1>12. Running(frames', calls)
    BY <1>10, <1>11, StackStays
  <1>13. EventsKept
    BY <1>4, <1>7, <1>8 DEF EventsKept
  <1> QED BY <1>1, <1>7, <1>12, <1>13 DEF Sound

Locals == Tree(Actor) \ {Actor}
Freed(fs) == fs = Free(frames, Locals)

\* The locals of the coroutine that ends are destroyed.
LEMMA LocalsFreed ==
    ASSUME Sound(frames, calls), Actor \in Frames, Droppable(Locals), NEW hs, Freed(hs)
    PROVE  /\ Good(hs) /\ KeepsHeld(hs) /\ hs[Actor] = frames[Actor]
           /\ \A g \in Frames : hs[g].owner # Actor
           /\ \A g \in Frames : hs[g].state = "running" <=> frames[g].state = "running"
           /\ \A g \in Frames : hs[g].state = "event" <=> frames[g].state = "event"
           /\ \A g \in Frames : hs[g] = frames[g] \/ hs[g] = FreeFrame
  <1> DEFINE a == Actor
             T == Tree(a)
             locals == Locals
  <1>0. a \in Frames /\ frames[a].state = "running" /\ locals = T \ {a} /\ hs = Free(frames, locals)
    BY ActorRuns DEF Locals, Freed
  <1>1. Good(frames) /\ FrameTypes(frames) /\ Owners(frames)
    BY DEF Sound, Good
  <1>2. /\ T \in SUBSET Frames /\ a \in T /\ frames[a].owner \notin T
        /\ \A g \in Frames : frames[g].state # "free" /\ frames[g].owner \in T => g \in T
        /\ \A g \in T : g # a => frames[g].owner \in T
    BY <1>0, <1>1, TreeClosed, TreeOwned, TreeRoot
  <1> HIDE DEF T, a, locals
  <1>3. /\ \A g \in locals : frames[g].state \in {"new", "yielded", "awaiting", "done"}
        /\ \A g \in Frames : frames[g].state = "awaiting" => (g \in locals <=> frames[g].awaits \in locals)
    BY DEF Droppable, locals
  <1>4. ASSUME NEW g \in locals, frames[g].owner \in Frames, frames[frames[g].owner].kind = "spawn"
        PROVE  frames[g].owner \in locals
    <2>1. frames[g].owner # a BY <1>0, <1>1, <1>4 DEF Owners
    <2> QED BY <1>0, <1>2, <2>1
  <1>5. \A g \in Frames : frames[g].state # "free" /\ frames[g].owner \in locals => g \in locals
    BY <1>0, <1>2
  <1>6. /\ Good(hs)
        /\ \A g \in Frames : hs[g] = IF g \in locals THEN FreeFrame ELSE frames[g]
    <2>1. locals \in SUBSET Frames BY <1>0, <1>2
    <2> QED BY <1>0, <1>1, <1>3, <1>4, <1>5, <2>1, Frees
  <1>7. FreeFrame.state = "free" /\ FreeFrame.owner = Nobody
    BY DEF FreeFrame, Frame
  <1>8. ASSUME NEW g \in Frames, Held(g) PROVE g \notin locals
    <2>1. g \in locals => frames[g].owner \in locals
      BY <1>0, <1>2, <1>8 DEF Held, a
    <2>2. frames[g].owner \in locals =>
              frames[g].owner \in Frames /\ frames[frames[g].owner].state # "running"
      BY <1>0, <1>2, <1>3
    <2> QED BY <1>8, <2>1, <2>2, NamesAssumption DEF Held
  <1>9. KeepsHeld(hs)
    BY <1>6, <1>8 DEF KeepsHeld, Held
  <1>10. ASSUME NEW g \in Frames PROVE hs[g].owner # a
    <2>1. CASE g \in locals BY <1>0, <1>6, <1>7, <2>1, NamesAssumption
    <2>2. CASE g \notin locals
      <3>1. frames[g].owner = a /\ frames[g].state # "free" => g = a BY <1>0, <1>2, <2>2
      <3>2. frames[g].state = "free" => frames[g].owner = Nobody BY <1>1, <1>7 DEF Owners
      <3>3. hs[g] = frames[g] BY <1>6, <2>2
      <3>4. g = a => frames[g].owner # a BY <1>0, <1>2
      <3> QED BY <1>0, <3>1, <3>2, <3>3, <3>4, NamesAssumption
    <2> QED BY <2>1, <2>2
  <1>11. /\ hs[a] = frames[a]
         /\ \A g \in Frames : hs[g].state = "running" <=> frames[g].state = "running"
         /\ \A g \in Frames : hs[g].state = "event" <=> frames[g].state = "event"
    BY <1>0, <1>3, <1>6, <1>7
  <1> QED BY <1>6, <1>9, <1>10, <1>11 DEF a

\* Who waits for the coroutine that ends, and what co_spawn's frame owns.
LEMMA Continuation ==
    ASSUME NEW hs, Good(hs), NEW f \in Frames, hs[f].state = "running",
           NEW k \in Frames, k = hs[f].m_continuation
    PROVE  /\ hs[k].state = "awaiting" /\ hs[k].awaits = f /\ k # f
           /\ \A g \in Frames : hs[g].awaits = f => g = k
           /\ hs[k].kind = "spawn" =>
                 hs[k].owner = Nobody /\ \A g \in Frames : hs[g].owner = k <=> g = f
  <1>1. Waits(hs) /\ Owners(hs)
    BY DEF Good
  <1>2. hs[k].state = "awaiting" /\ hs[k].awaits = f /\ k # f
    BY <1>1 DEF Waits, Live
  <1>3. ASSUME NEW g \in Frames, hs[g].awaits = f PROVE g = k
    <2>1. hs[g].state = "awaiting" BY <1>1, <1>3, NamesAssumption DEF Waits
    <2> QED BY <1>1, <1>3, <2>1 DEF Waits
  <1>4. ASSUME hs[k].kind = "spawn"
        PROVE  hs[k].owner = Nobody /\ \A g \in Frames : hs[g].owner = k <=> g = f
    <2>1. /\ hs[k].owner = Nobody /\ \E g \in Frames : hs[g].owner = k
          /\ \A g \in Frames : hs[g].owner = k => hs[k].awaits = g
      BY <1>1, <1>2, <1>4 DEF Owners
    <2> QED BY <1>2, <2>1
  <1> QED BY <1>2, <1>3, <1>4

\* A coroutine without locals ends, and who waits for it goes on.
LEMMA Ends ==
    ASSUME NEW hs, Good(hs), NEW f \in Frames, hs[f].state = "running",
           \A g \in Frames : hs[g].owner # f,
           NEW k, k = hs[f].m_continuation, NEW gs, FrameTypes(gs),
           /\ gs[f].kind = hs[f].kind /\ gs[f].owner = hs[f].owner
           /\ gs[f].awaits = hs[f].awaits
           /\ gs[f].state = "done" /\ gs[f].m_continuation = noop,
           k \in Frames =>
               /\ gs[k].kind = hs[k].kind /\ gs[k].owner = hs[k].owner
               /\ gs[k].m_continuation = hs[k].m_continuation
               /\ gs[k].awaits = noop
               /\ gs[k].state = IF hs[k].kind = "spawn" THEN "escaped" ELSE "running",
           \A g \in Frames : g # f /\ g # k => gs[g] = hs[g]
    PROVE  Good(gs)
  <1>1. FrameTypes(hs) /\ Waits(hs) /\ Owners(hs)
    BY DEF Good
  <1>2. k \in Frames =>
            /\ hs[k].state = "awaiting" /\ hs[k].awaits = f /\ k # f
            /\ \A g \in Frames : hs[g].awaits = f => g = k
            /\ hs[k].kind = "spawn" =>
                  hs[k].owner = Nobody /\ \A g \in Frames : hs[g].owner = k <=> g = f
    BY Continuation
  <1>3. k \notin Frames => \A g \in Frames : hs[g].awaits # f
    <2>1. ASSUME NEW g \in Frames, hs[g].awaits = f PROVE k = g
      <3>1. hs[g].state = "awaiting" BY <1>1, <2>1, NamesAssumption DEF Waits
      <3> QED BY <1>1, <2>1, <3>1 DEF Waits
    <2> QED BY <2>1
  <1>4. ASSUME NEW g \in Frames
        PROVE  /\ gs[g].kind = hs[g].kind /\ gs[g].owner = hs[g].owner
               /\ gs[g].awaits = IF g = k THEN noop ELSE hs[g].awaits
               /\ gs[g].m_continuation = IF g = f THEN noop ELSE hs[g].m_continuation
               /\ gs[g].state = IF g = f THEN "done"
                                ELSE IF g = k THEN IF hs[k].kind = "spawn" THEN "escaped" ELSE "running"
                                ELSE hs[g].state
    <2>1. CASE g = f
      BY <1>2, <2>1
    <2>2. CASE g # f /\ g = k
      BY <2>2
    <2>3. CASE g # f /\ g # k
      BY <2>3
    <2> QED BY <2>1, <2>2, <2>3
  <1>5. \A g \in Frames : Live(gs[g]) <=> Live(hs[g]) /\ g # f
    BY <1>2, <1>4 DEF Live
  <1>6. Waits(gs)
    <2>1. ASSUME NEW h \in Frames, NEW g \in Frames
          PROVE  gs[h].state = "awaiting" /\ gs[h].awaits = g
                 <=> Live(gs[g]) /\ gs[g].m_continuation = h
      <3>1. hs[h].state = "awaiting" /\ hs[h].awaits = g
            <=> Live(hs[g]) /\ hs[g].m_continuation = h
        BY <1>1 DEF Waits
      <3>2. CASE g = f
        <4>1. ~Live(gs[g]) BY <1>5, <3>2
        <4>2. gs[h].state = "awaiting" /\ gs[h].awaits = f => FALSE
          <5>1. CASE h = f BY <1>4, <5>1
          <5>2. CASE h = k BY <1>4, <5>2, NamesAssumption
          <5>3. CASE h # f /\ h # k BY <1>2, <1>3, <1>4, <5>3
          <5> QED BY <5>1, <5>2, <5>3
        <4> QED BY <3>2, <4>1, <4>2
      <3>3. CASE g # f /\ h = f
        <4>1. hs[h].state # "awaiting" /\ gs[h].state # "awaiting" BY <1>4, <3>3
        <4> QED BY <1>4, <1>5, <3>1, <3>3, <4>1
      <3>4. CASE g # f /\ h # f /\ h = k
        <4>1. gs[h].state # "awaiting" BY <1>4, <3>4
        <4>2. ~(Live(hs[g]) /\ hs[g].m_continuation = h) BY <1>2, <3>1, <3>4
        <4> QED BY <1>4, <1>5, <3>4, <4>1, <4>2
      <3>5. CASE g # f /\ h # f /\ h # k
        BY <1>4, <1>5, <3>1, <3>5
      <3> QED BY <3>2, <3>3, <3>4, <3>5
    <2>2. ASSUME NEW h \in Frames PROVE gs[h].state = "awaiting" <=> gs[h].awaits # noop
      <3>1. hs[h].state = "awaiting" <=> hs[h].awaits # noop BY <1>1 DEF Waits
      <3> QED BY <1>2, <1>4, <3>1
    <2>3. ASSUME NEW h \in Frames, gs[h].awaits \in Frames PROVE gs[gs[h].awaits].kind = "task"
      <3>1. gs[h].awaits = hs[h].awaits BY <1>4, <2>3, NamesAssumption
      <3>2. hs[hs[h].awaits].kind = "task" BY <1>1, <2>3, <3>1 DEF Waits
      <3> QED BY <1>4, <2>3, <3>1, <3>2
    <2> QED BY <2>1, <2>2, <2>3 DEF Waits
  <1>7. Owners(gs)
    <2>1. \A set \in SUBSET Frames : (\A g \in set : gs[g].owner \in set) => set = {}
      BY <1>1, <1>4 DEF Owners
    <2>2. ASSUME NEW g \in Frames, gs[g].state = "free" PROVE gs[g] = FreeFrame
      <3>1. g # f /\ g # k BY <1>4, <2>2
      <3> QED BY <1>1, <2>2, <3>1 DEF Owners
    <2>3. ASSUME NEW g \in Frames, gs[g].state # "free"
          PROVE  /\ gs[g].owner \in Frames => Live(gs[gs[g].owner])
                 /\ gs[g].owner = Nobody <=> gs[g].kind = "spawn"
      <3>1. hs[g].state # "free"
        BY <1>2, <1>4, <2>3
      <3> QED BY <1>1, <1>4, <1>5, <3>1 DEF Owners
    <2>4. ASSUME NEW g \in Frames, gs[g].state # "free", gs[g].kind = "spawn"
          PROVE  /\ gs[g].state \in {"awaiting", "escaped"}
                 /\ \E h \in Frames : gs[h].owner = g
                 /\ \A h \in Frames : gs[h].owner = g =>
                       IF gs[g].state = "awaiting" THEN gs[g].awaits = h
                                                   ELSE gs[h].state = "done"
      <3>1. hs[g].state # "free" /\ hs[g].kind = "spawn" BY <1>2, <1>4, <2>4
      <3>2. /\ hs[g].state \in {"awaiting", "escaped"}
            /\ \E h \in Frames : hs[h].owner = g
            /\ \A h \in Frames : hs[h].owner = g =>
                       IF hs[g].state = "awaiting" THEN hs[g].awaits = h
                                                   ELSE hs[h].state = "done"
        BY <1>1, <3>1 DEF Owners
      <3>3. g # f BY <3>2
      <3>4. CASE g = k
        BY <1>2, <1>4, <3>1, <3>2, <3>3, <3>4
      <3>5. CASE g # k
        <4>1. gs[g].state = hs[g].state /\ gs[g].awaits = hs[g].awaits BY <1>4, <3>3, <3>5
        <4>2. \A h \in Frames : hs[h].state = "done" => gs[h].state = "done" BY <1>2, <1>4
        <4> QED BY <1>4, <3>2, <4>1, <4>2
      <3> QED BY <3>4, <3>5
    <2> QED BY <2>1, <2>2, <2>3, <2>4 DEF Owners
  <1> QED BY <1>6, <1>7 DEF Good

LEMMA TaskFinished ==
    ASSUME Sound(frames, calls), Actor \in Frames, NEW failed \in BOOLEAN, FinishTask(failed)
    PROVE  Sound(frames, calls)' /\ EventsKept
  <1> DEFINE f == Actor
             k == frames[f].m_continuation
             locals == Tree(f) \ {f}
             ended == [Free(frames, locals) EXCEPT ![f].state = "done", ![f].m_continuation = noop,
                                                   ![f].m_unhandled_exception = failed]
  <1>0. FALSE \in BOOLEAN
    OBVIOUS
  <1>1. PICK hs : Freed(hs)
    BY DEF Freed
  <1>2. /\ f \in Frames /\ calls # << >> /\ Droppable(Locals)
        /\ \/ k = noop /\ Return(ended)
           \/ k # noop /\ Is(k, "spawn") /\ SpawnEnds(ended, k, f, failed)
           \/ /\ k # noop /\ ~Is(k, "spawn")
              /\ Transfer([ended EXCEPT ![f].m_unhandled_exception = FALSE,
                                        ![k].awaits = noop], k)
    BY ActorRuns DEF FinishTask, Locals
  <1>3. /\ Good(hs) /\ KeepsHeld(hs) /\ hs[f] = frames[f]
        /\ \A g \in Frames : hs[g].owner # f
        /\ \A g \in Frames : hs[g].state = "running" <=> frames[g].state = "running"
        /\ \A g \in Frames : hs[g].state = "event" <=> frames[g].state = "event"
        /\ \A g \in Frames : hs[g] = frames[g] \/ hs[g] = FreeFrame
    BY <1>1, <1>2, LocalsFreed
  <1>4. frames[f].state = "running" /\ hs[f].state = "running" /\ k = hs[f].m_continuation
    BY <1>2, <1>3, ActorRuns
  <1>5. PICK h2 : Becomes(hs, h2, f, "done")
    BY DEF Becomes
  <1>6. PICK h3 : Continues(h2, h3, f, noop)
    BY DEF Continues
  <1>7. PICK h4 : Fails(h3, h4, f, failed)
    BY DEF Fails
  <1>8. ended = h4
    BY <1>1, <1>5, <1>6, <1>7 DEF Freed, Locals, Becomes, Continues, Fails
  <1>9. k \in Frames \cup {noop} /\ FrameTypes(hs)
    BY <1>2, <1>3, <1>4 DEF Good, FrameTypes
  <1> HIDE DEF f, k, locals, ended
  <1>10. FrameTypes(h2) /\ \A g \in Frames : g # f => h2[g] = hs[g]
    BY <1>2, <1>5, <1>9, PutState DEF States
  <1>11. /\ h2[f].state = "done" /\ h2[f].kind = hs[f].kind /\ h2[f].owner = hs[f].owner
         /\ h2[f].m_continuation = hs[f].m_continuation /\ h2[f].awaits = hs[f].awaits
    BY <1>2, <1>5, <1>9, PutState DEF States
  <1>12. /\ FrameTypes(h3) /\ \A g \in Frames : g # f => h3[g] = h2[g]
         /\ h3[f].state = "done" /\ h3[f].kind = hs[f].kind /\ h3[f].owner = hs[f].owner
         /\ h3[f].m_continuation = noop /\ h3[f].awaits = hs[f].awaits
    BY <1>2, <1>6, <1>10, <1>11, PutContinuation
  <1>13. /\ FrameTypes(h4) /\ \A g \in Frames : g # f => h4[g] = hs[g]
         /\ h4[f].state = "done" /\ h4[f].kind = hs[f].kind /\ h4[f].owner = hs[f].owner
         /\ h4[f].m_continuation = noop /\ h4[f].awaits = hs[f].awaits
    BY <1>2, <1>7, <1>10, <1>12, PutException
  <1>14. CASE k = noop
    <2>1. Return(h4) BY <1>2, <1>8, <1>14
    <2>2. Good(h4)
      <3>1. k \notin Frames BY <1>14, NamesAssumption
      <3> QED BY <1>2, <1>3, <1>4, <1>13, <3>1, Ends
    <2>3. \A g \in Frames : h4[g].owner = hs[g].owner /\ (hs[g].state # "free" => h4[g].state # "free")
      BY <1>13
    <2>4. KeepsHeld(h4) BY <1>3, <2>3, StillHeld
    <2>5. \A g \in Frames : h4[g].state = "running" <=> frames[g].state = "running" /\ g # f
      BY <1>3, <1>13
    <2>6. Sound(frames, calls)' /\ \A g \in Frames : frames'[g].state = h4[g].state
      BY <1>2, <2>1, <2>2, <2>4, <2>5, Leaves DEF f
    <2>7. EventsKept BY <1>3, <1>4, <1>13, <2>6 DEF EventsKept
    <2> QED BY <2>6, <2>7
  <1>15. ASSUME k # noop
         PROVE  /\ k \in Frames
                /\ hs[k].state = "awaiting" /\ hs[k].awaits = f /\ k # f
                /\ \A g \in Frames : hs[g].awaits = f => g = k
                /\ hs[k].kind = "spawn" =>
                      hs[k].owner = Nobody /\ \A g \in Frames : hs[g].owner = k <=> g = f
                /\ hs[k] = frames[k]
    <2>1. k \in Frames BY <1>9, <1>15
    <2>2. FreeFrame.state = "free" BY DEF FreeFrame, Frame
    <2>3. /\ hs[k].state = "awaiting" /\ hs[k].awaits = f /\ k # f
          /\ \A g \in Frames : hs[g].awaits = f => g = k
          /\ hs[k].kind = "spawn" =>
                hs[k].owner = Nobody /\ \A g \in Frames : hs[g].owner = k <=> g = f
      BY <1>2, <1>3, <1>4, <2>1, Continuation
    <2> QED BY <1>3, <2>1, <2>2, <2>3
  <1>16. CASE k # noop /\ Is(k, "spawn") /\ ~failed
    <2>1. hs[k].kind = "spawn" BY <1>15, <1>16 DEF Is
    <2> DEFINE two == {k, f}
    <2>2. Return(Free(h4, two)) BY <1>2, <1>8, <1>16 DEF SpawnEnds
    <2>3. Free(h4, two) = Free(hs, two)
      <3>1. \A g \in Frames : g \notin two => h4[g] = hs[g] BY <1>13
      <3> QED BY <3>1 DEF Free
    <2>4. two \in SUBSET Frames BY <1>2, <1>15, <1>16
    <2>5. \A g \in Frames : hs[g].state = "awaiting" => (g \in two <=> hs[g].awaits \in two)
      <3>1. \A g \in Frames : hs[g].awaits # k
        BY <1>3, <1>15, <1>16, <2>1 DEF Good, Waits
      <3> QED BY <1>4, <1>15, <1>16, <3>1
    <2>6. \A g \in Frames : hs[g].state # "free" /\ hs[g].owner \in two => g \in two
      BY <1>3, <1>15, <1>16, <2>1
    <2>7. \A g \in two : hs[g].owner \in Frames /\ hs[hs[g].owner].kind = "spawn" => hs[g].owner \in two
      BY <1>2, <1>15, <1>16, <2>1, NamesAssumption
    <2> HIDE DEF two
    <2>8. PICK gs : gs = Free(hs, two) OBVIOUS
    <2>9. Good(gs) /\ \A g \in Frames : gs[g] = IF g \in two THEN FreeFrame ELSE hs[g]
      BY <1>3, <2>4, <2>5, <2>6, <2>7, <2>8, Frees
    <2>10. FreeFrame.state = "free" BY DEF FreeFrame, Frame
    <2>11. ~Held(k) /\ ~Held(f)
      BY <1>2, <1>3, <1>15, <1>16, <2>1, NamesAssumption DEF Held
    <2>12. KeepsHeld(gs)
      <3>1. ASSUME NEW g \in Frames, Held(g) PROVE gs[g] = hs[g]
        BY <2>9, <2>11, <3>1 DEF two
      <3> QED BY <1>3, <3>1 DEF KeepsHeld
    <2>13. \A g \in Frames : gs[g].state = "running" <=> frames[g].state = "running" /\ g # f
      BY <1>3, <1>15, <1>16, <2>9, <2>10 DEF two
    <2>14. Sound(frames, calls)' /\ \A g \in Frames : frames'[g].state = gs[g].state
      BY <1>2, <2>2, <2>3, <2>8, <2>9, <2>12, <2>13, Leaves DEF f
    <2>15. EventsKept BY <1>3, <1>4, <1>15, <1>16, <2>9, <2>10, <2>14 DEF EventsKept, two
    <2> QED BY <2>14, <2>15
  <1>17. CASE k # noop /\ Is(k, "spawn") /\ failed
    <2>1. hs[k].kind = "spawn" /\ k \in Frames /\ k # f BY <1>15, <1>17 DEF Is
    <2>2. PICK h5 : Becomes(h4, h5, k, "escaped") BY DEF Becomes
    <2>3. PICK h6 : WaitsFor(h5, h6, k, noop) BY DEF WaitsFor
    <2>4. PICK h7 : Fails(h6, h7, f, FALSE) BY DEF Fails
    <2>5. Escape(h7)
      BY <1>2, <1>8, <1>17, <2>2, <2>3, <2>4 DEF SpawnEnds, Becomes, WaitsFor, Fails
    <2>6. /\ FrameTypes(h5) /\ \A g \in Frames : g # k => h5[g] = h4[g]
          /\ h5[k].state = "escaped" /\ h5[k].kind = h4[k].kind /\ h5[k].owner = h4[k].owner
          /\ h5[k].m_continuation = h4[k].m_continuation
      BY <1>13, <2>1, <2>2, PutState DEF States
    <2>7. /\ FrameTypes(h6) /\ \A g \in Frames : g # k => h6[g] = h5[g]
          /\ h6[k].state = "escaped" /\ h6[k].kind = h4[k].kind /\ h6[k].owner = h4[k].owner
          /\ h6[k].m_continuation = h4[k].m_continuation /\ h6[k].awaits = noop
      BY <2>1, <2>3, <2>6, PutAwaits
    <2>8. /\ FrameTypes(h7) /\ \A g \in Frames : g # f => h7[g] = h6[g]
          /\ h7[f].state = h6[f].state /\ h7[f].kind = h6[f].kind /\ h7[f].owner = h6[f].owner
          /\ h7[f].m_continuation = h6[f].m_continuation /\ h7[f].awaits = h6[f].awaits
      <3>1. PICK x \in BOOLEAN : Fails(h6, h7, f, x) BY <1>0, <2>4, Zenon
      <3> QED BY <1>2, <2>7, <3>1, PutException
    <2>9. /\ h7[f].kind = hs[f].kind /\ h7[f].owner = hs[f].owner /\ h7[f].awaits = hs[f].awaits
          /\ h7[f].state = "done" /\ h7[f].m_continuation = noop
      BY <1>2, <1>13, <2>1, <2>6, <2>7, <2>8
    <2>10. /\ h7[k].kind = hs[k].kind /\ h7[k].owner = hs[k].owner
           /\ h7[k].m_continuation = hs[k].m_continuation /\ h7[k].awaits = noop
           /\ h7[k].state = "escaped"
      BY <1>13, <2>1, <2>7, <2>8
    <2>11. \A g \in Frames : g # f /\ g # k => h7[g] = hs[g]
      BY <1>13, <2>6, <2>7, <2>8
    <2>12. Good(h7)
      <3>1. /\ Good(hs) /\ f \in Frames /\ hs[f].state = "running" /\ FrameTypes(h7)
            /\ \A g \in Frames : hs[g].owner # f
            /\ k = hs[f].m_continuation
        BY <1>2, <1>3, <1>4, <2>8
      <3>2. k \in Frames =>
                /\ h7[k].kind = hs[k].kind /\ h7[k].owner = hs[k].owner
                /\ h7[k].m_continuation = hs[k].m_continuation /\ h7[k].awaits = noop
                /\ h7[k].state = IF hs[k].kind = "spawn" THEN "escaped" ELSE "running"
        BY <2>1, <2>10
      <3> QED BY <3>1, <3>2, <2>9, <2>11, Ends
    <2>13. \A g \in Frames : h7[g].owner = hs[g].owner /\ (hs[g].state # "free" => h7[g].state # "free")
      BY <2>9, <2>10, <2>11
    <2>14. KeepsHeld(h7) BY <1>3, <2>13, StillHeld
    <2>15. \A g \in Frames : h7[g].state = "running" <=> frames[g].state = "running" /\ g # f
      BY <1>3, <1>15, <1>17, <2>9, <2>10, <2>11
    <2>16. Sound(frames, calls)' /\ \A g \in Frames : frames'[g].state = h7[g].state
      BY <1>2, <2>5, <2>12, <2>14, <2>15, Leaves DEF f
    <2>17. EventsKept
      BY <1>3, <1>4, <1>15, <1>17, <2>9, <2>10, <2>11, <2>16 DEF EventsKept
    <2> QED BY <2>16, <2>17
  <1>18. CASE k # noop /\ ~Is(k, "spawn")
    <2>1. hs[k].kind # "spawn" /\ k \in Frames /\ k # f BY <1>15, <1>18 DEF Is
    <2>2. PICK h5 : Fails(h4, h5, f, FALSE) BY DEF Fails
    <2>3. PICK h6 : WaitsFor(h5, h6, k, noop) BY DEF WaitsFor
    <2>4. Becomes(h6, frames', k, "running") /\ calls' = [calls EXCEPT ![Len(calls)].cur = k]
      BY <1>2, <1>8, <1>18, <2>2, <2>3 DEF Transfer, Becomes, WaitsFor, Fails
    <2>5. /\ FrameTypes(h5) /\ \A g \in Frames : g # f => h5[g] = h4[g]
          /\ h5[f].state = h4[f].state /\ h5[f].kind = h4[f].kind /\ h5[f].owner = h4[f].owner
          /\ h5[f].m_continuation = h4[f].m_continuation /\ h5[f].awaits = h4[f].awaits
      <3>1. PICK x \in BOOLEAN : Fails(h4, h5, f, x) BY <1>0, <2>2, Zenon
      <3> QED BY <1>2, <1>13, <3>1, PutException
    <2>6. /\ FrameTypes(h6) /\ \A g \in Frames : g # k => h6[g] = h5[g]
          /\ h6[k].kind = h5[k].kind /\ h6[k].owner = h5[k].owner
          /\ h6[k].m_continuation = h5[k].m_continuation /\ h6[k].awaits = noop
      BY <2>1, <2>3, <2>5, PutAwaits
    <2>7. PICK h7 : h7 = frames' OBVIOUS
    <2>8. /\ FrameTypes(h7) /\ \A g \in Frames : g # k => h7[g] = h6[g]
          /\ h7[k].state = "running" /\ h7[k].kind = h6[k].kind /\ h7[k].owner = h6[k].owner
          /\ h7[k].m_continuation = h6[k].m_continuation /\ h7[k].awaits = h6[k].awaits
      <3>1. Becomes(h6, h7, k, "running") BY <2>4, <2>7
      <3> QED BY <2>1, <2>6, <3>1, PutState DEF States
    <2>9. /\ h7[f].kind = hs[f].kind /\ h7[f].owner = hs[f].owner /\ h7[f].awaits = hs[f].awaits
          /\ h7[f].state = "done" /\ h7[f].m_continuation = noop
      BY <1>2, <1>13, <2>1, <2>5, <2>6, <2>8
    <2>10. /\ h7[k].kind = hs[k].kind /\ h7[k].owner = hs[k].owner
           /\ h7[k].m_continuation = hs[k].m_continuation /\ h7[k].awaits = noop
           /\ h7[k].state = "running"
      BY <1>13, <2>1, <2>5, <2>6, <2>8
    <2>11. \A g \in Frames : g # f /\ g # k => h7[g] = hs[g]
      BY <1>13, <2>5, <2>6, <2>8
    <2>12. Good(h7)
      <3>1. /\ Good(hs) /\ f \in Frames /\ hs[f].state = "running" /\ FrameTypes(h7)
            /\ \A g \in Frames : hs[g].owner # f
            /\ k = hs[f].m_continuation
        BY <1>2, <1>3, <1>4, <2>8
      <3>2. k \in Frames =>
                /\ h7[k].kind = hs[k].kind /\ h7[k].owner = hs[k].owner
                /\ h7[k].m_continuation = hs[k].m_continuation /\ h7[k].awaits = noop
                /\ h7[k].state = IF hs[k].kind = "spawn" THEN "escaped" ELSE "running"
        BY <2>1, <2>10
      <3> QED BY <3>1, <3>2, <2>9, <2>11, Ends
    <2>13. \A g \in Frames : h7[g].owner = hs[g].owner /\ (hs[g].state # "free" => h7[g].state # "free")
      BY <2>9, <2>10, <2>11
    <2>14. KeepsHeld(h7) BY <1>3, <2>13, StillHeld
    <2>15. \A g \in Frames : h7[g].state = "running" <=> g = k \/ (frames[g].state = "running" /\ g # f)
      BY <1>3, <2>9, <2>10, <2>11
    <2>16. frames[k].state # "running" BY <1>15, <1>18
    <2>17. CallTypes(calls') /\ Running(h7, calls')
      BY <1>2, <2>1, <2>4, <2>14, <2>15, <2>16, StackJump DEF f
    <2>18. EventsKept
      BY <1>3, <1>4, <1>15, <1>18, <2>7, <2>9, <2>10, <2>11 DEF EventsKept
    <2> QED BY <2>7, <2>12, <2>17, <2>18 DEF Sound
  <1> QED BY <1>14, <1>16, <1>17, <1>18

LEMMA GeneratorFinished ==
    ASSUME Sound(frames, calls), Actor \in Frames, NEW failed \in BOOLEAN, FinishGenerator(failed)
    PROVE  Sound(frames, calls)' /\ EventsKept
  <1> DEFINE f == Actor
             k == frames[f].m_continuation
             ended == [Free(frames, Locals) EXCEPT ![f].state = "done"]
  <1>1. PICK hs : Freed(hs)
    BY DEF Freed
  <1>2. /\ f \in Frames /\ calls # << >> /\ Droppable(Locals)
        /\ frames[f].kind = "generator" /\ frames[f].state = "running"
        /\ Return(ended) \/ Escape(ended)
    BY ActorRuns DEF FinishGenerator, Locals, Is
  <1>3. /\ Good(hs) /\ KeepsHeld(hs) /\ hs[f] = frames[f]
        /\ \A g \in Frames : hs[g].owner # f
        /\ \A g \in Frames : hs[g].state = "running" <=> frames[g].state = "running"
        /\ \A g \in Frames : hs[g].state = "event" <=> frames[g].state = "event"
    BY <1>1, <1>2, LocalsFreed
  <1>4. PICK h2 : Becomes(hs, h2, f, "done")
    BY DEF Becomes
  <1>5. Return(h2) \/ Escape(h2)
    BY <1>1, <1>2, <1>4 DEF Freed, Becomes
  <1>6. FrameTypes(hs) /\ Waits(hs) /\ FrameTypes(frames) /\ Waits(frames)
    BY <1>3 DEF Good, Sound
  <1>7. k = noop /\ k \notin Frames /\ k = hs[f].m_continuation
    <2>1. k \in Frames \cup {noop} BY <1>2, <1>6 DEF FrameTypes
    <2>2. k \in Frames => frames[k].awaits = f BY <1>2, <1>6 DEF Waits, Live
    <2>3. k \notin Frames BY <1>2, <1>6, <2>2 DEF Waits
    <2> QED BY <1>3, <2>1, <2>3
  <1> HIDE DEF f, k, ended
  <1>8. /\ FrameTypes(h2) /\ \A g \in Frames : g # f => h2[g] = hs[g]
        /\ h2[f].state = "done" /\ h2[f].kind = hs[f].kind /\ h2[f].owner = hs[f].owner
        /\ h2[f].m_continuation = hs[f].m_continuation /\ h2[f].awaits = hs[f].awaits
    BY <1>2, <1>4, <1>6, PutState DEF States
  <1>9. Good(h2)
    BY <1>2, <1>3, <1>7, <1>8, Ends
  <1>10. \A g \in Frames : h2[g].owner = hs[g].owner /\ (hs[g].state # "free" => h2[g].state # "free")
    BY <1>8
  <1>11. KeepsHeld(h2)
    BY <1>3, <1>10, StillHeld
  <1>12. \A g \in Frames : h2[g].state = "running" <=> frames[g].state = "running" /\ g # f
    BY <1>3, <1>8
  <1>13. Sound(frames, calls)' /\ \A g \in Frames : frames'[g].state = h2[g].state
    BY <1>2, <1>5, <1>9, <1>11, <1>12, Leaves DEF f
  <1>14. EventsKept
    BY <1>2, <1>3, <1>8, <1>13 DEF EventsKept
  <1> QED BY <1>13, <1>14

LEMMA Spawned ==
    ASSUME Sound(frames, calls), NEW f \in Frames, co_spawn(f)
    PROVE  Sound(frames, calls)' /\ EventsKept
  <1> DEFINE s == Fresh
             new == Frame("spawn", "awaiting", Nobody)
             moved == [frames EXCEPT ![s] = new, ![f].owner = s]
             h3 == AwaitedBy(moved, f, s)
             entry == [root |-> s, cur |-> f, how |-> "spawn"]
  <1>1. /\ frames[f].state \in {"new", "yielded"} /\ frames[f].kind = "task"
        /\ frames[f].owner = Actor /\ FreeFrames # {}
        /\ \A g \in Frames : frames[g].awaits # f
        /\ frames' = [h3 EXCEPT ![f].state = "running"]
        /\ calls' = Append(calls, entry)
    BY DEF co_spawn, Owns, Is, Resumable, Awaited, Call
  <1>2. /\ s \in Frames /\ frames[s] = FreeFrame /\ frames[s].state = "free"
        /\ \A g \in Frames : frames[g].owner # s /\ frames[g].awaits # s
                             /\ (Live(frames[g]) => frames[g].m_continuation # s)
    BY <1>1, FreshIsFree
  <1>3. FrameTypes(frames) /\ Waits(frames) /\ Owners(frames)
    BY DEF Sound, Good
  <1>4. Actor = Main \/ (Actor \in Frames /\ frames[Actor].state = "running")
    BY ActorRuns
  <1>5. f # s
    BY <1>1, <1>2
  <1>6. /\ new.kind = "spawn" /\ new.state = "awaiting" /\ new.owner = Nobody
        /\ new.m_continuation = noop /\ new.m_unhandled_exception = FALSE
        /\ new = [kind |-> "spawn", state |-> "awaiting", owner |-> Nobody,
                  m_continuation |-> noop, m_unhandled_exception |-> FALSE, awaits |-> noop]
    BY DEF Frame
  <1>7. PICK h1 : h1 = [frames EXCEPT ![s] = new]
    OBVIOUS
  <1>8. /\ h1[s] = new /\ \A g \in Frames : g # s => h1[g] = frames[g]
        /\ FrameTypes(h1)
    <2>1. new \in [kind : Kinds, state : States, owner : Frames \cup {Main, Nobody},
                   m_continuation : Frames \cup {noop}, m_unhandled_exception : BOOLEAN,
                   awaits : Frames \cup {noop}]
      BY DEF Frame, Kinds, States
    <2> HIDE DEF new
    <2> QED BY <1>2, <1>3, <1>7, <2>1 DEF FrameTypes
  <1>9. PICK h2 : Owned(h1, h2, f, s)
    BY DEF Owned
  <1>10. PICK h4 : Continues(h2, h4, f, s)
    BY DEF Continues
  <1>11. PICK h5 : Becomes(h4, h5, s, "awaiting")
    BY DEF Becomes
  <1>12. PICK h6 : WaitsFor(h5, h6, s, f)
    BY DEF WaitsFor
  <1>13. h3 = h6
    BY <1>7, <1>9, <1>10, <1>11, <1>12 DEF AwaitedBy, Owned, Continues, Becomes, WaitsFor
  <1>14. PICK h7 : h7 = frames' /\ Becomes(h6, h7, f, "running")
    BY <1>1, <1>13 DEF Becomes
  <1> HIDE DEF s, new, moved, h3, entry
  <1>15. /\ FrameTypes(h2) /\ \A g \in Frames : g # f => h2[g] = h1[g]
         /\ h2[f].owner = s /\ h2[f].kind = h1[f].kind /\ h2[f].state = h1[f].state
         /\ h2[f].m_continuation = h1[f].m_continuation /\ h2[f].awaits = h1[f].awaits
    BY <1>2, <1>8, <1>9, PutOwner
  <1>16. /\ FrameTypes(h4) /\ \A g \in Frames : g # f => h4[g] = h2[g]
         /\ h4[f].m_continuation = s
         /\ h4[f].kind = h2[f].kind /\ h4[f].owner = h2[f].owner
         /\ h4[f].state = h2[f].state /\ h4[f].awaits = h2[f].awaits
    BY <1>2, <1>10, <1>15, PutContinuation
  <1>17. /\ FrameTypes(h5) /\ \A g \in Frames : g # s => h5[g] = h4[g]
         /\ h5[s].state = "awaiting"
         /\ h5[s].kind = h4[s].kind /\ h5[s].owner = h4[s].owner
         /\ h5[s].m_continuation = h4[s].m_continuation /\ h5[s].awaits = h4[s].awaits
    BY <1>2, <1>11, <1>16, PutState DEF States
  <1>18. /\ FrameTypes(h6) /\ \A g \in Frames : g # s => h6[g] = h5[g]
         /\ h6[s].awaits = f
         /\ h6[s].kind = h5[s].kind /\ h6[s].owner = h5[s].owner
         /\ h6[s].state = h5[s].state /\ h6[s].m_continuation = h5[s].m_continuation
    BY <1>2, <1>12, <1>17, PutAwaits
  <1>19. /\ FrameTypes(h7) /\ \A g \in Frames : g # f => h7[g] = h6[g]
         /\ h7[f].state = "running"
         /\ h7[f].kind = h6[f].kind /\ h7[f].owner = h6[f].owner
         /\ h7[f].m_continuation = h6[f].m_continuation /\ h7[f].awaits = h6[f].awaits
    BY <1>2, <1>14, <1>18, PutState DEF States
  <1>20. /\ h7[s].kind = "spawn" /\ h7[s].state = "awaiting" /\ h7[s].owner = Nobody
         /\ h7[s].m_continuation = noop /\ h7[s].awaits = f
    BY <1>2, <1>5, <1>6, <1>8, <1>15, <1>16, <1>17, <1>18, <1>19
  <1>21. /\ h7[f].kind = "task" /\ h7[f].state = "running" /\ h7[f].owner = s
         /\ h7[f].m_continuation = s /\ h7[f].awaits = frames[f].awaits
    BY <1>1, <1>2, <1>5, <1>8, <1>15, <1>16, <1>17, <1>18, <1>19
  <1>22. \A g \in Frames : g # f /\ g # s => h7[g] = frames[g]
    BY <1>8, <1>15, <1>16, <1>17, <1>18, <1>19
  <1>23. Waits(h7)
    <2>1. ASSUME NEW h \in Frames, NEW g \in Frames
          PROVE  h7[h].state = "awaiting" /\ h7[h].awaits = g
                 <=> Live(h7[g]) /\ h7[g].m_continuation = h
      <3>1. frames[h].state = "awaiting" /\ frames[h].awaits = g
            <=> Live(frames[g]) /\ frames[g].m_continuation = h
        BY <1>3 DEF Waits
      <3>2. CASE h = s
        <4>1. Live(h7[f]) BY <1>21 DEF Live
        <4>2. g # f => ~(Live(h7[g]) /\ h7[g].m_continuation = s)
          BY <1>2, <1>20, <1>22, NamesAssumption
        <4> QED BY <1>20, <1>21, <3>2, <4>1, <4>2
      <3>3. CASE h # s /\ g = s
        <4>1. h7[h].awaits # s BY <1>2, <1>21, <1>22, <3>3
        <4>2. h7[s].m_continuation # h BY <1>20, NamesAssumption
        <4> QED BY <3>3, <4>1, <4>2
      <3>4. CASE h # s /\ g = f
        <4>1. h7[h].awaits # f BY <1>1, <1>21, <1>22, <3>4
        <4> QED BY <1>21, <3>4, <4>1
      <3>5. CASE h = f /\ g # s /\ g # f
        <4>1. frames[f].state # "awaiting" BY <1>1
        <4> QED BY <1>5, <1>21, <1>22, <3>1, <3>5, <4>1
      <3>6. CASE h # f /\ h # s /\ g # s /\ g # f
        BY <1>22, <3>1, <3>6
      <3> QED BY <3>2, <3>3, <3>4, <3>5, <3>6
    <2>2. ASSUME NEW h \in Frames PROVE h7[h].state = "awaiting" <=> h7[h].awaits # noop
      <3>1. CASE h = s BY <1>20, <3>1, NamesAssumption
      <3>2. CASE h = f BY <1>1, <1>3, <1>21, <3>2 DEF Waits
      <3>3. CASE h # s /\ h # f BY <1>3, <1>22, <3>3 DEF Waits
      <3> QED BY <3>1, <3>2, <3>3
    <2>3. ASSUME NEW h \in Frames, h7[h].awaits \in Frames PROVE h7[h7[h].awaits].kind = "task"
      <3>1. CASE h = s BY <1>20, <1>21, <3>1
      <3>2. CASE h # s
        <4>1. h7[h].awaits = frames[h].awaits BY <1>21, <1>22, <3>2
        <4>2. frames[frames[h].awaits].kind = "task" BY <1>3, <2>3, <4>1 DEF Waits
        <4>3. frames[h].awaits # s /\ frames[h].awaits # f BY <1>1, <1>2
        <4> QED BY <1>22, <2>3, <4>1, <4>2, <4>3
      <3> QED BY <3>1, <3>2
    <2> QED BY <2>1, <2>2, <2>3 DEF Waits
  <1>24. Owners(h7)
    <2>1. ASSUME NEW set \in SUBSET Frames, \A g \in set : h7[g].owner \in set PROVE set = {}
      <3>1. s \notin set BY <1>20, <2>1, NamesAssumption
      <3>2. f \notin set BY <1>21, <2>1, <3>1
      <3>3. \A g \in set : frames[g].owner \in set BY <1>22, <2>1, <3>1, <3>2
      <3> QED BY <1>3, <3>3 DEF Owners
    <2>2. ASSUME NEW g \in Frames, h7[g].state = "free" PROVE h7[g] = FreeFrame
      BY <1>3, <1>20, <1>21, <1>22, <2>2 DEF Owners
    <2>3. \A g \in Frames : Live(frames[g]) => Live(h7[g])
      BY <1>20, <1>21, <1>22 DEF Live
    <2>4. ASSUME NEW g \in Frames, h7[g].state # "free"
          PROVE  /\ h7[g].owner \in Frames => Live(h7[h7[g].owner])
                 /\ h7[g].owner = Nobody <=> h7[g].kind = "spawn"
      <3>1. CASE g = s BY <1>20, <3>1, NamesAssumption
      <3>2. CASE g = f
        <4>1. Live(h7[s]) BY <1>20 DEF Live
        <4> QED BY <1>2, <1>21, <3>2, <4>1, NamesAssumption
      <3>3. CASE g # s /\ g # f
        BY <1>3, <1>22, <2>3, <2>4, <3>3 DEF Owners
      <3> QED BY <3>1, <3>2, <3>3
    <2>5. ASSUME NEW g \in Frames, h7[g].state # "free", h7[g].kind = "spawn"
          PROVE  /\ h7[g].state \in {"awaiting", "escaped"}
                 /\ \E h \in Frames : h7[h].owner = g
                 /\ \A h \in Frames : h7[h].owner = g =>
                       IF h7[g].state = "awaiting" THEN h7[g].awaits = h
                                                   ELSE h7[h].state = "done"
      <3>1. CASE g = s
        <4>1. \A h \in Frames : h7[h].owner = s => h = f
          BY <1>2, <1>20, <1>22, NamesAssumption
        <4> QED BY <1>20, <1>21, <3>1, <4>1
      <3>2. CASE g # s
        <4>1. g # f /\ h7[g] = frames[g] BY <1>21, <1>22, <2>5, <3>2
        <4>2. /\ frames[g].state \in {"awaiting", "escaped"}
              /\ \E h \in Frames : frames[h].owner = g
              /\ \A h \in Frames : frames[h].owner = g =>
                       IF frames[g].state = "awaiting" THEN frames[g].awaits = h
                                                       ELSE frames[h].state = "done"
          BY <1>3, <2>5, <4>1 DEF Owners
        <4>3. frames[f].owner # g BY <1>1, <1>4, <4>2, NamesAssumption
        <4>4. frames[s].owner = Nobody BY <1>2 DEF FreeFrame, Frame
        <4>5. \A h \in Frames : h7[h].owner = g <=> frames[h].owner = g
          BY <1>20, <1>21, <1>22, <3>2, <4>3, <4>4
        <4>6. \A h \in Frames : frames[h].state = "done" => h7[h].state = "done"
          BY <1>1, <1>2, <1>22
        <4> QED BY <4>1, <4>2, <4>5, <4>6
      <3> QED BY <3>1, <3>2
    <2> QED BY <2>1, <2>2, <2>4, <2>5 DEF Owners
  <1>25. KeepsHeld(h7)
    BY <1>1, <1>2, <1>22 DEF KeepsHeld, Held
  <1>26. CallTypes(calls') /\ Running(h7, calls')
    <2>1. \A g \in Frames : h7[g].state = "running" <=> g = f \/ frames[g].state = "running"
      BY <1>2, <1>20, <1>21, <1>22
    <2>2. frames[f].state # "running" /\ "spawn" # "task" BY <1>1
    <2> QED BY <1>1, <1>2, <1>25, <2>1, <2>2, StackPush DEF entry
  <1>27. EventsKept
    BY <1>1, <1>2, <1>14, <1>20, <1>21, <1>22 DEF EventsKept
  <1> QED BY <1>14, <1>19, <1>23, <1>24, <1>26, <1>27 DEF Sound, Good

\* What Main and the coroutines do.
LEMMA TasksGoOn ==
    ASSUME Sound(frames, calls), Acts \/ Suspends
    PROVE  Sound(frames, calls)' /\ EventsKept
  <1>1. CASE Acts
    <2>1. ASSUME NEW kind \in {"task", "generator"}, Create(kind)
          PROVE  Sound(frames, calls)' /\ EventsKept
      BY <2>1, Created
    <2>2. ASSUME NEW f \in Frames, resume(f) \/ resume_coroutine_callback(f) \/ next(f)
          PROVE  Sound(frames, calls)' /\ EventsKept
      <3>1. Resumable(f) BY <2>2 DEF resume, resume_coroutine_callback, next
      <3> QED BY <2>2, <3>1, Resumes
    <2>3. ASSUME NEW f \in Frames, co_spawn(f) PROVE Sound(frames, calls)' /\ EventsKept
      BY <2>3, Spawned
    <2>4. ASSUME NEW f \in Frames, Drop(f) PROVE Sound(frames, calls)' /\ EventsKept
      BY <2>4, Dropped
    <2>5. ASSUME NEW f \in Frames, release(f) PROVE Sound(frames, calls)' /\ EventsKept
      BY <2>5, Released
    <2> QED BY <1>1, <2>1, <2>2, <2>3, <2>4, <2>5 DEF Acts
  <1>2. CASE Suspends
    <2>1. Actor \in Frames BY <1>2 DEF Suspends
    <2>2. CASE Yield \/ \E f \in Frames : YieldTo(f) BY <2>1, <2>2, Yields
    <2>3. ASSUME NEW f \in Frames, Await(f) \/ Join(f) PROVE Sound(frames, calls)' /\ EventsKept
      BY <2>1, <2>3, Awaits
    <2>4. ASSUME NEW failed \in BOOLEAN, FinishTask(failed) \/ FinishGenerator(failed)
          PROVE  Sound(frames, calls)' /\ EventsKept
      BY <2>1, <2>4, TaskFinished, GeneratorFinished
    <2> QED BY <1>2, <2>2, <2>3, <2>4 DEF Suspends, Finish
  <1> QED BY <1>1, <1>2

-----------------------------------------------------------------------------
(* The event *)

\* A coroutine begins to wait for the event.
LEMMA WaitBegins ==
    ASSUME Sound(frames, calls), Wait
    PROVE  /\ Sound(frames, calls)'
           /\ Actor \in Frames /\ frames[Actor].state = "running"
           /\ \A g \in Frames : frames'[g].state = "event" <=> g = Actor \/ frames[g].state = "event"
  <1>1. PICK fs : Becomes(frames, fs, Actor, "event")
    BY DEF Becomes
  <1>2. Actor \in Frames /\ Return(fs)
    BY <1>1 DEF Wait, Becomes
  <1>3. /\ calls # << >> /\ Good(fs) /\ KeepsHeld(fs)
        /\ frames[Actor].state = "running"
        /\ \A g \in Frames : fs[g].state = IF g = Actor THEN "event" ELSE frames[g].state
        /\ \A g \in Frames : fs[g].state = "running" <=> frames[g].state = "running" /\ g # Actor
    BY <1>1, <1>2, Suspended
  <1>4. Sound(frames, calls)' /\ \A g \in Frames : frames'[g].state = fs[g].state
    BY <1>2, <1>3, Leaves
  <1> QED BY <1>2, <1>3, <1>4

\* on_notify resumes a coroutine.
LEMMA VisitBegins ==
    ASSUME Sound(frames, calls), walk \in Frames, frames[walk].state = "event", Visit
    PROVE  /\ Sound(frames, calls)'
           /\ \A g \in Frames : frames'[g].state = "event" <=> g # walk /\ frames[g].state = "event"
  <1>1. Call(frames, walk, walk, "callback")
    BY DEF Visit
  <1>2. Good(frames) /\ KeepsHeld(frames)
    BY HeldAtFirst DEF Sound
  <1>3. /\ Sound(frames, calls)'
        /\ \A g \in Frames : frames'[g].state = IF g = walk THEN "running" ELSE frames[g].state
    BY <1>1, <1>2, Enters DEF Active
  <1> QED BY <1>1, <1>3

LEMMA FirstSound == TasksInit => Sound(frames, calls)
  <1> SUFFICES ASSUME TasksInit PROVE Sound(frames, calls)
    OBVIOUS
  <1>1. \A f \in Frames : frames[f] = FreeFrame
    BY DEF TasksInit
  <1>2. /\ FreeFrame.kind = "none" /\ FreeFrame.state = "free" /\ FreeFrame.owner = Nobody
        /\ FreeFrame.m_continuation = noop /\ FreeFrame.awaits = noop
    BY DEF FreeFrame, Frame
  <1>3. FrameTypes(frames)
    <2>1. FreeFrame \in [kind : Kinds, state : States, owner : Frames \cup {Main, Nobody},
                         m_continuation : Frames \cup {noop}, m_unhandled_exception : BOOLEAN,
                         awaits : Frames \cup {noop}]
      BY DEF FreeFrame, Frame, Kinds, States
    <2> QED BY <2>1 DEF FrameTypes, TasksInit
  <1>4. Waits(frames)
    BY <1>1, <1>2, NamesAssumption DEF Waits, Live
  <1>5. Owners(frames)
    BY <1>1, <1>2, NamesAssumption DEF Owners
  <1>6. calls = << >>
    BY DEF TasksInit
  <1>7. CallTypes(calls) /\ Running(frames, calls)
    BY <1>1, <1>2, <1>6 DEF CallTypes, Running
  <1> QED BY <1>3, <1>4, <1>5, <1>7 DEF Sound, Good

-----------------------------------------------------------------------------
(* Lists of coroutines *)

IsPath(links, p) == Path(links, p, Chain(links, p))
On(links, p) == {n \in Nodes : \E i \in 1..Len(Chain(links, p)) : Chain(links, p)[i] = n}

LEMMA OnPath ==
    ASSUME NEW links, NEW p, NEW q, Path(links, p, q)
    PROVE  /\ IsPath(links, p)
           /\ \A n \in Nodes : n \in On(links, p) <=> \E i \in 1..Len(q) : q[i] = n
           /\ p \in Pointers
           /\ p # NULL => p \in On(links, p)
           /\ p = NULL => On(links, p) = {}
  <1>1. Chain(links, p) = q
    BY PathChain
  <1>2. IsPath(links, p)
    BY <1>1 DEF IsPath
  <1>3. \A n \in Nodes : n \in On(links, p) <=> \E i \in 1..Len(q) : q[i] = n
    BY <1>1 DEF On
  <1>4. q \in Seq(Nodes) /\ Len(q) \in Nat /\ p = IF Len(q) = 0 THEN NULL ELSE q[1]
    BY DEF Path
  <1>5. Len(q) # 0 => 1 \in 1..Len(q) /\ q[1] \in Nodes
    BY <1>4
  <1>6. p \in Pointers /\ (p = NULL <=> Len(q) = 0)
    BY <1>4, <1>5, NodesAssumption DEF Pointers
  <1>7. p # NULL => p \in On(links, p)
    BY <1>3, <1>4, <1>5, <1>6
  <1>8. p = NULL => On(links, p) = {}
    BY <1>1, <1>6 DEF On
  <1> QED BY <1>2, <1>3, <1>6, <1>7, <1>8

LEMMA OnNothing ==
    ASSUME NEW links
    PROVE  IsPath(links, NULL) /\ On(links, NULL) = {}
  <1>1. Path(links, NULL, << >>)
    BY DEF Path
  <1> QED BY <1>1, OnPath

LEMMA OnTail ==
    ASSUME NEW links, NEW p, IsPath(links, p), p # NULL
    PROVE  IsPath(links, links[p]) /\ \A n \in Nodes : n \in On(links, links[p]) <=> n \in On(links, p) /\ n # p
  <1> DEFINE q == Chain(links, p)
             t == Tail(q)
  <1>1. Path(links, p, q)
    BY DEF IsPath
  <1> HIDE DEF q
  <1>2. /\ q # << >> /\ p = q[1] /\ Path(links, links[p], t)
        /\ \A i \in 1..Len(t) : t[i] # p
    BY <1>1, PathTail
  <1>3. IsPath(links, links[p]) /\ \A n \in Nodes : n \in On(links, links[p]) <=> \E i \in 1..Len(t) : t[i] = n
    <2>1. PICK after : after = links[p] /\ Path(links, after, t) BY <1>2
    <2> HIDE DEF t
    <2>2. IsPath(links, after) /\ \A n \in Nodes : n \in On(links, after) <=> \E i \in 1..Len(t) : t[i] = n
      BY <2>1, OnPath
    <2> QED BY <2>1, <2>2
  <1>4. \A n \in Nodes : n \in On(links, p) <=> \E i \in 1..Len(q) : q[i] = n
    BY <1>1, OnPath
  <1>5. q \in Seq(Nodes)
    BY <1>1 DEF Path
  <1>6. /\ Len(t) = Len(q) - 1 /\ Len(q) \in Nat /\ Len(q) # 0
        /\ \A i \in 1..Len(t) : t[i] = q[i + 1]
    BY <1>2, <1>5
  <1> HIDE DEF t
  <1>7. \A i \in 1..Len(q) : i = 1 \/ (i - 1 \in 1..Len(t) /\ q[i] = t[i - 1])
    BY <1>6
  <1>8. \A i \in 1..Len(t) : i + 1 \in 1..Len(q)
    BY <1>6
  <1> QED BY <1>2, <1>3, <1>4, <1>6, <1>7, <1>8

LEMMA OnKept ==
    ASSUME NEW links, NEW p, IsPath(links, p), NEW other,
           \A n \in On(links, p) : other[n] = links[n]
    PROVE  IsPath(other, p) /\ \A n \in Nodes : n \in On(other, p) <=> n \in On(links, p)
  <1> DEFINE q == Chain(links, p)
  <1>1. Path(links, p, q)
    BY DEF IsPath
  <1> HIDE DEF q
  <1>2. \A n \in Nodes : n \in On(links, p) <=> \E i \in 1..Len(q) : q[i] = n
    BY <1>1, OnPath
  <1>3. \A i \in 1..Len(q) : q[i] \in Nodes
    BY <1>1 DEF Path
  <1>4. Path(other, p, q)
    BY <1>1, <1>2, <1>3, PathKept
  <1> QED BY <1>2, <1>4, OnPath

\* The lists that begin at the heads share no node, and have those that wait.
Listed(heads, links, waiting) ==
    /\ heads \in Seq(Pointers)
    /\ \A i \in 1..Len(heads) : IsPath(links, heads[i])
    /\ \A i, j \in 1..Len(heads) : \A n \in Nodes :
          n \in On(links, heads[i]) /\ n \in On(links, heads[j]) => i = j
    /\ \A n \in Nodes : n \in waiting <=> \E i \in 1..Len(heads) : n \in On(links, heads[i])

LEMMA HeadsWait ==
    ASSUME NEW heads, NEW links, NEW waiting, Listed(heads, links, waiting),
           NEW i \in 1..Len(heads), heads[i] # NULL
    PROVE  /\ heads[i] \in Nodes /\ heads[i] \in waiting /\ heads[i] \in On(links, heads[i])
           /\ \A j \in 1..Len(heads) : heads[j] = heads[i] => j = i
  <1>1. Path(links, heads[i], Chain(links, heads[i])) /\ heads[i] \in Pointers
    BY DEF Listed, IsPath
  <1>2. heads[i] \in On(links, heads[i]) /\ heads[i] \in Nodes
    BY <1>1, OnPath DEF Pointers
  <1> QED BY <1>2 DEF Listed

\* Links of nodes that do not wait may change.
LEMMA Relinked ==
    ASSUME NEW heads, NEW links, NEW waiting, Listed(heads, links, waiting),
           NEW other, \A n \in Nodes : n \in waiting => other[n] = links[n]
    PROVE  Listed(heads, other, waiting)
  <1>1. ASSUME NEW i \in 1..Len(heads)
        PROVE  /\ IsPath(other, heads[i])
               /\ \A n \in Nodes : n \in On(other, heads[i]) <=> n \in On(links, heads[i])
    <2>1. \A n \in On(links, heads[i]) : n \in Nodes /\ n \in waiting
      BY <1>1 DEF Listed, On
    <2>2. IsPath(links, heads[i]) /\ \A n \in On(links, heads[i]) : other[n] = links[n]
      BY <1>1, <2>1 DEF Listed
    <2> QED BY <2>2, OnKept
  <1> QED BY <1>1 DEF Listed

\* The lists may change places, and empty ones come and go.
LEMMA Reordered ==
    ASSUME NEW heads, NEW links, NEW waiting, Listed(heads, links, waiting),
           NEW hs \in Seq(Pointers),
           \A i \in 1..Len(hs) : hs[i] # NULL => \E k \in 1..Len(heads) : heads[k] = hs[i],
           \A k \in 1..Len(heads) : heads[k] # NULL => \E i \in 1..Len(hs) : heads[k] = hs[i],
           \A i, j \in 1..Len(hs) : hs[i] = hs[j] /\ hs[i] # NULL => i = j
    PROVE  Listed(hs, links, waiting)
  <1>1. IsPath(links, NULL) /\ On(links, NULL) = {}
    BY OnNothing
  <1>2. \A i \in 1..Len(hs) : IsPath(links, hs[i])
    BY <1>1 DEF Listed
  <1>3. ASSUME NEW i \in 1..Len(hs), NEW j \in 1..Len(hs), NEW n \in Nodes,
               n \in On(links, hs[i]), n \in On(links, hs[j])
        PROVE  i = j
    <2>1. hs[i] # NULL /\ hs[j] # NULL BY <1>1, <1>3
    <2>2. PICK k \in 1..Len(heads) : heads[k] = hs[i] BY <2>1
    <2>3. PICK l \in 1..Len(heads) : heads[l] = hs[j] BY <2>1
    <2>4. k = l BY <1>3, <2>2, <2>3 DEF Listed
    <2> QED BY <2>1, <2>2, <2>3, <2>4
  <1>4. ASSUME NEW n \in Nodes
        PROVE  n \in waiting <=> \E i \in 1..Len(hs) : n \in On(links, hs[i])
    <2>1. n \in waiting <=> \E k \in 1..Len(heads) : n \in On(links, heads[k])
      BY DEF Listed
    <2>2. ASSUME NEW k \in 1..Len(heads), n \in On(links, heads[k])
          PROVE  \E i \in 1..Len(hs) : n \in On(links, hs[i])
      <3>1. heads[k] # NULL BY <1>1, <2>2
      <3> QED BY <2>2, <3>1
    <2>3. ASSUME NEW i \in 1..Len(hs), n \in On(links, hs[i])
          PROVE  \E k \in 1..Len(heads) : n \in On(links, heads[k])
      <3>1. hs[i] # NULL BY <1>1, <2>3
      <3> QED BY <2>3, <3>1
    <2> QED BY <2>1, <2>2, <2>3
  <1> QED BY <1>2, <1>3, <1>4 DEF Listed

Puts(heads, hs, k, p) == hs = [heads EXCEPT ![k] = p]

\* The first of a list leaves it.
LEMMA FirstLeaves ==
    ASSUME NEW heads, NEW links \in Links, NEW waiting, Listed(heads, links, waiting),
           NEW k \in 1..Len(heads), heads[k] # NULL,
           NEW hs, Puts(heads, hs, k, links[heads[k]])
    PROVE  Listed(hs, links, waiting \ {heads[k]})
  <1> DEFINE h == heads[k]
  <1>1. h \in Nodes /\ h \in On(links, h) /\ heads \in Seq(Pointers)
    <2>1. h \in Nodes /\ h \in On(links, h) BY HeadsWait
    <2>2. heads \in Seq(Pointers) BY DEF Listed
    <2> QED BY <2>1, <2>2
  <1>2. links[h] \in Pointers
    BY <1>1 DEF Links
  <1>3. /\ hs \in Seq(Pointers) /\ Len(hs) = Len(heads) /\ hs[k] = links[h]
        /\ \A i \in 1..Len(heads) : i # k => hs[i] = heads[i]
    BY <1>1, <1>2 DEF Puts
  <1>4. IsPath(links, h)
    BY DEF Listed
  <1> HIDE DEF h
  <1>5. IsPath(links, links[h]) /\ \A n \in Nodes : n \in On(links, links[h]) <=> n \in On(links, h) /\ n # h
    BY <1>1, <1>4, OnTail, NodesAssumption
  <1>6. \A i \in 1..Len(heads) : \A n \in Nodes :
            n \in On(links, hs[i]) <=> n \in On(links, heads[i]) /\ n # h
    <2> SUFFICES ASSUME NEW i \in 1..Len(heads), NEW n \in Nodes
                 PROVE  n \in On(links, hs[i]) <=> n \in On(links, heads[i]) /\ n # h
      OBVIOUS
    <2>1. CASE i = k BY <1>3, <1>5, <2>1 DEF h
    <2>2. CASE i # k
      <3>1. h \notin On(links, heads[i]) BY <1>1, <2>2 DEF Listed, h
      <3> QED BY <1>3, <2>2, <3>1
    <2> QED BY <2>1, <2>2
  <1>7. \A i \in 1..Len(hs) : IsPath(links, hs[i])
    BY <1>3, <1>5 DEF Listed
  <1>8. \A i, j \in 1..Len(hs) : \A n \in Nodes :
            n \in On(links, hs[i]) /\ n \in On(links, hs[j]) => i = j
    BY <1>3, <1>6 DEF Listed
  <1>9. \A n \in Nodes : n \in waiting \ {h} <=> \E i \in 1..Len(hs) : n \in On(links, hs[i])
    BY <1>3, <1>6 DEF Listed
  <1>10. Listed(hs, links, waiting \ {h})
    BY <1>3, <1>7, <1>8, <1>9 DEF Listed
  <1> QED BY <1>10 DEF h

\* A list is forgotten.
LEMMA ListLeaves ==
    ASSUME NEW heads, NEW links, NEW waiting, Listed(heads, links, waiting),
           NEW k \in 1..Len(heads), NEW hs, Puts(heads, hs, k, NULL)
    PROVE  Listed(hs, links, waiting \ On(links, heads[k]))
  <1>1. heads \in Seq(Pointers) /\ NULL \in Pointers
    BY DEF Listed, Pointers
  <1>2. /\ hs \in Seq(Pointers) /\ Len(hs) = Len(heads) /\ hs[k] = NULL
        /\ \A i \in 1..Len(heads) : i # k => hs[i] = heads[i]
    BY <1>1 DEF Puts
  <1>3. IsPath(links, NULL) /\ On(links, NULL) = {}
    BY OnNothing
  <1>4. \A i \in 1..Len(heads) : \A n \in Nodes :
            n \in On(links, hs[i]) <=> n \in On(links, heads[i]) /\ n \notin On(links, heads[k])
    <2> SUFFICES ASSUME NEW i \in 1..Len(heads), NEW n \in Nodes
                 PROVE  n \in On(links, hs[i]) <=> n \in On(links, heads[i]) /\ n \notin On(links, heads[k])
      OBVIOUS
    <2>1. CASE i = k BY <1>2, <1>3, <2>1
    <2>2. CASE i # k BY <1>2, <2>2 DEF Listed
    <2> QED BY <2>1, <2>2
  <1>5. \A i \in 1..Len(hs) : IsPath(links, hs[i])
    BY <1>2, <1>3 DEF Listed
  <1>6. \A i, j \in 1..Len(hs) : \A n \in Nodes :
            n \in On(links, hs[i]) /\ n \in On(links, hs[j]) => i = j
    BY <1>2, <1>4 DEF Listed
  <1>7. \A n \in Nodes : n \in waiting \ On(links, heads[k])
                         <=> \E i \in 1..Len(hs) : n \in On(links, hs[i])
    BY <1>2, <1>4 DEF Listed
  <1> QED BY <1>2, <1>5, <1>6, <1>7 DEF Listed

\* A node that waits in no list becomes one.
LEMMA ListComes ==
    ASSUME NEW heads, NEW links, NEW waiting, Listed(heads, links, waiting),
           NEW n \in Nodes, n \notin waiting, links[n] = NULL
    PROVE  Listed(Append(heads, n), links, waiting \cup {n})
  <1> DEFINE hs == Append(heads, n)
             l == Len(heads)
  <1>1. heads \in Seq(Pointers) /\ n \in Pointers
    BY DEF Listed, Pointers
  <1>2. /\ hs \in Seq(Pointers) /\ Len(hs) = l + 1 /\ hs[l + 1] = n /\ l \in Nat
        /\ \A i \in 1..l : hs[i] = heads[i]
    BY <1>1
  <1>3. Path(links, n, <<n>>)
    BY DEF Path
  <1>4. IsPath(links, n) /\ \A f \in Nodes : f \in On(links, n) <=> f = n
    <2>1. Len(<<n>>) = 1 /\ <<n>>[1] = n OBVIOUS
    <2>2. \A f \in Nodes : f \in On(links, n) <=> \E i \in 1..Len(<<n>>) : <<n>>[i] = f
      BY <1>3, OnPath
    <2> QED BY <1>3, <2>1, <2>2, OnPath
  <1> HIDE DEF hs, l
  <1>5. \A i \in 1..(l + 1) : i = l + 1 \/ i \in 1..l
    BY <1>2
  <1>6. l + 1 \in 1..(l + 1) /\ \A i \in 1..l : i \in 1..(l + 1)
    BY <1>2
  <1>7. \A i \in 1..l : n \notin On(links, heads[i])
    BY DEF Listed, l
  <1>8. \A i \in 1..(l + 1) : IsPath(links, hs[i])
    BY <1>2, <1>4, <1>5 DEF Listed, l
  <1>9. ASSUME NEW i \in 1..(l + 1), NEW j \in 1..(l + 1), NEW f \in Nodes,
               f \in On(links, hs[i]), f \in On(links, hs[j])
        PROVE  i = j
    <2>1. CASE i \in 1..l /\ j \in 1..l BY <1>2, <1>9, <2>1 DEF Listed, l
    <2>2. CASE i = l + 1 \/ j = l + 1 BY <1>2, <1>4, <1>5, <1>7, <1>9, <2>2
    <2> QED BY <1>5, <2>1, <2>2
  <1>10. ASSUME NEW f \in Nodes
         PROVE  f \in waiting \cup {n} <=> \E i \in 1..(l + 1) : f \in On(links, hs[i])
    <2>1. f \in waiting <=> \E i \in 1..l : f \in On(links, heads[i]) BY DEF Listed, l
    <2> QED BY <1>2, <1>4, <1>5, <1>6, <2>1
  <1>11. Listed(hs, links, waiting \cup {n})
    BY <1>2, <1>8, <1>9, <1>10 DEF Listed
  <1> QED BY <1>11 DEF hs

\* A list with its tail.
Ended(list, links) == Represents(list, links, Chain(links, list.head))

LEMMA EndedKept ==
    ASSUME NEW list, NEW links, Ended(list, links),
           NEW other, \A n \in On(links, list.head) : other[n] = links[n]
    PROVE  Ended(list, other)
  <1> DEFINE q == Chain(links, list.head)
  <1>1. Path(links, list.head, q) /\ list.tail = IF Len(q) = 0 THEN NULL ELSE q[Len(q)]
    BY DEF Ended, Represents
  <1>2. \A n \in Nodes : n \in On(links, list.head) <=> \E i \in 1..Len(q) : q[i] = n
    BY DEF On
  <1> HIDE DEF q
  <1>3. \A i \in 1..Len(q) : q[i] \in Nodes
    BY <1>1 DEF Path
  <1>4. Path(other, list.head, q)
    BY <1>1, <1>2, <1>3, PathKept
  <1>5. Chain(other, list.head) = q
    BY <1>4, PathChain
  <1> QED BY <1>1, <1>4, <1>5 DEF Ended, Represents

Pushed(list, links, n, other) == other = PushLinks(list, links, n)
KeepsLinks(links, other, set) == \A f \in Nodes : f \notin set => other[f] = links[f]

\* push makes a node wait that does not.
LEMMA NodePushed ==
    ASSUME NEW heads, NEW links \in Links, NEW waiting, Listed(heads, links, waiting),
           NEW list \in Lists, Len(heads) # 0, heads[1] = list.head, Ended(list, links),
           NEW n \in Nodes, n \notin waiting,
           NEW hs, Puts(heads, hs, 1, PushList(list, n).head),
           NEW other, Pushed(list, links, n, other)
    PROVE  /\ Listed(hs, other, waiting \cup {n})
           /\ Ended(PushList(list, n), other)
           /\ PushList(list, n) \in Lists /\ other \in Links
           /\ KeepsLinks(links, other, waiting \cup {n})
  <1> DEFINE q == Chain(links, list.head)
             r == Append(q, n)
             new == PushList(list, n)
             l == Len(heads)
  <1>1. heads \in Seq(Pointers) /\ l \in Nat /\ 1 \in 1..l
    <2>1. heads \in Seq(Pointers) BY DEF Listed
    <2> QED BY <2>1
  <1>2. Represents(list, links, q) /\ q \in Seq(Nodes)
    BY DEF Ended, Represents, Path
  <1>3. \A f \in Nodes : f \in On(links, heads[1]) <=> \E i \in 1..Len(q) : q[i] = f
    BY DEF On
  <1> HIDE DEF q
  <1>4. \A f \in Nodes : f \in On(links, heads[1]) => f \in waiting
    BY <1>1 DEF Listed
  <1>5. \A i \in 1..Len(q) : q[i] # n
    BY <1>3, <1>4
  <1>6. new \in Lists /\ other \in Links /\ Represents(new, other, r)
    BY <1>2, <1>5, PushRepresents DEF Pushed
  <1>7. new.head \in Pointers
    BY <1>6 DEF Lists
  <1> HIDE DEF new
  <1>8. /\ hs \in Seq(Pointers) /\ Len(hs) = l /\ hs[1] = new.head
        /\ \A i \in 1..l : i # 1 => hs[i] = heads[i]
    BY <1>1, <1>7 DEF Puts, new
  <1>9. r \in Seq(Nodes) /\ Len(r) = Len(q) + 1 /\ r[Len(q) + 1] = n /\ Len(q) \in Nat
        /\ \A i \in 1..Len(q) : r[i] = q[i]
    BY <1>2
  <1> HIDE DEF r, l
  <1>10. IsPath(other, hs[1]) /\ \A f \in Nodes : f \in On(other, hs[1]) <=> \E i \in 1..Len(r) : r[i] = f
    <2>1. PICK first : first = hs[1] /\ Path(other, first, r) BY <1>6, <1>8 DEF Represents
    <2>2. IsPath(other, first) /\ \A f \in Nodes : f \in On(other, first) <=> \E i \in 1..Len(r) : r[i] = f
      BY <2>1, OnPath
    <2> QED BY <2>1, <2>2
  <1>11. \A f \in Nodes : f \in On(other, hs[1]) <=> f = n \/ f \in On(links, heads[1])
    <2>1. \A i \in 1..Len(r) : i = Len(q) + 1 \/ i \in 1..Len(q) BY <1>9
    <2>2. Len(q) + 1 \in 1..Len(r) /\ \A i \in 1..Len(q) : i \in 1..Len(r) BY <1>9
    <2> QED BY <1>3, <1>9, <1>10, <2>1, <2>2
  <1>12. Ended(new, other)
    <2>1. Chain(other, new.head) = r BY <1>6, PathChain DEF Represents
    <2> QED BY <1>6, <2>1 DEF Ended
  <1>13. ASSUME NEW f \in Nodes, f # n, f \notin On(links, heads[1]) PROVE other[f] = links[f]
    <2>1. list.tail # f
      <3>1. list.tail = IF Len(q) = 0 THEN NULL ELSE q[Len(q)] BY <1>2 DEF Represents
      <3>2. Len(q) # 0 => Len(q) \in 1..Len(q) BY <1>9
      <3> QED BY <1>3, <1>13, <3>1, <3>2, NodesAssumption
    <2>2. list.tail \in Pointers BY DEF Lists
    <2> QED BY <1>13, <2>1, <2>2 DEF Pushed, PushLinks, Links, Pointers
  <1>14. ASSUME NEW i \in 1..l, i # 1
         PROVE  /\ IsPath(other, hs[i])
                /\ \A f \in Nodes : f \in On(other, hs[i]) <=> f \in On(links, heads[i])
    <2>1. \A f \in On(links, heads[i]) : f \in Nodes /\ f # n /\ f \notin On(links, heads[1])
      <3>1. \A f \in On(links, heads[i]) : f \in Nodes BY DEF On
      <3>2. \A f \in Nodes : f \in On(links, heads[i]) => f \in waiting /\ f \notin On(links, heads[1])
        BY <1>1, <1>14 DEF Listed, l
      <3> QED BY <3>1, <3>2
    <2>2. IsPath(links, heads[i]) BY <1>14 DEF Listed, l
    <2>3. \A f \in On(links, heads[i]) : other[f] = links[f] BY <1>13, <2>1
    <2> QED BY <1>8, <1>14, <2>2, <2>3, OnKept
  <1>15. \A i \in 1..l : IsPath(other, hs[i])
    BY <1>10, <1>14
  <1>16. \A i \in 1..l : \A f \in Nodes :
             f \in On(other, hs[i]) <=> (i = 1 /\ f = n) \/ f \in On(links, heads[i])
    BY <1>11, <1>14
  <1>17. \A i \in 1..l : n \notin On(links, heads[i])
    BY DEF Listed, l
  <1>18. ASSUME NEW i \in 1..l, NEW j \in 1..l, NEW f \in Nodes,
                f \in On(other, hs[i]), f \in On(other, hs[j])
         PROVE  i = j
    <2>1. CASE f = n BY <1>16, <1>17, <1>18, <2>1
    <2>2. CASE f # n
      <3>1. f \in On(links, heads[i]) /\ f \in On(links, heads[j]) BY <1>16, <1>18, <2>2
      <3> QED BY <3>1 DEF Listed, l
    <2> QED BY <2>1, <2>2
  <1>19. \A f \in Nodes : f \in waiting \cup {n} <=> \E i \in 1..l : f \in On(other, hs[i])
    <2>1. \A f \in Nodes : f \in waiting <=> \E i \in 1..l : f \in On(links, heads[i])
      BY DEF Listed, l
    <2> QED BY <1>1, <1>16, <2>1 DEF l
  <1>20. Listed(hs, other, waiting \cup {n})
    BY <1>8, <1>15, <1>18, <1>19 DEF Listed
  <1>21. KeepsLinks(links, other, waiting \cup {n})
    BY <1>4, <1>13 DEF KeepsLinks
  <1> QED BY <1>6, <1>12, <1>20, <1>21 DEF new

\* pop, of a list that is not empty.
LEMMA NodePopped ==
    ASSUME NEW links \in Links, NEW list \in Lists, Ended(list, links), list.head # NULL,
           NEW other, other = [links EXCEPT ![list.head] = NULL]
    PROVE  /\ Ended(PopList(list, links), other)
           /\ PopList(list, links) \in Lists /\ PopList(list, links).head = links[list.head]
           /\ other \in Links
  <1> DEFINE q == Chain(links, list.head)
             t == Tail(q)
             rest == PopList(list, links)
  <1>1. Represents(list, links, q) /\ Path(links, list.head, q)
    BY DEF Ended, Represents
  <1> HIDE DEF q
  <1>2. Len(q) # 0
    BY <1>1 DEF Path
  <1>3. rest \in Lists /\ Represents(rest, links, t)
    BY <1>1, <1>2, PopRepresents
  <1>4. rest.head = links[list.head]
    BY DEF PopList
  <1>5. \A i \in 1..Len(t) : t[i] # list.head
    BY <1>1, PathTail
  <1>6. other \in Links
    BY DEF Links, Pointers
  <1> HIDE DEF t, rest
  <1>7. Path(links, rest.head, t) /\ rest.tail = IF Len(t) = 0 THEN NULL ELSE t[Len(t)]
    BY <1>3 DEF Represents
  <1>8. \A i \in 1..Len(t) : t[i] \in Nodes
    BY <1>7 DEF Path
  <1>9. \A i \in 1..Len(t) : other[t[i]] = links[t[i]]
    BY <1>5, <1>8 DEF Links
  <1>10. Path(other, rest.head, t)
    BY <1>7, <1>9, PathKept
  <1>11. Chain(other, rest.head) = t
    BY <1>10, PathChain
  <1>12. Ended(rest, other)
    BY <1>7, <1>10, <1>11 DEF Ended, Represents
  <1> QED BY <1>3, <1>4, <1>6, <1>12 DEF rest

-----------------------------------------------------------------------------
(* The heads of the lists *)

Line(a, ps, b) == <<a>> \o ps \o <<b>>

LEMMA LineFields ==
    ASSUME NEW a \in Pointers, NEW b \in Pointers, NEW ps \in Seq(Pointers)
    PROVE  /\ Line(a, ps, b) \in Seq(Pointers)
           /\ Len(ps) \in Nat /\ Len(Line(a, ps, b)) = Len(ps) + 2
           /\ Line(a, ps, b)[1] = a /\ Line(a, ps, b)[Len(ps) + 2] = b
           /\ \A i \in 1..Len(ps) : Line(a, ps, b)[i + 1] = ps[i]
  <1> DEFINE c == <<a>> \o ps
  <1>1. c \in Seq(Pointers) /\ Len(c) = Len(ps) + 1 /\ Len(ps) \in Nat
        /\ c[1] = a /\ \A i \in 1..Len(ps) : c[i + 1] = ps[i]
    OBVIOUS
  <1>2. Line(a, ps, b) = c \o <<b>>
    BY DEF Line
  <1> HIDE DEF c
  <1>3. /\ c \o <<b>> \in Seq(Pointers) /\ Len(c \o <<b>>) = Len(ps) + 2
        /\ (c \o <<b>>)[Len(ps) + 2] = b
        /\ \A i \in 1..(Len(ps) + 1) : (c \o <<b>>)[i] = c[i]
    BY <1>1
  <1>4. 1 \in 1..(Len(ps) + 1) /\ \A i \in 1..Len(ps) : i + 1 \in 1..(Len(ps) + 1)
    BY <1>1
  <1> QED BY <1>1, <1>2, <1>3, <1>4

\* One end of the line changes.
LEMMA LineEnds ==
    ASSUME NEW a \in Pointers, NEW b \in Pointers, NEW ps \in Seq(Pointers), NEW p \in Pointers
    PROVE  /\ Puts(Line(a, ps, b), Line(p, ps, b), 1, p)
           /\ Puts(Line(a, ps, b), Line(a, ps, p), Len(ps) + 2, p)
  <1> DEFINE n == Len(ps) + 2
             l == Line(a, ps, b)
             first == Line(p, ps, b)
             last == Line(a, ps, p)
  <1>1. /\ l \in Seq(Pointers) /\ first \in Seq(Pointers) /\ last \in Seq(Pointers)
        /\ Len(ps) \in Nat /\ Len(l) = n /\ Len(first) = n /\ Len(last) = n
        /\ first[1] = p /\ first[n] = b /\ last[1] = a /\ last[n] = p /\ l[1] = a /\ l[n] = b
        /\ \A i \in 1..Len(ps) : l[i + 1] = ps[i] /\ first[i + 1] = ps[i] /\ last[i + 1] = ps[i]
    BY LineFields
  <1> HIDE DEF l, first, last
  <1>2. \A i \in 1..n : i = 1 \/ i = n \/ (i - 1 \in 1..Len(ps) /\ i = (i - 1) + 1)
    BY <1>1
  <1>3. ASSUME NEW i \in 1..n, i # 1, i # n
        PROVE  l[i] = first[i] /\ l[i] = last[i]
    <2>1. PICK j \in 1..Len(ps) : i = j + 1 BY <1>2, <1>3
    <2>2. l[j + 1] = ps[j] /\ first[j + 1] = ps[j] /\ last[j + 1] = ps[j] BY <1>1
    <2> QED BY <2>1, <2>2
  <1>4. 1 # n
    BY <1>1
  <1> HIDE DEF n
  <1>5. first = [l EXCEPT ![1] = p]
    <2>1. \A i \in 1..n : first[i] = IF i = 1 THEN p ELSE l[i] BY <1>1, <1>3
    <2> QED BY <1>1, <2>1
  <1>6. last = [l EXCEPT ![n] = p]
    <2>1. \A i \in 1..n : last[i] = IF i = n THEN p ELSE l[i] BY <1>1, <1>3
    <2> QED BY <1>1, <2>1
  <1> QED BY <1>5, <1>6 DEF Puts, l, first, last, n

\* The first list goes where the posted ones are.
LEMMA LinePosted ==
    ASSUME NEW a \in Pointers, NEW b \in Pointers, NEW ps \in Seq(Pointers),
           NEW links, NEW waiting, Listed(Line(a, ps, b), links, waiting)
    PROVE  Listed(Line(NULL, Append(ps, a), b), links, waiting)
  <1> DEFINE m == Len(ps)
             n == m + 2
             l == Line(a, ps, b)
             qs == Append(ps, a)
             hs == Line(NULL, qs, b)
  <1>1. /\ l \in Seq(Pointers) /\ m \in Nat /\ Len(l) = n /\ l[1] = a /\ l[n] = b
        /\ \A i \in 1..m : l[i + 1] = ps[i]
    BY LineFields
  <1>2. /\ qs \in Seq(Pointers) /\ Len(qs) = m + 1 /\ qs[m + 1] = a
        /\ \A i \in 1..m : qs[i] = ps[i]
    OBVIOUS
  <1>3. NULL \in Pointers
    BY DEF Pointers
  <1> HIDE DEF qs, l
  <1>4. /\ hs \in Seq(Pointers) /\ Len(hs) = (m + 1) + 2 /\ hs[1] = NULL /\ hs[(m + 1) + 2] = b
        /\ \A i \in 1..(m + 1) : hs[i + 1] = qs[i]
    <2>1. /\ hs \in Seq(Pointers) /\ Len(hs) = Len(qs) + 2 /\ hs[1] = NULL /\ hs[Len(qs) + 2] = b
          /\ \A i \in 1..Len(qs) : hs[i + 1] = qs[i]
      <3>1. qs \in Seq(Pointers) /\ NULL \in Pointers BY <1>2, <1>3
      <3> QED BY <3>1, LineFields
    <2> HIDE DEF hs
    <2> QED BY <1>2, <2>1
  <1> HIDE DEF hs, m
  <1>5. hs[m + 2] = a /\ hs[m + 3] = b /\ Len(hs) = m + 3
    <2>1. m + 1 \in 1..(m + 1) /\ (m + 1) + 1 = m + 2 /\ (m + 1) + 2 = m + 3 BY <1>1
    <2> QED BY <1>2, <1>4, <2>1
  <1>6. \A i \in 1..(m + 3) : i = 1 \/ i = m + 2 \/ i = m + 3 \/ (i \in 2..(m + 1))
    BY <1>1
  <1>7. \A i \in 2..(m + 1) : hs[i] = l[i]
    <2> SUFFICES ASSUME NEW i \in 2..(m + 1) PROVE hs[i] = l[i]
      OBVIOUS
    <2>1. i - 1 \in 1..m /\ i - 1 \in 1..(m + 1) /\ (i - 1) + 1 = i BY <1>1
    <2> QED BY <1>1, <1>2, <1>4, <2>1
  <1> DEFINE s(i) == IF i = m + 2 THEN 1 ELSE IF i = m + 3 THEN m + 2 ELSE i
             u(k) == IF k = 1 THEN m + 2 ELSE IF k = m + 2 THEN m + 3 ELSE k
  <1>8. \A i \in 1..(m + 3) : i # 1 => s(i) \in 1..(m + 2) /\ l[s(i)] = hs[i] /\ u(s(i)) = i
    BY <1>1, <1>5, <1>6, <1>7
  <1>9. \A k \in 1..(m + 2) : u(k) \in 1..(m + 3) /\ l[k] = hs[u(k)]
    <2> SUFFICES ASSUME NEW k \in 1..(m + 2) PROVE u(k) \in 1..(m + 3) /\ l[k] = hs[u(k)]
      OBVIOUS
    <2>1. k = 1 \/ k = m + 2 \/ k \in 2..(m + 1) BY <1>1
    <2> QED BY <1>1, <1>5, <1>7, <2>1
  <1> HIDE DEF s, u, n
  <1>10. \A i \in 1..Len(hs) : hs[i] # NULL => \E k \in 1..Len(l) : l[k] = hs[i]
    BY <1>1, <1>4, <1>5, <1>8 DEF n
  <1>11. \A k \in 1..Len(l) : l[k] # NULL => \E i \in 1..Len(hs) : l[k] = hs[i]
    BY <1>1, <1>5, <1>9 DEF n
  <1>12. ASSUME NEW i \in 1..Len(hs), NEW j \in 1..Len(hs), hs[i] = hs[j], hs[i] # NULL PROVE i = j
    <2>1. /\ i # 1 /\ j # 1 /\ s(i) \in 1..Len(l) /\ s(j) \in 1..Len(l)
          /\ l[s(i)] = l[s(j)] /\ l[s(i)] # NULL
      BY <1>1, <1>4, <1>5, <1>8, <1>12 DEF n
    <2>2. s(i) = s(j) BY <2>1, HeadsWait DEF l
    <2> QED BY <1>5, <1>8, <2>1, <2>2
  <1>13. Listed(hs, links, waiting)
    BY <1>4, <1>10, <1>11, <1>12, Reordered DEF l
  <1> QED BY <1>13 DEF hs, qs

\* A list at the end goes where the posted ones are.
LEMMA LineJoined ==
    ASSUME NEW a \in Pointers, NEW b \in Pointers, NEW ps \in Seq(Pointers), NEW c \in Pointers,
           NEW links, NEW waiting, Listed(Append(Line(a, ps, b), c), links, waiting)
    PROVE  Listed(Line(a, Append(ps, c), b), links, waiting)
  <1> DEFINE m == Len(ps)
             old == Line(a, ps, b)
             l == Append(old, c)
             qs == Append(ps, c)
             hs == Line(a, qs, b)
  <1>0. Listed(l, links, waiting)
    OBVIOUS
  <1>1. /\ old \in Seq(Pointers) /\ m \in Nat /\ Len(old) = m + 2 /\ old[1] = a /\ old[m + 2] = b
        /\ \A i \in 1..m : old[i + 1] = ps[i]
    BY LineFields
  <1>2. /\ qs \in Seq(Pointers) /\ Len(qs) = m + 1 /\ qs[m + 1] = c
        /\ \A i \in 1..m : qs[i] = ps[i]
    OBVIOUS
  <1> HIDE DEF old, qs
  <1>3. /\ Len(l) = m + 3 /\ l[m + 3] = c /\ \A i \in 1..(m + 2) : l[i] = old[i]
    BY <1>1
  <1>4. /\ hs \in Seq(Pointers) /\ Len(hs) = (m + 1) + 2 /\ hs[1] = a /\ hs[(m + 1) + 2] = b
        /\ \A i \in 1..(m + 1) : hs[i + 1] = qs[i]
    <2>1. /\ hs \in Seq(Pointers) /\ Len(hs) = Len(qs) + 2 /\ hs[1] = a /\ hs[Len(qs) + 2] = b
          /\ \A i \in 1..Len(qs) : hs[i + 1] = qs[i]
      <3>1. qs \in Seq(Pointers) BY <1>2
      <3> QED BY <3>1, LineFields
    <2> HIDE DEF hs
    <2> QED BY <1>2, <2>1
  <1> HIDE DEF hs, m, l
  <1>5. hs[m + 2] = c /\ hs[m + 3] = b /\ Len(hs) = m + 3
    <2>1. m + 1 \in 1..(m + 1) /\ (m + 1) + 1 = m + 2 /\ (m + 1) + 2 = m + 3 BY <1>1
    <2> QED BY <1>2, <1>4, <2>1
  <1>6. \A i \in 1..(m + 1) : hs[i] = l[i]
    <2> SUFFICES ASSUME NEW i \in 1..(m + 1) PROVE hs[i] = l[i]
      OBVIOUS
    <2>1. CASE i = 1
      <3>1. 1 \in 1..(m + 2) BY <1>1
      <3> QED BY <2>1, <3>1, <1>1, <1>3, <1>4
    <2>2. CASE i # 1
      <3>1. /\ i - 1 \in 1..m /\ i - 1 \in 1..(m + 1) /\ i \in 1..(m + 2)
            /\ (i - 1) + 1 = i
        BY <2>2, <1>1
      <3>2. hs[i] = qs[i - 1] BY <3>1, <1>4
      <3>3. qs[i - 1] = ps[i - 1] BY <3>1, <1>2
      <3>4. old[i] = ps[i - 1] BY <3>1, <1>1
      <3>5. l[i] = old[i] BY <3>1, <1>3
      <3> QED BY <3>2, <3>3, <3>4, <3>5
    <2> QED BY <2>1, <2>2
  <1>7. l[m + 2] = b
    <2>1. m + 2 \in 1..(m + 2) BY <1>1
    <2> QED BY <1>1, <1>3, <2>1
  <1> DEFINE s(i) == IF i = m + 2 THEN m + 3 ELSE IF i = m + 3 THEN m + 2 ELSE i
  <1>8. \A i \in 1..(m + 3) : s(i) \in 1..(m + 3) /\ l[s(i)] = hs[i] /\ s(s(i)) = i
    <2> SUFFICES ASSUME NEW i \in 1..(m + 3)
                 PROVE  s(i) \in 1..(m + 3) /\ l[s(i)] = hs[i] /\ s(s(i)) = i
      OBVIOUS
    <2>1. i = m + 2 \/ i = m + 3 \/ i \in 1..(m + 1) BY <1>1
    <2> QED BY <1>1, <1>3, <1>5, <1>6, <1>7, <2>1
  <1> HIDE DEF s
  <1>9. \A i \in 1..Len(hs) : hs[i] # NULL => \E k \in 1..Len(l) : l[k] = hs[i]
    BY <1>3, <1>5, <1>8
  <1>10. \A k \in 1..Len(l) : l[k] # NULL => \E i \in 1..Len(hs) : l[k] = hs[i]
    BY <1>3, <1>5, <1>8
  <1>11. ASSUME NEW i \in 1..Len(hs), NEW j \in 1..Len(hs), hs[i] = hs[j], hs[i] # NULL PROVE i = j
    <2>1. s(i) \in 1..Len(l) /\ s(j) \in 1..Len(l) /\ l[s(i)] = l[s(j)] /\ l[s(i)] # NULL
      BY <1>3, <1>5, <1>8, <1>11
    <2>2. s(i) = s(j) BY <1>0, <2>1, HeadsWait
    <2> QED BY <1>5, <1>8, <2>2
  <1>12. Listed(hs, links, waiting)
    BY <1>0, <1>4, <1>9, <1>10, <1>11, Reordered
  <1> QED BY <1>12 DEF hs, qs

\* The first of the posted lists goes to the end of the line.
LEMMA LineTaken ==
    ASSUME NEW a \in Pointers, NEW ps \in Seq(Pointers), ps # << >>,
           NEW links, NEW waiting, Listed(Line(a, ps, NULL), links, waiting)
    PROVE  Listed(Line(a, Tail(ps), Head(ps)), links, waiting)
  <1> DEFINE m == Len(ps)
             l == Line(a, ps, NULL)
             qs == Tail(ps)
             c == Head(ps)
             hs == Line(a, qs, c)
  <1>1. NULL \in Pointers
    BY DEF Pointers
  <1>2. /\ l \in Seq(Pointers) /\ m \in Nat /\ m # 0 /\ Len(l) = m + 2 /\ l[1] = a /\ l[m + 2] = NULL
        /\ \A i \in 1..m : l[i + 1] = ps[i]
    BY <1>1, LineFields
  <1>3. /\ qs \in Seq(Pointers) /\ Len(qs) = m - 1 /\ c = ps[1] /\ c \in Pointers
        /\ \A i \in 1..(m - 1) : qs[i] = ps[i + 1]
    OBVIOUS
  <1> HIDE DEF qs, l, c
  <1>4. /\ hs \in Seq(Pointers) /\ Len(hs) = (m - 1) + 2 /\ hs[1] = a /\ hs[(m - 1) + 2] = c
        /\ \A i \in 1..(m - 1) : hs[i + 1] = qs[i]
    <2>1. /\ hs \in Seq(Pointers) /\ Len(hs) = Len(qs) + 2 /\ hs[1] = a /\ hs[Len(qs) + 2] = c
          /\ \A i \in 1..Len(qs) : hs[i + 1] = qs[i]
      <3>1. qs \in Seq(Pointers) /\ c \in Pointers BY <1>3
      <3> QED BY <3>1, LineFields
    <2> HIDE DEF hs
    <2> QED BY <1>3, <2>1
  <1> HIDE DEF hs, m
  <1>5. hs[m + 1] = c /\ Len(hs) = m + 1 /\ l[2] = c
    <2>1. (m - 1) + 2 = m + 1 /\ 1 \in 1..m /\ 1 + 1 = 2 BY <1>2
    <2> QED BY <1>2, <1>3, <1>4, <2>1
  <1>6. \A i \in 2..m : hs[i] = l[i + 1]
    <2> SUFFICES ASSUME NEW i \in 2..m PROVE hs[i] = l[i + 1]
      OBVIOUS
    <2>1. i - 1 \in 1..(m - 1) /\ (i - 1) + 1 = i /\ i \in 1..m BY <1>2
    <2> QED BY <1>2, <1>3, <1>4, <2>1
  <1> DEFINE s(i) == IF i = 1 THEN 1 ELSE IF i = m + 1 THEN 2 ELSE i + 1
             u(k) == IF k = 1 THEN 1 ELSE IF k = 2 THEN m + 1 ELSE k - 1
  <1>7. \A i \in 1..(m + 1) : s(i) \in 1..(m + 2) /\ l[s(i)] = hs[i] /\ u(s(i)) = i
    <2> SUFFICES ASSUME NEW i \in 1..(m + 1)
                 PROVE  s(i) \in 1..(m + 2) /\ l[s(i)] = hs[i] /\ u(s(i)) = i
      OBVIOUS
    <2>1. i = 1 \/ i = m + 1 \/ i \in 2..m BY <1>2
    <2> QED BY <1>2, <1>4, <1>5, <1>6, <2>1
  <1>8. \A k \in 1..(m + 2) : k # m + 2 => u(k) \in 1..(m + 1) /\ l[k] = hs[u(k)]
    <2> SUFFICES ASSUME NEW k \in 1..(m + 2), k # m + 2
                 PROVE  u(k) \in 1..(m + 1) /\ l[k] = hs[u(k)]
      OBVIOUS
    <2>1. k = 1 \/ k = 2 \/ (k - 1 \in 2..m /\ (k - 1) + 1 = k) BY <1>2
    <2> QED BY <1>2, <1>4, <1>5, <1>6, <2>1
  <1> HIDE DEF s, u
  <1>9. \A i \in 1..Len(hs) : hs[i] # NULL => \E k \in 1..Len(l) : l[k] = hs[i]
    BY <1>2, <1>5, <1>7
  <1>10. \A k \in 1..Len(l) : l[k] # NULL => \E i \in 1..Len(hs) : l[k] = hs[i]
    BY <1>2, <1>5, <1>8
  <1>11. ASSUME NEW i \in 1..Len(hs), NEW j \in 1..Len(hs), hs[i] = hs[j], hs[i] # NULL PROVE i = j
    <2>1. s(i) \in 1..Len(l) /\ s(j) \in 1..Len(l) /\ l[s(i)] = l[s(j)] /\ l[s(i)] # NULL
      BY <1>2, <1>5, <1>7, <1>11
    <2>2. s(i) = s(j) BY <2>1, HeadsWait DEF l
    <2> QED BY <1>5, <1>7, <2>2
  <1>12. Listed(hs, links, waiting)
    BY <1>4, <1>9, <1>10, <1>11, Reordered DEF l
  <1> QED BY <1>12 DEF hs, qs, c

-----------------------------------------------------------------------------
(* The inductive invariant *)

Waiters == {n \in Frames : frames[n].state = "event" /\ n \notin skipped}

Shape == /\ m_awaiter_que \in Lists /\ m_next \in Links
         /\ posted \in Seq(Pointers) /\ walk \in Pointers
         /\ resumed \in BOOLEAN /\ (resumed => walk # NULL)
         /\ skipped \subseteq {n \in Frames : frames[n].state = "event"}

EventInv == /\ Sound(frames, calls)
            /\ Shape
            /\ Listed(Heads, m_next, Waiters)
            /\ Ended(m_awaiter_que, m_next)

\* The frames stay sound even where on_notify is misled.
IInv == /\ Sound(frames, calls)
        /\ ~misled => EventInv

LEMMA TheHeads ==
    ASSUME Shape
    PROVE  /\ Ahead \in Pointers /\ m_awaiter_que.head \in Pointers
           /\ Heads = Line(m_awaiter_que.head, posted, Ahead)
           /\ Len(posted) \in Nat /\ Len(Heads) = Len(posted) + 2
           /\ Heads[1] = m_awaiter_que.head /\ Heads[Len(posted) + 2] = Ahead
  <1>1. Ahead \in Pointers
    <2>1. walk # NULL => m_next[walk] \in Pointers BY DEF Shape, Links, Pointers
    <2>2. NULL \in Pointers BY DEF Pointers
    <2> QED BY <2>1, <2>2 DEF Ahead, Shape
  <1>2. m_awaiter_que.head \in Pointers /\ posted \in Seq(Pointers)
    BY DEF Shape, Lists
  <1>3. Heads = Line(m_awaiter_que.head, posted, Ahead)
    BY DEF Heads, Line
  <1>4. PICK a \in Pointers, b \in Pointers : a = m_awaiter_que.head /\ b = Ahead
    BY <1>1, <1>2
  <1>5. /\ Len(posted) \in Nat /\ Len(Line(a, posted, b)) = Len(posted) + 2
        /\ Line(a, posted, b)[1] = a /\ Line(a, posted, b)[Len(posted) + 2] = b
    BY <1>2, LineFields
  <1> QED BY <1>1, <1>2, <1>3, <1>4, <1>5

LEMMA FirstEventInv == Init => IInv
  <1> SUFFICES ASSUME Init PROVE IInv
    OBVIOUS
  <1>1. Sound(frames, calls)
    BY FirstSound DEF Init
  <1>2. Shape
    <2>1. EmptyList \in Lists BY EmptyRepresents
    <2>2. NULL \in Pointers /\ << >> \in Seq(Pointers) BY DEF Pointers
    <2>3. m_next \in Links BY <2>2 DEF Init, Links
    <2> QED BY <2>1, <2>2, <2>3 DEF Init, Shape
  <1>3. Heads \in Seq(Pointers) /\ \A i \in 1..Len(Heads) : Heads[i] = NULL
    <2>1. Ahead = NULL /\ posted = << >> /\ m_awaiter_que.head = NULL
      BY DEF Ahead, Init, EmptyList
    <2>2. Heads = Line(NULL, << >>, NULL) BY <2>1 DEF Heads, Line
    <2>3. NULL \in Pointers /\ << >> \in Seq(Pointers) /\ Len(<< >>) = 0 BY DEF Pointers
    <2>4. /\ Line(NULL, << >>, NULL) \in Seq(Pointers) /\ Len(Line(NULL, << >>, NULL)) = 2
          /\ Line(NULL, << >>, NULL)[1] = NULL /\ Line(NULL, << >>, NULL)[2] = NULL
      <3>1. PICK ps \in Seq(Pointers) : ps = << >> /\ Len(ps) = 0 BY <2>3
      <3>2. /\ Line(NULL, ps, NULL) \in Seq(Pointers) /\ Len(Line(NULL, ps, NULL)) = 0 + 2
            /\ Line(NULL, ps, NULL)[1] = NULL /\ Line(NULL, ps, NULL)[0 + 2] = NULL
        <4>1. PICK a \in Pointers : a = NULL BY <2>3
        <4>2. /\ Line(a, ps, a) \in Seq(Pointers) /\ Len(Line(a, ps, a)) = Len(ps) + 2
              /\ Line(a, ps, a)[1] = a /\ Line(a, ps, a)[Len(ps) + 2] = a
          BY LineFields
        <4> QED BY <3>1, <4>1, <4>2
      <3> QED BY <3>1, <3>2
    <2>5. \A i \in 1..2 : i = 1 \/ i = 2 OBVIOUS
    <2> QED BY <2>2, <2>4, <2>5
  <1>5. Waiters = {}
    BY FramesAssumption DEF Waiters, Init, TasksInit, FreeFrame, Frame
  <1>6. Listed(Heads, m_next, Waiters)
    <2>2. IsPath(m_next, NULL) /\ On(m_next, NULL) = {} BY OnNothing
    <2> QED BY <1>3, <1>5, <2>2 DEF Listed
  <1>7. Ended(m_awaiter_que, m_next)
    <2>1. Represents(EmptyList, m_next, << >>) BY EmptyRepresents
    <2>2. Chain(m_next, EmptyList.head) = << >> BY <2>1, PathChain DEF Represents
    <2> QED BY <2>1, <2>2 DEF Ended, Init
  <1> QED BY <1>1, <1>2, <1>6, <1>7 DEF EventInv, IInv

\* Nobody begins or ends to wait.
LEMMA ListsStay ==
    ASSUME EventInv, Sound(frames, calls)', EventsKept, UNCHANGED <<listVars, walk, resumed, skipped>>
    PROVE  EventInv'
  <1>1. /\ m_awaiter_que' = m_awaiter_que /\ m_next' = m_next /\ posted' = posted
        /\ walk' = walk /\ resumed' = resumed /\ skipped' = skipped
    BY DEF listVars
  <1>2. \A n \in Frames : frames'[n].state = "event" <=> frames[n].state = "event"
    BY DEF EventsKept
  <1>3. Shape'
    BY <1>1, <1>2 DEF EventInv, Shape
  <1>4. Ahead' = Ahead
    <2>1. resumed /\ walk # past => walk \in Frames
      BY FramesAssumption DEF EventInv, Shape, Pointers
    <2> QED BY <1>1, <1>2, <2>1 DEF Ahead
  <1>5. Heads' = Heads
    BY <1>1, <1>4 DEF Heads
  <1>6. Waiters' = Waiters
    BY <1>1, <1>2 DEF Waiters
  <1> QED BY <1>1, <1>3, <1>5, <1>6 DEF EventInv

\* A node that is in no list joins the event's.
LEMMA Enlisted ==
    ASSUME m_awaiter_que \in Lists, posted \in Seq(Pointers),
           NEW links \in Links, NEW waiting, NEW ahead \in Pointers,
           Listed(Line(m_awaiter_que.head, posted, ahead), links, waiting),
           Ended(m_awaiter_que, links),
           NEW a \in Nodes, a \notin waiting, Enlist(links, a)
    PROVE  /\ Listed(Line(m_awaiter_que'.head, posted', ahead), m_next', waiting \cup {a})
           /\ Ended(m_awaiter_que', m_next')
           /\ m_awaiter_que' \in Lists /\ m_next' \in Links /\ posted' = posted
           /\ \A f \in Nodes : f \notin waiting /\ f # a => m_next'[f] = links[f]
  <1> DEFINE new == PushList(m_awaiter_que, a)
  <1>1. m_awaiter_que' = new /\ m_next' = PushLinks(m_awaiter_que, links, a) /\ posted' = posted
    BY DEF Enlist
  <1>2. m_awaiter_que.head \in Pointers
    BY DEF Lists
  <1>3. PICK heads : heads = Line(m_awaiter_que.head, posted, ahead)
    OBVIOUS
  <1>4. Len(heads) # 0 /\ heads[1] = m_awaiter_que.head
    <2>1. PICK h \in Pointers : h = m_awaiter_que.head BY <1>2
    <2>2. /\ Len(posted) \in Nat /\ Len(Line(h, posted, ahead)) = Len(posted) + 2
          /\ Line(h, posted, ahead)[1] = h
      BY LineFields
    <2> QED BY <1>3, <2>1, <2>2
  <1>5. PICK hs : Puts(heads, hs, 1, new.head)
    BY DEF Puts
  <1>6. PICK other : other = m_next' /\ Pushed(m_awaiter_que, links, a, other)
    BY <1>1 DEF Pushed
  <1>7. /\ Listed(hs, other, waiting \cup {a}) /\ Ended(new, other)
        /\ new \in Lists /\ other \in Links
        /\ KeepsLinks(links, other, waiting \cup {a})
    BY <1>3, <1>4, <1>5, <1>6, NodePushed
  <1>8. hs = Line(new.head, posted, ahead)
    <2>1. new.head \in Pointers BY <1>7 DEF Lists
    <2>2. PICK h \in Pointers, p \in Pointers : h = m_awaiter_que.head /\ p = new.head
      BY <1>2, <2>1
    <2>3. Puts(Line(h, posted, ahead), Line(p, posted, ahead), 1, p) BY LineEnds
    <2> QED BY <1>3, <1>5, <2>2, <2>3 DEF Puts
  <1> QED BY <1>1, <1>6, <1>7, <1>8 DEF KeepsLinks

LEMMA WaitKeeps == EventInv /\ Wait => EventInv'
  <1> SUFFICES ASSUME EventInv, Wait PROVE EventInv'
    OBVIOUS
  <1>0. PICK a : a = Actor
    OBVIOUS
  <1> DEFINE h == m_awaiter_que.head
             last == Len(posted) + 2
  <1>1. Sound(frames, calls) /\ Shape /\ Listed(Heads, m_next, Waiters) /\ Ended(m_awaiter_que, m_next)
    BY DEF EventInv
  <1>2. /\ Sound(frames, calls)'
        /\ a \in Frames /\ frames[a].state = "running"
        /\ \A g \in Frames : frames'[g].state = "event" <=> g = a \/ frames[g].state = "event"
    BY <1>0, <1>1, WaitBegins
  <1>3. /\ a \in Nodes /\ a # past /\ past \notin Frames /\ past # NULL
        /\ past \in Nodes /\ past \notin Waiters /\ a \notin Waiters /\ a \notin skipped
    BY <1>1, <1>2, FramesAssumption, NodesAssumption DEF Waiters, Shape
  <1>4. /\ Ahead \in Pointers /\ h \in Pointers
        /\ Heads = Line(h, posted, Ahead) /\ Heads[last] = Ahead
        /\ last \in 1..Len(Heads)
    BY <1>1, TheHeads
  <1>5. /\ m_next \in Links /\ m_awaiter_que \in Lists /\ posted \in Seq(Pointers)
        /\ walk \in Pointers /\ resumed \in BOOLEAN /\ (resumed => walk # NULL)
        /\ resumed' = resumed
        /\ skipped \subseteq {n \in Frames : frames[n].state = "event"}
    BY <1>1 DEF Shape, Wait
  <1> HIDE DEF h, last
  <1>6. ASSUME a = walk PROVE resumed /\ Ahead = m_next[a] /\ a # NULL
    <2>1. Ahead # NULL => Ahead \in Waiters
      <3>1. Heads[last] # NULL => Heads[last] \in Waiters BY <1>1, <1>4, HeadsWait
      <3> QED BY <1>4, <3>1
    <2>2. a # NULL BY <1>3, NodesAssumption
    <2>3. resumed BY <1>3, <1>5, <1>6, <2>1, <2>2 DEF Ahead
    <2> QED BY <1>2, <1>3, <1>6, <2>2, <2>3 DEF Ahead
  <1>7. CASE a # walk /\ Enlist(m_next, a) /\ UNCHANGED <<walk, skipped>>
    <2>1. Listed(Line(m_awaiter_que.head, posted, Ahead), m_next, Waiters) BY <1>1, <1>4 DEF h
    <2>2. /\ Listed(Line(m_awaiter_que'.head, posted', Ahead), m_next', Waiters \cup {a})
          /\ Ended(m_awaiter_que', m_next')
          /\ m_awaiter_que' \in Lists /\ m_next' \in Links /\ posted' = posted
          /\ \A f \in Nodes : f \notin Waiters /\ f # a => m_next'[f] = m_next[f]
      BY <1>1, <1>3, <1>4, <1>5, <1>7, <2>1, Enlisted
    <2>3. Ahead' = Ahead
      <3>1. CASE ~resumed BY <1>5, <1>7, <3>1 DEF Ahead
      <3>2. CASE resumed /\ walk # past
        <4>1. walk \in Frames /\ walk \in Nodes
          BY <1>5, <3>2, FramesAssumption DEF Pointers
        <4>2. frames'[walk].state = "event" <=> frames[walk].state = "event"
          BY <1>2, <1>7, <4>1
        <4>3. frames[walk].state # "event" => m_next'[walk] = m_next[walk]
          BY <1>7, <2>2, <4>1 DEF Waiters
        <4> QED BY <1>5, <1>7, <3>2, <4>2, <4>3 DEF Ahead
      <3>3. CASE resumed /\ walk = past
        <4>1. m_next'[past] = m_next[past] BY <1>3, <2>2
        <4> QED BY <1>5, <1>7, <3>3, <4>1 DEF Ahead
      <3> QED BY <1>5, <3>1, <3>2, <3>3
    <2>4. Heads' = Line(m_awaiter_que'.head, posted', Ahead) BY <2>3 DEF Heads, Line
    <2>5. Waiters' = Waiters \cup {a} BY <1>2, <1>3, <1>7 DEF Waiters
    <2>6. Shape' BY <1>2, <1>5, <1>7, <2>2 DEF Shape
    <2> QED BY <1>2, <2>2, <2>4, <2>5, <2>6 DEF EventInv
  <1>8. CASE /\ a = walk /\ Enlist(m_next, a) /\ UNCHANGED walk
             /\ skipped' = skipped \cup Range(Chain(m_next, m_next[a]))
    <2> DEFINE gone == On(m_next, Ahead)
    <2>1. NULL \in Pointers BY DEF Pointers
    <2>2. Listed(Line(m_awaiter_que.head, posted, NULL), m_next, Waiters \ gone)
      <3>1. PICK hs : hs = Line(h, posted, NULL) /\ Puts(Heads, hs, last, NULL)
        BY <1>4, <1>5, <2>1, LineEnds DEF last
      <3>2. Listed(hs, m_next, Waiters \ On(m_next, Heads[last]))
        BY <1>1, <1>4, <3>1, ListLeaves
      <3> QED BY <1>4, <3>1, <3>2 DEF h
    <2>3. /\ Listed(Line(m_awaiter_que'.head, posted', NULL), m_next', (Waiters \ gone) \cup {a})
          /\ Ended(m_awaiter_que', m_next')
          /\ m_awaiter_que' \in Lists /\ m_next' \in Links /\ posted' = posted
      <3>1. a \notin Waiters \ gone BY <1>3
      <3> HIDE DEF gone
      <3> QED BY <1>1, <1>3, <1>5, <1>8, <2>1, <2>2, <3>1, Enlisted
    <2>4. /\ gone \subseteq Waiters /\ Range(Chain(m_next, m_next[a])) = gone
      <3>1. IsPath(m_next, Ahead) /\ \A n \in Nodes : n \in On(m_next, Ahead) => n \in Waiters
        BY <1>1, <1>4 DEF Listed
      <3> DEFINE q == Chain(m_next, Ahead)
      <3>2. q \in Seq(Nodes) BY <3>1 DEF IsPath, Path
      <3>3. gone = {n \in Nodes : \E i \in 1..Len(q) : q[i] = n} BY DEF On
      <3>4. q = Chain(m_next, m_next[a]) BY <1>6, <1>8
      <3> HIDE DEF q
      <3>5. DOMAIN q = 1..Len(q) /\ \A i \in 1..Len(q) : q[i] \in Nodes BY <3>2
      <3>6. Range(q) = {q[i] : i \in 1..Len(q)} BY <3>5 DEF Range
      <3>7. Range(q) = gone BY <3>3, <3>5, <3>6
      <3>8. gone \subseteq Waiters BY <3>1, <3>3
      <3> QED BY <3>4, <3>7, <3>8
    <2> HIDE DEF gone
    <2>5. skipped' = skipped \cup gone BY <1>8, <2>4
    <2>6. Ahead' = NULL BY <1>2, <1>3, <1>5, <1>6, <1>8 DEF Ahead
    <2>7. Heads' = Line(m_awaiter_que'.head, posted', NULL) BY <2>6 DEF Heads, Line
    <2>8. Waiters' = (Waiters \ gone) \cup {a} BY <1>2, <1>3, <2>4, <2>5 DEF Waiters
    <2>9. Shape'
      <3>1. skipped' \subseteq {n \in Frames : frames'[n].state = "event"}
        BY <1>2, <1>5, <2>4, <2>5 DEF Waiters
      <3> QED BY <1>5, <1>8, <2>3, <3>1 DEF Shape
    <2> QED BY <1>2, <2>3, <2>7, <2>8, <2>9 DEF EventInv
  <1>9. CASE /\ a = walk /\ Enlist([m_next EXCEPT ![past] = m_next[a]], a) /\ walk' = past
             /\ UNCHANGED skipped
    <2>1. PICK links : links = [m_next EXCEPT ![past] = m_next[a]]
      OBVIOUS
    <2>2. /\ links \in Links /\ links[past] = m_next[a]
          /\ \A n \in Nodes : n # past => links[n] = m_next[n]
      BY <1>3, <1>5, <2>1 DEF Links
    <2>3. /\ Listed(Line(m_awaiter_que.head, posted, Ahead), links, Waiters)
          /\ Ended(m_awaiter_que, links)
      <3>1. \A n \in Nodes : n \in Waiters => links[n] = m_next[n] BY <1>3, <2>2
      <3>2. Listed(Heads, links, Waiters) BY <1>1, <3>1, Relinked
      <3>3. \A n \in On(m_next, h) : n \in Nodes /\ n \in Waiters
        <4>1. Heads[1] = h /\ 1 \in 1..Len(Heads) BY <1>1, TheHeads DEF h
        <4>2. \A n \in Nodes : n \in On(m_next, Heads[1]) => n \in Waiters BY <1>1, <4>1 DEF Listed
        <4> QED BY <4>1, <4>2 DEF On
      <3>4. Ended(m_awaiter_que, links) BY <1>1, <3>1, <3>3, EndedKept DEF h
      <3> QED BY <1>4, <3>2, <3>4 DEF h
    <2>4. /\ Listed(Line(m_awaiter_que'.head, posted', Ahead), m_next', Waiters \cup {a})
          /\ Ended(m_awaiter_que', m_next')
          /\ m_awaiter_que' \in Lists /\ m_next' \in Links /\ posted' = posted
          /\ \A f \in Nodes : f \notin Waiters /\ f # a => m_next'[f] = links[f]
      <3>1. Enlist(links, a) BY <1>9, <2>1
      <3>2. m_awaiter_que \in Lists /\ posted \in Seq(Pointers) /\ links \in Links /\ Ahead \in Pointers
        BY <1>4, <1>5, <2>2
      <3>3. a \in Nodes /\ a \notin Waiters BY <1>3
      <3> QED BY <2>3, <3>1, <3>2, <3>3, Enlisted
    <2>5. Ahead' = Ahead
      <3>1. m_next'[past] = m_next[a] BY <1>3, <2>2, <2>4
      <3> QED BY <1>5, <1>6, <1>9, <3>1 DEF Ahead
    <2>6. Heads' = Line(m_awaiter_que'.head, posted', Ahead) BY <2>5 DEF Heads, Line
    <2>7. Waiters' = Waiters \cup {a} BY <1>2, <1>3, <1>9 DEF Waiters
    <2>8. Shape'
      <3>1. past \in Pointers BY <1>3 DEF Pointers
      <3> QED BY <1>2, <1>3, <1>5, <1>9, <2>4, <3>1 DEF Shape
    <2> QED BY <1>2, <2>4, <2>6, <2>7, <2>8 DEF EventInv
  <1> QED BY <1>0, <1>7, <1>8, <1>9 DEF Wait

LEMMA NotifyKeeps == EventInv /\ (notify_one \/ notify_all) => EventInv'
  <1> SUFFICES ASSUME EventInv, notify_one \/ notify_all PROVE EventInv'
    OBVIOUS
  <1> DEFINE h == m_awaiter_que.head
  <1>1. Sound(frames, calls) /\ Shape /\ Listed(Heads, m_next, Waiters) /\ Ended(m_awaiter_que, m_next)
    BY DEF EventInv
  <1>2. /\ frames' = frames /\ calls' = calls /\ walk' = walk /\ resumed' = resumed
        /\ skipped' = skipped /\ posted' = Append(posted, h)
    BY DEF notify_one, notify_all, Notifies, taskVars, walkVars
  <1>3. /\ Ahead \in Pointers /\ h \in Pointers
        /\ Heads = Line(h, posted, Ahead)
        /\ Len(posted) \in Nat /\ Len(Heads) = Len(posted) + 2
        /\ Heads[1] = h
    BY <1>1, TheHeads
  <1>4. Sound(frames, calls)' /\ Waiters' = Waiters
    BY <1>1, <1>2 DEF Waiters
  <1>5. /\ m_next \in Links /\ m_awaiter_que \in Lists /\ posted \in Seq(Pointers)
        /\ walk \in Pointers /\ resumed \in BOOLEAN /\ (resumed => walk # NULL)
        /\ skipped \subseteq {n \in Frames : frames[n].state = "event"}
    BY <1>1 DEF Shape
  <1>6. posted' \in Seq(Pointers)
    BY <1>2, <1>3, <1>5
  <1> HIDE DEF h
  <1>7. CASE notify_all
    <2>1. m_next' = m_next /\ m_awaiter_que' = EmptyList
      BY <1>5, <1>7 DEF notify_all, Lists, EmptyList
    <2>2. Shape'
      <3>1. EmptyList \in Lists BY EmptyRepresents
      <3> QED BY <1>2, <1>5, <1>6, <2>1, <3>1 DEF Shape
    <2>3. Ahead' = Ahead
      BY <1>2, <2>1 DEF Ahead
    <2>4. Heads' = Line(NULL, Append(posted, h), Ahead)
      BY <1>2, <2>1, <2>3 DEF Heads, Line, EmptyList
    <2>5. Listed(Line(NULL, Append(posted, h), Ahead), m_next, Waiters)
      BY <1>1, <1>3, <1>5, LinePosted
    <2>6. Ended(EmptyList, m_next)
      <3>1. Represents(EmptyList, m_next, << >>) BY EmptyRepresents
      <3>2. Chain(m_next, EmptyList.head) = << >> BY <3>1, PathChain DEF Represents
      <3> QED BY <3>1, <3>2 DEF Ended
    <2> QED BY <1>4, <2>1, <2>2, <2>4, <2>5, <2>6 DEF EventInv
  <1>8. CASE notify_one
    <2>1. PICK p : p = m_next[h]
      OBVIOUS
    <2>2. PICK other : other = [m_next EXCEPT ![m_awaiter_que.head] = NULL]
      OBVIOUS
    <2>3. h # NULL /\ m_awaiter_que' = PopList(m_awaiter_que, m_next) /\ m_next' = other
      BY <1>8, <2>2 DEF notify_one, h
    <2>4. /\ h \in Nodes /\ h \in Waiters /\ 1 \in 1..Len(Heads)
      <3>1. 1 \in 1..Len(Heads) BY <1>3
      <3> QED BY <1>1, <1>3, <2>3, <3>1, HeadsWait
    <2>5. /\ Ended(m_awaiter_que', other) /\ m_awaiter_que' \in Lists
          /\ m_awaiter_que'.head = p /\ other \in Links
      BY <1>1, <1>5, <2>1, <2>2, <2>3, NodePopped DEF h
    <2>6. p \in Pointers
      BY <1>5, <2>1, <2>4 DEF Links
    <2>7. Puts(Heads, Line(p, posted, Ahead), 1, p)
      BY <1>3, <1>5, <2>6, LineEnds
    <2>8. Listed(Line(p, posted, Ahead), m_next, Waiters \ {h})
      <3>1. PICK hs : hs = Line(p, posted, Ahead) /\ Puts(Heads, hs, 1, m_next[Heads[1]])
        BY <1>3, <2>1, <2>7
      <3>2. Listed(hs, m_next, Waiters \ {Heads[1]})
        BY <1>1, <1>3, <1>5, <2>3, <2>4, <3>1, FirstLeaves
      <3> QED BY <1>3, <3>1, <3>2
    <2>9. other[h] = NULL /\ \A n \in Nodes : n # h => other[n] = m_next[n]
      BY <1>5, <2>2, <2>4 DEF Links, h
    <2>10. Listed(Line(p, posted, Ahead), other, Waiters \ {h})
      <3>1. \A n \in Nodes : n \in Waiters \ {h} => other[n] = m_next[n]
        BY <2>9
      <3> QED BY <2>8, <3>1, Relinked
    <2>11. Listed(Append(Line(p, posted, Ahead), h), other, (Waiters \ {h}) \cup {h})
      <3>1. h \notin Waiters \ {h} OBVIOUS
      <3> QED BY <2>4, <2>9, <2>10, <3>1, ListComes
    <2>12. (Waiters \ {h}) \cup {h} = Waiters
      BY <2>4
    <2>13. Listed(Line(p, Append(posted, h), Ahead), other, Waiters)
      BY <1>3, <1>5, <2>6, <2>11, <2>12, LineJoined
    <2>14. Ahead' = Ahead
      <3>1. frames[h].state = "event" /\ h # past BY <2>4, FramesAssumption DEF Waiters
      <3>2. resumed /\ (walk = past \/ frames[walk].state # "event") => m_next'[walk] = m_next[walk]
        BY <1>5, <2>3, <2>9, <3>1 DEF Pointers
      <3> QED BY <1>2, <3>2 DEF Ahead
    <2>15. Heads' = Line(p, Append(posted, h), Ahead)
      BY <1>2, <2>5, <2>14 DEF Heads, Line
    <2>16. Shape'
      BY <1>2, <1>5, <1>6, <2>3, <2>5 DEF Shape
    <2> QED BY <1>4, <2>3, <2>5, <2>13, <2>15, <2>16 DEF EventInv
  <1> QED BY <1>7, <1>8

LEMMA OnNotifyKeeps == EventInv /\ on_notify => EventInv'
  <1> SUFFICES ASSUME EventInv, on_notify PROVE EventInv'
    OBVIOUS
  <1> DEFINE h == m_awaiter_que.head
  <1>1. Sound(frames, calls) /\ Shape /\ Listed(Heads, m_next, Waiters) /\ Ended(m_awaiter_que, m_next)
    BY DEF EventInv
  <1>2. /\ frames' = frames /\ calls' = calls /\ skipped' = skipped /\ m_next' = m_next
        /\ m_awaiter_que' = m_awaiter_que /\ posted # << >>
        /\ resumed' = resumed /\ walk = NULL /\ walk' = Head(posted) /\ posted' = Tail(posted)
    BY DEF on_notify, taskVars
  <1>3. h \in Pointers /\ Heads = Line(h, posted, Ahead)
    BY <1>1, TheHeads
  <1>4. ~resumed /\ Ahead = NULL
    BY <1>1, <1>2 DEF Ahead, Shape
  <1>5. posted \in Seq(Pointers)
    BY <1>1 DEF Shape
  <1>6. Listed(Line(h, Tail(posted), Head(posted)), m_next, Waiters)
    BY <1>1, <1>2, <1>3, <1>4, <1>5, LineTaken
  <1>7. Head(posted) \in Pointers /\ Tail(posted) \in Seq(Pointers)
    BY <1>2, <1>5
  <1>9. Ahead' = Head(posted)
    BY <1>2, <1>4 DEF Ahead
  <1>10. Heads' = Line(h, Tail(posted), Head(posted))
    BY <1>2, <1>9 DEF Heads, Line
  <1>11. Waiters' = Waiters
    BY <1>2 DEF Waiters
  <1>12. Shape'
    BY <1>1, <1>2, <1>4, <1>7 DEF Shape
  <1> QED BY <1>1, <1>2, <1>6, <1>10, <1>11, <1>12 DEF EventInv

LEMMA VisitKeeps == EventInv /\ Visit => EventInv'
  <1> SUFFICES ASSUME EventInv, Visit PROVE EventInv'
    OBVIOUS
  <1> DEFINE h == m_awaiter_que.head
             last == Len(posted) + 2
  <1>1. Sound(frames, calls) /\ Shape /\ Listed(Heads, m_next, Waiters) /\ Ended(m_awaiter_que, m_next)
    BY DEF EventInv
  <1>2. /\ m_awaiter_que' = m_awaiter_que /\ m_next' = m_next /\ posted' = posted
        /\ walk' = walk /\ skipped' = skipped /\ walk # NULL /\ ~resumed /\ resumed' = TRUE
    BY DEF Visit, listVars
  <1>3. walk \in Pointers /\ m_next \in Links /\ posted \in Seq(Pointers)
    BY <1>1 DEF Shape
  <1>6. /\ Ahead \in Pointers /\ h \in Pointers
        /\ Heads = Line(h, posted, Ahead) /\ Heads[last] = Ahead
        /\ last \in 1..Len(Heads)
    BY <1>1, TheHeads
  <1>12. walk \in Waiters /\ walk \in Frames /\ frames[walk].state = "event" /\ walk # past
    <2>1. Heads[last] = walk /\ walk # NULL BY <1>2, <1>6 DEF Ahead
    <2>2. walk \in Waiters BY <1>1, <1>6, <2>1, HeadsWait
    <2> QED BY <2>2, FramesAssumption DEF Waiters
  <1>4. /\ Sound(frames, calls)'
        /\ \A g \in Frames : frames'[g].state = "event" <=> g # walk /\ frames[g].state = "event"
    BY <1>1, <1>12, VisitBegins
  <1>5. Ahead = walk /\ Ahead' = m_next[walk]
    BY <1>2, <1>4, <1>12 DEF Ahead
  <1>7. m_next[walk] \in Pointers
    BY <1>3, <1>12, FramesAssumption DEF Links
  <1> HIDE DEF h
  <1>8. Heads' = Line(h, posted, m_next[walk])
    BY <1>2, <1>5 DEF Heads, Line, h
  <1>9. Puts(Heads, Heads', last, m_next[walk])
    BY <1>3, <1>6, <1>7, <1>8, LineEnds
  <1> HIDE DEF last
  <1>10. Heads[last] # NULL /\ Heads[last] = walk
    BY <1>2, <1>5, <1>6
  <1>11. Listed(Heads', m_next, Waiters \ {walk})
    <2>1. PICK hs : hs = Heads' /\ Puts(Heads, hs, last, m_next[Heads[last]]) BY <1>9, <1>10
    <2>2. Listed(hs, m_next, Waiters \ {Heads[last]})
      BY <1>1, <1>3, <1>6, <1>10, <2>1, FirstLeaves
    <2> QED BY <1>10, <2>1, <2>2
  <1>13. Waiters' = Waiters \ {walk}
    BY <1>2, <1>4 DEF Waiters
  <1>14. Shape'
    BY <1>1, <1>2, <1>4, <1>12 DEF Shape, Waiters
  <1> QED BY <1>1, <1>2, <1>4, <1>11, <1>13, <1>14 DEF EventInv

LEMMA AdvanceKeeps == EventInv /\ Advance /\ ~misled' => EventInv'
  <1> SUFFICES ASSUME EventInv, Advance, ~misled' PROVE EventInv'
    OBVIOUS
  <1> DEFINE last == Len(posted) + 2
  <1>1. Sound(frames, calls) /\ Shape /\ Listed(Heads, m_next, Waiters) /\ Ended(m_awaiter_que, m_next)
    BY DEF EventInv
  <1>2. /\ frames' = frames /\ calls' = calls /\ skipped' = skipped
        /\ m_awaiter_que' = m_awaiter_que /\ posted' = posted
        /\ resumed /\ resumed' = FALSE
        /\ walk' = m_next[walk] /\ m_next' = [m_next EXCEPT ![walk] = NULL]
        /\ walk = past \/ frames[walk].state # "event" \/ m_next[walk] = NULL
    BY DEF Advance, taskVars
  <1>3. walk \in Nodes /\ m_next \in Links
    BY <1>1, <1>2 DEF Shape, Pointers
  <1>4. walk' \in Pointers /\ m_next' \in Links
    BY <1>2, <1>3 DEF Links, Pointers
  <1>5. Ahead = m_next[walk]
    BY <1>2 DEF Ahead
  <1>6. Heads[last] = Ahead /\ last \in 1..Len(Heads) /\ Heads[1] = m_awaiter_que.head
        /\ 1 \in 1..Len(Heads)
    BY <1>1, TheHeads
  <1> HIDE DEF last
  <1>8. Ahead' = Ahead
    BY <1>2, <1>5 DEF Ahead
  <1>9. Heads' = Heads
    BY <1>2, <1>8 DEF Heads
  <1>10. Waiters' = Waiters
    BY <1>2 DEF Waiters
  <1>11. \A n \in Nodes : n \in Waiters => m_next'[n] = m_next[n]
    <2>1. walk \in Waiters => m_next[walk] = NULL
      BY <1>2, FramesAssumption DEF Waiters
    <2> QED BY <1>2, <1>3, <2>1 DEF Links
  <1>12. Listed(Heads, m_next', Waiters)
    BY <1>1, <1>11, Relinked
  <1>13. Ended(m_awaiter_que, m_next')
    <2>1. \A n \in On(m_next, m_awaiter_que.head) : n \in Nodes /\ n \in Waiters
      <3>1. \A n \in Nodes : n \in On(m_next, Heads[1]) => n \in Waiters BY <1>1, <1>6 DEF Listed
      <3> QED BY <1>6, <3>1 DEF On
    <2>2. \A n \in On(m_next, m_awaiter_que.head) : m_next'[n] = m_next[n] BY <1>11, <2>1
    <2> QED BY <1>1, <2>2, EndedKept
  <1>14. Shape'
    BY <1>1, <1>2, <1>4 DEF Shape
  <1> QED BY <1>1, <1>2, <1>9, <1>10, <1>12, <1>13, <1>14 DEF EventInv

\* Every step keeps the invariant.
LEMMA EventKept == IInv /\ [Next]_vars => IInv'
  <1> SUFFICES ASSUME IInv, [Next]_vars PROVE IInv'
    OBVIOUS
  <1>1. Sound(frames, calls) /\ (~misled => EventInv)
    BY DEF IInv
  <1>2. CASE UNCHANGED vars
    <2>1. /\ Sound(frames, calls)' /\ EventsKept /\ UNCHANGED <<listVars, walk, resumed, skipped>>
          /\ misled' = misled
      BY <1>1, <1>2 DEF vars, taskVars, walkVars, EventsKept
    <2> QED BY <1>1, <2>1, ListsStay DEF IInv
  <1>3. CASE ~misled /\ TaskStep
    <2>1. /\ Sound(frames, calls)' /\ EventsKept /\ UNCHANGED <<listVars, walk, resumed, skipped>>
      BY <1>1, <1>3, TasksGoOn DEF TaskStep
    <2> QED BY <1>1, <1>3, <2>1, ListsStay DEF IInv
  <1>4. CASE ~misled /\ Wait
    BY <1>1, <1>4, WaitKeeps DEF IInv, EventInv
  <1>5. CASE ~misled /\ (notify_one \/ notify_all)
    BY <1>1, <1>5, NotifyKeeps DEF IInv, EventInv
  <1>6. CASE ~misled /\ on_notify
    BY <1>1, <1>6, OnNotifyKeeps DEF IInv, EventInv
  <1>7. CASE ~misled /\ Visit
    BY <1>1, <1>7, VisitKeeps DEF IInv, EventInv
  <1>8. CASE ~misled /\ Advance
    <2>1. Sound(frames, calls)' BY <1>1, <1>8 DEF Advance, taskVars
    <2> QED BY <1>1, <1>8, <2>1, AdvanceKeeps DEF IInv
  <1>9. CASE ~misled /\ Catch
    <2>1. /\ Sound(frames, calls)' /\ EventsKept /\ UNCHANGED <<listVars, walk, resumed, skipped>>
      BY <1>1, <1>9 DEF Catch, walkVars, EventsKept
    <2> QED BY <1>1, <1>9, <2>1, ListsStay DEF IInv
  <1> QED BY <1>2, <1>3, <1>4, <1>5, <1>6, <1>7, <1>8, <1>9 DEF Next, LoopStep

-----------------------------------------------------------------------------
(* Theorems *)

\* The inductive invariant: the frames, the stack and the lists agree.
THEOREM EventInvariant == Spec => []IInv
  <1> QED BY FirstEventInv, EventKept, PTL DEF Spec

\* A coroutine waits for a task exactly when the task, not yet done, will continue it.
THEOREM AwaitersAreLinked == Spec => []AwaitersLinked
  <1>1. IInv => AwaitersLinked
    BY DEF IInv, Sound, Good, Waits, Live, AwaitersLinked
  <1> QED BY <1>1, EventInvariant, PTL

\* Every frame has a live owner, or is co_spawn's, and who runs is on the stack once.
THEOREM FramesAreOwned == Spec => []FramesOwned
  <1>1. ASSUME IInv PROVE FramesOwned
    <2>1. Owners(frames) /\ Running(frames, calls) /\ FrameTypes(frames)
      BY <1>1 DEF IInv, Sound, Good
    <2>2. DOMAIN calls = 1..Len(calls)
      BY <1>1 DEF IInv, Sound, CallTypes
    <2>3. ASSUME NEW f \in Frames, frames[f].state # "free"
          PROVE  /\ frames[f].owner \in Frames => frames[frames[f].owner].state \notin {"free", "done"}
                 /\ frames[f].owner = Nobody => \E g \in Frames :
                       /\ Is(f, "spawn") /\ frames[g].owner = f
                       /\ \/ frames[f].state = "awaiting" /\ frames[f].awaits = g
                          \/ frames[f].state = "escaped" /\ frames[g].state = "done"
      BY <2>1, <2>3 DEF Owners, Live, Is
    <2>4. /\ \A f \in Frames : frames[f].state = "running" <=> \E i \in DOMAIN calls : calls[i].cur = f
          /\ \A i, j \in DOMAIN calls : calls[i].cur = calls[j].cur => i = j
          /\ \A i \in DOMAIN calls : calls[i].how = "task" => frames[calls[i].root].state # "free"
      BY <2>1, <2>2 DEF Running
    <2> QED BY <2>3, <2>4 DEF FramesOwned
  <1> QED BY <1>1, EventInvariant, PTL

LEMMA TheChains ==
    ASSUME EventInv
    PROVE  /\ Len(Chains) = Len(Heads)
           /\ \A i \in 1..Len(Heads) :
                 /\ Chains[i] = Chain(m_next, Heads[i]) /\ Path(m_next, Heads[i], Chains[i])
                 /\ DOMAIN Chains[i] = 1..Len(Chains[i])
                 /\ \A j \in 1..Len(Chains[i]) : j \in 1..Cardinality(Nodes)
  <1>1. Listed(Heads, m_next, Waiters)
    BY DEF EventInv
  <1>2. Heads \in Seq(Pointers) /\ \A i \in 1..Len(Heads) : IsPath(m_next, Heads[i])
    BY <1>1 DEF Listed
  <1>3. Len(Heads) \in Nat /\ DOMAIN Heads = 1..Len(Heads)
    BY <1>2
  <1>4. Chains = [i \in 1..Len(Heads) |-> Chain(m_next, Heads[i])]
    BY <1>3 DEF Chains
  <1>5. \A i \in 1..Len(Heads) : Chain(m_next, Heads[i]) \in Seq(Nodes)
    BY <1>2 DEF IsPath, Path
  <1>6. Len(Chains) = Len(Heads)
    BY <1>3, <1>4, <1>5
  <1>7. ASSUME NEW i \in 1..Len(Heads)
        PROVE  /\ Chains[i] = Chain(m_next, Heads[i]) /\ Path(m_next, Heads[i], Chains[i])
               /\ DOMAIN Chains[i] = 1..Len(Chains[i])
               /\ \A j \in 1..Len(Chains[i]) : j \in 1..Cardinality(Nodes)
    <2>1. PICK q : q = Chain(m_next, Heads[i])
      OBVIOUS
    <2>2. Chains[i] = q /\ Path(m_next, Heads[i], q)
      BY <1>2, <1>4, <2>1 DEF IsPath
    <2>3. q \in Seq(Nodes) /\ DOMAIN q = 1..Len(q)
      BY <2>2 DEF Path
    <2>4. Len(q) \in Nat /\ Len(q) <= Cardinality(Nodes)
        BY <2>2, PathLength
    <2>5. Cardinality(Nodes) \in Nat
      BY NodesAssumption, FS_CardinalityType
    <2> QED BY <2>1, <2>2, <2>3, <2>4, <2>5
  <1> QED BY <1>6, <1>7

\* Until on_notify is misled, every coroutine that waits for the event is in one of the lists
\* that somebody will walk, once, if none before it has waited again in the same place; and
\* nobody else is.
THEOREM WaitersAreListed == Spec => []WaitersListed
  <1>1. ASSUME IInv PROVE WaitersListed
    <2> SUFFICES ASSUME ~misled, NEW f \in Frames
                 PROVE  Cardinality(Places(f)) = IF frames[f].state = "event" /\ f \notin skipped THEN 1 ELSE 0
      BY DEF WaitersListed
    <2>0. EventInv
      BY <1>1 DEF IInv
    <2>1. Listed(Heads, m_next, Waiters) /\ f \in Nodes
      BY <2>0, FramesAssumption DEF EventInv
    <2>2. /\ Len(Chains) = Len(Heads)
          /\ \A i \in 1..Len(Heads) :
                /\ Chains[i] = Chain(m_next, Heads[i]) /\ Path(m_next, Heads[i], Chains[i])
                /\ DOMAIN Chains[i] = 1..Len(Chains[i])
                /\ \A j \in 1..Len(Chains[i]) : j \in 1..Cardinality(Nodes)
      BY <2>0, TheChains
    <2>3. \A i \in 1..Len(Heads) :
              f \in On(m_next, Heads[i]) <=> \E j \in 1..Len(Chains[i]) : Chains[i][j] = f
      BY <2>1, <2>2 DEF On
    <2>4. f \in Waiters <=> frames[f].state = "event" /\ f \notin skipped
      BY <2>1 DEF Waiters
    <2>5. \A p : p \in Places(f) <=>
              \E i \in 1..Len(Heads) : \E j \in 1..Len(Chains[i]) : p = <<i, j>> /\ Chains[i][j] = f
      BY <2>2 DEF Places
    <2>6. CASE f \in Waiters
      <3>1. PICK i \in 1..Len(Heads) : f \in On(m_next, Heads[i]) BY <2>1, <2>6 DEF Listed
      <3>2. PICK j \in 1..Len(Chains[i]) : Chains[i][j] = f BY <2>3, <3>1
      <3>3. ASSUME NEW k \in 1..Len(Heads), NEW l \in 1..Len(Chains[k]), Chains[k][l] = f
            PROVE  k = i /\ l = j
        <4>1. k = i BY <2>1, <2>3, <3>1, <3>3 DEF Listed
        <4>2. Path(m_next, Heads[i], Chains[i]) BY <2>2
        <4>3. l \in 1..Len(Chains[i]) /\ Chains[i][l] = Chains[i][j] BY <3>2, <3>3, <4>1
        <4>4. l = j BY <4>2, <4>3 DEF Path
        <4> QED BY <4>1, <4>4
      <3>4. Places(f) = {<<i, j>>}
        <4>1. <<i, j>> \in Places(f) BY <2>5, <3>2
        <4>2. \A p \in Places(f) : p = <<i, j>> BY <2>5, <3>3
        <4> QED BY <4>1, <4>2
      <3>5. Cardinality(Places(f)) = 1 BY <3>4, FS_Singleton
      <3> QED BY <2>4, <2>6, <3>5
    <2>7. CASE f \notin Waiters
      <3>1. \A i \in 1..Len(Heads) : f \notin On(m_next, Heads[i]) BY <2>1, <2>7 DEF Listed
      <3>2. Places(f) = {} BY <2>3, <2>5, <3>1
      <3>3. Cardinality(Places(f)) = 0 BY <3>2, FS_EmptySet
      <3> QED BY <2>4, <2>7, <3>3
    <2> QED BY <2>6, <2>7
  <1> QED BY <1>1, EventInvariant, PTL
=============================================================================
