------------------------------- MODULE Tasks -------------------------------
(***************************************************************************)
(* Task, Generator and co_spawn of task.h on one thread: who owns a frame, *)
(* who continues when a coroutine ends, where an exception goes.           *)
(*                                                                         *)
(* A frame belongs to the Task or Generator object that destroys it, and   *)
(* the object to Main (what is not a coroutine: main, the event loop, the  *)
(* heap) or to a frame, whose locals die with it.  calls is the machine    *)
(* stack: for each resume() that has not returned, where it began and      *)
(* which coroutine runs in it now, after symmetric transfers.              *)
(*                                                                         *)
(* What coroutines do is left open, within the rules of the code: only an  *)
(* owner awaits, resumes, moves or destroys a task; a coroutine is resumed *)
(* where it was suspended; one coroutine at a time waits for a task; and   *)
(* nothing is destroyed that runs, that an event is to resume, or that a   *)
(* survivor awaits.                                                        *)
(***************************************************************************)
EXTENDS Integers, Sequences, FiniteSets, SequencesExt

CONSTANTS Frames, Main, Nobody,
          noop,      \* std::noop_coroutine
          MaxCalls   \* bounds the resume() calls within each other

ASSUME NamesAssumption == /\ Main \notin Frames /\ Nobody \notin Frames \cup {Main}
                          /\ noop \notin Frames

VARIABLES frames, calls,
          thrown     \* an exception has left the last resume() and Main has it

taskVars == <<frames, calls, thrown>>

Frame(kind, state, owner) ==
    [kind |-> kind, state |-> state, owner |-> owner,
     m_continuation |-> noop, m_unhandled_exception |-> FALSE, awaits |-> noop]

FreeFrame == Frame("none", "free", Nobody)

TasksInit == /\ frames = [f \in Frames |-> FreeFrame]
             /\ calls = << >>
             /\ thrown = FALSE

Actor == IF calls = << >> THEN Main ELSE Last(calls).cur
Is(f, kind) == frames[f].kind = kind

Resumable(f) == frames[f].state \in {"new", "yielded"}
Owns(a, f) == frames[f].state # "free" /\ frames[f].owner = a
Awaited(f) == \E g \in Frames : frames[g].awaits = f

\* A frame and those that are destroyed with it, by the destructors of its locals: what
\* every set has that has the frame and all that its members own.
Tree(f) ==
    {g \in Frames : /\ frames[g].state # "free"
                    /\ \A set \in SUBSET Frames :
                          f \in set /\ (\A h \in Frames : frames[h].owner \in set => h \in set)
                          => g \in set}

Droppable(set) ==
    /\ \A g \in set : frames[g].state \in {"new", "yielded", "awaiting", "done"}
    /\ \A g \in Frames : frames[g].state = "awaiting" => (g \in set <=> frames[g].awaits \in set)

Free(fs, set) == [f \in Frames |-> IF f \in set THEN FreeFrame ELSE fs[f]]

-----------------------------------------------------------------------------
(* resume() begins, goes on in another coroutine, returns or throws. *)

Call(fs, root, cur, how) ==
    /\ Len(calls) < MaxCalls
    /\ frames' = [fs EXCEPT ![cur].state = "running"]
    /\ calls' = Append(calls, [root |-> root, cur |-> cur, how |-> how])
    /\ UNCHANGED thrown

Transfer(fs, cur) ==
    /\ frames' = [fs EXCEPT ![cur].state = "running"]
    /\ calls' = [calls EXCEPT ![Len(calls)].cur = cur]
    /\ UNCHANGED thrown

\* Only Task::resume looks for an exception, in the task it resumed.
Return(fs) ==
    LET call == Last(calls)
        failed == call.how = "task" /\ fs[call.root].m_unhandled_exception
    IN  /\ frames' = IF failed THEN [fs EXCEPT ![call.root].m_unhandled_exception = FALSE] ELSE fs
        /\ calls' = Front(calls)
        /\ thrown' = (failed /\ Len(calls) = 1)

Escape(fs) ==
    /\ frames' = fs
    /\ calls' = Front(calls)
    /\ thrown' = (Len(calls) = 1)

-----------------------------------------------------------------------------
(* What Main and running coroutines do *)

\* The allocator's choice.
FreeFrames == {f \in Frames : frames[f].state = "free"}
Fresh == CHOOSE f \in FreeFrames : TRUE

Create(kind) ==
    /\ FreeFrames # {}
    /\ frames' = [frames EXCEPT ![Fresh] = Frame(kind, "new", Actor)]
    /\ UNCHANGED <<calls, thrown>>

\* Task::resume
resume(f) == Owns(Actor, f) /\ Is(f, "task") /\ Resumable(f) /\ Call(frames, f, f, "task")

\* resume_coroutine_callback: whoever has the handle.
resume_coroutine_callback(f) ==
    Actor = Main /\ Is(f, "task") /\ Resumable(f) /\ Call(frames, f, f, "callback")

\* Generator::next
next(f) == Owns(Actor, f) /\ Is(f, "generator") /\ Resumable(f) /\ Call(frames, f, f, "next")

\* The promise of a task that somebody begins to wait for.
AwaitedBy(fs, f, a) == [fs EXCEPT ![f].m_continuation = a,
                                  ![a].state = "awaiting", ![a].awaits = f]

\* co_spawn: the frame s owns the task and awaits it.
co_spawn(f) ==
    /\ Owns(Actor, f) /\ Is(f, "task") /\ Resumable(f) /\ ~Awaited(f)
    /\ FreeFrames # {}
    /\ LET s == Fresh
           moved == [frames EXCEPT ![s] = Frame("spawn", "awaiting", Nobody), ![f].owner = s]
       IN  Call(AwaitedBy(moved, f, s), s, f, "spawn")

\* ~Task, ~Generator
Drop(f) ==
    /\ Owns(Actor, f) /\ Droppable(Tree(f))
    /\ frames' = Free(frames, Tree(f))
    /\ UNCHANGED <<calls, thrown>>

\* A coroutine moves a task out of its frame.
release(f) ==
    /\ Actor \in Frames /\ Owns(Actor, f)
    /\ frames' = [frames EXCEPT ![f].owner = Main]
    /\ UNCHANGED <<calls, thrown>>

-----------------------------------------------------------------------------
(* What only coroutines do *)

\* co_await task
Await(f) ==
    LET a == Actor IN
    /\ Is(a, "task") /\ Owns(a, f) /\ Is(f, "task") /\ Resumable(f) /\ ~Awaited(f)
    /\ Transfer(AwaitedBy(frames, f, a), f)

\* Faulty variant: await_ready says no although the task is done.
JoinAlways(f) ==
    LET a == Actor IN
    /\ Is(a, "task") /\ Is(f, "task") /\ f # a /\ ~Awaited(f)
    /\ Return(AwaitedBy(frames, f, a))

\* co_await task.join()
Join(f) ==
    LET a == Actor IN
    /\ Is(a, "task") /\ Is(f, "task") /\ f # a /\ ~Awaited(f)
    /\ \/ /\ frames[f].state = "done"
          /\ frames' = [frames EXCEPT ![f].m_unhandled_exception = FALSE]
          /\ UNCHANGED <<calls, thrown>>
       \/ /\ frames[f].state # "done"
          /\ Return(AwaitedBy(frames, f, a))

\* yield(), co_yield
Yield == Return([frames EXCEPT ![Actor].state = "yielded"])

\* yield(h)
YieldTo(f) ==
    /\ Is(Actor, "task") /\ Is(f, "task") /\ Resumable(f)
    /\ Transfer([frames EXCEPT ![Actor].state = "yielded"], f)

\* Faulty variant: final_suspend suspends, and nobody destroys the frame.
SpawnEndsSuspended(fs, s, f, failed) ==
    LET ended == [fs EXCEPT ![s].state = "done", ![s].awaits = noop,
                            ![f].m_unhandled_exception = FALSE]
    IN  IF failed THEN Escape(ended) ELSE Return(ended)

\* The end of co_spawn's coroutine, with the exception of its task or without.  The
\* exception leaves unhandled_exception and the frame stays, with its task.
SpawnEnds(fs, s, f, failed) ==
    IF failed
    THEN Escape([fs EXCEPT ![s].state = "escaped", ![s].awaits = noop,
                           ![f].m_unhandled_exception = FALSE])
    ELSE Return(Free(fs, {s, f}))

\* co_return of a task, or an exception that leaves it: unhandled_exception, the locals'
\* destructors, final_suspend, and await_resume of the coroutine that continues.
FinishTask(failed) ==
    LET f == Actor
        k == frames[f].m_continuation
        locals == Tree(f) \ {f}
        ended == [Free(frames, locals) EXCEPT ![f].state = "done", ![f].m_continuation = noop,
                                              ![f].m_unhandled_exception = failed]
    IN  /\ Is(f, "task") /\ Droppable(locals)
        /\ \/ k = noop /\ Return(ended)
           \/ k # noop /\ Is(k, "spawn") /\ SpawnEnds(ended, k, f, failed)
           \/ /\ k # noop /\ ~Is(k, "spawn")
              /\ Transfer([ended EXCEPT ![f].m_unhandled_exception = FALSE,
                                        ![k].awaits = noop], k)

FinishGenerator(failed) ==
    LET f == Actor
        locals == Tree(f) \ {f}
        ended == [Free(frames, locals) EXCEPT ![f].state = "done"]
    IN  /\ Is(f, "generator") /\ Droppable(locals)
        /\ IF failed THEN Escape(ended) ELSE Return(ended)

Finish == \E failed \in BOOLEAN : FinishTask(failed) \/ FinishGenerator(failed)

Acts == /\ ~thrown
        /\ \/ \E kind \in {"task", "generator"} : Create(kind)
           \/ \E f \in Frames : \/ resume(f) \/ resume_coroutine_callback(f) \/ next(f)
                                \/ co_spawn(f) \/ Drop(f) \/ release(f)

Suspends == /\ Actor \in Frames
            /\ \/ Yield \/ Finish
               \/ \E f \in Frames : Await(f) \/ Join(f) \/ YieldTo(f)

-----------------------------------------------------------------------------
(* Properties *)

\* A coroutine waits for a task exactly when the task, not yet done, will continue it:
\* no wakeup is lost, none comes twice, none to a frame that is gone.
AwaitersLinked ==
    \A f, g \in Frames :
        (frames[f].state = "awaiting" /\ frames[f].awaits = g) <=>
        (frames[g].state \notin {"free", "done"} /\ frames[g].m_continuation = f)

\* Every frame has a live owner that will destroy it, but for co_spawn's, which awaits the
\* task it owns and destroys itself: only an exception that leaves it strands the two.
\* Every frame that runs is on the stack, once.
FramesOwned ==
    /\ \A f \in Frames :
        LET r == frames[f] IN
        r.state # "free" =>
            /\ r.owner \in Frames => frames[r.owner].state \notin {"free", "done"}
            /\ r.owner = Nobody => \E g \in Frames :
                  /\ Is(f, "spawn") /\ frames[g].owner = f
                  /\ \/ r.state = "awaiting" /\ r.awaits = g
                     \/ r.state = "escaped" /\ frames[g].state = "done"
    /\ \A f \in Frames : frames[f].state = "running" <=> \E i \in DOMAIN calls : calls[i].cur = f
    /\ \A i, j \in DOMAIN calls : calls[i].cur = calls[j].cur => i = j
    /\ \A i \in DOMAIN calls : calls[i].how = "task" => frames[calls[i].root].state # "free"
=============================================================================
